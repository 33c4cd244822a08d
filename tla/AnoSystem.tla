------------------------------ MODULE AnoSystem ------------------------------
(***************************************************************************)
(* AnoServer.bin and any number of AnoClient.bin processes, on the         *)
(* connections between them.                                               *)
(***************************************************************************)
EXTENDS AnoServer, AnoClient

vars == <<netVars, serverVars, clientVars>>

Init == NetInit /\ ServerInit /\ ClientInit

ServerStep == Analyse /\ UNCHANGED clientVars
ClientStep(c) == main(c) /\ UNCHANGED serverVars
OutsideStep(c) == Outside(c) /\ UNCHANGED serverVars

ServerOver == srv \in {"stopped", "crashed"}

\* Nothing restarts a server that has ended.
Over ==
  /\ ServerOver /\ \A c \in Clients : cpc[c] \in Ended
  /\ UNCHANGED vars

Next ==
  \/ ServerStep
  \/ \E c \in Clients : ClientStep(c) \/ OutsideStep(c)
  \/ Over

Spec == Init /\ [][Next]_vars

(***************************************************************************)
(* Each process runs while it can: the server has one thread that serves,  *)
(* the kernel wakes a call when there is data, room or a timeout, and no   *)
(* process waits for a lock that another holds.  Nothing obliges the       *)
(* outside world to do anything.                                           *)
(***************************************************************************)
Fairness == WF_vars(ServerStep) /\ \A c \in Clients : WF_vars(ClientStep(c))

FairSpec == Spec /\ Fairness

-----------------------------------------------------------------------------
TypeOK == NetTypeOK /\ ServerTypeOK /\ ClientTypeOK

(***************************************************************************)
(* No path through Analyse, of the twelve that end a session, leaks its    *)
(* socket or closes one twice: the server's open connection is the one it  *)
(* is serving, and the connections it has not accepted are exactly those   *)
(* in the listen queue, each once.                                         *)
(***************************************************************************)
SocketsAccounted ==
  /\ cur # NoClient <=> srv \in Serving
  /\ \A c \in Clients :
       /\ sSock[c] = "open" <=> c = cur
       /\ sSock[c] = "queued" <=> \E i \in DOMAIN backlog : backlog[i] = c
  /\ \A i, j \in DOMAIN backlog : backlog[i] = backlog[j] => i = j

(***************************************************************************)
(* Both sides stay aligned with the stream they read and write, whatever   *)
(* pieces TCP cuts it into: a call that has transferred sum units of an    *)
(* image is sum units past the header.  This is what the loops of          *)
(* RecvFileInfo, RecvImg and their counterparts in the client are for.     *)
(***************************************************************************)
Framing ==
  /\ srv = "recvInfo" => upRcv[cur] = sum
  /\ srv = "recvImg" => upRcv[cur] = HdrLen + sum
  /\ srv = "sendImg" => downSnd[cur] = HdrLen + sum
  /\ \A c \in Clients :
       /\ cpc[c] = "recvInfo" => downRcv[c] = csum[c]
       /\ cpc[c] = "recvImg" /\ rep[c] # NoInfo => downRcv[c] = HdrLen + csum[c]

(***************************************************************************)
(* "Send Res Img Success!" is the truth about a request that is not local: *)
(* the stream to that client holds a header and exactly the pixels that    *)
(* the header announces, none when nothing was found.                      *)
(***************************************************************************)
SuccessMeansReplied ==
  \A c \in success :
    upInfo[c].status # "local" =>
      downInfo[c] # NoInfo /\ downSnd[c] = HdrLen + downInfo[c].size

(***************************************************************************)
(* A client that gets as far as "img already saved in demo" holds an image *)
(* of the size of the one it announced: its own, and whole.                *)
(***************************************************************************)
SavedImageIsOwn ==
  \A c \in Clients : cpc[c] = "done" => img[c] = fileinfo[c].size

\* A picture that cv::resize throws on has been received whole, and its
\* client has no reply.
ThinArrived ==
  \E c \in Clients \ success :
    /\ upInfo[c] # NoInfo /\ upInfo[c].size \in Thin
    /\ upRcv[c] = HdrLen + upInfo[c].size

(***************************************************************************)
(* Clients that die, stop, or change their minds about the image cannot    *)
(* bring the server down: every error of recv and send leads back to       *)
(* accept, and none to a recognition of an image that never arrived.  What *)
(* can is a whole picture, more than 1280 times as long as wide.           *)
(***************************************************************************)
OnlyThinPicturesCrash == srv = "crashed" => ThinArrived

(***************************************************************************)
(* The server and its client wait for each other, each in recv, with       *)
(* nothing on the way: for ever, since RecvImg has no timeout and neither  *)
(* does the client.                                                        *)
(***************************************************************************)
MutualWait ==
  /\ srv = "recvImg" /\ recvInfo.size >= 0 /\ UpReady(cur) = 0
  /\ cpc[cur] = "recvInfo" /\ DownReady(cur) = 0

\* Each is in send, with an image, and the kernels have no room for either:
\* what SO_SNDTIMEO is there for.
MutualSend ==
  /\ srv = "sendImg" /\ DownRoom(cur) = 0
  /\ cpc[cur] = "sendImg" /\ UpRoom(cur) = 0

(***************************************************************************)
(* The guards of the calls of a session: those that recv and send may wait *)
(* in, and those that always return.                                       *)
(***************************************************************************)
ServerMay ==
  \/ srv \in {"imread", "recognize", "createInfo", "imwrite", "finish"}
  \/ /\ srv = "recvInfo"
     /\ \/ UpEnds(cur) \/ (UpReady(cur) = 0 /\ cur \notin Prompt)
        \/ sum = 0 /\ HdrLen <= UpReady(cur)
        \/ (HeaderSplits \/ sum > 0) /\ UpReady(cur) > 0
  \/ /\ srv = "recvImg"
     /\ \/ UpEnds(cur) \/ recvInfo.size < 0
        \/ UpReady(cur) > 0 /\ (recvInfo.size = 0 \/ sum < recvInfo.size)
  \/ srv = "sendInfo" /\ (cSock[cur] = "closed" \/ HdrLen <= DownRoom(cur))
  \/ /\ srv = "sendImg"
     /\ \/ cSock[cur] = "closed" \/ (DownRoom(cur) = 0 /\ cur \notin Prompt)
        \/ DownRoom(cur) > 0 /\ sum < dst

ClientMay(c) ==
  /\ c \notin stalled
  /\ \/ cpc[c] \in {"init", "preprocess", "imread", "imwrite"}
     \/ cpc[c] = "sendInfo" /\ (SendFails(c) \/ (cSock[c] = "open" /\ HdrLen <= UpRoom(c)))
     \/ /\ cpc[c] = "sendImg"
        /\ SendFails(c) \/ (cSock[c] = "open" /\ UpRoom(c) > 0 /\ csum[c] < cimg[c])
     \/ /\ cpc[c] = "recvInfo"
        /\ \/ RecvFails(c) \/ (csum[c] = 0 /\ HdrLen <= DownReady(c))
           \/ (HeaderSplits \/ csum[c] > 0) /\ DownReady(c) > 0
     \/ /\ cpc[c] = "recvImg"
        /\ \/ RecvFails(c) \/ rep[c] = NoInfo \/ rep[c].size < 0
           \/ DownReady(c) > 0 /\ (rep[c].size = 0 \/ csum[c] < rep[c].size)

(***************************************************************************)
(* Nothing else stops a session in which both processes are alive, and it  *)
(* takes a header that disagrees with the pixels behind it: the file was   *)
(* rewritten between the client's two reads of it, or could not be read at *)
(* all, or the header lost its size on the way.                            *)
(***************************************************************************)
OnlyMutualWaits ==
  srv \in Serving /\ cur \notin stalled /\ ~ServerMay /\ ~ClientMay(cur) =>
    \/ MutualWait /\ (recvInfo.size > cimg[cur] \/ recvInfo.size = 0)
    \/ MutualSend /\ cur \in Prompt /\ recvInfo.size < cimg[cur]

\* And the guards are those of the actions: a process that may not move has
\* no action that is enabled.
OnlyMutualWaitsBlock ==
  /\ OnlyMutualWaits
  /\ srv \in Serving =>
       (ServerMay <=> ENABLED ServerStep) /\ (ClientMay(cur) <=> ENABLED ClientStep(cur))

(***************************************************************************)
(* With an image that can be read and does not change, and a model that is *)
(* there, a client fails only over a photograph with nothing in it: the    *)
(* server then sends no image, and imwrite throws; or because the server   *)
(* died of a picture, its own or another's, that was too thin to resize.   *)
(***************************************************************************)
OnlyEmptyResultsFail ==
  \A c \in Clients :
    cpc[c] = "crashed" =>
      \/ c \in success /\ downInfo[c].ano_res = "empty"
      \/ srv = "crashed" /\ ThinArrived

(***************************************************************************)
(* "<load model>load GroundWater model successful!" and, after it, "ALL    *)
(* modl load successful!": a server that is up has an engine to run.       *)
(***************************************************************************)
LoadedModelIsThere == listening => engine640

-----------------------------------------------------------------------------
\* Every connection that is queued is answered in the end, unless a picture
\* too thin to resize brings the server down first.
QueuedIsAnswered ==
  \A c \in Clients :
    sSock[c] = "queued" ~> c \in success \/ (srv = "crashed" /\ ThinArrived)

\* A client that has connected does not wait for ever, even if the server
\* goes down on the way, unless it or another one stops.
ConnectedClientEnds ==
  \A c \in Clients : cpc[c] = "preprocess" ~> cpc[c] \in Ended \/ stalled # {}

(***************************************************************************)
(* Of the calls on which a stopped client could keep the server, the       *)
(* timeouts cover all but RecvImg: a server that stays in one call for     *)
(* ever is not in a session any more, or is in RecvImg, where the client   *)
(* has stopped or waits for the server.                                    *)
(***************************************************************************)
MayStay ==
  \/ srv \notin Serving
  \/ srv = "recvImg" /\ (cur \in stalled \/ MutualWait)

HangsOnlyInRecvImg == []<><<srv' # srv>>_srv \/ []<>MayStay

-----------------------------------------------------------------------------
\* The server, seen as the service it provides.
Outcome ==
  [c \in Clients |-> CASE c \in success -> "answered"
                       [] c \notin success /\ sSock[c] = "closed" -> "dropped"
                       [] OTHER -> "none"]

RS == INSTANCE RequestService WITH
  MaxQueue <- MaxBacklog, queue <- backlog, current <- cur,
  outcome <- Outcome, halted <- ServerOver

\* One request at a time, in the order of the connections, each ended once.
ServesRequests == RS!RSSpec

\* And none of them is kept waiting for ever.
ServesAllRequests == RS!RSLiveSpec

=============================================================================
