------------------------------ MODULE AnoServer ------------------------------
(***************************************************************************)
(* The server process: main of ano_detect_main.cpp, which loads the model  *)
(* and calls AnoServer::Analyse, a loop that serves one connection at a    *)
(* time (src/server.cpp).  One action per call that Analyse makes, each    *)
(* with the early returns and "continue"s that follow it.                  *)
(***************************************************************************)
EXTENDS Tcp

CONSTANTS
  NoClient,      \* no session is being served
  Prompt,        \* clients that never leave the server waiting for 10 seconds
  ModelFiles,    \* what ./engine/model640.engine may turn out to be
  Results,       \* what recognition may find
  LocalImages,   \* sizes of images on the server's disk, 0: cannot be read
  Thin           \* sizes of images over 1280 times as long as wide, or as wide as long

ASSUME ServerAssumption ==
  /\ NoClient \notin Clients
  /\ ModelFiles \subseteq {"good", "absent", "unreadable", "corrupt"}
  /\ Results \subseteq {"empty", "short", "long"}
  /\ LocalImages \subseteq Nat
  /\ Thin \subseteq Nat \ {0}

VARIABLES
  srv,        \* the call Analyse is in
  engine640,  \* DeepNet::engine640_ is not null
  cur,        \* the client behind new_server_socket
  sum,        \* units transferred by the call so far
  recvInfo,   \* the request header as it stands in memory
  image,      \* units in the image to recognise, 0: an empty cv::Mat
  res,        \* what recognition found
  dst,        \* units in the image with the boxes drawn, 0: an empty cv::Mat
  sendInfo,   \* the reply header
  success     \* clients for which "Send Res Img Success!" was logged

sessionVars == <<cur, sum, recvInfo, image, res, dst, sendInfo>>
serverVars == <<srv, engine640, sessionVars, success>>

\* The calls during which a connection is being served.
Serving == {"recvInfo", "recvImg", "imread", "recognize", "createInfo",
            "sendInfo", "sendImg", "imwrite", "finish"}
ServerStates ==
  Serving \cup {"load", "init", "accept", "closing", "stopped", "crashed"}

ServerInit ==
  /\ srv = "load"
  /\ engine640 = FALSE
  /\ cur = NoClient
  /\ sum = 0
  /\ recvInfo = NoInfo
  /\ image = 0
  /\ res = "none"
  /\ dst = 0
  /\ sendInfo = NoInfo
  /\ success = {}

ServerTypeOK ==
  /\ srv \in ServerStates
  /\ engine640 \in BOOLEAN
  /\ cur \in Clients \cup {NoClient}
  /\ sum \in Nat
  /\ recvInfo \in FileInfo \cup {NoInfo}
  /\ image \in Nat
  /\ res \in {"none", "empty", "short", "long"}
  /\ dst \in Nat
  /\ sendInfo \in ResInfo \cup {NoInfo}
  /\ success \in SUBSET Clients

-----------------------------------------------------------------------------
\* Every path out of a session deletes recvInfo and the locals of the loop.
ClearSession ==
  /\ cur' = NoClient
  /\ sum' = 0
  /\ recvInfo' = NoInfo
  /\ image' = 0
  /\ res' = "none"
  /\ dst' = 0
  /\ sendInfo' = NoInfo

\* delete recvInfo; close_sock(new_server_socket); continue;
EndSession ==
  /\ srv' = "accept"
  /\ sSock' = [sSock EXCEPT ![cur] = "closed"]
  /\ ClearSession
  /\ UNCHANGED <<engine640, listening, backlog>>

\* A null dereference, an uncaught exception or a fatal signal.
Crash ==
  /\ srv' = "crashed"
  /\ CloseAllServerSockets
  /\ ClearSession
  /\ UNCHANGED <<engine640, success, cSock, upInfo, upSnd, upRcv,
                 downInfo, downSnd, downRcv>>

\* Faulty variant: a "continue" without the close_sock before it.
DropSessionLeaks ==
  /\ srv' = "accept"
  /\ ClearSession
  /\ UNCHANGED <<netVars, engine640, success>>

\* Fails a session without touching the streams.
DropSession ==
  /\ EndSession
  /\ UNCHANGED <<success, cSock, upInfo, upSnd, upRcv, downInfo, downSnd, downRcv>>

\* A step inside a session that leaves the network alone.
Compute == UNCHANGED <<netVars, engine640, cur, success>>

-----------------------------------------------------------------------------
(***************************************************************************)
(* DeepNet::load_model.  A file that is missing is skipped and counts as   *)
(* loaded; one that cannot be read leaves engine640_ null, and main        *)
(* returns; one that does not deserialise is a null engine, on which       *)
(* loadEngine calls createExecutionContext.                                *)
(***************************************************************************)
LoadModel ==
  /\ srv = "load"
  /\ \E file \in ModelFiles :
       /\ engine640' = (file = "good")
       /\ srv' = CASE file \in {"good", "absent"} -> "init"
                   [] file = "unreadable" -> "stopped"
                   [] file = "corrupt" -> "crashed"
  /\ UNCHANGED <<netVars, sessionVars, success>>

InitServer ==
  /\ srv = "init"
  /\ srv' = "accept"
  /\ listening' = TRUE
  /\ UNCHANGED <<engine640, sessionVars, success, backlog, cSock, sSock,
                 upInfo, upSnd, upRcv, downInfo, downSnd, downRcv>>

\* bind or listen failed: Analyse returns, and main with it.
InitServerFails ==
  /\ srv = "init"
  /\ srv' = "stopped"
  /\ UNCHANGED <<netVars, engine640, sessionVars, success>>

Connect2Client ==
  /\ srv = "accept" /\ backlog # <<>>
  /\ srv' = "recvInfo"
  /\ cur' = Head(backlog)
  /\ backlog' = Tail(backlog)
  /\ sSock' = [sSock EXCEPT ![Head(backlog)] = "open"]
  /\ UNCHANGED <<engine640, sum, recvInfo, image, res, dst, sendInfo, success,
                 listening, cSock, upInfo, upSnd, upRcv, downInfo, downSnd, downRcv>>

\* accept returned -1: close_sock(-1), and the loop goes round.
Connect2ClientFails == srv = "accept" /\ UNCHANGED <<netVars, serverVars>>

-----------------------------------------------------------------------------
AfterHeader(info) == IF info.status = "local" THEN "imread" ELSE "recvImg"

\* The server's recv took k units.
Received(k) ==
  /\ upRcv' = [upRcv EXCEPT ![cur] = @ + k]
  /\ UNCHANGED <<listening, backlog, cSock, sSock, upInfo, upSnd,
                 downInfo, downSnd, downRcv>>

\* RecvFileInfo, when the first recv returns the whole header.
RecvFileInfo ==
  /\ srv = "recvInfo" /\ sum = 0
  /\ HdrLen \in Chunk(HdrLen, UpReady(cur))
  /\ Received(HdrLen)
  /\ recvInfo' = upInfo[cur]
  /\ srv' = AfterHeader(recvInfo')
  /\ UNCHANGED <<engine640, cur, sum, image, res, dst, sendInfo, success>>

(***************************************************************************)
(* When it returns less, the loop reads the rest, and copies it to         *)
(* recvInfo + sum: sum headers past the header, not sum bytes.  The fields *)
(* that had not arrived keep what new FileInfo found in memory, the size   *)
(* among them, and the copy lands on the heap, where it may be fatal.      *)
(***************************************************************************)
RecvFileInfoPart ==
  /\ srv = "recvInfo" /\ sum = 0 /\ HeaderSplits
  /\ \E k \in Chunk(HdrLen - 1, UpReady(cur)) : Received(k) /\ sum' = k
  /\ UNCHANGED <<srv, engine640, cur, recvInfo, image, res, dst, sendInfo, success>>

Memory == [ano_type : AnoTypes, status : Statuses, file_path : Paths,
           size : JunkSizes, img_type : {"junk"}]

\* The header's first fields as sent, the others as they were in memory.
SplitHeader(info) ==
  UNION {{[info EXCEPT !.img_type = m.img_type],
          [info EXCEPT !.img_type = m.img_type, !.size = m.size],
          [m EXCEPT !.ano_type = info.ano_type, !.status = info.status],
          [m EXCEPT !.ano_type = info.ano_type],
          m} : m \in Memory}

RecvFileInfoRest ==
  /\ srv = "recvInfo" /\ sum > 0
  /\ \E k \in Chunk(HdrLen - sum, UpReady(cur)) :
       /\ Received(k)
       /\ \/ /\ sum + k < HdrLen
             /\ sum' = sum + k
             /\ UNCHANGED <<srv, recvInfo>>
          \/ /\ sum + k = HdrLen
             /\ sum' = 0
             /\ recvInfo' \in SplitHeader(upInfo[cur])
             /\ srv' = AfterHeader(recvInfo')
  /\ UNCHANGED <<engine640, cur, image, res, dst, sendInfo, success>>

RecvFileInfoOverrun ==
  /\ srv = "recvInfo" /\ sum > 0 /\ UpReady(cur) > 0
  /\ Crash

\* Faulty variant: SO_RCVTIMEO is never set.
RecvFileInfoFailsOnlyAtEnd == srv = "recvInfo" /\ UpEnds(cur) /\ DropSession

\* The peer is gone, or SO_RCVTIMEO ran out.
RecvFileInfoFails ==
  /\ srv = "recvInfo"
  /\ \/ UpEnds(cur)
     \/ UpReady(cur) = 0 /\ cur \notin Prompt
  /\ DropSession

-----------------------------------------------------------------------------
\* Faulty variant: sum = length instead of sum += length.
RecvImgForgetsSum ==
  /\ srv = "recvImg"
  /\ \E k \in Chunk(recvInfo.size - sum, UpReady(cur)) :
       /\ Received(k)
       /\ IF k = recvInfo.size
            THEN srv' = "recognize" /\ image' = recvInfo.size /\ sum' = 0
            ELSE srv' = srv /\ image' = image /\ sum' = k
  /\ UNCHANGED <<engine640, cur, recvInfo, res, dst, sendInfo, success>>

\* Faulty variant: while (sum <= total).
RecvImgOneMore ==
  /\ srv = "recvImg"
  /\ \E k \in Chunk(recvInfo.size + 1 - sum, UpReady(cur)) :
       /\ Received(k)
       /\ IF sum + k > recvInfo.size
            THEN srv' = "recognize" /\ image' = recvInfo.size /\ sum' = 0
            ELSE srv' = srv /\ image' = image /\ sum' = sum + k
  /\ UNCHANGED <<engine640, cur, recvInfo, res, dst, sendInfo, success>>

\* RecvImg has no timeout: the calls that would set one are commented out.
RecvImg ==
  /\ srv = "recvImg"
  /\ \E k \in Chunk(recvInfo.size - sum, UpReady(cur)) :
       /\ Received(k)
       /\ IF sum + k = recvInfo.size
            THEN srv' = "recognize" /\ image' = recvInfo.size /\ sum' = 0
            ELSE srv' = srv /\ image' = image /\ sum' = sum + k
  /\ UNCHANGED <<engine640, cur, recvInfo, res, dst, sendInfo, success>>

\* Faulty variant: Analyse does not look at what RecvImg returned.
RecvImgFailsGoesOn ==
  /\ srv = "recvImg" /\ UpEnds(cur)
  /\ srv' = "recognize"
  /\ Compute /\ UNCHANGED <<sum, recvInfo, image, res, dst, sendInfo>>

\* The peer is gone, or recv was asked for nothing and returned as much.
RecvImgFails ==
  /\ srv = "recvImg"
  /\ \/ UpEnds(cur)
     \/ recvInfo.size = 0 /\ UpReady(cur) > 0
  /\ DropSession

(***************************************************************************)
(* A negative length makes new throw; an img_type with fewer bytes to the  *)
(* pixel than img_channels makes the memcpy into img run over its end.     *)
(***************************************************************************)
RecvImgCrashes ==
  /\ srv = "recvImg"
  /\ \/ recvInfo.size < 0
     \/ /\ recvInfo.img_type = "junk" /\ recvInfo.size > 0
        /\ recvInfo.size - sum <= UpReady(cur)
  /\ Crash

\* status "local": the image is a file of the server.
ReadLocalImage ==
  /\ srv = "imread"
  /\ srv' = "recognize"
  /\ image' \in LocalImages
  /\ Compute /\ UNCHANGED <<sum, recvInfo, res, dst, sendInfo>>

(***************************************************************************)
(* The task Yolov5::Recognize hands to Detect.  A request that names the   *)
(* registry's own key leaves taskType unwritten.                           *)
(***************************************************************************)
TaskTypes(anoType) ==
  CASE anoType = "ForeignBody" -> {0}
    [] anoType = "GroundWater" -> {1}
    [] OTHER -> {0, 1, 2}

(***************************************************************************)
(* Task 1 runs on the 640 engine; cv::cvtColor wants an image, and         *)
(* cv::resize one whose shorter side is not nothing once the longer one    *)
(* has been made 640.  No one catches what they throw.                     *)
(***************************************************************************)
CanDetect == engine640 /\ image > 0 /\ image \notin Thin

(***************************************************************************)
(* What Detect may find.  Task 0 needs the 896 engine, which load_model no *)
(* longer loads; any other task looks at nothing and finds nothing.        *)
(***************************************************************************)
Detect(task) ==
  CASE task = 0 -> {}
    [] task = 1 -> IF CanDetect THEN Results ELSE {}
    [] OTHER -> {"empty"}

Registered == getRecognize(RegistryKey(recvInfo.ano_type)) = "Yolov5"

\* Faulty variant: a length of -1 stands for no image.
RecognizeSentinel ==
  /\ srv = "recognize" /\ Registered
  /\ srv' = "createInfo"
  /\ \E task \in TaskTypes(recvInfo.ano_type) : res' \in Detect(task)
  /\ dst' = IF res' = "empty" THEN -1 ELSE image
  /\ Compute /\ UNCHANGED <<sum, recvInfo, image, sendInfo>>

Recognize ==
  /\ srv = "recognize" /\ Registered
  /\ srv' = "createInfo"
  /\ \E task \in TaskTypes(recvInfo.ano_type) : res' \in Detect(task)
  /\ dst' = IF res' = "empty" THEN 0 ELSE image
  /\ Compute /\ UNCHANGED <<sum, recvInfo, image, sendInfo>>

\* A null Recognition*, a null engine, or an image cvtColor or resize throws
\* on: an empty one, a thin one, or a received one whose type does not have
\* its number of channels.
RecognizeCrashes ==
  /\ srv = "recognize"
  /\ \/ ~Registered
     \/ \E task \in TaskTypes(recvInfo.ano_type) :
          \/ task = 0
          \/ task = 1 /\ ~CanDetect
          \/ task = 1 /\ recvInfo.status # "local" /\ recvInfo.img_type = "junk"
  /\ Crash

-----------------------------------------------------------------------------
(***************************************************************************)
(* The reply's size is read off dst, but a list of labels longer than      *)
(* ano_res runs into the size behind it; and the channels come from the    *)
(* request header, which a split may have left unwritten.                  *)
(***************************************************************************)
ReplySizes ==
  (IF res = "long" THEN JunkSizes ELSE {dst})
    \cup (IF recvInfo.img_type = "junk" THEN JunkSizes ELSE {})

CreateInfo ==
  /\ srv = "createInfo" /\ recvInfo.file_path # "short"
  /\ srv' = "sendInfo"
  /\ \E n \in ReplySizes :
       sendInfo' = [ano_res |-> IF res = "empty" THEN "empty" ELSE "found",
                    size |-> n, img_type |-> recvInfo.img_type]
  /\ Compute /\ UNCHANGED <<sum, recvInfo, image, res, dst>>

\* replace(strlen - 4, ...) throws; a long enough list leaves the stack frame.
CreateInfoCrashes ==
  /\ srv = "createInfo"
  /\ recvInfo.file_path = "short" \/ res = "long"
  /\ Crash

\* The server's send put k units on the way.
Sent(k) ==
  /\ downSnd' = [downSnd EXCEPT ![cur] = @ + k]
  /\ UNCHANGED <<listening, backlog, cSock, sSock, upInfo, upSnd, upRcv, downRcv>>

\* Faulty variant: compare("empty") without the "!= 0".
SendFileInfoInverted ==
  /\ srv = "sendInfo" /\ HdrLen <= DownRoom(cur)
  /\ Sent(HdrLen)
  /\ downInfo' = [downInfo EXCEPT ![cur] = sendInfo]
  /\ srv' = IF sendInfo.ano_res # "empty" THEN "finish" ELSE "sendImg"
  /\ UNCHANGED <<engine640, sessionVars, success>>

SendFileInfo ==
  /\ srv = "sendInfo" /\ HdrLen <= DownRoom(cur)
  /\ Sent(HdrLen)
  /\ downInfo' = [downInfo EXCEPT ![cur] = sendInfo]
  /\ srv' = CASE recvInfo.status = "local" -> "imwrite"
              [] recvInfo.status # "local" /\ sendInfo.ano_res = "empty" -> "finish"
              [] OTHER -> "sendImg"
  /\ UNCHANGED <<engine640, sessionVars, success>>

SendFileInfoFails ==
  /\ srv = "sendInfo" /\ cSock[cur] = "closed"
  /\ DropSession

\* Faulty variant: a send that takes part of the image ends the session.
SendImgNonBlocking ==
  /\ srv = "sendImg"
  /\ \E k \in Chunk(dst - sum, DownRoom(cur)) :
       /\ downSnd' = [downSnd EXCEPT ![cur] = @ + k]
       /\ IF k = dst
            THEN /\ srv' = "finish" /\ sum' = k
                 /\ UNCHANGED <<listening, backlog, sSock, engine640, cur, recvInfo,
                                image, res, dst, sendInfo>>
            ELSE EndSession
  /\ UNCHANGED <<success, cSock, upInfo, upSnd, upRcv, downInfo, downRcv>>

\* One send of the whole image, which the kernel takes as room appears.
SendImg ==
  /\ srv = "sendImg"
  /\ \E k \in Chunk(dst - sum, DownRoom(cur)) :
       /\ Sent(k)
       /\ sum' = sum + k
       /\ srv' = IF sum' = dst THEN "finish" ELSE "sendImg"
  /\ UNCHANGED <<engine640, cur, recvInfo, image, res, dst, sendInfo, success, downInfo>>

\* Faulty variant: Analyse does not look at what SendImg returned.
SendImgFailsGoesOn ==
  /\ srv = "sendImg"
  /\ \/ cSock[cur] = "closed"
     \/ DownRoom(cur) = 0 /\ cur \notin Prompt
  /\ srv' = "finish"
  /\ Compute /\ UNCHANGED <<sum, recvInfo, image, res, dst, sendInfo>>

\* The peer is gone, or SO_SNDTIMEO ran out with part of the image sent.
SendImgFails ==
  /\ srv = "sendImg"
  /\ \/ cSock[cur] = "closed"
     \/ DownRoom(cur) = 0 /\ cur \notin Prompt
  /\ DropSession

\* imwrite's own result is ignored, but it throws on an empty image.
WriteLocalImage ==
  /\ srv = "imwrite" /\ dst > 0
  /\ srv' = "finish"
  /\ Compute /\ UNCHANGED <<sum, recvInfo, image, res, dst, sendInfo>>

WriteLocalImageCrashes == srv = "imwrite" /\ dst = 0 /\ Crash

\* Faulty variant: the socket is never closed.
FinishSessionLeaks ==
  /\ srv = "finish"
  /\ success' = success \cup {cur}
  /\ ClearSession
  /\ srv' = "accept"
  /\ UNCHANGED <<netVars, engine640>>

\* Faulty variant: the connection is kept for another request.
FinishSessionKeepsClient ==
  /\ srv = "finish"
  /\ success' = success \cup {cur}
  /\ srv' = "recvInfo"
  /\ UNCHANGED <<netVars, engine640, sessionVars>>

\* The success line, the close, and a read of recvInfo->status after delete
\* recvInfo: a request that was not local cannot turn into one by that, but
\* a local one may no longer read as such.
FinishSession ==
  /\ srv = "finish"
  /\ success' = success \cup {cur}
  /\ sSock' = [sSock EXCEPT ![cur] = "closed"]
  /\ ClearSession
  /\ \/ srv' = "accept"
     \/ recvInfo.status = "local" /\ srv' = "closing"
  /\ UNCHANGED <<engine640, listening, backlog, cSock, upInfo, upSnd, upRcv,
                 downInfo, downSnd, downRcv>>

\* close_sock(server_socket), and main returns.
CloseServer ==
  /\ srv = "closing"
  /\ srv' = "stopped"
  /\ CloseAllServerSockets
  /\ UNCHANGED <<engine640, sessionVars, success, cSock, upInfo, upSnd, upRcv,
                 downInfo, downSnd, downRcv>>

-----------------------------------------------------------------------------
Analyse ==
  \/ LoadModel \/ InitServer \/ InitServerFails
  \/ Connect2Client \/ Connect2ClientFails
  \/ RecvFileInfo \/ RecvFileInfoPart \/ RecvFileInfoRest
  \/ RecvFileInfoOverrun \/ RecvFileInfoFails
  \/ RecvImg \/ RecvImgFails \/ RecvImgCrashes \/ ReadLocalImage
  \/ Recognize \/ RecognizeCrashes \/ CreateInfo \/ CreateInfoCrashes
  \/ SendFileInfo \/ SendFileInfoFails \/ SendImg \/ SendImgFails
  \/ WriteLocalImage \/ WriteLocalImageCrashes
  \/ FinishSession \/ CloseServer

=============================================================================
