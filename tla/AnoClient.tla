------------------------------ MODULE AnoClient ------------------------------
(***************************************************************************)
(* The client processes: main of run_client.cpp and the calls of           *)
(* src/client.cpp it makes, in order.  main looks at none of their return  *)
(* values, so every call that fails is followed by the next one.           *)
(***************************************************************************)
EXTENDS Tcp

CONSTANTS
  Requests,      \* what a client may ask for
  FileSizes,     \* sizes of the image file, 0: cannot be read
  Socketless,    \* clients for which socket() may fail
  Mutable,       \* clients whose image file may be rewritten while they run
  Mortal,        \* clients that may be killed
  Stallable      \* clients that may stop, and keep their connection open

ASSUME ClientAssumption ==
  /\ Requests \subseteq [ano_type : AnoTypes, status : Statuses, file_path : Paths]
  /\ FileSizes \subseteq Nat
  /\ Socketless \cup Mutable \cup Mortal \cup Stallable \subseteq Clients

VARIABLES
  cpc,       \* the call main is in
  file,      \* units in the image the client's file holds now
  fileinfo,  \* the request header
  csum,      \* units transferred by the call so far
  cimg,      \* units in the image sendImg has read
  rep,       \* fileinfo_out, the reply header; NoInfo while uninitialised
  img,       \* units in img_res, 0: an empty cv::Mat
  saved,     \* clients for which imwrite reported success
  stalled    \* clients that have stopped

clientVars == <<cpc, file, fileinfo, csum, cimg, rep, img, saved, stalled>>

Ended == {"done", "crashed", "killed"}
ClientStates ==
  {"init", "preprocess", "sendInfo", "imread", "sendImg",
   "recvInfo", "recvImg", "imwrite"} \cup Ended

ClientInit ==
  /\ cpc = [c \in Clients |-> "init"]
  /\ file \in [Clients -> FileSizes]
  /\ fileinfo = [c \in Clients |-> NoInfo]
  /\ csum = [c \in Clients |-> 0]
  /\ cimg = [c \in Clients |-> 0]
  /\ rep = [c \in Clients |-> NoInfo]
  /\ img = [c \in Clients |-> 0]
  /\ saved = {}
  /\ stalled = {}

ClientTypeOK ==
  /\ cpc \in [Clients -> ClientStates]
  /\ file \in [Clients -> Nat]
  /\ fileinfo \in [Clients -> FileInfo \cup {NoInfo}]
  /\ csum \in [Clients -> Nat]
  /\ cimg \in [Clients -> Nat]
  /\ rep \in [Clients -> ResInfo \cup {NoInfo}]
  /\ img \in [Clients -> Nat]
  /\ saved \in SUBSET Clients
  /\ stalled \in SUBSET Clients

-----------------------------------------------------------------------------
Goto(c, state) == cpc' = [cpc EXCEPT ![c] = state]

\* The process ends, and with it its end of the connection.
Exit(c, how) ==
  /\ Goto(c, how)
  /\ cSock' = [cSock EXCEPT ![c] = IF @ = "open" THEN "closed" ELSE @]
  /\ UNCHANGED <<listening, backlog, sSock, upInfo, upSnd, upRcv,
                 downInfo, downSnd, downRcv>>

\* The client's send put k units on the way.
Put(c, k) ==
  /\ upSnd' = [upSnd EXCEPT ![c] = @ + k]
  /\ UNCHANGED <<listening, backlog, cSock, sSock, upRcv, downInfo, downSnd, downRcv>>

\* The client's recv took k units.
Take(c, k) ==
  /\ downRcv' = [downRcv EXCEPT ![c] = @ + k]
  /\ UNCHANGED <<listening, backlog, cSock, sSock, upInfo, upSnd, upRcv,
                 downInfo, downSnd>>

SendFails(c) == cSock[c] = "none" \/ sSock[c] = "closed"
RecvFails(c) == cSock[c] = "none" \/ DownEnds(c)

-----------------------------------------------------------------------------
initClient(c) ==
  /\ cpc[c] = "init"
  /\ Establish(c)
  /\ Goto(c, "preprocess")
  /\ UNCHANGED <<file, fileinfo, csum, cimg, rep, img, saved, stalled,
                 listening, upInfo, upSnd, upRcv, downInfo, downSnd, downRcv>>

\* while (connect(...) == -1);
initClientSpins(c) ==
  /\ cpc[c] = "init" /\ ~CanConnect
  /\ UNCHANGED <<netVars, clientVars>>

\* socket() failed: initClient returns -1, and main works on that descriptor.
initClientFails(c) ==
  /\ cpc[c] = "init" /\ c \in Socketless
  /\ Goto(c, "preprocess")
  /\ UNCHANGED <<netVars, file, fileinfo, csum, cimg, rep, img, saved, stalled>>

\* The header takes its size from the file as it is now.
preprocessFileInfo(c) ==
  /\ cpc[c] = "preprocess"
  /\ Goto(c, "sendInfo")
  /\ \E r \in Requests :
       fileinfo' = [fileinfo EXCEPT ![c] =
         [ano_type |-> r.ano_type, status |-> r.status, file_path |-> r.file_path,
          size |-> file[c], img_type |-> "8UC3"]]
  /\ UNCHANGED <<netVars, file, csum, cimg, rep, img, saved, stalled>>

sendFileInfo(c) ==
  /\ cpc[c] = "sendInfo" /\ cSock[c] = "open" /\ HdrLen <= UpRoom(c)
  /\ Goto(c, "imread")
  /\ Put(c, HdrLen)
  /\ upInfo' = [upInfo EXCEPT ![c] = fileinfo[c]]
  /\ UNCHANGED <<file, fileinfo, csum, cimg, rep, img, saved, stalled>>

sendFileInfoFails(c) ==
  /\ cpc[c] = "sendInfo" /\ SendFails(c)
  /\ Goto(c, "imread")
  /\ UNCHANGED <<netVars, file, fileinfo, csum, cimg, rep, img, saved, stalled>>

\* sendImg reads the file a second time; an empty image is sent at once.
openImg(c) ==
  /\ cpc[c] = "imread"
  /\ cimg' = [cimg EXCEPT ![c] = file[c]]
  /\ Goto(c, IF file[c] = 0 THEN "recvInfo" ELSE "sendImg")
  /\ UNCHANGED <<netVars, file, fileinfo, csum, rep, img, saved, stalled>>

sendImg(c) ==
  /\ cpc[c] = "sendImg" /\ cSock[c] = "open"
  /\ \E k \in Chunk(cimg[c] - csum[c], UpRoom(c)) :
       /\ Put(c, k)
       /\ IF csum[c] + k = cimg[c]
            THEN Goto(c, "recvInfo") /\ csum' = [csum EXCEPT ![c] = 0]
            ELSE cpc' = cpc /\ csum' = [csum EXCEPT ![c] = @ + k]
  /\ UNCHANGED <<upInfo, file, fileinfo, cimg, rep, img, saved, stalled>>

sendImgFails(c) ==
  /\ cpc[c] = "sendImg" /\ SendFails(c)
  /\ Goto(c, "recvInfo")
  /\ csum' = [csum EXCEPT ![c] = 0]
  /\ UNCHANGED <<netVars, file, fileinfo, cimg, rep, img, saved, stalled>>

-----------------------------------------------------------------------------
\* recvFileInfo, when the first recv returns the whole header.
recvFileInfo(c) ==
  /\ cpc[c] = "recvInfo" /\ csum[c] = 0
  /\ HdrLen \in Chunk(HdrLen, DownReady(c))
  /\ Take(c, HdrLen)
  /\ rep' = [rep EXCEPT ![c] = downInfo[c]]
  /\ Goto(c, "recvImg")
  /\ UNCHANGED <<file, fileinfo, csum, cimg, img, saved, stalled>>

recvFileInfoPart(c) ==
  /\ cpc[c] = "recvInfo" /\ csum[c] = 0 /\ HeaderSplits
  /\ \E k \in Chunk(HdrLen - 1, DownReady(c)) :
       Take(c, k) /\ csum' = [csum EXCEPT ![c] = k]
  /\ UNCHANGED <<cpc, file, fileinfo, cimg, rep, img, saved, stalled>>

\* The copy goes to &recvInfo + sum, as in the server: img_type, the last
\* field, keeps its initialiser, and the size what the stack held, unless the
\* first piece was long enough to bring it, or some of the type as well.
SplitReply(info) ==
  LET typed == [info EXCEPT !.img_type = "8UC3"]
  IN  {info, typed} \cup {[typed EXCEPT !.size = n] : n \in JunkSizes}

recvFileInfoRest(c) ==
  /\ cpc[c] = "recvInfo" /\ csum[c] > 0
  /\ \E k \in Chunk(HdrLen - csum[c], DownReady(c)) :
       /\ Take(c, k)
       /\ \/ /\ csum[c] + k < HdrLen
             /\ csum' = [csum EXCEPT ![c] = @ + k]
             /\ UNCHANGED <<cpc, rep>>
          \/ /\ csum[c] + k = HdrLen
             /\ csum' = [csum EXCEPT ![c] = 0]
             /\ \E info \in SplitReply(downInfo[c]) : rep' = [rep EXCEPT ![c] = info]
             /\ Goto(c, "recvImg")
  /\ UNCHANGED <<file, fileinfo, cimg, img, saved, stalled>>

recvFileInfoOverrun(c) ==
  /\ cpc[c] = "recvInfo" /\ csum[c] > 0 /\ DownReady(c) > 0
  /\ Exit(c, "crashed")
  /\ UNCHANGED <<file, fileinfo, csum, cimg, rep, img, saved, stalled>>

recvFileInfoFails(c) ==
  /\ cpc[c] = "recvInfo" /\ RecvFails(c)
  /\ Goto(c, "recvImg")
  /\ csum' = [csum EXCEPT ![c] = 0]
  /\ UNCHANGED <<netVars, file, fileinfo, cimg, rep, img, saved, stalled>>

\* Faulty variant: whatever the first recv returns is taken for the image.
recvImgOnce(c) ==
  /\ cpc[c] = "recvImg" /\ rep[c] # NoInfo
  /\ \E k \in Chunk(rep[c].size, DownReady(c)) :
       /\ Take(c, k)
       /\ Goto(c, "imwrite")
       /\ img' = [img EXCEPT ![c] = k]
  /\ UNCHANGED <<csum, file, fileinfo, cimg, rep, saved, stalled>>

recvImg(c) ==
  /\ cpc[c] = "recvImg" /\ rep[c] # NoInfo
  /\ \E k \in Chunk(rep[c].size - csum[c], DownReady(c)) :
       /\ Take(c, k)
       /\ IF csum[c] + k = rep[c].size
            THEN /\ Goto(c, "imwrite")
                 /\ csum' = [csum EXCEPT ![c] = 0]
                 /\ img' = [img EXCEPT ![c] = rep[c].size]
            ELSE /\ csum' = [csum EXCEPT ![c] = @ + k]
                 /\ UNCHANGED <<cpc, img>>
  /\ UNCHANGED <<file, fileinfo, cimg, rep, saved, stalled>>

\* The server is gone, or recv was asked for nothing and returned as much.
recvImgFails(c) ==
  /\ cpc[c] = "recvImg"
  /\ \/ RecvFails(c)
     \/ rep[c] # NoInfo /\ rep[c].size = 0 /\ DownReady(c) > 0
  /\ Goto(c, "imwrite")
  /\ csum' = [csum EXCEPT ![c] = 0]
  /\ UNCHANGED <<netVars, file, fileinfo, cimg, rep, img, saved, stalled>>

\* As in the server's RecvImg; an uninitialised length may be negative too.
recvImgCrashes(c) ==
  /\ cpc[c] = "recvImg"
  /\ \/ rep[c] = NoInfo
     \/ rep[c] # NoInfo /\ rep[c].size < 0
     \/ /\ rep[c] # NoInfo /\ rep[c].img_type = "junk" /\ rep[c].size > 0
        /\ rep[c].size - csum[c] <= DownReady(c)
  /\ Exit(c, "crashed")
  /\ UNCHANGED <<file, fileinfo, csum, cimg, rep, img, saved, stalled>>

\* imwrite reports whether it could write, main prints "img already saved in
\* demo" either way.
saveImg(c) ==
  /\ cpc[c] = "imwrite" /\ img[c] > 0
  /\ Exit(c, "done")
  /\ \E ok \in BOOLEAN : saved' = IF ok THEN saved \cup {c} ELSE saved
  /\ UNCHANGED <<file, fileinfo, csum, cimg, rep, img, stalled>>

\* imwrite of an empty image throws.
saveImgCrashes(c) ==
  /\ cpc[c] = "imwrite" /\ img[c] = 0
  /\ Exit(c, "crashed")
  /\ UNCHANGED <<file, fileinfo, csum, cimg, rep, img, saved, stalled>>

-----------------------------------------------------------------------------
main(c) ==
  /\ c \notin stalled
  /\ \/ initClient(c) \/ initClientSpins(c) \/ initClientFails(c)
     \/ preprocessFileInfo(c) \/ sendFileInfo(c) \/ sendFileInfoFails(c)
     \/ openImg(c) \/ sendImg(c) \/ sendImgFails(c)
     \/ recvFileInfo(c) \/ recvFileInfoPart(c) \/ recvFileInfoRest(c)
     \/ recvFileInfoOverrun(c) \/ recvFileInfoFails(c)
     \/ recvImg(c) \/ recvImgFails(c) \/ recvImgCrashes(c)
     \/ saveImg(c) \/ saveImgCrashes(c)

-----------------------------------------------------------------------------
(***************************************************************************)
(* What may happen to a client from outside.  None of it is ever forced.   *)
(***************************************************************************)
Kill(c) ==
  /\ c \in Mortal /\ cpc[c] \notin Ended
  /\ Exit(c, "killed")
  /\ UNCHANGED <<file, fileinfo, csum, cimg, rep, img, saved, stalled>>

\* A stopped process, a hung disk, or a network that no longer delivers.
Stall(c) ==
  /\ c \in Stallable \ stalled /\ cpc[c] \notin Ended
  /\ stalled' = stalled \cup {c}
  /\ UNCHANGED <<netVars, cpc, file, fileinfo, csum, cimg, rep, img, saved>>

ReplaceFile(c) ==
  /\ c \in Mutable /\ cpc[c] \notin Ended
  /\ \E n \in FileSizes \ {file[c]} : file' = [file EXCEPT ![c] = n]
  /\ UNCHANGED <<netVars, cpc, fileinfo, csum, cimg, rep, img, saved, stalled>>

Outside(c) == Kill(c) \/ Stall(c) \/ ReplaceFile(c)

=============================================================================
