--------------------------- MODULE AnoSystemProofs ---------------------------
(***************************************************************************)
(* Theorems about AnoSystem, for any clients and any values of its         *)
(* constants.                                                              *)
(*                                                                         *)
(* Neither TypeOK nor SocketsAccounted is inductive by itself.  A step of  *)
(* the server keeps its types only because the header it works on has      *)
(* arrived, which needs the connection it holds to be the open one; IInv   *)
(* says both.                                                              *)
(***************************************************************************)
EXTENDS AnoSystem, TLAPS

\* SocketsAccounted, and what a connection's life has to do with it.
Sockets ==
  /\ SocketsAccounted
  /\ listening => srv \in Serving \cup {"accept", "closing"}
  /\ srv \in {"load", "init"} => backlog = <<>>
  /\ \A c \in Clients :
       /\ cpc[c] = "init" => sSock[c] = "none" /\ cSock[c] = "none" /\ upSnd[c] = 0
       /\ c \in success => sSock[c] = "closed"

\* Every header is there by the time something is read from it.
HeadersKnown ==
  /\ srv \in Serving \ {"recvInfo"} => recvInfo \in FileInfo
  /\ srv \in {"sendInfo", "sendImg", "imwrite", "finish"} => sendInfo \in ResInfo
  /\ srv = "sendImg" => downSnd[cur] > 0
  /\ \A c \in Clients :
       /\ downSnd[c] > 0 => downInfo[c] \in ResInfo
       /\ cpc[c] = "sendInfo" => fileinfo[c] \in FileInfo
       /\ sSock[c] # "closed" =>
            /\ upSnd[c] > 0 => upInfo[c] \in FileInfo
            /\ cpc[c] \in {"imread", "sendImg"} /\ cSock[c] = "open" => upInfo[c] \in FileInfo

Types == NetTypeOK /\ ServerTypeOK /\ ClientTypeOK /\ HeadersKnown

IInv == Types /\ Sockets

-----------------------------------------------------------------------------
\* The session's client, wherever there is a session.
LEMMA ServingClient ==
  ASSUME ServerTypeOK, SocketsAccounted, srv \in Serving
  PROVE  cur \in Clients /\ sSock[cur] = "open"
BY DEF ServerTypeOK, SocketsAccounted

\* A header that a split has damaged is still a header.
LEMMA SplitHeaderType ==
  ASSUME NEW info \in FileInfo, NEW h \in SplitHeader(info)
  PROVE  h \in FileInfo
<1>1. Memory \subseteq FileInfo
  BY WireAssumption DEF Memory, FileInfo, ImgTypes
<1>2. PICK m \in Memory :
        h \in {[info EXCEPT !.img_type = m.img_type],
               [info EXCEPT !.img_type = m.img_type, !.size = m.size],
               [m EXCEPT !.ano_type = info.ano_type, !.status = info.status],
               [m EXCEPT !.ano_type = info.ano_type],
               m}
  BY DEF SplitHeader
<1>3. m \in FileInfo
  BY <1>1, <1>2
<1>4. \A x, y \in FileInfo :
        /\ [x EXCEPT !.img_type = y.img_type] \in FileInfo
        /\ [x EXCEPT !.img_type = y.img_type, !.size = y.size] \in FileInfo
        /\ [x EXCEPT !.ano_type = y.ano_type] \in FileInfo
        /\ [x EXCEPT !.ano_type = y.ano_type, !.status = y.status] \in FileInfo
  BY DEF FileInfo
<1> QED
  BY <1>2, <1>3, <1>4

\* And so is a damaged reply.
LEMMA SplitReplyType ==
  ASSUME NEW info \in ResInfo, NEW h \in SplitReply(info)
  PROVE  h \in ResInfo
BY WireAssumption DEF SplitReply, ResInfo, ImgTypes

-----------------------------------------------------------------------------
(***************************************************************************)
(* The server's steps preserve the types.                                  *)
(***************************************************************************)
LEMMA CrashTypes ==
  ASSUME NetTypeOK, ServerTypeOK, HeadersKnown, Crash, UNCHANGED clientVars
  PROVE  NetTypeOK' /\ ServerTypeOK' /\ HeadersKnown'
<1>1. backlog' \in Seq(Clients)
  BY DEF Crash, CloseAllServerSockets
<1>2. sSock' \in [Clients -> {"none", "queued", "open", "closed"}]
  BY DEF Crash, CloseAllServerSockets, NetTypeOK
<1>3. NetTypeOK'
  BY <1>1, <1>2 DEF Crash, CloseAllServerSockets, NetTypeOK
<1>4. ServerTypeOK'
  BY DEF Crash, ClearSession, ServerTypeOK, ServerStates
<1>5. \A c \in Clients : sSock'[c] # "closed" => sSock[c] # "closed"
  BY DEF Crash, CloseAllServerSockets, NetTypeOK
<1> QED
  BY <1>3, <1>4, <1>5 DEF HeadersKnown, Crash, Serving, clientVars

LEMMA CloseTypes ==
  ASSUME NetTypeOK, ServerTypeOK, HeadersKnown, CloseServer, UNCHANGED clientVars
  PROVE  NetTypeOK' /\ ServerTypeOK' /\ HeadersKnown'
<1>1. backlog' \in Seq(Clients)
  BY DEF CloseServer, CloseAllServerSockets
<1>2. sSock' \in [Clients -> {"none", "queued", "open", "closed"}]
  BY DEF CloseServer, CloseAllServerSockets, NetTypeOK
<1>3. NetTypeOK'
  BY <1>1, <1>2 DEF CloseServer, CloseAllServerSockets, NetTypeOK
<1>4. ServerTypeOK'
  BY DEF CloseServer, sessionVars, ServerTypeOK, ServerStates
<1>5. \A c \in Clients : sSock'[c] # "closed" => sSock[c] # "closed"
  BY DEF CloseServer, CloseAllServerSockets, NetTypeOK
<1> QED
  BY <1>3, <1>4, <1>5 DEF HeadersKnown, CloseServer, Serving, clientVars

LEMMA LoadStates ==
  ASSUME LoadModel
  PROVE  srv' \in {"init", "stopped", "crashed"} /\ engine640' \in BOOLEAN
<1>1. PICK f \in ModelFiles :
        /\ engine640' = (f = "good")
        /\ srv' = CASE f \in {"good", "absent"} -> "init"
                    [] f = "unreadable" -> "stopped"
                    [] f = "corrupt" -> "crashed"
  BY DEF LoadModel
<1>2. f \in {"good", "absent", "unreadable", "corrupt"}
  BY <1>1, ServerAssumption
<1> QED
  BY <1>1, <1>2

LEMMA LoadTypes ==
  ASSUME NetTypeOK, ServerTypeOK, HeadersKnown, LoadModel, UNCHANGED clientVars
  PROVE  NetTypeOK' /\ ServerTypeOK' /\ HeadersKnown'
  BY LoadStates DEF LoadModel, NetTypeOK, ServerTypeOK, HeadersKnown, ServerStates, Serving,
     netVars, sessionVars, clientVars

LEMMA AcceptTypes ==
  ASSUME NetTypeOK, ServerTypeOK, HeadersKnown, Sockets, Connect2Client, UNCHANGED clientVars
  PROVE  NetTypeOK' /\ ServerTypeOK' /\ HeadersKnown'
<1>1. backlog \in Seq(Clients) /\ backlog # <<>>
  BY DEF NetTypeOK, Connect2Client
<1>2. Head(backlog) \in Clients /\ Tail(backlog) \in Seq(Clients)
  BY <1>1
<1>3. sSock[Head(backlog)] = "queued"
  BY <1>1, <1>2 DEF Sockets, SocketsAccounted
<1>4. NetTypeOK'
  BY <1>2 DEF Connect2Client, NetTypeOK
<1>5. ServerTypeOK'
  BY <1>2 DEF Connect2Client, ServerTypeOK, ServerStates, Serving
<1>6. \A c \in Clients : sSock'[c] # "closed" => sSock[c] # "closed"
  BY <1>3 DEF Connect2Client, NetTypeOK
<1> QED
  BY <1>4, <1>5, <1>6 DEF HeadersKnown, Connect2Client, Serving, clientVars

\* DropSession, and FinishSession likewise, only end what there was.
LEMMA DropTypes ==
  ASSUME NetTypeOK, ServerTypeOK, HeadersKnown, Sockets, UNCHANGED clientVars,
         srv \in Serving, DropSession \/ FinishSession
  PROVE  NetTypeOK' /\ ServerTypeOK' /\ HeadersKnown'
<1>1. cur \in Clients
  BY ServingClient DEF Sockets
<1>2. NetTypeOK'
  BY <1>1 DEF DropSession, EndSession, FinishSession, NetTypeOK
<1>3. srv' \in {"accept", "closing"}
  BY DEF DropSession, EndSession, FinishSession
<1>4. ServerTypeOK'
  BY <1>1, <1>3 DEF DropSession, EndSession, FinishSession, ClearSession, ServerTypeOK, ServerStates
<1>5. \A c \in Clients : sSock'[c] # "closed" => sSock[c] # "closed"
  BY DEF DropSession, EndSession, FinishSession, NetTypeOK
<1> QED
  BY <1>2, <1>3, <1>4, <1>5 DEF HeadersKnown, DropSession, EndSession, FinishSession, Serving, clientVars

\* A position that moves on by k remains a position.
LEMMA Advance ==
  ASSUME NEW S, NEW f \in [S -> Nat], NEW x \in S, NEW k \in Nat
  PROVE  [f EXCEPT ![x] = @ + k] \in [S -> Nat]
<1>1. f[x] + k \in Nat
  OBVIOUS
<1> QED
  BY <1>1

LEMMA ReceivedTypes ==
  ASSUME NetTypeOK, cur \in Clients, NEW k \in Nat, Received(k)
  PROVE  NetTypeOK'
<1>1. upRcv' \in [Clients -> Nat]
  BY Advance DEF Received, NetTypeOK
<1> QED
  BY <1>1 DEF Received, NetTypeOK

LEMMA RecvFileInfoTypes ==
  ASSUME NetTypeOK, ServerTypeOK, HeadersKnown, Sockets, UNCHANGED clientVars,
         RecvFileInfo \/ RecvFileInfoPart \/ RecvFileInfoRest
  PROVE  NetTypeOK' /\ ServerTypeOK' /\ HeadersKnown'
<1>1. cur \in Clients /\ sSock[cur] = "open" /\ srv = "recvInfo" /\ sum \in Nat
  BY ServingClient DEF Sockets, RecvFileInfo, RecvFileInfoPart, RecvFileInfoRest, Serving,
     ServerTypeOK
<1>2. ASSUME UpReady(cur) > 0 PROVE upInfo[cur] \in FileInfo
  <2>1. upSnd[cur] > 0
    BY <1>1, <1>2 DEF UpReady, NetTypeOK
  <2> QED
    BY <1>1, <2>1 DEF HeadersKnown
<1>3. PICK k \in Nat :
        /\ Received(k)
        /\ sum' \in Nat
        /\ \/ srv' = "recvInfo" /\ recvInfo' = recvInfo
           \/ srv' \in {"recvImg", "imread"} /\ recvInfo' \in FileInfo
  <2>1. CASE RecvFileInfo
    <3>1. UpReady(cur) > 0 /\ HdrLen \in Nat
      BY <1>1, <2>1, TcpAssumption DEF RecvFileInfo, Chunk, UpReady, NetTypeOK
    <3>2. recvInfo' \in FileInfo /\ srv' \in {"recvImg", "imread"}
      BY <1>2, <2>1, <3>1 DEF RecvFileInfo, AfterHeader
    <3> QED
      BY <1>1, <2>1, <3>1, <3>2 DEF RecvFileInfo
  <2>2. CASE RecvFileInfoPart
    BY <1>1, <2>2, TcpAssumption DEF RecvFileInfoPart, Chunk
  <2>3. CASE RecvFileInfoRest
    <3>1. PICK k \in Chunk(HdrLen - sum, UpReady(cur)) :
            /\ Received(k)
            /\ \/ /\ sum + k < HdrLen
                  /\ sum' = sum + k
                  /\ UNCHANGED <<srv, recvInfo>>
               \/ /\ sum + k = HdrLen
                  /\ sum' = 0
                  /\ recvInfo' \in SplitHeader(upInfo[cur])
                  /\ srv' = AfterHeader(recvInfo')
      BY <2>3 DEF RecvFileInfoRest
    <3>2. k \in Nat /\ UpReady(cur) > 0
      BY <1>1, <3>1, TcpAssumption DEF Chunk, UpReady, NetTypeOK
    <3> QED
      BY <1>1, <1>2, <3>1, <3>2, SplitHeaderType DEF AfterHeader
  <2> QED
    BY <2>1, <2>2, <2>3
<1>4. NetTypeOK'
  BY <1>1, <1>3, ReceivedTypes
<1>5. UNCHANGED <<engine640, cur, image, res, dst, sendInfo, success>>
  BY DEF RecvFileInfo, RecvFileInfoPart, RecvFileInfoRest
<1>6. ServerTypeOK'
  BY <1>1, <1>3, <1>5 DEF ServerTypeOK, ServerStates, Serving
<1> QED
  BY <1>3, <1>4, <1>5, <1>6 DEF HeadersKnown, Received, Serving, clientVars

LEMMA RecvImgTypes ==
  ASSUME NetTypeOK, ServerTypeOK, HeadersKnown, Sockets, RecvImg, UNCHANGED clientVars
  PROVE  NetTypeOK' /\ ServerTypeOK' /\ HeadersKnown'
<1>1. PICK k \in Chunk(recvInfo.size - sum, UpReady(cur)) :
        /\ Received(k)
        /\ IF sum + k = recvInfo.size
             THEN srv' = "recognize" /\ image' = recvInfo.size /\ sum' = 0
             ELSE srv' = srv /\ image' = image /\ sum' = sum + k
  BY DEF RecvImg
<1>2. cur \in Clients /\ srv = "recvImg" /\ sum \in Nat /\ recvInfo \in FileInfo
  BY ServingClient DEF Sockets, RecvImg, HeadersKnown, Serving, ServerTypeOK
<1>3. recvInfo.size \in Int
  BY <1>2 DEF FileInfo
<1>4. k \in Nat
  BY <1>1, <1>2, <1>3 DEF Chunk
<1>5. NetTypeOK'
  BY <1>1, <1>2, <1>4, ReceivedTypes
<1>6. image' \in Nat /\ sum' \in Nat /\ srv' \in {"recvImg", "recognize"}
  BY <1>1, <1>2, <1>3, <1>4 DEF ServerTypeOK
<1>7. ServerTypeOK'
  BY <1>6 DEF RecvImg, ServerTypeOK, ServerStates, Serving
<1> QED
  BY <1>1, <1>2, <1>5, <1>6, <1>7 DEF RecvImg, HeadersKnown, Serving, Received, clientVars

LEMMA CreateInfoTypes ==
  ASSUME NetTypeOK, ServerTypeOK, HeadersKnown, CreateInfo, UNCHANGED clientVars
  PROVE  NetTypeOK' /\ ServerTypeOK' /\ HeadersKnown'
<1>1. recvInfo \in FileInfo
  BY DEF CreateInfo, HeadersKnown, Serving
<1>2. PICK n \in ReplySizes :
        sendInfo' = [ano_res |-> IF res = "empty" THEN "empty" ELSE "found",
                     size |-> n, img_type |-> recvInfo.img_type]
  BY DEF CreateInfo
<1>3. n \in Int
  BY <1>2, WireAssumption DEF ReplySizes, ServerTypeOK
<1>4. recvInfo.img_type \in ImgTypes
  BY <1>1 DEF FileInfo
<1>5. sendInfo' \in ResInfo
  BY <1>2, <1>3, <1>4 DEF ResInfo
<1>6. NetTypeOK'
  BY DEF CreateInfo, Compute, netVars, NetTypeOK
<1>7. ServerTypeOK'
  BY <1>5 DEF CreateInfo, Compute, ServerTypeOK, ServerStates, Serving
<1> QED
  BY <1>1, <1>5, <1>6, <1>7 DEF CreateInfo, Compute, HeadersKnown, netVars, clientVars

LEMMA SendFileInfoTypes ==
  ASSUME NetTypeOK, ServerTypeOK, HeadersKnown, Sockets, SendFileInfo, UNCHANGED clientVars
  PROVE  NetTypeOK' /\ ServerTypeOK' /\ HeadersKnown'
<1>1. cur \in Clients /\ recvInfo \in FileInfo /\ sendInfo \in ResInfo
  BY ServingClient DEF Sockets, SendFileInfo, HeadersKnown, Serving
<1>2. srv' \in {"imwrite", "finish", "sendImg"}
  BY DEF SendFileInfo
<1>3. /\ downSnd' \in [Clients -> Nat]
      /\ downInfo' \in [Clients -> ResInfo \cup {NoInfo}]
      /\ downSnd'[cur] > 0
  <2>1. downSnd' \in [Clients -> Nat]
    BY <1>1, TcpAssumption, Advance DEF SendFileInfo, Sent, NetTypeOK
  <2>2. downInfo' \in [Clients -> ResInfo \cup {NoInfo}]
    BY <1>1 DEF SendFileInfo, NetTypeOK
  <2>3. downSnd'[cur] = downSnd[cur] + HdrLen
    BY <1>1 DEF SendFileInfo, Sent, NetTypeOK
  <2> QED
    BY <1>1, <2>1, <2>2, <2>3, TcpAssumption DEF NetTypeOK
<1>4. NetTypeOK'
  BY <1>3 DEF SendFileInfo, Sent, NetTypeOK
<1>5. ServerTypeOK'
  BY <1>2 DEF SendFileInfo, ServerTypeOK, sessionVars, ServerStates, Serving
<1>6. \A c \in Clients : downSnd'[c] > 0 => downInfo'[c] \in ResInfo
  BY <1>1 DEF SendFileInfo, Sent, NetTypeOK, HeadersKnown
<1>7. UNCHANGED <<cur, recvInfo, sendInfo, upSnd, upInfo, cSock, sSock>>
  BY DEF SendFileInfo, Sent, sessionVars
<1> QED
  BY <1>1, <1>2, <1>3, <1>4, <1>5, <1>6, <1>7 DEF HeadersKnown, Serving, clientVars

LEMMA SendImgTypes ==
  ASSUME NetTypeOK, ServerTypeOK, HeadersKnown, Sockets, SendImg, UNCHANGED clientVars
  PROVE  NetTypeOK' /\ ServerTypeOK' /\ HeadersKnown'
<1>1. PICK k \in Chunk(dst - sum, DownRoom(cur)) :
        /\ Sent(k)
        /\ sum' = sum + k
        /\ srv' = IF sum' = dst THEN "finish" ELSE "sendImg"
  BY DEF SendImg
<1>2. cur \in Clients /\ srv = "sendImg" /\ sum \in Nat /\ dst \in Nat
  BY ServingClient DEF Sockets, SendImg, Serving, ServerTypeOK
<1>3. k \in Nat
  BY <1>1, <1>2 DEF Chunk
<1>4. NetTypeOK'
  <2>1. downSnd' \in [Clients -> Nat]
    BY <1>1, <1>2, <1>3, Advance DEF Sent, NetTypeOK
  <2> QED
    BY <1>1, <2>1 DEF SendImg, Sent, NetTypeOK
<1>5. ServerTypeOK'
  BY <1>1, <1>2, <1>3 DEF SendImg, ServerTypeOK, ServerStates, Serving
<1>6. /\ \A c \in Clients : downSnd'[c] > 0 => downInfo'[c] \in ResInfo
      /\ downSnd'[cur] > 0
  BY <1>1, <1>2, <1>3 DEF SendImg, Sent, NetTypeOK, HeadersKnown
<1>7. UNCHANGED <<cur, recvInfo, sendInfo, upSnd, upInfo, cSock, sSock>>
  BY <1>1 DEF SendImg, Sent
<1> QED
  BY <1>1, <1>2, <1>4, <1>5, <1>6, <1>7 DEF HeadersKnown, Serving, clientVars

LEMMA ServerTypes ==
  ASSUME NetTypeOK, ServerTypeOK, HeadersKnown, Sockets, Analyse, UNCHANGED clientVars
  PROVE  NetTypeOK' /\ ServerTypeOK' /\ HeadersKnown'
<1> USE DEF NetTypeOK, ServerTypeOK, HeadersKnown, Serving, ServerStates, clientVars
<1>1. CASE InitServer \/ InitServerFails
  BY <1>1 DEF InitServer, InitServerFails, netVars, sessionVars
<1>2. CASE Connect2ClientFails
  BY <1>2 DEF Connect2ClientFails, netVars, serverVars, sessionVars
<1>3. CASE \/ RecvFileInfoFails \/ RecvImgFails \/ SendFileInfoFails
           \/ SendImgFails \/ FinishSession
  <2>1. srv \in Serving /\ (DropSession \/ FinishSession)
    BY <1>3 DEF RecvFileInfoFails, RecvImgFails, SendFileInfoFails, SendImgFails, FinishSession
  <2> HIDE DEF NetTypeOK, ServerTypeOK, HeadersKnown, Serving, clientVars
  <2> QED
    BY <2>1, DropTypes
<1>4. CASE ReadLocalImage
  BY <1>4, ServerAssumption DEF ReadLocalImage, Compute, netVars
<1>5. CASE Recognize
  <2>1. res' \in {"empty", "short", "long"}
    BY <1>5, ServerAssumption DEF Recognize, Detect
  <2> QED
    BY <1>5, <2>1 DEF Recognize, Compute, netVars
<1>6. CASE WriteLocalImage
  BY <1>6 DEF WriteLocalImage, Compute, netVars
<1>7. CASE \/ RecvFileInfoOverrun \/ RecvImgCrashes \/ RecognizeCrashes
           \/ CreateInfoCrashes \/ WriteLocalImageCrashes
  <2>1. Crash
    BY <1>7 DEF RecvFileInfoOverrun, RecvImgCrashes, RecognizeCrashes,
       CreateInfoCrashes, WriteLocalImageCrashes
  <2> HIDE DEF NetTypeOK, ServerTypeOK, HeadersKnown, clientVars
  <2> QED
    BY <2>1, CrashTypes
<1> HIDE DEF NetTypeOK, ServerTypeOK, HeadersKnown, clientVars
<1> QED
  BY <1>1, <1>2, <1>3, <1>4, <1>5, <1>6, <1>7, LoadTypes, CloseTypes, AcceptTypes,
     RecvFileInfoTypes, RecvImgTypes, CreateInfoTypes, SendFileInfoTypes, SendImgTypes
  DEF Analyse

-----------------------------------------------------------------------------
(***************************************************************************)
(* So do the clients'.                                                     *)
(***************************************************************************)
LEMMA ExitTypes ==
  ASSUME Types, NEW c \in Clients, NEW how \in Ended, Exit(c, how),
         UNCHANGED serverVars,
         UNCHANGED <<file, fileinfo, csum, cimg, rep, img, stalled>>,
         saved' \in SUBSET Clients
  PROVE  Types'
<1>1. NetTypeOK'
  BY DEF Exit, Types, NetTypeOK
<1>2. ClientTypeOK'
  BY DEF Exit, Goto, Types, ClientTypeOK, ClientStates
<1>3. ServerTypeOK'
  BY DEF Types, ServerTypeOK, serverVars, sessionVars
<1>4. HeadersKnown'
  BY DEF Exit, Goto, Types, NetTypeOK, ClientTypeOK, HeadersKnown, Ended, serverVars, sessionVars
<1> QED
  BY <1>1, <1>2, <1>3, <1>4 DEF Types

LEMMA ConnectTypes ==
  ASSUME Types, Sockets, NEW c \in Clients, initClient(c) \/ initClientFails(c),
         UNCHANGED serverVars
  PROVE  Types'
<1> USE DEF Types, Goto, serverVars, sessionVars, netVars
<1>1. NetTypeOK'
  <2>1. CASE initClient(c)
    <3>1. backlog' \in Seq(Clients)
      BY <2>1 DEF initClient, Establish, NetTypeOK
    <3> QED
      BY <2>1, <3>1 DEF initClient, Establish, NetTypeOK
  <2>2. CASE initClientFails(c)
    BY <2>2 DEF initClientFails, NetTypeOK
  <2> QED
    BY <2>1, <2>2
<1>2. ClientTypeOK'
  BY DEF initClient, initClientFails, ClientTypeOK, ClientStates
<1>3. ServerTypeOK'
  BY DEF ServerTypeOK
<1>4. HeadersKnown'
  <2>1. upSnd[c] = 0 /\ sSock[c] # "closed"
    BY DEF initClient, initClientFails, Sockets
  <2>2. UNCHANGED <<upSnd, upInfo, downSnd, downInfo, fileinfo>>
    BY DEF initClient, initClientFails
  <2>3. \A d \in Clients : d # c => cpc'[d] = cpc[d] /\ sSock'[d] = sSock[d] /\ cSock'[d] = cSock[d]
    BY DEF initClient, initClientFails, Establish, ClientTypeOK, NetTypeOK
  <2>4. cpc'[c] = "preprocess"
    BY DEF initClient, initClientFails, ClientTypeOK
  <2> QED
    BY <2>1, <2>2, <2>3, <2>4 DEF HeadersKnown, NetTypeOK
<1> QED
  BY <1>1, <1>2, <1>3, <1>4

LEMMA PreprocessTypes ==
  ASSUME Types, NEW c \in Clients, preprocessFileInfo(c), UNCHANGED serverVars
  PROVE  Types'
<1>1. PICK r \in Requests :
        fileinfo' = [fileinfo EXCEPT ![c] =
          [ano_type |-> r.ano_type, status |-> r.status, file_path |-> r.file_path,
           size |-> file[c], img_type |-> "8UC3"]]
  BY DEF preprocessFileInfo
<1>2. r \in [ano_type : AnoTypes, status : Statuses, file_path : Paths] /\ file[c] \in Int
  BY <1>1, ClientAssumption DEF Types, ClientTypeOK
<1>3. [ano_type |-> r.ano_type, status |-> r.status, file_path |-> r.file_path,
       size |-> file[c], img_type |-> "8UC3"] \in FileInfo
  BY <1>2 DEF FileInfo, ImgTypes
<1>4. /\ fileinfo' \in [Clients -> FileInfo \cup {NoInfo}]
      /\ fileinfo'[c] \in FileInfo
      /\ \A d \in Clients : d # c => fileinfo'[d] = fileinfo[d]
  BY <1>1, <1>3 DEF Types, ClientTypeOK
<1>5. cpc' = [cpc EXCEPT ![c] = "sendInfo"] /\ UNCHANGED netVars
  BY DEF preprocessFileInfo, Goto
<1>6. ClientTypeOK'
  BY <1>4, <1>5 DEF preprocessFileInfo, Types, ClientTypeOK, ClientStates
<1>7. NetTypeOK' /\ ServerTypeOK'
  BY <1>5 DEF Types, NetTypeOK, ServerTypeOK, netVars, serverVars, sessionVars
<1>8. HeadersKnown'
  BY <1>4, <1>5 DEF Types, ClientTypeOK, HeadersKnown, netVars, serverVars, sessionVars
<1> QED
  BY <1>6, <1>7, <1>8 DEF Types

\* A client's step that moves nothing on the network and leaves its request
\* alone: it may go on to imread only if that needs no header on the way.
LEMMA ClientQuietTypes ==
  ASSUME Types, NEW c \in Clients, UNCHANGED netVars, UNCHANGED serverVars, ClientTypeOK',
         fileinfo' = fileinfo, \A d \in Clients : d # c => cpc'[d] = cpc[d],
         \/ cpc'[c] = cpc[c]
         \/ cpc'[c] \notin {"sendInfo", "imread", "sendImg"}
         \/ cpc[c] = "imread" /\ cpc'[c] = "sendImg"
         \/ cpc'[c] = "imread" /\ (cSock[c] # "open" \/ sSock[c] = "closed")
  PROVE  Types'
<1>1. NetTypeOK'
  BY DEF Types, NetTypeOK, netVars
<1>2. ServerTypeOK'
  BY DEF Types, ServerTypeOK, serverVars, sessionVars
<1>3. UNCHANGED <<srv, recvInfo, sendInfo, cur, upSnd, upInfo, downSnd, downInfo, sSock, cSock>>
  BY DEF serverVars, sessionVars, netVars
<1>4. HeadersKnown'
  BY <1>3 DEF Types, HeadersKnown
<1> QED
  BY <1>1, <1>2, <1>4 DEF Types

LEMMA ClientSendTypes ==
  ASSUME Types, NEW c \in Clients, UNCHANGED serverVars,
         \/ sendFileInfo(c) \/ sendFileInfoFails(c) \/ openImg(c)
         \/ sendImg(c) \/ sendImgFails(c)
  PROVE  Types'
<1> USE DEF Types, Goto, serverVars, sessionVars, netVars
<1>1. CASE sendFileInfo(c)
  <2>1. fileinfo[c] \in FileInfo
    BY <1>1 DEF sendFileInfo, HeadersKnown
  <2>2. NetTypeOK'
    <3>1. upSnd' \in [Clients -> Nat]
      BY <1>1, TcpAssumption, Advance DEF sendFileInfo, Put, NetTypeOK
    <3> QED
      BY <1>1, <2>1, <3>1 DEF sendFileInfo, Put, NetTypeOK
  <2>3. ClientTypeOK' /\ ServerTypeOK'
    BY <1>1 DEF sendFileInfo, ClientTypeOK, ServerTypeOK, ClientStates
  <2>4. upInfo'[c] \in FileInfo /\ cpc'[c] = "imread"
    BY <1>1, <2>1 DEF sendFileInfo, ClientTypeOK, NetTypeOK
  <2>5. \A d \in Clients : d # c =>
          upInfo'[d] = upInfo[d] /\ upSnd'[d] = upSnd[d] /\ cpc'[d] = cpc[d]
    BY <1>1 DEF sendFileInfo, Put, ClientTypeOK, NetTypeOK
  <2>6. UNCHANGED <<sSock, cSock, downSnd, downInfo, fileinfo>>
    BY <1>1 DEF sendFileInfo, Put
  <2>7. HeadersKnown'
    BY <2>4, <2>5, <2>6 DEF HeadersKnown
  <2> QED
    BY <2>2, <2>3, <2>7
<1>2. CASE sendImg(c)
  <2>1. PICK k \in Chunk(cimg[c] - csum[c], UpRoom(c)) :
          /\ Put(c, k)
          /\ IF csum[c] + k = cimg[c]
               THEN Goto(c, "recvInfo") /\ csum' = [csum EXCEPT ![c] = 0]
               ELSE cpc' = cpc /\ csum' = [csum EXCEPT ![c] = @ + k]
    BY <1>2 DEF sendImg
  <2>2. k \in Nat
    BY <2>1 DEF Chunk, ClientTypeOK
  <2>3. NetTypeOK'
    <3>1. upSnd' \in [Clients -> Nat]
      BY <2>1, <2>2, Advance DEF Put, NetTypeOK
    <3> QED
      BY <1>2, <2>1, <3>1 DEF sendImg, Put, NetTypeOK
  <2>4. ClientTypeOK' /\ ServerTypeOK'
    <3>1. cpc' \in [Clients -> ClientStates]
      BY <2>1 DEF ClientTypeOK, ClientStates
    <3>2. csum[c] + k \in Nat
      BY <2>2 DEF ClientTypeOK
    <3>3. csum' \in [Clients -> Nat]
      BY <2>1, <3>2 DEF ClientTypeOK
    <3> QED
      BY <1>2, <3>1, <3>3 DEF sendImg, ClientTypeOK, ServerTypeOK
  <2>5. sSock[c] # "closed" => upInfo[c] \in FileInfo
    BY <1>2 DEF sendImg, HeadersKnown
  <2>6. \A d \in Clients : d # c => upSnd'[d] = upSnd[d] /\ cpc'[d] = cpc[d]
    BY <1>2, <2>1 DEF Put, ClientTypeOK, NetTypeOK
  <2>7. UNCHANGED <<sSock, cSock, upInfo, downSnd, downInfo, fileinfo>> /\ cpc'[c] # "sendInfo"
    BY <1>2, <2>1 DEF sendImg, Put, ClientTypeOK
  <2>8. HeadersKnown'
    BY <2>5, <2>6, <2>7 DEF HeadersKnown
  <2> QED
    BY <2>3, <2>4, <2>8
<1>3. CASE sendFileInfoFails(c)
  <2>1. cSock[c] = "open" => sSock[c] = "closed"
    BY <1>3 DEF sendFileInfoFails, SendFails
  <2>2. ClientTypeOK'
    BY <1>3 DEF sendFileInfoFails, ClientStates, ClientTypeOK
  <2>3. cpc'[c] = "imread" /\ \A d \in Clients : d # c => cpc'[d] = cpc[d]
    BY <1>3 DEF sendFileInfoFails, ClientTypeOK
  <2> QED
    BY <1>3, <2>1, <2>2, <2>3, ClientQuietTypes DEF sendFileInfoFails
<1>4. CASE openImg(c)
  <2>1. ClientTypeOK'
    BY <1>4 DEF openImg, ClientStates, ClientTypeOK
  <2>2. /\ cpc[c] = "imread" /\ cpc'[c] \in {"recvInfo", "sendImg"}
        /\ \A d \in Clients : d # c => cpc'[d] = cpc[d]
    BY <1>4 DEF openImg, ClientTypeOK
  <2> QED
    BY <1>4, <2>1, <2>2, ClientQuietTypes DEF openImg
<1>5. CASE sendImgFails(c)
  <2>1. ClientTypeOK'
    BY <1>5 DEF sendImgFails, ClientStates, ClientTypeOK
  <2>2. cpc'[c] = "recvInfo" /\ \A d \in Clients : d # c => cpc'[d] = cpc[d]
    BY <1>5 DEF sendImgFails, ClientTypeOK
  <2> QED
    BY <1>5, <2>1, <2>2, ClientQuietTypes DEF sendImgFails
<1> QED
  BY <1>1, <1>2, <1>3, <1>4, <1>5

LEMMA TakeTypes ==
  ASSUME NetTypeOK, NEW c \in Clients, UNCHANGED netVars \/ \E k \in Nat : Take(c, k)
  PROVE  NetTypeOK'
<1>1. CASE UNCHANGED netVars
  BY <1>1 DEF netVars, NetTypeOK
<1>2. ASSUME NEW k \in Nat, Take(c, k) PROVE NetTypeOK'
  <2>1. downRcv' \in [Clients -> Nat]
    BY <1>2, Advance DEF Take, NetTypeOK
  <2> QED
    BY <1>2, <2>1 DEF Take, NetTypeOK
<1> QED
  BY <1>1, <1>2

\* What the client's receiving calls leave for HeadersKnown.
LEMMA TakeKeepsHeaders ==
  ASSUME Types, NEW c \in Clients, UNCHANGED serverVars,
         UNCHANGED <<sSock, cSock, upInfo, upSnd, downSnd, downInfo, fileinfo>>,
         \A d \in Clients : d # c => cpc'[d] = cpc[d],
         cpc'[c] \notin {"sendInfo", "imread", "sendImg"}
  PROVE  HeadersKnown'
BY DEF Types, HeadersKnown, serverVars, sessionVars

LEMMA ClientRecvInfoTypes ==
  ASSUME Types, NEW c \in Clients, UNCHANGED serverVars,
         \/ recvFileInfo(c) \/ recvFileInfoPart(c) \/ recvFileInfoRest(c)
         \/ recvFileInfoFails(c)
  PROVE  Types'
<1> USE DEF Goto
<1>1. cpc[c] = "recvInfo"
  BY DEF recvFileInfo, recvFileInfoPart, recvFileInfoRest, recvFileInfoFails
<1>2. ASSUME DownReady(c) > 0 PROVE downInfo[c] \in ResInfo
  <2>1. downSnd[c] > 0
    BY <1>2 DEF DownReady, Types, NetTypeOK
  <2> QED
    BY <2>1 DEF Types, HeadersKnown
<1>3. /\ \/ UNCHANGED netVars
         \/ \E k \in Nat : Take(c, k)
      /\ cpc' \in {cpc, [cpc EXCEPT ![c] = "recvImg"]}
      /\ csum' \in [Clients -> Nat]
      /\ rep' \in [Clients -> ResInfo \cup {NoInfo}]
  <2>1. CASE recvFileInfo(c)
    <3>1. DownReady(c) > 0
      BY <2>1, TcpAssumption DEF recvFileInfo, Chunk, DownReady, Types, NetTypeOK
    <3>2. rep' \in [Clients -> ResInfo \cup {NoInfo}]
      BY <1>2, <2>1, <3>1 DEF recvFileInfo, Types, ClientTypeOK
    <3> QED
      BY <2>1, <3>2, TcpAssumption DEF recvFileInfo, Types, ClientTypeOK
  <2>2. CASE recvFileInfoPart(c)
    BY <2>2, TcpAssumption DEF recvFileInfoPart, Chunk, Types, ClientTypeOK
  <2>3. CASE recvFileInfoRest(c)
    <3>1. PICK k \in Chunk(HdrLen - csum[c], DownReady(c)) :
            /\ Take(c, k)
            /\ \/ /\ csum[c] + k < HdrLen
                  /\ csum' = [csum EXCEPT ![c] = @ + k]
                  /\ UNCHANGED <<cpc, rep>>
               \/ /\ csum[c] + k = HdrLen
                  /\ csum' = [csum EXCEPT ![c] = 0]
                  /\ \E info \in SplitReply(downInfo[c]) : rep' = [rep EXCEPT ![c] = info]
                  /\ Goto(c, "recvImg")
      BY <2>3 DEF recvFileInfoRest
    <3>2. k \in Nat /\ DownReady(c) > 0
      BY <3>1, TcpAssumption DEF Chunk, DownReady, Types, NetTypeOK, ClientTypeOK
    <3>3. downInfo[c] \in ResInfo
      BY <1>2, <3>2
    <3>4. rep' \in [Clients -> ResInfo \cup {NoInfo}]
      BY <3>1, <3>3, SplitReplyType DEF Types, ClientTypeOK
    <3>5. csum' \in [Clients -> Nat]
      BY <3>1, <3>2 DEF Types, ClientTypeOK
    <3>6. cpc' \in {cpc, [cpc EXCEPT ![c] = "recvImg"]}
      BY <3>1
    <3> QED
      BY <3>1, <3>2, <3>4, <3>5, <3>6
  <2>4. CASE recvFileInfoFails(c)
    BY <2>4 DEF recvFileInfoFails, Types, ClientTypeOK
  <2> QED
    BY <2>1, <2>2, <2>3, <2>4
<1>4. NetTypeOK'
  BY <1>3, TakeTypes DEF Types
<1>5. UNCHANGED <<file, fileinfo, cimg, img, saved, stalled>>
  BY DEF recvFileInfo, recvFileInfoPart, recvFileInfoRest, recvFileInfoFails
<1>6. ClientTypeOK'
  BY <1>3, <1>5 DEF Types, ClientTypeOK, ClientStates
<1>7. ServerTypeOK'
  BY DEF Types, ServerTypeOK, serverVars, sessionVars
<1>8. /\ cpc'[c] \in {"recvInfo", "recvImg"}
      /\ \A d \in Clients : d # c => cpc'[d] = cpc[d]
  BY <1>1, <1>3 DEF Types, ClientTypeOK
<1>9. UNCHANGED <<sSock, cSock, upInfo, upSnd, downSnd, downInfo>>
  BY <1>3 DEF Take, netVars
<1> QED
  BY <1>4, <1>5, <1>6, <1>7, <1>8, <1>9, TakeKeepsHeaders DEF Types

LEMMA ClientRecvImgTypes ==
  ASSUME Types, NEW c \in Clients, UNCHANGED serverVars, recvImg(c) \/ recvImgFails(c)
  PROVE  Types'
<1> USE DEF Goto
<1>1. cpc[c] = "recvImg"
  BY DEF recvImg, recvImgFails
<1>2. /\ \/ UNCHANGED netVars
         \/ \E k \in Nat : Take(c, k)
      /\ cpc' \in {cpc, [cpc EXCEPT ![c] = "imwrite"]}
      /\ csum' \in [Clients -> Nat]
      /\ img' \in [Clients -> Nat]
  <2>1. CASE recvImg(c)
    <3>1. PICK k \in Chunk(rep[c].size - csum[c], DownReady(c)) :
            /\ Take(c, k)
            /\ IF csum[c] + k = rep[c].size
                 THEN /\ Goto(c, "imwrite")
                      /\ csum' = [csum EXCEPT ![c] = 0]
                      /\ img' = [img EXCEPT ![c] = rep[c].size]
                 ELSE /\ csum' = [csum EXCEPT ![c] = @ + k]
                      /\ UNCHANGED <<cpc, img>>
      BY <2>1 DEF recvImg
    <3>2. rep[c] \in ResInfo /\ csum[c] \in Nat
      BY <2>1 DEF recvImg, Types, ClientTypeOK
    <3>3. rep[c].size \in Int
      BY <3>2 DEF ResInfo
    <3>4. k \in Nat
      BY <3>1, <3>2, <3>3 DEF Chunk
    <3>5. csum[c] + k = rep[c].size => rep[c].size \in Nat
      BY <3>2, <3>4
    <3>6. csum' \in [Clients -> Nat] /\ img' \in [Clients -> Nat]
      <4>1. csum[c] + k \in Nat
        BY <3>2, <3>4
      <4>2. csum \in [Clients -> Nat] /\ img \in [Clients -> Nat]
        BY DEF Types, ClientTypeOK
      <4>3. csum' \in [Clients -> Nat]
        BY <3>1, <4>1, <4>2
      <4>4. img' \in [Clients -> Nat]
        BY <3>1, <3>5, <4>2
      <4> QED
        BY <4>3, <4>4
    <3>7. cpc' \in {cpc, [cpc EXCEPT ![c] = "imwrite"]}
      BY <3>1
    <3> QED
      BY <3>1, <3>4, <3>6, <3>7
  <2>2. CASE recvImgFails(c)
    BY <2>2 DEF recvImgFails, Types, ClientTypeOK
  <2> QED
    BY <2>1, <2>2
<1>3. NetTypeOK'
  BY <1>2, TakeTypes DEF Types
<1>4. UNCHANGED <<file, fileinfo, cimg, rep, saved, stalled>>
  BY DEF recvImg, recvImgFails
<1>5. ClientTypeOK'
  BY <1>2, <1>4 DEF Types, ClientTypeOK, ClientStates
<1>6. ServerTypeOK'
  BY DEF Types, ServerTypeOK, serverVars, sessionVars
<1>7. /\ cpc'[c] \in {"recvImg", "imwrite"}
      /\ \A d \in Clients : d # c => cpc'[d] = cpc[d]
  BY <1>1, <1>2 DEF Types, ClientTypeOK
<1>8. UNCHANGED <<sSock, cSock, upInfo, upSnd, downSnd, downInfo>>
  BY <1>2 DEF Take, netVars
<1> QED
  BY <1>3, <1>4, <1>5, <1>6, <1>7, <1>8, TakeKeepsHeaders DEF Types

LEMMA ClientTypes ==
  ASSUME Types, Sockets, NEW c \in Clients, main(c) \/ Outside(c), UNCHANGED serverVars
  PROVE  Types'
<1>1. CASE initClientSpins(c)
  <2>1. ClientTypeOK' /\ UNCHANGED <<cpc, fileinfo>>
    BY <1>1 DEF initClientSpins, clientVars, Types, ClientTypeOK
  <2> QED
    BY <1>1, <2>1, ClientQuietTypes DEF initClientSpins
<1>2. CASE recvFileInfoOverrun(c) \/ recvImgCrashes(c) \/ saveImg(c) \/ saveImgCrashes(c) \/ Kill(c)
  <2>1. /\ \E how \in Ended : Exit(c, how)
        /\ UNCHANGED <<file, fileinfo, csum, cimg, rep, img, stalled>>
    BY <1>2 DEF recvFileInfoOverrun, recvImgCrashes, saveImg, saveImgCrashes, Kill, Ended
  <2>2. saved' \in SUBSET Clients
    BY <1>2 DEF recvFileInfoOverrun, recvImgCrashes, saveImg, saveImgCrashes, Kill, Types, ClientTypeOK
  <2> QED
    BY <2>1, <2>2, ExitTypes
<1>3. CASE Stall(c)
  <2>1. ClientTypeOK'
    BY <1>3 DEF Stall, Types, ClientTypeOK
  <2> QED
    BY <1>3, <2>1, ClientQuietTypes DEF Stall
<1>4. CASE ReplaceFile(c)
  <2>1. file' \in [Clients -> Nat]
    BY <1>4, ClientAssumption DEF ReplaceFile, Types, ClientTypeOK
  <2>2. ClientTypeOK'
    BY <1>4, <2>1 DEF ReplaceFile, Types, ClientTypeOK
  <2> QED
    BY <1>4, <2>2, ClientQuietTypes DEF ReplaceFile
<1> QED
  BY <1>1, <1>2, <1>3, <1>4, ConnectTypes, PreprocessTypes, ClientSendTypes,
     ClientRecvInfoTypes, ClientRecvImgTypes DEF main, Outside

LEMMA NextTypes ==
  ASSUME Types, Sockets, [Next]_vars
  PROVE  Types'
<1>1. CASE ServerStep
  <2>1. NetTypeOK' /\ ServerTypeOK' /\ HeadersKnown'
    BY <1>1, ServerTypes DEF ServerStep, Types
  <2> QED
    BY <1>1, <2>1 DEF ServerStep, Types, ClientTypeOK, clientVars
<1>2. ASSUME NEW c \in Clients, ClientStep(c) \/ OutsideStep(c) PROVE Types'
  BY <1>2, ClientTypes DEF ClientStep, OutsideStep
<1>3. CASE UNCHANGED vars
  <2>1. NetTypeOK'
    BY <1>3 DEF vars, netVars, Types, NetTypeOK
  <2>2. ServerTypeOK'
    BY <1>3 DEF vars, serverVars, sessionVars, Types, ServerTypeOK
  <2>3. ClientTypeOK'
    BY <1>3 DEF vars, clientVars, Types, ClientTypeOK
  <2>4. HeadersKnown'
    BY <1>3 DEF vars, netVars, serverVars, sessionVars, clientVars, Types, HeadersKnown
  <2> QED
    BY <2>1, <2>2, <2>3, <2>4 DEF Types
<1> QED
  BY <1>1, <1>2, <1>3 DEF Next, Over

-----------------------------------------------------------------------------
(***************************************************************************)
(* Every connection is accounted for.                                      *)
(***************************************************************************)
LEMMA InitSockets == Init => Sockets
<1> SUFFICES ASSUME Init PROVE Sockets
  OBVIOUS
<1>1. /\ srv = "load" /\ cur = NoClient /\ success = {}
      /\ listening = FALSE /\ backlog = <<>>
      /\ \A c \in Clients : sSock[c] = "none" /\ cSock[c] = "none" /\ upSnd[c] = 0
  BY DEF Init, NetInit, ServerInit
<1>2. DOMAIN backlog = {}
  BY <1>1
<1>3. SocketsAccounted
  BY <1>1, <1>2, ServerAssumption DEF SocketsAccounted, Serving
<1> QED
  BY <1>1, <1>3 DEF Sockets

\* The end of the process ends every connection the server holds.
LEMMA CloseAllSockets ==
  ASSUME Types, Sockets, CloseAllServerSockets, UNCHANGED <<cSock, upSnd, cpc, success>>,
         srv' \in {"stopped", "crashed"}, cur' = NoClient
  PROVE  Sockets'
<1>1. \A c \in Clients : sSock'[c] = IF sSock[c] = "none" THEN "none" ELSE "closed"
  BY DEF CloseAllServerSockets
<1>2. DOMAIN backlog' = {}
  BY DEF CloseAllServerSockets
<1>3. listening' = FALSE
  BY DEF CloseAllServerSockets
<1>4. SocketsAccounted'
  BY <1>1, <1>2, ServerAssumption DEF SocketsAccounted, Serving
<1> QED
  BY <1>1, <1>3, <1>4 DEF Sockets

\* The end of a session ends the one connection that was being served.
LEMMA EndSockets ==
  ASSUME Types, Sockets, srv \in Serving, cur' = NoClient,
         sSock' = [sSock EXCEPT ![cur] = "closed"],
         UNCHANGED <<listening, backlog, cSock, upSnd, cpc>>,
         srv' \in {"accept", "closing"}, success' \in {success, success \cup {cur}}
  PROVE  Sockets'
<1>1. cur \in Clients /\ sSock[cur] = "open"
  BY ServingClient DEF Types, Sockets
<1>2. \A c \in Clients : sSock'[c] = IF c = cur THEN "closed" ELSE sSock[c]
  BY <1>1 DEF Types, NetTypeOK
<1>3. SocketsAccounted'
  BY <1>1, <1>2, ServerAssumption DEF Sockets, SocketsAccounted, Serving
<1> QED
  BY <1>1, <1>2, <1>3 DEF Sockets

LEMMA AcceptSockets ==
  ASSUME Types, Sockets, Connect2Client, UNCHANGED clientVars
  PROVE  Sockets'
<1>1. backlog \in Seq(Clients) /\ backlog # <<>>
  BY DEF Connect2Client, Types, NetTypeOK
<1> DEFINE h == Head(backlog)
<1>2. /\ h \in Clients /\ h = backlog[1]
      /\ DOMAIN backlog = 1..Len(backlog) /\ Len(backlog) \in Nat \ {0}
      /\ DOMAIN Tail(backlog) = 1..Len(backlog) - 1
      /\ \A i \in DOMAIN Tail(backlog) : Tail(backlog)[i] = backlog[i + 1]
  BY <1>1
<1>3. backlog' = Tail(backlog) /\ cur' = h /\ srv' = "recvInfo" /\ srv = "accept"
  BY DEF Connect2Client
<1>4. \A c \in Clients : sSock'[c] = IF c = h THEN "open" ELSE sSock[c]
  BY <1>2 DEF Connect2Client, Types, NetTypeOK
<1>5. sSock[h] = "queued" /\ cur = NoClient
  BY <1>2, <1>3 DEF Sockets, SocketsAccounted, Serving
<1>6. \A c \in Clients :
        (\E i \in DOMAIN backlog' : backlog'[i] = c) <=> sSock[c] = "queued" /\ c # h
  <2>1. \A c \in Clients : sSock[c] = "queued" <=> \E i \in DOMAIN backlog : backlog[i] = c
    BY DEF Sockets, SocketsAccounted
  <2>2. \A i \in DOMAIN backlog : i # 1 => backlog[i] # h
    BY <1>2 DEF Sockets, SocketsAccounted
  <2>3. \A i \in DOMAIN backlog : i # 1 => i - 1 \in DOMAIN Tail(backlog)
    BY <1>2
  <2>4. \A i \in DOMAIN Tail(backlog) : i + 1 \in DOMAIN backlog /\ i + 1 # 1
    BY <1>2
  <2>5. ASSUME NEW c \in Clients, NEW i \in DOMAIN Tail(backlog), Tail(backlog)[i] = c
        PROVE  sSock[c] = "queued" /\ c # h
    BY <1>2, <2>1, <2>2, <2>4, <2>5
  <2>6. ASSUME NEW c \in Clients, sSock[c] = "queued", c # h
        PROVE  \E i \in DOMAIN Tail(backlog) : Tail(backlog)[i] = c
    <3>1. PICK i \in DOMAIN backlog : backlog[i] = c
      BY <2>1, <2>6
    <3>2. i # 1 /\ i \in Int
      BY <1>2, <2>6, <3>1
    <3>3. i - 1 \in DOMAIN Tail(backlog)
      BY <2>3, <3>2
    <3>4. Tail(backlog)[i - 1] = backlog[i]
      BY <1>2, <3>2, <3>3
    <3> QED
      BY <3>1, <3>3, <3>4
  <2> QED
    BY <1>3, <2>5, <2>6
<1>7. \A i, j \in DOMAIN backlog' : backlog'[i] = backlog'[j] => i = j
  BY <1>2, <1>3 DEF Sockets, SocketsAccounted
<1>8. SocketsAccounted'
  <2>1. cur' # NoClient /\ srv' \in Serving
    BY <1>2, <1>3, ServerAssumption DEF Serving
  <2>2. \A c \in Clients : sSock'[c] = "open" <=> c = cur'
    BY <1>3, <1>4, <1>5, ServerAssumption DEF Sockets, SocketsAccounted
  <2>3. \A c \in Clients : sSock'[c] = "queued" <=> \E i \in DOMAIN backlog' : backlog'[i] = c
    BY <1>4, <1>6
  <2> QED
    BY <1>7, <2>1, <2>2, <2>3 DEF SocketsAccounted
<1> QED
  BY <1>3, <1>4, <1>5, <1>8 DEF Sockets, Connect2Client, clientVars, Serving

\* Steps inside a session, and those before the first one.
LEMMA QuietSockets ==
  ASSUME Types, Sockets,
         UNCHANGED <<listening, backlog, sSock, cSock, upSnd, cpc, success, cur>>,
         \/ srv \in Serving /\ srv' \in Serving
         \/ srv = srv'
         \/ srv \in {"load", "init"} /\ srv' \in {"init", "stopped", "crashed"}
  PROVE  Sockets'
<1>1. SocketsAccounted'
  BY DEF Sockets, SocketsAccounted, Serving
<1> QED
  BY <1>1 DEF Sockets, Serving

LEMMA ServerSockets ==
  ASSUME Types, Sockets, Analyse, UNCHANGED clientVars
  PROVE  Sockets'
<1>1. CASE LoadModel
  <2>1. srv' \in {"init", "stopped", "crashed"}
    BY <1>1, LoadStates
  <2> QED
    BY <1>1, <2>1, QuietSockets DEF LoadModel, netVars, sessionVars, clientVars
<1>2. CASE InitServer
  <2>1. SocketsAccounted'
    BY <1>2 DEF InitServer, sessionVars, Sockets, SocketsAccounted, Serving
  <2> QED
    BY <1>2, <2>1 DEF InitServer, Sockets, clientVars
<1>3. CASE InitServerFails \/ Connect2ClientFails
  BY <1>3, QuietSockets DEF InitServerFails, Connect2ClientFails, netVars, sessionVars, serverVars, clientVars
<1>4. CASE RecvFileInfo \/ RecvFileInfoPart \/ RecvFileInfoRest
  BY <1>4, QuietSockets DEF RecvFileInfo, RecvFileInfoPart, RecvFileInfoRest, Received, AfterHeader,
     Serving, clientVars
<1>5. CASE RecvImg
  BY <1>5, QuietSockets DEF RecvImg, Received, Serving, clientVars
<1>6. CASE ReadLocalImage \/ Recognize \/ CreateInfo \/ WriteLocalImage
  BY <1>6, QuietSockets DEF ReadLocalImage, Recognize, CreateInfo, WriteLocalImage, Compute, netVars,
     Serving, clientVars
<1>7. CASE SendFileInfo \/ SendImg
  BY <1>7, QuietSockets DEF SendFileInfo, SendImg, Sent, sessionVars, Serving, clientVars
<1>8. CASE \/ RecvFileInfoFails \/ RecvImgFails \/ SendFileInfoFails \/ SendImgFails
           \/ FinishSession
  <2>1. srv \in Serving /\ (DropSession \/ FinishSession)
    BY <1>8 DEF RecvFileInfoFails, RecvImgFails, SendFileInfoFails, SendImgFails, FinishSession, Serving
  <2> QED
    BY <2>1, EndSockets DEF DropSession, EndSession, FinishSession, ClearSession, clientVars
<1>9. CASE \/ RecvFileInfoOverrun \/ RecvImgCrashes \/ RecognizeCrashes
           \/ CreateInfoCrashes \/ WriteLocalImageCrashes
  <2>1. Crash
    BY <1>9 DEF RecvFileInfoOverrun, RecvImgCrashes, RecognizeCrashes,
       CreateInfoCrashes, WriteLocalImageCrashes
  <2> QED
    BY <2>1, CloseAllSockets DEF Crash, ClearSession, clientVars
<1>10. CASE CloseServer
  <2>1. cur = NoClient
    BY <1>10 DEF CloseServer, Sockets, SocketsAccounted, Serving
  <2> QED
    BY <1>10, <2>1, CloseAllSockets DEF CloseServer, sessionVars, clientVars
<1> QED
  BY <1>1, <1>2, <1>3, <1>4, <1>5, <1>6, <1>7, <1>8, <1>9, <1>10, AcceptSockets DEF Analyse

(***************************************************************************)
(* A client's steps.  Only connect touches the server's sockets.           *)
(***************************************************************************)
LEMMA ConnectSockets ==
  ASSUME Types, Sockets, NEW c \in Clients, initClient(c), UNCHANGED serverVars
  PROVE  Sockets'
<1>1. backlog \in Seq(Clients) /\ backlog' = Append(backlog, c)
  BY DEF initClient, Establish, Types, NetTypeOK
<1>2. /\ Len(backlog) \in Nat /\ DOMAIN backlog = 1..Len(backlog)
      /\ DOMAIN backlog' = 1..Len(backlog) + 1
      /\ \A i \in DOMAIN backlog : backlog'[i] = backlog[i]
      /\ backlog'[Len(backlog) + 1] = c
  BY <1>1
<1>3. cpc[c] = "init" /\ sSock[c] = "none" /\ cur # c
  BY ServerAssumption DEF initClient, Sockets, SocketsAccounted
<1>4. \A d \in Clients : sSock'[d] = IF d = c THEN "queued" ELSE sSock[d]
  BY DEF initClient, Establish, Types, NetTypeOK
<1>5. UNCHANGED <<srv, cur, success, listening, upSnd>> /\ listening
  BY DEF initClient, Establish, CanConnect, serverVars, sessionVars
<1>6. \A i \in DOMAIN backlog : backlog[i] # c
  BY <1>3 DEF Sockets, SocketsAccounted
<1>7. \A d \in Clients : sSock'[d] = "queued" <=> \E i \in DOMAIN backlog' : backlog'[i] = d
  <2>1. ASSUME NEW d \in Clients, d # c
        PROVE  (\E i \in DOMAIN backlog' : backlog'[i] = d) <=> \E i \in DOMAIN backlog : backlog[i] = d
    BY <1>2, <2>1
  <2>2. \E i \in DOMAIN backlog' : backlog'[i] = c
    BY <1>2
  <2> QED
    BY <1>4, <2>1, <2>2 DEF Sockets, SocketsAccounted
<1>8. \A i, j \in DOMAIN backlog' : backlog'[i] = backlog'[j] => i = j
  BY <1>2, <1>6 DEF Sockets, SocketsAccounted
<1>9. SocketsAccounted'
  BY <1>3, <1>4, <1>5, <1>7, <1>8 DEF Sockets, SocketsAccounted
<1>10. \A d \in Clients : cpc'[d] = "init" => d # c /\ cpc[d] = "init" /\ cSock'[d] = cSock[d]
  BY DEF initClient, Establish, Goto, Types, NetTypeOK, ClientTypeOK
<1>11. srv' \notin {"load", "init"}
  BY <1>5 DEF Sockets, Serving
<1> QED
  BY <1>3, <1>4, <1>5, <1>9, <1>10, <1>11 DEF Sockets

LEMMA ClientKeepsSockets ==
  ASSUME NEW c \in Clients, main(c) \/ Outside(c), ~initClient(c), UNCHANGED serverVars
  PROVE  UNCHANGED <<srv, cur, success, listening, backlog, sSock>>
BY DEF main, Outside, initClientSpins, initClientFails, preprocessFileInfo, sendFileInfo,
   sendFileInfoFails, openImg, sendImg, sendImgFails, recvFileInfo, recvFileInfoPart,
   recvFileInfoRest, recvFileInfoOverrun, recvFileInfoFails, recvImg, recvImgFails,
   recvImgCrashes, saveImg, saveImgCrashes, Kill, Stall, ReplaceFile, Exit, Put, Take,
   serverVars, sessionVars, netVars

LEMMA ClientSockets ==
  ASSUME Types, Sockets, NEW c \in Clients, main(c) \/ Outside(c), UNCHANGED serverVars
  PROVE  Sockets'
<1>1. CASE initClient(c)
  BY <1>1, ConnectSockets
<1>2. CASE ~initClient(c)
  <2>1. UNCHANGED <<srv, cur, success, listening, backlog, sSock>>
    BY <1>2, ClientKeepsSockets
  <2>2. SocketsAccounted'
    BY <2>1 DEF Sockets, SocketsAccounted
  <2>3. ASSUME NEW d \in Clients, cpc'[d] = "init"
        PROVE  cpc[d] = "init" /\ cSock'[d] = cSock[d] /\ upSnd'[d] = upSnd[d]
    <3>1. CASE UNCHANGED <<cSock, upSnd>>
      <4>1. cpc' = cpc \/ \E s \in ClientStates \ {"init"} : Goto(c, s)
        BY <1>2 DEF main, Outside, initClientSpins, initClientFails, preprocessFileInfo, sendFileInfo,
           sendFileInfoFails, openImg, sendImg, sendImgFails, recvFileInfo, recvFileInfoPart,
           recvFileInfoRest, recvFileInfoOverrun, recvFileInfoFails, recvImg, recvImgFails,
           recvImgCrashes, saveImg, saveImgCrashes, Kill, Stall, ReplaceFile, Exit,
           clientVars, ClientStates, Ended
      <4> QED
        BY <2>3, <3>1, <4>1 DEF Goto, Types, ClientTypeOK
    <3>2. CASE \E how \in Ended : Exit(c, how)
      BY <2>3, <3>2 DEF Exit, Goto, Types, ClientTypeOK, NetTypeOK, Ended
    <3>3. CASE sendFileInfo(c) \/ sendImg(c)
      <4>1. UNCHANGED cSock /\ cpc[c] # "init" /\ \E k \in Int : Put(c, k)
        BY <3>3, TcpAssumption DEF sendFileInfo, sendImg, Put, Chunk
      <4>2. cpc' = cpc \/ cpc' = [cpc EXCEPT ![c] = "imread"] \/ cpc' = [cpc EXCEPT ![c] = "recvInfo"]
        BY <3>3 DEF sendFileInfo, sendImg, Goto
      <4> QED
        BY <2>3, <4>1, <4>2 DEF Put, Types, ClientTypeOK, NetTypeOK
    <3> QED
      BY <1>2, <3>1, <3>2, <3>3 DEF main, Outside, initClientSpins, initClientFails,
         preprocessFileInfo, sendFileInfoFails, openImg, sendImgFails, recvFileInfo,
         recvFileInfoPart, recvFileInfoRest, recvFileInfoOverrun, recvFileInfoFails, recvImg,
         recvImgFails, recvImgCrashes, saveImg, saveImgCrashes, Kill, Stall, ReplaceFile,
         Take, Ended, netVars
  <2> QED
    BY <2>1, <2>2, <2>3 DEF Sockets
<1> QED
  BY <1>1, <1>2

LEMMA NextSockets ==
  ASSUME Types, Sockets, [Next]_vars
  PROVE  Sockets'
<1>1. CASE ServerStep
  BY <1>1, ServerSockets DEF ServerStep
<1>2. ASSUME NEW c \in Clients, ClientStep(c) \/ OutsideStep(c) PROVE Sockets'
  BY <1>2, ClientSockets DEF ClientStep, OutsideStep
<1>3. CASE UNCHANGED vars
  BY <1>3 DEF vars, netVars, serverVars, sessionVars, clientVars, Sockets, SocketsAccounted
<1> QED
  BY <1>1, <1>2, <1>3 DEF Next, Over

-----------------------------------------------------------------------------
LEMMA InitTypes == Init => Types
<1> SUFFICES ASSUME Init PROVE Types
  OBVIOUS
<1>1. <<>> \in Seq(Clients)
  OBVIOUS
<1>2. NetTypeOK
  BY <1>1 DEF Init, NetInit, NetTypeOK
<1>3. ServerTypeOK
  BY DEF Init, ServerInit, ServerTypeOK, ServerStates
<1>4. ClientTypeOK
  BY ClientAssumption DEF Init, ClientInit, ClientTypeOK, ClientStates
<1>5. HeadersKnown
  BY DEF Init, NetInit, ServerInit, ClientInit, HeadersKnown, Serving
<1> QED
  BY <1>2, <1>3, <1>4, <1>5 DEF Types

\* IInv is inductive.
LEMMA Inductive == Spec => []IInv
<1>1. Init => IInv
  BY InitTypes, InitSockets DEF IInv
<1>2. IInv /\ [Next]_vars => IInv'
  BY NextTypes, NextSockets DEF IInv
<1> QED
  BY <1>1, <1>2, PTL DEF Spec

\* Every variable keeps its type: no length goes negative and no header is
\* used before it has arrived, however the two programs are interleaved.
THEOREM TypeCorrect == Spec => []TypeOK
<1>1. IInv => TypeOK
  BY DEF IInv, Types, TypeOK
<1> QED
  BY <1>1, Inductive, PTL

\* No path out of a session of Analyse leaks its socket or closes another's:
\* the one open connection is the one being served, and the ones not yet
\* accepted are those in the listen queue.
THEOREM SocketsAlwaysAccounted == Spec => []SocketsAccounted
<1>1. IInv => SocketsAccounted
  BY DEF IInv, Sockets
<1> QED
  BY <1>1, Inductive, PTL

-----------------------------------------------------------------------------
(***************************************************************************)
(* The server implements the service of RequestService.  Init maps to      *)
(* RSInit, and every step to one of the service's or to none.              *)
(***************************************************************************)
LEMMA InitRefines == Init => RS!RSInit
<1> SUFFICES ASSUME Init PROVE RS!RSInit
  OBVIOUS
<1>1. Outcome = [c \in Clients |-> "none"]
  BY DEF Init, NetInit, ServerInit, Outcome
<1> QED
  BY <1>1 DEF Init, NetInit, ServerInit, RS!RSInit, ServerOver

\* A step that leaves the service as it is.
LEMMA StutterRefines ==
  ASSUME UNCHANGED <<backlog, cur, sSock, success>>, ServerOver' = ServerOver
  PROVE  UNCHANGED RS!rsVars
BY DEF RS!rsVars, Outcome

LEMMA ArriveRefines ==
  ASSUME IInv, NEW c \in Clients, initClient(c), UNCHANGED serverVars
  PROVE  RS!Arrive(c)
<1>1. /\ listening /\ Len(backlog) < MaxBacklog /\ backlog' = Append(backlog, c)
      /\ sSock' = [sSock EXCEPT ![c] = "queued"] /\ cpc[c] = "init"
      /\ UNCHANGED <<srv, cur, success>>
  BY DEF initClient, Establish, CanConnect, serverVars, sessionVars
<1>2. sSock[c] = "none" /\ c \notin success /\ c # cur
  BY <1>1, ServerAssumption DEF IInv, Sockets, SocketsAccounted
<1>3. c \notin RS!Waiting
  BY <1>2 DEF IInv, Sockets, SocketsAccounted, RS!Waiting
<1>4. Outcome[c] = "none"
  BY <1>2 DEF Outcome
<1>5. Outcome' = Outcome
  BY <1>1, <1>2 DEF Outcome, IInv, Types, NetTypeOK
<1>6. ~ServerOver /\ ServerOver' = ServerOver
  BY <1>1 DEF IInv, Sockets, Serving, ServerOver
<1> QED
  BY <1>1, <1>2, <1>3, <1>4, <1>5, <1>6 DEF RS!Arrive

LEMMA BeginRefines ==
  ASSUME IInv, Connect2Client
  PROVE  RS!Begin
<1>1. /\ srv = "accept" /\ srv' = "recvInfo" /\ backlog # <<>> /\ success' = success
      /\ backlog' = Tail(backlog) /\ cur' = Head(backlog)
      /\ sSock' = [sSock EXCEPT ![Head(backlog)] = "open"]
  BY DEF Connect2Client
<1>2. cur = NoClient
  BY <1>1 DEF IInv, Sockets, SocketsAccounted, Serving
<1>3. Head(backlog) \in Clients /\ Head(backlog) = backlog[1] /\ 1 \in DOMAIN backlog
  BY <1>1 DEF IInv, Types, NetTypeOK
<1>4. sSock[Head(backlog)] = "queued"
  BY <1>3 DEF IInv, Sockets, SocketsAccounted
<1>5. Outcome' = Outcome
  BY <1>1, <1>3, <1>4 DEF Outcome, IInv, Types, NetTypeOK
<1> QED
  BY <1>1, <1>2, <1>5 DEF RS!Begin, ServerOver

LEMMA FinishRefines ==
  ASSUME IInv, srv \in Serving, DropSession \/ FinishSession
  PROVE  RS!Finish
<1>1. cur \in Clients /\ sSock[cur] = "open" /\ cur \notin success /\ cur # NoClient
  BY ServingClient, ServerAssumption DEF IInv, Types, Sockets
<1>2. /\ srv' \in {"accept", "closing"} /\ backlog' = backlog /\ cur' = NoClient
      /\ sSock' = [sSock EXCEPT ![cur] = "closed"]
      /\ success' \in {success, success \cup {cur}}
  BY DEF DropSession, EndSession, FinishSession, ClearSession
<1>3. \A c \in Clients : sSock'[c] = IF c = cur THEN "closed" ELSE sSock[c]
  BY <1>1, <1>2 DEF IInv, Types, NetTypeOK
<1>4. CASE success' = success
  <2>1. Outcome' = [Outcome EXCEPT ![cur] = "dropped"]
    BY <1>1, <1>3, <1>4 DEF Outcome
  <2> QED
    BY <1>1, <1>2, <2>1 DEF RS!Finish, ServerOver, Serving
<1>5. CASE success' = success \cup {cur}
  <2>1. Outcome' = [Outcome EXCEPT ![cur] = "answered"]
    BY <1>1, <1>3, <1>5 DEF Outcome
  <2> QED
    BY <1>1, <1>2, <2>1 DEF RS!Finish, ServerOver, Serving
<1> QED
  BY <1>2, <1>4, <1>5

LEMMA HaltRefines ==
  ASSUME IInv, ~ServerOver, ServerOver', CloseAllServerSockets, cur' = NoClient,
         success' = success
  PROVE  RS!Halt
<1>1. \A c \in Clients : sSock'[c] = IF sSock[c] = "none" THEN "none" ELSE "closed"
  BY DEF CloseAllServerSockets
<1>2. \A c \in Clients : c \in RS!Waiting \cup {cur} <=> sSock[c] \in {"queued", "open"}
  BY DEF IInv, Sockets, SocketsAccounted, RS!Waiting
<1>3. \A c \in Clients : sSock[c] \in {"none", "queued", "open", "closed"}
  BY DEF IInv, Types, NetTypeOK
<1>4. \A c \in success : sSock[c] = "closed"
  BY DEF IInv, Types, ServerTypeOK, Sockets
<1>5. Outcome' = [c \in Clients |-> IF c \in RS!Waiting \cup {cur} THEN "dropped" ELSE Outcome[c]]
  BY <1>1, <1>2, <1>3, <1>4 DEF Outcome
<1> QED
  BY <1>5 DEF RS!Halt, CloseAllServerSockets

\* The server ends before it has listened.
LEMMA EarlyHaltRefines ==
  ASSUME IInv, srv \in {"load", "init"}, srv' \in {"stopped", "crashed"},
         UNCHANGED <<backlog, cur, sSock, success>>
  PROVE  RS!Halt
<1>1. backlog = <<>> /\ cur = NoClient
  BY DEF IInv, Sockets, SocketsAccounted, Serving
<1>2. \A c \in Clients : c \notin RS!Waiting \cup {cur}
  BY <1>1, ServerAssumption DEF RS!Waiting
<1>3. Outcome' = [c \in Clients |-> IF c \in RS!Waiting \cup {cur} THEN "dropped" ELSE Outcome[c]]
  BY <1>2 DEF Outcome
<1> QED
  BY <1>1, <1>3 DEF RS!Halt, ServerOver

LEMMA ServerRefines ==
  ASSUME IInv, Analyse
  PROVE  [RS!RSNext]_(RS!rsVars)
<1>1. CASE LoadModel
  <2>1. srv = "load" /\ srv' \in {"init", "stopped", "crashed"}
        /\ UNCHANGED <<backlog, cur, sSock, success>>
    BY <1>1, LoadStates DEF LoadModel, netVars, sessionVars
  <2>2. CASE srv' = "init"
    BY <2>1, <2>2, StutterRefines DEF ServerOver
  <2>3. CASE srv' # "init"
    BY <2>1, <2>3, EarlyHaltRefines DEF RS!RSNext
  <2> QED
    BY <2>2, <2>3
<1>2. CASE InitServerFails
  BY <1>2, EarlyHaltRefines DEF InitServerFails, RS!RSNext, netVars, sessionVars
<1>3. CASE Connect2Client
  BY <1>3, BeginRefines DEF RS!RSNext
<1>4. CASE \/ RecvFileInfoFails \/ RecvImgFails \/ SendFileInfoFails \/ SendImgFails
           \/ FinishSession
  <2>1. srv \in Serving /\ (DropSession \/ FinishSession)
    BY <1>4 DEF RecvFileInfoFails, RecvImgFails, SendFileInfoFails, SendImgFails, FinishSession, Serving
  <2> QED
    BY <2>1, FinishRefines DEF RS!RSNext
<1>5. CASE \/ RecvFileInfoOverrun \/ RecvImgCrashes \/ RecognizeCrashes
           \/ CreateInfoCrashes \/ WriteLocalImageCrashes
  <2>1. Crash /\ srv \in Serving
    BY <1>5 DEF RecvFileInfoOverrun, RecvImgCrashes, RecognizeCrashes,
       CreateInfoCrashes, WriteLocalImageCrashes, Serving
  <2> QED
    BY <2>1, HaltRefines DEF Crash, ClearSession, RS!RSNext, ServerOver, Serving
<1>6. CASE CloseServer
  <2>1. srv = "closing" /\ srv' = "stopped" /\ cur = NoClient
    BY <1>6 DEF CloseServer, IInv, Sockets, SocketsAccounted, Serving
  <2> QED
    BY <1>6, <2>1, HaltRefines DEF CloseServer, sessionVars, RS!RSNext, ServerOver
<1>7. CASE \/ InitServer \/ Connect2ClientFails
           \/ RecvFileInfo \/ RecvFileInfoPart \/ RecvFileInfoRest \/ RecvImg
           \/ ReadLocalImage \/ Recognize \/ CreateInfo \/ WriteLocalImage
           \/ SendFileInfo \/ SendImg
  <2>1. UNCHANGED <<backlog, cur, sSock, success>>
    BY <1>7 DEF InitServer, Connect2ClientFails, RecvFileInfo, RecvFileInfoPart, RecvFileInfoRest,
       RecvImg, Received, ReadLocalImage, Recognize, CreateInfo, WriteLocalImage, Compute,
       SendFileInfo, SendImg, Sent, netVars, serverVars, sessionVars
  <2>2. ServerOver' = ServerOver
    BY <1>7 DEF ServerOver, InitServer, Connect2ClientFails, RecvFileInfo, RecvFileInfoPart,
       RecvFileInfoRest, RecvImg, ReadLocalImage, Recognize, CreateInfo, WriteLocalImage,
       SendFileInfo, SendImg, AfterHeader, serverVars
  <2> QED
    BY <2>1, <2>2, StutterRefines
<1> QED
  BY <1>1, <1>2, <1>3, <1>4, <1>5, <1>6, <1>7 DEF Analyse

LEMMA NextRefines ==
  ASSUME IInv, [Next]_vars
  PROVE  [RS!RSNext]_(RS!rsVars)
<1>1. CASE ServerStep
  BY <1>1, ServerRefines DEF ServerStep
<1>2. ASSUME NEW c \in Clients, ClientStep(c) \/ OutsideStep(c)
      PROVE  [RS!RSNext]_(RS!rsVars)
  <2>1. CASE initClient(c)
    BY <1>2, <2>1, ArriveRefines DEF ClientStep, OutsideStep, RS!RSNext
  <2>2. CASE ~initClient(c)
    <3>1. UNCHANGED <<srv, cur, success, backlog, sSock>>
      BY <1>2, <2>2, ClientKeepsSockets DEF ClientStep, OutsideStep
    <3> QED
      BY <3>1, StutterRefines DEF ServerOver
  <2> QED
    BY <2>1, <2>2
<1>3. CASE UNCHANGED vars
  BY <1>3, StutterRefines DEF vars, netVars, serverVars, sessionVars, ServerOver
<1> QED
  BY <1>1, <1>2, <1>3 DEF Next, Over

\* The server takes the clients in the order in which they connected, one at
\* a time, and ends each request exactly once, whatever the clients do.
THEOREM ImplementsRequestService == Spec => ServesRequests
<1>1. Init => RS!RSInit
  BY InitRefines
<1>2. IInv /\ [Next]_vars => [RS!RSNext]_(RS!rsVars)
  BY NextRefines
<1> QED
  BY <1>1, <1>2, Inductive, PTL DEF Spec, ServesRequests, RS!RSSpec

-----------------------------------------------------------------------------
\* load_model's log is right about a file that is there: a server that listens
\* has an engine, and keeps it.
THEOREM PresentModelIsLoaded ==
  ASSUME "absent" \notin ModelFiles
  PROVE  Spec => []LoadedModelIsThere
<1> DEFINE Loaded == srv \notin {"load", "stopped", "crashed"} => engine640
<1>1. Init => Loaded
  BY DEF Init, ServerInit
<1>2. Loaded /\ [Next]_vars => Loaded'
  <2> SUFFICES ASSUME Loaded, [Next]_vars PROVE Loaded'
    OBVIOUS
  <2>1. CASE LoadModel
    BY <2>1, ServerAssumption DEF LoadModel
  <2>2. CASE Analyse /\ ~LoadModel
    <3>1. srv # "load" /\ (srv \in {"stopped", "crashed"} => srv' = srv) /\ engine640' = engine640
      BY <2>2 DEF Analyse, InitServer, InitServerFails, Connect2Client, Connect2ClientFails, RecvFileInfo,
         RecvFileInfoPart, RecvFileInfoRest, RecvFileInfoOverrun, RecvFileInfoFails, RecvImg, RecvImgFails,
         RecvImgCrashes, ReadLocalImage, Recognize, RecognizeCrashes, CreateInfo, CreateInfoCrashes,
         SendFileInfo, SendFileInfoFails, SendImg, SendImgFails, WriteLocalImage, WriteLocalImageCrashes,
         FinishSession, CloseServer, Compute, DropSession, EndSession, Crash, serverVars
    <3> QED
      BY <3>1
  <2>3. CASE UNCHANGED serverVars
    BY <2>3 DEF serverVars
  <2> QED
    BY <2>1, <2>2, <2>3 DEF Next, ServerStep, ClientStep, OutsideStep, Over, vars
<1>3. IInv /\ Loaded => LoadedModelIsThere
  BY DEF IInv, Sockets, Serving, LoadedModelIsThere
<1> QED
  BY <1>1, <1>2, <1>3, Inductive, PTL DEF Spec

=============================================================================
