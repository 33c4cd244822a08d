-------------------------- MODULE AnoStreamProofs --------------------------
(***************************************************************************)
(* Theorems about what AnoSystem transfers, for any clients and any values *)
(* of its constants.                                                       *)
(*                                                                         *)
(* That both sides stay aligned with the streams (Framing) holds whatever  *)
(* happens.  Streams says where each process is in the two streams of its  *)
(* connection, which takes what Framing leaves out: that a stream nobody   *)
(* has used yet is at its start, and that a call that starts to transfer   *)
(* finds its counter at 0.                                                 *)
(*                                                                         *)
(* What is in the streams is what was meant as long as recv does not split *)
(* a header and the labels fit into ano_res (Undamaged); the code does not *)
(* ensure either.  Letters says how the headers and the images of a        *)
(* session belong together: a request is what its client announced, the    *)
(* server works on that request, and the reply is for its image.           *)
(*                                                                         *)
(* Flow says how much of either stream is on its way, and so which of the  *)
(* calls that wait can wait for each other (OnlyMutualWaitsStop) or for a  *)
(* client that has stopped (OnlyRecvImgWaits), again whatever happens.     *)
(***************************************************************************)
EXTENDS AnoSystemProofs

\* The server, in the streams of its session.
ServerStreams ==
  /\ srv \notin {"recvInfo", "recvImg", "sendImg", "finish"} => sum = 0
  /\ srv = "recvInfo" => upRcv[cur] = sum
  /\ srv = "recvImg" => upRcv[cur] = HdrLen + sum
  /\ srv = "sendImg" => downSnd[cur] = HdrLen + sum
  /\ srv \in Serving \ {"sendImg", "imwrite", "finish"} => downSnd[cur] = 0

\* A client, in its own.
ClientStreams(c) ==
  /\ sSock[c] \in {"none", "queued"} => upRcv[c] = 0 /\ downSnd[c] = 0
  /\ cpc[c] \in {"init", "preprocess", "sendInfo", "imread"} => csum[c] = 0
  /\ cpc[c] \in {"init", "preprocess", "sendInfo", "imread", "sendImg"} => downRcv[c] = 0 /\ rep[c] = NoInfo
  /\ cpc[c] = "recvInfo" => downRcv[c] = csum[c] /\ rep[c] = NoInfo
  /\ cpc[c] = "recvImg" /\ rep[c] # NoInfo => downRcv[c] = HdrLen + csum[c]

Streams == ServerStreams /\ \A c \in Clients : ClientStreams(c)

-----------------------------------------------------------------------------
(***************************************************************************)
(* A client's step is about that client.                                   *)
(***************************************************************************)
SameFor(d) ==
  /\ cpc'[d] = cpc[d] /\ file'[d] = file[d] /\ fileinfo'[d] = fileinfo[d] /\ csum'[d] = csum[d]
  /\ cimg'[d] = cimg[d] /\ rep'[d] = rep[d] /\ img'[d] = img[d]
  /\ cSock'[d] = cSock[d] /\ sSock'[d] = sSock[d]
  /\ upInfo'[d] = upInfo[d] /\ upSnd'[d] = upSnd[d] /\ upRcv'[d] = upRcv[d]
  /\ downInfo'[d] = downInfo[d] /\ downSnd'[d] = downSnd[d] /\ downRcv'[d] = downRcv[d]

LEMMA PartOf ==
  ASSUME NEW n, NEW ready, NEW k \in Chunk(n, ready)
  PROVE  k \in Nat \ {0} /\ k <= n /\ k <= ready
BY DEF Chunk

LEMMA OtherClients ==
  ASSUME Types, NEW c \in Clients, main(c) \/ Outside(c)
  PROVE  /\ UNCHANGED <<upRcv, downInfo, downSnd>>
         /\ \A d \in Clients : d # c => SameFor(d)
<1> USE DEF SameFor, Goto, Types, NetTypeOK, ClientTypeOK, netVars, clientVars
<1>1. CASE initClient(c) \/ initClientSpins(c) \/ initClientFails(c)
  BY <1>1 DEF initClient, initClientSpins, initClientFails, Establish
<1>2. CASE preprocessFileInfo(c) \/ openImg(c) \/ sendFileInfoFails(c) \/ sendImgFails(c)
  BY <1>2 DEF preprocessFileInfo, openImg, sendFileInfoFails, sendImgFails
<1>3. CASE sendFileInfo(c)
  BY <1>3 DEF sendFileInfo, Put
<1>4. CASE sendImg(c)
  BY <1>4, SMTT(20) DEF sendImg, Put
<1>5. CASE recvFileInfo(c) \/ recvFileInfoPart(c)
  BY <1>5 DEF recvFileInfo, recvFileInfoPart, Take
<1>6. CASE recvFileInfoRest(c)
  BY <1>6, SMTT(20) DEF recvFileInfoRest, Take
<1>7. CASE recvImg(c)
  BY <1>7, SMTT(20) DEF recvImg, Take
<1>8. CASE recvFileInfoFails(c) \/ recvImgFails(c)
  BY <1>8 DEF recvFileInfoFails, recvImgFails
<1>9. CASE recvFileInfoOverrun(c) \/ recvImgCrashes(c) \/ saveImg(c) \/ saveImgCrashes(c) \/ Kill(c)
  BY <1>9 DEF recvFileInfoOverrun, recvImgCrashes, saveImg, saveImgCrashes, Kill, Exit
<1>10. CASE Stall(c) \/ ReplaceFile(c)
  BY <1>10 DEF Stall, ReplaceFile
<1> QED
  BY <1>1, <1>2, <1>3, <1>4, <1>5, <1>6, <1>7, <1>8, <1>9, <1>10 DEF main, Outside

\* A server's step is about the client of the session, if there is one.
LEMMA OtherSessions ==
  ASSUME IInv, Analyse
  PROVE  /\ UNCHANGED <<cSock, upInfo, upSnd, downRcv>>
         /\ \A d \in Clients : d # cur => upRcv'[d] = upRcv[d] /\ downInfo'[d] = downInfo[d] /\ downSnd'[d] = downSnd[d]
         /\ \A d \in Clients : sSock'[d] \in {"none", "queued"} => sSock'[d] = sSock[d]
         /\ \A d \in Clients : sSock'[d] # "closed" => sSock[d] # "closed"
<1> USE DEF IInv, Types, NetTypeOK, ServerTypeOK, Sockets, SocketsAccounted, netVars, serverVars, sessionVars
<1>1. CASE LoadModel \/ InitServer \/ InitServerFails \/ Connect2ClientFails
  BY <1>1 DEF LoadModel, InitServer, InitServerFails, Connect2ClientFails
<1>2. CASE Connect2Client
  <2>1. Head(backlog) \in Clients /\ sSock[Head(backlog)] = "queued"
    BY <1>2 DEF Connect2Client
  <2>2. sSock' = [sSock EXCEPT ![Head(backlog)] = "open"]
    BY <1>2 DEF Connect2Client
  <2>3. \A d \in Clients : sSock'[d] = IF d = Head(backlog) THEN "open" ELSE sSock[d]
    BY <2>1, <2>2
  <2>4. UNCHANGED <<cSock, upInfo, upSnd, upRcv, downInfo, downSnd, downRcv>>
    BY <1>2 DEF Connect2Client
  <2> QED
    BY ONLY <2>1, <2>3, <2>4
<1>3. CASE RecvFileInfo \/ RecvFileInfoPart \/ RecvFileInfoRest \/ RecvImg
  BY <1>3 DEF RecvFileInfo, RecvFileInfoPart, RecvFileInfoRest, RecvImg, Received
<1>4. CASE ReadLocalImage \/ Recognize \/ CreateInfo \/ WriteLocalImage
  BY <1>4 DEF ReadLocalImage, Recognize, CreateInfo, WriteLocalImage, Compute
<1>5. CASE SendFileInfo \/ SendImg
  BY <1>5, SMTT(20) DEF SendFileInfo, SendImg, Sent
<1>6. CASE \/ RecvFileInfoFails \/ RecvImgFails \/ SendFileInfoFails \/ SendImgFails
           \/ FinishSession
  BY <1>6 DEF RecvFileInfoFails, RecvImgFails, SendFileInfoFails, SendImgFails, FinishSession,
     DropSession, EndSession
<1>7. CASE \/ RecvFileInfoOverrun \/ RecvImgCrashes \/ RecognizeCrashes
           \/ CreateInfoCrashes \/ WriteLocalImageCrashes \/ CloseServer
  <2>1. CloseAllServerSockets /\ UNCHANGED <<cSock, upInfo, upSnd, upRcv, downInfo, downSnd, downRcv>>
    BY <1>7 DEF RecvFileInfoOverrun, RecvImgCrashes, RecognizeCrashes,
       CreateInfoCrashes, WriteLocalImageCrashes, CloseServer, Crash
  <2> QED
    BY <2>1 DEF CloseAllServerSockets
<1> QED
  BY <1>1, <1>2, <1>3, <1>4, <1>5, <1>6, <1>7 DEF Analyse

-----------------------------------------------------------------------------
(***************************************************************************)
(* Where the processes are in their streams.                               *)
(***************************************************************************)
LEMMA InitStreams ==
  ASSUME Init
  PROVE  Streams
BY DEF Init, NetInit, ServerInit, ClientInit, Streams, ServerStreams, ClientStreams, Serving

LEMMA ClientStepStreams ==
  ASSUME IInv, Streams, NEW c \in Clients, main(c) \/ Outside(c), UNCHANGED serverVars
  PROVE  Streams'
<1>1. UNCHANGED <<upRcv, downInfo, downSnd>> /\ \A d \in Clients : d # c => SameFor(d)
  BY OtherClients DEF IInv
<1>2. ServerStreams'
  BY <1>1 DEF Streams, ServerStreams, serverVars, sessionVars
<1>3. ASSUME NEW d \in Clients, d # c PROVE ClientStreams(d)'
  BY <1>1, <1>3 DEF Streams, ClientStreams, SameFor
<1>4. ClientStreams(c)'
  <2> USE <1>1 DEF Streams, ClientStreams, Goto, IInv, Types, NetTypeOK, ClientTypeOK, netVars, clientVars
  <2>1. CASE initClient(c)
    BY <2>1 DEF initClient, Establish, Sockets
  <2>2. CASE initClientSpins(c) \/ initClientFails(c)
    BY <2>2 DEF initClientSpins, initClientFails
  <2>3. CASE preprocessFileInfo(c) \/ sendFileInfoFails(c)
    BY <2>3 DEF preprocessFileInfo, sendFileInfoFails
  <2>4. CASE openImg(c) \/ sendImgFails(c)
    BY <2>4 DEF openImg, sendImgFails
  <2>5. CASE sendFileInfo(c)
    BY <2>5 DEF sendFileInfo, Put
  <2>6. CASE sendImg(c)
    BY <2>6 DEF sendImg, Put
  <2>7. CASE recvFileInfo(c)
    BY <2>7, TcpAssumption DEF recvFileInfo, Take
  <2>8. CASE recvFileInfoPart(c)
    <3>1. PICK k \in Chunk(HdrLen - 1, DownReady(c)) : Take(c, k) /\ csum' = [csum EXCEPT ![c] = k]
      BY <2>8 DEF recvFileInfoPart
    <3>2. k \in Nat
      BY <3>1, PartOf
    <3> QED
      BY <2>8, <3>1, <3>2 DEF recvFileInfoPart, Take
  <2>9. CASE recvFileInfoRest(c)
    <3>1. PICK k \in Chunk(HdrLen - csum[c], DownReady(c)) :
            /\ Take(c, k)
            /\ \/ /\ csum[c] + k < HdrLen
                  /\ csum' = [csum EXCEPT ![c] = @ + k]
                  /\ UNCHANGED <<cpc, rep>>
               \/ /\ csum[c] + k = HdrLen
                  /\ csum' = [csum EXCEPT ![c] = 0]
                  /\ \E info \in SplitReply(downInfo[c]) : rep' = [rep EXCEPT ![c] = info]
                  /\ Goto(c, "recvImg")
      BY <2>9 DEF recvFileInfoRest
    <3>2. k \in Nat /\ cpc[c] = "recvInfo" /\ csum[c] \in Nat
      BY <2>9, <3>1, PartOf DEF recvFileInfoRest
    <3>3. downRcv'[c] = csum[c] + k /\ sSock' = sSock
      BY <3>1, <3>2 DEF Take
    <3>4. CASE csum[c] + k = HdrLen /\ csum' = [csum EXCEPT ![c] = 0] /\ Goto(c, "recvImg")
      BY <3>2, <3>3, <3>4, TcpAssumption
    <3>5. CASE csum' = [csum EXCEPT ![c] = @ + k] /\ UNCHANGED <<cpc, rep>>
      BY <3>2, <3>3, <3>5
    <3> QED
      BY <3>1, <3>4, <3>5
  <2>10. CASE recvFileInfoFails(c) \/ recvImgFails(c)
    BY <2>10 DEF recvFileInfoFails, recvImgFails
  <2>11. CASE recvImg(c)
    <3>1. PICK k \in Chunk(rep[c].size - csum[c], DownReady(c)) :
            /\ Take(c, k)
            /\ IF csum[c] + k = rep[c].size
                 THEN /\ Goto(c, "imwrite")
                      /\ csum' = [csum EXCEPT ![c] = 0]
                      /\ img' = [img EXCEPT ![c] = rep[c].size]
                 ELSE /\ csum' = [csum EXCEPT ![c] = @ + k]
                      /\ UNCHANGED <<cpc, img>>
      BY <2>11 DEF recvImg
    <3>2. k \in Nat /\ cpc[c] = "recvImg" /\ csum[c] \in Nat /\ rep[c] # NoInfo /\ rep' = rep
      BY <2>11, <3>1, PartOf DEF recvImg
    <3>3. downRcv'[c] = HdrLen + csum[c] + k /\ sSock' = sSock
      BY <3>1, <3>2, TcpAssumption DEF Take
    <3>4. CASE Goto(c, "imwrite")
      BY <3>2, <3>3, <3>4
    <3>5. CASE csum' = [csum EXCEPT ![c] = @ + k] /\ UNCHANGED cpc
      BY <3>2, <3>3, <3>5, TcpAssumption, SMTT(20)
    <3> QED
      BY <3>1, <3>4, <3>5
  <2>12. CASE recvFileInfoOverrun(c) \/ recvImgCrashes(c) \/ saveImg(c) \/ saveImgCrashes(c) \/ Kill(c)
    BY <2>12 DEF recvFileInfoOverrun, recvImgCrashes, saveImg, saveImgCrashes, Kill, Exit, Ended
  <2>13. CASE Stall(c) \/ ReplaceFile(c)
    BY <2>13 DEF Stall, ReplaceFile
  <2> QED
    BY <2>1, <2>2, <2>3, <2>4, <2>5, <2>6, <2>7, <2>8, <2>9, <2>10, <2>11, <2>12, <2>13 DEF main, Outside
<1> QED
  BY <1>2, <1>3, <1>4 DEF Streams

LEMMA ServerStepStreams ==
  ASSUME IInv, Streams, Analyse, UNCHANGED clientVars
  PROVE  Streams'
<1>1. /\ UNCHANGED <<cSock, upInfo, upSnd, downRcv, cpc, csum, rep>>
      /\ \A d \in Clients : d # cur => upRcv'[d] = upRcv[d] /\ downInfo'[d] = downInfo[d] /\ downSnd'[d] = downSnd[d]
      /\ \A d \in Clients : sSock'[d] \in {"none", "queued"} => sSock'[d] = sSock[d]
  BY OtherSessions DEF clientVars
<1>2. ASSUME NEW d \in Clients PROVE ClientStreams(d)'
  <2>1. sSock'[d] \in {"none", "queued"} => d # cur
    BY <1>1 DEF IInv, Sockets, SocketsAccounted
  <2> QED
    BY <1>1, <2>1 DEF Streams, ClientStreams
<1>3. ServerStreams'
  <2> USE DEF Streams, ServerStreams, IInv, Types, NetTypeOK, ServerTypeOK, netVars, serverVars, sessionVars, Serving
  <2>1. srv \in Serving => cur \in Clients
    BY ServingClient DEF Sockets
  <2>2. CASE LoadModel
    BY <2>2, LoadStates DEF LoadModel
  <2>3. CASE InitServer \/ InitServerFails \/ Connect2ClientFails
    BY <2>3 DEF InitServer, InitServerFails, Connect2ClientFails
  <2>4. CASE Connect2Client
    <3>1. Head(backlog) \in Clients /\ sSock[Head(backlog)] = "queued"
      BY <2>4 DEF Connect2Client, Sockets, SocketsAccounted
    <3> QED
      BY <2>4, <3>1 DEF Connect2Client, ClientStreams
  <2>5. CASE RecvFileInfo
    BY <2>1, <2>5, TcpAssumption DEF RecvFileInfo, Received, AfterHeader
  <2>6. CASE RecvFileInfoPart
    <3>1. PICK k \in Chunk(HdrLen - 1, UpReady(cur)) : Received(k) /\ sum' = k
      BY <2>6 DEF RecvFileInfoPart
    <3>2. k \in Nat
      BY <3>1, PartOf
    <3> QED
      BY <2>1, <2>6, <3>1, <3>2 DEF RecvFileInfoPart, Received
  <2>7. CASE RecvFileInfoRest
    <3>1. PICK k \in Chunk(HdrLen - sum, UpReady(cur)) :
            /\ Received(k)
            /\ \/ /\ sum + k < HdrLen
                  /\ sum' = sum + k
                  /\ UNCHANGED <<srv, recvInfo>>
               \/ /\ sum + k = HdrLen
                  /\ sum' = 0
                  /\ recvInfo' \in SplitHeader(upInfo[cur])
                  /\ srv' = AfterHeader(recvInfo')
      BY <2>7 DEF RecvFileInfoRest
    <3>2. k \in Nat /\ srv = "recvInfo" /\ cur' = cur
      BY <2>7, <3>1, PartOf DEF RecvFileInfoRest
    <3>3. upRcv'[cur] = sum + k /\ downSnd' = downSnd
      BY <2>1, <3>1, <3>2 DEF Received
    <3>4. CASE sum + k = HdrLen /\ sum' = 0 /\ srv' = AfterHeader(recvInfo')
      BY <3>2, <3>3, <3>4, TcpAssumption DEF AfterHeader
    <3>5. CASE sum' = sum + k /\ srv' = srv
      BY <3>2, <3>3, <3>5
    <3> QED
      BY <3>1, <3>4, <3>5
  <2>8. CASE RecvImg
    <3>1. PICK k \in Chunk(recvInfo.size - sum, UpReady(cur)) :
            /\ Received(k)
            /\ IF sum + k = recvInfo.size
                 THEN srv' = "recognize" /\ image' = recvInfo.size /\ sum' = 0
                 ELSE srv' = srv /\ image' = image /\ sum' = sum + k
      BY <2>8 DEF RecvImg
    <3>2. k \in Nat /\ srv = "recvImg" /\ cur' = cur
      BY <2>8, <3>1, PartOf DEF RecvImg
    <3>3. upRcv'[cur] = HdrLen + sum + k /\ downSnd' = downSnd
      BY <2>1, <3>1, <3>2, TcpAssumption DEF Received
    <3> QED
      BY <3>1, <3>2, <3>3, TcpAssumption
  <2>9. CASE ReadLocalImage \/ Recognize \/ CreateInfo \/ WriteLocalImage
    BY <2>1, <2>9 DEF ReadLocalImage, Recognize, CreateInfo, WriteLocalImage, Compute
  <2>10. CASE SendFileInfo
    BY <2>1, <2>10, TcpAssumption DEF SendFileInfo, Sent
  <2>11. CASE SendImg
    <3>1. PICK k \in Chunk(dst - sum, DownRoom(cur)) :
            /\ Sent(k)
            /\ sum' = sum + k
            /\ srv' = IF sum' = dst THEN "finish" ELSE "sendImg"
      BY <2>11 DEF SendImg
    <3>2. k \in Nat /\ srv = "sendImg" /\ cur' = cur
      BY <2>11, <3>1, PartOf DEF SendImg
    <3>3. downSnd'[cur] = HdrLen + sum + k
      BY <2>1, <3>1, <3>2, TcpAssumption DEF Sent
    <3> QED
      BY <3>1, <3>2, <3>3, TcpAssumption
  <2>12. CASE \/ RecvFileInfoFails \/ RecvImgFails \/ SendFileInfoFails \/ SendImgFails
              \/ FinishSession
    BY <2>12 DEF RecvFileInfoFails, RecvImgFails, SendFileInfoFails, SendImgFails, FinishSession,
       DropSession, EndSession, ClearSession
  <2>13. CASE \/ RecvFileInfoOverrun \/ RecvImgCrashes \/ RecognizeCrashes
              \/ CreateInfoCrashes \/ WriteLocalImageCrashes
    BY <2>13 DEF RecvFileInfoOverrun, RecvImgCrashes, RecognizeCrashes,
       CreateInfoCrashes, WriteLocalImageCrashes, Crash, ClearSession
  <2>14. CASE CloseServer
    BY <2>14 DEF CloseServer
  <2> QED
    BY <2>2, <2>3, <2>4, <2>5, <2>6, <2>7, <2>8, <2>9, <2>10, <2>11, <2>12, <2>13, <2>14 DEF Analyse
<1> QED
  BY <1>2, <1>3 DEF Streams

LEMMA InductiveStreams == Spec => [](IInv /\ Streams)
<1>1. Init => Streams
  BY InitStreams
<1>2. IInv /\ Streams /\ [Next]_vars => Streams'
  <2> SUFFICES ASSUME IInv, Streams, [Next]_vars PROVE Streams'
    OBVIOUS
  <2>1. CASE ServerStep
    BY <2>1, ServerStepStreams DEF ServerStep
  <2>2. ASSUME NEW c \in Clients, ClientStep(c) \/ OutsideStep(c) PROVE Streams'
    BY <2>2, ClientStepStreams DEF ClientStep, OutsideStep
  <2>3. CASE UNCHANGED vars
    BY <2>3 DEF vars, netVars, serverVars, sessionVars, clientVars, Streams, ServerStreams, ClientStreams
  <2> QED
    BY <2>1, <2>2, <2>3 DEF Next, Over
<1> QED
  BY <1>1, <1>2, Inductive, PTL DEF Spec

\* A call that has transferred sum units is that far in its stream, in both
\* programs, whatever pieces recv and send work in and whoever fails.
THEOREM StreamsAligned == Spec => []Framing
<1>1. Streams => Framing
  BY DEF Streams, ServerStreams, ClientStreams, Framing
<1> QED
  BY <1>1, InductiveStreams, PTL

-----------------------------------------------------------------------------
\* No header arrives in two pieces, and ano_res holds the labels.
Undamaged == ~HeaderSplits /\ "long" \notin Results

\* The calls of a client before its request is on the way.
Early == {"init", "preprocess", "sendInfo"}

\* What a client announces, and what of it has arrived.
Request(c) ==
  /\ fileinfo[c] # NoInfo => fileinfo[c].img_type = "8UC3" /\ fileinfo[c].size >= 0
  /\ cpc[c] = "recvInfo" => csum[c] = 0
  /\ sSock[c] # "closed" =>
       /\ cpc[c] \in Early => upSnd[c] = 0
       /\ upSnd[c] > 0 => fileinfo[c] \in FileInfo /\ upInfo[c] = fileinfo[c]
       /\ cpc[c] \in {"imread", "sendImg"} /\ cSock[c] = "open" => fileinfo[c] \in FileInfo /\ upInfo[c] = fileinfo[c]

\* The pixels that belong behind the header of c's reply.
Pixels(c) == IF fileinfo[c].status = "local" THEN 0 ELSE downInfo[c].size

\* What the server has answered.
Reply(c) ==
  /\ downSnd[c] > 0 =>
       /\ cpc[c] \notin Early /\ fileinfo[c] \in FileInfo /\ upInfo[c] = fileinfo[c]
       /\ fileinfo[c].status = "local" => downSnd[c] = HdrLen
       /\ fileinfo[c].status # "local" => downInfo[c].size \in {0, fileinfo[c].size}
       /\ downInfo[c].ano_res = "empty" <=> downInfo[c].size = 0
       /\ downInfo[c].img_type = "8UC3" /\ downSnd[c] <= HdrLen + Pixels(c)
  /\ c \in success => downSnd[c] > 0 /\ downSnd[c] = HdrLen + Pixels(c)
  /\ rep[c] # NoInfo => downSnd[c] > 0 /\ rep[c] = downInfo[c]
  /\ img[c] > 0 => rep[c] # NoInfo /\ img[c] = fileinfo[c].size
  /\ cpc[c] = "done" => img[c] > 0

\* What the server knows of the request it is working on.
Work ==
  /\ srv = "recvInfo" => sum = 0
  /\ srv \in Serving \ {"recvInfo"} =>
       /\ cpc[cur] \notin Early /\ recvInfo = fileinfo[cur] /\ upInfo[cur] = fileinfo[cur]
       /\ srv = "imread" => recvInfo.status = "local"
       /\ srv = "recvImg" => recvInfo.status # "local"
  /\ srv = "recognize" /\ recvInfo.status # "local" => image = recvInfo.size /\ image > 0
  /\ srv \in {"createInfo", "sendInfo", "sendImg", "imwrite", "finish"} =>
       /\ res \in {"empty", "short"}
       /\ res = "empty" <=> dst = 0
       /\ recvInfo.status # "local" => dst \in {0, recvInfo.size}
  /\ srv \in {"sendInfo", "sendImg", "imwrite", "finish"} =>
       sendInfo.size = dst /\ (sendInfo.ano_res = "empty" <=> dst = 0) /\ sendInfo.img_type = "8UC3"
  /\ srv \in {"sendImg", "imwrite", "finish"} => downInfo[cur] = sendInfo /\ downSnd[cur] > 0
  /\ srv = "sendImg" => recvInfo.status # "local"
  /\ srv = "imwrite" => recvInfo.status = "local"
  /\ srv = "finish" => downSnd[cur] = HdrLen + Pixels(cur)

Letters == Work /\ \A c \in Clients : Request(c) /\ Reply(c)

-----------------------------------------------------------------------------
(***************************************************************************)
(* The headers and the images belong together.                             *)
(***************************************************************************)
LEMMA InitLetters ==
  ASSUME Init
  PROVE  Letters
BY DEF Init, NetInit, ServerInit, ClientInit, Letters, Work, Request, Reply, Serving

\* A client that has sent its request does not change it.
LEMMA Announced ==
  ASSUME Types, NEW c \in Clients, main(c) \/ Outside(c), cpc[c] \notin Early
  PROVE  cpc'[c] \notin Early /\ fileinfo'[c] = fileinfo[c] /\ upInfo'[c] = upInfo[c]
<1> USE DEF Early, Goto, Types, NetTypeOK, ClientTypeOK, netVars, clientVars
<1>1. CASE openImg(c) \/ sendImgFails(c) \/ recvFileInfoFails(c) \/ recvImgFails(c) \/ Stall(c) \/ ReplaceFile(c)
  BY <1>1 DEF openImg, sendImgFails, recvFileInfoFails, recvImgFails, Stall, ReplaceFile
<1>2. CASE sendImg(c)
  BY <1>2 DEF sendImg, Put
<1>3. CASE recvFileInfo(c) \/ recvFileInfoPart(c)
  BY <1>3 DEF recvFileInfo, recvFileInfoPart, Take
<1>4. CASE recvFileInfoRest(c)
  BY <1>4 DEF recvFileInfoRest, Take
<1>5. CASE recvImg(c)
  BY <1>5 DEF recvImg, Take
<1>6. CASE recvFileInfoOverrun(c) \/ recvImgCrashes(c) \/ saveImg(c) \/ saveImgCrashes(c) \/ Kill(c)
  BY <1>6 DEF recvFileInfoOverrun, recvImgCrashes, saveImg, saveImgCrashes, Kill, Exit
<1>7. CASE \/ initClient(c) \/ initClientSpins(c) \/ initClientFails(c)
           \/ preprocessFileInfo(c) \/ sendFileInfo(c) \/ sendFileInfoFails(c)
  BY <1>7 DEF initClient, initClientSpins, initClientFails, preprocessFileInfo, sendFileInfo, sendFileInfoFails
<1> QED
  BY <1>1, <1>2, <1>3, <1>4, <1>5, <1>6, <1>7 DEF main, Outside

LEMMA ClientRequest ==
  ASSUME Undamaged, IInv, Streams, Letters, NEW c \in Clients, main(c) \/ Outside(c), UNCHANGED serverVars
  PROVE  Request(c)'
<1> USE DEF Letters, Request, Early, Goto, IInv, Types, NetTypeOK, ClientTypeOK, netVars, clientVars
<1>1. CASE initClient(c)
  BY <1>1 DEF initClient, Establish, Sockets
<1>2. CASE initClientSpins(c) \/ initClientFails(c)
  BY <1>2 DEF initClientSpins, initClientFails
<1>3. CASE preprocessFileInfo(c)
  <2>1. fileinfo'[c].img_type = "8UC3" /\ fileinfo'[c].size >= 0
    BY <1>3 DEF preprocessFileInfo
  <2>2. cpc'[c] = "sendInfo" /\ cpc[c] = "preprocess" /\ UNCHANGED netVars
    BY <1>3 DEF preprocessFileInfo
  <2> QED
    BY <2>1, <2>2
<1>4. CASE sendFileInfo(c)
  <2>1. fileinfo[c] \in FileInfo /\ upInfo'[c] = fileinfo[c] /\ cpc'[c] = "imread" /\ UNCHANGED <<fileinfo, sSock>>
    BY <1>4 DEF sendFileInfo, Put, HeadersKnown
  <2> QED
    BY <2>1
<1>5. CASE sendFileInfoFails(c)
  BY <1>5 DEF sendFileInfoFails, SendFails
<1>6. CASE openImg(c)
  BY <1>6 DEF openImg, Streams, ClientStreams
<1>7. CASE sendImg(c)
  BY <1>7 DEF sendImg, Put
<1>8. CASE sendImgFails(c)
  BY <1>8 DEF sendImgFails
<1>9. CASE recvFileInfo(c) \/ recvFileInfoFails(c) \/ recvImgFails(c)
  BY <1>9 DEF recvFileInfo, recvFileInfoFails, recvImgFails, Take
<1>10. CASE recvFileInfoPart(c) \/ recvFileInfoRest(c)
  BY <1>10 DEF recvFileInfoPart, recvFileInfoRest, Undamaged
<1>11. CASE recvImg(c)
  BY <1>11 DEF recvImg, Take
<1>12. CASE recvFileInfoOverrun(c) \/ recvImgCrashes(c) \/ saveImg(c) \/ saveImgCrashes(c) \/ Kill(c)
  BY <1>12 DEF recvFileInfoOverrun, recvImgCrashes, saveImg, saveImgCrashes, Kill, Exit, Ended
<1>13. CASE Stall(c) \/ ReplaceFile(c)
  BY <1>13 DEF Stall, ReplaceFile
<1> QED
  BY <1>1, <1>2, <1>3, <1>4, <1>5, <1>6, <1>7, <1>8, <1>9, <1>10, <1>11, <1>12, <1>13 DEF main, Outside

LEMMA ClientReply ==
  ASSUME Undamaged, IInv, Streams, Letters, NEW c \in Clients, main(c) \/ Outside(c), UNCHANGED serverVars
  PROVE  Reply(c)'
<1>1. UNCHANGED <<upRcv, downInfo, downSnd, success>>
  BY OtherClients DEF IInv, serverVars
<1>2. Reply(c) /\ Request(c) /\ ClientStreams(c)
  BY DEF Letters, Streams
<1>3. downSnd[c] > 0 => cpc'[c] \notin Early /\ fileinfo'[c] = fileinfo[c] /\ upInfo'[c] = upInfo[c]
  BY <1>2, Announced DEF IInv, Reply
<1>4. c \in success => downSnd[c] > 0 /\ sSock[c] = "closed"
  BY DEF Letters, Reply, IInv, Sockets
<1>5. \/ rep'[c] = rep[c]
      \/ rep'[c] = downInfo[c] /\ downSnd[c] > 0
  <2> USE DEF Goto, IInv, Types, NetTypeOK, ClientTypeOK, netVars, clientVars
  <2>1. CASE recvFileInfo(c)
    <3>1. downSnd[c] - downRcv[c] >= HdrLen
      BY <2>1, PartOf DEF recvFileInfo, DownReady
    <3> QED
      BY <2>1, <3>1, TcpAssumption DEF recvFileInfo
  <2>2. CASE recvFileInfoPart(c) \/ recvFileInfoRest(c)
    BY <1>2, <2>2 DEF recvFileInfoPart, recvFileInfoRest, Undamaged, Request
  <2>3. CASE \/ initClient(c) \/ initClientSpins(c) \/ initClientFails(c)
             \/ preprocessFileInfo(c) \/ sendFileInfo(c) \/ sendFileInfoFails(c)
             \/ openImg(c) \/ sendImg(c) \/ sendImgFails(c)
    BY <2>3 DEF initClient, initClientSpins, initClientFails, preprocessFileInfo, sendFileInfo,
       sendFileInfoFails, openImg, sendImg, sendImgFails
  <2>4. CASE recvFileInfoOverrun(c) \/ recvFileInfoFails(c) \/ recvImgFails(c) \/ recvImgCrashes(c)
    BY <2>4 DEF recvFileInfoOverrun, recvFileInfoFails, recvImgFails, recvImgCrashes
  <2>5. CASE recvImg(c)
    BY <2>5 DEF recvImg
  <2>6. CASE saveImg(c) \/ saveImgCrashes(c) \/ Outside(c)
    BY <2>6 DEF saveImg, saveImgCrashes, Outside, Kill, Stall, ReplaceFile
  <2> QED
    BY <2>1, <2>2, <2>3, <2>4, <2>5, <2>6 DEF main
<1>6. /\ img'[c] > 0 => rep'[c] # NoInfo /\ img'[c] = fileinfo'[c].size
      /\ cpc'[c] = "done" => img'[c] > 0
  <2> USE DEF Goto, IInv, Types, NetTypeOK, ClientTypeOK, netVars, clientVars
  <2>1. CASE recvImg(c)
    <3>1. PICK k \in Chunk(rep[c].size - csum[c], DownReady(c)) :
            /\ Take(c, k)
            /\ IF csum[c] + k = rep[c].size
                 THEN /\ Goto(c, "imwrite")
                      /\ csum' = [csum EXCEPT ![c] = 0]
                      /\ img' = [img EXCEPT ![c] = rep[c].size]
                 ELSE /\ csum' = [csum EXCEPT ![c] = @ + k]
                      /\ UNCHANGED <<cpc, img>>
      BY <2>1 DEF recvImg
    <3>2. k >= 1 /\ k <= downSnd[c] - downRcv[c] /\ k \in Nat
      BY <3>1, PartOf DEF DownReady
    <3>3. cpc[c] = "recvImg" /\ rep[c] # NoInfo /\ rep' = rep /\ UNCHANGED <<file, fileinfo>>
      BY <2>1 DEF recvImg
    <3>4. CASE csum[c] + k = rep[c].size
      <4>1. rep[c].size = fileinfo[c].size
        <5>1. rep[c] = downInfo[c] /\ downSnd[c] > 0 /\ rep[c].size > 0
          BY <1>2, <3>2, <3>3, <3>4 DEF Reply
        <5>2. downRcv[c] = HdrLen + csum[c]
          BY <1>2, <3>3 DEF ClientStreams
        <5>3. fileinfo[c].status # "local"
          BY <1>2, <3>2, <5>1, <5>2, TcpAssumption DEF Reply
        <5> QED
          BY <1>2, <5>1, <5>3 DEF Reply
      <4>2. cpc'[c] = "imwrite" /\ img'[c] = rep[c].size
        BY <3>1, <3>4
      <4> QED
        BY <3>3, <4>1, <4>2
    <3>5. CASE csum[c] + k # rep[c].size
      BY <1>2, <3>1, <3>3, <3>5 DEF Reply
    <3> QED
      BY <3>4, <3>5
  <2>2. CASE \/ initClient(c) \/ initClientSpins(c) \/ initClientFails(c)
             \/ sendFileInfo(c) \/ sendFileInfoFails(c)
             \/ openImg(c) \/ sendImg(c) \/ sendImgFails(c)
    BY <1>2, <2>2 DEF initClient, initClientSpins, initClientFails, sendFileInfo,
       sendFileInfoFails, openImg, sendImg, sendImgFails, Reply
  <2>3. CASE preprocessFileInfo(c)
    <3>1. ~ (downSnd[c] > 0)
      BY <1>2, <2>3 DEF preprocessFileInfo, Reply, Early
    <3> QED
      BY <1>2, <2>3, <3>1 DEF preprocessFileInfo, Reply
  <2>4. CASE recvFileInfo(c)
    BY <1>2, <2>4, TcpAssumption DEF recvFileInfo, Reply, Streams, ClientStreams
  <2>5. CASE recvFileInfoPart(c) \/ recvFileInfoRest(c)
    BY <1>2, <2>5 DEF recvFileInfoPart, recvFileInfoRest, Undamaged, Request
  <2>6. CASE recvFileInfoOverrun(c) \/ recvFileInfoFails(c) \/ recvImgFails(c) \/ recvImgCrashes(c)
    BY <1>2, <2>6 DEF recvFileInfoOverrun, recvFileInfoFails, recvImgFails, recvImgCrashes, Exit, Reply
  <2>7. CASE saveImg(c) \/ saveImgCrashes(c) \/ Kill(c)
    BY <1>2, <2>7 DEF saveImg, saveImgCrashes, Kill, Exit, Reply
  <2>8. CASE Stall(c) \/ ReplaceFile(c)
    BY <1>2, <2>8 DEF Stall, ReplaceFile, Reply
  <2> QED
    BY <2>1, <2>2, <2>3, <2>4, <2>5, <2>6, <2>7, <2>8 DEF main, Outside
<1> QED
  BY <1>1, <1>2, <1>3, <1>4, <1>5, <1>6 DEF Reply, Pixels

\* What the server knows of its session is not in the client's hands any more.
LEMMA ClientWork ==
  ASSUME IInv, Letters, NEW c \in Clients, main(c) \/ Outside(c), UNCHANGED serverVars
  PROVE  Work'
<1>1. UNCHANGED <<upRcv, downInfo, downSnd>> /\ \A d \in Clients : d # c => SameFor(d)
  BY OtherClients DEF IInv
<1>2. srv \in Serving => cur \in Clients
  BY ServingClient DEF IInv, Types, Sockets
<1>3. srv \in Serving \ {"recvInfo"} =>
        cpc'[cur] \notin Early /\ fileinfo'[cur] = fileinfo[cur] /\ upInfo'[cur] = upInfo[cur]
  <2>1. CASE cur = c
    BY <2>1, Announced DEF IInv, Letters, Work
  <2>2. CASE cur # c
    BY <1>1, <1>2, <2>2 DEF SameFor, Letters, Work
  <2> QED
    BY <2>1, <2>2
<1>4. UNCHANGED <<srv, cur, sum, recvInfo, image, res, dst, sendInfo>>
  BY DEF serverVars, sessionVars
<1> QED
  BY <1>1, <1>3, <1>4 DEF Letters, Work, Pixels, Serving

LEMMA ClientStepLetters ==
  ASSUME Undamaged, IInv, Streams, Letters, NEW c \in Clients, main(c) \/ Outside(c), UNCHANGED serverVars
  PROVE  Letters'
<1>1. UNCHANGED <<upRcv, downInfo, downSnd, success>> /\ \A d \in Clients : d # c => SameFor(d)
  BY OtherClients DEF IInv, serverVars
<1>2. ASSUME NEW d \in Clients, d # c PROVE Request(d)' /\ Reply(d)'
  BY <1>1, <1>2 DEF Letters, Request, Reply, Pixels, SameFor
<1> QED
  BY <1>2, ClientRequest, ClientReply, ClientWork DEF Letters

-----------------------------------------------------------------------------
LEMMA ServerRequest ==
  ASSUME IInv, Letters, Analyse, UNCHANGED clientVars, NEW d \in Clients
  PROVE  Request(d)'
<1>1. /\ UNCHANGED <<cSock, upInfo, upSnd, cpc, fileinfo, csum>>
      /\ sSock'[d] # "closed" => sSock[d] # "closed"
  BY OtherSessions DEF clientVars
<1> QED
  BY <1>1 DEF Letters, Request

LEMMA Successes ==
  ASSUME Analyse
  PROVE  \/ success' = success
         \/ FinishSession /\ success' = success \cup {cur} /\ UNCHANGED <<downInfo, downSnd>>
BY DEF Analyse, LoadModel, InitServer, InitServerFails, Connect2Client, Connect2ClientFails,
   RecvFileInfo, RecvFileInfoPart, RecvFileInfoRest, RecvFileInfoOverrun, RecvFileInfoFails,
   RecvImg, RecvImgFails, RecvImgCrashes, ReadLocalImage, Recognize, RecognizeCrashes,
   CreateInfo, CreateInfoCrashes, SendFileInfo, SendFileInfoFails, SendImg, SendImgFails,
   WriteLocalImage, WriteLocalImageCrashes, FinishSession, CloseServer,
   DropSession, Crash, Compute, serverVars

\* Only the two calls that send change what is on the way to the client.
LEMMA Unsent ==
  ASSUME Analyse, ~SendFileInfo, ~SendImg
  PROVE  UNCHANGED <<downInfo, downSnd>>
BY DEF Analyse, LoadModel, InitServer, InitServerFails, Connect2Client, Connect2ClientFails,
   RecvFileInfo, RecvFileInfoPart, RecvFileInfoRest, RecvFileInfoOverrun, RecvFileInfoFails, Received,
   RecvImg, RecvImgFails, RecvImgCrashes, ReadLocalImage, Recognize, RecognizeCrashes,
   CreateInfo, CreateInfoCrashes, SendFileInfoFails, SendImgFails,
   WriteLocalImage, WriteLocalImageCrashes, FinishSession, CloseServer,
   DropSession, EndSession, Crash, Compute, netVars

LEMMA ServerReply ==
  ASSUME IInv, Streams, Letters, Analyse, UNCHANGED clientVars, NEW d \in Clients
  PROVE  Reply(d)'
<1>1. /\ UNCHANGED <<upInfo, cpc, fileinfo, rep, img>>
      /\ d # cur => downInfo'[d] = downInfo[d] /\ downSnd'[d] = downSnd[d]
  BY OtherSessions DEF clientVars
<1>2. Reply(d)
  BY DEF Letters
<1>3. CASE d # cur
  BY <1>1, <1>2, <1>3, Successes DEF Reply, Pixels
<1>4. CASE d = cur /\ SendFileInfo
  <2>1. downSnd[cur] = 0 /\ srv = "sendInfo"
    BY <1>4 DEF SendFileInfo, Streams, ServerStreams, Serving
  <2>2. downSnd'[cur] = HdrLen /\ downInfo'[cur] = sendInfo /\ UNCHANGED success
    BY <1>4, <2>1, TcpAssumption DEF SendFileInfo, Sent, IInv, Types, NetTypeOK
  <2>3. /\ cpc[cur] \notin Early /\ recvInfo = fileinfo[cur] /\ upInfo[cur] = fileinfo[cur]
        /\ recvInfo \in FileInfo
        /\ sendInfo.size = dst /\ (sendInfo.ano_res = "empty" <=> dst = 0) /\ sendInfo.img_type = "8UC3"
        /\ dst \in Nat
        /\ recvInfo.status # "local" => dst \in {0, recvInfo.size}
    BY <2>1 DEF Letters, Work, Serving, IInv, Types, ServerTypeOK, HeadersKnown
  <2>4. cur \notin success
    BY <1>2, <1>4, <2>1 DEF Reply
  <2>5. rep[cur] = NoInfo /\ ~ (img[cur] > 0) /\ cpc[cur] # "done"
    BY <1>2, <1>4, <2>1 DEF Reply
  <2> QED
    <3>1. downInfo'[cur].size = dst /\ downInfo'[cur].img_type = "8UC3" /\ (downInfo'[cur].ano_res = "empty" <=> dst = 0)
      BY <2>2, <2>3
    <3>2. downSnd'[cur] <= HdrLen + Pixels(d)'
      BY <1>1, <1>4, <2>2, <2>3, <3>1, TcpAssumption DEF Pixels
    <3> QED
      BY <1>1, <1>4, <2>2, <2>3, <2>4, <2>5, <3>1, <3>2 DEF Reply
<1>5. CASE d = cur /\ SendImg
  <2>1. PICK k \in Chunk(dst - sum, DownRoom(cur)) : Sent(k)
    BY <1>5 DEF SendImg
  <2>2. k \in Nat /\ k <= dst - sum
    BY <2>1, PartOf
  <2>3. srv = "sendImg" /\ UNCHANGED <<downInfo, success>>
    BY <1>5 DEF SendImg
  <2>4. downSnd[cur] \in Nat /\ downSnd'[cur] = downSnd[cur] + k
    BY <1>5, <2>1 DEF Sent, IInv, Types, NetTypeOK
  <2>5. downSnd[cur] > 0 /\ fileinfo[cur].status # "local"
    BY <2>3 DEF Letters, Work, Serving
  <2>6. cur \notin success
    BY <1>5, <2>3 DEF IInv, Sockets, SocketsAccounted, Serving
  <2>7. downSnd'[cur] <= HdrLen + Pixels(d)'
    <3>1. Pixels(d)' = dst
      BY <1>1, <1>5, <2>3, <2>5 DEF Pixels, Letters, Work
    <3>2. downSnd[cur] = HdrLen + sum /\ dst \in Nat /\ sum \in Nat
      BY <2>3 DEF Streams, ServerStreams, IInv, Types, ServerTypeOK
    <3> QED
      BY <2>2, <2>4, <3>1, <3>2, TcpAssumption
  <2> QED
    BY <1>1, <1>2, <1>5, <2>2, <2>3, <2>4, <2>5, <2>6, <2>7 DEF Reply
<1>6. CASE d = cur /\ ~SendFileInfo /\ ~SendImg
  <2>1. UNCHANGED <<downInfo, downSnd>>
    BY <1>6, Unsent
  <2>2. CASE success' = success
    BY <1>1, <1>2, <2>1, <2>2 DEF Reply, Pixels
  <2>3. CASE FinishSession /\ success' = success \cup {cur}
    <3>1. downSnd[cur] > 0 /\ downSnd[cur] = HdrLen + Pixels(cur)
      BY <2>3 DEF FinishSession, Letters, Work
    <3> QED
      BY <1>1, <1>2, <1>6, <2>1, <2>3, <3>1 DEF Reply, Pixels
  <2> QED
    BY <2>2, <2>3, Successes
<1> QED
  BY <1>3, <1>4, <1>5, <1>6

\* What recognition makes of an image, when ano_res holds the labels.
LEMMA Recognized ==
  ASSUME Undamaged, IInv, Recognize
  PROVE  /\ res' \in {"empty", "short"} /\ (res' = "empty" <=> dst' = 0)
         /\ dst' \in {0, image}
<1>1. PICK task \in TaskTypes(recvInfo.ano_type) : res' \in Detect(task)
  BY DEF Recognize
<1>2. res' = "empty" \/ (res' \in Results /\ image > 0)
  <2>1. task \in {0, 1, 2}
    BY <1>1 DEF TaskTypes
  <2>2. CASE task = 0
    BY <1>1, <2>2 DEF Detect
  <2>3. CASE task = 1
    BY <1>1, <2>3 DEF Detect, CanDetect
  <2>4. CASE task = 2
    <3>1. Detect(task) = {"empty"}
      BY <2>4 DEF Detect
    <3> QED
      BY <1>1, <2>4, <3>1
  <2> QED
    BY <2>1, <2>2, <2>3, <2>4
<1>3. res' \in {"empty", "short"}
  BY <1>2, ServerAssumption DEF Undamaged
<1>4. dst' = IF res' = "empty" THEN 0 ELSE image
  BY DEF Recognize
<1> QED
  BY <1>2, <1>3, <1>4

LEMMA ServerWork ==
  ASSUME Undamaged, IInv, Streams, Letters, Analyse, UNCHANGED clientVars
  PROVE  Work'
<1>1. UNCHANGED <<upInfo, cpc, fileinfo>>
  BY OtherSessions DEF clientVars
<1>2. srv \in Serving => cur \in Clients /\ sSock[cur] = "open" /\ Request(cur) /\ Reply(cur)
  BY ServingClient DEF IInv, Types, Sockets, Letters
<1>3. srv \in Serving \ {"recvInfo"} => recvInfo \in FileInfo
  BY DEF IInv, Types, HeadersKnown
<1> USE <1>1 DEF Letters, Work, Serving, sessionVars
<1>4. CASE srv' \notin Serving
  BY <1>4
<1>5. CASE Connect2Client
  BY <1>5 DEF Connect2Client, Streams, ServerStreams
<1>6. CASE RecvFileInfo
  <2>1. upSnd[cur] > 0 /\ srv = "recvInfo" /\ UNCHANGED <<cur, sum>>
    <3>1. upSnd[cur] - upRcv[cur] >= HdrLen /\ srv = "recvInfo" /\ UNCHANGED <<cur, sum>>
      BY <1>6, PartOf DEF RecvFileInfo, UpReady
    <3> QED
      BY <1>2, <3>1, TcpAssumption DEF IInv, Types, NetTypeOK
  <2>2. fileinfo[cur] \in FileInfo /\ upInfo[cur] = fileinfo[cur] /\ cpc[cur] \notin Early
    BY <1>2, <2>1 DEF Request
  <2>3. recvInfo' = upInfo[cur] /\ srv' = AfterHeader(recvInfo')
    BY <1>6 DEF RecvFileInfo
  <2> QED
    BY <2>1, <2>2, <2>3 DEF AfterHeader
<1>7. CASE RecvFileInfoPart \/ RecvFileInfoRest
  BY <1>7 DEF RecvFileInfoPart, RecvFileInfoRest, Undamaged
<1>8. CASE RecvImg
  <2>1. PICK k \in Chunk(recvInfo.size - sum, UpReady(cur)) :
            /\ Received(k)
            /\ IF sum + k = recvInfo.size
                 THEN srv' = "recognize" /\ image' = recvInfo.size /\ sum' = 0
                 ELSE srv' = srv /\ image' = image /\ sum' = sum + k
    BY <1>8 DEF RecvImg
  <2>2. k \in Nat /\ k > 0 /\ sum \in Nat
    BY <2>1, PartOf DEF IInv, Types, ServerTypeOK
  <2>3. srv = "recvImg" /\ UNCHANGED <<cur, recvInfo, res, dst, sendInfo>>
    BY <1>8 DEF RecvImg
  <2> QED
    BY <2>1, <2>2, <2>3
<1>9. CASE ReadLocalImage
  BY <1>9 DEF ReadLocalImage, Compute
<1>10. CASE Recognize
  <2>1. srv = "recognize" /\ srv' = "createInfo" /\ UNCHANGED <<cur, sum, recvInfo, image>>
    BY <1>10 DEF Recognize, Compute
  <2> QED
    BY <1>10, <2>1, Recognized
<1>11. CASE CreateInfo
  <2>1. srv = "createInfo" /\ srv' = "sendInfo" /\ UNCHANGED <<cur, sum, recvInfo, image, res, dst>>
    BY <1>11 DEF CreateInfo, Compute
  <2>2. recvInfo.img_type = "8UC3"
    BY <1>2, <1>3, <2>1, TcpAssumption DEF Request
  <2>3. ReplySizes = {dst}
    BY <2>1, <2>2 DEF ReplySizes
  <2>4. /\ sendInfo'.size = dst /\ sendInfo'.ano_res = IF res = "empty" THEN "empty" ELSE "found"
        /\ sendInfo'.img_type = "8UC3"
    BY <1>11, <2>2, <2>3 DEF CreateInfo
  <2> QED
    BY <2>1, <2>4
<1>12. CASE SendFileInfo
  <2>1. downSnd[cur] = 0 /\ srv = "sendInfo" /\ UNCHANGED <<cur, sum, recvInfo, image, res, dst, sendInfo>>
    BY <1>12 DEF SendFileInfo, Streams, ServerStreams
  <2>2. downSnd'[cur] = HdrLen /\ downInfo'[cur] = sendInfo /\ HdrLen > 0
    BY <1>2, <1>12, <2>1, TcpAssumption DEF SendFileInfo, Sent, IInv, Types, NetTypeOK
  <2>3. srv' = CASE recvInfo.status = "local" -> "imwrite"
                 [] recvInfo.status # "local" /\ sendInfo.ano_res = "empty" -> "finish"
                 [] OTHER -> "sendImg"
    BY <1>12 DEF SendFileInfo
  <2>4. srv' = "finish" => recvInfo.status # "local" /\ sendInfo.size = 0
    BY <2>1, <2>3
  <2>5. srv' = "finish" => downSnd'[cur] = HdrLen + Pixels(cur)'
    BY <2>1, <2>2, <2>4, TcpAssumption DEF Pixels
  <2> QED
    BY <2>1, <2>2, <2>3, <2>5
<1>13. CASE SendImg
  <2>1. PICK k \in Chunk(dst - sum, DownRoom(cur)) :
          Sent(k) /\ sum' = sum + k /\ srv' = IF sum' = dst THEN "finish" ELSE "sendImg"
    BY <1>13 DEF SendImg
  <2>2. k \in Nat /\ sum \in Nat
    BY <2>1, PartOf DEF IInv, Types, ServerTypeOK
  <2>3. srv = "sendImg" /\ UNCHANGED <<cur, recvInfo, image, res, dst, sendInfo, downInfo>>
    BY <1>13 DEF SendImg
  <2>4. downSnd'[cur] = HdrLen + sum + k
    BY <1>2, <2>1, <2>2, <2>3, TcpAssumption DEF Sent, Streams, ServerStreams, IInv, Types, NetTypeOK
  <2>5. downSnd'[cur] > 0
    BY <2>2, <2>4, TcpAssumption
  <2>6. srv' = "finish" => downSnd'[cur] = HdrLen + Pixels(cur)'
    <3>1. Pixels(cur)' = dst
      BY <2>3 DEF Pixels
    <3> QED
      BY <2>1, <2>2, <2>4, <3>1, TcpAssumption
  <2> QED
    BY <2>1, <2>3, <2>5, <2>6
<1>14. CASE WriteLocalImage
  <2>1. srv = "imwrite" /\ srv' = "finish" /\ UNCHANGED <<cur, sum, recvInfo, image, res, dst, sendInfo, downInfo, downSnd>>
    BY <1>14 DEF WriteLocalImage, Compute, netVars
  <2>2. downSnd[cur] = HdrLen /\ fileinfo[cur].status = "local"
    BY <1>2, <2>1 DEF Reply
  <2> QED
    BY <2>1, <2>2, TcpAssumption DEF Pixels
<1>15. CASE Connect2ClientFails
  BY <1>4, <1>15 DEF Connect2ClientFails, serverVars
<1>16. CASE \/ LoadModel \/ InitServer \/ InitServerFails
            \/ RecvFileInfoOverrun \/ RecvImgCrashes \/ RecognizeCrashes
            \/ CreateInfoCrashes \/ WriteLocalImageCrashes
            \/ RecvFileInfoFails \/ RecvImgFails \/ SendFileInfoFails \/ SendImgFails
            \/ FinishSession \/ CloseServer
  <2>1. srv' \notin Serving
    BY <1>16, LoadStates DEF InitServer, InitServerFails, RecvFileInfoOverrun, RecvImgCrashes, RecognizeCrashes,
       CreateInfoCrashes, WriteLocalImageCrashes, RecvFileInfoFails, RecvImgFails, SendFileInfoFails,
       SendImgFails, FinishSession, CloseServer, Crash, DropSession, EndSession
  <2> QED
    BY <1>4, <2>1
<1> QED
  BY <1>5, <1>6, <1>7, <1>8, <1>9, <1>10, <1>11, <1>12, <1>13, <1>14, <1>15, <1>16 DEF Analyse

LEMMA ServerStepLetters ==
  ASSUME Undamaged, IInv, Streams, Letters, Analyse, UNCHANGED clientVars
  PROVE  Letters'
BY ServerRequest, ServerReply, ServerWork DEF Letters

LEMMA InductiveLetters ==
  ASSUME Undamaged
  PROVE  Spec => [](IInv /\ Streams /\ Letters)
<1>1. Init => Letters
  BY InitLetters
<1>2. IInv /\ Streams /\ Letters /\ [Next]_vars => Letters'
  <2> SUFFICES ASSUME IInv, Streams, Letters, [Next]_vars PROVE Letters'
    OBVIOUS
  <2>1. CASE ServerStep
    BY <2>1, ServerStepLetters DEF ServerStep
  <2>2. ASSUME NEW c \in Clients, ClientStep(c) \/ OutsideStep(c) PROVE Letters'
    BY <2>2, ClientStepLetters DEF ClientStep, OutsideStep
  <2>3. CASE UNCHANGED vars
    BY <2>3 DEF vars, netVars, serverVars, sessionVars, clientVars, Letters, Work, Request, Reply, Pixels
  <2> QED
    BY <2>1, <2>2, <2>3 DEF Next, Over
<1> QED
  BY <1>1, <1>2, InductiveStreams, PTL DEF Spec

\* "Send Res Img Success!" is only logged when the client has been sent a
\* header and exactly the pixels that the header announces.
THEOREM SuccessIsTrue ==
  ASSUME Undamaged
  PROVE  Spec => []SuccessMeansReplied
<1>1. IInv /\ Letters => SuccessMeansReplied
  <2> SUFFICES ASSUME IInv, Letters, NEW c \in success, upInfo[c].status # "local"
               PROVE  downInfo[c] # NoInfo /\ downSnd[c] = HdrLen + downInfo[c].size
    BY DEF SuccessMeansReplied
  <2>1. c \in Clients /\ (downSnd[c] > 0 => downInfo[c] \in ResInfo)
    BY DEF IInv, Types, ServerTypeOK, HeadersKnown
  <2> QED
    BY <2>1, TcpAssumption DEF Letters, Reply, Pixels
<1> QED
  BY <1>1, InductiveLetters, PTL

\* The image a client saves is the one it sent, and whole.
THEOREM OwnImageSaved ==
  ASSUME Undamaged
  PROVE  Spec => []SavedImageIsOwn
<1>1. Letters => SavedImageIsOwn
  BY DEF Letters, Reply, SavedImageIsOwn
<1> QED
  BY <1>1, InductiveLetters, PTL

-----------------------------------------------------------------------------
(***************************************************************************)
(* Who waits for whom.  While a connection is open at both ends, what a    *)
(* client has sent follows from the call it is in, and what the server has *)
(* read from the request and the pixels it has: of a stream, there is on   *)
(* its way what one side has sent and the other has not read.              *)
(***************************************************************************)
Alive(c) == sSock[c] \in {"queued", "open"} /\ cSock[c] = "open"

ClientFlow(c) ==
  /\ upRcv[c] <= upSnd[c] /\ upSnd[c] <= upRcv[c] + Cap
  /\ downRcv[c] <= downSnd[c] /\ downSnd[c] <= downRcv[c] + Cap
  /\ sSock[c] \in {"queued", "open"} => cSock[c] # "none"
  /\ cSock[c] = "open" => cpc[c] \notin Ended
  /\ cSock[c] = "closed" => cpc[c] \in Ended
  /\ sSock[c] \in {"queued", "open"} => upSnd[c] = 0 \/ upSnd[c] >= HdrLen
  /\ cpc[c] = "sendImg" => csum[c] < cimg[c]
  /\ cpc[c] = "recvInfo" => csum[c] < HdrLen /\ (HeaderSplits \/ csum[c] = 0)
  /\ cpc[c] = "recvImg" /\ rep[c] # NoInfo => csum[c] = 0 \/ csum[c] < rep[c].size
  /\ Alive(c) =>
       /\ cpc[c] \in {"preprocess", "sendInfo"} => upSnd[c] = 0
       /\ cpc[c] = "imread" => upSnd[c] = HdrLen
       /\ cpc[c] = "sendImg" => upSnd[c] = HdrLen + csum[c]
       /\ cpc[c] = "recvInfo" => upSnd[c] = HdrLen + cimg[c]
       /\ cpc[c] \in {"recvImg", "imwrite"} => downSnd[c] > 0

ServerFlow ==
  /\ srv = "recvInfo" => sum < HdrLen /\ (HeaderSplits \/ sum = 0)
  /\ srv = "recvImg" => recvInfo.status # "local" /\ (sum = 0 \/ sum < recvInfo.size)
  /\ srv = "imread" => recvInfo.status = "local"
  /\ srv \in {"recognize", "createInfo", "sendInfo", "sendImg"} /\ recvInfo.status # "local" =>
       image = recvInfo.size /\ upRcv[cur] = HdrLen + recvInfo.size
  /\ srv \in {"createInfo", "sendInfo"} => res = "empty" \/ (dst = image /\ dst > 0)
  /\ srv = "sendInfo" => (sendInfo.ano_res = "empty" <=> res = "empty")
  /\ srv = "sendImg" => recvInfo.status # "local" /\ dst = recvInfo.size /\ sum < dst

Flow == ServerFlow /\ \A c \in Clients : ClientFlow(c)

LEMMA InitFlow ==
  ASSUME Init
  PROVE  Flow
BY TcpAssumption DEF Init, NetInit, ServerInit, ClientInit, Flow, ServerFlow, ClientFlow, Alive, Ended

LEMMA ClientStepFlow ==
  ASSUME IInv, Streams, Flow, NEW c \in Clients, main(c) \/ Outside(c), UNCHANGED serverVars
  PROVE  Flow'
<1>1. UNCHANGED <<upRcv, downInfo, downSnd>> /\ \A d \in Clients : d # c => SameFor(d)
  BY OtherClients DEF IInv
<1>2. ServerFlow'
  BY <1>1 DEF Flow, ServerFlow, serverVars, sessionVars
<1>3. ASSUME NEW d \in Clients, d # c PROVE ClientFlow(d)'
  BY <1>1, <1>3 DEF Flow, ClientFlow, Alive, SameFor
<1>4. ClientFlow(c) /\ ClientStreams(c)
  BY DEF Flow, Streams
<1>5. /\ upSnd[c] \in Nat /\ upRcv[c] \in Nat /\ downSnd[c] \in Nat /\ downRcv[c] \in Nat
      /\ csum[c] \in Nat /\ cimg[c] \in Nat /\ file[c] \in Nat /\ HdrLen \in Nat \ {0} /\ Cap \in Nat
  BY TcpAssumption DEF IInv, Types, NetTypeOK, ClientTypeOK
<1>6. ClientFlow(c)'
  <2> USE <1>1, <1>4, <1>5 DEF ClientFlow, Alive, Goto, IInv, Types, NetTypeOK, ClientTypeOK, Ended, netVars, clientVars
  <2>1. CASE initClient(c)
    BY <2>1 DEF initClient, Establish, Sockets
  <2>2. CASE initClientSpins(c)
    BY <2>2 DEF initClientSpins
  <2>3. CASE initClientFails(c)
    BY <2>3 DEF initClientFails, Sockets
  <2>4. CASE preprocessFileInfo(c)
    BY <2>4 DEF preprocessFileInfo
  <2>5. CASE sendFileInfo(c)
    <3>1. /\ HdrLen <= Cap - (upSnd[c] - upRcv[c]) /\ upSnd'[c] = upSnd[c] + HdrLen
          /\ cpc[c] = "sendInfo" /\ cpc'[c] = "imread"
          /\ UNCHANGED <<cSock, sSock, upRcv, downRcv, downSnd, csum, cimg, rep>>
      BY <2>5 DEF sendFileInfo, Put, UpRoom, UpReady
    <3> QED
      BY <3>1
  <2>6. CASE sendFileInfoFails(c)
    BY <2>6 DEF sendFileInfoFails, SendFails
  <2>7. CASE openImg(c)
    BY <2>7 DEF openImg, ClientStreams
  <2>8. CASE sendImg(c)
    <3>1. PICK k \in Chunk(cimg[c] - csum[c], UpRoom(c)) :
            /\ Put(c, k)
            /\ IF csum[c] + k = cimg[c]
                 THEN Goto(c, "recvInfo") /\ csum' = [csum EXCEPT ![c] = 0]
                 ELSE cpc' = cpc /\ csum' = [csum EXCEPT ![c] = @ + k]
      BY <2>8 DEF sendImg
    <3>2. k \in Nat \ {0} /\ k <= cimg[c] - csum[c] /\ k <= Cap - (upSnd[c] - upRcv[c])
      BY <3>1, PartOf DEF UpRoom, UpReady
    <3>3. /\ upSnd'[c] = upSnd[c] + k /\ cpc[c] = "sendImg" /\ cSock[c] = "open"
          /\ UNCHANGED <<cSock, sSock, upRcv, downRcv, downSnd, cimg, rep>>
      BY <2>8, <3>1, <3>2 DEF sendImg, Put
    <3>4. CASE csum[c] + k = cimg[c] /\ cpc'[c] = "recvInfo" /\ csum'[c] = 0
      BY ONLY <3>2, <3>3, <3>4, <1>4, <1>5 DEF ClientFlow, Alive, Ended
    <3>5. CASE csum[c] + k # cimg[c] /\ cpc'[c] = cpc[c] /\ csum'[c] = csum[c] + k
      BY ONLY <3>2, <3>3, <3>5, <1>4, <1>5 DEF ClientFlow, Alive, Ended
    <3> QED
      BY <3>1, <3>2, <3>4, <3>5
  <2>9. CASE sendImgFails(c)
    BY <2>9 DEF sendImgFails, SendFails
  <2>10. CASE recvFileInfo(c)
    <3>1. HdrLen <= downSnd[c] - downRcv[c]
      BY <2>10, PartOf DEF recvFileInfo, DownReady
    <3>2. /\ downRcv'[c] = downRcv[c] + HdrLen /\ cpc[c] = "recvInfo" /\ csum[c] = 0 /\ cpc'[c] = "recvImg"
          /\ UNCHANGED <<cSock, sSock, upSnd, upRcv, downSnd, csum, cimg>>
      BY <2>10 DEF recvFileInfo, Take
    <3> QED
      BY ONLY <3>1, <3>2, <1>4, <1>5 DEF ClientFlow, Alive, Ended
  <2>11. CASE recvFileInfoPart(c)
    <3>1. PICK k \in Chunk(HdrLen - 1, DownReady(c)) : Take(c, k) /\ csum' = [csum EXCEPT ![c] = k]
      BY <2>11 DEF recvFileInfoPart
    <3>2. k \in Nat \ {0} /\ k <= HdrLen - 1 /\ k <= downSnd[c] - downRcv[c]
      BY <3>1, PartOf DEF DownReady
    <3>3. /\ downRcv'[c] = downRcv[c] + k /\ csum'[c] = k /\ HeaderSplits
          /\ UNCHANGED <<cpc, cSock, sSock, upSnd, upRcv, downSnd, cimg, rep>>
      BY <2>11, <3>1, <3>2 DEF recvFileInfoPart, Take
    <3>4. cpc[c] = "recvInfo"
      BY <2>11 DEF recvFileInfoPart
    <3> QED
      BY ONLY <3>2, <3>3, <3>4, <1>4, <1>5 DEF ClientFlow, Alive, Ended
  <2>12. CASE recvFileInfoRest(c)
    <3>1. PICK k \in Chunk(HdrLen - csum[c], DownReady(c)) :
            /\ Take(c, k)
            /\ \/ /\ csum[c] + k < HdrLen
                  /\ csum' = [csum EXCEPT ![c] = @ + k]
                  /\ UNCHANGED <<cpc, rep>>
               \/ /\ csum[c] + k = HdrLen
                  /\ csum' = [csum EXCEPT ![c] = 0]
                  /\ \E info \in SplitReply(downInfo[c]) : rep' = [rep EXCEPT ![c] = info]
                  /\ Goto(c, "recvImg")
      BY <2>12 DEF recvFileInfoRest
    <3>2. k \in Nat \ {0} /\ k <= HdrLen - csum[c] /\ k <= downSnd[c] - downRcv[c]
      BY <3>1, PartOf DEF DownReady
    <3>3. /\ downRcv'[c] = downRcv[c] + k /\ cpc[c] = "recvInfo" /\ csum[c] > 0
          /\ UNCHANGED <<cSock, sSock, upSnd, upRcv, downSnd, cimg>>
      BY <2>12, <3>1, <3>2 DEF recvFileInfoRest, Take
    <3>4. CASE cpc'[c] = "recvImg" /\ csum'[c] = 0
      BY ONLY <3>2, <3>3, <3>4, <1>4, <1>5 DEF ClientFlow, Alive, Ended
    <3>5. CASE cpc'[c] = cpc[c] /\ csum'[c] = csum[c] + k /\ csum[c] + k < HdrLen
      BY ONLY <3>2, <3>3, <3>5, <1>4, <1>5 DEF ClientFlow, Alive, Ended
    <3> QED
      BY <3>1, <3>2, <3>4, <3>5
  <2>13. CASE recvFileInfoFails(c)
    BY <2>13 DEF recvFileInfoFails, RecvFails, DownEnds
  <2>14. CASE recvImg(c)
    <3>1. PICK k \in Chunk(rep[c].size - csum[c], DownReady(c)) :
            /\ Take(c, k)
            /\ IF csum[c] + k = rep[c].size
                 THEN /\ Goto(c, "imwrite")
                      /\ csum' = [csum EXCEPT ![c] = 0]
                      /\ img' = [img EXCEPT ![c] = rep[c].size]
                 ELSE /\ csum' = [csum EXCEPT ![c] = @ + k]
                      /\ UNCHANGED <<cpc, img>>
      BY <2>14 DEF recvImg
    <3>2. k \in Nat \ {0} /\ k <= rep[c].size - csum[c] /\ k <= downSnd[c] - downRcv[c]
      BY <3>1, PartOf DEF DownReady
    <3>3. /\ downRcv'[c] = downRcv[c] + k /\ cpc[c] = "recvImg" /\ rep' = rep /\ rep[c] # NoInfo
          /\ UNCHANGED <<cSock, sSock, upSnd, upRcv, downSnd, cimg>>
      BY <2>14, <3>1, <3>2 DEF recvImg, Take
    <3>4. rep[c].size \in Int
      BY <3>3 DEF ResInfo
    <3>5. CASE cpc'[c] = "imwrite" /\ csum'[c] = 0
      BY ONLY <3>2, <3>3, <3>5, <1>4, <1>5 DEF ClientFlow, Alive, Ended
    <3>6. CASE cpc'[c] = cpc[c] /\ csum'[c] = csum[c] + k /\ csum[c] + k # rep[c].size
      BY ONLY <3>2, <3>3, <3>4, <3>6, <1>4, <1>5 DEF ClientFlow, Alive, Ended
    <3> QED
      BY <3>1, <3>2, <3>5, <3>6
  <2>15. CASE recvImgFails(c)
    BY <2>15 DEF recvImgFails
  <2>16. CASE recvFileInfoOverrun(c) \/ recvImgCrashes(c) \/ saveImg(c) \/ saveImgCrashes(c) \/ Kill(c)
    <3>1. /\ cSock'[c] # "open" /\ (cSock'[c] = "none" => cSock[c] = "none") /\ cpc'[c] \in Ended
          /\ UNCHANGED <<sSock, upSnd, upRcv, downSnd, downRcv, csum, cimg, rep>>
      BY <2>16 DEF recvFileInfoOverrun, recvImgCrashes, saveImg, saveImgCrashes, Kill, Exit
    <3> QED
      BY ONLY <3>1, <1>4, <1>5 DEF ClientFlow, Alive, Ended
  <2>17. CASE Stall(c) \/ ReplaceFile(c)
    BY <2>17 DEF Stall, ReplaceFile
  <2> QED
    BY <2>1, <2>2, <2>3, <2>4, <2>5, <2>6, <2>7, <2>8, <2>9, <2>10, <2>11, <2>12, <2>13, <2>14, <2>15,
       <2>16, <2>17 DEF main, Outside
<1> QED
  BY <1>2, <1>3, <1>6 DEF Flow


\* What a step of the server does to a connection, whichever it is.
LEMMA ServerStepClientFlow ==
  ASSUME IInv, Streams, Flow, Analyse, UNCHANGED clientVars, NEW d \in Clients
  PROVE  ClientFlow(d)'
<1>1. /\ UNCHANGED <<cSock, upInfo, upSnd, downRcv, cpc, csum, cimg, rep>>
      /\ d # cur => upRcv'[d] = upRcv[d] /\ downSnd'[d] = downSnd[d]
      /\ sSock'[d] \in {"none", "queued"} => sSock'[d] = sSock[d]
      /\ sSock'[d] # "closed" => sSock[d] # "closed"
  BY OtherSessions DEF clientVars
<1>2. ClientFlow(d)
  BY DEF Flow
<1>3. /\ upSnd[d] \in Nat /\ upRcv[d] \in Nat /\ downSnd[d] \in Nat /\ downRcv[d] \in Nat
      /\ HdrLen \in Nat \ {0} /\ Cap \in Nat /\ sSock[d] \in {"none", "queued", "open", "closed"}
  BY TcpAssumption DEF IInv, Types, NetTypeOK
<1>4. sSock'[d] \in {"queued", "open"} => sSock[d] \in {"queued", "open"}
  <2> USE DEF IInv, Types, NetTypeOK, ServerTypeOK, Sockets, SocketsAccounted, netVars, serverVars, sessionVars
  <2>1. CASE Connect2Client
    <3>1. Head(backlog) \in Clients /\ sSock[Head(backlog)] = "queued"
      BY <2>1 DEF Connect2Client
    <3>2. sSock' = [sSock EXCEPT ![Head(backlog)] = "open"]
      BY <2>1 DEF Connect2Client
    <3> QED
      BY ONLY <3>1, <3>2, <1>3
  <2>2. CASE \/ LoadModel \/ InitServer \/ InitServerFails \/ Connect2ClientFails
             \/ RecvFileInfo \/ RecvFileInfoPart \/ RecvFileInfoRest \/ RecvImg
             \/ ReadLocalImage \/ Recognize \/ CreateInfo \/ WriteLocalImage
             \/ SendFileInfo \/ SendImg
    <3>1. sSock' = sSock
      BY <2>2 DEF LoadModel, InitServer, InitServerFails, Connect2ClientFails, Received, Compute, Sent,
         RecvFileInfo, RecvFileInfoPart, RecvFileInfoRest, RecvImg, ReadLocalImage, Recognize,
         CreateInfo, WriteLocalImage, SendFileInfo, SendImg
    <3> QED
      BY ONLY <3>1
  <2>3. CASE RecvFileInfoFails \/ RecvImgFails \/ SendFileInfoFails \/ SendImgFails \/ FinishSession
    <3>1. sSock' = [sSock EXCEPT ![cur] = "closed"]
      BY <2>3 DEF RecvFileInfoFails, RecvImgFails, SendFileInfoFails, SendImgFails, FinishSession,
         DropSession, EndSession
    <3> QED
      BY <3>1
  <2>4. CASE \/ RecvFileInfoOverrun \/ RecvImgCrashes \/ RecognizeCrashes
             \/ CreateInfoCrashes \/ WriteLocalImageCrashes \/ CloseServer
    <3>1. CloseAllServerSockets
      BY <2>4 DEF RecvFileInfoOverrun, RecvImgCrashes, RecognizeCrashes,
         CreateInfoCrashes, WriteLocalImageCrashes, CloseServer, Crash
    <3> QED
      BY <3>1 DEF CloseAllServerSockets
  <2> QED
    BY <2>1, <2>2, <2>3, <2>4 DEF Analyse
<1>5. upRcv[d] <= upRcv'[d] /\ upRcv'[d] <= upSnd[d] /\ upRcv'[d] \in Nat
  <2>1. CASE d # cur \/ UNCHANGED upRcv
    BY <1>1, <1>2, <1>3, <2>1 DEF ClientFlow
  <2>2. ASSUME d = cur, NEW k \in Nat, k <= UpReady(cur), Received(k)
        PROVE  upRcv[d] <= upRcv'[d] /\ upRcv'[d] <= upSnd[d] /\ upRcv'[d] \in Nat
    <3>1. upRcv'[d] = upRcv[d] + k
      BY <2>2 DEF Received, IInv, Types, NetTypeOK
    <3>2. k <= upSnd[d] - upRcv[d]
      BY <2>2 DEF UpReady
    <3> QED
      BY ONLY <3>1, <3>2, <1>3, <2>2
  <2>3. CASE RecvFileInfo
    <3>1. HdrLen <= UpReady(cur)
      BY <2>3, PartOf DEF RecvFileInfo
    <3> QED
      BY <1>3, <2>1, <2>2, <2>3, <3>1 DEF RecvFileInfo
  <2>4. CASE RecvFileInfoPart \/ RecvFileInfoRest \/ RecvImg
    <3>1. \E n : \E k \in Chunk(n, UpReady(cur)) : Received(k)
      BY <2>4 DEF RecvFileInfoPart, RecvFileInfoRest, RecvImg
    <3>2. PICK n : \E k \in Chunk(n, UpReady(cur)) : Received(k)
      BY <3>1
    <3>3. PICK k \in Chunk(n, UpReady(cur)) : Received(k)
      BY <3>2
    <3>4. k \in Nat /\ k <= UpReady(cur)
      BY PartOf
    <3> QED
      BY <2>1, <2>2, <3>3, <3>4
  <2>5. CASE ~(RecvFileInfo \/ RecvFileInfoPart \/ RecvFileInfoRest \/ RecvImg)
    <3>1. UNCHANGED upRcv
      BY <2>5 DEF Analyse, LoadModel, InitServer, InitServerFails, Connect2Client, Connect2ClientFails,
         RecvFileInfoOverrun, RecvFileInfoFails, RecvImgFails, RecvImgCrashes, ReadLocalImage, Recognize,
         RecognizeCrashes, CreateInfo, CreateInfoCrashes, SendFileInfo, SendFileInfoFails, SendImg, SendImgFails,
         WriteLocalImage, WriteLocalImageCrashes, FinishSession, CloseServer, Crash, DropSession, Compute, Sent, netVars
    <3> QED
      BY <2>1, <3>1
  <2> QED
    BY <2>3, <2>4, <2>5
<1>6. downSnd[d] <= downSnd'[d] /\ downSnd'[d] <= downRcv[d] + Cap /\ downSnd'[d] \in Nat
  <2>1. CASE d # cur \/ UNCHANGED downSnd
    BY <1>1, <1>2, <1>3, <2>1 DEF ClientFlow
  <2>2. ASSUME d = cur, NEW k \in Nat, k <= DownRoom(cur), Sent(k)
        PROVE  downSnd[d] <= downSnd'[d] /\ downSnd'[d] <= downRcv[d] + Cap /\ downSnd'[d] \in Nat
    <3>1. downSnd'[d] = downSnd[d] + k
      BY <2>2 DEF Sent, IInv, Types, NetTypeOK
    <3>2. k <= Cap - (downSnd[d] - downRcv[d])
      BY <2>2 DEF DownRoom, DownReady
    <3> QED
      BY ONLY <3>1, <3>2, <1>3, <2>2
  <2>3. CASE SendFileInfo
    BY <1>3, <2>1, <2>2, <2>3 DEF SendFileInfo
  <2>4. CASE SendImg
    <3>1. PICK k \in Chunk(dst - sum, DownRoom(cur)) : Sent(k)
      BY <2>4 DEF SendImg
    <3>2. k \in Nat /\ k <= DownRoom(cur)
      BY PartOf
    <3> QED
      BY <2>1, <2>2, <3>1, <3>2
  <2>5. CASE ~(SendFileInfo \/ SendImg)
    <3>1. UNCHANGED downSnd
      BY <2>5 DEF Analyse, LoadModel, InitServer, InitServerFails, Connect2Client, Connect2ClientFails,
         RecvFileInfo, RecvFileInfoPart, RecvFileInfoRest, RecvImg, Received,
         RecvFileInfoOverrun, RecvFileInfoFails, RecvImgFails, RecvImgCrashes, ReadLocalImage, Recognize,
         RecognizeCrashes, CreateInfo, CreateInfoCrashes, SendFileInfoFails, SendImgFails,
         WriteLocalImage, WriteLocalImageCrashes, FinishSession, CloseServer, Crash, DropSession, Compute, netVars
    <3> QED
      BY <2>1, <3>1
  <2> QED
    BY <2>3, <2>4, <2>5
<1> QED
  BY <1>1, <1>2, <1>3, <1>4, <1>5, <1>6 DEF ClientFlow, Alive

LEMMA ServerStepServerFlow ==
  ASSUME IInv, Streams, Flow, Analyse
  PROVE  ServerFlow'
<1>1. HdrLen \in Nat \ {0} /\ sum \in Nat /\ dst \in Nat /\ image \in Nat /\ res \in {"none", "empty", "short", "long"}
  BY TcpAssumption DEF IInv, Types, ServerTypeOK
<1>2. srv \in Serving => cur \in Clients
  BY ServingClient DEF IInv, Types, Sockets
<1>3. ServerFlow /\ ServerStreams
  BY DEF Flow, Streams
<1>4. srv \in Serving \ {"recvInfo"} => recvInfo.size \in Int /\ recvInfo.status \in Statuses
  BY DEF IInv, Types, HeadersKnown, FileInfo
<1> USE <1>1, <1>2, <1>3 DEF ServerFlow, Serving, serverVars, sessionVars
<1>5. CASE LoadModel
  BY <1>5, LoadStates DEF LoadModel
<1>6. CASE InitServer \/ InitServerFails \/ Connect2ClientFails
  BY <1>6 DEF InitServer, InitServerFails, Connect2ClientFails
<1>7. CASE Connect2Client
  BY <1>7 DEF Connect2Client, ServerStreams
<1>8. CASE RecvFileInfo
  BY <1>8 DEF RecvFileInfo, AfterHeader
<1>9. CASE RecvFileInfoPart
  <2>1. PICK k \in Chunk(HdrLen - 1, UpReady(cur)) : sum' = k
    BY <1>9 DEF RecvFileInfoPart
  <2>2. k \in Nat /\ k <= HdrLen - 1
    BY PartOf
  <2> QED
    BY <1>9, <2>1, <2>2 DEF RecvFileInfoPart
<1>10. CASE RecvFileInfoRest
  <2>1. PICK k \in Chunk(HdrLen - sum, UpReady(cur)) :
          \/ /\ sum + k < HdrLen
             /\ sum' = sum + k
             /\ UNCHANGED <<srv, recvInfo>>
          \/ /\ sum + k = HdrLen
             /\ sum' = 0
             /\ srv' = AfterHeader(recvInfo')
    BY <1>10 DEF RecvFileInfoRest
  <2>2. k \in Nat
    BY PartOf
  <2>3. srv = "recvInfo" /\ sum > 0
    BY <1>10 DEF RecvFileInfoRest
  <2> QED
    BY <2>1, <2>2, <2>3 DEF AfterHeader
<1>11. CASE RecvImg
  <2>1. PICK k \in Chunk(recvInfo.size - sum, UpReady(cur)) :
          /\ Received(k)
          /\ IF sum + k = recvInfo.size
               THEN srv' = "recognize" /\ image' = recvInfo.size /\ sum' = 0
               ELSE srv' = srv /\ image' = image /\ sum' = sum + k
    BY <1>11 DEF RecvImg
  <2>2. k \in Nat /\ k <= recvInfo.size - sum
    BY PartOf
  <2>3. srv = "recvImg" /\ UNCHANGED <<cur, recvInfo>> /\ upRcv[cur] = HdrLen + sum
    BY <1>11 DEF RecvImg, ServerStreams
  <2>4. upRcv'[cur] = HdrLen + sum + k
    BY <2>1, <2>2, <2>3 DEF Received, IInv, Types, NetTypeOK
  <2> QED
    BY <1>4, <2>1, <2>2, <2>3, <2>4
<1>12. CASE ReadLocalImage
  BY <1>12 DEF ReadLocalImage, Compute
<1>13. CASE Recognize
  <2>1. PICK task \in TaskTypes(recvInfo.ano_type) : res' \in Detect(task)
    BY <1>13 DEF Recognize
  <2>2. res' = "empty" \/ image > 0
    BY <2>1 DEF Detect, CanDetect
  <2> QED
    BY <1>13, <2>2 DEF Recognize, Compute, netVars
<1>14. CASE CreateInfo
  <2>1. sendInfo'.ano_res = "empty" <=> res = "empty"
    BY <1>14 DEF CreateInfo
  <2> QED
    BY <1>14, <2>1 DEF CreateInfo, Compute, netVars
<1>15. CASE SendFileInfo
  <2>1. srv' = "sendImg" => recvInfo.status # "local" /\ sendInfo.ano_res # "empty"
    BY <1>15 DEF SendFileInfo
  <2>2. srv' \in {"imwrite", "finish", "sendImg"} /\ srv = "sendInfo" /\ UNCHANGED <<cur, sum, recvInfo, image, dst, upRcv>>
    BY <1>15 DEF SendFileInfo, Sent
  <2>3. sum = 0
    BY <2>2 DEF ServerStreams
  <2> QED
    BY <2>1, <2>2, <2>3
<1>16. CASE SendImg
  <2>1. PICK k \in Chunk(dst - sum, DownRoom(cur)) :
          /\ Sent(k)
          /\ sum' = sum + k
          /\ srv' = IF sum' = dst THEN "finish" ELSE "sendImg"
    BY <1>16 DEF SendImg
  <2>2. k \in Nat /\ k <= dst - sum
    BY PartOf
  <2>3. srv = "sendImg" /\ UNCHANGED <<cur, recvInfo, image, dst, upRcv>>
    BY <1>16, <2>1 DEF SendImg, Sent
  <2> QED
    BY <2>1, <2>2, <2>3
<1>17. CASE WriteLocalImage
  BY <1>17 DEF WriteLocalImage
<1>18. CASE RecvFileInfoFails \/ RecvImgFails \/ SendFileInfoFails \/ SendImgFails
  BY <1>18 DEF RecvFileInfoFails, RecvImgFails, SendFileInfoFails, SendImgFails, DropSession, EndSession
<1>19. CASE \/ RecvFileInfoOverrun \/ RecvImgCrashes \/ RecognizeCrashes
            \/ CreateInfoCrashes \/ WriteLocalImageCrashes
  BY <1>19 DEF RecvFileInfoOverrun, RecvImgCrashes, RecognizeCrashes, CreateInfoCrashes, WriteLocalImageCrashes, Crash
<1>20. CASE FinishSession \/ CloseServer
  BY <1>20 DEF FinishSession, CloseServer
<1> QED
  BY <1>5, <1>6, <1>7, <1>8, <1>9, <1>10, <1>11, <1>12, <1>13, <1>14, <1>15, <1>16, <1>17, <1>18,
     <1>19, <1>20 DEF Analyse

LEMMA InductiveFlow == Spec => [](IInv /\ Streams /\ Flow)
<1>1. Init => Flow
  BY InitFlow
<1>2. IInv /\ Streams /\ Flow /\ [Next]_vars => Flow'
  <2> SUFFICES ASSUME IInv, Streams, Flow, [Next]_vars PROVE Flow'
    OBVIOUS
  <2>1. CASE ServerStep
    BY <2>1, ServerStepServerFlow, ServerStepClientFlow DEF ServerStep, Flow
  <2>2. ASSUME NEW c \in Clients, ClientStep(c) \/ OutsideStep(c) PROVE Flow'
    BY <2>2, ClientStepFlow DEF ClientStep, OutsideStep
  <2>3. CASE UNCHANGED vars
    BY <2>3 DEF vars, netVars, serverVars, sessionVars, clientVars, Flow, ServerFlow, ClientFlow, Alive
  <2> QED
    BY <2>1, <2>2, <2>3 DEF Next, Over
<1> QED
  BY <1>1, <1>2, InductiveStreams, PTL DEF Spec


\* What the two processes of a session know of each other's calls.
LEMMA Session ==
  ASSUME IInv, Streams, Flow, srv \in Serving
  PROVE  /\ cur \in Clients /\ sSock[cur] = "open" /\ cSock[cur] \in {"open", "closed"}
         /\ ClientFlow(cur) /\ ClientStreams(cur) /\ ServerFlow /\ ServerStreams
         /\ upSnd[cur] \in Nat /\ upRcv[cur] \in Nat /\ downSnd[cur] \in Nat /\ downRcv[cur] \in Nat
         /\ csum[cur] \in Nat /\ cimg[cur] \in Nat /\ sum \in Nat /\ dst \in Nat /\ image \in Nat
         /\ HdrLen \in Nat \ {0} /\ Cap \in Nat /\ Cap >= HdrLen
         /\ cpc[cur] \in ClientStates \ {"init"}
         /\ srv # "recvInfo" => recvInfo.size \in Int
         /\ rep[cur] # NoInfo => rep[cur].size \in Int
<1>1. cur \in Clients /\ sSock[cur] = "open"
  BY ServingClient DEF IInv, Types, Sockets
<1>2. ClientFlow(cur) /\ ClientStreams(cur) /\ ServerFlow /\ ServerStreams
  BY <1>1 DEF Flow, Streams
<1>3. cSock[cur] \in {"open", "closed"}
  BY <1>1, <1>2 DEF ClientFlow, IInv, Types, NetTypeOK
<1>4. cpc[cur] \in ClientStates \ {"init"}
  BY <1>1 DEF IInv, Types, ClientTypeOK, Sockets
<1>5. srv # "recvInfo" => recvInfo.size \in Int
  BY DEF IInv, Types, HeadersKnown, FileInfo
<1>6. rep[cur] # NoInfo => rep[cur].size \in Int
  BY <1>1 DEF IInv, Types, ClientTypeOK, ResInfo
<1> QED
  BY <1>1, <1>2, <1>3, <1>4, <1>5, <1>6, TcpAssumption DEF IInv, Types, NetTypeOK, ServerTypeOK, ClientTypeOK

\* A client whose server waits for its pixels is either able to go on, or
\* has sent them all and waits for the reply.
LEMMA WaitInRecvImg ==
  ASSUME IInv, Streams, Flow, srv = "recvImg", cur \notin stalled, ~ServerMay, ~ClientMay(cur)
  PROVE  MutualWait /\ (recvInfo.size > cimg[cur] \/ recvInfo.size = 0)
<1> DEFINE c == cur
<1>1. srv \in Serving
  BY DEF Serving
<1> USE Session, <1>1
<1>2. ~UpEnds(c) /\ recvInfo.size >= 0 /\ recvInfo.size \in Int
  BY DEF ServerMay
<1>3. upSnd[c] - upRcv[c] = 0
  BY <1>2 DEF ServerMay, UpReady, ServerFlow, ClientFlow
<1>4. cSock[c] = "open" /\ Alive(c) /\ cpc[c] \notin Ended
  BY <1>2, <1>3 DEF UpEnds, UpReady, Alive, ClientFlow
<1>5. downSnd[c] = 0 /\ downRcv[c] = 0 /\ upRcv[c] = HdrLen + sum
  BY DEF ServerStreams, ClientFlow, Serving
<1>6. cpc[c] \in {"sendInfo", "sendImg", "recvInfo", "recvImg"}
  BY <1>4 DEF ClientMay, ClientStates, Ended
<1>7. cpc[c] # "sendInfo" /\ cpc[c] # "recvImg"
  <2>1. upSnd[c] \in Nat /\ sum \in Nat /\ HdrLen \in Nat \ {0}
    OBVIOUS
  <2>2. upSnd[c] # 0
    BY ONLY <1>3, <1>5, <2>1
  <2> QED
    BY <1>4, <1>5, <2>2 DEF ClientFlow
<1>8. cpc[c] # "sendImg"
  BY <1>3, <1>4, <1>5 DEF ClientMay, UpRoom, UpReady, ClientFlow
<1>9. upSnd[c] = HdrLen + cimg[c]
  BY <1>4, <1>6, <1>7, <1>8 DEF ClientFlow
<1>10. MutualWait
  BY <1>2, <1>3, <1>5, <1>6, <1>7, <1>8 DEF MutualWait, UpReady, DownReady
<1>11. sum = cimg[c] /\ (sum = 0 \/ sum < recvInfo.size)
  <2>1. sum = 0 \/ sum < recvInfo.size
    BY DEF ServerFlow
  <2>2. sum \in Nat /\ cimg[c] \in Nat /\ upSnd[c] \in Nat /\ upRcv[c] \in Nat /\ HdrLen \in Nat
    OBVIOUS
  <2> QED
    BY ONLY <1>3, <1>5, <1>9, <2>1, <2>2
<1> QED
  BY <1>2, <1>10, <1>11

\* A server that waits for room waits for a client that waits for room, too.
LEMMA WaitInSendImg ==
  ASSUME IInv, Streams, Flow, srv = "sendImg", cur \notin stalled, ~ServerMay, ~ClientMay(cur)
  PROVE  MutualSend /\ cur \in Prompt /\ recvInfo.size < cimg[cur]
<1> DEFINE c == cur
<1>1. srv \in Serving
  BY DEF Serving
<1> USE Session, <1>1
<1>2. cSock[c] = "open" /\ Alive(c) /\ cpc[c] \notin Ended
  BY DEF ServerMay, Alive, ClientFlow
<1>3. DownRoom(c) = 0 /\ c \in Prompt /\ downSnd[c] = downRcv[c] + Cap
  BY DEF ServerMay, ServerFlow, ClientFlow, DownRoom, DownReady
<1>4. upRcv[c] = HdrLen + recvInfo.size /\ recvInfo.size \in Int
  BY DEF ServerFlow
<1>5. cpc[c] \in {"sendInfo", "sendImg", "recvInfo", "recvImg"}
  BY <1>2 DEF ClientMay, ClientStates, Ended
<1>6. recvInfo.size > 0
  BY DEF ServerFlow
<1>7. cpc[c] # "sendInfo"
  BY <1>2, <1>4, <1>6 DEF ClientFlow
<1>8. cpc[c] # "recvInfo"
  BY <1>3 DEF ClientMay, DownReady, ClientFlow
<1>9. cpc[c] # "recvImg"
  BY <1>3 DEF ClientMay, DownReady, ClientFlow
<1>10. cpc[c] = "sendImg" /\ UpRoom(c) = 0
  BY <1>2, <1>5, <1>7, <1>8, <1>9 DEF ClientMay, UpRoom, UpReady, ClientFlow
<1>11. recvInfo.size < cimg[c]
  BY <1>2, <1>4, <1>10 DEF ClientFlow, UpRoom, UpReady
<1> QED
  BY <1>3, <1>10, <1>11 DEF MutualSend

\* The other calls of a session return, or their client goes on.
LEMMA NoOtherWait ==
  ASSUME IInv, Streams, Flow, srv \in Serving \ {"recvImg", "sendImg"}, cur \notin stalled, ~ServerMay
  PROVE  ClientMay(cur)
<1> DEFINE c == cur
<1> USE Session
<1>1. srv \in {"recvInfo", "sendInfo"}
  BY DEF ServerMay, Serving
<1>2. downSnd[c] = 0 /\ downRcv[c] = 0
  BY <1>1 DEF ServerStreams, ClientFlow, Serving
<1>3. srv # "sendInfo"
  BY <1>1, <1>2 DEF ServerMay, DownRoom, DownReady
<1>4. srv = "recvInfo" /\ ~UpEnds(c) /\ upRcv[c] = sum /\ sum < HdrLen /\ (HeaderSplits \/ sum = 0)
  BY <1>1, <1>3 DEF ServerMay, ServerStreams, ServerFlow
<1>5. upSnd[c] < HdrLen
  BY <1>4 DEF ServerMay, UpReady, ClientFlow
<1>6. cSock[c] = "open" /\ Alive(c) /\ cpc[c] \notin Ended
  <2>1. upSnd[c] = 0 /\ upRcv[c] = 0
    BY <1>5 DEF ClientFlow
  <2> QED
    BY <1>4, <2>1 DEF UpEnds, UpReady, Alive, ClientFlow
<1>7. cpc[c] \in {"preprocess", "sendInfo"}
  BY <1>2, <1>5, <1>6 DEF ClientFlow, ClientStates, Ended
<1> QED
  BY <1>6, <1>7 DEF ClientMay, UpRoom, UpReady, ClientFlow

\* A session in which neither the server nor its client may go on is one of
\* two: each in recv, over a header that does not fit the pixels, or, if no
\* timeout runs out, each in send, over a file that has grown.
THEOREM OnlyMutualWaitsStop == Spec => []OnlyMutualWaits
<1>1. IInv /\ Streams /\ Flow => OnlyMutualWaits
  <2> SUFFICES ASSUME IInv, Streams, Flow, srv \in Serving, cur \notin stalled, ~ServerMay, ~ClientMay(cur)
               PROVE  \/ MutualWait /\ (recvInfo.size > cimg[cur] \/ recvInfo.size = 0)
                      \/ MutualSend /\ cur \in Prompt /\ recvInfo.size < cimg[cur]
    BY DEF OnlyMutualWaits
  <2>1. CASE srv = "recvImg"
    BY <2>1, WaitInRecvImg
  <2>2. CASE srv = "sendImg"
    BY <2>2, WaitInSendImg
  <2>3. CASE srv \notin {"recvImg", "sendImg"}
    BY <2>3, NoOtherWait
  <2> QED
    BY <2>1, <2>2, <2>3
<1> QED
  BY <1>1, InductiveFlow, PTL

-----------------------------------------------------------------------------
\* From a mutual wait only the end of that client's process leads away.
MutualWaitLasts ==
  [][MutualWait => (MutualWait' /\ cur' = cur) \/ cpc'[cur] = "killed"]_vars

LEMMA WaitingSession ==
  ASSUME IInv, Streams, Flow, MutualWait
  PROVE  /\ cur \in Clients /\ cSock[cur] = "open" /\ sSock[cur] = "open"
         /\ upSnd[cur] \in Nat /\ upRcv[cur] = upSnd[cur] /\ downSnd[cur] = 0 /\ downRcv[cur] = 0
         /\ csum[cur] = 0 /\ recvInfo.size \in Int /\ HdrLen \in Nat \ {0} /\ sum \in Nat
         /\ sum = 0 \/ sum < recvInfo.size
<1>1. srv \in Serving /\ srv = "recvImg" /\ cpc[cur] = "recvInfo" /\ upSnd[cur] - upRcv[cur] = 0
  BY DEF MutualWait, Serving, UpReady
<1> USE Session, <1>1
<1>2. downSnd[cur] = 0 /\ downRcv[cur] = 0 /\ csum[cur] = 0
  BY DEF ServerStreams, ClientStreams, ClientFlow, Serving
<1>3. cSock[cur] = "open"
  <2>1. cpc[cur] \notin Ended
    BY <1>1 DEF Ended
  <2> QED
    BY <2>1 DEF ClientFlow
<1> QED
  BY <1>2, <1>3 DEF ServerFlow

LEMMA ServerStaysWaiting ==
  ASSUME IInv, Streams, Flow, MutualWait, Analyse
  PROVE  FALSE
<1>1. srv = "recvImg" /\ recvInfo.size >= 0 /\ UpReady(cur) = 0
  BY DEF MutualWait
<1>2. ~UpEnds(cur)
  BY WaitingSession DEF UpEnds
<1>3. ~RecvImg
  <2>1. \A n : Chunk(n, UpReady(cur)) = {}
    BY <1>1, PartOf
  <2> QED
    BY <2>1 DEF RecvImg
<1>4. ~RecvImgFails
  BY <1>1, <1>2 DEF RecvImgFails
<1>5. ~RecvImgCrashes
  BY <1>1, WaitingSession DEF RecvImgCrashes
<1> QED
  BY <1>1, <1>3, <1>4, <1>5 DEF Analyse, LoadModel, InitServer, InitServerFails, Connect2Client,
     Connect2ClientFails, RecvFileInfo, RecvFileInfoPart, RecvFileInfoRest, RecvFileInfoOverrun,
     RecvFileInfoFails, ReadLocalImage, Recognize, RecognizeCrashes, CreateInfo, CreateInfoCrashes,
     SendFileInfo, SendFileInfoFails, SendImg, SendImgFails, WriteLocalImage, WriteLocalImageCrashes,
     FinishSession, CloseServer

LEMMA ClientStaysWaiting ==
  ASSUME IInv, Streams, Flow, MutualWait, NEW c \in Clients, main(c) \/ Outside(c), UNCHANGED serverVars
  PROVE  (MutualWait' /\ cur' = cur) \/ cpc'[cur] = "killed"
<1>1. UNCHANGED <<upRcv, downSnd>> /\ \A d \in Clients : d # c => SameFor(d)
  BY OtherClients DEF IInv
<1>2. UNCHANGED <<srv, cur, recvInfo>>
  BY DEF serverVars, sessionVars
<1>3. CASE c # cur
  BY <1>1, <1>2, <1>3, WaitingSession DEF MutualWait, SameFor, UpReady, DownReady
<1>4. CASE c = cur
  <2>1. cpc[c] = "recvInfo" /\ DownReady(c) = 0 /\ csum[c] = 0 /\ ~RecvFails(c)
    BY <1>4, WaitingSession DEF MutualWait, RecvFails, DownEnds
  <2>2. \A n : Chunk(n, DownReady(c)) = {}
    BY <2>1, PartOf
  <2>3. HdrLen \notin Chunk(HdrLen, DownReady(c))
    BY <2>2
  <2>4. ~main(c)
    BY <2>1, <2>2, <2>3 DEF main, initClient, initClientSpins, initClientFails, preprocessFileInfo, sendFileInfo,
       sendFileInfoFails, openImg, sendImg, sendImgFails, recvFileInfo, recvFileInfoPart,
       recvFileInfoRest, recvFileInfoOverrun, recvFileInfoFails, recvImg, recvImgFails,
       recvImgCrashes, saveImg, saveImgCrashes
  <2>5. CASE Stall(c) \/ ReplaceFile(c)
    BY <1>2, <1>4, <2>5 DEF Stall, ReplaceFile, netVars, MutualWait, UpReady, DownReady
  <2>6. CASE Kill(c)
    BY <1>2, <1>4, <2>6, WaitingSession DEF Kill, Exit, Goto, IInv, Types, ClientTypeOK
  <2> QED
    BY <2>4, <2>5, <2>6 DEF Outside
<1> QED
  BY <1>3, <1>4

\* Once the server and its client are each in recv with nothing on the way,
\* they stay there, and no other client is served, until that one is killed.
THEOREM MutualWaitIsForEver == Spec => MutualWaitLasts
<1>1. IInv /\ Streams /\ Flow /\ [Next]_vars =>
        [MutualWait => (MutualWait' /\ cur' = cur) \/ cpc'[cur] = "killed"]_vars
  <2> SUFFICES ASSUME IInv, Streams, Flow, Next, MutualWait
               PROVE  (MutualWait' /\ cur' = cur) \/ cpc'[cur] = "killed"
    OBVIOUS
  <2>1. CASE ServerStep
    BY <2>1, ServerStaysWaiting DEF ServerStep
  <2>2. ASSUME NEW c \in Clients, ClientStep(c) \/ OutsideStep(c)
        PROVE  (MutualWait' /\ cur' = cur) \/ cpc'[cur] = "killed"
    BY <2>2, ClientStaysWaiting DEF ClientStep, OutsideStep
  <2>3. CASE Over
    BY <2>3 DEF Over, ServerOver, MutualWait
  <2> QED
    BY <2>1, <2>2, <2>3 DEF Next
<1> QED
  BY <1>1, InductiveFlow, PTL DEF Spec, MutualWaitLasts

-----------------------------------------------------------------------------
(***************************************************************************)
(* Why a client that stops cannot keep the server, but in RecvImg: in any  *)
(* other call the server may go on, whatever the client does, if its       *)
(* timeouts run out, and in none does it go round without end.             *)
(***************************************************************************)
TimeoutsCover == srv \in Serving \ {"recvImg"} /\ cur \notin Prompt => ServerMay

\* The order of the calls of a session, and what those in a loop transfer.
Stage(call) ==
  [recvInfo |-> 1, recvImg |-> 2, imread |-> 2, recognize |-> 3, createInfo |-> 4,
   sendInfo |-> 5, sendImg |-> 6, imwrite |-> 6, finish |-> 7][call]

Total(call) ==
  CASE call = "recvInfo" -> HdrLen
    [] call = "recvImg" -> recvInfo.size
    [] call = "sendImg" -> dst

Advances ==
  srv \in Serving /\ srv' \in Serving =>
    \/ UNCHANGED serverVars
    \/ Stage(srv') > Stage(srv)
    \/ srv' = srv /\ sum < sum' /\ sum' < Total(srv)

SessionAdvances == [][Advances]_vars

\* In a session of a client that is not prompt, only RecvImg waits.
THEOREM OnlyRecvImgWaits == Spec => []TimeoutsCover
<1>1. ASSUME IInv, Streams, Flow, srv \in Serving \ {"recvImg"}, cur \notin Prompt
      PROVE  ServerMay
  <2> USE <1>1, Session
  <2>1. CASE srv = "recvInfo"
    <3>1. UpReady(cur) \in Nat
      BY DEF UpReady, ClientFlow
    <3>2. CASE UpReady(cur) = 0
      BY <2>1, <3>2 DEF ServerMay
    <3>3. CASE UpReady(cur) > 0 /\ (HeaderSplits \/ sum > 0)
      BY <2>1, <3>3 DEF ServerMay
    <3>4. CASE UpReady(cur) > 0 /\ sum = 0
      <4>1. upRcv[cur] = 0
        BY <2>1, <3>4 DEF ServerStreams
      <4>2. UpReady(cur) = upSnd[cur] /\ upSnd[cur] # 0
        BY <3>4, <4>1 DEF UpReady
      <4>3. HdrLen <= UpReady(cur)
        BY <4>2 DEF ClientFlow
      <4> QED
        BY <2>1, <3>4, <4>3 DEF ServerMay
    <3>5. sum = 0 \/ sum > 0
      BY DEF IInv, Types, ServerTypeOK
    <3> QED
      BY <3>1, <3>2, <3>3, <3>4, <3>5
  <2>2. CASE srv = "sendInfo"
    <3>1. downSnd[cur] = 0 /\ downRcv[cur] = 0
      BY <2>2 DEF ServerStreams, ClientFlow, Serving
    <3>2. HdrLen <= DownRoom(cur)
      BY <3>1 DEF DownRoom, DownReady
    <3> QED
      BY <2>2, <3>2 DEF ServerMay
  <2>3. CASE srv = "sendImg"
    <3>1. DownRoom(cur) \in Nat
      BY DEF DownRoom, DownReady, ClientFlow
    <3>2. sum < dst
      BY <2>3 DEF ServerFlow
    <3> QED
      BY <2>3, <3>1, <3>2 DEF ServerMay
  <2>4. CASE srv \in {"imread", "recognize", "createInfo", "imwrite", "finish"}
    BY <2>4 DEF ServerMay
  <2> QED
    BY <2>1, <2>2, <2>3, <2>4 DEF Serving
<1>2. IInv /\ Streams /\ Flow => TimeoutsCover
  BY <1>1 DEF TimeoutsCover
<1> QED
  BY <1>2, InductiveFlow, PTL

LEMMA SessionStep ==
  ASSUME IInv, Analyse, srv \in Serving, srv' \in Serving
  PROVE  \/ UNCHANGED serverVars
         \/ Stage(srv') > Stage(srv)
         \/ srv' = srv /\ sum < sum' /\ sum' < Total(srv)
<1>1. sum \in Nat /\ dst \in Nat /\ HdrLen \in Nat \ {0}
  BY TcpAssumption DEF IInv, Types, ServerTypeOK
<1>2. CASE RecvFileInfo
  BY <1>2 DEF RecvFileInfo, AfterHeader, Stage
<1>3. CASE RecvFileInfoPart
  <2>1. PICK k \in Chunk(HdrLen - 1, UpReady(cur)) : Received(k) /\ sum' = k
    BY <1>3 DEF RecvFileInfoPart
  <2>2. k \in Nat \ {0} /\ k <= HdrLen - 1
    BY <2>1, PartOf
  <2>3. srv = "recvInfo" /\ sum = 0 /\ srv' = srv
    BY <1>3 DEF RecvFileInfoPart
  <2> QED
    BY <1>1, <2>1, <2>2, <2>3 DEF Total
<1>4. CASE RecvFileInfoRest
  <2>1. PICK k \in Chunk(HdrLen - sum, UpReady(cur)) :
          \/ sum + k < HdrLen /\ sum' = sum + k /\ srv' = srv
          \/ srv' = AfterHeader(recvInfo')
    BY <1>4 DEF RecvFileInfoRest
  <2>2. k \in Nat \ {0}
    BY PartOf
  <2>3. srv = "recvInfo"
    BY <1>4 DEF RecvFileInfoRest
  <2>4. CASE srv' = AfterHeader(recvInfo')
    BY <2>3, <2>4 DEF AfterHeader, Stage
  <2>5. CASE sum + k < HdrLen /\ sum' = sum + k /\ srv' = srv
    BY <1>1, <2>2, <2>3, <2>5 DEF Total
  <2> QED
    BY <2>1, <2>4, <2>5
<1>5. CASE RecvImg
  <2>1. PICK k \in Chunk(recvInfo.size - sum, UpReady(cur)) :
          IF sum + k = recvInfo.size THEN srv' = "recognize" ELSE srv' = srv /\ sum' = sum + k
    BY <1>5 DEF RecvImg
  <2>2. srv = "recvImg" /\ recvInfo.size \in Int
    BY <1>5 DEF RecvImg, IInv, Types, HeadersKnown, FileInfo, Serving
  <2>3. k \in Nat \ {0} /\ k <= recvInfo.size - sum
    BY PartOf
  <2>4. CASE srv' = "recognize"
    BY <2>2, <2>4 DEF Stage
  <2>5. CASE sum + k # recvInfo.size /\ srv' = srv /\ sum' = sum + k
    BY <1>1, <2>2, <2>3, <2>5 DEF Total
  <2> QED
    BY <2>1, <2>4, <2>5
<1>6. CASE ReadLocalImage \/ Recognize \/ CreateInfo \/ WriteLocalImage
  BY <1>6 DEF ReadLocalImage, Recognize, CreateInfo, WriteLocalImage, Stage
<1>7. CASE SendFileInfo
  <2>1. srv = "sendInfo" /\ srv' \in {"imwrite", "finish", "sendImg"}
    BY <1>7 DEF SendFileInfo
  <2> QED
    BY <2>1 DEF Stage
<1>8. CASE SendImg
  <2>1. PICK k \in Chunk(dst - sum, DownRoom(cur)) :
          sum' = sum + k /\ srv' = IF sum' = dst THEN "finish" ELSE "sendImg"
    BY <1>8 DEF SendImg
  <2>2. k \in Nat \ {0} /\ k <= dst - sum
    BY PartOf
  <2>3. srv = "sendImg"
    BY <1>8 DEF SendImg
  <2>4. CASE srv' = "finish"
    BY <2>3, <2>4 DEF Stage
  <2>5. CASE sum' # dst /\ srv' = "sendImg"
    BY <1>1, <2>1, <2>2, <2>3, <2>5 DEF Total
  <2> QED
    BY <2>1, <2>4, <2>5
<1>9. CASE \/ LoadModel \/ InitServer \/ InitServerFails \/ Connect2Client \/ Connect2ClientFails
           \/ FinishSession \/ CloseServer
  BY <1>9 DEF LoadModel, InitServer, InitServerFails, Connect2Client, Connect2ClientFails,
     FinishSession, CloseServer, Serving
<1>10. CASE RecvFileInfoFails \/ RecvImgFails \/ SendFileInfoFails \/ SendImgFails
  BY <1>10 DEF RecvFileInfoFails, RecvImgFails, SendFileInfoFails, SendImgFails, DropSession, EndSession, Serving
<1>11. CASE \/ RecvFileInfoOverrun \/ RecvImgCrashes \/ RecognizeCrashes
            \/ CreateInfoCrashes \/ WriteLocalImageCrashes
  BY <1>11 DEF RecvFileInfoOverrun, RecvImgCrashes, RecognizeCrashes, CreateInfoCrashes,
     WriteLocalImageCrashes, Crash, Serving
<1> QED
  BY <1>2, <1>3, <1>4, <1>5, <1>6, <1>7, <1>8, <1>9, <1>10, <1>11 DEF Analyse

\* Within a session the server makes each of its calls once, in order, and
\* each recv and send of a call brings it nearer to the length it waits for.
THEOREM SessionsAdvance == Spec => SessionAdvances
<1>1. IInv /\ [Next]_vars => [Advances]_vars
  <2> SUFFICES ASSUME IInv, Next, srv \in Serving, srv' \in Serving
               PROVE  \/ UNCHANGED serverVars
                      \/ Stage(srv') > Stage(srv)
                      \/ srv' = srv /\ sum < sum' /\ sum' < Total(srv)
    BY DEF Advances
  <2>1. CASE ServerStep
    BY <2>1, SessionStep DEF ServerStep
  <2>2. CASE \E c \in Clients : ClientStep(c) \/ OutsideStep(c)
    BY <2>2 DEF ClientStep, OutsideStep
  <2>3. CASE Over
    BY <2>3 DEF Over, vars
  <2> QED
    BY <2>1, <2>2, <2>3 DEF Next
<1> QED
  BY <1>1, Inductive, PTL DEF Spec, SessionAdvances

=============================================================================
