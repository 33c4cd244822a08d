--------------------------- MODULE AnoPeerProofs ---------------------------
(***************************************************************************)
(* Theorems about AnoSystem when its clients are AnoClient as it is built, *)
(* which asks for GroundWater and names its image (Usual), however many    *)
(* they are, whatever their images are and however TCP cuts the streams.   *)
(*                                                                         *)
(* A server that has an engine then stays up, whatever else its clients    *)
(* do (Up), or has died of a picture that is too thin to resize and has    *)
(* arrived whole (ThinCrash).  And if nothing happens to the clients from  *)
(* outside (Calm), until then no call of either program fails but the last *)
(* one of a client without a result: CalmClient says that all that was     *)
(* announced is on its way.                                                *)
(***************************************************************************)
EXTENDS AnoStreamProofs

\* The clients ask for what AnoClient asks for, on an engine that can be used
\* if it can be read.
Usual ==
  /\ \A r \in Requests : r.ano_type = "GroundWater" /\ r.status # "local" /\ r.file_path # "short"
  /\ ModelFiles \subseteq {"good", "unreadable"}

\* All that c announces, if it announces anything.
UsualRequest(c) ==
  fileinfo[c] # NoInfo =>
    fileinfo[c].ano_type = "GroundWater" /\ fileinfo[c].status # "local" /\ fileinfo[c].file_path # "short"

\* The server has not failed, and has what Recognize needs.
Up ==
  /\ srv \notin {"load", "stopped"} => engine640
  /\ srv # "crashed"
  /\ \A c \in Clients : UsualRequest(c)

\* The server has failed over a picture of a client that has sent all of it.
ThinCrash ==
  /\ srv = "crashed"
  /\ \E c \in Clients \ success :
       /\ cpc[c] \notin Early /\ upInfo[c] # NoInfo /\ upInfo[c].size \in Thin
       /\ upRcv[c] = HdrLen + upInfo[c].size

\* The registry knows the recogniser of the clients' requests.
LEMMA GroundWaterRegistered ==
  getRecognize(RegistryKey("GroundWater")) = "Yolov5" /\ TaskTypes("GroundWater") = {1}
<1>1. RegistryKey("GroundWater") = "FBGW"
  BY DEF RegistryKey
<1>2. Registry = [t \in {"FBGW"} |-> "Yolov5"]
  <2>1. DOMAIN <<>> = {}
    OBVIOUS
  <2> QED
    BY <2>1 DEF Registry, registerRecognition
<1>3. getRecognize("FBGW") = "Yolov5"
  BY <1>2 DEF getRecognize
<1>4. TaskTypes("GroundWater") = {1}
  BY DEF TaskTypes
<1> QED
  BY <1>1, <1>3, <1>4

\* What main asks for is all a client ever announces.
LEMMA UsualStays ==
  ASSUME Usual, Types, NEW c \in Clients, main(c) \/ Outside(c), NEW d \in Clients, UsualRequest(d)
  PROVE  UsualRequest(d)'
<1>1. CASE d # c
  BY <1>1, OtherClients DEF UsualRequest, SameFor
<1>2. CASE d = c /\ preprocessFileInfo(c)
  <2>1. PICK r \in Requests :
          fileinfo' = [fileinfo EXCEPT ![c] =
            [ano_type |-> r.ano_type, status |-> r.status, file_path |-> r.file_path,
             size |-> file[c], img_type |-> "8UC3"]]
    BY <1>2 DEF preprocessFileInfo
  <2>2. /\ fileinfo'[c].ano_type = r.ano_type /\ fileinfo'[c].status = r.status
        /\ fileinfo'[c].file_path = r.file_path
    BY <2>1 DEF Types, ClientTypeOK
  <2> QED
    BY <1>2, <2>2 DEF Usual, UsualRequest
<1>3. CASE d = c /\ ~preprocessFileInfo(c)
  <2>1. fileinfo' = fileinfo
    BY <1>3 DEF main, Outside, initClient, initClientSpins, initClientFails,
       sendFileInfo, sendFileInfoFails, openImg, sendImg, sendImgFails,
       recvFileInfo, recvFileInfoPart, recvFileInfoRest, recvFileInfoOverrun, recvFileInfoFails,
       recvImg, recvImgFails, recvImgCrashes, saveImg, saveImgCrashes,
       Kill, Stall, ReplaceFile, clientVars
  <2> QED
    BY <1>3, <2>1 DEF UsualRequest
<1> QED
  BY <1>1, <1>2, <1>3

\* What the server works on is what AnoClient asks for.
LEMMA UsualWork ==
  ASSUME IInv, Letters, Up, srv \in Serving \ {"recvInfo"}
  PROVE  /\ cur \in Clients /\ recvInfo = upInfo[cur] /\ recvInfo # NoInfo
         /\ recvInfo.ano_type = "GroundWater" /\ recvInfo.status # "local" /\ recvInfo.file_path # "short"
         /\ recvInfo.img_type = "8UC3" /\ recvInfo.size \in Nat
<1>1. cur \in Clients
  BY ServingClient DEF IInv, Types, Sockets
<1>2. recvInfo = fileinfo[cur] /\ recvInfo = upInfo[cur] /\ fileinfo[cur] # NoInfo
  BY TcpAssumption DEF Letters, Work, IInv, Types, HeadersKnown
<1>3. recvInfo.size \in Int
  BY DEF IInv, Types, HeadersKnown, FileInfo
<1>4. Request(cur) /\ UsualRequest(cur)
  BY <1>1 DEF Letters, Up
<1> QED
  BY <1>1, <1>2, <1>3, <1>4 DEF Request, UsualRequest

\* Nothing but a thin picture makes its recognition throw.
LEMMA OnlyThinThrows ==
  ASSUME IInv, Letters, ServerFlow, Up, RecognizeCrashes, UNCHANGED clientVars
  PROVE  ThinCrash'
<1>1. srv = "recognize" /\ srv \in Serving \ {"recvInfo"}
  BY DEF RecognizeCrashes, Serving
<1>2. cur \in Clients /\ recvInfo = upInfo[cur] /\ recvInfo # NoInfo
      /\ recvInfo.ano_type = "GroundWater" /\ recvInfo.status # "local" /\ recvInfo.img_type = "8UC3"
  BY <1>1, UsualWork
<1>3. engine640 /\ image > 0 /\ image = recvInfo.size /\ upRcv[cur] = HdrLen + recvInfo.size
      /\ cpc[cur] \notin Early
  BY <1>1, <1>2 DEF Up, Letters, Work, ServerFlow
<1>4. image \in Thin
  <2>1. Registered /\ TaskTypes(recvInfo.ano_type) = {1}
    BY <1>2, GroundWaterRegistered DEF Registered
  <2> QED
    BY <1>2, <1>3, <2>1 DEF RecognizeCrashes, CanDetect
<1>5. cur \notin success
  BY <1>1, ServingClient DEF IInv, Types, Sockets
<1>6. srv' = "crashed" /\ UNCHANGED <<success, upInfo, upRcv, cpc>>
  BY DEF RecognizeCrashes, Crash, clientVars
<1> QED
  BY <1>2, <1>3, <1>4, <1>5, <1>6 DEF ThinCrash

\* Nothing revives it.
LEMMA ThinCrashStays ==
  ASSUME IInv, ThinCrash, [Next]_vars
  PROVE  ThinCrash'
<1>1. ~ServerStep
  BY DEF ThinCrash, ServerStep, Analyse, LoadModel, InitServer, InitServerFails,
     Connect2Client, Connect2ClientFails, RecvFileInfo, RecvFileInfoPart, RecvFileInfoRest,
     RecvFileInfoOverrun, RecvFileInfoFails, RecvImg, RecvImgFails, RecvImgCrashes,
     ReadLocalImage, Recognize, RecognizeCrashes, CreateInfo, CreateInfoCrashes,
     SendFileInfo, SendFileInfoFails, SendImg, SendImgFails,
     WriteLocalImage, WriteLocalImageCrashes, FinishSession, CloseServer
<1>2. ASSUME NEW c \in Clients, main(c) \/ Outside(c), UNCHANGED serverVars PROVE ThinCrash'
  <2>1. PICK d \in Clients \ success :
          /\ cpc[d] \notin Early /\ upInfo[d] # NoInfo /\ upInfo[d].size \in Thin
          /\ upRcv[d] = HdrLen + upInfo[d].size
    BY DEF ThinCrash
  <2>2. upRcv' = upRcv /\ srv' = "crashed" /\ success' = success
    BY <1>2, OtherClients DEF IInv, ThinCrash, serverVars
  <2>3. cpc'[d] \notin Early /\ upInfo'[d] = upInfo[d]
    BY <1>2, <2>1, OtherClients, Announced DEF IInv, SameFor
  <2> QED
    BY <2>1, <2>2, <2>3 DEF ThinCrash
<1>3. CASE UNCHANGED vars
  BY <1>3 DEF vars, netVars, serverVars, clientVars, ThinCrash
<1> QED
  BY <1>1, <1>2, <1>3 DEF Next, Over, ClientStep, OutsideStep

LEMMA ServerStaysUp ==
  ASSUME Undamaged, Usual, IInv, Letters, Up, Analyse, ~RecognizeCrashes, UNCHANGED clientVars
  PROVE  Up'
<1>1. \A c \in Clients : UsualRequest(c)'
  BY DEF Up, UsualRequest, clientVars
<1>2. srv \in Serving \ {"recvInfo"} =>
        /\ recvInfo.status # "local" /\ recvInfo.file_path # "short"
        /\ recvInfo.img_type = "8UC3" /\ recvInfo.size \in Nat
  BY UsualWork
<1> USE <1>1 DEF Up, Serving, serverVars
<1>3. CASE LoadModel
  <2>1. PICK f \in ModelFiles :
          /\ engine640' = (f = "good")
          /\ srv' = CASE f \in {"good", "absent"} -> "init"
                      [] f = "unreadable" -> "stopped"
                      [] f = "corrupt" -> "crashed"
    BY <1>3 DEF LoadModel
  <2>2. f = "good" \/ f = "unreadable"
    BY <2>1 DEF Usual
  <2> QED
    BY <2>1, <2>2
<1>4. CASE InitServer \/ InitServerFails \/ Connect2Client \/ Connect2ClientFails
  BY <1>4 DEF InitServer, InitServerFails, Connect2Client, Connect2ClientFails
<1>5. CASE RecvFileInfo \/ RecvImg
  BY <1>5 DEF RecvFileInfo, RecvImg, AfterHeader
<1>6. CASE RecvFileInfoPart \/ RecvFileInfoRest \/ RecvFileInfoOverrun
  BY <1>6 DEF RecvFileInfoPart, RecvFileInfoRest, RecvFileInfoOverrun, Undamaged, Letters, Work
<1>7. CASE RecvFileInfoFails \/ RecvImgFails \/ SendFileInfoFails \/ SendImgFails
  BY <1>7 DEF RecvFileInfoFails, RecvImgFails, SendFileInfoFails, SendImgFails, DropSession, EndSession
<1>8. CASE RecvImgCrashes
  BY <1>2, <1>8 DEF RecvImgCrashes
<1>9. CASE ReadLocalImage \/ Recognize \/ CreateInfo \/ WriteLocalImage
  BY <1>9 DEF ReadLocalImage, Recognize, CreateInfo, WriteLocalImage, Compute
<1>10. CASE CreateInfoCrashes
  BY <1>2, <1>10 DEF CreateInfoCrashes, Letters, Work
<1>11. CASE SendFileInfo \/ SendImg
  BY <1>11 DEF SendFileInfo, SendImg
<1>12. CASE WriteLocalImageCrashes
  BY <1>2, <1>12 DEF WriteLocalImageCrashes, Letters, Work
<1>13. CASE FinishSession \/ CloseServer
  BY <1>13 DEF FinishSession, CloseServer
<1> QED
  BY <1>3, <1>4, <1>5, <1>6, <1>7, <1>8, <1>9, <1>10, <1>11, <1>12, <1>13 DEF Analyse

LEMMA NextUp ==
  ASSUME Undamaged, Usual, IInv, Letters, ServerFlow, Up, [Next]_vars
  PROVE  Up' \/ (ServerStep /\ RecognizeCrashes /\ ThinCrash')
<1>1. CASE ServerStep
  BY <1>1, ServerStaysUp, OnlyThinThrows DEF ServerStep
<1>2. ASSUME NEW c \in Clients, main(c) \/ Outside(c), UNCHANGED serverVars PROVE Up'
  <2>1. \A d \in Clients : UsualRequest(d)'
    BY <1>2, UsualStays DEF IInv, Up
  <2> QED
    BY <1>2, <2>1 DEF Up, serverVars
<1>3. CASE UNCHANGED vars
  BY <1>3 DEF vars, serverVars, clientVars, Up, UsualRequest
<1> QED
  BY <1>1, <1>2, <1>3 DEF Next, Over, ClientStep, OutsideStep

LEMMA InductiveUp ==
  ASSUME Undamaged, Usual
  PROVE  Spec => [](Up \/ ThinCrash)
<1>1. Init => Up
  BY DEF Init, ServerInit, ClientInit, Up, UsualRequest
<1>2. /\ IInv /\ Letters /\ ServerFlow
      /\ Up \/ ThinCrash
      /\ [Next]_vars
      => Up' \/ ThinCrash'
  BY NextUp, ThinCrashStays
<1>3. Flow => ServerFlow
  BY DEF Flow
<1> QED
  BY <1>1, <1>2, <1>3, InductiveLetters, InductiveFlow, PTL DEF Spec

\* Whatever clients do to their side of the connection, no error of recv or
\* send, and no image that did not arrive, takes the server down: only a whole
\* picture that is more than 1280 times as long as wide.
THEOREM PeersAreHarmless ==
  ASSUME Undamaged, Usual
  PROVE  Spec => []OnlyThinPicturesCrash
<1>1. Up \/ ThinCrash => OnlyThinPicturesCrash
  BY DEF Up, ThinCrash, ThinArrived, OnlyThinPicturesCrash
<1> QED
  BY <1>1, InductiveUp, PTL

-----------------------------------------------------------------------------
\* Nothing happens to the clients, their images are there and stay, and no
\* timeout runs out on them.
Calm ==
  /\ Socketless = {} /\ Mortal = {} /\ Mutable = {}
  /\ 0 \notin FileSizes
  /\ Clients \subseteq Prompt

\* Answered, with nothing found.
Empty(c) == c \in success /\ downInfo[c].ano_res = "empty"

\* Then the streams hold all of what was announced.
CalmClient(c) ==
  /\ file[c] > 0 /\ (fileinfo[c] # NoInfo => fileinfo[c].size = file[c])
  /\ upRcv[c] <= upSnd[c] /\ downRcv[c] <= downSnd[c]
  /\ cSock[c] = "none" <=> cpc[c] = "init"
  /\ cSock[c] = "closed" => cpc[c] \in {"done", "crashed"}
  /\ sSock[c] = "closed" => c \in success
  /\ c \in success => upRcv[c] = HdrLen + file[c]
  /\ cpc[c] = "imread" => upSnd[c] = HdrLen
  /\ cpc[c] = "sendImg" => cimg[c] = file[c] /\ upSnd[c] = HdrLen + csum[c] /\ csum[c] < file[c]
  /\ cpc[c] \in {"recvInfo", "recvImg", "imwrite", "done", "crashed"} => upSnd[c] = HdrLen + file[c]
  /\ cpc[c] = "recvImg" => rep[c] # NoInfo /\ (csum[c] < rep[c].size \/ (csum[c] = 0 /\ rep[c].size = 0))
  /\ cpc[c] = "imwrite" /\ img[c] = 0 => Empty(c)
  /\ cpc[c] = "crashed" => Empty(c)
  /\ img[c] > 0 => downRcv[c] = HdrLen + img[c]

CalmServer ==
  /\ srv # "closing"
  /\ srv \in Serving \ {"recvInfo", "recvImg"} => upRcv[cur] = HdrLen + file[cur]
  /\ srv = "recvImg" => sum < recvInfo.size
  /\ srv = "sendImg" => sum < dst

Fine == IInv /\ Streams /\ Letters /\ Up
CalmState == CalmServer /\ \A c \in Clients : CalmClient(c)

LEMMA InitCalm ==
  ASSUME Calm, Init
  PROVE  CalmState
<1>1. \A n \in FileSizes : n \in Nat /\ n > 0
  BY ClientAssumption DEF Calm
<1>2. \A c \in Clients : file[c] \in FileSizes
  BY DEF Init, ClientInit
<1> QED
  BY <1>1, <1>2 DEF Init, NetInit, ServerInit, ClientInit, CalmState, CalmServer, CalmClient, Serving

-----------------------------------------------------------------------------
\* A reply that has been sent is of the size of the request, or of none.
LEMMA RepliesFit ==
  ASSUME Fine, NEW c \in Clients, CalmClient(c), downSnd[c] > 0
  PROVE  /\ downInfo[c] \in ResInfo /\ downInfo[c].size \in {0, file[c]} /\ downInfo[c].img_type = "8UC3"
         /\ downInfo[c].ano_res = "empty" <=> downInfo[c].size = 0
         /\ downSnd[c] <= HdrLen + downInfo[c].size
         /\ c \in success => downSnd[c] = HdrLen + downInfo[c].size
         /\ cpc[c] \notin Early
<1>1. downInfo[c] \in ResInfo
  BY DEF Fine, IInv, Types, HeadersKnown
<1>2. fileinfo[c] # NoInfo /\ fileinfo[c].status # "local" /\ fileinfo[c].size = file[c]
  BY TcpAssumption DEF Fine, Letters, Reply, Up, UsualRequest, CalmClient
<1> QED
  BY <1>1, <1>2 DEF Fine, Letters, Reply, Pixels

\* The call of a client that fails is none before the last.
LEMMA ClientGoesOn ==
  ASSUME Undamaged, Calm, Fine, NEW c \in Clients, CalmClient(c)
  PROVE  /\ ~initClientFails(c) /\ ~sendFileInfoFails(c) /\ ~sendImgFails(c)
         /\ ~recvFileInfoPart(c) /\ ~recvFileInfoRest(c) /\ ~recvFileInfoOverrun(c) /\ ~recvFileInfoFails(c)
         /\ ~recvImgCrashes(c) /\ ~Kill(c) /\ ~ReplaceFile(c)
         /\ recvImgFails(c) => Empty(c)
<1> USE DEF Fine, Calm, IInv, Types, NetTypeOK, ClientTypeOK
<1>1. sSock[c] = "closed" => /\ c \in success /\ downSnd[c] > 0 /\ cpc[c] \notin Early
                             /\ upRcv[c] = HdrLen + file[c] /\ upSnd[c] >= upRcv[c]
                             /\ downSnd[c] = HdrLen + downInfo[c].size
                             /\ downInfo[c].size \in {0, file[c]}
  BY RepliesFit DEF CalmClient, Letters, Reply
<1>2. ~initClientFails(c) /\ ~Kill(c) /\ ~ReplaceFile(c)
  BY DEF initClientFails, Kill, ReplaceFile
<1>3. ~sendFileInfoFails(c)
  BY <1>1 DEF sendFileInfoFails, SendFails, CalmClient, Early
<1>4. ~sendImgFails(c)
  BY <1>1, TcpAssumption DEF sendImgFails, SendFails, CalmClient
<1>5. ~recvFileInfoPart(c) /\ ~recvFileInfoRest(c) /\ ~recvFileInfoOverrun(c)
  BY DEF recvFileInfoPart, recvFileInfoRest, recvFileInfoOverrun, Undamaged, Letters, Request
<1>6. ~recvFileInfoFails(c)
  <2> SUFFICES ASSUME recvFileInfoFails(c) PROVE FALSE
    OBVIOUS
  <2>1. cpc[c] = "recvInfo" /\ csum[c] = 0 /\ downRcv[c] = 0 /\ upSnd[c] = HdrLen + file[c]
    BY DEF recvFileInfoFails, Letters, Request, Streams, ClientStreams, CalmClient
  <2>2. sSock[c] = "closed" /\ (downSnd[c] - downRcv[c] = 0 \/ upSnd[c] - upRcv[c] > 0)
    BY <2>1 DEF recvFileInfoFails, RecvFails, DownEnds, DownReady, UpReady, CalmClient
  <2> QED
    BY <1>1, <2>1, <2>2, TcpAssumption
<1>7. cpc[c] = "recvImg" =>
        /\ rep[c] # NoInfo /\ rep[c] = downInfo[c] /\ downSnd[c] > 0
        /\ downRcv[c] = HdrLen + csum[c] /\ upSnd[c] = HdrLen + file[c]
        /\ csum[c] < rep[c].size \/ (csum[c] = 0 /\ rep[c].size = 0)
        /\ cSock[c] # "none"
  BY DEF CalmClient, Letters, Reply, Streams, ClientStreams
<1>8. ~recvImgCrashes(c)
  BY <1>7, RepliesFit, SMTT(20) DEF recvImgCrashes
<1>9. recvImgFails(c) => Empty(c)
  <2> SUFFICES ASSUME recvImgFails(c) PROVE Empty(c)
    OBVIOUS
  <2>1. cpc[c] = "recvImg"
    BY DEF recvImgFails
  <2>2. /\ downInfo[c].size \in {0, file[c]} /\ downSnd[c] <= HdrLen + downInfo[c].size
        /\ downInfo[c].ano_res = "empty" <=> downInfo[c].size = 0
    BY <1>7, <2>1, RepliesFit
  <2>3. CASE RecvFails(c)
    <3>1. sSock[c] = "closed" /\ (downSnd[c] - downRcv[c] = 0 \/ upSnd[c] - upRcv[c] > 0)
      BY <1>7, <2>1, <2>3 DEF RecvFails, DownEnds, DownReady, UpReady
    <3>2. downInfo[c].size = 0
      BY <1>1, <1>7, <2>1, <2>2, <3>1, TcpAssumption
    <3> QED
      BY <1>1, <2>2, <3>1, <3>2 DEF Empty
  <2>4. CASE rep[c].size = 0 /\ DownReady(c) > 0
    <3>1. csum[c] = 0 /\ downSnd[c] <= HdrLen /\ downRcv[c] = HdrLen
      BY <1>7, <2>1, <2>2, <2>4, TcpAssumption
    <3> QED
      BY <2>4, <3>1, TcpAssumption DEF DownReady
  <2> QED
    BY <2>3, <2>4 DEF recvImgFails
<1> QED
  BY <1>2, <1>3, <1>4, <1>5, <1>6, <1>8, <1>9

LEMMA ClientStepCalm ==
  ASSUME Undamaged, Usual, Calm, Fine, CalmState, NEW c \in Clients, main(c) \/ Outside(c), UNCHANGED serverVars
  PROVE  CalmState'
<1>1. UNCHANGED <<upRcv, downInfo, downSnd, success, srv, cur, sum, recvInfo, dst>>
      /\ \A d \in Clients : d # c => SameFor(d)
  BY OtherClients DEF Fine, IInv, serverVars, sessionVars
<1>2. CalmClient(c) /\ Request(c) /\ Reply(c) /\ ClientStreams(c)
  BY DEF CalmState, Fine, Letters, Streams
<1>3. file' = file
  <2>1. ~ReplaceFile(c)
    BY <1>2, ClientGoesOn
  <2> QED
    BY <2>1 DEF main, Outside, initClient, initClientSpins, initClientFails, preprocessFileInfo,
       sendFileInfo, sendFileInfoFails, openImg, sendImg, sendImgFails,
       recvFileInfo, recvFileInfoPart, recvFileInfoRest, recvFileInfoOverrun, recvFileInfoFails,
       recvImg, recvImgFails, recvImgCrashes, saveImg, saveImgCrashes, Kill, Stall, clientVars
<1>4. CalmServer'
  BY <1>1, <1>3 DEF CalmState, CalmServer
<1>5. ASSUME NEW d \in Clients, d # c PROVE CalmClient(d)'
  BY <1>1, <1>3, <1>5 DEF CalmState, CalmClient, SameFor, Empty
<1>6. CalmClient(c)'
  <2> USE <1>1, <1>2, <1>3 DEF CalmClient, Goto, Fine, IInv, Types, NetTypeOK, ClientTypeOK, netVars, clientVars, Empty
  <2>1. CASE initClient(c)
    BY <2>1 DEF initClient, Establish, Sockets
  <2>2. CASE initClientSpins(c)
    BY <2>2 DEF initClientSpins
  <2>3. CASE preprocessFileInfo(c)
    <3>1. fileinfo'[c].size = file[c]
      BY <2>3 DEF preprocessFileInfo
    <3>2. cpc[c] = "preprocess" /\ cpc'[c] = "sendInfo" /\ UNCHANGED <<netVars, img>>
      BY <2>3 DEF preprocessFileInfo
    <3> QED
      BY <3>1, <3>2
  <2>4. CASE sendFileInfo(c)
    <3>1. upSnd[c] = 0
      <4>1. sSock[c] # "closed"
        BY <2>4 DEF sendFileInfo, Early, Reply
      <4> QED
        BY <2>4, <4>1 DEF sendFileInfo, Early, Request
    <3>2. upSnd'[c] = HdrLen /\ cpc[c] = "sendInfo" /\ cpc'[c] = "imread"
          /\ UNCHANGED <<cSock, sSock, downRcv, fileinfo, img>>
      BY <2>4, <3>1, TcpAssumption DEF sendFileInfo, Put
    <3> QED
      BY <3>1, <3>2, TcpAssumption
  <2>5. CASE openImg(c)
    BY <2>5 DEF openImg, ClientStreams
  <2>6. CASE sendImg(c)
    <3>1. PICK k \in Chunk(cimg[c] - csum[c], UpRoom(c)) :
            /\ Put(c, k)
            /\ IF csum[c] + k = cimg[c]
                 THEN Goto(c, "recvInfo") /\ csum' = [csum EXCEPT ![c] = 0]
                 ELSE cpc' = cpc /\ csum' = [csum EXCEPT ![c] = @ + k]
      BY <2>6 DEF sendImg
    <3>2. k \in Nat /\ k <= cimg[c] - csum[c]
      BY <3>1, PartOf
    <3>3. cpc[c] = "sendImg" /\ UNCHANGED <<fileinfo, cimg, rep, img>> /\ csum[c] \in Nat /\ cimg[c] \in Nat
      BY <2>6 DEF sendImg
    <3>4. upSnd'[c] = HdrLen + csum[c] + k /\ UNCHANGED <<cSock, sSock, downRcv>>
      BY <3>1, <3>2, <3>3, TcpAssumption DEF Put
    <3>5. CASE csum[c] + k = cimg[c]
      BY <3>1, <3>2, <3>3, <3>4, <3>5, TcpAssumption, SMTT(20)
    <3>6. CASE csum[c] + k # cimg[c]
      <4>1. csum'[c] = csum[c] + k /\ cpc' = cpc
        BY <3>1, <3>6
      <4>2. csum[c] + k < cimg[c]
        BY ONLY <3>2, <3>3, <3>6
      <4>3. upSnd[c] <= upSnd'[c]
        BY <3>2, <3>3, <3>4, TcpAssumption
      <4>4. /\ file'[c] = file[c] /\ cimg'[c] = cimg[c] /\ cpc'[c] = "sendImg" /\ csum'[c] < file[c]
            /\ upSnd'[c] = HdrLen + csum'[c] /\ upRcv'[c] <= upSnd'[c]
        <5>1. cimg[c] = file[c] /\ upRcv[c] <= upSnd[c] /\ upRcv[c] \in Nat /\ upSnd[c] \in Nat
          BY <3>3
        <5>2. upSnd'[c] = HdrLen + csum'[c] /\ upSnd'[c] \in Nat
          BY ONLY <3>2, <3>3, <3>4, <4>1, TcpAssumption
        <5> QED
          BY ONLY <1>1, <1>3, <3>3, <4>1, <4>2, <4>3, <5>1, <5>2
      <4> QED
        BY <3>3, <3>4, <4>1, <4>4
    <3> QED
      BY <3>5, <3>6
  <2>7. CASE recvFileInfo(c)
    <3>1. downRcv[c] + HdrLen <= downSnd[c] /\ cpc[c] = "recvInfo" /\ csum[c] = 0
      BY <2>7, PartOf, TcpAssumption DEF recvFileInfo, DownReady
    <3>2. /\ downInfo[c] \in ResInfo /\ downInfo[c].size \in {0, file[c]}
      <4>1. downSnd[c] > 0
        BY <3>1, TcpAssumption
      <4> QED
        BY <4>1, RepliesFit
    <3>3. /\ downRcv'[c] = downRcv[c] + HdrLen /\ rep'[c] = downInfo[c] /\ cpc'[c] = "recvImg"
          /\ UNCHANGED <<cSock, sSock, upSnd, csum, fileinfo, img>>
      BY <2>7, TcpAssumption DEF recvFileInfo, Take
    <3>4. ~ (img[c] > 0)
      BY <3>1 DEF Reply, ClientStreams
    <3> QED
      BY <3>1, <3>2, <3>3, <3>4, TcpAssumption
  <2>8. CASE recvImg(c)
    <3>1. PICK k \in Chunk(rep[c].size - csum[c], DownReady(c)) :
            /\ Take(c, k)
            /\ IF csum[c] + k = rep[c].size
                 THEN /\ Goto(c, "imwrite")
                      /\ csum' = [csum EXCEPT ![c] = 0]
                      /\ img' = [img EXCEPT ![c] = rep[c].size]
                 ELSE /\ csum' = [csum EXCEPT ![c] = @ + k]
                      /\ UNCHANGED <<cpc, img>>
      BY <2>8 DEF recvImg
    <3>2. k \in Nat /\ k > 0 /\ k <= rep[c].size - csum[c] /\ downRcv[c] + k <= downSnd[c]
      BY <3>1, PartOf DEF DownReady
    <3>3. cpc[c] = "recvImg" /\ rep[c] # NoInfo /\ UNCHANGED <<fileinfo, cimg, rep>> /\ csum[c] \in Nat
      BY <2>8 DEF recvImg
    <3>4. downRcv'[c] = HdrLen + csum[c] + k /\ downRcv'[c] <= downSnd[c] /\ UNCHANGED <<cSock, sSock, upSnd>>
      BY <3>1, <3>2, <3>3, TcpAssumption DEF Take, ClientStreams
    <3>5. CASE csum[c] + k = rep[c].size
      BY <3>1, <3>2, <3>3, <3>4, <3>5, TcpAssumption
    <3>6. CASE csum[c] + k # rep[c].size
      <4>1. rep[c].size \in Int
        BY <3>3 DEF ResInfo
      <4>2. img[c] = 0
        <5>1. img[c] \in Nat /\ downSnd[c] \in Nat /\ downRcv[c] = HdrLen + csum[c] /\ HdrLen \in Nat
          BY <3>3, TcpAssumption DEF ClientStreams
        <5>2. downSnd[c] > HdrLen /\ downSnd[c] > 0
          BY ONLY <3>2, <3>3, <5>1
        <5>3. rep[c].size \in {0, fileinfo[c].size}
          BY <3>3, <5>2 DEF Reply
        <5>4. img[c] > 0 => img[c] = csum[c]
          BY <5>1, <3>3, TcpAssumption
        <5>5. img[c] > 0 => img[c] = fileinfo[c].size
          BY DEF Reply
        <5> QED
          BY ONLY <3>2, <3>3, <4>1, <5>1, <5>3, <5>4, <5>5
      <4>3. csum'[c] = csum[c] + k /\ cpc' = cpc /\ img' = img
        BY <3>1, <3>6
      <4>4. csum[c] + k < rep[c].size
        BY ONLY <3>2, <3>3, <3>6, <4>1
      <4> QED
        BY <3>3, <3>4, <4>2, <4>3, <4>4, TcpAssumption
    <3> QED
      BY <3>5, <3>6
  <2>9. CASE recvImgFails(c)
    <3>1. Empty(c)
      BY <2>9, ClientGoesOn
    <3> QED
      BY <2>9, <3>1 DEF recvImgFails
  <2>10. CASE saveImg(c) \/ saveImgCrashes(c)
    BY <2>10 DEF saveImg, saveImgCrashes, Exit
  <2>11. CASE Stall(c)
    BY <2>11 DEF Stall
  <2> QED
    BY <2>1, <2>2, <2>3, <2>4, <2>5, <2>6, <2>7, <2>8, <2>9, <2>10, <2>11, ClientGoesOn DEF main, Outside
<1> QED
  BY <1>4, <1>5, <1>6 DEF CalmState

-----------------------------------------------------------------------------
LEMMA StreamsGrow ==
  ASSUME IInv, Analyse, NEW d \in Clients
  PROVE  /\ upRcv[d] <= upSnd[d] => upRcv'[d] <= upSnd[d]
         /\ downRcv[d] <= downSnd[d] => downRcv[d] <= downSnd'[d]
<1> USE DEF IInv, Types, NetTypeOK, netVars
<1>1. CASE RecvFileInfo
  <2>1. HdrLen <= upSnd[cur] - upRcv[cur] /\ upRcv' = [upRcv EXCEPT ![cur] = @ + HdrLen] /\ downSnd' = downSnd
    BY <1>1, PartOf DEF RecvFileInfo, Received, UpReady
  <2> QED
    BY <2>1, TcpAssumption
<1>2. CASE RecvFileInfoPart \/ RecvFileInfoRest \/ RecvImg
  <2>1. PICK k : /\ k \in Nat /\ k <= upSnd[cur] - upRcv[cur]
                 /\ upRcv' = [upRcv EXCEPT ![cur] = @ + k] /\ downSnd' = downSnd
    BY <1>2, PartOf DEF RecvFileInfoPart, RecvFileInfoRest, RecvImg, Received, UpReady
  <2> QED
    BY <2>1
<1>3. CASE SendFileInfo
  <2>1. downSnd' = [downSnd EXCEPT ![cur] = @ + HdrLen] /\ upRcv' = upRcv
    BY <1>3 DEF SendFileInfo, Sent
  <2> QED
    BY <2>1, TcpAssumption
<1>4. CASE SendImg
  <2>1. PICK k : k \in Nat /\ downSnd' = [downSnd EXCEPT ![cur] = @ + k] /\ upRcv' = upRcv
    BY <1>4, PartOf DEF SendImg, Sent
  <2> QED
    BY <2>1
<1>5. CASE ~RecvFileInfo /\ ~RecvFileInfoPart /\ ~RecvFileInfoRest /\ ~RecvImg /\ ~SendFileInfo /\ ~SendImg
  <2>1. UNCHANGED <<upRcv, downSnd>>
    BY <1>5 DEF Analyse, LoadModel, InitServer, InitServerFails, Connect2Client, Connect2ClientFails,
       RecvFileInfoOverrun, RecvFileInfoFails, RecvImgFails, RecvImgCrashes, ReadLocalImage,
       Recognize, RecognizeCrashes, CreateInfo, CreateInfoCrashes, SendFileInfoFails, SendImgFails,
       WriteLocalImage, WriteLocalImageCrashes, FinishSession, CloseServer,
       DropSession, EndSession, Crash, Compute
  <2> QED
    BY <2>1
<1> QED
  BY <1>1, <1>2, <1>3, <1>4, <1>5

\* No session ends before the reply is there, unless recognition throws.
LEMMA ServerGoesOn ==
  ASSUME Undamaged, Usual, Calm, Fine, CalmState, Analyse, ~RecognizeCrashes, UNCHANGED clientVars
  PROVE  /\ ~RecvFileInfoFails /\ ~RecvImgFails /\ ~SendFileInfoFails /\ ~SendImgFails
         /\ ~RecvFileInfoOverrun /\ ~RecvImgCrashes
         /\ ~CreateInfoCrashes /\ ~WriteLocalImageCrashes /\ ~CloseServer
<1>1. srv' # "crashed"
  BY ServerStaysUp DEF Fine, Up
<1>2. /\ ~RecvFileInfoOverrun /\ ~RecvImgCrashes
      /\ ~CreateInfoCrashes /\ ~WriteLocalImageCrashes
  BY <1>1 DEF RecvFileInfoOverrun, RecvImgCrashes, CreateInfoCrashes, WriteLocalImageCrashes, Crash
<1>3. ~CloseServer
  BY DEF CloseServer, CalmState, CalmServer
<1>4. ASSUME srv \in Serving
      PROVE  /\ cur \in Clients /\ cur \in Prompt /\ sSock[cur] = "open" /\ cur \notin success
             /\ Request(cur) /\ Reply(cur) /\ CalmClient(cur)
  BY <1>4, ServingClient DEF Fine, IInv, Types, Sockets, Calm, CalmState, Letters
<1>5. ASSUME srv \in Serving, cSock[cur] = "closed"
      PROVE  img[cur] > 0 /\ rep[cur] # NoInfo /\ downSnd[cur] > 0 /\ img[cur] = file[cur]
             /\ fileinfo[cur] # NoInfo /\ cpc[cur] = "done"
  <2>1. cpc[cur] = "done"
    BY <1>4, <1>5 DEF CalmClient, Empty
  <2> QED
    BY <1>4, <1>5, <2>1, TcpAssumption DEF Reply, CalmClient
<1>6. srv \in {"recvInfo", "recvImg", "sendInfo"} => downSnd[cur] = 0
  BY DEF Fine, Streams, ServerStreams, Serving
<1>7. ~RecvFileInfoFails
  BY <1>4, <1>5, <1>6 DEF RecvFileInfoFails, UpEnds, Serving
<1>8. ~SendFileInfoFails
  BY <1>4, <1>5, <1>6 DEF SendFileInfoFails, Serving
<1>9. ~RecvImgFails
  <2> SUFFICES ASSUME RecvImgFails PROVE FALSE
    OBVIOUS
  <2>1. srv = "recvImg" /\ cSock[cur] # "closed"
    BY <1>5, <1>6 DEF RecvImgFails, Serving
  <2>2. recvInfo.size = 0 /\ sum < recvInfo.size /\ sum \in Nat
    BY <2>1 DEF RecvImgFails, UpEnds, CalmState, CalmServer, Fine, IInv, Types, ServerTypeOK
  <2> QED
    BY <2>2
<1>10. ~SendImgFails
  <2> SUFFICES ASSUME SendImgFails PROVE FALSE
    OBVIOUS
  <2>1. srv = "sendImg" /\ cSock[cur] = "closed" /\ srv \in Serving
    BY <1>4 DEF SendImgFails, Serving
  <2>2. downSnd[cur] = HdrLen + sum /\ sum < dst /\ sum \in Nat /\ dst \in Nat
    BY <2>1 DEF CalmState, CalmServer, Fine, Streams, ServerStreams, IInv, Types, ServerTypeOK
  <2>3. recvInfo = fileinfo[cur] /\ recvInfo.status # "local" /\ dst \in {0, recvInfo.size}
    BY <2>1 DEF Fine, Letters, Work, Serving
  <2>4. dst = file[cur]
    BY <1>4, <1>5, <2>1, <2>2, <2>3 DEF CalmClient
  <2>5. downRcv[cur] = HdrLen + file[cur] /\ downRcv[cur] <= downSnd[cur]
    BY <1>4, <1>5, <2>1 DEF CalmClient
  <2> QED
    BY <2>2, <2>4, <2>5, TcpAssumption
<1> QED
  BY <1>2, <1>3, <1>7, <1>8, <1>9, <1>10

\* A connection is closed when its request has been answered.
LEMMA ClosedAnswered ==
  ASSUME IInv, Analyse, NEW d \in Clients,
         ~RecvFileInfoFails, ~RecvImgFails, ~SendFileInfoFails, ~SendImgFails,
         ~RecvFileInfoOverrun, ~RecvImgCrashes, ~RecognizeCrashes,
         ~CreateInfoCrashes, ~WriteLocalImageCrashes, ~CloseServer
  PROVE  sSock'[d] = "closed" => sSock[d] = "closed" \/ d \in success'
<1> USE DEF IInv, Types, NetTypeOK, netVars
<1>1. CASE FinishSession
  BY <1>1 DEF FinishSession
<1>2. CASE Connect2Client
  BY <1>2 DEF Connect2Client
<1>3. CASE ~FinishSession /\ ~Connect2Client
  <2>1. sSock' = sSock
    BY <1>3 DEF Analyse, LoadModel, InitServer, InitServerFails, Connect2ClientFails,
       RecvFileInfo, RecvFileInfoPart, RecvFileInfoRest, RecvImg, Received,
       ReadLocalImage, Recognize, CreateInfo, SendFileInfo, SendImg, Sent, WriteLocalImage, Compute
  <2> QED
    BY <2>1
<1> QED
  BY <1>1, <1>2, <1>3

LEMMA ServerStepCalmServer ==
  ASSUME Undamaged, Usual, Calm, Fine, CalmState, Analyse, ~RecognizeCrashes, UNCHANGED clientVars
  PROVE  CalmServer'
<1>1. UNCHANGED <<upSnd, upInfo, file, fileinfo>>
  BY OtherSessions DEF Fine, clientVars
<1>2. srv \in Serving =>
        cur \in Clients /\ Request(cur) /\ CalmClient(cur) /\ UsualRequest(cur) /\ sSock[cur] = "open"
  BY ServingClient DEF Fine, IInv, Types, Sockets, Letters, CalmState, Up
<1>3. sum \in Nat /\ dst \in Nat
  BY DEF Fine, IInv, Types, ServerTypeOK
<1> USE <1>1 DEF CalmState, CalmServer, Serving, sessionVars
<1>4. CASE LoadModel
  BY <1>4, LoadStates
<1>5. CASE InitServer \/ InitServerFails \/ Connect2Client
  BY <1>5 DEF InitServer, InitServerFails, Connect2Client
<1>6. CASE Connect2ClientFails
  BY <1>6 DEF Connect2ClientFails, netVars, serverVars
<1>7. CASE RecvFileInfo
  <2>1. srv = "recvInfo" /\ sum = 0 /\ HdrLen <= upSnd[cur] - upRcv[cur] /\ UNCHANGED <<cur, sum>>
    BY <1>7, PartOf DEF RecvFileInfo, UpReady
  <2>2. upSnd[cur] > 0
    BY <1>2, <2>1, TcpAssumption DEF Fine, IInv, Types, NetTypeOK
  <2>3. upInfo[cur] = fileinfo[cur] /\ fileinfo[cur] # NoInfo
    BY <1>2, <2>1, <2>2, TcpAssumption DEF Request
  <2>4. fileinfo[cur].status # "local" /\ fileinfo[cur].size = file[cur] /\ file[cur] > 0
    BY <1>2, <2>1, <2>3 DEF UsualRequest, CalmClient
  <2>5. recvInfo' = upInfo[cur] /\ srv' = "recvImg"
    BY <1>7, <2>3, <2>4 DEF RecvFileInfo, AfterHeader
  <2> QED
    BY <2>1, <2>3, <2>4, <2>5
<1>8. CASE RecvFileInfoPart \/ RecvFileInfoRest
  BY <1>8 DEF RecvFileInfoPart, RecvFileInfoRest, Undamaged, Fine, Letters, Work
<1>9. CASE RecvImg
  <2>1. PICK k \in Chunk(recvInfo.size - sum, UpReady(cur)) :
            /\ Received(k)
            /\ IF sum + k = recvInfo.size
                 THEN srv' = "recognize" /\ image' = recvInfo.size /\ sum' = 0
                 ELSE srv' = srv /\ image' = image /\ sum' = sum + k
    BY <1>9 DEF RecvImg
  <2>2. k \in Nat /\ k <= recvInfo.size - sum
    BY <2>1, PartOf
  <2>3. srv = "recvImg" /\ UNCHANGED <<cur, recvInfo>>
    BY <1>9 DEF RecvImg
  <2>4. recvInfo.size = file[cur] /\ recvInfo.size \in Int
    <3>1. recvInfo \in FileInfo /\ recvInfo = fileinfo[cur]
      BY <2>3 DEF Fine, IInv, Types, HeadersKnown, Letters, Work
    <3> QED
      BY <1>2, <2>3, <3>1, TcpAssumption DEF CalmClient, FileInfo
  <2>5. upRcv'[cur] = HdrLen + sum + k
    BY <1>2, <1>3, <2>1, <2>2, <2>3, TcpAssumption
    DEF Received, Fine, Streams, ServerStreams, IInv, Types, NetTypeOK
  <2>6. CASE sum + k = recvInfo.size
    BY <1>3, <2>1, <2>2, <2>3, <2>4, <2>5, <2>6, TcpAssumption
  <2>7. CASE sum + k # recvInfo.size
    <3>1. srv' = srv /\ sum' = sum + k
      BY <2>1, <2>7
    <3>2. sum + k < recvInfo.size
      BY ONLY <1>3, <2>2, <2>4, <2>7
    <3> QED
      BY <2>3, <3>1, <3>2
  <2> QED
    BY <2>6, <2>7
<1>10. CASE ReadLocalImage \/ Recognize \/ CreateInfo \/ WriteLocalImage
  BY <1>10 DEF ReadLocalImage, Recognize, CreateInfo, WriteLocalImage, Compute, netVars
<1>11. CASE SendFileInfo
  <2>1. sum = 0 /\ srv = "sendInfo" /\ UNCHANGED <<cur, sum, dst, upRcv>>
    BY <1>11 DEF SendFileInfo, Sent, Fine, Streams, ServerStreams
  <2>2. /\ srv' \in {"imwrite", "finish", "sendImg"}
        /\ srv' = "sendImg" => sendInfo.ano_res # "empty"
    BY <1>11 DEF SendFileInfo
  <2>3. sendInfo.ano_res = "empty" <=> dst = 0
    BY <2>1 DEF Fine, Letters, Work
  <2> QED
    BY <1>3, <2>1, <2>2, <2>3
<1>12. CASE SendImg
  <2>1. PICK k \in Chunk(dst - sum, DownRoom(cur)) :
          Sent(k) /\ sum' = sum + k /\ srv' = IF sum' = dst THEN "finish" ELSE "sendImg"
    BY <1>12 DEF SendImg
  <2>2. k \in Nat /\ k <= dst - sum
    BY <2>1, PartOf
  <2>3. srv = "sendImg" /\ UNCHANGED <<cur, dst, upRcv>>
    BY <1>12, <2>1 DEF SendImg, Sent
  <2>4. sum' # dst => sum' < dst
    BY <1>3, <2>1, <2>2
  <2> QED
    BY <2>1, <2>3, <2>4
<1>13. CASE FinishSession
  <2>1. recvInfo.status # "local"
    <3>1. srv = "finish" /\ recvInfo = fileinfo[cur] /\ fileinfo[cur] # NoInfo
      BY <1>13, TcpAssumption DEF FinishSession, Fine, Letters, Work, IInv, Types, HeadersKnown
    <3> QED
      BY <1>2, <3>1 DEF UsualRequest
  <2> QED
    BY <1>13, <2>1 DEF FinishSession
<1> QED
  BY <1>4, <1>5, <1>6, <1>7, <1>8, <1>9, <1>10, <1>11, <1>12, <1>13, ServerGoesOn DEF Analyse

LEMMA ServerStepCalm ==
  ASSUME Undamaged, Usual, Calm, Fine, CalmState, Analyse, ~RecognizeCrashes, UNCHANGED clientVars
  PROVE  CalmState'
<1>1. /\ UNCHANGED <<cSock, upInfo, upSnd, downRcv, cpc, file, fileinfo, csum, cimg, rep, img>>
      /\ \A d \in Clients : d # cur => upRcv'[d] = upRcv[d] /\ downInfo'[d] = downInfo[d] /\ downSnd'[d] = downSnd[d]
  BY OtherSessions DEF Fine, clientVars
<1>2. ASSUME NEW d \in Clients PROVE CalmClient(d)'
  <2>1. CalmClient(d)
    BY DEF CalmState
  <2>2. upRcv'[d] <= upSnd[d] /\ downRcv[d] <= downSnd'[d]
    BY <2>1, StreamsGrow DEF CalmClient, Fine
  <2>3. sSock'[d] = "closed" => d \in success'
    BY <2>1, ServerGoesOn, ClosedAnswered, Successes DEF CalmClient, Fine
  <2>4. d \in success => d # cur /\ d \in success'
    BY Successes DEF Fine, IInv, Sockets, SocketsAccounted
  <2>5. d \in success' => upRcv'[d] = HdrLen + file[d]
    <3>1. CASE d \in success
      BY <1>1, <2>1, <2>4, <3>1 DEF CalmClient
    <3>2. CASE d \notin success /\ d \in success'
      <4>1. FinishSession /\ d = cur
        BY <3>2, Successes
      <4>2. upRcv' = upRcv /\ srv = "finish"
        BY <4>1 DEF FinishSession
      <4> QED
        BY <4>1, <4>2 DEF CalmState, CalmServer, Serving
    <3> QED
      BY <3>1, <3>2
  <2>6. Empty(d) => Empty(d)'
    BY <1>1, <2>4 DEF Empty
  <2> QED
    BY <1>1, <2>1, <2>2, <2>3, <2>5, <2>6 DEF CalmClient
<1> QED
  BY <1>2, ServerStepCalmServer DEF CalmState

LEMMA InductiveCalm ==
  ASSUME Undamaged, Usual, Calm
  PROVE  Spec => []((Fine /\ CalmState) \/ ThinCrash)
<1>1. Init => CalmState
  BY InitCalm
<1>2. Fine /\ ServerFlow /\ CalmState /\ [Next]_vars => CalmState' \/ ThinCrash'
  <2> SUFFICES ASSUME Fine, ServerFlow, CalmState, [Next]_vars PROVE CalmState' \/ ThinCrash'
    OBVIOUS
  <2>1. CASE ServerStep
    BY <2>1, ServerStepCalm, OnlyThinThrows DEF ServerStep, Fine
  <2>2. ASSUME NEW c \in Clients, ClientStep(c) \/ OutsideStep(c) PROVE CalmState'
    BY <2>2, ClientStepCalm DEF ClientStep, OutsideStep
  <2>3. CASE UNCHANGED vars
    BY <2>3 DEF vars, netVars, serverVars, sessionVars, clientVars, CalmState, CalmServer, CalmClient, Empty
  <2> QED
    BY <2>1, <2>2, <2>3 DEF Next, Over
<1>3. IInv /\ ThinCrash /\ [Next]_vars => ThinCrash'
  BY ThinCrashStays
<1>4. IInv /\ Streams /\ Letters /\ Up => Fine
  BY DEF Fine
<1>5. Flow => ServerFlow
  BY DEF Flow
<1> QED
  BY <1>1, <1>2, <1>3, <1>4, <1>5, InductiveUp, InductiveLetters, InductiveFlow, PTL DEF Spec

\* While the server is up, "imwrite" fails in a client, of all that could end
\* it, and only over a photograph that nothing was found in; and the server
\* goes down only over a picture that is too thin to resize.
THEOREM OnlyEmptyFails ==
  ASSUME Undamaged, Usual, Calm
  PROVE  Spec => []OnlyEmptyResultsFail
<1>1. CalmState \/ ThinCrash => OnlyEmptyResultsFail
  BY DEF CalmState, CalmClient, Empty, ThinCrash, ThinArrived, OnlyEmptyResultsFail
<1> QED
  BY <1>1, InductiveCalm, PTL

-----------------------------------------------------------------------------
\* Of a session, one process or the other may go on.
SessionsGoOn == srv \in Serving /\ cur \notin stalled => ServerMay \/ ClientMay(cur)

\* Then no two calls wait for each other: all the pixels that a header
\* announces come, and nobody sends more.
THEOREM NoSessionStops ==
  ASSUME Undamaged, Usual, Calm
  PROVE  Spec => []SessionsGoOn
<1>1. Fine /\ CalmState /\ srv \in Serving => ~MutualWait /\ ~MutualSend
  <2> SUFFICES ASSUME Fine, CalmState, srv \in Serving PROVE ~MutualWait /\ ~MutualSend
    OBVIOUS
  <2>1. cur \in Clients /\ sSock[cur] = "open"
    BY ServingClient DEF Fine, IInv, Types, Sockets
  <2>2. CalmClient(cur) /\ CalmServer
    BY <2>1 DEF CalmState
  <2>3. /\ upSnd[cur] \in Nat /\ upRcv[cur] \in Nat /\ csum[cur] \in Nat /\ file[cur] \in Nat
        /\ sum \in Nat /\ HdrLen \in Nat
    BY <2>1, TcpAssumption DEF Fine, IInv, Types, NetTypeOK, ClientTypeOK, ServerTypeOK
  <2>4. ASSUME MutualWait PROVE FALSE
    <3>1. srv = "recvImg" /\ upSnd[cur] - upRcv[cur] = 0 /\ cpc[cur] = "recvInfo"
      BY <2>4 DEF MutualWait, UpReady
    <3>2. upSnd[cur] = HdrLen + file[cur] /\ upRcv[cur] = HdrLen + sum /\ sum < recvInfo.size
      BY <2>2, <3>1 DEF CalmClient, CalmServer, Fine, Streams, ServerStreams
    <3>3. recvInfo.size = file[cur]
      <4>1. recvInfo = fileinfo[cur] /\ recvInfo \in FileInfo
        BY <3>1 DEF Fine, Letters, Work, IInv, Types, HeadersKnown, Serving
      <4> QED
        BY <2>2, <4>1, TcpAssumption DEF CalmClient
    <3> QED
      BY ONLY <2>3, <3>1, <3>2, <3>3
  <2>5. ASSUME MutualSend PROVE FALSE
    <3>1. upRcv[cur] = HdrLen + file[cur] /\ upSnd[cur] = HdrLen + csum[cur] /\ csum[cur] < file[cur]
          /\ upRcv[cur] <= upSnd[cur]
      BY <2>2, <2>5 DEF MutualSend, CalmClient, CalmServer, Serving
    <3> QED
      BY ONLY <2>3, <3>1
  <2> QED
    BY <2>4, <2>5
<1>2. OnlyMutualWaits /\ (srv \in Serving => ~MutualWait /\ ~MutualSend) => SessionsGoOn
  BY DEF OnlyMutualWaits, SessionsGoOn
<1>3. ThinCrash => SessionsGoOn
  BY DEF ThinCrash, SessionsGoOn, Serving
<1>4. Spec => []((Fine /\ CalmState) \/ ThinCrash)
  BY InductiveCalm
<1> QED
  BY <1>1, <1>2, <1>3, <1>4, OnlyMutualWaitsStop, PTL

=============================================================================
