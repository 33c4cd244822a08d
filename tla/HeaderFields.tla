----------------------------- MODULE HeaderFields -----------------------------
(***************************************************************************)
(* The bytes of a FileInfo, filled by the client (preprocessFileInfo), and *)
(* filled again by the server for the reply (CreateInfo) from what it read *)
(* in the request and from the labels it detected.                         *)
(*                                                                         *)
(* Each text is copied into its array with its NUL and without a look at   *)
(* the array's length, one after the other, over memory nobody cleared: a  *)
(* text that is too long runs into the next fields, and which of the two   *)
(* survives depends on the order of the copies.                            *)
(***************************************************************************)
EXTENDS Integers, Sequences, SequencesExt

CONSTANTS
  AnoLens, PathLens, StatusLens, ResLens,   \* lengths of the client's four texts
  Detections                                \* what Detect finds: sequences of the lengths of labels

FILE_NAME_MAX_SIZE == 512

\* What the constants have to satisfy.  A client whose path is empty has no
\* image to ask about, and run_client writes "ok" and "none" for the others.
HeaderAssumption ==
  /\ PathLens \cup StatusLens \cup ResLens \subseteq Nat \ {0}
  /\ AnoLens \subseteq Nat
  /\ \A d \in Detections : d \in Seq(Nat \ {0})

VARIABLES
  asked,      \* the lengths of the texts of the request
  found,      \* the labels found in the image
  recvInfo,   \* the request, as it travels
  sendInfo,   \* the reply, as it travels
  pc          \* what is due

vars == <<asked, found, recvInfo, sendInfo, pc>>

-----------------------------------------------------------------------------
(***************************************************************************)
(* struct FileInfo: four arrays of characters and, on the next multiple of *)
(* four, four integers, of which the model has a byte each to tell them.   *)
(***************************************************************************)
AnoType == 0
Status == 50
FilePath == 100
AnoRes == FilePath + FILE_NAME_MAX_SIZE
Ints == AnoRes + 52
Total == Ints + 16

Cells == 0 .. Total - 1
NUL == <<"NUL", 0>>
Unset == <<"unset", 0>>

Fresh == [bytes |-> [i \in Cells |-> Unset], outside |-> FALSE]

\* The n characters of a text, each known by the text it belongs to.
Text(name, n) == [i \in 1 .. n |-> <<name, i>>]

\* strncpy(field, s, strlen(s)); field[strlen(s)] = '\0'
Copy(info, at, s) ==
  LET all == Append(s, NUL)
  IN  [bytes |-> [i \in Cells |-> IF i - at + 1 \in DOMAIN all THEN all[i - at + 1] ELSE info.bytes[i]],
       outside |-> info.outside \/ at + Len(all) > Total]

\* img_cols, img_rows, img_channels, img_type
SetInts(info, whose) ==
  [info EXCEPT !.bytes = [i \in Cells |-> IF i >= Ints THEN <<whose, i - Ints>> ELSE info.bytes[i]]]

IntsAre(info, whose) == \A i \in Ints .. Total - 1 : info.bytes[i] = <<whose, i - Ints>>

\* A char* into the struct, read as far as its first NUL.
CString(info, at) ==
  LET ends == {i \in at .. Total - 1 : info.bytes[i] = NUL}
      end == IF ends = {} THEN Total ELSE CHOOSE i \in ends : \A j \in ends : i <= j
  IN  [i \in 1 .. end - at |-> info.bytes[at + i - 1]]

-----------------------------------------------------------------------------
Init ==
  /\ asked \in [ano : AnoLens, path : PathLens, status : StatusLens, res : ResLens]
  /\ found = <<>>
  /\ recvInfo = Fresh /\ sendInfo = Fresh
  /\ pc = "preprocess"

\* Faulty variant: the path is copied last.
preprocessFileInfoPathLast ==
  /\ pc = "preprocess"
  /\ LET ano == Copy(SetInts(Fresh, "request"), AnoType, Text("ano", asked.ano))
         status == Copy(ano, Status, Text("status", asked.status))
         res == Copy(status, AnoRes, Text("res", asked.res))
     IN  recvInfo' = Copy(res, FilePath, Text("path", asked.path))
  /\ pc' = "recognize"
  /\ UNCHANGED <<asked, found, sendInfo>>

preprocessFileInfo ==
  /\ pc = "preprocess"
  /\ LET path == Copy(SetInts(Fresh, "request"), FilePath, Text("path", asked.path))
         ano == Copy(path, AnoType, Text("ano", asked.ano))
         status == Copy(ano, Status, Text("status", asked.status))
     IN  recvInfo' = Copy(status, AnoRes, Text("res", asked.res))
  /\ pc' = "recognize"
  /\ UNCHANGED <<asked, found, sendInfo>>

\* Recognize, through Detect.
Recognize ==
  /\ pc = "recognize"
  /\ found' \in Detections
  /\ pc' = "createInfo"
  /\ UNCHANGED <<asked, recvInfo, sendInfo>>

\* detectres: each label and a comma, but for the last; "empty" without labels.
Label(k) == [i \in 1 .. found[k] |-> <<"label", 20 * k + i>>]
Comma == <<"comma", 0>>
Joined == [k \in 1 .. Len(found) |-> IF k = Len(found) THEN Label(k) ELSE Append(Label(k), Comma)]
DetectRes == IF found = <<>> THEN Text("empty", 5) ELSE FlattenSeq(Joined)

Extension == Text("_result.jpg", 11)

\* Faulty variant: the extension is not cut off.
ResultPathKeepsExtension(path) == path \o Extension

\* The path without its last four characters, whatever they are.
ResultPath(path) == SubSeq(path, 1, Len(path) - 4) \o Extension

CreateInfo ==
  /\ pc = "createInfo"
  /\ Len(CString(recvInfo, FilePath)) >= 4
  /\ LET ano == Copy(SetInts(Fresh, "reply"), AnoType, CString(recvInfo, AnoType))
         path == Copy(ano, FilePath, ResultPath(CString(recvInfo, FilePath)))
         status == Copy(path, Status, Text("sendRes", 7))
     IN  sendInfo' = Copy(status, AnoRes, DetectRes)
  /\ pc' = "sent"
  /\ UNCHANGED <<asked, found, recvInfo>>

\* replace(strlen - 4, ...) throws std::out_of_range, which nothing catches.
CreateInfoThrows ==
  /\ pc = "createInfo"
  /\ Len(CString(recvInfo, FilePath)) < 4
  /\ pc' = "crashed"
  /\ UNCHANGED <<asked, found, recvInfo, sendInfo>>

Over == pc \in {"sent", "crashed"} /\ UNCHANGED vars

Next == preprocessFileInfo \/ Recognize \/ CreateInfo \/ CreateInfoThrows \/ Over

Spec == Init /\ [][Next]_vars

-----------------------------------------------------------------------------
\* What the server reads in the request is what the client wrote.
RequestReadsBack ==
  /\ ~recvInfo.outside /\ IntsAre(recvInfo, "request")
  /\ CString(recvInfo, AnoType) = Text("ano", asked.ano)
  /\ CString(recvInfo, Status) = Text("status", asked.status)
  /\ CString(recvInfo, FilePath) = Text("path", asked.path)

\* What the client reads in the reply is what the server wrote.
ReplyReadsBack ==
  /\ ~sendInfo.outside /\ IntsAre(sendInfo, "reply")
  /\ CString(sendInfo, AnoType) = Text("ano", asked.ano)
  /\ CString(sendInfo, Status) = Text("sendRes", 7)
  /\ CString(sendInfo, FilePath) = SubSeq(Text("path", asked.path), 1, asked.path - 4) \o Extension
  /\ CString(sendInfo, AnoRes) = DetectRes

RequestFits == asked.ano < 50 /\ asked.status < 50 /\ asked.path < 512 /\ asked.res < 52

(***************************************************************************)
(* The client's copies leave a request that reads back exactly when each   *)
(* text is shorter than its array; the text of ano_res may take the two    *)
(* bytes of padding behind it.                                             *)
(***************************************************************************)
RequestWhole == pc # "preprocess" => (RequestReadsBack <=> RequestFits)

(***************************************************************************)
(* After a request that fits, the reply reads back exactly when the path   *)
(* left room for the seven characters CreateInfo adds, and the labels for  *)
(* their commas: 51 bytes, three of the longest labels.  The number of     *)
(* detections is not limited anywhere, so a picture with many objects is   *)
(* enough to lose img_cols and img_rows, which the client sizes its        *)
(* buffer by.                                                              *)
(***************************************************************************)
ReplyWhole ==
  pc = "sent" /\ RequestFits =>
    (ReplyReadsBack <=> asked.path + 7 < FILE_NAME_MAX_SIZE /\ Len(DetectRes) < 52)

=============================================================================
