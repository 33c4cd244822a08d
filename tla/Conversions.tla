----------------------------- MODULE Conversions -----------------------------
(***************************************************************************)
(* Four parts of the program that turn one piece of data into another and  *)
(* share nothing: the line of a log record (LogrRecord), a configuration   *)
(* file (LogrConfig), the header of a request and of its reply             *)
(* (HeaderFields) and the image a request is about (Yolov5).  A behaviour  *)
(* is one of one part, with any of its inputs; the others stand still at   *)
(* the beginning of theirs.                                                *)
(***************************************************************************)
EXTENDS LogrRecord

CONSTANTS
  Sections, MainSpellings, Texts, MaxLines,              \* of LogrConfig
  AnoLens, PathLens, StatusLens, ResLens, Detections,    \* of HeaderFields
  N, Sides, Labels, BoxCount                             \* of Yolov5

VARIABLES
  part,                                                  \* what is converted
  content, pos, key, outInfo,                            \* of LogrConfig
  asked, found, recvInfo, sendInfo, headerPc,            \* of HeaderFields
  anoType, img, things, box, output, res, dst, imagePc   \* of Yolov5

config == <<content, pos, key, outInfo>>
header == <<asked, found, recvInfo, sendInfo, headerPc>>
image == <<anoType, img, things, box, output, res, dst, imagePc>>

Config == INSTANCE LogrConfig
Header == INSTANCE HeaderFields WITH pc <- headerPc
Image == INSTANCE Yolov5 WITH pc <- imagePc

ASSUME ConversionAssumptions ==
  Config!ConfigAssumption /\ Header!HeaderAssumption /\ Image!YoloAssumption

-----------------------------------------------------------------------------
ConfigInit ==
  \/ part = "config" /\ Config!Init
  \/ part # "config" /\ content = <<>> /\ pos = 1 /\ key = "" /\ outInfo = <<>>

HeaderInit ==
  \/ part = "header" /\ Header!Init
  \/ /\ part # "header"
     /\ asked = <<>> /\ found = <<>> /\ recvInfo = <<>> /\ sendInfo = <<>>
     /\ headerPc = "preprocess"

ImageInit ==
  \/ part = "image" /\ Image!Init
  \/ /\ part # "image"
     /\ anoType = "GroundWater" /\ img = <<>>
     /\ things = <<>> /\ box = <<>> /\ output = <<>> /\ res = <<>> /\ dst = FALSE
     /\ imagePc = "recognize"

ConversionInit ==
  /\ part \in {"record", "config", "header", "image"}
  /\ Init /\ ConfigInit /\ HeaderInit /\ ImageInit

ConversionNext ==
  /\ UNCHANGED part
  /\ \/ part = "record" /\ Next /\ UNCHANGED <<config, header, image>>
     \/ part = "config" /\ Config!Next /\ UNCHANGED <<vars, header, image>>
     \/ part = "header" /\ Header!Next /\ UNCHANGED <<vars, config, image>>
     \/ part = "image" /\ Image!Next /\ UNCHANGED <<vars, config, header>>

ConversionSpec == ConversionInit /\ [][ConversionNext]_<<part, vars, config, header, image>>

-----------------------------------------------------------------------------
\* LogrConfig: each logger gets, for each attribute, what the last line under
\* a section of its name says.
SettingsAsSaid == part = "config" => Config!SettingsAsSaid

\* HeaderFields: the request arrives as it was written exactly when each of
\* its texts is shorter than its array.
RequestWhole == part = "header" => Header!RequestWhole

\* HeaderFields: so does the reply, when there is room for what CreateInfo
\* adds to the path, and for the labels.
ReplyWhole == part = "header" => Header!ReplyWhole

\* Yolov5: the network's input is filled exactly, whatever the image's sides.
FillsNetwork == part = "image" => Image!FillsNetwork

\* Yolov5: boxes come back to where the things are.
BoxesBack == part = "image" => Image!BoxesBack

\* Yolov5: each label is that of a prediction that was sure enough.
LabelsAreDetected == part = "image" => Image!LabelsAreDetected

=============================================================================
