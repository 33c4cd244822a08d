-------------------------------- MODULE Wire --------------------------------
(***************************************************************************)
(* What travels between AnoClient and AnoServer: a FileInfo header, then   *)
(* the pixels of an image whose length follows from the header.            *)
(*                                                                         *)
(* Lengths are counted in units, a unit standing for a run of bytes that   *)
(* TCP happens to deliver together.  A header is HdrLen units and an image *)
(* is img_rows * img_cols * img_channels bytes, of which the model keeps   *)
(* only the product: the field "size".                                     *)
(***************************************************************************)
EXTENDS Integers

CONSTANT JunkSizes   \* what an image size reads as in memory nobody wrote

ASSUME WireAssumption == JunkSizes \subseteq Int

AnoTypes == {"ForeignBody", "GroundWater", "FBGW", "Other"}

\* "local" asks the server to read and write the image on its own disk.
Statuses == {"ok", "local"}

\* "short" is a path of fewer than four characters, which CreateInfo cannot
\* cut an extension from.
Paths == {"named", "short"}

\* "8UC3" is the type every client announces; "junk" is what the field holds
\* when the end of a header was never written.
ImgTypes == {"8UC3", "junk"}

\* A request header, as both programs declare it.  A size read from memory
\* nobody wrote may be negative.
FileInfo == [ano_type : AnoTypes, status : Statuses, file_path : Paths,
             size : Int, img_type : ImgTypes]

\* A reply header: the fields the client goes on to use.
ResInfo == [ano_res : {"empty", "found"}, size : Int, img_type : ImgTypes]

-----------------------------------------------------------------------------
(***************************************************************************)
(* The recognisers known to the registry, filled before main by the only   *)
(* REGISTER_RECOGNITION of the program, ("FBGW", Yolov5).  A type that is  *)
(* registered already keeps its recogniser; a type that is not known has a *)
(* null pointer.                                                           *)
(***************************************************************************)
registerRecognition(registry, type, reg) ==
  [t \in DOMAIN registry \cup {type} |-> IF t \in DOMAIN registry THEN registry[t] ELSE reg]

Registry == registerRecognition(<<>>, "FBGW", "Yolov5")

RegistryKey(anoType) ==
  IF anoType \in {"ForeignBody", "GroundWater"} THEN "FBGW" ELSE anoType

getRecognize(key) == IF key \in DOMAIN Registry THEN Registry[key] ELSE "nullptr"

=============================================================================
