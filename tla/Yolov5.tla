-------------------------------- MODULE Yolov5 --------------------------------
(***************************************************************************)
(* Recognition of an image: preprocess brings it to the size of the        *)
(* network (a letterbox), trtProcess runs the network, Detect keeps the    *)
(* predictions that are sure enough and takes their boxes back to the      *)
(* image, NMSBoxes drops the overlapping ones, drawPred draws the rest.    *)
(*                                                                         *)
(* Lengths are pixels.  The floats are rationals here, each computed       *)
(* exactly up to its conversion to int, where one that is a whole number   *)
(* may as well have come out just below it.  What the network predicts for *)
(* a thing in the image is the place the letterbox put that thing at.      *)
(***************************************************************************)
EXTENDS Integers, Sequences, FiniteSets, SequencesExt

CONSTANTS
  N,           \* width and height of the network's input (640)
  Sides,       \* widths and heights of images
  Labels,      \* className_jsls
  BoxCount     \* predictions of the network (25200)

\* What the constants have to satisfy.  cvtColor lets no empty image through
\* (AnoServer).
YoloAssumption ==
  /\ N \in Nat \ {0} /\ Sides \subseteq Nat \ {0} /\ BoxCount \in Nat
  /\ "empty" \notin Labels

VARIABLES
  anoType,     \* the Ano_type of the request
  img,         \* the image: its width and height
  things,      \* the predictions, each with the part of the image it is about
  box,         \* the letterbox: the resized image and the borders, dw and dh in halves
  output,      \* what Detect returns
  res, dst,    \* what Recognize returns: the label list, and whether dst is an image
  pc

vars == <<anoType, img, things, box, output, res, dst, pc>>

-----------------------------------------------------------------------------
\* round(a / b), halves away from zero, for a >= 0.
Round(a, b) == (2 * a + b) \div (2 * b)

\* (int)(a / b), b > 0, of a float.
Truncate(a, b) ==
  LET whole == IF a >= 0 THEN a \div b ELSE -((-a) \div b)
      below == IF a > 0 THEN whole - 1 ELSE IF a < 0 THEN whole + 1 ELSE whole
  IN  IF a % b = 0 THEN {whole, below} ELSE {whole}

\* r = N / Longer
Longer(i) == IF i.width > i.height THEN i.width ELSE i.height

Crash == pc' = "crashed"

-----------------------------------------------------------------------------
Corners(length) == {0, length \div 2, length - 1}

Scores == [obj : 0 .. 2, conf : 0 .. 2, best : Labels]

\* obj is the first factor of conf, the other being at most 1.
Threshold == 1
Predictions == [1 .. BoxCount -> {s \in Scores : s.conf <= s.obj}]

Init ==
  /\ anoType \in {"ForeignBody", "GroundWater", "FBGW"}
  /\ img \in [width : Sides, height : Sides]
  /\ things = <<>> /\ box = <<>> /\ output = <<>>
  /\ res = <<>> /\ dst = FALSE
  /\ pc = "recognize"

\* Recognize: "FBGW" leaves taskType as it was in memory.
TaskTypes(t) == CASE t = "ForeignBody" -> {0} [] t = "GroundWater" -> {1} [] OTHER -> {0, 1, 2}

\* Task 0 runs on the engine that is no longer loaded; another task than the
\* two has no predictions to look at.
Recognize ==
  /\ pc = "recognize"
  /\ \E task \in TaskTypes(anoType) :
       \/ task = 1 /\ pc' = "preprocess"
       \/ task = 0 /\ Crash
       \/ task = 2 /\ pc' = "detected"
  /\ UNCHANGED <<anoType, img, things, box, output, res, dst>>

Unpad(length) == Round(N * length, Longer(img))

\* Faulty variant: both borders are round(d).
LetterboxEven(length) ==
  LET unpad == Unpad(length)
      half == N - unpad
  IN  [unpad |-> unpad, d |-> half, before |-> Round(half, 2), after |-> Round(half, 2)]

\* One side of the image: d is dw or dh in halves; round(d - 0.1), round(d + 0.1).
Letterbox(length) ==
  LET unpad == Unpad(length)
      half == N - unpad
  IN  [unpad |-> unpad, d |-> half, before |-> half \div 2, after |-> (half + 1) \div 2]

\* cv::resize to a size of zero throws.
preprocessThrows ==
  /\ pc = "preprocess"
  /\ Unpad(img.width) = 0 \/ Unpad(img.height) = 0
  /\ Crash
  /\ UNCHANGED <<anoType, img, things, box, output, res, dst>>

preprocess ==
  /\ pc = "preprocess"
  /\ Unpad(img.width) > 0 /\ Unpad(img.height) > 0
  /\ box' = [width |-> Letterbox(img.width), height |-> Letterbox(img.height)]
  /\ pc' = "trtProcess"
  /\ UNCHANGED <<anoType, img, things, output, res, dst>>

\* The network has an opinion on BoxCount places, all of them, to keep the
\* state space small, with their corner at the same place.
trtProcess ==
  /\ pc = "trtProcess"
  /\ \E p \in Predictions, x \in Corners(img.width), y \in Corners(img.height) :
       things' = [i \in 1 .. BoxCount |->
                    [score |-> p[i], x |-> x, y |-> y,
                     width |-> img.width - x, height |-> img.height - y]]
  /\ pc' = "detect"
  /\ UNCHANGED <<anoType, img, box, output, res, dst>>

-----------------------------------------------------------------------------
(***************************************************************************)
(* (network position - d) / r, where the letterbox put the pixel x of a    *)
(* side at x * unpad / length + before.  In halves of a network pixel:     *)
(***************************************************************************)
\* Faulty variant: the border is not taken off.
BackNoBorder(side, length, x) ==
  Truncate((2 * x * side.unpad + 2 * side.before * length) * Longer(img), 2 * length * N)

Back(side, length, x) ==
  Truncate((2 * x * side.unpad + (2 * side.before - side.d) * length) * Longer(img), 2 * length * N)

BackLength(side, length, n) == Truncate(n * side.unpad * Longer(img), length * N)

BoxRects(t) ==
  [x : Back(box.width, img.width, t.x), y : Back(box.height, img.height, t.y),
   width : BackLength(box.width, img.width, t.width),
   height : BackLength(box.height, img.height, t.height)]

SureEnough(score) == score.obj > Threshold /\ score.conf >= Threshold

\* The predictions Detect makes candidates for NMSBoxes, by their number.
Candidates ==
  LET among[n \in 0 .. BoxCount] ==
        IF n = 0 THEN <<>>
        ELSE IF SureEnough(things[n].score) THEN Append(among[n - 1], n)
        ELSE among[n - 1]
  IN  among[BoxCount]

\* NMSBoxes drops any that is not above the threshold, or that overlaps a
\* better one; the rest come best first.
Kept(c) ==
  LET sure == {k \in DOMAIN c : things[c[k]].score.conf > Threshold}
  IN  {s \in UNION {SetToSeqs(K) : K \in SUBSET sure} :
         /\ sure # {} => s # <<>>
         /\ \A k \in 2 .. Len(s) : things[c[s[k - 1]]].score.conf >= things[c[s[k]]].score.conf}

\* Faulty variant: classIds[i], not classIds[idx].
DetectByRank ==
  /\ pc = "detect"
  /\ \E nms \in Kept(Candidates) :
       \E rects \in [1 .. Len(nms) -> UNION {BoxRects(things[i]) : i \in 1 .. BoxCount}] :
         /\ \A k \in 1 .. Len(nms) : rects[k] \in BoxRects(things[Candidates[nms[k]]])
         /\ output' = [k \in 1 .. Len(nms) |->
              [id |-> things[Candidates[k]].score.best, from |-> Candidates[nms[k]], box |-> rects[k]]]
  /\ pc' = "detected"
  /\ UNCHANGED <<anoType, img, things, box, res, dst>>

\* "from" is a history: which prediction the output was.
Detect ==
  /\ pc = "detect"
  /\ \E nms \in Kept(Candidates) :
       \E rects \in [1 .. Len(nms) -> UNION {BoxRects(things[i]) : i \in 1 .. BoxCount}] :
         /\ \A k \in 1 .. Len(nms) : rects[k] \in BoxRects(things[Candidates[nms[k]]])
         /\ output' = [k \in 1 .. Len(nms) |->
              [id |-> things[Candidates[nms[k]]].score.best, from |-> Candidates[nms[k]], box |-> rects[k]]]
  /\ pc' = "detected"
  /\ UNCHANGED <<anoType, img, things, box, res, dst>>

\* Something found: its labels, in order, and the image with the boxes.
drawPred ==
  /\ pc = "detected" /\ output # <<>>
  /\ res' = [k \in 1 .. Len(output) |-> output[k].id]
  /\ dst' = TRUE
  /\ pc' = "done"
  /\ UNCHANGED <<anoType, img, things, box, output>>

nothingFound ==
  /\ pc = "detected" /\ output = <<>>
  /\ res' = <<"empty">>
  /\ pc' = "done"
  /\ UNCHANGED <<anoType, img, things, box, output, dst>>

Over == pc \in {"done", "crashed"} /\ UNCHANGED vars

Next ==
  \/ Recognize \/ preprocess \/ preprocessThrows \/ trtProcess
  \/ Detect \/ drawPred \/ nothingFound \/ Over

Spec == Init /\ [][Next]_vars

-----------------------------------------------------------------------------
(***************************************************************************)
(* Whatever the sides of the image, the resized image and its two borders  *)
(* are exactly as wide and as high as the network's input, which           *)
(* trtProcess copies without looking at the size of what it is given; and  *)
(* the only images that are refused are those with a side that the         *)
(* resizing leaves less than half a pixel of.                              *)
(***************************************************************************)
FillsNetwork ==
  /\ box # <<>> => \A s \in {box.width, box.height} :
                     s.before + s.unpad + s.after = N /\ s.unpad > 0
  /\ pc = "crashed" /\ anoType = "GroundWater" =>
       \E side \in {img.width, img.height} : 2 * N * side < Longer(img)

Distance(a, b) == IF a > b THEN a - b ELSE b - a

(***************************************************************************)
(* The box of a detection is, back in the image, where the thing is: off   *)
(* by at most the pixel that the conversion to int cuts off and one pixel  *)
(* of the network, although the image was put half a pixel beside dw, dh   *)
(* and resized by another factor than r.                                   *)
(***************************************************************************)
Near(a, b) == N * (Distance(a, b) - 1) <= Longer(img)

BoxesBack ==
  \A k \in DOMAIN output :
    LET t == things[output[k].from]
        b == output[k].box
    IN  Near(b.x, t.x) /\ Near(b.y, t.y) /\ Near(b.width, t.width) /\ Near(b.height, t.height)

(***************************************************************************)
(* Each label in the reply is that of a prediction that was sure enough,   *)
(* through three lists that are indexed by each other (class_score, the    *)
(* candidates, nms_result); and a reply that names a label is the one with *)
(* an image.                                                               *)
(***************************************************************************)
LabelsAreDetected ==
  pc = "done" =>
    /\ dst <=> res # <<"empty">>
    /\ dst => /\ Len(res) = Len(output)
              /\ \A k \in DOMAIN res :
                   /\ res[k] = things[output[k].from].score.best
                   /\ things[output[k].from].score.conf > Threshold
              /\ IsInjective([k \in DOMAIN output |-> output[k].from])
    /\ ~dst => \A i \in DOMAIN things : things[i].score.conf <= Threshold

=============================================================================
