--------------------------- MODULE ConversionProofs ---------------------------
(***************************************************************************)
(* Theorems about Conversions, for any image, any labels, any texts and    *)
(* any configuration file.                                                 *)
(*                                                                         *)
(*   Yolov5         the letterbox is integer arithmetic with roundings,    *)
(*                  whose errors are bounded; the candidates are counted   *)
(*                  one prediction after the other.                        *)
(*   LogrConfig     after each line, the settings are what the lines as    *)
(*                  far as this one say, and key is that of their last     *)
(*                  section.                                               *)
(*   HeaderFields   what is in each byte after four copies one over the    *)
(*                  other, and what can be read where.                     *)
(***************************************************************************)
EXTENDS Conversions, FiniteSetTheorems, SequenceTheorems, WellFoundedInduction, TLAPS

-----------------------------------------------------------------------------
(***************************************************************************)
(* Induction on the natural numbers, as a statement about sets: the        *)
(* library's theorem that a well-founded relation has minimal elements.    *)
(***************************************************************************)
LEMMA LeastNumber ==
  ASSUME NEW S \in SUBSET Nat, S # {}
  PROVE  \E n \in S : \A m \in S : n <= m
<1> DEFINE R == {ss \in Nat \X Nat : ss[1] < ss[2]}
<1>1. IsWellFoundedOn(R, Nat)
  BY NatLessThanWellFounded DEF OpToRel
<1>2. PICK n \in S : \A m \in S : ~ (<<m, n>> \in R)
  BY <1>1, WFMin
<1>3. \A m \in S : ~ (m < n)
  BY <1>2
<1> QED
  BY <1>3

LEMMA InductionOnNat ==
  ASSUME NEW S, 0 \in S, \A n \in Nat : n \in S => n + 1 \in S
  PROVE  \A n \in Nat : n \in S
<1> SUFFICES ASSUME Nat \ S # {} PROVE FALSE
  OBVIOUS
<1>1. PICK n \in Nat \ S : \A m \in Nat \ S : n <= m
  BY LeastNumber
<1>2. n # 0 /\ n - 1 \in Nat /\ n - 1 \in S
  BY <1>1
<1> QED
  BY <1>1, <1>2

-----------------------------------------------------------------------------
(***************************************************************************)
(* Yolov5: the arithmetic of the letterbox.                                *)
(***************************************************************************)
LEMMA Division ==
  ASSUME NEW a \in Int, NEW b \in Nat \ {0}
  PROVE  /\ a \div b \in Int /\ (a % b) \in 0 .. b - 1
         /\ a = b * (a \div b) + (a % b)
         /\ b * (a \div b) <= a /\ a < b * (a \div b) + b
OBVIOUS

\* A positive factor can be taken out of an inequality, and put in.
LEMMA Factor ==
  ASSUME NEW x \in Int, NEW y \in Int, NEW k \in Nat \ {0}
  PROVE  x <= y <=> k * x <= k * y
OBVIOUS

\* The conversion to int is off by at most 1.
LEMMA Truncated ==
  ASSUME NEW a \in Int, NEW b \in Nat \ {0}, NEW t \in Image!Truncate(a, b)
  PROVE  t \in Int /\ b * t - a <= b /\ a - b * t <= b
<1> DEFINE p == a \div b
           m == (-a) \div b
<1>1. p \in Int /\ b * p <= a /\ a < b * p + b
  BY Division
<1>2. m \in Int /\ b * m <= -a /\ -a < b * m + b
  BY Division
<1>3. a % b = 0 => a = b * p
  BY Division
<1>4. a % b = 0 => -a = b * m
  <2> HIDE DEF p, m
  <2>1. SUFFICES ASSUME a % b = 0 PROVE -a = b * m
    OBVIOUS
  <2>2. -a = b * (-p) /\ -p \in Int /\ b * m + b = b * (m + 1)
    BY <1>1, <1>2, <1>3, <2>1
  <2>3. -p >= m + 1 => b * (-p) >= b * (m + 1)
    BY <1>2, <2>2, Factor
  <2>4. -p <= m - 1 => b * (-p) <= b * (m - 1)
    BY <1>2, <2>2, Factor
  <2>5. b * (m - 1) = b * m - b
    BY <1>2
  <2>6. -p = m
    BY <1>2, <2>2, <2>3, <2>4, <2>5
  <2> QED
    BY <2>2, <2>6
<1>5. (b * (p - 1) = b * p - b) /\ (b * (-m) = -(b * m)) /\ b * (-m + 1) = -(b * m) + b
  BY <1>1, <1>2
<1>6. \/ a >= 0 /\ t = p
      \/ a < 0 /\ t = -m
      \/ a % b = 0 /\ a > 0 /\ t = p - 1
      \/ a % b = 0 /\ a < 0 /\ t = -m + 1
  BY DEF Image!Truncate
<1> HIDE DEF p, m
<1> QED
  BY <1>1, <1>2, <1>3, <1>4, <1>5, <1>6

\* Rounding is off by at most a half.
LEMMA Rounded ==
  ASSUME NEW a \in Nat, NEW b \in Nat \ {0}
  PROVE  LET u == Image!Round(a, b)
         IN  u \in Nat /\ 2 * b * u - 2 * a <= b /\ 2 * a - 2 * b * u < b
<1> DEFINE u == Image!Round(a, b)
           d == 2 * b
           n == 2 * a + b
<1>1. d \in Nat \ {0} /\ n \in Nat
  OBVIOUS
<1>2. u = n \div d
  BY DEF Image!Round
<1> HIDE DEF u, d, n
<1>3. u \in Int /\ d * u <= n /\ n < d * u + d
  BY <1>1, <1>2, Division
<1>4. u >= 0
  <2>1. CASE u <= -1
    <3>1. d * u <= d * (-1)
      BY <1>1, <1>3, <2>1, Factor
    <3> QED
      BY <1>1, <1>3, <3>1
  <2> QED
    BY <1>3, <2>1
<1> QED
  BY <1>3, <1>4 DEF u, d, n

\* The longer side of an image.
LEMMA LongerSide ==
  ASSUME NEW i \in [width : Sides, height : Sides]
  PROVE  /\ i.width \in Nat \ {0} /\ i.height \in Nat \ {0}
         /\ Image!Longer(i) \in Nat \ {0}
         /\ i.width <= Image!Longer(i) /\ i.height <= Image!Longer(i)
         /\ N \in Nat \ {0}
<1>1. i.width \in Sides /\ i.height \in Sides
  OBVIOUS
<1>2. Sides \subseteq Nat \ {0} /\ N \in Nat \ {0}
  BY ConversionAssumptions DEF Image!YoloAssumption
<1>3. i.width \in Nat \ {0} /\ i.height \in Nat \ {0}
  BY <1>1, <1>2
<1> QED
  BY <1>2, <1>3 DEF Image!Longer

\* The border before and the border after are what is left of the side.
LEMMA Borders ==
  ASSUME NEW h \in Int
  PROVE  /\ h \div 2 \in Int /\ (h + 1) \div 2 \in Int
         /\ (h \div 2) + ((h + 1) \div 2) = h
         /\ 2 * (h \div 2) - h \in {0, -1}
OBVIOUS

\* One side of the letterbox, of an image whose longer side is longer.
LEMMA SideFits ==
  ASSUME img \in [width : Sides, height : Sides], NEW length \in {img.width, img.height}
  PROVE  LET s == Image!Letterbox(length)
             longer == Image!Longer(img)
         IN  /\ s.unpad = Image!Unpad(length) /\ s.unpad \in Nat
             /\ s.before + s.unpad + s.after = N
             /\ s.before \in Int /\ s.d \in Int /\ s.d = N - s.unpad
             /\ 2 * s.before - s.d \in {0, -1}
             /\ 2 * longer * s.unpad - 2 * (N * length) <= longer
             /\ 2 * (N * length) - 2 * longer * s.unpad < longer
<1> DEFINE longer == Image!Longer(img)
           u == Image!Unpad(length)
           h == N - u
           s == Image!Letterbox(length)
<1>1. length \in Nat \ {0} /\ longer \in Nat \ {0} /\ N \in Nat \ {0}
  BY LongerSide
<1>2. N * length \in Nat /\ u = Image!Round(N * length, longer)
  BY <1>1 DEF Image!Unpad
<1>3. u \in Nat /\ 2 * longer * u - 2 * (N * length) <= longer /\ 2 * (N * length) - 2 * longer * u < longer
  BY <1>1, <1>2, Rounded
<1>4. s.unpad = u /\ s.d = h /\ s.before = h \div 2 /\ s.after = (h + 1) \div 2
  BY DEF Image!Letterbox
<1> HIDE DEF u, s
<1>5. h \in Int
  BY <1>1, <1>3
<1> HIDE DEF h
<1>6. /\ h \div 2 \in Int /\ (h + 1) \div 2 \in Int /\ (h \div 2) + ((h + 1) \div 2) = h
      /\ 2 * (h \div 2) - h \in {0, -1}
  BY <1>5, Borders
<1>7. s.before + s.unpad + s.after = N
  BY <1>1, <1>3, <1>4, <1>5, <1>6 DEF h
<1> QED
  BY <1>1, <1>3, <1>4, <1>5, <1>6, <1>7 DEF u, s, h

\* A side that nothing is left of.
LEMMA SideVanishes ==
  ASSUME img \in [width : Sides, height : Sides], NEW length \in {img.width, img.height},
         Image!Unpad(length) = 0
  PROVE  2 * N * length < Image!Longer(img)
<1>1. 2 * (N * length) - 2 * Image!Longer(img) * 0 < Image!Longer(img)
  BY SideFits
<1> QED
  BY <1>1, LongerSide

\* What is off by as much as the conversion to int and the resizing are, in
\* units of 1 / (k * N), is near.
LEMMA NearEnough ==
  ASSUME img \in [width : Sides, height : Sides],
         NEW k \in Nat \ {0}, NEW b \in Int, NEW x \in Int, NEW a \in Int,
         (k * N) * b - a <= k * N, a - (k * N) * b <= k * N,
         a - (k * N) * x <= k * Image!Longer(img), (k * N) * x - a <= k * Image!Longer(img)
  PROVE  Image!Near(b, x)
<1> DEFINE longer == Image!Longer(img)
           d == Image!Distance(b, x)
           c == k * N
           cb == c * b
           cx == c * x
           kl == k * longer
<1>1. longer \in Nat \ {0} /\ N \in Nat \ {0}
  BY LongerSide
<1>2. d \in Int /\ (d = b - x \/ d = x - b)
  BY DEF Image!Distance
<1> HIDE DEF longer, d
<1>3. c \in Int /\ cb \in Int /\ cx \in Int /\ kl \in Int
  BY <1>1
<1>4. cb - a <= c /\ a - cb <= c /\ a - cx <= kl /\ cx - a <= kl
  BY DEF longer
<1>5. c * (b - x) = cb - cx /\ c * (x - b) = cx - cb
  BY <1>3
<1>6. k * (N * (d - 1)) = c * d - c
  BY <1>1, <1>2
<1> HIDE DEF c, cb, cx, kl
<1>7. cb - cx <= c + kl /\ cx - cb <= c + kl
  BY <1>3, <1>4
<1>8. c * d <= c + kl
  BY <1>2, <1>5, <1>7
<1>9. c * d \in Int
  BY <1>2, <1>3
<1>10. k * (N * (d - 1)) <= k * longer
  BY <1>3, <1>6, <1>8, <1>9 DEF kl
<1>11. N * (d - 1) \in Int
  BY <1>1, <1>2
<1>12. N * (d - 1) <= longer
  BY <1>1, <1>10, <1>11, Factor
<1> QED
  BY <1>12 DEF Image!Near, longer, d

\* x times the difference of the two factors is at most length * longer.
LEMMA Scaled ==
  ASSUME img \in [width : Sides, height : Sides], NEW length \in {img.width, img.height},
         NEW x \in 0 .. length
  PROVE  LET u == Image!Unpad(length)
             longer == Image!Longer(img)
         IN  /\ 2 * (x * u * longer) - 2 * (x * (N * length)) <= length * longer
             /\ 2 * (x * (N * length)) - 2 * (x * u * longer) <= length * longer
<1> DEFINE u == Image!Unpad(length)
           longer == Image!Longer(img)
           e == 2 * longer * u - 2 * (N * length)
<1>1. length \in Nat \ {0} /\ longer \in Nat \ {0} /\ N \in Nat \ {0}
  BY LongerSide
<1>2. u \in Nat /\ e <= longer /\ -e <= longer
  BY SideFits, <1>1
<1>3. e \in Int /\ x \in Nat /\ x <= length
  BY <1>1, <1>2
<1>4. x * e = 2 * (x * u * longer) - 2 * (x * (N * length))
  BY <1>1, <1>2, <1>3
<1> HIDE DEF u, longer, e
<1>5. x * e <= x * longer /\ x * (-e) <= x * longer
  <2>1. CASE x = 0
    BY <1>1, <1>3, <2>1
  <2>2. CASE x # 0
    BY <1>1, <1>2, <1>3, <2>2, Factor
  <2> QED
    BY <2>1, <2>2
<1>6. x * longer <= length * longer
  <2>1. longer * x <= longer * length
    BY <1>1, <1>3, Factor
  <2> QED
    BY <1>1, <1>3, <2>1
<1>7. x * (-e) = -(x * e)
  BY <1>3
<1> QED
  BY <1>1, <1>2, <1>3, <1>4, <1>5, <1>6, <1>7 DEF u, longer

\* The corner of a box comes back to where it was.
LEMMA PlaceComesBack ==
  ASSUME img \in [width : Sides, height : Sides], NEW length \in {img.width, img.height},
         NEW x \in 0 .. length, NEW b \in Image!Back(Image!Letterbox(length), length, x)
  PROVE  b \in Int /\ Image!Near(b, x)
<1> DEFINE s == Image!Letterbox(length)
           u == s.unpad
           longer == Image!Longer(img)
           e == 2 * s.before - s.d
           a == (2 * x * u + e * length) * longer
           k == 2 * length
<1>1. length \in Nat \ {0} /\ longer \in Nat \ {0} /\ N \in Nat \ {0} /\ x \in Nat
  BY LongerSide
<1>2. u = Image!Unpad(length) /\ u \in Nat /\ e \in {0, -1}
  BY SideFits
<1>3. /\ 2 * (x * u * longer) - 2 * (x * (N * length)) <= length * longer
      /\ 2 * (x * (N * length)) - 2 * (x * u * longer) <= length * longer
  BY <1>2, Scaled
<1>4. b \in Image!Truncate(a, k * N)
  BY DEF Image!Back
<1> HIDE DEF s, u, longer, e
<1>5. k \in Nat \ {0} /\ k * N \in Nat \ {0} /\ a \in Int
  BY <1>1, <1>2
<1>6. b \in Int /\ (k * N) * b - a <= k * N /\ a - (k * N) * b <= k * N
  BY <1>4, <1>5, Truncated
<1>7. a = 2 * (x * u * longer) + e * (length * longer)
  BY <1>1, <1>2
<1>8. (k * N) * x = 2 * (x * (N * length))
  BY <1>1
<1>9. length * longer \in Nat /\ k * longer = 2 * (length * longer)
  BY <1>1
<1>10. e * (length * longer) \in {0, -(length * longer)}
  BY <1>2, <1>9
<1>11. a - (k * N) * x <= k * longer /\ (k * N) * x - a <= k * longer
  BY <1>1, <1>2, <1>3, <1>5, <1>7, <1>8, <1>9, <1>10
<1> HIDE DEF a, k
<1> QED
  BY <1>1, <1>5, <1>6, <1>11, NearEnough DEF longer

\* So do its width and its height.
LEMMA LengthComesBack ==
  ASSUME img \in [width : Sides, height : Sides], NEW length \in {img.width, img.height},
         NEW x \in 0 .. length, NEW b \in Image!BackLength(Image!Letterbox(length), length, x)
  PROVE  b \in Int /\ Image!Near(b, x)
<1> DEFINE s == Image!Letterbox(length)
           u == s.unpad
           longer == Image!Longer(img)
           a == x * u * longer
           k == length
<1>1. length \in Nat \ {0} /\ longer \in Nat \ {0} /\ N \in Nat \ {0} /\ x \in Nat
  BY LongerSide
<1>2. u = Image!Unpad(length) /\ u \in Nat
  BY SideFits
<1>3. /\ 2 * (x * u * longer) - 2 * (x * (N * length)) <= length * longer
      /\ 2 * (x * (N * length)) - 2 * (x * u * longer) <= length * longer
  BY <1>2, Scaled
<1>4. b \in Image!Truncate(a, k * N)
  BY DEF Image!BackLength
<1> HIDE DEF s, u, longer
<1>5. k \in Nat \ {0} /\ k * N \in Nat \ {0} /\ a \in Int
  BY <1>1, <1>2
<1>6. b \in Int /\ (k * N) * b - a <= k * N /\ a - (k * N) * b <= k * N
  BY <1>4, <1>5, Truncated
<1>7. (k * N) * x = x * (N * length) /\ k * longer \in Nat
  BY <1>1
<1>8. a - (k * N) * x <= k * longer /\ (k * N) * x - a <= k * longer
  BY <1>1, <1>3, <1>5, <1>7
<1> HIDE DEF a, k
<1> QED
  BY <1>1, <1>5, <1>6, <1>8, NearEnough DEF longer

-----------------------------------------------------------------------------
(***************************************************************************)
(* Yolov5: the candidates, and what NMSBoxes keeps of them.                *)
(***************************************************************************)
Sure(n) == Image!SureEnough(things[n].score)

\* The definition of Candidates has the meaning it should.
LEMMA CandidatesSteps ==
  ASSUME BoxCount \in Nat
  PROVE  \E f : /\ Image!Candidates = f[BoxCount] /\ f[0] = <<>>
                /\ \A n \in 1 .. BoxCount : f[n] = IF Sure(n) THEN Append(f[n - 1], n) ELSE f[n - 1]
<1> DEFINE Then(v, n) == IF Sure(n) THEN Append(v, n) ELSE v
           Upto(f, m) == f = [n \in 0 .. m |-> IF n = 0 THEN <<>>
                                               ELSE IF Sure(n) THEN Append(f[n - 1], n) ELSE f[n - 1]]
           S == {m \in Nat : \E f : Upto(f, m)}
<1>1. 0 \in S
  <2> DEFINE f == [n \in 0 .. 0 |-> <<>>]
  <2>1. \A n \in 0 .. 0 : n = 0
    OBVIOUS
  <2>2. Upto(f, 0)
    BY <2>1
  <2> QED
    BY <2>2
<1>2. ASSUME NEW m \in Nat, m \in S PROVE m + 1 \in S
  <2>1. PICK f : Upto(f, m)
    BY <1>2
  <2> DEFINE g == [n \in 0 .. m + 1 |-> IF n <= m THEN f[n] ELSE Then(f[m], n)]
  <2>2. \A n \in 0 .. m + 1 : n <= m => n \in 0 .. m
    OBVIOUS
  <2>3. \A n \in 0 .. m : f[n] = IF n = 0 THEN <<>> ELSE Then(f[n - 1], n)
    BY <2>1
  <2> HIDE DEF Upto, Then
  <2>4. \A n \in 0 .. m + 1 : g[n] = IF n = 0 THEN <<>> ELSE Then(g[n - 1], n)
    <3> SUFFICES ASSUME NEW n \in 0 .. m + 1 PROVE g[n] = IF n = 0 THEN <<>> ELSE Then(g[n - 1], n)
      OBVIOUS
    <3>1. CASE n <= m
      <4>1. n # 0 => n - 1 \in 0 .. m + 1 /\ n - 1 <= m
        BY <3>1
      <4> QED
        BY <2>2, <2>3, <3>1, <4>1
    <3>2. CASE n = m + 1
      <4>1. n # 0 /\ n - 1 = m /\ m \in 0 .. m + 1 /\ ~ (n <= m)
        BY <3>2
      <4> QED
        BY <4>1
    <3> QED
      BY <3>1, <3>2
  <2>5. g = [n \in 0 .. m + 1 |-> IF n = 0 THEN <<>> ELSE Then(g[n - 1], n)]
    BY <2>4
  <2>6. Upto(g, m + 1)
    BY <2>5 DEF Upto, Then
  <2> HIDE DEF g
  <2> QED
    BY <2>6
<1>3. BoxCount \in S
  <2> HIDE DEF S
  <2> QED
    BY <1>1, <1>2, InductionOnNat
<1> DEFINE h == CHOOSE f : f = [n \in 0 .. BoxCount |-> IF n = 0 THEN <<>>
                                  ELSE IF Sure(n) THEN Append(f[n - 1], n) ELSE f[n - 1]]
<1>4. h = [n \in 0 .. BoxCount |-> IF n = 0 THEN <<>> ELSE IF Sure(n) THEN Append(h[n - 1], n) ELSE h[n - 1]]
  BY <1>3
<1>5. Image!Candidates = h[BoxCount]
  BY DEF Image!Candidates, Sure
<1> HIDE DEF h
<1>6. \A n \in 0 .. BoxCount : h[n] = IF n = 0 THEN <<>> ELSE IF Sure(n) THEN Append(h[n - 1], n) ELSE h[n - 1]
  BY <1>4
<1>7. h[0] = <<>> /\ \A n \in 1 .. BoxCount : h[n] = IF Sure(n) THEN Append(h[n - 1], n) ELSE h[n - 1]
  <2>1. 0 \in 0 .. BoxCount /\ \A n \in 1 .. BoxCount : n \in 0 .. BoxCount /\ n # 0
    OBVIOUS
  <2> QED
    BY <1>6, <2>1
<1> QED
  BY <1>5, <1>7

\* s has each of the first n predictions that is sure enough, once.
Picked(s, n) ==
  /\ s \in Seq(1 .. n)
  /\ \A i \in DOMAIN s : Sure(s[i])
  /\ \A i, j \in DOMAIN s : s[i] = s[j] => i = j
  /\ \A m \in 1 .. n : Sure(m) => \E i \in DOMAIN s : s[i] = m

LEMMA CandidatesPicked ==
  ASSUME BoxCount \in Nat
  PROVE  Picked(Image!Candidates, BoxCount)
<1>1. PICK f : /\ Image!Candidates = f[BoxCount] /\ f[0] = <<>>
               /\ \A n \in 1 .. BoxCount : f[n] = IF Sure(n) THEN Append(f[n - 1], n) ELSE f[n - 1]
  BY CandidatesSteps
<1> DEFINE S == {n \in Nat : n <= BoxCount => Picked(f[n], n)}
<1>2. 0 \in S
  <2>1. f[0] \in Seq(1 .. 0) /\ DOMAIN f[0] = {}
    BY <1>1
  <2> QED
    BY <2>1 DEF Picked
<1>3. ASSUME NEW n \in Nat, n \in S PROVE n + 1 \in S
  <2>1. SUFFICES ASSUME n + 1 <= BoxCount PROVE Picked(f[n + 1], n + 1)
    OBVIOUS
  <2> DEFINE s == f[n]
             t == f[n + 1]
  <2>2. Picked(s, n) /\ t = IF Sure(n + 1) THEN Append(s, n + 1) ELSE s
    <3>1. n + 1 \in 1 .. BoxCount /\ n <= BoxCount /\ (n + 1) - 1 = n
      BY <2>1
    <3> QED
      BY <1>1, <1>3, <3>1
  <2> HIDE DEF s, t
  <2>3. /\ s \in Seq(1 .. n) /\ s \in Seq(1 .. n + 1)
        /\ Len(s) \in Nat /\ DOMAIN s = 1 .. Len(s) /\ \A i \in DOMAIN s : s[i] \in 1 .. n
    <3>1. s \in Seq(1 .. n) /\ 1 .. n \subseteq 1 .. n + 1
      BY <2>2 DEF Picked
    <3> QED
      BY <3>1
  <2>4. CASE ~Sure(n + 1)
    <3>1. t = s /\ \A m \in 1 .. n + 1 : Sure(m) => m \in 1 .. n
      BY <2>2, <2>4
    <3> QED
      BY <2>2, <2>3, <3>1 DEF Picked, t
  <2>5. CASE Sure(n + 1)
    <3>1. t = Append(s, n + 1) /\ n + 1 \in 1 .. n + 1
      BY <2>2, <2>5
    <3>2. /\ t \in Seq(1 .. n + 1) /\ DOMAIN t = 1 .. Len(s) + 1
          /\ t[Len(s) + 1] = n + 1 /\ \A i \in 1 .. Len(s) : t[i] = s[i]
      BY <2>3, <3>1, AppendProperties
    <3>3. \A i \in DOMAIN t : Sure(t[i])
      BY <2>2, <2>3, <2>5, <3>2 DEF Picked
    <3>4. \A i, j \in DOMAIN t : t[i] = t[j] => i = j
      <4>1. \A i \in 1 .. Len(s) : t[i] # n + 1
        BY <2>3, <3>2
      <4>2. \A i \in DOMAIN t : i = Len(s) + 1 \/ i \in DOMAIN s
        BY <2>3, <3>2
      <4> QED
        BY <2>2, <2>3, <3>2, <4>1, <4>2 DEF Picked
    <3>5. \A m \in 1 .. n + 1 : Sure(m) => \E i \in DOMAIN t : t[i] = m
      <4>1. ASSUME NEW m \in 1 .. n + 1, Sure(m) PROVE \E i \in DOMAIN t : t[i] = m
        <5>1. CASE m = n + 1
          BY <2>3, <3>2, <5>1
        <5>2. CASE m \in 1 .. n
          <6>1. PICK i \in DOMAIN s : s[i] = m
            BY <2>2, <4>1, <5>2 DEF Picked
          <6> QED
            BY <2>3, <3>2, <6>1
        <5> QED
          BY <5>1, <5>2
      <4> QED
        BY <4>1
    <3> QED
      BY <3>2, <3>3, <3>4, <3>5 DEF Picked, t
  <2> QED
    BY <2>4, <2>5
<1>4. BoxCount \in S
  <2> HIDE DEF S
  <2> QED
    BY <1>2, <1>3, InductionOnNat
<1> QED
  BY <1>1, <1>4

\* A sequence is a function from 1 .. Len(s).
LEMMA SequenceFacts ==
  ASSUME NEW T, NEW s \in Seq(T)
  PROVE  Len(s) \in Nat /\ DOMAIN s = 1 .. Len(s) /\ \A i \in DOMAIN s : s[i] \in T
OBVIOUS

\* What NMSBoxes keeps are candidates above the threshold, each once, and some
\* if there are any.
LEMMA KeptAre ==
  ASSUME NEW c, NEW T, c \in Seq(T), NEW s \in Image!Kept(c)
  PROVE  /\ s \in Seq(DOMAIN c) /\ Len(s) \in Nat /\ DOMAIN s = 1 .. Len(s)
         /\ \A k \in 1 .. Len(s) : s[k] \in DOMAIN c /\ things[c[s[k]]].score.conf > Image!Threshold
         /\ \A i, j \in 1 .. Len(s) : s[i] = s[j] => i = j
         /\ s = <<>> => \A k \in DOMAIN c : ~(things[c[k]].score.conf > Image!Threshold)
<1> DEFINE sure == {k \in DOMAIN c : things[c[k]].score.conf > Image!Threshold}
<1>1. PICK K \in SUBSET sure : s \in Image!SetToSeqs(K)
  BY DEF Image!Kept
<1>2. IsFiniteSet(K) /\ Cardinality(K) \in Nat
  <2>1. DOMAIN c = 1 .. Len(c) /\ Len(c) \in Nat
    OBVIOUS
  <2>2. IsFiniteSet(1 .. Len(c)) /\ K \subseteq 1 .. Len(c)
    BY <1>1, <2>1, FS_Interval
  <2> QED
    BY <2>2, FS_Subset, FS_CardinalityType
<1>3. /\ s \in [1 .. Cardinality(K) -> K]
      /\ \A i, j \in 1 .. Cardinality(K) : i # j => s[i] # s[j]
  <2>1. Image!Cardinality(K) = Cardinality(K)
    BY DEF Image!Cardinality, Cardinality
  <2> QED
    BY <1>1, <2>1 DEF Image!SetToSeqs
<1>4. s \in Seq(K) /\ s \in Seq(DOMAIN c) /\ Len(s) = Cardinality(K)
  <2>1. K \subseteq DOMAIN c
    BY <1>1
  <2> QED
    BY <1>2, <1>3, <2>1
<1>5. sure # {} => s # <<>>
  BY DEF Image!Kept
<1> QED
  BY <1>1, <1>2, <1>3, <1>4, <1>5

-----------------------------------------------------------------------------
(***************************************************************************)
(* Yolov5: the inductive invariant.                                        *)
(***************************************************************************)
Letterboxed ==
  /\ box = [width |-> Image!Letterbox(img.width), height |-> Image!Letterbox(img.height)]
  /\ Image!Unpad(img.width) > 0 /\ Image!Unpad(img.height) > 0

\* A prediction about a part of the image.
Predicted(t) ==
  /\ t.score \in Image!Scores /\ t.score.conf <= t.score.obj
  /\ t.x \in 0 .. img.width /\ t.width \in 0 .. img.width
  /\ t.y \in 0 .. img.height /\ t.height \in 0 .. img.height

AllPredicted == DOMAIN things = 1 .. BoxCount /\ \A i \in 1 .. BoxCount : Predicted(things[i])

\* What Detect returns, of what it was given.
Output(o) ==
  /\ o.from \in DOMAIN things
  /\ o.id = things[o.from].score.best /\ o.id \in Labels
  /\ things[o.from].score.conf > Image!Threshold

Found ==
  /\ output = <<>> \/ (Len(output) \in Nat \ {0} /\ DOMAIN output = 1 .. Len(output))
  /\ \A k \in DOMAIN output : Output(output[k])
  /\ \A j, k \in DOMAIN output : output[j].from = output[k].from => j = k
  /\ output = <<>> => \A i \in DOMAIN things : things[i].score.conf <= Image!Threshold

Answered ==
  \/ dst /\ output # <<>> /\ res = [k \in 1 .. Len(output) |-> output[k].id]
  \/ ~dst /\ output = <<>> /\ res = <<"empty">>

ImageInv ==
  part = "image" =>
    /\ img \in [width : Sides, height : Sides]
    /\ box = <<>> \/ Letterboxed
    /\ things = <<>> \/ AllPredicted
    /\ imagePc \in {"recognize", "preprocess"} => things = <<>>
    /\ imagePc \in {"recognize", "preprocess", "trtProcess", "detect"} => output = <<>> /\ ~dst
    /\ imagePc \in {"trtProcess", "detect"} => Letterboxed
    /\ imagePc = "detect" => AllPredicted
    /\ imagePc \in {"detected", "done"} => Found
    /\ imagePc = "detected" => ~dst
    /\ imagePc = "done" => Answered
    /\ imagePc = "crashed" /\ anoType = "GroundWater" =>
         Image!Unpad(img.width) = 0 \/ Image!Unpad(img.height) = 0
    /\ Image!BoxesBack

LEMMA InitImage == ConversionInit => ImageInv
BY DEF ConversionInit, ImageInit, Image!Init, ImageInv, Image!BoxesBack

\* The places the model gives to things are parts of the image.
LEMMA PartsOfASide ==
  ASSUME NEW length \in Nat \ {0}, NEW x \in Image!Corners(length)
  PROVE  x \in 0 .. length /\ length - x \in 0 .. length
<1>1. length \div 2 \in 0 .. length
  OBVIOUS
<1> QED
  BY <1>1 DEF Image!Corners

\* Detect: the boxes are back, and what it returns was found.
LEMMA DetectFinds ==
  ASSUME ImageInv, part = "image", Image!Detect
  PROVE  Found' /\ Image!BoxesBack'
<1> DEFINE c == Image!Candidates
<1>1. /\ img \in [width : Sides, height : Sides] /\ img' = img /\ things' = things
      /\ Letterboxed /\ AllPredicted /\ BoxCount \in Nat
  BY ConversionAssumptions DEF Image!YoloAssumption, Image!Detect, ImageInv
<1>2. PICK nms \in Image!Kept(c) : \E rects \in [1 .. Len(nms) -> UNION {Image!BoxRects(things[i]) : i \in 1 .. BoxCount}] :
         /\ \A k \in 1 .. Len(nms) : rects[k] \in Image!BoxRects(things[c[nms[k]]])
         /\ output' = [k \in 1 .. Len(nms) |->
              [id |-> things[c[nms[k]]].score.best, from |-> c[nms[k]], box |-> rects[k]]]
  BY DEF Image!Detect
<1>3. PICK rects \in [1 .. Len(nms) -> UNION {Image!BoxRects(things[i]) : i \in 1 .. BoxCount}] :
         /\ \A k \in 1 .. Len(nms) : rects[k] \in Image!BoxRects(things[c[nms[k]]])
         /\ output' = [k \in 1 .. Len(nms) |->
              [id |-> things[c[nms[k]]].score.best, from |-> c[nms[k]], box |-> rects[k]]]
  BY <1>2
<1>4. Picked(c, BoxCount)
  BY <1>1, CandidatesPicked
<1> HIDE DEF c
<1>5. /\ c \in Seq(1 .. BoxCount) /\ DOMAIN c = 1 .. Len(c)
      /\ \A i \in DOMAIN c : c[i] \in 1 .. BoxCount
  <2>1. c \in Seq(1 .. BoxCount)
    BY <1>4 DEF Picked
  <2> QED
    BY ONLY <2>1, SequenceFacts
<1>6. /\ nms \in Seq(DOMAIN c) /\ Len(nms) \in Nat /\ DOMAIN nms = 1 .. Len(nms)
      /\ \A k \in 1 .. Len(nms) : nms[k] \in DOMAIN c /\ things[c[nms[k]]].score.conf > Image!Threshold
      /\ \A i, j \in 1 .. Len(nms) : nms[i] = nms[j] => i = j
      /\ nms = <<>> => \A k \in DOMAIN c : ~(things[c[k]].score.conf > Image!Threshold)
  BY <1>5, KeptAre
<1>7. /\ DOMAIN output' = 1 .. Len(nms)
      /\ \A k \in 1 .. Len(nms) : /\ output'[k].id = things[output'[k].from].score.best
                                  /\ output'[k].from = c[nms[k]]
                                  /\ output'[k].box = rects[k]
  BY <1>3
<1>8. \A k \in 1 .. Len(nms) : output'[k].from \in 1 .. BoxCount
  BY <1>5, <1>6, <1>7
<1>9. Found'
  <2>1. \A k \in DOMAIN output' :
          /\ output'[k].from \in DOMAIN things'
          /\ output'[k].id = things'[output'[k].from].score.best /\ output'[k].id \in Labels
          /\ things'[output'[k].from].score.conf > 1
    <3> SUFFICES ASSUME NEW k \in 1 .. Len(nms)
                 PROVE  /\ output'[k].from \in DOMAIN things
                        /\ output'[k].id = things[output'[k].from].score.best /\ output'[k].id \in Labels
                        /\ things[output'[k].from].score.conf > 1
      BY <1>1, <1>7
    <3>1. output'[k].from \in DOMAIN things /\ Predicted(things[output'[k].from])
      BY <1>1, <1>8 DEF AllPredicted
    <3>2. things[output'[k].from].score.best \in Labels
      BY <3>1 DEF Predicted, Image!Scores
    <3> QED
      BY <1>6, <1>7, <3>1, <3>2 DEF Image!Threshold
  <2>2. \A j, k \in DOMAIN output' : output'[j].from = output'[k].from => j = k
    BY <1>4, <1>6, <1>7 DEF Picked
  <2>3. Len(nms) # 0 => Len(output') \in Nat \ {0} /\ DOMAIN output' = 1 .. Len(output')
    BY <1>3, <1>6
  <2>4. Len(nms) = 0 => output' = <<>> /\ nms = <<>>
    BY <1>3, <1>6
  <2>5. output' = <<>> => \A i \in DOMAIN things' : things'[i].score.conf <= 1
    <3> SUFFICES ASSUME output' = <<>>, NEW i \in 1 .. BoxCount, ~(things[i].score.conf <= 1)
                 PROVE  FALSE
      BY <1>1 DEF AllPredicted
    <3>0. /\ things[i].score.conf \in 0 .. 2 /\ things[i].score.obj \in 0 .. 2
          /\ things[i].score.conf <= things[i].score.obj
      BY <1>1 DEF AllPredicted, Predicted, Image!Scores
    <3>1. Sure(i)
      BY <3>0 DEF Sure, Image!SureEnough, Image!Threshold
    <3>2. PICK k \in DOMAIN c : c[k] = i
      BY <1>4, <3>1 DEF Picked
    <3>3. nms = <<>>
      BY <1>6, <2>3, <2>4
    <3> QED
      BY <1>6, <3>0, <3>2, <3>3 DEF Image!Threshold
  <2> QED
    BY <1>6, <2>1, <2>2, <2>3, <2>4, <2>5 DEF Found, Output, Image!Threshold
<1>10. Image!BoxesBack'
  <2> SUFFICES ASSUME NEW k \in 1 .. Len(nms)
               PROVE  LET t == things[output'[k].from]
                          b == output'[k].box
                      IN  Image!Near(b.x, t.x) /\ Image!Near(b.y, t.y)
                          /\ Image!Near(b.width, t.width) /\ Image!Near(b.height, t.height)
    BY <1>1, <1>7 DEF Image!BoxesBack, Image!Near, Image!Longer
  <2> DEFINE t == things[output'[k].from]
             b == output'[k].box
  <2>1. Predicted(t) /\ b \in Image!BoxRects(t)
    BY <1>1, <1>3, <1>7, <1>8 DEF AllPredicted
  <2> HIDE DEF t, b
  <2>2. /\ b.x \in Image!Back(Image!Letterbox(img.width), img.width, t.x)
        /\ b.y \in Image!Back(Image!Letterbox(img.height), img.height, t.y)
        /\ b.width \in Image!BackLength(Image!Letterbox(img.width), img.width, t.width)
        /\ b.height \in Image!BackLength(Image!Letterbox(img.height), img.height, t.height)
    BY <1>1, <2>1 DEF Image!BoxRects, Letterboxed
  <2>3. Image!Near(b.x, t.x)
    BY <1>1, <2>1, <2>2, PlaceComesBack DEF Predicted
  <2>4. Image!Near(b.y, t.y)
    BY <1>1, <2>1, <2>2, PlaceComesBack DEF Predicted
  <2>5. Image!Near(b.width, t.width)
    BY <1>1, <2>1, <2>2, LengthComesBack DEF Predicted
  <2>6. Image!Near(b.height, t.height)
    BY <1>1, <2>1, <2>2, LengthComesBack DEF Predicted
  <2> QED
    BY <2>3, <2>4, <2>5, <2>6 DEF t, b
<1> QED
  BY <1>9, <1>10

\* What a step leaves alone, it leaves true.
LEMMA Unmoved ==
  ASSUME UNCHANGED <<img, things>>
  PROVE  /\ AllPredicted => AllPredicted'
         /\ Image!Unpad(img.width)' = Image!Unpad(img.width)
         /\ Image!Unpad(img.height)' = Image!Unpad(img.height)
         /\ box' = box /\ Letterboxed => Letterboxed'
         /\ output' = output /\ Found => Found'
         /\ output' = output /\ Image!BoxesBack => Image!BoxesBack'
<1>1. AllPredicted => AllPredicted'
  BY DEF AllPredicted, Predicted
<1>2. /\ Image!Unpad(img.width)' = Image!Unpad(img.width)
      /\ Image!Unpad(img.height)' = Image!Unpad(img.height)
  BY DEF Image!Unpad, Image!Longer
<1>3. box' = box /\ Letterboxed => Letterboxed'
  BY DEF Letterboxed, Image!Letterbox, Image!Unpad, Image!Longer
<1>4. output' = output /\ Found => Found'
  BY DEF Found, Output
<1>5. output' = output /\ Image!BoxesBack => Image!BoxesBack'
  BY DEF Image!BoxesBack, Image!Near, Image!Longer
<1> QED
  BY <1>1, <1>2, <1>3, <1>4, <1>5

\* Every step of Yolov5 keeps the invariant.
LEMMA ImageStep ==
  ASSUME ImageInv, part = "image", part' = part, Image!Next
  PROVE  ImageInv'
<1> USE DEF ImageInv
<1>1. CASE Image!Recognize
  <2>1. /\ imagePc = "recognize" /\ UNCHANGED <<anoType, img, things, box, output, res, dst>>
        /\ imagePc' \in {"preprocess", "crashed", "detected"}
        /\ imagePc' = "crashed" => anoType # "GroundWater"
    BY <1>1 DEF Image!Recognize, Image!TaskTypes, Image!Crash
  <2>2. things = <<>> /\ output = <<>> /\ Found
    BY <2>1 DEF Found
  <2> QED
    BY <2>1, <2>2, Unmoved
<1>2. CASE Image!preprocessThrows
  <2>1. /\ imagePc = "preprocess" /\ imagePc' = "crashed" /\ UNCHANGED <<anoType, img, things, box, output, res, dst>>
        /\ Image!Unpad(img.width) = 0 \/ Image!Unpad(img.height) = 0
    BY <1>2 DEF Image!preprocessThrows, Image!Crash
  <2> QED
    BY <2>1, Unmoved
<1>3. CASE Image!preprocess
  <2>1. /\ imagePc = "preprocess" /\ imagePc' = "trtProcess" /\ UNCHANGED <<anoType, img, things, output, res, dst>>
        /\ Image!Unpad(img.width) > 0 /\ Image!Unpad(img.height) > 0
        /\ box' = [width |-> Image!Letterbox(img.width), height |-> Image!Letterbox(img.height)]
    BY <1>3 DEF Image!preprocess
  <2>2. Letterboxed'
    BY <2>1 DEF Letterboxed, Image!Letterbox, Image!Unpad, Image!Longer
  <2> QED
    BY <2>1, <2>2, Unmoved
<1>4. CASE Image!trtProcess
  <2>1. /\ imagePc = "trtProcess" /\ imagePc' = "detect" /\ UNCHANGED <<anoType, img, box, output, res, dst>>
    BY <1>4 DEF Image!trtProcess
  <2>2. PICK p \in Image!Predictions, x \in Image!Corners(img.width), y \in Image!Corners(img.height) :
          things' = [i \in 1 .. BoxCount |->
                       [score |-> p[i], x |-> x, y |-> y,
                        width |-> img.width - x, height |-> img.height - y]]
    BY <1>4 DEF Image!trtProcess
  <2>3. /\ x \in 0 .. img.width /\ img.width - x \in 0 .. img.width
        /\ y \in 0 .. img.height /\ img.height - y \in 0 .. img.height
    BY LongerSide, PartsOfASide
  <2>4. \A i \in 1 .. BoxCount : p[i] \in Image!Scores /\ p[i].conf <= p[i].obj
    BY DEF Image!Predictions
  <2>5. AllPredicted'
    BY <2>1, <2>2, <2>3, <2>4 DEF AllPredicted, Predicted
  <2>6. Letterboxed'
    BY <2>1 DEF Letterboxed, Image!Letterbox, Image!Unpad, Image!Longer
  <2> QED
    BY <2>1, <2>5, <2>6 DEF Image!BoxesBack
<1>5. CASE Image!Detect
  <2>1. /\ imagePc = "detect" /\ imagePc' = "detected" /\ UNCHANGED <<anoType, img, things, box, res, dst>>
    BY <1>5 DEF Image!Detect
  <2>2. Found' /\ Image!BoxesBack'
    BY <1>5, DetectFinds
  <2> QED
    BY <2>1, <2>2, Unmoved
<1>6. CASE Image!drawPred
  <2>1. /\ imagePc = "detected" /\ imagePc' = "done" /\ UNCHANGED <<anoType, img, things, box, output>>
        /\ Answered'
    BY <1>6 DEF Image!drawPred, Answered
  <2> QED
    BY <2>1, Unmoved
<1>7. CASE Image!nothingFound
  <2>1. /\ imagePc = "detected" /\ imagePc' = "done" /\ UNCHANGED <<anoType, img, things, box, output>>
        /\ Answered'
    BY <1>7 DEF Image!nothingFound, Answered
  <2> QED
    BY <2>1, Unmoved
<1>8. CASE Image!Over
  <2>1. UNCHANGED image
    BY <1>8 DEF Image!Over, Image!vars, image
  <2> QED
    BY <2>1, Unmoved DEF image, Answered
<1> QED
  BY <1>1, <1>2, <1>3, <1>4, <1>5, <1>6, <1>7, <1>8 DEF Image!Next

LEMMA NextImage ==
  ASSUME ImageInv, [ConversionNext]_<<part, vars, config, header, image>>
  PROVE  ImageInv'
<1>1. part' = part
  BY DEF ConversionNext
<1>2. SUFFICES ASSUME part = "image" PROVE ImageInv'
  BY <1>1 DEF ImageInv
<1>3. CASE UNCHANGED image
  BY <1>1, <1>3, Unmoved DEF ImageInv, image, Answered
<1>4. CASE Image!Next
  BY <1>1, <1>2, <1>4, ImageStep
<1> QED
  BY <1>2, <1>3, <1>4 DEF ConversionNext

LEMMA ImageInvariance == ConversionSpec => []ImageInv
<1>1. ImageInv /\ [ConversionNext]_<<part, vars, config, header, image>> => ImageInv'
  BY NextImage
<1> QED
  BY <1>1, InitImage, PTL DEF ConversionSpec

\* Whatever the sides of an image, the resized image and its borders are as
\* wide and as high as the network's input; only images with a side that
\* vanishes are refused.
THEOREM LetterboxFits == ConversionSpec => []FillsNetwork
<1>1. ImageInv => FillsNetwork
  <2> SUFFICES ASSUME ImageInv, part = "image" PROVE Image!FillsNetwork
    BY DEF FillsNetwork
  <2>1. img \in [width : Sides, height : Sides]
    BY DEF ImageInv
  <2>2. ASSUME box # <<>>, NEW s \in {box.width, box.height} PROVE s.before + s.unpad + s.after = N /\ s.unpad > 0
    <3>1. \E length \in {img.width, img.height} : s = Image!Letterbox(length) /\ Image!Unpad(length) > 0
      BY <2>2 DEF ImageInv, Letterboxed
    <3> QED
      BY <2>1, <3>1, SideFits
  <2>3. ASSUME imagePc = "crashed", anoType = "GroundWater"
        PROVE  \E side \in {img.width, img.height} : 2 * N * side < Image!Longer(img)
    <3>1. PICK side \in {img.width, img.height} : Image!Unpad(side) = 0
      BY <2>3 DEF ImageInv
    <3> QED
      BY <2>1, <3>1, SideVanishes
  <2> QED
    BY <2>2, <2>3 DEF Image!FillsNetwork
<1> QED
  BY <1>1, ImageInvariance, PTL

\* A box that was predicted for a place in the letterbox is drawn where that
\* place came from, within the pixel of the conversion and one of the network.
THEOREM BoxesComeBack == ConversionSpec => []BoxesBack
<1>1. ImageInv => BoxesBack
  BY DEF ImageInv, BoxesBack
<1> QED
  BY <1>1, ImageInvariance, PTL

\* Each label of the reply is that of a prediction which was sure enough, each
\* prediction is in it once, and "empty" means that there was none.
THEOREM LabelsAreTrue == ConversionSpec => []LabelsAreDetected
<1>1. ImageInv => LabelsAreDetected
  <2> SUFFICES ASSUME ImageInv, part = "image", imagePc = "done" PROVE Image!LabelsAreDetected
    BY DEF LabelsAreDetected, Image!LabelsAreDetected
  <2>1. Found /\ Answered
    BY DEF ImageInv
  <2>2. CASE dst
    <3>1. output # <<>> /\ res = [k \in 1 .. Len(output) |-> output[k].id]
      BY <2>1, <2>2 DEF Answered
    <3>2. Len(output) \in Nat \ {0} /\ DOMAIN output = 1 .. Len(output)
      BY <2>1, <3>1 DEF Found
    <3>3. Len(res) = Len(output) /\ DOMAIN res = 1 .. Len(output)
      BY <3>1, <3>2
    <3>4. \A k \in 1 .. Len(output) : Output(output[k]) /\ res[k] = output[k].id
      BY <2>1, <3>1, <3>2 DEF Found
    <3>5. res # <<"empty">>
      <4>1. 1 \in 1 .. Len(output) /\ "empty" \notin Labels
        BY <3>2, ConversionAssumptions DEF Image!YoloAssumption
      <4>2. res[1] \in Labels
        BY <3>4, <4>1 DEF Output
      <4> QED
        BY <4>1, <4>2
    <3>6. Image!IsInjective([k \in DOMAIN output |-> output[k].from])
      BY <2>1 DEF Found, Image!IsInjective
    <3> QED
      BY <2>2, <3>3, <3>4, <3>5, <3>6 DEF Image!LabelsAreDetected, Output
  <2>3. CASE ~dst
    BY <2>1, <2>3 DEF Answered, Found, Image!LabelsAreDetected
  <2> QED
    BY <2>1, <2>2, <2>3 DEF Answered
<1> QED
  BY <1>1, ImageInvariance, PTL

-----------------------------------------------------------------------------
(***************************************************************************)
(* LogrConfig: a line changes what a file says by that line.               *)
(***************************************************************************)
Fields == {"path", "level", "limitsize", "enable"}

LEMMA DefaultFields == DOMAIN Config!Default = Fields
BY DEF Config!Default, Fields

\* Which section a line opens.
LEMMA OpensKey ==
  ASSUME NEW i, content[i].kind = "section", content[i].name \in Sections, NEW k \in Sections \cup {Config!Main}
  PROVE  /\ Config!Opens(k, i) <=> k = Config!SectionKey(content[i].name)
         /\ Config!SectionKey(content[i].name) \in Sections \cup {Config!Main}
BY ConversionAssumptions DEF Config!ConfigAssumption, Config!Opens, Config!SectionKey

\* A line that gives the setting nothing leaves it as it was.
LEMMA SaysStill ==
  ASSUME NEW k, NEW a, NEW n \in Nat, ~Config!Gives(k, a, n + 1)
  PROVE  Config!Says(k, a, n + 1) = Config!Says(k, a, n)
<1> DEFINE longer == {i \in 1 .. n + 1 : Config!Gives(k, a, i)}
           givers == {i \in 1 .. n : Config!Gives(k, a, i)}
           Says(S) == IF S = {} THEN Config!Default[a]
                      ELSE Config!Value(a, content[CHOOSE i \in S : \A j \in S : j <= i].text)
<1>1. longer = givers
  <2>1. \A i \in 1 .. n + 1 : i \in 1 .. n \/ i = n + 1
    OBVIOUS
  <2>2. 1 .. n \subseteq 1 .. n + 1
    OBVIOUS
  <2> QED
    BY <2>1, <2>2
<1>2. Config!Says(k, a, n + 1) = Says(longer) /\ Config!Says(k, a, n) = Says(givers)
  BY DEF Config!Says
<1> HIDE DEF longer, givers, Says
<1> QED
  BY <1>1, <1>2

\* A line that gives it a value is the last that does.
LEMMA SaysLast ==
  ASSUME NEW k, NEW a, NEW n \in Nat, Config!Gives(k, a, n + 1)
  PROVE  Config!Says(k, a, n + 1) = Config!Value(a, content[n + 1].text)
<1> DEFINE givers == {i \in 1 .. n + 1 : Config!Gives(k, a, i)}
           last == CHOOSE i \in givers : \A j \in givers : j <= i
<1>1. n + 1 \in givers /\ \A j \in givers : j \in Nat /\ j <= n + 1
  OBVIOUS
<1>2. last \in givers /\ \A j \in givers : j <= last
  BY <1>1
<1>3. Config!Says(k, a, n + 1) = IF givers = {} THEN Config!Default[a]
                                 ELSE Config!Value(a, content[last].text)
  BY DEF Config!Says
<1> HIDE DEF givers, last
<1>4. last = n + 1
  BY <1>1, <1>2
<1> QED
  BY <1>1, <1>3, <1>4

\* What the lines say depends on nothing else.
LEMMA SameLines ==
  ASSUME content' = content
  PROVE  /\ \A k, i : Config!Opens(k, i)' <=> Config!Opens(k, i)
         /\ \A k, a, n : Config!Says(k, a, n)' = Config!Says(k, a, n)
<1>1. \A k, i : Config!Opens(k, i)' <=> Config!Opens(k, i)
  BY DEF Config!Opens
<1>2. \A k, a, i : Config!Gives(k, a, i)' <=> Config!Gives(k, a, i)
  BY <1>1 DEF Config!Gives, Config!Under
<1>3. \A k, a, n : Config!Says(k, a, n)' = Config!Says(k, a, n)
  <2> SUFFICES ASSUME NEW k, NEW a, NEW n PROVE Config!Says(k, a, n)' = Config!Says(k, a, n)
    OBVIOUS
  <2> DEFINE givers == {i \in 1 .. n : Config!Gives(k, a, i)}
             later == {i \in 1 .. n : Config!Gives(k, a, i)'}
             Says(S) == IF S = {} THEN Config!Default[a]
                        ELSE Config!Value(a, content[CHOOSE i \in S : \A j \in S : j <= i].text)
  <2>1. later = givers
    BY <1>2
  <2>2. Config!Says(k, a, n) = Says(givers) /\ Config!Says(k, a, n)' = Says(later)
    BY DEF Config!Says
  <2> HIDE DEF givers, later, Says
  <2> QED
    BY <2>1, <2>2
<1> QED
  BY <1>1, <1>3

\* key is that of the last section before pos.
KeyKnown ==
  \/ /\ \A i \in 1 .. pos - 1 : content[i].kind # "section"
     /\ DOMAIN outInfo = {}
  \/ \E j \in 1 .. pos - 1 :
       /\ content[j].kind = "section" /\ key = Config!SectionKey(content[j].name)
       /\ \A m \in j + 1 .. pos - 1 : content[m].kind # "section"

ConfigInv ==
  part = "config" =>
    /\ content \in Seq(Config!Lines)
    /\ pos \in Nat \ {0}
    /\ KeyKnown
    /\ \A k \in DOMAIN outInfo : DOMAIN outInfo[k] = Fields
    /\ Config!SettingsAsSaid

LEMMA InitConfig == ConversionInit => ConfigInv
<1> SUFFICES ASSUME ConversionInit, part = "config" PROVE ConfigInv
  BY DEF ConfigInv
<1>1. /\ content \in UNION {[1 .. n -> Config!Lines] : n \in 0 .. MaxLines}
      /\ pos = 1 /\ outInfo = <<>> /\ MaxLines \in Nat
  BY ConversionAssumptions DEF Config!ConfigAssumption, ConversionInit, ConfigInit, Config!Init
<1>2. PICK n \in 0 .. MaxLines : content \in [1 .. n -> Config!Lines]
  BY <1>1
<1>3. content \in Seq(Config!Lines)
  <2> HIDE DEF Config!Lines
  <2>1. n \in Nat
    BY <1>1
  <2> QED
    BY <1>2, <2>1
<1>4. DOMAIN outInfo = {} /\ pos - 1 = 0 /\ 1 .. pos - 1 = {}
  BY <1>1
<1> QED
  BY <1>1, <1>3, <1>4 DEF ConfigInv, KeyKnown, Config!SettingsAsSaid

\* A line is of one of three kinds.
LEMMA LineKinds ==
  ASSUME content \in Seq(Config!Lines), NEW i \in 1 .. Len(content)
  PROVE  /\ content[i].kind = "section" => content[i].name \in Sections
         /\ content[i].kind = "attribute" => content[i].name \in Fields \cup {"unknown"}
<1>1. content[i] \in Config!Lines
  <2> HIDE DEF Config!Lines
  <2> QED
    OBVIOUS
<1> QED
  BY <1>1 DEF Config!Lines, Config!Attributes, Fields

\* A section that is opened is one of those there are.
LEMMA SectionStep ==
  ASSUME ConfigInv, part = "config", part' = part, Config!parseSection
  PROVE  ConfigInv'
<1> DEFINE new == Config!SectionKey(content[pos].name)
           keys == Sections \cup {Config!Main}
<1>1. /\ pos \in 1 .. Len(content) /\ pos' = pos + 1 /\ content' = content
      /\ content[pos].kind = "section" /\ key' = new
      /\ outInfo' = IF new \in DOMAIN outInfo THEN outInfo ELSE Config!Add(outInfo, new)
  BY DEF Config!parseSection, Config!Reading, Config!Line, ConfigInv
<1>2. content[pos].name \in Sections
  BY <1>1, LineKinds DEF ConfigInv
<1>3. /\ new \in keys
      /\ \A k \in keys : Config!Opens(k, pos) <=> k = new
  BY <1>1, <1>2, OpensKey
<1> HIDE DEF new
<1>4. /\ \A k \in DOMAIN outInfo : k \in DOMAIN outInfo' /\ outInfo'[k] = outInfo[k]
      /\ DOMAIN outInfo' = DOMAIN outInfo \cup {new}
      /\ new \notin DOMAIN outInfo => outInfo'[new] = Config!Default
  BY <1>1 DEF Config!Add
<1>5. /\ DOMAIN outInfo = {k \in keys : \E i \in 1 .. pos - 1 : Config!Opens(k, i)}
      /\ \A k \in DOMAIN outInfo, a \in Fields : outInfo[k][a] = Config!Says(k, a, pos - 1)
  BY DefaultFields DEF ConfigInv, Config!SettingsAsSaid
<1>6. pos - 1 \in Nat /\ (pos - 1) + 1 = pos /\ (pos + 1) - 1 = pos
  BY <1>1
<1>7. \A k, a : ~Config!Gives(k, a, pos)
  BY <1>1 DEF Config!Gives
<1>8. \A k, a : Config!Says(k, a, pos) = Config!Says(k, a, pos - 1)
  BY <1>6, <1>7, SaysStill
<1>9. \A k \in DOMAIN outInfo' : DOMAIN outInfo'[k] = Fields
  BY <1>4, DefaultFields DEF ConfigInv
<1>10. DOMAIN outInfo' = {k \in keys : \E i \in 1 .. pos : Config!Opens(k, i)}
  <2>1. \A i \in 1 .. pos : i \in 1 .. pos - 1 \/ i = pos
    BY <1>1
  <2>2. pos \in 1 .. pos /\ 1 .. pos - 1 \subseteq 1 .. pos
    BY <1>1
  <2> QED
    BY <1>3, <1>4, <1>5, <2>1, <2>2
<1>11. \A k \in DOMAIN outInfo', a \in Fields : outInfo'[k][a] = Config!Says(k, a, pos)
  <2> SUFFICES ASSUME NEW k \in DOMAIN outInfo', NEW a \in Fields PROVE outInfo'[k][a] = Config!Says(k, a, pos)
    OBVIOUS
  <2>1. CASE k \in DOMAIN outInfo
    BY <1>4, <1>5, <1>8, <2>1
  <2>2. CASE k \notin DOMAIN outInfo
    <3>1. k = new /\ k \in keys /\ outInfo'[k][a] = Config!Default[a]
      BY <1>3, <1>4, <2>2
    <3>2. \A i \in 1 .. pos - 1 : ~Config!Opens(k, i)
      BY <1>5, <2>2, <3>1
    <3>3. \A i \in 1 .. pos - 1 : ~Config!Gives(k, a, i)
      <4>1. ASSUME NEW i \in 1 .. pos - 1, NEW j \in 1 .. i - 1 PROVE j \in 1 .. pos - 1
        BY <1>1, <4>1
      <4> QED
        BY <3>2, <4>1 DEF Config!Gives, Config!Under
    <3>4. Config!Says(k, a, pos - 1) = Config!Default[a]
      BY <3>3 DEF Config!Says
    <3> QED
      BY <1>8, <3>1, <3>4
  <2> QED
    BY <2>1, <2>2
<1>12. Config!SettingsAsSaid'
  BY <1>1, <1>6, <1>10, <1>11, DefaultFields, SameLines DEF Config!SettingsAsSaid
<1>13. KeyKnown'
  <2>1. pos \in 1 .. pos' - 1 /\ pos + 1 .. pos' - 1 = {}
    BY <1>1
  <2> QED
    BY <1>1, <2>1 DEF KeyKnown, new
<1> QED
  BY <1>1, <1>9, <1>12, <1>13 DEF ConfigInv

\* Under a section: its key is the one in force.
LEMMA UnderKey ==
  ASSUME ConfigInv, part = "config", pos \in 1 .. Len(content), content[pos].kind # "section",
         NEW k \in Sections \cup {Config!Main}
  PROVE  Config!Under(k, pos) <=> (k \in DOMAIN outInfo /\ k = key)
<1> DEFINE keys == Sections \cup {Config!Main}
<1>1. DOMAIN outInfo = {h \in keys : \E i \in 1 .. pos - 1 : Config!Opens(h, i)}
  BY DEF ConfigInv, Config!SettingsAsSaid
<1>2. \A j \in 1 .. pos - 1 : content[j].kind = "section" =>
         \A h \in keys : Config!Opens(h, j) <=> h = Config!SectionKey(content[j].name)
  <2>1. \A j \in 1 .. pos - 1 : j \in 1 .. Len(content)
    OBVIOUS
  <2> QED
    BY <2>1, LineKinds, OpensKey DEF ConfigInv
<1>3. \A j : (\A m \in j + 1 .. pos : content[m].kind # "section") <=>
             (\A m \in j + 1 .. pos - 1 : content[m].kind # "section")
  OBVIOUS
<1>4. KeyKnown
  BY DEF ConfigInv
<1>5. CASE DOMAIN outInfo = {} /\ \A i \in 1 .. pos - 1 : content[i].kind # "section"
  BY <1>5 DEF Config!Under, Config!Opens
<1>6. CASE \E j \in 1 .. pos - 1 :
             /\ content[j].kind = "section" /\ key = Config!SectionKey(content[j].name)
             /\ \A m \in j + 1 .. pos - 1 : content[m].kind # "section"
  <2>1. PICK j \in 1 .. pos - 1 :
             /\ content[j].kind = "section" /\ key = Config!SectionKey(content[j].name)
             /\ \A m \in j + 1 .. pos - 1 : content[m].kind # "section"
    BY <1>6
  <2>2. ASSUME Config!Under(k, pos) PROVE k \in DOMAIN outInfo /\ k = key
    <3>1. PICK i \in 1 .. pos - 1 : Config!Opens(k, i) /\ \A m \in i + 1 .. pos : content[m].kind # "section"
      BY <2>2 DEF Config!Under
    <3>2. content[i].kind = "section"
      BY <3>1 DEF Config!Opens
    <3>3. i = j
      <4>1. ~(i < j) /\ ~(j < i)
        BY <2>1, <3>1, <3>2
      <4> QED
        BY <4>1
    <3> QED
      BY <1>1, <1>2, <2>1, <3>1, <3>3
  <2>3. ASSUME k = key PROVE Config!Under(k, pos)
    <3>1. Config!Opens(k, j)
      BY <1>2, <2>1, <2>3
    <3>2. \A m \in j + 1 .. pos : content[m].kind # "section"
      BY <2>1
    <3> QED
      BY <3>1, <3>2 DEF Config!Under
  <2> QED
    BY <2>2, <2>3
<1> QED
  BY <1>4, <1>5, <1>6 DEF KeyKnown

\* What the line at pos, which opens no section, leaves of the rest.
LEMMA LineDone ==
  ASSUME ConfigInv, part = "config", part' = part, pos \in 1 .. Len(content), content[pos].kind # "section",
         pos' = pos + 1, UNCHANGED <<content, key>>,
         DOMAIN outInfo' = DOMAIN outInfo,
         \A k \in DOMAIN outInfo : DOMAIN outInfo'[k] = Fields,
         \A k \in DOMAIN outInfo, a \in Fields : outInfo'[k][a] = Config!Says(k, a, pos)
  PROVE  ConfigInv'
<1> DEFINE keys == Sections \cup {Config!Main}
<1>1. DOMAIN outInfo = {k \in keys : \E i \in 1 .. pos - 1 : Config!Opens(k, i)}
  BY DEF ConfigInv, Config!SettingsAsSaid
<1>2. ~\E k : Config!Opens(k, pos)
  BY DEF Config!Opens
<1>3. DOMAIN outInfo = {k \in keys : \E i \in 1 .. pos : Config!Opens(k, i)}
  <2>1. \A i \in 1 .. pos : i \in 1 .. pos - 1 \/ i = pos
    OBVIOUS
  <2>2. 1 .. pos - 1 \subseteq 1 .. pos
    OBVIOUS
  <2> QED
    BY <1>1, <1>2, <2>1, <2>2
<1>4. pos' - 1 = pos
  OBVIOUS
<1>5. Config!SettingsAsSaid'
  BY <1>3, <1>4, DefaultFields, SameLines DEF Config!SettingsAsSaid
<1>6. KeyKnown'
  <2>1. content'[pos].kind # "section" /\ \A i \in 1 .. pos' - 1 : i \in 1 .. pos - 1 \/ i = pos
    OBVIOUS
  <2>2. CASE DOMAIN outInfo = {} /\ \A i \in 1 .. pos - 1 : content[i].kind # "section"
    BY <2>1, <2>2 DEF KeyKnown
  <2>3. CASE \E j \in 1 .. pos - 1 :
               /\ content[j].kind = "section" /\ key = Config!SectionKey(content[j].name)
               /\ \A m \in j + 1 .. pos - 1 : content[m].kind # "section"
    <3>1. PICK j \in 1 .. pos - 1 :
               /\ content[j].kind = "section" /\ key = Config!SectionKey(content[j].name)
               /\ \A m \in j + 1 .. pos - 1 : content[m].kind # "section"
      BY <2>3
    <3>2. j \in 1 .. pos' - 1 /\ \A m \in j + 1 .. pos' - 1 : content'[m].kind # "section"
      BY <2>1, <3>1
    <3>3. content'[j].kind = "section" /\ key' = Config!SectionKey(content'[j].name)
      BY <3>1 DEF Config!SectionKey
    <3> QED
      BY <3>2, <3>3 DEF KeyKnown, Config!SectionKey
  <2> QED
    BY <2>2, <2>3 DEF ConfigInv, KeyKnown
<1> QED
  BY <1>5, <1>6 DEF ConfigInv

LEMMA AttributeStep ==
  ASSUME ConfigInv, part = "config", part' = part, Config!parseAttribute
  PROVE  ConfigInv'
<1> DEFINE name == content[pos].name
           text_ == content[pos].text
           keys == Sections \cup {Config!Main}
<1>1. /\ pos \in 1 .. Len(content) /\ pos' = pos + 1 /\ UNCHANGED <<content, key>>
      /\ content[pos].kind = "attribute"
      /\ outInfo' = IF key \in DOMAIN outInfo /\ name # "unknown"
                      THEN [outInfo EXCEPT ![key][name] = Config!Means(name, text_, @)]
                      ELSE outInfo
  BY DEF Config!parseAttribute, Config!Reading, Config!Line, ConfigInv
<1>2. name \in Fields \cup {"unknown"}
  BY <1>1, LineKinds DEF ConfigInv
<1>3. /\ DOMAIN outInfo \subseteq keys
      /\ \A k \in DOMAIN outInfo : DOMAIN outInfo[k] = Fields
      /\ \A k \in DOMAIN outInfo, a \in Fields : outInfo[k][a] = Config!Says(k, a, pos - 1)
  BY DefaultFields DEF ConfigInv, Config!SettingsAsSaid
<1>4. \A k \in DOMAIN outInfo, a \in Fields :
        Config!Gives(k, a, pos) <=> k = key /\ a = name /\ (a = "level" => text_ \in DOMAIN Config!LevelOf)
  <2>1. \A k \in DOMAIN outInfo : Config!Under(k, pos) <=> k = key
    BY <1>1, <1>3, UnderKey
  <2> QED
    BY <1>1, <2>1 DEF Config!Gives
<1>5. pos - 1 \in Nat /\ (pos - 1) + 1 = pos
  BY <1>1
<1>6. /\ DOMAIN outInfo' = DOMAIN outInfo
      /\ \A k \in DOMAIN outInfo : DOMAIN outInfo'[k] = Fields
      /\ \A k \in DOMAIN outInfo, a \in Fields :
           outInfo'[k][a] = IF k = key /\ a = name THEN Config!Means(name, text_, outInfo[k][a]) ELSE outInfo[k][a]
  <2>1. CASE key \in DOMAIN outInfo /\ name # "unknown"
    <3>1. name \in DOMAIN outInfo[key]
      BY <1>2, <1>3, <2>1
    <3> HIDE DEF name, text_
    <3>2. outInfo' = [outInfo EXCEPT ![key] = [outInfo[key] EXCEPT ![name] = Config!Means(name, text_, outInfo[key][name])]]
      BY <1>1, <2>1
    <3> QED
      BY <1>3, <2>1, <3>1, <3>2
  <2>2. CASE ~(key \in DOMAIN outInfo /\ name # "unknown")
    BY <1>1, <1>3, <2>2 DEF Fields
  <2> QED
    BY <2>1, <2>2
<1>7. \A k \in DOMAIN outInfo, a \in Fields : outInfo'[k][a] = Config!Says(k, a, pos)
  <2> SUFFICES ASSUME NEW k \in DOMAIN outInfo, NEW a \in Fields PROVE outInfo'[k][a] = Config!Says(k, a, pos)
    OBVIOUS
  <2>1. CASE Config!Gives(k, a, pos)
    <3>1. Config!Says(k, a, pos) = Config!Value(a, text_)
      BY <1>5, <2>1, SaysLast
    <3>2. k = key /\ a = name /\ (a = "level" => text_ \in DOMAIN Config!LevelOf)
      BY <1>4, <2>1
    <3>3. outInfo'[k][a] = Config!Means(a, text_, outInfo[k][a])
      BY <1>6, <3>2
    <3>4. Config!Means(a, text_, outInfo[k][a]) = Config!Value(a, text_)
      BY <3>2 DEF Config!Means, Config!Value, Fields
    <3> QED
      BY <3>1, <3>3, <3>4
  <2>2. CASE ~Config!Gives(k, a, pos)
    <3>1. Config!Says(k, a, pos) = Config!Says(k, a, pos - 1)
      BY <1>5, <2>2, SaysStill
    <3>2. k = key /\ a = name => Config!Means(name, text_, outInfo[k][a]) = outInfo[k][a]
      BY <1>4, <2>2 DEF Config!Means
    <3> QED
      BY <1>3, <1>6, <3>1, <3>2
  <2> QED
    BY <2>1, <2>2
<1> QED
  BY <1>1, <1>6, <1>7, LineDone

LEMMA NothingStep ==
  ASSUME ConfigInv, part = "config", part' = part, Config!parseNothing
  PROVE  ConfigInv'
<1>1. /\ pos \in 1 .. Len(content) /\ pos' = pos + 1 /\ UNCHANGED <<content, key, outInfo>>
      /\ content[pos].kind = "nothing"
  BY DEF Config!parseNothing, Config!Reading, Config!Line, ConfigInv
<1>2. \A k \in DOMAIN outInfo : DOMAIN outInfo[k] = Fields
  BY DEF ConfigInv
<1>3. \A k \in DOMAIN outInfo, a \in Fields : outInfo[k][a] = Config!Says(k, a, pos)
  <2>1. pos - 1 \in Nat /\ (pos - 1) + 1 = pos
    BY <1>1
  <2>2. \A k, a : Config!Says(k, a, pos) = Config!Says(k, a, pos - 1)
    BY <1>1, <2>1, SaysStill DEF Config!Gives
  <2> QED
    BY <2>2, DefaultFields DEF ConfigInv, Config!SettingsAsSaid
<1> QED
  BY <1>1, <1>2, <1>3, LineDone

LEMMA NextConfig ==
  ASSUME ConfigInv, [ConversionNext]_<<part, vars, config, header, image>>
  PROVE  ConfigInv'
<1>1. part' = part
  BY DEF ConversionNext
<1>2. SUFFICES ASSUME part = "config" PROVE ConfigInv'
  BY <1>1 DEF ConfigInv
<1>3. CASE UNCHANGED config
  BY <1>1, <1>3, SameLines DEF ConfigInv, config, KeyKnown, Config!SettingsAsSaid, Config!SectionKey
<1>4. CASE Config!Next
  <2>1. CASE Config!Over
    BY <1>3, <2>1 DEF Config!Over, Config!vars, config
  <2> QED
    BY <1>1, <1>2, <1>4, <2>1, SectionStep, AttributeStep, NothingStep DEF Config!Next
<1> QED
  BY <1>2, <1>3, <1>4 DEF ConversionNext

\* Each logger gets, for each attribute, what the last line of the file under
\* a section of its name says, however the sections are repeated and mixed.
THEOREM SettingsAreAsSaid == ConversionSpec => []SettingsAsSaid
<1>1. ConfigInv => SettingsAsSaid
  BY DEF ConfigInv, SettingsAsSaid
<1>2. ConfigInv /\ [ConversionNext]_<<part, vars, config, header, image>> => ConfigInv'
  BY NextConfig
<1> QED
  BY <1>1, <1>2, InitConfig, PTL DEF ConversionSpec

-----------------------------------------------------------------------------
(***************************************************************************)
(* HeaderFields: where the fields are, what a copy writes and what is      *)
(* read.                                                                   *)
(***************************************************************************)
LEMMA Offsets ==
  /\ Header!AnoType = 0 /\ Header!Status = 50 /\ Header!FilePath = 100 /\ Header!AnoRes = 612
  /\ Header!Ints = 664 /\ Header!Total = 680 /\ Header!Cells = 0 .. 679
BY DEF Header!AnoType, Header!Status, Header!FilePath, Header!AnoRes, Header!Ints, Header!Total, Header!Cells,
       Header!FILE_NAME_MAX_SIZE

Characters(name) == {name} \X Nat

LEMMA TextIs ==
  ASSUME NEW name, NEW n \in Nat
  PROVE  Header!Text(name, n) \in Seq(Characters(name)) /\ Len(Header!Text(name, n)) = n
<1>1. Header!Text(name, n) = [i \in 1 .. n |-> <<name, i>>]
  BY DEF Header!Text
<1>2. \A i \in 1 .. n : <<name, i>> \in Characters(name)
  BY DEF Characters
<1> QED
  BY <1>1, <1>2

\* new is old with a copy of s, and its NUL, at a place.
Copied(old, new, at, s) ==
  /\ \A i \in Nat : i <= 679 /\ (i < at \/ i > at + Len(s)) => new.bytes[i] = old.bytes[i]
  /\ \A i \in Nat : i <= 679 /\ at <= i /\ i < at + Len(s) => new.bytes[i] = s[i - at + 1]
  /\ at + Len(s) <= 679 => new.bytes[at + Len(s)] = Header!NUL
  /\ new.outside = (old.outside \/ at + Len(s) >= 680)

LEMMA CopyIs ==
  ASSUME NEW info, NEW at \in Nat, NEW T, NEW s \in Seq(T)
  PROVE  Copied(info, Header!Copy(info, at, s), at, s)
<1> DEFINE all == Append(s, Header!NUL)
           new == Header!Copy(info, at, s)
           bytes == [i \in 0 .. 679 |-> IF i - at + 1 \in DOMAIN all THEN all[i - at + 1] ELSE info.bytes[i]]
<1>1. Header!NUL \in T \cup {Header!NUL} /\ s \in Seq(T \cup {Header!NUL}) /\ Len(s) \in Nat
  OBVIOUS
<1>2. /\ Len(all) = Len(s) + 1 /\ DOMAIN all = 1 .. Len(s) + 1
      /\ \A k \in 1 .. Len(s) : all[k] = s[k]
      /\ all[Len(s) + 1] = Header!NUL
  BY <1>1, AppendProperties
<1>3. new = [bytes |-> bytes, outside |-> info.outside \/ at + Len(all) > 680]
  BY Offsets DEF Header!Copy
<1>4. at + Len(all) > 680 <=> at + Len(s) >= 680
  BY <1>1, <1>2
<1> HIDE DEF all, new, bytes
<1>5. new.outside = (info.outside \/ at + Len(s) >= 680)
  <2>1. new.outside = (info.outside \/ at + Len(all) > 680)
    BY <1>3
  <2> QED
    BY <1>4, <2>1
<1>6. new.bytes = bytes
  BY <1>3
<1>7. \A i \in Nat : i <= 679 => new.bytes[i] = IF i - at + 1 \in 1 .. Len(s) + 1 THEN all[i - at + 1] ELSE info.bytes[i]
  <2>1. \A i \in Nat : i <= 679 => i \in 0 .. 679
    OBVIOUS
  <2>2. DOMAIN all = 1 .. Len(s) + 1
    BY <1>2
  <2>3. \A i \in 0 .. 679 : bytes[i] = IF i - at + 1 \in DOMAIN all THEN all[i - at + 1] ELSE info.bytes[i]
    BY DEF bytes
  <2> SUFFICES ASSUME NEW i \in Nat, i <= 679
               PROVE  new.bytes[i] = IF i - at + 1 \in 1 .. Len(s) + 1 THEN all[i - at + 1] ELSE info.bytes[i]
    OBVIOUS
  <2>4. i \in 0 .. 679
    BY <2>1
  <2> QED
    BY <1>6, <2>2, <2>3, <2>4
<1>8. \A i \in Nat : i <= 679 /\ (i < at \/ i > at + Len(s)) => new.bytes[i] = info.bytes[i]
  BY <1>1, <1>7
<1>9. \A i \in Nat : i <= 679 /\ at <= i /\ i < at + Len(s) => new.bytes[i] = s[i - at + 1]
  <2> SUFFICES ASSUME NEW i \in Nat, i <= 679, at <= i, i < at + Len(s) PROVE new.bytes[i] = s[i - at + 1]
    OBVIOUS
  <2>1. i - at + 1 \in 1 .. Len(s) /\ i - at + 1 \in 1 .. Len(s) + 1
    BY <1>1
  <2> QED
    BY <1>2, <1>7, <2>1
<1>10. at + Len(s) <= 679 => new.bytes[at + Len(s)] = Header!NUL
  <2> SUFFICES ASSUME at + Len(s) <= 679 PROVE new.bytes[at + Len(s)] = Header!NUL
    OBVIOUS
  <2>1. at + Len(s) \in Nat /\ (at + Len(s)) - at + 1 = Len(s) + 1 /\ Len(s) + 1 \in 1 .. Len(s) + 1
    BY <1>1
  <2> QED
    BY <1>2, <1>7, <2>1
<1> QED
  BY <1>5, <1>8, <1>9, <1>10 DEF Copied, new

\* Of a text that was copied or is read there is its first character, and where
\* it reaches nothing but its characters and its NUL.
Shows(info, at, s, T) ==
  /\ \A i \in Nat : i <= 679 /\ at <= i /\ i <= at + Len(s) => info.bytes[i] \in T \cup {Header!NUL}
  /\ at <= 679 /\ Len(s) > 0 => info.bytes[at] \in T

LEMMA CopiedBytes ==
  ASSUME NEW old, NEW new, NEW at \in Nat, NEW T, NEW s \in Seq(T), Copied(old, new, at, s)
  PROVE  Shows(new, at, s, T)
<1>1. Len(s) \in Nat /\ \A k \in 1 .. Len(s) : s[k] \in T
  OBVIOUS
<1>2. ASSUME NEW i \in Nat, i <= 679, at <= i, i < at + Len(s) PROVE new.bytes[i] \in T
  <2>1. i - at + 1 \in 1 .. Len(s)
    BY <1>1, <1>2
  <2>2. new.bytes[i] = s[i - at + 1]
    BY <1>2 DEF Copied
  <2> QED
    BY <1>1, <2>1, <2>2
<1>3. ASSUME NEW i \in Nat, i <= 679, i = at + Len(s) PROVE new.bytes[i] = Header!NUL
  BY <1>1, <1>3 DEF Copied
<1>4. at <= 679 /\ Len(s) > 0 => at <= at /\ at < at + Len(s)
  BY <1>1
<1>5. \A i \in Nat : i <= 679 /\ at <= i /\ i <= at + Len(s) => i < at + Len(s) \/ i = at + Len(s)
  BY <1>1
<1>6. \A i \in Nat : i <= 679 /\ at <= i /\ i <= at + Len(s) => new.bytes[i] \in T \cup {Header!NUL}
  BY <1>2, <1>3, <1>5
<1>7. at <= 679 /\ Len(s) > 0 => new.bytes[at] \in T
  BY <1>2, <1>4
<1> QED
  BY <1>6, <1>7 DEF Shows

\* The text is there, and its NUL behind it.
Holds(info, at, s) ==
  /\ \A i \in Nat : i <= 679 /\ at <= i /\ i < at + Len(s) => info.bytes[i] = s[i - at + 1]
  /\ info.bytes[at + Len(s)] = Header!NUL

LEMMA HeldAtFirst ==
  ASSUME NEW old, NEW new, NEW at, NEW s, Copied(old, new, at, s), at + Len(s) <= 679
  PROVE  Holds(new, at, s)
BY DEF Copied, Holds

LEMMA StillHeld ==
  ASSUME NEW old, NEW new, NEW at \in Nat, NEW T, NEW s \in Seq(T), Copied(old, new, at, s),
         NEW b \in Nat, NEW t \in Seq(T), Holds(old, b, t), b + Len(t) <= 679,
         b + Len(t) < at \/ b > at + Len(s)
  PROVE  Holds(new, b, t)
<1>1. Len(s) \in Nat /\ Len(t) \in Nat
  OBVIOUS
<1>2. ASSUME NEW i \in Nat, i <= 679, b <= i, i <= b + Len(t) PROVE new.bytes[i] = old.bytes[i]
  <2>1. i < at \/ i > at + Len(s)
    BY <1>1, <1>2
  <2> QED
    BY <1>2, <2>1 DEF Copied
<1>3. b + Len(t) \in Nat /\ b <= b + Len(t) /\ b + Len(t) <= b + Len(t)
  BY <1>1
<1>4. new.bytes[b + Len(t)] = Header!NUL
  BY <1>2, <1>3 DEF Holds
<1>5. ASSUME NEW i \in Nat, i <= 679, b <= i, i < b + Len(t) PROVE new.bytes[i] = t[i - b + 1]
  <2>1. i <= b + Len(t)
    BY <1>1, <1>5
  <2> QED
    BY <1>2, <1>5, <2>1 DEF Holds
<1> QED
  BY <1>4, <1>5 DEF Holds

\* A text is read as far as the first NUL, where that is in the struct.
LEMMA ReadText ==
  ASSUME NEW info, NEW at \in Nat, NEW T, NEW s \in Seq(T), Header!NUL \notin T,
         at + Len(s) <= 679, Holds(info, at, s)
  PROVE  Header!CString(info, at) = s
<1> DEFINE ends == {i \in at .. 679 : info.bytes[i] = Header!NUL}
           first == CHOOSE i \in ends : \A j \in ends : i <= j
<1>1. Len(s) \in Nat /\ \A k \in 1 .. Len(s) : s[k] \in T
  OBVIOUS
<1>2. at + Len(s) \in ends
  BY <1>1 DEF Holds
<1>3. ASSUME NEW j \in ends PROVE at + Len(s) <= j
  <2> SUFFICES ASSUME j < at + Len(s) PROVE FALSE
    BY <1>1
  <2>1. j \in Nat /\ j <= 679 /\ at <= j /\ j - at + 1 \in 1 .. Len(s)
    BY <1>1
  <2>2. info.bytes[j] = s[j - at + 1]
    BY <2>1 DEF Holds
  <2> QED
    BY <1>1, <2>1, <2>2
<1>4. ends \subseteq Int
  OBVIOUS
<1>5. Header!CString(info, at) = [i \in 1 .. (IF ends = {} THEN 680 ELSE first) - at |-> info.bytes[at + i - 1]]
  <2>1. at .. Header!Total - 1 = at .. 679
    BY Offsets
  <2> QED
    BY <2>1, Offsets DEF Header!CString
<1> HIDE DEF ends
<1>6. first = at + Len(s)
  <2>1. first \in ends /\ \A j \in ends : first <= j
    BY <1>2, <1>3
  <2> HIDE DEF first
  <2> QED
    BY <1>1, <1>2, <1>3, <1>4, <2>1
<1> HIDE DEF first
<1>7. Header!CString(info, at) = [i \in 1 .. Len(s) |-> info.bytes[at + i - 1]]
  <2>1. first - at = Len(s) /\ ends # {}
    BY <1>1, <1>2, <1>6
  <2> QED
    BY <1>5, <2>1
<1>8. ASSUME NEW i \in 1 .. Len(s) PROVE info.bytes[at + i - 1] = s[i]
  <2>1. at + i - 1 \in Nat /\ at + i - 1 <= 679 /\ at <= at + i - 1 /\ at + i - 1 < at + Len(s) /\ (at + i - 1) - at + 1 = i
    BY <1>1
  <2> QED
    BY <2>1 DEF Holds
<1>9. s = [i \in 1 .. Len(s) |-> s[i]]
  OBVIOUS
<1> QED
  BY <1>7, <1>8, <1>9

\* What is read is what the bytes are.
LEMMA ReadBack ==
  ASSUME NEW info, NEW at \in 0 .. 679, NEW T, NEW s \in Seq(T), Header!CString(info, at) = s
  PROVE  Shows(info, at, s, T)
<1> DEFINE ends == {i \in at .. 679 : info.bytes[i] = Header!NUL}
           first == CHOOSE i \in ends : \A j \in ends : i <= j
           end == IF ends = {} THEN 680 ELSE first
<1>1. ends # {} => first \in ends
  <2>1. ends \in SUBSET Nat
    OBVIOUS
  <2> HIDE DEF ends
  <2>2. ends # {} => \E i \in ends : \A j \in ends : i <= j
    BY <2>1, LeastNumber
  <2> QED
    BY <2>2
<1>2. end \in at .. 680 /\ (end < 680 => info.bytes[end] = Header!NUL)
  <2>1. CASE ends = {}
    <3>1. end = 680
      BY <2>1
    <3> HIDE DEF end
    <3> QED
      BY <3>1
  <2>2. CASE ends # {}
    <3>1. end = first
      BY <2>2
    <3>2. end \in ends
      BY <1>1, <2>2, <3>1
    <3> HIDE DEF end
    <3> QED
      BY <3>2
  <2> QED
    BY <2>1, <2>2
<1>3. s = [i \in 1 .. end - at |-> info.bytes[at + i - 1]]
  <2>1. at .. Header!Total - 1 = at .. 679
    BY Offsets
  <2>2. Header!Total = 680
    BY Offsets
  <2> QED
    BY <2>1, <2>2 DEF Header!CString
<1> HIDE DEF end
<1>4. end - at \in Nat /\ Len(s) \in Nat /\ Len(s) = end - at
  <2>1. DOMAIN s = 1 .. Len(s) /\ Len(s) \in Nat
    OBVIOUS
  <2>2. DOMAIN s = 1 .. end - at
    BY <1>3
  <2> QED
    BY <1>2, <2>1, <2>2
<1>5. ASSUME NEW i \in Nat, i <= 679, at <= i, i < at + Len(s) PROVE info.bytes[i] \in T
  <2>1. i - at + 1 \in 1 .. Len(s) /\ at + (i - at + 1) - 1 = i
    BY <1>4, <1>5
  <2>2. s[i - at + 1] = info.bytes[i]
    BY <1>3, <1>4, <2>1
  <2>3. s[i - at + 1] \in T
    BY <2>1
  <2> QED
    BY <2>2, <2>3
<1>6. ASSUME NEW i \in Nat, i <= 679, i = at + Len(s) PROVE info.bytes[i] = Header!NUL
  BY <1>2, <1>4, <1>6
<1>7. \A i \in Nat : i <= 679 /\ at <= i /\ i <= at + Len(s) => i < at + Len(s) \/ i = at + Len(s)
  BY <1>4
<1>8. Len(s) > 0 => at <= at /\ at < at + Len(s)
  BY <1>4
<1> QED
  BY <1>5, <1>6, <1>7, <1>8 DEF Shows

\* What the two sides have in their structs before they copy.
LEMMA OnlyInts ==
  ASSUME NEW whose, NEW blank, blank = Header!SetInts(Header!Fresh, whose)
  PROVE  blank.outside = FALSE /\ Header!IntsAre(blank, whose)
<1> DEFINE ints == [i \in Header!Cells |-> IF i >= Header!Ints THEN <<whose, i - Header!Ints>>
                                           ELSE Header!Fresh.bytes[i]]
<1>1. blank = [Header!Fresh EXCEPT !.bytes = ints]
  BY DEF Header!SetInts
<1>2. blank = [bytes |-> ints, outside |-> FALSE]
  <2> HIDE DEF ints
  <2> QED
    BY <1>1 DEF Header!Fresh
<1>3. blank.outside = FALSE /\ blank.bytes = ints
  <2> HIDE DEF ints
  <2> QED
    BY <1>2
<1>4. \A i \in Header!Ints .. Header!Total - 1 : i \in Header!Cells /\ i >= Header!Ints
  BY Offsets
<1> QED
  BY <1>3, <1>4 DEF Header!IntsAre

\* Copies that end before the integers leave them as they are.
LEMMA IntsStay ==
  ASSUME NEW old, NEW new, NEW at \in Nat, NEW T, NEW s \in Seq(T), Copied(old, new, at, s), at + Len(s) < 664,
         NEW whose, old.outside = FALSE, Header!IntsAre(old, whose)
  PROVE  new.outside = FALSE /\ Header!IntsAre(new, whose)
<1>1. Len(s) \in Nat
  OBVIOUS
<1>2. ASSUME NEW i \in Header!Ints .. Header!Total - 1 PROVE new.bytes[i] = <<whose, i - Header!Ints>>
  <2>1. i \in Nat /\ i <= 679 /\ i > at + Len(s)
    BY <1>1, Offsets
  <2>2. new.bytes[i] = old.bytes[i]
    BY <2>1 DEF Copied
  <2> QED
    BY <2>2 DEF Header!IntsAre
<1>3. new.outside = FALSE
  <2>1. ~(at + Len(s) >= 680)
    BY <1>1
  <2>2. new.outside = (old.outside \/ at + Len(s) >= 680)
    BY DEF Copied
  <2> QED
    BY <2>1, <2>2
<1> QED
  BY <1>2, <1>3 DEF Header!IntsAre

-----------------------------------------------------------------------------
(***************************************************************************)
(* HeaderFields: the request.                                              *)
(***************************************************************************)
Lengths == [ano : Nat, path : Nat \ {0}, status : Nat \ {0}, res : Nat \ {0}]

\* What preprocessFileInfo leaves.
Requested ==
  LET path == Header!Copy(Header!SetInts(Header!Fresh, "request"), Header!FilePath, Header!Text("path", asked.path))
      ano == Header!Copy(path, Header!AnoType, Header!Text("ano", asked.ano))
      status == Header!Copy(ano, Header!Status, Header!Text("status", asked.status))
  IN  Header!Copy(status, Header!AnoRes, Header!Text("res", asked.res))

LEMMA RequestIsWhole ==
  ASSUME asked \in Lengths, recvInfo = Requested
  PROVE  Header!RequestReadsBack <=> Header!RequestFits
<1> DEFINE blank == Header!SetInts(Header!Fresh, "request")
           a == asked.ano
           p == asked.path
           s == asked.status
           r == asked.res
           ano == Header!Text("ano", a)
           path == Header!Text("path", p)
           status == Header!Text("status", s)
           rest == Header!Text("res", r)
           one == Header!Copy(blank, 100, path)
           two == Header!Copy(one, 0, ano)
           three == Header!Copy(two, 50, status)
           four == Header!Copy(three, 612, rest)
           T == Characters("ano") \cup Characters("path") \cup Characters("status") \cup Characters("res")
<1>1. recvInfo = four
  BY Offsets DEF Requested
<1>2. a \in Nat /\ p \in Nat \ {0} /\ s \in Nat \ {0} /\ r \in Nat \ {0}
  BY DEF Lengths
<1>3. Header!RequestFits <=> a < 50 /\ s < 50 /\ p < 512 /\ r < 52
  BY DEF Header!RequestFits
<1>4. Header!RequestReadsBack <=>
         /\ ~four.outside /\ Header!IntsAre(four, "request")
         /\ Header!CString(four, 0) = ano
         /\ Header!CString(four, 50) = status
         /\ Header!CString(four, 100) = path
  BY <1>1, Offsets DEF Header!RequestReadsBack
<1> HIDE DEF a, p, s, r
<1>5. /\ ano \in Seq(Characters("ano")) /\ Len(ano) = a
      /\ path \in Seq(Characters("path")) /\ Len(path) = p
      /\ status \in Seq(Characters("status")) /\ Len(status) = s
      /\ rest \in Seq(Characters("res")) /\ Len(rest) = r
  BY <1>2, TextIs
<1> HIDE DEF ano, path, status, rest
<1>6. ano \in Seq(T) /\ path \in Seq(T) /\ status \in Seq(T) /\ rest \in Seq(T)
  BY <1>5
<1>7. Header!NUL \notin T
  BY DEF Header!NUL, Characters
<1>8. blank.outside = FALSE /\ Header!IntsAre(blank, "request")
  BY OnlyInts
<1> HIDE DEF T, blank
<1>9. Copied(blank, one, 100, path)
  BY <1>6, CopyIs
<1> HIDE DEF one
<1>10. Copied(one, two, 0, ano)
  BY <1>6, CopyIs
<1> HIDE DEF two
<1>11. Copied(two, three, 50, status)
  BY <1>6, CopyIs
<1> HIDE DEF three
<1>12. Copied(three, four, 612, rest)
  BY <1>6, CopyIs
<1> HIDE DEF four
<1>13. ASSUME a < 50, s < 50, p < 512, r < 52 PROVE Header!RequestReadsBack
  <2>1. 100 + Len(path) < 612 /\ 0 + Len(ano) < 50 /\ 50 + Len(status) < 100 /\ 612 + Len(rest) < 664
    BY <1>2, <1>5, <1>13
  <2>2. /\ one.outside = FALSE /\ Header!IntsAre(one, "request")
        /\ two.outside = FALSE /\ Header!IntsAre(two, "request")
        /\ three.outside = FALSE /\ Header!IntsAre(three, "request")
        /\ four.outside = FALSE /\ Header!IntsAre(four, "request")
    <3>1. 100 + Len(path) < 664 /\ 0 + Len(ano) < 664 /\ 50 + Len(status) < 664
      BY <1>2, <1>5, <2>1
    <3>2. one.outside = FALSE /\ Header!IntsAre(one, "request")
      <4> DEFINE at == 100
      <4>1. at + Len(path) < 664 /\ path \in Seq(T) /\ at \in Nat /\ Copied(blank, one, at, path)
        BY <1>6, <1>9, <3>1
      <4> HIDE DEF at
      <4> QED
        BY <1>8, <4>1, IntsStay
    <3>3. two.outside = FALSE /\ Header!IntsAre(two, "request")
      <4> DEFINE at == 0
      <4>1. at + Len(ano) < 664 /\ ano \in Seq(T) /\ at \in Nat /\ Copied(one, two, at, ano)
        BY <1>6, <1>10, <3>1
      <4> HIDE DEF at
      <4> QED
        BY <3>2, <4>1, IntsStay
    <3>4. three.outside = FALSE /\ Header!IntsAre(three, "request")
      <4> DEFINE at == 50
      <4>1. at + Len(status) < 664 /\ status \in Seq(T) /\ at \in Nat /\ Copied(two, three, at, status)
        BY <1>6, <1>11, <3>1
      <4> HIDE DEF at
      <4> QED
        BY <3>3, <4>1, IntsStay
    <3>5. four.outside = FALSE /\ Header!IntsAre(four, "request")
      <4> DEFINE at == 612
      <4>1. at + Len(rest) < 664 /\ rest \in Seq(T) /\ at \in Nat /\ Copied(three, four, at, rest)
        BY <1>6, <1>12, <2>1
      <4> HIDE DEF at
      <4> QED
        BY <3>4, <4>1, IntsStay
    <3> QED
      BY <3>2, <3>3, <3>4, <3>5
  <2>3. Header!CString(four, 0) = ano
    <3>1. 0 + Len(ano) <= 679
      BY <1>2, <1>5, <2>1
    <3>2. Holds(two, 0, ano)
      BY <1>10, <3>1, HeldAtFirst
    <3>3. Holds(three, 0, ano)
      BY <1>6, <1>11, <2>1, <3>1, <3>2, StillHeld
    <3>4. Holds(four, 0, ano)
      <4>1. 0 + Len(ano) < 612
        BY <1>2, <1>5, <2>1
      <4> QED
        BY <1>6, <1>12, <3>1, <3>3, <4>1, StillHeld
    <3> QED
      BY <1>6, <1>7, <3>1, <3>4, ReadText
  <2>4. Header!CString(four, 50) = status
    <3>1. 50 + Len(status) <= 679 /\ 50 + Len(status) < 612
      BY <1>2, <1>5, <2>1
    <3>2. Holds(three, 50, status)
      BY <1>11, <3>1, HeldAtFirst
    <3>3. Holds(four, 50, status)
      BY <1>6, <1>12, <3>1, <3>2, StillHeld
    <3> QED
      BY <1>6, <1>7, <3>1, <3>3, ReadText
  <2>5. Header!CString(four, 100) = path
    <3>1. 100 + Len(path) <= 679 /\ 100 > 0 + Len(ano)
      BY <1>2, <1>5, <2>1
    <3>2. Holds(one, 100, path)
      BY <1>9, <3>1, HeldAtFirst
    <3>3. Holds(two, 100, path)
      BY <1>6, <1>10, <3>1, <3>2, StillHeld
    <3>4. Holds(three, 100, path)
      <4>1. 100 > 50 + Len(status)
        BY <1>2, <1>5, <2>1
      <4> QED
        BY <1>6, <1>11, <3>1, <3>3, <4>1, StillHeld
    <3>5. Holds(four, 100, path)
      BY <1>6, <1>12, <2>1, <3>1, <3>4, StillHeld
    <3> QED
      BY <1>6, <1>7, <3>1, <3>5, ReadText
  <2> QED
    BY <1>4, <2>2, <2>3, <2>4, <2>5
<1>14. ASSUME Header!RequestReadsBack PROVE a < 50 /\ s < 50 /\ p < 512 /\ r < 52
  <2>1. Header!IntsAre(four, "request") /\ Header!CString(four, 0) = ano /\ Header!CString(four, 100) = path
    BY <1>4, <1>14
  <2>2. Shows(four, 0, ano, Characters("ano")) /\ Shows(four, 100, path, Characters("path"))
    BY <1>5, <2>1, ReadBack
  <2>3. \A i \in Nat : i <= 679 /\ i <= a => four.bytes[i] \in Characters("ano") \cup {Header!NUL}
    BY <1>2, <1>5, <2>2 DEF Shows
  <2>4. /\ \A i \in Nat : i <= 679 /\ 100 <= i /\ i <= 100 + p => four.bytes[i] \in Characters("path") \cup {Header!NUL}
        /\ four.bytes[100] \in Characters("path")
    BY <1>2, <1>5, <2>2 DEF Shows
  <2>5. Shows(three, 50, status, Characters("status")) /\ Shows(four, 612, rest, Characters("res"))
    BY <1>5, <1>11, <1>12, CopiedBytes
  <2>6. /\ \A i \in Nat : i <= 679 /\ 50 <= i /\ i <= 50 + s => three.bytes[i] \in Characters("status") \cup {Header!NUL}
        /\ three.bytes[50] \in Characters("status")
    BY <1>2, <1>5, <2>5 DEF Shows
  <2>7. /\ \A i \in Nat : i <= 679 /\ 612 <= i /\ i <= 612 + r => four.bytes[i] \in Characters("res") \cup {Header!NUL}
        /\ four.bytes[612] \in Characters("res")
    BY <1>2, <1>5, <2>5 DEF Shows
  <2>8. four.bytes[664] = <<"request", 0>>
    <3>1. 664 \in 664 .. 680 - 1 /\ 664 - 664 = 0
      OBVIOUS
    <3> QED
      BY <2>1, <3>1, Offsets DEF Header!IntsAre
  <2>9. four.bytes[50] = three.bytes[50] /\ four.bytes[100] = three.bytes[100]
    BY <1>12 DEF Copied
  <2>10. r < 52
    <3> SUFFICES ASSUME r >= 52 PROVE FALSE
      BY <1>2
    <3>1. four.bytes[664] \in Characters("res") \cup {Header!NUL}
      BY <1>2, <2>7
    <3> QED
      BY <2>8, <3>1 DEF Characters, Header!NUL
  <2>11. s < 50
    <3> SUFFICES ASSUME s >= 50 PROVE FALSE
      BY <1>2
    <3>1. four.bytes[100] \in Characters("status") \cup {Header!NUL}
      BY <1>2, <2>6, <2>9
    <3> QED
      BY <2>4, <3>1 DEF Characters, Header!NUL
  <2>12. a < 50
    <3> SUFFICES ASSUME a >= 50 PROVE FALSE
      BY <1>2
    <3>1. four.bytes[50] \in Characters("ano") \cup {Header!NUL}
      BY <1>2, <2>3
    <3> QED
      BY <2>6, <2>9, <3>1 DEF Characters, Header!NUL
  <2>13. p < 512
    <3> SUFFICES ASSUME p >= 512 PROVE FALSE
      BY <1>2
    <3>1. four.bytes[612] \in Characters("path") \cup {Header!NUL}
      BY <1>2, <2>4
    <3> QED
      BY <2>7, <3>1 DEF Characters, Header!NUL
  <2> QED
    BY <2>10, <2>11, <2>12, <2>13
<1> QED
  BY <1>3, <1>13, <1>14

\* What the server reads in a request that fits.
LEMMA RequestRead ==
  ASSUME asked \in Lengths, recvInfo = Requested, Header!RequestFits
  PROVE  /\ Header!CString(recvInfo, Header!AnoType) = Header!Text("ano", asked.ano)
         /\ Header!CString(recvInfo, Header!FilePath) = Header!Text("path", asked.path)
BY RequestIsWhole DEF Header!RequestReadsBack

-----------------------------------------------------------------------------
(***************************************************************************)
(* HeaderFields: the labels.                                               *)
(***************************************************************************)
LEMMA Flattened ==
  ASSUME NEW S, NEW seqs \in Seq(Seq(S)), Len(seqs) > 0, \A k \in 1 .. Len(seqs) : Len(seqs[k]) > 0
  PROVE  Header!FlattenSeq(seqs) \in Seq(S) /\ Len(Header!FlattenSeq(seqs)) > 0
<1> DEFINE Upto(f, m) == f = [i \in 1 .. m |-> IF i = 1 THEN seqs[i] ELSE f[i - 1] \o seqs[i]]
           Defined == {m \in Nat : \E f : Upto(f, m)}
           f0 == CHOOSE f : f = [i \in 1 .. Len(seqs) |-> IF i = 1 THEN seqs[i] ELSE f[i - 1] \o seqs[i]]
<1>1. 0 \in Defined
  <2> DEFINE f == [i \in 1 .. 0 |-> <<>>]
  <2>1. \A i \in 1 .. 0 : FALSE
    OBVIOUS
  <2>2. Upto(f, 0)
    BY <2>1
  <2> QED
    BY <2>2
<1>2. ASSUME NEW m \in Nat, m \in Defined PROVE m + 1 \in Defined
  <2>1. PICK f : Upto(f, m)
    BY <1>2
  <2> DEFINE Then(v, i) == IF i = 1 THEN seqs[i] ELSE v \o seqs[i]
             g == [i \in 1 .. m + 1 |-> IF i <= m THEN f[i] ELSE Then(f[m], i)]
  <2>2. \A i \in 1 .. m + 1 : i <= m => i \in 1 .. m
    OBVIOUS
  <2>3. \A i \in 1 .. m : f[i] = Then(f[i - 1], i)
    BY <2>1
  <2> HIDE DEF Upto
  <2>4. \A i \in 1 .. m + 1 : g[i] = Then(g[i - 1], i)
    <3> SUFFICES ASSUME NEW i \in 1 .. m + 1 PROVE g[i] = Then(g[i - 1], i)
      OBVIOUS
    <3> HIDE DEF Then
    <3>1. CASE i = 1
      <4>1. \A v, w : Then(v, i) = Then(w, i)
        BY <3>1 DEF Then
      <4>2. g[i] = Then(f[i - 1], i) \/ g[i] = Then(f[m], i)
        BY <2>2, <2>3
      <4> QED
        BY <4>1, <4>2
    <3>2. CASE i # 1 /\ i <= m
      <4>1. i - 1 \in 1 .. m + 1 /\ i - 1 <= m
        BY <3>2
      <4> QED
        BY <2>2, <2>3, <3>2, <4>1
    <3>3. CASE i # 1 /\ i = m + 1
      <4>1. i - 1 = m /\ m \in 1 .. m + 1 /\ ~ (i <= m)
        BY <3>3
      <4> QED
        BY <4>1
    <3> QED
      BY <3>1, <3>2, <3>3
  <2>5. g = [i \in 1 .. m + 1 |-> IF i = 1 THEN seqs[i] ELSE g[i - 1] \o seqs[i]]
    BY <2>4
  <2>6. Upto(g, m + 1)
    BY <2>5 DEF Upto
  <2> HIDE DEF g
  <2> QED
    BY <2>6
<1>3. Len(seqs) \in Defined
  <2>1. Len(seqs) \in Nat
    OBVIOUS
  <2> HIDE DEF Defined
  <2> QED
    BY <1>1, <1>2, <2>1, InductionOnNat
<1>4. f0 = [i \in 1 .. Len(seqs) |-> IF i = 1 THEN seqs[i] ELSE f0[i - 1] \o seqs[i]]
  BY <1>3
<1>5. Header!FlattenSeq(seqs) = f0[Len(seqs)]
  BY DEF Header!FlattenSeq
<1> HIDE DEF f0
<1>6. \A i \in 1 .. Len(seqs) : f0[i] = IF i = 1 THEN seqs[i] ELSE f0[i - 1] \o seqs[i]
  BY <1>4
<1> DEFINE Good == {m \in Nat : m + 1 <= Len(seqs) => f0[m + 1] \in Seq(S) /\ Len(f0[m + 1]) > 0}
<1>7. \A k \in 1 .. Len(seqs) : seqs[k] \in Seq(S) /\ Len(seqs[k]) \in Nat /\ Len(seqs[k]) > 0
  OBVIOUS
<1>8. 0 \in Good
  <2>1. 1 \in 1 .. Len(seqs)
    OBVIOUS
  <2> QED
    BY <1>6, <1>7, <2>1
<1>9. ASSUME NEW m \in Nat, m \in Good PROVE m + 1 \in Good
  <2> SUFFICES ASSUME m + 2 <= Len(seqs) PROVE f0[m + 2] \in Seq(S) /\ Len(f0[m + 2]) > 0
    OBVIOUS
  <2>1. m + 2 \in 1 .. Len(seqs) /\ m + 2 # 1 /\ (m + 2) - 1 = m + 1 /\ m + 1 <= Len(seqs)
    OBVIOUS
  <2>2. f0[m + 1] \in Seq(S) /\ Len(f0[m + 1]) > 0
    BY <1>9, <2>1
  <2>3. f0[m + 2] = f0[m + 1] \o seqs[m + 2]
    BY <1>6, <2>1
  <2>4. seqs[m + 2] \in Seq(S) /\ Len(seqs[m + 2]) > 0
    BY <1>7, <2>1
  <2>5. Len(f0[m + 1]) \in Nat /\ Len(seqs[m + 2]) \in Nat
    BY <2>2, <2>4
  <2>6. /\ f0[m + 1] \o seqs[m + 2] \in Seq(S)
        /\ Len(f0[m + 1] \o seqs[m + 2]) = Len(f0[m + 1]) + Len(seqs[m + 2])
    BY <2>2, <2>4, ConcatProperties
  <2> DEFINE whole == f0[m + 1] \o seqs[m + 2]
  <2>7. whole \in Seq(S)
    BY <2>6
  <2>8. Len(whole) > 0
    <3>1. \A x, y \in Nat : x > 0 => x + y > 0
      OBVIOUS
    <3>2. Len(f0[m + 1]) + Len(seqs[m + 2]) > 0
      BY <2>2, <2>5, <3>1
    <3> QED
      BY <2>6, <3>2
  <2> QED
    BY <2>3, <2>7, <2>8
<1>10. Len(seqs) - 1 \in Good
  <2>1. Len(seqs) - 1 \in Nat
    OBVIOUS
  <2> HIDE DEF Good
  <2> QED
    BY <1>8, <1>9, <2>1, InductionOnNat
<1> QED
  BY <1>5, <1>10

Marks == Characters("label") \cup Characters("comma") \cup Characters("empty")

LEMMA LabelsAre ==
  ASSUME found \in Seq(Nat \ {0})
  PROVE  Header!DetectRes \in Seq(Marks) /\ Len(Header!DetectRes) > 0
<1>1. CASE found = <<>>
  <2>1. Header!DetectRes = Header!Text("empty", 5)
    BY <1>1 DEF Header!DetectRes
  <2>2. Header!Text("empty", 5) \in Seq(Characters("empty")) /\ Len(Header!Text("empty", 5)) = 5
    BY TextIs
  <2>3. Characters("empty") \subseteq Marks
    BY DEF Marks
  <2>4. Header!Text("empty", 5) \in Seq(Marks)
    BY <2>2, <2>3
  <2> QED
    BY <2>1, <2>2, <2>4
<1>2. CASE found # <<>>
  <2>1. Len(found) \in Nat /\ Len(found) > 0 /\ \A k \in 1 .. Len(found) : found[k] \in Nat \ {0}
    BY <1>2
  <2>2. ASSUME NEW k \in 1 .. Len(found)
        PROVE  Header!Label(k) \in Seq(Marks) /\ Len(Header!Label(k)) > 0
    <3> DEFINE n == found[k]
    <3>1. n \in Nat \ {0} /\ Header!Label(k) = [i \in 1 .. n |-> <<"label", 20 * k + i>>]
      BY <2>1 DEF Header!Label
    <3> HIDE DEF n
    <3>2. \A i \in 1 .. n : <<"label", 20 * k + i>> \in Marks
      <4>1. \A i \in 1 .. n : 20 * k + i \in Nat
        BY <3>1
      <4> QED
        BY <4>1 DEF Marks, Characters
    <3> DEFINE g(i) == <<"label", 20 * k + i>>
    <3>3. Header!Label(k) = [i \in 1 .. n |-> g(i)] /\ \A i \in 1 .. n : g(i) \in Marks
      BY <3>1, <3>2
    <3> HIDE DEF g
    <3>4. [i \in 1 .. n |-> g(i)] \in Seq(Marks) /\ Len([i \in 1 .. n |-> g(i)]) = n
      BY <3>1, <3>3
    <3>5. Header!Label(k) \in Seq(Marks) /\ Len(Header!Label(k)) = n
      BY <3>3, <3>4
    <3>6. n > 0
      BY <3>1
    <3> QED
      BY <3>5, <3>6
  <2>3. Header!Comma \in Marks
    BY DEF Header!Comma, Marks, Characters
  <2>4. ASSUME NEW k \in 1 .. Len(found)
        PROVE  Append(Header!Label(k), Header!Comma) \in Seq(Marks) /\ Len(Append(Header!Label(k), Header!Comma)) > 0
    BY <2>2, <2>3, AppendProperties
  <2>5. /\ Header!Joined \in Seq(Seq(Marks)) /\ Len(Header!Joined) = Len(found)
        /\ \A k \in 1 .. Len(found) : Len(Header!Joined[k]) > 0
    <3> DEFINE n == Len(found)
               J(k) == IF k = n THEN Header!Label(k) ELSE Append(Header!Label(k), Header!Comma)
    <3>1. Header!Joined = [k \in 1 .. n |-> J(k)]
      BY DEF Header!Joined
    <3>2. \A k \in 1 .. n : J(k) \in Seq(Marks) /\ Len(J(k)) > 0
      BY <2>2, <2>4
    <3>3. n \in Nat
      BY <2>1
    <3> HIDE DEF n, J
    <3>4. Header!Joined \in Seq(Seq(Marks)) /\ Len(Header!Joined) = n
      BY <3>1, <3>2, <3>3
    <3>5. \A k \in 1 .. n : Len(Header!Joined[k]) > 0
      BY <3>1, <3>2
    <3> QED
      BY <3>4, <3>5 DEF n
  <2>6. Header!DetectRes = Header!FlattenSeq(Header!Joined)
    BY <1>2 DEF Header!DetectRes
  <2> QED
    BY <2>1, <2>5, <2>6, Flattened
<1> QED
  BY <1>1, <1>2

-----------------------------------------------------------------------------
(***************************************************************************)
(* HeaderFields: the reply.                                                *)
(***************************************************************************)
Replied ==
  LET ano == Header!Copy(Header!SetInts(Header!Fresh, "reply"), Header!AnoType,
                         Header!CString(recvInfo, Header!AnoType))
      path == Header!Copy(ano, Header!FilePath, Header!ResultPath(Header!CString(recvInfo, Header!FilePath)))
      status == Header!Copy(path, Header!Status, Header!Text("sendRes", 7))
  IN  Header!Copy(status, Header!AnoRes, Header!DetectRes)

Places == Characters("path") \cup Characters("_result.jpg")

LEMMA ResultPathIs ==
  ASSUME NEW p \in Nat, p >= 4
  PROVE  /\ Header!ResultPath(Header!Text("path", p)) =
              SubSeq(Header!Text("path", p), 1, p - 4) \o Header!Extension
         /\ Header!ResultPath(Header!Text("path", p)) \in Seq(Places)
         /\ Len(Header!ResultPath(Header!Text("path", p))) = p + 7
<1> DEFINE path == Header!Text("path", p)
           front == SubSeq(path, 1, p - 4)
<1>1. path \in Seq(Characters("path")) /\ Len(path) = p
  BY TextIs
<1>2. Header!Extension \in Seq(Characters("_result.jpg")) /\ Len(Header!Extension) = 11
  BY TextIs DEF Header!Extension
<1>3. Header!ResultPath(path) = front \o Header!Extension
  BY <1>1 DEF Header!ResultPath
<1> HIDE DEF path
<1>4. path \in Seq(Places) /\ Header!Extension \in Seq(Places)
  BY <1>1, <1>2 DEF Places
<1>5. front \in Seq(Places) /\ Len(front) = p - 4
  <2>1. 1 \in 1 .. Len(path) + 1 /\ p - 4 \in 0 .. Len(path)
    BY <1>1
  <2> QED
    BY <1>1, <1>4, <2>1
<1> HIDE DEF front
<1>6. front \o Header!Extension \in Seq(Places) /\ Len(front \o Header!Extension) = (p - 4) + 11
  <2>1. /\ front \o Header!Extension \in Seq(Places)
        /\ Len(front \o Header!Extension) = Len(front) + Len(Header!Extension)
    BY <1>4, <1>5, ConcatProperties
  <2> QED
    BY <1>2, <1>5, <2>1
<1>7. (p - 4) + 11 = p + 7
  OBVIOUS
<1> QED
  BY <1>3, <1>6, <1>7 DEF path, front

LEMMA ReplyIsWhole ==
  ASSUME asked \in Lengths, recvInfo = Requested, sendInfo = Replied, found \in Seq(Nat \ {0}),
         Len(Header!CString(recvInfo, Header!FilePath)) >= 4, Header!RequestFits
  PROVE  Header!ReplyReadsBack <=> asked.path + 7 < 512 /\ Len(Header!DetectRes) < 52
<1> DEFINE blank == Header!SetInts(Header!Fresh, "reply")
           a == asked.ano
           p == asked.path
           labels == Header!DetectRes
           n == Len(labels)
           ano == Header!Text("ano", a)
           path == Header!ResultPath(Header!Text("path", p))
           status == Header!Text("sendRes", 7)
           one == Header!Copy(blank, 0, ano)
           two == Header!Copy(one, 100, path)
           three == Header!Copy(two, 50, status)
           four == Header!Copy(three, 612, labels)
           T == Characters("ano") \cup Places \cup Characters("sendRes") \cup Marks
<1>1. sendInfo = four
  BY RequestRead, Offsets DEF Replied
<1>2. a \in Nat /\ a < 50 /\ p \in Nat /\ p >= 4
  <2>1. asked.path \in Nat /\ asked.ano \in Nat
    BY DEF Lengths
  <2>2. Len(Header!Text("path", asked.path)) = asked.path
    BY <2>1, TextIs
  <2>3. asked.ano < 50
    BY DEF Header!RequestFits
  <2> QED
    BY <2>1, <2>2, <2>3, RequestRead
<1>3. labels \in Seq(Marks) /\ n \in Nat /\ n > 0
  BY LabelsAre
<1>4. path \in Seq(Places) /\ Len(path) = p + 7
  BY <1>2, ResultPathIs
<1>5. Header!ReplyReadsBack <=>
         /\ ~four.outside /\ Header!IntsAre(four, "reply")
         /\ Header!CString(four, 0) = ano
         /\ Header!CString(four, 50) = status
         /\ Header!CString(four, 100) = path
         /\ Header!CString(four, 612) = labels
  <2>1. path = SubSeq(Header!Text("path", asked.path), 1, asked.path - 4) \o Header!Extension
    BY <1>2, ResultPathIs
  <2> HIDE DEF path, four, a, p
  <2>2. ano = Header!Text("ano", asked.ano)
    BY DEF a
  <2> HIDE DEF ano
  <2> QED
    BY <1>1, <2>1, <2>2, Offsets DEF Header!ReplyReadsBack
<1> HIDE DEF a, p
<1>6. /\ ano \in Seq(Characters("ano")) /\ Len(ano) = a
      /\ status \in Seq(Characters("sendRes")) /\ Len(status) = 7
  BY <1>2, TextIs
<1> HIDE DEF ano, path, status, labels
<1>7. ano \in Seq(T) /\ path \in Seq(T) /\ status \in Seq(T) /\ labels \in Seq(T)
  <2> HIDE DEF Places, Marks
  <2> QED
    BY <1>3, <1>4, <1>6
<1>8. Header!NUL \notin T
  BY DEF Header!NUL, Characters, Places, Marks
<1>9. blank.outside = FALSE /\ Header!IntsAre(blank, "reply")
  BY OnlyInts
<1> HIDE DEF T, blank
<1>10. Copied(blank, one, 0, ano)
  BY <1>7, CopyIs
<1> HIDE DEF one
<1>11. Copied(one, two, 100, path)
  BY <1>7, CopyIs
<1> HIDE DEF two
<1>12. Copied(two, three, 50, status)
  BY <1>7, CopyIs
<1> HIDE DEF three
<1>13. Copied(three, four, 612, labels)
  BY <1>7, CopyIs
<1> HIDE DEF four
<1>14. Len(labels) = n
  OBVIOUS
<1> HIDE DEF n
<1>15. ASSUME p + 7 < 512, n < 52 PROVE Header!ReplyReadsBack
  <2>1. 0 + Len(ano) < 50 /\ 100 + Len(path) < 612 /\ 50 + Len(status) < 100
    BY <1>2, <1>4, <1>6, <1>15
  <2>2. four.outside = FALSE /\ Header!IntsAre(four, "reply")
    <3>1. 0 + Len(ano) < 664 /\ 100 + Len(path) < 664 /\ 50 + Len(status) < 664
      BY <1>2, <1>4, <1>6, <2>1
    <3>2. one.outside = FALSE /\ Header!IntsAre(one, "reply")
      BY <1>7, <1>9, <1>10, <3>1, IntsStay
    <3>3. two.outside = FALSE /\ Header!IntsAre(two, "reply")
      <4> DEFINE at == 100
      <4>1. at + Len(path) < 664 /\ path \in Seq(T) /\ at \in Nat /\ Copied(one, two, at, path)
        BY <1>7, <1>11, <3>1
      <4> HIDE DEF at
      <4> QED
        BY <3>2, <4>1, IntsStay
    <3>4. three.outside = FALSE /\ Header!IntsAre(three, "reply")
      <4> DEFINE at == 50
      <4>1. at + Len(status) < 664 /\ status \in Seq(T) /\ at \in Nat /\ Copied(two, three, at, status)
        BY <1>7, <1>12, <3>1
      <4> HIDE DEF at
      <4> QED
        BY <3>3, <4>1, IntsStay
    <3> DEFINE at == 612
    <3>5. at + Len(labels) < 664 /\ at \in Nat /\ Copied(three, four, at, labels) /\ labels \in Seq(T)
      BY <1>3, <1>7, <1>13, <1>14, <1>15
    <3> HIDE DEF at
    <3> QED
      BY <3>4, <3>5, IntsStay
  <2>3. Header!CString(four, 0) = ano
    <3>1. 0 + Len(ano) <= 679 /\ 0 + Len(ano) < 100 /\ 0 + Len(ano) < 612
      BY <1>2, <1>6, <2>1
    <3>2. Holds(one, 0, ano)
      BY <1>10, <3>1, HeldAtFirst
    <3>3. Holds(two, 0, ano)
      BY <1>7, <1>11, <3>1, <3>2, StillHeld
    <3>4. Holds(three, 0, ano)
      BY <1>7, <1>12, <2>1, <3>1, <3>3, StillHeld
    <3>5. Holds(four, 0, ano)
      BY <1>7, <1>13, <3>1, <3>4, StillHeld
    <3> QED
      BY <1>7, <1>8, <3>1, <3>5, ReadText
  <2>4. Header!CString(four, 50) = status
    <3>1. 50 + Len(status) <= 679 /\ 50 + Len(status) < 612
      BY <1>6, <2>1
    <3>2. Holds(three, 50, status)
      BY <1>12, <3>1, HeldAtFirst
    <3>3. Holds(four, 50, status)
      BY <1>7, <1>13, <3>1, <3>2, StillHeld
    <3> QED
      BY <1>7, <1>8, <3>1, <3>3, ReadText
  <2>5. Header!CString(four, 100) = path
    <3>1. 100 + Len(path) <= 679 /\ 100 > 50 + Len(status)
      BY <1>2, <1>4, <1>6, <2>1
    <3>2. Holds(two, 100, path)
      BY <1>11, <3>1, HeldAtFirst
    <3>3. Holds(three, 100, path)
      BY <1>7, <1>12, <3>1, <3>2, StillHeld
    <3>4. Holds(four, 100, path)
      BY <1>7, <1>13, <2>1, <3>1, <3>3, StillHeld
    <3> QED
      BY <1>7, <1>8, <3>1, <3>4, ReadText
  <2>6. Header!CString(four, 612) = labels
    <3>1. 612 + Len(labels) <= 679
      BY <1>3, <1>14, <1>15
    <3>2. Holds(four, 612, labels)
      BY <1>13, <3>1, HeldAtFirst
    <3> QED
      BY <1>7, <1>8, <3>1, <3>2, ReadText
  <2> QED
    BY <1>5, <2>2, <2>3, <2>4, <2>5, <2>6
<1>16. ASSUME Header!ReplyReadsBack PROVE p + 7 < 512 /\ n < 52
  <2>1. Header!IntsAre(four, "reply") /\ Header!CString(four, 100) = path
    BY <1>5, <1>16
  <2>2. Shows(four, 100, path, Places)
    BY <1>4, <2>1, ReadBack
  <2>3. \A i \in Nat : i <= 679 /\ 100 <= i /\ i <= 100 + (p + 7) => four.bytes[i] \in Places \cup {Header!NUL}
    BY <1>2, <1>4, <2>2 DEF Shows
  <2>4. Shows(four, 612, labels, Marks)
    BY <1>3, <1>13, CopiedBytes
  <2>5. /\ \A i \in Nat : i <= 679 /\ 612 <= i /\ i <= 612 + n => four.bytes[i] \in Marks \cup {Header!NUL}
        /\ four.bytes[612] \in Marks
    BY <1>3, <1>14, <2>4 DEF Shows
  <2>6. four.bytes[664] = <<"reply", 0>>
    <3>1. \A i \in Header!Ints .. Header!Total - 1 : four.bytes[i] = <<"reply", i - Header!Ints>>
      BY <2>1 DEF Header!IntsAre
    <3>2. Header!Ints \in Header!Ints .. Header!Total - 1 /\ Header!Ints - Header!Ints = 0 /\ Header!Ints = 664
      BY Offsets
    <3> QED
      BY <3>1, <3>2
  <2>7. n < 52
    <3> SUFFICES ASSUME n >= 52 PROVE FALSE
      BY <1>3
    <3>1. four.bytes[664] \in Marks \cup {Header!NUL}
      BY <1>3, <2>5
    <3> QED
      BY <2>6, <3>1 DEF Marks, Characters, Header!NUL
  <2>8. p + 7 < 512
    <3> SUFFICES ASSUME p + 7 >= 512 PROVE FALSE
      BY <1>2
    <3>1. four.bytes[612] \in Places \cup {Header!NUL}
      BY <1>2, <2>3
    <3> QED
      BY <2>5, <3>1 DEF Places, Marks, Characters, Header!NUL
  <2> QED
    BY <2>7, <2>8
<1> QED
  BY <1>15, <1>16 DEF n, labels, p

-----------------------------------------------------------------------------
(***************************************************************************)
(* HeaderFields: the invariant.                                            *)
(***************************************************************************)
HeaderInv ==
  part = "header" =>
    /\ asked \in Lengths
    /\ found \in Seq(Nat \ {0})
    /\ headerPc # "preprocess" => recvInfo = Requested
    /\ headerPc = "sent" => sendInfo = Replied /\ Len(Header!CString(recvInfo, Header!FilePath)) >= 4

LEMMA InitHeader == ConversionInit => HeaderInv
<1> SUFFICES ASSUME ConversionInit, part = "header" PROVE HeaderInv
  BY DEF HeaderInv
<1>1. /\ asked \in [ano : AnoLens, path : PathLens, status : StatusLens, res : ResLens]
      /\ found = <<>> /\ headerPc = "preprocess"
  BY DEF ConversionInit, HeaderInit, Header!Init
<1>2. /\ AnoLens \subseteq Nat /\ PathLens \subseteq Nat \ {0}
      /\ StatusLens \subseteq Nat \ {0} /\ ResLens \subseteq Nat \ {0}
  BY ConversionAssumptions DEF Header!HeaderAssumption
<1>3. asked \in Lengths
  BY <1>1, <1>2 DEF Lengths
<1> QED
  BY <1>1, <1>3 DEF HeaderInv

LEMMA NextHeader ==
  HeaderInv /\ [ConversionNext]_<<part, vars, config, header, image>> => HeaderInv'
<1> SUFFICES ASSUME HeaderInv, [ConversionNext]_<<part, vars, config, header, image>>, part = "header", part' = part
             PROVE  HeaderInv'
  BY DEF HeaderInv, ConversionNext
<1>1. CASE UNCHANGED <<part, vars, config, header, image>>
  BY <1>1 DEF HeaderInv, header, Requested, Replied, Header!ResultPath, Header!DetectRes, Header!Joined, Header!Label
<1>2. CASE Header!preprocessFileInfo
  BY <1>2 DEF HeaderInv, Header!preprocessFileInfo, Requested
<1>3. CASE Header!Recognize
  <2>1. found' \in Seq(Nat \ {0})
    BY <1>3, ConversionAssumptions DEF Header!Recognize, Header!HeaderAssumption
  <2>2. Requested' = Requested
    BY <1>3 DEF Header!Recognize, Requested
  <2> QED
    BY <1>3, <2>1, <2>2 DEF HeaderInv, Header!Recognize
<1>4. CASE Header!CreateInfo
  <2>1. UNCHANGED <<asked, found, recvInfo>>
    BY <1>4 DEF Header!CreateInfo
  <2>2. Requested' = Requested
    BY <2>1 DEF Requested
  <2>3. sendInfo' = Replied'
    BY <1>4, <2>1 DEF Header!CreateInfo, Replied, Header!ResultPath, Header!DetectRes, Header!Joined, Header!Label
  <2>4. /\ headerPc = "createInfo" /\ headerPc' = "sent"
        /\ Len(Header!CString(recvInfo, Header!FilePath)) >= 4
        /\ Header!CString(recvInfo, Header!FilePath)' = Header!CString(recvInfo, Header!FilePath)
    BY <1>4, <2>1 DEF Header!CreateInfo, Header!CString
  <2> QED
    BY <2>1, <2>2, <2>3, <2>4 DEF HeaderInv
<1>5. CASE Header!CreateInfoThrows
  <2>1. UNCHANGED <<asked, found, recvInfo, sendInfo>> /\ headerPc = "createInfo" /\ headerPc' = "crashed"
    BY <1>5 DEF Header!CreateInfoThrows
  <2>2. Requested' = Requested
    BY <2>1 DEF Requested
  <2> QED
    BY <2>1, <2>2 DEF HeaderInv
<1>6. CASE Header!Over
  <2>1. UNCHANGED header
    BY <1>6 DEF Header!Over, Header!vars, header
  <2> QED
    BY <2>1 DEF HeaderInv, header, Requested, Replied, Header!ResultPath, Header!DetectRes, Header!Joined, Header!Label
<1> QED
  BY <1>1, <1>2, <1>3, <1>4, <1>5, <1>6 DEF ConversionNext, Header!Next

LEMMA HeaderInvariance == ConversionSpec => []HeaderInv
<1> QED
  BY InitHeader, NextHeader, PTL DEF ConversionSpec

\* The request arrives as the client wrote it exactly when each of its texts
\* is shorter than its array, whatever their lengths
\* (preprocessFileInfo's copies without a limit).
THEOREM RequestArrives == ConversionSpec => []RequestWhole
<1>1. HeaderInv => RequestWhole
  BY RequestIsWhole DEF HeaderInv, RequestWhole, Header!RequestWhole
<1> QED
  BY <1>1, HeaderInvariance, PTL

\* After a request that fits, the reply arrives as the server wrote it exactly
\* when the path has room for seven more characters and the labels are
\* shorter than ano_res, whatever Detect finds (CreateInfo).
THEOREM ReplyArrives == ConversionSpec => []ReplyWhole
<1>1. HeaderInv => ReplyWhole
  BY ReplyIsWhole DEF HeaderInv, ReplyWhole, Header!ReplyWhole, Header!FILE_NAME_MAX_SIZE
<1> QED
  BY <1>1, HeaderInvariance, PTL
=============================================================================
