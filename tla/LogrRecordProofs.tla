--------------------------- MODULE LogrRecordProofs ---------------------------
(***************************************************************************)
(* No record is written outside its buffer, and what it holds at the end   *)
(* is the text it was made of or a beginning of it, whatever the size of   *)
(* the buffer, the depth of containers that is shown, the lengths of       *)
(* values and the nesting.                                                 *)
(***************************************************************************)
EXTENDS LogrRecord, SequenceTheorems, TLAPS

\* What the buffer may hold: what is there first, the NULs, and the letters.
Bytes == {"?", NUL, "h", "9", "f", "a", "b", "c", "d", "m", "p", "0", "x", ",", " ", ".", ":",
          "(", ")", "[", "]", "\r", "\n", "\t"}

\* A stream that stands where it should, with nothing written outside.
Good(st) ==
  /\ st \in [cur : Nat, content : [Cells -> Bytes], outside : BOOLEAN]
  /\ st.outside = FALSE
  /\ st.cur <= SIZE

(***************************************************************************)
(* Each open << has its own two bytes before _cur, which is what _cur -= 2 *)
(* takes back: so many that the end of the buffer cuts off only what comes *)
(* behind, where _cur stands at the end, or a byte before it when an       *)
(* inner << has just stepped back.                                         *)
(***************************************************************************)
Behind ==
  pc = "stream" /\ stack # <<>> =>
    \/ stream.cur >= contentLen + 2 * Len(stack)
    \/ stream.cur = SIZE
    \/ stream.cur = SIZE - 1 /\ stack[Len(stack)].written

Begun ==
  /\ pc = "make" => calls = 0 /\ stack = <<>>
  /\ pc # "make" => SIZE >= 6
  /\ pc = "stream" =>
       /\ contentLen <= stream.cur /\ contentLen + 3 <= SIZE
       /\ calls = 0 => stream.cur = contentLen /\ stack = <<>>

IInv == TypeOK /\ Good(stream) /\ Begun /\ Behind

-----------------------------------------------------------------------------
\* Bytes stored between the first and the last of the buffer are inside.
LEMMA StoreInside ==
  ASSUME NEW st, Good(st), NEW at \in Nat, NEW bytes \in Seq(Bytes), at + Len(bytes) <= SIZE
  PROVE  Good(Store(st, at, bytes)) /\ Store(st, at, bytes).cur = st.cur
  <1>1. SIZE \in Nat /\ Len(bytes) \in Nat
    BY RecordAssumption, LenProperties
  <1>2. st.outside \/ at < 0 \/ at + Len(bytes) > SIZE <=> FALSE
    BY <1>1 DEF Good
  <1>3. [i \in Cells |-> IF i - at + 1 \in DOMAIN bytes THEN bytes[i - at + 1] ELSE st.content[i]]
          \in [Cells -> Bytes]
    BY ElementOfSeq, LenProperties DEF Good
  <1>4. /\ Store(st, at, bytes).cur = st.cur
        /\ Store(st, at, bytes).outside = FALSE
        /\ Store(st, at, bytes) \in [cur : Nat, content : [Cells -> Bytes], outside : BOOLEAN]
    BY <1>2, <1>3 DEF Store, Good
  <1> QED
    BY <1>4 DEF Good

\* A stream moved to another place of the buffer.
LEMMA AdvanceInside ==
  ASSUME NEW st, Good(st), NEW n \in Int, 0 <= st.cur + n, st.cur + n <= SIZE
  PROVE  Good(Advance(st, n)) /\ Advance(st, n).cur = st.cur + n
  BY RecordAssumption DEF Good, Advance

\* A NUL is one byte.
LEMMA OneNUL == <<NUL>> \in Seq(Bytes) /\ Len(<<NUL>>) = 1
  BY DEF Bytes, NUL

\* The texts that Logr4zStream writes of its own are bytes, and so many.
LEMMA Texts ==
  /\ <<",", " ">> \in Seq(Bytes) /\ Len(<<",", " ">>) = 2
  /\ <<".", ".", ".", ",", " ">> \in Seq(Bytes) /\ Len(<<".", ".", ".", ",", " ">>) = 5
  /\ <<"m", "a", "p", "(">> \in Seq(Bytes) /\ Len(<<"m", "a", "p", "(">>) = 4
  /\ <<")", "[">> \in Seq(Bytes) /\ Len(<<")", "[">>) = 2
  /\ <<"]">> \in Seq(Bytes) /\ Len(<<"]">>) = 1
  /\ <<"p", "(">> \in Seq(Bytes) /\ Len(<<"p", "(">>) = 2
  /\ <<":">> \in Seq(Bytes) /\ Len(<<":">>) = 1
  /\ <<")">> \in Seq(Bytes) /\ Len(<<")">>) = 1
  /\ <<" ">> \in Seq(Bytes)
  /\ <<"\r", "\n", "\t", "[">> \in Seq(Bytes) /\ Len(<<"\r", "\n", "\t", "[">>) = 4
  /\ <<"\r", "\n", "\t", "]", "\r", "\n", "\t">> \in Seq(Bytes)
  /\ Len(<<"\r", "\n", "\t", "]", "\r", "\n", "\t">>) = 7
  /\ Row \in Seq(Bytes) /\ Len(Row) = 7
  /\ Byte \in Seq(Bytes) /\ Len(Byte) = 3
  /\ LineEnd \in Seq(Bytes) /\ Len(LineEnd) = 3
  BY DEF Bytes, NUL, Row, Byte, LineEnd

\* The texts of the caller are bytes of the length they were given.
LEMMA Values ==
  ASSUME NEW n \in Nat
  PROVE  /\ [i \in 1 .. n |-> "h"] \in Seq(Bytes) /\ Len([i \in 1 .. n |-> "h"]) = n
         /\ [i \in 1 .. n |-> "f"] \in Seq(Bytes)
         /\ Digits(n) \in Seq(Bytes) /\ Len(Digits(n)) = n
         /\ calls \in Nat => Value(n) \in Seq(Bytes) /\ Len(Value(n)) = n
  <1>1. "h" \in Bytes /\ "f" \in Bytes /\ "9" \in Bytes
    BY DEF Bytes
  <1>2. calls \in Nat => Letters[1 + (calls % 4)] \in Bytes
    <2>1. calls \in Nat => 1 + (calls % 4) \in 1 .. 4
      OBVIOUS
    <2>2. Letters[1] \in Bytes /\ Letters[2] \in Bytes /\ Letters[3] \in Bytes /\ Letters[4] \in Bytes
      BY DEF Letters, Bytes
    <2> QED
      BY <2>1, <2>2
  <1> HIDE DEF Bytes
  <1>3. \A c \in Bytes : [i \in 1 .. n |-> c] \in Seq(Bytes) /\ Len([i \in 1 .. n |-> c]) = n
    OBVIOUS
  <1> QED
    BY <1>1, <1>2, <1>3 DEF Digits, Value

\* writeString stores nothing outside, and stops at the end of the buffer.
LEMMA WriteStringInside ==
  ASSUME NEW st, Good(st), NEW s \in Seq(Bytes)
  PROVE  Good(writeString(st, s)) /\ writeString(st, s).cur = Least(st.cur + Len(s), SIZE)
  <1>0. SIZE \in Nat /\ st.cur \in Nat /\ st.cur <= SIZE /\ Len(s) \in Nat
    BY RecordAssumption, LenProperties DEF Good
  <1>1. CASE st.cur >= SIZE
    BY <1>0, <1>1 DEF writeString, Least
  <1>2. CASE st.cur < SIZE
    <2> DEFINE len == Least(Len(s), SIZE - st.cur)
               part == SubSeq(s, 1, len)
               next == st.cur + len
               copied == Advance(Store(st, st.cur, part), len)
               at == IF next >= SIZE - 1 THEN SIZE - 1 ELSE next + 1
    <2>1. len \in Nat /\ len <= Len(s) /\ next <= SIZE /\ next = Least(st.cur + Len(s), SIZE)
      BY <1>0, <1>2 DEF Least
    <2>2. part \in Seq(Bytes) /\ Len(part) = len
      BY <1>0, <2>1, SubSeqProperties
    <2>3. Good(Store(st, st.cur, part)) /\ Store(st, st.cur, part).cur = st.cur
      BY <1>0, <2>1, <2>2, StoreInside
    <2>4. Good(copied) /\ copied.cur = next
      BY <1>0, <2>1, <2>3, AdvanceInside
    <2>5. at \in Nat /\ at + 1 <= SIZE
      BY <1>0, <1>2, <2>1
    <2>6. writeString(st, s) = Store(copied, at, <<NUL>>)
      BY <1>0, <1>2 DEF writeString
    <2> HIDE DEF copied, at
    <2>7. Good(Store(copied, at, <<NUL>>)) /\ Store(copied, at, <<NUL>>).cur = next
      BY <2>4, <2>5, OneNUL, StoreInside
    <2> QED
      BY <2>1, <2>6, <2>7
  <1> QED
    BY <1>0, <1>1, <1>2

\* snprintf ends with its NUL inside the buffer.
LEMMA SnprintfInside ==
  ASSUME NEW st, Good(st), st.cur < SIZE, NEW s \in Seq(Bytes)
  PROVE  Good(snprintf(st, s)) /\ snprintf(st, s).cur = st.cur
  <1> DEFINE len == Least(Len(s), SIZE - st.cur - 1)
             part == SubSeq(s, 1, len)
  <1>1. st.cur \in Nat /\ SIZE \in Nat /\ len \in Nat /\ len <= Len(s) /\ st.cur + len + 1 <= SIZE
    BY RecordAssumption, LenProperties DEF Good, Least
  <1>2. part \in Seq(Bytes) /\ Len(part) = len
    BY <1>1, LenProperties, SubSeqProperties
  <1>3. part \o <<NUL>> \in Seq(Bytes) /\ Len(part \o <<NUL>>) = len + 1
    BY <1>2, OneNUL, ConcatProperties
  <1>4. snprintf(st, s) = Store(st, st.cur, part \o <<NUL>>)
    BY DEF snprintf
  <1> HIDE DEF len, part
  <1>5. st.cur + Len(part \o <<NUL>>) <= SIZE
    BY <1>1, <1>3
  <1>6. Good(Store(st, st.cur, part \o <<NUL>>)) /\ Store(st, st.cur, part \o <<NUL>>).cur = st.cur
    BY <1>1, <1>3, <1>5, StoreInside
  <1> QED
    BY <1>4, <1>6

\* writeData stops at the end of the buffer as well.
LEMMA WriteDataInside ==
  ASSUME NEW st, Good(st), NEW s \in Seq(Bytes)
  PROVE  Good(writeData(st, s)) /\ writeData(st, s).cur = Least(st.cur + Len(s), SIZE)
  <1>0. SIZE \in Nat /\ st.cur \in Nat /\ st.cur <= SIZE /\ Len(s) \in Nat
    BY RecordAssumption, LenProperties DEF Good
  <1>1. CASE st.cur >= SIZE
    BY <1>0, <1>1 DEF writeData, Least
  <1>2. CASE st.cur < SIZE
    <2> DEFINE len == Least(Len(s), SIZE - st.cur)
    <2>1. Good(snprintf(st, s)) /\ snprintf(st, s).cur = st.cur
      BY <1>2, SnprintfInside
    <2>2. writeData(st, s) = Advance(snprintf(st, s), len)
      BY <1>0, <1>2 DEF writeData
    <2>3. len \in Nat /\ st.cur + len <= SIZE /\ st.cur + len = Least(st.cur + Len(s), SIZE)
      BY <1>0, <1>2 DEF Least
    <2> QED
      BY <1>0, <2>1, <2>2, <2>3, AdvanceInside
  <1> QED
    BY <1>0, <1>1, <1>2

-----------------------------------------------------------------------------
\* An element of a frame is done, or the comma behind it is written.
LEMMA FrameChanged ==
  ASSUME NEW g \in Frames
  PROVE  /\ [g EXCEPT !.written = TRUE, !.done = @ + 1] \in Frames
         /\ [g EXCEPT !.written = TRUE, !.done = @ + 1].written = TRUE
         /\ [g EXCEPT !.written = FALSE] \in Frames
         /\ [g EXCEPT !.done = @ + 1] \in Frames
  <1>1. [g EXCEPT !.written = TRUE] \in Frames /\ [g EXCEPT !.written = FALSE] \in Frames
    BY DEF Frames
  <1>2. \A f \in Frames : [f EXCEPT !.done = @ + 1] \in Frames
    BY DEF Frames
  <1>3. [g EXCEPT !.written = TRUE, !.done = @ + 1] = [[g EXCEPT !.written = TRUE] EXCEPT !.done = @ + 1]
    BY DEF Frames
  <1>4. [g EXCEPT !.written = TRUE, !.done = @ + 1].written = TRUE
    BY DEF Frames
  <1> QED
    BY <1>1, <1>2, <1>3, <1>4

\* The return of an element's << keeps the stack and marks its top.
LEMMA WrittenKeeps ==
  ASSUME NEW s \in Seq(Frames)
  PROVE  /\ Written(s) \in Seq(Frames) /\ Len(Written(s)) = Len(s)
         /\ s # <<>> => Written(s)[Len(Written(s))].written
  <1>1. CASE s = <<>>
    BY <1>1 DEF Written
  <1>2. CASE s # <<>>
    <2>1. Len(s) \in 1 .. Len(s) /\ s[Len(s)] \in Frames
      BY <1>2, EmptySeq, LenProperties
    <2> DEFINE f == [s[Len(s)] EXCEPT !.written = TRUE, !.done = @ + 1]
    <2>2. f \in Frames /\ f.written = TRUE
      BY <2>1, FrameChanged
    <2>3. Written(s) = [s EXCEPT ![Len(s)] = f]
      BY <1>2 DEF Written
    <2> HIDE DEF f
    <2> QED
      BY <2>1, <2>2, <2>3, ExceptSeq, LenProperties
  <1> QED
    BY <1>1, <1>2

\* The stack without its top.
LEMMA RestKeeps ==
  ASSUME stack \in Seq(Frames), stack # <<>>
  PROVE  /\ Top \in Frames /\ Len(stack) \in Nat \ {0}
         /\ Rest \in Seq(Frames) /\ Len(Rest) = Len(stack) - 1
  <1>1. Len(stack) \in Nat \ {0} /\ \A i \in 1 .. Len(stack) : stack[i] \in Frames
    BY EmptySeq, LenProperties
  <1>2. \A i \in 1 .. Len(stack) - 1 : stack[i] \in Frames
    BY <1>1
  <1>3. Rest \in Seq(Frames) /\ Len(Rest) = Len(stack) - 1
    <2> DEFINE n == Len(stack) - 1
    <2>1. n \in Nat /\ 1 \in Int /\ n \in Int
      BY <1>1
    <2>2. \A i \in 1 .. n : stack[i] \in Frames
      BY <1>2
    <2> HIDE DEF n
    <2>3. SubSeq(stack, 1, n) \in Seq(Frames) /\ Len(SubSeq(stack, 1, n)) = IF 1 <= n THEN n - 1 + 1 ELSE 0
      BY <2>1, <2>2, SubSeqProperties
    <2>4. n = Len(stack) - 1 /\ Rest = SubSeq(stack, 1, n)
      BY DEF Rest, n
    <2>5. Len(SubSeq(stack, 1, n)) = n
      BY <2>1, <2>3
    <2> QED
      BY <2>3, <2>4, <2>5
  <1> QED
    BY <1>1, <1>3 DEF Top

\* The stack with its top changed.
LEMMA TopChanged ==
  ASSUME stack \in Seq(Frames), stack # <<>>, NEW f \in Frames
  PROVE  [stack EXCEPT ![Len(stack)] = f] \in Seq(Frames) /\ Len([stack EXCEPT ![Len(stack)] = f]) = Len(stack)
  BY RestKeeps, ExceptSeq, LenProperties

(***************************************************************************)
(* A << that moves _cur by n, or to the end, and leaves the stack no       *)
(* deeper, or one deeper by a << that has written two bytes itself.        *)
(***************************************************************************)
LEMMA Forward ==
  ASSUME IInv, pc = "stream", Good(stream'), NEW n \in Nat,
         stream'.cur = Least(stream.cur + n, SIZE),
         stack' \in Seq(Frames), contentLen' = contentLen, pc' = "stream",
         calls' \in Nat \ {0},
         Len(stack') <= Len(stack) \/ (n >= 2 /\ Len(stack') <= Len(stack) + 1),
         stack = <<>> \/ ~Top.written \/ n >= 1
  PROVE  IInv'
  <1>1. /\ SIZE \in Nat /\ contentLen \in Nat /\ stream.cur \in Nat
        /\ contentLen <= stream.cur /\ stream.cur <= SIZE /\ contentLen + 3 <= SIZE /\ SIZE >= 6
    BY RecordAssumption DEF IInv, TypeOK, Good, Begun
  <1>2. Len(stack) \in Nat /\ Len(stack') \in Nat /\ (stack = <<>> => Len(stack) = 0)
    BY LenProperties, EmptySeq DEF IInv, TypeOK
  <1>3. stream'.cur \in Nat /\ contentLen <= stream'.cur /\ stream.cur <= stream'.cur
    BY <1>1 DEF Least
  <1>4. TypeOK'
    BY <1>1, <1>3 DEF TypeOK, Good
  <1>5. Begun'
    BY <1>1, <1>3 DEF Begun
  <1>6. Behind'
    <2> SUFFICES ASSUME stack' # <<>>
                 PROVE  stream'.cur >= contentLen + 2 * Len(stack') \/ stream'.cur = SIZE
      BY DEF Behind
    <2>1. CASE stack = <<>>
      <3>1. n >= 2 /\ Len(stack') <= 1
        BY <1>2, <2>1, EmptySeq
      <3> QED
        BY <1>1, <1>2, <3>1 DEF Least
    <2>2. CASE stack # <<>>
      <3>1. \/ stream.cur >= contentLen + 2 * Len(stack)
            \/ stream.cur = SIZE
            \/ stream.cur = SIZE - 1 /\ n >= 1
        BY <2>2 DEF IInv, Behind, Top
      <3> QED
        BY <1>1, <1>2, <3>1 DEF Least
    <2> QED
      BY <2>1, <2>2
  <1> QED
    BY <1>4, <1>5, <1>6 DEF IInv

\* A record that has left its streams: only its length is still to be kept.
LEMMA Streamed ==
  ASSUME IInv, pc # "make", Good(stream'), contentLen' \in 0 .. SIZE, stack' = stack,
         pc' \in {"push", "end", "done", "queued"}, calls' \in Nat
  PROVE  IInv'
  BY DEF IInv, TypeOK, Good, Begun, Behind

-----------------------------------------------------------------------------
\* The invariant holds before the record is made.
LEMMA InitInv == Init => IInv
  <1> SUFFICES ASSUME Init
               PROVE  IInv
    OBVIOUS
  <1>1. Good(stream)
    BY RecordAssumption DEF Init, Good, Bytes
  <1>2. TypeOK
    BY <1>1, RecordAssumption, EmptySeq DEF Init, TypeOK, Good
  <1> QED
    BY <1>1, <1>2 DEF Init, IInv, Begun, Behind

\* What holds while the caller streams, and of the stack under an element.
LEMMA StreamingFacts ==
  ASSUME IInv, pc = "stream"
  PROVE  /\ Good(stream) /\ stack \in Seq(Frames) /\ calls \in Nat /\ Len(stack) \in Nat
         /\ stack # <<>> => calls \in Nat \ {0}
         /\ Written(stack) \in Seq(Frames) /\ Len(Written(stack)) = Len(stack)
  BY WrittenKeeps, LenProperties DEF IInv, TypeOK, Begun

\* Values: one text, at the top or where an element is due.
LEMMA PutInv ==
  ASSUME IInv, putData \/ putString
  PROVE  IInv'
  <1>1. /\ pc = "stream" /\ contentLen' = contentLen /\ pc' = pc /\ calls' = calls + 1
        /\ stack' = Written(stack)
        /\ stack = <<>> \/ ~Top.written
        /\ \E n \in Lens : stream' = writeData(stream, Value(n)) \/ stream' = writeString(stream, Value(n))
    BY DEF putData, putString, Streaming, Counted, Due
  <1>2. PICK n \in Lens : stream' = writeData(stream, Value(n)) \/ stream' = writeString(stream, Value(n))
    BY <1>1
  <1>3. n \in Nat /\ Value(n) \in Seq(Bytes) /\ Len(Value(n)) = n
    BY <1>1, RecordAssumption, StreamingFacts, Values
  <1>4. Good(stream') /\ stream'.cur = Least(stream.cur + n, SIZE)
    BY <1>1, <1>2, <1>3, StreamingFacts, WriteDataInside, WriteStringInside
  <1> QED
    BY <1>1, <1>3, <1>4, StreamingFacts, Forward

\* The beginning of a container, a pair or a binary writes two bytes or more.
LEMMA OpenInv ==
  ASSUME IInv, openContainer \/ openPair \/ openBinary
  PROVE  IInv'
  <1>1. /\ pc = "stream" /\ contentLen' = contentLen /\ pc' = pc /\ calls' = calls + 1
        /\ stack = <<>> \/ ~Top.written
    BY DEF openContainer, openPair, openBinary, Opening, Streaming, Counted, Due
  <1>2. Good(stream) /\ stream.cur \in Nat /\ SIZE \in Nat /\ stack \in Seq(Frames) /\ calls \in Nat
    BY <1>1, RecordAssumption, StreamingFacts DEF Good
  <1>3. \A f \in Frames : Append(stack, f) \in Seq(Frames) /\ Len(Append(stack, f)) = Len(stack) + 1
    BY <1>2, AppendProperties
  <1>4. \A k \in {"container", "pair", "binary"}, a, b \in Nat : Frame(k, a, b) \in Frames
    BY DEF Frame, Frames
  <1>5. CASE openContainer
    <2>1. PICK a \in Sizes :
            /\ stream' = writeString(writeData(writeString(stream, <<"m", "a", "p", "(">>), Digits(1)), <<")", "[">>)
            /\ stack' = Append(stack, Frame("container", a, DEPTH))
      BY <1>5 DEF openContainer
    <2> DEFINE x == writeString(stream, <<"m", "a", "p", "(">>)
               y == writeData(x, Digits(1))
    <2>2. Good(x) /\ x.cur = Least(stream.cur + 4, SIZE)
      BY <1>2, Texts, WriteStringInside
    <2> HIDE DEF x
    <2>3. Good(y) /\ y.cur = Least(x.cur + 1, SIZE)
      <3>1. Digits(1) \in Seq(Bytes) /\ Len(Digits(1)) = 1
        BY Values
      <3> QED
        BY <2>2, <3>1, WriteDataInside
    <2>4. Good(stream') /\ stream'.cur = Least(y.cur + 2, SIZE)
      BY <2>1, <2>3, Texts, WriteStringInside DEF x
    <2> HIDE DEF y
    <2>5. stream'.cur = Least(stream.cur + 7, SIZE)
      BY <1>2, <2>2, <2>3, <2>4 DEF Least
    <2>6. stack' \in Seq(Frames) /\ Len(stack') = Len(stack) + 1
      BY <1>3, <1>4, <2>1, RecordAssumption
    <2> QED
      BY <1>1, <1>2, <2>4, <2>5, <2>6, Forward
  <1>6. CASE openPair
    <2>1. Good(stream') /\ stream'.cur = Least(stream.cur + 2, SIZE)
      BY <1>2, <1>6, Texts, WriteStringInside DEF openPair
    <2>2. stack' \in Seq(Frames) /\ Len(stack') = Len(stack) + 1
      BY <1>3, <1>4, <1>6 DEF openPair
    <2> QED
      BY <1>1, <1>2, <2>1, <2>2, Forward
  <1>7. CASE openBinary
    <2>1. Good(stream') /\ stream'.cur = Least(stream.cur + 4, SIZE)
      BY <1>2, <1>7, Texts, WriteDataInside DEF openBinary
    <2>2. stack' \in Seq(Frames) /\ Len(stack') = Len(stack) + 1
      BY <1>3, <1>4, <1>7, RecordAssumption DEF openBinary
    <2> QED
      BY <1>1, <1>2, <2>1, <2>2, Forward
  <1> QED
    BY <1>5, <1>6, <1>7

\* Commas, colons, dots and bytes: the top of the stack stays.
LEMMA ElementInv ==
  ASSUME IInv, putComma \/ putDots \/ putColon \/ putByte
  PROVE  IInv'
  <1>1. pc = "stream" /\ contentLen' = contentLen /\ pc' = pc /\ calls' = calls /\ stack # <<>>
    BY DEF putComma, putDots, putColon, putByte, Streaming
  <1>2. /\ Good(stream) /\ stream.cur \in Nat /\ SIZE \in Nat /\ stack \in Seq(Frames)
        /\ calls' \in Nat \ {0} /\ Top \in Frames
    BY <1>1, RecordAssumption, StreamingFacts, RestKeeps DEF Good
  <1>3. stack' \in Seq(Frames) /\ Len(stack') = Len(stack)
    <2>1. [Top EXCEPT !.written = FALSE] \in Frames /\ [Top EXCEPT !.done = @ + 1] \in Frames
      BY <1>2, FrameChanged
    <2>2. PICK f \in Frames : stack' = [stack EXCEPT ![Len(stack)] = f]
      <3>1. CASE putComma \/ putColon
        <4>1. stack' = [stack EXCEPT ![Len(stack)] = [Top EXCEPT !.written = FALSE]]
          BY <3>1 DEF putComma, putColon, Top
        <4> QED
          BY <2>1, <4>1
      <3>2. CASE putDots \/ putByte
        <4>1. stack' = [stack EXCEPT ![Len(stack)] = [Top EXCEPT !.done = @ + 1]]
          BY <3>2 DEF putDots, putByte, Top
        <4> QED
          BY <2>1, <4>1
      <3> QED
        BY <3>1, <3>2
    <2> QED
      BY <1>1, <1>2, <2>2, TopChanged
  <1>4. Good(stream') /\ \E n \in {1, 2, 3, 5, 10} : stream'.cur = Least(stream.cur + n, SIZE)
    <2>1. CASE putComma
      <3>1. Good(stream') /\ stream'.cur = Least(stream.cur + 2, SIZE)
        BY <1>2, <2>1, Texts, WriteStringInside, ZenonT(30) DEF putComma
      <3> QED
        BY <3>1
    <2>2. CASE putDots
      <3>1. Good(stream') /\ stream'.cur = Least(stream.cur + 5, SIZE)
        BY <1>2, <2>2, Texts, WriteStringInside DEF putDots
      <3> QED
        BY <3>1
    <2>3. CASE putColon
      <3>1. Good(stream') /\ stream'.cur = Least(stream.cur + 1, SIZE)
        <4>1. stream' = writeString(stream, <<":">>)
          BY <2>3 DEF putColon, Emit
        <4> QED
          BY <1>2, <4>1, Texts, WriteStringInside
      <3> QED
        BY <3>1
    <2>4. CASE putByte
      <3> DEFINE x == writeData(stream, Row)
      <3>1. stream' = writeData(x, Byte) \/ stream' = writeData(stream, Byte)
        BY <2>4 DEF putByte, Emit
      <3>2. Good(x) /\ x.cur = Least(stream.cur + 7, SIZE)
        BY <1>2, Texts, WriteDataInside
      <3>3. Good(writeData(x, Byte)) /\ writeData(x, Byte).cur = Least(x.cur + 3, SIZE)
        BY <3>2, Texts, WriteDataInside, ZenonT(30)
      <3>4. Good(writeData(stream, Byte)) /\ writeData(stream, Byte).cur = Least(stream.cur + 3, SIZE)
        BY <1>2, Texts, WriteDataInside
      <3> HIDE DEF x
      <3>5. writeData(x, Byte).cur = Least(stream.cur + 10, SIZE)
        BY <1>2, <3>2, <3>3 DEF Least
      <3> QED
        BY <3>1, <3>3, <3>4, <3>5
    <2> QED
      BY <2>1, <2>2, <2>3, <2>4
  <1> QED
    BY <1>1, <1>2, <1>3, <1>4, StreamingFacts, Forward

\* The end of a container steps back over the ", " behind its last element.
LEMMA CloseContainerInv ==
  ASSUME IInv, closeContainer
  PROVE  IInv'
  <1>1. /\ pc = "stream" /\ contentLen' = contentLen /\ pc' = pc /\ calls' = calls
        /\ stack # <<>> /\ ~Top.written /\ stack' = Written(Rest)
    BY DEF closeContainer, Looped, Streaming
  <1>2. /\ Good(stream) /\ stream.cur \in Nat /\ SIZE \in Nat /\ stack \in Seq(Frames)
        /\ calls' \in Nat \ {0} /\ Rest \in Seq(Frames) /\ Len(Rest) = Len(stack) - 1
        /\ Len(stack) \in Nat \ {0}
    BY <1>1, RecordAssumption, StreamingFacts, RestKeeps DEF Good
  <1>3. /\ stack' \in Seq(Frames) /\ Len(stack') = Len(stack) - 1
        /\ stack' # <<>> => stack'[Len(stack')].written
    <2>1. Rest = <<>> => stack' = <<>>
      BY <1>1 DEF Written
    <2> QED
      BY <1>1, <1>2, <2>1, WrittenKeeps
  <1>4. CASE Top.size > 0
    <2>1. /\ contentLen \in Nat /\ contentLen + 3 <= SIZE /\ stream.cur <= SIZE
          /\ stream.cur >= contentLen + 2 * Len(stack) \/ stream.cur = SIZE
      BY <1>1 DEF IInv, TypeOK, Begun, Behind, Top, Good
    <2>2. 0 <= stream.cur + (-2) /\ stream.cur + (-2) <= SIZE
      BY <1>2, <2>1
    <2> DEFINE x == Advance(stream, -2)
    <2>3. Good(x) /\ x.cur = stream.cur - 2
      BY <1>2, <2>2, AdvanceInside
    <2>4. stream' = writeString(x, <<"]">>)
      BY <1>4 DEF closeContainer, Emit
    <2> HIDE DEF x
    <2>5. Good(stream') /\ stream'.cur = Least(x.cur + 1, SIZE)
      BY <2>3, <2>4, Texts, WriteStringInside
    <2>6. stream'.cur = stream.cur - 1
      BY <1>2, <2>1, <2>3, <2>5 DEF Least
    <2>7. contentLen <= stream'.cur
      BY <1>2, <2>1, <2>6
    <2>8. Behind'
      BY <1>1, <1>2, <1>3, <2>1, <2>6 DEF Behind
    <2>9. Begun'
      BY <1>1, <1>2, <2>1, <2>7 DEF Begun, IInv
    <2>10. TypeOK'
      BY <1>1, <1>2, <1>3, <2>1, <2>5 DEF TypeOK, Good
    <2> QED
      BY <2>5, <2>8, <2>9, <2>10 DEF IInv
  <1>5. CASE ~(Top.size > 0)
    <2>1. stream' = writeString(stream, <<"]">>)
      BY <1>5 DEF closeContainer, Emit
    <2>2. Good(stream') /\ stream'.cur = Least(stream.cur + 1, SIZE)
      BY <1>2, <2>1, Texts, WriteStringInside
    <2>3. Len(stack') <= Len(stack)
      BY <1>2, <1>3
    <2> QED
      BY <1>1, <1>2, <1>3, <2>2, <2>3, Forward
  <1> QED
    BY <1>4, <1>5

\* The ends of a pair and of a binary only write.
LEMMA CloseInv ==
  ASSUME IInv, closePair \/ closeBinary
  PROVE  IInv'
  <1>1. /\ pc = "stream" /\ contentLen' = contentLen /\ pc' = pc /\ calls' = calls
        /\ stack # <<>> /\ stack' = Written(Rest)
        /\ \/ stream' = writeString(stream, <<")">>)
           \/ stream' = writeData(stream, <<"\r", "\n", "\t", "]", "\r", "\n", "\t">>)
    BY DEF closePair, closeBinary, Streaming, Emit
  <1>2. /\ Good(stream) /\ stream.cur \in Nat /\ SIZE \in Nat /\ stack \in Seq(Frames)
        /\ calls' \in Nat \ {0} /\ Rest \in Seq(Frames) /\ Len(Rest) = Len(stack) - 1
        /\ Len(stack) \in Nat \ {0}
    BY <1>1, RecordAssumption, StreamingFacts, RestKeeps DEF Good
  <1>3. stack' \in Seq(Frames) /\ Len(stack') <= Len(stack)
    <2>1. stack' \in Seq(Frames) /\ Len(stack') = Len(Rest)
      BY <1>1, <1>2, WrittenKeeps
    <2> QED
      BY <1>2, <2>1
  <1>4. CASE stream' = writeString(stream, <<")">>)
    <2>1. Good(stream') /\ stream'.cur = Least(stream.cur + 1, SIZE)
      BY <1>2, <1>4, Texts, WriteStringInside
    <2> QED
      BY <1>1, <1>2, <1>3, <2>1, Forward
  <1>5. CASE stream' = writeData(stream, <<"\r", "\n", "\t", "]", "\r", "\n", "\t">>)
    <2> DEFINE bytes == <<"\r", "\n", "\t", "]", "\r", "\n", "\t">>
    <2>1. bytes \in Seq(Bytes) /\ Len(bytes) = 7
      BY Texts
    <2>2. stream' = writeData(stream, bytes)
      BY <1>5
    <2> HIDE DEF bytes
    <2>3. Good(stream') /\ stream'.cur = Least(stream.cur + 7, SIZE)
      BY <1>2, <2>1, <2>2, WriteDataInside
    <2> QED
      BY <1>1, <1>2, <1>3, <2>3, Forward
  <1> QED
    BY <1>1, <1>4, <1>5

-----------------------------------------------------------------------------
\* The header of the record is stored before anything else.
LEMMA MakeInv ==
  ASSUME IInv, makeLogrData
  PROVE  IInv'
  <1>1. PICK n \in HeaderLens :
          /\ stream' = [Store(stream, 0, [i \in 1 .. n |-> "h"] \o <<NUL>>) EXCEPT !.cur = n]
          /\ contentLen' = n
    BY DEF makeLogrData
  <1>2. pc = "make" /\ pc' = "stream" /\ stack' = <<>> /\ calls' = 0 /\ Good(stream)
    BY DEF makeLogrData, IInv, Begun
  <1>3. SIZE \in Nat /\ n \in Nat /\ 3 <= n /\ n + 3 <= SIZE
    BY RecordAssumption
  <1> DEFINE head == [i \in 1 .. n |-> "h"]
             bytes == head \o <<NUL>>
             st == Store(stream, 0, bytes)
  <1>4. bytes \in Seq(Bytes) /\ Len(bytes) = n + 1
    <2>1. head \in Seq(Bytes) /\ Len(head) = n
      BY <1>3, Values
    <2> HIDE DEF head
    <2> QED
      BY <1>3, <2>1, OneNUL, ConcatProperties
  <1>5. stream' = [st EXCEPT !.cur = n]
    BY <1>1
  <1> HIDE DEF bytes
  <1>6. Good(st)
    BY <1>2, <1>3, <1>4, StoreInside
  <1> HIDE DEF st
  <1>7. Good(stream') /\ stream'.cur = n
    BY <1>3, <1>5, <1>6 DEF Good
  <1>8. TypeOK'
    <2>1. stack' \in Seq(Frames)
      BY <1>2, EmptySeq
    <2>2. contentLen' \in 0 .. SIZE
      BY <1>1, <1>3
    <2>3. stream'.cur \in Int /\ stream'.outside \in BOOLEAN
      BY <1>7 DEF Good
    <2> QED
      BY <1>2, <2>1, <2>2, <2>3 DEF TypeOK
  <1>9. Begun' /\ Behind'
    BY <1>1, <1>2, <1>3, <1>7 DEF Begun, Behind
  <1> QED
    BY <1>7, <1>8, <1>9 DEF IInv

\* One text for the whole record, or a setting: no stream has moved yet.
LEMMA WholeTextInv ==
  ASSUME IInv, LogrFormat \/ hotChange
  PROVE  IInv'
  <1>1. /\ pc = "stream" /\ stack' = stack /\ calls' \in Nat /\ Good(stream) /\ calls \in Nat
        /\ SIZE \in Nat /\ contentLen \in Nat /\ contentLen + 3 <= SIZE /\ stream.cur = contentLen
    BY RecordAssumption DEF LogrFormat, hotChange, Streaming, Counted, IInv, TypeOK, Begun
  <1>2. CASE LogrFormat
    <2>1. PICK n \in Lens : /\ stream' = Advance(snprintf(stream, Value(n)), Least(n, SIZE - contentLen))
                            /\ contentLen' = contentLen + Least(n, SIZE - contentLen)
      BY <1>2 DEF LogrFormat
    <2>2. n \in Nat /\ Value(n) \in Seq(Bytes)
      BY <1>1, RecordAssumption, Values
    <2>3. Good(snprintf(stream, Value(n))) /\ snprintf(stream, Value(n)).cur = contentLen
      BY <1>1, <2>2, SnprintfInside
    <2>4. Least(n, SIZE - contentLen) \in Nat /\ contentLen + Least(n, SIZE - contentLen) <= SIZE
      BY <1>1, <2>2 DEF Least
    <2>5. Good(stream')
      BY <1>1, <2>1, <2>3, <2>4, AdvanceInside
    <2>6. contentLen' \in 0 .. SIZE /\ pc' = "push"
      BY <1>1, <1>2, <2>1, <2>4 DEF LogrFormat
    <2> QED
      BY <1>1, <2>5, <2>6, Streamed
  <1>3. CASE hotChange
    <2>1. PICK n \in Lens : n < SIZE /\ stream' = Store(stream, 0, Value(n)) /\ contentLen' = n
      BY <1>3 DEF hotChange
    <2>2. n \in Nat /\ Value(n) \in Seq(Bytes) /\ Len(Value(n)) = n
      BY <1>1, RecordAssumption, Values
    <2>3. Good(stream')
      BY <1>1, <2>1, <2>2, StoreInside
    <2>4. contentLen' \in 0 .. SIZE /\ pc' = "queued"
      BY <1>1, <1>3, <2>1, <2>2 DEF hotChange
    <2> QED
      BY <1>1, <2>3, <2>4, Streamed
  <1> QED
    BY <1>2, <1>3

\* The end of the first stream, and the file and the line in the second.
LEMMA StreamEndsInv ==
  ASSUME IInv, LogrStream \/ pushFileLine \/ pushNoFileLine
  PROVE  IInv'
  <1>1. /\ pc # "make" /\ stack' = stack /\ calls' \in Nat /\ Good(stream) /\ contentLen \in 0 .. SIZE
        /\ SIZE \in Nat /\ pc' \in {"push", "end"}
    BY RecordAssumption
       DEF LogrStream, pushFileLine, pushNoFileLine, Streaming, IInv, TypeOK
  <1>2. CASE LogrStream
    <2>1. stream' = stream /\ contentLen' = stream.cur
      BY <1>1, <1>2 DEF LogrStream, Good
    <2>2. Good(stream') /\ contentLen' \in 0 .. SIZE
      BY <1>1, <2>1 DEF Good
    <2> QED
      BY <1>1, <2>2, Streamed
  <1>3. CASE pushNoFileLine
    <2>1. stream' = stream /\ contentLen' = contentLen
      BY <1>3 DEF pushNoFileLine
    <2> QED
      BY <1>1, <2>1, Streamed
  <1>4. CASE pushFileLine
    <2>1. PICK n \in Lens :
            /\ stream' = writeData(writeString(writeString(writeString(stream, <<" ">>),
                                     [i \in 1 .. n |-> "f"]), <<":">>), Digits(2))
            /\ contentLen' = stream'.cur
      BY <1>4 DEF pushFileLine
    <2>2. [i \in 1 .. n |-> "f"] \in Seq(Bytes) /\ Digits(2) \in Seq(Bytes)
      BY RecordAssumption, Values
    <2> DEFINE x == writeString(stream, <<" ">>)
               y == writeString(x, [i \in 1 .. n |-> "f"])
               z == writeString(y, <<":">>)
    <2>3. Good(x)
      BY <1>1, Texts, WriteStringInside
    <2>4. Good(y)
      BY <2>2, <2>3, WriteStringInside
    <2>5. Good(z)
      BY <2>4, Texts, WriteStringInside
    <2>6. stream' = writeData(z, Digits(2))
      BY <2>1
    <2> HIDE DEF z
    <2>7. Good(stream')
      BY <2>2, <2>5, <2>6, WriteDataInside
    <2>8. contentLen' = stream'.cur
      BY <2>1
    <2>9. stream'.cur \in 0 .. SIZE
      BY <1>1, <2>7 DEF Good
    <2> QED
      BY <1>1, <2>7, <2>8, <2>9, Streamed
  <1> QED
    BY <1>2, <1>3, <1>4

\* The end of the line, behind the text or over its last bytes.
LEMMA LineEndInv ==
  ASSUME IInv, pushLogr
  PROVE  IInv'
  <1> DEFINE most == IF contentLen < 3 THEN 3 ELSE contentLen
             len == IF most + 3 <= SIZE THEN most + 3 ELSE most
  <1>1. /\ pc = "end" /\ pc' = "done" /\ stack' = stack /\ calls' = calls
        /\ stream' = Store(stream, len - 3, LineEnd) /\ contentLen' = len - 1
    BY DEF pushLogr
  <1>2. SIZE \in Nat /\ SIZE >= 6 /\ contentLen \in 0 .. SIZE /\ Good(stream) /\ calls \in Nat
    BY <1>1, RecordAssumption DEF IInv, TypeOK, Begun
  <1>3. len \in 3 .. SIZE
    BY <1>2
  <1> HIDE DEF len
  <1>4. len - 3 \in Nat /\ (len - 3) + 3 <= SIZE /\ len - 1 \in 0 .. SIZE
    BY <1>2, <1>3
  <1>5. Good(stream')
    BY <1>1, <1>2, <1>4, Texts, StoreInside
  <1> QED
    BY <1>1, <1>2, <1>4, <1>5, Streamed

-----------------------------------------------------------------------------
\* Each step of a record keeps the invariant.
LEMMA NextInv == IInv /\ [Next]_vars => IInv'
  <1> SUFFICES ASSUME IInv, [Next]_vars
               PROVE  IInv'
    OBVIOUS
  <1>1. CASE makeLogrData
    BY <1>1, MakeInv
  <1>2. CASE Puts
    BY <1>2, PutInv, OpenInv, ElementInv, CloseContainerInv, CloseInv DEF Puts
  <1>3. CASE Pushes
    BY <1>3, WholeTextInv, StreamEndsInv, LineEndInv DEF Pushes
  <1>4. CASE UNCHANGED vars
    BY <1>4 DEF vars, IInv, TypeOK, Good, Begun, Behind
  <1> QED
    BY <1>1, <1>2, <1>3, <1>4 DEF Next, Over

\* The invariant is strong enough.
LEMMA InvImplies == IInv => TypeOK /\ InsideBuffer
  BY DEF IInv, TypeOK, InsideBuffer, Good, Begun

\* The invariant holds of every record.
LEMMA RecordInv == Spec => []IInv
  BY InitInv, NextInv, PTL DEF Spec

\* The length of a record stays within the buffer and the stack of open <<
\* well formed, in makeLogrData, every <<, and pushLogr.
THEOREM RecordTypeCorrect == Spec => []TypeOK
  BY RecordInv, InvImplies, PTL

\* No << of Logr4zStream and no end of a line touches a byte outside _content,
\* nor steps back before the stream's own beginning.
THEOREM AlwaysInsideBuffer == Spec => []InsideBuffer
  BY RecordInv, InvImplies, PTL

-----------------------------------------------------------------------------
(***************************************************************************)
(* What is in the buffer.  While the top is a container whose last element *)
(* is behind it, the code has a ", " that the line has not: Line is the    *)
(* line with it.  The last two bytes of the buffer may hold anything.      *)
(***************************************************************************)
Trailing == stack # <<>> /\ Top.kind = "container" /\ ~Top.written /\ Top.done > 0
Line == IF Trailing THEN text \o <<",", " ">> ELSE text

Reaches(st, line) == st.cur = Len(line) \/ (st.cur >= SIZE - 2 /\ Len(line) >= st.cur)
Holds(st, line) == \A i \in Cells : i < SIZE - 2 /\ i < Len(line) => st.content[i] = line[i + 1]
Shown(st, line) == Holds(st, line) /\ Reaches(st, line)

\* An open << that has had an element, or has one open, is not empty.
Sized(s) == \A k \in 1 .. Len(s) : k < Len(s) \/ s[k].done > 0 => s[k].size > 0

Lined ==
  /\ pc \in {"stream", "push", "end"} =>
       text \in Seq(Bytes) /\ contentLen >= 3 /\ Shown(stream, Line)
  /\ pc = "stream" =>
       /\ Trailing => stream.cur = Len(Line) \/ stream.cur = SIZE
       /\ stack # <<>> /\ Top.written => Top.done > 0
       /\ Sized(stack)
  /\ pc \in {"push", "end"} => stack = <<>> /\ contentLen = stream.cur
  /\ LineIsText

-----------------------------------------------------------------------------
\* r is st with s written at _cur, as much of it as there is room for.
Wrote(st, s, r) ==
  /\ Good(r) /\ r.cur = Least(st.cur + Len(s), SIZE)
  /\ \A i \in Cells : i < SIZE - 2 =>
       /\ i < st.cur => r.content[i] = st.content[i]
       /\ i >= st.cur /\ i - st.cur + 1 \in 1 .. Len(s) => r.content[i] = s[i - st.cur + 1]

\* The bytes that Store leaves, one by one.
LEMMA StoreShows ==
  ASSUME NEW st, NEW at \in Nat, NEW bytes \in Seq(Bytes), NEW i \in Cells
  PROVE  /\ i - at + 1 \in 1 .. Len(bytes) => Store(st, at, bytes).content[i] = bytes[i - at + 1]
         /\ i - at + 1 \notin 1 .. Len(bytes) => Store(st, at, bytes).content[i] = st.content[i]
  BY LenProperties DEF Store

\* writeString writes as much as there is room for.
LEMMA WriteStringWrote ==
  ASSUME NEW st, Good(st), NEW s \in Seq(Bytes)
  PROVE  Wrote(st, s, writeString(st, s))
  <1>0. SIZE \in Nat /\ st.cur \in Nat /\ st.cur <= SIZE /\ Len(s) \in Nat
    BY RecordAssumption, LenProperties DEF Good
  <1>1. CASE st.cur >= SIZE
    <2>1. writeString(st, s) = st
      BY <1>1 DEF writeString
    <2> QED
      BY <1>0, <1>1, <2>1, WriteStringInside DEF Wrote, Cells
  <1>2. CASE st.cur < SIZE
    <2> DEFINE len == Least(Len(s), SIZE - st.cur)
               part == SubSeq(s, 1, len)
               next == st.cur + len
               put == Store(st, st.cur, part)
               at == IF next >= SIZE - 1 THEN SIZE - 1 ELSE next + 1
    <2>1. /\ len \in Nat /\ len <= Len(s) /\ next \in Nat /\ next <= SIZE /\ at \in Nat
          /\ at = SIZE - 1 \/ at = next + 1
          /\ len = Len(s) \/ next = SIZE
      BY <1>0, <1>2 DEF Least
    <2>2. part \in Seq(Bytes) /\ Len(part) = len /\ \A i \in 1 .. len : part[i] = s[i]
      BY <1>0, <2>1, SubSeqProperties
    <2>3. Advance(put, len).content = put.content
      BY DEF Advance, Store
    <2>4. writeString(st, s) = Store(Advance(put, len), at, <<NUL>>)
      BY <1>0, <1>2 DEF writeString
    <2> HIDE DEF len, part, at
    <2>5. \A i \in Cells :
            /\ i < st.cur => put.content[i] = st.content[i]
            /\ i >= st.cur /\ i - st.cur + 1 \in 1 .. len => put.content[i] = part[i - st.cur + 1]
      <3> TAKE i \in Cells
      <3>1. i \in Int /\ (i < st.cur => i - st.cur + 1 \notin 1 .. len)
        BY <1>0, <2>1 DEF Cells
      <3>2. /\ i - st.cur + 1 \in 1 .. len => put.content[i] = part[i - st.cur + 1]
            /\ i - st.cur + 1 \notin 1 .. len => put.content[i] = st.content[i]
        <4>1. st.cur \in Nat /\ part \in Seq(Bytes)
          BY <1>0, <2>2
        <4>2. /\ i - st.cur + 1 \in 1 .. Len(part) => Store(st, st.cur, part).content[i] = part[i - st.cur + 1]
              /\ i - st.cur + 1 \notin 1 .. Len(part) => Store(st, st.cur, part).content[i] = st.content[i]
          BY <4>1, StoreShows
        <4> QED
          BY <2>2, <4>2 DEF put
      <3> QED
        BY <3>1, <3>2
    <2> HIDE DEF put
    <2>6. \A i \in Cells : i # at => writeString(st, s).content[i] = put.content[i]
      <3> TAKE i \in Cells
      <3> DEFINE copied == Advance(put, len)
      <3>1. i - at + 1 \in 1 .. 1 => i = at
        BY <1>0, <2>1 DEF Cells
      <3>2. copied.content[i] = put.content[i]
        BY <2>3
      <3>3. writeString(st, s) = Store(copied, at, <<NUL>>)
        BY <2>4
      <3> HIDE DEF copied
      <3>4. i - at + 1 \notin 1 .. 1 => Store(copied, at, <<NUL>>).content[i] = copied.content[i]
        BY <2>1, OneNUL, StoreShows
      <3> QED
        BY <3>1, <3>2, <3>3, <3>4
    <2>7. ASSUME NEW i \in Cells, i < SIZE - 2
          PROVE  /\ i < st.cur => writeString(st, s).content[i] = st.content[i]
                 /\ i >= st.cur /\ i - st.cur + 1 \in 1 .. Len(s) =>
                      writeString(st, s).content[i] = s[i - st.cur + 1]
      <3>1. i \in Int /\ 0 <= i /\ i < SIZE
        BY <1>0 DEF Cells
      <3>2. CASE i < st.cur
        <4>1. i # at
          BY <1>0, <2>1, <2>7, <3>1, <3>2 DEF next
        <4> QED
          BY <1>0, <2>5, <2>6, <2>7, <3>1, <3>2, <4>1
      <3>3. CASE i >= st.cur /\ i - st.cur + 1 \in 1 .. Len(s)
        <4>1. i - st.cur + 1 \in 1 .. len
          BY <1>0, <2>1, <2>7, <3>1, <3>3 DEF next
        <4>2. i + 1 <= next
          BY <1>0, <2>1, <3>1, <4>1 DEF next
        <4>3. i # at
          BY <1>0, <2>1, <2>7, <3>1, <4>2
        <4> QED
          BY <2>2, <2>5, <2>6, <2>7, <3>3, <4>1, <4>3
      <3> QED
        BY <1>0, <3>1, <3>2, <3>3
    <2> QED
      BY <2>7, WriteStringInside DEF Wrote
  <1> QED
    BY <1>0, <1>1, <1>2

\* And so does writeData.
LEMMA WriteDataWrote ==
  ASSUME NEW st, Good(st), NEW s \in Seq(Bytes)
  PROVE  Wrote(st, s, writeData(st, s))
  <1>0. SIZE \in Nat /\ st.cur \in Nat /\ st.cur <= SIZE /\ Len(s) \in Nat
    BY RecordAssumption, LenProperties DEF Good
  <1>1. CASE st.cur >= SIZE
    <2>1. writeData(st, s) = st
      BY <1>1 DEF writeData
    <2> QED
      BY <1>0, <1>1, <2>1, WriteDataInside DEF Wrote, Cells
  <1>2. CASE st.cur < SIZE
    <2> DEFINE len == Least(Len(s), SIZE - st.cur - 1)
               part == SubSeq(s, 1, len)
               bytes == part \o <<NUL>>
    <2>1. len \in Nat /\ len <= Len(s) /\ (len = Len(s) \/ st.cur + len = SIZE - 1)
      BY <1>0, <1>2 DEF Least
    <2>2. part \in Seq(Bytes) /\ Len(part) = len /\ \A i \in 1 .. len : part[i] = s[i]
      BY <1>0, <2>1, SubSeqProperties
    <2>4. writeData(st, s).content = Store(st, st.cur, bytes).content
      <3>1. writeData(st, s) = Advance(snprintf(st, s), Least(Len(s), SIZE - st.cur))
        BY <1>0, <1>2 DEF writeData
      <3>2. snprintf(st, s) = Store(st, st.cur, bytes)
        BY DEF snprintf
      <3> DEFINE put == Store(st, st.cur, bytes)
      <3>3. \A n : Advance(put, n).content = put.content
        BY DEF Advance, Store
      <3> QED
        BY <3>1, <3>2, <3>3
    <2> HIDE DEF len, part
    <2>3. bytes \in Seq(Bytes) /\ Len(bytes) = len + 1 /\ \A i \in 1 .. len : bytes[i] = s[i]
      BY <2>1, <2>2, OneNUL, ConcatProperties
    <2> HIDE DEF bytes
    <2>5. ASSUME NEW i \in Cells, i < SIZE - 2
          PROVE  /\ i < st.cur => writeData(st, s).content[i] = st.content[i]
                 /\ i >= st.cur /\ i - st.cur + 1 \in 1 .. Len(s) =>
                      writeData(st, s).content[i] = s[i - st.cur + 1]
      <3>1. i \in Int /\ 0 <= i /\ i < SIZE
        BY <1>0 DEF Cells
      <3>0. /\ i - st.cur + 1 \in 1 .. Len(bytes) => writeData(st, s).content[i] = bytes[i - st.cur + 1]
            /\ i - st.cur + 1 \notin 1 .. Len(bytes) => writeData(st, s).content[i] = st.content[i]
        <4>1. st.cur \in Nat /\ bytes \in Seq(Bytes)
          BY <1>0, <2>3
        <4>2. /\ i - st.cur + 1 \in 1 .. Len(bytes) => Store(st, st.cur, bytes).content[i] = bytes[i - st.cur + 1]
              /\ i - st.cur + 1 \notin 1 .. Len(bytes) => Store(st, st.cur, bytes).content[i] = st.content[i]
          BY <4>1, StoreShows
        <4> QED
          BY <2>4, <4>2
      <3>2. CASE i < st.cur
        <4>1. i - st.cur + 1 \notin 1 .. Len(bytes)
          BY <1>0, <3>1, <3>2
        <4> QED
          BY <1>0, <3>0, <3>1, <3>2, <4>1
      <3>3. CASE i >= st.cur /\ i - st.cur + 1 \in 1 .. Len(s)
        <4>1. i - st.cur + 1 \in 1 .. len
          BY <1>0, <2>1, <2>5, <3>1, <3>3
        <4>2. i - st.cur + 1 \in 1 .. Len(bytes)
          BY <2>1, <2>3, <4>1
        <4> QED
          BY <1>0, <2>3, <3>0, <3>1, <3>3, <4>1, <4>2
      <3> QED
        BY <1>0, <3>1, <3>2, <3>3
    <2> QED
      BY <2>5, WriteDataInside DEF Wrote
  <1> QED
    BY <1>0, <1>1, <1>2

\* Bytes behind bytes behind bytes.
LEMMA Joined ==
  ASSUME NEW a \in Seq(Bytes), NEW b \in Seq(Bytes), NEW c \in Seq(Bytes)
  PROVE  (a \o b) \o c = a \o (b \o c)
  BY ConcatAssociative

\* A line that is shown is still shown with what is written behind it.
LEMMA StillShown ==
  ASSUME NEW st, Good(st), NEW line \in Seq(Bytes), NEW s \in Seq(Bytes), NEW r,
         Shown(st, line), Wrote(st, s, r)
  PROVE  /\ Good(r) /\ line \o s \in Seq(Bytes) /\ Shown(r, line \o s)
         /\ Len(s) >= 2 => r.cur = Len(line \o s) \/ r.cur = SIZE
  <1> DEFINE all == line \o s
  <1>1. /\ SIZE \in Nat /\ st.cur \in Nat /\ st.cur <= SIZE /\ Len(s) \in Nat /\ Len(line) \in Nat
    BY RecordAssumption, LenProperties DEF Good
  <1>2. /\ all \in Seq(Bytes) /\ Len(all) = Len(line) + Len(s)
        /\ \A i \in 1 .. Len(line) : all[i] = line[i]
        /\ \A i \in 1 .. Len(s) : all[Len(line) + i] = s[i]
    BY ConcatProperties
  <1> HIDE DEF all
  <1>3. Good(r) /\ r.cur = Least(st.cur + Len(s), SIZE)
    BY DEF Wrote
  <1>4. Reaches(r, all) /\ (Len(s) >= 2 => r.cur = Len(all) \/ r.cur = SIZE)
    <2>1. st.cur = Len(line) \/ (st.cur >= SIZE - 2 /\ Len(line) >= st.cur)
      BY DEF Shown, Reaches
    <2> DEFINE n == Len(s)
               l == Len(line)
               at == st.cur
               cur == r.cur
    <2>2. n \in Nat /\ l \in Nat /\ at \in Nat /\ at <= SIZE /\ SIZE \in Nat
      BY <1>1
    <2>3. at = l \/ (at >= SIZE - 2 /\ l >= at)
      BY <2>1
    <2>4. cur = Least(at + n, SIZE)
      BY <1>3
    <2>5. Len(all) = l + n
      BY <1>2
    <2> HIDE DEF n, l, at, cur
    <2>6. /\ cur = l + n \/ (cur >= SIZE - 2 /\ l + n >= cur)
          /\ n >= 2 => cur = l + n \/ cur = SIZE
      BY <2>2, <2>3, <2>4 DEF Least
    <2> QED
      BY <2>5, <2>6 DEF Reaches, n, cur
  <1>5. ASSUME NEW i \in Cells, i < SIZE - 2, i < Len(all)
        PROVE  r.content[i] = all[i + 1]
    <2>1. i \in Int /\ 0 <= i
      BY <1>1 DEF Cells
    <2>2. CASE i < Len(line)
      <3>1. i < st.cur /\ i + 1 \in 1 .. Len(line)
        BY <1>1, <1>5, <2>1, <2>2 DEF Shown, Reaches
      <3>2. st.content[i] = line[i + 1]
        BY <1>5, <2>2 DEF Shown, Holds
      <3> QED
        BY <1>2, <1>5, <3>1, <3>2 DEF Wrote
    <2>3. CASE i >= Len(line)
      <3>1. st.cur = Len(line)
        BY <1>1, <1>5, <2>1, <2>3 DEF Shown, Reaches
      <3>2. i - st.cur + 1 \in 1 .. Len(s) /\ Len(line) + (i - st.cur + 1) = i + 1
        BY <1>1, <1>2, <1>5, <2>1, <2>3, <3>1
      <3>3. r.content[i] = s[i - st.cur + 1]
        BY <1>1, <1>5, <2>1, <2>3, <3>1, <3>2 DEF Wrote
      <3>4. all[Len(line) + (i - st.cur + 1)] = s[i - st.cur + 1]
        BY <1>2, <3>2
      <3> QED
        BY <3>2, <3>3, <3>4
    <2> QED
      BY <1>1, <2>1, <2>2, <2>3
  <1>6. Holds(r, all)
    BY <1>5 DEF Holds
  <1> QED
    BY <1>2, <1>3, <1>4, <1>6 DEF Shown, all

\* What is written moves _cur forward.
LEMMA OnlyForward ==
  ASSUME NEW st, Good(st), NEW s \in Seq(Bytes), NEW r, Wrote(st, s, r)
  PROVE  st.cur <= r.cur
  <1>1. st.cur \in Nat /\ st.cur <= SIZE /\ SIZE \in Nat /\ Len(s) \in Nat
    BY RecordAssumption, LenProperties DEF Good
  <1>2. r.cur = Least(st.cur + Len(s), SIZE)
    BY DEF Wrote
  <1> QED
    BY <1>1, <1>2 DEF Least

-----------------------------------------------------------------------------
\* A frame put in the place of the top.
LEMMA TopSized ==
  ASSUME NEW s \in Seq(Frames), s # <<>>, Sized(s), NEW f \in Frames, f.size > 0
  PROVE  /\ Sized([s EXCEPT ![Len(s)] = f])
         /\ [s EXCEPT ![Len(s)] = f] # <<>>
         /\ Len([s EXCEPT ![Len(s)] = f]) = Len(s)
         /\ [s EXCEPT ![Len(s)] = f][Len(s)] = f
  <1> DEFINE t == [s EXCEPT ![Len(s)] = f]
  <1>1. Len(s) \in 1 .. Len(s) /\ Len(s) \in Nat
    BY EmptySeq, LenProperties
  <1>2. t \in Seq(Frames) /\ Len(t) = Len(s) /\ \A j \in 1 .. Len(s) : t[j] = IF j = Len(s) THEN f ELSE s[j]
    BY <1>1, ExceptSeq
  <1> HIDE DEF t
  <1>3. t # <<>> /\ t[Len(s)] = f
    BY <1>1, <1>2, EmptySeq
  <1>4. Sized(t)
    BY <1>1, <1>2 DEF Sized
  <1> QED
    BY <1>2, <1>3, <1>4 DEF t

\* The return of an element's <<.
LEMMA WrittenSized ==
  ASSUME NEW s \in Seq(Frames), Sized(s), s # <<>> => s[Len(s)].size > 0
  PROVE  /\ Sized(Written(s))
         /\ Written(s) # <<>> => Written(s)[Len(Written(s))].written /\ Written(s)[Len(Written(s))].done > 0
  <1>1. CASE s = <<>>
    BY <1>1 DEF Written
  <1>2. CASE s # <<>>
    <2>1. Len(s) \in 1 .. Len(s) /\ s[Len(s)] \in Frames
      BY <1>2, EmptySeq, LenProperties
    <2> DEFINE g == s[Len(s)]
               f == [g EXCEPT !.written = TRUE, !.done = @ + 1]
    <2>2. f \in Frames /\ f.written = TRUE
      BY <2>1, FrameChanged
    <2>3. g.size \in Nat /\ g.done \in Nat /\ g.size > 0 /\ f.size = g.size /\ f.done = g.done + 1
      <3>1. g.size > 0
        BY <1>2
      <3> QED
        BY <2>1, <3>1 DEF Frames
    <2>4. Written(s) = [s EXCEPT ![Len(s)] = f]
      BY <1>2 DEF Written
    <2> HIDE DEF f, g
    <2>5. f.size > 0 /\ f.done > 0
      BY <2>3
    <2> DEFINE t == [s EXCEPT ![Len(s)] = f]
    <2>6. Sized(t) /\ Len(t) = Len(s) /\ t[Len(s)] = f
      BY <1>2, <2>2, <2>5, TopSized
    <2>7. Written(s) = t
      BY <2>4
    <2> HIDE DEF t
    <2> QED
      BY <2>2, <2>5, <2>6, <2>7
  <1> QED
    BY <1>1, <1>2

\* The stack under the top: each of its << waits for an element of its own.
LEMMA RestSized ==
  ASSUME stack \in Seq(Frames), stack # <<>>, Sized(stack)
  PROVE  Sized(Rest) /\ (Rest # <<>> => Rest[Len(Rest)].size > 0)
  <1>1. Len(stack) \in Nat \ {0} /\ Len(Rest) = Len(stack) - 1
    BY RestKeeps
  <1>2. \A i \in 1 .. Len(stack) - 1 : Rest[i] = stack[i]
    <2> DEFINE n == Len(stack) - 1
    <2>1. n \in Nat /\ 1 \in Int /\ n \in Int /\ \A i \in 1 .. n : stack[i] \in Frames
      BY <1>1
    <2>2. Rest = SubSeq(stack, 1, n)
      BY DEF Rest
    <2> HIDE DEF n
    <2>3. \A i \in 1 .. n - 1 + 1 : SubSeq(stack, 1, n)[i] = stack[1 + i - 1]
      BY <2>1, SubSeqProperties
    <2>4. \A i \in 1 .. n : i \in 1 .. n - 1 + 1 /\ 1 + i - 1 = i
      BY <2>1
    <2>5. \A i \in 1 .. n : Rest[i] = stack[i]
      BY <2>2, <2>3, <2>4
    <2> QED
      BY <2>5 DEF n
  <1>3. \A i \in 1 .. Len(Rest) : Rest[i].size > 0
    BY <1>1, <1>2 DEF Sized
  <1>4. Rest # <<>> => Len(Rest) \in 1 .. Len(Rest)
    BY <1>1, RestKeeps, EmptySeq
  <1> QED
    BY <1>3, <1>4 DEF Sized

\* A << that opens on top of one that waits for an element.
LEMMA OpenSized ==
  ASSUME stack \in Seq(Frames), Sized(stack), stack # <<>> => Top.size > 0,
         NEW f \in Frames, f.done = 0
  PROVE  /\ Sized(Append(stack, f)) /\ Append(stack, f) # <<>>
         /\ Append(stack, f)[Len(Append(stack, f))] = f
  <1> DEFINE t == Append(stack, f)
  <1>1. Len(stack) \in Nat /\ (Len(stack) # 0 => stack # <<>>)
    BY LenProperties, EmptySeq
  <1>2. /\ t # <<>> /\ Len(t) = Len(stack) + 1
        /\ \A i \in 1 .. Len(stack) : t[i] = stack[i]
        /\ t[Len(stack) + 1] = f
    BY AppendProperties
  <1> HIDE DEF t
  <1>3. \A i \in 1 .. Len(stack) : stack[i].size > 0
    BY <1>1 DEF Sized, Top
  <1>4. ASSUME NEW k \in 1 .. Len(t), k < Len(t) \/ t[k].done > 0
        PROVE  t[k].size > 0
    <2>1. CASE k \in 1 .. Len(stack)
      BY <1>2, <1>3, <2>1
    <2>2. CASE k = Len(stack) + 1
      BY <1>1, <1>2, <1>4, <2>2
    <2> QED
      BY <1>1, <1>2, <2>1, <2>2
  <1>5. Sized(t)
    BY <1>4 DEF Sized
  <1> QED
    BY <1>1, <1>2, <1>5 DEF t

-----------------------------------------------------------------------------
\* What is known of the line while the caller streams.
LEMMA LineFacts ==
  ASSUME IInv, Lined, pc = "stream"
  PROVE  /\ Line \in Seq(Bytes) /\ text \in Seq(Bytes) /\ Shown(stream, Line) /\ Good(stream)
         /\ stack \in Seq(Frames) /\ Sized(stack)
         /\ stack # <<>> => Top \in Frames
  <1>1. text \in Seq(Bytes) /\ text \o <<",", " ">> \in Seq(Bytes)
    BY Texts, ConcatProperties DEF Lined
  <1>2. Line \in Seq(Bytes)
    BY <1>1 DEF Line
  <1> QED
    BY <1>1, <1>2, StreamingFacts, RestKeeps DEF Lined

\* A step of a << keeps the invariant, if it shows the line it makes.
LEMMA LinedOn ==
  ASSUME Lined, pc = "stream", pc' = "stream", contentLen' = contentLen,
         text' \in Seq(Bytes), Shown(stream', Line'), Sized(stack'),
         Trailing' => stream'.cur = Len(Line') \/ stream'.cur = SIZE,
         stack' # <<>> => (Top'.written => Top'.done > 0)
  PROVE  Lined'
  BY DEF Lined, LineIsText

\* A text with what leads to it is written behind the line as it is shown.
LEMMA LeadBehind ==
  ASSUME text \in Seq(Bytes), NEW s \in Seq(Bytes), stack = <<>> \/ ~Top.written
  PROVE  text \o Lead(s) = Line \o s
  <1>1. CASE Trailing
    <2> DEFINE comma == <<",", " ">>
    <2>1. Lead(s) = comma \o s /\ Line = text \o comma
      BY <1>1 DEF Trailing, Lead, Line
    <2>2. comma \in Seq(Bytes)
      BY Texts
    <2> HIDE DEF comma
    <2>3. (text \o comma) \o s = text \o (comma \o s)
      BY <2>2, Joined
    <2> QED
      BY <2>1, <2>3
  <1>2. CASE ~Trailing
    BY <1>2 DEF Trailing, Lead, Line
  <1> QED
    BY <1>1, <1>2

\* After an element there is no comma yet.
LEMMA NoneAfter ==
  ASSUME stack' # <<>> => Top'.written
  PROVE  ~Trailing' /\ Line' = text'
  BY DEF Trailing, Line

\* Values.
LEMMA PutLined ==
  ASSUME IInv, Lined, putData \/ putString
  PROVE  Lined'
  <1>1. /\ pc = "stream" /\ contentLen' = contentLen /\ pc' = "stream"
        /\ stack' = Written(stack)
        /\ stack = <<>> \/ ~Top.written
        /\ stack # <<>> => Top.done < Least(Top.size, Top.limit)
        /\ \E n \in Lens : /\ stream' = writeData(stream, Value(n)) \/ stream' = writeString(stream, Value(n))
                           /\ text' = text \o Lead(Value(n))
    BY DEF putData, putString, Streaming, Counted, Due
  <1>2. PICK n \in Lens : /\ stream' = writeData(stream, Value(n)) \/ stream' = writeString(stream, Value(n))
                          /\ text' = text \o Lead(Value(n))
    BY <1>1
  <1> DEFINE v == Value(n)
  <1>3. v \in Seq(Bytes)
    BY <1>1, RecordAssumption, StreamingFacts, Values
  <1>4. stream' = writeData(stream, v) \/ stream' = writeString(stream, v)
    BY <1>2
  <1>5. text' = text \o Lead(v)
    BY <1>2
  <1> HIDE DEF v
  <1>6. text' = Line \o v
    BY <1>1, <1>3, <1>5, LineFacts, LeadBehind
  <1>7. Wrote(stream, v, stream')
    BY <1>1, <1>3, <1>4, LineFacts, WriteDataWrote, WriteStringWrote
  <1>8. text' \in Seq(Bytes) /\ Shown(stream', text')
    BY <1>1, <1>3, <1>6, <1>7, LineFacts, StillShown
  <1>9. stack # <<>> => Top.size > 0
    BY <1>1, LineFacts DEF Least, Frames
  <1>10. Sized(stack') /\ (stack' # <<>> => Top'.written /\ Top'.done > 0)
    BY <1>1, <1>9, LineFacts, WrittenSized DEF Top
  <1> QED
    BY <1>1, <1>8, <1>10, NoneAfter, LinedOn

\* A new << has had no element.
LEMMA NoneYet ==
  ASSUME stack' # <<>>, Top'.done = 0, Top'.written = FALSE
  PROVE  ~Trailing' /\ Line' = text'
  <1>1. ~(Top'.done > 0)
    OBVIOUS
  <1> QED
    BY <1>1 DEF Trailing, Line

\* The beginning of a container, a pair or a binary.
LEMMA OpenLined ==
  ASSUME IInv, Lined, openContainer \/ openPair \/ openBinary
  PROVE  Lined'
  <1>1. /\ pc = "stream" /\ contentLen' = contentLen /\ pc' = "stream"
        /\ stack = <<>> \/ ~Top.written
        /\ stack # <<>> => Top.done < Least(Top.size, Top.limit)
    BY DEF openContainer, openPair, openBinary, Opening, Streaming, Counted, Due
  <1>2. /\ Line \in Seq(Bytes) /\ text \in Seq(Bytes) /\ Good(stream) /\ Shown(stream, Line)
        /\ stack \in Seq(Frames) /\ Sized(stack)
    BY <1>1, LineFacts
  <1>3. stack # <<>> => Top.size > 0
    BY <1>1, LineFacts DEF Least, Frames
  <1>4. \E f \in Frames : f.done = 0 /\ f.written = FALSE /\ stack' = Append(stack, f)
    <2>1. \A k \in {"container", "pair", "binary"}, a, b \in Nat :
            Frame(k, a, b) \in Frames /\ Frame(k, a, b).done = 0 /\ Frame(k, a, b).written = FALSE
      BY DEF Frame, Frames
    <2>2. \E k \in {"container", "pair", "binary"}, a, b \in Nat : stack' = Append(stack, Frame(k, a, b))
      BY RecordAssumption DEF openContainer, openPair, openBinary
    <2> QED
      BY <2>1, <2>2
  <1>5. stack' # <<>> /\ Top'.done = 0 /\ Top'.written = FALSE /\ Sized(stack')
    <2>1. PICK f \in Frames : f.done = 0 /\ f.written = FALSE /\ stack' = Append(stack, f)
      BY <1>4
    <2> QED
      BY <1>2, <1>3, <2>1, OpenSized DEF Top
  <1>6. \E s \in Seq(Bytes) : text' = text \o Lead(s) /\ Shown(stream', Line \o s)
    <2>1. CASE openContainer
      <3> DEFINE name == <<"m", "a", "p", "(">>
                 size == Digits(1)
                 open == <<")", "[">>
                 x == writeString(stream, name)
                 y == writeData(x, size)
      <3>1. name \in Seq(Bytes) /\ size \in Seq(Bytes) /\ open \in Seq(Bytes)
        BY Texts, Values
      <3>2. stream' = writeString(y, open) /\ text' = text \o Lead((name \o size) \o open)
        <4>1. text' = text \o Lead(name \o size \o open)
          BY <2>1 DEF openContainer
        <4> QED
          BY <2>1, <4>1 DEF openContainer
      <3> HIDE DEF name, size, open
      <3>3. Good(x) /\ Line \o name \in Seq(Bytes) /\ Shown(x, Line \o name)
        BY <1>2, <3>1, WriteStringWrote, StillShown
      <3> HIDE DEF x
      <3>4. Good(y) /\ (Line \o name) \o size \in Seq(Bytes) /\ Shown(y, (Line \o name) \o size)
        BY <3>1, <3>3, WriteDataWrote, StillShown
      <3> HIDE DEF y
      <3>5. Shown(stream', ((Line \o name) \o size) \o open)
        BY <3>1, <3>2, <3>4, WriteStringWrote, StillShown
      <3>6. (Line \o name) \o size = Line \o (name \o size) /\ name \o size \in Seq(Bytes)
        <4>1. (Line \o name) \o size = Line \o (name \o size)
          <5>1. Line \in Seq(Bytes) /\ name \in Seq(Bytes) /\ size \in Seq(Bytes)
            BY <1>2, <3>1
          <5> QED
            BY <5>1, Joined
        <4>2. name \o size \in Seq(Bytes)
          BY <3>1, ConcatProperties
        <4> QED
          BY <4>1, <4>2
      <3> DEFINE ns == name \o size
      <3>7. ns \in Seq(Bytes) /\ Shown(stream', (Line \o ns) \o open) /\ text' = text \o Lead(ns \o open)
        BY <3>2, <3>5, <3>6
      <3> HIDE DEF ns
      <3>8. (Line \o ns) \o open = Line \o (ns \o open) /\ ns \o open \in Seq(Bytes)
        <4>1. (Line \o ns) \o open = Line \o (ns \o open)
          <5>1. Line \in Seq(Bytes) /\ ns \in Seq(Bytes) /\ open \in Seq(Bytes)
            BY <1>2, <3>1, <3>7
          <5> QED
            BY <5>1, Joined
        <4>2. ns \o open \in Seq(Bytes)
          BY <3>1, <3>7, ConcatProperties
        <4> QED
          BY <4>1, <4>2
      <3> QED
        BY <3>7, <3>8
    <2>2. CASE openPair
      <3> DEFINE open == <<"p", "(">>
      <3>1. open \in Seq(Bytes) /\ stream' = writeString(stream, open) /\ text' = text \o Lead(open)
        BY <2>2, Texts DEF openPair
      <3> HIDE DEF open
      <3> QED
        BY <1>2, <3>1, WriteStringWrote, StillShown
    <2>3. CASE openBinary
      <3> DEFINE open == <<"\r", "\n", "\t", "[">>
      <3>1. open \in Seq(Bytes) /\ stream' = writeData(stream, open) /\ text' = text \o Lead(open)
        BY <2>3, Texts DEF openBinary
      <3> HIDE DEF open
      <3> QED
        BY <1>2, <3>1, WriteDataWrote, StillShown
    <2> QED
      BY <2>1, <2>2, <2>3
  <1>7. PICK s \in Seq(Bytes) : text' = text \o Lead(s) /\ Shown(stream', Line \o s)
    BY <1>6
  <1>8. text' = Line \o s
    BY <1>1, <1>2, <1>7, LeadBehind
  <1>9. text' \in Seq(Bytes) /\ Shown(stream', text')
    BY <1>2, <1>7, <1>8, ConcatProperties
  <1>10. ~Trailing' /\ Line' = text'
    BY <1>5, NoneYet
  <1> QED
    BY <1>1, <1>5, <1>9, <1>10, LinedOn

\* Five bytes are the first three and the other two.
LEMMA ThreeAndTwo ==
  ASSUME NEW a \in Seq(Bytes), NEW b \in Seq(Bytes), NEW c \in Seq(Bytes),
         Len(a) = 3, Len(b) = 2, Len(c) = 5,
         c[1] = a[1], c[2] = a[2], c[3] = a[3], c[4] = b[1], c[5] = b[2]
  PROVE  c = a \o b
  <1> DEFINE both == a \o b
  <1>1. /\ both \in Seq(Bytes) /\ Len(both) = 3 + 2
        /\ \A i \in 1 .. 3 + 2 : both[i] = IF i <= 3 THEN a[i] ELSE b[i - 3]
    <2>1. /\ both \in Seq(Bytes) /\ Len(both) = Len(a) + Len(b)
          /\ \A i \in 1 .. Len(a) + Len(b) : both[i] = IF i <= Len(a) THEN a[i] ELSE b[i - Len(a)]
      BY ConcatProperties
    <2> HIDE DEF both
    <2> QED
      BY <2>1
  <1> HIDE DEF both
  <1>2. both[1] = a[1] /\ both[2] = a[2] /\ both[3] = a[3]
    BY <1>1
  <1>3. both[4] = b[4 - 3] /\ both[5] = b[5 - 3]
    BY <1>1
  <1>4. \A i \in 1 .. 5 : i = 1 \/ i = 2 \/ i = 3 \/ i = 4 \/ i = 5
    OBVIOUS
  <1>5. \A i \in 1 .. 5 : c[i] = both[i]
    BY <1>2, <1>3, <1>4
  <1>6. Len(both) = 5 /\ both \in Seq(Bytes)
    BY <1>1
  <1>7. c = both
    <2>1. Len(c) = Len(both) /\ \A i \in 1 .. Len(c) : c[i] = both[i]
      BY <1>5, <1>6
    <2> QED
      BY <1>6, <2>1, SeqEqual
  <1> QED
    BY <1>7 DEF both

\* The comma behind an element, and the dots behind the last that is shown.
LEMMA CommaLined ==
  ASSUME IInv, Lined, putComma \/ putDots
  PROVE  Lined'
  <1>1. /\ pc = "stream" /\ contentLen' = contentLen /\ pc' = "stream" /\ stack # <<>>
        /\ Top.kind = "container"
    BY DEF putComma, putDots, Streaming
  <1>2. /\ Line \in Seq(Bytes) /\ text \in Seq(Bytes) /\ Good(stream) /\ Shown(stream, Line)
        /\ stack \in Seq(Frames) /\ Sized(stack) /\ Top \in Frames
    BY <1>1, LineFacts
  <1> DEFINE comma == <<",", " ">>
             dots == <<".", ".", ".">>
             five == <<".", ".", ".", ",", " ">>
  <1>3. PICK f \in Frames :
          /\ stack' = [stack EXCEPT ![Len(stack)] = f]
          /\ f.size > 0 /\ f.done > 0 /\ f.written = FALSE /\ f.kind = "container"
    <2>1. CASE putComma
      <3> DEFINE f == [Top EXCEPT !.written = FALSE]
      <3>1. stack' = [stack EXCEPT ![Len(stack)] = f]
        BY <2>1 DEF putComma, Top
      <3>2. Top.done > 0 /\ Top.size > 0
        <4>1. Top.done > 0
          BY <1>1, <2>1 DEF putComma, Lined
        <4>2. Len(stack) \in 1 .. Len(stack)
          BY <1>1, <1>2, RestKeeps
        <4> QED
          BY <1>2, <4>1, <4>2 DEF Sized, Top
      <3>3. f \in Frames /\ f.size = Top.size /\ f.done = Top.done /\ f.written = FALSE /\ f.kind = Top.kind
        BY <1>2 DEF Frames
      <3> QED
        BY <1>1, <3>1, <3>2, <3>3
    <2>2. CASE putDots
      <3> DEFINE f == [Top EXCEPT !.done = @ + 1]
      <3>1. stack' = [stack EXCEPT ![Len(stack)] = f]
        BY <2>2 DEF putDots, Top
      <3>2. Top.size \in Nat /\ Top.done \in Nat /\ Top.written \in BOOLEAN
        BY <1>2 DEF Frames
      <3>3. Top.size > DEPTH /\ ~Top.written
        BY <2>2 DEF putDots
      <3>4. Top.size > 0 /\ Top.written = FALSE
        BY <3>2, <3>3, RecordAssumption
      <3>5. f \in Frames /\ f.size = Top.size /\ f.kind = Top.kind
        BY <1>2, FrameChanged DEF Frames
      <3>6. f.done = Top.done + 1 /\ f.written = Top.written
        BY <1>2 DEF Frames
      <3> HIDE DEF f
      <3> QED
        <4>1. f.size > 0 /\ f.done > 0 /\ f.written = FALSE /\ f.kind = "container"
          BY <1>1, <3>2, <3>4, <3>5, <3>6
        <4> QED
          BY <3>1, <3>5, <4>1
    <2> QED
      BY <2>1, <2>2
  <1>4. /\ stack' # <<>> /\ Sized(stack') /\ Top' = f
        /\ Trailing' /\ Line' = text' \o comma
    <2>1. stack' # <<>> /\ Sized(stack') /\ Top' = f
      <3>1. stack # <<>> /\ stack \in Seq(Frames) /\ Sized(stack) /\ f.size > 0
            /\ stack' = [stack EXCEPT ![Len(stack)] = f]
        BY <1>1, <1>2, <1>3
      <3> QED
        BY <3>1, TopSized DEF Top
    <2>2. Trailing'
      BY <1>3, <2>1 DEF Trailing
    <2> QED
      BY <2>1, <2>2 DEF Line
  <1>5. text' \in Seq(Bytes) /\ \E s \in Seq(Bytes) : Len(s) >= 2 /\ Line' = Line \o s /\ stream' = writeString(stream, s)
    <2>1. CASE putComma
      <3>1. text' = text /\ Line = text /\ stream' = writeString(stream, comma)
        BY <2>1 DEF putComma, Line, Trailing
      <3>2. comma \in Seq(Bytes) /\ Len(comma) = 2
        BY Texts
      <3>3. Line' = Line \o comma
        BY <1>4, <3>1
      <3> HIDE DEF comma
      <3>4. text' \in Seq(Bytes) /\ Len(comma) >= 2
        BY <1>2, <3>1, <3>2
      <3> QED
        BY <3>1, <3>2, <3>3, <3>4
    <2>2. CASE putDots
      <3>1. text' = text \o Lead(dots) /\ ~Top.written /\ stream' = writeString(stream, five)
        BY <2>2 DEF putDots
      <3>2. comma \in Seq(Bytes) /\ five \in Seq(Bytes) /\ Len(five) = 5
        BY Texts
      <3>0. dots \in Seq(Bytes)
        <4>1. "." \in Bytes
          BY DEF Bytes
        <4> HIDE DEF Bytes
        <4> QED
          BY <4>1
      <3>5. five = dots \o comma
        <4>1. Len(dots) = 3 /\ Len(comma) = 2
          OBVIOUS
        <4>2. /\ dots[1] = "." /\ dots[2] = "." /\ dots[3] = "." /\ comma[1] = "," /\ comma[2] = " "
              /\ five[1] = "." /\ five[2] = "." /\ five[3] = "." /\ five[4] = "," /\ five[5] = " "
          OBVIOUS
        <4> HIDE DEF dots, comma, five
        <4> QED
          BY <3>0, <3>2, <4>1, <4>2, ThreeAndTwo
      <3> HIDE DEF comma, dots, five
      <3>3. text' = Line \o dots
        BY <1>2, <3>0, <3>1, LeadBehind
      <3>4. text' \in Seq(Bytes)
        BY <1>2, <3>0, <3>3, ConcatProperties
      <3>6. Line' = Line \o five
        <4>1. Line \in Seq(Bytes) /\ dots \in Seq(Bytes) /\ comma \in Seq(Bytes)
          BY <1>2, <3>0, <3>2
        <4>2. (Line \o dots) \o comma = Line \o (dots \o comma)
          BY <4>1, Joined
        <4> QED
          BY <1>4, <3>3, <3>5, <4>2
      <3>7. Len(five) >= 2
        BY <3>2
      <3> QED
        BY <3>1, <3>2, <3>4, <3>6, <3>7
    <2> QED
      BY <2>1, <2>2
  <1>6. PICK s \in Seq(Bytes) : Len(s) >= 2 /\ Line' = Line \o s /\ stream' = writeString(stream, s)
    BY <1>5
  <1>7. Shown(stream', Line') /\ (stream'.cur = Len(Line') \/ stream'.cur = SIZE)
    BY <1>2, <1>6, WriteStringWrote, StillShown
  <1> QED
    BY <1>1, <1>3, <1>4, <1>5, <1>7, LinedOn

\* What is not an element of a container leads to no comma.
LEMMA OtherTop ==
  ASSUME stack # <<>>, Top.kind # "container" \/ Top.written
  PROVE  ~Trailing /\ Line = text
  BY DEF Trailing, Line

\* The colon of a pair, and the bytes of a binary.
LEMMA ElementLined ==
  ASSUME IInv, Lined, putColon \/ putByte
  PROVE  Lined'
  <1>1. /\ pc = "stream" /\ contentLen' = contentLen /\ pc' = "stream" /\ stack # <<>>
        /\ Top.kind = "pair" \/ Top.kind = "binary"
    BY DEF putColon, putByte, Streaming
  <1>2. /\ Line \in Seq(Bytes) /\ Good(stream) /\ Shown(stream, Line) /\ Line = text
        /\ stack \in Seq(Frames) /\ Sized(stack) /\ Top \in Frames
    BY <1>1, LineFacts, OtherTop
  <1>3. PICK f \in Frames :
          /\ stack' = [stack EXCEPT ![Len(stack)] = f]
          /\ f.size > 0 /\ f.kind = Top.kind /\ (f.written => f.done > 0)
    <2>1. CASE putColon
      <3> DEFINE f == [Top EXCEPT !.written = FALSE]
      <3>1. stack' = [stack EXCEPT ![Len(stack)] = f]
        BY <2>1 DEF putColon, Top
      <3>2. Top.size > 0
        <4>1. Top.done > 0
          BY <2>1 DEF putColon
        <4>2. Len(stack) \in 1 .. Len(stack)
          BY <1>1, <1>2, RestKeeps
        <4> QED
          BY <1>2, <4>1, <4>2 DEF Sized, Top
      <3>3. f \in Frames /\ f.size = Top.size /\ f.written = FALSE /\ f.kind = Top.kind
        BY <1>2 DEF Frames
      <3> QED
        BY <3>1, <3>2, <3>3
    <2>2. CASE putByte
      <3> DEFINE f == [Top EXCEPT !.done = @ + 1]
      <3>1. stack' = [stack EXCEPT ![Len(stack)] = f]
        BY <2>2 DEF putByte, Top
      <3>2. Top.size \in Nat /\ Top.done \in Nat /\ Top.done < Top.size
        BY <1>2, <2>2 DEF putByte, Frames
      <3>3. f \in Frames /\ f.size = Top.size /\ f.kind = Top.kind
        BY <1>2, FrameChanged DEF Frames
      <3>4. f.done = Top.done + 1
        BY <1>2 DEF Frames
      <3> HIDE DEF f
      <3>5. f.size > 0 /\ f.done > 0
        BY <3>2, <3>3, <3>4
      <3> QED
        BY <3>1, <3>3, <3>5
    <2> QED
      BY <2>1, <2>2
  <1>4. stack' # <<>> /\ Sized(stack') /\ Top' = f /\ ~Trailing' /\ Line' = text'
    <2>1. stack' # <<>> /\ Sized(stack') /\ Top' = f
      <3>1. stack # <<>> /\ stack \in Seq(Frames) /\ Sized(stack) /\ f.size > 0
            /\ stack' = [stack EXCEPT ![Len(stack)] = f]
        BY <1>1, <1>2, <1>3
      <3> QED
        BY <3>1, TopSized DEF Top
    <2>2. Top'.kind # "container"
      BY <1>1, <1>3, <2>1
    <2>3. ~Trailing'
      BY <2>2 DEF Trailing
    <2> QED
      BY <2>1, <2>3 DEF Line
  <1>5. text' \in Seq(Bytes) /\ Shown(stream', text')
    <2>1. CASE putColon
      <3> DEFINE colon == <<":">>
      <3>1. colon \in Seq(Bytes) /\ stream' = writeString(stream, colon) /\ text' = text \o colon
        BY <2>1, Texts DEF putColon, Emit
      <3> HIDE DEF colon
      <3> QED
        BY <1>2, <3>1, WriteStringWrote, StillShown
    <2>2. CASE putByte /\ Top.done % 16 = 0
      <3> DEFINE x == writeData(stream, Row)
      <3>1. stream' = writeData(x, Byte) /\ text' = text \o (Row \o Byte)
        BY <2>2 DEF putByte, Emit
      <3>2. Row \in Seq(Bytes) /\ Byte \in Seq(Bytes)
        BY Texts
      <3>3. Good(x) /\ text \o Row \in Seq(Bytes) /\ Shown(x, text \o Row)
        BY <1>2, <3>2, WriteDataWrote, StillShown
      <3> HIDE DEF x
      <3>4. (text \o Row) \o Byte \in Seq(Bytes) /\ Shown(stream', (text \o Row) \o Byte)
        BY <3>1, <3>2, <3>3, WriteDataWrote, StillShown
      <3>5. text \in Seq(Bytes)
        BY <1>2
      <3>6. (text \o Row) \o Byte = text \o (Row \o Byte)
        BY <3>2, <3>5, Joined
      <3> QED
        BY <3>1, <3>4, <3>6
    <2>3. CASE putByte /\ Top.done % 16 # 0
      <3>1. stream' = writeData(stream, Byte) /\ text' = text \o Byte /\ Byte \in Seq(Bytes)
        BY <2>3, Texts DEF putByte, Emit
      <3> QED
        BY <1>2, <3>1, WriteDataWrote, StillShown
    <2> QED
      BY <2>1, <2>2, <2>3
  <1> QED
    BY <1>1, <1>3, <1>4, <1>5, LinedOn

\* Under the end of a << is one that has had an element now.
LEMMA RestWritten ==
  ASSUME stack \in Seq(Frames), stack # <<>>, Sized(stack), stack' = Written(Rest)
  PROVE  /\ Sized(stack') /\ (stack' # <<>> => Top'.written /\ Top'.done > 0)
         /\ ~Trailing' /\ Line' = text'
  <1>1. Rest \in Seq(Frames) /\ Sized(Rest) /\ (Rest # <<>> => Rest[Len(Rest)].size > 0)
    BY RestKeeps, RestSized
  <1>2. Sized(stack') /\ (stack' # <<>> => Top'.written /\ Top'.done > 0)
    BY <1>1, WrittenSized DEF Top
  <1> QED
    BY <1>2, NoneAfter

\* The ends of a pair and of a binary.
LEMMA CloseLined ==
  ASSUME IInv, Lined, closePair \/ closeBinary
  PROVE  Lined'
  <1>1. /\ pc = "stream" /\ contentLen' = contentLen /\ pc' = "stream" /\ stack # <<>>
        /\ stack' = Written(Rest)
        /\ Top.kind = "pair" \/ Top.kind = "binary"
    BY DEF closePair, closeBinary, Streaming
  <1>2. /\ Line \in Seq(Bytes) /\ Good(stream) /\ Shown(stream, Line) /\ Line = text
        /\ stack \in Seq(Frames) /\ Sized(stack)
    BY <1>1, LineFacts, OtherTop
  <1>3. text' \in Seq(Bytes) /\ Shown(stream', text')
    <2>1. CASE closePair
      <3> DEFINE end == <<")">>
      <3>1. end \in Seq(Bytes) /\ stream' = writeString(stream, end) /\ text' = text \o end
        BY <2>1, Texts DEF closePair, Emit
      <3> HIDE DEF end
      <3> QED
        BY <1>2, <3>1, WriteStringWrote, StillShown
    <2>2. CASE closeBinary
      <3> DEFINE end == <<"\r", "\n", "\t", "]", "\r", "\n", "\t">>
      <3>1. end \in Seq(Bytes) /\ stream' = writeData(stream, end) /\ text' = text \o end
        BY <2>2, Texts DEF closeBinary, Emit
      <3> HIDE DEF end
      <3> QED
        BY <1>2, <3>1, WriteDataWrote, StillShown
    <2> QED
      BY <1>1, <2>1, <2>2
  <1> QED
    BY <1>1, <1>2, <1>3, RestWritten, LinedOn

\* The end of a container: over the ", " that is behind the line.
LEMMA CloseContainerLined ==
  ASSUME IInv, Lined, closeContainer
  PROVE  Lined'
  <1> DEFINE end == <<"]">>
  <1>1. /\ pc = "stream" /\ contentLen' = contentLen /\ pc' = "stream" /\ stack # <<>>
        /\ stack' = Written(Rest) /\ Top.kind = "container" /\ ~Top.written
        /\ Top.done = Top.size \/ Top.done > DEPTH
        /\ stream' = writeString(IF Top.size > 0 THEN Advance(stream, -2) ELSE stream, end)
        /\ text' = text \o end
    BY DEF closeContainer, Looped, Streaming, Emit
  <1>2. /\ text \in Seq(Bytes) /\ Good(stream) /\ Shown(stream, Line)
        /\ stack \in Seq(Frames) /\ Sized(stack) /\ end \in Seq(Bytes)
        /\ Top.size \in Nat /\ Top.done \in Nat /\ DEPTH \in Nat /\ SIZE \in Nat
    BY <1>1, LineFacts, RecordAssumption, Texts DEF Frames
  <1> HIDE DEF end
  <1>3. CASE Top.size > 0
    <2> DEFINE x == Advance(stream, -2)
    <2>1. Trailing
      BY <1>1, <1>2, <1>3 DEF Trailing
    <2>2. Len(Line) = Len(text) + 2 /\ Len(text) \in Nat /\ \A i \in 1 .. Len(text) : Line[i] = text[i]
      <3> DEFINE comma == <<",", " ">>
                 both == text \o comma
      <3>1. Line = both
        BY <2>1 DEF Line
      <3>2. comma \in Seq(Bytes) /\ Len(comma) = 2
        BY Texts
      <3> HIDE DEF comma
      <3>3. Len(both) = Len(text) + Len(comma) /\ \A i \in 1 .. Len(text) + Len(comma) :
              both[i] = IF i <= Len(text) THEN text[i] ELSE comma[i - Len(text)]
        BY <1>2, <3>2, ConcatProperties
      <3>4. Len(text) \in Nat
        BY <1>2, LenProperties
      <3> HIDE DEF both
      <3> QED
        BY <3>1, <3>2, <3>3, <3>4
    <2>3. stream.cur = Len(Line) \/ stream.cur = SIZE
      BY <1>1, <2>1 DEF Lined
    <2>4. /\ stream.cur \in Nat /\ stream.cur <= SIZE /\ stream.cur >= 2
          /\ Len(text) >= stream.cur - 2 /\ (stream.cur < SIZE => Len(text) = stream.cur - 2)
      <3>1. stream.cur \in Nat /\ stream.cur <= SIZE /\ SIZE >= 6
        BY <1>1, <1>2 DEF Good, IInv, Begun
      <3>2. stream.cur = Len(Line) \/ Len(Line) >= stream.cur
        BY <1>2 DEF Shown, Reaches
      <3> QED
        BY <1>2, <2>2, <2>3, <3>1, <3>2
    <2>5. Good(x) /\ x.cur = stream.cur - 2
      <3>1. -2 \in Int /\ 0 <= stream.cur + (-2) /\ stream.cur + (-2) <= SIZE
        BY <1>2, <2>4
      <3> QED
        BY <1>2, <2>4, <3>1, AdvanceInside
    <2>6. x.content = stream.content
      BY <1>2 DEF Advance, Good
    <2>7. stream' = writeString(x, end)
      BY <1>1, <1>3
    <2> HIDE DEF x
    <2>8. Shown(x, text)
      <3>1. Reaches(x, text)
        <4>1. x.cur = Len(text) \/ (x.cur >= SIZE - 2 /\ Len(text) >= x.cur)
          BY <1>2, <2>2, <2>4, <2>5
        <4> QED
          BY <4>1 DEF Reaches
      <3>2. Holds(x, text)
        <4> SUFFICES ASSUME NEW i \in Cells, i < SIZE - 2, i < Len(text)
                     PROVE  x.content[i] = text[i + 1]
          BY DEF Holds
        <4>1. i < Len(Line) /\ i + 1 \in 1 .. Len(text)
          <5>1. i \in Int /\ 0 <= i
            BY <1>2 DEF Cells
          <5> QED
            BY <2>2, <5>1
        <4>2. stream.content[i] = Line[i + 1]
          BY <1>2, <4>1 DEF Shown, Holds
        <4> QED
          BY <2>2, <2>6, <4>1, <4>2
      <3> QED
        BY <3>1, <3>2 DEF Shown
    <2>9. text' \in Seq(Bytes) /\ Shown(stream', text')
      BY <1>1, <1>2, <2>5, <2>7, <2>8, WriteStringWrote, StillShown
    <2> QED
      BY <1>1, <1>2, <2>9, RestWritten, LinedOn
  <1>4. CASE ~(Top.size > 0)
    <2>1. Line = text
      <3>1. Len(stack) \in 1 .. Len(stack)
        BY <1>1, <1>2, RestKeeps
      <3>2. ~(Top.done > 0)
        BY <1>2, <1>4, <3>1 DEF Sized, Top
      <3> QED
        BY <3>2 DEF Line, Trailing
    <2>2. stream' = writeString(stream, end)
      BY <1>1, <1>4
    <2>3. text' \in Seq(Bytes) /\ Shown(stream', text')
      BY <1>1, <1>2, <2>1, <2>2, WriteStringWrote, StillShown
    <2> QED
      BY <1>1, <1>2, <2>3, RestWritten, LinedOn
  <1> QED
    BY <1>3, <1>4

-----------------------------------------------------------------------------
\* The record starts with its header.
LEMMA MakeLined ==
  ASSUME IInv, Lined, makeLogrData
  PROVE  Lined'
  <1>1. PICK n \in HeaderLens :
          /\ stream' = [Store(stream, 0, [i \in 1 .. n |-> "h"] \o <<NUL>>) EXCEPT !.cur = n]
          /\ contentLen' = n
          /\ text' = [i \in 1 .. n |-> "h"]
    BY DEF makeLogrData
  <1>2. pc' = "stream" /\ stack' = <<>>
    BY DEF makeLogrData, IInv, Begun
  <1>3. SIZE \in Nat /\ n \in Nat /\ 3 <= n /\ n + 3 <= SIZE
    BY RecordAssumption
  <1> DEFINE head == [i \in 1 .. n |-> "h"]
             bytes == head \o <<NUL>>
             st == Store(stream, 0, bytes)
  <1>4. head \in Seq(Bytes) /\ Len(head) = n
    BY <1>3, Values
  <1>5. stream' = [st EXCEPT !.cur = n] /\ text' = head
    BY <1>1
  <1> HIDE DEF head
  <1>6. bytes \in Seq(Bytes) /\ Len(bytes) = n + 1 /\ \A i \in 1 .. n : bytes[i] = head[i]
    BY <1>3, <1>4, OneNUL, ConcatProperties
  <1> HIDE DEF bytes
  <1>7. stream'.cur = n /\ stream'.content = st.content
    BY <1>5 DEF Store
  <1>8. ASSUME NEW i \in Cells, i < n
        PROVE  st.content[i] = head[i + 1]
    <2> DEFINE at == 0
    <2>1. at \in Nat /\ i - at + 1 = i + 1
      BY <1>3 DEF Cells
    <2>2. i + 1 \in 1 .. n /\ i + 1 \in 1 .. Len(bytes)
      BY <1>3, <1>6, <1>8 DEF Cells
    <2>3. st = Store(stream, at, bytes)
      OBVIOUS
    <2> HIDE DEF at, st
    <2>4. /\ i - at + 1 \in 1 .. Len(bytes) => Store(stream, at, bytes).content[i] = bytes[i - at + 1]
          /\ i - at + 1 \notin 1 .. Len(bytes) => Store(stream, at, bytes).content[i] = stream.content[i]
      <3>1. at \in Nat /\ bytes \in Seq(Bytes)
        BY <1>6, <2>1
      <3> QED
        BY <3>1, StoreShows
    <2> QED
      BY <1>6, <2>1, <2>2, <2>3, <2>4
  <1> HIDE DEF st
  <1>9. Shown(stream', text')
    <2>1. Holds(stream', text')
      BY <1>4, <1>5, <1>7, <1>8 DEF Holds
    <2>2. Reaches(stream', text')
      BY <1>4, <1>5, <1>7 DEF Reaches
    <2> QED
      BY <2>1, <2>2 DEF Shown
  <1>10. Line' = text' /\ ~Trailing'
    BY <1>2 DEF Line, Trailing
  <1>11. Sized(stack')
    BY <1>2 DEF Sized
  <1> QED
    BY <1>1, <1>2, <1>3, <1>4, <1>5, <1>9, <1>10, <1>11 DEF Lined, LineIsText

\* Without an open << the line is the text.
LEMMA NoneOpen ==
  ASSUME stack = <<>>
  PROVE  ~Trailing /\ Line = text
  BY DEF Trailing, Line

\* One text for the whole record; a setting is no line.
LEMMA WholeTextLined ==
  ASSUME IInv, Lined, LogrFormat \/ hotChange
  PROVE  Lined'
  <1>1. CASE LogrFormat
    <2>1. PICK n \in Lens :
            /\ stream' = Advance(snprintf(stream, Value(n)), Least(n, SIZE - contentLen))
            /\ text' = text \o Value(n)
            /\ contentLen' = contentLen + Least(n, SIZE - contentLen)
      BY <1>1 DEF LogrFormat
    <2> DEFINE v == Value(n)
    <2>2. /\ pc = "stream" /\ pc' = "push" /\ stack = <<>> /\ stack' = <<>> /\ stream.cur = contentLen
          /\ contentLen \in Nat /\ SIZE \in Nat /\ contentLen + 3 <= SIZE /\ contentLen >= 3 /\ calls \in Nat
      BY <1>1, RecordAssumption DEF LogrFormat, Streaming, IInv, TypeOK, Begun, Lined
    <2>3. n \in Nat /\ v \in Seq(Bytes) /\ Len(v) = n
      BY <2>2, RecordAssumption, Values
    <2>4. stream' = writeData(stream, v) /\ text' = text \o v
      BY <2>1, <2>2, <2>3 DEF writeData
    <2>5. text \in Seq(Bytes) /\ Good(stream) /\ Shown(stream, text)
      BY <2>2, LineFacts, NoneOpen
    <2>6. contentLen' = contentLen + Least(Len(v), SIZE - contentLen)
      BY <2>1, <2>3
    <2> HIDE DEF v
    <2>7. Wrote(stream, v, stream')
      BY <2>3, <2>4, <2>5, WriteDataWrote
    <2>8. text' \in Seq(Bytes) /\ Shown(stream', text')
      BY <2>3, <2>4, <2>5, <2>7, StillShown
    <2>9. contentLen' = stream'.cur /\ contentLen' >= 3
      <3>1. stream'.cur = Least(stream.cur + Len(v), SIZE)
        BY <2>7 DEF Wrote
      <3>2. Len(v) \in Nat
        BY <2>3
      <3> QED
        BY <2>2, <2>6, <3>1, <3>2 DEF Least
    <2>10. Line' = text'
      BY <2>2 DEF Trailing, Line
    <2> QED
      BY <2>2, <2>8, <2>9, <2>10 DEF Lined, LineIsText
  <1>2. CASE hotChange
    <2>1. pc' = "queued"
      BY <1>2 DEF hotChange
    <2> QED
      BY <2>1 DEF Lined, LineIsText
  <1> QED
    BY <1>1, <1>2

\* The end of the first stream, and the file and the line in the second.
LEMMA StreamEndsLined ==
  ASSUME IInv, Lined, LogrStream \/ pushFileLine \/ pushNoFileLine
  PROVE  Lined'
  <1>1. /\ pc \in {"stream", "push"} /\ pc' \in {"push", "end"} /\ stack = <<>> /\ stack' = <<>>
        /\ SIZE \in Nat /\ contentLen \in Nat /\ Good(stream) /\ contentLen <= stream.cur
        /\ text \in Seq(Bytes) /\ contentLen >= 3
    <2>1. /\ pc \in {"stream", "push"} /\ pc' \in {"push", "end"}
          /\ pc = "stream" => stack = <<>>
          /\ stack' = stack
      BY DEF LogrStream, pushFileLine, pushNoFileLine, Streaming
    <2>2. stack = <<>> /\ text \in Seq(Bytes) /\ contentLen >= 3 /\ (pc = "push" => contentLen = stream.cur)
      BY <2>1 DEF Lined
    <2>3. SIZE \in Nat /\ contentLen \in Nat /\ Good(stream) /\ (pc = "stream" => contentLen <= stream.cur)
      BY RecordAssumption DEF IInv, TypeOK, Begun
    <2> QED
      BY <2>1, <2>2, <2>3 DEF Good
  <1>2. Line = text /\ Line' = text' /\ Shown(stream, text)
    <2>1. Shown(stream, Line)
      BY <1>1 DEF Lined
    <2>2. Line' = text'
      BY <1>1 DEF Trailing, Line
    <2> QED
      BY <1>1, <2>1, <2>2, NoneOpen
  <1>3. text' \in Seq(Bytes) /\ Shown(stream', text') /\ contentLen' = stream'.cur /\ contentLen' >= 3
    <2>1. CASE LogrStream
      BY <1>1, <1>2, <2>1 DEF LogrStream, Good
    <2>2. CASE pushNoFileLine
      BY <1>1, <1>2, <2>2 DEF pushNoFileLine, Lined
    <2>3. CASE pushFileLine
      <3>1. PICK n \in Lens :
              /\ stream' = writeData(writeString(writeString(writeString(stream, <<" ">>),
                                       [i \in 1 .. n |-> "f"]), <<":">>), Digits(2))
              /\ contentLen' = stream'.cur
              /\ text' = text \o <<" ">> \o [i \in 1 .. n |-> "f"] \o <<":">> \o Digits(2)
        BY <2>3 DEF pushFileLine
      <3> DEFINE blank == <<" ">>
                 file == [i \in 1 .. n |-> "f"]
                 colon == <<":">>
                 line == Digits(2)
                 x == writeString(stream, blank)
                 y == writeString(x, file)
                 z == writeString(y, colon)
      <3>2. blank \in Seq(Bytes) /\ file \in Seq(Bytes) /\ colon \in Seq(Bytes) /\ line \in Seq(Bytes)
        BY RecordAssumption, Texts, Values
      <3>3. stream' = writeData(z, line) /\ text' = ((text \o blank) \o file) \o colon \o line
        BY <3>1
      <3> HIDE DEF blank, file, colon, line
      <3>4. Good(x) /\ text \o blank \in Seq(Bytes) /\ Shown(x, text \o blank) /\ stream.cur <= x.cur
        BY <1>1, <1>2, <3>2, WriteStringWrote, StillShown, OnlyForward
      <3> DEFINE a == text \o blank
      <3> HIDE DEF x, a
      <3>5. Good(y) /\ a \o file \in Seq(Bytes) /\ Shown(y, a \o file) /\ x.cur <= y.cur
        BY <3>2, <3>4, WriteStringWrote, StillShown, OnlyForward DEF a
      <3> DEFINE b == a \o file
      <3> HIDE DEF y, b
      <3>6. Good(z) /\ b \o colon \in Seq(Bytes) /\ Shown(z, b \o colon) /\ y.cur <= z.cur
        BY <3>2, <3>5, WriteStringWrote, StillShown, OnlyForward DEF b
      <3> DEFINE c == b \o colon
      <3> HIDE DEF z, c
      <3>7. c \o line \in Seq(Bytes) /\ Shown(stream', c \o line) /\ z.cur <= stream'.cur /\ Good(stream')
        BY <3>2, <3>3, <3>6, WriteDataWrote, StillShown, OnlyForward DEF c
      <3>8. text' = c \o line
        <4>1. text' = ((text \o blank) \o file) \o colon \o line
          BY <3>3
        <4> QED
          BY <4>1 DEF a, b, c
      <3>9. stream'.cur >= 3
        <4>1. /\ stream.cur \in Nat /\ x.cur \in Nat /\ y.cur \in Nat /\ z.cur \in Nat
              /\ stream'.cur \in Nat
          BY <1>1, <3>4, <3>5, <3>6, <3>7 DEF Good
        <4>2. /\ 3 <= stream.cur /\ stream.cur <= x.cur /\ x.cur <= y.cur /\ y.cur <= z.cur
              /\ z.cur <= stream'.cur
          BY <1>1, <3>4, <3>5, <3>6, <3>7, <4>1
        <4> QED
          BY <4>1, <4>2
      <3> QED
        BY <3>1, <3>7, <3>8, <3>9
    <2> QED
      BY <2>1, <2>2, <2>3
  <1> QED
    BY <1>1, <1>2, <1>3 DEF Lined, LineIsText

\* The end of the line, behind the text or over its last bytes.
LEMMA LineEndLined ==
  ASSUME IInv, Lined, pushLogr
  PROVE  Lined'
  <1> DEFINE most == IF contentLen < 3 THEN 3 ELSE contentLen
             len == IF most + 3 <= SIZE THEN most + 3 ELSE most
             at == len - 3
  <1>1. /\ pc = "end" /\ pc' = "done" /\ text' = text
        /\ stream' = Store(stream, at, LineEnd) /\ contentLen' = len - 1
    BY DEF pushLogr
  <1>2. /\ SIZE \in Nat /\ SIZE >= 6 /\ contentLen \in 0 .. SIZE /\ contentLen >= 3
        /\ contentLen = stream.cur /\ text \in Seq(Bytes) /\ Len(text) \in Nat
        /\ Shown(stream, text)
    <2>1. stack = <<>> /\ Shown(stream, Line) /\ text \in Seq(Bytes)
      BY <1>1 DEF Lined
    <2> QED
      BY <1>1, <2>1, RecordAssumption, NoneOpen, LenProperties DEF IInv, TypeOK, Begun, Lined
  <1>3. /\ at \in Nat /\ at + 3 <= SIZE /\ contentLen' = at + 2
        /\ \/ at = contentLen
           \/ at + 3 = contentLen /\ contentLen >= SIZE - 2
    BY <1>1, <1>2
  <1> HIDE DEF at
  <1>4. \/ at = Len(text)
        \/ Len(text) > at /\ at >= SIZE - 5
    <2>1. contentLen = Len(text) \/ (contentLen >= SIZE - 2 /\ Len(text) >= contentLen)
      BY <1>2 DEF Shown, Reaches
    <2> QED
      BY <1>2, <1>3, <2>1
  <1>0. LineEnd \in Seq(Bytes) /\ Len(LineEnd) = 3
    BY Texts
  <1>5. ASSUME NEW i \in 0 .. at - 1
        PROVE  stream'.content[i] = text'[i + 1]
    <2>1. i \in Cells /\ i < SIZE - 2 /\ i < Len(text) /\ i - at + 1 \notin 1 .. Len(LineEnd)
      <3>1. i \in Int /\ 0 <= i /\ i < at /\ i + 3 < SIZE /\ i < Len(text) /\ i - at + 1 <= 0
        BY <1>2, <1>3, <1>4
      <3> QED
        BY <1>0, <1>2, <3>1 DEF Cells
    <2>2. stream.content[i] = text[i + 1]
      BY <1>2, <2>1 DEF Shown, Holds
    <2>3. Store(stream, at, LineEnd).content[i] = stream.content[i]
      BY <1>0, <1>3, <2>1, StoreShows
    <2> QED
      BY <1>1, <2>2, <2>3
  <1>6. ASSUME NEW i \in 1 .. 3
        PROVE  stream'.content[at + i - 1] = LineEnd[i]
    <2> DEFINE j == at + i - 1
    <2>1. j \in Cells /\ j - at + 1 = i /\ i \in 1 .. Len(LineEnd)
      <3>1. 0 <= at + i - 1 /\ at + i - 1 <= SIZE - 1 /\ at + i - 1 \in Int /\ (at + i - 1) - at + 1 = i
        BY <1>2, <1>3
      <3> QED
        BY <1>0, <1>2, <3>1 DEF Cells
    <2> HIDE DEF j
    <2>2. /\ j - at + 1 \in 1 .. Len(LineEnd) => Store(stream, at, LineEnd).content[j] = LineEnd[j - at + 1]
          /\ j - at + 1 \notin 1 .. Len(LineEnd) => Store(stream, at, LineEnd).content[j] = stream.content[j]
      <3>1. at \in Nat /\ j \in Cells /\ LineEnd \in Seq(Bytes)
        BY <1>0, <1>3, <2>1
      <3> QED
        BY <3>1, StoreShows
    <2> QED
      BY <1>1, <2>1, <2>2 DEF j
  <1>7. LineIsText'
    <2>1. contentLen' - 2 = at
      BY <1>3
    <2> QED
      BY <1>1, <1>4, <1>5, <1>6, <2>1 DEF LineIsText
  <1> QED
    BY <1>1, <1>7 DEF Lined

-----------------------------------------------------------------------------
\* Before the record is made there is no line.
LEMMA InitLined == Init => Lined
  BY DEF Init, Lined, LineIsText

\* Each step of a record shows the line it makes.
LEMMA NextLined == IInv /\ Lined /\ [Next]_vars => Lined'
  <1> SUFFICES ASSUME IInv, Lined, [Next]_vars
               PROVE  Lined'
    OBVIOUS
  <1>1. CASE makeLogrData
    BY <1>1, MakeLined
  <1>2. CASE Puts
    BY <1>2, PutLined, OpenLined, CommaLined, ElementLined, CloseContainerLined, CloseLined DEF Puts
  <1>3. CASE Pushes
    BY <1>3, WholeTextLined, StreamEndsLined, LineEndLined DEF Pushes
  <1>4. CASE UNCHANGED vars
    BY <1>4 DEF vars, Lined, LineIsText, Line, Trailing, Top
  <1> QED
    BY <1>1, <1>2, <1>3, <1>4 DEF Next, Over

\* A record that pushLogr is done with holds the text the calls asked for, or a
\* beginning of it that fills the buffer, and its line end.
THEOREM LineIsTheText == Spec => []LineIsText
  <1>1. IInv /\ Lined /\ [Next]_vars => IInv' /\ Lined'
    BY NextInv, NextLined
  <1>2. Lined => LineIsText
    BY DEF Lined
  <1> QED
    BY InitInv, InitLined, <1>1, <1>2, PTL DEF Spec

=============================================================================
