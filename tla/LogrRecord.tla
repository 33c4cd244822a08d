------------------------------ MODULE LogrRecord ------------------------------
(***************************************************************************)
(* One record of the logger, from makeLogrData to the end of pushLogr: how *)
(* its line is put together in the LOGR4Z_LOGR_BUF_SIZE bytes of _content. *)
(*                                                                         *)
(* The caller streams any values into it (LOGR_STREAM): a step is one <<,  *)
(* or one turn of the loops inside the << of a container, a pair or a      *)
(* Logr4zBinary, whose elements may be containers again.  A byte is a      *)
(* letter that says which value it belongs to.                             *)
(***************************************************************************)
EXTENDS Integers, Sequences

CONSTANTS
  SIZE,        \* LOGR4Z_LOGR_BUF_SIZE
  DEPTH,       \* LOGR4Z_LOGR_CONTAINER_DEPTH
  HeaderLens,  \* lengths of the time and the level, "... LOGR_INFO "
  Lens,        \* lengths a formatted value, a string and a file name may have
  Sizes,       \* numbers of elements of a container
  MaxNest,     \* bound: containers inside each other
  MaxCalls     \* bound: the values and containers streamed before the last are complete

ASSUME RecordAssumption ==
  /\ SIZE \in Nat /\ DEPTH \in Nat
  /\ HeaderLens \subseteq {n \in Nat : 3 <= n /\ n + 3 <= SIZE}
  /\ Lens \subseteq Nat /\ Sizes \subseteq Nat
  /\ MaxNest \in Nat /\ MaxCalls \in Nat

VARIABLES
  stream,      \* the Logr4zStream: its _cur, the bytes, and whether any write was outside
  contentLen,  \* _contentLen
  stack,       \* the << of containers, pairs and binaries that are not done
  pc,          \* where the caller is
  text,        \* the line without any limit to its length (history)
  calls        \* values streamed so far

vars == <<stream, contentLen, stack, pc, text, calls>>

Cells == 0 .. SIZE - 1
NUL == "NUL"

\* The n-th value of a record is written with a letter of its own.
Letters == <<"a", "b", "c", "d">>
Value(len) == [i \in 1 .. len |-> Letters[1 + (calls % 4)]]
Digits(len) == [i \in 1 .. len |-> "9"]

Init ==
  /\ stream = [cur |-> 0, content |-> [i \in Cells |-> "?"], outside |-> FALSE]
  /\ contentLen = 0
  /\ stack = <<>> /\ pc = "make" /\ text = <<>> /\ calls = 0

-----------------------------------------------------------------------------
(***************************************************************************)
(* Logr4zStream.  Its _end is the end of the buffer, its _begin contentLen.*)
(***************************************************************************)
Least(a, b) == IF a < b THEN a ELSE b

Store(st, at, bytes) ==
  [cur |-> st.cur,
   content |-> [i \in Cells |-> IF i - at + 1 \in DOMAIN bytes THEN bytes[i - at + 1] ELSE st.content[i]],
   outside |-> st.outside \/ at < 0 \/ at + Len(bytes) > SIZE]

Advance(st, n) == [st EXCEPT !.cur = @ + n]

\* Faulty variant: len is not cut to count.
writeStringWhole(st, s) ==
  IF st.cur >= SIZE THEN st
  ELSE LET next == st.cur + Len(s)
           copied == Advance(Store(st, st.cur, s), Len(s))
       IN  Store(copied, IF next >= SIZE - 1 THEN SIZE - 1 ELSE next + 1, <<NUL>>)

\* memcpy of what fits, then a NUL: at the end, or one byte further than cur.
writeString(st, s) ==
  IF st.cur >= SIZE THEN st
  ELSE LET len == Least(Len(s), SIZE - st.cur)
           next == st.cur + len
           copied == Advance(Store(st, st.cur, SubSeq(s, 1, len)), len)
       IN  Store(copied, IF next >= SIZE - 1 THEN SIZE - 1 ELSE next + 1, <<NUL>>)

\* snprintf stores at most count bytes, a NUL last, and returns what it would
\* have liked to store.
snprintf(st, s) ==
  Store(st, st.cur, SubSeq(s, 1, Least(Len(s), SIZE - st.cur - 1)) \o <<NUL>>)

writeData(st, s) ==
  IF st.cur >= SIZE THEN st ELSE Advance(snprintf(st, s), Least(Len(s), SIZE - st.cur))

-----------------------------------------------------------------------------
Streaming == pc = "stream"
Top == stack[Len(stack)]
Rest == SubSeq(stack, 1, Len(stack) - 1)

\* A value may come at the top, or where an element is due.
Due(kinds) ==
  \/ stack = <<>>
  \/ stack # <<>> /\ Top.kind \in kinds /\ ~Top.written /\ Top.done < Least(Top.size, Top.limit)

\* The << of an element has returned.
Written(s) ==
  IF s = <<>> THEN s ELSE [s EXCEPT ![Len(s)].written = TRUE, ![Len(s)].done = @ + 1]

Emit(st, s) == stream' = st /\ text' = text \o s

Counted == calls' = calls + 1

\* An element that is due is not held back by the bound.
MayPut == calls < MaxCalls \/ stack # <<>>

\* An element of a container comes after ", ", unless it is the first: this
\* is the line as it should be.  The code writes ", " after each element and
\* takes the last one back.
Lead(s) == IF stack # <<>> /\ Top.kind = "container" /\ Top.done > 0 THEN <<",", " ">> \o s ELSE s

\* LOGR_STREAM, LOGR_FORMAT: the record, with its time and its level.
makeLogrData ==
  /\ pc = "make"
  /\ \E n \in HeaderLens :
       /\ stream' = [Store(stream, 0, [i \in 1 .. n |-> "h"] \o <<NUL>>) EXCEPT !.cur = n]
       /\ contentLen' = n
       /\ text' = [i \in 1 .. n |-> "h"]
  /\ pc' = "stream"
  /\ UNCHANGED <<stack, calls>>

\* << of a number, a character, a pointer.
putData ==
  /\ Streaming /\ MayPut /\ Counted /\ Due({"container", "pair"})
  /\ \E n \in Lens : stream' = writeData(stream, Value(n)) /\ text' = text \o Lead(Value(n))
  /\ stack' = Written(stack)
  /\ UNCHANGED <<contentLen, pc>>

\* << of a string.
putString ==
  /\ Streaming /\ MayPut /\ Counted /\ Due({"container", "pair"})
  /\ \E n \in Lens : stream' = writeString(stream, Value(n)) /\ text' = text \o Lead(Value(n))
  /\ stack' = Written(stack)
  /\ UNCHANGED <<contentLen, pc>>

\* Faulty variant: the length is what snprintf returned.
LogrFormatUnclipped ==
  /\ Streaming /\ calls = 0 /\ Counted
  /\ \E n \in Lens :
       /\ stream' = Advance(snprintf(stream, Value(n)), n)
       /\ text' = text \o Value(n)
       /\ contentLen' = contentLen + n
  /\ pc' = "push"
  /\ UNCHANGED stack

\* LOGR_FORMAT: one snprintf for the whole text, whose length it clips.
LogrFormat ==
  /\ Streaming /\ calls = 0 /\ Counted
  /\ \E n \in Lens :
       /\ stream' = Advance(snprintf(stream, Value(n)), Least(n, SIZE - contentLen))
       /\ text' = text \o Value(n)
       /\ contentLen' = contentLen + Least(n, SIZE - contentLen)
  /\ pc' = "push"
  /\ UNCHANGED stack

-----------------------------------------------------------------------------
Frame(kind, size, limit) ==
  [kind |-> kind, size |-> size, limit |-> limit, done |-> 0, written |-> FALSE]

Opening == Streaming /\ calls < MaxCalls /\ Counted /\ Due({"container", "pair"}) /\ Len(stack) < MaxNest

\* vector, list, deque, map: its name and size, and "[".
openContainer ==
  /\ Opening
  /\ \E n \in Sizes :
       /\ stream' = writeString(writeData(writeString(stream, <<"m", "a", "p", "(">>), Digits(1)), <<")", "[">>)
       /\ text' = text \o Lead(<<"m", "a", "p", "(">> \o Digits(1) \o <<")", "[">>)
       /\ stack' = Append(stack, Frame("container", n, DEPTH))
  /\ UNCHANGED <<contentLen, pc>>

\* After each element.
putComma ==
  /\ Streaming /\ stack # <<>> /\ Top.kind = "container" /\ Top.written
  /\ stream' = writeString(stream, <<",", " ">>)
  /\ stack' = [stack EXCEPT ![Len(stack)].written = FALSE]
  /\ UNCHANGED <<contentLen, pc, text, calls>>

\* The DEPTH elements that are shown are followed by dots.
putDots ==
  /\ Streaming /\ stack # <<>> /\ Top.kind = "container" /\ ~Top.written
  /\ Top.done = DEPTH /\ Top.size > DEPTH
  /\ stream' = writeString(stream, <<".", ".", ".", ",", " ">>)
  /\ text' = text \o Lead(<<".", ".", ".">>)
  /\ stack' = [stack EXCEPT ![Len(stack)].done = @ + 1]
  /\ UNCHANGED <<contentLen, pc, calls>>

Looped == /\ Streaming /\ stack # <<>> /\ Top.kind = "container" /\ ~Top.written
          /\ Top.done = Top.size \/ Top.done > DEPTH

\* Faulty variant: _cur -= 2 for an empty container as well.
closeContainerAlways ==
  /\ Looped
  /\ Emit(writeString(Advance(stream, -2), <<"]">>), <<"]">>)
  /\ stack' = Written(Rest)
  /\ UNCHANGED <<contentLen, pc, calls>>

\* The ", " behind the last element is written over.
closeContainer ==
  /\ Looped
  /\ Emit(writeString(IF Top.size > 0 THEN Advance(stream, -2) ELSE stream, <<"]">>), <<"]">>)
  /\ stack' = Written(Rest)
  /\ UNCHANGED <<contentLen, pc, calls>>

-----------------------------------------------------------------------------
\* pair: pair(first:second).  The elements of a map are pairs.
openPair ==
  /\ Opening
  /\ stream' = writeString(stream, <<"p", "(">>)
  /\ text' = text \o Lead(<<"p", "(">>)
  /\ stack' = Append(stack, Frame("pair", 2, 2))
  /\ UNCHANGED <<contentLen, pc>>

putColon ==
  /\ Streaming /\ stack # <<>> /\ Top.kind = "pair" /\ Top.written /\ Top.done = 1
  /\ Emit(writeString(stream, <<":">>), <<":">>)
  /\ stack' = [stack EXCEPT ![Len(stack)].written = FALSE]
  /\ UNCHANGED <<contentLen, pc, calls>>

closePair ==
  /\ Streaming /\ stack # <<>> /\ Top.kind = "pair" /\ Top.written /\ Top.done = 2
  /\ Emit(writeString(stream, <<")">>), <<")">>)
  /\ stack' = Written(Rest)
  /\ UNCHANGED <<contentLen, pc, calls>>

\* writeBinary: every sixteenth byte starts a row with its address.
openBinary ==
  /\ Opening
  /\ \E n \in Sizes :
       /\ stream' = writeData(stream, <<"\r", "\n", "\t", "[">>)
       /\ text' = text \o Lead(<<"\r", "\n", "\t", "[">>)
       /\ stack' = Append(stack, Frame("binary", n, n))
  /\ UNCHANGED <<contentLen, pc>>

Byte == <<"0", "f", " ">>
Row == <<"\r", "\n", "\t", "0", "x", ":", " ">>

putByte ==
  /\ Streaming /\ stack # <<>> /\ Top.kind = "binary" /\ Top.done < Top.size
  /\ IF Top.done % 16 = 0 THEN Emit(writeData(writeData(stream, Row), Byte), Row \o Byte)
                          ELSE Emit(writeData(stream, Byte), Byte)
  /\ stack' = [stack EXCEPT ![Len(stack)].done = @ + 1]
  /\ UNCHANGED <<contentLen, pc, calls>>

closeBinary ==
  /\ Streaming /\ stack # <<>> /\ Top.kind = "binary" /\ Top.done = Top.size
  /\ Emit(writeData(stream, <<"\r", "\n", "\t", "]", "\r", "\n", "\t">>),
          <<"\r", "\n", "\t", "]", "\r", "\n", "\t">>)
  /\ stack' = Written(Rest)
  /\ UNCHANGED <<contentLen, pc, calls>>

-----------------------------------------------------------------------------
\* _contentLen += getCurrentLen()
LogrStream ==
  /\ Streaming /\ stack = <<>>
  /\ contentLen' = contentLen + (stream.cur - contentLen)
  /\ pc' = "push"
  /\ UNCHANGED <<stream, stack, text, calls>>

\* The file and the line, when _fileLine asks for them, in a second stream.
pushFileLine ==
  /\ pc = "push"
  /\ \E n \in Lens :
       LET st == writeData(writeString(writeString(writeString(stream, <<" ">>),
                     [i \in 1 .. n |-> "f"]), <<":">>), Digits(2))
       IN /\ stream' = st
          /\ contentLen' = st.cur
          /\ text' = text \o <<" ">> \o [i \in 1 .. n |-> "f"] \o <<":">> \o Digits(2)
  /\ pc' = "end"
  /\ UNCHANGED <<stack, calls>>

pushNoFileLine ==
  /\ pc = "push"
  /\ pc' = "end"
  /\ UNCHANGED <<stream, contentLen, stack, text, calls>>

LineEnd == <<"\r", "\n", NUL>>

\* The end of the line goes behind the text, or over its last three bytes.
pushLogr ==
  /\ pc = "end"
  /\ LET most == IF contentLen < 3 THEN 3 ELSE contentLen
         len == IF most + 3 <= SIZE THEN most + 3 ELSE most
     IN /\ stream' = Store(stream, len - 3, LineEnd)
        /\ contentLen' = len - 1
  /\ pc' = "done"
  /\ UNCHANGED <<stack, text, calls>>

\* hotChange: a setting that travels in a record, its text copied over.
hotChange ==
  /\ Streaming /\ calls = 0
  /\ \E n \in Lens :
       /\ n < SIZE
       /\ stream' = Store(stream, 0, Value(n))
       /\ contentLen' = n
       /\ text' = Value(n)
  /\ pc' = "queued"
  /\ UNCHANGED <<stack, calls>>

Puts ==
  \/ putData \/ putString
  \/ openContainer \/ putComma \/ putDots \/ closeContainer
  \/ openPair \/ putColon \/ closePair
  \/ openBinary \/ putByte \/ closeBinary

Pushes == LogrStream \/ LogrFormat \/ pushFileLine \/ pushNoFileLine \/ pushLogr \/ hotChange

Over == pc \in {"done", "queued"} /\ UNCHANGED vars

Next == makeLogrData \/ Puts \/ Pushes \/ Over

Spec == Init /\ [][Next]_vars

-----------------------------------------------------------------------------
Frames == [kind : {"container", "pair", "binary"}, size : Nat, limit : Nat, done : Nat, written : BOOLEAN]

\* Types; the length of a record is within the buffer at every point, also
\* when snprintf returns a length it did not store.
TypeOK ==
  /\ stream.cur \in Int /\ stream.outside \in BOOLEAN
  /\ contentLen \in 0 .. SIZE
  /\ stack \in Seq(Frames)
  /\ pc \in {"make", "stream", "push", "end", "done", "queued"}
  /\ calls \in Nat

(***************************************************************************)
(* No << and no end of a line touches a byte outside the buffer, however   *)
(* long the values are and wherever the buffer ends between a comma and    *)
(* the step back over it (_cur -= 2); nor does it step back into what was  *)
(* there before the stream, so that getCurrentLen is never negative.       *)
(***************************************************************************)
InsideBuffer ==
  /\ ~stream.outside
  /\ pc = "stream" => stream.cur \in contentLen .. SIZE

(***************************************************************************)
(* A line that is done is the text the calls asked for, whole if it fits,  *)
(* and otherwise a beginning of it that ends at most five bytes before the *)
(* end of the buffer; then "\r\n", and a NUL that is not counted.  Nothing *)
(* is left in it of the NULs and the commas that were written on the way.  *)
(***************************************************************************)
LineIsText ==
  pc = "done" =>
    LET n == contentLen - 2 IN
      /\ \A i \in 0 .. n - 1 : stream.content[i] = text[i + 1]
      /\ \A i \in 1 .. 3 : stream.content[n + i - 1] = LineEnd[i]
      /\ n = Len(text) \/ (Len(text) > n /\ n >= SIZE - 5)

=============================================================================
