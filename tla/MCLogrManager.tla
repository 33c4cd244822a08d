---------------------------- MODULE MCLogrManager ----------------------------
(***************************************************************************)
(* Instances of LogrManager for TLC.                                       *)
(***************************************************************************)
EXTENDS LogrManager

CONSTANTS main, worker, logger, nobody, null, d1, d2, d3, d4, d5, d6

\* How many calls main and the other thread make.
OneEach == [t \in Threads |-> 1]
OneAndTwo == [t \in Threads |-> IF t = Main THEN 1 ELSE 2]

(***************************************************************************)
(* A state but for which address is which.  The addresses are all alike:   *)
(* while each has one owner, and the pool and the free ones hold nothing,  *)
(* two states with the same view differ by a permutation of the addresses  *)
(* and go on alike.  A state in which one has two owners looks different   *)
(* from every state in which none has.                                     *)
(***************************************************************************)
ButAddresses ==
  LET Content(d) == IF d = NoData THEN <<>> ELSE <<data[d]>>
  IN  <<synchronous, flags, counters, output, lock, pc, kind, calls,
        OneOwner, Cardinality(heap), Len(pool),
        [i \in DOMAIN logrs |-> data[logrs[i]]], [t \in Processes |-> Content(mine[t])]>>

=============================================================================
