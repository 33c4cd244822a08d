---------------------------- MODULE RequestService ----------------------------
(***************************************************************************)
(* What AnoServer promises: requests are taken in the order in which they  *)
(* arrive, one at a time, and each ends once, answered or dropped.  When   *)
(* the service halts, whatever is waiting or in hand is dropped.           *)
(***************************************************************************)
EXTENDS Sequences, Naturals

CONSTANTS Clients, NoClient, MaxQueue

VARIABLES
  queue,     \* the clients waiting, the next to serve first
  current,   \* the client being served
  outcome,   \* how each client's request ended
  halted

rsVars == <<queue, current, outcome, halted>>

Waiting == {queue[i] : i \in DOMAIN queue}

RSInit ==
  /\ queue = <<>>
  /\ current = NoClient
  /\ outcome = [c \in Clients |-> "none"]
  /\ halted = FALSE

Arrive(c) ==
  /\ ~halted
  /\ outcome[c] = "none" /\ c \notin Waiting /\ c # current
  /\ Len(queue) < MaxQueue
  /\ queue' = Append(queue, c)
  /\ UNCHANGED <<current, outcome, halted>>

Begin ==
  /\ ~halted /\ current = NoClient /\ queue # <<>>
  /\ current' = Head(queue)
  /\ queue' = Tail(queue)
  /\ UNCHANGED <<outcome, halted>>

Finish ==
  /\ ~halted /\ current # NoClient
  /\ \E how \in {"answered", "dropped"} : outcome' = [outcome EXCEPT ![current] = how]
  /\ current' = NoClient
  /\ UNCHANGED <<queue, halted>>

Halt ==
  /\ ~halted
  /\ halted' = TRUE
  /\ outcome' = [c \in Clients |-> IF c \in Waiting \cup {current} THEN "dropped" ELSE outcome[c]]
  /\ queue' = <<>>
  /\ current' = NoClient

RSNext == (\E c \in Clients : Arrive(c)) \/ Begin \/ Finish \/ Halt

RSSpec == RSInit /\ [][RSNext]_rsVars

\* A service that never leaves a request waiting or in hand for ever.
RSLiveSpec == RSSpec /\ WF_rsVars(Begin) /\ WF_rsVars(Finish)

=============================================================================
