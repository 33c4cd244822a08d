------------------------------ MODULE LogService ------------------------------
(***************************************************************************)
(* What the logger promises of its file: the records it has accepted go to *)
(* the file once each, in the order in which it accepted them.  One is     *)
(* only left out when the output is switched off, or when the disk does    *)
(* not take it; the ones after it are not held up by that.  A request to   *)
(* switch the output off waits for its turn like a record.                 *)
(***************************************************************************)
EXTENDS Sequences, Naturals

CONSTANTS
  SwitchOffs,  \* the requests that are no records
  MaxLost      \* how many records a full disk may cost

VARIABLES
  owed,   \* what is accepted and not yet dealt with, the oldest first
  log,    \* the records in the file
  lost,   \* the records the disk did not take
  on      \* the output is on

lsVars == <<owed, log, lost, on>>

LSInit == owed = <<>> /\ log = <<>> /\ lost = <<>> /\ on = TRUE

\* t is s with one more at its end.
OneMore(t, s) == Len(t) = Len(s) + 1 /\ SubSeq(t, 1, Len(s)) = s

Accept ==
  /\ OneMore(owed', owed)
  /\ UNCHANGED <<log, lost, on>>

\* The oldest record; or, when nothing is waiting, one that need not wait.
Turn(record) ==
  \/ owed # <<>> /\ record = Head(owed) /\ record \notin SwitchOffs /\ owed' = Tail(owed)
  \/ owed = <<>> /\ owed' = owed

Write ==
  /\ on /\ on' \in BOOLEAN
  /\ OneMore(log', log)
  /\ Turn(log'[Len(log')])
  /\ UNCHANGED lost

\* A full disk: the record is lost, whatever becomes of the next ones.
Lose ==
  /\ Len(lost) < MaxLost /\ on /\ on' \in BOOLEAN
  /\ OneMore(lost', lost)
  /\ Turn(lost'[Len(lost')])
  /\ UNCHANGED log

\* A switch-off; a record when the output is off, or goes off over it.
Skip ==
  /\ owed # <<>> /\ owed' = Tail(owed)
  /\ on' = FALSE
  /\ UNCHANGED <<log, lost>>

Switch == on' # on /\ UNCHANGED <<owed, log, lost>>

LSNext == Accept \/ Write \/ Lose \/ Skip \/ Switch

LSSpec == LSInit /\ [][LSNext]_lsVars

=============================================================================
