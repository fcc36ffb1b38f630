------------------------------ MODULE SampleLog ------------------------------
(***************************************************************************)
(* What scorch/hoststats/hoststats.py promises, without threads, buffers   *)
(* and signals: samples are taken, and reach a log in their order and      *)
(* together; the log is closed when nothing is pending.                    *)
(*                                                                         *)
(* A torn delivery leaves the first samples of those pending in the log    *)
(* and all of them pending, so that they may be delivered again; it may    *)
(* also be the last thing that happens.  A crash loses what is pending.    *)
(***************************************************************************)
EXTENDS Naturals, Sequences

VARIABLES
  taken,    \* samples taken; they are numbered from 1
  log,      \* what has reached the log
  pending,  \* samples taken and not delivered
  torn,     \* history: a delivery was torn
  phase     \* "open", "closed" or "crashed"

vars == <<taken, log, pending, torn, phase>>

Init ==
  /\ taken = 0 /\ log = <<>> /\ pending = <<>>
  /\ torn = FALSE /\ phase = "open"

Take ==
  /\ phase = "open"
  /\ taken' = taken + 1
  /\ pending' = Append(pending, taken + 1)
  /\ UNCHANGED <<log, torn, phase>>

Deliver ==
  /\ phase = "open" /\ pending # <<>>
  /\ log' = log \o pending
  /\ pending' = <<>>
  /\ UNCHANGED <<taken, torn, phase>>

Tear ==
  /\ phase = "open" /\ phase' \in {"open", "closed"}
  /\ torn' = TRUE
  /\ \E n \in 0..Len(pending) : log' = log \o SubSeq(pending, 1, n)
  /\ UNCHANGED <<taken, pending>>

Close ==
  /\ phase = "open" /\ pending = <<>>
  /\ phase' = "closed"
  /\ UNCHANGED <<taken, log, pending, torn>>

Crash ==
  /\ phase = "open"
  /\ phase' = "crashed" /\ pending' = <<>>
  /\ UNCHANGED <<taken, log, torn>>

Next == Take \/ Deliver \/ Tear \/ Close \/ Crash

Spec == Init /\ [][Next]_vars
=============================================================================
