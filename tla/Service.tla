------------------------------- MODULE Service -------------------------------
(***************************************************************************)
(* What the scorch kafka component promises, without files and pids: one   *)
(* stage at a time, it switches a process on and off.                      *)
(*                                                                         *)
(* It is switched on when none is on.  A stage that switches off is done   *)
(* when nothing is on.  What is on may end by itself at any time; a stage  *)
(* that is cut short may lose sight of it, and nothing else may.           *)
(***************************************************************************)
CONSTANT Process   \* what may be on

VARIABLES
  stage,  \* "idle", or the stage in progress: "configure" or "cleanup"
  on,     \* the process that is on, in a set, or the empty set
  lost,   \* processes that run and that no stage will find
  done    \* the last stage that has ended has switched off

vars == <<stage, on, lost, done>>

Init == stage = "idle" /\ on = {} /\ lost = {} /\ done = FALSE

Begin ==
  /\ stage = "idle" /\ stage' \in {"configure", "cleanup"}
  /\ done' = FALSE
  /\ UNCHANGED <<on, lost>>

SwitchOn ==
  /\ stage = "configure" /\ on = {}
  /\ \E p \in Process \ lost : on' = {p}
  /\ UNCHANGED <<stage, lost, done>>

\* A stage ends, or is killed, without a word of what is on.
Return ==
  /\ stage # "idle" /\ stage' = "idle"
  /\ UNCHANGED <<on, lost, done>>

\* A stage that ends early loses what is on.
Lose ==
  /\ stage # "idle" /\ stage' = "idle"
  /\ on' = {} /\ lost' = lost \cup on
  /\ UNCHANGED done

SwitchOff ==
  /\ stage = "cleanup" /\ stage' = "idle"
  /\ on' = {} /\ done' = TRUE
  /\ UNCHANGED lost

EndsByItself ==
  /\ \/ on' = {} /\ UNCHANGED lost
     \/ on' = on /\ \E p \in lost : lost' = lost \ {p}
  /\ UNCHANGED <<stage, done>>

Next == Begin \/ SwitchOn \/ Return \/ Lose \/ SwitchOff \/ EndsByItself

Spec == Init /\ [][Next]_vars
=============================================================================
