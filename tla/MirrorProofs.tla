---------------------------- MODULE MirrorProofs ----------------------------
(***************************************************************************)
(* Proofs of the safety properties of Mirror, for any hosts, receivers,    *)
(* number of runs and faults.  The invariant is built in layers, each      *)
(* inductive relative to the ones below it: types, the shape of control,   *)
(* who owns what exists, how far a deletion loop has come, how far         *)
(* post-start has come.                                                    *)
(***************************************************************************)
EXTENDS Mirror, TLAPS

(***************************************************************************)
(* The layers                                                              *)
(***************************************************************************)

Creating == {"tap", "receiver", "port", "mirror"}
Deleting == {"rmreceiver", "rmmirror", "rmport", "rmtap"}

\* Which label goes with which handler, and where the stored status stands.
Shape ==
  /\ pc \in Resting <=> stage = "idle"
  /\ pc = "enter" => stage \in {"pre-start", "post-start"}
  /\ pc \in Creating => stage = "post-start"
  /\ pc \in Deleting => stage \in {"pre-start", "undo", "cleanup"}
  /\ pc \in Deleting => ~dryrun
  /\ saved.run <= run
  /\ stage \in {"pre-start", "post-start", "undo"} => saved.run < run
  /\ pc = "new" => saved.run = 0 /\ run = 0
  /\ pc \in (Creating \cup Deleting) \ {"receiver", "rmreceiver"} =>
       todoHost \subseteq cluster
  /\ pc \in {"mirror", "rmport"} => curHost \in todoHost
  /\ pc \in {"port", "mirror"} => curRecv \in status

\* What exists belongs to a run that has begun; what the current run holds is
\* on its hosts, was created by a real post-start and has its receiver in the
\* status.
Owned ==
  /\ \A r \in Run, h \in Host : Holds(r, h) => r > 0 /\ r <= run
  /\ \A h \in Host : Holds(run, h) => h \in cluster /\ ~dryrun
  /\ stage = "pre-start" \/ pc = "enter" => \A h \in Host : ~Holds(run, h)
  /\ stage \in {"post-start", "undo"} /\ pc # "enter" =>
       \A v \in Receiver, h \in Host :
         (<<run, v, h>> \in port \/ <<run, v, h>> \in mirror) => v \in status
  /\ stage = "post-start" /\ pc = "tap" => status = {}
  /\ \A v \in Receiver, h \in Host :
       (<<saved.run, v, h>> \in port \/ <<saved.run, v, h>> \in mirror) =>
         v \in saved.recv

TapGone(h) == <<Target, h>> \in tap => <<Target, h>> \in excused
PairGone(v, h) ==
  (<<Target, v, h>> \in port \/ <<Target, v, h>> \in mirror) =>
    <<Target, h>> \in excused

\* The part of the target's resources a deletion has already dealt with.
Deleted ==
  /\ pc = "rmtap" => \A h \in Host \ todoHost : TapGone(h)
  /\ pc = "rmtap" /\ stage # "undo" =>
       \A v \in Receiver, h \in Host : PairGone(v, h)
  /\ pc \in Deleting \ {"rmtap"} /\ stage = "undo" => \A h \in Host : TapGone(h)
  /\ pc = "rmreceiver" =>
       \A v \in Receiver \ todoRecv, h \in Host : PairGone(v, h)
  /\ pc \in {"rmmirror", "rmport"} =>
       \A v \in Receiver \ todoRecv, h \in Host :
         (v = curRecv /\ h \in todoHost) \/ PairGone(v, h)
  /\ pc = "rmport" /\ <<Target, curRecv, curHost>> \in mirror =>
       <<Target, curHost>> \in excused

SavedGone == \A h \in Host : Holds(saved.run, h) => <<saved.run, h>> \in excused

\* What the stored status names is excused where this run cannot or did not
\* delete it.
Forgotten ==
  /\ \A h \in Host \ cluster :
       Holds(saved.run, h) => <<saved.run, h>> \in excused
  /\ dryrun \/ stage \in {"post-start", "undo"} \/ pc \in {"new", "stopped"}
       => SavedGone

\* How far post-start has come.
Created ==
  /\ \A v \in Receiver, h \in Host :
       stage = "post-start" /\ <<run, v, h>> \in mirror => <<run, v, h>> \in port
  /\ pc = "tap" => \A h \in cluster \ todoHost : dryrun \/ <<run, h>> \in tap
  /\ pc \in Creating \ {"tap"} =>
       \A h \in cluster : dryrun \/ <<run, h>> \in tap
  /\ pc = "receiver" => \A v \in status, h \in cluster :
                          dryrun \/ <<run, v, h>> \in port
  /\ pc \in {"port", "mirror"} =>
       \A v \in status, h \in cluster :
         dryrun \/ <<run, v, h>> \in port \/ (v = curRecv /\ h \in todoHost)
  /\ pc = "mirror" => dryrun \/ <<run, curRecv, curHost>> \in port
  /\ pc \in Creating =>
       \A v \in Receiver : v \in status =>  recv[v] = "addr"
  /\ pc \in {"receiver", "port", "mirror"} =>
       \A v \in Receiver \ todoRecv : recv[v] = "addr" => v \in status

(***************************************************************************)
(* Types and shape                                                         *)
(***************************************************************************)

\* Every variable keeps its type in every reachable state: the handlers of
\* main.go only ever touch runs, hosts and receivers of this experiment.
THEOREM TypeCorrect == Spec => []TypeOK
<1>1. Init => TypeOK
  <2>1. 0 \in Run
    BY MirrorAssumption DEF Run
  <2> SUFFICES ASSUME Init PROVE TypeOK
    OBVIOUS
  <2>2. saved \in Status
    BY <2>1 DEF Init, Status
  <2>3. stage \in Stages /\ pc \in Labels
    BY DEF Init, Stages, Labels
  <2> QED
    BY <2>1, <2>2, <2>3 DEF Init, TypeOK
<1>2. TypeOK /\ [Next]_vars => TypeOK'
  <2> SUFFICES ASSUME TypeOK, [Next]_vars PROVE TypeOK'
    OBVIOUS
  <2> USE MirrorAssumption DEF TypeOK, Status, Run, RecvKind, Stages, Labels, loop, world
  <2>1. CASE Configure
    BY <2>1 DEF Configure
  <2>2. CASE \E c \in SUBSET Host \ {{}}, d \in BOOLEAN : Start(c, d)
    BY <2>2 DEF Start
  <2>3. CASE Cleanup
    BY <2>3 DEF Cleanup, DeleteSaved
  <2>4. CASE PreStart
    BY <2>4 DEF PreStart, Return, DeleteSaved
  <2>5. CASE PostStart
    BY <2>5 DEF PostStart, Return
  <2>6. CASE \E h \in Host : CreateTap(h)
    BY <2>6 DEF CreateTap, Fail, Return
  <2>7. CASE TapsCreated
    BY <2>7 DEF TapsCreated
  <2>8. CASE \E v \in Receiver : NextReceiver(v)
    BY <2>8 DEF NextReceiver, Fail, Return
  <2>9. CASE \E h \in Host : AddPort(h)
    BY <2>9 DEF AddPort, Fail, Return
  <2>10. CASE AddMirror
    BY <2>10 DEF AddMirror, Fail, Return
  <2>11. CASE PortsAdded
    BY <2>11 DEF PortsAdded
  <2>12. CASE SaveStatus
    BY <2>12 DEF SaveStatus, Return
  <2>13. CASE \E v \in Receiver : RemoveReceiver(v)
    BY <2>13 DEF RemoveReceiver
  <2>14. CASE \E h \in Host : RemoveMirror(h)
    BY <2>14 DEF RemoveMirror, Deletes, Target
  <2>15. CASE DelPort
    BY <2>15 DEF DelPort, Deletes, Target
  <2>16. CASE HostsDone
    BY <2>16 DEF HostsDone
  <2>17. CASE MirrorsDone
    BY <2>17 DEF MirrorsDone, Return
  <2>18. CASE \E h \in Host : DeleteTap(h)
    BY <2>18 DEF DeleteTap, Deletes, Target
  <2>19. CASE TapsDone
    BY <2>19 DEF TapsDone, Return
  <2>20. CASE \E v \in Receiver : Panic(v)
    BY <2>20 DEF Panic, Die
  <2>21. CASE Kill
    BY <2>21 DEF Kill, Die
  <2>22. CASE Abandon
    BY <2>22 DEF Abandon
  <2>23. CASE UNCHANGED vars
    BY <2>23 DEF vars
  <2> QED
    BY <2>1, <2>2, <2>3, <2>4, <2>5, <2>6, <2>7, <2>8, <2>9, <2>10, <2>11, <2>12, <2>13, <2>14, <2>15, <2>16, <2>17, <2>18, <2>19, <2>20, <2>21, <2>22, <2>23 DEF Next, Handler
<1> QED
  BY <1>1, <1>2, PTL DEF Spec


\* Control is well formed: a label belongs to its handler, and the stored
\* status is older than the current run until post-start replaces it.
THEOREM ShapeCorrect == Spec => []Shape
<1>1. Init => Shape
  BY DEF Init, Shape, Resting, Creating, Deleting
<1>2. TypeOK /\ Shape /\ [Next]_vars => Shape'
  <2> SUFFICES ASSUME TypeOK, Shape, [Next]_vars PROVE Shape'
    OBVIOUS
  <2> USE DEF TypeOK, Status, Run, Shape, Stages, Labels, Resting, Creating, Deleting,
         loop, world
  <2>1. CASE Configure
    BY <2>1 DEF Configure
  <2>2. CASE \E c \in SUBSET Host \ {{}}, d \in BOOLEAN : Start(c, d)
    BY <2>2 DEF Start
  <2>3. CASE Cleanup
    BY <2>3 DEF Cleanup, DeleteSaved
  <2>4. CASE PreStart
    BY <2>4 DEF PreStart, Return, DeleteSaved
  <2>5. CASE PostStart
    BY <2>5 DEF PostStart, Return
  <2>6. CASE \E h \in Host : CreateTap(h)
    BY <2>6 DEF CreateTap, Fail, Return
  <2>7. CASE TapsCreated
    BY <2>7 DEF TapsCreated
  <2>8. CASE \E v \in Receiver : NextReceiver(v)
    BY <2>8 DEF NextReceiver, Fail, Return
  <2>9. CASE \E h \in Host : AddPort(h)
    BY <2>9 DEF AddPort, Fail, Return
  <2>10. CASE AddMirror
    BY <2>10 DEF AddMirror, Fail, Return
  <2>11. CASE PortsAdded
    BY <2>11 DEF PortsAdded
  <2>12. CASE SaveStatus
    BY <2>12 DEF SaveStatus, Return
  <2>13. CASE \E v \in Receiver : RemoveReceiver(v)
    BY <2>13 DEF RemoveReceiver
  <2>14. CASE \E h \in Host : RemoveMirror(h)
    BY <2>14 DEF RemoveMirror, Deletes, Target
  <2>15. CASE DelPort
    BY <2>15 DEF DelPort, Deletes, Target
  <2>16. CASE HostsDone
    BY <2>16 DEF HostsDone
  <2>17. CASE MirrorsDone
    BY <2>17 DEF MirrorsDone, Return
  <2>18. CASE \E h \in Host : DeleteTap(h)
    BY <2>18 DEF DeleteTap, Deletes, Target
  <2>19. CASE TapsDone
    BY <2>19 DEF TapsDone, Return
  <2>20. CASE \E v \in Receiver : Panic(v)
    BY <2>20 DEF Panic, Die
  <2>21. CASE Kill
    BY <2>21 DEF Kill, Die
  <2>22. CASE Abandon
    BY <2>22 DEF Abandon
  <2>23. CASE UNCHANGED vars
    BY <2>23 DEF vars
  <2> QED
    BY <2>1, <2>2, <2>3, <2>4, <2>5, <2>6, <2>7, <2>8, <2>9, <2>10, <2>11,
       <2>12, <2>13, <2>14, <2>15, <2>16, <2>17, <2>18, <2>19, <2>20, <2>21,
       <2>22, <2>23
       DEF Next, Handler
<1> QED
  BY <1>1, <1>2, TypeCorrect, PTL DEF Spec


\* Every tap, port and mirror belongs to a run that has begun, and those of the
\* current run were put on its own hosts by a real post-start.
THEOREM OwnedCorrect == Spec => []Owned
<1>1. Init => Owned
  BY DEF Init, Owned, Holds
<1>2. TypeOK /\ Shape /\ Owned /\ [Next]_vars => Owned'
  <2> SUFFICES ASSUME TypeOK, Shape, Owned, [Next]_vars PROVE Owned'
    OBVIOUS
  <2> USE DEF TypeOK, Status, Run, Shape, Owned, Stages, Labels, Resting,
         Creating, Deleting, loop, world
  <2>1. CASE Configure
    BY <2>1 DEF Holds, Configure
  <2>2. CASE \E c \in SUBSET Host \ {{}}, d \in BOOLEAN : Start(c, d)
    <3>1. PICK c \in SUBSET Host \ {{}}, d \in BOOLEAN : Start(c, d)
      BY <2>2
    <3>2. run' = run + 1 /\ run' \in Run
      BY <3>1, MirrorAssumption DEF Start
    <3>3. \A r \in Run, h \in Host : Holds(r, h)' <=> Holds(r, h)
      BY <3>1 DEF Start, Holds
    <3>4. \A h \in Host : ~Holds(run', h)
      BY <3>2
    <3> QED
      BY <3>1, <3>2, <3>3, <3>4 DEF Start
  <2>3. CASE Cleanup
    BY <2>3 DEF Holds, Cleanup, DeleteSaved
  <2>4. CASE PreStart
    BY <2>4 DEF Holds, PreStart, Return, DeleteSaved
  <2>5. CASE PostStart
    BY <2>5 DEF Holds, PostStart, Return
  <2>6. CASE \E h \in Host : CreateTap(h)
    <3>1. PICK h \in Host : CreateTap(h)
      BY <2>6
    <3>2. /\ tap' \subseteq tap \cup {<<run, h>>}
          /\ dryrun => tap' = tap
          /\ UNCHANGED <<run, cluster, dryrun, saved, status, port, mirror>>
          /\ stage = "post-start" /\ stage' # "pre-start" /\ pc' # "enter"
          /\ pc' = "tap" => pc = "tap"
          /\ h \in cluster /\ h \in Host
          /\ pc = "tap"
      BY <3>1 DEF CreateTap, Fail, Return
    <3>3. \A r \in Run, g \in Host :
            Holds(r, g)' => Holds(r, g) \/ (r = run /\ g \in cluster /\ ~dryrun)
      BY <3>2 DEF Holds
    <3>4. \A r \in Run, v \in Receiver, g \in Host :
            (<<r, v, g>> \in port' \/ <<r, v, g>> \in mirror') =>
              \/ <<r, v, g>> \in port \/ <<r, v, g>> \in mirror
              \/ r = run /\ v \in status
      BY <3>2
    <3>5. \A r \in Run, g \in Host : Holds(r, g)' => r > 0 /\ r <= run
      BY <3>2, <3>3
    <3>6. \A g \in Host : Holds(run, g)' => g \in cluster /\ ~dryrun
      BY <3>2, <3>3
    <3> QED
      BY <3>2, <3>4, <3>5, <3>6
  <2>7. CASE TapsCreated
    BY <2>7 DEF Holds, TapsCreated
  <2>8. CASE \E v \in Receiver : NextReceiver(v)
    <3>1. PICK v \in Receiver : NextReceiver(v)
      BY <2>8
    <3> QED
      BY <3>1 DEF Holds, NextReceiver, Fail, Return
  <2>9. CASE \E h \in Host : AddPort(h)
    <3>1. PICK h \in Host : AddPort(h)
      BY <2>9
    <3>2. /\ port' \subseteq port \cup {<<run, curRecv, h>>}
          /\ dryrun => port' = port
          /\ UNCHANGED <<run, cluster, dryrun, saved, status, tap, mirror>>
          /\ stage = "post-start" /\ stage' # "pre-start" /\ pc' # "enter"
          /\ pc' = "tap" => pc = "tap"
          /\ h \in cluster /\ h \in Host
          /\ pc = "port"
      BY <3>1 DEF AddPort, Fail, Return
    <3>3. \A r \in Run, g \in Host :
            Holds(r, g)' => Holds(r, g) \/ (r = run /\ g \in cluster /\ ~dryrun)
      BY <3>2 DEF Holds
    <3>4. \A r \in Run, v \in Receiver, g \in Host :
            (<<r, v, g>> \in port' \/ <<r, v, g>> \in mirror') =>
              \/ <<r, v, g>> \in port \/ <<r, v, g>> \in mirror
              \/ r = run /\ v \in status
      BY <3>2
    <3>5. \A r \in Run, g \in Host : Holds(r, g)' => r > 0 /\ r <= run
      BY <3>2, <3>3
    <3>6. \A g \in Host : Holds(run, g)' => g \in cluster /\ ~dryrun
      BY <3>2, <3>3
    <3> QED
      BY <3>2, <3>4, <3>5, <3>6
  <2>10. CASE AddMirror
    <3>1. AddMirror
      BY <2>10
    <3>2. /\ mirror' \subseteq mirror \cup {<<run, curRecv, curHost>>}
          /\ dryrun => mirror' = mirror
          /\ UNCHANGED <<run, cluster, dryrun, saved, status, tap, port>>
          /\ stage = "post-start" /\ stage' # "pre-start" /\ pc' # "enter"
          /\ pc' = "tap" => pc = "tap"
          /\ curHost \in cluster /\ curHost \in Host
          /\ pc = "mirror"
      BY <3>1 DEF AddMirror, Fail, Return
    <3>3. \A r \in Run, g \in Host :
            Holds(r, g)' => Holds(r, g) \/ (r = run /\ g \in cluster /\ ~dryrun)
      BY <3>2 DEF Holds
    <3>4. \A r \in Run, v \in Receiver, g \in Host :
            (<<r, v, g>> \in port' \/ <<r, v, g>> \in mirror') =>
              \/ <<r, v, g>> \in port \/ <<r, v, g>> \in mirror
              \/ r = run /\ v \in status
      BY <3>2
    <3>5. \A r \in Run, g \in Host : Holds(r, g)' => r > 0 /\ r <= run
      BY <3>2, <3>3
    <3>6. \A g \in Host : Holds(run, g)' => g \in cluster /\ ~dryrun
      BY <3>2, <3>3
    <3> QED
      BY <3>2, <3>4, <3>5, <3>6
  <2>11. CASE PortsAdded
    BY <2>11 DEF Holds, PortsAdded
  <2>12. CASE SaveStatus
    BY <2>12 DEF Holds, SaveStatus, Return
  <2>13. CASE \E v \in Receiver : RemoveReceiver(v)
    <3>1. PICK v \in Receiver : RemoveReceiver(v)
      BY <2>13
    <3> QED
      BY <3>1 DEF Holds, RemoveReceiver
  <2>14. CASE \E h \in Host : RemoveMirror(h)
    <3>1. PICK h \in Host : RemoveMirror(h)
      BY <2>14
    <3> QED
      BY <3>1 DEF Holds, RemoveMirror, Deletes, Target
  <2>15. CASE DelPort
    BY <2>15 DEF Holds, DelPort, Deletes, Target
  <2>16. CASE HostsDone
    BY <2>16 DEF Holds, HostsDone
  <2>17. CASE MirrorsDone
    BY <2>17 DEF Holds, MirrorsDone, Return
  <2>18. CASE \E h \in Host : DeleteTap(h)
    <3>1. PICK h \in Host : DeleteTap(h)
      BY <2>18
    <3> QED
      BY <3>1 DEF Holds, DeleteTap, Deletes, Target
  <2>19. CASE TapsDone
    BY <2>19 DEF Holds, TapsDone, Return
  <2>20. CASE \E v \in Receiver : Panic(v)
    <3>1. PICK v \in Receiver : Panic(v)
      BY <2>20
    <3> QED
      BY <3>1 DEF Holds, Panic, Die
  <2>21. CASE Kill
    BY <2>21 DEF Holds, Kill, Die
  <2>22. CASE Abandon
    BY <2>22 DEF Holds, Abandon
  <2>23. CASE UNCHANGED vars
    BY <2>23 DEF Holds, vars
  <2> QED
    BY <2>1, <2>2, <2>3, <2>4, <2>5, <2>6, <2>7, <2>8, <2>9, <2>10, <2>11,
       <2>12, <2>13, <2>14, <2>15, <2>16, <2>17, <2>18, <2>19, <2>20, <2>21,
       <2>22, <2>23
       DEF Next, Handler
<1> QED
  BY <1>1, <1>2, TypeCorrect, ShapeCorrect, PTL DEF Spec


\* How far a deletion has come, and which part of what the status names is
\* excused: a loop of deleteMirror or deleteTap leaves behind it only what it
\* failed to delete.
THEOREM DeletedCorrect == Spec => [](Deleted /\ Forgotten)
<1>1. Init => Deleted /\ Forgotten
  BY DEF Init, Deleted, Forgotten, SavedGone, Holds, Deleting
<1>2. /\ TypeOK /\ TypeOK' /\ Shape /\ Shape' /\ Owned /\ Owned'
      /\ Deleted /\ Forgotten /\ [Next]_vars
      => Deleted' /\ Forgotten'
  <2> SUFFICES ASSUME TypeOK, TypeOK', Shape, Shape', Owned, Owned', Deleted, Forgotten, [Next]_vars PROVE Deleted' /\ Forgotten'
    OBVIOUS
  <2> USE DEF TypeOK, Status, Run, Shape, Owned, Deleted, Forgotten, SavedGone,
         TapGone, PairGone, Stages, Labels, Resting, Creating, Deleting, loop,
         world
  <2>1. CASE Configure
    BY <2>1 DEF Holds, Target, Configure
  <2>2. CASE \E c \in SUBSET Host \ {{}}, d \in BOOLEAN : Start(c, d)
    <3>1. PICK c \in SUBSET Host \ {{}}, d \in BOOLEAN : Start(c, d)
      BY <2>2
    <3> QED
      BY <3>1 DEF Holds, Target, Start
  <2>3. CASE Cleanup
    <3>1. pc' \in Deleting =>
            pc' = "rmreceiver" /\ stage' # "undo" /\ todoRecv' = saved.recv
      BY <2>3 DEF Cleanup, DeleteSaved
    <3>2. UNCHANGED <<run, saved, cluster, dryrun, world, excused>>
      BY <2>3 DEF Cleanup, DeleteSaved
    <3>3. pc' \in Deleting => Target' = saved'.run
      BY <3>1 DEF Target
    <3>4. Deleted'
      BY <3>1, <3>2, <3>3
    <3>5. saved.run = 0 => SavedGone
      OBVIOUS
    <3>6. \A h \in Host : Holds(saved.run, h)' <=> Holds(saved.run, h)
      BY <3>2 DEF Holds
    <3>7. pc' = "stopped" \/ stage' = "post-start" => dryrun \/ saved.run = 0
      BY <2>3 DEF Cleanup, DeleteSaved
    <3>8. stage' # "undo" /\ pc' # "new"
      BY <2>3 DEF Cleanup, DeleteSaved
    <3> QED
      BY <3>2, <3>4, <3>5, <3>6, <3>7, <3>8
  <2>4. CASE PreStart
    <3>1. pc' \in Deleting =>
            pc' = "rmreceiver" /\ stage' # "undo" /\ todoRecv' = saved.recv
      BY <2>4 DEF PreStart, Return, DeleteSaved
    <3>2. /\ UNCHANGED <<run, saved, cluster, dryrun, world>>
          /\ excused \subseteq excused'
          /\ pc' \in Deleting => UNCHANGED excused
      BY <2>4 DEF PreStart, Return, DeleteSaved
    <3>3. pc' \in Deleting => Target' = saved'.run
      BY <3>1 DEF Target
    <3>4. Deleted'
      BY <3>1, <3>2, <3>3
    <3>5. saved.run = 0 => SavedGone
      OBVIOUS
    <3>6. \A h \in Host : Holds(saved.run, h)' <=> Holds(saved.run, h)
      BY <3>2 DEF Holds
    <3>7. pc' = "stopped" \/ stage' = "post-start" => 
            \/ dryrun \/ saved.run = 0
            \/ \A h \in Host : <<saved.run, h>> \in excused'
      BY <2>4 DEF PreStart, Return, DeleteSaved
    <3>8. stage' # "undo" /\ pc' # "new"
      BY <2>4 DEF PreStart, Return, DeleteSaved
    <3> QED
      BY <3>2, <3>4, <3>5, <3>6, <3>7, <3>8
  <2>5. CASE PostStart
    BY <2>5 DEF Holds, Target, PostStart, Return
  <2>6. CASE \E h \in Host : CreateTap(h)
    <3>1. PICK h \in Host : CreateTap(h)
      BY <2>6
    <3>2. /\ tap' \in {tap, tap \cup {<<run, h>>}}
          /\ UNCHANGED <<run, cluster, dryrun, saved, excused, port, mirror>>
          /\ stage = "post-start"
          /\ pc' \in Deleting =>
               pc' = "rmtap" /\ stage' = "undo" /\ todoHost' = cluster
          /\ pc' \notin {"new", "stopped"}
      BY <3>1 DEF CreateTap, Fail, Return
    <3>3. saved.run # run
      BY <3>2
    <3>4. \A g \in Host : Holds(saved.run, g)' <=> Holds(saved.run, g)
      BY <3>2, <3>3 DEF Holds
    <3>5. Forgotten'
      BY <3>2, <3>4
    <3>6. /\ \A g \in Host : <<run, g>> \in tap' => g \in cluster
          /\ pc' \in Deleting => Target' = run
      BY <3>2 DEF Holds, Target
    <3>7. Deleted'
      BY <3>2, <3>6
    <3> QED
      BY <3>5, <3>7
  <2>7. CASE TapsCreated
    BY <2>7 DEF Holds, Target, TapsCreated
  <2>8. CASE \E v \in Receiver : NextReceiver(v)
    <3>1. PICK v \in Receiver : NextReceiver(v)
      BY <2>8
    <3> QED
      BY <3>1 DEF Holds, Target, NextReceiver, Fail, Return
  <2>9. CASE \E h \in Host : AddPort(h)
    <3>1. PICK h \in Host : AddPort(h)
      BY <2>9
    <3>2. /\ port' \in {port, port \cup {<<run, curRecv, h>>}}
          /\ UNCHANGED <<run, cluster, dryrun, saved, excused, tap, mirror>>
          /\ stage = "post-start"
          /\ pc' \in Deleting =>
               pc' = "rmtap" /\ stage' = "undo" /\ todoHost' = cluster
          /\ pc' \notin {"new", "stopped"}
      BY <3>1 DEF AddPort, Fail, Return
    <3>3. saved.run # run
      BY <3>2
    <3>4. \A g \in Host : Holds(saved.run, g)' <=> Holds(saved.run, g)
      BY <3>2, <3>3 DEF Holds
    <3>5. Forgotten'
      BY <3>2, <3>4
    <3>6. /\ \A g \in Host : <<run, g>> \in tap' => g \in cluster
          /\ pc' \in Deleting => Target' = run
      BY <3>2 DEF Holds, Target
    <3>7. Deleted'
      BY <3>2, <3>6
    <3> QED
      BY <3>5, <3>7
  <2>10. CASE AddMirror
    <3>1. AddMirror
      BY <2>10
    <3>2. /\ mirror' \in {mirror, mirror \cup {<<run, curRecv, curHost>>}}
          /\ UNCHANGED <<run, cluster, dryrun, saved, excused, tap, port>>
          /\ stage = "post-start"
          /\ pc' \in Deleting =>
               pc' = "rmtap" /\ stage' = "undo" /\ todoHost' = cluster
          /\ pc' \notin {"new", "stopped"}
      BY <3>1 DEF AddMirror, Fail, Return
    <3>3. saved.run # run
      BY <3>2
    <3>4. \A g \in Host : Holds(saved.run, g)' <=> Holds(saved.run, g)
      BY <3>2, <3>3 DEF Holds
    <3>5. Forgotten'
      BY <3>2, <3>4
    <3>6. /\ \A g \in Host : <<run, g>> \in tap' => g \in cluster
          /\ pc' \in Deleting => Target' = run
      BY <3>2 DEF Holds, Target
    <3>7. Deleted'
      BY <3>2, <3>6
    <3> QED
      BY <3>5, <3>7
  <2>11. CASE PortsAdded
    BY <2>11 DEF Holds, Target, PortsAdded
  <2>12. CASE SaveStatus
    BY <2>12 DEF Holds, Target, SaveStatus, Return
  <2>13. CASE \E v \in Receiver : RemoveReceiver(v)
    <3>1. PICK v \in Receiver : RemoveReceiver(v)
      BY <2>13
    <3>2. /\ UNCHANGED <<run, cluster, dryrun, saved, stage, excused, world>>
          /\ pc = "rmreceiver" /\ pc' = "rmmirror"
          /\ todoRecv' = todoRecv \ {v} /\ curRecv' = v /\ todoHost' = cluster
      BY <3>1 DEF RemoveReceiver
    <3>3. /\ Target' = Target
          /\ \A r \in Run, h \in Host : Holds(r, h)' <=> Holds(r, h)
      BY <3>2 DEF Target, Holds
    <3>4. Forgotten'
      BY <3>2, <3>3
    <3>5. \A h \in Host \ cluster : PairGone(v, h)
      BY <3>2 DEF Holds, Target
    <3>6. Deleted'
      BY <3>2, <3>3, <3>5
    <3> QED
      BY <3>4, <3>6
  <2>14. CASE \E h \in Host : RemoveMirror(h)
    <3>1. PICK h \in Host : RemoveMirror(h)
      BY <2>14
    <3>2. /\ UNCHANGED <<run, cluster, dryrun, saved, stage, todoRecv, todoHost,
                         curRecv, tap, port>>
          /\ pc = "rmmirror" /\ pc' = "rmport" /\ curHost' = h
          /\ excused \subseteq excused'
          /\ mirror' \subseteq mirror
          /\ <<Target, curRecv, h>> \in mirror' => <<Target, h>> \in excused'
      BY <3>1 DEF RemoveMirror, Deletes
    <3>3. /\ Target' = Target
          /\ \A r \in Run, g \in Host : Holds(r, g)' => Holds(r, g)
      BY <3>2 DEF Target, Holds
    <3>4. Forgotten'
      BY <3>2, <3>3
    <3>5. Deleted'
      BY <3>2, <3>3
    <3> QED
      BY <3>4, <3>5
  <2>15. CASE DelPort
    <3>1. /\ UNCHANGED <<run, cluster, dryrun, saved, stage, todoRecv, curRecv,
                         curHost, tap, mirror>>
          /\ pc = "rmport" /\ pc' = "rmmirror"
          /\ todoHost' = todoHost \ {curHost}
          /\ excused \subseteq excused'
          /\ port' \subseteq port
          /\ <<Target, curRecv, curHost>> \in port' =>
               <<Target, curHost>> \in excused'
      BY <2>15 DEF DelPort, Deletes
    <3>2. \A r \in Run, h \in Host : Holds(r, h)' => Holds(r, h)
      BY <3>1 DEF Holds
    <3>3. Forgotten'
      BY <3>1, <3>2
    <3>4. Target' = Target
      BY <3>1 DEF Target
    <3>5. PairGone(curRecv, curHost)'
      BY <3>1, <3>4
    <3>6. Deleted'
      BY <3>1, <3>4, <3>5
    <3> QED
      BY <3>3, <3>6
  <2>16. CASE HostsDone
    BY <2>16 DEF Holds, Target, HostsDone
  <2>17. CASE MirrorsDone
    <3>1. /\ UNCHANGED <<run, cluster, dryrun, saved, excused, world>>
          /\ pc = "rmreceiver" /\ todoRecv = {}
          /\ pc' \in Deleting =>
               /\ pc' = "rmtap" /\ todoHost' = cluster /\ stage' = stage
               /\ stage # "undo"
      BY <2>17 DEF MirrorsDone, Return
    <3>2. \A r \in Run, h \in Host : Holds(r, h)' <=> Holds(r, h)
      BY <3>1 DEF Holds
    <3>3. pc' \in Deleting => Target' = Target
      BY <3>1 DEF Target
    <3>4. \A h \in Host \ cluster : pc' \in Deleting => TapGone(h)
      BY <3>1 DEF Holds, Target
    <3>5. Deleted'
      BY <3>1, <3>3, <3>4
    <3>6. Forgotten'
      BY <2>17, <3>1, <3>2 DEF MirrorsDone, Return
    <3> QED
      BY <3>5, <3>6
  <2>18. CASE \E h \in Host : DeleteTap(h)
    <3>1. PICK h \in Host : DeleteTap(h)
      BY <2>18
    <3>2. /\ UNCHANGED <<run, cluster, dryrun, saved, stage, pc, todoRecv, curRecv,
                         curHost, port, mirror>>
          /\ pc = "rmtap" /\ todoHost' = todoHost \ {h}
          /\ excused \subseteq excused'
          /\ tap' \subseteq tap
          /\ <<Target, h>> \in tap' => <<Target, h>> \in excused'
      BY <3>1 DEF DeleteTap, Deletes
    <3>3. /\ Target' = Target
          /\ \A r \in Run, g \in Host : Holds(r, g)' => Holds(r, g)
      BY <3>2 DEF Target, Holds
    <3>4. Forgotten'
      BY <3>2, <3>3
    <3>5. Deleted'
      BY <3>2, <3>3
    <3> QED
      BY <3>4, <3>5
  <2>19. CASE TapsDone
    <3>1. /\ UNCHANGED <<run, cluster, dryrun, saved, excused, world>>
          /\ pc = "rmtap" /\ todoHost = {}
          /\ pc' \in Deleting =>
               pc' = "rmreceiver" /\ stage' = "undo" /\ stage = "undo"
          /\ pc' \in Deleting => todoRecv' = status
      BY <2>19 DEF TapsDone, Return
    <3>2. \A r \in Run, h \in Host : Holds(r, h)' <=> Holds(r, h)
      BY <3>1 DEF Holds
    <3>3. pc' \in Deleting => Target' = Target
      BY <3>1 DEF Target
    <3>4. Deleted'
      BY <3>1, <3>3 DEF Holds, Target
    <3>5. Forgotten'
      BY <2>19, <3>1, <3>2 DEF TapsDone, Return, Holds, Target
    <3> QED
      BY <3>4, <3>5
  <2>20. CASE \E v \in Receiver : Panic(v)
    <3>1. PICK v \in Receiver : Panic(v)
      BY <2>20
    <3> QED
      BY <3>1 DEF Holds, Target, Panic, Die
  <2>21. CASE Kill
    BY <2>21 DEF Holds, Target, Kill, Die
  <2>22. CASE Abandon
    BY <2>22 DEF Holds, Target, Abandon
  <2>23. CASE UNCHANGED vars
    <3>1. /\ Target' = Target
          /\ \A r \in Run, h \in Host : Holds(r, h)' <=> Holds(r, h)
      BY <2>23 DEF Holds, Target, vars
    <3>2. Deleted'
      BY <2>23, <3>1 DEF vars
    <3>3. Forgotten'
      BY <2>23, <3>1 DEF vars
    <3> QED
      BY <3>2, <3>3
  <2> QED
    BY <2>1, <2>2, <2>3, <2>4, <2>5, <2>6, <2>7, <2>8, <2>9, <2>10, <2>11,
       <2>12, <2>13, <2>14, <2>15, <2>16, <2>17, <2>18, <2>19, <2>20, <2>21,
       <2>22, <2>23
       DEF Next, Handler
<1> QED
  BY <1>1, <1>2, TypeCorrect, ShapeCorrect, OwnedCorrect, PTL DEF Spec


\* A finished cleanup leaves of what the status records only what it could not
\* delete or was not scheduled to reach (cleanup).
THEOREM CleanedUpHolds == Spec => []CleanedUp
<1>1. Forgotten => CleanedUp
  BY DEF Forgotten, CleanedUp, SavedGone
<1> QED
  BY <1>1, DeletedCorrect, PTL

\* Nothing is leaked without a cause: what exists is recorded in the status, is
\* in the hands of the post-start in progress, or is excused (preStart,
\* postStart with its deferred function, cleanup).
THEOREM AccountedHolds == Spec => []Accounted
<1>1. Init => Accounted
  BY DEF Init, Accounted, Holds
<1>2. /\ TypeOK /\ TypeOK' /\ Shape /\ Shape' /\ Owned /\ Owned'
      /\ Deleted /\ Forgotten /\ Accounted /\ [Next]_vars
      => Accounted'
  <2> SUFFICES ASSUME TypeOK, TypeOK', Shape, Shape', Owned, Owned', Deleted, Forgotten, Accounted, [Next]_vars PROVE Accounted'
    OBVIOUS
  <2> USE DEF TypeOK, Status, Run, Shape, Owned, Deleted, Forgotten, Accounted, SavedGone,
         TapGone, PairGone, Stages, Labels, Resting, Creating, Deleting, loop,
         world
  <2>1. CASE Configure
    BY <2>1 DEF Holds, Target, Configure
  <2>2. CASE \E c \in SUBSET Host \ {{}}, d \in BOOLEAN : Start(c, d)
    <3>1. PICK c \in SUBSET Host \ {{}}, d \in BOOLEAN : Start(c, d)
      BY <2>2
    <3> QED
      BY <3>1 DEF Holds, Target, Start
  <2>3. CASE Cleanup
    BY <2>3 DEF Holds, Target, Cleanup, DeleteSaved
  <2>4. CASE PreStart
    BY <2>4 DEF Holds, Target, PreStart, Return, DeleteSaved
  <2>5. CASE PostStart
    BY <2>5 DEF Holds, Target, PostStart, Return
  <2>6. CASE \E h \in Host : CreateTap(h)
    <3>1. PICK h \in Host : CreateTap(h)
      BY <2>6
    <3> QED
      BY <3>1 DEF Holds, Target, CreateTap, Fail, Return
  <2>7. CASE TapsCreated
    BY <2>7 DEF Holds, Target, TapsCreated
  <2>8. CASE \E v \in Receiver : NextReceiver(v)
    <3>1. PICK v \in Receiver : NextReceiver(v)
      BY <2>8
    <3> QED
      BY <3>1 DEF Holds, Target, NextReceiver, Fail, Return
  <2>9. CASE \E h \in Host : AddPort(h)
    <3>1. PICK h \in Host : AddPort(h)
      BY <2>9
    <3>2. /\ port' \subseteq port \cup {<<run, curRecv, h>>}
          /\ UNCHANGED <<run, cluster, dryrun, saved, excused, tap, mirror>>
          /\ stage = "post-start"
          /\ stage' \in {"post-start", "undo"} \/ dryrun
      BY <3>1 DEF AddPort, Fail, Return
    <3>3. \A r \in Run, g \in Host : Holds(r, g)' => r = run \/ Holds(r, g)
      BY <3>2 DEF Holds
    <3>4. dryrun => \A g \in Host : ~Holds(run, g)'
      BY <3>2
    <3> QED
      BY <3>2, <3>3, <3>4
  <2>10. CASE AddMirror
    <3>1. AddMirror
      BY <2>10
    <3>2. /\ mirror' \subseteq mirror \cup {<<run, curRecv, curHost>>}
          /\ UNCHANGED <<run, cluster, dryrun, saved, excused, tap, port>>
          /\ stage = "post-start"
          /\ stage' \in {"post-start", "undo"} \/ dryrun
      BY <3>1 DEF AddMirror, Fail, Return
    <3>3. \A r \in Run, g \in Host : Holds(r, g)' => r = run \/ Holds(r, g)
      BY <3>2 DEF Holds
    <3>4. dryrun => \A g \in Host : ~Holds(run, g)'
      BY <3>2
    <3> QED
      BY <3>2, <3>3, <3>4
  <2>11. CASE PortsAdded
    BY <2>11 DEF Holds, Target, PortsAdded
  <2>12. CASE SaveStatus
    BY <2>12 DEF Holds, Target, SaveStatus, Return
  <2>13. CASE \E v \in Receiver : RemoveReceiver(v)
    <3>1. PICK v \in Receiver : RemoveReceiver(v)
      BY <2>13
    <3> QED
      BY <3>1 DEF Holds, Target, RemoveReceiver
  <2>14. CASE \E h \in Host : RemoveMirror(h)
    <3>1. PICK h \in Host : RemoveMirror(h)
      BY <2>14
    <3> QED
      BY <3>1 DEF Holds, Target, RemoveMirror, Deletes
  <2>15. CASE DelPort
    BY <2>15 DEF Holds, Target, DelPort, Deletes
  <2>16. CASE HostsDone
    BY <2>16 DEF Holds, Target, HostsDone
  <2>17. CASE MirrorsDone
    BY <2>17 DEF Holds, Target, MirrorsDone, Return
  <2>18. CASE \E h \in Host : DeleteTap(h)
    <3>1. PICK h \in Host : DeleteTap(h)
      BY <2>18
    <3> QED
      BY <3>1 DEF Holds, Target, DeleteTap, Deletes
  <2>19. CASE TapsDone
    BY <2>19 DEF Holds, Target, TapsDone, Return
  <2>20. CASE \E v \in Receiver : Panic(v)
    <3>1. PICK v \in Receiver : Panic(v)
      BY <2>20
    <3> QED
      BY <3>1 DEF Holds, Target, Panic, Die
  <2>21. CASE Kill
    BY <2>21 DEF Holds, Target, Kill, Die
  <2>22. CASE Abandon
    BY <2>22 DEF Holds, Target, Abandon
  <2>23. CASE UNCHANGED vars
    BY <2>23 DEF Holds, Target, vars
  <2> QED
    BY <2>1, <2>2, <2>3, <2>4, <2>5, <2>6, <2>7, <2>8, <2>9, <2>10, <2>11,
       <2>12, <2>13, <2>14, <2>15, <2>16, <2>17, <2>18, <2>19, <2>20, <2>21,
       <2>22, <2>23
       DEF Next, Handler
<1> QED
  BY <1>1, <1>2, TypeCorrect, ShapeCorrect, OwnedCorrect, DeletedCorrect, PTL
     DEF Spec


\* post-start has created what the part of the lists it has been through asks
\* for.
THEOREM CreatedCorrect == Spec => []Created
<1>1. Init => Created
  BY DEF Init, Created, Creating
<1>2. /\ TypeOK /\ TypeOK' /\ Shape /\ Shape' /\ Owned /\ Owned'
      /\ Created /\ [Next]_vars
      => Created'
  <2> SUFFICES ASSUME TypeOK, TypeOK', Shape, Shape', Owned, Owned', Created, [Next]_vars PROVE Created'
    OBVIOUS
  <2> USE DEF TypeOK, Status, Run, Shape, Created, Stages, Labels,
         Resting, Creating, Deleting, loop, world
  <2>1. CASE Configure
    BY <2>1 DEF Owned, Holds, Configure
  <2>2. CASE \E c \in SUBSET Host \ {{}}, d \in BOOLEAN : Start(c, d)
    <3>1. PICK c \in SUBSET Host \ {{}}, d \in BOOLEAN : Start(c, d)
      BY <2>2
    <3> QED
      BY <3>1 DEF Owned, Holds, Start
  <2>3. CASE Cleanup
    BY <2>3 DEF Owned, Holds, Cleanup, DeleteSaved
  <2>4. CASE PreStart
    BY <2>4 DEF Owned, Holds, PreStart, Return, DeleteSaved
  <2>5. CASE PostStart
    BY <2>5 DEF Owned, Holds, PostStart, Return
  <2>6. CASE \E h \in Host : CreateTap(h)
    <3>1. PICK h \in Host : CreateTap(h)
      BY <2>6
    <3> QED
      BY <3>1 DEF Owned, Holds, CreateTap, Fail, Return
  <2>7. CASE TapsCreated
    BY <2>7 DEF Owned, Holds, TapsCreated
  <2>8. CASE \E v \in Receiver : NextReceiver(v)
    <3>1. PICK v \in Receiver : NextReceiver(v)
      BY <2>8
    <3> QED
      BY <3>1 DEF Owned, Holds, NextReceiver, Fail, Return
  <2>9. CASE \E h \in Host : AddPort(h)
    <3>1. PICK h \in Host : AddPort(h)
      BY <2>9
    <3> QED
      BY <3>1 DEF Owned, Holds, AddPort, Fail, Return
  <2>10. CASE AddMirror
    BY <2>10 DEF Owned, Holds, AddMirror, Fail, Return
  <2>11. CASE PortsAdded
    BY <2>11 DEF Owned, Holds, PortsAdded
  <2>12. CASE SaveStatus
    BY <2>12 DEF Owned, Holds, SaveStatus, Return
  <2>13. CASE \E v \in Receiver : RemoveReceiver(v)
    <3>1. PICK v \in Receiver : RemoveReceiver(v)
      BY <2>13
    <3> QED
      BY <3>1 DEF Owned, Holds, RemoveReceiver
  <2>14. CASE \E h \in Host : RemoveMirror(h)
    <3>1. PICK h \in Host : RemoveMirror(h)
      BY <2>14
    <3> QED
      BY <3>1 DEF Owned, Holds, RemoveMirror, Deletes
  <2>15. CASE DelPort
    BY <2>15 DEF Owned, Holds, DelPort, Deletes
  <2>16. CASE HostsDone
    BY <2>16 DEF Owned, Holds, HostsDone
  <2>17. CASE MirrorsDone
    BY <2>17 DEF Owned, Holds, MirrorsDone, Return
  <2>18. CASE \E h \in Host : DeleteTap(h)
    <3>1. PICK h \in Host : DeleteTap(h)
      BY <2>18
    <3> QED
      BY <3>1 DEF Owned, Holds, DeleteTap, Deletes
  <2>19. CASE TapsDone
    BY <2>19 DEF Owned, Holds, TapsDone, Return
  <2>20. CASE \E v \in Receiver : Panic(v)
    <3>1. PICK v \in Receiver : Panic(v)
      BY <2>20
    <3> QED
      BY <3>1 DEF Owned, Holds, Panic, Die
  <2>21. CASE Kill
    BY <2>21 DEF Owned, Holds, Kill, Die
  <2>22. CASE Abandon
    BY <2>22 DEF Owned, Holds, Abandon
  <2>23. CASE UNCHANGED vars
    BY <2>23 DEF Owned, Holds, vars
  <2> QED
    BY <2>1, <2>2, <2>3, <2>4, <2>5, <2>6, <2>7, <2>8, <2>9, <2>10, <2>11,
       <2>12, <2>13, <2>14, <2>15, <2>16, <2>17, <2>18, <2>19, <2>20, <2>21,
       <2>22, <2>23
       DEF Next, Handler
<1> QED
  BY <1>1, <1>2, TypeCorrect, ShapeCorrect, OwnedCorrect, PTL DEF Spec

\* A running experiment has all of its taps and ports and a status of its own,
\* or nothing of its own but what it failed to delete (postStart).
THEOREM AllOrNothingHolds == Spec => []AllOrNothing
<1>1. Init => AllOrNothing
  BY DEF Init, AllOrNothing
<1>2. /\ TypeOK /\ TypeOK' /\ Shape /\ Shape' /\ Owned /\ Owned'
      /\ Deleted /\ Created /\ AllOrNothing /\ [Next]_vars
      => AllOrNothing'
  <2> SUFFICES ASSUME TypeOK, TypeOK', Shape, Shape', Owned, Owned', Deleted, Created, AllOrNothing, [Next]_vars PROVE AllOrNothing'
    OBVIOUS
  <2> USE DEF TypeOK, Status, Run, Shape, AllOrNothing, Stages, Labels,
         Resting, Creating, Deleting, loop, world
  <2>1. CASE Configure
    BY <2>1 DEF Configure
  <2>2. CASE \E c \in SUBSET Host \ {{}}, d \in BOOLEAN : Start(c, d)
    <3>1. PICK c \in SUBSET Host \ {{}}, d \in BOOLEAN : Start(c, d)
      BY <2>2
    <3> QED
      BY <3>1 DEF Start
  <2>3. CASE Cleanup
    BY <2>3 DEF Cleanup, DeleteSaved
  <2>4. CASE PreStart
    BY <2>4 DEF PreStart, Return, DeleteSaved
  <2>5. CASE PostStart
    <3>1. \A h \in Host : ~Holds(run, h)'
      BY <2>5 DEF PostStart, Owned, Holds
    <3> QED
      BY <2>5, <3>1 DEF PostStart, Return
  <2>6. CASE \E h \in Host : CreateTap(h)
    <3>1. PICK h \in Host : CreateTap(h)
      BY <2>6
    <3> QED
      BY <3>1 DEF CreateTap, Fail, Return
  <2>7. CASE TapsCreated
    BY <2>7 DEF TapsCreated
  <2>8. CASE \E v \in Receiver : NextReceiver(v)
    <3>1. PICK v \in Receiver : NextReceiver(v)
      BY <2>8
    <3>2. dryrun => \A h \in Host : ~Holds(run, h)'
      BY <3>1 DEF NextReceiver, Owned
    <3> QED
      BY <3>1, <3>2 DEF NextReceiver, Fail, Return
  <2>9. CASE \E h \in Host : AddPort(h)
    <3>1. PICK g \in Host : AddPort(g)
      BY <2>9
    <3>2. dryrun => \A h \in Host : ~Holds(run, h)'
      BY <3>1 DEF AddPort, Owned
    <3> QED
      BY <3>1, <3>2 DEF AddPort, Fail, Return
  <2>10. CASE AddMirror
    BY <2>10 DEF AddMirror, Fail, Return
  <2>11. CASE PortsAdded
    BY <2>11 DEF PortsAdded
  <2>12. CASE SaveStatus
    BY <2>12 DEF SaveStatus, Return, Created
  <2>13. CASE \E v \in Receiver : RemoveReceiver(v)
    <3>1. PICK v \in Receiver : RemoveReceiver(v)
      BY <2>13
    <3> QED
      BY <3>1 DEF RemoveReceiver
  <2>14. CASE \E h \in Host : RemoveMirror(h)
    <3>1. PICK h \in Host : RemoveMirror(h)
      BY <2>14
    <3> QED
      BY <3>1 DEF RemoveMirror, Deletes
  <2>15. CASE DelPort
    BY <2>15 DEF DelPort, Deletes
  <2>16. CASE HostsDone
    BY <2>16 DEF HostsDone
  <2>17. CASE MirrorsDone
    <3>1. stage = "undo" =>
            \A h \in Host : Holds(run, h)' => <<run, h>> \in excused'
      BY <2>17 DEF MirrorsDone, Deleted, TapGone, PairGone, Target, Holds
    <3> QED
      BY <2>17, <3>1 DEF MirrorsDone, Return
  <2>18. CASE \E h \in Host : DeleteTap(h)
    <3>1. PICK h \in Host : DeleteTap(h)
      BY <2>18
    <3> QED
      BY <3>1 DEF DeleteTap, Deletes
  <2>19. CASE TapsDone
    BY <2>19 DEF TapsDone, Return
  <2>20. CASE \E v \in Receiver : Panic(v)
    <3>1. PICK v \in Receiver : Panic(v)
      BY <2>20
    <3> QED
      BY <3>1 DEF Panic, Die
  <2>21. CASE Kill
    BY <2>21 DEF Kill, Die
  <2>22. CASE Abandon
    BY <2>22 DEF Abandon
  <2>23. CASE UNCHANGED vars
    BY <2>23 DEF Holds, vars
  <2> QED
    BY <2>1, <2>2, <2>3, <2>4, <2>5, <2>6, <2>7, <2>8, <2>9, <2>10, <2>11,
       <2>12, <2>13, <2>14, <2>15, <2>16, <2>17, <2>18, <2>19, <2>20, <2>21,
       <2>22, <2>23
       DEF Next, Handler
<1> QED
  BY <1>1, <1>2, TypeCorrect, ShapeCorrect, OwnedCorrect, DeletedCorrect,
     CreatedCorrect, PTL DEF Spec


\* Every mirror of a running experiment has its port and a recorded receiver
\* (postStart).
THEOREM MirrorsUsableHolds == Spec => []MirrorsUsable
<1>1. Init => MirrorsUsable
  BY DEF Init, MirrorsUsable
<1>2. /\ TypeOK /\ TypeOK' /\ Shape /\ Shape' /\ Owned /\ Owned'
      /\ Created /\ MirrorsUsable /\ [Next]_vars
      => MirrorsUsable'
  <2> SUFFICES ASSUME TypeOK, TypeOK', Shape, Shape', Owned, Owned', Created, MirrorsUsable, [Next]_vars PROVE MirrorsUsable'
    OBVIOUS
  <2> USE DEF TypeOK, Status, Run, Shape, MirrorsUsable, Stages, Labels,
         Resting, Creating, Deleting, loop, world
  <2>1. CASE Configure
    BY <2>1 DEF Configure
  <2>2. CASE \E c \in SUBSET Host \ {{}}, d \in BOOLEAN : Start(c, d)
    <3>1. PICK c \in SUBSET Host \ {{}}, d \in BOOLEAN : Start(c, d)
      BY <2>2
    <3> QED
      BY <3>1 DEF Start
  <2>3. CASE Cleanup
    BY <2>3 DEF Cleanup, DeleteSaved
  <2>4. CASE PreStart
    BY <2>4 DEF PreStart, Return, DeleteSaved
  <2>5. CASE PostStart
    BY <2>5 DEF PostStart, Return
  <2>6. CASE \E h \in Host : CreateTap(h)
    <3>1. PICK h \in Host : CreateTap(h)
      BY <2>6
    <3> QED
      BY <3>1 DEF CreateTap, Fail, Return
  <2>7. CASE TapsCreated
    BY <2>7 DEF TapsCreated
  <2>8. CASE \E v \in Receiver : NextReceiver(v)
    <3>1. PICK v \in Receiver : NextReceiver(v)
      BY <2>8
    <3> QED
      BY <3>1 DEF NextReceiver, Fail, Return
  <2>9. CASE \E h \in Host : AddPort(h)
    <3>1. PICK h \in Host : AddPort(h)
      BY <2>9
    <3> QED
      BY <3>1 DEF AddPort, Fail, Return
  <2>10. CASE AddMirror
    BY <2>10 DEF AddMirror, Fail, Return
  <2>11. CASE PortsAdded
    BY <2>11 DEF PortsAdded
  <2>12. CASE SaveStatus
    BY <2>12 DEF SaveStatus, Return, Created, Owned
  <2>13. CASE \E v \in Receiver : RemoveReceiver(v)
    <3>1. PICK v \in Receiver : RemoveReceiver(v)
      BY <2>13
    <3> QED
      BY <3>1 DEF RemoveReceiver
  <2>14. CASE \E h \in Host : RemoveMirror(h)
    <3>1. PICK h \in Host : RemoveMirror(h)
      BY <2>14
    <3> QED
      BY <3>1 DEF RemoveMirror, Deletes
  <2>15. CASE DelPort
    BY <2>15 DEF DelPort, Deletes
  <2>16. CASE HostsDone
    BY <2>16 DEF HostsDone
  <2>17. CASE MirrorsDone
    BY <2>17 DEF MirrorsDone, Return
  <2>18. CASE \E h \in Host : DeleteTap(h)
    <3>1. PICK h \in Host : DeleteTap(h)
      BY <2>18
    <3> QED
      BY <3>1 DEF DeleteTap, Deletes
  <2>19. CASE TapsDone
    BY <2>19 DEF TapsDone, Return
  <2>20. CASE \E v \in Receiver : Panic(v)
    <3>1. PICK v \in Receiver : Panic(v)
      BY <2>20
    <3> QED
      BY <3>1 DEF Panic, Die
  <2>21. CASE Kill
    BY <2>21 DEF Kill, Die
  <2>22. CASE Abandon
    BY <2>22 DEF Abandon
  <2>23. CASE UNCHANGED vars
    BY <2>23 DEF vars
  <2> QED
    BY <2>1, <2>2, <2>3, <2>4, <2>5, <2>6, <2>7, <2>8, <2>9, <2>10, <2>11,
       <2>12, <2>13, <2>14, <2>15, <2>16, <2>17, <2>18, <2>19, <2>20, <2>21,
       <2>22, <2>23
       DEF Next, Handler
<1> QED
  BY <1>1, <1>2, TypeCorrect, ShapeCorrect, OwnedCorrect, CreatedCorrect, PTL
     DEF Spec

\* The stored status changes only when post-start has gone through every
\* receiver, and then records exactly those that have an address (postStart,
\* main).
THEOREM StatusMonotoneHolds == Spec => StatusMonotone
<1> DEFINE Step ==
      saved' # saved =>
        /\ saved'.run = run /\ saved.run < run
        /\ \A v \in Receiver : v \in saved'.recv <=> recv[v] = "addr"
<1>1. TypeOK /\ Shape /\ Created /\ [Next]_vars => [Step]_vars
  <2> SUFFICES ASSUME TypeOK, Shape, Created, [Next]_vars PROVE [Step]_vars
    OBVIOUS
  <2> USE DEF TypeOK, Status, Run
  <2>1. CASE Configure
    BY <2>1 DEF Configure
  <2>2. CASE \E c \in SUBSET Host \ {{}}, d \in BOOLEAN : Start(c, d)
    <3>1. PICK c \in SUBSET Host \ {{}}, d \in BOOLEAN : Start(c, d)
      BY <2>2
    <3> QED
      BY <3>1 DEF Start
  <2>3. CASE Cleanup
    BY <2>3 DEF Cleanup, DeleteSaved
  <2>4. CASE PreStart
    BY <2>4 DEF PreStart, Return, DeleteSaved
  <2>5. CASE PostStart
    BY <2>5 DEF PostStart, Return
  <2>6. CASE \E h \in Host : CreateTap(h)
    <3>1. PICK h \in Host : CreateTap(h)
      BY <2>6
    <3> QED
      BY <3>1 DEF CreateTap, Fail, Return
  <2>7. CASE TapsCreated
    BY <2>7 DEF TapsCreated
  <2>8. CASE \E v \in Receiver : NextReceiver(v)
    <3>1. PICK v \in Receiver : NextReceiver(v)
      BY <2>8
    <3> QED
      BY <3>1 DEF NextReceiver, Fail, Return
  <2>9. CASE \E h \in Host : AddPort(h)
    <3>1. PICK h \in Host : AddPort(h)
      BY <2>9
    <3> QED
      BY <3>1 DEF AddPort, Fail, Return
  <2>10. CASE AddMirror
    BY <2>10 DEF AddMirror, Fail, Return
  <2>11. CASE PortsAdded
    BY <2>11 DEF PortsAdded
  <2>12. CASE SaveStatus
    <3>1. saved' = [run |-> run, recv |-> status]
      BY <2>12 DEF SaveStatus
    <3>2. saved.run < run
      BY <2>12 DEF SaveStatus, Shape, Creating
    <3>3. \A v \in Receiver : v \in status <=> recv[v] = "addr"
      BY <2>12 DEF SaveStatus, Created, Creating
    <3> QED
      BY <3>1, <3>2, <3>3
  <2>13. CASE \E v \in Receiver : RemoveReceiver(v)
    <3>1. PICK v \in Receiver : RemoveReceiver(v)
      BY <2>13
    <3> QED
      BY <3>1 DEF RemoveReceiver
  <2>14. CASE \E h \in Host : RemoveMirror(h)
    <3>1. PICK h \in Host : RemoveMirror(h)
      BY <2>14
    <3> QED
      BY <3>1 DEF RemoveMirror, Deletes
  <2>15. CASE DelPort
    BY <2>15 DEF DelPort, Deletes
  <2>16. CASE HostsDone
    BY <2>16 DEF HostsDone
  <2>17. CASE MirrorsDone
    BY <2>17 DEF MirrorsDone, Return
  <2>18. CASE \E h \in Host : DeleteTap(h)
    <3>1. PICK h \in Host : DeleteTap(h)
      BY <2>18
    <3> QED
      BY <3>1 DEF DeleteTap, Deletes
  <2>19. CASE TapsDone
    BY <2>19 DEF TapsDone, Return
  <2>20. CASE \E v \in Receiver : Panic(v)
    <3>1. PICK v \in Receiver : Panic(v)
      BY <2>20
    <3> QED
      BY <3>1 DEF Panic, Die
  <2>21. CASE Kill
    BY <2>21 DEF Kill, Die
  <2>22. CASE Abandon
    BY <2>22 DEF Abandon
  <2>23. CASE UNCHANGED vars
    BY <2>23 DEF vars
  <2> QED
    BY <2>1, <2>2, <2>3, <2>4, <2>5, <2>6, <2>7, <2>8, <2>9, <2>10, <2>11,
       <2>12, <2>13, <2>14, <2>15, <2>16, <2>17, <2>18, <2>19, <2>20, <2>21,
       <2>22, <2>23
       DEF Next, Handler
<1> QED
  BY <1>1, TypeCorrect, ShapeCorrect, CreatedCorrect, PTL
     DEF Spec, StatusMonotone

=============================================================================
