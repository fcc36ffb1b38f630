------------------------------- MODULE Mirror -------------------------------
(***************************************************************************)
(* The cluster resources of the mirror app                                 *)
(* (go/cmd/phenix-app-mirror/main.go) over the life of one experiment.     *)
(*                                                                         *)
(* phenix runs the app once per stage, each time in a new process that     *)
(* reads the experiment as JSON and prints it back.  pre-start deletes     *)
(* what an earlier run of the experiment recorded, post-start creates a    *)
(* tap on every cluster host and a GRE/ERSPAN port and an OVS mirror per   *)
(* receiving VM and host, a deferred function of post-start undoes a       *)
(* failed attempt, and cleanup deletes what the status records.  One       *)
(* action is one command sent to a cluster host (mm.TapVLAN, mm.MeshShell) *)
(* or one decision between two of them, so that the process can die        *)
(* between any two commands.                                               *)
(*                                                                         *)
(* Names are random in the code (util.RandomString) and are taken to be    *)
(* distinct: the tap of run r is r itself, the mirror of run r for         *)
(* receiver v is <<r, v>>.  Schedules, stages and the store belong to      *)
(* phenix, which is not in this repository.                                *)
(***************************************************************************)
EXTENDS Naturals, FiniteSets

CONSTANTS
  Host,       \* cluster hosts of the minimega mesh
  Receivers,  \* how many VMs are sent mirrored traffic: the app's hosts
  MaxRun,     \* bound: how often the experiment is started
  Faults      \* subset of {"fail", "kill"}: commands fail, the process dies

ASSUME MirrorAssumption ==
  /\ MaxRun \in Nat
  /\ Host # {}
  /\ Receivers \in Nat \ {0}

\* A receiver is its place in the list app.Hosts(), the order configure and
\* post-start both go in.
Receiver == 1..Receivers

VARIABLES
  recv,       \* what post-start will find for a receiver
  run,        \* number of the current run of the experiment
  cluster,    \* hosts of exp.Status.Schedules() in the current run
  dryrun,     \* util.IsDryRun()
  saved,      \* the "mirror" app status in the store: run 0 is no status
  status,     \* receivers in the Mirrors map of the status being built
  stage,      \* the handler being executed
  pc,         \* where the handler is
  todoHost,   \* hosts left in the innermost loop
  todoRecv,   \* receivers left in the outer loop
  curRecv,    \* the receiver of the command in progress
  curHost,    \* the host of the command in progress
  tap,        \* taps <<run, host>> that exist
  port,       \* GRE/ERSPAN ports <<run, receiver, host>> that exist
  mirror,     \* OVS mirrors <<run, receiver, host>> that exist
  excused     \* history: <<run, host>> pairs a known cause may have leaked on

loop == <<todoHost, todoRecv, curRecv, curHost>>
world == <<tap, port, mirror>>
vars == <<recv, run, cluster, dryrun, saved, status, stage, pc, loop, world,
          excused>>

Stages == {"idle", "pre-start", "post-start", "undo", "cleanup"}
Labels == {"new", "stopped", "enter", "tap", "receiver", "port", "mirror",
           "rmreceiver", "rmmirror", "rmport", "rmtap", "running", "failed"}
\* Where no process of the app is running.
Resting == {"new", "stopped", "running", "failed"}

\* meta_error: the host's metadata does not decode.  unusable: its node is
\* not in the topology or it names no interface.  absent, noaddr, addr: the
\* named interface is not in the topology, has no address, has an address.
RecvKind == {"meta_error", "unusable", "absent", "noaddr", "addr"}
Run == 0..MaxRun
Status == [run : Run, recv : SUBSET Receiver]

Init ==
  /\ recv \in [Receiver -> RecvKind]
  /\ run = 0
  /\ cluster = {}
  /\ dryrun = FALSE
  /\ saved = [run |-> 0, recv |-> {}]
  /\ status = {}
  /\ stage = "idle"
  /\ pc = "new"
  /\ todoHost = {}
  /\ todoRecv = {}
  /\ curRecv \in Receiver
  /\ curHost \in Host
  /\ tap = {}
  /\ port = {}
  /\ mirror = {}
  /\ excused = {}

\* A command that can fail: it may, and if it does it may still have had
\* its effect.
MayFail == "fail" \in Faults

(***************************************************************************)
(* configure                                                               *)
(***************************************************************************)

\* Where the loop of configure() over app.Hosts() gets: it returns at the first
\* receiver it cannot handle, and those before it keep their new address.
Addressed ==
  {v \in Receiver : \A w \in Receiver :
                      recv[w] \in {"meta_error", "unusable"} => v < w}

\* configure(): it addresses none when mirrorNet or the app's metadata fails.
Configure ==
  /\ pc \in {"new", "stopped"}
  /\ \/ recv' = [v \in Receiver |-> IF v \in Addressed THEN "addr" ELSE recv[v]]
     \/ MayFail /\ UNCHANGED recv
  /\ pc' = "stopped"
  /\ UNCHANGED <<run, cluster, dryrun, saved, status, stage, loop, world,
                 excused>>

(***************************************************************************)
(* Stage transitions                                                       *)
(***************************************************************************)

\* phenix schedules the VMs on hosts c and runs the pre-start stage.  Whatever
\* the stored status names is going to be deleted from the hosts of c, so only
\* the others are excused.
Start(c, d) ==
  /\ pc \in {"stopped", "failed"}
  /\ run < MaxRun
  /\ run' = run + 1
  /\ cluster' = c
  /\ dryrun' = d
  /\ stage' = "pre-start"
  /\ pc' = "enter"
  /\ excused' = (excused \ ({saved.run} \X c))
                  \cup ({saved.run} \X (IF d THEN Host ELSE Host \ c))
  /\ UNCHANGED <<recv, saved, status, loop, world>>

\* The handler returns: phenix goes on to the next stage.  main() exits with
\* code 0 whatever the handler returned.
Return ==
  \/ stage = "pre-start" /\ stage' = "post-start" /\ pc' = "enter"
  \/ stage \in {"post-start", "undo"} /\ stage' = "idle" /\ pc' = "running"
  \/ stage = "cleanup" /\ stage' = "idle" /\ pc' = "stopped"

\* The loop "for _, cfg := range status.Mirrors" of pre-start and cleanup.
DeleteSaved ==
  /\ pc' = "rmreceiver"
  /\ todoRecv' = saved.recv
  /\ UNCHANGED <<todoHost, curRecv, curHost>>

\* preStart(): the injects come first, and an error there (bad metadata, a node
\* that is not in the topology, a file that cannot be written) returns before
\* anything is deleted.  Otherwise there is nothing to clean up in a dry run or
\* without a stored status.
PreStart ==
  /\ pc = "enter" /\ stage = "pre-start"
  /\ \/ /\ MayFail \/ \E v \in Receiver : recv[v] \in {"meta_error", "unusable"}
        /\ Return
        /\ excused' = excused \cup ({saved.run} \X Host)
        /\ UNCHANGED loop
     \/ /\ \A v \in Receiver : recv[v] # "meta_error"
        /\ IF dryrun \/ saved.run = 0
           THEN Return /\ UNCHANGED loop
           ELSE DeleteSaved /\ UNCHANGED stage
        /\ UNCHANGED excused
  /\ UNCHANGED <<recv, run, cluster, dryrun, saved, status, world>>

\* postStart(): up to the start of the tap loop.  An error before the deferred
\* function is installed just returns.
PostStart ==
  /\ pc = "enter" /\ stage = "post-start"
  /\ \/ /\ status' = {}
        /\ todoHost' = cluster
        /\ pc' = "tap"
        /\ UNCHANGED <<stage, todoRecv, curRecv, curHost>>
     \/ /\ MayFail
        /\ Return
        /\ UNCHANGED <<status, loop>>
  /\ UNCHANGED <<recv, run, cluster, dryrun, saved, world, excused>>

\* Mutant of Cleanup: the status is cleared when cleanup begins.
CleanupClears ==
  /\ pc \in {"running", "failed"}
  /\ stage' = "idle" /\ pc' = "stopped"
  /\ saved' = [run |-> 0, recv |-> {}]
  /\ UNCHANGED <<recv, run, cluster, dryrun, status, loop, world, excused>>

\* cleanup(): phenix stops the experiment, or tidies up after a failed stage.
Cleanup ==
  /\ pc \in {"running", "failed"}
  /\ IF dryrun \/ saved.run = 0
     THEN stage' = "idle" /\ pc' = "stopped" /\ UNCHANGED loop
     ELSE stage' = "cleanup" /\ DeleteSaved
  /\ UNCHANGED <<recv, run, cluster, dryrun, saved, status, world, excused>>

(***************************************************************************)
(* post-start                                                              *)
(***************************************************************************)

\* Mutant of Fail: the deferred clean-up is forgotten.
FailForgets == Return /\ UNCHANGED <<todoHost, todoRecv>>

\* postStart() returns an error: the deferred function deletes the tap, then
\* the mirrors, from all hosts; in a dry run it does nothing.
Fail ==
  /\ IF dryrun
     THEN Return /\ UNCHANGED todoHost
     ELSE stage' = "undo" /\ pc' = "rmtap" /\ todoHost' = cluster
  /\ UNCHANGED todoRecv

CreateTap(h) ==
  /\ pc = "tap" /\ h \in todoHost
  /\ \/ /\ tap' = IF dryrun THEN tap ELSE tap \cup {<<run, h>>}
        /\ todoHost' = todoHost \ {h}
        /\ UNCHANGED <<stage, pc, todoRecv, curRecv, curHost>>
     \/ /\ MayFail /\ ~dryrun
        /\ tap' \in {tap, tap \cup {<<run, h>>}}
        /\ Fail
        /\ UNCHANGED <<curRecv, curHost>>
  /\ UNCHANGED <<recv, run, cluster, dryrun, saved, status, port, mirror,
                 excused>>

TapsCreated ==
  /\ pc = "tap" /\ todoHost = {}
  /\ pc' = "receiver"
  /\ todoRecv' = Receiver
  /\ UNCHANGED <<recv, run, cluster, dryrun, saved, status, stage, todoHost,
                 curRecv, curHost, world, excused>>

\* The loop over app.Hosts() goes in the order of the list.
IsNext(v) == v \in todoRecv /\ \A w \in todoRecv : v <= w

\* Mutant of NextReceiver: the mirror is not recorded before it is created.
NextReceiverUnrecorded(v) ==
  /\ pc = "receiver" /\ IsNext(v) /\ recv[v] = "addr"
  /\ todoRecv' = todoRecv \ {v}
  /\ todoHost' = cluster
  /\ curRecv' = v
  /\ pc' = "port"
  /\ UNCHANGED <<recv, run, cluster, dryrun, saved, status, stage, curHost,
                 world, excused>>

\* One turn of the loop over app.Hosts(): record the mirror in the status,
\* skip the receiver, or return an error.
NextReceiver(v) ==
  /\ pc = "receiver" /\ IsNext(v)
  /\ recv[v] # "noaddr"
  /\ \/ /\ recv[v] = "addr"
        /\ status' = status \cup {v}
        /\ todoRecv' = todoRecv \ {v}
        /\ todoHost' = cluster
        /\ curRecv' = v
        /\ pc' = "port"
        /\ UNCHANGED <<stage, curHost>>
     \/ /\ recv[v] \in {"unusable", "absent"}
        /\ todoRecv' = todoRecv \ {v}
        /\ UNCHANGED <<status, stage, pc, todoHost, curRecv, curHost>>
     \/ /\ recv[v] = "meta_error"
        /\ Fail
        /\ UNCHANGED <<status, curRecv, curHost>>
  /\ UNCHANGED <<recv, run, cluster, dryrun, saved, world, excused>>

\* Mutant of AddPort: an error of the command is ignored.
AddPortUnchecked(h) ==
  /\ pc = "port" /\ h \in todoHost
  /\ curHost' = h
  /\ port' \in {port, port \cup {<<run, curRecv, h>>}}
  /\ pc' = "mirror"
  /\ UNCHANGED <<recv, run, cluster, dryrun, saved, status, stage, todoHost,
                 todoRecv, curRecv, tap, mirror, excused>>

\* add-port on host h.  An unknown ERSPAN version also fails here, before any
\* command is sent.
AddPort(h) ==
  /\ pc = "port" /\ h \in todoHost
  /\ curHost' = h
  /\ \/ /\ port' = IF dryrun THEN port ELSE port \cup {<<run, curRecv, h>>}
        /\ pc' = "mirror"
        /\ UNCHANGED <<stage, todoHost, todoRecv>>
     \/ /\ MayFail
        /\ port' \in {port} \cup (IF dryrun THEN {}
                                  ELSE {port \cup {<<run, curRecv, h>>}})
        /\ Fail
  /\ UNCHANGED <<recv, run, cluster, dryrun, saved, status, curRecv, tap,
                 mirror, excused>>

\* The mirror on the same host; buildMirrorCommand() returns nil when no tap
\* there is in a monitored VLAN, and the port is left without a mirror.
AddMirror ==
  /\ pc = "mirror"
  /\ \/ /\ mirror' \in {mirror} \cup
             (IF dryrun THEN {} ELSE {mirror \cup {<<run, curRecv, curHost>>}})
        /\ todoHost' = todoHost \ {curHost}
        /\ pc' = "port"
        /\ UNCHANGED <<stage, todoRecv, curRecv, curHost>>
     \/ /\ MayFail /\ ~dryrun
        /\ mirror' \in {mirror, mirror \cup {<<run, curRecv, curHost>>}}
        /\ Fail
        /\ UNCHANGED <<curRecv, curHost>>
  /\ UNCHANGED <<recv, run, cluster, dryrun, saved, status, tap, port,
                 excused>>

PortsAdded ==
  /\ pc = "port" /\ todoHost = {}
  /\ pc' = "receiver"
  /\ UNCHANGED <<recv, run, cluster, dryrun, saved, status, stage, loop,
                 world, excused>>

\* exp.Status.SetAppStatus and the JSON main() prints.
SaveStatus ==
  /\ pc = "receiver" /\ todoRecv = {}
  /\ saved' = [run |-> run, recv |-> status]
  /\ Return
  /\ UNCHANGED <<recv, run, cluster, dryrun, status, loop, world, excused>>

(***************************************************************************)
(* deleteMirror, deleteTap: every host is tried, errors stop nothing       *)
(***************************************************************************)

\* The run whose names the handler deletes.
Target == IF stage = "undo" THEN run ELSE saved.run

\* A delete command on host h either removes x or fails and leaves it.
Deletes(set, set1, x, h) ==
  \/ set1 = set \ {x} /\ UNCHANGED excused
  \/ MayFail /\ set1 = set /\ excused' = excused \cup {<<Target, h>>}

RemoveReceiver(v) ==
  /\ pc = "rmreceiver" /\ v \in todoRecv
  /\ todoRecv' = todoRecv \ {v}
  /\ todoHost' = cluster
  /\ curRecv' = v
  /\ pc' = "rmmirror"
  /\ UNCHANGED <<recv, run, cluster, dryrun, saved, status, stage, curHost,
                 world, excused>>

\* deleteMirrorFromHost, first command: remove the mirror from the bridge.
RemoveMirror(h) ==
  /\ pc = "rmmirror" /\ h \in todoHost
  /\ Deletes(mirror, mirror', <<Target, curRecv, h>>, h)
  /\ curHost' = h
  /\ pc' = "rmport"
  /\ UNCHANGED <<recv, run, cluster, dryrun, saved, status, stage, todoHost,
                 todoRecv, curRecv, tap, port>>

\* deleteMirrorFromHost, second command: del-port, whatever the first one did.
DelPort ==
  /\ pc = "rmport"
  /\ Deletes(port, port', <<Target, curRecv, curHost>>, curHost)
  /\ todoHost' = todoHost \ {curHost}
  /\ pc' = "rmmirror"
  /\ UNCHANGED <<recv, run, cluster, dryrun, saved, status, stage, todoRecv,
                 curRecv, curHost, tap, mirror>>

HostsDone ==
  /\ pc = "rmmirror" /\ todoHost = {}
  /\ pc' = "rmreceiver"
  /\ UNCHANGED <<recv, run, cluster, dryrun, saved, status, stage, loop,
                 world, excused>>

\* All mirrors done: pre-start and cleanup go on to the tap, the deferred
\* function has done the tap already.
MirrorsDone ==
  /\ pc = "rmreceiver" /\ todoRecv = {}
  /\ IF stage = "undo"
     THEN Return /\ UNCHANGED loop
     ELSE /\ pc' = "rmtap" /\ todoHost' = cluster
          /\ UNCHANGED <<stage, todoRecv, curRecv, curHost>>
  /\ UNCHANGED <<recv, run, cluster, dryrun, saved, status, world, excused>>

\* Mutant of DeleteTap: the loop ends at the first error.
DeleteTapStops(h) ==
  /\ pc = "rmtap" /\ h \in todoHost
  /\ Deletes(tap, tap', <<Target, h>>, h)
  /\ todoHost' = IF tap' = tap THEN {} ELSE todoHost \ {h}
  /\ UNCHANGED <<recv, run, cluster, dryrun, saved, status, stage, pc,
                 todoRecv, curRecv, curHost, port, mirror>>

\* deleteTap on host h.
DeleteTap(h) ==
  /\ pc = "rmtap" /\ h \in todoHost
  /\ Deletes(tap, tap', <<Target, h>>, h)
  /\ todoHost' = todoHost \ {h}
  /\ UNCHANGED <<recv, run, cluster, dryrun, saved, status, stage, pc,
                 todoRecv, curRecv, curHost, port, mirror>>

\* The deferred function goes on to the mirrors, the other handlers are done.
TapsDone ==
  /\ pc = "rmtap" /\ todoHost = {}
  /\ IF stage = "undo"
     THEN /\ pc' = "rmreceiver" /\ todoRecv' = status
          /\ UNCHANGED <<stage, todoHost, curRecv, curHost>>
     ELSE Return /\ UNCHANGED loop
  /\ UNCHANGED <<recv, run, cluster, dryrun, saved, status, world, excused>>

(***************************************************************************)
(* The process ends early                                                  *)
(***************************************************************************)

\* The process is gone without printing the experiment; what it created in
\* this run is in no status.
Die ==
  /\ pc' = "failed"
  /\ stage' = "idle"
  /\ excused' = IF stage \in {"post-start", "undo"}
                THEN excused \cup ({run} \X Host) ELSE excused
  /\ UNCHANGED <<recv, run, cluster, dryrun, saved, status, loop, world>>

\* netaddr.MustParseIP("") panics; the deferred function runs with ferr nil
\* and does nothing.
Panic(v) ==
  /\ pc = "receiver" /\ IsNext(v) /\ recv[v] = "noaddr"
  /\ Die

Kill ==
  /\ "kill" \in Faults
  /\ pc \notin Resting
  /\ Die

\* The head node goes down, or phenix does, while the experiment is running:
\* the cleanup stage is not run.
Abandon ==
  /\ "kill" \in Faults
  /\ pc = "running"
  /\ pc' = "failed"
  /\ UNCHANGED <<recv, run, cluster, dryrun, saved, status, stage, loop,
                 world, excused>>

Handler ==
  \/ PreStart
  \/ PostStart
  \/ \E h \in Host : CreateTap(h)
  \/ TapsCreated
  \/ \E v \in Receiver : NextReceiver(v)
  \/ \E h \in Host : AddPort(h)
  \/ AddMirror
  \/ PortsAdded
  \/ SaveStatus
  \/ \E v \in Receiver : RemoveReceiver(v)
  \/ \E h \in Host : RemoveMirror(h)
  \/ DelPort
  \/ HostsDone
  \/ MirrorsDone
  \/ \E h \in Host : DeleteTap(h)
  \/ TapsDone
  \/ \E v \in Receiver : Panic(v)

Next ==
  \/ Configure
  \/ \E c \in SUBSET Host \ {{}}, d \in BOOLEAN : Start(c, d)
  \/ Cleanup
  \/ Handler
  \/ Kill
  \/ Abandon

Spec == Init /\ [][Next]_vars

(***************************************************************************)
(* Properties                                                              *)
(***************************************************************************)

TypeOK ==
  /\ recv \in [Receiver -> RecvKind]
  /\ run \in Run
  /\ cluster \in SUBSET Host
  /\ dryrun \in BOOLEAN
  /\ saved \in Status
  /\ status \in SUBSET Receiver
  /\ stage \in Stages
  /\ pc \in Labels
  /\ todoHost \in SUBSET Host
  /\ todoRecv \in SUBSET Receiver
  /\ curRecv \in Receiver
  /\ curHost \in Host
  /\ tap \in SUBSET (Run \X Host)
  /\ port \in SUBSET (Run \X Receiver \X Host)
  /\ mirror \in SUBSET (Run \X Receiver \X Host)
  /\ excused \in SUBSET (Run \X Host)

\* The app holds something of run r on host h.
Holds(r, h) ==
  \/ <<r, h>> \in tap
  \/ \E v \in Receiver : <<r, v, h>> \in port \/ <<r, v, h>> \in mirror

\* Nothing is leaked without a cause: whatever exists on a host belongs to the
\* run the stored status names, so that the next pre-start or cleanup deletes
\* it, or to the post-start in progress, whose deferred function will; unless
\* its deletion was tried and failed, its process died inside post-start, or
\* the status that named it was overwritten by a run whose pre-start did not get
\* to the deletions, was a dry run or was not scheduled on that host (preStart,
\* postStart and its deferred function).
Accounted ==
  \A r \in Run, h \in Host :
    Holds(r, h) =>
      \/ r = saved.run
      \/ r = run /\ stage \in {"post-start", "undo"}
      \/ <<r, h>> \in excused

\* post-start is all or nothing: when the experiment is running, either the
\* stored status is of this run and every scheduled host has the tap and the
\* port of every recorded receiver, or nothing of this run is left except
\* where a deletion failed.  A dry run creates nothing at all.
AllOrNothing ==
  pc = "running" =>
    \/ /\ saved.run = run
       /\ \A h \in cluster : dryrun \/
            /\ <<run, h>> \in tap
            /\ \A v \in saved.recv : <<run, v, h>> \in port
    \/ \A h \in Host : Holds(run, h) => ~dryrun /\ <<run, h>> \in excused

\* Every mirror of a running experiment has the port it outputs to, and sends
\* to a receiver the stored status records (postStart adds the port first and
\* records the receiver before both).
MirrorsUsable ==
  pc = "running" /\ saved.run = run =>
    \A v \in Receiver, h \in Host :
      <<run, v, h>> \in mirror => <<run, v, h>> \in port /\ v \in saved.recv

\* A finished cleanup leaves nothing the status records on any host, except
\* where a deletion failed or the host is no longer scheduled (cleanup).
CleanedUp ==
  pc = "stopped" =>
    \A h \in Host : Holds(saved.run, h) => <<saved.run, h>> \in excused

\* The stored status only ever moves forward, and only from a post-start that
\* went through all receivers; a failed or killed stage leaves the old one
\* (main prints the experiment it was given).
StatusMonotone ==
  [][saved' # saved => /\ saved'.run = run /\ saved.run < run
                       /\ \A v \in Receiver :
                            v \in saved'.recv <=> recv[v] = "addr"]_vars

\* main.go:221-225, the comment on pre-start's deletions: they are there "just
\* in case the previous experiment didn't exit cleanly, so we can avoid any
\* post-start errors arising from GRE taps and mirrors already existing on
\* cluster nodes".  When post-start begins, the hosts it is about to use hold
\* nothing of an earlier run.
PreStartClears ==
  stage = "post-start" /\ pc = "enter" /\ ~dryrun =>
    \A r \in Run, h \in cluster : ~Holds(r, h)

=============================================================================
