------------------------------- MODULE Kafka -------------------------------
(***************************************************************************)
(* The scorch kafka component (scorch/kafka/kafka_component.py) and the    *)
(* listeners it starts.                                                    *)
(*                                                                         *)
(* The configure stage starts a listener that outlives the stage, and      *)
(* writes its pid to a file under /tmp; the cleanup stage, a process of    *)
(* its own, reads the pid, removes the file and kills the process.  The    *)
(* file is all that connects the two: it outlives experiments, listeners   *)
(* and the processes of the component.  Stages of one component run one    *)
(* after the other, in any order (a run may loop over configure).          *)
(*                                                                         *)
(* A pid is the number of the listener.  It is free again when the         *)
(* listener has ended, and may then be the pid of another process.         *)
(***************************************************************************)
EXTENDS KafkaListener

CONSTANT MaxStage   \* bound: stages that are run

ASSUME StageAssumption == MaxStage \in Nat

VARIABLES
  pc,         \* where the process of the component is
  pid,        \* the pid it holds
  stages,     \* stages run so far
  exists,     \* the pid file exists
  content,    \* what is in it, 0 if it is empty
  other,      \* pids that belong to other processes
  clean,      \* history: the last stage that finished was cleanup
  orphan,     \* history: listeners whose pid was lost
  stale,      \* history: pids that may be in the file of an ended listener
  victim      \* history: pids of other processes that were killed

componentVars == <<pc, pid, stages, exists, content>>
history == <<clean, orphan, stale, victim>>
vars == <<listenerVars, componentVars, other, history>>

Labels == {"idle", "configure", "create", "write", "cleanup", "remove", "kill"}

Init ==
  /\ InitListener
  /\ pc = "idle" /\ pid = 0 /\ stages = 0
  /\ exists = FALSE /\ content = 0 /\ other = {}
  /\ clean = FALSE /\ orphan = {} /\ stale = {} /\ victim = {}

\* The process of the component ends.
Finish == pc' = "idle" /\ pid' = 0

----------------------------------------------------------------------------
(* configure *)

ConfigureStart ==
  /\ pc = "idle" /\ stages < MaxStage
  /\ pc' = "configure" /\ stages' = stages + 1
  /\ clean' = FALSE
  /\ UNCHANGED <<listenerVars, pid, exists, content, other, orphan, stale,
                 victim>>

AlreadyConfigured ==
  /\ pc = "configure" /\ exists
  /\ Finish
  /\ UNCHANGED <<listenerVars, stages, exists, content, other, history>>

\* Mutant of Spawn: the pid file is not looked for.
SpawnAlways ==
  /\ pc = "configure"
  /\ started < MaxListener
  /\ Launch
  /\ pc' = "create" /\ pid' = started + 1
  /\ UNCHANGED <<stages, exists, content, other, history>>

Spawn ==
  /\ pc = "configure" /\ ~exists
  /\ started < MaxListener
  /\ Launch
  /\ pc' = "create" /\ pid' = started + 1
  /\ UNCHANGED <<stages, exists, content, other, history>>

SpawnFails ==
  /\ pc = "configure" /\ ~exists
  /\ Finish
  /\ UNCHANGED <<listenerVars, stages, exists, content, other, history>>

\* _create_pid_file: open() makes an empty file, or raises; so does write().
CreateFile ==
  /\ pc = "create"
  /\ \/ /\ exists' = TRUE /\ content' = 0
        /\ pc' = "write" /\ UNCHANGED <<pid, orphan>>
     \/ /\ Finish /\ orphan' = orphan \cup {pid}
        /\ UNCHANGED <<exists, content>>
  /\ UNCHANGED <<listenerVars, stages, other, clean, stale, victim>>

WritePid ==
  /\ pc = "write"
  /\ \/ content' = pid /\ orphan' = orphan
     \/ content' = content /\ orphan' = orphan \cup {pid}
  /\ Finish
  /\ UNCHANGED <<listenerVars, stages, exists, other, clean, stale, victim>>

----------------------------------------------------------------------------
(* cleanup *)

CleanupStart ==
  /\ pc = "idle" /\ stages < MaxStage
  /\ pc' = "cleanup" /\ stages' = stages + 1
  /\ clean' = FALSE
  /\ UNCHANGED <<listenerVars, pid, exists, content, other, orphan, stale,
                 victim>>

\* There is no file, or no number in it: "component already cleaned up".
NoPid ==
  /\ pc = "cleanup" /\ (~exists \/ content = 0)
  /\ Finish /\ clean' = TRUE
  /\ UNCHANGED <<listenerVars, stages, exists, content, other, orphan, stale,
                 victim>>

ReadPid ==
  /\ pc = "cleanup" /\ exists /\ content # 0
  /\ pc' = "remove" /\ pid' = content
  /\ UNCHANGED <<listenerVars, stages, exists, content, other, history>>

\* Mutant of RemoveFile: the file is left.
RemoveFileKept ==
  /\ pc = "remove" /\ pc' = "kill"
  /\ UNCHANGED <<listenerVars, pid, stages, exists, content, other, history>>

\* The pid is returned whether or not the file could be removed.
RemoveFile ==
  /\ pc = "remove" /\ pc' = "kill"
  /\ \/ exists' = FALSE /\ content' = 0 /\ stale' = stale
     \/ UNCHANGED <<exists, content>> /\ stale' = stale \cup {pid}
  /\ UNCHANGED <<listenerVars, pid, stages, other, clean, orphan, victim>>

\* Mutant of KillPid: the signal is one the listener outlives.
KillPidInVain ==
  /\ pc = "kill"
  /\ Finish /\ clean' = TRUE
  /\ victim' = victim \cup ({pid} \cap other)
  /\ other' = other \ {pid}
  /\ UNCHANGED <<listenerVars, stages, exists, content, orphan, stale>>

KillPid ==
  /\ pc = "kill"
  /\ Finish /\ clean' = TRUE
  /\ End(pid)
  /\ victim' = victim \cup ({pid} \cap other)
  /\ other' = other \ {pid}
  /\ UNCHANGED <<stages, exists, content, orphan, stale>>

Component ==
  \/ AlreadyConfigured \/ Spawn \/ SpawnFails \/ CreateFile \/ WritePid
  \/ NoPid \/ ReadPid \/ RemoveFile \/ KillPid

----------------------------------------------------------------------------
(* Crashes, and other processes *)

\* The process of the component is killed.  A listener whose pid is in no
\* file at that moment is out of reach.
Crash ==
  /\ pc # "idle"
  /\ Finish
  /\ orphan' = IF pid # 0 /\ ~(exists /\ content = pid)
               THEN orphan \cup {pid} ELSE orphan
  /\ UNCHANGED <<listenerVars, stages, exists, content, other, clean, stale,
                 victim>>

\* A listener ends by itself: no broker, a message that is not JSON, a full
\* disk.  Nobody is told.
Ended(l) == stale' = stale \cup {l}
            /\ UNCHANGED <<componentVars, other, clean, orphan, victim>>
Fails(l) == Halt(l) /\ Ended(l)

OtherStarts(p) ==
  /\ p \in Listener \ (live \cup other)
  /\ p <= started
  /\ other' = other \cup {p}
  /\ UNCHANGED <<listenerVars, componentVars, history>>

OtherEnds(p) ==
  /\ p \in other
  /\ other' = other \ {p}
  /\ UNCHANGED <<listenerVars, componentVars, history>>

Works(l) ==
  \/ /\ Plain(l) \/ Wild(l) \/ GiveUp(l) \/ Subscribe(l) \/ Consume(l)
     /\ UNCHANGED <<componentVars, other, history>>
  \/ Nothing(l) /\ Ended(l)

Time(l) == Deadline(l) /\ UNCHANGED <<componentVars, other, history>>

Next ==
  \/ ConfigureStart \/ CleanupStart \/ Component \/ Crash
  \/ \E l \in Listener : Works(l) \/ Time(l) \/ Fails(l)
  \/ \E p \in Listener : OtherStarts(p) \/ OtherEnds(p)
  \/ Publish /\ UNCHANGED <<componentVars, other, history>>

Spec == Init /\ [][Next]_vars

\* Listeners run, and their clocks go on.
FairSpec ==
  /\ Spec
  /\ \A l \in Listener : WF_vars(Works(l)) /\ WF_vars(Time(l))

----------------------------------------------------------------------------
(* Properties *)

\* The variables have their types; os.kill is never called with pid 0, which
\* is the process group of the component itself.
TypeOK ==
  /\ ListenerTypeOK
  /\ pc \in Labels /\ pid \in 0..started /\ stages \in 0..MaxStage
  /\ pid = 0 <=> pc \in {"idle", "configure", "cleanup"}
  /\ exists \in BOOLEAN /\ content \in 0..started
  /\ other \subseteq 1..started
  /\ clean \in BOOLEAN
  /\ orphan \subseteq 1..started /\ stale \subseteq 1..started
  /\ victim \subseteq 1..started

\* "write PID to a file so that it can be found and killed later": a running
\* listener is found in the pid file, or a process of the component is about
\* to write its pid or to kill it, except for the listeners a crash or a
\* failed write between the two steps has lost.  So one component has one
\* listener, however often it is configured.
Tracked ==
  /\ \A l \in live \ orphan :
       \/ exists /\ content = l
       \/ pid = l /\ pc \in {"create", "write", "kill"}
  /\ Cardinality(live \ orphan) <= 1

\* When cleanup has finished no listener runs that was not lost before.
CleanedUp == clean => live \subseteq orphan

\* cleanup kills another process only if the listener ended without it, or an
\* earlier cleanup could not remove the file.
KillsOwn == victim \subseteq stale

\* The component implements the on and off of Service: a listener is on while
\* its pid is within the component's reach, and off when cleanup has killed it
\* or has found no pid.
Stage ==
  CASE pc = "idle" -> "idle"
    [] pc \in {"configure", "create", "write"} -> "configure"
    [] pc \in {"cleanup", "remove", "kill"} -> "cleanup"
OnOff == INSTANCE Service WITH
  Process <- Listener,
  stage   <- Stage,
  on      <- live \ orphan,
  lost    <- live \cap orphan,
  done    <- clean
ImplementsService == OnOff!Spec

\* In the output file of one experiment, which listeners started one after
\* the other append to, every row has the columns of the last header above it.
RowsUnderHeader ==
  cfg.csv /\ orphan = {} =>
    \A i \in DOMAIN file : file[i].msg # 0 =>
      \E h \in 1..i : /\ file[h].msg = 0
                      /\ file[h].columns = file[i].columns
                      /\ \A k \in h + 1..i : file[k].msg # 0

\* No message is in the file twice, although several entries may match it and
\* several listeners have written the file.
NoDuplicates ==
  orphan = {} =>
    \A i, k \in DOMAIN file :
      file[i].msg = file[k].msg /\ file[i].msg # 0 => i = k

\* A listener waits for topics only so long: it consumes or it is gone.
Subscribes ==
  \A l \in Listener :
    l \in live ~> l \notin live \/ at[l] = "consume"

\* "if this is a new experiment, kafka may not have populated any tags... so
\* wait until it has": a listener that subscribes before the deadline has a
\* topic for every entry.
EveryEntryFound ==
  \A l \in live : at[l] = "consume" /\ ~late[l] =>
    \A i \in DOMAIN cfg.entries : cfg.entries[i].names \cap sub[l] # {}
=============================================================================
