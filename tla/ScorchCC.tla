------------------------------ MODULE ScorchCC ------------------------------
(***************************************************************************)
(* The scorch cc component (scorch/cc/cc.py) on top of the miniccc helpers *)
(* of common/utils.py and the stage runner of scorch/app.py.               *)
(*                                                                         *)
(* A scorch component is a process that runs one stage and talks to        *)
(* minimega, one request at a time.  miniccc commands of an experiment     *)
(* share one list, one counter of ids and one filter, which every process  *)
(* of the experiment reads and writes; the helpers find the command they   *)
(* have just issued by asking for the last one of the list.  One action is *)
(* one request to minimega or one decision between two requests, so that   *)
(* VMs and other components step in between.                               *)
(*                                                                         *)
(* The order of jobs and stages is the user's: any stage may run any jobs, *)
(* stage-level ones first.  minimega and the miniccc agents are not in     *)
(* this repository: a filter selects a set of VMs, a VM runs the commands  *)
(* addressed to it in any order, each once, and the id of a command is     *)
(* never used again.                                                       *)
(***************************************************************************)
EXTENDS Naturals, FiniteSets

CONSTANTS
  Client,     \* component processes that may run at the same time
  VM,         \* VMs with a miniccc agent
  Windows,    \* those that run Windows
  AppFilter,  \* filters of stage-level exec jobs: {} for none, or VMs
  MaxJob      \* bound: how many jobs all stages together execute

ASSUME CCAssumption ==
  /\ VM # {}
  /\ Windows \subseteq VM
  /\ AppFilter \subseteq SUBSET VM
  /\ MaxJob \in Nat

VARIABLES
  filter,     \* VMs selected by the filter of the experiment's namespace
  cmds,       \* the commands minimega lists
  lastId,     \* id of the newest command ever issued
  seen,       \* <<id, vm>>: the VM has executed this listed command
  resp,       \* responses minimega keeps
  file,       \* <<script, vm>>: the script has been delivered to the VM
  mounted,    \* VMs whose file system is mounted on the host
  jobs,       \* jobs taken so far
  pc,         \* where the stage of a client is
  phase,      \* whether it still executes the stage-level commands
  job,        \* its current job
  id,         \* the command id it waits for
  got,        \* the answer it has read
  judged,     \* jobs of this stage whose answer it has accepted
  ran,        \* history: what ran where, with which answer
  killed      \* history: VMs mounted by a process that was killed

server == <<filter, cmds, lastId, resp>>
agent == <<seen, file, ran>>
client == <<pc, phase, job, id, got, judged>>
vars == <<server, agent, client, mounted, jobs, killed>>

Labels == {"idle", "run", "send filter", "send", "send last", "send wait",
           "send clear", "exec filter", "exec", "exec last", "exec wait",
           "exit code", "judge", "clear filter", "app filter", "mount", "copy",
           "unmount", "unmount failed", "reset 0", "reset 1", "reset 2",
           "reset 3", "reset 4"}

\* check is run_and_check_command: a plain command with a timeout.  copy is a
\* send or recv job of the component, done over a mount.
Kinds == {"reset", "app", "exec", "wait", "background", "check", "copy"}
\* Jobs whose command is first written to a script and sent to the VM.
Scripted == {"exec", "wait", "background"}
\* The filter of a stage-level exec: {} when the job names none.
Job == [kind : Kinds, vm : VM, to : SUBSET VM, script : 0..MaxJob]
NoJob == [kind |-> "reset", vm |-> CHOOSE v \in VM : TRUE, to |-> {},
          script |-> 0]
Answer == [exit : {0, 1}, stderr : BOOLEAN]
NoAnswer == [exit |-> 0, stderr |-> FALSE]

\* What the component takes for a success (cc.py, app.py).
Success(j, a) ==
  IF j.kind = "wait" /\ j.vm \in Windows THEN ~a.stderr ELSE a.exit = 0

Init ==
  /\ filter = VM
  /\ cmds = {} /\ lastId = 0 /\ seen = {} /\ resp = {}
  /\ file = {} /\ mounted = {} /\ jobs = 0
  /\ pc = [c \in Client |-> "idle"]
  /\ phase = [c \in Client |-> "app"]
  /\ job = [c \in Client |-> NoJob]
  /\ id = [c \in Client |-> 0]
  /\ got = [c \in Client |-> NoAnswer]
  /\ judged = [c \in Client |-> {}]
  /\ ran = {} /\ killed = {}
----------------------------------------------------------------------------
(* Requests to minimega *)

SetFilter(f) == filter' = f /\ UNCHANGED <<cmds, lastId, resp>>

\* cc_send, cc_exec, cc_exec_once, cc_background, ...: a new command for the
\* VMs the filter selects at this moment.
Issue(j, isFile) ==
  /\ lastId' = lastId + 1
  /\ cmds' = cmds \cup {[id |-> lastId + 1, to |-> filter, file |-> isFile,
                         job |-> j]}
  /\ UNCHANGED <<filter, resp>>

Newest(k) == k \in cmds /\ \A d \in cmds : d.id <= k.id

\* Mutant of Answered: the number of VMs is expected, as by
\* mm_wait_for_prefix.
AnsweredByAll(i) ==
  \E k \in cmds : k.id = i /\ \A v \in VM : \E r \in resp : r.id = i /\ r.vm = v

Answered(i) == \E k \in cmds : k.id = i /\ \E r \in resp : r.id = i

----------------------------------------------------------------------------
(* The stage: one process, from execute_stage to its end *)

Goto(c, l) == pc' = [pc EXCEPT ![c] = l] /\ UNCHANGED <<phase, job, judged>>

\* The stage is over: all jobs done, sys.exit, or an exception that
\* execute_stage turns into a line of the info file.
End(c) ==
  /\ pc' = [pc EXCEPT ![c] = "idle"]
  /\ phase' = [phase EXCEPT ![c] = "app"]
  /\ job' = [job EXCEPT ![c] = NoJob]
  /\ id' = [id EXCEPT ![c] = 0]
  /\ got' = [got EXCEPT ![c] = NoAnswer]
  /\ judged' = [judged EXCEPT ![c] = {}]

Keep == UNCHANGED <<agent, mounted, jobs, killed>>

StageStart(c) ==
  /\ pc[c] = "idle"
  /\ Goto(c, "run")
  /\ UNCHANGED <<server, id, got>> /\ Keep

\* No job is left, or its type is unknown.
StageEnd(c) ==
  /\ pc[c] = "run"
  /\ End(c)
  /\ UNCHANGED server /\ Keep

First(j) ==
  CASE j.kind \in Scripted              -> "send filter"
    [] j.kind = "check"                 -> "exec filter"
    [] j.kind = "app" /\ j.to # {}      -> "app filter"
    [] j.kind = "app" /\ j.to = {}      -> "exec"
    [] j.kind = "reset"                 -> "reset 0"
    [] j.kind = "copy"                  -> "mount"

Take(c) ==
  /\ pc[c] = "run" /\ jobs < MaxJob
  /\ jobs' = jobs + 1
  /\ \E k \in Kinds, v \in VM, f \in AppFilter \cup {{}} :
       LET j == [kind |-> k, vm |-> v, to |-> f, script |-> jobs + 1]
       IN /\ k = "app" => phase[c] = "app"
          /\ k # "app" => f = {}
          /\ k \in {"app", "reset"} => v = NoJob.vm
          /\ job' = [job EXCEPT ![c] = j]
          /\ pc' = [pc EXCEPT ![c] = First(j)]
          /\ phase' = IF k \in {"app", "reset"} THEN phase
                      ELSE [phase EXCEPT ![c] = "vm"]
  /\ UNCHANGED <<server, agent, id, got, judged, mounted, killed>>

----------------------------------------------------------------------------
(* __send_cmd_as_file: the command is a script the VM is sent first *)

SendFilter(c) ==
  /\ pc[c] = "send filter"
  /\ SetFilter({job[c].vm})
  /\ Goto(c, "send") /\ UNCHANGED <<id, got>> /\ Keep

Send(c) ==
  /\ pc[c] = "send"
  /\ Issue(job[c], TRUE)
  /\ Goto(c, "send last") /\ UNCHANGED <<id, got>> /\ Keep

\* mm_last_command, after the send and after the exec.  An empty list raises
\* IndexError.
ReadLast(c, at, next) ==
  /\ pc[c] = at
  /\ IF cmds = {} THEN End(c)
     ELSE /\ \E k \in cmds : Newest(k) /\ id' = [id EXCEPT ![c] = k.id]
          /\ Goto(c, next) /\ got' = got
  /\ UNCHANGED server /\ Keep

SendLast(c) == ReadLast(c, "send last", "send wait")

\* Mutant of SendWait: the exec follows at once.
SendNoWait(c) ==
  /\ pc[c] = "send wait"
  /\ Goto(c, "send clear") /\ UNCHANGED <<server, id, got>> /\ Keep

\* mm_wait_for_cmd: some VM has answered the command.
SendWait(c) ==
  /\ pc[c] = "send wait"
  /\ Answered(id[c])
  /\ id' = [id EXCEPT ![c] = 0]
  /\ Goto(c, "send clear") /\ UNCHANGED <<server, got>> /\ Keep

SendClear(c) ==
  /\ pc[c] = "send clear"
  /\ SetFilter(VM)
  /\ Goto(c, "exec filter") /\ UNCHANGED <<id, got>> /\ Keep

----------------------------------------------------------------------------
(* mm_exec_wait, and the exec and background jobs that do not wait *)

\* Mutant of ExecFilter: the filter is not set again after the send.
ExecNoFilter(c) ==
  /\ pc[c] = "exec filter"
  /\ Goto(c, "exec") /\ UNCHANGED <<server, id, got>> /\ Keep

ExecFilter(c) ==
  /\ pc[c] = "exec filter"
  /\ SetFilter({job[c].vm})
  /\ Goto(c, "exec") /\ UNCHANGED <<id, got>> /\ Keep

Exec(c) ==
  /\ pc[c] = "exec"
  /\ Issue(job[c], FALSE)
  /\ Goto(c, CASE job[c].kind \in {"wait", "check"} -> "exec last"
               [] job[c].kind = "background"        -> "clear filter"
               [] OTHER                             -> "run")
  /\ UNCHANGED <<id, got>> /\ Keep

ExecLast(c) == ReadLast(c, "exec last", "exec wait")

ExecWait(c) ==
  /\ pc[c] = "exec wait"
  /\ Answered(id[c])
  /\ Goto(c, "exit code") /\ UNCHANGED <<server, id, got>> /\ Keep

HasExitCode(c) == \E r \in resp : r.id = id[c] /\ r.vm = job[c].vm

\* Mutant of ExitCode: the first response of the VM is taken.
ExitCodeAny(c) ==
  /\ pc[c] = "exit code"
  /\ \E r \in resp : r.vm = job[c].vm /\ got' = [got EXCEPT ![c] = r.answer]
  /\ id' = [id EXCEPT ![c] = 0]
  /\ Goto(c, "judge")
  /\ UNCHANGED server /\ Keep

\* The exit code of the command in the VM it was meant for.  If there is
\* none, the error of minimega ends the stage, or under a timeout the request
\* is repeated.
ExitCode(c) ==
  /\ pc[c] = "exit code"
  /\ job[c].kind = "check" => HasExitCode(c)
  /\ IF HasExitCode(c)
     THEN /\ \E r \in resp : /\ r.id = id[c] /\ r.vm = job[c].vm
                             /\ got' = [got EXCEPT ![c] = r.answer]
          /\ id' = [id EXCEPT ![c] = 0]
          /\ Goto(c, "judge")
     ELSE End(c)
  /\ UNCHANGED server /\ Keep

\* Under a timeout both polls may give up: the first one even in the round in
\* which it sees the answer, the second one only if there is no exit code.
TimedOut(c) ==
  /\ job[c].kind = "check"
  /\ pc[c] \in {"exec wait", "exit code"}
  /\ pc[c] = "exit code" => ~HasExitCode(c)
  /\ End(c)
  /\ UNCHANGED server /\ Keep

\* Mutant of Accept: only the exit code counts, under Windows too.
AcceptExitCode(c) ==
  /\ pc[c] = "judge"
  /\ got[c].exit = 0
  /\ pc' = [pc EXCEPT ![c] = "run"]
  /\ judged' = [judged EXCEPT ![c] = @ \cup {job[c]}]
  /\ got' = [got EXCEPT ![c] = NoAnswer]
  /\ UNCHANGED <<server, phase, job, id>> /\ Keep

\* The result is accepted, by the validator too if there is one.
Accept(c) ==
  /\ pc[c] = "judge"
  /\ Success(job[c], got[c])
  /\ pc' = [pc EXCEPT ![c] = "run"]
  /\ judged' = [judged EXCEPT ![c] = @ \cup {job[c]}]
  /\ got' = [got EXCEPT ![c] = NoAnswer]
  /\ UNCHANGED <<server, phase, job, id>> /\ Keep

\* sys.exit(1): the command or its validator failed.
Refuse(c) ==
  /\ pc[c] = "judge"
  /\ ~Success(job[c], got[c]) \/ job[c].kind = "wait"
  /\ End(c)
  /\ UNCHANGED server /\ Keep

ClearFilter(c) ==
  /\ pc[c] = "clear filter"
  /\ SetFilter(VM)
  /\ Goto(c, "run") /\ UNCHANGED <<id, got>> /\ Keep

\* A stage-level exec sets the filter only if the job names one.
SetAppFilter(c) ==
  /\ pc[c] = "app filter"
  /\ SetFilter(job[c].to)
  /\ Goto(c, "exec") /\ UNCHANGED <<id, got>> /\ Keep
----------------------------------------------------------------------------
(* send and recv jobs: mm_send and mm_recv copy over a mount *)

Mount(c) ==
  /\ pc[c] = "mount"
  /\ \/ mounted' = mounted \cup {job[c].vm} /\ Goto(c, "copy")
     \/ mounted' = mounted /\ Goto(c, "unmount failed")
  /\ UNCHANGED <<server, agent, id, got, jobs, killed>>

\* The file to send is missing on the host: nothing is mounted yet.
MissingFile(c) ==
  /\ pc[c] = "mount"
  /\ End(c)
  /\ UNCHANGED server /\ Keep

Copy(c) ==
  /\ pc[c] = "copy"
  /\ \E l \in {"unmount", "unmount failed"} : Goto(c, l)
  /\ UNCHANGED <<server, id, got>> /\ Keep

\* The finally block; afterwards the component gives up if the copy failed.
Unmount(c) ==
  /\ pc[c] = "unmount"
  /\ mounted' = mounted \ {job[c].vm}
  /\ Goto(c, "run")
  /\ UNCHANGED <<server, agent, id, got, jobs, killed>>

\* Mutant of UnmountFailed: no finally block.
ExitMounted(c) ==
  /\ pc[c] = "unmount failed"
  /\ mounted' = mounted
  /\ End(c)
  /\ UNCHANGED <<server, agent, jobs, killed>>

UnmountFailed(c) ==
  /\ pc[c] = "unmount failed"
  /\ mounted' = mounted \ {job[c].vm}
  /\ End(c)
  /\ UNCHANGED <<server, agent, jobs, killed>>

----------------------------------------------------------------------------
(* __reset_cc *)

ResetFilter(c) ==
  /\ pc[c] = "reset 0"
  /\ SetFilter(VM)
  /\ Goto(c, "reset 1") /\ UNCHANGED <<id, got>> /\ Keep

ResetCommands(c) ==
  /\ pc[c] \in {"reset 1", "reset 3"}
  /\ cmds' = {} /\ seen' = {}
  /\ Goto(c, IF pc[c] = "reset 1" THEN "reset 2" ELSE "reset 4")
  /\ UNCHANGED <<filter, lastId, resp, file, ran, id, got, mounted, jobs, killed>>

ResetResponses(c) ==
  /\ pc[c] \in {"reset 2", "reset 4"}
  /\ resp' = {}
  /\ Goto(c, IF pc[c] = "reset 2" THEN "reset 3" ELSE "run")
  /\ UNCHANGED <<filter, cmds, lastId, id, got>> /\ Keep

----------------------------------------------------------------------------
(* The surroundings *)

\* The experiment is stopped under a running stage.
Kill(c) ==
  /\ pc[c] # "idle"
  /\ killed' = IF pc[c] \in {"copy", "unmount", "unmount failed"}
               THEN killed \cup {job[c].vm} ELSE killed
  /\ End(c)
  /\ UNCHANGED <<server, agent, mounted, jobs>>

\* A VM executes a listed command that is addressed to it, and answers.  Only
\* the outcome of commands somebody waits for is told apart.
Run(v) ==
  \E k \in cmds, a \in Answer :
    /\ v \in k.to /\ <<k.id, v>> \notin seen
    /\ k.file \/ k.job.kind \notin {"wait", "check"} => a = NoAnswer
    /\ a.stderr => v \in Windows
    /\ seen' = seen \cup {<<k.id, v>>}
    /\ resp' = resp \cup {[id |-> k.id, vm |-> v, answer |-> a]}
    /\ IF k.file
       THEN file' = file \cup {<<k.job.script, v>>} /\ ran' = ran
       ELSE /\ file' = file
            /\ ran' = ran \cup {[job |-> k.job, vm |-> v, answer |-> a,
                                 had |-> <<k.job.script, v>> \in file]}
    /\ UNCHANGED <<filter, cmds, lastId, client, mounted, jobs, killed>>

Step(c) ==
  \/ StageEnd(c) \/ Take(c)
  \/ SendFilter(c) \/ Send(c) \/ SendLast(c) \/ SendWait(c) \/ SendClear(c)
  \/ ExecFilter(c) \/ Exec(c) \/ ExecLast(c) \/ ExecWait(c)
  \/ ExitCode(c) \/ TimedOut(c) \/ Accept(c) \/ Refuse(c)
  \/ ClearFilter(c) \/ SetAppFilter(c)
  \/ Mount(c) \/ MissingFile(c) \/ Copy(c) \/ Unmount(c) \/ UnmountFailed(c)
  \/ ResetFilter(c) \/ ResetCommands(c) \/ ResetResponses(c)

Next ==
  \/ \E c \in Client : Step(c) \/ StageStart(c) \/ Kill(c)
  \/ \E v \in VM : Run(v)

Spec == Init /\ [][Next]_vars

\* A process goes on while it can, and the agents of the VMs answer.
FairSpec ==
  /\ Spec
  /\ \A c \in Client : WF_vars(Step(c))
  /\ \A v \in VM : WF_vars(Run(v))

----------------------------------------------------------------------------
(* Properties *)

Command == [id : Nat, to : SUBSET VM, file : BOOLEAN, job : Job]
Response == [id : Nat, vm : VM, answer : Answer]

\* The variables have their types; command ids are unique and none is newer
\* than the counter.
TypeOK ==
  /\ filter \in SUBSET VM
  /\ cmds \subseteq Command /\ lastId \in Nat
  /\ \A k \in cmds : k.id <= lastId
  /\ \A k, d \in cmds : k.id = d.id => k = d
  /\ seen \subseteq Nat \X VM
  /\ resp \subseteq Response
  /\ file \subseteq (0..MaxJob) \X VM
  /\ mounted \subseteq VM /\ killed \subseteq VM
  /\ jobs \in 0..MaxJob
  /\ pc \in [Client -> Labels]
  /\ phase \in [Client -> {"app", "vm"}]
  /\ job \in [Client -> Job]
  /\ id \in [Client -> Nat]
  /\ got \in [Client -> Answer]
  /\ judged \in [Client -> SUBSET Job]
  /\ ran \subseteq [job : Job, vm : VM, answer : Answer, had : BOOLEAN]

\* A command of one VM runs in that VM only ("Commands to run for specific
\* VMs"), although the filter that selects the VM was set by a request of its
\* own and outlives the job (__run, mm_exec_wait).  This and the next
\* three hold as long as Client has one element.
RunsWhereAsked ==
  \A r \in ran : r.job.kind # "app" => r.vm = r.job.vm

\* A VM never runs the script of a job before the file has arrived, in
\* whatever order it executes its commands (__send_cmd_as_file waits).
ScriptFirst ==
  \A r \in ran : r.job.kind \in Scripted => r.had

\* What mm_exec_wait returns is what its own command did in its own VM, not
\* the answer to another command of the shared list.
OwnResult ==
  \A c \in Client : pc[c] = "judge" =>
    \E r \in ran : r.job = job[c] /\ r.vm = job[c].vm /\ r.answer = got[c]

\* A stage goes on after a waited command only if that command succeeded in
\* every VM that ran it: after a failure nothing more is executed.
FailStopsStage ==
  \A c \in Client : \A j \in judged[c] :
    \A r \in ran : r.job = j => Success(j, r.answer)

\* A VM stays mounted only under a copy in progress or after its process was
\* killed in the middle of one: every error path unmounts (finally).
Unmounted ==
  mounted \subseteq killed \cup
    {job[c].vm : c \in {d \in Client : pc[d] \in {"copy", "unmount", "unmount failed"}}}

\* No stage waits for ever if the agents of the VMs answer.
StageEnds ==
  \A c \in Client : pc[c] # "idle" ~> pc[c] = "idle"

\* "we only expect a single response since scoped by VM": the command whose
\* exit code mm_exec_wait asks for was addressed to that VM alone.
ScopedByVM ==
  \A c \in Client : pc[c] = "exit code" =>
    \A k \in cmds : k.id = id[c] => k.to = {job[c].vm}

=============================================================================
