--------------------------- MODULE ScorchRequest ---------------------------
(***************************************************************************)
(* What a stage of a scorch component asks for, as a sequence of requests. *)
(*                                                                         *)
(* The stages of the components are straight-line code over a few calls:   *)
(* the miniccc helpers of common/utils.py, the methods of ComponentBase    *)
(* (scorch/app.py), minimega's API, programs run on the host, and files of *)
(* the component's directory.  A stage is written as the sequence of its   *)
(* requests, with loops over VMs unrolled; ScorchRun gives each kind of    *)
(* request its meaning, one step at a time.                                *)
(*                                                                         *)
(* A request that cannot be met raises an exception, which execute_stage   *)
(* turns into a line of the info file, or exits with status 1, or is       *)
(* ignored (the field fail); a try block catches what is raised (caught).  *)
(***************************************************************************)
EXTENDS Integers, SequencesExt

CONSTANTS
  VM,       \* VMs of the experiment
  Windows   \* those that run Windows

ASSUME RequestAssumption == Windows \subseteq VM /\ "host" \notin VM

Linux == VM \ Windows

\* For everything outside the VMs: bridges, pipes, simulators.
Host == "host"

Ops == {"filter", "tag", "untag", "exec", "await", "prefix", "forget", "sleep",
        "rest", "recv", "running", "if", "unless", "mishap", "again", "on",
        "off", "write", "gather", "try", "stop", "stamp", "timed"}
Acts == {"", "run", "start", "append", "kill", "remove", "down", "up"}
Fail == {"raise", "exit", "ignore"}

Request == [op : Ops, vms : SUBSET (VM \cup {Host}), act : Acts,
            names : SUBSET STRING, files : SUBSET STRING, n : Nat, time : Nat,
            ends : BOOLEAN, fail : Fail, caught : BOOLEAN, skip : Nat]

Rq == [op |-> "try", vms |-> {}, act |-> "", names |-> {}, files |-> {},
       n |-> 0, time |-> 0, ends |-> FALSE, fail |-> "raise",
       caught |-> FALSE, skip |-> 0]
----------------------------------------------------------------------------
(* Commands in VMs *)

Filter(S) == <<[Rq EXCEPT !.op = "filter", !.vms = S]>>
\* A filter on a tag: selects those of S that have it.
Tagged(t, S) == <<[Rq EXCEPT !.op = "filter", !.vms = S, !.names = {t}]>>
ClearFilter == Filter(VM)
Tag(t, S) == <<[Rq EXCEPT !.op = "tag", !.vms = S, !.names = {t}]>>
Untag(t, S) == <<[Rq EXCEPT !.op = "untag", !.vms = S, !.names = {t}]>>

\* cc_exec, cc_exec_once, cc_background: for the VMs the filter selects.  A
\* started process writes its files from the start; one that ends by itself
\* is told apart.
Exec(act, names, files) ==
  <<[Rq EXCEPT !.op = "exec", !.act = act, !.names = names, !.files = files]>>
Job(act, names, files) ==
  <<[Rq EXCEPT !.op = "exec", !.act = act, !.names = names, !.files = files,
               !.ends = TRUE]>>
Spawn(names, files) == Job("start", names, files)
Run == Exec("run", {}, {})

\* Waits for the answer of S to the last command, which takes d in the VM.
Await(S, timeout, d, fail) ==
  <<[Rq EXCEPT !.op = "await", !.vms = S, !.n = timeout, !.time = d,
               !.fail = fail]>>

\* utils.mm_exec_wait: the exit code is returned, not looked at.
ExecWait(v, cmd, timeout) ==
  Filter({v}) \o cmd \o Await({v}, timeout, 0, "ignore")

\* run_and_check_command, of a command that takes d.
RunFor(v, cmd, timeout, d) == Filter({v}) \o cmd \o Await({v}, timeout, d, "exit")
RunAndCheck(v, cmd, timeout) == RunFor(v, cmd, timeout, 0)

\* mm_wait_for_prefix: exactly the VMs of S have answered.
AwaitPrefix(S) ==
  <<[Rq EXCEPT !.op = "prefix", !.vms = S, !.n = 100, !.fail = "exit"]>>
\* clear_cc_commands and clear_cc_responses.
ForgetCommands == <<[Rq EXCEPT !.op = "forget"]>>

\* utils.mm_kill_process.
KillProcess(S, p) == Filter(S) \o Exec("kill", {p}, {})

\* utils.mm_delete_file: rm on a Windows VM (and del on a Linux one) is a
\* command that fails and that nobody waits for.
DeleteFile(v, f, os) ==
  Filter({v}) \o IF (v \in Windows) = (os = "windows") THEN Exec("remove", {}, {f})
                                                      ELSE Run
----------------------------------------------------------------------------
(* Control *)

For(s, P(_)) == FlattenSeq([i \in DOMAIN s |-> P(s[i])])
When(b, p) == IF b THEN p ELSE <<>>
Stop(fail) == <<[Rq EXCEPT !.op = "stop", !.fail = fail]>>
\* The rest p of a block that is entered when the VM runs the process, or
\* does not, or when something that need not happen has happened.
If(v, name, p) ==
  <<[Rq EXCEPT !.op = "if", !.vms = {v}, !.names = {name}, !.skip = Len(p)]>> \o p
Unless(v, name, p) ==
  <<[Rq EXCEPT !.op = "unless", !.vms = {v}, !.names = {name},
               !.skip = Len(p)]>> \o p
Mishap(p) == <<[Rq EXCEPT !.op = "mishap", !.skip = Len(p)]>> \o p
\* A block that is repeated until something outside is over.
Until(p) == p \o <<[Rq EXCEPT !.op = "again", !.skip = Len(p)]>>
\* try: p except Exception: pass.  An exit inside it is not caught.
Try(p) ==
  [i \in DOMAIN p |-> [p[i] EXCEPT !.caught = TRUE, !.skip = Len(p) - i]]

\* check_process_running, followed by what depends on its result.
Ps(v) == RunAndCheck(v, Run, 150)

\* ensure_vm_running: minimega says the VM runs.
EnsureRunning(v) == <<[Rq EXCEPT !.op = "running", !.vms = {v}, !.fail = "exit"]>>
----------------------------------------------------------------------------
(* Time, files, minimega and the host *)

Sleep(d) == <<[Rq EXCEPT !.op = "sleep", !.n = d]>>
\* Sleeps until d after the start of a disruption, if that is more than a tick
\* away.
Rest(d) == <<[Rq EXCEPT !.op = "rest", !.n = d]>>
\* Notes the time, or that of an attack that ends d from now after a delay of
\* n; checks a noted time.
Stamp(what, n, d) ==
  <<[Rq EXCEPT !.op = "stamp", !.names = {what}, !.n = n, !.time = d]>>
Timed(d) == <<[Rq EXCEPT !.op = "timed", !.n = d]>>

\* utils.mm_recv; recv_file copies one or several and exits on an error.
Recv(v, f, fail) ==
  <<[Rq EXCEPT !.op = "recv", !.vms = {v}, !.files = {f}, !.fail = fail]>>
RecvFile(v, fs) == For(fs, LAMBDA f : Recv(v, f, "exit"))

\* utils.mm_send and everything else done on the host, or outside, that may
\* fail: a file that is not there, a program, a check of what one has said.
Attempt(fail) == <<[Rq EXCEPT !.fail = fail]>>
Send == Attempt("raise")
Query == Attempt("raise") \o Attempt("exit")

\* minimega's captures, limits, pipes and VMs, and the simulator.
On(what, S, fail) ==
  <<[Rq EXCEPT !.op = "on", !.vms = S, !.names = {what}, !.fail = fail]>>
Off(whats, S, fail) ==
  <<[Rq EXCEPT !.op = "off", !.vms = S, !.names = whats, !.fail = fail]>>

\* Files of the component's directory; those of another component.
Write(f) == <<[Rq EXCEPT !.op = "write", !.files = {f}]>>
Gather(kind, f, fail) ==
  <<[Rq EXCEPT !.op = "gather", !.names = {kind}, !.files = {f}, !.fail = fail]>>
=============================================================================
