----------------------------- MODULE HostStats -----------------------------
(***************************************************************************)
(* The scorch hoststats component (scorch/hoststats/hoststats.py).         *)
(*                                                                         *)
(* The start stage runs in the background until it is sent SIGTERM.  Its   *)
(* main thread starts a sampler thread, waits for the signal, joins the    *)
(* sampler and writes what is left; the sampler polls minimega, appends    *)
(* what it gets to a buffer they share and writes the buffer to a file     *)
(* every PerFlush polls.  Python runs signal handlers in the main thread,  *)
(* and the handler that scorch/app.py installs does nothing: only a signal *)
(* that arrives while signal.pause() waits makes a difference.             *)
(*                                                                         *)
(* The records of one poll are one number.  Polls that return no data and  *)
(* polls beyond MaxSample append nothing.                                  *)
(***************************************************************************)
EXTENDS Naturals, Sequences

CONSTANTS
  PerFlush,   \* int(flush_period / poll_period)
  MaxSample   \* bound: polls that return data

ASSUME HostStatsAssumption ==
  /\ PerFlush \in Nat \ {0}
  /\ MaxSample \in Nat

VARIABLES
  main,       \* where the main thread is
  sampler,    \* where the sampler thread is
  monitor,    \* self.monitor
  resdata,    \* self.resdata, the buffer
  out,        \* host_stats.jsonl
  count,      \* polls of the sampler, modulo PerFlush
  sampled,    \* polls that returned data
  signalled,  \* SIGTERM has been sent
  missed,     \* history: it arrived before signal.pause()
  failed      \* history: a write has failed

vars == <<main, sampler, monitor, resdata, out, count, sampled, signalled,
          missed, failed>>
flags == <<signalled, missed, failed>>

MainLabels == {"init", "start", "started", "pause", "woken", "join", "flush",
               "clear", "stopped", "killed"}
SamplerLabels == {"new", "loop", "poll", "check", "flush", "clear", "sleep",
                  "gone"}

Init ==
  /\ main = "init" /\ sampler = "new" /\ monitor = FALSE
  /\ resdata = <<>> /\ out = <<>> /\ count = 0 /\ sampled = 0
  /\ signalled = FALSE /\ missed = FALSE /\ failed = FALSE

----------------------------------------------------------------------------
(* __flush_buffer, called by both threads *)

\* The file is opened, the records are written and the file is closed: any
\* prefix may have reached it when one of these raises an exception.
Write ==
  /\ out' = out \o resdata
  /\ failed' = failed
WriteFails ==
  /\ \E n \in 0..Len(resdata) : out' = out \o SubSeq(resdata, 1, n)
  /\ failed' = TRUE

----------------------------------------------------------------------------
(* start(): the main thread *)

\* The handler is in place from here on (ComponentBase.__init__).
Construct ==
  /\ main = "init" /\ main' = "start"
  /\ UNCHANGED <<sampler, monitor, resdata, out, count, sampled, flags>>

StartSampler ==
  /\ main = "start" /\ main' = "started"
  /\ monitor' = TRUE /\ sampler' = "loop"
  /\ UNCHANGED <<resdata, out, count, sampled, flags>>

Pause ==
  /\ main = "started" /\ main' = "pause"
  /\ UNCHANGED <<sampler, monitor, resdata, out, count, sampled, flags>>

\* Mutant of StopMonitor: the sampler is not told.
StopMonitorUntold ==
  /\ main = "woken" /\ main' = "join"
  /\ UNCHANGED <<sampler, monitor, resdata, out, count, sampled, flags>>

\* signal.pause() has returned.
StopMonitor ==
  /\ main = "woken" /\ main' = "join"
  /\ monitor' = FALSE
  /\ UNCHANGED <<sampler, resdata, out, count, sampled, flags>>

\* Mutants of Join: it does not wait; nothing is flushed after it.
JoinNoWait ==
  /\ main = "join"
  /\ main' = IF resdata = <<>> THEN "stopped" ELSE "flush"
  /\ UNCHANGED <<sampler, monitor, resdata, out, count, sampled, flags>>
JoinNoFlush ==
  /\ main = "join" /\ sampler = "gone"
  /\ main' = "stopped"
  /\ UNCHANGED <<sampler, monitor, resdata, out, count, sampled, flags>>

Join ==
  /\ main = "join" /\ sampler = "gone"
  /\ main' = IF resdata = <<>> THEN "stopped" ELSE "flush"
  /\ UNCHANGED <<sampler, monitor, resdata, out, count, sampled, flags>>

\* An exception ends the stage (execute_stage).
MainFlush ==
  /\ main = "flush"
  /\ \/ Write /\ main' = "clear"
     \/ WriteFails /\ main' = "stopped"
  /\ UNCHANGED <<sampler, monitor, resdata, count, sampled, signalled, missed>>

MainClear ==
  /\ main = "clear" /\ main' = "stopped"
  /\ resdata' = <<>>
  /\ UNCHANGED <<sampler, monitor, out, count, sampled, flags>>

Main == \/ Construct \/ StartSampler \/ Pause \/ StopMonitor \/ Join
        \/ MainFlush \/ MainClear

----------------------------------------------------------------------------
(* __run_monitor(): the sampler thread *)

Loop ==
  /\ sampler = "loop"
  /\ sampler' = IF monitor THEN "poll" ELSE "gone"
  /\ UNCHANGED <<main, monitor, resdata, out, count, sampled, flags>>

PollData ==
  /\ sampler = "poll" /\ sampled < MaxSample
  /\ sampler' = "check"
  /\ sampled' = sampled + 1
  /\ resdata' = Append(resdata, sampled + 1)
  /\ UNCHANGED <<main, monitor, out, count, flags>>

\* minimega returns nothing to report on (TypeError is caught).
PollNothing ==
  /\ sampler = "poll"
  /\ sampler' = "check"
  /\ UNCHANGED <<main, monitor, resdata, out, count, sampled, flags>>

\* minimega raises an error: nothing catches it and the thread ends.
PollError ==
  /\ sampler = "poll"
  /\ sampler' = "gone"
  /\ UNCHANGED <<main, monitor, resdata, out, count, sampled, flags>>

Check ==
  /\ sampler = "check"
  /\ sampler' = IF count = 0 /\ resdata # <<>> THEN "flush" ELSE "sleep"
  /\ UNCHANGED <<main, monitor, resdata, out, count, sampled, flags>>

\* Mutant of Flush: the buffer is cleared although the write failed.
FlushClears ==
  /\ sampler = "flush"
  /\ \/ Write /\ sampler' = "clear" /\ resdata' = resdata
     \/ WriteFails /\ sampler' = "gone" /\ resdata' = <<>>
  /\ UNCHANGED <<main, monitor, count, sampled, signalled, missed>>

Flush ==
  /\ sampler = "flush"
  /\ \/ Write /\ sampler' = "clear"
     \/ WriteFails /\ sampler' = "gone"
  /\ UNCHANGED <<main, monitor, resdata, count, sampled, signalled, missed>>

Clear ==
  /\ sampler = "clear" /\ sampler' = "sleep"
  /\ resdata' = <<>>
  /\ UNCHANGED <<main, monitor, out, count, sampled, flags>>

Sleep ==
  /\ sampler = "sleep" /\ sampler' = "loop"
  /\ count' = IF count + 1 = PerFlush THEN 0 ELSE count + 1
  /\ UNCHANGED <<main, monitor, resdata, out, sampled, flags>>

Sampler == \/ Loop \/ PollData \/ PollNothing \/ PollError \/ Check \/ Flush
           \/ Clear \/ Sleep

----------------------------------------------------------------------------
(* phenix *)

\* SIGTERM: it ends the process before the handler is in place, wakes
\* signal.pause(), and is swallowed by the handler anywhere else.
Terminate ==
  /\ ~signalled /\ main \notin {"stopped", "killed"}
  /\ signalled' = TRUE
  /\ main' = CASE main = "init"  -> "killed"
               [] main = "pause" -> "woken"
               [] OTHER          -> main
  /\ missed' = (main \in {"start", "started"})
  /\ UNCHANGED <<sampler, monitor, resdata, out, count, sampled, failed>>

\* SIGKILL, or the host goes down: the buffer is lost.
Kill ==
  /\ main \notin {"stopped", "killed"}
  /\ main' = "killed" /\ sampler' = "gone" /\ resdata' = <<>>
  /\ UNCHANGED <<monitor, out, count, sampled, flags>>

Next == Main \/ Sampler \/ Terminate \/ Kill

Spec == Init /\ [][Next]_vars

\* Both threads run, and minimega answers each request.
FairSpec == Spec /\ WF_vars(Main) /\ WF_vars(Sampler)

----------------------------------------------------------------------------
(* Properties *)

Samples == [i \in 1..sampled |-> i]
Writing == main = "clear" \/ sampler = "clear"
Unwritten == IF Writing THEN <<>> ELSE resdata

TypeOK ==
  /\ main \in MainLabels /\ sampler \in SamplerLabels
  /\ monitor \in BOOLEAN
  /\ resdata \in Seq(1..MaxSample) /\ out \in Seq(1..MaxSample)
  /\ count \in 0..(PerFlush - 1) /\ sampled \in 0..MaxSample
  /\ signalled \in BOOLEAN /\ missed \in BOOLEAN /\ failed \in BOOLEAN

\* Until a write fails, the file and what is still to be written are the
\* samples in the order they were taken: none lost, none twice
\* (__flush_buffer and extend share the buffer without a lock).  After a kill
\* the file is a prefix of the samples.
ExactlyOnce == ~failed =>
  /\ main # "killed" => out \o Unwritten = Samples
  /\ Len(out) <= sampled /\ \A k \in DOMAIN out : out[k] = k

\* A failed write loses nothing either: a sample is in the file or still in
\* the buffer, from which the main thread tries to write it again.
NoneLost == main # "killed" =>
  \A i \in 1..sampled :
    \/ \E k \in DOMAIN out : out[k] = i
    \/ \E k \in DOMAIN resdata : resdata[k] = i

\* When the component has stopped, every sample is in the file.
StoppedComplete ==
  main = "stopped" /\ ~failed => out = Samples

\* The buffer never holds more than the polls of one flush period.
BufferBounded == Len(resdata) <= PerFlush

\* The component implements the log of SampleLog: a delivery is the write of
\* the buffer, which is replaced one step later, and the log is closed when
\* the main thread has joined the sampler and nothing is left to write.
Phase ==
  IF main = "killed" THEN "crashed" ELSE IF main = "stopped" THEN "closed" ELSE "open"
Log == INSTANCE SampleLog WITH
  taken   <- sampled,
  log     <- out,
  pending <- Unwritten,
  torn    <- failed,
  phase   <- Phase
ImplementsSampleLog == Log!Spec

\* SIGTERM stops the component unless it arrives before signal.pause().
Stops == signalled /\ ~missed ~> main \in {"stopped", "killed"}
=============================================================================
