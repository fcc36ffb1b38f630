---------------------------- MODULE ScorchCapture ----------------------------
(***************************************************************************)
(* The stages of the scorch components that measure, as sequences of       *)
(* requests: tcpdump, vmstats, iperf, qos, pipe, pcap, mm and collector.   *)
(* Conventions as in ScorchPrograms.                                       *)
(***************************************************************************)
EXTENDS ScorchRequest
----------------------------------------------------------------------------
(* tcpdump: c.vms                                                          *)

TcpdumpStart(c) ==
  For(c.vms, LAMBDA v :
        ExecWait(v, Run, 0) \o Attempt("exit")
          \o Filter({v}) \o Exec("up", {"tap"}, {})
          \o Exec("start", {"tcpdump"}, {"dump.pcap"}))

\* The filter stays on the last VM.
TcpdumpStop(c) ==
  For(c.vms, LAMBDA v :
        ExecWait(v, Exec("kill", {"tcpdump"}, {}), 0)
          \o Recv(v, "dump.pcap", "raise") \o Exec("remove", {}, {"dump.pcap"}))
----------------------------------------------------------------------------
(* vmstats: c.vms (Linux), opts: "listed" if the configuration names them  *)

\* __vm_list returns the letters of the last name instead of the names.
VmstatsStart(c) ==
  IF "listed" \in c.opts THEN Stop("raise")
  ELSE For(c.vms, LAMBDA v : Tag("vmstat", {v}))
         \o Tagged("vmstat", Linux) \o Exec("append", {"vmstat"}, {"vmstat.out"})
         \o ClearFilter

VmstatsStop(c) ==
  Tagged("vmstat", Linux) \o Exec("kill", {"vmstat"}, {}) \o ClearFilter
    \o Sleep(50)
    \o IF "listed" \in c.opts THEN Stop("raise")
       ELSE For(c.vms, LAMBDA v : Recv(v, "vmstat.out", "exit"))
              \o Tagged("vmstat", Linux) \o Exec("remove", {}, {"vmstat.out"})
              \o ClearFilter
              \o Attempt("raise") \o Write("vm_stats.jsonl")
----------------------------------------------------------------------------
(* iperf: c.pairs of [server, client], c.servers, first of the VMs, opts:  *)
(* "rperf", "verify", "netstat", "histogram"                               *)

IperfVMs(c) ==
  {c.pairs[i].server : i \in DOMAIN c.pairs}
    \cup {c.pairs[i].client : i \in DOMAIN c.pairs}
Rperf(c) == "rperf" \in c.opts
IperfName(c, v) ==
  IF Rperf(c) THEN IF v \in Windows THEN "rperf.exe" ELSE "rperf"
              ELSE IF v \in Windows THEN "iperf3.exe" ELSE "iperf3"

IperfFiles == {"client-data", "client-log", "server-log"}
\* One request for the tagged Linux VMs, one for the Windows ones.
PerOS(c, P(_)) ==
  LET linux == IperfVMs(c) \ Windows   windows == IperfVMs(c) \cap Windows
  IN  When(linux # {}, P(linux)) \o When(windows # {}, P(windows))

KillAllIperf(c) ==
  PerOS(c, LAMBDA S : Tagged("iperf", S)
                        \o Exec("kill", {IperfName(c, v) : v \in S}, {}))
    \o ClearFilter \o Sleep(20)
DeleteAllIperf(c) ==
  PerOS(c, LAMBDA S : Tagged("iperf", S) \o Exec("remove", {}, IperfFiles))
    \o ClearFilter \o Sleep(20)

RunMulti(S) == Tagged("iperf", S) \o Run \o AwaitPrefix(S)

IperfConfigure(c, first) ==
  Attempt("exit") \o Write("iperf_mapping.json")
    \o For(c.pairs, LAMBDA p : Tag("iperf", {p.server, p.client}))
    \o When("verify" \in c.opts /\ first,
            PerOS(c, LAMBDA S : RunMulti(S) \o Attempt("exit")))
    \o KillAllIperf(c) \o DeleteAllIperf(c)
    \o ForgetCommands

\* What the server measures goes to its output, which only Linux keeps.
IperfStart(c) ==
  (IF Rperf(c)
   THEN For(c.servers, LAMBDA v :
              Filter({v}) \o Exec("start", {IperfName(c, v)}, {}))
   ELSE For(c.pairs, LAMBDA p :
              Filter({p.server})
                \o Spawn({IperfName(c, p.server)},
                         IF p.server \in Windows THEN {} ELSE {"server-log"})))
    \o ClearFilter \o Sleep(50)
    \o For(c.pairs, LAMBDA p :
             Filter({p.client})
               \o Job("append", {IperfName(c, p.client)},
                      IF Rperf(c) THEN {} ELSE {"client-data", "client-log"}))

NetstatInfo(c) ==
  Try(RunMulti(IperfVMs(c) \ Windows) \o RunMulti(IperfVMs(c) \ Windows)
        \o RunMulti(IperfVMs(c) \cap Windows)
        \o Write("netstat_outputs.txt"))

\* The data of the server never exists.
RecvPair(p) ==
  Recv(p.client, "client-data", "raise") \o Recv(p.server, "server-data", "raise")
    \o Recv(p.client, "client-log", "raise")
    \o When(p.server \notin Windows, Recv(p.server, "server-log", "raise"))

IperfStop(c) ==
  When(~Rperf(c),
       Sleep(50) \o Ps(c.first) \o If(c.first, IperfName(c, c.first), Sleep(50)))
    \o When("netstat" \in c.opts, NetstatInfo(c))
    \o KillAllIperf(c)
    \o When(~Rperf(c),
            Sleep(50) \o For(c.pairs, RecvPair) \o Attempt("exit")
              \o When("histogram" \in c.opts, Attempt("raise")))

IperfCleanup(c) ==
  When(~Rperf(c), DeleteAllIperf(c)) \o Untag("iperf", IperfVMs(c))
----------------------------------------------------------------------------
(* qos: c.limits of [vm, loss, factor, others], loss in tenths of a        *)
(* percent, factor 0 for a loss that does not vary                         *)

Loss(x, count) == IF x.factor = 0 THEN x.loss ELSE x.factor * count

\* VMs before the one with a bad loss keep their limits.
QosStart(c, count) ==
  For(c.limits, LAMBDA x :
        When(x.loss > 0,
             IF Loss(x, count) > 999 THEN Stop("exit")
             ELSE On("qos", {x.vm}, "raise"))
          \o When(x.others, On("qos", {x.vm}, "raise")))
    \o Write("qos_values_applied.json")

QosStop(c) == For(c.limits, LAMBDA x : Off({"qos"}, {x.vm}, "raise"))
----------------------------------------------------------------------------
(* pipe: opts: "named", "via", "mode", "badmode", "log", "data"            *)

\* sys is not imported: what should exit raises.
PipeStart(c) ==
  IF "named" \notin c.opts THEN Stop("raise")
  ELSE When("via" \in c.opts, On("pipe", {Host}, "raise"))
         \o When("badmode" \in c.opts, Stop("raise"))
         \o When("mode" \in c.opts, On("pipe", {Host}, "raise"))
         \o When("log" \in c.opts, On("pipe", {Host}, "raise"))
         \o When("data" \in c.opts, On("pipe", {Host}, "raise"))

PipeCleanup(c) ==
  IF "named" \notin c.opts THEN Stop("raise") ELSE Off({"pipe"}, {Host}, "raise")
----------------------------------------------------------------------------
(* pcap: c.vms, targets of a dos disruption, opts: "filter", "merge",      *)
(* "dedupe", "convert"                                                     *)

AllCaptures == Off({"capture", "bridge capture"}, VM \cup {Host}, "raise")

PcapStart(c) ==
  AllCaptures
    \o When("filter" \in c.opts, Attempt("raise"))
    \o For(c.vms, LAMBDA v : On("capture", {v}, "raise") \o Write("capture"))

Merge == Query
Dedupe == Query
\* Files of the targets are split, so that the flood is merged untouched.
MergeFlood(c) ==
  Merge \o Dedupe
    \o For(c.targets, LAMBDA v : Attempt("raise") \o Attempt("raise"))
    \o Merge \o Dedupe \o Merge

PcapStop(c) ==
  For(c.vms, LAMBDA v : Off({"capture"}, {v}, "raise"))
    \o AllCaptures
    \o For(c.vms, LAMBDA v : Gather("pcap", "capture", "exit") \o Attempt("exit"))
    \o When("merge" \in c.opts,
            Merge
              \o When("dedupe" \in c.opts,
                      IF c.targets = <<>> THEN Dedupe ELSE MergeFlood(c))
              \o Attempt("raise") \o Write("merged.pcap"))
    \o Write("pcap_metadata.json")
    \o When("convert" \in c.opts, Attempt("raise"))
----------------------------------------------------------------------------
(* mm: c.commands[stage] of [type, vm], vm Host for a bridge               *)

\* A capture is stopped with all others of its VM, and its file is fetched;
\* with conversion, once nothing is being transferred.
StopCapture(c, what, v) ==
  Off({what}, {v}, "exit") \o Attempt("exit")
    \o When("convert" \in c.opts, Until(Sleep(20)))

StartCapture(what, v) == On(what, {v}, "exit") \o Write("capture")

MmCommand(c, x) ==
  LET what == IF x.vm = Host THEN "bridge capture" ELSE "capture"
  IN  CASE x.type = "start_capture" -> StartCapture(what, x.vm)
        [] x.type = "stop_capture" -> StopCapture(c, what, x.vm)
        [] x.type = "start" -> Off({"halted"}, {x.vm}, "exit")
        [] x.type = "stop" -> On("halted", {x.vm}, "exit")
        [] x.type = "connect" -> Off({"unplugged"}, {x.vm}, "exit")
        [] x.type = "disconnect" -> On("unplugged", {x.vm}, "exit")
        [] OTHER -> <<>>

MmStage(c, g) == For(c.commands[g], LAMBDA x : MmCommand(c, x))
----------------------------------------------------------------------------
(* collector: c.on, the kinds of components the run enables, run (the      *)
(* duration), mode, logs (VMs), opts: "miniccc", "iperf", "pmus", "csv"    *)

CollectProvider(c) ==
  LET kind == IF "providerdata" \in c.on THEN "providerdata" ELSE "rtds"
  IN  When(kind \in c.on,
           Gather(kind, "config.ini", "raise") \o Attempt("exit") \o Attempt("raise")
             \o When("pmus" \in c.opts, Stop("raise")))

CollectPcap(c) ==
  When("pcap" \in c.on,
       Gather("pcap", "pcap_metadata.json", "raise")
         \o Gather("pcap", "merged.pcap", "raise") \o Attempt("exit"))

CheckTimes(c) ==
  Gather("disruption", "start-time", "raise")
    \o Gather("disruption", "stop-time", "raise")
    \o Timed(c.run)

\* What was disrupted, and its results.
CollectDisruption(c) ==
  IF "disruption" \notin c.on THEN Stop("exit")
  ELSE CheckTimes(c)
         \o When(c.mode \in {"dos", "cyber_physical"},
                 Gather("disruption", "dos-results", "raise"))
         \o When(c.mode \in {"physical", "cyber_physical"},
                 Gather("disruption", "phys-results", "raise"))

CollectorStop(c) ==
  Attempt("raise") \o Attempt("raise")
    \o When("vmstats" \in c.on, Gather("vmstats", "vm_stats.jsonl", "raise"))
    \o When("hoststats" \in c.on, Gather("hoststats", "host_stats.jsonl", "raise"))
    \o When("miniccc" \in c.opts, For(c.logs, LAMBDA v : Attempt("exit")))
    \o When("iperf" \in c.opts /\ "iperf" \in c.on, Attempt("raise"))
    \o CollectDisruption(c)
    \o When("qos" \in c.on, Gather("qos", "qos_values_applied.json", "raise"))
    \o CollectProvider(c) \o CollectPcap(c)
    \o Write("experiment_record.json")
    \o When("csv" \in c.opts,
            IF "rtds" \in c.on THEN Query ELSE Stop("exit"))
=============================================================================
