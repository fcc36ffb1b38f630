--------------------------- MODULE ScorchPrograms ---------------------------
(***************************************************************************)
(* The stages of the scorch components that run attacks, simulators and    *)
(* tools in VMs, as sequences of requests: disruption, opcexport, rtds,    *)
(* providerdata, caldera, art, snort, ettercap and trafficgen.             *)
(*                                                                         *)
(* An operator takes the configuration c of one component, a record, and   *)
(* gives what one stage asks for.  Errors in the configuration that every  *)
(* run meets, and the text of commands, are left out; programs on the host *)
(* and answers from outside may fail (Attempt).  Times are in tenths of a  *)
(* second.  Files that were in a VM before the experiment (scripts,        *)
(* scenarios, configurations) are fetched by Attempt("exit").              *)
(***************************************************************************)
EXTENDS ScorchRequest
----------------------------------------------------------------------------
(* disruption: c.mode, attacker, opc, targets, t = [run, delay, attack,    *)
(* pdelay, phys], opts: "spare" if the attacker has interfaces to disable  *)

Attacks(c) == c.mode \in {"dos", "cyber_physical"}
Disturbs(c) == c.mode \in {"physical", "cyber_physical"}

\* How long the attack is told to run, after its start delay.
AttackLength(t) ==
  LET left == t.run - 600 - t.delay - 10
  IN  IF t.attack + t.delay + 50 <= t.run - 600 THEN t.attack
      ELSE IF left < 0 THEN -left ELSE left

KillDos(c) == KillProcess({c.attacker}, "dos.py") \o KillProcess({c.attacker}, "hping3")
KillScenario(c) == KillProcess({c.opc}, "python.exe")

\* The script waits for the delay, attacks, and writes its results.
DosScript(c, act) ==
  Stamp("attack", c.t.delay, c.t.delay + AttackLength(c.t))
    \o Job(act, {"dos.py", "hping3"}, {"dos-results"})

\* The wait is as long as the attack alone.
RunDos(c) ==
  RunFor(c.attacker, DosScript(c, "run"), AttackLength(c.t),
         c.t.delay + AttackLength(c.t))
    \o Attempt("exit")

\* _run_physical_disruption
RunScenario(c) ==
  RunFor(c.opc, Job("run", {"python.exe"}, {"phys-results", "phys-log"}),
         IF c.t.pdelay + 150 > c.t.run THEN c.t.run - 10 ELSE c.t.pdelay + 150,
         c.t.phys)
    \o Attempt("exit")

DisruptionConfigure(c, first) ==
  When(Attacks(c),
       For(<<c.attacker>> \o c.targets, EnsureRunning)
         \o KillDos(c)
         \o When(first, RunAndCheck(c.attacker, Run, 50)
                          \o RunAndCheck(c.attacker, Run, 50))
         \o When("spare" \in c.opts,
                 ExecWait(c.attacker, Exec("down", {"spare"}, {}), 100)))

Disrupt(c) ==
  CASE c.mode = "baseline" -> Sleep(c.t.run)
    [] c.mode = "dos" -> RunDos(c) \o Rest(c.t.run)
    [] c.mode = "physical" ->
         Sleep(c.t.pdelay) \o RunScenario(c) \o Rest(c.t.run)
    [] c.mode = "cyber_physical" ->
         Filter({c.attacker}) \o DosScript(c, "start") \o ClearFilter
           \o Sleep(c.t.pdelay) \o RunScenario(c) \o Rest(c.t.run)
    [] OTHER -> Stop("raise")

\* The start is rounded up to a second, which fails in the last second of an
\* hour.  Results are fetched at once after the kill commands are issued.
DisruptionStart(c) ==
  Attempt("raise") \o Stamp("start", 0, 0) \o Write("start-time")
    \o Disrupt(c)
    \o Stamp("stop", 0, 0) \o Write("stop-time")
    \o When(Attacks(c),
            KillDos(c) \o RecvFile(c.attacker, <<"dos-results">>) \o Attempt("exit"))
    \o When(Disturbs(c),
            KillScenario(c) \o Attempt("exit")
              \o RecvFile(c.opc, <<"phys-results", "phys-log">>) \o Query)
    \o ClearFilter

DisruptionCleanup(c) ==
  When(Attacks(c),
       KillDos(c) \o Filter({c.attacker}) \o Exec("remove", {}, {"dos-results"})
         \o When("spare" \in c.opts, Exec("up", {"spare"}, {}))
         \o Sleep(10) \o ClearFilter)
    \o When(Disturbs(c),
            KillScenario(c) \o DeleteFile(c.opc, "phys-results", "windows")
              \o DeleteFile(c.opc, "phys-log", "windows") \o Sleep(10) \o ClearFilter)
----------------------------------------------------------------------------
(* opcexport: c.host, opts: "route"                                        *)

OpcConfigure(c) ==
  Send \o Attempt("raise") \o Send
    \o ExecWait(c.host, Run, 0)
    \o When("route" \in c.opts, ExecWait(c.host, Run, 0))
    \o RunAndCheck(c.host, Run, 100)

OpcStart(c) ==
  LET check(p) == Ps(c.host) \o Unless(c.host, "python.exe", Sleep(50) \o p)
  IN  Filter({c.host}) \o Exec("append", {"python.exe"}, {"opc-log"})
        \o ClearFilter \o Sleep(100)
        \o check(check(check(Stop("exit"))))

OpcStop(c) ==
  KillProcess({c.host}, "python.exe")
    \o RecvFile(c.host, <<"opc-log">>) \o DeleteFile(c.host, "opc-log", "linux")

OpcCleanup(c) == ExecWait(c.host, Run, 0)
----------------------------------------------------------------------------
(* rtds and providerdata: c.host, opts: "rscad", "case_name", "csv",       *)
(* "export_csv", "export_logs", "export_config", "verify", "drift"         *)

StopCase(allow) ==
  Off({"case"}, {Host}, IF allow THEN "ignore" ELSE "exit") \o Attempt("raise")

StartCase(c) ==
  On("case", {Host}, "exit") \o Attempt("raise")
    \o When("case_name" \in c.opts, Mishap(StopCase(TRUE) \o Stop("exit")))

Solver == "pybennu-power-solver"
StopProvider(c) ==
  Ps(c.host) \o If(c.host, Solver, RunAndCheck(c.host, Exec("kill", {Solver}, {}), 50))

RecvConfig == Attempt("exit") \o Write("config.ini")

\* The check of the clock, and the provider if it does not run.
EnsureProvider(c) ==
  Ps(c.host)
    \o Unless(c.host, Solver,
              RunAndCheck(c.host, Exec("append", {Solver}, {"csv", "solver-log"}), 50)
                \o Sleep(80))
CheckNtp(c) == RunAndCheck(c.host, Run, 50) \o Attempt("exit")

CheckProvider(c) ==
  Ps(c.host) \o Unless(c.host, Solver, Stop("exit"))
    \o When("csv" \in c.opts, RunAndCheck(c.host, Run, 50))

RtdsConfigure(c) ==
  EnsureRunning(c.host)
    \o When("export_config" \in c.opts, RecvConfig)
    \o CheckNtp(c)
    \o When("rscad" \in c.opts, StartCase(c))
    \o EnsureProvider(c)

\* Documents arrive, their frequency is right, the clocks agree.
RtdsStart(c) ==
  CheckProvider(c)
    \o When("verify" \in c.opts,
            Attempt("raise") \o Sleep(30) \o Query \o Query
              \o When("drift" \in c.opts, Query))

FetchProvider(c) ==
  When("export_csv" \in c.opts, RecvFile(c.host, <<"csv">>))
    \o When("export_logs" \in c.opts, RecvFile(c.host, <<"solver-log">>))
    \o When("export_config" \in c.opts, RecvConfig)

RtdsStop(c) ==
  StopProvider(c) \o When("rscad" \in c.opts, StopCase(FALSE)) \o FetchProvider(c)

RtdsCleanup(c) ==
  StopProvider(c)
    \o When("csv" \in c.opts, ExecWait(c.host, Exec("remove", {}, {"csv"}), 0))
    \o DeleteFile(c.host, "solver-log", "linux")
    \o When("rscad" \in c.opts, StopCase(TRUE))

ProviderConfigure(c) ==
  EnsureRunning(c.host)
    \o When("export_config" \in c.opts, RecvConfig \o Query)
    \o CheckNtp(c)
    \o EnsureProvider(c)

ProviderStart(c) == CheckProvider(c) \o When("verify" \in c.opts, Query)

\* The provider is not stopped.
ProviderStop(c) ==
  FetchProvider(c) \o When("export_config" \in c.opts, Query)
----------------------------------------------------------------------------
(* caldera: c.server, names: what is given by name and has to be looked up *)

ApiCall(c) ==
  Filter({c.server}) \o Run \o Await({c.server}, 0, 0, "ignore")
    \o RunAndCheck(c.server, Run, 0) \o Attempt("raise")

\* Every stage runs an operation to its end, however long that takes.
CalderaStage(c) ==
  For(c.names, LAMBDA n : ApiCall(c) \o Attempt("exit"))
    \o ApiCall(c)
    \o Until(Sleep(100) \o ApiCall(c))
    \o ApiCall(c) \o Write("caldera-report")
----------------------------------------------------------------------------
(* art: c.vms, opts: "validator", "abort"                                  *)

\* abortOnError calls os.exit, which does not exist.  Results go to a file f
\* with a new name.
ArtStart(c, f) ==
  Attempt("exit")
    \o For(c.vms, LAMBDA v :
             Send \o Filter({v}) \o Run
               \o ExecWait(v, Exec("run", {}, {f}), 0) \o Recv(v, f, "exit")
               \o When("validator" \in c.opts,
                       Attempt("raise")
                         \o When("abort" \in c.opts, Mishap(Stop("raise")))))
----------------------------------------------------------------------------
(* snort: c.host, wait, opts: "script", configs                            *)

SnortLogs == <<"alert", "snort.log", "snort.stats">>

SnortConfigure(c) ==
  When("script" \in c.opts, Send \o Filter({c.host}) \o Run)
    \o For(c.configs, LAMBDA f : Send)
    \o Filter({c.host}) \o Exec("up", {"sniff"}, {})

SnortStart(c) ==
  Filter({c.host}) \o Exec("remove", {}, {"alert", "snort.log", "snort.stats"})
    \o Run
    \o Filter({c.host}) \o Exec("append", {"snort"}, {"alert", "snort.log", "snort.stats"})

SnortStop(c) ==
  Sleep(c.wait) \o KillProcess({c.host}, "snort")
    \o For(SnortLogs, LAMBDA f : Recv(c.host, f, "raise")) \o Attempt("raise")

SnortCleanup(c) ==
  Filter({c.host}) \o Exec("remove", {}, {"snort.log"})
    \o Filter({c.host}) \o Run
    \o Filter({c.host}) \o Exec("remove", {}, {"snort.stats"})
----------------------------------------------------------------------------
(* ettercap: c.vms, those of c.bare have no interface or no targets        *)

\* What it calls to say so does not exist.
EttercapStart(c) ==
  For(c.vms, LAMBDA v :
        IF v \in c.bare THEN Stop("raise")
        ELSE Filter({v}) \o Exec("up", {"tap"}, {})
               \o Exec("start", {"ettercap"}, {}))

EttercapStop(c) == For(c.vms, LAMBDA v : KillProcess({v}, "ettercap"))
----------------------------------------------------------------------------
(* trafficgen: c.targets, each with the VMs host, background, malware,     *)
(* the last two as sequences of at most one, and a duration                *)

TrafficConfigure(c) ==
  For(c.targets, LAMBDA x :
        Send \o For(x.background, LAMBDA v : Send) \o For(x.malware, LAMBDA v : Send))

\* The malware's settings are read from those of the background client.
TrafficStart(c) ==
  For(c.targets, LAMBDA x :
        For(x.background, LAMBDA v :
              Filter({x.host}) \o Exec("start", {"traffic-server"}, {})
                \o Filter({v}) \o Spawn({"background-gen"}, {}))
          \o For(x.malware, LAMBDA v :
                   IF x.background = <<>> THEN Stop("raise")
                   ELSE Filter({v}) \o Spawn({"malware-gen"}, {}))
          \o Sleep(x.duration + 50))

TrafficStop(c) ==
  For(c.targets, LAMBDA x :
        For(x.background, LAMBDA v : KillProcess({x.host}, "traffic-server")
                                       \o KillProcess({v}, "background-gen"))
          \o For(x.malware, LAMBDA v : KillProcess({v}, "malware-gen")))

TrafficCleanup(c) ==
  For(c.targets, LAMBDA x :
        For(x.background, LAMBDA v : Filter({x.host}) \o Run \o Filter({v}) \o Run)
          \o For(x.malware, LAMBDA v : Filter({v}) \o Run))
=============================================================================
