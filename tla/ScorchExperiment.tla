--------------------------- MODULE ScorchExperiment ---------------------------
(***************************************************************************)
(* How the scorch components can be configured, and the stages of each of  *)
(* them: what the entry points of the package are for minimega's phenix.   *)
(* A component has other stages than these too, which ask for nothing.     *)
(***************************************************************************)
EXTENDS ScorchRun, ScorchPrograms, ScorchCapture

Opts == SUBSET STRING
OpcConfig == [kind : {"opcexport"}, host : VM, opts : Opts]

\* Durations of a disruption, in tenths of a second.
Times == [run : {n \in Nat : n >= 10}, delay : Nat, attack : Nat, pdelay : Nat,
          phys : Nat]
DisruptionConfig ==
  [kind : {"disruption"}, mode : STRING, attacker : VM, opc : VM,
   targets : Seq(VM), t : Times, opts : Opts]

\* What each type of component can be configured to do.
Config ==
  DisruptionConfig
    \cup OpcConfig
    \cup [kind : {"rtds", "providerdata"}, host : VM, opts : Opts]
    \cup [kind : {"caldera"}, server : VM, names : Seq(STRING)]
    \cup [kind : {"art"}, vms : Seq(VM), results : Seq(STRING), opts : Opts]
    \cup [kind : {"snort"}, host : VM, wait : Nat, configs : Seq(STRING), opts : Opts]
    \cup [kind : {"ettercap"}, vms : Seq(VM), bare : SUBSET VM]
    \cup [kind : {"trafficgen"},
          targets : Seq([host : VM, background : Seq(VM), malware : Seq(VM),
                         duration : Nat])]
    \cup [kind : {"tcpdump"}, vms : Seq(VM)]
    \cup [kind : {"vmstats"}, vms : Seq(VM), opts : Opts]
    \cup [kind : {"iperf"}, first : VM, servers : Seq(VM), opts : Opts,
          pairs : Seq([server : VM, client : VM])]
    \cup [kind : {"qos"},
          limits : Seq([vm : VM, loss : Nat, factor : Nat, others : BOOLEAN])]
    \cup [kind : {"pipe"}, opts : Opts]
    \cup [kind : {"pcap"}, vms : Seq(VM), targets : Seq(VM), opts : Opts]
    \cup [kind : {"mm"}, opts : Opts,
          commands : [1..4 -> Seq([type : STRING, vm : VM \cup {Host}])]]
    \cup [kind : {"collector"}, on : SUBSET STRING, run : Nat, mode : STRING,
          logs : Seq(VM), opts : Opts]

\* Configure, start, stop and cleanup of a component in iteration count.
Stages(c, count) ==
  CASE c.kind = "disruption" ->
         <<DisruptionConfigure(c, count = 1), DisruptionStart(c), <<>>, DisruptionCleanup(c)>>
    [] c.kind = "opcexport" -> <<OpcConfigure(c), OpcStart(c), OpcStop(c), OpcCleanup(c)>>
    [] c.kind = "rtds" -> <<RtdsConfigure(c), RtdsStart(c), RtdsStop(c), RtdsCleanup(c)>>
    [] c.kind = "providerdata" ->
         <<ProviderConfigure(c), ProviderStart(c), ProviderStop(c), <<>>>>
    [] c.kind = "caldera" ->
         [g \in Stage |-> CalderaStage(c)]
    [] c.kind = "art" -> <<<<>>, ArtStart(c, c.results[count]), <<>>, <<>>>>
    [] c.kind = "snort" -> <<SnortConfigure(c), SnortStart(c), SnortStop(c), SnortCleanup(c)>>
    [] c.kind = "ettercap" -> <<<<>>, EttercapStart(c), EttercapStop(c), <<>>>>
    [] c.kind = "trafficgen" ->
         <<TrafficConfigure(c), TrafficStart(c), TrafficStop(c), TrafficCleanup(c)>>
    [] c.kind = "tcpdump" -> <<<<>>, TcpdumpStart(c), TcpdumpStop(c), <<>>>>
    [] c.kind = "vmstats" -> <<<<>>, VmstatsStart(c), VmstatsStop(c), <<>>>>
    [] c.kind = "iperf" ->
         <<IperfConfigure(c, count = 1), IperfStart(c), IperfStop(c), IperfCleanup(c)>>
    [] c.kind = "qos" -> <<<<>>, QosStart(c, count), QosStop(c), <<>>>>
    [] c.kind = "pipe" -> <<<<>>, PipeStart(c), <<>>, PipeCleanup(c)>>
    [] c.kind = "pcap" -> <<<<>>, PcapStart(c), PcapStop(c), <<>>>>
    [] c.kind = "mm" -> [g \in Stage |-> MmStage(c, g)]
    [] c.kind = "collector" -> <<<<>>, <<>>, CollectorStop(c), <<>>>>

\* Scenario s is what components that are configured by the records of C do, one
\* of each type and either simulator, under one duration: that of the disruption,
\* which the collector checks.  A result of art has a name of its own.
Configured(s, C) ==
  /\ C \in Seq(Config) /\ DOMAIN Kind[s] = DOMAIN C
  /\ \A i \in DOMAIN C :
       /\ Kind[s][i] = C[i].kind
       /\ \A q \in 1..MaxRun : \A g \in Stage : Program[s][q][g][i] = Stages(C[i], q)[g]
  /\ \A i, j \in DOMAIN C :
       /\ C[i].kind = C[j].kind => i = j
       /\ ~(C[i].kind = "rtds" /\ C[j].kind = "providerdata")
  /\ \A i \in DOMAIN C :
       /\ C[i].kind = "disruption" => C[i].t.run = Duration[s]
       /\ C[i].kind = "collector" =>
            /\ C[i].run = Duration[s]
            /\ (\E j \in DOMAIN C : C[j].kind = "vmstats") => "vmstats" \in C[i].on
       /\ C[i].kind = "art" =>
            \A q \in 1..MaxRun :
              q \in DOMAIN C[i].results /\ C[i].results[q] # "experiment_record.json"
=============================================================================
