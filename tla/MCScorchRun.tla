---------------------------- MODULE MCScorchRun ----------------------------
(* Experiments of three VMs: the OPC server w runs Windows.                *)
EXTENDS ScorchRun, ScorchExperiment

Timing(d, delay, attack, pdelay, phys) ==
  [run |-> d, delay |-> delay, attack |-> attack, pdelay |-> pdelay, phys |-> phys]

Disruption(mode, t) ==
  [kind |-> "disruption", mode |-> mode, attacker |-> "a", opc |-> "w",
   targets |-> <<"b">>, t |-> t, opts |-> {"spare"}]
Collect(on, mode, d) ==
  [kind |-> "collector", on |-> on, run |-> d, mode |-> mode, logs |-> <<"a">>,
   opts |-> {"miniccc", "iperf"}]
Vmstats == [kind |-> "vmstats", vms |-> <<"a", "b">>, opts |-> {}]
Opc == [kind |-> "opcexport", host |-> "w", opts |-> {"route"}]
Provider(kind, opts) == [kind |-> kind, host |-> "a", opts |-> opts]
Iperf(opts) ==
  [kind |-> "iperf", first |-> "a", servers |-> <<"b">>, opts |-> opts,
   pairs |-> <<[server |-> "b", client |-> "w"], [server |-> "w", client |-> "a"]>>]
Limits ==
  [kind |-> "qos",
   limits |-> <<[vm |-> "b", loss |-> 10, factor |-> 0, others |-> TRUE]>>]
\* The loss of the second run is more than can be set.
Growing ==
  [kind |-> "qos",
   limits |-> <<[vm |-> "b", loss |-> 0, factor |-> 0, others |-> TRUE],
                [vm |-> "a", loss |-> 10, factor |-> 500, others |-> FALSE]>>]
Pcap(opts) == [kind |-> "pcap", vms |-> <<"a">>, targets |-> <<"a">>, opts |-> opts]
Mm ==
  [kind |-> "mm", opts |-> {"convert"},
   commands |-> <<<<[type |-> "start", vm |-> "b"]>>,
                  <<[type |-> "start_capture", vm |-> Host],
                    [type |-> "disconnect", vm |-> "b"],
                    [type |-> "start_capture", vm |-> "b"]>>,
                  <<[type |-> "stop_capture", vm |-> Host],
                    [type |-> "stop_capture", vm |-> "b"],
                    [type |-> "connect", vm |-> "b"]>>,
                  <<[type |-> "stop", vm |-> "b"], [type |-> "other", vm |-> "b"]>>>>]
Snort == [kind |-> "snort", host |-> "a", wait |-> 300, configs |-> <<"conf">>,
          opts |-> {"script"}]
Traffic(background) ==
  [kind |-> "trafficgen",
   targets |-> <<[host |-> "b", background |-> background, malware |-> <<"b">>,
                  duration |-> 50]>>]

MCConfig ==
  [capture |-> <<[kind |-> "tcpdump", vms |-> <<"a", "b">>], Vmstats, Limits,
                 [kind |-> "pipe", opts |-> {"named", "via", "data"}]>>,
   cyber |-> <<Disruption("cyber_physical", Timing(1300, 650, 700, 600, 699)),
               Opc, Collect({"disruption", "opcexport"}, "cyber_physical", 1300)>>,
   physical |-> <<Opc, Disruption("physical", Timing(1300, 0, 0, 200, 100)), Vmstats,
                  Collect({"disruption", "vmstats"}, "physical", 1300)>>,
   dos |-> <<Pcap({"filter", "merge", "dedupe", "convert"}), Mm,
             Disruption("dos", Timing(1300, 0, 100, 0, 0)), Growing,
             Collect({"disruption", "pcap", "qos"}, "dos", 1300)>>,
   iperf |-> <<Iperf({"verify", "netstat", "histogram"}),
               Disruption("baseline", Timing(1300, 0, 0, 0, 0)),
               Collect({"disruption", "iperf"}, "baseline", 1300)>>,
   rperf |-> <<Iperf({"rperf"}), [kind |-> "vmstats", vms |-> <<>>, opts |-> {"listed"}]>>,
   rtds |-> <<Provider("rtds", {"rscad", "case_name", "csv", "export_csv",
                                "export_config", "verify", "drift"}),
              Disruption("baseline", Timing(1300, 0, 0, 0, 0)),
              Collect({"disruption", "rtds"}, "baseline", 1300)>>,
   provider |-> <<Provider("providerdata", {"csv", "export_csv", "export_config", "verify"}),
                  [kind |-> "pipe", opts |-> {"named", "badmode"}],
                  [kind |-> "mm", opts |-> {},
                   commands |-> <<<<>>, <<>>, <<>>, <<[type |-> "stop", vm |-> "a"]>>>>]>>,
   snort |-> <<Snort>>,
   traffic |-> <<Traffic(<<"b">>)>>,
   red |-> <<[kind |-> "art", vms |-> <<"a">>, results |-> <<"art-1", "art-2">>,
              opts |-> {"validator", "abort"}],
             [kind |-> "ettercap", vms |-> <<"b", "a">>, bare |-> {"a"}], Traffic(<<>>)>>,
   caldera |-> <<[kind |-> "caldera", server |-> "a", names |-> <<"adversary">>]>>,
   \* the shortest run whose attack ends with it, and a shorter one
   short |-> <<Disruption("cyber_physical", Timing(355, 50, 100, 20, 30))>>,
   tiny |-> <<Disruption("cyber_physical", Timing(300, 20, 100, 20, 30))>>]

MCVM == {"a", "b", "w"}
MCWindows == {"w"}
MCScenario == DOMAIN MCConfig
MCKind == [s \in MCScenario |-> [i \in DOMAIN MCConfig[s] |-> MCConfig[s][i].kind]]
Programs ==
  [s \in MCScenario |-> [q \in 1..MaxRun |-> [g \in Stage |->
     [i \in DOMAIN MCConfig[s] |-> Stages(MCConfig[s][i], q)[g]]]]]
\* TLC evaluates Programs once, but a definition that a constant is replaced by
\* at every use.
MCProgram == Programs
MCDuration ==
  [s \in MCScenario |-> CASE s = "short" -> 355 [] s = "tiny" -> 300 [] OTHER -> 1300]

\* What theorems assume of the programs of an experiment is so of all of these.
ASSUME ProgramsAssumption ==
  \A s \in Scenario :
    /\ Apart(s) /\ Stamped(s) /\ Recorded(s)
    /\ Renewing(s) /\ Closing(s) /\ Tidy(s)
    /\ Configured(s, MCConfig[s])
=============================================================================
