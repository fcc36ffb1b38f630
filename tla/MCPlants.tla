------------------------------ MODULE MCPlants ------------------------------
(* Metadata for the sceptre app.  Grid: servers of three protocols, two     *)
(* simulators of which one is a HELICS hub, every type of host but front    *)
(* ends.  Odd: what the properties except.  Catalogue: devices of the other *)
(* infrastructures.  The others cannot start.                               *)
EXTENDS Sceptre

HostDefaults ==
  [name |-> "", type |-> "", os |-> "linux", net |-> 1, labels |-> {},
   provider |-> "sim", infra |-> "power-transmission", devices |-> <<>>,
   serial |-> FALSE, rtus |-> <<>>, all |-> TRUE, primary |-> TRUE,
   toScada |-> FALSE, simulator |-> "", federate |-> "", project |-> FALSE,
   interval |-> FALSE]

A(name, type) == [HostDefaults EXCEPT !.name = name, !.type = type]
Device(type, name) == [type |-> type, name |-> name]
Provider(name, simulator) == [A(name, "provider") EXCEPT !.simulator = simulator]
ServerOf(name, proto, devices) ==
  [A(name, "fd-server") EXCEPT !.devices = [q \in {proto} |-> devices]]
InfraServer(infra, devices) ==
  [ServerOf(infra, "modbus", devices) EXCEPT !.infra = infra]

Plant(hosts, overrides) == [used |-> TRUE, hosts |-> hosts, overrides |-> overrides]
NoPlant == [used |-> FALSE, hosts |-> <<>>, overrides |-> {}]

Bus == <<Device("bus", "bus-1"), Device("generator", "gen-1")>>
Line == <<Device("load", "load-1"), Device("branch", "line-1"), Device("shunt", "shunt-1")>>

Grid ==
  Plant(<<[Provider("sim", "PowerWorldHelics") EXCEPT
             !.os = "windows", !.labels = {"helics-federate"}],
          [Provider("hub", "Helics") EXCEPT
             !.labels = {"helics-federate", "helics-broker", "elk"}],
          [ServerOf("r1", "dnp3", Bus) EXCEPT !.labels = {"elk"}],
          ServerOf("r2", "modbus", Line), ServerOf("r3", "bacnet", Bus),
          [A("client", "fd-client") EXCEPT !.rtus = <<"r1", "r3">>],
          [A("client2", "fd-client") EXCEPT !.rtus = <<"r1", "r2">>],
          A("opc", "opc"),
          [A("opc-bak", "opc") EXCEPT
             !.net = 2, !.primary = FALSE, !.all = FALSE, !.rtus = <<"r2", "none">>],
          A("scada", "scada-server"), [A("scada2", "scada-server") EXCEPT !.net = 2],
          [A("project", "scada-server") EXCEPT !.project = TRUE],
          A("hmi", "hmi"), [A("eng", "engineer-workstation") EXCEPT !.interval = TRUE],
          A("hist", "historian"), [A("hist2", "historian") EXCEPT !.net = 2],
          [A("hist-bak", "historian") EXCEPT !.primary = FALSE], A("elk", "elk")>>,
        {<<"r1", "config.xml">>, <<"opc", "opc.xml">>})

Odd ==
  Plant(<<Provider("sim", "PowerWorld"), Provider("sim2", "PowerWorldDynamics"),
          Provider("sim3", "PyPower"), Provider("sim4", "simulink"),
          [ServerOf("two", "dnp3", Bus) EXCEPT
             !.devices = [q \in {"dnp3", "bacnet"} |-> IF q = "dnp3" THEN Bus ELSE Line]],
          ServerOf("r1", "dnp3", Bus), ServerOf("r2", "bacnet", Line),
          ServerOf("r3", "iec60870-5-104", Bus), ServerOf("r4", "iec60870-5-104", Line),
          [ServerOf("r5", "dnp3-serial", Bus) EXCEPT !.serial = TRUE],
          [A("win", "fd-client") EXCEPT
             !.os = "windows", !.rtus = <<"two", "r1", "r2", "r3", "r5">>],
          A("opc", "opc"),
          [A("hist", "historian") EXCEPT !.net = 2],
          [A("scadahist", "historian") EXCEPT !.net = 2, !.toScada = TRUE]>>, {})

Catalogue ==
  Plant(<<Provider("sim", "OPALRT"),
          InfraServer("power-distribution",
            <<Device("transformer", "t"), Device("inverter", "i"), Device("load", "l")>>),
          InfraServer("batch-process",
            <<Device("storagetank", "s"), Device("mixingtank", "m"), Device("valve", "v")>>),
          InfraServer("hvac", <<Device("thermostat", "t"), Device("heater", "h")>>),
          InfraServer("fuel", <<Device("pump", "p"), Device("storagetank", "s")>>),
          InfraServer("opalrt",
            <<Device("binary-read", "b"), Device("analog-read-write", "a")>>),
          InfraServer("rtds", <<Device("analog-read", "a"), Device("binary-read-write", "b")>>),
          InfraServer("waterway", <<Device("gate", "g"), Device("boat", "b")>>),
          InfraServer("battery", <<Device("bmsscrtu", "b"), Device("cps", "c")>>),
          A("opc", "opc")>>, {})

\* No provider; two ELK boxes; an infrastructure that is none; a front end; a
\* historian and a SCADA server without OPC.
Sim == Provider("sim", "PyPower")
Broken ==
  {Plant(hosts, {}) : hosts \in
     {<<A("elk", "elk")>>,
      <<Sim, A("elk", "elk"), A("elk2", "elk")>>,
      <<Sim, [ServerOf("r1", "dnp3", Bus) EXCEPT !.infra = "gas"]>>,
      <<Sim, ServerOf("r1", "dnp3", Bus), [A("f1", "fep") EXCEPT !.rtus = <<"r1">>]>>,
      <<Sim, A("hist", "historian")>>,
      <<Sim, A("scada", "scada-server")>>}}

AllPlants == {Grid, Odd, Catalogue} \cup Broken
=============================================================================
