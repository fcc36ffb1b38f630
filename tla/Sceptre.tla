------------------------------- MODULE Sceptre -------------------------------
(***************************************************************************)
(* The sceptre app (apps/sceptre), the last app of an experiment: its      *)
(* metadata describes a plant, with simulators (providers), field device   *)
(* servers with the devices they measure and control, clients, OPC         *)
(* servers, historians and others.  Configure injects a path for every     *)
(* file, pre-start writes the files.  What a register of a server means is *)
(* spread over files that are written one by one: the server numbers its   *)
(* registers, clients, OPC servers, historians, federates and the list of  *)
(* registers for the analysis refer to them.                               *)
(*                                                                         *)
(* A field of a device is its number in the list of its type, by field     *)
(* type.  The interface a server is reached at is its host, the port a     *)
(* protocol.  Files of the user, logic, sunspec, scripts' contents and     *)
(* hardware in the loop are left out.  Every host has metadata.  Devices   *)
(* in it have a name and a type and nothing else: with more, the parser    *)
(* changes a dictionary it iterates over, which raises.                    *)
(***************************************************************************)
EXTENDS Federation, SequencesExt

CONSTANT Plants    \* pairs of an experiment and the metadata for sceptre

\* The metadata of the app is a list of hosts, of which each has a name of its
\* own in the topology; a server has a list of devices for each protocol.
IsList(s) == s \in Seq({s[i] : i \in DOMAIN s})
PlantOf(x) ==
  /\ IsList(x.hosts)
  /\ \A i, j \in DOMAIN x.hosts : x.hosts[i].name = x.hosts[j].name => i = j
  /\ \A i \in DOMAIN x.hosts : x.hosts[i].type = "fd-server" =>
       \A q \in DOMAIN x.hosts[i].devices : IsList(x.hosts[i].devices[q])

ASSUME PlantAssumption == \A x \in Plants : PlantOf(x[2])

VARIABLES
  plant,       \* the metadata: used, hosts (a list), overrides
  sconf,       \* the configure stage of the app has ended well
  spc,         \* where its pre-start stage is, "done" when it is
  at,          \* the host it is at, of those of the type that is handled
  nodes,       \* the injections in the saved experiment, by host
  draft,       \* those in the experiment it will print
  pre,         \* variables of the process: configs (fd_server_configs),
               \* last (host of the last opc_config)
  made,        \* the files there are
  written      \* what is in some: servers, clients, opcs, historians, addrs,
               \* federates

scVars == <<plant, sconf, spc, at, nodes, draft, pre, made, written>>
everything == <<allVars, scVars>>

\* The hosts at some places of the list, in their order.
Picked(places) ==
  [m \in 1..Cardinality(places) |->
     plant.hosts[CHOOSE i \in places : Cardinality({j \in places : j < i}) = m - 1]]
Typed(type) == {i \in DOMAIN plant.hosts : plant.hosts[i].type = type}
OfType(type) == Picked(Typed(type))
Labelled(label) == Picked({i \in DOMAIN plant.hosts : label \in plant.hosts[i].labels})
HostNames == {plant.hosts[i].name : i \in DOMAIN plant.hosts}

----------------------------------------------------------------------------
(* Devices: the numbers of fields of a type that are read and written,     *)
(* analog and then binary.                                                 *)

Transmission ==
  {<<"generator", <<3, 0, 1, 1>>>>, <<"bus", <<7, 0, 2, 1>>>>,
   <<"load", <<2, 0, 1, 1>>>>, <<"branch", <<5, 0, 1, 1>>>>,
   <<"shunt", <<1, 0, 1, 1>>>>}
Distribution ==
  {<<"generator", <<20, 2, 1, 1>>>>, <<"bus", <<6, 0, 0, 0>>>>,
   <<"load", <<18, 0, 1, 1>>>>, <<"shunt", <<18, 0, 1, 1>>>>,
   <<"branch", <<18, 0, 1, 1>>>>, <<"transformer", <<32, 2, 1, 1>>>>,
   <<"inverter", <<19, 4, 1, 1>>>>}
BatchProcess ==
  {<<"storagetank", <<7, 2, 3, 2>>>>, <<"heatingtank", <<8, 3, 4, 3>>>>,
   <<"mixingtank", <<11, 3, 4, 3>>>>, <<"pump", <<2, 1, 2, 2>>>>,
   <<"generator", <<1, 0, 0, 0>>>>, <<"fillingstation", <<3, 0, 0, 0>>>>,
   <<"valve", <<0, 0, 1, 1>>>>}
Hvac ==
  {<<"room", <<1, 0, 0, 0>>>>, <<"thermostat", <<2, 2, 0, 0>>>>,
   <<"fan", <<1, 1, 0, 0>>>>, <<"heater", <<0, 0, 1, 1>>>>,
   <<"cooler", <<0, 0, 1, 1>>>>}
Fuel ==
  {<<"storagetank", <<4, 2, 1, 1>>>>, <<"pump", <<2, 2, 2, 2>>>>,
   <<"generator", <<1, 0, 0, 0>>>>, <<"fillingstation", <<3, 0, 0, 0>>>>,
   <<"valve", <<0, 0, 1, 1>>>>}
OpalRT ==
  {<<"analog-read", <<1, 0, 0, 0>>>>, <<"analog-read-write", <<0, 1, 0, 0>>>>,
   <<"binary-read", <<0, 0, 1, 0>>>>, <<"binary-read-write", <<0, 0, 0, 1>>>>}
Rtds ==
  {<<"analog-read", <<2, 0, 0, 0>>>>, <<"analog-read-write", <<0, 1, 0, 0>>>>,
   <<"binary-read-write", <<0, 0, 0, 1>>>>}
Waterway ==
  {<<"water", <<1, 0, 0, 0>>>>, <<"gate", <<1, 1, 0, 0>>>>,
   <<"valve", <<1, 1, 0, 0>>>>, <<"boat-sensor", <<2, 0, 0, 0>>>>,
   <<"boat", <<2, 0, 0, 0>>>>}
Battery ==
  {<<"bmsscrtu", <<3, 0, 0, 1>>>>, <<"bmsse", <<3, 0, 0, 0>>>>,
   <<"battstack", <<2, 0, 0, 0>>>>, <<"cps", <<4, 0, 0, 0>>>>}

\* get_fdconfig_class; another infrastructure, or type of a device, raises.
Devices(infra) ==
  CASE infra = "power-transmission" -> Transmission
    [] infra = "power-distribution" -> Distribution
    [] infra = "batch-process" -> BatchProcess
    [] infra = "hvac" -> Hvac
    [] infra = "fuel" -> Fuel
    [] infra = "opalrt" -> OpalRT
    [] infra = "rtds" -> Rtds
    [] infra = "waterway" -> Waterway
    [] infra = "battery" -> Battery
    [] OTHER -> {}
Known(infra, type) == \E d \in Devices(infra) : d[1] = type
Shape(infra, type) == (CHOOSE d \in Devices(infra) : d[1] = type)[2]

FieldTypes ==
  <<"analog-read", "analog-read-write", "binary-read", "binary-read-write">>
IsInput(kind) == kind \in {"analog-read", "binary-read"}

\* The points of a device, in the order of its registers.
Points(infra, device) ==
  FlattenSeq([t \in 1..4 |->
    [j \in 1..Shape(infra, device.type)[t] |-> <<device.name, FieldTypes[t], j>>]])

----------------------------------------------------------------------------
(* Registers: the host's devices of a protocol, one after the other, share *)
(* a counter, or for modbus one for each kind of register.                 *)

\* Register.addresses.
Base(proto, kind) ==
  IF proto = "iec60870-5-104" THEN 1
  ELSE IF proto # "modbus" THEN 0
  ELSE CASE kind = "analog-read" -> 30000
         [] kind = "analog-read-write" -> 40000
         [] kind = "binary-read" -> 10000
         [] OTHER -> 0

Unnumbered(infra, devices) ==
  FlattenSeq([d \in DOMAIN devices |->
    LET points == Points(infra, devices[d])
    IN  [i \in DOMAIN points |->
           [device |-> d, point |-> points[i], kind |-> points[i][2]]]])

\* Mutant of Numbered: every device starts at the base.
NumberedByDevice(proto, regs) ==
  [i \in DOMAIN regs |->
     [point |-> regs[i].point, kind |-> regs[i].kind,
      addr |-> Base(proto, regs[i].kind)
                 + Cardinality({j \in 1..(i - 1) :
                     /\ regs[j].device = regs[i].device
                     /\ proto = "modbus" => regs[j].kind = regs[i].kind})]]

Numbered(proto, regs) ==
  [i \in DOMAIN regs |->
     [point |-> regs[i].point, kind |-> regs[i].kind,
      addr |-> Base(proto, regs[i].kind)
                 + Cardinality({j \in 1..(i - 1) :
                     proto = "modbus" => regs[j].kind = regs[i].kind})]]

\* FieldDeviceConfig; the counters are reset for each host.
FieldDeviceConfig(h) ==
  [name |-> h.name, provider |-> h.provider,
   regs |-> [q \in DOMAIN h.devices |-> Numbered(q, Unnumbered(h.infra, h.devices[q]))]]

\* What raises: no such provider, infrastructure or type, no serial interface.
Valid(h) ==
  /\ \E i \in DOMAIN OfType("provider") : OfType("provider")[i].name = h.provider
  /\ \A q \in DOMAIN h.devices : \A d \in DOMAIN h.devices[q] :
       Known(h.infra, h.devices[q][d].type)
  /\ "dnp3-serial" \in DOMAIN h.devices => h.serial

----------------------------------------------------------------------------
(* The config of a server: the tag that a port and an address of it have,  *)
(* and the value of the provider a tag gets or sets.                       *)

Io(c, r) == <<c.name, IsInput(r.kind), r.addr>>
Regs(c, q) == Range(c.regs[q])

Port(proto) == IF proto = "dnp3-serial" THEN "serial" ELSE proto

\* fd_server.mako
ServerFile(c) ==
  [ports |-> UNION {{[port |-> Port(q), kind |-> r.kind, addr |-> r.addr,
                      tag |-> Io(c, r)] : r \in Regs(c, q)} : q \in DOMAIN c.regs},
   points |-> UNION {{<<Io(c, r), r.point>> : r \in Regs(c, q)} : q \in DOMAIN c.regs}]

\* Registers of a server in the order of a client's config.
ByProtocol(c) ==
  LET order == <<"bacnet", "dnp3", "dnp3-serial", "iec60870-5-104">>
      Of(q) == [i \in DOMAIN c.regs[q] |-> [proto |-> q, reg |-> c.regs[q][i]]]
  IN  FlattenSeq([x \in DOMAIN order |->
        IF order[x] \in DOMAIN c.regs THEN Of(order[x]) ELSE <<>>])

\* fd_client.mako: it counts the inputs and the outputs of each server, and
\* names the list of devices that are left in place of a serial device.  With
\* modbus it closes an element that it has not opened, and the file is no XML.
ClientFile(cs) ==
  LET Tag(c, all, i) ==
        [tag |-> <<c.name, IsInput(all[i].reg.kind),
                   Cardinality({j \in 1..(i - 1) :
                     IsInput(all[j].reg.kind) = IsInput(all[i].reg.kind)})>>,
         host |-> c.name, kind |-> all[i].reg.kind, addr |-> all[i].reg.addr,
         port |-> IF all[i].proto = "dnp3-serial" THEN "none" ELSE all[i].proto]
  IN  IF \E c \in cs : "modbus" \in DOMAIN c.regs THEN {}
      ELSE UNION {{Tag(c, ByProtocol(c), i) : i \in DOMAIN ByProtocol(c)} : c \in cs}

\* The driver OPC reads a protocol with: none by the name the metadata has for
\* 104.
Driver(proto) ==
  CASE proto \in {"dnp3", "dnp3-serial"} -> "dnp3"
    [] proto = "iec60870-5-104" -> "none"
    [] OTHER -> proto

\* OpcConfig and its template: a tag for each register of each device.
Tags(cs) ==
  UNION {UNION {{[host |-> c.name, port |-> Driver(q), kind |-> r.kind,
                  addr |-> r.addr, point |-> r.point] : r \in Regs(c, q)}
                : q \in DOMAIN c.regs} : c \in cs}

----------------------------------------------------------------------------
(* The configure stage *)

PowerWorld == {"PowerWorld", "PowerWorldHelics", "PowerWorldDynamics"}
FieldDevices == {"fd-server", "fd-client", "fep"}
StartFile(h) == IF h.os = "windows" THEN "start.ps1" ELSE "start.sh"

\* Files of the app that go to a VM by its type and by its labels.
Scheduler == {<<"sceptre", "startup-scheduler.cmd">>, <<"sceptre", "startup.ps1">>}
Elk == {<<"elk", "fdlist.json">>, <<"elk", "reg_addrs.json">>,
        <<"elk", "provider_restart.py">>}
Own(h, names) == {h.name} \X names

ScadaFiles(h) ==
  IF h.project THEN {"scada.ps1"} ELSE {"autoproject", "scada_autoproject.ps1"}
EngineerFiles(h) == {"putty.ps1"} \cup (IF h.interval THEN {"auto_winscp.ps1"} ELSE {})

ProviderFiles(h) ==
  (IF h.simulator \in PowerWorld THEN {"objects.txt"} ELSE {})
    \cup (IF h.simulator = "simulink" THEN {} ELSE {"config.ini"})
    \cup {StartFile(h)}

TypeFiles(h) ==
  CASE h.type = "opc" -> Own(h, {"opc.xml", "topserver.ps1"}) \cup Scheduler
    [] h.type \in FieldDevices -> Own(h, {"start.sh", "config.xml"})
    [] h.type = "hmi" -> Own(h, {"hmi.ps1"}) \cup Scheduler
    [] h.type = "scada-server" -> Own(h, ScadaFiles(h)) \cup Scheduler
    [] h.type = "engineer-workstation" -> Own(h, EngineerFiles(h)) \cup Scheduler
    [] h.type = "historian" ->
         Own(h, {"historian_config.txt", "historian.ps1"}) \cup Scheduler
    [] h.type = "provider" -> Own(h, ProviderFiles(h))
    [] h.type = "elk" -> Elk
    [] OTHER -> {}

IsLinux(h) == h.os = "linux"
WrittenAtOnce(h) ==
  (IF "helics-broker" \in h.labels /\ IsLinux(h) THEN Own(h, {"helics.sh"}) ELSE {})
    \cup (IF "elk" \in h.labels /\ IsLinux(h) THEN Own(h, {"elk-start.sh"}) ELSE {})
LabelFiles(h) ==
  WrittenAtOnce(h)
    \cup (IF "helics-federate" \in h.labels THEN Own(h, {"helics.json"}) ELSE {})

\* find_override: the user has a file to use in place of it.
Source(f) == IF f \in plant.overrides THEN f \o <<"override">> ELSE f
Injected(h) == {Source(f) : f \in TypeFiles(h) \cup LabelFiles(h)}

NoProcess == [configs |-> <<>>, last |-> <<>>]
Nothing ==
  [servers |-> <<>>, clients |-> <<>>, opcs |-> <<>>, historians |-> <<>>, addrs |-> {},
   federates |-> <<>>]

SceptreInit ==
  /\ FedInit
  /\ \E x \in Plants : profiles = x[1][1] /\ fed = x[1][2] /\ plant = x[2]
  /\ sconf = FALSE /\ spc = "idle" /\ at = 0
  /\ nodes = [h \in HostNames |-> {}] /\ draft = nodes
  /\ pre = NoProcess /\ made = {} /\ written = Nothing

\* Hosts of the metadata, as records.
HostOf(name) == CHOOSE h \in Range(plant.hosts) : h.name = name

\* Without a provider, or with two ELK boxes, it raises: nothing is saved.
SceptreConfigure ==
  /\ plant.used /\ configured /\ pc = "idle" /\ fpc = "idle" /\ ~up
  /\ made' = IF OfType("provider") = <<>> THEN made
             ELSE made \cup UNION {WrittenAtOnce(h) : h \in Range(plant.hosts)}
  /\ IF OfType("provider") # <<>> /\ Len(OfType("elk")) <= 1
     THEN /\ nodes' = [h \in HostNames |-> nodes[h] \cup Injected(HostOf(h))]
          /\ draft' = nodes' /\ sconf' = TRUE
     ELSE UNCHANGED <<nodes, draft, sconf>>
  /\ UNCHANGED <<allVars, plant, spc, at, pre, written>>

----------------------------------------------------------------------------
(* The pre-start stage: types of hosts one after the other                 *)

Parts ==
  <<"provider", "fd-server", "federate", "fd-client", "fep", "opc", "scada-server",
    "hmi", "engineer-workstation", "historian">>

\* The hosts that are handled in a part of the stage.
Handled ==
  IF spc = "federate" THEN Labelled("helics-federate") ELSE OfType(spc)
InStage == spc \in Range(Parts)
Here == Handled[at]

\* OPC servers, the first on a network.
Opc(primary) == {i \in Typed("opc") : plant.hosts[i].primary = primary}
Opcs(primary) == Picked(Opc(primary))
Near(h, primary) == Picked({i \in Opc(primary) : plant.hosts[i].net = h.net})

\* A SCADA server without a project uses one: on its network, or the first.
ScadaOpc(h) == Near(h, TRUE) \o Near(h, FALSE) \o Opcs(TRUE)

\* Why handling this host raises.  A front end always does: its config is built
\* without a device_subtype, which FieldDeviceConfig requires.
Raises ==
  \/ spc = "fd-server" /\ ~Valid(Here)
  \/ spc = "fep"
  \/ spc = "scada-server" /\ ~Here.project /\ ScadaOpc(Here) = <<>>
  \/ /\ spc = "historian" /\ Here.primary /\ ~Here.toScada
     /\ Near(Here, TRUE) = <<>> /\ pre.last = <<>>
Handles(type) == spc = type /\ at <= Len(Handled) /\ ~Raises

Makes(names) == made' = made \cup Own(Here, names)
Only(value) == [x \in {Here.name} |-> value]

SceptreStart ==
  /\ plant.used /\ fpc = "ready" /\ spc = "idle"
  /\ spc' = Parts[1] /\ at' = 1
  /\ made' = made \cup Scheduler
  /\ UNCHANGED <<allVars, plant, sconf, nodes, draft, pre, written>>

\* config.ini, and for some simulators another file that is injected now.
PrepareProvider ==
  /\ Handles("provider")
  /\ LET yaml == Here.simulator \in {"RTDS", "OPALRT", "Siren"}
     IN  /\ Makes({StartFile(Here), "config.ini"}
                    \cup (IF yaml THEN {"config.yaml"} ELSE {}))
         /\ draft' = IF yaml THEN [draft EXCEPT ![Here.name] =
                                     @ \cup Own(Here, {"config.yaml"})]
                     ELSE draft
  /\ at' = at + 1
  /\ UNCHANGED <<allVars, plant, sconf, spc, nodes, pre, written>>

PrepareServer ==
  /\ Handles("fd-server")
  /\ LET c == FieldDeviceConfig(Here)
     IN  /\ pre' = [pre EXCEPT !.configs = Over(Only(c), @)]
         /\ written' = [written EXCEPT !.servers = Over(Only(ServerFile(c)), @)]
  /\ Makes({"config.xml", StartFile(Here)})
  /\ at' = at + 1
  /\ UNCHANGED <<allVars, plant, sconf, spc, nodes, draft>>

\* helics.json: what the federate publishes, or the one that simulates the
\* others subscribes to.
FederateName(h) == IF h.federate = "" THEN h.name ELSE h.federate
FederateFile(h, cs) ==
  LET regs == UNION {UNION {{<<c.provider, r>> : r \in Regs(c, q)}
                            : q \in DOMAIN c.regs} : c \in cs}
  IN  IF h.simulator = "Helics"
      THEN [subs |-> {<<x[1], x[2].point>> : x \in {y \in regs : IsInput(y[2].kind)}},
            pubs |-> {}]
      ELSE [subs |-> {},
            pubs |-> {<<x[1], x[2].point>> : x \in {y \in regs : y[1] = FederateName(h)}}]

PrepareFederate ==
  /\ Handles("federate")
  /\ written' = [written EXCEPT !.federates =
       Over(Only(FederateFile(Here, Range(pre.configs))), @)]
  /\ Makes({"helics.json"})
  /\ at' = at + 1
  /\ UNCHANGED <<allVars, plant, sconf, spc, nodes, draft, pre>>

\* The servers that a client or an OPC server names.
Connected(h) == {pre.configs[x] : x \in Range(h.rtus) \cap DOMAIN pre.configs}

PrepareClient ==
  /\ Handles("fd-client")
  /\ written' = [written EXCEPT !.clients = Over(Only(ClientFile(Connected(Here))), @)]
  /\ Makes({"config.xml", StartFile(Here)})
  /\ at' = at + 1
  /\ UNCHANGED <<allVars, plant, sconf, spc, nodes, draft, pre>>

\* The servers an OPC server monitors: those it names, or all.
Monitored(h) == IF h.all THEN Range(pre.configs) ELSE Connected(h)

PrepareOpc ==
  /\ Handles("opc")
  /\ written' = [written EXCEPT !.opcs =
       Over(Only(Tags(Monitored(Here))), @)]
  /\ pre' = [pre EXCEPT !.last = <<Here.name>>]
  /\ Makes({"opc.xml", "topserver.ps1"})
  /\ at' = at + 1
  /\ UNCHANGED <<allVars, plant, sconf, spc, nodes, draft>>

PrepareScada ==
  /\ Handles("scada-server")
  /\ pre' = IF Here.project THEN pre
            ELSE [pre EXCEPT !.last = <<ScadaOpc(Here)[1].name>>]
  /\ Makes(ScadaFiles(Here))
  /\ at' = at + 1
  /\ UNCHANGED <<allVars, plant, sconf, spc, nodes, draft, written>>

\* HMIs and engineer workstations.
PrepareOther ==
  /\ \E type \in {"hmi", "engineer-workstation"} : Handles(type)
  /\ Makes(IF spc = "hmi" THEN {"hmi.ps1"} ELSE EngineerFiles(Here))
  /\ at' = at + 1
  /\ UNCHANGED <<allVars, plant, sconf, spc, nodes, draft, pre, written>>

\* A historian stores the tags of the OPC server on its network; without one it
\* takes the tags of whatever OPC server was used last, at no address.  Backups
\* and those that SCADA connects to have no tags.
HistorianFile(h, near, last) ==
  IF ~h.primary \/ h.toScada THEN [opc |-> <<>>, tags |-> {}]
  ELSE [opc |-> IF near = <<>> THEN <<>> ELSE <<near[1].name>>,
        tags |-> written.opcs[last[1]]]

PrepareHistorian ==
  /\ Handles("historian")
  /\ LET near == Near(Here, TRUE)
         last == IF near = <<>> THEN pre.last ELSE <<near[1].name>>
     IN  /\ pre' = [pre EXCEPT !.last = last]
         /\ written' = [written EXCEPT !.historians =
              Over(Only(HistorianFile(Here, near, last)), @)]
  /\ Makes({"historian_config.txt", "historian.ps1"})
  /\ at' = at + 1
  /\ UNCHANGED <<allVars, plant, sconf, spc, nodes, draft>>

\* After all hosts of a part: the list of objects of the last PowerWorld
\* provider, and the files for the analysis with the modbus registers there
\* are.  Mutant of PowerWorlds: without those for HELICS and dynamics.
PowerWorldsPlain ==
  Picked({i \in Typed("provider") : plant.hosts[i].simulator = "PowerWorld"})
Simulating == {i \in Typed("provider") : plant.hosts[i].simulator \in PowerWorld}
PowerWorlds == Picked(Simulating)
ObjectsFile ==
  IF PowerWorlds = <<>> THEN {} ELSE Own(PowerWorlds[Len(PowerWorlds)], {"objects.txt"})
Addrs == {t \in Tags(Range(pre.configs)) : t.port = "modbus"}

NextStage ==
  /\ InStage /\ at > Len(Handled) /\ spc # "historian"
  /\ spc' = Parts[1 + CHOOSE i \in DOMAIN Parts : Parts[i] = spc] /\ at' = 1
  /\ made' = made \cup (CASE spc = "fd-server" -> ObjectsFile
                          [] spc = "fep" -> Elk
                          [] OTHER -> {})
  /\ written' = IF spc = "fep" THEN [written EXCEPT !.addrs = Addrs] ELSE written
  /\ UNCHANGED <<allVars, plant, sconf, nodes, draft, pre>>

SceptreEnd ==
  /\ spc = "historian" /\ at > Len(Handled)
  /\ nodes' = draft /\ spc' = "done" /\ at' = 0 /\ pre' = NoProcess
  /\ UNCHANGED <<allVars, plant, sconf, draft, made, written>>

\* An exception, or its process dies: the experiment is not started.
SceptreFail ==
  /\ InStage
  /\ spc' = "idle" /\ at' = 0 /\ draft' = nodes /\ pre' = NoProcess
  /\ fpc' = "idle" /\ work' = exp
  /\ UNCHANGED <<vars, fed, exp, k, todo, fedDisk, told, marks>>
  /\ UNCHANGED <<plant, sconf, nodes, made, written>>

\* The other apps, phenix and the cluster; the stages of sceptre come after
\* those of the others.
Others ==
  /\ ~InStage /\ FedNext
  /\ plant.used =>
       /\ (fpc = "idle" /\ fpc' # "idle" => sconf)
       /\ (fpc = "ready" /\ fpc' = "idle" => spc = "done")
  /\ spc' = IF fpc' = "idle" THEN "idle" ELSE spc
  /\ UNCHANGED <<plant, sconf, at, nodes, draft, pre, made, written>>

SceptreNext ==
  \/ Others \/ SceptreConfigure \/ SceptreStart
  \/ PrepareProvider \/ PrepareServer \/ PrepareFederate \/ PrepareClient
  \/ PrepareOpc \/ PrepareScada \/ PrepareOther \/ PrepareHistorian
  \/ NextStage \/ SceptreEnd \/ SceptreFail

SceptreSpec == SceptreInit /\ [][SceptreNext]_everything
FairSceptreSpec ==
  SceptreSpec /\ WF_everything(fpc = "idle" /\ Launch /\ UNCHANGED <<fedVars, scVars>>)

----------------------------------------------------------------------------
(* Properties *)

\* What is read at a port and an address of a server: its host and points of the
\* provider.
Reads(t) ==
  LET file == written.servers[t.host]
      tags == {e.tag : e \in {x \in file.ports :
                 x.port = t.port /\ x.kind = t.kind /\ x.addr = t.addr}}
  IN  {<<t.host, x[2]>> : x \in {y \in file.points : y[1] \in tags}}

\* Servers whose registers mean what their names say: one with two protocols uses
\* one name for registers of both (fd_server.mako:27); the serial device is not
\* what OPC or a client connects to; 104 has another name in the templates of OPC.
Sound(h) ==
  /\ Cardinality(DOMAIN h.devices) = 1
  /\ DOMAIN h.devices \subseteq {"dnp3", "modbus", "bacnet"}

\* The devices of a server have names of their own, and not so many registers that
\* those of two kinds meet: modbus numbers the ones that are read from 10000 and
\* from 30000.
Addressable(x) ==
  \A i \in {j \in DOMAIN x.hosts : x.hosts[j].type = "fd-server"} :
    LET infra == x.hosts[i].infra
        devices == x.hosts[i].devices
    IN  \A q \in DOMAIN devices :
          /\ \A d, e \in DOMAIN devices[q] :
               devices[q][d].name = devices[q][e].name => d = e
          /\ (\A d \in DOMAIN devices[q] : Known(infra, devices[q][d].type))
               => Len(Unnumbered(infra, devices[q])) <= 20000

NameRight(t) == Sound(HostOf(t.host)) => Reads(t) = {<<t.host, t.point>>}

\* Every point of the server has one tag.
ServerPoints(s) ==
  UNION {UNION {Range(Points(s.infra, s.devices[q][d])) : d \in DOMAIN s.devices[q]}
         : q \in DOMAIN s.devices}
SeenOnce(s, tags) ==
  \A x \in ServerPoints(s) : Cardinality({t \in tags : Reads(t) = {<<s.name, x>>}}) = 1

\* Whatever name the plant's files have for a point leads to that point: a tag of
\* an OPC server, an entry of the list of modbus registers; a tag of a historian
\* with an OPC server on its network is one of that server.  Every point of a
\* server is seen by each OPC server that monitors all, and once.  A tag of a client
\* leads to one point and another tag to another.  A value the HELICS simulator
\* subscribes to, of a federate that has the name of its host, is published.
PointsReached ==
  spc = "done" =>
    /\ \A o \in DOMAIN written.opcs : \A t \in written.opcs[o] : NameRight(t)
    /\ \A t \in written.addrs : NameRight(t)
    /\ \A o \in {h \in Range(OfType("opc")) : h.all} :
         \A s \in {h \in Range(OfType("fd-server")) : Sound(h)} :
           SeenOnce(s, written.opcs[o.name])
    /\ \A c \in DOMAIN written.clients : \A t, u \in written.clients[c] :
         Sound(HostOf(t.host)) =>
           /\ Cardinality(Reads(t)) = 1
           /\ t.tag = u.tag <=> Reads(t) = Reads(u)
    /\ \A h \in Range(OfType("historian")) :
         LET f == written.historians[h.name]
         IN  Near(h, TRUE) # <<>> /\ f.tags # {} =>
               \E o \in Range(f.opc) : HostOf(o).net = h.net /\ f.tags = written.opcs[o]
    /\ \A f \in DOMAIN written.federates : \A x \in written.federates[f].subs :
         x[1] \in DOMAIN written.federates
           /\ FederateName(HostOf(x[1])) = x[1] /\ HostOf(x[1]).simulator # "Helics"
         => x \in written.federates[x[1]].pubs

LaterPowerWorld(h) ==
  \E i \in DOMAIN plant.hosts : \E j \in Simulating : i < j /\ plant.hosts[i] = h

\* A VM gets every file that configure has injected: pre-start has written them.
\* Not so for a field device with Windows, whose start script has another suffix
\* (app.py:126), and for the objects of all but the last PowerWorld provider
\* (app.py:627).
FilesReady ==
  spc = "done" =>
    \A h \in Range(plant.hosts) : \A f \in nodes[h.name] :
      \/ f \in made
      \/ Len(f) = 3
      \/ h.type \in FieldDevices /\ h.os = "windows" /\ f[2] = "start.sh"
      \/ f[2] = "objects.txt" /\ LaterPowerWorld(h)
=============================================================================
