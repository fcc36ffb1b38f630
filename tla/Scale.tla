------------------------------- MODULE Scale -------------------------------
(***************************************************************************)
(* The scale app (apps/scale): profiles in the metadata ask for VMs and    *)
(* for containers in them.  The configure stage adds the VMs to the        *)
(* topology, with a startup script each; the post-start stage, a process   *)
(* of its own that repeats the plugin's arithmetic, writes a minimega      *)
(* script per VM and sends it there; the startup script in the VM waits    *)
(* for it and launches the containers.                                     *)
(*                                                                         *)
(* Modelled with its two plugins, builtin (two versions) and wind_turbine, *)
(* and what it uses of the app base class (add_node, add_inject,           *)
(* add_annotation).  A stage changes the experiment only when it ends: its *)
(* process reads the experiment, and prints it.  It may die anywhere, also *)
(* while it writes a file that it has just emptied: DieWriting.            *)
(*                                                                         *)
(* Addresses are numbers on a named network.  Hardware, gateways, the      *)
(* contents of the configs of a turbine, the optional weather data (one    *)
(* more injection), the printed summary and dry runs are left out.         *)
(***************************************************************************)
EXTENDS Naturals, Sequences, FiniteSets

CONSTANTS
  Scenarios,   \* metadata: lists of profiles
  Vlans,       \* networks the experiment has a VLAN for
  Broker,      \* host of the HELICS broker, in the topology
  MaxStage     \* bound: configure stages that are run

VARIABLES
  profiles,    \* the metadata of the app
  topo,        \* the nodes of the saved experiment
  configured,  \* a configure stage has ended well
  pc,          \* the process of the app: where it is,
  p,           \*   which profile it is at,
  n,           \*   which node of it, 0 before the first,
  mem,         \*   the nodes of the experiment it will print,
  addr,        \*   the next addresses on the networks of the profile
  stages,      \* configure stages so far
  configs,     \* the configs of turbine components, by VM and number
  tgz,         \* wind-configs.tgz: what configs was
  files,       \* the minimega scripts, by VM
  broken,      \* the VMs whose startup script is cut off
  cut,         \* history: a configure stage died as it wrote, none ended since
  up,          \* the experiment is running
  post,        \* its post-start stage: "no", "started" or "done"
  image,       \* the wind-configs.tgz in its VMs
  filter,      \* the cc filter of its namespace
  sent,        \* the files that were sent: <<VM, whose script>>
  running      \* the containers that were launched, by VM

process == <<pc, p, n, mem, addr>>
disk == <<configs, tgz, files, broken, cut>>
cluster == <<up, post, image, filter, sent, running>>
vars == <<profiles, topo, configured, process, stages, disk, cluster>>

----------------------------------------------------------------------------
(* The arithmetic of the plugins *)

Components == 0..5    \* of a turbine; 0 is the main controller

Wind(q) == q.plugin = "wind"

\* math.ceil(a / b)
Ceil(a, b) == (a + b - 1) \div b

\* Containers asked for; the builtin plugin ignores them without a density.
Packed(q) == q.perNode > 0 /\ (Wind(q) \/ q.containers > 0)
Total(q) == IF Wind(q) THEN q.count * Cardinality(Components) ELSE q.containers

NodeCount(q) == IF Packed(q) THEN Ceil(Total(q), q.perNode) ELSE q.count

Hostname(q, i) ==
  <<IF q.plugin \in {"builtin2", "none"} THEN "v2" ELSE "", q.prefix, i>>

\* Mutant of BuiltinCount: the last node is given its share as a remainder.
BuiltinCountRemainder(q, i) ==
  IF ~Packed(q) THEN 0
  ELSE IF i = NodeCount(q) THEN Total(q) % q.perNode
  ELSE q.perNode

BuiltinCount(q, i) ==
  IF ~Packed(q) THEN 0
  ELSE IF i = NodeCount(q) THEN Total(q) - (NodeCount(q) - 1) * q.perNode
  ELSE q.perNode

WindCount(q, i) ==
  IF i * q.perNode <= Total(q) THEN q.perNode
  ELSE IF i = Ceil(Total(q), q.perNode) THEN Total(q) % q.perNode
  ELSE 0

ContainerCount(q, i) == IF Wind(q) THEN WindCount(q, i) ELSE BuiltinCount(q, i)

\* _get_container_details: container j of node i, as part of a turbine.
Part(q, i, j) ==
  LET g == (i - 1) * q.perNode + j - 1
  IN  [turbine |-> g \div Cardinality(Components) + 1,
       component |-> g % Cardinality(Components)]

Mains(q, i) ==
  Cardinality({j \in 1..WindCount(q, i) : Part(q, i, j).component = 0})

\* _resolve_ext_start_ip: the network address itself is not given away.
ExtStart(x) ==
  IF x.start # 0 THEN x.start
  ELSE IF x.address = x.network THEN x.address + 1 ELSE x.address

\* The networks with a VLAN; _process_networks skips the others.
NetInfo(q) == SelectSeq(q.nets, LAMBDA w : w.name \in Vlans)
StartAddresses(q) == [k \in DOMAIN NetInfo(q) |-> NetInfo(q)[k].address]

\* What the template does: address k to interface k, if there is one.
Assign(nets, ips) ==
  {<<nets[k], ips[k]>> : k \in DOMAIN nets \cap DOMAIN ips}

WindAddresses(q, part) ==
  LET own == <<"turbine", part.turbine>>
      ext == IF q.ext.name \in Vlans THEN <<<<"external", q.ext.name>>>> ELSE <<>>
  IN  IF part.component = 0
      THEN Assign(ext \o <<own>>,
                  <<ExtStart(q.ext) + part.turbine - 1, part.component>>)
      ELSE Assign(<<own>>, <<part.component>>)

\* minimega.mako: containers are numbered from START_INDEX, which is 1.
BuiltinAddresses(q, j, starts) ==
  {<<<<"external", NetInfo(q)[k].name>>, starts[k] + j>> : k \in DOMAIN starts}

Script(q, i, starts) ==
  [j \in 1..ContainerCount(q, i) |->
     IF Wind(q)
     THEN LET part == Part(q, i, j)
          IN  [part |-> part, addresses |-> WindAddresses(q, part)]
     ELSE [part |-> [turbine |-> 0, component |-> 0],
           addresses |-> BuiltinAddresses(q, j, starts)]]

\* Metadata has numbers; a density below zero is left out.
ASSUME ScaleAssumption ==
  /\ MaxStage \in Nat
  /\ \A s \in Scenarios :
       /\ Len(s) \in Nat /\ DOMAIN s = 1..Len(s)
       /\ \A k \in DOMAIN s :
            /\ s[k].count \in Nat /\ s[k].containers \in Nat /\ s[k].perNode \in Nat
            /\ s[k].base \in Nat
            /\ \A m \in DOMAIN NetInfo(s[k]) : NetInfo(s[k])[m].address \in Nat
            /\ Len(s[k].scripts) \in Nat
            /\ DOMAIN s[k].scripts = 1..Len(s[k].scripts)

----------------------------------------------------------------------------
(* The experiment, through the app base class *)

PlainNode == [injects |-> <<>>, feds |-> 0]

\* g, and what f has beside it.
Over(g, f) ==
  [x \in DOMAIN g \cup DOMAIN f |-> IF x \in DOMAIN g THEN g[x] ELSE f[x]]

\* add_node: a node of that name is left as it is.
AddNode(t, h) == Over(t, [x \in {h} |-> PlainNode])

\* Mutant of AddInjects: the injections there are not looked at.
AddInjectsAgain(t, h, new) == [t EXCEPT ![h].injects = @ \o new]

\* add_inject, one after the other; one that is there is not added again.
Added(s, new) ==
  LET after[m \in 0..Len(new)] ==
        IF m = 0 THEN s
        ELSE LET r == after[m - 1]
             IN  IF \E e \in DOMAIN r : r[e] = new[m] THEN r ELSE Append(r, new[m])
  IN  after[Len(new)]
AddInjects(t, h, new) == [t EXCEPT ![h].injects = Added(@, new)]

Startup == <<"startup", 999>>

\* _configure_node_common and on_node_configured.
Injections(q) ==
  <<Startup>> \o [k \in DOMAIN q.scripts |-> <<q.scripts[k], 500 + k>>]
    \o (IF Wind(q) THEN <<<<"tgz", 0>>>> ELSE <<>>)

\* The main controllers of the node are counted on top of the base count, and
\* once more when the annotation is built.  It replaces the one of the node
\* before.
Annotates(q, i) == Wind(q) /\ q.base # 0 /\ Mains(q, i) > 0
Annotate(t, q, i) ==
  IF Annotates(q, i)
  THEN [t EXCEPT ![Broker].feds = q.base + Mains(q, i) + 1] ELSE t

----------------------------------------------------------------------------
(* The stages *)

Init ==
  /\ profiles \in Scenarios
  /\ topo = [h \in {Broker} |-> PlainNode] /\ configured = FALSE
  /\ pc = "idle" /\ p = 0 /\ n = 0 /\ mem = topo /\ addr = <<>> /\ stages = 0
  /\ configs = <<>> /\ tgz = <<>> /\ files = <<>> /\ broken = {} /\ cut = FALSE
  /\ up = FALSE /\ post = "no" /\ image = <<>>
  /\ filter = Broker /\ sent = {} /\ running = <<>>

ConfigureStart ==
  /\ pc = "idle" /\ ~up /\ stages < MaxStage
  /\ pc' = "configure" /\ p' = 1 /\ n' = 0 /\ stages' = stages + 1
  /\ UNCHANGED <<profiles, topo, configured, mem, addr, disk, cluster>>

Stages == pc # "idle" /\ p <= Len(profiles)
AtNode == Stages /\ 1 <= n /\ n <= NodeCount(profiles[p])

\* validate_profile and pre_configure.
ConfigureProfile ==
  /\ pc = "configure" /\ Stages /\ n = 0
  /\ profiles[p].plugin # "none"
  /\ n' = 1
  /\ UNCHANGED <<profiles, topo, configured, pc, p, mem, addr, stages, disk,
                 cluster>>

\* "Profile missing required field 'plugin'".
InvalidProfile ==
  /\ pc = "configure" /\ Stages /\ n = 0
  /\ profiles[p].plugin = "none"
  /\ pc' = "idle" /\ p' = 0 /\ n' = 0 /\ mem' = topo
  /\ UNCHANGED <<profiles, topo, configured, addr, stages, disk, cluster>>

\* Mutant of Configs: directories are numbered from 0, as the components are.
ConfigsFromZero(q, i) ==
  [x \in {Hostname(q, i)} \X (0..(WindCount(q, i) - 1)) |-> Part(q, i, x[2] + 1)]

\* The configs of the components, in a directory per VM and number.
Configs(q, i) ==
  [x \in {Hostname(q, i)} \X (1..WindCount(q, i)) |-> Part(q, i, x[2])]

\* The startup script is written, the configs of the node and the archive of all
\* configs.  The broker has to be in the topology if the node has a federate.
ConfigureNode ==
  /\ pc = "configure" /\ AtNode
  /\ LET q == profiles[p]
         h == Hostname(q, n)
     IN  /\ Annotates(q, n) => Broker \in DOMAIN mem
         /\ mem' = Annotate(AddInjects(AddNode(mem, h), h, Injections(q)), q, n)
         /\ broken' = broken \ {h}
         /\ IF Wind(q)
            THEN configs' = Over(Configs(q, n), configs) /\ tgz' = configs'
            ELSE UNCHANGED <<configs, tgz>>
  /\ n' = n + 1
  /\ UNCHANGED <<profiles, topo, configured, pc, p, addr, stages, files, cut,
                 cluster>>

\* A config that is cut off: nothing, a part or all of it is there.
Torn == [turbine |-> 0, component |-> 0]

\* The configs of a node up to number j, which is cut off; for 0, none.
CutConfigs(q, i, j) ==
  [x \in {Hostname(q, i)} \X (1..j) |->
     IF x[2] = j THEN Torn ELSE Part(q, i, x[2])]

\* The process dies in ConfigureNode, at one of the files that are emptied when
\* they are opened and then filled: the startup script, a config, the archive.
\* Nobody reads them before the stage is over, so that this is all that is seen
\* of the order in which they are written.
DieWriting ==
  /\ pc = "configure" /\ AtNode
  /\ LET q == profiles[p]
         h == Hostname(q, n)
     IN  \/ broken' = broken \cup {h} /\ UNCHANGED <<configs, tgz>>
         \/ /\ Wind(q)
            /\ broken' = broken \ {h}
            /\ \/ /\ \E j \in 0..WindCount(q, n) :
                       configs' = Over(CutConfigs(q, n, j), configs)
                  /\ UNCHANGED tgz
               \/ /\ configs' = Over(Configs(q, n), configs)
                  /\ tgz' = [x \in DOMAIN configs' |-> Torn]
  /\ cut' = TRUE
  /\ pc' = "idle" /\ p' = 0 /\ n' = 0 /\ mem' = topo
  /\ UNCHANGED <<profiles, topo, configured, addr, stages, files, cluster>>

NextProfile ==
  /\ Stages /\ n > NodeCount(profiles[p])
  /\ p' = p + 1 /\ n' = 0
  /\ UNCHANGED <<profiles, topo, configured, pc, mem, addr, stages, disk,
                 cluster>>

\* The process prints the experiment, and phenix saves it.
ConfigureEnd ==
  /\ pc = "configure" /\ p > Len(profiles)
  /\ topo' = mem /\ configured' = TRUE /\ cut' = FALSE
  /\ pc' = "idle" /\ p' = 0 /\ n' = 0
  /\ UNCHANGED <<profiles, mem, addr, stages, configs, tgz, files, broken,
                 cluster>>

PostStart ==
  /\ pc = "idle" /\ up /\ post = "no"
  /\ pc' = "post" /\ p' = 1 /\ n' = 0 /\ post' = "started"
  /\ UNCHANGED <<profiles, topo, configured, mem, addr, stages, disk, up, image,
                 filter, sent, running>>

PostProfile ==
  /\ pc = "post" /\ Stages /\ n = 0
  /\ n' = 1 /\ addr' = StartAddresses(profiles[p])
  /\ UNCHANGED <<profiles, topo, configured, pc, p, mem, stages, disk, cluster>>

\* A script that is cut off here is written anew before it is sent.
WriteScript ==
  /\ pc = "post" /\ AtNode
  /\ LET q == profiles[p]
     IN  files' = Over([h \in {Hostname(q, n)} |-> Script(q, n, addr)], files)
  /\ pc' = "send"
  /\ UNCHANGED <<profiles, topo, configured, p, n, mem, addr, stages, configs,
                 tgz, broken, cut, cluster>>

\* Mutant of Advance: every node starts at the same addresses.
AdvanceNot(q, i, starts) == starts

\* The addresses of the next node.
Advance(q, i, starts) ==
  [k \in DOMAIN starts |-> starts[k] + ContainerCount(q, i)]

\* Mutant of SendScript: the filter is set after the file is sent.
SendScriptBefore ==
  /\ pc = "send"
  /\ LET q == profiles[p]
         h == Hostname(q, n)
     IN  /\ filter' = h /\ sent' = sent \cup {<<filter, h>>}
         /\ addr' = Advance(q, n, addr)
  /\ pc' = "post" /\ n' = n + 1
  /\ UNCHANGED <<profiles, topo, configured, p, mem, stages, disk, up, post,
                 image, running>>

\* cc_filter and cc_send.
SendScript ==
  /\ pc = "send"
  /\ LET q == profiles[p]
         h == Hostname(q, n)
     IN  /\ filter' = h /\ sent' = sent \cup {<<h, h>>}
         /\ addr' = Advance(q, n, addr)
  /\ pc' = "post" /\ n' = n + 1
  /\ UNCHANGED <<profiles, topo, configured, p, mem, stages, disk, up, post,
                 image, running>>

PostEnd ==
  /\ pc = "post" /\ p > Len(profiles)
  /\ post' = "done"
  /\ pc' = "idle" /\ p' = 0 /\ n' = 0
  /\ UNCHANGED <<profiles, topo, configured, mem, addr, stages, disk, up, image,
                 filter, sent, running>>

\* The process of a stage dies between two nodes or two files: what it did not
\* print is lost.
Die ==
  /\ pc # "idle"
  /\ pc' = "idle" /\ p' = 0 /\ n' = 0 /\ mem' = topo
  /\ UNCHANGED <<profiles, topo, configured, addr, stages, disk, cluster>>

----------------------------------------------------------------------------
(* The cluster: phenix starts and stops the VMs of a configured experiment, *)
(* which have the injected files as they are then; miniccc in a VM gets the *)
(* files sent to it.                                                        *)

Boot ==
  /\ pc = "idle" /\ configured /\ ~up
  /\ up' = TRUE /\ image' = tgz
  /\ UNCHANGED <<profiles, topo, configured, process, stages, disk, post,
                 filter, sent, running>>

Stop ==
  /\ pc = "idle" /\ up
  /\ up' = FALSE /\ post' = "no" /\ image' = <<>>
  /\ filter' = Broker /\ sent' = {} /\ running' = <<>>
  /\ UNCHANGED <<profiles, topo, configured, process, stages, disk>>

\* The startup script: it has the file of its host name, and reads it.  Of one
\* that is cut off nothing was written.
LaunchOn(h) ==
  /\ up /\ h \notin DOMAIN running \cup broken
  /\ \E k \in DOMAIN topo[h].injects : topo[h].injects[k] = Startup
  /\ <<h, h>> \in sent
  /\ running' = Over([x \in {h} |-> files[h]], running)
  /\ UNCHANGED <<profiles, topo, configured, process, stages, disk, up, post,
                 image, filter, sent>>

Launch == \E h \in DOMAIN topo : LaunchOn(h)

\* What happens in the stages of the app and in the VMs.
Work ==
  \/ ConfigureStart \/ ConfigureProfile \/ InvalidProfile \/ ConfigureNode
  \/ NextProfile \/ ConfigureEnd
  \/ PostStart \/ PostProfile \/ WriteScript \/ SendScript \/ PostEnd \/ Die
  \/ DieWriting
  \/ Launch

Next == Work \/ Boot \/ Stop

Spec == Init /\ [][Next]_vars
FairSpec == Spec /\ WF_vars(Launch)

----------------------------------------------------------------------------
(* Properties *)

Hosts(q) == {Hostname(q, i) : i \in 1..NodeCount(q)}

\* Nothing keeps two profiles from the same host names; they then share VMs
\* and scripts.
OwnHosts ==
  \A k, l \in DOMAIN profiles :
    k # l => Hosts(profiles[k]) \cap Hosts(profiles[l]) = {}

\* The networks of a profile have names of their own.  Nothing keeps them from
\* having one in common; nor does anything keep a main controller whose external
\* network has no VLAN, and which has the address meant for it on the network of
\* its turbine, from having the one of another component.
OwnNetworks(q) ==
  /\ \A k, l \in DOMAIN NetInfo(q) :
       NetInfo(q)[k].name = NetInfo(q)[l].name => k = l
  /\ Wind(q) =>
       /\ ExtStart(q.ext) \in Nat
       /\ q.ext.name \in Vlans \/ ExtStart(q.ext) > 5

\* The containers of a profile, as <<node, number>>, and what each is.
Placed(q) ==
  UNION {{i} \X DOMAIN files[Hostname(q, i)] : i \in 1..NodeCount(q)}
Container(q, c) == files[Hostname(q, c[1])][c[2]]

IsContainer(x) ==
  /\ x.part.turbine \in Nat /\ x.part.component \in Components
  /\ \A a \in x.addresses : a[2] \in Nat

TypeOK ==
  /\ configured \in BOOLEAN /\ up \in BOOLEAN /\ cut \in BOOLEAN
  /\ pc \in {"idle", "configure", "post", "send"}
  /\ post \in {"no", "started", "done"}
  /\ p \in 0..(Len(profiles) + 1) /\ stages \in 0..MaxStage
  /\ n \in Nat /\ (Stages => n <= NodeCount(profiles[p]) + 1)
  /\ pc = "idle" => mem = topo
  /\ pc \in {"post", "send"} => up /\ post = "started"
  /\ pc = "send" => AtNode /\ Hostname(profiles[p], n) \in DOMAIN files
  /\ \A h \in DOMAIN topo : topo[h].feds \in Nat
  /\ \A v \in sent : v[2] \in DOMAIN files
  /\ DOMAIN running \subseteq DOMAIN topo \cap DOMAIN files
  /\ \A h \in DOMAIN files : \A j \in DOMAIN files[h] : IsContainer(files[h][j])

\* Every container that a profile asks for is in one script and in no other:
\* each component of each turbine, or the number of containers asked for, no
\* node with none of them or with more than its density.
EveryContainer ==
  post = "done" /\ OwnHosts =>
    \A k \in DOMAIN profiles :
      LET q == profiles[k]
          placed == Placed(q)
      IN  /\ \A i \in 1..NodeCount(q) :
               Cardinality({c \in placed : c[1] = i})
                 \in IF Packed(q) THEN 1..q.perNode ELSE {0}
          /\ Cardinality(placed) = IF Packed(q) THEN Total(q) ELSE 0
          /\ Wind(q) /\ Packed(q) =>
               {Container(q, c).part : c \in placed} =
                 [turbine : 1..q.count, component : Components]

\* No two containers of a profile have an address in common, and on a network
\* they have the addresses that follow its first one, in their order: nodes
\* go on where the node before stopped.
OwnAddresses ==
  post = "done" /\ OwnHosts =>
    \A k \in DOMAIN profiles :
      LET q == profiles[k]
          placed == Placed(q)
          all == UNION {Container(q, c).addresses : c \in placed}
      IN  /\ \A c, d \in placed :
               c # d => Container(q, c).addresses \cap Container(q, d).addresses = {}
          /\ ~Wind(q) =>
               \A m \in DOMAIN NetInfo(q) :
                 LET w == NetInfo(q)[m]
                 IN  {a[2] : a \in {b \in all : b[1] = <<"external", w.name>>}} =
                       (w.address + 1)..(w.address + Cardinality(placed))

\* A turbine component that was launched finds its own config in the VM: the
\* two stages number the containers of a VM alike, and the archive that was
\* injected has the configs of every VM.  When a configure stage died as it wrote
\* and none ended since, the config may be cut off; it is never another's.
OwnConfig ==
  OwnHosts =>
    \A h \in DOMAIN running : \A j \in DOMAIN running[h] :
      LET part == running[h][j].part
      IN  part.turbine # 0 =>
            /\ <<h, j>> \in DOMAIN image
            /\ image[<<h, j>>] \in {part} \cup (IF cut THEN {Torn} ELSE {})

\* To configure again changes nothing, whatever became of earlier stages.
Repeatable == [][configured => topo' = topo]_vars

\* When the post-start stage is done, every VM of every profile gets its
\* containers, or is stopped: the host names of the two stages agree.  A startup
\* script that was cut off is whole again once a configure stage has ended.
Launched ==
  post = "done" ~>
    \/ post = "no"
    \/ \A k \in DOMAIN profiles :
         Hosts(profiles[k]) \subseteq DOMAIN running \cup (IF cut THEN broken ELSE {})

\* The annotation says "how many federates will be connecting to" the broker:
\* the base count and a federate for each turbine.
FederatesCounted ==
  configured =>
    \A k \in DOMAIN profiles :
      LET q == profiles[k]
      IN  Wind(q) /\ q.base # 0 /\ Packed(q) =>
            topo[Broker].feds = q.base + q.count
=============================================================================
