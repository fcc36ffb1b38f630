----------------------------- MODULE Federation -----------------------------
(***************************************************************************)
(* The pre-start stage of two apps that meet in the experiment with each   *)
(* other and with the scale app: ot-sim (apps/otsim) writes a config for   *)
(* each of its field device servers, which is a HELICS federate, and       *)
(* annotates the node with the broker it connects to; helics (apps/helics) *)
(* runs after it, adds up the annotations, those of the scale app and of   *)
(* the user too, and writes the script that starts the brokers of a host.  *)
(* Both inject their script at one path of the VM; the VM boots with the   *)
(* later one.                                                              *)
(*                                                                         *)
(* The saved experiment is topo, what the scale app changes of it, and     *)
(* exp, what these two do.  A host has one address.  Labels, log settings, *)
(* dynamic brokers, front ends and clients, which are no federates, and    *)
(* what else is in a config are left out.  The metadata of a server is its *)
(* own or else that of the app.                                            *)
(***************************************************************************)
EXTENDS Scale, FiniteSetsExt

CONSTANTS
  Experiments, \* pairs of profiles and federation metadata
  MaxMark      \* bound: nodes the user marks "do not boot", or not

\* The servers are hosts of their own, and not the broker of the farm:
\* extract_nodes_type leaves out those that are not in the topology.  A node has a
\* list of annotations.
FederationOf(f) ==
  /\ Len(f.servers) \in Nat /\ DOMAIN f.servers = 1..Len(f.servers)
  /\ \A i \in DOMAIN f.servers : f.servers[i].host \in DOMAIN f.nodes \ {Broker}
  /\ \A i, j \in DOMAIN f.servers : f.servers[i].host = f.servers[j].host => i = j
  /\ IsFiniteSet(DOMAIN f.nodes)
  /\ \A h \in DOMAIN f.nodes :
       /\ Len(f.nodes[h]) \in Nat /\ DOMAIN f.nodes[h] = 1..Len(f.nodes[h])
       /\ \A i \in DOMAIN f.nodes[h] : f.nodes[h][i].count \in Nat
ASSUME FederationAssumption == \A e \in Experiments : FederationOf(e[2])

VARIABLES
  fed,         \* the metadata: helics (<<its root broker>> or <<>>),
               \* servers of ot-sim, nodes with the annotations of the user
  exp,         \* nodes: boot, the annotation (a list), injects
  fpc,         \* which app runs, "ready" when the stage is done
  k,           \* the server it is at
  work,        \* the nodes of the experiment it will print
  todo,        \* the scripts it has not written yet, by host
  connects,    \* config.xml of the servers: the broker they connect to
  scripts,     \* broker scripts by app and host: the brokers they start
  told,        \* the brokers that run, by host
  marks        \* nodes that were marked so far

fedProcess == <<fpc, k, work, todo>>
fedDisk == <<connects, scripts>>
fedVars == <<fed, exp, fedProcess, fedDisk, told, marks>>
allVars == <<vars, fedVars>>

----------------------------------------------------------------------------
(* Brokers *)

SubPort == 24000

\* A broker in an annotation: "host|iface" is named, and 0 is no port.
Endpoint(h, port, named) == [host |-> h, port |-> port, named |-> named]

\* A broker a script starts; only the root has sub brokers, and no port.
BrokerOf(port, feds, subs) == [port |-> port, feds |-> feds, subs |-> subs]

UsesHelics == fed.helics # <<>>
Root == fed.helics[1]

\* Mutant of Address: the root broker is not looked at, there is no port.
AddressPlain(s) ==
  IF s.byName THEN Endpoint(s.broker, 0, FALSE) ELSE Endpoint(s.broker, s.port, FALSE)

\* __process_helics_broker_metadata: a broker other than the root gets the port
\* that makes it a sub broker.
Address(s) ==
  IF s.byName
  THEN Endpoint(s.broker,
                IF UsesHelics /\ s.broker # Root THEN SubPort ELSE 0, FALSE)
  ELSE Endpoint(s.broker, s.port, FALSE)

\* self.brokers when all servers are done: the base count of the first server
\* that names the broker with one, and a federate for each that does.
Counted(h) ==
  {i \in DOMAIN fed.servers :
     /\ fed.servers[i].byName /\ fed.servers[i].broker = h
     /\ fed.servers[i].base # <<>>}
OtsimScripts ==
  [h \in {x \in DOMAIN exp : Counted(x) # {}} |->
     {BrokerOf(0, fed.servers[Min(Counted(h))].base[1]
                    + Cardinality(Counted(h)), 0)}]

\* What the helics app reads of the nodes t, the argument of what follows.  The
\* scale app annotates the broker's host with its address.
Seen(t) ==
  [h \in DOMAIN t |->
     [boot |-> t[h].boot,
      feds |-> IF h = Broker /\ topo[Broker].feds > 0
               THEN <<[broker |-> Endpoint(Broker, 0, FALSE),
                       count |-> topo[Broker].feds]>>
               ELSE t[h].feds]]

\* What it goes through: the annotations of the nodes that boot.
Federates(t) == {h \in DOMAIN t : t[h].boot /\ t[h].feds # <<>>}
Entries(t) == UNION {{h} \X DOMAIN t[h].feds : h \in Federates(t)}
Entry(t, e) == t[e[1]].feds[e[2]]
Feds(t, es) == MapThenSumSet(LAMBDA e : Entry(t, e).count, es)

Direct(t, e) == Entry(t, e).broker.host = Root /\ Entry(t, e).broker.port = 0
SubEntries(t) == {e \in Entries(t) : ~Direct(t, e)}
SubHosts(t) == {Entry(t, e).broker.host : e \in SubEntries(t)}
AtHost(t, h) == {e \in SubEntries(t) : Entry(t, e).broker.host = h}

\* The entry of a new host is made for the address with the default port, and
\* looked up by the broker as it was written: a broker without a port, or a
\* second port on a host, is a KeyError.
Usable(t, e) ==
  LET b == Entry(t, e).broker
  IN  /\ b.host \in DOMAIN t /\ ~b.named /\ b.port # 0
      /\ \A d \in AtHost(t, b.host) : Entry(t, d).broker.port = b.port

\* Mutant of RootFeds: federates of sub brokers are not the root's.
RootFedsDirect(t) == Feds(t, Entries(t) \ SubEntries(t))

\* total_fed_count: all federates, those of sub brokers too.
RootFeds(t) == Feds(t, Entries(t))

SubBroker(t, h) ==
  LET e == CHOOSE x \in AtHost(t, h) : TRUE
  IN  BrokerOf(Entry(t, e).broker.port, Feds(t, AtHost(t, h)), 0)

HelicsScripts(t) ==
  [h \in SubHosts(t) \cup {Root} |->
     (IF h = Root
      THEN {BrokerOf(0, RootFeds(t), Cardinality(SubHosts(t)))} ELSE {})
     \cup (IF h \in SubHosts(t) THEN {SubBroker(t, h)} ELSE {})]

----------------------------------------------------------------------------
(* The stage *)

Start == "90-helics-broker.sh"
Wait == "5-wait-broker.sh"

Inject(t, h, src, dst) == AddInjects(t, h, <<<<src, dst>>>>)

FedInit ==
  /\ Init
  /\ \E e \in Experiments : profiles = e[1] /\ fed = e[2]
  /\ exp = [h \in DOMAIN fed.nodes |->
              [boot |-> TRUE, feds |-> fed.nodes[h], injects |-> <<>>]]
  /\ fpc = "idle" /\ k = 0 /\ work = exp /\ todo = <<>>
  /\ connects = <<>> /\ scripts = <<>> /\ told = <<>> /\ marks = 0

\* phenix starts the experiment.
PreStart ==
  /\ fpc = "idle" /\ pc = "idle" /\ configured /\ ~up
  /\ fpc' = "otsim" /\ k' = 1
  /\ UNCHANGED <<vars, fed, exp, work, todo, fedDisk, told, marks>>

Server == fed.servers[k]

\* A server, with its annotation; without the helics app it waits for its
\* broker, unless that has the port of a sub broker.
OtsimServer ==
  /\ fpc = "otsim" /\ k <= Len(fed.servers)
  /\ Server.byName => Server.broker \in DOMAIN exp
  /\ LET h == Server.host
         a == Address(Server)
         annotated == [work EXCEPT ![h].feds = <<[broker |-> a, count |-> 1]>>]
         waiting == IF UsesHelics \/ a.port = SubPort THEN annotated
                    ELSE Inject(annotated, h, <<"ot-sim wait", a>>, Wait)
     IN  /\ connects' = Over([x \in {h} |-> a], connects)
         /\ work' = Inject(waiting, h, <<"ot-sim config", h>>, "config.xml")
  /\ k' = k + 1
  /\ UNCHANGED <<vars, fed, exp, fpc, todo, scripts, told, marks>>

OtsimServersDone ==
  /\ fpc = "otsim" /\ k > Len(fed.servers)
  /\ fpc' = "otsim scripts" /\ todo' = OtsimScripts
  /\ UNCHANGED <<vars, fed, exp, k, work, fedDisk, told, marks>>

App == IF fpc = "otsim scripts" THEN "ot-sim" ELSE "helics"

\* A start script for a host, and its injection.
WriteBrokerScript ==
  /\ fpc \in {"otsim scripts", "helics scripts"}
  /\ \E h \in DOMAIN todo :
       /\ scripts' = Over([x \in {<<App, h>>} |-> todo[h]], scripts)
       /\ work' = Inject(work, h, <<App, h>>, Start)
       /\ todo' = [x \in DOMAIN todo \ {h} |-> todo[x]]
  /\ UNCHANGED <<vars, fed, exp, fpc, k, connects, told, marks>>

\* An app prints the experiment, for the next one and to be saved.
AppEnd ==
  /\ fpc \in {"otsim scripts", "helics scripts"} /\ DOMAIN todo = {}
  /\ exp' = work
  /\ fpc' = IF fpc = "otsim scripts" /\ UsesHelics THEN "helics" ELSE "ready"
  /\ UNCHANGED <<vars, fed, k, work, todo, fedDisk, told, marks>>

HelicsReads ==
  Root \in DOMAIN exp /\ \A e \in SubEntries(Seen(exp)) : Usable(Seen(exp), e)

\* The federates are made to wait for the root broker.
HelicsCount ==
  /\ fpc = "helics" /\ HelicsReads
  /\ work' = [h \in DOMAIN work |->
                IF h \in Federates(Seen(exp))
                THEN Inject(work, h, <<"helics wait", Root>>, Wait)[h]
                ELSE work[h]]
  /\ todo' = HelicsScripts(Seen(exp))
  /\ fpc' = "helics scripts"
  /\ UNCHANGED <<vars, fed, exp, k, fedDisk, told, marks>>

\* exit(1), an assertion or an exception of an app, or its process dies: the
\* experiment is not started.
FedFail ==
  /\ fpc \notin {"idle", "ready"}
  /\ fpc' = "idle" /\ work' = exp /\ todo' = <<>>
  /\ UNCHANGED <<vars, fed, exp, k, fedDisk, told, marks>>

\* The brokers that run in a VM: those of the last script at that path.
Image(h) ==
  LET at == {i \in DOMAIN exp[h].injects : exp[h].injects[i][2] = Start}
  IN  IF at = {} THEN {} ELSE scripts[exp[h].injects[Max(at)][1]]

FedBoot ==
  /\ fpc = "ready" /\ Boot
  /\ fpc' = "idle"
  /\ told' = [h \in {x \in DOMAIN exp : exp[x].boot} |-> Image(h)]
  /\ UNCHANGED <<fed, exp, k, work, todo, fedDisk, marks>>

FedStop ==
  /\ fpc = "idle" /\ Stop
  /\ told' = <<>>
  /\ UNCHANGED <<fed, exp, fedProcess, fedDisk, marks>>

\* The user marks a node, or takes the mark away, in a stopped experiment.
Mark ==
  /\ fpc = "idle" /\ pc = "idle" /\ ~up /\ marks < MaxMark
  /\ \E h \in DOMAIN exp : exp' = [exp EXCEPT ![h].boot = ~@]
  /\ work' = exp' /\ marks' = marks + 1
  /\ UNCHANGED <<vars, fed, fpc, k, todo, fedDisk, told>>

FedNext ==
  \/ fpc = "idle" /\ Work /\ UNCHANGED fedVars
  \/ PreStart \/ OtsimServer \/ OtsimServersDone \/ HelicsCount
  \/ WriteBrokerScript \/ AppEnd \/ FedFail
  \/ FedBoot \/ FedStop \/ Mark

FedSpec == FedInit /\ [][FedNext]_allVars
FairFedSpec == FedSpec /\ WF_allVars(fpc = "idle" /\ Launch /\ UNCHANGED fedVars)

----------------------------------------------------------------------------
(* Properties *)

\* The federates that run, as <<host, broker, number>>: the servers by the
\* config in their VM, other nodes by their annotation.
IsServer(h) == \E i \in DOMAIN fed.servers : fed.servers[i].host = h
Running ==
  UNION {IF IsServer(h) THEN {<<h, 1, [broker |-> connects[h], count |-> 1]>>}
         ELSE {<<h, i, Seen(exp)[h].feds[i]>> : i \in DOMAIN Seen(exp)[h].feds}
         : h \in DOMAIN told}
Number(fs) == MapThenSumSet(LAMBDA f : f[3].count, fs)
ConnectTo(h, port) ==
  {f \in Running : f[3].broker.host = h /\ f[3].broker.port = port}

\* With the helics app: the root broker waits for as many federates as run and
\* for as many sub brokers as they connect to, each of which runs and waits
\* for the federates that connect to it.  Not so in VMs marked not to boot,
\* which the app only logs; and a sub broker nobody connects to any more runs
\* on, from the script of an earlier start, once nodes were marked.
HelicsCounted ==
  LET subs == {<<f[3].broker.host, f[3].broker.port>> :
                 f \in Running \ ConnectTo(Root, 0)}
  IN  /\ Root \in DOMAIN told =>
           {b \in told[Root] : b.port = 0} =
             {BrokerOf(0, Number(Running), Cardinality(subs))}
      /\ \A s \in subs : s[1] \in DOMAIN told =>
           BrokerOf(s[2], Number(ConnectTo(s[1], s[2])), 0) \in told[s[1]]
      /\ marks = 0 =>
           {s \in UNION {{h} \X {b.port : b \in told[h]} : h \in DOMAIN told} :
              s[2] # 0} = subs

\* Without it: a broker started by the ot-sim app waits for the base count and
\* for the servers that connect to it.  Not so when one of those is marked not
\* to boot, or has metadata of its own for the broker that has no base count.
OtsimCounted ==
  \A h \in DOMAIN told :
    LET to == {i \in DOMAIN fed.servers : Address(fed.servers[i]).host = h}
    IN  Counted(h) # {} /\ to = Counted(h)
          /\ (\A i \in to : fed.servers[i].host \in DOMAIN told)
        => \E b \in told[h] :
             b.feds = fed.servers[Min(to)].base[1]
                        + Number({f \in ConnectTo(h, 0) : IsServer(f[1])})

\* Brokers and federates agree on how many there are, whatever the two apps
\* and the scale app added to the experiment and however often it was started.
BrokersCounted ==
  up => IF UsesHelics THEN HelicsCounted ELSE OtsimCounted

\* The two apps agree on what the address of a broker is: no server that has a
\* broker by host name makes the helics app fail.  Its annotation has the root
\* broker without a port, or the one port of the sub brokers.
ServersUsable ==
  fpc = "helics" =>
    \A h \in DOMAIN exp :
      /\ IsServer(h)
      /\ \A i \in DOMAIN fed.servers :
           fed.servers[i].host = h => fed.servers[i].byName
      => LET b == exp[h].feds[1].broker
         IN  /\ Len(exp[h].feds) = 1
             /\ b.host \in DOMAIN exp
             /\ IF b.host = Root THEN b.port = 0
                ELSE b.port = SubPort /\ ~b.named
=============================================================================
