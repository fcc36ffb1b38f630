------------------------------ MODULE MCScale ------------------------------
(* Scenarios for Scale: the two builtin modes with a remainder, a network   *)
(* without a VLAN, turbines over one VM and over several, no density, a     *)
(* profile without a plugin, and profiles that share host names.  Each with *)
(* no federation; some with one, of which the last two cannot start.        *)
EXTENDS MCPlants

Builtin(plugin, containers, perNode) ==
  [plugin |-> plugin, prefix |-> "node", count |-> 2,
   containers |-> containers, perNode |-> perNode, base |-> 0,
   nets |-> <<[name |-> "lost", address |-> 10], [name |-> "exp", address |-> 30]>>,
   scripts |-> <<"a", "a">>]

Farm(count, perNode, base, ext) ==
  [plugin |-> "wind", prefix |-> "wtg", count |-> count, containers |-> 0,
   perNode |-> perNode, base |-> base, nets |-> <<>>, scripts |-> <<>>,
   ext |-> ext]

External(name, start, address) ==
  [name |-> name, start |-> start, address |-> address, network |-> 50]

MCScenarios ==
  {<<Builtin("builtin1", 5, 2), Builtin("builtin2", 4, 2)>>,
   <<Builtin("builtin1", 0, 2), Farm(2, 5, 2, External("exp", 0, 50))>>,
   <<Farm(1, 8, 0, External("exp", 60, 50)), Builtin("builtin2", 4, 0)>>,
   <<Farm(1, 0, 1, External("exp", 0, 55))>>,
   <<Farm(1, 3, 1, External("lost", 0, 55))>>,
   <<Builtin("builtin1", 3, 2), Builtin("builtin1", 1, 2)>>,
   <<Builtin("builtin1", 1, 2), Builtin("none", 1, 2)>>}

MCBroker == <<"", "broker", 0>>

Host(name) == <<"", name, 0>>
Nodes(names) == [h \in {Host(x) : x \in names} \cup {MCBroker} |-> <<>>]

\* A server of ot-sim: a broker by host name, with a base count or without.
Named(host, broker, base) ==
  [host |-> Host(host), broker |-> broker, byName |-> TRUE, port |-> 0,
   base |-> base]
Addressed(host, broker, port) ==
  [host |-> Host(host), broker |-> broker, byName |-> FALSE, port |-> port,
   base |-> <<>>]

\* An annotation of the user.
ByUser(broker, port, named, count) ==
  <<[broker |-> Endpoint(broker, port, named), count |-> count]>>

NoFederation == [helics |-> <<>>, servers |-> <<>>, nodes |-> Nodes({})]

\* Two sub brokers, one of them on the host of the root, and a second user.
SubBrokers ==
  [helics |-> <<Host("root")>>,
   servers |-> <<Named("s1", Host("sub"), <<>>), Named("s2", Host("sub"), <<2>>),
                 Named("s3", Host("root"), <<1>>)>>,
   nodes |-> [Nodes({"root", "sub", "s1", "s2", "s3", "sim"}) EXCEPT
                ![Host("sim")] = ByUser(Host("root"), 24001, FALSE, 3)
                                   \o ByUser(Host("root"), 0, TRUE, 1)]]

\* The root is the broker of the farm.
FarmBroker ==
  [helics |-> <<MCBroker>>, servers |-> <<Named("s1", Host("sub"), <<>>)>>,
   nodes |-> Nodes({"sub", "s1"})]

\* ot-sim starts the brokers, one for two servers and one that is not counted.
OtsimBrokers ==
  [helics |-> <<>>,
   servers |-> <<Named("s1", MCBroker, <<2>>), Named("s2", MCBroker, <<2>>),
                 Addressed("s3", Host("far"), 0)>>,
   nodes |-> Nodes({"s1", "s2", "s3"})]

\* A sub broker by interface; a second port on one host.
ByInterface ==
  [helics |-> <<MCBroker>>, servers |-> <<>>,
   nodes |-> [Nodes({"sub", "sim"}) EXCEPT
                ![Host("sim")] = ByUser(Host("sub"), 0, TRUE, 1)]]
TwoPorts ==
  [helics |-> <<MCBroker>>, servers |-> <<Named("s1", Host("sub"), <<>>)>>,
   nodes |-> [Nodes({"sub", "s1", "sim"}) EXCEPT
                ![Host("sim")] = ByUser(Host("sub"), 24001, FALSE, 1)]]

OneFarm == <<Farm(1, 6, 1, External("exp", 0, 50))>>
OneNode == <<Builtin("builtin1", 1, 2)>>

MCExperiments ==
  (MCScenarios \X {NoFederation})
    \cup ({OneNode} \X {SubBrokers, OtsimBrokers, ByInterface, TwoPorts})
    \cup {<<OneFarm, FarmBroker>>}

AllScenarios == MCScenarios \cup {OneNode, OneFarm, <<>>}
ASSUME NetworksAssumption ==
  \A s \in AllScenarios : \A l \in DOMAIN s : OwnNetworks(s[l])

AllExperiments == MCExperiments \cup {<<<<>>, NoFederation>>}
\* Without sceptre; sceptre with nothing of the others.
Settings == (MCExperiments \X {NoPlant}) \cup ({<<<<>>, NoFederation>>} \X AllPlants)
ASSUME PlantsAssumption == \A x \in Settings : Addressable(x[2])

OnlyFarm == {OneFarm}
FarmAlone == {<<OneFarm, NoFederation>>}
NoPlants == FarmAlone \X {NoPlant}
=============================================================================
