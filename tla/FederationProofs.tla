-------------------------- MODULE FederationProofs --------------------------
(*************************************************************************)
(* The federation and sceptre leave the scale app what it is; ot-sim's   *)
(* addresses are ones the helics app can use, for all metadata; the      *)
(* brokers wait for as many as connect to them, which needs sums over    *)
(* finite sets of nodes; every file of a plant that is injected is there; *)
(* and every tag, list and client of a plant names a register that leads *)
(* to its point, which needs sequences put one after the other and       *)
(* registers that one counter numbers.                                   *)
(*************************************************************************)
EXTENDS Sceptre, ScaleProofs, FiniteSetTheorems, SequenceTheorems, TLAPS

LEMMA FedStep == [FedNext]_allVars => [Next]_vars
<1> SUFFICES ASSUME [FedNext]_allVars PROVE [Next]_vars
  OBVIOUS
<1>1. CASE fpc = "idle" /\ Work /\ UNCHANGED fedVars
  BY <1>1 DEF Next
<1>2. CASE PreStart
  BY <1>2 DEF PreStart
<1>3. CASE OtsimServer
  BY <1>3 DEF OtsimServer
<1>4. CASE OtsimServersDone
  BY <1>4 DEF OtsimServersDone
<1>5. CASE HelicsCount
  BY <1>5 DEF HelicsCount
<1>6. CASE WriteBrokerScript
  BY <1>6 DEF WriteBrokerScript
<1>7. CASE AppEnd
  BY <1>7 DEF AppEnd
<1>8. CASE FedFail
  BY <1>8 DEF FedFail
<1>9. CASE FedBoot
  BY <1>9 DEF FedBoot, Next
<1>10. CASE FedStop
  BY <1>10 DEF FedStop, Next
<1>11. CASE Mark
  BY <1>11 DEF Mark
<1>12. CASE UNCHANGED allVars
  BY <1>12 DEF allVars
<1>13. QED
  BY <1>1, <1>2, <1>3, <1>4, <1>5, <1>6, <1>7, <1>8, <1>9, <1>10, <1>11, <1>12
     DEF FedNext

\* Each step of the composition is one of the scale app and the cluster, or
\* leaves them alone: what holds of Scale holds beside the other two apps.
THEOREM Composed == FedSpec => Spec
<1>1. FedInit => Init
  BY DEF FedInit
<1>2. QED
  BY <1>1, FedStep, PTL DEF FedSpec, Spec

----------------------------------------------------------------------------
(* The inductive invariant: the servers that ot-sim has gone through have   *)
(* the annotation that it gave one of those at their host.                  *)

Servers == fed.servers

Metadata == \E e \in Experiments : fed = e[2]

NodesOf(t) ==
  /\ DOMAIN t = DOMAIN fed.nodes
  /\ \A h \in DOMAIN t : DOMAIN t[h] = {"boot", "feds", "injects"}

Annotated(t, i) ==
  \E j \in DOMAIN Servers :
    /\ Servers[j].host = Servers[i].host
    /\ t[Servers[i].host].feds = <<[broker |-> Address(Servers[j]), count |-> 1]>>
    /\ Servers[j].byName => Servers[j].broker \in DOMAIN exp

FedInv ==
  /\ Metadata /\ NodesOf(exp) /\ NodesOf(work)
  /\ fpc = "otsim" =>
       k \in Nat \ {0} /\ \A i \in DOMAIN Servers : i < k => Annotated(work, i)
  /\ fpc = "otsim scripts" => \A i \in DOMAIN Servers : Annotated(work, i)
  /\ fpc = "helics" => UsesHelics /\ \A i \in DOMAIN Servers : Annotated(exp, i)

LEMMA ServersShape ==
  ASSUME Metadata
  PROVE  /\ Len(Servers) \in Nat
         /\ DOMAIN Servers = 1..Len(Servers)
         /\ \A i \in DOMAIN Servers : Servers[i].host \in DOMAIN fed.nodes
<1>1. PICK e \in Experiments : fed = e[2]
  BY DEF Metadata
<1>2. FederationOf(e[2])
  BY FederationAssumption
<1>3. QED
  BY <1>1, <1>2 DEF Servers, FederationOf

\* An injection leaves annotations as they are.
LEMMA InjectOnly ==
  ASSUME NEW t, NodesOf(t), NEW h, NEW src, NEW dst
  PROVE  /\ NodesOf(Inject(t, h, src, dst))
         /\ \A x \in DOMAIN t : Inject(t, h, src, dst)[x].feds = t[x].feds
<1> DEFINE new == <<<<src, dst>>>>
           r == AddInjects(t, h, new)
           s == Added(t[h].injects, new)
<1>1. r = [t EXCEPT ![h] = [t[h] EXCEPT !.injects = s]]
  BY DEF AddInjects
<1> HIDE DEF s, new
<1>2. DOMAIN r = DOMAIN t
  BY <1>1
<1>3. ASSUME NEW x \in DOMAIN t
      PROVE  DOMAIN r[x] = DOMAIN t[x] /\ r[x].feds = t[x].feds
  <2>1. CASE x = h
    <3>1. r[x] = [t[h] EXCEPT !.injects = s]
      BY <1>1, <2>1
    <3>2. "feds" \in DOMAIN t[h]
      BY <2>1 DEF NodesOf
    <3>3. QED
      BY <3>1, <3>2, <2>1
  <2>2. CASE x # h
    BY <1>1, <2>2
  <2>3. QED
    BY <2>1, <2>2
<1>4. QED
  BY <1>2, <1>3 DEF Inject, NodesOf, new

LEMMA FedInvInit == FedInit => FedInv
BY DEF FedInit, FedInv, Metadata, NodesOf

LEMMA FedInvNext == FedInv /\ [FedNext]_allVars => FedInv'
<1> SUFFICES ASSUME FedInv, [FedNext]_allVars PROVE FedInv'
  OBVIOUS
<1>0. /\ Len(Servers) \in Nat
      /\ DOMAIN Servers = 1..Len(Servers)
      /\ \A i \in DOMAIN Servers : Servers[i].host \in DOMAIN work
  BY ServersShape DEF FedInv, NodesOf
<1>1. CASE fpc = "idle" /\ Work /\ UNCHANGED fedVars
  BY <1>1 DEF FedInv, Metadata, NodesOf, Servers, fedVars, fedProcess
<1>2. CASE PreStart
  <2>1. ASSUME NEW i \in DOMAIN Servers PROVE ~(i < 1)
    BY <1>0
  <2>2. QED
    BY <1>2, <2>1 DEF PreStart, FedInv, Metadata, NodesOf, Servers
<1>3. CASE OtsimServer
  <2> DEFINE h == Server.host
             a == Address(Server)
             note == <<[broker |-> a, count |-> 1]>>
             t == [work EXCEPT ![h].feds = note]
             w == IF UsesHelics \/ a.port = SubPort THEN t
                  ELSE Inject(t, h, <<"ot-sim wait", a>>, Wait)
  <2>1. k \in DOMAIN Servers /\ k \in Nat \ {0} /\ h \in DOMAIN work
    <3>1. fpc = "otsim" /\ k <= Len(Servers)
      BY <1>3 DEF OtsimServer, Servers
    <3>2. k \in Nat \ {0}
      BY <3>1 DEF FedInv
    <3>3. k \in DOMAIN Servers
      BY <1>0, <3>1, <3>2
    <3>4. h = Servers[k].host
      BY DEF Server, Servers
    <3>5. QED
      BY <1>0, <3>2, <3>3, <3>4
  <2>2. /\ work' = Inject(w, h, <<"ot-sim config", h>>, "config.xml")
        /\ fpc' = "otsim" /\ k' = k + 1 /\ UNCHANGED <<fed, exp>>
        /\ Server.byName => Server.broker \in DOMAIN exp
    BY <1>3 DEF OtsimServer
  <2>3. t = [work EXCEPT ![h] = [work[h] EXCEPT !.feds = note]]
    OBVIOUS
  <2> HIDE DEF note
  <2>4. NodesOf(t) /\ t[h].feds = note
        /\ \A x \in DOMAIN t : x # h => t[x].feds = work[x].feds
    BY <2>1, <2>3 DEF FedInv, NodesOf
  <2> HIDE DEF t
  <2>5. NodesOf(w) /\ \A x \in DOMAIN t : w[x].feds = t[x].feds
    <3> DEFINE src == <<"ot-sim wait", a>>
               u == Inject(t, h, src, Wait)
    <3> HIDE DEF src
    <3>1. NodesOf(u)
      BY <2>4, InjectOnly
    <3>2. \A x \in DOMAIN t : u[x].feds = t[x].feds
      <4>1. NodesOf(t)
        BY <2>4
      <4>2. QED
        BY <4>1, InjectOnly
    <3> HIDE DEF u
    <3>3. w = t \/ w = u
      BY DEF u, w, src
    <3> HIDE DEF w
    <3>4. QED
      BY <2>4, <3>1, <3>2, <3>3
  <2> HIDE DEF w
  <2>6. NodesOf(work') /\ \A x \in DOMAIN w : work'[x].feds = w[x].feds
    <3> DEFINE src == <<"ot-sim config", h>>
               dst == "config.xml"
               u == Inject(w, h, src, dst)
    <3> HIDE DEF src, dst
    <3>1. NodesOf(u)
      BY <2>5, InjectOnly
    <3>2. \A x \in DOMAIN w : u[x].feds = w[x].feds
      <4>1. NodesOf(w)
        BY <2>5
      <4>2. QED
        BY <4>1, InjectOnly
    <3> HIDE DEF u
    <3>3. work' = u
      BY <2>2 DEF u, src, dst
    <3>4. QED
      BY <3>1, <3>2, <3>3
  <2>7. \A x \in DOMAIN work : work'[x].feds = IF x = h THEN note ELSE work[x].feds
    BY <2>4, <2>5, <2>6 DEF FedInv, NodesOf
  <2>8. ASSUME NEW i \in DOMAIN Servers, i < k + 1 PROVE Annotated(work, i)'
    <3>1. Servers[i].host \in DOMAIN work
      BY <1>0
    <3>2. UNCHANGED Servers /\ \A s : Address(s)' = Address(s)
      BY <2>2 DEF Servers, Address, UsesHelics, Root
    <3>3. CASE Servers[i].host = h
      <4>1. work'[Servers[i].host].feds = note
        BY <2>7, <3>1, <3>3
      <4>2. QED
        BY <2>1, <2>2, <3>2, <3>3, <4>1 DEF Annotated, Server, Servers, note
    <3>4. CASE Servers[i].host # h
      <4>1. i \in Nat /\ i < k
        BY <1>0, <2>1, <2>8, <3>4 DEF Server, Servers
      <4>2. Annotated(work, i)
        BY <4>1, <1>3 DEF FedInv, OtsimServer
      <4>3. work'[Servers[i].host].feds = work[Servers[i].host].feds
        BY <2>7, <3>1, <3>4
      <4>4. QED
        BY <2>2, <3>2, <4>2, <4>3 DEF Annotated
    <3>5. QED
      BY <3>3, <3>4
  <2>9. Metadata' /\ NodesOf(exp)'
    BY <2>2 DEF FedInv, Metadata, NodesOf
  <2>10. NodesOf(work)'
    BY <2>2, <2>6 DEF NodesOf
  <2>11. k' \in Nat \ {0} /\ \A i \in DOMAIN Servers' : i < k' => Annotated(work, i)'
    <3>1. k \in Nat \ {0} /\ k' = k + 1
      BY <2>1, <2>2, Zenon
    <3>2. Servers' = Servers
      BY <2>2 DEF Servers
    <3>3. k' \in Nat \ {0}
      BY <3>1
    <3>4. QED
      BY <2>8, <3>1, <3>2, <3>3
  <2>12. QED
    BY <2>2, <2>9, <2>10, <2>11 DEF FedInv
<1>4. CASE OtsimServersDone
  <2>1. /\ fpc = "otsim" /\ fpc' = "otsim scripts" /\ k > Len(Servers) /\ k \in Nat
        /\ UNCHANGED <<fed, exp, work>>
    BY <1>4 DEF OtsimServersDone, Servers, FedInv
  <2>2. ASSUME NEW i \in DOMAIN Servers PROVE i < k
    <3>1. i \in Nat /\ i <= Len(Servers)
      BY <1>0
    <3>2. Len(Servers) \in Nat
      BY <1>0
    <3>3. k > Len(Servers) /\ k \in Nat
      BY <2>1
    <3>4. QED
      BY <3>1, <3>2, <3>3
  <2>3. ASSUME NEW i \in DOMAIN Servers PROVE Annotated(work, i)'
    BY <2>1, <2>2 DEF FedInv, Annotated, Servers, Address, UsesHelics, Root
  <2>4. QED
    BY <2>1, <2>3 DEF FedInv, Metadata, NodesOf, Servers
<1>5. CASE WriteBrokerScript
  <2>1. PICK h \in DOMAIN todo : work' = Inject(work, h, <<App, h>>, Start)
    BY <1>5 DEF WriteBrokerScript
  <2>2. fpc' = fpc /\ fpc # "otsim" /\ fpc # "helics" /\ UNCHANGED <<fed, exp>>
    BY <1>5 DEF WriteBrokerScript
  <2>3. NodesOf(work') /\ \A x \in DOMAIN work : work'[x].feds = work[x].feds
    <3> DEFINE t == Inject(work, h, <<App, h>>, Start)
    <3>1. NodesOf(work)
      BY DEF FedInv
    <3>2. NodesOf(t)
      BY <3>1, InjectOnly
    <3>3. \A x \in DOMAIN work : t[x].feds = work[x].feds
      BY <3>1, InjectOnly
    <3> HIDE DEF t
    <3>4. work' = t
      BY <2>1 DEF t
    <3>5. QED
      BY <3>2, <3>3, <3>4
  <2>4. ASSUME fpc = "otsim scripts", NEW i \in DOMAIN Servers
        PROVE  Annotated(work, i)'
    <3>1. Servers[i].host \in DOMAIN work
      BY <1>0
    <3>2. Annotated(work, i)
      BY <2>4 DEF FedInv
    <3>3. QED
      BY <2>2, <2>3, <3>1, <3>2 DEF Annotated, Servers, Address, UsesHelics, Root
  <2>5. QED
    BY <2>2, <2>3, <2>4 DEF FedInv, Metadata, NodesOf, Servers
<1>6. CASE AppEnd
  <2>1. /\ fpc \in {"otsim scripts", "helics scripts"}
        /\ fpc' \in {"helics", "ready"}
        /\ fpc' = "helics" => fpc = "otsim scripts"
        /\ exp' = work /\ UNCHANGED <<fed, work>>
        /\ fpc' = "helics" => UsesHelics'
    BY <1>6 DEF AppEnd, UsesHelics
  <2>2. DOMAIN exp' = DOMAIN exp
    BY <2>1 DEF FedInv, NodesOf
  <2>3. ASSUME fpc' = "helics", NEW i \in DOMAIN Servers PROVE Annotated(exp, i)'
    <3>1. Annotated(work, i)
      BY <2>1, <2>3 DEF FedInv
    <3>2. QED
      BY <2>1, <2>2, <3>1 DEF Annotated, Servers, Address, UsesHelics, Root
  <2>4. QED
    BY <2>1, <2>3 DEF FedInv, Metadata, NodesOf, Servers
<1>7. CASE HelicsCount
  <2>1. /\ fpc' = "helics scripts" /\ UNCHANGED <<fed, exp>>
        /\ work' = [h \in DOMAIN work |->
                      IF h \in Federates(Seen(exp))
                      THEN Inject(work, h, <<"helics wait", Root>>, Wait)[h]
                      ELSE work[h]]
    BY <1>7 DEF HelicsCount
  <2>2. ASSUME NEW h \in DOMAIN work PROVE DOMAIN work'[h] = DOMAIN work[h]
    <3> DEFINE t == Inject(work, h, <<"helics wait", Root>>, Wait)
    <3>1. NodesOf(t)
      BY InjectOnly DEF FedInv
    <3> HIDE DEF t
    <3>2. DOMAIN t[h] = DOMAIN work[h]
      BY <3>1 DEF FedInv, NodesOf
    <3>3. work'[h] = t[h] \/ work'[h] = work[h]
      BY <2>1 DEF t
    <3>4. QED
      BY <3>2, <3>3
  <2>3. NodesOf(work')
    BY <2>1, <2>2 DEF FedInv, NodesOf
  <2>4. QED
    BY <2>1, <2>3 DEF FedInv, Metadata, NodesOf
<1>8. CASE FedFail
  BY <1>8 DEF FedFail, FedInv, Metadata, NodesOf
<1>9. CASE FedBoot
  BY <1>9 DEF FedBoot, FedInv, Metadata, NodesOf
<1>10. CASE FedStop
  BY <1>10 DEF FedStop, fedProcess, FedInv, Metadata, NodesOf
<1>11. CASE Mark
  <2>1. PICK h \in DOMAIN exp : exp' = [exp EXCEPT ![h].boot = ~@]
    BY <1>11 DEF Mark
  <2>2. NodesOf(exp)' /\ NodesOf(work)' /\ fpc' = "idle" /\ UNCHANGED fed
    BY <1>11, <2>1 DEF Mark, FedInv, NodesOf
  <2>3. QED
    BY <2>2 DEF FedInv, Metadata
<1>12. CASE UNCHANGED allVars
  <2>1. UNCHANGED <<fed, exp, work, k, fpc>>
    BY <1>12 DEF allVars, fedVars, fedProcess
  <2>2. \A i : Annotated(work, i)' = Annotated(work, i)
                /\ Annotated(exp, i)' = Annotated(exp, i)
    BY <2>1 DEF Annotated, Servers, Address, UsesHelics, Root
  <2>3. QED
    BY <2>1, <2>2 DEF FedInv, Metadata, NodesOf, Servers, UsesHelics
<1>13. QED
  BY <1>1, <1>2, <1>3, <1>4, <1>5, <1>6, <1>7, <1>8, <1>9, <1>10, <1>11, <1>12
     DEF FedNext

LEMMA FedInvUsable == FedInv => ServersUsable
<1> SUFFICES ASSUME FedInv, fpc = "helics", NEW h \in DOMAIN exp, IsServer(h),
                    \A i \in DOMAIN Servers :
                      Servers[i].host = h => Servers[i].byName
             PROVE  /\ Len(exp[h].feds) = 1
                    /\ exp[h].feds[1].broker.host \in DOMAIN exp
                    /\ IF exp[h].feds[1].broker.host = Root
                       THEN exp[h].feds[1].broker.port = 0
                       ELSE /\ exp[h].feds[1].broker.port = SubPort
                            /\ ~exp[h].feds[1].broker.named
  BY DEF ServersUsable, Servers
<1>1. PICK i \in DOMAIN Servers : Servers[i].host = h
  BY DEF IsServer, Servers
<1>2. PICK j \in DOMAIN Servers :
        /\ Servers[j].host = h
        /\ exp[h].feds = <<[broker |-> Address(Servers[j]), count |-> 1]>>
        /\ Servers[j].byName => Servers[j].broker \in DOMAIN exp
  BY <1>1 DEF FedInv, Annotated
<1>3. Servers[j].byName
  BY <1>2
<1>4. UsesHelics
  BY DEF FedInv
<1>5. QED
  BY <1>2, <1>3, <1>4 DEF Address, Endpoint

\* What ot-sim writes into an annotation for a broker by host name is never
\* what makes the helics app fail.
THEOREM ServersUsableHolds == FedSpec => []ServersUsable
BY FedInvInit, FedInvNext, FedInvUsable, PTL DEF FedSpec

----------------------------------------------------------------------------
(* The sceptre app *)

LEMMA SceptreStep ==
  ASSUME [SceptreNext]_everything
  PROVE  [FedNext]_allVars \/ SceptreFail
<1>1. CASE Others
  BY <1>1 DEF Others
<1>2. SceptreConfigure \/ SceptreStart => UNCHANGED allVars
  BY DEF SceptreConfigure, SceptreStart
<1>3. PrepareProvider \/ PrepareServer \/ PrepareFederate \/ PrepareClient
        => UNCHANGED allVars
  BY DEF PrepareProvider, PrepareServer, PrepareFederate, PrepareClient
<1>4. PrepareOpc \/ PrepareScada \/ PrepareOther \/ PrepareHistorian
        => UNCHANGED allVars
  BY DEF PrepareOpc, PrepareScada, PrepareOther, PrepareHistorian
<1>5. NextStage \/ SceptreEnd => UNCHANGED allVars
  BY DEF NextStage, SceptreEnd
<1>6. CASE UNCHANGED everything
  BY <1>6 DEF everything
<1>7. QED
  BY <1>1, <1>2, <1>3, <1>4, <1>5, <1>6 DEF SceptreNext

\* Each step with the sceptre app is one of the scale app and the cluster, or
\* leaves them alone: what holds of Scale holds beside all three.
THEOREM ComposedWithSceptre == SceptreSpec => Spec
<1>1. SceptreInit => Init
  BY DEF SceptreInit, FedInit
<1>2. SceptreFail => UNCHANGED vars
  BY DEF SceptreFail
<1>3. [SceptreNext]_everything => [Next]_vars
  BY <1>2, SceptreStep, FedStep
<1>4. QED
  BY <1>1, <1>3, PTL DEF SceptreSpec, Spec

\* Neither the files of the sceptre app nor its failures change what ot-sim's
\* annotations lead to.
THEOREM ServersUsableWithSceptre == SceptreSpec => []ServersUsable
<1>1. SceptreInit => FedInv
  BY FedInvInit DEF SceptreInit
<1>2. FedInv /\ SceptreFail => FedInv'
  BY DEF SceptreFail, FedInv, Metadata, NodesOf
<1>3. FedInv /\ [SceptreNext]_everything => FedInv'
  BY <1>2, SceptreStep, FedInvNext
<1>4. QED
  BY <1>1, <1>3, FedInvUsable, PTL DEF SceptreSpec

\* Registers of a host that one counter numbers, those of a protocol or for
\* modbus those of a kind, have different addresses: an address of one kind in a
\* file of the plant stands for one register.
THEOREM AddressesDistinct ==
  ASSUME NEW proto, NEW last \in Nat, NEW regs, DOMAIN regs = 1..last,
         NEW i \in 1..last, NEW j \in 1..last, i < j,
         proto = "modbus" => regs[i].kind = regs[j].kind
  PROVE  Numbered(proto, regs)[i].addr < Numbered(proto, regs)[j].addr
<1> DEFINE Lower(x) == {y \in 1..(x - 1) :
                           proto = "modbus" => regs[y].kind = regs[x].kind}
<1>1. \A x \in 1..last : IsFiniteSet(Lower(x)) /\ Cardinality(Lower(x)) \in Nat
  <2> TAKE x \in 1..last
  <2>1. IsFiniteSet(1..(x - 1))
    BY FS_Interval
  <2>2. Lower(x) \in SUBSET (1..(x - 1))
    OBVIOUS
  <2> HIDE DEF Lower
  <2>3. IsFiniteSet(Lower(x))
    BY <2>1, <2>2, FS_Subset
  <2>4. QED
    BY <2>3, FS_CardinalityType
<1>2. Lower(i) \subseteq Lower(j) /\ i \in Lower(j) /\ i \notin Lower(i)
  OBVIOUS
<1>3. Cardinality(Lower(i)) < Cardinality(Lower(j))
  <2>1. Lower(i) # Lower(j)
    BY <1>2
  <2>2. IsFiniteSet(Lower(j)) /\ Lower(i) \in SUBSET Lower(j)
    BY <1>1, <1>2
  <2> HIDE DEF Lower
  <2>3. /\ Cardinality(Lower(i)) <= Cardinality(Lower(j))
        /\ Cardinality(Lower(j)) = Cardinality(Lower(i)) => Lower(j) = Lower(i)
    BY <2>2, FS_Subset
  <2>4. Cardinality(Lower(i)) \in Nat /\ Cardinality(Lower(j)) \in Nat
    BY <1>1
  <2>5. QED
    BY <2>1, <2>3, <2>4
<1>4. Base(proto, regs[i].kind) = Base(proto, regs[j].kind)
      /\ Base(proto, regs[i].kind) \in Nat
  BY DEF Base
<1>5. \A x \in 1..last : Numbered(proto, regs)[x].addr
                        = Base(proto, regs[x].kind) + Cardinality(Lower(x))
  BY DEF Numbered
<1> HIDE DEF Lower
<1>6. QED
  BY <1>1, <1>3, <1>4, <1>5

----------------------------------------------------------------------------
(* Sums over finite sets, as MapThenSumSet adds them up                     *)

\* A collection of subsets of a finite set that has the empty one, and with one
\* that with one more element, has them all.
LEMMA InductiveSets ==
  ASSUME NEW S, IsFiniteSet(S), NEW C \in SUBSET SUBSET S, {} \in C,
         \A s \in C : \A x \in S \ s : s \cup {x} \in C
  PROVE  C = SUBSET S
<1> DEFINE T == {m \in Nat : \A s \in SUBSET S : Cardinality(s) = m => s \in C}
<1>1. \A s \in SUBSET S : IsFiniteSet(s) /\ Cardinality(s) \in Nat
  BY FS_Subset, FS_CardinalityType
<1>2. 0 \in T
  BY <1>1, FS_EmptySet
<1>3. ASSUME NEW m \in T PROVE m + 1 \in T
  <2>1. ASSUME NEW s \in SUBSET S, Cardinality(s) = m + 1 PROVE s \in C
    <3>1. m \in Nat /\ IsFiniteSet(s)
      BY <1>1
    <3>2. s # {}
      BY <2>1, <3>1, FS_EmptySet
    <3>3. PICK x \in s : TRUE
      BY <3>2
    <3>4. Cardinality(s \ {x}) = m
      <4>1. Cardinality(s \ {x}) = Cardinality(s) - 1
        BY <3>1, <3>3, FS_RemoveElement
      <4>. QED  BY <2>1, <3>1, <4>1
    <3>5. s \ {x} \in C
      BY <3>4
    <3>6. x \in S \ (s \ {x}) /\ s = (s \ {x}) \cup {x}
      BY <3>3
    <3>. QED  BY <3>5, <3>6
  <2>. QED  BY <2>1
<1>4. T = Nat
  <2>1. T \in SUBSET Nat
    OBVIOUS
  <2>. HIDE DEF T
  <2>. QED  BY <1>2, <1>3, <2>1, Inductive
<1>. QED  BY <1>1, <1>4

OneOf(s) == CHOOSE x \in s : TRUE

\* f has the sums over the subsets of S.
Adds(c, S, f) ==
  f = [s \in SUBSET S |-> IF s = {} THEN 0 ELSE c[OneOf(s)] + f[s \ {OneOf(s)}]]

LEMMA Taken ==
  ASSUME NEW S, IsFiniteSet(S), NEW s \in SUBSET S, s # {}, NEW x \in s
  PROVE  /\ OneOf(s) \in s
         /\ s \ {x} \in SUBSET S
         /\ Cardinality(s) \in Nat \ {0} /\ Cardinality(s \ {x}) = Cardinality(s) - 1
<1>1. IsFiniteSet(s)
  BY FS_Subset
<1>2. Cardinality(s) \in Nat
  BY <1>1, FS_CardinalityType
<1>3. Cardinality(s) # 0
  BY <1>1, FS_EmptySet
<1>. QED  BY <1>1, <1>2, <1>3, FS_RemoveElement DEF OneOf

LEMMA AddsExist ==
  ASSUME NEW S, IsFiniteSet(S), NEW c \in [S -> Nat]
  PROVE  \E f \in [SUBSET S -> Nat] : Adds(c, S, f)
<1> DEFINE D(m) == {s \in SUBSET S : Cardinality(s) <= m}
           Right(f, m) == \A s \in D(m) :
             f[s] = IF s = {} THEN 0 ELSE c[OneOf(s)] + f[s \ {OneOf(s)}]
           T == {m \in Nat : \E f \in [D(m) -> Nat] : Right(f, m)}
<1>0. \A s \in SUBSET S : Cardinality(s) \in Nat
  BY FS_Subset, FS_CardinalityType
<1>1. 0 \in T
  <2> DEFINE f == [s \in D(0) |-> 0]
  <2>1. \A s \in D(0) : s = {}
    BY <1>0, FS_Subset, FS_EmptySet
  <2>2. f \in [D(0) -> Nat] /\ Right(f, 0)
    BY <2>1
  <2>. QED  BY <2>2
<1>2. ASSUME NEW m \in T PROVE m + 1 \in T
  <2>1. m \in Nat
    OBVIOUS
  <2>2. PICK f \in [D(m) -> Nat] : Right(f, m)
    OBVIOUS
  <2> DEFINE g == [s \in D(m + 1) |->
                     IF s = {} THEN 0 ELSE c[OneOf(s)] + f[s \ {OneOf(s)}]]
  <2>3. ASSUME NEW s \in D(m + 1), s # {}
        PROVE  OneOf(s) \in S /\ s \ {OneOf(s)} \in D(m)
    <3>1. s \in SUBSET S /\ Cardinality(s) <= m + 1
      OBVIOUS
    <3>2. OneOf(s) \in s
      BY <2>3 DEF OneOf
    <3>3. /\ s \ {OneOf(s)} \in SUBSET S /\ Cardinality(s) \in Nat
          /\ Cardinality(s \ {OneOf(s)}) = Cardinality(s) - 1
      BY <2>3, <3>1, <3>2, Taken
    <3>. QED  BY <2>1, <3>1, <3>2, <3>3
  <2>4. g \in [D(m + 1) -> Nat]
    <3>1. ASSUME NEW s \in D(m + 1), s # {} PROVE c[OneOf(s)] + f[s \ {OneOf(s)}] \in Nat
      <4>1. c[OneOf(s)] \in Nat /\ f[s \ {OneOf(s)}] \in Nat
        BY <2>3, <3>1
      <4>. QED  BY <4>1
    <3>. QED  BY <3>1
  <2>5. \A s \in D(m) : s \in D(m + 1) /\ g[s] = f[s]
    BY <1>0, <2>1, <2>2
  <2>6. Right(g, m + 1)
    BY <2>3, <2>5
  <2>7. m + 1 \in Nat
    BY <2>1
  <2> HIDE DEF g, D, Right
  <2>8. \E h \in [D(m + 1) -> Nat] : Right(h, m + 1)
    BY <2>4, <2>6
  <2>. QED  BY <2>7, <2>8
<1>3. T = Nat
  <2>1. T \in SUBSET Nat
    OBVIOUS
  <2>. HIDE DEF T
  <2>. QED  BY <1>1, <1>2, <2>1, Inductive
<1>4. Cardinality(S) \in Nat /\ D(Cardinality(S)) = SUBSET S
  BY <1>0, FS_Subset
<1>5. PICK f \in [D(Cardinality(S)) -> Nat] : Right(f, Cardinality(S))
  BY <1>3, <1>4
<1>6. f \in [SUBSET S -> Nat]
  BY <1>4, <1>5
<1>7. Adds(c, S, f)
  BY <1>4, <1>5 DEF Adds
<1>. QED  BY <1>6, <1>7

\* In whatever order the elements are added.
AddsUp(c, S, f) ==
  /\ f \in [SUBSET S -> Nat] /\ f[{}] = 0
  /\ \A s \in SUBSET S : \A x \in s : f[s] = c[x] + f[s \ {x}]

LEMMA AddsEach ==
  ASSUME NEW S, IsFiniteSet(S), NEW c \in [S -> Nat], NEW f, Adds(c, S, f)
  PROVE  AddsUp(c, S, f)
<1> DEFINE Right(s) == f[s] \in Nat /\ \A x \in s : f[s] = c[x] + f[s \ {x}]
           T == {m \in Nat : \A s \in SUBSET S : Cardinality(s) <= m => Right(s)}
<1>1. /\ DOMAIN f = SUBSET S /\ f = [s \in SUBSET S |-> f[s]]
      /\ f[{}] = 0
      /\ \A s \in SUBSET S : s # {} => f[s] = c[OneOf(s)] + f[s \ {OneOf(s)}]
  <2> DEFINE g == [s \in SUBSET S |-> IF s = {} THEN 0 ELSE c[OneOf(s)] + f[s \ {OneOf(s)}]]
  <2>1. f = g
    BY DEF Adds
  <2>2. DOMAIN g = SUBSET S /\ g = [s \in SUBSET S |-> g[s]]
    OBVIOUS
  <2>3. \A s \in SUBSET S : g[s] = IF s = {} THEN 0 ELSE c[OneOf(s)] + f[s \ {OneOf(s)}]
    OBVIOUS
  <2> HIDE DEF g
  <2>. QED  BY <2>1, <2>2, <2>3
<1>2. \A s \in SUBSET S : Cardinality(s) \in Nat /\ (Cardinality(s) = 0 => s = {})
  BY FS_Subset, FS_CardinalityType, FS_EmptySet
<1>3. 0 \in T
  <2>1. \A s \in SUBSET S : Cardinality(s) <= 0 => s = {}
    BY <1>2
  <2>2. Right({})
    BY <1>1
  <2> HIDE DEF Right
  <2>. QED  BY <2>1, <2>2
<1>4. ASSUME NEW m \in T PROVE m + 1 \in T
  <2>1. m \in Nat /\ \A s \in SUBSET S : Cardinality(s) <= m => Right(s)
    OBVIOUS
  <2> SUFFICES ASSUME NEW s \in SUBSET S, Cardinality(s) <= m + 1, s # {}
               PROVE  Right(s)
    <3>1. Right({})
      BY <1>1
    <3> HIDE DEF Right
    <3>. QED  BY <2>1, <3>1
  <2> HIDE DEF T
  <2> DEFINE y == OneOf(s)
  <2>2. ASSUME NEW r \in SUBSET S, r # {}, NEW x \in r
        PROVE  /\ OneOf(r) \in r /\ r \ {x} \in SUBSET S
               /\ Cardinality(r) \in Nat \ {0}
               /\ Cardinality(r \ {x}) = Cardinality(r) - 1
    BY <2>2, Taken
  <2>3. y \in s
    BY <2>2
  <2>4. ASSUME NEW x \in s
        PROVE  s \ {x} \in SUBSET S /\ Cardinality(s \ {x}) <= m
    <3>1. /\ s \ {x} \in SUBSET S /\ Cardinality(s) \in Nat
          /\ Cardinality(s \ {x}) = Cardinality(s) - 1
      BY <2>2
    <3>. QED  BY <2>1, <3>1
  <2>5. f[s] = c[y] + f[s \ {y}]
    BY <1>1
  <2> HIDE DEF y
  <2>6. \A x \in s : Right(s \ {x})
    BY <2>1, <2>4
  <2>7. \A x \in s : c[x] \in Nat /\ f[s \ {x}] \in Nat
    BY <2>6
  <2>8. ASSUME NEW x \in s, x # y PROVE f[s] = c[x] + f[s \ {x}]
    <3> DEFINE r == (s \ {x}) \ {y}
    <3>1. r = (s \ {y}) \ {x} /\ x \in s \ {y} /\ y \in s \ {x}
      BY <2>3, <2>8
    <3>2. f[s \ {y}] = c[x] + f[r]
      BY <2>3, <2>6, <3>1
    <3>3. f[s \ {x}] = c[y] + f[r]
      BY <2>6, <3>1
    <3>4. Cardinality(r) <= m /\ r \in SUBSET S
      <4>1. Cardinality(s \ {x}) <= m /\ s \ {x} \in SUBSET S
        BY <2>4
      <4>2. Cardinality(s \ {x}) \in Nat /\ Cardinality(r) = Cardinality(s \ {x}) - 1
        BY <2>2, <3>1, <4>1
      <4>. QED  BY <2>1, <4>1, <4>2
    <3>5. f[r] \in Nat
      BY <2>1, <3>4
    <3>6. c[x] \in Nat /\ c[y] \in Nat
      BY <2>3, <2>7
    <3> HIDE DEF r
    <3>. QED  BY <2>5, <3>2, <3>3, <3>5, <3>6
  <2>9. f[s] \in Nat
    BY <2>3, <2>5, <2>7
  <2>10. \A x \in s : f[s] = c[x] + f[s \ {x}]
    BY <2>5, <2>8
  <2>. QED  BY <2>9, <2>10
<1>5. T = Nat
  <2>1. T \in SUBSET Nat
    OBVIOUS
  <2> HIDE DEF T
  <2>. QED  BY <1>3, <1>4, <2>1, Inductive
<1>6. \A s \in SUBSET S : Right(s)
  BY <1>2, <1>5
<1>. QED  BY <1>1, <1>6 DEF AddsUp

\* One sum is another when each element stands for one of the other that counts
\* as much.
LEMMA SumsAgree ==
  ASSUME NEW S, IsFiniteSet(S), NEW c \in [S -> Nat], NEW f, Adds(c, S, f),
         NEW R, IsFiniteSet(R), NEW d \in [R -> Nat], NEW g, Adds(d, R, g),
         NEW b \in [S -> R], \A x, y \in S : b[x] = b[y] => x = y,
         R = {b[x] : x \in S}, \A x \in S : d[b[x]] = c[x]
  PROVE  f[S] = g[R]
<1> DEFINE Under(s) == {b[x] : x \in s}
           C == {s \in SUBSET S : f[s] = g[Under(s)]}
<1>1. AddsUp(c, S, f)
  BY AddsEach
<1>2. AddsUp(d, R, g)
  BY AddsEach
<1>3. {} \in C
  <2>1. Under({}) = {}
    OBVIOUS
  <2>. QED  BY <1>1, <1>2, <2>1 DEF AddsUp
<1>4. ASSUME NEW s \in C, NEW x \in S \ s PROVE s \cup {x} \in C
  <2>1. s \in SUBSET S /\ f[s] = g[Under(s)]
    OBVIOUS
  <2>2. /\ Under(s \cup {x}) \in SUBSET R /\ b[x] \in Under(s \cup {x})
        /\ Under(s \cup {x}) \ {b[x]} = Under(s)
    BY <2>1
  <2>3. (s \cup {x}) \ {x} = s /\ s \cup {x} \in SUBSET S
    BY <2>1
  <2>7. x \in s \cup {x}
    OBVIOUS
  <2> HIDE DEF Under, C
  <2>4. g[Under(s \cup {x})] = d[b[x]] + g[Under(s)]
    <3>1. \A r \in SUBSET R : \A y \in r : g[r] = d[y] + g[r \ {y}]
      BY <1>2 DEF AddsUp
    <3>2. g[Under(s \cup {x})] = d[b[x]] + g[Under(s \cup {x}) \ {b[x]}]
      BY <2>2, <3>1, Zenon
    <3>. QED  BY <2>2, <3>2, Zenon
  <2>5. f[s \cup {x}] = c[x] + f[s]
    <3>1. \A r \in SUBSET S : \A y \in r : f[r] = c[y] + f[r \ {y}]
      BY <1>1 DEF AddsUp
    <3>2. f[s \cup {x}] = c[x] + f[(s \cup {x}) \ {x}]
      BY <2>3, <2>7, <3>1, Zenon
    <3>. QED  BY <2>3, <3>2, Zenon
  <2>6. f[s \cup {x}] = g[Under(s \cup {x})]
    BY <2>1, <2>4, <2>5
  <2>. QED  BY <2>3, <2>6 DEF C
<1>5. C = SUBSET S
  <2>1. C \in SUBSET SUBSET S
    OBVIOUS
  <2> HIDE DEF C
  <2>. QED  BY <1>3, <1>4, <2>1, InductiveSets
<1>6. S \in C
  BY <1>5
<1>. QED  BY <1>6

\* A sum of ones is a number of elements.
LEMMA SumOfOnes ==
  ASSUME NEW S, IsFiniteSet(S), NEW c \in [S -> Nat], NEW f, Adds(c, S, f),
         \A x \in S : c[x] = 1
  PROVE  f[S] = Cardinality(S)
<1> DEFINE C == {s \in SUBSET S : f[s] = Cardinality(s)}
<1>1. AddsUp(c, S, f)
  BY AddsEach
<1>2. {} \in C
  BY <1>1, FS_EmptySet DEF AddsUp
<1>3. ASSUME NEW s \in C, NEW x \in S \ s PROVE s \cup {x} \in C
  <2>1. s \in SUBSET S /\ f[s] = Cardinality(s)
    OBVIOUS
  <2>2. IsFiniteSet(s) /\ Cardinality(s) \in Nat
    BY <2>1, FS_Subset, FS_CardinalityType
  <2>3. Cardinality(s \cup {x}) = Cardinality(s) + 1
    BY <2>2, FS_AddElement
  <2>4. (s \cup {x}) \ {x} = s /\ s \cup {x} \in SUBSET S /\ c[x] = 1
    BY <2>1
  <2> HIDE DEF C
  <2>5. f[s \cup {x}] = 1 + f[s]
    BY <1>1, <2>4 DEF AddsUp
  <2>. QED  BY <2>1, <2>2, <2>3, <2>4, <2>5 DEF C
<1>4. C = SUBSET S
  <2>1. C \in SUBSET SUBSET S
    OBVIOUS
  <2> HIDE DEF C
  <2>. QED  BY <1>2, <1>3, <2>1, InductiveSets
<1>5. S \in C
  BY <1>4
<1>. QED  BY <1>5

\* Feds and Number are such sums.
LEMMA FedsAdds ==
  ASSUME NEW t, NEW es, IsFiniteSet(es), \A e \in es : Entry(t, e).count \in Nat
  PROVE  \E f : /\ Adds([e \in es |-> Entry(t, e).count], es, f)
                /\ Feds(t, es) = f[es]
<1> DEFINE c == [e \in es |-> Entry(t, e).count]
           Same(f) == f = [s \in SUBSET es |->
             IF s = {} THEN 0
             ELSE Entry(t, OneOf(s)).count + f[s \ {OneOf(s)}]]
           g == CHOOSE f : Same(f)
<1>1. Feds(t, es) = g[es]
  BY DEF Feds, MapThenSumSet, MapThenFoldSet, OneOf
<1>2. c \in [es -> Nat]
  OBVIOUS
<1>3. \A s \in SUBSET es : s # {} => c[OneOf(s)] = Entry(t, OneOf(s)).count
  BY DEF OneOf
<1> HIDE DEF c
<1>4. ASSUME NEW f PROVE Same(f) <=> Adds(c, es, f)
  BY <1>3 DEF Adds
<1>5. \E f : Adds(c, es, f)
  BY <1>2, AddsExist
<1> HIDE DEF Same
<1>6. Same(g)
  BY <1>4, <1>5
<1>. QED  BY <1>1, <1>4, <1>6 DEF c

LEMMA NumberAdds ==
  ASSUME NEW fs, IsFiniteSet(fs), \A e \in fs : e[3].count \in Nat
  PROVE  \E f : Adds([e \in fs |-> e[3].count], fs, f) /\ Number(fs) = f[fs]
<1> DEFINE c == [e \in fs |-> e[3].count]
           Same(f) == f = [s \in SUBSET fs |->
             IF s = {} THEN 0 ELSE OneOf(s)[3].count + f[s \ {OneOf(s)}]]
           g == CHOOSE f : Same(f)
<1>1. Number(fs) = g[fs]
  BY DEF Number, MapThenSumSet, MapThenFoldSet, OneOf
<1>2. c \in [fs -> Nat]
  OBVIOUS
<1>3. \A s \in SUBSET fs : s # {} => c[OneOf(s)] = OneOf(s)[3].count
  BY DEF OneOf
<1> HIDE DEF c
<1>4. ASSUME NEW f PROVE Same(f) <=> Adds(c, fs, f)
  BY <1>3 DEF Adds
<1>5. \E f : Adds(c, fs, f)
  BY <1>2, AddsExist
<1> HIDE DEF Same
<1>6. Same(g)
  BY <1>4, <1>5
<1>. QED  BY <1>1, <1>4, <1>6 DEF c

----------------------------------------------------------------------------
(* Brokers and federates.  The invariant follows a stage: what annotations  *)
(* and connections there are, which scripts are at the path of a VM and in  *)
(* what order, what was written and what is left.                           *)

Apps == {"ot-sim", "helics"}

Listed(s) == Len(s) \in Nat /\ s = [i \in 1..Len(s) |-> s[i]]

\* The node has the script of an app at the path of the broker scripts.
StartOf(a, h) == <<<<a, h>>, Start>>
HasStart(t, h, a) == \E i \in DOMAIN t[h].injects : t[h].injects[i] = StartOf(a, h)

\* The list of a host: scripts of the apps alone are at the path, that of the
\* helics app after that of ot-sim.
InOrder(s, h) ==
  /\ Listed(s)
  /\ \A i \in DOMAIN s :
       s[i][2] = Start => s[i] = StartOf("ot-sim", h) \/ s[i] = StartOf("helics", h)
  /\ \A i, j \in DOMAIN s :
       s[i] = StartOf("ot-sim", h) /\ s[j] = StartOf("helics", h) => i < j

\* Nodes with brokers of ot-sim on hosts of S, all of them where there are some
\* of the helics app, which are on hosts of H.
Ordered(t, S, H) ==
  \A h \in DOMAIN t :
    /\ InOrder(t[h].injects, h)
    /\ HasStart(t, h, "ot-sim") => h \in S
    /\ HasStart(t, h, "helics") => h \in H /\ (h \in S => HasStart(t, h, "ot-sim"))

\* The annotations that the helics app finds as long as all nodes boot.
FinalFeds(h) ==
  IF IsServer(h)
  THEN LET i == CHOOSE i \in DOMAIN Servers : Servers[i].host = h
       IN  <<[broker |-> Address(Servers[i]), count |-> 1]>>
  ELSE fed.nodes[h]
Final == Seen([h \in DOMAIN fed.nodes |-> [boot |-> TRUE, feds |-> FinalFeds(h)]])

OtsimHosts == {h \in DOMAIN fed.nodes : Counted(h) # {}}
HelicsHosts ==
  {h \in DOMAIN fed.nodes :
     UsesHelics /\ (marks = 0 => configured /\ h \in SubHosts(Final) \cup {Root})}

\* A server has the annotation a, and connects to it.
Answers(t, c, h, a) ==
  t[h].feds = <<[broker |-> a, count |-> 1]>> /\ h \in DOMAIN c /\ c[h] = a
Answered(t, c, i) == Answers(t, c, Servers[i].host, Address(Servers[i]))

Stage == {"idle", "otsim", "otsim scripts", "helics", "helics scripts", "ready"}

NodesInv ==
  /\ fpc \in Stage /\ marks \in Nat
  /\ fpc # "idle" => configured /\ ~up
  /\ up => configured
  /\ fpc \in {"helics", "helics scripts"} => UsesHelics
  /\ fpc = "helics" => work = exp
  /\ \A h \in DOMAIN exp :
       /\ work[h].boot = exp[h].boot
       /\ marks = 0 => exp[h].boot = TRUE
       /\ ~IsServer(h) => exp[h].feds = fed.nodes[h] /\ work[h].feds = fed.nodes[h]
  /\ fpc = "otsim" =>
       k \in Nat \ {0} /\ \A i \in DOMAIN Servers : i < k => Answered(work, connects, i)
  /\ fpc \in {"otsim scripts", "helics scripts"} =>
       \A i \in DOMAIN Servers : Answered(work, connects, i)
  /\ fpc \in {"helics", "helics scripts", "ready"} \/ up =>
       \A i \in DOMAIN Servers : Answered(exp, connects, i)

\* The scripts of an app are written and injected, but for those that are left.
Wrote(all, left, d, t, a) ==
  \A h \in DOMAIN all \ left :
    HasStart(t, h, a) /\ <<a, h>> \in DOMAIN d /\ d[<<a, h>>] = all[h]
Left(all, f) == \A h \in DOMAIN f : h \in DOMAIN all /\ f[h] = all[h]

HelicsAll == HelicsScripts(Seen(exp))

\* The script a VM boots with.
Runs(t, d, h) ==
  IF HasStart(t, h, "helics") THEN d[<<"helics", h>>]
  ELSE IF HasStart(t, h, "ot-sim") THEN d[<<"ot-sim", h>>] ELSE {}

Settled ==
  /\ Wrote(OtsimScripts, {}, scripts, exp, "ot-sim")
  /\ UsesHelics => HelicsReads /\ Wrote(HelicsAll, {}, scripts, exp, "helics")

ScriptsInv ==
  /\ fpc = "otsim scripts" =>
       /\ Left(OtsimScripts, todo)
       /\ Wrote(OtsimScripts, DOMAIN todo, scripts, work, "ot-sim")
  /\ fpc \in {"helics", "helics scripts"} =>
       Wrote(OtsimScripts, {}, scripts, work, "ot-sim")
  /\ fpc = "helics scripts" =>
       /\ Seen(work) = Seen(exp) /\ HelicsReads
       /\ Left(HelicsAll, todo)
       /\ Wrote(HelicsAll, DOMAIN todo, scripts, work, "helics")
  /\ fpc = "ready" \/ up => Settled
  /\ up => told = [h \in {x \in DOMAIN exp : exp[x].boot} |-> Runs(exp, scripts, h)]

OrderedInv == Ordered(exp, OtsimHosts, HelicsHosts) /\ Ordered(work, OtsimHosts, HelicsHosts)

Grown(s, r, x) ==
  /\ Listed(r) /\ DOMAIN s \subseteq DOMAIN r
  /\ \A i \in DOMAIN s : r[i] = s[i] /\ \A j \in DOMAIN r \ DOMAIN s : i < j
  /\ \A i \in DOMAIN r \ DOMAIN s : r[i] = x
  /\ (\E i \in DOMAIN s : s[i] = x) => r = s
  /\ \E i \in DOMAIN r : r[i] = x

LEMMA AddedGrown ==
  ASSUME NEW s, Listed(s), NEW x
  PROVE  Grown(s, Added(s, <<x>>), x)
<1> DEFINE new == <<x>>
           f == CHOOSE g : Calls(s, new, 1, g)
           r == Added(s, new)
<1>0. Len(new) = 1 /\ new[1] = x
  OBVIOUS
<1> HIDE DEF new
<1>1. r = f[1]
  BY <1>0, Zenon DEF Added, Calls, AddOne, Lists
<1>2. Calls(s, new, 1, f)
  BY CallsExist
<1> HIDE DEF f, r
<1>3. r = AddOne(s, x)
  <2>1. \A m \in 0..1 : f[m] = IF m = 0 THEN s ELSE AddOne(f[m - 1], new[m])
    BY <1>2, Zenon DEF Calls
  <2>2. 0 \in 0..1 /\ 1 \in 0..1 /\ 1 # 0 /\ 1 - 1 = 0
    OBVIOUS
  <2>. QED  BY <1>0, <1>1, <2>1, <2>2, Zenon
<1>4. Len(s) \in Nat /\ DOMAIN s = 1..Len(s) /\ s = [i \in 1..Len(s) |-> s[i]]
  BY DEF Listed
<1>5. CASE Lists(s, x)
  <2>1. r = s /\ \E i \in DOMAIN s : s[i] = x
    BY <1>3, <1>5 DEF AddOne, Lists
  <2>. QED  BY <1>4, <2>1 DEF Grown, r, new
<1>6. CASE ~Lists(s, x)
  <2> DEFINE S == {s[i] : i \in 1..Len(s)} \cup {x}
             a == Append(s, x)
  <2>1. s \in Seq(S)
    BY <1>4
  <2>2. /\ DOMAIN a = 1..(Len(s) + 1) /\ Len(a) = Len(s) + 1 /\ a[Len(s) + 1] = x
        /\ \A i \in 1..Len(s) : a[i] = s[i]
        /\ a \in Seq(S)
    BY <2>1
  <2>3. r = a
    BY <1>3, <1>6 DEF AddOne
  <2> HIDE DEF a, S
  <2>4. Listed(a)
    BY <1>4, <2>2 DEF Listed
  <2>5. ~\E i \in DOMAIN s : s[i] = x
    BY <1>6 DEF Lists
  <2>6. \A i \in DOMAIN s : a[i] = s[i] /\ \A j \in DOMAIN a \ DOMAIN s : i < j
    BY <1>4, <2>2
  <2>7. \A i \in DOMAIN a \ DOMAIN s : a[i] = x
    BY <1>4, <2>2
  <2>8. DOMAIN s \subseteq DOMAIN a /\ Len(s) + 1 \in DOMAIN a
    BY <1>4, <2>2
  <2>. QED  BY <2>2, <2>3, <2>4, <2>5, <2>6, <2>7, <2>8 DEF Grown, r, new
<1>. QED  BY <1>5, <1>6

\* An injection adds to the list of its host.
LEMMA InjectGrown ==
  ASSUME NEW t, NodesOf(t), NEW h \in DOMAIN t, Listed(t[h].injects), NEW src, NEW dst
  PROVE  LET u == Inject(t, h, src, dst)
         IN  /\ DOMAIN u = DOMAIN t
             /\ \A x \in DOMAIN t : u[x].boot = t[x].boot /\ u[x].feds = t[x].feds
             /\ \A x \in DOMAIN t : x # h => u[x].injects = t[x].injects
             /\ Grown(t[h].injects, u[h].injects, <<src, dst>>)
<1> DEFINE new == <<<<src, dst>>>>
           r == Added(t[h].injects, new)
           n1 == [t[h] EXCEPT !.injects = r]
           u == Inject(t, h, src, dst)
<1>1. u = [t EXCEPT ![h] = n1]
  BY DEF AddInjects, Inject
<1>2. Grown(t[h].injects, r, <<src, dst>>)
  BY AddedGrown
<1> HIDE DEF r, u
<1>3. DOMAIN t[h] = {"boot", "feds", "injects"}
  BY DEF NodesOf
<1>4. n1.injects = r /\ n1.boot = t[h].boot /\ n1.feds = t[h].feds
  BY <1>3
<1> HIDE DEF n1
<1>5. DOMAIN u = DOMAIN t /\ u[h] = n1 /\ \A x \in DOMAIN t : x # h => u[x] = t[x]
  BY <1>1
<1>6. \A x \in DOMAIN t : u[x].boot = t[x].boot /\ u[x].feds = t[x].feds
  BY <1>4, <1>5
<1>7. \A x \in DOMAIN t : x # h => u[x].injects = t[x].injects
  BY <1>5
<1>8. u[h].injects = r
  BY <1>4, <1>5
<1>. QED  BY <1>2, <1>5, <1>6, <1>7, <1>8 DEF u

LEMMA StartsApart ==
  /\ \A h : StartOf("ot-sim", h) # StartOf("helics", h)
  /\ \A a, h : StartOf(a, h)[2] = Start
  /\ Start # Wait /\ Start # "config.xml"
<1>1. "ot-sim" # "helics"
  OBVIOUS
<1>2. Start # Wait /\ Start # "config.xml"
  BY Zenon DEF Start, Wait
<1>. QED  BY <1>1, <1>2 DEF StartOf

\* Injections at other paths do not matter.
Quiet(s, r) ==
  /\ Listed(r) /\ DOMAIN s \subseteq DOMAIN r
  /\ \A i \in DOMAIN s : r[i] = s[i]
  /\ \A i \in DOMAIN r \ DOMAIN s : r[i][2] # Start

LEMMA QuietOrdered ==
  ASSUME NEW t, NEW u, NEW S, NEW H, Ordered(t, S, H), DOMAIN u = DOMAIN t,
         \A h \in DOMAIN t : u[h].injects = t[h].injects \/ Quiet(t[h].injects, u[h].injects)
  PROVE  /\ Ordered(u, S, H)
         /\ \A h \in DOMAIN t, a \in Apps : HasStart(u, h, a) <=> HasStart(t, h, a)
<1>1. ASSUME NEW h \in DOMAIN t, u[h].injects # t[h].injects
      PROVE  /\ InOrder(u[h].injects, h)
             /\ \A a \in Apps : HasStart(u, h, a) <=> HasStart(t, h, a)
  <2> DEFINE s == t[h].injects
             r == u[h].injects
  <2>1. Quiet(s, r) /\ InOrder(s, h)
    BY <1>1 DEF Ordered
  <2>2. \A i \in DOMAIN r : r[i][2] = Start => i \in DOMAIN s /\ r[i] = s[i]
    BY <2>1 DEF Quiet
  <2>3. \A i \in DOMAIN s : i \in DOMAIN r /\ r[i] = s[i]
    BY <2>1 DEF Quiet
  <2>4. \A a : StartOf(a, h)[2] = Start
    BY StartsApart
  <2>5. \A a \in Apps : HasStart(u, h, a) <=> HasStart(t, h, a)
    BY <2>2, <2>3, <2>4 DEF HasStart
  <2>6. InOrder(r, h)
    <3>1. Listed(r)
      BY <2>1 DEF Quiet
    <3>. QED  BY <2>1, <2>2, <2>4, <3>1 DEF InOrder
  <2>. QED  BY <2>5, <2>6
<1>2. ASSUME NEW h \in DOMAIN t, u[h].injects = t[h].injects
      PROVE  /\ InOrder(u[h].injects, h)
             /\ \A a \in Apps : HasStart(u, h, a) <=> HasStart(t, h, a)
  BY <1>2 DEF Ordered, HasStart
<1>3. \A h \in DOMAIN t, a \in Apps : HasStart(u, h, a) <=> HasStart(t, h, a)
  BY <1>1, <1>2
<1>4. \A h \in DOMAIN t : InOrder(u[h].injects, h)
  BY <1>1, <1>2
<1>5. \A h \in DOMAIN t :
        /\ HasStart(u, h, "ot-sim") <=> HasStart(t, h, "ot-sim")
        /\ HasStart(u, h, "helics") <=> HasStart(t, h, "helics")
  BY <1>3 DEF Apps
<1>. QED  BY <1>3, <1>4, <1>5, Zenon DEF Ordered

\* A broker script is injected: by ot-sim, or by the helics app after ot-sim has
\* had its turn.
LEMMA StartAdded ==
  ASSUME NEW t, NEW u, NEW S, NEW H, Ordered(t, S, H), DOMAIN u = DOMAIN t,
         NEW h \in DOMAIN t, NEW b \in Apps,
         \A x \in DOMAIN t : x # h => u[x].injects = t[x].injects,
         Grown(t[h].injects, u[h].injects, StartOf(b, h)),
         b = "ot-sim" => h \in S,
         b = "helics" => h \in H /\ (h \in S => HasStart(t, h, "ot-sim"))
  PROVE  /\ Ordered(u, S, H) /\ HasStart(u, h, b)
         /\ \A x \in DOMAIN t, a \in Apps : HasStart(t, x, a) => HasStart(u, x, a)
<1> DEFINE s == t[h].injects
           r == u[h].injects
<1>1. /\ InOrder(s, h)
      /\ HasStart(t, h, "ot-sim") => h \in S
      /\ HasStart(t, h, "helics") => h \in H /\ (h \in S => HasStart(t, h, "ot-sim"))
  BY DEF Ordered
<1>2. /\ \A a : StartOf(a, h)[2] = Start
      /\ StartOf("ot-sim", h) # StartOf("helics", h)
  BY StartsApart
<1>3. /\ Listed(r)
      /\ \A i \in DOMAIN s : i \in DOMAIN r /\ r[i] = s[i]
                             /\ \A j \in DOMAIN r \ DOMAIN s : i < j
      /\ \A i \in DOMAIN r \ DOMAIN s : r[i] = StartOf(b, h)
      /\ (\E i \in DOMAIN s : s[i] = StartOf(b, h)) => r = s
      /\ \E i \in DOMAIN r : r[i] = StartOf(b, h)
  BY Zenon DEF Grown
<1>4. HasStart(u, h, b)
  BY <1>3 DEF HasStart
<1>5. \A a : HasStart(t, h, a) => HasStart(u, h, a)
  BY <1>3 DEF HasStart
<1>6. \A a : HasStart(u, h, a) => a = b \/ HasStart(t, h, a)
  <2> SUFFICES ASSUME NEW a, NEW i \in DOMAIN r, r[i] = StartOf(a, h),
                      ~HasStart(t, h, a)
               PROVE  a = b
    BY DEF HasStart
  <2>1. i \notin DOMAIN s
    BY <1>3 DEF HasStart
  <2>2. StartOf(a, h) = StartOf(b, h)
    BY <1>3, <2>1
  <2>. QED  BY <2>2 DEF StartOf
<1>7. InOrder(r, h)
  <2>1. ASSUME NEW i \in DOMAIN r, r[i][2] = Start
        PROVE  r[i] = StartOf("ot-sim", h) \/ r[i] = StartOf("helics", h)
    <3>1. CASE i \in DOMAIN s
      BY <1>1, <1>3, <2>1, <3>1 DEF InOrder
    <3>2. CASE i \notin DOMAIN s
      BY <1>3, <3>2 DEF Apps
    <3>. QED  BY <3>1, <3>2
  <2>2. ASSUME NEW i \in DOMAIN r, NEW j \in DOMAIN r,
               r[i] = StartOf("ot-sim", h), r[j] = StartOf("helics", h)
        PROVE  i < j
    <3>1. CASE b = "ot-sim"
      <4>1. j \in DOMAIN s
        BY <1>2, <1>3, <2>2, <3>1
      <4>2. s[j] = StartOf("helics", h)
        BY <1>3, <2>2, <4>1
      <4>3. HasStart(t, h, "ot-sim")
        BY <1>1, <3>1, <4>1, <4>2 DEF HasStart
      <4>4. r = s
        BY <1>3, <3>1, <4>3 DEF HasStart
      <4>. QED  BY <1>1, <2>2, <4>4 DEF InOrder
    <3>2. CASE b = "helics"
      <4>1. i \in DOMAIN s
        BY <1>2, <1>3, <2>2, <3>2
      <4>2. s[i] = StartOf("ot-sim", h)
        BY <1>3, <2>2, <4>1
      <4>3. CASE j \in DOMAIN s
        BY <1>1, <1>3, <2>2, <4>1, <4>2, <4>3 DEF InOrder
      <4>4. CASE j \notin DOMAIN s
        BY <1>3, <4>1, <4>4
      <4>. QED  BY <4>3, <4>4
    <3>. QED  BY <3>1, <3>2 DEF Apps
  <2>. QED  BY <1>3, <2>1, <2>2 DEF InOrder
<1>8. \A x \in DOMAIN t : x # h =>
        /\ u[x].injects = t[x].injects
        /\ \A a : HasStart(u, x, a) <=> HasStart(t, x, a)
  BY DEF HasStart
<1> HIDE DEF s, r
<1>9. ASSUME NEW x \in DOMAIN u
      PROVE  /\ InOrder(u[x].injects, x)
             /\ HasStart(u, x, "ot-sim") => x \in S
             /\ HasStart(u, x, "helics") =>
                  x \in H /\ (x \in S => HasStart(u, x, "ot-sim"))
  <2>1. CASE x = h
    <3>1. HasStart(u, h, "ot-sim") => h \in S
      BY <1>1, <1>6
    <3>2. HasStart(u, h, "helics") => h \in H /\ (h \in S => HasStart(u, h, "ot-sim"))
      BY <1>1, <1>5, <1>6
    <3>. QED  BY <1>7, <2>1, <3>1, <3>2 DEF r
  <2>2. CASE x # h
    BY <1>8, <2>2 DEF Ordered
  <2>. QED  BY <2>1, <2>2
<1>10. \A x \in DOMAIN t, a \in Apps : HasStart(t, x, a) => HasStart(u, x, a)
  BY <1>5, <1>8
<1>. QED  BY <1>4, <1>9, <1>10 DEF Ordered

\* The script at the path is the last one that was injected.
LEMMA ImageRuns ==
  ASSUME NEW S, NEW H, Ordered(exp, S, H), NEW h \in DOMAIN exp
  PROVE  Image(h) = Runs(exp, scripts, h)
<1> DEFINE s == exp[h].injects
           last == Len(s)
           starts == {i \in DOMAIN s : s[i][2] = Start}
<1>1. InOrder(s, h) /\ last \in Nat /\ DOMAIN s = 1..last
  BY DEF Ordered, InOrder, Listed
<1>2. /\ \A a : StartOf(a, h)[2] = Start
      /\ StartOf("ot-sim", h) # StartOf("helics", h)
  BY StartsApart
<1>3. Image(h) = IF starts = {} THEN {} ELSE scripts[s[Max(starts)][1]]
  BY DEF Image
<1>4. \A i \in starts : s[i] = StartOf("ot-sim", h) \/ s[i] = StartOf("helics", h)
  BY <1>1 DEF InOrder
<1>5. \A a : HasStart(exp, h, a) => \E i \in starts : s[i] = StartOf(a, h)
  BY <1>2 DEF HasStart
<1>6. CASE starts = {}
  <2>1. ~HasStart(exp, h, "ot-sim") /\ ~HasStart(exp, h, "helics")
    BY <1>5, <1>6
  <2>. QED  BY <1>3, <1>6, <2>1 DEF Runs
<1>7. CASE starts # {}
  <2> DEFINE T == {m \in 0..last : last - m \in starts}
             x == Max(starts)
  <2>1. T \in SUBSET Nat /\ T # {}
    <3>1. PICK i \in starts : i \in 1..last
      BY <1>1, <1>7
    <3>2. last - i \in 0..last /\ last - (last - i) = i
      BY <1>1, <3>1
    <3>. QED  BY <3>1, <3>2
  <2>2. PICK m \in T : \A y \in T : m <= y
    BY <2>1, Least
  <2>3. last - m \in starts /\ \A i \in starts : i <= last - m
    <3>1. \A i \in starts : last - i \in T
      BY <1>1
    <3>. QED  BY <1>1, <2>2, <3>1
  <2> HIDE DEF T
  <2>4. \E y \in starts : \A z \in starts : y >= z
    BY <1>1, <2>2, <2>3
  <2>5. x \in starts /\ \A i \in starts : x >= i
    <3> HIDE DEF starts
    <3>. QED  BY <2>4 DEF Max
  <2>6. x \in DOMAIN s
    BY <2>5
  <2> HIDE DEF x
  <2>7. CASE HasStart(exp, h, "helics")
    <3>1. PICK j \in starts : s[j] = StartOf("helics", h)
      BY <1>5, <2>7
    <3>2. x >= j /\ x \in Nat /\ j \in Nat
      BY <1>1, <2>5, <3>1
    <3>3. s[x] # StartOf("ot-sim", h)
      BY <1>1, <2>6, <3>1, <3>2 DEF InOrder
    <3>4. s[x] = StartOf("helics", h)
      BY <1>4, <2>5, <3>3
    <3>5. s[x][1] = <<"helics", h>>
      BY <3>4 DEF StartOf
    <3>. QED  BY <1>3, <1>7, <2>7, <3>5 DEF Runs, x
  <2>8. CASE ~HasStart(exp, h, "helics")
    <3>1. s[x] # StartOf("helics", h)
      BY <2>6, <2>8 DEF HasStart
    <3>2. s[x] = StartOf("ot-sim", h)
      BY <1>4, <2>5, <3>1
    <3>3. HasStart(exp, h, "ot-sim")
      BY <2>6, <3>2 DEF HasStart
    <3>4. s[x][1] = <<"ot-sim", h>>
      BY <3>2 DEF StartOf
    <3>. QED  BY <1>3, <1>7, <2>8, <3>3, <3>4 DEF Runs, x
  <2>. QED  BY <2>7, <2>8
<1>. QED  BY <1>6, <1>7

LEMMA GrownQuiet ==
  ASSUME NEW s, NEW r, NEW src, NEW dst, Grown(s, r, <<src, dst>>), dst # Start
  PROVE  Quiet(s, r)
BY DEF Grown, Quiet

LEMMA QuietTwice ==
  ASSUME NEW s, NEW r, NEW q, Quiet(s, r), Quiet(r, q)
  PROVE  Quiet(s, q)
<1>1. ASSUME NEW i \in DOMAIN q \ DOMAIN s PROVE q[i][2] # Start
  BY DEF Quiet
<1>. QED  BY <1>1 DEF Quiet

\* What an injection at another path leaves: the list of its host grows.
Beside(t, u) ==
  /\ DOMAIN u = DOMAIN t
  /\ \A x \in DOMAIN t : u[x].boot = t[x].boot /\ u[x].feds = t[x].feds
  /\ \A x \in DOMAIN t :
       u[x].injects = t[x].injects \/ Quiet(t[x].injects, u[x].injects)

LEMMA InjectBeside ==
  ASSUME NEW t, NodesOf(t), NEW h \in DOMAIN t, Listed(t[h].injects),
         NEW src, NEW dst, dst # Start
  PROVE  LET u == Inject(t, h, src, dst)
         IN  NodesOf(u) /\ Beside(t, u) /\ Listed(u[h].injects)
<1> DEFINE u == Inject(t, h, src, dst)
<1>1. /\ DOMAIN u = DOMAIN t
      /\ \A x \in DOMAIN t : u[x].boot = t[x].boot /\ u[x].feds = t[x].feds
      /\ \A x \in DOMAIN t : x # h => u[x].injects = t[x].injects
      /\ Grown(t[h].injects, u[h].injects, <<src, dst>>)
  BY InjectGrown
<1>2. NodesOf(u)
  BY InjectOnly
<1> HIDE DEF u
<1>3. Quiet(t[h].injects, u[h].injects)
  BY <1>1, GrownQuiet
<1>4. Listed(u[h].injects)
  BY <1>3 DEF Quiet
<1>5. Beside(t, u)
  BY <1>1, <1>3 DEF Beside
<1>. QED  BY <1>2, <1>4, <1>5 DEF u

LEMMA ServerStep ==
  ASSUME FedInv, OrderedInv, OtsimServer
  PROVE  /\ k \in DOMAIN Servers /\ k \in Nat /\ Servers[k].host \in DOMAIN work
         /\ DOMAIN work' = DOMAIN work
         /\ \A x \in DOMAIN work :
              /\ work'[x].boot = work[x].boot
              /\ work'[x].feds =
                   IF x = Servers[k].host
                   THEN <<[broker |-> Address(Servers[k]), count |-> 1]>>
                   ELSE work[x].feds
              /\ \/ work'[x].injects = work[x].injects
                 \/ Quiet(work[x].injects, work'[x].injects)
<1> DEFINE h == Servers[k].host
           a == Address(Servers[k])
           note == <<[broker |-> a, count |-> 1]>>
           t == [work EXCEPT ![h].feds = note]
           src == <<"ot-sim wait", a>>
           v == Inject(t, h, src, Wait)
           w == IF UsesHelics \/ a.port = SubPort THEN t ELSE v
           src2 == <<"ot-sim config", h>>
           dst2 == "config.xml"
<1>1. fpc = "otsim" /\ k <= Len(Servers) /\ k \in Nat \ {0}
  BY DEF OtsimServer, Servers, FedInv
<1>2. k \in DOMAIN Servers /\ h \in DOMAIN work
  <2>1. /\ Len(Servers) \in Nat /\ DOMAIN Servers = 1..Len(Servers)
        /\ \A i \in DOMAIN Servers : Servers[i].host \in DOMAIN work
    BY ServersShape DEF FedInv, NodesOf
  <2>. QED  BY <1>1, <2>1
<1>3. work' = Inject(w, h, src2, dst2)
  BY DEF OtsimServer, Server, Servers
<1>4. dst2 # Start /\ Wait # Start
  BY StartsApart
<1> HIDE DEF note, src, src2, dst2
<1>5. t = [work EXCEPT ![h] = [work[h] EXCEPT !.feds = note]]
  OBVIOUS
<1>6. NodesOf(work) /\ Listed(work[h].injects)
  BY <1>2 DEF FedInv, OrderedInv, Ordered, InOrder
<1>7. /\ NodesOf(t) /\ t[h].feds = note /\ t[h].boot = work[h].boot
      /\ t[h].injects = work[h].injects /\ DOMAIN t = DOMAIN work
      /\ \A x \in DOMAIN t : x # h => t[x] = work[x]
  BY <1>2, <1>5, <1>6 DEF NodesOf
<1> HIDE DEF t, h, a
<1>8. NodesOf(v) /\ Beside(t, v) /\ Listed(v[h].injects)
  <2>1. h \in DOMAIN t /\ Listed(t[h].injects)
    BY <1>2, <1>6, <1>7
  <2>. QED  BY <1>4, <1>7, <2>1, InjectBeside
<1> HIDE DEF v
<1>9. NodesOf(w) /\ Listed(w[h].injects) /\ (w = t \/ Beside(t, w))
  BY <1>6, <1>7, <1>8
<1>10. DOMAIN w = DOMAIN t /\ h \in DOMAIN w
  BY <1>2, <1>7, <1>9 DEF Beside
<1> HIDE DEF w
<1>11. Beside(w, work')
  BY <1>3, <1>4, <1>9, <1>10, InjectBeside
<1>12. DOMAIN work' = DOMAIN work
  BY <1>7, <1>10, <1>11 DEF Beside
<1>13. ASSUME NEW x \in DOMAIN work
       PROVE  /\ work'[x].boot = work[x].boot
              /\ work'[x].feds = IF x = h THEN note ELSE work[x].feds
              /\ \/ work'[x].injects = work[x].injects
                 \/ Quiet(work[x].injects, work'[x].injects)
  <2>1. /\ t[x].boot = work[x].boot /\ t[x].injects = work[x].injects
        /\ t[x].feds = IF x = h THEN note ELSE work[x].feds
    BY <1>7, <1>13
  <2>2. /\ w[x].boot = t[x].boot /\ w[x].feds = t[x].feds
        /\ w[x].injects = t[x].injects \/ Quiet(t[x].injects, w[x].injects)
    BY <1>7, <1>9 DEF Beside
  <2>3. /\ work'[x].boot = w[x].boot /\ work'[x].feds = w[x].feds
        /\ work'[x].injects = w[x].injects \/ Quiet(w[x].injects, work'[x].injects)
    BY <1>7, <1>10, <1>11 DEF Beside
  <2>4. \/ work'[x].injects = work[x].injects
        \/ Quiet(work[x].injects, work'[x].injects)
    BY <2>1, <2>2, <2>3, QuietTwice
  <2>. QED  BY <2>1, <2>2, <2>3, <2>4
<1>. QED  BY <1>1, <1>2, <1>12, <1>13 DEF h, a, note

LEMMA CountStep ==
  ASSUME FedInv, OrderedInv, HelicsCount
  PROVE  Beside(work, work')
<1> DEFINE src == <<"helics wait", Root>>
<1>1. work' = [h \in DOMAIN work |->
                 IF h \in Federates(Seen(exp)) THEN Inject(work, h, src, Wait)[h]
                 ELSE work[h]]
  BY DEF HelicsCount
<1> HIDE DEF src
<1>2. ASSUME NEW h \in DOMAIN work
      PROVE  /\ work'[h].boot = work[h].boot /\ work'[h].feds = work[h].feds
             /\ work'[h].injects = work[h].injects
                  \/ Quiet(work[h].injects, work'[h].injects)
  <2> DEFINE u == Inject(work, h, src, Wait)
  <2>1. NodesOf(work) /\ Listed(work[h].injects) /\ Wait # Start
    BY StartsApart DEF FedInv, OrderedInv, Ordered, InOrder
  <2>2. Beside(work, u)
    BY <2>1, InjectBeside
  <2> HIDE DEF u
  <2>3. work'[h] = u[h] \/ work'[h] = work[h]
    BY <1>1 DEF u
  <2>. QED  BY <2>2, <2>3 DEF Beside
<1>. QED  BY <1>1, <1>2 DEF Beside

LEMMA WriteStep ==
  ASSUME FedInv, OrderedInv, NEW h \in DOMAIN work, NEW b \in Apps,
         work' = Inject(work, h, <<b, h>>, Start),
         b = "ot-sim" => h \in OtsimHosts,
         b = "helics" =>
           h \in HelicsHosts /\ (h \in OtsimHosts => HasStart(work, h, "ot-sim"))
  PROVE  /\ Ordered(work', OtsimHosts, HelicsHosts)
         /\ HasStart(work', h, b) /\ DOMAIN work' = DOMAIN work
         /\ \A x \in DOMAIN work, a \in Apps : HasStart(work, x, a) => HasStart(work', x, a)
         /\ \A x \in DOMAIN work :
              work'[x].boot = work[x].boot /\ work'[x].feds = work[x].feds
<1> DEFINE u == Inject(work, h, <<b, h>>, Start)
<1>1. NodesOf(work) /\ Listed(work[h].injects) /\ Ordered(work, OtsimHosts, HelicsHosts)
  BY DEF FedInv, OrderedInv, Ordered, InOrder
<1>2. /\ DOMAIN u = DOMAIN work
      /\ \A x \in DOMAIN work : u[x].boot = work[x].boot /\ u[x].feds = work[x].feds
      /\ \A x \in DOMAIN work : x # h => u[x].injects = work[x].injects
      /\ Grown(work[h].injects, u[h].injects, StartOf(b, h))
  BY <1>1, InjectGrown DEF StartOf
<1> HIDE DEF u
<1>3. /\ Ordered(u, OtsimHosts, HelicsHosts) /\ HasStart(u, h, b)
      /\ \A x \in DOMAIN work, a \in Apps : HasStart(work, x, a) => HasStart(u, x, a)
  BY <1>1, <1>2, StartAdded
<1>4. work' = u
  BY DEF u
<1>. QED  BY <1>2, <1>3, <1>4

\* The metadata stays what it is, and what is made of it.
LEMMA MetadataKept ==
  ASSUME fed' = fed
  PROVE  /\ Servers' = Servers /\ (UsesHelics' <=> UsesHelics) /\ Root' = Root
         /\ \A s : Address(s)' = Address(s)
         /\ \A h : (IsServer(h)' <=> IsServer(h)) /\ Counted(h)' = Counted(h)
         /\ \A h : FinalFeds(h)' = FinalFeds(h)
         /\ \A t : SubEntries(t)' = SubEntries(t)
<1>1. /\ Servers' = Servers /\ (UsesHelics' <=> UsesHelics) /\ Root' = Root
  BY DEF Servers, UsesHelics, Root
<1>2. \A s : Address(s)' = Address(s)
  BY <1>1 DEF Address
<1>3. \A h : (IsServer(h)' <=> IsServer(h)) /\ Counted(h)' = Counted(h)
  BY DEF IsServer, Counted
<1>4. \A h : FinalFeds(h)' = FinalFeds(h)
  BY <1>1, <1>2, <1>3 DEF FinalFeds
<1>5. \A t : SubEntries(t)' = SubEntries(t)
  BY <1>1 DEF SubEntries, Direct
<1>. QED  BY <1>1, <1>2, <1>3, <1>4, <1>5

LEMMA ScriptsOfKept ==
  ASSUME fed' = fed
  PROVE  /\ \A t : SubHosts(t)' = SubHosts(t)
         /\ \A t : HelicsScripts(t)' = HelicsScripts(t)
         /\ \A t, e : Usable(t, e)' <=> Usable(t, e)
         /\ DOMAIN exp' = DOMAIN exp => OtsimScripts' = OtsimScripts
<1>1. /\ Root' = Root /\ \A t : SubEntries(t)' = SubEntries(t)
      /\ \A h : Counted(h)' = Counted(h)
  BY MetadataKept
<1>2. \A t : SubHosts(t)' = SubHosts(t)
  BY <1>1 DEF SubHosts
<1>3. \A t, h : AtHost(t, h)' = AtHost(t, h)
  BY <1>1 DEF AtHost
<1>4. \A t, h : SubBroker(t, h)' = SubBroker(t, h)
  BY <1>3 DEF SubBroker
<1>5. \A t : HelicsScripts(t)' = HelicsScripts(t)
  BY <1>1, <1>2, <1>4 DEF HelicsScripts, RootFeds
<1>6. \A t, e : Usable(t, e)' <=> Usable(t, e)
  BY <1>3 DEF Usable
<1>7. DOMAIN exp' = DOMAIN exp => OtsimScripts' = OtsimScripts
  BY <1>1 DEF OtsimScripts
<1>. QED  BY <1>2, <1>5, <1>6, <1>7

\* What the scale app may do beside the stages of the others.
Beyond ==
  configured => configured' /\ topo' = topo

LEMMA HostsKept ==
  ASSUME Beyond, fed' = fed, marks' = 0 => marks = 0
  PROVE  OtsimHosts' = OtsimHosts /\ HelicsHosts \subseteq HelicsHosts'
<1>1. OtsimHosts' = OtsimHosts
  BY MetadataKept DEF OtsimHosts
<1>2. ASSUME NEW h \in HelicsHosts PROVE h \in HelicsHosts'
  <2>1. h \in DOMAIN fed.nodes /\ UsesHelics
        /\ (marks = 0 => configured /\ h \in SubHosts(Final) \cup {Root})
    BY DEF HelicsHosts
  <2>2. topo' = topo => Final' = Final
    BY MetadataKept DEF Final, Seen
  <2>3. topo' = topo => SubHosts(Final)' = SubHosts(Final)
    BY <2>2, ScriptsOfKept
  <2>4. Root' = Root /\ UsesHelics'
    BY <2>1, MetadataKept
  <2>5. marks' = 0 => configured' /\ h \in SubHosts(Final)' \cup {Root'}
    BY <2>1, <2>3, <2>4 DEF Beyond
  <2>. QED  BY <2>1, <2>4, <2>5 DEF HelicsHosts
<1>. QED  BY <1>1, <1>2

LEMMA OrderedMore ==
  ASSUME NEW t, NEW S, NEW H, NEW G, Ordered(t, S, H), H \subseteq G
  PROVE  Ordered(t, S, G)
BY DEF Ordered

\* Nodes with the injections of others, whatever else they have.
LEMMA OrderedSame ==
  ASSUME NEW t, NEW u, NEW S, NEW H, Ordered(t, S, H), DOMAIN u = DOMAIN t,
         \A h \in DOMAIN t : u[h].injects = t[h].injects
  PROVE  Ordered(u, S, H)
BY QuietOrdered

\* The annotations that ot-sim made are there, also in the next state.
LEMMA AnsweredNext ==
  ASSUME fed' = fed
  PROVE  \A i : /\ Answered(exp, connects, i)' <=> Answered(exp', connects', i)
                /\ Answered(work, connects, i)' <=> Answered(work', connects', i)
<1>1. Servers' = Servers /\ \A s : Address(s)' = Address(s)
  BY MetadataKept
<1>. QED  BY <1>1 DEF Answered

LEMMA AnsweredKept ==
  ASSUME NEW t, NEW u, NEW i, t[Servers[i].host].feds = u[Servers[i].host].feds,
         Answered(t, connects, i)
  PROVE  Answered(u, connects, i)
BY DEF Answered, Answers

\* While all nodes boot, the helics app reads the same whenever it is its turn.
LEMMA SeenFinal ==
  ASSUME FedInv, NodesInv, marks = 0,
         \A i \in DOMAIN Servers : Answered(exp, connects, i)
  PROVE  Seen(exp) = Final
<1>1. DOMAIN exp = DOMAIN fed.nodes
  BY DEF FedInv, NodesOf
<1>2. ASSUME NEW h \in DOMAIN exp
      PROVE  exp[h].boot = TRUE /\ exp[h].feds = FinalFeds(h)
  <2>1. exp[h].boot = TRUE /\ (~IsServer(h) => exp[h].feds = fed.nodes[h])
    BY DEF NodesInv
  <2>2. CASE IsServer(h)
    <3> DEFINE i == CHOOSE i \in DOMAIN Servers : Servers[i].host = h
    <3>1. i \in DOMAIN Servers /\ Servers[i].host = h
      BY <2>2 DEF IsServer, Servers
    <3>2. Answered(exp, connects, i)
      BY <3>1
    <3>3. FinalFeds(h) = <<[broker |-> Address(Servers[i]), count |-> 1]>>
      BY <2>2 DEF FinalFeds
    <3> HIDE DEF i
    <3>. QED  BY <2>1, <3>1, <3>2, <3>3 DEF Answered, Answers
  <2>3. CASE ~IsServer(h)
    BY <2>1, <2>3 DEF FinalFeds
  <2>. QED  BY <2>2, <2>3
<1> DEFINE t == [h \in DOMAIN fed.nodes |-> [boot |-> TRUE, feds |-> FinalFeds(h)]]
<1>3. DOMAIN t = DOMAIN exp
  BY <1>1
<1>4. \A h \in DOMAIN exp : t[h].boot = exp[h].boot /\ t[h].feds = exp[h].feds
  BY <1>1, <1>2
<1>5. Final = Seen(t)
  BY DEF Final
<1> HIDE DEF t
<1>. QED  BY <1>3, <1>4, <1>5 DEF Seen

\* The hosts of the scripts of the helics app are in the experiment.
LEMMA HelicsHere ==
  ASSUME HelicsReads
  PROVE  DOMAIN HelicsAll \subseteq DOMAIN exp
<1>1. DOMAIN Seen(exp) = DOMAIN exp
  BY DEF Seen
<1>2. \A x \in SubHosts(Seen(exp)) : x \in DOMAIN exp
  BY <1>1 DEF HelicsReads, SubHosts, Usable
<1>. QED  BY <1>2 DEF HelicsReads, HelicsAll, HelicsScripts

\* The scripts that are left are those of hosts, and of the app whose turn it is.
LEMMA WriteFits ==
  ASSUME FedInv, NodesInv, ScriptsInv, fpc \in {"otsim scripts", "helics scripts"},
         NEW h \in DOMAIN todo
  PROVE  /\ h \in DOMAIN work /\ App \in Apps
         /\ App = "ot-sim" => h \in OtsimHosts
         /\ App = "helics" =>
              h \in HelicsHosts /\ (h \in OtsimHosts => HasStart(work, h, "ot-sim"))
<1>1. DOMAIN exp = DOMAIN fed.nodes /\ DOMAIN work = DOMAIN exp
  BY DEF FedInv, NodesOf
<1>2. CASE fpc = "otsim scripts"
  <2>1. h \in DOMAIN OtsimScripts /\ App = "ot-sim"
    BY <1>2 DEF ScriptsInv, Left, App
  <2>2. h \in DOMAIN exp /\ Counted(h) # {}
    BY <2>1 DEF OtsimScripts
  <2>. QED  BY <1>1, <2>1, <2>2 DEF Apps, OtsimHosts
<1>3. CASE fpc = "helics scripts"
  <2>1. /\ HelicsReads /\ h \in DOMAIN HelicsAll /\ App = "helics" /\ UsesHelics
        /\ configured /\ \A i \in DOMAIN Servers : Answered(exp, connects, i)
        /\ Wrote(OtsimScripts, {}, scripts, work, "ot-sim")
    BY <1>3 DEF ScriptsInv, Left, App, NodesInv
  <2>2. h \in SubHosts(Seen(exp)) \cup {Root}
    BY <2>1 DEF HelicsAll, HelicsScripts
  <2>3. h \in DOMAIN exp
    BY <2>1, HelicsHere
  <2>4. h \in HelicsHosts
    <3>1. marks = 0 => Seen(exp) = Final
      BY <2>1, SeenFinal
    <3>. QED  BY <1>1, <2>1, <2>2, <2>3, <3>1 DEF HelicsHosts
  <2>5. h \in OtsimHosts => HasStart(work, h, "ot-sim")
    <3>1. h \in OtsimHosts => h \in DOMAIN OtsimScripts
      BY <1>1 DEF OtsimHosts, OtsimScripts
    <3>. QED  BY <2>1, <3>1 DEF Wrote
  <2>. QED  BY <1>1, <2>1, <2>2, <2>3, <2>4, <2>5 DEF Apps
<1>. QED  BY <1>2, <1>3

Brokers == NodesInv /\ OrderedInv /\ ScriptsInv

\* Scripts of the two apps come in their order at the path they share.
LEMMA OrderedNext ==
  ASSUME FedInv, Brokers, Beyond, [FedNext]_allVars \/ SceptreFail
  PROVE  OrderedInv'
<1> DEFINE S == OtsimHosts
           H == HelicsHosts
<1>1. Ordered(exp, S, H) /\ Ordered(work, S, H)
  BY DEF Brokers, OrderedInv
<1>2. fed' = fed
  BY DEF FedNext, fedVars, allVars, PreStart, OtsimServer, OtsimServersDone, HelicsCount,
         WriteBrokerScript, AppEnd, FedFail, FedBoot, FedStop, Mark, SceptreFail
<1>3. marks' = 0 => marks = 0
  <2>1. CASE Mark
    BY <2>1 DEF Mark, Brokers, NodesInv
  <2>2. CASE ~Mark
    BY <2>2 DEF FedNext, fedVars, allVars, PreStart, OtsimServer, OtsimServersDone,
         HelicsCount, WriteBrokerScript, AppEnd, FedFail, FedBoot, FedStop, SceptreFail
  <2>. QED  BY <2>1, <2>2
<1>4. S' = S /\ H \subseteq H'
  BY <1>2, <1>3, HostsKept
<1> HIDE DEF S, H
<1>5. SUFFICES Ordered(exp', S, H) /\ Ordered(work', S, H)
  BY <1>4, OrderedMore DEF OrderedInv, S, H
<1>6. CASE UNCHANGED <<exp, work>>
  BY <1>1, <1>6
<1>7. CASE FedFail \/ SceptreFail
  BY <1>1, <1>7 DEF FedFail, SceptreFail
<1>8. CASE AppEnd
  BY <1>1, <1>8 DEF AppEnd
<1>9. CASE Mark
  <2>1. PICK h \in DOMAIN exp : exp' = [exp EXCEPT ![h].boot = ~@]
    BY <1>9 DEF Mark
  <2>2. DOMAIN exp' = DOMAIN exp /\ \A x \in DOMAIN exp : exp'[x].injects = exp[x].injects
    BY <2>1 DEF FedInv, NodesOf
  <2>3. Ordered(exp', S, H)
    BY <1>1, <2>2, OrderedSame
  <2>. QED  BY <1>9, <2>3 DEF Mark
<1>10. CASE OtsimServer
  <2>1. DOMAIN work' = DOMAIN work
        /\ \A x \in DOMAIN work : \/ work'[x].injects = work[x].injects
                                  \/ Quiet(work[x].injects, work'[x].injects)
    BY <1>10, ServerStep DEF Brokers
  <2>2. Ordered(work', S, H)
    BY <1>1, <2>1, QuietOrdered
  <2>. QED  BY <1>1, <1>10, <2>2 DEF OtsimServer
<1>11. CASE HelicsCount
  <2>1. Beside(work, work')
    BY <1>11, CountStep DEF Brokers
  <2>2. Ordered(work', S, H)
    BY <1>1, <2>1, QuietOrdered DEF Beside
  <2>. QED  BY <1>1, <1>11, <2>2 DEF HelicsCount
<1>12. CASE WriteBrokerScript
  <2>1. PICK h \in DOMAIN todo : work' = Inject(work, h, <<App, h>>, Start)
    BY <1>12 DEF WriteBrokerScript
  <2>2. fpc \in {"otsim scripts", "helics scripts"} /\ exp' = exp
    BY <1>12 DEF WriteBrokerScript
  <2>3. /\ h \in DOMAIN work /\ App \in Apps
        /\ App = "ot-sim" => h \in OtsimHosts
        /\ App = "helics" =>
             h \in HelicsHosts /\ (h \in OtsimHosts => HasStart(work, h, "ot-sim"))
    BY <2>2, WriteFits DEF Brokers
  <2>4. Ordered(work', S, H)
    BY <2>1, <2>3, WriteStep DEF Brokers, S, H
  <2>. QED  BY <1>1, <2>2, <2>4
<1>13. UNCHANGED <<exp, work>> \/ FedFail \/ SceptreFail \/ AppEnd \/ Mark \/ OtsimServer
       \/ HelicsCount \/ WriteBrokerScript
  BY DEF FedNext, fedVars, fedProcess, allVars, PreStart, OtsimServersDone, FedBoot, FedStop
<1>. QED  BY <1>6, <1>7, <1>8, <1>9, <1>10, <1>11, <1>12, <1>13

LEMMA HostsApart ==
  ASSUME Metadata
  PROVE  \A i, j \in DOMAIN Servers : Servers[i].host = Servers[j].host => i = j
<1>1. PICK e \in Experiments : fed = e[2]
  BY DEF Metadata
<1>2. FederationOf(e[2])
  BY FederationAssumption
<1>. QED  BY <1>1, <1>2 DEF Servers, FederationOf

\* Each step keeps the annotations and connections of the stage it leads to.
LEMMA NodesNext ==
  ASSUME FedInv, FedInv', Brokers, Beyond, [FedNext]_allVars \/ SceptreFail
  PROVE  NodesInv'
<1>1. fed' = fed
  BY DEF FedNext, fedVars, allVars, PreStart, OtsimServer, OtsimServersDone, HelicsCount,
         WriteBrokerScript, AppEnd, FedFail, FedBoot, FedStop, Mark, SceptreFail
<1>2. /\ Servers' = Servers /\ (UsesHelics' <=> UsesHelics)
      /\ \A h : IsServer(h)' <=> IsServer(h)
      /\ \A i : /\ Answered(exp, connects, i)' <=> Answered(exp', connects', i)
                /\ Answered(work, connects, i)' <=> Answered(work', connects', i)
  BY <1>1, MetadataKept, AnsweredNext
<1>3. /\ DOMAIN exp = DOMAIN work /\ DOMAIN exp' = DOMAIN exp
      /\ \A i \in DOMAIN Servers : Servers[i].host \in DOMAIN exp
      /\ DOMAIN Servers = 1..Len(Servers) /\ Len(Servers) \in Nat
  BY <1>1, ServersShape DEF FedInv, NodesOf
<1>4. NodesInv
  BY DEF Brokers
<1>5. CASE fpc = "idle" /\ Work /\ UNCHANGED fedVars
  <2>1. up' = up
    BY <1>5 DEF Work, ConfigureStart, ConfigureProfile, InvalidProfile, ConfigureNode,
         NextProfile, ConfigureEnd, PostStart, PostProfile, WriteScript, SendScript,
         PostEnd, Die, DieWriting, Launch, LaunchOn, cluster, process, disk
  <2>2. configured => configured'
    BY DEF Beyond
  <2>3. UNCHANGED <<exp, work, fpc, k, connects, marks, fed>>
    BY <1>5 DEF fedVars, fedProcess, fedDisk
  <2>. QED  BY <1>2, <1>4, <1>5, <2>1, <2>2, <2>3 DEF NodesInv, Stage
<1>6. CASE PreStart
  <2>1. /\ fpc' = "otsim" /\ k' = 1 /\ ~up /\ configured /\ fpc = "idle"
        /\ UNCHANGED <<exp, work, connects, marks, fed, up, configured>>
    BY <1>6 DEF PreStart, vars, cluster, fedDisk
  <2>2. \A i \in DOMAIN Servers : ~(i < 1)
    BY <1>3
  <2>. QED  BY <1>2, <1>4, <2>1, <2>2 DEF NodesInv, Stage
<1>7. CASE OtsimServer
  <2> DEFINE h == Servers[k].host
             a == Address(Servers[k])
             note == <<[broker |-> a, count |-> 1]>>
  <2>1. /\ k \in DOMAIN Servers /\ k \in Nat /\ h \in DOMAIN work
        /\ DOMAIN work' = DOMAIN work
        /\ \A x \in DOMAIN work :
             /\ work'[x].boot = work[x].boot
             /\ work'[x].feds = IF x = h THEN note ELSE work[x].feds
    BY <1>7, ServerStep DEF Brokers
  <2>2. /\ fpc = "otsim" /\ fpc' = "otsim" /\ k' = k + 1
        /\ connects' = Over([x \in {h} |-> a], connects)
        /\ UNCHANGED <<fed, exp, marks, up, configured>>
    BY <1>7 DEF OtsimServer, Server, Servers, vars, cluster
  <2>3. /\ h \in DOMAIN connects' /\ connects'[h] = a
        /\ \A x \in DOMAIN connects : x # h => x \in DOMAIN connects' /\ connects'[x] = connects[x]
    <3> HIDE DEF h, a
    <3>. QED  BY <2>2 DEF Over
  <2>4. IsServer(h)
    BY <2>1 DEF IsServer, Servers
  <2>5. ASSUME NEW i \in DOMAIN Servers, i < k + 1 PROVE Answered(work', connects', i)
    <3>1. CASE i = k
      BY <2>1, <2>3, <3>1 DEF Answered, Answers
    <3>2. CASE i # k
      <4>1. i < k
        BY <1>3, <2>1, <2>5, <3>2
      <4>2. Answered(work, connects, i)
        BY <1>4, <2>2, <4>1 DEF NodesInv
      <4>3. Servers[i].host # h
        BY <2>1, <3>2, HostsApart DEF FedInv
      <4>4. Servers[i].host \in DOMAIN work
        BY <1>3
      <4>5. work'[Servers[i].host].feds = work[Servers[i].host].feds
        BY <2>1, <4>3, <4>4
      <4> HIDE DEF h, a, note
      <4>. QED  BY <2>3, <4>2, <4>3, <4>5 DEF Answered, Answers
    <3>. QED  BY <3>1, <3>2
  <2>6. ASSUME NEW x \in DOMAIN exp'
        PROVE  /\ work'[x].boot = exp'[x].boot
               /\ marks' = 0 => exp'[x].boot = TRUE
               /\ ~IsServer(x)' => exp'[x].feds = fed'.nodes[x] /\ work'[x].feds = fed'.nodes[x]
    <3>1. /\ work[x].boot = exp[x].boot
          /\ marks = 0 => exp[x].boot = TRUE
          /\ ~IsServer(x) => exp[x].feds = fed.nodes[x] /\ work[x].feds = fed.nodes[x]
      BY <1>3, <1>4 DEF NodesInv
    <3> HIDE DEF h, a, note
    <3>. QED  BY <1>2, <1>3, <2>1, <2>2, <2>4, <3>1
  <2>7. k' \in Nat \ {0} /\ \A i \in DOMAIN Servers' : i < k' => Answered(work, connects, i)'
    <3>1. k' = k + 1 /\ k \in Nat
      BY <2>1, <2>2, Zenon
    <3>2. k' \in Nat \ {0}
      BY <3>1
    <3>3. \A i \in DOMAIN Servers' : i < k' => Answered(work', connects', i)
      BY <1>2, <2>5, <3>1, Zenon
    <3>. QED  BY <1>2, <3>2, <3>3
  <2>8. ~up' /\ configured' /\ fpc' = "otsim" /\ marks' \in Nat
    BY <1>4, <2>2 DEF NodesInv
  <2>. QED  BY <2>6, <2>7, <2>8 DEF NodesInv, Stage
<1>8. CASE OtsimServersDone
  <2>1. /\ fpc = "otsim" /\ fpc' = "otsim scripts" /\ k > Len(Servers)
        /\ UNCHANGED <<exp, work, connects, marks, fed, up, configured>>
    BY <1>8 DEF OtsimServersDone, Servers, vars, cluster, fedDisk
  <2>2. \A i \in DOMAIN Servers : i < k
    <3>1. k \in Nat
      BY <1>4, <2>1 DEF NodesInv
    <3>2. ASSUME NEW i \in DOMAIN Servers PROVE i < k
      <4>1. i \in 1..Len(Servers) /\ Len(Servers) \in Nat
        BY <1>3, Zenon
      <4>2. k > Len(Servers)
        BY <2>1
      <4> HIDE DEF Servers
      <4>. QED  BY <3>1, <4>1, <4>2
    <3>. QED  BY <3>2
  <2>3. \A i \in DOMAIN Servers : Answered(work', connects', i)
    BY <1>4, <2>1, <2>2 DEF NodesInv
  <2>. QED  BY <1>2, <1>4, <2>1, <2>3 DEF NodesInv, Stage
<1>9. CASE HelicsCount
  <2>1. /\ fpc = "helics" /\ fpc' = "helics scripts"
        /\ UNCHANGED <<exp, connects, marks, fed, up, configured>>
    BY <1>9 DEF HelicsCount, vars, cluster, fedDisk
  <2>2. /\ DOMAIN work' = DOMAIN work
        /\ \A x \in DOMAIN work : work'[x].boot = work[x].boot /\ work'[x].feds = work[x].feds
    BY <1>9, CountStep DEF Brokers, Beside
  <2>3. \A i \in DOMAIN Servers : Answered(exp, connects, i)
    BY <1>4, <2>1 DEF NodesInv
  <2>4. \A i \in DOMAIN Servers : Answered(work', connects', i)
    <3>1. \A i \in DOMAIN Servers : Answered(work, connects, i)
      BY <1>4, <2>1, <2>3 DEF NodesInv
    <3>2. \A i \in DOMAIN Servers : Answered(work', connects, i)
      BY <1>3, <2>2, <3>1, AnsweredKept
    <3>. QED  BY <2>1, <3>2
  <2>5. ASSUME NEW x \in DOMAIN exp'
        PROVE  /\ work'[x].boot = exp'[x].boot
               /\ marks' = 0 => exp'[x].boot = TRUE
               /\ ~IsServer(x)' => exp'[x].feds = fed'.nodes[x] /\ work'[x].feds = fed'.nodes[x]
    BY <1>2, <1>3, <1>4, <2>1, <2>2 DEF NodesInv
  <2>6. /\ ~up' /\ configured' /\ fpc' = "helics scripts" /\ marks' \in Nat /\ UsesHelics'
        /\ \A i \in DOMAIN Servers' : Answered(exp', connects', i)
        /\ \A i \in DOMAIN Servers' : Answered(work', connects', i)
    BY <1>2, <1>4, <2>1, <2>3, <2>4 DEF NodesInv
  <2>. QED  BY <1>2, <2>5, <2>6 DEF NodesInv, Stage
<1>10. CASE WriteBrokerScript
  <2>1. PICK h \in DOMAIN todo : work' = Inject(work, h, <<App, h>>, Start)
    BY <1>10 DEF WriteBrokerScript
  <2>2. /\ fpc \in {"otsim scripts", "helics scripts"} /\ fpc' = fpc
        /\ UNCHANGED <<exp, connects, marks, fed, up, configured>>
    BY <1>10 DEF WriteBrokerScript, vars, cluster
  <2>3. /\ DOMAIN work' = DOMAIN work
        /\ \A x \in DOMAIN work : work'[x].boot = work[x].boot /\ work'[x].feds = work[x].feds
    <3>1. /\ h \in DOMAIN work /\ App \in Apps
          /\ App = "ot-sim" => h \in OtsimHosts
          /\ App = "helics" =>
               h \in HelicsHosts /\ (h \in OtsimHosts => HasStart(work, h, "ot-sim"))
      BY <2>2, WriteFits DEF Brokers
    <3>. QED  BY <2>1, <3>1, WriteStep DEF Brokers
  <2>4. \A i \in DOMAIN Servers : Answered(work', connects', i)
    <3>1. \A i \in DOMAIN Servers : Answered(work, connects, i)
      BY <1>4, <2>2 DEF NodesInv
    <3>2. \A i \in DOMAIN Servers : Answered(work', connects, i)
      BY <1>3, <2>3, <3>1, AnsweredKept
    <3>. QED  BY <2>2, <3>2
  <2>5. ASSUME NEW x \in DOMAIN exp'
        PROVE  /\ work'[x].boot = exp'[x].boot
               /\ marks' = 0 => exp'[x].boot = TRUE
               /\ ~IsServer(x)' => exp'[x].feds = fed'.nodes[x] /\ work'[x].feds = fed'.nodes[x]
    BY <1>2, <1>3, <1>4, <2>2, <2>3 DEF NodesInv
  <2>6. /\ ~up' /\ configured' /\ fpc' = fpc /\ marks' \in Nat
        /\ fpc' = "helics scripts" => UsesHelics'
        /\ fpc' = "helics scripts" => \A i \in DOMAIN Servers' : Answered(exp', connects', i)
        /\ \A i \in DOMAIN Servers' : Answered(work', connects', i)
    BY <1>2, <1>4, <2>2, <2>4 DEF NodesInv
  <2>. QED  BY <1>2, <2>2, <2>5, <2>6 DEF NodesInv, Stage
<1>11. CASE AppEnd
  <2>1. /\ fpc \in {"otsim scripts", "helics scripts"} /\ exp' = work /\ work' = work
        /\ fpc' \in {"helics", "ready"} /\ (fpc' = "helics" => UsesHelics)
        /\ UNCHANGED <<connects, marks, fed, up, configured>>
    BY <1>11 DEF AppEnd, vars, cluster, fedDisk
  <2>2. \A i \in DOMAIN Servers : Answered(exp', connects', i)
    BY <1>4, <2>1 DEF NodesInv
  <2>3. ASSUME NEW x \in DOMAIN exp'
        PROVE  /\ work'[x].boot = exp'[x].boot
               /\ marks' = 0 => exp'[x].boot = TRUE
               /\ ~IsServer(x)' => exp'[x].feds = fed'.nodes[x] /\ work'[x].feds = fed'.nodes[x]
    BY <1>2, <1>3, <1>4, <2>1 DEF NodesInv
  <2>4. ~up' /\ configured' /\ marks' \in Nat /\ (fpc' = "helics" => UsesHelics')
    BY <1>2, <1>4, <2>1 DEF NodesInv
  <2>. QED  BY <1>2, <2>1, <2>2, <2>3, <2>4 DEF NodesInv, Stage
<1>12. CASE FedFail \/ SceptreFail
  <2>1. /\ fpc' = "idle" /\ work' = exp /\ UNCHANGED <<exp, connects, marks, fed, up, configured>>
    BY <1>12 DEF FedFail, SceptreFail, vars, cluster, fedDisk
  <2>. QED  BY <1>2, <1>4, <2>1 DEF NodesInv, Stage
<1>13. CASE FedBoot
  <2>1. /\ fpc = "ready" /\ fpc' = "idle" /\ up' /\ configured /\ configured'
        /\ UNCHANGED <<exp, work, connects, marks, fed>>
    BY <1>13 DEF FedBoot, Boot, fedDisk
  <2>. QED  BY <1>2, <1>4, <2>1 DEF NodesInv, Stage
<1>14. CASE FedStop
  <2>1. /\ fpc = "idle" /\ fpc' = "idle" /\ ~up'
        /\ UNCHANGED <<exp, work, connects, marks, fed>>
    BY <1>14 DEF FedStop, Stop, fedProcess, fedDisk
  <2>. QED  BY <1>2, <1>4, <2>1 DEF NodesInv, Stage
<1>15. CASE Mark
  <2>1. PICK h \in DOMAIN exp : exp' = [exp EXCEPT ![h].boot = ~@]
    BY <1>15 DEF Mark
  <2>2. /\ fpc' = "idle" /\ work' = exp' /\ marks' = marks + 1 /\ ~up'
        /\ UNCHANGED <<connects, fed, configured>>
    BY <1>15 DEF Mark, vars, cluster, fedDisk
  <2>3. \A x \in DOMAIN exp : exp'[x].feds = exp[x].feds
    BY <2>1 DEF FedInv, NodesOf
  <2>4. marks' # 0 /\ marks' \in Nat
    <3>1. marks \in Nat
      BY <1>4 DEF NodesInv
    <3>. QED  BY <2>2, <3>1
  <2>. QED  BY <1>2, <1>3, <1>4, <2>2, <2>3, <2>4 DEF NodesInv, Stage
<1>16. CASE UNCHANGED allVars
  <2>1. UNCHANGED <<exp, work, connects, marks, fed, fpc, k, up, configured>>
    BY <1>16 DEF allVars, fedVars, fedProcess, fedDisk, vars, cluster
  <2>. QED  BY <1>2, <1>4, <2>1 DEF NodesInv
<1>. QED
  BY <1>5, <1>6, <1>7, <1>8, <1>9, <1>10, <1>11, <1>12, <1>13, <1>14, <1>15, <1>16
     DEF FedNext

\* The helics app reads the same from nodes that look the same to it.
LEMMA ReadsKept ==
  ASSUME fed' = fed, DOMAIN exp' = DOMAIN exp, Seen(exp)' = Seen(exp)
  PROVE  HelicsAll' = HelicsAll /\ (HelicsReads' <=> HelicsReads)
<1>1. /\ \A t : SubEntries(t)' = SubEntries(t)
      /\ \A t : HelicsScripts(t)' = HelicsScripts(t)
      /\ \A t, e : Usable(t, e)' <=> Usable(t, e)
      /\ Root' = Root
  BY MetadataKept, ScriptsOfKept
<1>2. HelicsAll' = HelicsAll
  BY <1>1 DEF HelicsAll
<1>3. HelicsReads' <=> HelicsReads
  BY <1>1 DEF HelicsReads
<1>. QED  BY <1>2, <1>3

\* One more script is written, and it is one of an app.
LEMMA OneWritten ==
  ASSUME NEW all, NEW f, Left(all, f), NEW d, NEW t, NEW u, NEW a, NEW h \in DOMAIN f,
         Wrote(all, DOMAIN f, d, t, a), HasStart(u, h, a),
         \A x \in DOMAIN all : HasStart(t, x, a) => HasStart(u, x, a)
  PROVE  LET g == [x \in DOMAIN f \ {h} |-> f[x]]
         IN  /\ Left(all, g)
             /\ Wrote(all, DOMAIN g, Over([x \in {<<a, h>>} |-> f[h]], d), u, a)
<1> DEFINE g == [x \in DOMAIN f \ {h} |-> f[x]]
           v == f[h]
           e == Over([x \in {<<a, h>>} |-> v], d)
<1>1. Left(all, g)
  BY DEF Left
<1>2. v = all[h]
  BY DEF Left
<1>3. DOMAIN g = DOMAIN f \ {h}
  OBVIOUS
<1>4. /\ <<a, h>> \in DOMAIN e /\ e[<<a, h>>] = v
      /\ \A x \in DOMAIN d : x # <<a, h>> => x \in DOMAIN e /\ e[x] = d[x]
  <2> HIDE DEF v
  <2>. QED  BY DEF Over
<1> HIDE DEF g, v, e
<1>5. ASSUME NEW x \in DOMAIN all \ DOMAIN g
      PROVE  HasStart(u, x, a) /\ <<a, x>> \in DOMAIN e /\ e[<<a, x>>] = all[x]
  <2>1. CASE x = h
    BY <1>2, <1>4, <2>1
  <2>2. CASE x # h
    <3>1. x \in DOMAIN all \ DOMAIN f
      BY <1>3, <2>2
    <3>2. HasStart(t, x, a) /\ <<a, x>> \in DOMAIN d /\ d[<<a, x>>] = all[x]
      BY <3>1 DEF Wrote
    <3>3. <<a, x>> # <<a, h>>
      BY <2>2
    <3>. QED  BY <1>4, <3>2, <3>3
  <2>. QED  BY <2>1, <2>2
<1>6. Wrote(all, DOMAIN g, e, u, a)
  BY <1>5 DEF Wrote
<1>. QED  BY <1>1, <1>6 DEF g, v, e

\* The scripts of the other app stay.
LEMMA OthersWritten ==
  ASSUME NEW all, NEW d, NEW e, NEW t, NEW u, NEW a, Wrote(all, {}, d, t, a),
         \A x : <<a, x>> \in DOMAIN d => <<a, x>> \in DOMAIN e /\ e[<<a, x>>] = d[<<a, x>>],
         \A x \in DOMAIN all : HasStart(t, x, a) => HasStart(u, x, a)
  PROVE  Wrote(all, {}, e, u, a)
BY DEF Wrote

\* And what is written and what is left, in what phenix saves and the app prints.
LEMMA ScriptsNext ==
  ASSUME FedInv, FedInv', Brokers, Beyond, [FedNext]_allVars \/ SceptreFail
  PROVE  ScriptsInv'
<1>1. fed' = fed
  BY DEF FedNext, fedVars, allVars, PreStart, OtsimServer, OtsimServersDone, HelicsCount,
         WriteBrokerScript, AppEnd, FedFail, FedBoot, FedStop, Mark, SceptreFail
<1>2. /\ DOMAIN exp = DOMAIN work /\ DOMAIN exp' = DOMAIN exp
      /\ OtsimScripts' = OtsimScripts /\ (UsesHelics' <=> UsesHelics)
  <2>1. DOMAIN exp = DOMAIN work /\ DOMAIN exp' = DOMAIN exp
    BY <1>1 DEF FedInv, NodesOf
  <2>. QED  BY <1>1, <2>1, ScriptsOfKept, MetadataKept
<1>3. NodesInv /\ ScriptsInv
  BY DEF Brokers
<1>4. ASSUME UNCHANGED <<exp, scripts>>, configured, Settled
      PROVE  Settled'
  <2>1. topo' = topo
    BY <1>4 DEF Beyond
  <2>2. Seen(exp)' = Seen(exp)
    BY <1>4, <2>1 DEF Seen
  <2>3. HelicsAll' = HelicsAll /\ (HelicsReads' <=> HelicsReads)
    BY <1>1, <1>2, <2>2, ReadsKept
  <2>. QED  BY <1>2, <1>4, <2>3 DEF Settled
<1>5. ASSUME UNCHANGED <<exp, scripts, up, told>>, fpc' \in {"idle", "otsim"}
      PROVE  ScriptsInv'
  <2>1. fpc' \notin {"otsim scripts", "helics", "helics scripts"}
    BY <1>5
  <2>2. fpc' = "ready" \/ up' => Settled'
    BY <1>3, <1>4, <1>5 DEF ScriptsInv, NodesInv
  <2>3. up' => told' = [h \in {x \in DOMAIN exp' : exp'[x].boot} |-> Runs(exp', scripts', h)]
    BY <1>3, <1>5 DEF ScriptsInv
  <2>. QED  BY <2>1, <2>2, <2>3 DEF ScriptsInv
<1>6. CASE fpc = "idle" /\ Work /\ UNCHANGED fedVars
  <2>1. up' = up
    BY <1>6 DEF Work, ConfigureStart, ConfigureProfile, InvalidProfile, ConfigureNode,
         NextProfile, ConfigureEnd, PostStart, PostProfile, WriteScript, SendScript,
         PostEnd, Die, DieWriting, Launch, LaunchOn, cluster, process, disk
  <2>. QED  BY <1>5, <1>6, <2>1 DEF fedVars, fedProcess, fedDisk, Stage
<1>7. CASE PreStart
  BY <1>5, <1>7 DEF PreStart, fedDisk, vars, cluster, Stage
<1>8. CASE OtsimServer \/ Mark
  <2>1. OtsimServer => fpc' = "otsim" /\ ~up'
    <3>1. OtsimServer => fpc = "otsim" /\ fpc' = fpc /\ up' = up
      BY Zenon DEF OtsimServer, vars, cluster
    <3>2. fpc = "otsim" => ~up
      BY <1>3 DEF NodesInv
    <3>. QED  BY <3>1, <3>2
  <2>2. Mark => fpc' = "idle" /\ ~up'
    BY DEF Mark, vars, cluster
  <2>. QED  BY <1>8, <2>1, <2>2 DEF ScriptsInv
<1>9. CASE OtsimServersDone
  <2>1. /\ fpc' = "otsim scripts" /\ todo' = OtsimScripts /\ ~up'
    BY <1>3, <1>9 DEF OtsimServersDone, vars, cluster, NodesInv
  <2>2. Left(OtsimScripts', todo') /\ Wrote(OtsimScripts', DOMAIN todo', scripts', work', "ot-sim")
    BY <1>2, <2>1 DEF Left, Wrote
  <2>. QED  BY <2>1, <2>2 DEF ScriptsInv
<1>10. CASE HelicsCount
  <2>1. /\ fpc = "helics" /\ fpc' = "helics scripts" /\ todo' = HelicsAll /\ HelicsReads
        /\ UNCHANGED <<exp, scripts, topo>> /\ ~up' /\ work = exp
    BY <1>3, <1>10 DEF HelicsCount, vars, cluster, fedDisk, NodesInv, HelicsAll
  <2>2. Beside(work, work')
    BY <1>10, CountStep DEF Brokers
  <2>3. Seen(exp)' = Seen(exp) /\ Seen(work)' = Seen(exp)
    <3>1. Seen(exp)' = Seen(exp)
      BY <2>1 DEF Seen
    <3>2. Seen(work)' = Seen(exp)
      BY <2>1, <2>2 DEF Seen, Beside
    <3>. QED  BY <3>1, <3>2
  <2>4. HelicsAll' = HelicsAll /\ HelicsReads'
    BY <1>1, <1>2, <2>1, <2>3, ReadsKept
  <2>5. Wrote(OtsimScripts, {}, scripts, work', "ot-sim")
    <3>1. Wrote(OtsimScripts, {}, scripts, work, "ot-sim")
      BY <1>3, <2>1 DEF ScriptsInv
    <3>2. Ordered(work, OtsimHosts, HelicsHosts)
      BY DEF Brokers, OrderedInv
    <3>3. \A h \in DOMAIN work, a \in Apps : HasStart(work', h, a) <=> HasStart(work, h, a)
      BY <2>2, <3>2, QuietOrdered DEF Beside
    <3>4. DOMAIN OtsimScripts \subseteq DOMAIN work
      BY <1>2 DEF OtsimScripts
    <3>. QED  BY <3>1, <3>3, <3>4 DEF Wrote, Apps
  <2>6. Left(HelicsAll', todo') /\ Wrote(HelicsAll', DOMAIN todo', scripts', work', "helics")
    BY <2>1, <2>4 DEF Left, Wrote
  <2>7. Wrote(OtsimScripts', {}, scripts', work', "ot-sim")
    BY <1>2, <2>1, <2>5
  <2>8. Seen(work)' = Seen(exp)'
    BY <2>3
  <2>. QED  BY <2>1, <2>4, <2>6, <2>7, <2>8 DEF ScriptsInv
<1>11. CASE WriteBrokerScript
  <2>1. PICK h \in DOMAIN todo :
          /\ scripts' = Over([x \in {<<App, h>>} |-> todo[h]], scripts)
          /\ work' = Inject(work, h, <<App, h>>, Start)
          /\ todo' = [x \in DOMAIN todo \ {h} |-> todo[x]]
    BY <1>11 DEF WriteBrokerScript
  <2>2. /\ fpc \in {"otsim scripts", "helics scripts"} /\ fpc' = fpc
        /\ UNCHANGED <<exp, topo>> /\ ~up'
    BY <1>3, <1>11 DEF WriteBrokerScript, vars, cluster, NodesInv
  <2>3. /\ h \in DOMAIN work /\ App \in Apps
        /\ App = "ot-sim" => h \in OtsimHosts
        /\ App = "helics" =>
             h \in HelicsHosts /\ (h \in OtsimHosts => HasStart(work, h, "ot-sim"))
    BY <2>2, WriteFits DEF Brokers
  <2>4. /\ HasStart(work', h, App) /\ DOMAIN work' = DOMAIN work
        /\ \A x \in DOMAIN work, a \in Apps : HasStart(work, x, a) => HasStart(work', x, a)
        /\ \A x \in DOMAIN work : work'[x].boot = work[x].boot /\ work'[x].feds = work[x].feds
    BY <2>1, <2>3, WriteStep DEF Brokers
  <2>5. DOMAIN OtsimScripts \subseteq DOMAIN work
    BY <1>2 DEF OtsimScripts
  <2>6. CASE fpc = "otsim scripts"
    <3>1. /\ Left(OtsimScripts, todo)
          /\ Wrote(OtsimScripts, DOMAIN todo, scripts, work, "ot-sim")
          /\ App = "ot-sim"
      BY <1>3, <2>6 DEF ScriptsInv, App
    <3>2. \A x \in DOMAIN OtsimScripts :
            HasStart(work, x, "ot-sim") => HasStart(work', x, "ot-sim")
      BY <2>4, <2>5 DEF Apps
    <3>3. /\ Left(OtsimScripts, todo')
          /\ Wrote(OtsimScripts, DOMAIN todo', scripts', work', "ot-sim")
      BY <2>1, <2>4, <3>1, <3>2, OneWritten
    <3>. QED  BY <1>2, <2>2, <2>6, <3>3 DEF ScriptsInv
  <2>7. CASE fpc = "helics scripts"
    <3>1. /\ Seen(work) = Seen(exp) /\ HelicsReads
          /\ Left(HelicsAll, todo) /\ App = "helics"
          /\ Wrote(HelicsAll, DOMAIN todo, scripts, work, "helics")
          /\ Wrote(OtsimScripts, {}, scripts, work, "ot-sim")
      BY <1>3, <2>7 DEF ScriptsInv, App
    <3>2. Seen(exp)' = Seen(exp) /\ Seen(work)' = Seen(work)
      <4>1. Seen(exp)' = Seen(exp)
        BY <2>2 DEF Seen
      <4>2. Seen(work)' = Seen(work)
        BY <2>2, <2>4 DEF Seen
      <4>. QED  BY <4>1, <4>2
    <3>3. HelicsAll' = HelicsAll /\ HelicsReads'
      BY <1>1, <1>2, <3>1, <3>2, ReadsKept
    <3>4. DOMAIN HelicsAll \subseteq DOMAIN work
      BY <1>2, <3>1, HelicsHere
    <3>5. \A x \in DOMAIN HelicsAll :
            HasStart(work, x, "helics") => HasStart(work', x, "helics")
      BY <2>4, <3>4 DEF Apps
    <3>6. \A x \in DOMAIN OtsimScripts :
            HasStart(work, x, "ot-sim") => HasStart(work', x, "ot-sim")
      BY <2>4, <2>5 DEF Apps
    <3>7. /\ Left(HelicsAll, todo')
          /\ Wrote(HelicsAll, DOMAIN todo', scripts', work', "helics")
      BY <2>1, <2>4, <3>1, <3>5, OneWritten
    <3>8. Wrote(OtsimScripts, {}, scripts', work', "ot-sim")
      <4>1. "ot-sim" # "helics"
        OBVIOUS
      <4>2. \A x : <<"ot-sim", x>> # <<"helics", h>>
        BY <4>1
      <4>3. \A x : <<"ot-sim", x>> \in DOMAIN scripts =>
              /\ <<"ot-sim", x>> \in DOMAIN scripts'
              /\ scripts'[<<"ot-sim", x>>] = scripts[<<"ot-sim", x>>]
        BY <2>1, <3>1, <4>2 DEF Over
      <4>. QED  BY <3>1, <3>6, <4>3, OthersWritten
    <3>9. Seen(work)' = Seen(exp)'
      BY <3>1, <3>2
    <3>. QED  BY <1>2, <2>2, <2>7, <3>3, <3>7, <3>8, <3>9 DEF ScriptsInv
  <2>. QED  BY <2>2, <2>6, <2>7
<1>12. CASE AppEnd
  <2>1. /\ fpc \in {"otsim scripts", "helics scripts"} /\ exp' = work /\ work' = work
        /\ DOMAIN todo = {} /\ UNCHANGED <<scripts, topo>> /\ ~up'
        /\ fpc' = IF fpc = "otsim scripts" /\ UsesHelics THEN "helics" ELSE "ready"
    BY <1>3, <1>12 DEF AppEnd, vars, cluster, fedDisk, NodesInv
  <2>2. Wrote(OtsimScripts, {}, scripts, work, "ot-sim")
    BY <1>3, <2>1 DEF ScriptsInv
  <2>3. Wrote(OtsimScripts', {}, scripts', exp', "ot-sim")
    BY <1>2, <2>1, <2>2
  <2>4. CASE fpc = "helics scripts"
    <3>1. /\ Seen(work) = Seen(exp) /\ HelicsReads
          /\ Wrote(HelicsAll, {}, scripts, work, "helics")
      BY <1>3, <2>1, <2>4 DEF ScriptsInv
    <3>2. Seen(exp)' = Seen(exp)
      <4>1. Seen(exp)' = Seen(work)
        BY <2>1 DEF Seen
      <4>. QED  BY <3>1, <4>1
    <3>3. HelicsAll' = HelicsAll /\ HelicsReads'
      BY <1>1, <1>2, <3>1, <3>2, ReadsKept
    <3>4. Settled'
      BY <2>1, <2>3, <3>1, <3>3 DEF Settled
    <3>. QED  BY <2>1, <2>4, <3>4 DEF ScriptsInv
  <2>5. CASE fpc = "otsim scripts" /\ UsesHelics
    <3>1. Wrote(OtsimScripts', {}, scripts', work', "ot-sim")
      BY <1>2, <2>1, <2>2
    <3>. QED  BY <2>1, <2>5, <3>1 DEF ScriptsInv
  <2>6. CASE fpc = "otsim scripts" /\ ~UsesHelics
    <3>1. Settled'
      BY <1>2, <2>3, <2>6 DEF Settled
    <3>. QED  BY <2>1, <2>6, <3>1 DEF ScriptsInv
  <2>. QED  BY <2>1, <2>4, <2>5, <2>6
<1>13. CASE FedFail \/ SceptreFail
  BY <1>5, <1>13 DEF FedFail, SceptreFail, fedDisk, vars, cluster, Stage
<1>14. CASE FedBoot
  <2>1. /\ fpc = "ready" /\ fpc' = "idle" /\ configured
        /\ UNCHANGED <<exp, scripts>>
        /\ told' = [h \in {x \in DOMAIN exp : exp[x].boot} |-> Image(h)]
    BY <1>14 DEF FedBoot, Boot, fedDisk
  <2>2. Settled'
    BY <1>3, <1>4, <2>1 DEF ScriptsInv
  <2>3. \A h \in DOMAIN exp : Image(h) = Runs(exp, scripts, h)
    BY ImageRuns DEF Brokers, OrderedInv
  <2>4. told' = [h \in {x \in DOMAIN exp' : exp'[x].boot} |-> Runs(exp', scripts', h)]
    BY <2>1, <2>3
  <2>. QED  BY <2>1, <2>2, <2>4 DEF ScriptsInv
<1>15. CASE FedStop
  <2>1. fpc' = "idle" /\ ~up'
    BY <1>15 DEF FedStop, Stop, fedProcess
  <2>. QED  BY <2>1 DEF ScriptsInv
<1>16. CASE UNCHANGED allVars
  <2>1. UNCHANGED <<exp, work, scripts, fed, fpc, up, told, todo, topo>>
    BY <1>16 DEF allVars, fedVars, fedProcess, fedDisk, vars, cluster
  <2>2. Seen(exp)' = Seen(exp) /\ Seen(work)' = Seen(work)
    BY <2>1 DEF Seen
  <2>3. HelicsAll' = HelicsAll /\ (HelicsReads' <=> HelicsReads)
    BY <1>1, <1>2, <2>2, ReadsKept
  <2>4. Settled' <=> Settled
    BY <1>2, <2>1, <2>3 DEF Settled
  <2>. QED  BY <1>2, <1>3, <2>1, <2>2, <2>3, <2>4 DEF ScriptsInv
<1>. QED
  BY <1>6, <1>7, <1>8, <1>9, <1>10, <1>11, <1>12, <1>13, <1>14, <1>15, <1>16
     DEF FedNext

LEMMA BrokersInit == FedInit => Brokers
<1> SUFFICES ASSUME FedInit PROVE Brokers
  OBVIOUS
<1>1. /\ exp = [h \in DOMAIN fed.nodes |->
                  [boot |-> TRUE, feds |-> fed.nodes[h], injects |-> <<>>]]
      /\ work = exp /\ fpc = "idle" /\ ~up /\ marks = 0
  BY DEF FedInit, Init
<1>2. /\ DOMAIN exp = DOMAIN fed.nodes
      /\ \A h \in DOMAIN exp :
           exp[h].boot = TRUE /\ exp[h].feds = fed.nodes[h] /\ exp[h].injects = <<>>
  BY <1>1
<1>3. NodesInv
  BY <1>1, <1>2 DEF NodesInv, Stage
<1>4. ScriptsInv
  BY <1>1 DEF ScriptsInv
<1>5. Ordered(exp, OtsimHosts, HelicsHosts)
  <2>1. DOMAIN <<>> = {} /\ Len(<<>>) = 0 /\ <<>> = [i \in 1..0 |-> <<>>[i]]
    OBVIOUS
  <2>2. Listed(<<>>)
    BY <2>1 DEF Listed
  <2>3. \A h : InOrder(<<>>, h)
    BY <2>1, <2>2 DEF InOrder
  <2>4. \A h \in DOMAIN exp, a \in Apps : ~HasStart(exp, h, a)
    BY <1>2, <2>1 DEF HasStart
  <2>. QED  BY <1>2, <2>3, <2>4 DEF Ordered, Apps
<1>. QED  BY <1>1, <1>3, <1>4, <1>5 DEF Brokers, OrderedInv

LEMMA BrokersNext ==
  ASSUME FedInv, FedInv', Brokers, [configured => topo' = topo]_vars,
         [FedNext]_allVars \/ SceptreFail
  PROVE  Brokers'
<1>1. configured => configured'
  <2>1. [Next]_vars
    BY FedStep DEF SceptreFail
  <2>2. Next => (configured => configured')
    BY DEF Next, Work, ConfigureStart, ConfigureProfile, InvalidProfile, ConfigureNode,
       NextProfile, ConfigureEnd, PostStart, PostProfile, WriteScript, SendScript,
       PostEnd, Die, DieWriting, Launch, LaunchOn, Boot, Stop, cluster,
       process, disk
  <2>. QED  BY <2>1, <2>2 DEF vars
<1>2. Beyond
  BY <1>1 DEF Beyond, vars
<1>. QED  BY <1>2, NodesNext, OrderedNext, ScriptsNext DEF Brokers

LEMMA BrokersHold == SceptreSpec => [](FedInv /\ Brokers)
<1>1. SceptreInit => FedInv /\ Brokers
  BY FedInvInit, BrokersInit DEF SceptreInit
<1>2. FedInv /\ SceptreFail => FedInv'
  BY DEF SceptreFail, FedInv, Metadata, NodesOf
<1>3. FedInv /\ [SceptreNext]_everything => FedInv'
  BY <1>2, SceptreStep, FedInvNext
<1>4. /\ FedInv /\ Brokers /\ [SceptreNext]_everything
      /\ [configured => topo' = topo]_vars
      => (FedInv /\ Brokers)'
  BY <1>3, SceptreStep, BrokersNext
<1>5. SceptreSpec => [][configured => topo' = topo]_vars
  BY ComposedWithSceptre, RepeatableHolds DEF Repeatable
<1>. QED  BY <1>1, <1>4, <1>5, PTL DEF SceptreSpec

\* The image of a one-to-one function is as large.
LEMMA SameSize ==
  ASSUME NEW S, IsFiniteSet(S), NEW T, NEW f \in [S -> T],
         \A x, y \in S : f[x] = f[y] => x = y, T = {f[x] : x \in S}
  PROVE  IsFiniteSet(T) /\ Cardinality(T) = Cardinality(S)
<1>1. f \in Bijection(S, T)
  BY DEF Bijection, Injection, Surjection, IsInjective
<1>2. ExistsBijection(S, T)
  BY <1>1 DEF ExistsBijection
<1>. QED  BY <1>2, FS_Bijection

\* A federate of the farm or of the user, or the server of a host, counts.
LEMMA SeenShape ==
  ASSUME FedInv, topo[Broker].feds \in Nat, NEW h \in DOMAIN exp,
         IsServer(h) => \E a : exp[h].feds = <<[broker |-> a, count |-> 1]>>,
         ~IsServer(h) => exp[h].feds = fed.nodes[h]
  PROVE  LET s == Seen(exp)[h].feds
         IN  /\ IsFiniteSet(DOMAIN s) /\ (s = <<>> => DOMAIN s = {})
             /\ \A i \in DOMAIN s : s[i].count \in Nat
             /\ Seen(exp)[h].boot = exp[h].boot
             /\ IsServer(h) => s = exp[h].feds
<1> DEFINE s == Seen(exp)[h].feds
<1>0. PICK e \in Experiments : fed = e[2]
  BY DEF FedInv, Metadata
<1>1. FederationOf(fed)
  BY <1>0, FederationAssumption
<1>2. s = IF h = Broker /\ topo[Broker].feds > 0
          THEN <<[broker |-> Endpoint(Broker, 0, FALSE), count |-> topo[Broker].feds]>>
          ELSE exp[h].feds
  BY DEF Seen
<1>3. Seen(exp)[h].boot = exp[h].boot
  BY DEF Seen
<1>4. IsServer(h) => h # Broker
  BY <1>1 DEF IsServer, FederationOf
<1>5. IsServer(h) => s = exp[h].feds
  BY <1>2, <1>4
<1>6. \A a, m : LET q == <<[broker |-> a, count |-> m]>>
                IN  DOMAIN q = {1} /\ q # <<>> /\ q[1].count = m
  OBVIOUS
<1> HIDE DEF s
<1>7. CASE IsServer(h) \/ (h = Broker /\ topo[Broker].feds > 0)
  <2>1. PICK m \in Nat : \E a : s = <<[broker |-> a, count |-> m]>>
    <3>1. CASE IsServer(h)
      <4>1. PICK a : exp[h].feds = <<[broker |-> a, count |-> 1]>>
        BY <3>1
      <4>2. s = <<[broker |-> a, count |-> 1]>> /\ 1 \in Nat
        BY <1>5, <3>1, <4>1
      <4>. QED  BY <4>2, Zenon
    <3>2. CASE ~IsServer(h)
      <4>1. s = <<[broker |-> Endpoint(Broker, 0, FALSE), count |-> topo[Broker].feds]>>
        BY <1>2, <1>7, <3>2
      <4>. QED  BY <4>1, Zenon
    <3>. QED  BY <3>1, <3>2
  <2>2. DOMAIN s = {1} /\ s # <<>> /\ s[1].count \in Nat
    BY <1>6, <2>1
  <2>. QED  BY <1>3, <1>5, <2>2, FS_Singleton DEF s
<1>8. CASE ~IsServer(h) /\ ~(h = Broker /\ topo[Broker].feds > 0)
  <2>1. s = fed.nodes[h] /\ h \in DOMAIN fed.nodes
    BY <1>2, <1>8 DEF FedInv, NodesOf
  <2>2. /\ Len(s) \in Nat /\ DOMAIN s = 1..Len(s)
        /\ \A i \in DOMAIN s : s[i].count \in Nat
    BY <1>1, <2>1 DEF FederationOf
  <2>3. IsFiniteSet(DOMAIN s)
    BY <2>2, FS_Interval
  <2>4. s = <<>> => DOMAIN s = {}
    OBVIOUS
  <2>. QED  BY <1>3, <1>8, <2>2, <2>3, <2>4 DEF s
<1>. QED  BY <1>7, <1>8

\* Entries are those of nodes that boot.
LEMMA EntriesFinite ==
  ASSUME NEW t, IsFiniteSet(DOMAIN t), \A h \in DOMAIN t : IsFiniteSet(DOMAIN t[h].feds)
  PROVE  /\ IsFiniteSet(Entries(t))
         /\ \A e \in Entries(t) : /\ e = <<e[1], e[2]>> /\ e[1] \in Federates(t)
                                  /\ e[1] \in DOMAIN t /\ e[2] \in DOMAIN t[e[1]].feds
         /\ \A h \in Federates(t) : \A i \in DOMAIN t[h].feds : <<h, i>> \in Entries(t)
<1> DEFINE F == Federates(t)
           g == [h \in F |-> {h} \X DOMAIN t[h].feds]
           G == {{h} \X DOMAIN t[h].feds : h \in F}
<1>1. F \in SUBSET DOMAIN t
  BY DEF Federates
<1>2. IsFiniteSet(F)
  BY <1>1, FS_Subset
<1>3. Entries(t) = UNION G
  BY DEF Entries
<1>4. \A h \in F : IsFiniteSet({h} \X DOMAIN t[h].feds)
  BY <1>1, FS_Singleton, FS_Product
<1>5. g \in Surjection(F, G)
  <2> HIDE DEF F
  <2>. QED  BY DEF Surjection
<1> HIDE DEF g
<1>6. IsFiniteSet(G)
  BY <1>2, <1>5, FS_Surjection
<1>7. \A x \in G : IsFiniteSet(x)
  BY <1>4
<1>8. IsFiniteSet(UNION G)
  <2> HIDE DEF G
  <2>. QED  BY <1>6, <1>7, FS_UNION
<1>9. ASSUME NEW e \in Entries(t)
      PROVE  e = <<e[1], e[2]>> /\ e[1] \in F /\ e[2] \in DOMAIN t[e[1]].feds
  <2>1. PICK h \in F : e \in {h} \X DOMAIN t[h].feds
    BY <1>3
  <2>. QED  BY <2>1
<1>10. ASSUME NEW h \in F, NEW i \in DOMAIN t[h].feds PROVE <<h, i>> \in Entries(t)
  BY <1>3
<1>. QED  BY <1>1, <1>3, <1>8, <1>9, <1>10

\* The federates of some entries are as many as the entries say.
LEMMA NumberOfEntries ==
  ASSUME NEW t, NEW es, IsFiniteSet(es), \A e \in es : e = <<e[1], e[2]>>,
         \A e \in es : Entry(t, e).count \in Nat
  PROVE  Number({<<e[1], e[2], Entry(t, e)>> : e \in es}) = Feds(t, es)
<1> DEFINE fs == {<<e[1], e[2], Entry(t, e)>> : e \in es}
           b == [e \in es |-> <<e[1], e[2], Entry(t, e)>>]
           c == [e \in es |-> Entry(t, e).count]
           d == [f \in fs |-> f[3].count]
<1>1. /\ b \in [es -> fs] /\ fs = {b[e] : e \in es}
      /\ \A x, y \in es : b[x] = b[y] => x = y
  OBVIOUS
<1>2. IsFiniteSet(fs)
  <2> HIDE DEF b, fs
  <2>. QED  BY <1>1, SameSize
<1>3. \A f \in fs : f[3].count \in Nat
  OBVIOUS
<1>4. c \in [es -> Nat] /\ d \in [fs -> Nat] /\ \A e \in es : d[b[e]] = c[e]
  OBVIOUS
<1>5. PICK f : Adds(c, es, f) /\ Feds(t, es) = f[es]
  BY FedsAdds
<1> HIDE DEF fs, b, c
<1>6. PICK g : Adds(d, fs, g) /\ Number(fs) = g[fs]
  BY <1>2, <1>3, NumberAdds
<1> HIDE DEF d
<1>7. f[es] = g[fs]
  BY <1>1, <1>2, <1>4, <1>5, <1>6, SumsAgree
<1>. QED  BY <1>5, <1>6, <1>7 DEF fs

\* The federates that run are those that the annotations count, each in its place.
LEMMA RunningCounted ==
  ASSUME FedInv, NodesInv, ScriptsInv, up, topo[Broker].feds \in Nat
  PROVE  LET s == Seen(exp)
         IN  /\ DOMAIN s = DOMAIN exp /\ IsFiniteSet(Entries(s))
             /\ \A e \in Entries(s) : e = <<e[1], e[2]>> /\ Entry(s, e).count \in Nat
             /\ Running = {<<e[1], e[2], Entry(s, e)>> : e \in Entries(s)}
             /\ DOMAIN told = {x \in DOMAIN exp : exp[x].boot}
<1> DEFINE s == Seen(exp)
<1>1. DOMAIN s = DOMAIN exp
  BY DEF Seen
<1>2. DOMAIN told = {x \in DOMAIN exp : exp[x].boot}
  BY DEF ScriptsInv
<1>3. ASSUME NEW h \in DOMAIN exp
      PROVE  /\ IsServer(h) => exp[h].feds = <<[broker |-> connects[h], count |-> 1]>>
             /\ ~IsServer(h) => exp[h].feds = fed.nodes[h]
  <2>1. ~IsServer(h) => exp[h].feds = fed.nodes[h]
    BY DEF NodesInv
  <2>2. ASSUME IsServer(h) PROVE exp[h].feds = <<[broker |-> connects[h], count |-> 1]>>
    <3>1. PICK i \in DOMAIN Servers : Servers[i].host = h
      BY <2>2 DEF IsServer, Servers
    <3>2. Answered(exp, connects, i)
      BY <3>1 DEF NodesInv
    <3>. QED  BY <3>1, <3>2 DEF Answered, Answers
  <2>. QED  BY <2>1, <2>2
<1>4. ASSUME NEW h \in DOMAIN exp
      PROVE  /\ IsFiniteSet(DOMAIN s[h].feds) /\ (s[h].feds = <<>> => DOMAIN s[h].feds = {})
             /\ \A i \in DOMAIN s[h].feds : s[h].feds[i].count \in Nat
             /\ s[h].boot = exp[h].boot
             /\ IsServer(h) => s[h].feds = <<[broker |-> connects[h], count |-> 1]>>
  <2>1. IsServer(h) => \E a : exp[h].feds = <<[broker |-> a, count |-> 1]>>
    BY <1>3
  <2>2. ~IsServer(h) => exp[h].feds = fed.nodes[h]
    BY <1>3
  <2>. QED  BY <1>3, <2>1, <2>2, SeenShape
<1>5. IsFiniteSet(DOMAIN exp)
  <2>1. PICK e \in Experiments : fed = e[2]
    BY DEF FedInv, Metadata
  <2>. QED  BY <2>1, FederationAssumption DEF FederationOf, FedInv, NodesOf
<1> HIDE DEF s
<1>6. /\ IsFiniteSet(Entries(s))
      /\ \A e \in Entries(s) : /\ e = <<e[1], e[2]>> /\ e[1] \in Federates(s)
                               /\ e[1] \in DOMAIN s /\ e[2] \in DOMAIN s[e[1]].feds
      /\ \A h \in Federates(s) : \A i \in DOMAIN s[h].feds : <<h, i>> \in Entries(s)
  BY <1>1, <1>4, <1>5, EntriesFinite
<1>7. \A e \in Entries(s) : Entry(s, e).count \in Nat
  BY <1>1, <1>4, <1>6 DEF Entry
<1>8. Running = {<<e[1], e[2], Entry(s, e)>> : e \in Entries(s)}
  <2> DEFINE Of(h) == IF IsServer(h) THEN {<<h, 1, [broker |-> connects[h], count |-> 1]>>}
                      ELSE {<<h, i, s[h].feds[i]>> : i \in DOMAIN s[h].feds}
             R == {<<e[1], e[2], Entry(s, e)>> : e \in Entries(s)}
  <2>1. Running = UNION {Of(h) : h \in DOMAIN told}
    BY DEF Running, s
  <2>2. ASSUME NEW h \in DOMAIN exp
        PROVE  Of(h) = {<<h, i, s[h].feds[i]>> : i \in DOMAIN s[h].feds}
    <3>1. CASE IsServer(h)
      <4>1. s[h].feds = <<[broker |-> connects[h], count |-> 1]>>
        BY <1>4, <3>1
      <4>2. DOMAIN s[h].feds = {1} /\ s[h].feds[1] = [broker |-> connects[h], count |-> 1]
        BY <4>1
      <4>3. Of(h) = {<<h, 1, s[h].feds[1]>>}
        BY <3>1, <4>2
      <4>. QED  BY <4>2, <4>3
    <3>2. CASE ~IsServer(h)
      BY <3>2
    <3>. QED  BY <3>1, <3>2
  <2> HIDE DEF Of
  <2>3. ASSUME NEW f \in Running PROVE f \in R
    <3>1. PICK h \in DOMAIN told : f \in Of(h)
      BY <2>1
    <3>2. h \in DOMAIN exp /\ exp[h].boot
      BY <1>2
    <3>3. PICK i \in DOMAIN s[h].feds : f = <<h, i, s[h].feds[i]>>
      BY <2>2, <3>1, <3>2
    <3>4. h \in Federates(s)
      BY <1>1, <1>4, <3>2, <3>3 DEF Federates
    <3>5. <<h, i>> \in Entries(s) /\ Entry(s, <<h, i>>) = s[h].feds[i]
      BY <1>6, <3>4 DEF Entry
    <3>. QED  BY <3>3, <3>5
  <2>4. ASSUME NEW f \in R PROVE f \in Running
    <3>1. PICK e \in Entries(s) : f = <<e[1], e[2], Entry(s, e)>>
      OBVIOUS
    <3>2. e[1] \in DOMAIN exp /\ exp[e[1]].boot /\ e[2] \in DOMAIN s[e[1]].feds
      BY <1>1, <1>4, <1>6 DEF Federates
    <3>3. f \in Of(e[1])
      BY <2>2, <3>1, <3>2 DEF Entry
    <3>. QED  BY <1>2, <2>1, <3>2, <3>3
  <2>. QED  BY <2>3, <2>4
<1>. QED  BY <1>1, <1>2, <1>6, <1>7, <1>8 DEF s

\* The script of a VM is that of the helics app, or of ot-sim without one.
LEMMA ToldScripts ==
  ASSUME FedInv, NodesInv, OrderedInv, ScriptsInv, up, NEW h \in DOMAIN told
  PROVE  /\ UsesHelics /\ h \in DOMAIN HelicsAll => told[h] = HelicsAll[h]
         /\ (marks = 0 \/ ~UsesHelics) =>
              \/ UsesHelics /\ h \in DOMAIN HelicsAll
              \/ h \in DOMAIN OtsimScripts /\ told[h] = OtsimScripts[h]
              \/ told[h] = {}
         /\ ~UsesHelics /\ h \in DOMAIN OtsimScripts => told[h] = OtsimScripts[h]
<1>1. /\ Settled /\ h \in DOMAIN exp /\ told[h] = Runs(exp, scripts, h)
  BY DEF ScriptsInv
<1>2. DOMAIN exp = DOMAIN fed.nodes
  BY DEF FedInv, NodesOf
<1>3. /\ HasStart(exp, h, "ot-sim") => h \in OtsimHosts
      /\ HasStart(exp, h, "helics") => h \in HelicsHosts
  BY <1>1 DEF OrderedInv, Ordered
<1>4. h \in OtsimHosts <=> h \in DOMAIN OtsimScripts
  BY <1>1, <1>2 DEF OtsimHosts, OtsimScripts
<1>5. /\ h \in DOMAIN OtsimScripts =>
           HasStart(exp, h, "ot-sim") /\ scripts[<<"ot-sim", h>>] = OtsimScripts[h]
      /\ UsesHelics /\ h \in DOMAIN HelicsAll =>
           HasStart(exp, h, "helics") /\ scripts[<<"helics", h>>] = HelicsAll[h]
  BY <1>1 DEF Settled, Wrote
<1>6. HasStart(exp, h, "helics") => UsesHelics
  BY <1>3 DEF HelicsHosts
<1>7. marks = 0 /\ HasStart(exp, h, "helics") => h \in DOMAIN HelicsAll
  <2> SUFFICES ASSUME marks = 0, HasStart(exp, h, "helics") PROVE h \in DOMAIN HelicsAll
    OBVIOUS
  <2>1. h \in SubHosts(Final) \cup {Root}
    BY <1>3 DEF HelicsHosts
  <2>2. Seen(exp) = Final
    BY SeenFinal DEF NodesInv
  <2>. QED  BY <2>1, <2>2 DEF HelicsAll, HelicsScripts
<1>. QED  BY <1>1, <1>3, <1>4, <1>5, <1>6, <1>7 DEF Runs

\* What the helics app reads and writes, when the brokers of its script run.
LEMMA HelicsBrokers ==
  ASSUME FedInv, NodesInv, OrderedInv, ScriptsInv, up, topo[Broker].feds \in Nat,
         UsesHelics
  PROVE  HelicsCounted
<1> DEFINE s == Seen(exp)
           es == Entries(s)
           Fed(e) == <<e[1], e[2], Entry(s, e)>>
           Host(e) == Entry(s, e).broker.host
           Prt(e) == Entry(s, e).broker.port
           sub == SubEntries(s)
           hosts == SubHosts(s)
           subs == {<<f[3].broker.host, f[3].broker.port>> :
                      f \in Running \ ConnectTo(Root, 0)}
<1>1. /\ DOMAIN s = DOMAIN exp /\ IsFiniteSet(es)
      /\ \A e \in es : e = <<e[1], e[2]>> /\ Entry(s, e).count \in Nat
      /\ Running = {Fed(e) : e \in es}
      /\ DOMAIN told = {x \in DOMAIN exp : exp[x].boot}
  BY RunningCounted
<1>2. HelicsReads /\ Settled
  BY DEF ScriptsInv, Settled
<1>3. /\ sub = {e \in es : ~(Host(e) = Root /\ Prt(e) = 0)}
      /\ hosts = {Host(e) : e \in sub}
      /\ \A h : AtHost(s, h) = {e \in sub : Host(e) = h}
  BY DEF SubEntries, SubHosts, AtHost, Direct
<1>4. \A e \in sub : /\ Host(e) \in DOMAIN exp /\ Prt(e) # 0
                     /\ \A d \in sub : Host(d) = Host(e) => Prt(d) = Prt(e)
  BY <1>1, <1>2, <1>3 DEF HelicsReads, Usable
<1>5. HelicsAll = HelicsScripts(s)
  BY DEF HelicsAll
<1>6. ASSUME NEW fs \in SUBSET es PROVE Number({Fed(e) : e \in fs}) = Feds(s, fs)
  <2>1. IsFiniteSet(fs)
    BY <1>1, FS_Subset
  <2> HIDE DEF s, es
  <2>. QED  BY <1>1, <2>1, NumberOfEntries
<1>7. ASSUME NEW h, NEW q
      PROVE  ConnectTo(h, q) = {Fed(e) : e \in {d \in es : Host(d) = h /\ Prt(d) = q}}
  <2> HIDE DEF s, es
  <2>. QED  BY <1>1 DEF ConnectTo
<1>8. subs = {<<Host(e), Prt(e)>> : e \in sub}
  <2>1. Running \ ConnectTo(Root, 0) = {Fed(e) : e \in sub}
    <3>1. ASSUME NEW f \in Running \ ConnectTo(Root, 0) PROVE f \in {Fed(e) : e \in sub}
      <4>1. PICK e \in es : f = Fed(e)
        BY <1>1
      <4>2. ~(Host(e) = Root /\ Prt(e) = 0)
        BY <1>7, <4>1
      <4>. QED  BY <1>3, <4>1, <4>2
    <3>2. ASSUME NEW e \in sub PROVE Fed(e) \in Running \ ConnectTo(Root, 0)
      <4>1. e \in es /\ ~(Host(e) = Root /\ Prt(e) = 0)
        BY <1>3
      <4>2. Fed(e) \notin ConnectTo(Root, 0)
        <5> HIDE DEF s, es
        <5>. QED  BY <4>1 DEF ConnectTo
      <4>. QED  BY <1>1, <4>1, <4>2
    <3> HIDE DEF Fed, sub
    <3>. QED  BY <3>1, <3>2
  <2>2. \A e : Fed(e)[3].broker.host = Host(e) /\ Fed(e)[3].broker.port = Prt(e)
    OBVIOUS
  <2> HIDE DEF s, sub, Fed, Host, Prt
  <2>. QED  BY <2>1, <2>2
<1> HIDE DEF s, es, sub, hosts, subs
<1>9. Cardinality(subs) = Cardinality(hosts)
  <2> DEFINE port == [h \in hosts |-> Prt(CHOOSE e \in sub : Host(e) = h)]
             b == [h \in hosts |-> <<h, port[h]>>]
  <2>1. \A e \in sub : Host(e) \in hosts /\ port[Host(e)] = Prt(e)
    <3> TAKE e \in sub
    <3> DEFINE d == CHOOSE d \in sub : Host(d) = Host(e)
    <3>1. d \in sub /\ Host(d) = Host(e)
      OBVIOUS
    <3>2. Host(e) \in hosts
      BY <1>3
    <3>3. port[Host(e)] = Prt(d)
      BY <3>2
    <3> HIDE DEF d, port, Host, Prt
    <3>. QED  BY <1>4, <3>1, <3>2, <3>3
  <2>2. IsFiniteSet(hosts)
    <3>1. IsFiniteSet(sub)
      <4>1. sub \in SUBSET es
        BY <1>3
      <4>. QED  BY <1>1, <4>1, FS_Subset
    <3> DEFINE g == [e \in sub |-> Host(e)]
    <3>2. g \in Surjection(sub, hosts)
      <4> HIDE DEF Host
      <4>. QED  BY <1>3 DEF Surjection
    <3> HIDE DEF g
    <3>. QED  BY <3>1, <3>2, FS_Surjection
  <2> HIDE DEF port, Host, Prt
  <2>3. subs = {b[h] : h \in hosts}
    <3>1. ASSUME NEW x \in subs PROVE x \in {b[h] : h \in hosts}
      <4>1. PICK e \in sub : x = <<Host(e), Prt(e)>>
        BY <1>8
      <4>. QED  BY <2>1, <4>1
    <3>2. ASSUME NEW h \in hosts PROVE b[h] \in subs
      <4>1. PICK e \in sub : h = Host(e)
        BY <1>3
      <4>. QED  BY <1>8, <2>1, <4>1
    <3>. QED  BY <3>1, <3>2
  <2>4. /\ b \in [hosts -> subs]
        /\ \A x, y \in hosts : b[x] = b[y] => x = y
    BY <2>3
  <2> HIDE DEF b
  <2>. QED  BY <2>2, <2>3, <2>4, SameSize
<1>10. ASSUME NEW h \in hosts
       PROVE  \E e \in sub : /\ Host(e) = h /\ Prt(e) # 0
                             /\ SubBroker(s, h) = BrokerOf(Prt(e), Number(ConnectTo(h, Prt(e))), 0)
  <2> DEFINE e == CHOOSE x \in AtHost(s, h) : TRUE
  <2>1. AtHost(s, h) # {}
    BY <1>3
  <2>2. e \in sub /\ Host(e) = h
    BY <1>3, <2>1
  <2>3. SubBroker(s, h) = BrokerOf(Prt(e), Feds(s, AtHost(s, h)), 0)
    BY DEF SubBroker
  <2> HIDE DEF e
  <2>4. AtHost(s, h) = {d \in es : Host(d) = h /\ Prt(d) = Prt(e)}
    <3> HIDE DEF Host, Prt
    <3>. QED  BY <1>3, <1>4, <2>2
  <2>5. Number(ConnectTo(h, Prt(e))) = Feds(s, AtHost(s, h))
    <3>1. AtHost(s, h) \in SUBSET es
      BY <2>4
    <3>2. ConnectTo(h, Prt(e)) = {Fed(d) : d \in AtHost(s, h)}
      BY <1>7, <2>4
    <3>. QED  BY <1>6, <3>1, <3>2
  <2>6. Prt(e) # 0
    BY <1>4, <2>2
  <2>. QED  BY <2>2, <2>3, <2>5, <2>6
<1>11. ASSUME NEW h \in hosts \cup {Root}
       PROVE  /\ h \in DOMAIN HelicsAll
              /\ HelicsAll[h] =
                   (IF h = Root THEN {BrokerOf(0, RootFeds(s), Cardinality(hosts))} ELSE {})
                   \cup (IF h \in hosts THEN {SubBroker(s, h)} ELSE {})
  BY <1>5 DEF HelicsScripts, hosts
<1>12. RootFeds(s) = Number(Running)
  BY <1>1, <1>6 DEF RootFeds, es
<1>13. \A p1, f1, b1 : /\ BrokerOf(p1, f1, b1).port = p1
  BY DEF BrokerOf
<1> HIDE DEF Fed, Host, Prt
<1>14. Root \in DOMAIN told =>
         {b \in told[Root] : b.port = 0} = {BrokerOf(0, Number(Running), Cardinality(subs))}
  <2> SUFFICES ASSUME Root \in DOMAIN told
               PROVE  {b \in told[Root] : b.port = 0}
                        = {BrokerOf(0, Number(Running), Cardinality(subs))}
    OBVIOUS
  <2> DEFINE r == BrokerOf(0, Number(Running), Cardinality(subs))
  <2>1. told[Root] = {r} \cup (IF Root \in hosts THEN {SubBroker(s, Root)} ELSE {})
    BY <1>9, <1>11, <1>12, ToldScripts
  <2>2. Root \in hosts => SubBroker(s, Root).port # 0
    BY <1>10, <1>13
  <2>3. r.port = 0
    BY <1>13
  <2> HIDE DEF r
  <2>4. {b \in told[Root] : b.port = 0} = {r}
    BY <2>1, <2>2, <2>3
  <2>. QED  BY <2>4 DEF r
<1>15. \A x \in subs : x[1] \in DOMAIN told =>
         BrokerOf(x[2], Number(ConnectTo(x[1], x[2])), 0) \in told[x[1]]
  <2> SUFFICES ASSUME NEW x \in subs, x[1] \in DOMAIN told
               PROVE  BrokerOf(x[2], Number(ConnectTo(x[1], x[2])), 0) \in told[x[1]]
    OBVIOUS
  <2>1. PICK d \in sub : x = <<Host(d), Prt(d)>>
    BY <1>8
  <2>2. x[1] = Host(d) /\ x[2] = Prt(d) /\ Host(d) \in hosts
    BY <1>3, <2>1
  <2>3. PICK e \in sub : /\ Host(e) = Host(d)
                         /\ SubBroker(s, Host(d))
                              = BrokerOf(Prt(e), Number(ConnectTo(Host(d), Prt(e))), 0)
    BY <1>10, <2>2
  <2>4. Prt(e) = Prt(d)
    BY <1>4, <2>3
  <2>5. told[Host(d)] = HelicsAll[Host(d)] /\ SubBroker(s, Host(d)) \in HelicsAll[Host(d)]
    BY <1>11, <2>2, ToldScripts
  <2>. QED  BY <2>2, <2>3, <2>4, <2>5
<1>16. marks = 0 =>
         {x \in UNION {{h} \X {b.port : b \in told[h]} : h \in DOMAIN told} : x[2] # 0} = subs
  <2> SUFFICES ASSUME marks = 0
               PROVE  {x \in UNION {{h} \X {b.port : b \in told[h]} : h \in DOMAIN told} :
                         x[2] # 0} = subs
    OBVIOUS
  <2>1. ASSUME NEW h \in DOMAIN told, NEW b \in told[h], b.port # 0
        PROVE  <<h, b.port>> \in subs
    <3>1. CASE h \in DOMAIN HelicsAll
      <4>1. h \in hosts \cup {Root}
        BY <1>5, <3>1 DEF HelicsScripts, hosts
      <4>2. told[h] = HelicsAll[h]
        BY <3>1, ToldScripts
      <4>3. BrokerOf(0, RootFeds(s), Cardinality(hosts)).port = 0
        BY <1>13
      <4>4. h \in hosts /\ b = SubBroker(s, h)
        BY <1>11, <2>1, <4>1, <4>2, <4>3
      <4>5. PICK e \in sub : /\ Host(e) = h
                             /\ SubBroker(s, h) = BrokerOf(Prt(e), Number(ConnectTo(h, Prt(e))), 0)
        BY <1>10, <4>4
      <4>6. b.port = Prt(e)
        BY <1>13, <4>4, <4>5
      <4>. QED  BY <1>8, <4>5, <4>6
    <3>2. CASE h \notin DOMAIN HelicsAll
      <4>1. h \in DOMAIN OtsimScripts /\ told[h] = OtsimScripts[h]
        BY <2>1, <3>2, ToldScripts
      <4>2. PICK m : told[h] = {BrokerOf(0, m, 0)}
        BY <4>1 DEF OtsimScripts
      <4>. QED  BY <1>13, <2>1, <4>2
    <3>. QED  BY <3>1, <3>2
  <2>2. ASSUME NEW x \in subs
        PROVE  x[2] # 0 /\ \E h \in DOMAIN told : x \in {h} \X {b.port : b \in told[h]}
    <3>1. PICK d \in sub : x = <<Host(d), Prt(d)>>
      BY <1>8
    <3>2. Prt(d) # 0 /\ Host(d) \in DOMAIN exp
      BY <1>4
    <3>3. Host(d) \in DOMAIN told
      BY <1>1, <3>2 DEF NodesInv
    <3>4. BrokerOf(Prt(d), Number(ConnectTo(Host(d), Prt(d))), 0) \in told[Host(d)]
      BY <1>15, <3>1, <3>3
    <3>5. Prt(d) \in {b.port : b \in told[Host(d)]}
      BY <1>13, <3>4
    <3>. QED  BY <3>1, <3>2, <3>3, <3>5
  <2>3. ASSUME NEW x \in UNION {{h} \X {b.port : b \in told[h]} : h \in DOMAIN told}, x[2] # 0
        PROVE  x \in subs
    <3>1. PICK h \in DOMAIN told : x \in {h} \X {b.port : b \in told[h]}
      OBVIOUS
    <3>2. PICK b \in told[h] : x = <<h, b.port>>
      BY <3>1
    <3>. QED  BY <2>1, <2>3, <3>2
  <2>. QED  BY <2>2, <2>3
<1>. QED  BY <1>14, <1>15, <1>16 DEF HelicsCounted, subs

\* What ot-sim writes, when its brokers run.
LEMMA OtsimBrokers ==
  ASSUME FedInv, NodesInv, OrderedInv, ScriptsInv, up, topo[Broker].feds \in Nat,
         ~UsesHelics
  PROVE  OtsimCounted
<1> SUFFICES ASSUME NEW h \in DOMAIN told, Counted(h) # {},
                    {i \in DOMAIN Servers : Address(Servers[i]).host = h} = Counted(h),
                    \A i \in Counted(h) : Servers[i].host \in DOMAIN told
             PROVE  \E b \in told[h] :
                      b.feds = Servers[Min(Counted(h))].base[1]
                        + Number({f \in ConnectTo(h, 0) : IsServer(f[1])})
  BY DEF OtsimCounted, Servers
<1> DEFINE to == Counted(h)
           q == {f \in ConnectTo(h, 0) : IsServer(f[1])}
           Fed(i) == <<Servers[i].host, 1, [broker |-> Address(Servers[i]), count |-> 1]>>
           b == [i \in to |-> Fed(i)]
           d == [f \in q |-> f[3].count]
<1>1. h \in DOMAIN exp /\ DOMAIN told \subseteq DOMAIN exp
  BY DEF ScriptsInv
<1>2. /\ DOMAIN Servers = 1..Len(Servers) /\ Len(Servers) \in Nat
      /\ \A i, j \in DOMAIN Servers : Servers[i].host = Servers[j].host => i = j
      /\ \A i \in DOMAIN Servers : connects[Servers[i].host] = Address(Servers[i])
  BY ServersShape, HostsApart DEF FedInv, NodesInv, Answered, Answers
<1>3. to \subseteq DOMAIN Servers
      /\ \A i \in to : Address(Servers[i]) = Endpoint(h, 0, FALSE)
  BY DEF Counted, Servers, Address
<1>4. ASSUME NEW i \in DOMAIN Servers, Servers[i].host \in DOMAIN told
      PROVE  Fed(i) \in Running
  <2>1. IsServer(Servers[i].host)
    BY DEF IsServer, Servers
  <2>2. Fed(i) \in {<<Servers[i].host, 1,
                      [broker |-> connects[Servers[i].host], count |-> 1]>>}
    BY <1>2
  <2>. QED  BY <1>4, <2>1, <2>2 DEF Running
<1>5. ASSUME NEW f \in Running, IsServer(f[1])
      PROVE  \E i \in DOMAIN Servers : f = Fed(i)
  <2>1. PICK g \in DOMAIN told :
          f \in IF IsServer(g) THEN {<<g, 1, [broker |-> connects[g], count |-> 1]>>}
                ELSE {<<g, j, Seen(exp)[g].feds[j]>> : j \in DOMAIN Seen(exp)[g].feds}
    BY DEF Running
  <2>2. f[1] = g
    BY <2>1
  <2>3. f = <<g, 1, [broker |-> connects[g], count |-> 1]>>
    BY <1>5, <2>1, <2>2
  <2>4. PICK i \in DOMAIN Servers : Servers[i].host = g
    BY <1>5, <2>2 DEF IsServer, Servers
  <2>. QED  BY <1>2, <2>3, <2>4
<1>6. q = {Fed(i) : i \in to}
  <2>1. ASSUME NEW f \in q PROVE f \in {Fed(i) : i \in to}
    <3>1. f \in Running /\ IsServer(f[1]) /\ f[3].broker.host = h
      BY DEF ConnectTo
    <3>2. PICK i \in DOMAIN Servers : f = Fed(i)
      BY <1>5, <3>1
    <3>3. Address(Servers[i]).host = h
      BY <3>1, <3>2
    <3>. QED  BY <3>2, <3>3
  <2>2. ASSUME NEW i \in to PROVE Fed(i) \in q
    <3>1. i \in DOMAIN Servers /\ Servers[i].host \in DOMAIN told
      BY <1>3
    <3>2. Fed(i) \in Running
      BY <1>4, <3>1
    <3>3. Fed(i)[1] = Servers[i].host /\ Fed(i)[3].broker = Endpoint(h, 0, FALSE)
      BY <1>3
    <3>4. IsServer(Fed(i)[1])
      BY <3>1, <3>3 DEF IsServer, Servers
    <3> HIDE DEF Fed
    <3>. QED  BY <3>2, <3>3, <3>4 DEF ConnectTo, Endpoint
  <2> HIDE DEF q, Fed
  <2>. QED  BY <2>1, <2>2
<1>7. /\ b \in [to -> q] /\ q = {b[i] : i \in to}
      /\ \A x, y \in to : b[x] = b[y] => x = y
  <2>1. \A x, y \in to : Fed(x) = Fed(y) => x = y
    BY <1>2, <1>3
  <2> HIDE DEF Fed, q
  <2>. QED  BY <1>6, <2>1
<1>8. IsFiniteSet(to)
  <2>1. IsFiniteSet(1..Len(Servers))
    BY <1>2, FS_Interval
  <2>2. to \in SUBSET (1..Len(Servers))
    BY <1>2, <1>3, Zenon
  <2> HIDE DEF to
  <2>. QED  BY <2>1, <2>2, FS_Subset
<1>9. \A f \in q : f[3].count = 1
  BY <1>6
<1> HIDE DEF q, b
<1>10. IsFiniteSet(q) /\ Cardinality(q) = Cardinality(to)
  BY <1>7, <1>8, SameSize
<1>11. Number(q) = Cardinality(q)
  <2>1. \A f \in q : f[3].count \in Nat
    BY <1>9
  <2>2. PICK g : Adds(d, q, g) /\ Number(q) = g[q]
    BY <1>10, <2>1, NumberAdds
  <2>3. d \in [q -> Nat] /\ \A f \in q : d[f] = 1
    BY <1>9
  <2> HIDE DEF d
  <2>. QED  BY <1>10, <2>2, <2>3, SumOfOnes
<1>12. told[h] = {BrokerOf(0, Servers[Min(to)].base[1] + Cardinality(to), 0)}
  <2>1. h \in DOMAIN OtsimScripts
        /\ OtsimScripts[h] = {BrokerOf(0, Servers[Min(to)].base[1] + Cardinality(to), 0)}
    BY <1>1 DEF OtsimScripts, Servers
  <2>. QED  BY <2>1, ToldScripts
<1> HIDE DEF to
<1>13. BrokerOf(0, Servers[Min(to)].base[1] + Cardinality(to), 0).feds
         = Servers[Min(to)].base[1] + Number(q)
  BY <1>10, <1>11 DEF BrokerOf
<1>. QED  BY <1>12, <1>13 DEF to, q

LEMMA BrokersImply ==
  FedInv /\ Brokers /\ AnnotationNat => BrokersCounted
BY HelicsBrokers, OtsimBrokers DEF Brokers, BrokersCounted, AnnotationNat

\* Whatever is annotated, configured, marked or fails, and however often the
\* stage runs: the brokers that a booted experiment runs wait for as many
\* federates and sub brokers as connect to them.
THEOREM BrokersCountedHolds == SceptreSpec => []BrokersCounted
<1>1. SceptreSpec => []AnnotationNat
  BY ComposedWithSceptre, AnnotationNatHolds
<1>. QED  BY <1>1, BrokersHold, BrokersImply, PTL

----------------------------------------------------------------------------
(* The files of the plant *)

LEMMA SceptreSteps ==
  ASSUME [SceptreNext]_everything
  PROVE  UNCHANGED plant
BY DEF SceptreNext, everything, scVars, Others, SceptreConfigure, SceptreStart,
  PrepareProvider, PrepareServer, PrepareFederate, PrepareClient, PrepareOpc,
  PrepareScada, PrepareOther, PrepareHistorian, NextStage, SceptreEnd, SceptreFail

\* The plant is one of those there are, and stays it.
LEMMA PlantHolds == SceptreSpec => []PlantOf(plant)
<1>1. SceptreInit => PlantOf(plant)
  <2>. SUFFICES ASSUME SceptreInit PROVE PlantOf(plant)
    OBVIOUS
  <2>1. PICK x \in Plants : plant = x[2]
    BY DEF SceptreInit
  <2>. QED  BY <2>1, PlantAssumption
<1>2. PlantOf(plant) /\ [SceptreNext]_everything => PlantOf(plant)'
  BY SceptreSteps DEF PlantOf, IsList
<1>. QED  BY <1>1, <1>2, PTL DEF SceptreSpec

\* Each host at some places is picked and no other one, and the last one last.
LEMMA PickedAll ==
  ASSUME PlantOf(plant), NEW places \in SUBSET DOMAIN plant.hosts
  PROVE  /\ Len(Picked(places)) \in Nat
         /\ DOMAIN Picked(places) = 1..Len(Picked(places))
         /\ \A i \in places : \E m \in DOMAIN Picked(places) :
              /\ Picked(places)[m] = plant.hosts[i]
              /\ (\A j \in places : j <= i) => m = Len(Picked(places))
         /\ \A m \in DOMAIN Picked(places) : \E i \in places :
              Picked(places)[m] = plant.hosts[i]
<1> DEFINE S == Picked(places)
           c == Cardinality(places)
           Below(i) == {j \in places : j < i}
           E == {S[m] : m \in 1..c}
<1>1. PICK w \in Nat : DOMAIN plant.hosts = 1..w
  BY LenProperties DEF PlantOf, IsList
<1>2. IsFiniteSet(1..w)
  BY FS_Interval
<1>3. IsFiniteSet(places) /\ c \in Nat
  BY <1>1, <1>2, FS_Subset, FS_CardinalityType
<1>4. S = [m \in 1..c |-> plant.hosts[CHOOSE i \in places : Cardinality(Below(i)) = m - 1]]
  BY DEF Picked
<1>5. \A i \in places : IsFiniteSet(Below(i)) /\ Cardinality(Below(i)) \in Nat
  BY <1>3, FS_Subset, FS_CardinalityType
<1>6. \A i \in places :
        /\ i \notin Below(i) /\ Below(i) \cup {i} \subseteq places
        /\ \A j \in places : i < j =>
              Below(i) \cup {i} \subseteq Below(j) /\ Below(j) \subseteq places
  <2>1. \A i \in places : i \in Nat
    BY <1>1
  <2>. QED  BY <2>1
<1> HIDE DEF Below
<1>7. \A i \in places : \A T : Below(i) \cup {i} \subseteq T /\ T \subseteq places
                              => Cardinality(Below(i)) + 1 <= Cardinality(T)
  <2>. SUFFICES ASSUME NEW i \in places, NEW T, Below(i) \cup {i} \subseteq T, T \subseteq places
                PROVE  Cardinality(Below(i)) + 1 <= Cardinality(T)
    OBVIOUS
  <2>1. Cardinality(Below(i) \cup {i}) = Cardinality(Below(i)) + 1
    BY <1>5, <1>6, FS_AddElement
  <2>2. IsFiniteSet(T)
    BY <1>3, FS_Subset
  <2>. QED  BY <2>1, <2>2, FS_Subset
<1>8. /\ \A i \in places : Cardinality(Below(i)) + 1 \in 1..c
      /\ \A i, j \in places : i < j => Cardinality(Below(i)) < Cardinality(Below(j))
  <2>1. \A i \in places : Cardinality(Below(i)) + 1 <= c
    BY <1>6, <1>7
  <2>2. \A i \in places : Cardinality(Below(i)) + 1 \in 1..c
    BY <1>3, <1>5, <2>1
  <2>3. \A i, j \in places : i < j => Cardinality(Below(i)) + 1 <= Cardinality(Below(j))
    BY <1>6, <1>7
  <2>. QED  BY <1>5, <2>2, <2>3
<1>9. \A i, j \in places : Cardinality(Below(i)) = Cardinality(Below(j)) => i = j
  <2>. SUFFICES ASSUME NEW i \in places, NEW j \in places,
                       Cardinality(Below(i)) = Cardinality(Below(j))
                PROVE  i = j
    OBVIOUS
  <2>1. i \in Nat /\ j \in Nat
    BY <1>1
  <2>. QED  BY <1>5, <1>8, <2>1
<1>10. \A i \in places : S[Cardinality(Below(i)) + 1] = plant.hosts[i]
  <2>. TAKE i \in places
  <2> DEFINE b == Cardinality(Below(i))
  <2>1. b + 1 \in 1..c /\ (b + 1) - 1 = b
    BY <1>5, <1>8, <1>3
  <2>2. (CHOOSE x \in places : Cardinality(Below(x)) = b) = i
    BY <1>9
  <2> HIDE DEF b
  <2>3. S[b + 1] = plant.hosts[CHOOSE x \in places : Cardinality(Below(x)) = (b + 1) - 1]
    BY <1>4, <2>1
  <2>4. S[b + 1] = plant.hosts[i]
    BY <2>1, <2>2, <2>3
  <2>. QED  BY <2>4 DEF b
<1>11. S \in [1..c -> E]
  BY <1>4
<1>12. S \in Seq(E)
  BY <1>3, <1>11, SeqDef
<1>13. Len(S) \in Nat /\ DOMAIN S = 1..Len(S)
  BY <1>12, LenProperties
<1>14. DOMAIN S = 1..c
  BY <1>4
<1>15. Len(S) = c
  BY <1>3, <1>13, <1>14
<1>16. ASSUME NEW i \in places, \A j \in places : j <= i
       PROVE  Cardinality(Below(i)) + 1 = c
  <2>1. \A j \in places : j \in Nat
    BY <1>1
  <2>2. places = Below(i) \cup {i} /\ i \notin Below(i)
    BY <1>16, <2>1 DEF Below
  <2>. QED  BY <1>5, <2>2, FS_AddElement
<1>18. \A m \in 1..c : \E i \in places : Cardinality(Below(i)) + 1 = m
  <2> DEFINE f == [i \in places |-> Cardinality(Below(i)) + 1]
  <2>1. f \in [places -> 1..c] /\ \A i, j \in places : f[i] = f[j] => i = j
    BY <1>5, <1>8, <1>9
  <2>2. f \in Injection(places, 1..c)
    BY <2>1 DEF Injection, IsInjective
  <2>3. IsFiniteSet(1..c) /\ Cardinality(1..c) = Cardinality(places)
    BY <1>3, FS_Interval
  <2>4. f \in Surjection(places, 1..c)
    BY <2>2, <2>3, FS_Injection
  <2>. QED  BY <2>4 DEF Surjection
<1>19. \A m \in DOMAIN S : \E i \in places : S[m] = plant.hosts[i]
  BY <1>10, <1>14, <1>18
<1> HIDE DEF S, c, Below, E
<1>17. ASSUME NEW i \in places
       PROVE  \E m \in DOMAIN S : /\ S[m] = plant.hosts[i]
                                  /\ (\A j \in places : j <= i) => m = Len(S)
  <2>1. Cardinality(Below(i)) + 1 \in DOMAIN S
    BY <1>8, <1>14
  <2>. QED  BY <2>1, <1>10, <1>15, <1>16
<1>. QED  BY <1>13, <1>17, <1>19 DEF S

\* The hosts of a part of the stage, and what it writes for each of them.
PartOf(part) ==
  IF part = "federate" THEN Labelled("helics-federate") ELSE OfType(part)
PartFiles(part, h) ==
  CASE part = "provider" -> Own(h, {"config.ini", StartFile(h)})
    [] part \in {"fd-server", "fd-client"} -> Own(h, {"config.xml", StartFile(h)})
    [] part = "federate" -> Own(h, {"helics.json"})
    [] part = "opc" -> Own(h, {"opc.xml", "topserver.ps1"})
    [] part = "scada-server" -> Own(h, ScadaFiles(h))
    [] part = "hmi" -> Own(h, {"hmi.ps1"})
    [] part = "engineer-workstation" -> Own(h, EngineerFiles(h))
    [] part = "historian" -> Own(h, {"historian_config.txt", "historian.ps1"})
    [] OTHER -> {}

\* The stage is past a part.
Behind(part) ==
  \/ spc = "done"
  \/ \E i, j \in DOMAIN Parts : i < j /\ Parts[i] = part /\ Parts[j] = spc

\* Where the stage is, and what it has written beside the files of single hosts.
Position ==
  /\ spc \in {"idle", "done"} \cup Range(Parts)
  /\ InStage => at \in Nat \ {0}
  /\ spc = "fep" => at = 1
  /\ spc # "idle" => fpc # "idle" /\ Scheduler \subseteq made
  /\ Behind("fd-server") => ObjectsFile \subseteq made
  /\ Behind("fep") => Elk \subseteq made

\* The hosts that the stage is past have their files; a front end it never passes.
Prepared ==
  \A part \in Range(Parts) : \A m \in DOMAIN PartOf(part) :
    Behind(part) \/ (spc = part /\ m < at) =>
      part # "fep" /\ PartFiles(part, PartOf(part)[m]) \subseteq made

\* Whatever is injected is one of the files of the host, or there.
Injects(inj) ==
  \A h \in HostNames : \A f \in inj[h] :
    \/ f \in made
    \/ Len(f) = 3
    \/ f \in TypeFiles(HostOf(h))
    \/ "helics-federate" \in HostOf(h).labels /\ f = <<h, "helics.json">>

FilesInv ==
  /\ Position /\ Prepared
  /\ DOMAIN nodes = HostNames /\ DOMAIN draft = HostNames
  /\ Injects(nodes) /\ Injects(draft)

LEMMA PartsList ==
  /\ DOMAIN Parts = 1..10
  /\ \A i, j \in 1..10 : Parts[i] = Parts[j] => i = j
  /\ Range(Parts) = {"provider", "fd-server", "federate", "fd-client", "fep", "opc",
       "scada-server", "hmi", "engineer-workstation", "historian"}
  /\ Parts[1] = "provider" /\ Parts[10] = "historian"
<1>1. DOMAIN Parts = 1..10
  BY DEF Parts
<1>2. \A i, j \in 1..10 : Parts[i] = Parts[j] => i = j
  BY DEF Parts
<1>3. Range(Parts) = {Parts[i] : i \in 1..10}
  BY <1>1 DEF Range
<1>4. {Parts[i] : i \in 1..10} = {"provider", "fd-server", "federate", "fd-client", "fep",
        "opc", "scada-server", "hmi", "engineer-workstation", "historian"}
  BY DEF Parts
<1>5. Parts[1] = "provider" /\ Parts[10] = "historian"
  BY DEF Parts
<1>. QED  BY <1>1, <1>2, <1>3, <1>4, <1>5

\* From one part to the next, only that one is newly behind.
LEMMA OnePart ==
  ASSUME spc \in Range(Parts), spc # "historian",
         spc' = Parts[1 + CHOOSE i \in DOMAIN Parts : Parts[i] = spc]
  PROVE  /\ spc' \in Range(Parts) /\ spc' # "provider"
         /\ \A part : Behind(part)' => Behind(part) \/ part = spc
<1> DEFINE c == CHOOSE i \in DOMAIN Parts : Parts[i] = spc
<1>1. \E i \in DOMAIN Parts : Parts[i] = spc
  BY DEF Range
<1>2. c \in DOMAIN Parts /\ Parts[c] = spc
  BY <1>1
<1> HIDE DEF c
<1>3. c \in 1..9
  <2>1. c \in 1..10 /\ c # 10
    BY <1>2, PartsList
  <2>. QED  BY <2>1
<1>4. spc' = Parts[1 + c]
  BY DEF c
<1>5. 1 + c \in DOMAIN Parts /\ 1 + c # 1 /\ 1 \in DOMAIN Parts
  BY <1>3, PartsList
<1>6. spc' \in Range(Parts)
  BY <1>4, <1>5 DEF Range
<1>7. spc' # "provider"
  BY <1>4, <1>5, PartsList
<1>8. "done" \notin Range(Parts)
  BY PartsList
<1>9. ASSUME NEW part, Behind(part)' PROVE Behind(part) \/ part = spc
  <2>1. spc' # "done"
    BY <1>6, <1>8
  <2>2. PICK i, j \in DOMAIN Parts : i < j /\ Parts[i] = part /\ Parts[j] = spc'
    BY <1>9, <2>1 DEF Behind
  <2>3. j = 1 + c
    BY <1>4, <1>5, <2>2, PartsList
  <2>4. i < c \/ i = c
    BY <1>3, <2>2, <2>3, PartsList
  <2>. QED  BY <1>2, <2>2, <2>4 DEF Behind
<1>. QED  BY <1>6, <1>7, <1>9

LEMMA NoneBehind ==
  /\ spc \in {"idle", "provider"} => \A part : ~Behind(part)
  /\ spc = "historian" => \A part \in Range(Parts) : Behind(part) \/ part = "historian"
<1>1. ASSUME spc \in {"idle", "provider"}, NEW part, Behind(part) PROVE FALSE
  <2>1. PICK i, j \in DOMAIN Parts : i < j /\ Parts[i] = part /\ Parts[j] = spc
    BY <1>1 DEF Behind
  <2>2. spc # "idle"
    BY <2>1, PartsList DEF Range
  <2>3. j = 1
    BY <1>1, <2>1, <2>2, PartsList
  <2>. QED  BY <2>1, <2>3, PartsList
<1>2. ASSUME spc = "historian", NEW part \in Range(Parts)
      PROVE  Behind(part) \/ part = "historian"
  <2>1. PICK i \in DOMAIN Parts : Parts[i] = part
    BY DEF Range
  <2>2. i < 10 \/ i = 10
    BY <2>1, PartsList
  <2>3. 10 \in DOMAIN Parts /\ Parts[10] = spc
    BY <1>2, PartsList
  <2>. QED  BY <2>1, <2>2, <2>3, PartsList DEF Behind
<1>. QED  BY <1>1, <1>2

LEMMA PartList ==
  ASSUME PlantOf(plant), NEW part
  PROVE  Len(PartOf(part)) \in Nat /\ DOMAIN PartOf(part) = 1..Len(PartOf(part))
<1>1. Typed(part) \in SUBSET DOMAIN plant.hosts
  BY DEF Typed
<1>2. {i \in DOMAIN plant.hosts : "helics-federate" \in plant.hosts[i].labels}
        \in SUBSET DOMAIN plant.hosts
  OBVIOUS
<1>. QED  BY <1>1, <1>2, PickedAll DEF PartOf, OfType, Labelled

LEMMA PlantSame ==
  ASSUME UNCHANGED plant
  PROVE  /\ \A part : PartOf(part)' = PartOf(part)
         /\ ObjectsFile' = ObjectsFile /\ HostNames' = HostNames
         /\ \A h : HostOf(h)' = HostOf(h)
<1>1. \A places : Picked(places)' = Picked(places)
  BY DEF Picked
<1>2. \A part : PartOf(part)' = PartOf(part)
  BY <1>1 DEF PartOf, OfType, Labelled, Typed, Picked
<1>3. ObjectsFile' = ObjectsFile
  BY DEF ObjectsFile, PowerWorlds, Simulating, Typed, Picked
<1>4. HostNames' = HostNames
  BY DEF HostNames
<1>5. \A h : HostOf(h)' = HostOf(h)
  BY DEF HostOf
<1>. QED  BY <1>2, <1>3, <1>4, <1>5

LEMMA InjectsMore ==
  ASSUME UNCHANGED plant, made \subseteq made', NEW inj, Injects(inj)
  PROVE  \A new : new = inj => Injects(new)'
<1>1. HostNames' = HostNames /\ \A h : HostOf(h)' = HostOf(h)
  BY PlantSame
<1>. QED  BY <1>1 DEF Injects

\* A host has its files, and the stage goes on to the next one.
LEMMA HostPrepared ==
  ASSUME FilesInv, PlantOf(plant), InStage, spc # "fep",
         UNCHANGED <<plant, spc, fpc>>, at' = at + 1,
         made \subseteq made', PartFiles(spc, Here) \subseteq made'
  PROVE  Position' /\ Prepared'
<1>1. /\ spc \in Range(Parts) /\ at \in Nat \ {0} /\ spc # "idle" /\ spc # "done"
  BY PartsList DEF InStage, FilesInv, Position
<1>2. \A part : PartOf(part)' = PartOf(part)
  BY PlantSame
<1>3. ObjectsFile' = ObjectsFile
  BY PlantSame
<1>4. \A part : Behind(part)' <=> Behind(part)
  BY DEF Behind
<1>5. Position'
  BY <1>1, <1>3, <1>4 DEF FilesInv, Position, InStage
<1>6. Here = PartOf(spc)[at]
  BY DEF Here, Handled, PartOf
<1>7. ASSUME NEW part \in Range(Parts), NEW m \in DOMAIN PartOf(part),
             Behind(part) \/ (spc = part /\ m < at + 1)
      PROVE  part # "fep" /\ PartFiles(part, PartOf(part)[m]) \subseteq made'
  <2>1. m \in Nat
    BY PartList
  <2>2. CASE Behind(part) \/ (spc = part /\ m < at)
    BY <1>7, <2>2 DEF FilesInv, Prepared
  <2>3. CASE spc = part /\ m = at
    BY <1>6, <2>3
  <2>. QED  BY <1>1, <1>7, <2>1, <2>2, <2>3
<1>8. Prepared'
  BY <1>2, <1>4, <1>7 DEF Prepared
<1>. QED  BY <1>5, <1>8

\* After the last host of a part, all of it is behind.
LEMMA PartPassed ==
  ASSUME FilesInv, PlantOf(plant), InStage, at > Len(Handled), UNCHANGED plant,
         made \subseteq made',
         \A part \in Range(Parts) : Behind(part)' => Behind(part) \/ part = spc,
         spc' = "done" \/ (spc' \in Range(Parts) /\ at' = 1)
  PROVE  Prepared'
<1>1. at \in Nat \ {0} /\ Handled = PartOf(spc) /\ (spc = "fep" => at = 1)
  BY DEF FilesInv, Position, Handled, PartOf
<1>2. \A part : PartOf(part)' = PartOf(part)
  BY PlantSame
<1>3. ASSUME NEW part \in Range(Parts), NEW m \in DOMAIN PartOf(part),
             Behind(part) \/ part = spc
      PROVE  part # "fep" /\ PartFiles(part, PartOf(part)[m]) \subseteq made'
  <2>1. /\ m \in 1..Len(PartOf(part)) /\ Len(PartOf(part)) \in Nat
    BY PartList
  <2>2. CASE Behind(part)
    BY <1>3, <2>2 DEF FilesInv, Prepared
  <2>3. CASE part = spc
    <3>1. m < at /\ m >= 1
      BY <1>1, <2>1, <2>3
    <3>. QED  BY <1>1, <2>3, <3>1 DEF FilesInv, Prepared
  <2>. QED  BY <1>3, <2>2, <2>3
<1>4. ASSUME NEW part \in Range(Parts), NEW m \in DOMAIN PartOf(part),
             Behind(part)' \/ (spc' = part /\ m < at')
      PROVE  Behind(part) \/ part = spc
  <2>1. m \in 1..Len(PartOf(part)) /\ Len(PartOf(part)) \in Nat
    BY PartList
  <2>2. "done" \notin Range(Parts)
    BY PartsList
  <2>3. Behind(part)'
    BY <1>4, <2>1, <2>2
  <2>. QED  BY <2>3
<1>. QED  BY <1>2, <1>3, <1>4 DEF Prepared

\* A file is injected under its path or, if the user has another one for it,
\* under a longer one.
LEMMA SourceCases ==
  ASSUME NEW h, NEW f \in TypeFiles(h) \cup LabelFiles(h)
  PROVE  Source(f) = f \/ Len(Source(f)) = 3
<1>1. \A names : \A x \in Own(h, names) : \E b : x = <<h.name, b>>
  BY DEF Own
<1>2. \A x \in Scheduler \cup Elk : \E a, b : x = <<a, b>>
  BY DEF Scheduler, Elk
<1>3. \A x \in TypeFiles(h) : \E a, b : x = <<a, b>>
  BY <1>1, <1>2 DEF TypeFiles
<1>4. \A x \in LabelFiles(h) : \E a, b : x = <<a, b>>
  BY <1>1 DEF LabelFiles, WrittenAtOnce
<1>5. PICK a, b : f = <<a, b>>
  BY <1>3, <1>4
<1> DEFINE S == {a, b, "override"}
<1>6. /\ <<a, b>> \in Seq(S) /\ <<"override">> \in Seq(S)
      /\ Len(<<a, b>>) = 2 /\ Len(<<"override">>) = 1
  OBVIOUS
<1>7. Len(<<a, b>> \o <<"override">>) = 3
  <2>1. Len(<<a, b>> \o <<"override">>) = Len(<<a, b>>) + Len(<<"override">>)
    BY <1>6, ConcatProperties
  <2>. QED  BY <1>6, <2>1
<1>. QED  BY <1>5, <1>7 DEF Source

LEMMA FilesInit == SceptreInit => FilesInv
<1>. SUFFICES ASSUME SceptreInit PROVE FilesInv
  OBVIOUS
<1>1. /\ spc = "idle" /\ at = 0 /\ nodes = [h \in HostNames |-> {}] /\ draft = nodes
  BY DEF SceptreInit
<1>2. ~InStage /\ \A part : ~Behind(part)
  BY <1>1, NoneBehind, PartsList DEF InStage
<1>3. Position
  BY <1>1, <1>2 DEF Position
<1>4. Prepared
  <2>1. "idle" \notin Range(Parts)
    BY PartsList
  <2>. QED  BY <1>1, <1>2, <2>1 DEF Prepared
<1>5. Injects(nodes) /\ Injects(draft)
  BY <1>1 DEF Injects
<1>. QED  BY <1>1, <1>3, <1>4, <1>5 DEF FilesInv

\* What the actions that handle a host have in common.
LEMMA HostStep ==
  ASSUME FilesInv, PlantOf(plant),
         PrepareProvider \/ PrepareServer \/ PrepareFederate \/ PrepareClient
           \/ PrepareOpc \/ PrepareScada \/ PrepareOther \/ PrepareHistorian
  PROVE  /\ InStage /\ spc # "fep" /\ UNCHANGED <<plant, spc, fpc, nodes>>
         /\ at' = at + 1 /\ made \subseteq made' /\ PartFiles(spc, Here) \subseteq made'
         /\ DOMAIN draft' = HostNames /\ Injects(draft)'
<1> DEFINE Went == /\ InStage /\ spc # "fep" /\ UNCHANGED <<plant, spc, fpc, nodes>>
                   /\ at' = at + 1 /\ made \subseteq made'
                   /\ PartFiles(spc, Here) \subseteq made'
<1> USE DEF Handles, Makes, allVars, fedVars, fedProcess, PartFiles, Own
<1>1. CASE PrepareProvider
  <2>1. spc = "provider" /\ InStage
    BY <1>1, PartsList DEF PrepareProvider, InStage
  <2> DEFINE yaml == Here.simulator \in {"RTDS", "OPALRT", "Siren"}
             more == IF yaml THEN {"config.yaml"} ELSE {}
             new == {Here.name} \X {"config.yaml"}
  <2>2. /\ UNCHANGED <<plant, spc, fpc, nodes>> /\ at' = at + 1
        /\ made' = made \cup ({Here.name} \X ({StartFile(Here), "config.ini"} \cup more))
        /\ draft' = IF yaml THEN [draft EXCEPT ![Here.name] = @ \cup new] ELSE draft
    BY <1>1 DEF PrepareProvider
  <2>3. PartFiles("provider", Here) = {Here.name} \X {"config.ini", StartFile(Here)}
    OBVIOUS
  <2>4. Went
    BY <2>1, <2>2, <2>3
  <2>5. yaml => new \subseteq made'
    BY <2>2
  <2>6. DOMAIN draft' = HostNames
    BY <2>2 DEF FilesInv
  <2>7. \A h \in HostNames : draft'[h] \subseteq draft[h] \cup made'
    BY <2>2, <2>5 DEF FilesInv
  <2>8. HostNames' = HostNames /\ \A h : HostOf(h)' = HostOf(h)
    BY <2>2, PlantSame
  <2>9. Injects(draft)'
    BY <2>4, <2>7, <2>8 DEF Injects, FilesInv
  <2>. QED  BY <2>4, <2>6, <2>9
<1>2. CASE PrepareServer
  <2>1. spc = "fd-server" /\ InStage
    BY <1>2, PartsList DEF PrepareServer, InStage
  <2>2. Went /\ draft' = draft
    BY <1>2, <2>1 DEF PrepareServer
  <2>. QED  BY <2>2, InjectsMore, PlantSame DEF FilesInv
<1>3. CASE PrepareFederate
  <2>1. spc = "federate" /\ InStage
    BY <1>3, PartsList DEF PrepareFederate, InStage
  <2>2. Went /\ draft' = draft
    BY <1>3, <2>1 DEF PrepareFederate
  <2>. QED  BY <2>2, InjectsMore, PlantSame DEF FilesInv
<1>4. CASE PrepareClient
  <2>1. spc = "fd-client" /\ InStage
    BY <1>4, PartsList DEF PrepareClient, InStage
  <2>2. Went /\ draft' = draft
    BY <1>4, <2>1 DEF PrepareClient
  <2>. QED  BY <2>2, InjectsMore, PlantSame DEF FilesInv
<1>5. CASE PrepareOpc
  <2>1. spc = "opc" /\ InStage
    BY <1>5, PartsList DEF PrepareOpc, InStage
  <2>2. Went /\ draft' = draft
    BY <1>5, <2>1 DEF PrepareOpc
  <2>. QED  BY <2>2, InjectsMore, PlantSame DEF FilesInv
<1>6. CASE PrepareScada
  <2>1. spc = "scada-server" /\ InStage
    BY <1>6, PartsList DEF PrepareScada, InStage
  <2>2. Went /\ draft' = draft
    BY <1>6, <2>1 DEF PrepareScada
  <2>. QED  BY <2>2, InjectsMore, PlantSame DEF FilesInv
<1>7. CASE PrepareOther
  <2>1. spc \in {"hmi", "engineer-workstation"} /\ InStage
    BY <1>7, PartsList DEF PrepareOther, InStage
  <2>2. Went /\ draft' = draft
    BY <1>7, <2>1 DEF PrepareOther
  <2>. QED  BY <2>2, InjectsMore, PlantSame DEF FilesInv
<1>8. CASE PrepareHistorian
  <2>1. spc = "historian" /\ InStage
    BY <1>8, PartsList DEF PrepareHistorian, InStage
  <2>2. Went /\ draft' = draft
    BY <1>8, <2>1 DEF PrepareHistorian
  <2>. QED  BY <2>2, InjectsMore, PlantSame DEF FilesInv
<1>. QED  BY <1>1, <1>2, <1>3, <1>4, <1>5, <1>6, <1>7, <1>8

LEMMA ConfigureFiles ==
  ASSUME FilesInv, PlantOf(plant), SceptreConfigure
  PROVE  FilesInv'
<1>1. /\ UNCHANGED <<plant, spc, at, fpc>> /\ made \subseteq made' /\ spc = "idle"
  BY DEF SceptreConfigure, allVars, fedVars, fedProcess, FilesInv, Position
<1>2. ~InStage /\ (\A part : ~Behind(part)) /\ ~InStage' /\ (\A part : ~Behind(part)')
  <2>1. "idle" \notin Range(Parts)
    BY PartsList
  <2>. QED  BY <1>1, <2>1, NoneBehind DEF InStage, Behind
<1>3. Position' /\ Prepared'
  <2>1. "idle" \notin Range(Parts)
    BY PartsList
  <2>. QED  BY <1>1, <1>2, <2>1 DEF Position, Prepared
<1>4. HostNames' = HostNames /\ \A h : HostOf(h)' = HostOf(h)
  BY <1>1, PlantSame
<1>5. CASE UNCHANGED <<nodes, draft>>
  BY <1>1, <1>3, <1>4, <1>5, InjectsMore DEF FilesInv
<1>6. CASE /\ OfType("provider") # <<>>
           /\ nodes' = [h \in HostNames |-> nodes[h] \cup Injected(HostOf(h))]
           /\ draft' = nodes'
  <2>1. made' = made \cup UNION {WrittenAtOnce(h) : h \in Range(plant.hosts)}
    BY <1>6 DEF SceptreConfigure
  <2>2. ASSUME NEW h \in HostNames
        PROVE  HostOf(h) \in Range(plant.hosts) /\ HostOf(h).name = h
    <3>1. \E x \in Range(plant.hosts) : x.name = h
      BY DEF HostNames, Range
    <3>. QED  BY <3>1 DEF HostOf
  <2>3. ASSUME NEW h \in HostNames, NEW f \in Injected(HostOf(h))
        PROVE  \/ f \in made'
               \/ Len(f) = 3
               \/ f \in TypeFiles(HostOf(h))
               \/ "helics-federate" \in HostOf(h).labels /\ f = <<h, "helics.json">>
    <3>1. PICK g \in TypeFiles(HostOf(h)) \cup LabelFiles(HostOf(h)) : f = Source(g)
      BY DEF Injected
    <3>2. f = g \/ Len(f) = 3
      BY <3>1, SourceCases
    <3>3. CASE f = g
      <4>1. WrittenAtOnce(HostOf(h)) \subseteq made'
        BY <2>1, <2>2
      <4>. QED  BY <2>2, <3>1, <3>3, <4>1 DEF LabelFiles, Own
    <3>. QED  BY <3>2, <3>3
  <2>4. DOMAIN nodes' = HostNames' /\ DOMAIN draft' = HostNames'
    BY <1>4, <1>6
  <2>5. Injects(nodes)'
    <3>1. ASSUME NEW h \in HostNames, NEW f \in nodes[h]
          PROVE  \/ f \in made'
                 \/ Len(f) = 3
                 \/ f \in TypeFiles(HostOf(h))
                 \/ "helics-federate" \in HostOf(h).labels /\ f = <<h, "helics.json">>
      BY <1>1 DEF FilesInv, Injects
    <3>2. \A h \in HostNames : nodes'[h] = nodes[h] \cup Injected(HostOf(h))
      BY <1>6
    <3>. QED  BY <1>4, <2>3, <3>1, <3>2 DEF Injects
  <2>6. Injects(draft)'
    BY <1>6, <2>5 DEF Injects
  <2>. QED  BY <1>3, <2>4, <2>5, <2>6 DEF FilesInv
<1>. QED  BY <1>5, <1>6 DEF SceptreConfigure

LEMMA FilesNext ==
  ASSUME FilesInv, PlantOf(plant), [SceptreNext]_everything
  PROVE  FilesInv'
<1> DEFINE Same == UNCHANGED <<plant, nodes, draft>> /\ made \subseteq made'
<1>1. ASSUME Same PROVE /\ DOMAIN nodes' = HostNames' /\ DOMAIN draft' = HostNames'
                        /\ Injects(nodes)' /\ Injects(draft)'
  BY <1>1, PlantSame, InjectsMore DEF FilesInv
<1>2. \A part : spc' = "idle" => ~Behind(part)' /\ ~InStage'
  BY PartsList DEF Behind, InStage, Range
<1>3. CASE Others
  <2>1. /\ Same /\ UNCHANGED <<at, made>> /\ ~InStage
        /\ spc' = IF fpc' = "idle" THEN "idle" ELSE spc
    BY <1>3 DEF Others
  <2>2. CASE spc' = "idle"
    <3>1. "idle" \notin Range(Parts)
      BY PartsList
    <3>. QED  BY <1>1, <1>2, <2>1, <2>2, <3>1 DEF FilesInv, Position, Prepared
  <2>3. CASE spc' = spc /\ fpc' # "idle"
    <3>1. (\A part : Behind(part)' <=> Behind(part)) /\ ~InStage'
      BY <2>1, <2>3 DEF Behind, InStage
    <3>2. \A part : PartOf(part)' = PartOf(part)
      BY <2>1, PlantSame
    <3>3. ObjectsFile' = ObjectsFile
      BY <2>1, PlantSame
    <3>4. Position'
      BY <2>1, <2>3, <3>1, <3>3 DEF FilesInv, Position
    <3>5. Prepared'
      BY <2>1, <2>3, <3>1, <3>2 DEF FilesInv, Prepared
    <3>. QED  BY <1>1, <2>1, <3>4, <3>5 DEF FilesInv
  <2>. QED  BY <2>1, <2>2, <2>3
<1>4. CASE SceptreConfigure
  BY <1>4, ConfigureFiles
<1>5. CASE SceptreStart
  <2>1. /\ Same /\ spc' = "provider" /\ at' = 1 /\ fpc' = fpc /\ fpc = "ready"
        /\ Scheduler \subseteq made'
    BY <1>5, PartsList DEF SceptreStart, allVars, fedVars, fedProcess
  <2>2. \A part : ~Behind(part)'
    <3>1. ASSUME NEW part, Behind(part)' PROVE FALSE
      <4>1. PICK i, j \in DOMAIN Parts : i < j /\ Parts[i] = part /\ Parts[j] = "provider"
        BY <2>1, <3>1 DEF Behind
      <4>2. j = 1
        BY <4>1, PartsList
      <4>. QED  BY <4>1, <4>2, PartsList
    <3>. QED  BY <3>1
  <2>3. Position'
    BY <2>1, <2>2, PartsList DEF Position
  <2>4. Prepared'
    <3>1. ASSUME NEW part \in Range(Parts), NEW m \in DOMAIN PartOf(part) PROVE ~(m < 1)
      BY PartList
    <3>2. \A part : PartOf(part)' = PartOf(part)
      BY <2>1, PlantSame
    <3>. QED  BY <2>1, <2>2, <3>1, <3>2 DEF Prepared
  <2>. QED  BY <1>1, <2>1, <2>3, <2>4 DEF FilesInv
<1>6. CASE PrepareProvider \/ PrepareServer \/ PrepareFederate \/ PrepareClient
             \/ PrepareOpc \/ PrepareScada \/ PrepareOther \/ PrepareHistorian
  <2>1. /\ InStage /\ spc # "fep" /\ UNCHANGED <<plant, spc, fpc, nodes>>
        /\ at' = at + 1 /\ made \subseteq made' /\ PartFiles(spc, Here) \subseteq made'
        /\ DOMAIN draft' = HostNames /\ Injects(draft)'
    BY <1>6, HostStep
  <2>2. Position' /\ Prepared'
    BY <2>1, HostPrepared
  <2>3. HostNames' = HostNames /\ Injects(nodes)'
    BY <2>1, PlantSame, InjectsMore DEF FilesInv
  <2>. QED  BY <2>1, <2>2, <2>3 DEF FilesInv
<1>7. CASE NextStage
  <2>1. /\ Same /\ fpc' = fpc /\ spc \in Range(Parts) /\ spc # "historian" /\ at' = 1
        /\ at > Len(Handled) /\ InStage
        /\ spc' = Parts[1 + CHOOSE i \in DOMAIN Parts : Parts[i] = spc]
        /\ (spc = "fd-server" => ObjectsFile \subseteq made')
        /\ (spc = "fep" => Elk \subseteq made')
    BY <1>7 DEF NextStage, InStage, allVars, fedVars, fedProcess
  <2>2. /\ spc' \in Range(Parts) /\ spc' # "provider"
        /\ \A part : Behind(part)' => Behind(part) \/ part = spc
    BY <2>1, OnePart
  <2>3. Prepared'
    BY <2>1, <2>2, PartPassed
  <2>4. ObjectsFile' = ObjectsFile /\ spc # "idle"
    BY <2>1, PlantSame, PartsList
  <2>5. Position'
    BY <2>1, <2>2, <2>4 DEF FilesInv, Position
  <2>. QED  BY <1>1, <2>1, <2>3, <2>5 DEF FilesInv
<1>8. CASE SceptreEnd
  <2>1. /\ spc = "historian" /\ spc \in Range(Parts) /\ InStage /\ at > Len(Handled)
        /\ UNCHANGED <<plant, draft, made, fpc>> /\ nodes' = draft /\ spc' = "done"
    BY <1>8, PartsList DEF SceptreEnd, InStage, allVars, fedVars, fedProcess
  <2>2. \A part \in Range(Parts) : Behind(part)' => Behind(part) \/ part = spc
    BY <2>1, NoneBehind
  <2>3. Prepared'
    BY <2>1, <2>2, PartPassed
  <2>4. ObjectsFile' = ObjectsFile
    BY <2>1, PlantSame
  <2>5. Behind("fd-server") /\ Behind("fep") /\ "done" \notin Range(Parts)
    BY <2>1, NoneBehind, PartsList
  <2>6. Position'
    BY <2>1, <2>4, <2>5 DEF FilesInv, Position, InStage
  <2>7. /\ HostNames' = HostNames
        /\ Injects(draft)' /\ Injects(nodes)'
    BY <2>1, PlantSame, InjectsMore DEF FilesInv
  <2>. QED  BY <2>1, <2>3, <2>6, <2>7 DEF FilesInv
<1>9. CASE SceptreFail
  <2>1. UNCHANGED <<plant, nodes, made>> /\ spc' = "idle" /\ draft' = nodes
    BY <1>9 DEF SceptreFail
  <2>2. HostNames' = HostNames /\ Injects(draft)' /\ Injects(nodes)'
    BY <2>1, PlantSame, InjectsMore DEF FilesInv
  <2>3. "idle" \notin Range(Parts)
    BY PartsList
  <2>. QED  BY <1>2, <2>1, <2>2, <2>3 DEF FilesInv, Position, Prepared
<1>10. CASE UNCHANGED everything
  <2>1. Same /\ UNCHANGED <<spc, at, fpc, made>>
    BY <1>10 DEF everything, scVars, allVars, fedVars, fedProcess
  <2>2. (\A part : Behind(part)' <=> Behind(part)) /\ (InStage' <=> InStage)
    BY <2>1 DEF Behind, InStage
  <2>3. ObjectsFile' = ObjectsFile /\ \A part : PartOf(part)' = PartOf(part)
    BY <2>1, PlantSame
  <2>4. Position'
    BY <2>1, <2>2, <2>3 DEF FilesInv, Position
  <2>5. Prepared'
    BY <2>1, <2>2, <2>3 DEF FilesInv, Prepared
  <2>. QED  BY <1>1, <2>1, <2>4, <2>5 DEF FilesInv
<1>. QED  BY <1>3, <1>4, <1>5, <1>6, <1>7, <1>8, <1>9, <1>10 DEF SceptreNext

\* The host of a part is one of those the stage went through.
LEMMA HostDone ==
  ASSUME FilesInv, PlantOf(plant), spc = "done", NEW part \in Range(Parts),
         NEW i \in DOMAIN plant.hosts,
         IF part = "federate" THEN "helics-federate" \in plant.hosts[i].labels
         ELSE plant.hosts[i].type = part
  PROVE  part # "fep" /\ PartFiles(part, plant.hosts[i]) \subseteq made
<1> DEFINE places == IF part = "federate"
                     THEN {j \in DOMAIN plant.hosts : "helics-federate" \in plant.hosts[j].labels}
                     ELSE Typed(part)
<1>1. places \in SUBSET DOMAIN plant.hosts /\ i \in places
  BY DEF Typed
<1>2. PartOf(part) = Picked(places)
  BY DEF PartOf, OfType, Labelled
<1> HIDE DEF places
<1>3. \A j \in places : \E m \in DOMAIN Picked(places) : Picked(places)[m] = plant.hosts[j]
  BY <1>1, PickedAll
<1>4. PICK m \in DOMAIN Picked(places) : Picked(places)[m] = plant.hosts[i]
  BY <1>1, <1>3
<1>. QED  BY <1>2, <1>4 DEF FilesInv, Prepared, Behind

\* The objects are written for the last of the simulators that have some.
LEMMA LastObjects ==
  ASSUME PlantOf(plant), NEW i \in Simulating, ~LaterPowerWorld(plant.hosts[i])
  PROVE  <<plant.hosts[i].name, "objects.txt">> \in ObjectsFile
<1>1. Simulating \in SUBSET DOMAIN plant.hosts
  BY DEF Simulating, Typed
<1>2. PICK w \in Nat : DOMAIN plant.hosts = 1..w
  BY LenProperties DEF PlantOf, IsList
<1>3. \A j \in Simulating : j <= i
  <2>1. \A j \in Simulating : ~(i < j)
    BY <1>1 DEF LaterPowerWorld
  <2>. QED  BY <1>1, <1>2, <2>1
<1>4. PICK m \in DOMAIN PowerWorlds :
        PowerWorlds[m] = plant.hosts[i] /\ m = Len(PowerWorlds)
  BY <1>1, <1>3, PickedAll DEF PowerWorlds
<1>5. /\ Len(PowerWorlds) \in Nat /\ DOMAIN PowerWorlds = 1..Len(PowerWorlds)
  BY <1>1, PickedAll DEF PowerWorlds
<1>6. PowerWorlds # <<>>
  <2>1. 1 \in DOMAIN PowerWorlds
    BY <1>4, <1>5
  <2>. QED  BY <2>1
<1>. QED  BY <1>4, <1>6 DEF ObjectsFile, Own

\* Whatever hosts the plant has, with any types, labels and files of the user, and
\* however often the stages run or fail: a VM gets every file that is injected.
\* The exceptions are those of app.py:126 and app.py:627.
THEOREM FilesReadyHolds == SceptreSpec => []FilesReady
<1>1. FilesInv /\ PlantOf(plant) => FilesReady
  <2>. SUFFICES ASSUME FilesInv, PlantOf(plant), spc = "done",
                       NEW h \in Range(plant.hosts), NEW f \in nodes[h.name]
                PROVE  \/ f \in made
                       \/ Len(f) = 3
                       \/ h.type \in FieldDevices /\ h.os = "windows" /\ f[2] = "start.sh"
                       \/ f[2] = "objects.txt" /\ LaterPowerWorld(h)
    BY DEF FilesReady
  <2>1. PICK i \in DOMAIN plant.hosts : h = plant.hosts[i]
    BY DEF Range
  <2>2. h.name \in HostNames /\ HostOf(h.name) = h
    <3>1. h.name \in HostNames
      BY <2>1 DEF HostNames
    <3>2. \A x \in Range(plant.hosts) : x.name = h.name => x = h
      BY <2>1 DEF Range, PlantOf
    <3>. QED  BY <3>1, <3>2 DEF HostOf
  <2>3. \/ f \in made
        \/ Len(f) = 3
        \/ f \in TypeFiles(h)
        \/ "helics-federate" \in h.labels /\ f = <<h.name, "helics.json">>
    BY <2>2 DEF FilesInv, Injects
  <2>4. Scheduler \subseteq made /\ Elk \subseteq made /\ ObjectsFile \subseteq made
    BY DEF FilesInv, Position, Behind
  <2>5. CASE "helics-federate" \in h.labels /\ f = <<h.name, "helics.json">>
    <3>1. "federate" \in Range(Parts)
      BY PartsList
    <3>2. PartFiles("federate", h) \subseteq made
      BY <2>1, <2>5, <3>1, HostDone
    <3>. QED  BY <2>5, <3>2 DEF PartFiles, Own
  <2>6. CASE f \in TypeFiles(h)
    <3>1. CASE h.type \in Range(Parts)
      <4>1. h.type # "federate" => h.type # "fep" /\ PartFiles(h.type, h) \subseteq made
        BY <2>1, <3>1, HostDone
      <4>2. h.type # "federate"
        BY <2>6 DEF TypeFiles, FieldDevices
      <4>3. CASE h.type = "provider"
        <5>1. f \in Own(h, ProviderFiles(h))
          BY <2>6, <4>3 DEF TypeFiles, FieldDevices
        <5>2. \/ f \in Own(h, {"config.ini", StartFile(h)})
              \/ h.simulator \in PowerWorld /\ f = <<h.name, "objects.txt">>
          BY <5>1 DEF ProviderFiles, Own
        <5>3. ASSUME h.simulator \in PowerWorld, f = <<h.name, "objects.txt">>
              PROVE  f \in made \/ (f[2] = "objects.txt" /\ LaterPowerWorld(h))
          <6>1. i \in Simulating
            BY <2>1, <4>3, <5>3 DEF Simulating, Typed
          <6>. QED  BY <2>1, <2>4, <5>3, <6>1, LastObjects
        <5>. QED  BY <4>1, <4>2, <4>3, <5>2, <5>3 DEF PartFiles
      <4>4. CASE h.type \in {"fd-server", "fd-client"}
        <5>1. f \in Own(h, {"start.sh", "config.xml"})
          BY <2>6, <4>4 DEF TypeFiles, FieldDevices
        <5>2. Own(h, {"config.xml", StartFile(h)}) \subseteq made
          BY <4>1, <4>4 DEF PartFiles
        <5>. QED  BY <4>4, <5>1, <5>2 DEF Own, StartFile, FieldDevices
      <4>5. CASE h.type \in {"opc", "hmi", "scada-server", "engineer-workstation", "historian"}
        <5>1. f \in PartFiles(h.type, h) \cup Scheduler
          BY <2>6, <4>5 DEF TypeFiles, PartFiles, FieldDevices, Own
        <5>. QED  BY <2>4, <4>1, <4>2, <5>1
      <4>. QED  BY <3>1, <4>1, <4>2, <4>3, <4>4, <4>5, PartsList
    <3>2. CASE h.type \notin Range(Parts)
      <4>1. f \in Elk
        BY <2>6, <3>2, PartsList DEF TypeFiles, FieldDevices
      <4>. QED  BY <2>4, <4>1
    <3>. QED  BY <3>1, <3>2
  <2>. QED  BY <2>3, <2>5, <2>6
<1>2. SceptreSpec => []FilesInv
  BY FilesInit, FilesNext, PlantHolds, PTL DEF SceptreSpec
<1>. QED  BY <1>1, <1>2, PlantHolds, PTL

----------------------------------------------------------------------------
(* Sequences put one after the other, as FlattenSeq does                    *)

\* f[i] is what the first i sequences of s are together.
Joins(s, w, f) ==
  f = [i \in 1..w |-> IF i = 1 THEN s[i] ELSE f[i - 1] \o s[i]]

LEMMA JoinsExist ==
  ASSUME NEW S, NEW w \in Nat, NEW s \in [1..w -> Seq(S)]
  PROVE  \E f \in [1..w -> Seq(S)] : Joins(s, w, f)
<1> DEFINE To(m) == {i \in 1..w : i <= m}
           Right(f, m) == \A i \in To(m) : f[i] = IF i = 1 THEN s[i] ELSE f[i - 1] \o s[i]
           T == {m \in Nat : \E f \in [To(m) -> Seq(S)] : Right(f, m)}
<1>1. 0 \in T
  <2>1. To(0) = {}
    OBVIOUS
  <2>2. [i \in To(0) |-> s[i]] \in [To(0) -> Seq(S)] /\ Right([i \in To(0) |-> s[i]], 0)
    BY <2>1
  <2>. QED  BY <2>2
<1>2. ASSUME NEW m \in T PROVE m + 1 \in T
  <2>1. m \in Nat
    OBVIOUS
  <2>2. PICK f \in [To(m) -> Seq(S)] : Right(f, m)
    OBVIOUS
  <2> DEFINE g == [i \in To(m + 1) |-> IF i = 1 THEN s[i] ELSE f[i - 1] \o s[i]]
  <2>3. ASSUME NEW i \in To(m + 1), i # 1 PROVE i - 1 \in To(m)
    BY <2>1, <2>3
  <2>4. ASSUME NEW i \in To(m + 1)
        PROVE  (IF i = 1 THEN s[i] ELSE f[i - 1] \o s[i]) \in Seq(S)
    <3>1. s[i] \in Seq(S)
      OBVIOUS
    <3>2. i # 1 => f[i - 1] \in Seq(S)
      BY <2>3
    <3>3. i # 1 => f[i - 1] \o s[i] \in Seq(S)
      BY <3>1, <3>2, ConcatProperties
    <3>. QED  BY <3>1, <3>3
  <2>5. g \in [To(m + 1) -> Seq(S)]
    BY <2>4
  <2>6. \A i \in To(m) : i \in To(m + 1) /\ g[i] = f[i]
    BY <2>1, <2>2
  <2>7. Right(g, m + 1)
    BY <2>3, <2>6
  <2>8. m + 1 \in Nat
    BY <2>1
  <2> HIDE DEF g, To, Right
  <2>9. \E h \in [To(m + 1) -> Seq(S)] : Right(h, m + 1)
    BY <2>5, <2>7
  <2>. QED  BY <2>8, <2>9
<1>3. T = Nat
  <2>1. T \in SUBSET Nat
    OBVIOUS
  <2>. HIDE DEF T
  <2>. QED  BY <1>1, <1>2, <2>1, Inductive
<1>4. To(w) = 1..w
  OBVIOUS
<1>5. PICK f \in [To(w) -> Seq(S)] : Right(f, w)
  BY <1>3
<1>6. f \in [1..w -> Seq(S)] /\ Joins(s, w, f)
  BY <1>4, <1>5 DEF Joins
<1>. QED  BY <1>6

Different(f) == \A i, j \in DOMAIN f : f[i] = f[j] => i = j
Items(f) == {f[i] : i \in DOMAIN f}

\* Two sequences with nothing in common, put together.
LEMMA TwoJoined ==
  ASSUME NEW S, NEW a \in Seq(S), NEW b \in Seq(S)
  PROVE  /\ a \o b \in Seq(S) /\ Items(a \o b) = Items(a) \cup Items(b)
         /\ Different(a) /\ Different(b) /\ Items(a) \cap Items(b) = {}
              => Different(a \o b)
<1> DEFINE c == a \o b
<1>1. /\ Len(a) \in Nat /\ DOMAIN a = 1..Len(a)
      /\ Len(b) \in Nat /\ DOMAIN b = 1..Len(b)
  BY LenProperties
<1>2. c \in Seq(S) /\ Len(c) = Len(a) + Len(b)
  BY ConcatProperties
<1>3. \A i \in 1..Len(a) + Len(b) : c[i] = IF i <= Len(a) THEN a[i] ELSE b[i - Len(a)]
  BY ConcatProperties
<1>4. DOMAIN c = 1..Len(a) + Len(b)
  BY <1>2, LenProperties
<1> HIDE DEF c
<1>5. \A i \in DOMAIN a : i \in DOMAIN c /\ c[i] = a[i]
  BY <1>1, <1>3, <1>4
<1>6. \A i \in DOMAIN b : i + Len(a) \in DOMAIN c /\ c[i + Len(a)] = b[i]
  BY <1>1, <1>3, <1>4
<1>7. \A i \in DOMAIN c :
        \/ i \in DOMAIN a /\ c[i] = a[i]
        \/ i - Len(a) \in DOMAIN b /\ c[i] = b[i - Len(a)]
  BY <1>1, <1>3, <1>4
<1>8. Items(c) = Items(a) \cup Items(b)
  <2>1. Items(c) \subseteq Items(a) \cup Items(b)
    BY <1>7 DEF Items
  <2>2. Items(a) \subseteq Items(c)
    BY <1>5 DEF Items
  <2>3. Items(b) \subseteq Items(c)
    BY <1>6 DEF Items
  <2>. QED  BY <2>1, <2>2, <2>3
<1>9. ASSUME Different(a), Different(b), Items(a) \cap Items(b) = {},
             NEW i \in DOMAIN c, NEW j \in DOMAIN c, c[i] = c[j]
      PROVE  i = j
  <2>1. i \in Nat /\ j \in Nat
    BY <1>1, <1>4
  <2>2. CASE i \in DOMAIN a /\ c[i] = a[i] /\ j \in DOMAIN a /\ c[j] = a[j]
    BY <1>9, <2>2 DEF Different
  <2>3. CASE /\ i - Len(a) \in DOMAIN b /\ c[i] = b[i - Len(a)]
             /\ j - Len(a) \in DOMAIN b /\ c[j] = b[j - Len(a)]
    <3>1. i - Len(a) = j - Len(a)
      BY <1>9, <2>3 DEF Different
    <3>. QED  BY <1>1, <2>1, <3>1
  <2>4. ~ \E x \in DOMAIN a, y \in DOMAIN b : a[x] = b[y]
    BY <1>9 DEF Items
  <2>. QED  BY <1>7, <1>9, <2>2, <2>3, <2>4
<1>. QED  BY <1>2, <1>8, <1>9 DEF c, Different

\* All of the sequences are in the one, and nothing twice if they have nothing
\* in common.
LEMMA Flattened ==
  ASSUME NEW S, NEW w \in Nat, NEW s \in [1..w -> Seq(S)]
  PROVE  /\ FlattenSeq(s) \in Seq(S)
         /\ Items(FlattenSeq(s)) = UNION {Items(s[i]) : i \in 1..w}
         /\ /\ \A i \in 1..w : Different(s[i])
            /\ \A i, j \in 1..w : i # j => Items(s[i]) \cap Items(s[j]) = {}
            => Different(FlattenSeq(s))
<1>1. Len(s) = w
  <2>1. s \in Seq(Seq(S))
    BY SeqDef
  <2>2. Len(s) \in Nat /\ DOMAIN s = 1..Len(s) /\ DOMAIN s = 1..w
    BY <2>1, LenProperties
  <2>. QED  BY <2>2
<1>2. CASE w = 0
  <2>1. FlattenSeq(s) = s
    BY <1>1, <1>2 DEF FlattenSeq
  <2>2. s \in [1..0 -> S]
    BY <1>2
  <2>3. s \in Seq(S)
    BY <2>2, SeqDef
  <2>4. DOMAIN s = {}
    BY <1>2
  <2>. QED  BY <2>1, <2>3, <2>4, <1>2 DEF Items, Different
<1>3. CASE w # 0
  <2>1. \E f : Joins(s, w, f)
    BY JoinsExist
  <2> DEFINE f == CHOOSE f : Joins(s, w, f)
  <2>2. Joins(s, w, f)
    BY <2>1
  <2>3. FlattenSeq(s) = f[w]
    BY <1>1, <1>3 DEF FlattenSeq, Joins
  <2>4. \A i \in 1..w : f[i] = IF i = 1 THEN s[i] ELSE f[i - 1] \o s[i]
    <3> DEFINE g == [i \in 1..w |-> IF i = 1 THEN s[i] ELSE f[i - 1] \o s[i]]
    <3>1. f = g
      BY <2>2 DEF Joins
    <3>2. \A i \in 1..w : g[i] = IF i = 1 THEN s[i] ELSE f[i - 1] \o s[i]
      OBVIOUS
    <3> HIDE DEF f, g
    <3>. QED  BY <3>1, <3>2
  <2> HIDE DEF f
  <2> DEFINE Apart == /\ \A i \in 1..w : Different(s[i])
                      /\ \A i, j \in 1..w : i # j => Items(s[i]) \cap Items(s[j]) = {}
             All(m) == UNION {Items(s[i]) : i \in 1..m}
             Good(m) == /\ f[m] \in Seq(S) /\ Items(f[m]) = All(m)
                        /\ Apart => Different(f[m])
             T == {m \in Nat : m + 1 \in 1..w => Good(m + 1)}
  <2>5. 0 \in T
    <3>1. 1 \in 1..w /\ f[1] = s[1] /\ s[1] \in Seq(S)
      BY <1>3, <2>4
    <3>2. All(1) = Items(s[1])
      OBVIOUS
    <3>3. Good(0 + 1)
      BY <3>1, <3>2
    <3>. HIDE DEF Good
    <3>. QED  BY <3>3
  <2>6. ASSUME NEW m \in T PROVE m + 1 \in T
    <3>. SUFFICES ASSUME m \in Nat, m + 2 \in 1..w PROVE Good(m + 2)
      <4>1. m \in Nat /\ (m + 1) + 1 = m + 2 /\ m + 1 \in Nat
        OBVIOUS
      <4> HIDE DEF Good
      <4>. QED  BY <4>1
    <3>1. m + 1 \in 1..w /\ m + 2 # 1 /\ (m + 2) - 1 = m + 1
      OBVIOUS
    <3>2. Good(m + 1)
      BY <3>1
    <3>3. f[m + 2] = f[m + 1] \o s[m + 2] /\ s[m + 2] \in Seq(S)
      BY <2>4, <3>1
    <3>4. 1..m + 2 = (1..m + 1) \cup {m + 2}
      OBVIOUS
    <3>5. All(m + 2) = All(m + 1) \cup Items(s[m + 2])
      BY <3>4
    <3>6. Apart => Items(f[m + 1]) \cap Items(s[m + 2]) = {} /\ Different(s[m + 2])
      <4>1. ASSUME Apart, NEW x \in Items(f[m + 1]) PROVE x \notin Items(s[m + 2])
        <5>1. PICK i \in 1..m + 1 : x \in Items(s[i])
          BY <3>2, <4>1
        <5>2. i \in 1..w /\ m + 2 \in 1..w /\ i # m + 2
          BY <3>1
        <5>. QED  BY <4>1, <5>1, <5>2
      <4>. QED  BY <4>1
    <3> HIDE DEF All, Apart
    <3>7. /\ f[m + 1] \in Seq(S) /\ Items(f[m + 1]) = All(m + 1)
          /\ Apart => Different(f[m + 1])
      BY <3>2
    <3>8. /\ f[m + 2] \in Seq(S)
          /\ Items(f[m + 2]) = Items(f[m + 1]) \cup Items(s[m + 2])
          /\ Different(f[m + 1]) /\ Different(s[m + 2])
               /\ Items(f[m + 1]) \cap Items(s[m + 2]) = {} => Different(f[m + 2])
      BY <3>3, <3>7, TwoJoined
    <3>. QED  BY <3>5, <3>6, <3>7, <3>8
  <2>7. T = Nat
    <3>1. T \in SUBSET Nat
      OBVIOUS
    <3> HIDE DEF T
    <3>. QED  BY <2>5, <2>6, <3>1, Inductive
  <2>8. w - 1 \in Nat /\ (w - 1) + 1 = w /\ w \in 1..w
    BY <1>3
  <2>9. Good(w)
    <3> HIDE DEF Good
    <3>. QED  BY <2>7, <2>8
  <2>. QED  BY <2>3, <2>9
<1>. QED  BY <1>2, <1>3

----------------------------------------------------------------------------
(* The registers of a server *)

Kinds == {"analog-read", "analog-read-write", "binary-read", "binary-read-write"}

LEMMA Shapes ==
  ASSUME NEW infra, NEW type, Known(infra, type), NEW t \in 1..4
  PROVE  Shape(infra, type)[t] \in Nat
<1> DEFINE Four(s) == s[1] \in Nat /\ s[2] \in Nat /\ s[3] \in Nat /\ s[4] \in Nat
<1>1. \A d \in Transmission \cup Distribution : Four(d[2])
  BY DEF Transmission, Distribution
<1>2. \A d \in BatchProcess \cup Hvac \cup Fuel : Four(d[2])
  BY DEF BatchProcess, Hvac, Fuel
<1>3. \A d \in OpalRT \cup Rtds \cup Waterway \cup Battery : Four(d[2])
  BY DEF OpalRT, Rtds, Waterway, Battery
<1> HIDE DEF Four
<1>4. \A d \in Devices(infra) : Four(d[2])
  BY <1>1, <1>2, <1>3 DEF Devices
<1>5. Four(Shape(infra, type))
  <2>1. \E d \in Devices(infra) : d[1] = type
    BY DEF Known
  <2>. QED  BY <1>4, <2>1 DEF Shape
<1>6. t = 1 \/ t = 2 \/ t = 3 \/ t = 4
  OBVIOUS
<1>. QED  BY <1>5, <1>6 DEF Four

\* A device has each of its points once.
LEMMA DevicePoints ==
  ASSUME NEW infra, NEW device, Known(infra, device.type)
  PROVE  /\ Points(infra, device) \in Seq({device.name} \X Kinds \X Nat)
         /\ Different(Points(infra, device))
<1> DEFINE S == {device.name} \X Kinds \X Nat
           Block(t) == [j \in 1..Shape(infra, device.type)[t] |->
                          <<device.name, FieldTypes[t], j>>]
           s == [t \in 1..4 |-> Block(t)]
<1>1. \A t \in 1..4 : FieldTypes[t] \in Kinds
  BY DEF FieldTypes, Kinds
<1>2. \A t, x \in 1..4 : FieldTypes[t] = FieldTypes[x] => t = x
  BY DEF FieldTypes
<1>3. ASSUME NEW t \in 1..4
      PROVE  Block(t) \in Seq(S) /\ Different(Block(t))
  <2>1. Shape(infra, device.type)[t] \in Nat
    BY Shapes
  <2>2. Block(t) \in [1..Shape(infra, device.type)[t] -> S]
    BY <1>1, <2>1
  <2>3. Block(t) \in Seq(S)
    BY <2>1, <2>2, SeqDef
  <2>. QED  BY <2>3 DEF Different
<1>4. \A t, x \in 1..4 : t # x => Items(Block(t)) \cap Items(Block(x)) = {}
  <2>1. ASSUME NEW t \in 1..4, NEW y \in Items(Block(t)) PROVE y[2] = FieldTypes[t]
    <3>1. PICK j \in DOMAIN Block(t) : y = Block(t)[j]
      BY DEF Items
    <3>2. y = <<device.name, FieldTypes[t], j>>
      BY <3>1
    <3>. HIDE DEF Block
    <3>. QED  BY <3>2
  <2>. HIDE DEF Block
  <2>2. ASSUME NEW t \in 1..4, NEW x \in 1..4, NEW y \in Items(Block(t)), y \in Items(Block(x))
        PROVE  t = x
    BY <1>2, <2>1, <2>2
  <2>. QED  BY <2>2
<1>5. \A t \in 1..4 : s[t] = Block(t)
  OBVIOUS
<1> HIDE DEF Block, S
<1>6. s \in [1..4 -> Seq(S)]
  BY <1>3
<1>7. Points(infra, device) = FlattenSeq(s)
  BY DEF Points, Block
<1> HIDE DEF s
<1>8. \A t \in 1..4 : Different(s[t])
  BY <1>3, <1>5
<1>9. \A t, x \in 1..4 : t # x => Items(s[t]) \cap Items(s[x]) = {}
  BY <1>4, <1>5
<1>10. 4 \in Nat
  OBVIOUS
<1>11. FlattenSeq(s) \in Seq(S)
  BY <1>6, <1>10, Flattened
<1>12. Different(FlattenSeq(s))
  BY <1>6, <1>8, <1>9, <1>10, Flattened
<1>. QED  BY <1>7, <1>11, <1>12 DEF S

\* The registers of devices with names of their own have the points of the
\* devices, each once.
LEMMA ServerRegisters ==
  ASSUME NEW infra, NEW devices, IsList(devices),
         \A d \in DOMAIN devices : Known(infra, devices[d].type)
  PROVE  LET u == Unnumbered(infra, devices)
         IN  /\ Len(u) \in Nat /\ DOMAIN u = 1..Len(u)
             /\ \A i \in DOMAIN u : u[i].kind \in Kinds
             /\ {u[i].point : i \in DOMAIN u}
                  = UNION {Range(Points(infra, devices[d])) : d \in DOMAIN devices}
             /\ (\A d, e \in DOMAIN devices : devices[d].name = devices[e].name => d = e)
                  => \A i, j \in DOMAIN u : u[i].point = u[j].point => i = j
<1> DEFINE names == {devices[d].name : d \in DOMAIN devices}
           P(d) == Points(infra, devices[d])
           S == [device : Nat, point : names \X Kinds \X Nat, kind : Kinds]
           Block(d) == [i \in DOMAIN P(d) |->
                          [device |-> d, point |-> P(d)[i], kind |-> P(d)[i][2]]]
           s == [d \in DOMAIN devices |-> Block(d)]
           u == FlattenSeq(s)
<1>1. PICK w \in Nat : DOMAIN devices = 1..w
  BY LenProperties DEF IsList
<1>2. u = Unnumbered(infra, devices)
  BY DEF Unnumbered
<1>3. ASSUME NEW d \in DOMAIN devices
      PROVE  /\ Len(P(d)) \in Nat /\ DOMAIN P(d) = 1..Len(P(d))
             /\ \A i \in DOMAIN P(d) : P(d)[i] \in {devices[d].name} \X Kinds \X Nat
             /\ \A i, j \in DOMAIN P(d) : P(d)[i] = P(d)[j] => i = j
  <2>1. P(d) \in Seq({devices[d].name} \X Kinds \X Nat) /\ Different(P(d))
    BY DevicePoints
  <2> HIDE DEF P
  <2>. QED  BY <2>1, LenProperties, ElementOfSeq DEF Different
<1> HIDE DEF P
<1>4. ASSUME NEW d \in DOMAIN devices
      PROVE  Block(d) \in Seq(S) /\ Different(Block(d))
  <2>1. d \in Nat
    BY <1>1
  <2>2. \A i \in DOMAIN P(d) : Block(d)[i] \in S
    BY <1>3, <2>1
  <2>3. Block(d) \in [1..Len(P(d)) -> S]
    BY <1>3, <2>2
  <2>4. Block(d) \in Seq(S)
    BY <1>3, <2>3, SeqDef
  <2>. QED  BY <1>3, <2>4 DEF Different
<1>5. ASSUME NEW d \in DOMAIN devices
      PROVE  /\ \A x \in Items(Block(d)) : x.device = d /\ x.point \in Range(P(d))
                                            /\ x.point[1] = devices[d].name
             /\ \A y \in Range(P(d)) : \E x \in Items(Block(d)) : x.point = y
             /\ \A x, y \in Items(Block(d)) : x.point = y.point => x = y
  <2>1. \A x \in Items(Block(d)) : \E i \in DOMAIN P(d) :
           x = [device |-> d, point |-> P(d)[i], kind |-> P(d)[i][2]]
    BY DEF Items
  <2>2. \A i \in DOMAIN P(d) :
           [device |-> d, point |-> P(d)[i], kind |-> P(d)[i][2]] \in Items(Block(d))
    BY DEF Items
  <2>3. \A i \in DOMAIN P(d) : P(d)[i] \in Range(P(d)) /\ P(d)[i][1] = devices[d].name
    BY <1>3 DEF Range
  <2>4. \A y \in Range(P(d)) : \E i \in DOMAIN P(d) : P(d)[i] = y
    BY DEF Range
  <2> HIDE DEF Block
  <2>5. \A y \in Range(P(d)) : \E x \in Items(Block(d)) : x.point = y
    BY <2>2, <2>4
  <2>6. \A x \in Items(Block(d)) : x.device = d /\ x.point \in Range(P(d))
                                   /\ x.point[1] = devices[d].name
    BY <2>1, <2>3
  <2>7. \A x, y \in Items(Block(d)) : x.point = y.point => x = y
    BY <2>1
  <2>. QED  BY <2>5, <2>6, <2>7
<1>6. \A d \in DOMAIN devices : s[d] = Block(d)
  OBVIOUS
<1> HIDE DEF Block, S
<1>7. s \in [1..w -> Seq(S)]
  BY <1>1, <1>4
<1> HIDE DEF s
<1>8. u \in Seq(S) /\ Items(u) = UNION {Items(s[d]) : d \in 1..w}
  BY <1>7, Flattened
<1>9. Different(u)
  <2>1. \A d \in 1..w : Different(s[d])
    BY <1>1, <1>4, <1>6
  <2>2. \A d, e \in 1..w : d # e => Items(s[d]) \cap Items(s[e]) = {}
    BY <1>1, <1>5, <1>6
  <2>. QED  BY <1>7, <2>1, <2>2, Flattened
<1> HIDE DEF u
<1>10. Len(u) \in Nat /\ DOMAIN u = 1..Len(u) /\ \A i \in DOMAIN u : u[i] \in S
  BY <1>8, LenProperties, ElementOfSeq
<1>11. \A i \in DOMAIN u : u[i].kind \in Kinds
  BY <1>10 DEF S
<1>12. Items(u) = UNION {Items(Block(d)) : d \in DOMAIN devices}
  BY <1>1, <1>6, <1>8
<1>13. {u[i].point : i \in DOMAIN u} = {x.point : x \in Items(u)}
  BY DEF Items
<1>14. {x.point : x \in Items(u)} = UNION {Range(P(d)) : d \in DOMAIN devices}
  <2>1. ASSUME NEW x \in Items(u) PROVE x.point \in UNION {Range(P(d)) : d \in DOMAIN devices}
    BY <1>5, <1>12
  <2>2. ASSUME NEW d \in DOMAIN devices, NEW y \in Range(P(d))
        PROVE  \E x \in Items(u) : x.point = y
    BY <1>5, <1>12
  <2>. QED  BY <2>1, <2>2
<1>15. ASSUME \A d, e \in DOMAIN devices : devices[d].name = devices[e].name => d = e,
              NEW i \in DOMAIN u, NEW j \in DOMAIN u, u[i].point = u[j].point
       PROVE  i = j
  <2>1. PICK d \in DOMAIN devices, e \in DOMAIN devices :
          u[i] \in Items(Block(d)) /\ u[j] \in Items(Block(e))
    <3>1. u[i] \in Items(u) /\ u[j] \in Items(u)
      BY DEF Items
    <3>. QED  BY <1>12, <3>1
  <2>2. devices[d].name = devices[e].name
    BY <1>5, <1>15, <2>1
  <2>3. d = e
    BY <1>15, <2>2
  <2>4. u[i] = u[j]
    BY <1>5, <1>15, <2>1, <2>3
  <2>. QED  BY <1>9, <2>4 DEF Different
<1>. QED  BY <1>2, <1>10, <1>11, <1>13, <1>14, <1>15 DEF P

\* A list of registers of which each has a point of its own, and one in which each
\* has a number of its own too.
Rows(regs) ==
  /\ Len(regs) \in Nat /\ DOMAIN regs = 1..Len(regs)
  /\ \A i \in DOMAIN regs : regs[i].kind \in Kinds
  /\ \A i, j \in DOMAIN regs : regs[i].point = regs[j].point => i = j
Few(regs) == Len(regs) <= 20000
Good(regs) ==
  /\ Rows(regs)
  /\ \A i, j \in DOMAIN regs :
       regs[i].addr = regs[j].addr /\ IsInput(regs[i].kind) = IsInput(regs[j].kind) => i = j

LEMMA SameLength ==
  ASSUME NEW u, Len(u) \in Nat, DOMAIN u = 1..Len(u), NEW f, f = [i \in DOMAIN u |-> f[i]]
  PROVE  Len(f) = Len(u)
<1>1. f \in [1..Len(u) -> {f[i] : i \in DOMAIN u}]
  OBVIOUS
<1>2. f \in Seq({f[i] : i \in DOMAIN u})
  BY <1>1, SeqDef
<1>3. Len(f) \in Nat /\ DOMAIN f = 1..Len(f)
  BY <1>2, LenProperties
<1>4. 1..Len(f) = 1..Len(u)
  BY <1>3
<1>. QED  BY <1>3, <1>4

LEMMA OneMore ==
  ASSUME NEW S, NEW T, IsFiniteSet(T), NEW x \in T, x \notin S, S \subseteq T
  PROVE  /\ Cardinality(S) \in Nat /\ Cardinality(T) \in Nat
         /\ Cardinality(S) < Cardinality(T)
<1>1. IsFiniteSet(S) /\ Cardinality(S) \in Nat /\ Cardinality(T) \in Nat
  BY FS_Subset, FS_CardinalityType
<1>2. Cardinality(S \cup {x}) = Cardinality(S) + 1
  BY <1>1, FS_AddElement
<1>3. S \cup {x} \subseteq T
  OBVIOUS
<1>4. Cardinality(S \cup {x}) <= Cardinality(T)
  BY <1>3, FS_Subset
<1>. QED  BY <1>1, <1>2, <1>4

LEMMA CountBefore ==
  ASSUME NEW i \in Nat, 1 <= i, NEW S, S \subseteq 1..(i - 1)
  PROVE  /\ IsFiniteSet(S) /\ i \notin S
         /\ Cardinality(S) \in Nat /\ Cardinality(S) < i
<1>1. IsFiniteSet(1..(i - 1)) /\ Cardinality(1..(i - 1)) = i - 1
  BY FS_Interval
<1>2. IsFiniteSet(S) /\ Cardinality(S) <= Cardinality(1..(i - 1))
  BY <1>1, FS_Subset
<1>3. Cardinality(S) \in Nat
  BY <1>2, FS_CardinalityType
<1>4. i \notin S
  OBVIOUS
<1>. QED  BY <1>1, <1>2, <1>3, <1>4

\* Counted from the bases of their kinds, different registers that are both read,
\* or both written, have different numbers.
LEMMA BasesApart ==
  ASSUME NEW proto \in {"dnp3", "modbus", "bacnet"},
         NEW a \in Kinds, NEW b \in Kinds, NEW c \in Nat, NEW d \in Nat,
         c < 20000, d < 20000, IsInput(a) = IsInput(b),
         Base(proto, a) + c = Base(proto, b) + d
  PROVE  (proto = "modbus" => a = b) /\ c = d
<1>1. CASE proto # "modbus"
  <2>1. proto # "iec60870-5-104" /\ proto # "modbus"
    BY <1>1
  <2>2. \A x : Base(proto, x) = 0
    BY <2>1 DEF Base
  <2>. QED  BY <1>1, <2>2
<1>2. CASE proto = "modbus"
  <2>1. \A x \in Kinds : Base(proto, x) = CASE x = "analog-read" -> 30000
          [] x = "analog-read-write" -> 40000 [] x = "binary-read" -> 10000
          [] OTHER -> 0
    BY <1>2 DEF Base
  <2>2. /\ Base(proto, "analog-read") = 30000 /\ Base(proto, "analog-read-write") = 40000
        /\ Base(proto, "binary-read") = 10000 /\ Base(proto, "binary-read-write") = 0
    BY <2>1 DEF Kinds
  <2>3. \/ a = b
        \/ a = "analog-read" /\ b = "binary-read"
        \/ b = "analog-read" /\ a = "binary-read"
        \/ a = "analog-read-write" /\ b = "binary-read-write"
        \/ b = "analog-read-write" /\ a = "binary-read-write"
    BY DEF Kinds, IsInput
  <2>4. CASE a = b
    <3>1. Base(proto, a) \in Nat
      BY <2>2 DEF Kinds
    <3>. QED  BY <2>4, <3>1
  <2>. QED  BY <2>2, <2>3, <2>4
<1>. QED  BY <1>1, <1>2

\* The numbers of registers that are read are distinct, and so are those of the
\* others: modbus has 20000 between the kinds.
LEMMA Numbers ==
  ASSUME NEW proto \in {"dnp3", "modbus", "bacnet"}, NEW u, Rows(u), Few(u)
  PROVE  Good(Numbered(proto, u))
<1> DEFINE R == Numbered(proto, u)
           Prior(i) == {j \in 1..(i - 1) : proto = "modbus" => u[j].kind = u[i].kind}
           N(i) == Cardinality(Prior(i))
<1>1. \A i \in DOMAIN u :
        /\ R[i].point = u[i].point /\ R[i].kind = u[i].kind
        /\ R[i].addr = Base(proto, u[i].kind) + N(i)
  BY DEF Numbered
<1>2. DOMAIN R = DOMAIN u
  BY DEF Numbered
<1>0. \A i \in DOMAIN u : i \in Nat /\ 1 <= i /\ i <= Len(u) /\ Len(u) \in Nat
  BY DEF Rows
<1>3. Len(R) = Len(u)
  <2>1. R = [i \in DOMAIN u |-> R[i]]
    BY DEF Numbered
  <2> HIDE DEF R
  <2>. QED  BY <2>1, SameLength DEF Rows
<1> HIDE DEF R
<1>4. ASSUME NEW i \in DOMAIN u
      PROVE  /\ IsFiniteSet(Prior(i)) /\ i \notin Prior(i)
             /\ N(i) \in Nat /\ N(i) < i
  <2>1. i \in Nat /\ 1 <= i
    BY <1>0
  <2>2. Prior(i) \subseteq 1..(i - 1)
    OBVIOUS
  <2> HIDE DEF Prior
  <2>. QED  BY <2>1, <2>2, CountBefore
<1>5. ASSUME NEW i \in DOMAIN u, NEW j \in DOMAIN u, i < j,
             proto = "modbus" => u[j].kind = u[i].kind
      PROVE  N(i) < N(j)
  <2>1. Prior(i) \subseteq Prior(j) /\ i \in Prior(j)
    BY <1>0, <1>5
  <2> HIDE DEF Prior
  <2>2. IsFiniteSet(Prior(j)) /\ i \notin Prior(i)
    BY <1>4
  <2>. QED  BY <2>1, <2>2, OneMore
<1> HIDE DEF N, Prior
<1>6. ASSUME NEW i \in DOMAIN u, NEW j \in DOMAIN u,
             proto = "modbus" => u[j].kind = u[i].kind, N(i) = N(j)
      PROVE  i = j
  <2>1. i \in Nat /\ j \in Nat
    BY <1>0
  <2>. QED  BY <1>4, <1>5, <1>6, <2>1
<1> HIDE DEF Good
<1>7. ASSUME NEW i \in DOMAIN u, NEW j \in DOMAIN u, R[i].addr = R[j].addr,
             IsInput(R[i].kind) = IsInput(R[j].kind)
      PROVE  i = j
  <2>0. /\ R[i].addr = Base(proto, u[i].kind) + N(i)
        /\ R[j].addr = Base(proto, u[j].kind) + N(j)
        /\ R[i].kind = u[i].kind /\ R[j].kind = u[j].kind
    BY <1>1
  <2>1. Base(proto, u[i].kind) + N(i) = Base(proto, u[j].kind) + N(j)
    BY <1>7, <2>0
  <2>2. IsInput(u[i].kind) = IsInput(u[j].kind)
    BY <1>7, <2>0
  <2>3. N(i) \in Nat /\ N(j) \in Nat /\ N(i) < Len(u) /\ N(j) < Len(u)
    BY <1>0, <1>4
  <2>4. N(i) < 20000 /\ N(j) < 20000
    BY <1>0, <2>3 DEF Few
  <2>5. u[i].kind \in Kinds /\ u[j].kind \in Kinds
    BY DEF Rows
  <2>6. (proto = "modbus" => u[i].kind = u[j].kind) /\ N(i) = N(j)
    BY <2>1, <2>2, <2>3, <2>4, <2>5, BasesApart
  <2>. QED  BY <1>6, <2>6
<1>8. /\ \A i \in DOMAIN R : R[i].kind \in Kinds
      /\ \A i, j \in DOMAIN R : R[i].point = R[j].point => i = j
  BY <1>1, <1>2 DEF Rows
<1>. QED  BY <1>2, <1>3, <1>7, <1>8 DEF Good, Rows, R

\* A server with one protocol, and registers that have the points of its devices.
Measured(h, q) ==
  LET c == FieldDeviceConfig(h)
  IN  /\ q \in {"dnp3", "modbus", "bacnet"}
      /\ DOMAIN h.devices = {q} /\ DOMAIN c.regs = {q} /\ Good(c.regs[q])
      /\ {r.point : r \in Range(c.regs[q])} = ServerPoints(h)

LEMMA SoundMeasured ==
  ASSUME PlantOf(plant), Addressable(plant), NEW i \in Typed("fd-server"),
         Sound(plant.hosts[i]), Valid(plant.hosts[i])
  PROVE  \E q : Measured(plant.hosts[i], q)
<1> DEFINE h == plant.hosts[i]
           P == {"dnp3", "modbus", "bacnet"}
<1>1. i \in DOMAIN plant.hosts /\ h.type = "fd-server"
  BY DEF Typed
<1>2. \E q \in P : DOMAIN h.devices = {q}
  <2>1. IsFiniteSet(P)
    <3>1. IsFiniteSet({"dnp3"})
      BY FS_Singleton
    <3>2. IsFiniteSet({"dnp3"} \cup {"modbus"})
      BY <3>1, FS_AddElement
    <3>3. IsFiniteSet(({"dnp3"} \cup {"modbus"}) \cup {"bacnet"})
      BY <3>2, FS_AddElement
    <3>4. ({"dnp3"} \cup {"modbus"}) \cup {"bacnet"} = P
      OBVIOUS
    <3>. QED  BY <3>3, <3>4
  <2>2. DOMAIN h.devices \subseteq P /\ Cardinality(DOMAIN h.devices) = 1
    BY DEF Sound
  <2>3. IsFiniteSet(DOMAIN h.devices)
    BY <2>1, <2>2, FS_Subset
  <2>4. \E q : DOMAIN h.devices = {q}
    BY <2>2, <2>3, FS_Singleton
  <2>. QED  BY <2>2, <2>4
<1>3. PICK q \in P : DOMAIN h.devices = {q}
  BY <1>2
<1> DEFINE devices == h.devices[q]
           u == Unnumbered(h.infra, devices)
<1>4. IsList(devices)
  BY <1>1, <1>3 DEF PlantOf
<1>5. \A d \in DOMAIN devices : Known(h.infra, devices[d].type)
  BY <1>3 DEF Valid
<1>6. /\ \A d, e \in DOMAIN devices : devices[d].name = devices[e].name => d = e
      /\ Len(u) <= 20000
  BY <1>1, <1>3, <1>5 DEF Addressable
<1>7. /\ Rows(u) /\ Few(u)
      /\ {u[m].point : m \in DOMAIN u}
           = UNION {Range(Points(h.infra, devices[d])) : d \in DOMAIN devices}
  BY <1>4, <1>5, <1>6, ServerRegisters DEF Rows, Few
<1> DEFINE R == Numbered(q, u)
<1>8. Good(R) /\ DOMAIN R = DOMAIN u /\ \A m \in DOMAIN u : R[m].point = u[m].point
  BY <1>7, Numbers DEF Numbered
<1>9. /\ DOMAIN FieldDeviceConfig(h).regs = {q}
      /\ FieldDeviceConfig(h).regs[q] = R
  BY <1>3 DEF FieldDeviceConfig
<1>10. ServerPoints(h) = UNION {Range(Points(h.infra, devices[d])) : d \in DOMAIN devices}
  BY <1>3 DEF ServerPoints
<1> HIDE DEF R, u
<1>11. {r.point : r \in Range(R)} = {u[m].point : m \in DOMAIN u}
  BY <1>8 DEF Range
<1>. QED  BY <1>3, <1>7, <1>8, <1>9, <1>10, <1>11 DEF Measured

----------------------------------------------------------------------------
(* What is read at the ports and addresses that the files name             *)

LEMMA GoodRegisters ==
  ASSUME NEW regs, Good(regs)
  PROVE  /\ \A r, s \in Range(regs) :
              r.addr = s.addr /\ IsInput(r.kind) = IsInput(s.kind) => r = s
         /\ \A r, s \in Range(regs) : r.point = s.point => r = s
<1>1. \A r \in Range(regs) : \E i \in DOMAIN regs : r = regs[i]
  BY DEF Range
<1>. QED  BY <1>1 DEF Good, Rows

\* A port, a kind and an address that a register of the server has are read as the
\* point of it.
LEMMA ReadsOne ==
  ASSUME NEW h, NEW q, Measured(h, q),
         written.servers[h.name] = ServerFile(FieldDeviceConfig(h)),
         NEW r \in Range(FieldDeviceConfig(h).regs[q]), NEW t,
         t.host = h.name, t.port = q, t.kind = r.kind, t.addr = r.addr
  PROVE  Reads(t) = {<<h.name, r.point>>}
<1> DEFINE c == FieldDeviceConfig(h)
           Q == Range(c.regs[q])
           file == ServerFile(c)
           P(s) == [port |-> q, kind |-> s.kind, addr |-> s.addr, tag |-> Io(c, s)]
<1>1. c.name = h.name /\ DOMAIN c.regs = {q} /\ Port(q) = q
  BY DEF FieldDeviceConfig, Measured, Port
<1>2. \A s \in Q : Io(c, s) = Io(c, r) => s = r
  BY GoodRegisters DEF Measured, Io
<1>3. file.ports = {P(s) : s \in Q}
  BY <1>1 DEF ServerFile, Regs
<1>4. file.points = {<<Io(c, s), s.point>> : s \in Q}
  BY <1>1 DEF ServerFile, Regs
<1> HIDE DEF c, file
<1> DEFINE found == {x \in file.ports : x.port = t.port /\ x.kind = t.kind /\ x.addr = t.addr}
           tags == {e.tag : e \in found}
<1>5. tags = {Io(c, r)}
  <2>1. P(r) \in found /\ P(r).tag = Io(c, r)
    BY <1>3 DEF c
  <2>2. \A s \in Q : P(s).kind = r.kind /\ P(s).addr = r.addr => Io(c, s) = Io(c, r)
    BY DEF Io
  <2>3. \A e \in found : e.tag = Io(c, r)
    BY <1>3, <2>2
  <2> HIDE DEF found, P
  <2>. QED  BY <2>1, <2>3
<1>6. {y \in file.points : y[1] \in tags} = {<<Io(c, r), r.point>>}
  <2>1. <<Io(c, r), r.point>> \in file.points
    BY <1>4 DEF c
  <2>2. \A s \in Q : Io(c, s) \in tags => s = r
    BY <1>2, <1>5 DEF c
  <2> HIDE DEF tags
  <2>. QED  BY <1>4, <1>5, <2>1, <2>2
<1>7. Reads(t) = {<<t.host, x[2]>> : x \in {y \in file.points : y[1] \in tags}}
  BY DEF Reads, c, file
<1> HIDE DEF tags
<1>8. Reads(t) = {<<t.host, x[2]>> : x \in {<<Io(c, r), r.point>>}}
  BY <1>6, <1>7
<1>9. \A a, b : {<<t.host, x[2]>> : x \in {<<a, b>>}} = {<<t.host, b>>}
  OBVIOUS
<1>. QED  BY <1>8, <1>9

\* A client has the registers of such a server one after the other, each once.
LEMMA ClientOrder ==
  ASSUME NEW h, NEW q, Measured(h, q), q # "modbus"
  PROVE  LET c == FieldDeviceConfig(h)
             all == ByProtocol(c)
         IN  /\ Len(all) \in Nat /\ DOMAIN all = 1..Len(all) /\ Different(all)
             /\ Items(all) = {[proto |-> q, reg |-> r] : r \in Range(c.regs[q])}
<1> DEFINE c == FieldDeviceConfig(h)
           R == c.regs[q]
           S == {[proto |-> q, reg |-> r] : r \in Range(R)}
           order == <<"bacnet", "dnp3", "dnp3-serial", "iec60870-5-104">>
           of == [i \in DOMAIN R |-> [proto |-> q, reg |-> R[i]]]
           s == [x \in 1..4 |-> IF order[x] = q THEN of ELSE <<>>]
<1>1. DOMAIN c.regs = {q} /\ q \in {"dnp3", "bacnet"} /\ Good(R)
  BY DEF Measured
<1>2. ByProtocol(c) = FlattenSeq(s)
  <2>1. DOMAIN order = 1..4
    OBVIOUS
  <2>2. \A x \in 1..4 :
          (IF order[x] \in DOMAIN c.regs
           THEN [i \in DOMAIN c.regs[order[x]] |->
                   [proto |-> order[x], reg |-> c.regs[order[x]][i]]]
           ELSE <<>>) = IF order[x] = q THEN of ELSE <<>>
    BY <1>1
  <2> HIDE DEF of, c
  <2>. QED  BY <2>1, <2>2 DEF ByProtocol
<1>3. of \in Seq(S) /\ Different(of) /\ Items(of) = S
  <2>1. DOMAIN R = 1..Len(R) /\ Len(R) \in Nat
    BY <1>1 DEF Good, Rows
  <2> HIDE DEF R
  <2>2. \A i \in DOMAIN R : R[i] \in Range(R)
    BY DEF Range
  <2>3. of \in [1..Len(R) -> S]
    BY <2>1, <2>2
  <2>4. of \in Seq(S)
    BY <2>1, <2>3, SeqDef
  <2>5. \A i, j \in DOMAIN R : R[i] = R[j] => i = j
    BY <1>1 DEF Good, Rows
  <2>6. \A i \in DOMAIN of : of[i].reg = R[i]
    OBVIOUS
  <2>7. DOMAIN of = DOMAIN R
    OBVIOUS
  <2>8. Different(of)
    BY <2>5, <2>6, <2>7 DEF Different
  <2>9. Items(of) = S
    BY <2>2 DEF Items, Range
  <2>. QED  BY <2>4, <2>8, <2>9
<1>4. PICK m \in 1..4 : order[m] = q /\ \A x \in 1..4 : order[x] = q => x = m
  <2>1. /\ order[1] = "bacnet" /\ order[2] = "dnp3"
        /\ order[3] \notin {"dnp3", "bacnet"} /\ order[4] \notin {"dnp3", "bacnet"}
    OBVIOUS
  <2>2. \A x \in 1..4 : x = 1 \/ x = 2 \/ x = 3 \/ x = 4
    OBVIOUS
  <2>. HIDE DEF order
  <2>. QED  BY <1>1, <2>1, <2>2
<1>5. s[m] = of /\ \A x \in 1..4 : x # m => s[x] = <<>>
  BY <1>4
<1>6. <<>> \in Seq(S) /\ Different(<<>>) /\ Items(<<>>) = {}
  BY DEF Different, Items
<1>7. s \in [1..4 -> Seq(S)]
  BY <1>3, <1>6
<1> HIDE DEF s, S, of
<1>8. FlattenSeq(s) \in Seq(S) /\ Items(FlattenSeq(s)) = UNION {Items(s[x]) : x \in 1..4}
  BY <1>7, Flattened
<1>9. Different(FlattenSeq(s))
  <2>1. \A x \in 1..4 : Different(s[x])
    BY <1>3, <1>5, <1>6
  <2>2. \A x, y \in 1..4 : x # y => Items(s[x]) \cap Items(s[y]) = {}
    BY <1>5, <1>6
  <2>. QED  BY <1>7, <2>1, <2>2, Flattened
<1>10. UNION {Items(s[x]) : x \in 1..4} = S
  <2>1. \A x \in 1..4 : Items(s[x]) \subseteq S
    BY <1>3, <1>5, <1>6
  <2>2. Items(s[m]) = S
    BY <1>3, <1>5
  <2>. QED  BY <2>1, <2>2
<1>11. Len(FlattenSeq(s)) \in Nat /\ DOMAIN FlattenSeq(s) = 1..Len(FlattenSeq(s))
  BY <1>8, LenProperties
<1>. QED  BY <1>2, <1>8, <1>9, <1>10, <1>11 DEF S

\* Inputs that are counted to the same number are one, and so are outputs.
LEMMA CountedOnce ==
  ASSUME NEW all, Len(all) \in Nat, DOMAIN all = 1..Len(all),
         NEW i \in DOMAIN all, NEW j \in DOMAIN all,
         IsInput(all[i].reg.kind) = IsInput(all[j].reg.kind),
         Cardinality({m \in 1..(i - 1) : IsInput(all[m].reg.kind) = IsInput(all[i].reg.kind)})
           = Cardinality({m \in 1..(j - 1) : IsInput(all[m].reg.kind) = IsInput(all[j].reg.kind)})
  PROVE  i = j
<1> DEFINE Prior(x) == {m \in 1..(x - 1) : IsInput(all[m].reg.kind) = IsInput(all[x].reg.kind)}
<1>1. \A x \in DOMAIN all : x \in Nat /\ 1 <= x
  OBVIOUS
<1>2. ASSUME NEW x \in DOMAIN all, NEW y \in DOMAIN all, x < y,
             IsInput(all[x].reg.kind) = IsInput(all[y].reg.kind)
      PROVE  Cardinality(Prior(x)) # Cardinality(Prior(y))
  <2>1. Prior(x) \subseteq Prior(y) /\ x \in Prior(y) /\ x \notin Prior(x)
    BY <1>1, <1>2
  <2>2. Prior(y) \subseteq 1..(y - 1) /\ y \in Nat /\ 1 <= y
    BY <1>1
  <2> HIDE DEF Prior
  <2>3. IsFiniteSet(Prior(y))
    BY <2>2, CountBefore
  <2>4. /\ Cardinality(Prior(x)) \in Nat /\ Cardinality(Prior(y)) \in Nat
        /\ Cardinality(Prior(x)) < Cardinality(Prior(y))
    BY <2>1, <2>3, OneMore
  <2>. QED  BY <2>4
<1>3. Cardinality(Prior(i)) = Cardinality(Prior(j))
  OBVIOUS
<1>4. i \in Nat /\ j \in Nat
  BY <1>1
<1> HIDE DEF Prior
<1>. QED  BY <1>2, <1>3, <1>4

\* What a client has for the register at a place of its list.
ClientTag(c, all, i) ==
  [tag |-> <<c.name, IsInput(all[i].reg.kind),
             Cardinality({j \in 1..(i - 1) :
               IsInput(all[j].reg.kind) = IsInput(all[i].reg.kind)})>>,
   host |-> c.name, kind |-> all[i].reg.kind, addr |-> all[i].reg.addr,
   port |-> IF all[i].proto = "dnp3-serial" THEN "none" ELSE all[i].proto]

\* The tags of a client for such a server: each leads to one point, and different
\* ones to different points.
LEMMA ClientsRight ==
  ASSUME NEW h, NEW q, Measured(h, q),
         written.servers[h.name] = ServerFile(FieldDeviceConfig(h)),
         NEW cs, \A d \in cs : d.name = h.name => d = FieldDeviceConfig(h),
         NEW t \in ClientFile(cs), t.host = h.name, NEW v \in ClientFile(cs)
  PROVE  Cardinality(Reads(t)) = 1 /\ (t.tag = v.tag <=> Reads(t) = Reads(v))
<1> DEFINE c == FieldDeviceConfig(h)
           all == ByProtocol(c)
<1>1. c.name = h.name /\ DOMAIN c.regs = {q} /\ q \in {"dnp3", "modbus", "bacnet"}
  BY DEF FieldDeviceConfig, Measured
<1>2. /\ \A d \in cs : "modbus" \notin DOMAIN d.regs
      /\ ClientFile(cs) =
           UNION {{ClientTag(d, ByProtocol(d), i) : i \in DOMAIN ByProtocol(d)} : d \in cs}
  <2>1. ~ \E d \in cs : "modbus" \in DOMAIN d.regs
    BY DEF ClientFile
  <2>. QED  BY <2>1 DEF ClientFile, ClientTag
<1>3. ASSUME NEW x \in ClientFile(cs)
      PROVE  \E d \in cs : \E i \in DOMAIN ByProtocol(d) : x = ClientTag(d, ByProtocol(d), i)
  BY <1>2
<1>4. ASSUME NEW x \in ClientFile(cs), x.host = h.name
      PROVE  c \in cs /\ \E i \in DOMAIN all : x = ClientTag(c, all, i)
  <2>1. PICK d \in cs : \E i \in DOMAIN ByProtocol(d) : x = ClientTag(d, ByProtocol(d), i)
    BY <1>3
  <2>2. d.name = h.name
    BY <1>4, <2>1 DEF ClientTag
  <2>. QED  BY <2>1, <2>2
<1>5. q # "modbus"
  BY <1>1, <1>2, <1>4
<1>6. /\ Len(all) \in Nat /\ DOMAIN all = 1..Len(all) /\ Different(all)
      /\ Items(all) = {[proto |-> q, reg |-> r] : r \in Range(c.regs[q])}
  BY <1>5, ClientOrder
<1> HIDE DEF all
<1>7. ASSUME NEW i \in DOMAIN all
      PROVE  /\ all[i].proto = q /\ all[i].reg \in Range(c.regs[q])
             /\ Reads(ClientTag(c, all, i)) = {<<h.name, all[i].reg.point>>}
  <2>1. all[i].proto = q /\ all[i].reg \in Range(c.regs[q])
    BY <1>6 DEF Items
  <2>2. /\ ClientTag(c, all, i).host = h.name /\ ClientTag(c, all, i).port = q
        /\ ClientTag(c, all, i).kind = all[i].reg.kind
        /\ ClientTag(c, all, i).addr = all[i].reg.addr
    BY <1>1, <2>1 DEF ClientTag
  <2>. HIDE DEF c
  <2>3. Reads(ClientTag(c, all, i)) = {<<h.name, all[i].reg.point>>}
    BY <2>1, <2>2, ReadsOne DEF c
  <2>. QED  BY <2>1, <2>3
<1>8. PICK i \in DOMAIN all : t = ClientTag(c, all, i)
  BY <1>4
<1>9. Cardinality(Reads(t)) = 1
  BY <1>7, <1>8, FS_Singleton
<1>10. ASSUME t.tag = v.tag PROVE Reads(t) = Reads(v)
  <2>1. v.host = h.name
    <3>1. \E d : \E x, m : v = ClientTag(d, x, m)
      BY <1>3
    <3>2. v.host = v.tag[1]
      BY <3>1 DEF ClientTag
    <3>3. t.tag[1] = h.name
      BY <1>1, <1>8 DEF ClientTag
    <3>. QED  BY <1>10, <3>2, <3>3
  <2>2. PICK j \in DOMAIN all : v = ClientTag(c, all, j)
    BY <1>4, <2>1
  <2>3. /\ IsInput(all[i].reg.kind) = IsInput(all[j].reg.kind)
        /\ Cardinality({m \in 1..(i - 1) : IsInput(all[m].reg.kind) = IsInput(all[i].reg.kind)})
             = Cardinality({m \in 1..(j - 1) : IsInput(all[m].reg.kind) = IsInput(all[j].reg.kind)})
    <3>1. t.tag[2] = v.tag[2] /\ t.tag[3] = v.tag[3]
      BY <1>10
    <3>. QED  BY <1>8, <2>2, <3>1 DEF ClientTag
  <2>4. i = j
    BY <1>6, <2>3, CountedOnce
  <2>. QED  BY <1>8, <2>2, <2>4
<1>11. ASSUME Reads(t) = Reads(v) PROVE t.tag = v.tag
  <2>1. Reads(t) = {<<h.name, all[i].reg.point>>}
    BY <1>7, <1>8
  <2>2. v.host = h.name
    <3>1. \A x \in Reads(v) : x[1] = v.host
      BY DEF Reads
    <3>2. <<h.name, all[i].reg.point>> \in Reads(v)
      BY <1>11, <2>1
    <3>3. <<h.name, all[i].reg.point>>[1] = h.name
      OBVIOUS
    <3>. QED  BY <3>1, <3>2, <3>3
  <2>3. PICK j \in DOMAIN all : v = ClientTag(c, all, j)
    BY <1>4, <2>2
  <2>4. all[i].reg.point = all[j].reg.point
    <3>1. {<<h.name, all[i].reg.point>>} = {<<h.name, all[j].reg.point>>}
      BY <1>7, <1>11, <2>1, <2>3
    <3>2. \A a, x, y : {<<a, x>>} = {<<a, y>>} => x = y
      <4>1. \A a, x, y : <<a, x>> \in {<<a, y>>} => x = y
        OBVIOUS
      <4>. QED  BY <4>1
    <3>. QED  BY <3>1, <3>2
  <2>5. all[i].reg = all[j].reg
    BY <1>7, <2>4, GoodRegisters DEF Measured
  <2>6. all[i] = all[j]
    BY <1>6, <2>5 DEF Items
  <2>7. i = j
    BY <1>6, <2>6 DEF Different
  <2>. QED  BY <1>8, <2>3, <2>7
<1>. QED  BY <1>9, <1>10, <1>11

\* The tags that OPC has for such a server: each leads to its point.
OpcTag(h, q, r) ==
  [host |-> h.name, port |-> q, kind |-> r.kind, addr |-> r.addr, point |-> r.point]

LEMMA TagsRight ==
  ASSUME NEW h, NEW q, Measured(h, q),
         written.servers[h.name] = ServerFile(FieldDeviceConfig(h)),
         NEW cs, \A d \in cs : d.name = h.name => d = FieldDeviceConfig(h),
         NEW t \in Tags(cs), t.host = h.name
  PROVE  /\ \E r \in Range(FieldDeviceConfig(h).regs[q]) : t = OpcTag(h, q, r)
         /\ Reads(t) = {<<t.host, t.point>>}
<1> DEFINE c == FieldDeviceConfig(h)
           Tag(d, x, r) == [host |-> d.name, port |-> Driver(x), kind |-> r.kind,
                            addr |-> r.addr, point |-> r.point]
<1>1. c.name = h.name /\ DOMAIN c.regs = {q} /\ q \in {"dnp3", "modbus", "bacnet"}
  BY DEF FieldDeviceConfig, Measured
<1>2. Driver(q) = q
  BY <1>1 DEF Driver
<1>3. PICK d \in cs : \E x \in DOMAIN d.regs : \E r \in Range(d.regs[x]) : t = Tag(d, x, r)
  BY DEF Tags, Regs
<1>4. d.name = h.name
  BY <1>3
<1>5. d = c
  BY <1>4
<1> HIDE DEF c
<1>6. PICK r \in Range(c.regs[q]) : t = Tag(c, q, r)
  BY <1>1, <1>3, <1>5
<1>7. t = OpcTag(h, q, r)
  BY <1>1, <1>2, <1>6 DEF OpcTag
<1>8. t.host = h.name /\ t.port = q /\ t.kind = r.kind /\ t.addr = r.addr /\ t.point = r.point
  BY <1>7 DEF OpcTag
<1>9. Reads(t) = {<<h.name, r.point>>}
  BY <1>6, <1>8, ReadsOne DEF c
<1>. QED  BY <1>6, <1>7, <1>8, <1>9 DEF c

\* Every point of such a server has one tag.
LEMMA SeenRight ==
  ASSUME NEW h, NEW q, Measured(h, q),
         written.servers[h.name] = ServerFile(FieldDeviceConfig(h)),
         NEW cs, \A d \in cs : d.name = h.name => d = FieldDeviceConfig(h),
         FieldDeviceConfig(h) \in cs
  PROVE  SeenOnce(h, Tags(cs))
<1> DEFINE c == FieldDeviceConfig(h)
<1>1. ASSUME NEW x \in ServerPoints(h)
      PROVE  Cardinality({t \in Tags(cs) : Reads(t) = {<<h.name, x>>}}) = 1
  <2>1. PICK r \in Range(c.regs[q]) : r.point = x
    BY DEF Measured
  <2>2. OpcTag(h, q, r) \in Tags(cs)
    <3>1. c.name = h.name /\ DOMAIN c.regs = {q} /\ Driver(q) = q
      BY DEF FieldDeviceConfig, Measured, Driver
    <3> DEFINE of(d, y) == {[host |-> d.name, port |-> Driver(y), kind |-> z.kind,
                             addr |-> z.addr, point |-> z.point] : z \in Range(d.regs[y])}
    <3> HIDE DEF c
    <3>2. OpcTag(h, q, r) \in of(c, q)
      BY <3>1 DEF OpcTag
    <3>3. Tags(cs) = UNION {UNION {of(d, y) : y \in DOMAIN d.regs} : d \in cs}
      BY DEF Tags, Regs
    <3> HIDE DEF of
    <3>. QED  BY <3>1, <3>2, <3>3 DEF c
  <2>3. Reads(OpcTag(h, q, r)) = {<<h.name, x>>}
    <3>1. OpcTag(h, q, r).host = h.name /\ OpcTag(h, q, r).point = x
      BY <2>1 DEF OpcTag
    <3>. QED  BY <2>2, <3>1, TagsRight
  <2>4. ASSUME NEW t \in Tags(cs), Reads(t) = {<<h.name, x>>} PROVE t = OpcTag(h, q, r)
    <3>1. t.host = h.name
      <4>1. \A y \in Reads(t) : y[1] = t.host
        BY DEF Reads
      <4>2. <<h.name, x>> \in Reads(t)
        BY <2>4
      <4>3. <<h.name, x>>[1] = h.name
        OBVIOUS
      <4>. QED  BY <4>1, <4>2, <4>3
    <3>2. /\ \E y \in Range(c.regs[q]) : t = OpcTag(h, q, y)
          /\ Reads(t) = {<<t.host, t.point>>}
      BY <3>1, TagsRight
    <3>3. PICK y \in Range(c.regs[q]) : t = OpcTag(h, q, y)
      BY <3>2
    <3>4. t.point = x
      <4>1. {<<h.name, t.point>>} = {<<h.name, x>>}
        BY <2>4, <3>1, <3>2
      <4>2. \A a, u, v : <<a, u>> \in {<<a, v>>} => u = v
        OBVIOUS
      <4>3. <<h.name, t.point>> \in {<<h.name, x>>}
        BY <4>1
      <4>. QED  BY <4>2, <4>3
    <3>5. y.point = r.point
      BY <2>1, <3>3, <3>4 DEF OpcTag
    <3>6. y = r
      BY <3>5, GoodRegisters DEF Measured
    <3>. QED  BY <3>3, <3>6
  <2>5. {t \in Tags(cs) : Reads(t) = {<<h.name, x>>}} = {OpcTag(h, q, r)}
    BY <2>2, <2>3, <2>4
  <2>. QED  BY <2>5, FS_Singleton
<1>. QED  BY <1>1 DEF SeenOnce

----------------------------------------------------------------------------
(* What is in the files                                                    *)

FieldServers == {plant.hosts[i].name : i \in Typed("fd-server")}
ConfigOf(x) == FieldDeviceConfig(HostOf(x))
AllConfigs == {ConfigOf(x) : x \in FieldServers}
NamedBy(h) == {ConfigOf(x) : x \in Range(h.rtus) \cap FieldServers}
Watched(h) == IF h.all THEN AllConfigs ELSE NamedBy(h)

\* What a historian with an OPC server on its network stores.
Recorded(h, f) ==
  LET near == Near(h, TRUE)
  IN  near # <<>> /\ f.tags # {} =>
        f.opc = <<near[1].name>> /\ f.tags = Tags(Watched(near[1]))

\* What is in the files is a function of the plant, whoever wrote them and when.
Contents ==
  /\ pre = [configs |-> pre.configs, last |-> pre.last]
  /\ written = [servers |-> written.servers, clients |-> written.clients,
                opcs |-> written.opcs, historians |-> written.historians,
                addrs |-> written.addrs, federates |-> written.federates]
  /\ \A x \in DOMAIN pre.configs : x \in FieldServers /\ pre.configs[x] = ConfigOf(x)
  /\ \A x \in DOMAIN written.servers :
       Valid(HostOf(x)) /\ written.servers[x] = ServerFile(ConfigOf(x))
  /\ \A x \in DOMAIN written.clients :
       written.clients[x] = ClientFile(NamedBy(HostOf(x)))
  /\ \A x \in DOMAIN written.opcs : written.opcs[x] = Tags(Watched(HostOf(x)))
  /\ \A x \in DOMAIN written.federates :
       written.federates[x] = FederateFile(HostOf(x), AllConfigs)
  /\ \A t \in written.addrs : t \in Tags(AllConfigs)
  /\ \A x \in DOMAIN written.historians : Recorded(HostOf(x), written.historians[x])

\* The hosts that the stage is past have been written into the files.
Has(part, h) ==
  /\ part = "fd-server" => /\ h.name \in DOMAIN written.servers
                           /\ InStage => h.name \in DOMAIN pre.configs
  /\ part = "opc" => h.name \in DOMAIN written.opcs
  /\ part = "historian" => h.name \in DOMAIN written.historians
Gathered ==
  \A part \in Range(Parts) : \A m \in DOMAIN PartOf(part) :
    Behind(part) \/ (spc = part /\ m < at) => Has(part, PartOf(part)[m])

PointsInv == FilesInv /\ Contents /\ Gathered

LEMMA TextsSame ==
  ASSUME UNCHANGED plant
  PROVE  /\ FieldServers' = FieldServers /\ AllConfigs' = AllConfigs
         /\ \A x : HostOf(x)' = HostOf(x) /\ ConfigOf(x)' = ConfigOf(x)
         /\ \A h : NamedBy(h)' = NamedBy(h) /\ Watched(h)' = Watched(h)
         /\ \A h : (Valid(h)' <=> Valid(h)) /\ Near(h, TRUE)' = Near(h, TRUE)
         /\ \A h, f : Recorded(h, f)' <=> Recorded(h, f)
<1>1. FieldServers' = FieldServers
  BY DEF FieldServers, Typed
<1>2. \A x : HostOf(x)' = HostOf(x)
  BY PlantSame
<1>3. \A x : ConfigOf(x)' = ConfigOf(x)
  BY <1>2 DEF ConfigOf
<1>4. AllConfigs' = AllConfigs
  BY <1>1, <1>3 DEF AllConfigs
<1>5. \A h : NamedBy(h)' = NamedBy(h)
  BY <1>1, <1>3 DEF NamedBy
<1>6. \A h : Watched(h)' = Watched(h)
  BY <1>4, <1>5 DEF Watched
<1>7. \A h : Near(h, TRUE)' = Near(h, TRUE)
  BY DEF Near, Picked, Opc, Typed
<1>8. \A h : Valid(h)' <=> Valid(h)
  BY DEF Valid, OfType, Picked, Typed
<1>9. \A h, f : Recorded(h, f)' <=> Recorded(h, f)
  BY <1>6, <1>7 DEF Recorded
<1>. QED  BY <1>1, <1>2, <1>3, <1>4, <1>5, <1>6, <1>7, <1>8, <1>9

\* The host that is handled is one of the plant, of the type of the part.
LEMMA HereIs ==
  ASSUME FilesInv, PlantOf(plant), InStage, at <= Len(Handled)
  PROVE  /\ HostOf(Here.name) = Here
         /\ spc # "federate" => \E i \in Typed(spc) : Here = plant.hosts[i]
<1>1. at \in Nat \ {0} /\ Handled = PartOf(spc)
  BY DEF FilesInv, Position, Handled, PartOf
<1>2. at \in DOMAIN PartOf(spc)
  BY <1>1, PartList
<1> DEFINE places == IF spc = "federate"
                     THEN {j \in DOMAIN plant.hosts : "helics-federate" \in plant.hosts[j].labels}
                     ELSE Typed(spc)
<1>3. places \in SUBSET DOMAIN plant.hosts
  BY DEF Typed
<1>4. PartOf(spc) = Picked(places)
  BY DEF PartOf, OfType, Labelled
<1>5. spc # "federate" => places = Typed(spc)
  OBVIOUS
<1> HIDE DEF places
<1>6. \A m \in DOMAIN Picked(places) : \E i \in places : Picked(places)[m] = plant.hosts[i]
  BY <1>3, PickedAll
<1>7. PICK i \in places : Here = plant.hosts[i]
  BY <1>1, <1>2, <1>4, <1>6 DEF Here
<1>8. HostOf(Here.name) = Here
  <2>1. Here \in Range(plant.hosts)
    BY <1>3, <1>7 DEF Range
  <2>2. \A x \in Range(plant.hosts) : x.name = Here.name => x = Here
    BY <1>3, <1>7 DEF Range, PlantOf
  <2>. QED  BY <2>1, <2>2 DEF HostOf
<1>. QED  BY <1>5, <1>7, <1>8

LEMMA ServersBehind ==
  /\ spc \in {"federate", "fd-client", "fep", "opc", "scada-server", "hmi",
              "engineer-workstation", "historian", "done"} => Behind("fd-server")
  /\ spc \in {"historian", "done"} => Behind("opc")
<1>1. Parts[2] = "fd-server" /\ Parts[6] = "opc"
  BY DEF Parts
<1>2. ASSUME NEW i \in DOMAIN Parts, i > 2, spc = Parts[i] PROVE Behind("fd-server")
  <2>1. 2 \in DOMAIN Parts
    BY PartsList
  <2>. QED  BY <1>1, <1>2, <2>1 DEF Behind
<1>3. spc \in {"federate", "fd-client", "fep", "opc", "scada-server", "hmi",
               "engineer-workstation", "historian"} =>
         \E i \in DOMAIN Parts : i > 2 /\ spc = Parts[i]
  <2>1. /\ Parts[3] = "federate" /\ Parts[4] = "fd-client" /\ Parts[5] = "fep"
        /\ Parts[7] = "scada-server" /\ Parts[8] = "hmi"
        /\ Parts[9] = "engineer-workstation" /\ Parts[10] = "historian"
    BY DEF Parts
  <2>2. 3..10 \subseteq DOMAIN Parts /\ \A i \in 3..10 : i > 2
    BY PartsList
  <2>. QED  BY <1>1, <2>1, <2>2
<1>4. spc = "historian" => Behind("opc")
  <2>1. 6 \in DOMAIN Parts /\ 10 \in DOMAIN Parts /\ 6 < 10
    BY PartsList
  <2>. QED  BY <1>1, <2>1, PartsList DEF Behind
<1>5. spc = "done" => Behind("fd-server") /\ Behind("opc")
  BY DEF Behind
<1>. QED  BY <1>2, <1>3, <1>4, <1>5

\* Past a part, every host of the type has been written.
LEMMA TypeGathered ==
  ASSUME Gathered, PlantOf(plant), NEW type \in Range(Parts) \ {"federate"}, Behind(type),
         NEW i \in Typed(type)
  PROVE  Has(type, plant.hosts[i])
<1>1. PartOf(type) = Picked(Typed(type)) /\ Typed(type) \in SUBSET DOMAIN plant.hosts
  BY DEF PartOf, OfType, Typed
<1>2. \A j \in Typed(type) : \E m \in DOMAIN Picked(Typed(type)) :
        Picked(Typed(type))[m] = plant.hosts[j]
  BY <1>1, PickedAll
<1>3. PICK m \in DOMAIN PartOf(type) : PartOf(type)[m] = plant.hosts[i]
  BY <1>1, <1>2
<1>. QED  BY <1>3 DEF Gathered

\* After the servers, the stage knows all of them.
LEMMA AllKnown ==
  ASSUME PointsInv, PlantOf(plant), InStage, Behind("fd-server")
  PROVE  /\ Range(pre.configs) = AllConfigs
         /\ \A h : Connected(h) = NamedBy(h) /\ Monitored(h) = Watched(h)
<1>1. "fd-server" \in Range(Parts) \ {"federate"}
  BY PartsList
<1>2. DOMAIN pre.configs = FieldServers
  <2>1. \A i \in Typed("fd-server") : plant.hosts[i].name \in DOMAIN pre.configs
    BY <1>1, TypeGathered DEF PointsInv, Has
  <2>. QED  BY <2>1 DEF PointsInv, Contents, FieldServers
<1>3. \A x \in FieldServers : pre.configs[x] = ConfigOf(x)
  BY <1>2 DEF PointsInv, Contents
<1>4. Range(pre.configs) = AllConfigs
  BY <1>2, <1>3 DEF Range, AllConfigs
<1>5. \A h : Connected(h) = NamedBy(h)
  BY <1>2, <1>3 DEF Connected, NamedBy
<1>. QED  BY <1>4, <1>5 DEF Monitored, Watched

\* Nothing that was written is lost, and the process forgets nothing in a stage.
WrittenGrows ==
  /\ DOMAIN written.servers \subseteq DOMAIN written.servers'
  /\ DOMAIN written.opcs \subseteq DOMAIN written.opcs'
  /\ DOMAIN written.historians \subseteq DOMAIN written.historians'
  /\ InStage' => InStage /\ DOMAIN pre.configs \subseteq DOMAIN pre.configs'

\* The contents after a step, from those of the fields of it.
LEMMA ContentsNext ==
  ASSUME Contents, UNCHANGED plant,
         pre' = [configs |-> pre'.configs, last |-> pre'.last],
         \/ written' = written
         \/ \E f : \/ written' = [written EXCEPT !.servers = f]
                   \/ written' = [written EXCEPT !.clients = f]
                   \/ written' = [written EXCEPT !.opcs = f]
                   \/ written' = [written EXCEPT !.historians = f]
                   \/ written' = [written EXCEPT !.addrs = f]
                   \/ written' = [written EXCEPT !.federates = f],
         \A x \in DOMAIN pre'.configs : x \in FieldServers /\ pre'.configs[x] = ConfigOf(x),
         \A x \in DOMAIN written'.servers :
           Valid(HostOf(x)) /\ written'.servers[x] = ServerFile(ConfigOf(x)),
         \A x \in DOMAIN written'.clients :
           written'.clients[x] = ClientFile(NamedBy(HostOf(x))),
         \A x \in DOMAIN written'.opcs : written'.opcs[x] = Tags(Watched(HostOf(x))),
         \A x \in DOMAIN written'.federates :
           written'.federates[x] = FederateFile(HostOf(x), AllConfigs),
         \A t \in written'.addrs : t \in Tags(AllConfigs),
         \A x \in DOMAIN written'.historians : Recorded(HostOf(x), written'.historians[x])
  PROVE  Contents'
<1>1. written' = [servers |-> written'.servers, clients |-> written'.clients,
                  opcs |-> written'.opcs, historians |-> written'.historians,
                  addrs |-> written'.addrs, federates |-> written'.federates]
  BY DEF Contents
<1>2. /\ FieldServers' = FieldServers /\ AllConfigs' = AllConfigs
      /\ \A x : HostOf(x)' = HostOf(x) /\ ConfigOf(x)' = ConfigOf(x)
      /\ \A h : NamedBy(h)' = NamedBy(h) /\ Watched(h)' = Watched(h)
      /\ \A h : (Valid(h)' <=> Valid(h))
      /\ \A h, f : Recorded(h, f)' <=> Recorded(h, f)
  BY TextsSame
<1>. QED  BY <1>1, <1>2 DEF Contents

LEMMA ServerWritten ==
  ASSUME PointsInv, PlantOf(plant), PrepareServer
  PROVE  /\ Contents' /\ WrittenGrows
         /\ \A part, h : part = spc /\ h = Here => Has(part, h)'
<1>1. /\ spc = "fd-server" /\ InStage /\ at <= Len(Handled) /\ Valid(Here)
      /\ UNCHANGED <<plant, spc>>
  BY PartsList DEF PrepareServer, Handles, Raises, InStage
<1>2. HostOf(Here.name) = Here /\ \E i \in Typed(spc) : Here = plant.hosts[i]
  BY <1>1, HereIs DEF PointsInv
<1>3. Here.name \in FieldServers /\ ConfigOf(Here.name) = FieldDeviceConfig(Here)
  BY <1>1, <1>2 DEF FieldServers, ConfigOf
<1> DEFINE c == FieldDeviceConfig(Here)
           G == Over(Only(c), pre.configs)
           F == Over(Only(ServerFile(c)), written.servers)
<1>4. pre' = [pre EXCEPT !.configs = G] /\ written' = [written EXCEPT !.servers = F]
  BY DEF PrepareServer
<1> HIDE DEF c
<1>5. /\ DOMAIN G = DOMAIN pre.configs \cup {Here.name} /\ G[Here.name] = c
      /\ \A x \in DOMAIN pre.configs : x # Here.name => G[x] = pre.configs[x]
  BY DEF Over, Only
<1>6. /\ DOMAIN F = DOMAIN written.servers \cup {Here.name} /\ F[Here.name] = ServerFile(c)
      /\ \A x \in DOMAIN written.servers : x # Here.name => F[x] = written.servers[x]
  BY DEF Over, Only
<1> HIDE DEF G, F, c
<1>7. pre'.configs = G /\ pre' = [configs |-> pre'.configs, last |-> pre'.last]
  BY <1>4 DEF PointsInv, Contents
<1>8. /\ written'.servers = F /\ written'.clients = written.clients
      /\ written'.opcs = written.opcs /\ written'.historians = written.historians
      /\ written'.addrs = written.addrs /\ written'.federates = written.federates
  BY <1>4 DEF PointsInv, Contents
<1>9. \A x \in DOMAIN pre'.configs : x \in FieldServers /\ pre'.configs[x] = ConfigOf(x)
  BY <1>3, <1>5, <1>7 DEF c, PointsInv, Contents
<1>10. \A x \in DOMAIN written'.servers :
         Valid(HostOf(x)) /\ written'.servers[x] = ServerFile(ConfigOf(x))
  BY <1>1, <1>2, <1>3, <1>6, <1>8 DEF c, PointsInv, Contents
<1>11. Contents'
  BY <1>1, <1>4, <1>7, <1>8, <1>9, <1>10, ContentsNext DEF PointsInv, Contents
<1>12. WrittenGrows
  BY <1>1, <1>5, <1>6, <1>7, <1>8 DEF WrittenGrows
<1>13. Here.name \in DOMAIN written'.servers /\ Here.name \in DOMAIN pre'.configs
  BY <1>5, <1>6, <1>7, <1>8
<1>. QED  BY <1>1, <1>11, <1>12, <1>13 DEF Has

\* The steps that write one file with the servers the stage knows.
LEMMA ReaderWritten ==
  ASSUME PointsInv, PlantOf(plant), PrepareFederate \/ PrepareClient \/ PrepareOpc
  PROVE  /\ Contents' /\ WrittenGrows
         /\ \A part, h : part = spc /\ h = Here => Has(part, h)'
<1>1. /\ spc \in {"federate", "fd-client", "opc"} /\ InStage /\ at <= Len(Handled)
      /\ UNCHANGED <<plant, spc>>
  BY PartsList DEF PrepareFederate, PrepareClient, PrepareOpc, Handles, InStage
<1>2. HostOf(Here.name) = Here
  BY <1>1, HereIs DEF PointsInv
<1>3. /\ Range(pre.configs) = AllConfigs
      /\ \A h : Connected(h) = NamedBy(h) /\ Monitored(h) = Watched(h)
  BY <1>1, ServersBehind, AllKnown
<1>4. /\ pre' = [configs |-> pre'.configs, last |-> pre'.last] /\ pre'.configs = pre.configs
  BY DEF PrepareFederate, PrepareClient, PrepareOpc, PointsInv, Contents
<1>5. CASE PrepareFederate
  <2> DEFINE v == FederateFile(Here, Range(pre.configs))
             F == Over(Only(v), written.federates)
  <2>1. written' = [written EXCEPT !.federates = F] /\ spc = "federate"
    BY <1>5 DEF PrepareFederate, Handles
  <2>2. /\ DOMAIN F = DOMAIN written.federates \cup {Here.name} /\ F[Here.name] = v
        /\ \A x \in DOMAIN written.federates : x # Here.name => F[x] = written.federates[x]
    BY DEF Over, Only
  <2>3. v = FederateFile(Here, AllConfigs)
    BY <1>3
  <2> HIDE DEF F, v
  <2>4. /\ written'.servers = written.servers /\ written'.clients = written.clients
        /\ written'.opcs = written.opcs /\ written'.historians = written.historians
        /\ written'.addrs = written.addrs /\ written'.federates = F
    BY <2>1 DEF PointsInv, Contents
  <2>5. \A x \in DOMAIN written'.federates :
          written'.federates[x] = FederateFile(HostOf(x), AllConfigs)
    BY <1>2, <2>2, <2>3, <2>4 DEF PointsInv, Contents
  <2>6. Contents'
    BY <1>1, <1>4, <2>1, <2>4, <2>5, ContentsNext DEF PointsInv, Contents
  <2>. QED  BY <1>1, <1>4, <2>1, <2>4, <2>6 DEF WrittenGrows, Has
<1>6. CASE PrepareClient
  <2> DEFINE v == ClientFile(Connected(Here))
             F == Over(Only(v), written.clients)
  <2>1. written' = [written EXCEPT !.clients = F] /\ spc = "fd-client"
    BY <1>6 DEF PrepareClient, Handles
  <2>2. /\ DOMAIN F = DOMAIN written.clients \cup {Here.name} /\ F[Here.name] = v
        /\ \A x \in DOMAIN written.clients : x # Here.name => F[x] = written.clients[x]
    BY DEF Over, Only
  <2>3. v = ClientFile(NamedBy(Here))
    BY <1>3
  <2> HIDE DEF F, v
  <2>4. /\ written'.servers = written.servers /\ written'.clients = F
        /\ written'.opcs = written.opcs /\ written'.historians = written.historians
        /\ written'.addrs = written.addrs /\ written'.federates = written.federates
    BY <2>1 DEF PointsInv, Contents
  <2>5. \A x \in DOMAIN written'.clients :
          written'.clients[x] = ClientFile(NamedBy(HostOf(x)))
    BY <1>2, <2>2, <2>3, <2>4 DEF PointsInv, Contents
  <2>6. Contents'
    BY <1>1, <1>4, <2>1, <2>4, <2>5, ContentsNext DEF PointsInv, Contents
  <2>. QED  BY <1>1, <1>4, <2>1, <2>4, <2>6 DEF WrittenGrows, Has
<1>7. CASE PrepareOpc
  <2> DEFINE v == Tags(Monitored(Here))
             F == Over(Only(v), written.opcs)
  <2>1. written' = [written EXCEPT !.opcs = F] /\ spc = "opc"
    BY <1>7 DEF PrepareOpc, Handles
  <2>2. /\ DOMAIN F = DOMAIN written.opcs \cup {Here.name} /\ F[Here.name] = v
        /\ \A x \in DOMAIN written.opcs : x # Here.name => F[x] = written.opcs[x]
    BY DEF Over, Only
  <2>3. v = Tags(Watched(Here))
    BY <1>3
  <2> HIDE DEF F, v
  <2>4. /\ written'.servers = written.servers /\ written'.clients = written.clients
        /\ written'.opcs = F /\ written'.historians = written.historians
        /\ written'.addrs = written.addrs /\ written'.federates = written.federates
    BY <2>1 DEF PointsInv, Contents
  <2>5. \A x \in DOMAIN written'.opcs : written'.opcs[x] = Tags(Watched(HostOf(x)))
    BY <1>2, <2>2, <2>3, <2>4 DEF PointsInv, Contents
  <2>6. Contents'
    BY <1>1, <1>4, <2>1, <2>4, <2>5, ContentsNext DEF PointsInv, Contents
  <2>. QED  BY <1>1, <1>4, <2>1, <2>2, <2>4, <2>6 DEF WrittenGrows, Has
<1>. QED  BY <1>5, <1>6, <1>7

\* An OPC server near a historian is one of those that were written.
LEMMA NearWritten ==
  ASSUME PointsInv, PlantOf(plant), spc \in {"historian", "done"}, NEW h,
         Near(h, TRUE) # <<>>
  PROVE  LET o == Near(h, TRUE)[1]
         IN  /\ o.name \in DOMAIN written.opcs /\ written.opcs[o.name] = Tags(Watched(o))
             /\ HostOf(o.name) = o /\ o.net = h.net
<1> DEFINE places == {i \in Opc(TRUE) : plant.hosts[i].net = h.net}
           near == Near(h, TRUE)
<1>1. places \in SUBSET DOMAIN plant.hosts
  BY DEF Opc, Typed
<1>2. near = Picked(places)
  BY DEF Near
<1> HIDE DEF places, near
<1>3. /\ Len(near) \in Nat /\ DOMAIN near = 1..Len(near)
      /\ \A m \in DOMAIN near : \E i \in places : near[m] = plant.hosts[i]
  BY <1>1, <1>2, PickedAll
<1>4. near \in Seq({near[m] : m \in DOMAIN near})
  <2>1. near = [m \in DOMAIN near |-> near[m]]
    BY <1>2 DEF Picked
  <2>2. near \in [1..Len(near) -> {near[m] : m \in DOMAIN near}]
    BY <1>3, <2>1
  <2>. QED  BY <1>3, <2>2, SeqDef
<1>5. Len(near) # 0
  BY <1>4, EmptySeq DEF near
<1>6. PICK i \in places : near[1] = plant.hosts[i]
  <2>1. 1 \in DOMAIN near
    BY <1>3, <1>5
  <2>. QED  BY <1>3, <2>1
<1>7. i \in Typed("opc") /\ near[1].net = h.net
  BY <1>6 DEF places, Opc
<1>8. "opc" \in Range(Parts) \ {"federate"} /\ Behind("opc")
  BY PartsList, ServersBehind
<1>9. near[1].name \in DOMAIN written.opcs
  BY <1>6, <1>7, <1>8, TypeGathered DEF PointsInv, Has
<1>10. HostOf(near[1].name) = near[1]
  <2>1. near[1] \in Range(plant.hosts)
    BY <1>1, <1>6 DEF Range
  <2>2. \A x \in Range(plant.hosts) : x.name = near[1].name => x = near[1]
    BY <1>1, <1>6 DEF Range, PlantOf
  <2>. QED  BY <2>1, <2>2 DEF HostOf
<1>. QED  BY <1>7, <1>9, <1>10 DEF PointsInv, Contents, near

LEMMA HistorianWritten ==
  ASSUME PointsInv, PlantOf(plant), PrepareHistorian
  PROVE  /\ Contents' /\ WrittenGrows
         /\ \A part, h : part = spc /\ h = Here => Has(part, h)'
<1>1. /\ spc = "historian" /\ InStage /\ at <= Len(Handled) /\ UNCHANGED <<plant, spc>>
  BY PartsList DEF PrepareHistorian, Handles, InStage
<1>2. HostOf(Here.name) = Here
  BY <1>1, HereIs DEF PointsInv
<1> DEFINE near == Near(Here, TRUE)
           last == IF near = <<>> THEN pre.last ELSE <<near[1].name>>
           v == HistorianFile(Here, near, last)
           F == Over(Only(v), written.historians)
<1>3. pre' = [pre EXCEPT !.last = last] /\ written' = [written EXCEPT !.historians = F]
  BY DEF PrepareHistorian
<1>4. /\ DOMAIN F = DOMAIN written.historians \cup {Here.name} /\ F[Here.name] = v
      /\ \A x \in DOMAIN written.historians : x # Here.name => F[x] = written.historians[x]
  BY DEF Over, Only
<1>5. Recorded(Here, v)
  <2>. SUFFICES ASSUME near # <<>>, v.tags # {}
                PROVE  v.opc = <<near[1].name>> /\ v.tags = Tags(Watched(near[1]))
    BY DEF Recorded
  <2>1. last = <<near[1].name>>
    OBVIOUS
  <2>2. v = [opc |-> <<near[1].name>>, tags |-> written.opcs[near[1].name]]
    BY <2>1 DEF HistorianFile
  <2>3. written.opcs[near[1].name] = Tags(Watched(near[1]))
    BY <1>1, NearWritten
  <2> HIDE DEF v, near
  <2>. QED  BY <2>2, <2>3
<1> HIDE DEF F, v, last
<1>6. pre' = [configs |-> pre'.configs, last |-> pre'.last] /\ pre'.configs = pre.configs
  BY <1>3 DEF PointsInv, Contents
<1>7. /\ written'.servers = written.servers /\ written'.clients = written.clients
      /\ written'.opcs = written.opcs /\ written'.historians = F
      /\ written'.addrs = written.addrs /\ written'.federates = written.federates
  BY <1>3 DEF PointsInv, Contents
<1>8. \A x \in DOMAIN written'.historians : Recorded(HostOf(x), written'.historians[x])
  BY <1>2, <1>4, <1>5, <1>7 DEF PointsInv, Contents
<1>9. Contents'
  BY <1>1, <1>3, <1>6, <1>7, <1>8, ContentsNext DEF PointsInv, Contents
<1>. QED  BY <1>1, <1>4, <1>6, <1>7, <1>9 DEF WrittenGrows, Has

\* Steps that write no file of these.
LEMMA NothingWritten ==
  ASSUME Contents, UNCHANGED <<plant, written>>,
         pre' = [configs |-> pre'.configs, last |-> pre'.last],
         pre'.configs = pre.configs \/ DOMAIN pre'.configs = {}
  PROVE  Contents'
<1>1. \A x \in DOMAIN pre'.configs : x \in FieldServers /\ pre'.configs[x] = ConfigOf(x)
  BY DEF Contents
<1>. QED  BY <1>1, ContentsNext DEF Contents

LEMMA OtherWritten ==
  ASSUME PointsInv, PlantOf(plant), PrepareProvider \/ PrepareScada \/ PrepareOther
  PROVE  /\ Contents' /\ WrittenGrows
         /\ \A part, h : part = spc /\ h = Here => Has(part, h)'
<1>1. /\ spc \in {"provider", "scada-server", "hmi", "engineer-workstation"} /\ InStage
      /\ UNCHANGED <<plant, spc, written>>
  BY PartsList DEF PrepareProvider, PrepareScada, PrepareOther, Handles, InStage
<1>2. pre' = [configs |-> pre'.configs, last |-> pre'.last] /\ pre'.configs = pre.configs
  BY DEF PrepareProvider, PrepareScada, PrepareOther, PointsInv, Contents
<1>3. Contents'
  BY <1>1, <1>2, NothingWritten DEF PointsInv
<1>. QED  BY <1>1, <1>2, <1>3 DEF WrittenGrows, Has

\* The next host, when this one is written.
LEMMA HostGathered ==
  ASSUME PointsInv, PlantOf(plant), InStage, UNCHANGED <<plant, spc>>, at' = at + 1,
         WrittenGrows, \A part, h : part = spc /\ h = Here => Has(part, h)'
  PROVE  Gathered'
<1>1. spc \in Range(Parts) /\ at \in Nat \ {0}
  BY DEF InStage, PointsInv, FilesInv, Position
<1>2. \A part : PartOf(part)' = PartOf(part)
  BY PlantSame
<1>3. \A part : Behind(part)' <=> Behind(part)
  BY DEF Behind
<1>4. Here = PartOf(spc)[at]
  BY DEF Here, Handled, PartOf
<1>5. ASSUME NEW part \in Range(Parts), NEW m \in DOMAIN PartOf(part),
             Behind(part) \/ (spc = part /\ m < at + 1)
      PROVE  \A h : h = PartOf(part)[m] => Has(part, h)'
  <2>1. m \in Nat
    BY PartList
  <2>2. CASE Behind(part) \/ (spc = part /\ m < at)
    <3>1. Has(part, PartOf(part)[m])
      BY <2>2 DEF PointsInv, Gathered
    <3>. QED  BY <3>1 DEF WrittenGrows, Has
  <2>3. CASE spc = part /\ m = at
    BY <1>4, <2>3
  <2>. QED  BY <1>1, <1>5, <2>1, <2>2, <2>3
<1>. QED  BY <1>2, <1>3, <1>5 DEF Gathered

\* After the last host of a part, all of it is written.
LEMMA PartGathered ==
  ASSUME PointsInv, PlantOf(plant), InStage, at > Len(Handled), UNCHANGED plant,
         WrittenGrows,
         \A part \in Range(Parts) : Behind(part)' => Behind(part) \/ part = spc,
         spc' = "done" \/ (spc' \in Range(Parts) /\ at' = 1)
  PROVE  Gathered'
<1>1. at \in Nat \ {0} /\ Handled = PartOf(spc)
  BY DEF PointsInv, FilesInv, Position, Handled, PartOf
<1>2. \A part : PartOf(part)' = PartOf(part)
  BY PlantSame
<1>3. ASSUME NEW part \in Range(Parts), NEW m \in DOMAIN PartOf(part),
             Behind(part) \/ part = spc
      PROVE  \A h : h = PartOf(part)[m] => Has(part, h)'
  <2>1. /\ m \in 1..Len(PartOf(part)) /\ Len(PartOf(part)) \in Nat
    BY PartList
  <2>2. part = spc => m < at
    BY <1>1, <2>1
  <2>3. Has(part, PartOf(part)[m])
    BY <1>3, <2>2 DEF PointsInv, Gathered
  <2>. QED  BY <2>3 DEF WrittenGrows, Has
<1>4. ASSUME NEW part \in Range(Parts), NEW m \in DOMAIN PartOf(part),
             Behind(part)' \/ (spc' = part /\ m < at')
      PROVE  Behind(part) \/ part = spc
  <2>1. m \in 1..Len(PartOf(part)) /\ Len(PartOf(part)) \in Nat
    BY PartList
  <2>2. "done" \notin Range(Parts)
    BY PartsList
  <2>3. Behind(part)'
    BY <1>4, <2>1, <2>2
  <2>. QED  BY <2>3
<1>. QED  BY <1>2, <1>3, <1>4 DEF Gathered

\* Out of the stage and in its first part, nothing is behind or what is stays so.
LEMMA NoneGathered ==
  ASSUME spc' = "idle" \/ (spc' = "provider" /\ at' = 1), UNCHANGED plant, PlantOf(plant)
  PROVE  Gathered'
<1>1. \A part : ~Behind(part)'
  <2>1. ASSUME NEW part, Behind(part)' PROVE FALSE
    <3>1. PICK i, j \in DOMAIN Parts : i < j /\ Parts[i] = part /\ Parts[j] = spc'
      BY <2>1 DEF Behind
    <3>2. spc' # "idle"
      BY <3>1, PartsList DEF Range
    <3>3. j = 1
      BY <3>1, <3>2, PartsList
    <3>. QED  BY <3>1, <3>3, PartsList
  <2>. QED  BY <2>1
<1>2. "idle" \notin Range(Parts)
  BY PartsList
<1>3. ASSUME NEW part \in Range(Parts), NEW m \in DOMAIN PartOf(part) PROVE ~(m < 1)
  BY PartList
<1>4. \A part : PartOf(part)' = PartOf(part)
  BY PlantSame
<1>. QED  BY <1>1, <1>2, <1>3, <1>4 DEF Gathered

LEMMA StageWritten ==
  ASSUME PointsInv, PlantOf(plant), NextStage
  PROVE  Contents' /\ Gathered'
<1>1. /\ spc \in Range(Parts) /\ spc # "historian" /\ at' = 1 /\ at > Len(Handled) /\ InStage
      /\ spc' = Parts[1 + CHOOSE i \in DOMAIN Parts : Parts[i] = spc]
      /\ UNCHANGED <<plant, pre>>
      /\ written' = IF spc = "fep" THEN [written EXCEPT !.addrs = Addrs] ELSE written
  BY DEF NextStage, InStage
<1>2. /\ spc' \in Range(Parts)
      /\ \A part : Behind(part)' => Behind(part) \/ part = spc
  BY <1>1, OnePart
<1>3. pre' = [configs |-> pre'.configs, last |-> pre'.last] /\ pre'.configs = pre.configs
  BY <1>1 DEF PointsInv, Contents
<1>4. /\ written'.servers = written.servers /\ written'.opcs = written.opcs
      /\ written'.historians = written.historians
      /\ Contents'
  <2>1. CASE spc # "fep"
    BY <1>1, <1>3, <2>1, NothingWritten DEF PointsInv
  <2>2. CASE spc = "fep"
    <3>1. Range(pre.configs) = AllConfigs
      BY <1>1, <2>2, ServersBehind, AllKnown
    <3>2. \A t \in Addrs : t \in Tags(AllConfigs)
      BY <3>1 DEF Addrs
    <3>3. written' = [written EXCEPT !.addrs = Addrs]
      BY <1>1, <2>2
    <3> HIDE DEF Addrs
    <3>4. /\ written'.servers = written.servers /\ written'.clients = written.clients
          /\ written'.opcs = written.opcs /\ written'.historians = written.historians
          /\ written'.addrs = Addrs /\ written'.federates = written.federates
      BY <3>3 DEF PointsInv, Contents
    <3>5. Contents'
      BY <1>1, <1>3, <3>2, <3>3, <3>4, ContentsNext DEF PointsInv, Contents
    <3>. QED  BY <3>4, <3>5
  <2>. QED  BY <2>1, <2>2
<1>5. WrittenGrows
  BY <1>1, <1>3, <1>4 DEF WrittenGrows
<1>6. Gathered'
  BY <1>1, <1>2, <1>5, PartGathered
<1>. QED  BY <1>4, <1>6

LEMMA PointsNext ==
  ASSUME PointsInv, PlantOf(plant), [SceptreNext]_everything
  PROVE  PointsInv'
<1>1. FilesInv'
  BY FilesNext DEF PointsInv
<1>2. ASSUME UNCHANGED <<plant, pre, written>> PROVE Contents'
  <2>1. pre' = [configs |-> pre'.configs, last |-> pre'.last]
    BY <1>2 DEF PointsInv, Contents
  <2>. QED  BY <1>2, <2>1, NothingWritten DEF PointsInv
<1>3. ASSUME UNCHANGED <<plant, pre, written, spc, at>> PROVE PointsInv'
  <2>1. Contents'
    BY <1>2, <1>3
  <2>2. /\ \A part : Behind(part)' <=> Behind(part)
        /\ \A part : PartOf(part)' = PartOf(part)
    BY <1>3, PlantSame DEF Behind
  <2>3. \A part, h : Has(part, h)' <=> Has(part, h)
    BY <1>3 DEF Has, InStage
  <2>4. Gathered'
    BY <1>3, <2>2, <2>3 DEF PointsInv, Gathered
  <2>. QED  BY <1>1, <2>1, <2>4 DEF PointsInv
<1>4. CASE Others
  <2>1. UNCHANGED <<plant, pre, written, at>> /\ (spc' = "idle" \/ spc' = spc)
    BY <1>4 DEF Others
  <2>2. CASE spc' = "idle"
    <3>1. Gathered'
      BY <2>1, <2>2, NoneGathered
    <3>. QED  BY <1>1, <1>2, <2>1, <3>1 DEF PointsInv
  <2>. QED  BY <1>3, <2>1, <2>2
<1>5. CASE SceptreConfigure
  BY <1>3, <1>5 DEF SceptreConfigure
<1>6. CASE SceptreStart
  <2>1. UNCHANGED <<plant, pre, written>> /\ spc' = "provider" /\ at' = 1
    BY <1>6, PartsList DEF SceptreStart
  <2>2. Gathered'
    BY <2>1, NoneGathered
  <2>. QED  BY <1>1, <1>2, <2>1, <2>2 DEF PointsInv
<1>7. CASE PrepareProvider \/ PrepareServer \/ PrepareFederate \/ PrepareClient
             \/ PrepareOpc \/ PrepareScada \/ PrepareOther \/ PrepareHistorian
  <2>1. InStage /\ UNCHANGED <<plant, spc>> /\ at' = at + 1
    BY <1>7, HostStep DEF PointsInv
  <2>2. /\ Contents' /\ WrittenGrows
        /\ \A part, h : part = spc /\ h = Here => Has(part, h)'
    BY <1>7, ServerWritten, ReaderWritten, HistorianWritten, OtherWritten
  <2>3. Gathered'
    BY <2>1, <2>2, HostGathered
  <2>. QED  BY <1>1, <2>2, <2>3 DEF PointsInv
<1>8. CASE NextStage
  BY <1>1, <1>8, StageWritten DEF PointsInv
<1>9. CASE SceptreEnd
  <2>1. /\ spc = "historian" /\ InStage /\ at > Len(Handled)
        /\ UNCHANGED <<plant, written>> /\ spc' = "done" /\ pre' = NoProcess
    BY <1>9, PartsList DEF SceptreEnd, InStage
  <2>2. pre' = [configs |-> pre'.configs, last |-> pre'.last] /\ DOMAIN pre'.configs = {}
    BY <2>1 DEF NoProcess
  <2>3. Contents'
    BY <2>1, <2>2, NothingWritten DEF PointsInv
  <2>4. \A part \in Range(Parts) : Behind(part)' => Behind(part) \/ part = spc
    BY <2>1, NoneBehind
  <2>5. WrittenGrows
    <3>1. ~InStage'
      BY <2>1, PartsList DEF InStage
    <3>. QED  BY <2>1, <3>1 DEF WrittenGrows
  <2>6. Gathered'
    BY <2>1, <2>4, <2>5, PartGathered
  <2>. QED  BY <1>1, <2>3, <2>6 DEF PointsInv
<1>10. CASE SceptreFail
  <2>1. UNCHANGED <<plant, written>> /\ spc' = "idle" /\ pre' = NoProcess
    BY <1>10 DEF SceptreFail
  <2>2. pre' = [configs |-> pre'.configs, last |-> pre'.last] /\ DOMAIN pre'.configs = {}
    BY <2>1 DEF NoProcess
  <2>3. Contents'
    BY <2>1, <2>2, NothingWritten DEF PointsInv
  <2>4. Gathered'
    BY <2>1, NoneGathered
  <2>. QED  BY <1>1, <2>3, <2>4 DEF PointsInv
<1>11. CASE UNCHANGED everything
  BY <1>3, <1>11 DEF everything, scVars
<1>. QED  BY <1>4, <1>5, <1>6, <1>7, <1>8, <1>9, <1>10, <1>11 DEF SceptreNext

LEMMA PointsInit ==
  ASSUME SceptreInit, PlantOf(plant)
  PROVE  PointsInv
<1>1. FilesInv
  BY FilesInit
<1>2. /\ pre = [configs |-> <<>>, last |-> <<>>] /\ spc = "idle"
      /\ written = [servers |-> <<>>, clients |-> <<>>, opcs |-> <<>>, historians |-> <<>>,
                    addrs |-> {}, federates |-> <<>>]
  BY DEF SceptreInit, NoProcess, Nothing
<1>3. Contents
  BY <1>2 DEF Contents
<1>4. (\A part : ~Behind(part)) /\ "idle" \notin Range(Parts)
  BY <1>2, NoneBehind, PartsList
<1>5. Gathered
  BY <1>2, <1>4 DEF Gathered
<1>. QED  BY <1>1, <1>3, <1>5 DEF PointsInv

----------------------------------------------------------------------------
(* The points of the plant                                                 *)

LEMMA ServerThere ==
  ASSUME PointsInv, PlantOf(plant), Addressable(plant), spc = "done", NEW x \in FieldServers
  PROVE  /\ HostOf(x).name = x
         /\ written.servers[x] = ServerFile(FieldDeviceConfig(HostOf(x)))
         /\ Sound(HostOf(x)) => \E q : Measured(HostOf(x), q)
<1>1. PICK i \in Typed("fd-server") : plant.hosts[i].name = x
  BY DEF FieldServers
<1>2. i \in DOMAIN plant.hosts
  BY DEF Typed
<1>3. HostOf(x) = plant.hosts[i]
  <2>1. plant.hosts[i] \in Range(plant.hosts)
    BY <1>2 DEF Range
  <2>2. \A y \in Range(plant.hosts) : y.name = x => y = plant.hosts[i]
    BY <1>1, <1>2 DEF Range, PlantOf
  <2>. QED  BY <1>1, <2>1, <2>2 DEF HostOf
<1>4. "fd-server" \in Range(Parts) \ {"federate"} /\ Behind("fd-server")
  BY PartsList DEF Behind
<1>5. x \in DOMAIN written.servers
  BY <1>1, <1>4, TypeGathered DEF PointsInv, Has
<1>6. Valid(HostOf(x)) /\ written.servers[x] = ServerFile(ConfigOf(x))
  BY <1>5 DEF PointsInv, Contents
<1>7. Sound(HostOf(x)) => \E q : Measured(HostOf(x), q)
  BY <1>3, <1>6, SoundMeasured
<1>. QED  BY <1>1, <1>3, <1>6, <1>7 DEF ConfigOf

\* A config is that of the host of its name.
LEMMA ConfigNamed ==
  ASSUME PlantOf(plant), NEW d \in AllConfigs
  PROVE  d.name \in FieldServers /\ d = FieldDeviceConfig(HostOf(d.name))
<1>1. PICK x \in FieldServers : d = FieldDeviceConfig(HostOf(x))
  BY DEF AllConfigs, ConfigOf
<1>2. PICK i \in Typed("fd-server") : plant.hosts[i].name = x
  BY DEF FieldServers
<1>3. \E y \in Range(plant.hosts) : y.name = x
  BY <1>2 DEF Range, Typed
<1>4. HostOf(x).name = x
  BY <1>3 DEF HostOf
<1>5. d.name = x
  BY <1>1, <1>4 DEF FieldDeviceConfig
<1>. QED  BY <1>1, <1>5

LEMMA WatchedConfigs ==
  \A h : NamedBy(h) \subseteq AllConfigs /\ Watched(h) \subseteq AllConfigs
BY DEF NamedBy, Watched, AllConfigs

LEMMA TagNamed ==
  ASSUME PointsInv, PlantOf(plant), Addressable(plant), spc = "done",
         NEW cs, cs \subseteq AllConfigs, NEW t \in Tags(cs)
  PROVE  NameRight(t)
<1>. SUFFICES ASSUME Sound(HostOf(t.host)) PROVE Reads(t) = {<<t.host, t.point>>}
  BY DEF NameRight
<1> DEFINE h == HostOf(t.host)
<1>1. t.host \in FieldServers
  <2>1. PICK d \in cs : t.host = d.name
    BY DEF Tags
  <2>. QED  BY <2>1, ConfigNamed
<1>2. h.name = t.host /\ written.servers[h.name] = ServerFile(FieldDeviceConfig(h))
  BY <1>1, ServerThere
<1>3. PICK q : Measured(h, q)
  BY <1>1, ServerThere
<1>4. \A d \in cs : d.name = h.name => d = FieldDeviceConfig(h)
  BY <1>2, ConfigNamed
<1> HIDE DEF h
<1>. QED  BY <1>2, <1>3, <1>4, TagsRight

LEMMA PointSeen ==
  ASSUME PointsInv, PlantOf(plant), Addressable(plant), spc = "done",
         NEW i \in Typed("opc"), plant.hosts[i].all,
         NEW j \in Typed("fd-server"), Sound(plant.hosts[j])
  PROVE  SeenOnce(plant.hosts[j], written.opcs[plant.hosts[i].name])
<1> DEFINE o == plant.hosts[i]
           h == plant.hosts[j]
<1>1. HostOf(o.name) = o /\ HostOf(h.name) = h
  <2>1. o \in Range(plant.hosts) /\ h \in Range(plant.hosts)
    BY DEF Typed, Range
  <2>2. \A y \in Range(plant.hosts) : (y.name = o.name => y = o) /\ (y.name = h.name => y = h)
    BY DEF Range, PlantOf, Typed
  <2>. QED  BY <2>1, <2>2 DEF HostOf
<1>2. o.name \in DOMAIN written.opcs
  <2>1. "opc" \in Range(Parts) \ {"federate"} /\ Behind("opc")
    BY PartsList DEF Behind
  <2>. QED  BY <2>1, TypeGathered DEF PointsInv, Has
<1>3. written.opcs[o.name] = Tags(AllConfigs)
  BY <1>1, <1>2 DEF PointsInv, Contents, Watched
<1>4. h.name \in FieldServers
  BY DEF FieldServers
<1>5. FieldDeviceConfig(h) \in AllConfigs
  BY <1>1, <1>4 DEF AllConfigs, ConfigOf
<1>6. written.servers[h.name] = ServerFile(FieldDeviceConfig(h)) /\ \E q : Measured(h, q)
  BY <1>1, <1>4, ServerThere
<1>7. \A d \in AllConfigs : d.name = h.name => d = FieldDeviceConfig(h)
  BY <1>1, ConfigNamed
<1>8. PICK q : Measured(h, q)
  BY <1>6
<1> HIDE DEF h
<1>9. SeenOnce(h, Tags(AllConfigs))
  BY <1>5, <1>6, <1>7, <1>8, SeenRight
<1>. QED  BY <1>3, <1>9 DEF h

LEMMA ClientRight ==
  ASSUME PointsInv, PlantOf(plant), Addressable(plant), spc = "done",
         NEW c \in DOMAIN written.clients, NEW t \in written.clients[c],
         NEW v \in written.clients[c], Sound(HostOf(t.host))
  PROVE  Cardinality(Reads(t)) = 1 /\ (t.tag = v.tag <=> Reads(t) = Reads(v))
<1> DEFINE cs == NamedBy(HostOf(c))
           h == HostOf(t.host)
<1>1. written.clients[c] = ClientFile(cs)
  BY DEF PointsInv, Contents
<1>2. cs \subseteq AllConfigs
  BY WatchedConfigs
<1> HIDE DEF cs
<1>3. t.host \in FieldServers
  <2>0. ClientFile(cs) \subseteq
          UNION {{ClientTag(d, ByProtocol(d), i) : i \in DOMAIN ByProtocol(d)} : d \in cs}
    BY DEF ClientFile, ClientTag
  <2>1. PICK d \in cs : \E i \in DOMAIN ByProtocol(d) : t = ClientTag(d, ByProtocol(d), i)
    BY <1>1, <2>0
  <2>2. t.host = d.name
    BY <2>1 DEF ClientTag
  <2>. QED  BY <1>2, <2>2, ConfigNamed
<1>4. h.name = t.host /\ written.servers[h.name] = ServerFile(FieldDeviceConfig(h))
  BY <1>3, ServerThere
<1>5. PICK q : Measured(h, q)
  BY <1>3, ServerThere
<1>6. \A d \in cs : d.name = h.name => d = FieldDeviceConfig(h)
  BY <1>2, <1>4, ConfigNamed
<1>7. t \in ClientFile(cs) /\ v \in ClientFile(cs) /\ t.host = h.name
  BY <1>1, <1>4
<1> HIDE DEF h
<1>. QED  BY <1>4, <1>5, <1>6, <1>7, ClientsRight

LEMMA HistorianRight ==
  ASSUME PointsInv, PlantOf(plant), spc = "done", NEW i \in Typed("historian"),
         Near(plant.hosts[i], TRUE) # <<>>,
         written.historians[plant.hosts[i].name].tags # {}
  PROVE  LET h == plant.hosts[i]
             f == written.historians[h.name]
         IN  \E o \in Range(f.opc) : HostOf(o).net = h.net /\ f.tags = written.opcs[o]
<1> DEFINE h == plant.hosts[i]
           f == written.historians[h.name]
           o == Near(h, TRUE)[1]
<1>1. HostOf(h.name) = h
  <2>1. h \in Range(plant.hosts)
    BY DEF Typed, Range
  <2>2. \A y \in Range(plant.hosts) : y.name = h.name => y = h
    BY DEF Range, PlantOf, Typed
  <2>. QED  BY <2>1, <2>2 DEF HostOf
<1>2. h.name \in DOMAIN written.historians
  <2>1. "historian" \in Range(Parts) \ {"federate"} /\ Behind("historian")
    BY PartsList DEF Behind
  <2>. QED  BY <2>1, TypeGathered DEF PointsInv, Has
<1>3. f.opc = <<o.name>> /\ f.tags = Tags(Watched(o))
  <2>1. Recorded(h, f)
    BY <1>1, <1>2 DEF PointsInv, Contents
  <2>. QED  BY <2>1 DEF Recorded
<1>4. written.opcs[o.name] = Tags(Watched(o)) /\ HostOf(o.name).net = h.net
  BY NearWritten
<1>5. o.name \in Range(f.opc)
  <2>1. \A a : a \in Range(<<a>>)
    <3>1. \A a : 1 \in DOMAIN <<a>> /\ <<a>>[1] = a
      OBVIOUS
    <3>. QED  BY <3>1 DEF Range
  <2>. HIDE DEF o, f
  <2>. QED  BY <1>3, <2>1
<1>. QED  BY <1>3, <1>4, <1>5

LEMMA FederateRight ==
  ASSUME PointsInv, NEW a \in DOMAIN written.federates, NEW x \in written.federates[a].subs,
         x[1] \in DOMAIN written.federates, FederateName(HostOf(x[1])) = x[1],
         HostOf(x[1]).simulator # "Helics"
  PROVE  x \in written.federates[x[1]].pubs
<1> DEFINE regs == UNION {UNION {{<<c.provider, r>> : r \in Regs(c, q)}
                                 : q \in DOMAIN c.regs} : c \in AllConfigs}
<1>1. \A f \in DOMAIN written.federates :
        written.federates[f] = FederateFile(HostOf(f), AllConfigs)
  BY DEF PointsInv, Contents
<1>2. \A h : FederateFile(h, AllConfigs) =
        IF h.simulator = "Helics"
        THEN [subs |-> {<<y[1], y[2].point>> : y \in {z \in regs : IsInput(z[2].kind)}},
              pubs |-> {}]
        ELSE [subs |-> {},
              pubs |-> {<<y[1], y[2].point>> : y \in {z \in regs : z[1] = FederateName(h)}}]
  BY DEF FederateFile
<1> HIDE DEF regs
<1>3. PICK y \in regs : x = <<y[1], y[2].point>>
  <2>1. HostOf(a).simulator = "Helics"
    BY <1>1, <1>2
  <2>. QED  BY <1>1, <1>2, <2>1
<1>4. y[1] = x[1]
  BY <1>3
<1>5. written.federates[x[1]].pubs =
        {<<z[1], z[2].point>> : z \in {u \in regs : u[1] = x[1]}}
  BY <1>1, <1>2
<1>. QED  BY <1>3, <1>4, <1>5

LEMMA PointsImply ==
  ASSUME PointsInv, PlantOf(plant), Addressable(plant)
  PROVE  PointsReached
<1>. SUFFICES ASSUME spc = "done"
              PROVE  PointsReached
  BY DEF PointsReached
<1>1. \A o \in DOMAIN written.opcs : \A t \in written.opcs[o] : NameRight(t)
  <2>1. \A o \in DOMAIN written.opcs : written.opcs[o] = Tags(Watched(HostOf(o)))
    BY DEF PointsInv, Contents
  <2>. QED  BY <2>1, WatchedConfigs, TagNamed
<1>2. \A t \in written.addrs : NameRight(t)
  <2>1. \A t \in written.addrs : t \in Tags(AllConfigs)
    BY DEF PointsInv, Contents
  <2>. QED  BY <2>1, TagNamed
<1>3. \A type : \A h \in Range(OfType(type)) : \E i \in Typed(type) : h = plant.hosts[i]
  <2>. TAKE type
  <2>1. Typed(type) \in SUBSET DOMAIN plant.hosts
    BY DEF Typed
  <2>2. \A m \in DOMAIN OfType(type) : \E i \in Typed(type) : OfType(type)[m] = plant.hosts[i]
    BY <2>1, PickedAll DEF OfType
  <2>. QED  BY <2>2 DEF Range
<1>4. \A o \in {h \in Range(OfType("opc")) : h.all} :
        \A s \in {h \in Range(OfType("fd-server")) : Sound(h)} :
          SeenOnce(s, written.opcs[o.name])
  BY <1>3, PointSeen
<1>5. \A c \in DOMAIN written.clients : \A t, u \in written.clients[c] :
        Sound(HostOf(t.host)) =>
          /\ Cardinality(Reads(t)) = 1
          /\ t.tag = u.tag <=> Reads(t) = Reads(u)
  BY ClientRight
<1>6. \A h \in Range(OfType("historian")) :
        LET f == written.historians[h.name]
        IN  Near(h, TRUE) # <<>> /\ f.tags # {} =>
              \E o \in Range(f.opc) : HostOf(o).net = h.net /\ f.tags = written.opcs[o]
  <2>. TAKE h \in Range(OfType("historian"))
  <2>1. PICK i \in Typed("historian") : h = plant.hosts[i]
    BY <1>3
  <2>. QED  BY <2>1, HistorianRight
<1>7. \A f \in DOMAIN written.federates : \A x \in written.federates[f].subs :
        x[1] \in DOMAIN written.federates
          /\ FederateName(HostOf(x[1])) = x[1] /\ HostOf(x[1]).simulator # "Helics"
        => x \in written.federates[x[1]].pubs
  BY FederateRight
<1>. QED  BY <1>1, <1>2, <1>4, <1>5, <1>6, <1>7 DEF PointsReached

\* A plant stays one whose registers can be told apart.
LEMMA AddressableHolds ==
  ASSUME \A x \in Plants : Addressable(x[2])
  PROVE  SceptreSpec => []Addressable(plant)
<1>1. SceptreInit => Addressable(plant)
  BY DEF SceptreInit
<1>2. Addressable(plant) /\ [SceptreNext]_everything => Addressable(plant)'
  BY SceptreSteps DEF Addressable
<1>. QED  BY <1>1, <1>2, PTL DEF SceptreSpec

\* Whatever plant of which the registers can be told apart, and however often the
\* stages run or fail: when pre-start has ended, a name in a file leads to the
\* point of the server that it has been given to, as PointsReached says.
THEOREM PointsReachedHolds ==
  ASSUME \A x \in Plants : Addressable(x[2])
  PROVE  SceptreSpec => []PointsReached
<1>1. SceptreSpec => []PlantOf(plant)
  BY PlantHolds
<1>2. SceptreSpec => []Addressable(plant)
  BY AddressableHolds
<1>3. SceptreInit /\ PlantOf(plant) => PointsInv
  BY PointsInit
<1>4. PointsInv /\ PlantOf(plant) /\ [SceptreNext]_everything => PointsInv'
  BY PointsNext
<1>5. SceptreSpec => []PointsInv
  BY <1>1, <1>3, <1>4, PTL DEF SceptreSpec
<1>6. PointsInv /\ PlantOf(plant) /\ Addressable(plant) => PointsReached
  BY PointsImply
<1>. QED  BY <1>1, <1>2, <1>5, <1>6, PTL
=============================================================================
