---------------------------- MODULE ScaleProofs ----------------------------
(***************************************************************************)
(* Proofs about Scale, for any profiles.  First what the arithmetic of the *)
(* two plugins adds up to; then the stages: what of it is on disk, in the  *)
(* VMs and in the process when a stage has done some of the nodes (Before),*)
(* of which the promises about containers, their addresses and their       *)
(* configs are consequences; last, what configuring again may change       *)
(* (Control, Again).                                                       *)
(***************************************************************************)
EXTENDS Scale, Integers, FiniteSetTheorems, TLAPS

Density(q) ==
  /\ q.perNode \in Nat \ {0}
  /\ IF Wind(q) THEN q.count \in Nat \ {0} ELSE q.containers \in Nat \ {0}

\* Ceil(a, b) is the least number of bs that covers a.
LEMMA CeilBounds ==
  ASSUME NEW a \in Nat \ {0}, NEW b \in Nat \ {0}
  PROVE  /\ Ceil(a, b) \in Nat \ {0}
         /\ Ceil(a, b) * b >= a
         /\ (Ceil(a, b) - 1) * b < a
<1> DEFINE c == Ceil(a, b)
           s == a + b - 1
           r == s % b
<1>1. s \in Nat /\ s >= b
  OBVIOUS
<1>2. c \in Int /\ r \in 0..(b - 1) /\ s = b * c + r
  BY <1>1, SMT DEF Ceil
<1> HIDE DEF c, r
<1>3. b * c > s - b
  BY <1>1, <1>2
<1>4. b * c >= a
  BY <1>3, <1>1, <1>2 DEF s
<1>5. c > 0
  BY <1>2, <1>4, SMT
<1>6. b * (c - 1) = b * c - b
  BY <1>2, SMT
<1>7. b * (c - 1) < a
  BY <1>1, <1>2, <1>6 DEF s
<1>8. QED
  BY <1>2, <1>4, <1>5, <1>7, SMT DEF c

LEMMA SixComponents == Cardinality(Components) = 6
<1>1. 0 \in Int /\ 5 \in Int
  OBVIOUS
<1>2. Cardinality(0..5) = IF 0 > 5 THEN 0 ELSE 5 - 0 + 1
  BY <1>1, FS_Interval, Zenon
<1>3. QED
  BY <1>2 DEF Components

\* Products with a larger factor are larger.
LEMMA Monotone ==
  ASSUME NEW a \in Int, NEW b \in Int, NEW m \in Nat, a <= b
  PROVE  a * m <= b * m
<1>1. (b - a) * m >= 0
  BY SMT
<1>2. (b - a) * m = b * m - a * m
  BY SMT
<1>3. QED
  BY <1>1, <1>2, SMT

\* Between two multiples of b, a % b is what a has beyond the first.
LEMMA Remainder ==
  ASSUME NEW a \in Nat, NEW b \in Nat \ {0}, NEW c \in Nat,
         c * b < a, a < (c + 1) * b
  PROVE  a % b = a - c * b
<1> DEFINE d == a \div b
           r == a % b
<1>1. d \in Int /\ r \in 0..(b - 1) /\ a = d * b + r
  BY SMT
<1> HIDE DEF d, r
<1>2. d < c + 1
  <2> SUFFICES ASSUME c + 1 <= d PROVE FALSE
    BY <1>1, SMT
  <2>1. (c + 1) * b <= d * b
    BY <1>1, Monotone, SMT
  <2>2. QED
    BY <1>1, <2>1, SMT
<1>3. c < d + 1
  <2> SUFFICES ASSUME d + 1 <= c PROVE FALSE
    BY <1>1, SMT
  <2>1. (d + 1) * b <= c * b
    BY <1>1, Monotone, SMT
  <2>2. (d + 1) * b = d * b + b
    BY <1>1, SMT
  <2>3. QED
    BY <1>1, <2>1, <2>2, SMT
<1>4. d = c
  BY <1>1, <1>2, <1>3, SMT
<1>5. QED
  BY <1>1, <1>4, SMT DEF r

\* Both plugins give the nodes consecutive blocks of the containers: node i
\* starts where node i - 1 stops, has a container and no more than the density,
\* and the last node stops at the total (get_node_count, get_container_count).
THEOREM Shares ==
  ASSUME NEW q, Density(q), NEW i \in 1..NodeCount(q)
  PROVE  /\ ContainerCount(q, i) \in 1..q.perNode
         /\ (i - 1) * q.perNode + ContainerCount(q, i) =
              IF i = NodeCount(q) THEN Total(q) ELSE i * q.perNode
<1> DEFINE m == q.perNode
           t == Total(q)
           k == NodeCount(q)
<1>1. m \in Nat \ {0} /\ t \in Nat \ {0}
  BY SixComponents DEF Density, Total
<1>2. Packed(q) /\ k = Ceil(t, m)
  BY <1>1 DEF Density, Packed, NodeCount
<1>3. k \in Nat \ {0} /\ k * m >= t /\ (k - 1) * m < t
  BY <1>1, <1>2, CeilBounds
<1>4. i \in Nat \ {0} /\ i <= k
  BY <1>3
<1>5. i * m = (i - 1) * m + m
  BY <1>1, <1>4, SMT
<1>6. i # k => i * m <= (k - 1) * m
  BY <1>1, <1>3, <1>4, Monotone, SMT
<1>7. CASE ~Wind(q)
  <2>1. ContainerCount(q, i) = IF i = k THEN t - (k - 1) * m ELSE m
    BY <1>2, <1>7 DEF ContainerCount, BuiltinCount
  <2> HIDE DEF m, t, k
  <2>2. ContainerCount(q, i) \in 1..m
    BY <2>1, <1>1, <1>3, <1>4, <1>5, SMT
  <2>3. (i - 1) * m + ContainerCount(q, i) = IF i = k THEN t ELSE i * m
    BY <2>1, <1>1, <1>3, <1>4, <1>5, SMT
  <2>4. QED
    BY <2>2, <2>3 DEF m, t, k
<1>8. CASE Wind(q)
  <2>1. ContainerCount(q, i) =
          IF i * m <= t THEN m ELSE IF i = k THEN t % m ELSE 0
    BY <1>2, <1>8 DEF ContainerCount, WindCount
  <2> HIDE DEF m, t, k
  <2>2. i # k => i * m <= t
    BY <1>1, <1>3, <1>4, <1>6, SMT
  <2>3. i = k /\ i * m <= t => i * m = t
    BY <1>1, <1>3, SMT
  <2>4. i = k /\ ~(i * m <= t) => t % m = t - (i - 1) * m
    <3> SUFFICES ASSUME i = k, ~(i * m <= t) PROVE t % m = t - (i - 1) * m
      OBVIOUS
    <3> DEFINE c == i - 1
    <3>1. c \in Nat /\ c * m < t /\ t < (c + 1) * m
      BY <1>1, <1>3, <1>4, <1>5, SMT
    <3> HIDE DEF c
    <3>2. t % m = t - c * m
      BY <3>1, <1>1, Remainder, Zenon
    <3>3. QED
      BY <3>2 DEF c
  <2>5. ContainerCount(q, i) \in 1..m
    BY <2>1, <2>2, <2>4, <1>1, <1>3, <1>4, <1>5, SMT
  <2>6. (i - 1) * m + ContainerCount(q, i) = IF i = k THEN t ELSE i * m
    BY <2>1, <2>2, <2>3, <2>4, <1>1, <1>3, <1>4, <1>5, SMT
  <2>7. QED
    BY <2>5, <2>6 DEF m, t, k
<1>9. QED
  BY <1>7, <1>8

----------------------------------------------------------------------------
(* The stages *)

\* Node i of profile l is one the stage has done.
Before(l, i) == l < p \/ (l = p /\ i < n)

\* Where the stages are, and what the state of the experiment says of them.
Control ==
  /\ profiles \in Scenarios /\ configured \in BOOLEAN /\ up \in BOOLEAN
  /\ pc \in {"idle", "configure", "post", "send"}
  /\ post \in {"no", "started", "done"}
  /\ n \in Nat /\ p \in Nat /\ (pc # "idle" => p \in 1..(Len(profiles) + 1))
  /\ pc = "configure" => ~up
  /\ pc \in {"post", "send"} => up /\ post = "started"
  /\ pc = "send" => AtNode
  /\ up => configured /\ image = tgz
  /\ ~up => DOMAIN running = {} /\ sent = {} /\ post = "no"

\* The script f is one for node i of q.
Fits(f, q, i) ==
  /\ DOMAIN f = 1..ContainerCount(q, i)
  /\ \A j \in DOMAIN f :
       f[j].part = IF Wind(q) THEN Part(q, i, j) ELSE [turbine |-> 0, component |-> 0]

\* Every script, on disk or read in a VM, is one for a node of its host name.
FromProfiles(fs) ==
  \A h \in DOMAIN fs : \E l \in DOMAIN profiles :
    \E i \in 1..NodeCount(profiles[l]) :
      h = Hostname(profiles[l], i) /\ Fits(fs[h], profiles[l], i)
Scripts ==
  /\ FromProfiles(files) /\ FromProfiles(running)
  /\ \A v \in sent : v[2] \in DOMAIN files
  /\ pc = "send" => Hostname(profiles[p], n) \in DOMAIN files

\* The configs of a node are in f: each is there, and it is whole.
HasConfigs(f, q, i) ==
  Wind(q) => \A j \in 1..WindCount(q, i) :
    /\ <<Hostname(q, i), j>> \in DOMAIN f
    /\ f[<<Hostname(q, i), j>>] = Part(q, i, j)

\* Each is there, and it may be cut off.
KeepsConfigs(f, q, i) ==
  Wind(q) => \A j \in 1..WindCount(q, i) :
    /\ <<Hostname(q, i), j>> \in DOMAIN f
    /\ f[<<Hostname(q, i), j>>] \in {Part(q, i, j), Torn}

\* The nodes that are done have the configs of their components, on disk and in
\* the archive; so have all others when a stage has ended well, until one dies as
\* it writes.
Ready(l, i) == (configured /\ ~cut) \/ (pc = "configure" /\ Before(l, i))
Whole(l, i) ==
  HasConfigs(configs, profiles[l], i) /\ HasConfigs(tgz, profiles[l], i)
Kept(l, i) ==
  KeepsConfigs(configs, profiles[l], i) /\ KeepsConfigs(tgz, profiles[l], i)
Configured ==
  OwnHosts =>
    \A l \in DOMAIN profiles : \A i \in 1..NodeCount(profiles[l]) :
      (Ready(l, i) => Whole(l, i)) /\ (configured => Kept(l, i))

\* Addresses on the networks of node i: each node before took its share.
Share(q) == IF Packed(q) THEN q.perNode ELSE 0
Starts(q, i) ==
  [m \in DOMAIN NetInfo(q) |-> NetInfo(q)[m].address + (i - 1) * Share(q)]

\* The nodes that are done have their scripts, and the process has the first
\* addresses of the node it is at.
HasScript(q, i) ==
  /\ Hostname(q, i) \in DOMAIN files
  /\ files[Hostname(q, i)] = Script(q, i, Starts(q, i))
Written(l, i) ==
  \/ post = "done"
  \/ pc \in {"post", "send"} /\ Before(l, i)
  \/ pc = "send" /\ l = p /\ i = n
Posted ==
  /\ OwnHosts =>
       \A l \in DOMAIN profiles : \A i \in 1..NodeCount(profiles[l]) :
         Written(l, i) => HasScript(profiles[l], i)
  /\ pc \in {"post", "send"} /\ AtNode => addr = Starts(profiles[p], n)

ScaleInv == Control /\ Scripts /\ Configured /\ Posted

LEMMA CeilNat ==
  ASSUME NEW a \in Nat, NEW b \in Nat \ {0}
  PROVE  Ceil(a, b) \in Nat
<1>1. CASE a # 0
  BY <1>1, CeilBounds
<1>2. CASE a = 0
  <2> DEFINE d == (b - 1) \div b
             r == (b - 1) % b
  <2>1. d \in Int /\ r \in 0..(b - 1) /\ b - 1 = d * b + r
    BY SMT
  <2> HIDE DEF d, r
  <2>2. d >= 0
    <3> SUFFICES ASSUME d + 1 <= 0 PROVE FALSE
      BY <2>1
    <3>1. (d + 1) * b <= 0 * b
      BY <2>1, Monotone
    <3>2. (d + 1) * b = d * b + b
      BY <2>1, SMT
    <3>3. QED
      BY <2>1, <3>1, <3>2
  <2>3. Ceil(a, b) = d
    BY <1>2 DEF Ceil, d
  <2>4. QED
    BY <2>1, <2>2, <2>3
<1>3. QED
  BY <1>1, <1>2

\* The profiles of the metadata are numbered, and ask for numbers.
LEMMA ProfileNumbers ==
  ASSUME profiles \in Scenarios
  PROVE  /\ Len(profiles) \in Nat /\ DOMAIN profiles = 1..Len(profiles)
         /\ \A l \in DOMAIN profiles :
              /\ profiles[l].count \in Nat /\ profiles[l].containers \in Nat
              /\ profiles[l].perNode \in Nat
              /\ \A m \in DOMAIN NetInfo(profiles[l]) :
                   NetInfo(profiles[l])[m].address \in Nat
              /\ Total(profiles[l]) \in Nat
              /\ NodeCount(profiles[l]) \in Nat
              /\ Share(profiles[l]) \in Nat
<1>1. /\ Len(profiles) \in Nat /\ DOMAIN profiles = 1..Len(profiles)
      /\ \A l \in DOMAIN profiles :
           /\ profiles[l].count \in Nat /\ profiles[l].containers \in Nat
           /\ profiles[l].perNode \in Nat
           /\ \A m \in DOMAIN NetInfo(profiles[l]) :
                NetInfo(profiles[l])[m].address \in Nat
  BY ScaleAssumption, Zenon DEF ScaleAssumption
<1>2. ASSUME NEW l \in DOMAIN profiles
      PROVE  /\ Total(profiles[l]) \in Nat /\ NodeCount(profiles[l]) \in Nat
             /\ Share(profiles[l]) \in Nat
  <2> DEFINE q == profiles[l]
  <2>1. q.count \in Nat /\ q.containers \in Nat /\ q.perNode \in Nat
    BY <1>1
  <2> HIDE DEF q
  <2>2. Total(q) \in Nat
    BY <2>1, SixComponents DEF Total
  <2>3. Packed(q) => q.perNode \in Nat \ {0}
    BY <2>1 DEF Packed
  <2>4. NodeCount(q) \in Nat
    BY <2>1, <2>2, <2>3, CeilNat DEF NodeCount
  <2>5. QED
    BY <2>1, <2>2, <2>4 DEF Share, q
<1>3. QED
  BY <1>1, <1>2

\* When the profiles have host names of their own, a host name is the one of one
\* node.
LEMMA OwnNode ==
  ASSUME OwnHosts, NEW l \in DOMAIN profiles, NEW m \in DOMAIN profiles,
         NEW i \in 1..NodeCount(profiles[l]), NEW j \in 1..NodeCount(profiles[m]),
         Hostname(profiles[l], i) = Hostname(profiles[m], j)
  PROVE  l = m /\ i = j
<1>1. /\ Hostname(profiles[l], i) \in Hosts(profiles[l])
      /\ Hostname(profiles[m], j) \in Hosts(profiles[m])
  BY DEF Hosts
<1>2. l = m
  BY <1>1 DEF OwnHosts
<1>3. i = j
  BY <1>2 DEF Hostname
<1>4. QED
  BY <1>2, <1>3

\* A stage is at a node of the metadata.
LEMMA AtProfile ==
  ASSUME Control
  PROVE  /\ Stages => p \in DOMAIN profiles
         /\ AtNode => p \in DOMAIN profiles /\ n \in 1..NodeCount(profiles[p])
<1>1. Stages => p \in DOMAIN profiles
  BY ProfileNumbers DEF Control, Stages
<1>2. QED
  BY <1>1, ProfileNumbers DEF AtNode, Control

LEMMA InitInv == Init => ScaleInv
<1> SUFFICES ASSUME Init PROVE ScaleInv
  OBVIOUS
<1> USE DEF Init
<1>1. DOMAIN files = {} /\ DOMAIN running = {} /\ DOMAIN configs = {}
  OBVIOUS
<1>2. Control
  BY <1>1 DEF Control
<1>3. Scripts
  BY <1>1 DEF Scripts, FromProfiles
<1>4. Configured
  BY DEF Configured, Ready
<1>5. Posted
  BY DEF Posted, Written
<1>6. QED
  BY <1>2, <1>3, <1>4, <1>5 DEF ScaleInv

LEMMA ControlStep ==
  ASSUME Control, [Next]_vars
  PROVE  Control'
<1> USE DEF Control, process, disk, cluster
<1>0. /\ Len(profiles) \in Nat /\ DOMAIN profiles = 1..Len(profiles)
      /\ profiles \in Scenarios
  BY ProfileNumbers
<1>1. CASE ConfigureStart
  BY <1>0, <1>1 DEF ConfigureStart
<1>2. CASE ConfigureProfile
  BY <1>0, <1>2 DEF ConfigureProfile, Stages
<1>3. CASE InvalidProfile
  BY <1>0, <1>3 DEF InvalidProfile, Stages
<1>4. CASE ConfigureNode
  BY <1>0, <1>4 DEF ConfigureNode, AtNode, Stages
<1>5. CASE NextProfile
  <2>1. Stages /\ n > NodeCount(profiles[p]) /\ p' = p + 1 /\ n' = 0
        /\ UNCHANGED <<profiles, pc, configured, disk, cluster>>
    BY <1>5 DEF NextProfile
  <2>2. p \in DOMAIN profiles /\ NodeCount(profiles[p]) \in Nat
    BY <1>0, <2>1, AtProfile, ProfileNumbers
  <2>3. pc # "send"
    BY <2>1, <2>2 DEF AtNode
  <2>4. p' \in 1..(Len(profiles) + 1) /\ p' \in Nat /\ n' \in Nat
    BY <1>0, <2>1, <2>2
  <2>5. QED
    BY <2>1, <2>3, <2>4
<1>6. CASE ConfigureEnd
  BY <1>0, <1>6 DEF ConfigureEnd
<1>7. CASE PostStart
  BY <1>0, <1>7 DEF PostStart
<1>8. CASE PostProfile
  BY <1>0, <1>8 DEF PostProfile, Stages
<1>9. CASE WriteScript
  BY <1>0, <1>9 DEF WriteScript, AtNode, Stages
<1>10. CASE SendScript
  BY <1>0, <1>10 DEF SendScript, AtNode, Stages
<1>11. CASE PostEnd
  BY <1>0, <1>11 DEF PostEnd
<1>12. CASE Die
  BY <1>0, <1>12 DEF Die
<1>13. CASE Launch
  BY <1>0, <1>13 DEF Launch, LaunchOn, AtNode, Stages
<1>14. CASE Boot
  BY <1>0, <1>14 DEF Boot
<1>15. CASE Stop
  <2>1. DOMAIN running' = {}
    BY <1>15 DEF Stop
  <2>2. QED
    BY <1>15, <2>1 DEF Stop
<1>16. CASE UNCHANGED vars
  BY <1>0, <1>16 DEF vars, AtNode, Stages
<1>17. CASE DieWriting
  BY <1>0, <1>17 DEF DieWriting
<1>18. QED
  BY <1>1, <1>2, <1>3, <1>4, <1>5, <1>6, <1>7, <1>8, <1>9, <1>10, <1>11,
     <1>12, <1>13, <1>14, <1>15, <1>16, <1>17 DEF Next, Work

\* The steps that leave the scripts and what came of them alone.
LEMMA ScriptsKept ==
  ASSUME Scripts, UNCHANGED <<profiles, files, sent, running>>, pc' # "send"
  PROVE  Scripts'
BY DEF Scripts, FromProfiles

LEMMA ScriptFits ==
  ASSUME NEW q, NEW i, NEW starts
  PROVE  Fits(Script(q, i, starts), q, i)
BY DEF Fits, Script

LEMMA ScriptsStep ==
  ASSUME Control, Scripts, [Next]_vars
  PROVE  Scripts'
<1> USE DEF process, disk, cluster
<1>1. CASE ConfigureStart \/ ConfigureProfile \/ InvalidProfile \/ ConfigureEnd
  BY <1>1, ScriptsKept
     DEF ConfigureStart, ConfigureProfile, InvalidProfile, ConfigureEnd
<1>2. CASE ConfigureNode \/ DieWriting
  BY <1>2, ScriptsKept DEF ConfigureNode, DieWriting
<1>3. CASE NextProfile
  <2>1. Stages /\ n > NodeCount(profiles[p])
        /\ UNCHANGED <<profiles, pc, disk, cluster>>
    BY <1>3 DEF NextProfile
  <2>2. n \in Nat /\ NodeCount(profiles[p]) \in Nat
    BY <2>1, AtProfile, ProfileNumbers DEF Control
  <2>3. pc # "send"
    BY <2>1, <2>2 DEF Control, AtNode
  <2>4. QED
    BY <2>1, <2>3, ScriptsKept
<1>4. CASE PostStart \/ PostProfile \/ PostEnd \/ Die
  BY <1>4, ScriptsKept DEF PostStart, PostProfile, PostEnd, Die
<1>5. CASE WriteScript
  <2> DEFINE h == Hostname(profiles[p], n)
             new == [x \in {h} |-> Script(profiles[p], n, addr)]
  <2>1. /\ files' = Over(new, files)
        /\ UNCHANGED <<profiles, p, n, sent, running>>
    BY <1>5 DEF WriteScript
  <2>2. p \in DOMAIN profiles /\ n \in 1..NodeCount(profiles[p])
    BY <1>5, AtProfile DEF WriteScript
  <2>3. DOMAIN new = {h} /\ new[h] = Script(profiles[p], n, addr)
    OBVIOUS
  <2>4. Fits(new[h], profiles[p], n)
    BY <2>3, ScriptFits
  <2>11. Hostname(profiles[p], n)' = h /\ h = Hostname(profiles[p], n)
    BY <2>1, Zenon
  <2> HIDE DEF new, h
  <2>5. /\ DOMAIN files' = {h} \cup DOMAIN files
        /\ files'[h] = new[h]
        /\ \A x \in DOMAIN files \ {h} : files'[x] = files[x]
    BY <2>1, <2>3 DEF Over
  <2>6. FromProfiles(files')
    <3> SUFFICES ASSUME NEW x \in DOMAIN files'
                 PROVE  \E l \in DOMAIN profiles : \E i \in 1..NodeCount(profiles[l]) :
                          x = Hostname(profiles[l], i) /\ Fits(files'[x], profiles[l], i)
      BY DEF FromProfiles
    <3>1. CASE x = h
      BY <2>2, <2>4, <2>5, <2>11, <3>1
    <3>2. CASE x # h
      BY <2>5, <3>2 DEF Scripts, FromProfiles
    <3>3. QED
      BY <3>1, <3>2
  <2>7. FromProfiles(files)' /\ FromProfiles(running)'
    BY <2>1, <2>6 DEF FromProfiles, Scripts
  <2>8. \A v \in sent' : v[2] \in DOMAIN files'
    BY <2>1, <2>5 DEF Scripts
  <2>9. Hostname(profiles[p], n)' \in DOMAIN files'
    BY <2>5, <2>11
  <2>10. QED
    BY <2>7, <2>8, <2>9 DEF Scripts
<1>6. CASE SendScript
  <2> DEFINE h == Hostname(profiles[p], n)
  <2>1. /\ pc = "send" /\ pc' = "post" /\ sent' = sent \cup {<<h, h>>}
        /\ UNCHANGED <<profiles, files, running>>
    BY <1>6 DEF SendScript
  <2>2. h \in DOMAIN files
    BY <2>1 DEF Scripts
  <2> HIDE DEF h
  <2>3. \A v \in sent' : v[2] \in DOMAIN files'
    BY <2>1, <2>2 DEF Scripts
  <2>4. QED
    BY <2>1, <2>3 DEF Scripts, FromProfiles
<1>7. ASSUME NEW h \in DOMAIN topo, LaunchOn(h)
      PROVE  Scripts'
  <2> DEFINE new == [x \in {h} |-> files[h]]
  <2>1. /\ <<h, h>> \in sent /\ running' = Over(new, running)
        /\ UNCHANGED <<profiles, pc, p, n, files, sent>>
    BY <1>7 DEF LaunchOn
  <2>2. h \in DOMAIN files
    <3>1. <<h, h>>[2] \in DOMAIN files
      BY <2>1 DEF Scripts
    <3>2. QED
      BY <3>1
  <2>3. DOMAIN new = {h} /\ new[h] = files[h]
    OBVIOUS
  <2> HIDE DEF new
  <2>4. /\ DOMAIN running' = {h} \cup DOMAIN running
        /\ running'[h] = files[h]
        /\ \A x \in DOMAIN running \ {h} : running'[x] = running[x]
    BY <2>1, <2>3 DEF Over
  <2>5. FromProfiles(running')
    <3> SUFFICES ASSUME NEW x \in DOMAIN running'
                 PROVE  \E l \in DOMAIN profiles : \E i \in 1..NodeCount(profiles[l]) :
                          x = Hostname(profiles[l], i) /\ Fits(running'[x], profiles[l], i)
      BY DEF FromProfiles
    <3>1. CASE x = h
      BY <2>2, <2>4, <3>1 DEF Scripts, FromProfiles
    <3>2. CASE x # h
      BY <2>4, <3>2 DEF Scripts, FromProfiles
    <3>3. QED
      BY <3>1, <3>2
  <2>6. FromProfiles(files)' /\ FromProfiles(running)'
    BY <2>1, <2>5 DEF FromProfiles, Scripts
  <2>7. QED
    <3>1. Hostname(profiles[p], n)' = Hostname(profiles[p], n)
      BY <2>1, Zenon
    <3>2. QED
      BY <2>1, <2>6, <3>1 DEF Scripts
<1>8. CASE Boot
  BY <1>8, ScriptsKept DEF Boot
<1>9. CASE Stop
  <2>1. /\ pc # "send" /\ pc' = pc /\ sent' = {} /\ DOMAIN running' = {}
        /\ UNCHANGED <<profiles, files>>
    BY <1>9 DEF Stop
  <2>2. FromProfiles(running)' /\ FromProfiles(files)'
    BY <2>1 DEF FromProfiles, Scripts
  <2>3. QED
    BY <2>1, <2>2 DEF Scripts
<1>10. CASE UNCHANGED vars
  <2>1. Hostname(profiles[p], n)' = Hostname(profiles[p], n)
    BY <1>10, Zenon DEF vars
  <2>2. QED
    BY <1>10, <2>1 DEF vars, Scripts, FromProfiles
<1>11. QED
  BY <1>1, <1>2, <1>3, <1>4, <1>5, <1>6, <1>7, <1>8, <1>9, <1>10
     DEF Next, Work, Launch

\* A stage that has not begun has done nothing, and one that has gone through all
\* profiles has done all nodes.
LEMMA BeforeSteps ==
  ASSUME Control, NEW l \in DOMAIN profiles, NEW i \in 1..NodeCount(profiles[l])
  PROVE  /\ p = 1 /\ n = 0 => ~Before(l, i)
         /\ p > Len(profiles) => Before(l, i)
         /\ Stages /\ n = 0 /\ p' = p /\ n' = 1 => (Before(l, i)' <=> Before(l, i))
         /\ Stages /\ n > NodeCount(profiles[p]) /\ p' = p + 1 /\ n' = 0 =>
              (Before(l, i)' <=> Before(l, i))
         /\ p' = p /\ n' = n + 1 =>
              (Before(l, i)' <=> Before(l, i) \/ (l = p /\ i = n))
<1>1. /\ l \in 1..Len(profiles) /\ Len(profiles) \in Nat
      /\ n \in Nat /\ p \in Nat
      /\ NodeCount(profiles[l]) \in Nat /\ i \in 1..NodeCount(profiles[l])
  BY ProfileNumbers DEF Control
<1>2. QED
  BY <1>1 DEF Before

\* Another node has another host name.
LEMMA OtherNode ==
  ASSUME Control, OwnHosts, AtNode,
         NEW l \in DOMAIN profiles, NEW i \in 1..NodeCount(profiles[l]),
         ~(l = p /\ i = n)
  PROVE  Hostname(profiles[l], i) # Hostname(profiles[p], n)
<1>1. p \in DOMAIN profiles /\ n \in 1..NodeCount(profiles[p])
  BY AtProfile
<1> QED
  BY <1>1, OwnNode

\* The configs of other nodes, and those a node has, stay as they are, or are cut
\* off when the stage dies.
LEMMA ConfiguredStep ==
  ASSUME Control, Configured, [Next]_vars
  PROVE  Configured'
<1> SUFFICES ASSUME OwnHosts,
                    NEW l \in DOMAIN profiles, NEW i \in 1..NodeCount(profiles[l])
             PROVE  /\ Ready(l, i)' => Whole(l, i)'
                    /\ configured' => Kept(l, i)'
  <2>1. profiles' = profiles
    BY DEF Next, Work, ConfigureStart, ConfigureProfile, InvalidProfile,
           ConfigureNode, NextProfile, ConfigureEnd, PostStart, PostProfile,
           WriteScript, SendScript, PostEnd, Die, DieWriting, Launch, LaunchOn,
           Boot, Stop, vars
  <2>2. OwnHosts' <=> OwnHosts
    BY <2>1, Zenon DEF OwnHosts
  <2>3. \A m : NodeCount(profiles[m])' = NodeCount(profiles[m])
    BY <2>1
  <2>4. QED
    BY <2>1, <2>2, <2>3 DEF Configured
<1> USE DEF process, disk, cluster
<1>01. (Ready(l, i) => Whole(l, i)) /\ (configured => Kept(l, i))
  BY DEF Configured
<1>02. Whole(l, i) => Kept(l, i)
  BY DEF Whole, Kept, HasConfigs, KeepsConfigs
<1>03. ASSUME UNCHANGED <<profiles, configs, tgz>>, Ready(l, i)' => Ready(l, i),
              configured' => configured \/ Ready(l, i)
       PROVE  /\ Ready(l, i)' => Whole(l, i)'
              /\ configured' => Kept(l, i)'
  <2>1. (Whole(l, i)' <=> Whole(l, i)) /\ (Kept(l, i)' <=> Kept(l, i))
    BY <1>03, Zenon DEF Whole, Kept
  <2> QED
    BY <1>01, <1>02, <1>03, <2>1
<1>1. CASE ConfigureStart
  <2>1. p' = 1 /\ n' = 0 /\ UNCHANGED <<profiles, configs, tgz, configured, cut>>
    BY <1>1 DEF ConfigureStart
  <2>2. ~Before(l, i)'
    <3>1. Control'
      BY ControlStep
    <3>2. QED
      BY <2>1, <3>1, ProfileNumbers DEF Before, Control
  <2>3. QED
    BY <1>03, <2>1, <2>2 DEF Ready
<1>2. CASE ConfigureProfile
  <2>1. Stages /\ n = 0 /\ p' = p /\ n' = 1
        /\ UNCHANGED <<profiles, configs, tgz, configured, cut, pc>>
    BY <1>2 DEF ConfigureProfile
  <2>2. QED
    BY <1>03, <2>1, BeforeSteps DEF Ready
<1>3. CASE InvalidProfile
  BY <1>3, <1>03 DEF InvalidProfile, Ready
<1>4. CASE ConfigureNode
  <2> DEFINE q == profiles[p]
             new == Configs(q, n)
  <2>1. /\ p' = p /\ n' = n + 1 /\ UNCHANGED <<profiles, pc, configured, cut>>
        /\ Wind(q) => configs' = Over(new, configs) /\ tgz' = configs'
        /\ ~Wind(q) => UNCHANGED <<configs, tgz>>
        /\ pc = "configure" /\ AtNode
    BY <1>4 DEF ConfigureNode
  <2>2. Ready(l, i)' => Ready(l, i) \/ (l = p /\ i = n)
    BY <2>1, BeforeSteps DEF Ready
  <2>3. CASE ~Wind(q)
    <3>1. (Whole(l, i)' <=> Whole(l, i)) /\ (Kept(l, i)' <=> Kept(l, i))
      BY <2>1, <2>3, Zenon DEF Whole, Kept
    <3>2. l = p /\ i = n => Whole(l, i)
      BY <2>3 DEF Whole, HasConfigs
    <3> QED
      BY <1>01, <2>1, <2>2, <3>1, <3>2
  <2>4. CASE Wind(q) /\ l = p /\ i = n
    <3>1. \A j \in 1..WindCount(q, n) :
            /\ <<Hostname(q, n), j>> \in DOMAIN new
            /\ new[<<Hostname(q, n), j>>] = Part(q, n, j)
      BY DEF Configs
    <3> HIDE DEF new
    <3>2. /\ DOMAIN configs' = DOMAIN new \cup DOMAIN configs
          /\ \A x \in DOMAIN new : configs'[x] = new[x]
      BY <2>1, <2>4 DEF Over
    <3>3. HasConfigs(configs', q, n) /\ HasConfigs(tgz', q, n)
      BY <2>1, <2>4, <3>1, <3>2 DEF HasConfigs
    <3>4. KeepsConfigs(configs', q, n) /\ KeepsConfigs(tgz', q, n)
      BY <3>3 DEF HasConfigs, KeepsConfigs
    <3> QED
      BY <2>1, <2>4, <3>3, <3>4 DEF Whole, Kept
  <2>5. CASE Wind(q) /\ ~(l = p /\ i = n)
    <3>1. DOMAIN new = {Hostname(q, n)} \X (1..WindCount(q, n))
      BY DEF Configs
    <3> HIDE DEF new
    <3>2. \A j : <<Hostname(profiles[l], i), j>> \notin DOMAIN new
      BY <2>1, <2>5, <3>1, OtherNode
    <3>3. \A j : LET x == <<Hostname(profiles[l], i), j>>
                 IN  x \in DOMAIN configs =>
                       x \in DOMAIN configs' /\ configs'[x] = configs[x]
      BY <2>1, <2>5, <3>2 DEF Over
    <3>4. HasConfigs(configs, profiles[l], i) => HasConfigs(configs', profiles[l], i)
      BY <3>3 DEF HasConfigs
    <3>5. KeepsConfigs(configs, profiles[l], i) =>
            KeepsConfigs(configs', profiles[l], i)
      BY <3>3 DEF KeepsConfigs
    <3> QED
      BY <1>01, <2>1, <2>2, <2>5, <3>4, <3>5 DEF Whole, Kept
  <2>6. QED
    BY <2>3, <2>4, <2>5
<1>5. CASE NextProfile
  <2>1. Stages /\ n > NodeCount(profiles[p]) /\ p' = p + 1 /\ n' = 0
        /\ UNCHANGED <<profiles, configs, tgz, configured, cut, pc>>
    BY <1>5 DEF NextProfile
  <2>2. QED
    BY <1>03, <2>1, BeforeSteps DEF Ready
<1>6. CASE ConfigureEnd
  <2>1. /\ pc = "configure" /\ p > Len(profiles)
        /\ UNCHANGED <<profiles, configs, tgz>>
    BY <1>6 DEF ConfigureEnd
  <2>2. Ready(l, i)
    BY <2>1, BeforeSteps DEF Ready
  <2>3. QED
    BY <1>03, <2>1, <2>2
<1>7. CASE DieWriting
  <2> DEFINE q == profiles[p]
             all == Configs(q, n)
  <2>1. /\ UNCHANGED <<profiles, configured>> /\ cut' /\ pc' = "idle" /\ AtNode
        /\ \/ UNCHANGED <<configs, tgz>>
           \/ /\ \E j \in 0..WindCount(q, n) :
                   configs' = Over(CutConfigs(q, n, j), configs)
              /\ tgz' = tgz
           \/ configs' = Over(all, configs) /\ tgz' = [x \in DOMAIN configs' |-> Torn]
    BY <1>7 DEF DieWriting
  <2>2. ~Ready(l, i)'
    BY <2>1 DEF Ready
  <2>3. SUFFICES ASSUME configured PROVE Kept(l, i)'
    BY <2>1, <2>2
  <2>4. Kept(l, i)
    BY <1>01, <2>3
  <2>5. CASE UNCHANGED <<configs, tgz>>
    BY <2>1, <2>4, <2>5, Zenon DEF Kept
  <2>6. CASE /\ \E j \in 0..WindCount(q, n) :
                  configs' = Over(CutConfigs(q, n, j), configs)
             /\ tgz' = tgz
    <3>1. PICK j \in 0..WindCount(q, n) :
                 configs' = Over(CutConfigs(q, n, j), configs)
      BY <2>6
    <3> DEFINE new == CutConfigs(q, n, j)
    <3>2. DOMAIN new = {Hostname(q, n)} \X (1..j)
      BY DEF CutConfigs
    <3>3. \A x \in DOMAIN new : new[x] \in {Part(q, n, x[2]), Torn}
      BY DEF CutConfigs
    <3>4. /\ DOMAIN configs' = DOMAIN new \cup DOMAIN configs
          /\ \A x \in DOMAIN new : configs'[x] = new[x]
          /\ \A x \in DOMAIN configs \ DOMAIN new : configs'[x] = configs[x]
      BY <3>1 DEF Over
    <3> HIDE DEF new
    <3>5. CASE l = p /\ i = n
      <4>1. \A m : LET x == <<Hostname(q, n), m>>
                    IN  x \in DOMAIN new =>
                          /\ x \in DOMAIN configs'
                          /\ configs'[x] \in {Part(q, n, m), Torn}
        BY <3>3, <3>4
      <4>2. KeepsConfigs(configs, q, n)
        BY <2>4, <3>5 DEF Kept
      <4>3. KeepsConfigs(configs', q, n)
        <5>1. SUFFICES ASSUME Wind(q), NEW m \in 1..WindCount(q, n)
                       PROVE  LET x == <<Hostname(q, n), m>>
                              IN  /\ x \in DOMAIN configs'
                                  /\ configs'[x] \in {Part(q, n, m), Torn}
          BY DEF KeepsConfigs
        <5>2. /\ <<Hostname(q, n), m>> \in DOMAIN configs
              /\ configs[<<Hostname(q, n), m>>] \in {Part(q, n, m), Torn}
          BY <4>2, <5>1 DEF KeepsConfigs
        <5> QED
          BY <3>4, <4>1, <5>2
      <4> QED
        BY <2>1, <2>4, <2>6, <3>5, <4>3 DEF Kept
    <3>6. CASE ~(l = p /\ i = n)
      <4>1. \A m : <<Hostname(profiles[l], i), m>> \notin DOMAIN new
        BY <2>1, <3>2, <3>6, OtherNode
      <4>2. \A m : LET x == <<Hostname(profiles[l], i), m>>
                   IN  x \in DOMAIN configs =>
                         x \in DOMAIN configs' /\ configs'[x] = configs[x]
        BY <3>4, <4>1
      <4>3. KeepsConfigs(configs', profiles[l], i)
        BY <2>4, <4>2 DEF Kept, KeepsConfigs
      <4> QED
        BY <2>1, <2>4, <2>6, <4>3 DEF Kept
    <3> QED
      BY <3>5, <3>6
  <2>7. CASE /\ configs' = Over(all, configs)
             /\ tgz' = [x \in DOMAIN configs' |-> Torn]
    <3>1. DOMAIN all = {Hostname(q, n)} \X (1..WindCount(q, n))
          /\ \A m \in 1..WindCount(q, n) : all[<<Hostname(q, n), m>>] = Part(q, n, m)
      BY DEF Configs
    <3> HIDE DEF all
    <3>2. /\ DOMAIN configs' = DOMAIN all \cup DOMAIN configs
          /\ \A x \in DOMAIN all : configs'[x] = all[x]
      BY <2>7 DEF Over
    <3>3. KeepsConfigs(configs', profiles[l], i)
      <4>1. CASE l = p /\ i = n
        BY <3>1, <3>2, <4>1 DEF KeepsConfigs
      <4>2. CASE ~(l = p /\ i = n)
        <5>1. \A m : <<Hostname(profiles[l], i), m>> \notin DOMAIN all
          BY <2>1, <3>1, <4>2, OtherNode
        <5>2. \A m : LET x == <<Hostname(profiles[l], i), m>>
                     IN  x \in DOMAIN configs =>
                           x \in DOMAIN configs' /\ configs'[x] = configs[x]
          BY <2>7, <5>1 DEF Over
        <5> QED
          BY <2>4, <5>2 DEF Kept, KeepsConfigs
      <4> QED
        BY <4>1, <4>2
    <3>4. KeepsConfigs(tgz', profiles[l], i)
      BY <2>7, <3>3 DEF KeepsConfigs
    <3> QED
      BY <2>1, <3>3, <3>4 DEF Kept
  <2> QED
    BY <2>1, <2>5, <2>6, <2>7
<1>8. CASE PostStart \/ PostProfile \/ PostEnd \/ Die
  BY <1>8, <1>03 DEF PostStart, PostProfile, PostEnd, Die, Control, Ready
<1>9. CASE WriteScript \/ SendScript
  BY <1>9, <1>03 DEF WriteScript, SendScript, Control, Ready
<1>10. CASE Launch \/ Boot \/ Stop
  <2>1. UNCHANGED <<profiles, configs, tgz, configured, cut, pc, p, n>>
    BY <1>10 DEF Launch, LaunchOn, Boot, Stop
  <2> QED
    BY <1>03, <2>1 DEF Before, Ready
<1>11. CASE UNCHANGED vars
  BY <1>11, <1>03 DEF vars, Before, Ready
<1>12. QED
  BY <1>1, <1>2, <1>3, <1>4, <1>5, <1>6, <1>7, <1>8, <1>9, <1>10, <1>11
     DEF Next, Work

\* A node of a profile that packs containers has a density and something to
\* pack; a node of another profile has no container.
LEMMA Counts ==
  ASSUME Control, NEW l \in DOMAIN profiles, NEW i \in 1..NodeCount(profiles[l])
  PROVE  /\ Packed(profiles[l]) => Density(profiles[l])
         /\ ~Packed(profiles[l]) => ContainerCount(profiles[l], i) = 0
<1> DEFINE q == profiles[l]
<1>1. /\ q.count \in Nat /\ q.containers \in Nat /\ q.perNode \in Nat
      /\ NodeCount(q) \in Nat /\ Total(q) \in Nat
  BY ProfileNumbers DEF Control
<1> HIDE DEF q
<1>2. CASE Packed(q)
  <2>1. Total(q) \in Nat \ {0}
    <3> SUFFICES ASSUME Total(q) = 0 PROVE FALSE
      BY <1>1
    <3>1. Ceil(0, q.perNode) = 0
      <4>1. q.perNode \in Nat \ {0}
        BY <1>1, <1>2 DEF Packed
      <4>2. (q.perNode - 1) \div q.perNode = 0
        BY <4>1, SMT
      <4>3. QED
        BY <4>1, <4>2 DEF Ceil
    <3>2. NodeCount(q) = 0
      BY <1>2, <3>1 DEF NodeCount
    <3>3. QED
      BY <1>1, <3>2 DEF q
  <2>2. Density(q)
    BY <1>1, <1>2, <2>1, SixComponents DEF Density, Packed, Total
  <2>3. QED
    BY <1>2, <2>2 DEF q
<1>3. CASE ~Packed(q)
  <2>1. CASE ~Wind(q)
    BY <1>3, <2>1 DEF ContainerCount, BuiltinCount, q
  <2>2. CASE Wind(q)
    <3>1. q.perNode = 0
      BY <1>1, <1>3, <2>2 DEF Packed
    <3>2. i * q.perNode <= Total(q)
      BY <1>1, <3>1 DEF q
    <3>3. QED
      BY <1>3, <2>2, <3>1, <3>2 DEF ContainerCount, WindCount, q
  <2>3. QED
    BY <2>1, <2>2
<1>4. QED
  BY <1>2, <1>3 DEF q

\* A node before the last takes its share; so does one without containers.
LEMMA TakesShare ==
  ASSUME Control, NEW l \in DOMAIN profiles, NEW i \in 1..NodeCount(profiles[l]),
         i # NodeCount(profiles[l])
  PROVE  /\ ContainerCount(profiles[l], i) = Share(profiles[l])
         /\ i * Share(profiles[l]) =
              (i - 1) * Share(profiles[l]) + Share(profiles[l])
<1> DEFINE q == profiles[l]
<1>1. q.perNode \in Nat /\ NodeCount(q) \in Nat /\ Share(q) \in Nat
  BY ProfileNumbers DEF Control
<1> HIDE DEF q
<1>2. i \in Int /\ i * Share(q) = (i - 1) * Share(q) + Share(q)
  <2>1. i \in Nat /\ Share(q) \in Nat
    BY <1>1 DEF q
  <2>2. QED
    BY <2>1, SMT
<1>3. CASE Packed(q)
  <2>1. Density(q)
    BY <1>3, Counts DEF q
  <2>2. (i - 1) * q.perNode + ContainerCount(q, i) = i * q.perNode
    BY <2>1, Shares DEF q
  <2>3. ContainerCount(q, i) \in Int
    BY <2>1, Shares DEF q
  <2>4. Share(q) = q.perNode
    BY <1>3 DEF Share
  <2> DEFINE a == (i - 1) * q.perNode
  <2>5. a \in Int /\ i * q.perNode = a + q.perNode
    BY <1>1, <1>2, <2>4
  <2>6. a + ContainerCount(q, i) = i * q.perNode
    BY <2>2
  <2> HIDE DEF a
  <2>7. ContainerCount(q, i) = q.perNode
    BY <1>1, <2>3, <2>5, <2>6
  <2>8. QED
    BY <1>2, <2>4, <2>7 DEF q
<1>4. CASE ~Packed(q)
  BY <1>2, <1>4, Counts DEF Share, q
<1>5. QED
  BY <1>3, <1>4 DEF q

\* The addresses that the process goes on with.
LEMMA AddressStep ==
  ASSUME Control, NEW l \in DOMAIN profiles, NEW i \in 1..NodeCount(profiles[l])
  PROVE  /\ StartAddresses(profiles[l]) = Starts(profiles[l], 1)
         /\ i # NodeCount(profiles[l]) =>
              Advance(profiles[l], i, Starts(profiles[l], i)) =
                Starts(profiles[l], i + 1)
<1> DEFINE q == profiles[l]
           s == Share(q)
<1>1. /\ \A m \in DOMAIN NetInfo(q) : NetInfo(q)[m].address \in Nat
      /\ s \in Nat /\ i \in Nat
  BY ProfileNumbers DEF Control
<1> HIDE DEF q
<1>2. StartAddresses(q) = Starts(q, 1)
  <2>1. (1 - 1) * s = 0
    BY <1>1
  <2>2. \A m \in DOMAIN NetInfo(q) :
          NetInfo(q)[m].address = NetInfo(q)[m].address + (1 - 1) * s
    BY <1>1, <2>1
  <2>3. QED
    BY <2>2 DEF StartAddresses, Starts
<1>3. ASSUME i # NodeCount(q)
      PROVE  Advance(q, i, Starts(q, i)) = Starts(q, i + 1)
  <2>1. ContainerCount(q, i) = s /\ i * s = (i - 1) * s + s
    BY <1>3, TakesShare DEF q
  <2>2. (i + 1) - 1 = i
    BY <1>1
  <2>3. (i - 1) * s \in Int /\ i * s \in Int
    BY <1>1, SMT
  <2> HIDE DEF s
  <2>4. \A m \in DOMAIN NetInfo(q) :
          NetInfo(q)[m].address + (i - 1) * s + s = NetInfo(q)[m].address + i * s
    BY <1>1, <2>1, <2>3
  <2>5. QED
    BY <2>1, <2>2, <2>4 DEF Advance, Starts, s
<1>4. QED
  BY <1>2, <1>3 DEF q

LEMMA AddressesStep ==
  ASSUME Control, Posted, [Next]_vars
  PROVE  (pc \in {"post", "send"} /\ AtNode => addr = Starts(profiles[p], n))'
<1> USE DEF process, disk, cluster
<1>0. pc \in {"post", "send"} /\ AtNode => addr = Starts(profiles[p], n)
  BY DEF Posted
<1>1. CASE PostProfile
  <2>1. /\ Stages /\ n' = 1 /\ addr' = StartAddresses(profiles[p])
        /\ UNCHANGED <<profiles, p>>
    BY <1>1 DEF PostProfile
  <2>2. p \in DOMAIN profiles
    BY <2>1, AtProfile
  <2>3. SUFFICES ASSUME AtNode' PROVE addr' = Starts(profiles[p], 1)
    BY <2>1
  <2>4. 1 <= NodeCount(profiles[p])
    BY <2>1, <2>3 DEF AtNode
  <2>5. 1 \in 1..NodeCount(profiles[p])
    BY <2>2, <2>4, ProfileNumbers DEF Control
  <2>6. QED
    BY <2>1, <2>2, <2>5, AddressStep
<1>2. CASE SendScript
  <2>1. /\ pc = "send" /\ addr' = Advance(profiles[p], n, addr) /\ n' = n + 1
        /\ UNCHANGED <<profiles, p>>
    BY <1>2 DEF SendScript
  <2>2. AtNode
    BY <2>1 DEF Control
  <2>3. p \in DOMAIN profiles /\ n \in 1..NodeCount(profiles[p])
    BY <2>2, AtProfile
  <2>4. addr = Starts(profiles[p], n)
    BY <1>0, <2>1, <2>2
  <2>5. SUFFICES ASSUME AtNode' PROVE addr' = Starts(profiles[p], n + 1)
    BY <2>1
  <2>6. n + 1 <= NodeCount(profiles[p])
    BY <2>1, <2>5 DEF AtNode
  <2>7. n # NodeCount(profiles[p])
    BY <2>3, <2>6, ProfileNumbers DEF Control
  <2>8. QED
    BY <2>1, <2>3, <2>4, <2>7, AddressStep
<1>3. CASE NextProfile \/ PostStart
  <2>1. n' = 0
    BY <1>3 DEF NextProfile, PostStart
  <2>2. QED
    BY <2>1 DEF AtNode
<1>4. CASE ConfigureStart \/ ConfigureProfile \/ InvalidProfile \/ ConfigureNode
           \/ ConfigureEnd \/ PostEnd \/ Die \/ DieWriting
  BY <1>4 DEF ConfigureStart, ConfigureProfile, InvalidProfile, ConfigureNode,
              ConfigureEnd, PostEnd, Die, DieWriting
<1>5. CASE WriteScript
  <2>1. AtNode /\ pc = "post" /\ UNCHANGED <<profiles, p, n, addr>>
    BY <1>5 DEF WriteScript
  <2>2. QED
    BY <1>0, <2>1
<1>6. CASE UNCHANGED <<profiles, process>>
  <2>1. UNCHANGED <<profiles, pc, p, n, addr>>
    BY <1>6
  <2>2. AtNode' <=> AtNode
    BY <2>1 DEF AtNode, Stages
  <2>3. QED
    BY <1>0, <2>1, <2>2
<1>7. Launch \/ Boot \/ Stop \/ UNCHANGED vars => UNCHANGED <<profiles, process>>
  BY DEF Launch, LaunchOn, Boot, Stop, vars
<1>8. QED
  BY <1>1, <1>2, <1>3, <1>4, <1>5, <1>6, <1>7 DEF Next, Work

LEMMA PostedStep ==
  ASSUME Control, Posted, [Next]_vars
  PROVE  Posted'
<1> SUFFICES ASSUME OwnHosts,
                    NEW l \in DOMAIN profiles, NEW i \in 1..NodeCount(profiles[l]),
                    Written(l, i)'
             PROVE  HasScript(profiles[l], i)'
  <2>1. profiles' = profiles
    BY DEF Next, Work, ConfigureStart, ConfigureProfile, InvalidProfile,
           ConfigureNode, NextProfile, ConfigureEnd, PostStart, PostProfile,
           WriteScript, SendScript, PostEnd, Die, DieWriting, Launch, LaunchOn, Boot,
           Stop, vars
  <2>2. OwnHosts' <=> OwnHosts
    BY <2>1, Zenon DEF OwnHosts
  <2>3. \A m : NodeCount(profiles[m])' = NodeCount(profiles[m])
    BY <2>1
  <2>4. QED
    BY <2>1, <2>2, <2>3, AddressesStep DEF Posted
<1> USE DEF process, disk, cluster
<1>0. Written(l, i) => HasScript(profiles[l], i)
  BY DEF Posted
<1>01. Written(l, i) /\ UNCHANGED <<profiles, files>> => HasScript(profiles[l], i)'
  BY <1>0, Zenon DEF HasScript
<1>1. CASE PostStart
  <2>1. /\ pc' = "post" /\ p' = 1 /\ n' = 0 /\ post' = "started"
        /\ profiles' = profiles
    BY <1>1 DEF PostStart
  <2>2. ~Before(l, i)'
    BY <2>1, ProfileNumbers DEF Before, Control
  <2>3. QED
    BY <2>1, <2>2 DEF Written
<1>2. CASE PostProfile
  <2>1. /\ Stages /\ n = 0 /\ p' = p /\ n' = 1 /\ pc = "post"
        /\ UNCHANGED <<profiles, files, post, pc>>
    BY <1>2 DEF PostProfile
  <2>2. QED
    BY <1>01, <2>1, BeforeSteps DEF Written
<1>3. CASE NextProfile
  <2>1. /\ Stages /\ n > NodeCount(profiles[p]) /\ p' = p + 1 /\ n' = 0
        /\ UNCHANGED <<profiles, files, post, pc>>
    BY <1>3 DEF NextProfile
  <2>2. pc # "send"
    <3>1. p \in DOMAIN profiles /\ NodeCount(profiles[p]) \in Nat /\ n \in Nat
      BY <2>1, AtProfile, ProfileNumbers DEF Control
    <3>2. QED
      BY <2>1, <3>1 DEF Control, AtNode
  <2>3. QED
    BY <1>01, <2>1, <2>2, BeforeSteps DEF Written
<1>4. CASE WriteScript
  <2> DEFINE q == profiles[p]
             h == Hostname(q, n)
             new == [x \in {h} |-> Script(q, n, addr)]
  <2>1. /\ pc = "post" /\ pc' = "send" /\ AtNode /\ files' = Over(new, files)
        /\ UNCHANGED <<profiles, p, n, post>>
    BY <1>4 DEF WriteScript
  <2>2. p \in DOMAIN profiles /\ n \in 1..NodeCount(q)
    BY <2>1, AtProfile
  <2>3. addr = Starts(q, n)
    BY <2>1 DEF Posted
  <2>4. DOMAIN new = {h} /\ new[h] = Script(q, n, Starts(q, n))
    BY <2>3
  <2>5. h = Hostname(q, n)
    OBVIOUS
  <2> HIDE DEF new, h
  <2>6. /\ DOMAIN files' = {h} \cup DOMAIN files
        /\ files'[h] = Script(q, n, Starts(q, n))
        /\ \A x \in DOMAIN files \ {h} : files'[x] = files[x]
    BY <2>1, <2>4 DEF Over
  <2>7. CASE l = p /\ i = n
    BY <2>1, <2>5, <2>6, <2>7 DEF HasScript
  <2>8. CASE ~(l = p /\ i = n)
    <3>1. Before(l, i)' => Before(l, i)
      BY <2>1 DEF Before
    <3>2. Written(l, i)
      BY <2>1, <2>8, <3>1 DEF Written
    <3>3. Hostname(profiles[l], i) # h
      BY <2>2, <2>5, <2>8, OwnNode
    <3>4. HasScript(profiles[l], i)
      BY <1>0, <3>2
    <3>5. QED
      BY <2>1, <2>6, <3>3, <3>4 DEF HasScript
  <2>9. QED
    BY <2>7, <2>8
<1>5. CASE SendScript
  <2>1. /\ pc = "send" /\ pc' = "post" /\ p' = p /\ n' = n + 1
        /\ UNCHANGED <<profiles, files, post>>
    BY <1>5 DEF SendScript
  <2>2. QED
    BY <1>01, <2>1, BeforeSteps DEF Written
<1>6. CASE PostEnd
  <2>1. pc = "post" /\ p > Len(profiles) /\ UNCHANGED <<profiles, files>>
    BY <1>6 DEF PostEnd
  <2>2. QED
    BY <1>01, <2>1, BeforeSteps DEF Written
<1>7. CASE ConfigureStart \/ ConfigureProfile \/ InvalidProfile \/ ConfigureNode
           \/ ConfigureEnd \/ Die \/ DieWriting
  <2>1. UNCHANGED <<profiles, files, post>> /\ pc' \in {"idle", "configure"}
    BY <1>7 DEF ConfigureStart, ConfigureProfile, InvalidProfile, ConfigureNode,
                ConfigureEnd, Die, DieWriting
  <2>2. QED
    BY <1>01, <2>1 DEF Written
<1>8. CASE Launch \/ Boot
  <2>1. UNCHANGED <<profiles, files, post, pc, p, n>>
    BY <1>8 DEF Launch, LaunchOn, Boot
  <2>2. QED
    BY <1>01, <2>1 DEF Written, Before
<1>9. CASE Stop
  <2>1. pc = "idle" /\ pc' = pc /\ post' = "no"
    BY <1>9 DEF Stop
  <2>2. QED
    BY <2>1 DEF Written
<1>10. CASE UNCHANGED vars
  <2>1. UNCHANGED <<profiles, files, post, pc, p, n>>
    BY <1>10 DEF vars
  <2>2. QED
    BY <1>01, <2>1 DEF Written, Before
<1>11. QED
  BY <1>1, <1>2, <1>3, <1>4, <1>5, <1>6, <1>7, <1>8, <1>9, <1>10 DEF Next, Work

LEMMA ScaleInvHolds == Spec => []ScaleInv
<1>1. ScaleInv /\ [Next]_vars => ScaleInv'
  BY ControlStep, ScriptsStep, ConfiguredStep, PostedStep DEF ScaleInv
<1>2. QED
  BY <1>1, InitInv, PTL DEF Spec

\* What the configure stage left in the archive of the configs is what the
\* containers of the post-start stage look for, however the stages were cut
\* short or repeated before the experiment started; but when the last one that
\* wrote died as it wrote, it may be cut off.
THEOREM OwnConfigHolds == Spec => []OwnConfig
<1>1. ScaleInv => OwnConfig
  <2> SUFFICES ASSUME ScaleInv, OwnHosts, NEW h \in DOMAIN running,
                      NEW j \in DOMAIN running[h],
                      running[h][j].part.turbine # 0
               PROVE  LET part == running[h][j].part
                      IN  /\ <<h, j>> \in DOMAIN image
                          /\ image[<<h, j>>] \in {part} \cup (IF cut THEN {Torn} ELSE {})
    BY DEF OwnConfig
  <2>1. configured /\ image = tgz
    BY DEF ScaleInv, Control
  <2>2. PICK l \in DOMAIN profiles : \E i \in 1..NodeCount(profiles[l]) :
          h = Hostname(profiles[l], i) /\ Fits(running[h], profiles[l], i)
    BY DEF ScaleInv, Scripts, FromProfiles
  <2>3. PICK i \in 1..NodeCount(profiles[l]) :
          h = Hostname(profiles[l], i) /\ Fits(running[h], profiles[l], i)
    BY <2>2
  <2> DEFINE q == profiles[l]
  <2>4. KeepsConfigs(tgz, q, i) /\ (~cut => HasConfigs(tgz, q, i))
    BY <2>1 DEF ScaleInv, Configured, Ready, Whole, Kept
  <2> HIDE DEF q
  <2>5. Fits(running[h], q, i) /\ h = Hostname(q, i)
    BY <2>3 DEF q
  <2>6. Wind(q) /\ running[h][j].part = Part(q, i, j)
    BY <2>5 DEF Fits
  <2>7. j \in 1..WindCount(q, i)
    BY <2>5, <2>6 DEF Fits, ContainerCount
  <2>8. QED
    BY <2>1, <2>4, <2>5, <2>6, <2>7 DEF KeepsConfigs, HasConfigs
<1>2. QED
  BY <1>1, ScaleInvHolds, PTL

----------------------------------------------------------------------------
(* Every container *)

LEMMA Quotient ==
  ASSUME NEW a \in Nat, NEW b \in Nat \ {0}
  PROVE  /\ a \div b \in Nat /\ a % b \in 0..(b - 1)
         /\ a = (a \div b) * b + (a % b)
<1> DEFINE d == a \div b
           e == a % b
<1>1. d \in Int /\ e \in 0..(b - 1) /\ a = d * b + e
  BY SMT
<1> HIDE DEF d, e
<1>2. d \in Nat
  <2> SUFFICES ASSUME d + 1 <= 0 PROVE FALSE
    BY <1>1
  <2>1. (d + 1) * b <= 0 * b
    BY <1>1, Monotone
  <2>2. (d + 1) * b = d * b + b
    BY <1>1, SMT
  <2>3. QED
    BY <1>1, <2>1, <2>2
<1>3. QED
  BY <1>1, <1>2 DEF d, e

\* The quotient and the remainder are the only ones.
LEMMA Divided ==
  ASSUME NEW b \in Nat \ {0}, NEW c \in Nat, NEW r \in 0..(b - 1)
  PROVE  (c * b + r) \div b = c /\ (c * b + r) % b = r
<1> DEFINE a == c * b + r
           d == a \div b
           e == a % b
<1>1. a \in Nat
  <2>1. c * b \in Nat
    BY SMT
  <2>2. QED
    BY <2>1
<1>2. a = c * b + r
  OBVIOUS
<1> HIDE DEF a
<1>3. d \in Nat /\ e \in 0..(b - 1) /\ a = d * b + e
  BY <1>1, Quotient
<1> HIDE DEF d, e
<1>4. d < c + 1
  <2> SUFFICES ASSUME c + 1 <= d PROVE FALSE
    BY <1>3
  <2>1. (c + 1) * b <= d * b
    BY <1>3, Monotone
  <2>2. (c + 1) * b = c * b + b
    BY SMT
  <2>3. QED
    BY <1>2, <1>3, <2>1, <2>2
<1>5. c < d + 1
  <2> SUFFICES ASSUME d + 1 <= c PROVE FALSE
    BY <1>3
  <2>1. (d + 1) * b <= c * b
    BY <1>3, Monotone
  <2>2. (d + 1) * b = d * b + b
    BY <1>3, SMT
  <2>3. QED
    BY <1>2, <1>3, <2>1, <2>2
<1>6. d = c /\ e = r
  BY <1>2, <1>3, <1>4, <1>5
<1>7. QED
  BY <1>6 DEF a, d, e

\* Nodes 1..last with the consecutive blocks of Shares: container j of node i is
\* the (i - 1) * m + j-th of the profile, each of 1..t is one of them.
Blocks(m, t, last, cc) ==
  \A i \in 1..last :
    /\ cc[i] \in 1..m
    /\ (i - 1) * m + cc[i] = IF i = last THEN t ELSE i * m
Grid(last, cc) == UNION {{i} \X (1..cc[i]) : i \in 1..last}

LEMMA Ranked ==
  ASSUME NEW m \in Nat \ {0}, NEW t \in Nat, NEW last \in Nat, NEW cc,
         Blocks(m, t, last, cc), NEW i \in 1..last, NEW j \in 1..cc[i]
  PROVE  /\ (i - 1) * m + j \in 1..t
         /\ ((i - 1) * m + j - 1) \div m + 1 = i
         /\ (((i - 1) * m + j - 1) % m) + 1 = j
<1> DEFINE a == (i - 1) * m
<1>1. /\ i \in Nat \ {0} /\ j \in 1..m /\ cc[i] \in 1..m /\ j <= cc[i]
      /\ a + cc[i] = IF i = last THEN t ELSE i * m
  BY DEF Blocks
<1>2. a \in Nat
  <2>1. i - 1 \in Nat
    BY <1>1
  <2>2. QED
    BY <2>1, SMT
<1> HIDE DEF a
<1>3. a + j <= t
  <2>1. CASE i = last
    BY <1>1, <1>2, <2>1
  <2>2. CASE i # last
    <3>1. last \in 1..last /\ i <= last - 1
      BY <1>1, <2>2
    <3>2. cc[last] \in 1..m /\ (last - 1) * m + cc[last] = t
      BY <3>1 DEF Blocks
    <3>3. i * m <= (last - 1) * m
      BY <1>1, <3>1, Monotone
    <3>4. i * m \in Int /\ (last - 1) * m \in Int
      BY <1>1, SMT
    <3> DEFINE e == i * m
               b == (last - 1) * m
    <3>5. /\ e \in Int /\ b \in Int /\ e <= b /\ a + cc[i] = e
          /\ cc[last] \in 1..m /\ b + cc[last] = t
      BY <1>1, <2>2, <3>2, <3>3, <3>4
    <3> HIDE DEF e, b
    <3>6. cc[i] \in Int /\ cc[last] > 0 /\ cc[last] \in Int
      BY <1>1, <3>5
    <3>7. QED
      BY <1>1, <1>2, <3>5, <3>6
  <2>3. QED
    BY <2>1, <2>2
<1>4. a + j \in 1..t
  BY <1>1, <1>2, <1>3
<1>5. /\ a + j - 1 \in Nat /\ i - 1 \in Nat /\ j - 1 \in 0..(m - 1)
      /\ a + j - 1 = a + (j - 1)
  BY <1>1, <1>2
<1>6. (a + j - 1) \div m = i - 1 /\ (a + j - 1) % m = j - 1
  <2> DEFINE c == i - 1
             r == j - 1
  <2>1. c \in Nat /\ r \in 0..(m - 1) /\ a + j - 1 = c * m + r
    BY <1>5 DEF a
  <2> HIDE DEF c, r
  <2>2. (c * m + r) \div m = c /\ (c * m + r) % m = r
    BY <2>1, Divided
  <2>3. QED
    BY <2>1, <2>2 DEF c, r
<1>7. QED
  BY <1>1, <1>4, <1>6 DEF a

LEMMA Reached ==
  ASSUME NEW m \in Nat \ {0}, NEW t \in Nat, NEW last \in Nat, NEW cc,
         Blocks(m, t, last, cc), t # 0 => last # 0, NEW y \in 1..t
  PROVE  \E i \in 1..last : \E j \in 1..cc[i] :
           /\ y = (i - 1) * m + j
           /\ i = (y - 1) \div m + 1 /\ j = ((y - 1) % m) + 1
<1> DEFINE d == (y - 1) \div m
           r == (y - 1) % m
           b == (last - 1) * m
<1>1. y - 1 \in Nat /\ y \in Nat
  OBVIOUS
<1>2. d \in Nat /\ r \in 0..(m - 1) /\ y - 1 = d * m + r
  BY <1>1, Quotient
<1>3. last \in 1..last
  OBVIOUS
<1>4. cc[last] \in 1..m /\ b + cc[last] = t
  BY <1>3 DEF Blocks
<1>5. b \in Nat
  <2>1. last - 1 \in Nat
    BY <1>3
  <2>2. QED
    BY <2>1, SMT
<1> HIDE DEF d, r, b
<1>6. d + 1 <= last
  <2> SUFFICES ASSUME last <= d PROVE FALSE
    BY <1>2
  <2>1. last * m <= d * m
    BY <1>2, Monotone
  <2>2. last * m = b + m
    BY <1>3, SMT DEF b
  <2>3. d * m \in Int
    BY <1>2, SMT
  <2>4. QED
    BY <1>1, <1>2, <1>4, <1>5, <2>1, <2>2, <2>3
<1> DEFINE i == d + 1
           j == r + 1
<1>7. i \in 1..last /\ (i - 1) * m = d * m
  BY <1>2, <1>6
<1>8. y = (i - 1) * m + j
  <2>1. d * m \in Int
    BY <1>2, SMT
  <2>2. QED
    BY <1>1, <1>2, <1>7, <2>1
<1>9. j \in 1..cc[i]
  <2>1. /\ cc[i] \in 1..m
        /\ d * m + cc[i] = IF i = last THEN t ELSE i * m
    BY <1>7 DEF Blocks
  <2>2. i * m = d * m + m
    BY <1>2, SMT
  <2>3. d * m \in Int
    BY <1>2, SMT
  <2>4. d * m + j = y
    BY <1>7, <1>8
  <2>5. CASE i = last
    BY <1>2, <2>1, <2>3, <2>4, <2>5
  <2>6. CASE i # last
    BY <1>2, <2>1, <2>2, <2>3, <2>6
  <2>7. QED
    BY <2>5, <2>6
<1>10. QED
  BY <1>7, <1>8, <1>9 DEF d, r

\* So there are t containers.
LEMMA GridSize ==
  ASSUME NEW m \in Nat \ {0}, NEW t \in Nat, NEW last \in Nat, NEW cc,
         Blocks(m, t, last, cc), t # 0 => last # 0
  PROVE  IsFiniteSet(Grid(last, cc)) /\ Cardinality(Grid(last, cc)) = t
<1> DEFINE P == Grid(last, cc)
           f == [y \in 1..t |-> <<(y - 1) \div m + 1, ((y - 1) % m) + 1>>]
<1>1. \A c : c \in P <=> \E i \in 1..last : \E j \in 1..cc[i] : c = <<i, j>>
  BY DEF Grid
<1> HIDE DEF P
<1>2. ASSUME NEW y \in 1..t
      PROVE  f[y] \in P /\ (f[y][1] - 1) * m + f[y][2] = y
  <2>0. PICK i \in 1..last : \E j \in 1..cc[i] :
          /\ y = (i - 1) * m + j
          /\ i = (y - 1) \div m + 1 /\ j = ((y - 1) % m) + 1
    BY Reached
  <2>1. PICK j \in 1..cc[i] :
          /\ y = (i - 1) * m + j
          /\ i = (y - 1) \div m + 1 /\ j = ((y - 1) % m) + 1
    BY <2>0
  <2>2. f[y] = <<i, j>>
    BY <2>1
  <2> HIDE DEF f
  <2>3. f[y][1] = i /\ f[y][2] = j
    BY <2>2
  <2>4. QED
    BY <1>1, <2>1, <2>2, <2>3
<1>3. ASSUME NEW c \in P
      PROVE  \E y \in 1..t : f[y] = c
  <2>0. PICK i \in 1..last : \E j \in 1..cc[i] : c = <<i, j>>
    BY <1>1
  <2>1. PICK j \in 1..cc[i] : c = <<i, j>>
    BY <2>0
  <2>2. /\ (i - 1) * m + j \in 1..t
        /\ ((i - 1) * m + j - 1) \div m + 1 = i
        /\ (((i - 1) * m + j - 1) % m) + 1 = j
    BY Ranked
  <2> DEFINE y == (i - 1) * m + j
  <2>3. y \in 1..t /\ (y - 1) \div m + 1 = i /\ ((y - 1) % m) + 1 = j
    BY <2>2
  <2> HIDE DEF y
  <2>4. f[y] = <<i, j>>
    BY <2>3
  <2>5. QED
    BY <2>1, <2>3, <2>4
<1>4. \A y, z \in 1..t : f[y] = f[z] => y = z
  <2> SUFFICES ASSUME NEW y \in 1..t, NEW z \in 1..t, f[y] = f[z]
               PROVE  y = z
    OBVIOUS
  <2> HIDE DEF f
  <2>1. QED
    BY <1>2
<1>5. f \in [1..t -> P]
  BY <1>2
<1> HIDE DEF f
<1>6. f \in Bijection(1..t, P)
  BY <1>3, <1>4, <1>5 DEF Bijection, Injection, Surjection, IsInjective
<1>7. IsFiniteSet(1..t) /\ Cardinality(1..t) = t
  <2>1. 1 \in Int /\ t \in Int
    OBVIOUS
  <2>2. IsFiniteSet(1..t) /\ Cardinality(1..t) = IF 1 > t THEN 0 ELSE t - 1 + 1
    BY <2>1, FS_Interval, Zenon
  <2>3. QED
    BY <2>2
<1>8. ExistsBijection(1..t, P)
  BY <1>6 DEF ExistsBijection
<1>9. QED
  BY <1>7, <1>8, FS_Bijection DEF P

\* The containers of each node of a profile, and where they are from and to.
Shared(q) == [i \in 1..NodeCount(q) |-> ContainerCount(q, i)]

LEMMA SharedBlocks ==
  ASSUME Control, NEW l \in DOMAIN profiles, Packed(profiles[l])
  PROVE  /\ profiles[l].perNode \in Nat \ {0}
         /\ Total(profiles[l]) \in Nat /\ NodeCount(profiles[l]) \in Nat
         /\ Total(profiles[l]) # 0 => NodeCount(profiles[l]) # 0
         /\ Blocks(profiles[l].perNode, Total(profiles[l]),
                   NodeCount(profiles[l]), Shared(profiles[l]))
<1> DEFINE q == profiles[l]
<1>1. Total(q) \in Nat /\ NodeCount(q) \in Nat /\ q.perNode \in Nat
  BY ProfileNumbers DEF Control
<1>2. \A i \in 1..NodeCount(q) : Density(q)
  BY Counts
<1> HIDE DEF q
<1>3. q.perNode \in Nat \ {0}
  BY <1>1 DEF Packed, q
<1>4. Total(q) # 0 => NodeCount(q) # 0
  <2> SUFFICES ASSUME Total(q) # 0 PROVE NodeCount(q) # 0
    OBVIOUS
  <2>1. NodeCount(q) = Ceil(Total(q), q.perNode)
    BY DEF NodeCount, q
  <2>2. Ceil(Total(q), q.perNode) \in Nat \ {0}
    BY <1>1, <1>3, CeilBounds
  <2>3. QED
    BY <2>1, <2>2
<1>5. ASSUME NEW i \in 1..NodeCount(q)
      PROVE  /\ Shared(q)[i] \in 1..q.perNode
             /\ (i - 1) * q.perNode + Shared(q)[i] =
                  IF i = NodeCount(q) THEN Total(q) ELSE i * q.perNode
  <2>1. Shared(q)[i] = ContainerCount(q, i)
    BY DEF Shared
  <2>2. Density(q)
    BY <1>2
  <2>3. QED
    BY <2>1, <2>2, Shares
<1>6. Blocks(q.perNode, Total(q), NodeCount(q), Shared(q))
  BY <1>5 DEF Blocks
<1>7. QED
  BY <1>1, <1>3, <1>4, <1>6 DEF q

\* When the post-start stage is done, the scripts of a profile have just these
\* containers.
LEMMA PlacedGrid ==
  ASSUME ScaleInv, post = "done", OwnHosts, NEW l \in DOMAIN profiles
  PROVE  /\ Placed(profiles[l]) = Grid(NodeCount(profiles[l]), Shared(profiles[l]))
         /\ \A i \in 1..NodeCount(profiles[l]) :
              \A j \in 1..ContainerCount(profiles[l], i) :
                Container(profiles[l], <<i, j>>) =
                  Script(profiles[l], i, Starts(profiles[l], i))[j]
<1> DEFINE q == profiles[l]
<1>1. \A i \in 1..NodeCount(q) : HasScript(q, i)
  BY DEF ScaleInv, Posted, Written
<1> HIDE DEF q
<1>2. ASSUME NEW i \in 1..NodeCount(q)
      PROVE  /\ files[Hostname(q, i)] = Script(q, i, Starts(q, i))
             /\ DOMAIN files[Hostname(q, i)] = 1..Shared(q)[i]
             /\ Shared(q)[i] = ContainerCount(q, i)
  <2>1. files[Hostname(q, i)] = Script(q, i, Starts(q, i))
    BY <1>1, Zenon DEF HasScript
  <2>2. DOMAIN Script(q, i, Starts(q, i)) = 1..ContainerCount(q, i)
    BY DEF Script
  <2>3. Shared(q)[i] = ContainerCount(q, i)
    BY DEF Shared
  <2>4. QED
    BY <2>1, <2>2, <2>3, Zenon
<1>3. Placed(q) = Grid(NodeCount(q), Shared(q))
  BY <1>2, Zenon DEF Placed, Grid
<1>4. ASSUME NEW i \in 1..NodeCount(q), NEW j \in 1..ContainerCount(q, i)
      PROVE  Container(q, <<i, j>>) = Script(q, i, Starts(q, i))[j]
  <2>1. <<i, j>>[1] = i /\ <<i, j>>[2] = j
    OBVIOUS
  <2>2. QED
    BY <1>2, <2>1, Zenon DEF Container
<1>5. QED
  BY <1>3, <1>4 DEF q

\* A profile that packs no containers has none.
LEMMA NonePlaced ==
  ASSUME ScaleInv, post = "done", OwnHosts, NEW l \in DOMAIN profiles,
         ~Packed(profiles[l])
  PROVE  Placed(profiles[l]) = {}
<1> DEFINE q == profiles[l]
<1>1. Placed(q) = Grid(NodeCount(q), Shared(q))
  BY PlacedGrid
<1>2. \A i \in 1..NodeCount(q) : ContainerCount(q, i) = 0
  BY Counts DEF ScaleInv
<1> HIDE DEF q
<1>3. \A i \in 1..NodeCount(q) : 1..Shared(q)[i] = {}
  BY <1>2 DEF Shared
<1>4. Grid(NodeCount(q), Shared(q)) = {}
  BY <1>3, Zenon DEF Grid
<1>5. QED
  BY <1>1, <1>4 DEF q

\* Node i has its row of the grid.
LEMMA RowSize ==
  ASSUME NEW last, NEW cc, NEW i \in 1..last, cc[i] \in Nat
  PROVE  Cardinality({c \in Grid(last, cc) : c[1] = i}) = cc[i]
<1>1. {c \in Grid(last, cc) : c[1] = i} = {i} \X (1..cc[i])
  BY DEF Grid
<1>2. IsFiniteSet({i}) /\ Cardinality({i}) = 1
  BY FS_Singleton
<1>3. 1 \in Int /\ cc[i] \in Int
  OBVIOUS
<1>4. /\ IsFiniteSet(1..cc[i])
      /\ Cardinality(1..cc[i]) = IF 1 > cc[i] THEN 0 ELSE cc[i] - 1 + 1
  BY <1>3, FS_Interval, Zenon
<1>5. Cardinality({i} \X (1..cc[i])) = Cardinality({i}) * Cardinality(1..cc[i])
  BY <1>2, <1>4, FS_Product, Zenon
<1> DEFINE k == cc[i]
<1>6. k \in Nat /\ Cardinality(1..cc[i]) = IF 1 > k THEN 0 ELSE k - 1 + 1
  BY <1>4
<1> HIDE DEF k
<1>7. Cardinality(1..cc[i]) = k
  BY <1>6
<1>8. 1 * k = k
  BY <1>6
<1>9. Cardinality({i} \X (1..cc[i])) = k
  BY <1>2, <1>5, <1>7, <1>8, Zenon
<1>10. QED
  BY <1>1, <1>9, Zenon DEF k

\* The parts of the turbines, in the order of the containers, are all parts of
\* all turbines.
LEMMA EveryPart ==
  ASSUME ScaleInv, post = "done", OwnHosts, NEW l \in DOMAIN profiles,
         Wind(profiles[l]), Packed(profiles[l])
  PROVE  {Container(profiles[l], c).part : c \in Placed(profiles[l])} =
           [turbine : 1..profiles[l].count, component : Components]
<1> DEFINE q == profiles[l]
           m == q.perNode
           t == Total(q)
           last == NodeCount(q)
           cc == Shared(q)
           P == Placed(q)
           parts == [turbine : 1..q.count, component : Components]
<1>1. /\ m \in Nat \ {0} /\ t \in Nat /\ last \in Nat /\ (t # 0 => last # 0)
      /\ Blocks(m, t, last, cc)
  BY SharedBlocks DEF ScaleInv
<1>2. q.count \in Nat /\ t = q.count * 6
  BY ProfileNumbers, SixComponents DEF Total, ScaleInv, Control
<1>3. P = Grid(last, cc)
  BY PlacedGrid
<1>4. ASSUME NEW i \in 1..last, NEW j \in 1..cc[i]
      PROVE  Container(q, <<i, j>>).part = Part(q, i, j)
  <2>1. cc[i] = ContainerCount(q, i)
    BY DEF Shared
  <2>2. j \in 1..ContainerCount(q, i)
    BY <2>1
  <2>3. Container(q, <<i, j>>) = Script(q, i, Starts(q, i))[j]
    BY <2>2, PlacedGrid
  <2>4. Fits(Script(q, i, Starts(q, i)), q, i)
    BY ScriptFits
  <2>5. QED
    BY <2>2, <2>3, <2>4 DEF Fits
<1>5. \A i, j : Part(q, i, j) =
        [turbine |-> ((i - 1) * m + j - 1) \div 6 + 1,
         component |-> ((i - 1) * m + j - 1) % 6]
  BY SixComponents DEF Part
<1> HIDE DEF P, q, m, t, last, cc
<1>6. ASSUME NEW y \in 1..t
      PROVE  \E i \in 1..last : \E j \in 1..cc[i] : y = (i - 1) * m + j
  <2>1. m \in Nat \ {0} /\ t \in Nat /\ last \in Nat
    BY <1>1
  <2>2. Blocks(m, t, last, cc) /\ (t # 0 => last # 0)
    BY <1>1
  <2>3. \E i \in 1..last : \E j \in 1..cc[i] :
          /\ y = (i - 1) * m + j
          /\ i = (y - 1) \div m + 1 /\ j = ((y - 1) % m) + 1
    BY <2>1, <2>2, Reached
  <2>4. QED
    BY <2>3
<1>7. ASSUME NEW c \in P
      PROVE  Container(q, c).part \in parts
  <2>1. PICK i \in 1..last : \E j \in 1..cc[i] : c = <<i, j>>
    BY <1>3 DEF Grid
  <2>2. PICK j \in 1..cc[i] : c = <<i, j>>
    BY <2>1
  <2> DEFINE g == (i - 1) * m + j - 1
             y == (i - 1) * m + j
             d == g \div 6
             e == g % 6
             h == q.count
  <2>3. y \in 1..t
    BY <1>1, Ranked
  <2>4. g = y - 1
    <3>1. j \in Int /\ (i - 1) * m \in Int
      BY <1>1, SMT DEF Blocks
    <3>2. QED
      BY <3>1
  <2>5. Container(q, c).part = [turbine |-> d + 1, component |-> e]
    BY <1>4, <1>5, <2>2
  <2>6. h \in Nat /\ t = h * 6
    BY <1>2
  <2> HIDE DEF g, y, h
  <2>7. g \in Nat /\ g < h * 6
    BY <1>1, <2>3, <2>4, <2>6
  <2>8. d \in Nat /\ e \in 0..5 /\ g = d * 6 + e
    BY <2>7, SMT
  <2> HIDE DEF d, e
  <2>9. d + 1 \in 1..h /\ e \in Components
    BY <2>6, <2>7, <2>8 DEF Components
  <2>10. QED
    BY <2>5, <2>9 DEF h
<1>8. ASSUME NEW x \in parts
      PROVE  \E c \in P : Container(q, c).part = x
  <2> DEFINE d == x.turbine - 1
             e == x.component
             g == d * 6 + e
             y == g + 1
             h == q.count
  <2>1. d \in Nat /\ d + 1 <= h /\ e \in 0..5 /\ h \in Nat
    BY <1>2 DEF Components
  <2>2. x = [turbine |-> d + 1, component |-> e]
    BY <1>2
  <2> HIDE DEF d, e
  <2>3. g \in Nat /\ y \in 1..t /\ y = g + 1
    BY <1>2, <2>1 DEF h
  <2>4. g \div 6 = d /\ g % 6 = e
    BY <2>1, SMT
  <2> HIDE DEF g, y
  <2>5. PICK i \in 1..last : \E j \in 1..cc[i] : y = (i - 1) * m + j
    BY <1>6, <2>3
  <2>6. PICK j \in 1..cc[i] : y = (i - 1) * m + j
    BY <2>5
  <2>7. (i - 1) * m + j - 1 = g
    <3>1. j \in Int /\ (i - 1) * m \in Int
      BY <1>1, SMT DEF Blocks
    <3>2. QED
      BY <2>3, <2>6, <3>1
  <2>8. Container(q, <<i, j>>).part = x
    BY <1>4, <1>5, <2>2, <2>4, <2>7
  <2>9. <<i, j>> \in P
    BY <1>3 DEF Grid
  <2>10. QED
    BY <2>8, <2>9
<1>9. {Container(q, c).part : c \in P} = parts
  BY <1>7, <1>8, Zenon
<1>10. QED
  BY <1>9 DEF P, q

\* The scripts have just the containers that the metadata asks for, shared by
\* the nodes within their density, however the stages were cut short or repeated.
THEOREM EveryContainerHolds == Spec => []EveryContainer
<1>1. ScaleInv => EveryContainer
  <2> SUFFICES ASSUME ScaleInv, post = "done", OwnHosts,
                      NEW l \in DOMAIN profiles
               PROVE  LET q == profiles[l]
                          placed == Placed(q)
                      IN  /\ \A i \in 1..NodeCount(q) :
                               Cardinality({c \in placed : c[1] = i})
                                 \in IF Packed(q) THEN 1..q.perNode ELSE {0}
                          /\ Cardinality(placed) =
                               IF Packed(q) THEN Total(q) ELSE 0
                          /\ Wind(q) /\ Packed(q) =>
                               {Container(q, c).part : c \in placed} =
                                 [turbine : 1..q.count, component : Components]
    BY Zenon DEF EveryContainer
  <2> DEFINE q == profiles[l]
             P == Placed(q)
  <2>1. Wind(q) /\ Packed(q) =>
          {Container(q, c).part : c \in P} =
            [turbine : 1..q.count, component : Components]
    BY EveryPart
  <2>2. CASE Packed(q)
    <3>1. /\ q.perNode \in Nat \ {0} /\ Total(q) \in Nat /\ NodeCount(q) \in Nat
          /\ Total(q) # 0 => NodeCount(q) # 0
          /\ Blocks(q.perNode, Total(q), NodeCount(q), Shared(q))
      BY <2>2, SharedBlocks DEF ScaleInv
    <3>2. P = Grid(NodeCount(q), Shared(q))
      BY PlacedGrid
    <3> HIDE DEF q, P
    <3>3. Cardinality(P) = Total(q)
      BY <3>1, <3>2, GridSize
    <3>4. ASSUME NEW i \in 1..NodeCount(q)
          PROVE  Cardinality({c \in P : c[1] = i}) \in 1..q.perNode
      <4>1. Shared(q)[i] \in 1..q.perNode
        BY <3>1 DEF Blocks
      <4>2. Shared(q)[i] \in Nat
        BY <3>1, <4>1
      <4>3. Cardinality({c \in P : c[1] = i}) = Shared(q)[i]
        BY <3>2, <4>2, RowSize, Zenon
      <4>4. QED
        BY <4>1, <4>3, Zenon
    <3>5. QED
      BY <2>1, <2>2, <3>3, <3>4, Zenon DEF P, q
  <2>3. CASE ~Packed(q)
    <3>1. P = {}
      BY <2>3, NonePlaced
    <3> HIDE DEF q, P
    <3>2. Cardinality(P) = 0
      BY <3>1, FS_EmptySet, Zenon
    <3>3. ASSUME NEW i \in 1..NodeCount(q)
          PROVE  Cardinality({c \in P : c[1] = i}) \in {0}
      <4>1. {c \in P : c[1] = i} = {}
        BY <3>1
      <4>2. QED
        BY <4>1, FS_EmptySet, Zenon
    <3>4. QED
      BY <2>3, <3>2, <3>3, Zenon DEF P, q
  <2>4. QED
    BY <2>2, <2>3
<1>2. QED
  BY <1>1, ScaleInvHolds, PTL

----------------------------------------------------------------------------
(* Their addresses *)

\* What the templates give to the container of a script.
LEMMA ContainerAddresses ==
  ASSUME ScaleInv, post = "done", OwnHosts, NEW l \in DOMAIN profiles,
         NEW i \in 1..NodeCount(profiles[l]),
         NEW j \in 1..ContainerCount(profiles[l], i)
  PROVE  Container(profiles[l], <<i, j>>).addresses =
           IF Wind(profiles[l])
           THEN WindAddresses(profiles[l], Part(profiles[l], i, j))
           ELSE BuiltinAddresses(profiles[l], j, Starts(profiles[l], i))
<1> DEFINE q == profiles[l]
<1>1. Container(q, <<i, j>>) = Script(q, i, Starts(q, i))[j]
  BY PlacedGrid
<1> HIDE DEF q
<1>2. j \in 1..ContainerCount(q, i)
  BY DEF q
<1>3. Script(q, i, Starts(q, i))[j].addresses =
        IF Wind(q) THEN WindAddresses(q, Part(q, i, j))
        ELSE BuiltinAddresses(q, j, Starts(q, i))
  BY <1>2 DEF Script
<1>4. QED
  BY <1>1, <1>3 DEF q

\* The builtin plugin: the container with rank r has the r-th address of each
\* network.
Rank(q, i, j) == (i - 1) * q.perNode + j

LEMMA RankAddresses ==
  ASSUME ScaleInv, post = "done", OwnHosts, NEW l \in DOMAIN profiles,
         ~Wind(profiles[l]), Packed(profiles[l]),
         NEW i \in 1..NodeCount(profiles[l]),
         NEW j \in 1..ContainerCount(profiles[l], i)
  PROVE  Container(profiles[l], <<i, j>>).addresses =
           {<<<<"external", NetInfo(profiles[l])[m].name>>,
              NetInfo(profiles[l])[m].address + Rank(profiles[l], i, j)>> :
             m \in DOMAIN NetInfo(profiles[l])}
<1> DEFINE q == profiles[l]
           nets == NetInfo(q)
           b == (i - 1) * q.perNode
<1>1. Container(q, <<i, j>>).addresses = BuiltinAddresses(q, j, Starts(q, i))
  BY ContainerAddresses
<1>2. /\ \A m \in DOMAIN nets : nets[m].address \in Nat
      /\ q.perNode \in Nat
  BY ProfileNumbers DEF ScaleInv, Control
<1>3. Share(q) = q.perNode
  BY DEF Share
<1>4. b \in Int /\ j \in Int
  <2>1. i - 1 \in Int
    OBVIOUS
  <2>2. b \in Int
    BY <1>2, <2>1, SMT
  <2>3. QED
    BY <2>2, ProfileNumbers, Counts
<1>5. Starts(q, i) = [m \in DOMAIN nets |-> nets[m].address + b]
  BY <1>3 DEF Starts
<1>6. BuiltinAddresses(q, j, Starts(q, i)) =
        {<<<<"external", nets[m].name>>, Starts(q, i)[m] + j>> : m \in DOMAIN nets}
  BY <1>5 DEF BuiltinAddresses
<1> HIDE DEF nets, b, q
<1>7. \A m \in DOMAIN nets : Starts(q, i)[m] + j = nets[m].address + (b + j)
  BY <1>2, <1>4, <1>5
<1>8. b + j = Rank(q, i, j)
  BY DEF Rank, b
<1>9. Container(q, <<i, j>>).addresses =
        {<<<<"external", nets[m].name>>, nets[m].address + Rank(q, i, j)>> :
           m \in DOMAIN nets}
  BY <1>1, <1>6, <1>7, <1>8
<1>10. QED
  BY <1>9 DEF nets, q

\* The containers of a profile that has some have a rank each, from 1 on.
LEMMA Ranks ==
  ASSUME ScaleInv, NEW l \in DOMAIN profiles, Packed(profiles[l]),
         NEW i \in 1..NodeCount(profiles[l]),
         NEW j \in 1..ContainerCount(profiles[l], i)
  PROVE  /\ Rank(profiles[l], i, j) \in 1..Total(profiles[l])
         /\ i = (Rank(profiles[l], i, j) - 1) \div profiles[l].perNode + 1
         /\ j = ((Rank(profiles[l], i, j) - 1) % profiles[l].perNode) + 1
<1> DEFINE q == profiles[l]
           m == q.perNode
           t == Total(q)
           last == NodeCount(q)
           cc == Shared(q)
<1>1. m \in Nat \ {0} /\ t \in Nat /\ last \in Nat
  BY SharedBlocks DEF ScaleInv
<1>2. Blocks(m, t, last, cc)
  BY SharedBlocks DEF ScaleInv
<1>3. j \in 1..cc[i] /\ i \in 1..last
  BY DEF Shared
<1>4. Rank(q, i, j) = (i - 1) * m + j
  BY DEF Rank
<1> HIDE DEF q, m, t, last, cc
<1>5. /\ (i - 1) * m + j \in 1..t
      /\ ((i - 1) * m + j - 1) \div m + 1 = i
      /\ (((i - 1) * m + j - 1) % m) + 1 = j
  BY <1>1, <1>2, <1>3, Ranked
<1>6. (i - 1) * m + j - 1 = Rank(q, i, j) - 1
  <2>1. j \in Int /\ (i - 1) * m \in Int
    BY <1>1, <1>2, <1>3, SMT DEF Blocks
  <2>2. QED
    BY <1>4, <2>1
<1>7. /\ Rank(q, i, j) \in 1..t
      /\ i = (Rank(q, i, j) - 1) \div m + 1
      /\ j = ((Rank(q, i, j) - 1) % m) + 1
  BY <1>4, <1>5, <1>6, Zenon
<1>8. QED
  BY <1>7, Zenon DEF q, m, t

\* Each rank is the one of a container.
LEMMA EveryRank ==
  ASSUME ScaleInv, NEW l \in DOMAIN profiles, Packed(profiles[l]),
         NEW y \in 1..Total(profiles[l])
  PROVE  \E i \in 1..NodeCount(profiles[l]) :
           \E j \in 1..ContainerCount(profiles[l], i) : y = Rank(profiles[l], i, j)
<1> DEFINE q == profiles[l]
           m == q.perNode
           t == Total(q)
           last == NodeCount(q)
           cc == Shared(q)
<1>1. m \in Nat \ {0} /\ t \in Nat /\ last \in Nat
  BY SharedBlocks DEF ScaleInv
<1>2. Blocks(m, t, last, cc) /\ (t # 0 => last # 0)
  BY SharedBlocks DEF ScaleInv
<1>3. \A i \in 1..last : cc[i] = ContainerCount(q, i)
  BY DEF Shared
<1>4. y \in 1..t
  OBVIOUS
<1> HIDE DEF q, m, t, last, cc
<1>5. \E i \in 1..last : \E j \in 1..cc[i] :
        /\ y = (i - 1) * m + j
        /\ i = (y - 1) \div m + 1 /\ j = ((y - 1) % m) + 1
  BY <1>1, <1>2, <1>4, Reached
<1>6. PICK i \in 1..last : \E j \in 1..cc[i] : y = (i - 1) * m + j
  BY <1>5
<1>7. PICK j \in 1..cc[i] : y = (i - 1) * m + j
  BY <1>6
<1>8. j \in 1..ContainerCount(q, i)
  BY <1>3, <1>7
<1>9. y = Rank(q, i, j)
  BY <1>7 DEF Rank, m
<1>10. QED
  BY <1>8, <1>9 DEF q, last

\* Where a container is.
LEMMA PlacedAt ==
  ASSUME ScaleInv, post = "done", OwnHosts, NEW l \in DOMAIN profiles, NEW c
  PROVE  c \in Placed(profiles[l]) <=>
           \E i \in 1..NodeCount(profiles[l]) :
             \E j \in 1..ContainerCount(profiles[l], i) : c = <<i, j>>
<1> DEFINE q == profiles[l]
<1>1. Placed(q) = Grid(NodeCount(q), Shared(q))
  BY PlacedGrid
<1> HIDE DEF q
<1>2. \A i \in 1..NodeCount(q) : Shared(q)[i] = ContainerCount(q, i)
  BY DEF Shared
<1>3. c \in Placed(q) <=>
        \E i \in 1..NodeCount(q) : \E j \in 1..Shared(q)[i] : c = <<i, j>>
  BY <1>1 DEF Grid
<1>4. QED
  BY <1>2, <1>3 DEF q

\* A container is placed in a profile that packs some.
LEMMA PlacedPacked ==
  ASSUME ScaleInv, post = "done", OwnHosts, NEW l \in DOMAIN profiles,
         NEW c \in Placed(profiles[l])
  PROVE  Packed(profiles[l])
BY NonePlaced

LEMMA BuiltinOwn ==
  ASSUME ScaleInv, post = "done", OwnHosts, NEW l \in DOMAIN profiles,
         ~Wind(profiles[l]), OwnNetworks(profiles[l]),
         NEW c \in Placed(profiles[l]), NEW d \in Placed(profiles[l]), c # d
  PROVE  Container(profiles[l], c).addresses
           \cap Container(profiles[l], d).addresses = {}
<1> DEFINE q == profiles[l]
           nets == NetInfo(q)
<1>1. Packed(q)
  BY PlacedPacked
<1>2. PICK i \in 1..NodeCount(q) : \E j \in 1..ContainerCount(q, i) : c = <<i, j>>
  BY PlacedAt
<1>3. PICK j \in 1..ContainerCount(q, i) : c = <<i, j>>
  BY <1>2
<1>4. PICK k \in 1..NodeCount(q) : \E h \in 1..ContainerCount(q, k) : d = <<k, h>>
  BY PlacedAt
<1>5. PICK h \in 1..ContainerCount(q, k) : d = <<k, h>>
  BY <1>4
<1> DEFINE r == Rank(q, i, j)
           s == Rank(q, k, h)
<1>6. /\ Container(q, c).addresses =
           {<<<<"external", nets[m].name>>, nets[m].address + r>> : m \in DOMAIN nets}
      /\ Container(q, d).addresses =
           {<<<<"external", nets[m].name>>, nets[m].address + s>> : m \in DOMAIN nets}
  BY <1>1, <1>3, <1>5, RankAddresses
<1>7. /\ \A m \in DOMAIN nets : nets[m].address \in Nat
      /\ \A m, e \in DOMAIN nets : nets[m].name = nets[e].name => m = e
  BY ProfileNumbers DEF OwnNetworks, ScaleInv, Control
<1>8. Total(q) \in Nat
  BY ProfileNumbers DEF ScaleInv, Control
<1>9. r \in 1..Total(q) /\ s \in 1..Total(q)
  BY <1>1, Ranks
<1>10. r # s
  BY <1>1, <1>3, <1>5, Ranks
<1> HIDE DEF q, nets, r, s
<1>11. \A m, e \in DOMAIN nets :
         <<<<"external", nets[m].name>>, nets[m].address + r>> #
           <<<<"external", nets[e].name>>, nets[e].address + s>>
  BY <1>7, <1>8, <1>9, <1>10
<1>12. Container(q, c).addresses \cap Container(q, d).addresses = {}
  BY <1>6, <1>11, Zenon
<1>13. QED
  BY <1>12 DEF q

\* The addresses of a network are the ones that follow its first, one for each.
LEMMA BuiltinRow ==
  ASSUME ScaleInv, post = "done", OwnHosts, NEW l \in DOMAIN profiles,
         ~Wind(profiles[l]), OwnNetworks(profiles[l]),
         NEW m \in DOMAIN NetInfo(profiles[l])
  PROVE  LET q == profiles[l]
             w == NetInfo(q)[m]
             all == UNION {Container(q, c).addresses : c \in Placed(q)}
         IN  {a[2] : a \in {b \in all : b[1] = <<"external", w.name>>}} =
               (w.address + 1)..(w.address + Cardinality(Placed(q)))
<1> DEFINE q == profiles[l]
           nets == NetInfo(q)
           w == nets[m]
           P == Placed(q)
           all == UNION {Container(q, c).addresses : c \in P}
           row == {a[2] : a \in {b \in all : b[1] = <<"external", w.name>>}}
           t == Cardinality(P)
<1>1. /\ w.address \in Nat
      /\ \A k \in DOMAIN nets : nets[k].address \in Nat
      /\ \A k \in DOMAIN nets : nets[k].name = w.name => k = m
  BY ProfileNumbers DEF OwnNetworks, ScaleInv, Control
<1>2. CASE ~Packed(q)
  <2>1. P = {}
    BY <1>2, NonePlaced
  <2> HIDE DEF P, q
  <2>2. t = 0
    BY <2>1, FS_EmptySet, Zenon
  <2>3. row = {}
    BY <2>1
  <2>4. (w.address + 1)..(w.address + t) = {}
    BY <1>1, <2>2
  <2>5. QED
    BY <2>3, <2>4, Zenon DEF P, q
<1>3. CASE Packed(q)
  <2>1. t = Total(q) /\ t \in Nat
    <3>1. /\ q.perNode \in Nat \ {0} /\ Total(q) \in Nat /\ NodeCount(q) \in Nat
          /\ Total(q) # 0 => NodeCount(q) # 0
          /\ Blocks(q.perNode, Total(q), NodeCount(q), Shared(q))
      BY <1>3, SharedBlocks DEF ScaleInv
    <3>2. P = Grid(NodeCount(q), Shared(q))
      BY PlacedGrid
    <3> HIDE DEF q, P
    <3>3. Cardinality(P) = Total(q)
      BY <3>1, <3>2, GridSize
    <3>4. QED
      BY <3>1, <3>3
  <2>2. ASSUME NEW i \in 1..NodeCount(q), NEW j \in 1..ContainerCount(q, i)
        PROVE  /\ Container(q, <<i, j>>).addresses =
                    {<<<<"external", nets[k].name>>, nets[k].address + Rank(q, i, j)>> :
                       k \in DOMAIN nets}
               /\ Rank(q, i, j) \in 1..t
    <3>1. Rank(q, i, j) \in 1..Total(q)
      BY <1>3, Ranks
    <3>2. QED
      BY <1>3, <2>1, <3>1, RankAddresses
  <2>3. \A y \in 1..t : \E i \in 1..NodeCount(q) :
          \E j \in 1..ContainerCount(q, i) : y = Rank(q, i, j)
    BY <1>3, <2>1, EveryRank
  <2>4. \A c : c \in P <=>
          \E i \in 1..NodeCount(q) : \E j \in 1..ContainerCount(q, i) : c = <<i, j>>
    BY PlacedAt
  <2>5. m \in DOMAIN nets
    OBVIOUS
  <2> HIDE DEF q, nets, t, P
  <2>6. ASSUME NEW x \in row
        PROVE  x \in (w.address + 1)..(w.address + t)
    <3>1. PICK a \in all : a[1] = <<"external", w.name>> /\ x = a[2]
      OBVIOUS
    <3>2. PICK c \in P : a \in Container(q, c).addresses
      BY <3>1
    <3>3. PICK i \in 1..NodeCount(q) : \E j \in 1..ContainerCount(q, i) : c = <<i, j>>
      BY <2>4
    <3>4. PICK j \in 1..ContainerCount(q, i) : c = <<i, j>>
      BY <3>3
    <3>5. PICK k \in DOMAIN nets :
            a = <<<<"external", nets[k].name>>, nets[k].address + Rank(q, i, j)>>
      BY <2>2, <3>2, <3>4
    <3>6. nets[k].name = w.name
      BY <3>1, <3>5
    <3>7. k = m
      BY <1>1, <3>6
    <3>8. x = w.address + Rank(q, i, j) /\ Rank(q, i, j) \in 1..t
      BY <2>2, <3>1, <3>5, <3>7
    <3>9. QED
      BY <1>1, <2>1, <3>8
  <2>7. ASSUME NEW x \in (w.address + 1)..(w.address + t)
        PROVE  x \in row
    <3>1. x - w.address \in 1..t /\ x = w.address + (x - w.address)
      BY <1>1, <2>1
    <3>2. PICK i \in 1..NodeCount(q) :
            \E j \in 1..ContainerCount(q, i) : x - w.address = Rank(q, i, j)
      BY <2>3, <3>1
    <3>3. PICK j \in 1..ContainerCount(q, i) : x - w.address = Rank(q, i, j)
      BY <3>2
    <3> DEFINE a == <<<<"external", w.name>>, w.address + Rank(q, i, j)>>
    <3>4. a \in Container(q, <<i, j>>).addresses
      BY <2>2, <2>5
    <3>5. <<i, j>> \in P
      BY <2>4
    <3>6. a \in all
      BY <3>4, <3>5
    <3>7. a[1] = <<"external", w.name>> /\ a[2] = x
      BY <3>1, <3>3
    <3> HIDE DEF a
    <3>8. QED
      BY <3>6, <3>7
  <2>8. row = (w.address + 1)..(w.address + t)
    BY <2>6, <2>7, Zenon
  <2>9. QED
    BY <2>8, Zenon DEF q, nets, t, P
<1>4. QED
  BY <1>2, <1>3

\* The wind_turbine plugin: a component has its number on the network of its
\* turbine, and the main controller the address of the turbine on the external
\* network; with no VLAN for that, it has that address on the network of its
\* turbine.
LEMMA PartAddresses ==
  ASSUME NEW q, NEW x, NEW a \in WindAddresses(q, x)
  PROVE  \/ /\ ~(x.component = 0 /\ q.ext.name \notin Vlans)
            /\ a = <<<<"turbine", x.turbine>>, x.component>>
         \/ /\ x.component = 0 /\ q.ext.name \notin Vlans
            /\ a = <<<<"turbine", x.turbine>>, ExtStart(q.ext) + x.turbine - 1>>
         \/ /\ x.component = 0
            /\ a = <<<<"external", q.ext.name>>, ExtStart(q.ext) + x.turbine - 1>>
<1> DEFINE own == <<"turbine", x.turbine>>
           out == <<"external", q.ext.name>>
           e == ExtStart(q.ext) + x.turbine - 1
<1>1. CASE x.component # 0
  <2>1. a \in Assign(<<own>>, <<x.component>>)
    BY <1>1 DEF WindAddresses
  <2> HIDE DEF own
  <2>2. a = <<own, x.component>>
    BY <2>1 DEF Assign
  <2>3. QED
    BY <1>1, <2>2 DEF own
<1>2. CASE x.component = 0 /\ q.ext.name \notin Vlans
  <2>1. a \in Assign(<<>> \o <<own>>, <<e, 0>>)
    BY <1>2 DEF WindAddresses
  <2> HIDE DEF own, e
  <2>2. <<>> \o <<own>> = <<own>>
    OBVIOUS
  <2>3. a = <<own, e>>
    BY <2>1, <2>2 DEF Assign
  <2>4. QED
    BY <1>2, <2>3 DEF own, e
<1>3. CASE x.component = 0 /\ q.ext.name \in Vlans
  <2>1. a \in Assign(<<out>> \o <<own>>, <<e, 0>>)
    BY <1>3 DEF WindAddresses
  <2> HIDE DEF own, out, e
  <2> DEFINE nets == <<out>> \o <<own>>
  <2>2. DOMAIN nets = 1..2 /\ nets[1] = out /\ nets[2] = own
    <3>1. <<out>> \in Seq({out, own}) /\ <<own>> \in Seq({out, own})
      OBVIOUS
    <3>2. nets \in Seq({out, own}) /\ Len(nets) = 2
      BY <3>1
    <3>3. QED
      BY <3>1, <3>2
  <2> HIDE DEF nets
  <2>3. a = <<out, e>> \/ a = <<own, 0>>
    <3>1. PICK k \in 1..2 : a = <<nets[k], <<e, 0>>[k]>>
      BY <2>1, <2>2 DEF Assign, nets
    <3>2. QED
      BY <2>2, <3>1
  <2>4. QED
    BY <1>3, <2>3 DEF own, out, e
<1>4. QED
  BY <1>1, <1>2, <1>3

LEMMA WindOwn ==
  ASSUME ScaleInv, post = "done", OwnHosts, NEW l \in DOMAIN profiles,
         Wind(profiles[l]), OwnNetworks(profiles[l]),
         NEW c \in Placed(profiles[l]), NEW d \in Placed(profiles[l]), c # d
  PROVE  Container(profiles[l], c).addresses
           \cap Container(profiles[l], d).addresses = {}
<1> DEFINE q == profiles[l]
<1>1. Packed(q)
  BY PlacedPacked
<1>2. PICK i \in 1..NodeCount(q) : \E j \in 1..ContainerCount(q, i) : c = <<i, j>>
  BY PlacedAt
<1>3. PICK j \in 1..ContainerCount(q, i) : c = <<i, j>>
  BY <1>2
<1>4. PICK k \in 1..NodeCount(q) : \E h \in 1..ContainerCount(q, k) : d = <<k, h>>
  BY PlacedAt
<1>5. PICK h \in 1..ContainerCount(q, k) : d = <<k, h>>
  BY <1>4
<1> DEFINE x == Part(q, i, j)
           z == Part(q, k, h)
           e == ExtStart(q.ext)
           r == Rank(q, i, j)
           s == Rank(q, k, h)
<1>6. /\ Container(q, c).addresses = WindAddresses(q, x)
      /\ Container(q, d).addresses = WindAddresses(q, z)
  BY <1>3, <1>5, ContainerAddresses
<1>7. e \in Nat /\ (q.ext.name \notin Vlans => e > 5)
  BY DEF OwnNetworks
<1>8. Total(q) \in Nat
  BY ProfileNumbers DEF ScaleInv, Control
<1>9. r \in 1..Total(q) /\ s \in 1..Total(q) /\ r # s
  BY <1>1, <1>3, <1>5, Ranks
<1>10. /\ x = [turbine |-> (r - 1) \div 6 + 1, component |-> (r - 1) % 6]
       /\ z = [turbine |-> (s - 1) \div 6 + 1, component |-> (s - 1) % 6]
  <2>1. q.perNode \in Nat
    BY ProfileNumbers DEF ScaleInv, Control
  <2> DEFINE a == (i - 1) * q.perNode
             b == (k - 1) * q.perNode
  <2>2. a \in Int /\ b \in Int /\ j \in Int /\ h \in Int
    <3>1. i - 1 \in Int /\ k - 1 \in Int
      OBVIOUS
    <3>2. a \in Int /\ b \in Int
      BY <2>1, <3>1, SMT
    <3>3. QED
      BY <3>2
  <2>3. r = a + j /\ s = b + h
    BY DEF Rank
  <2>4. /\ x = [turbine |-> (a + j - 1) \div 6 + 1, component |-> (a + j - 1) % 6]
        /\ z = [turbine |-> (b + h - 1) \div 6 + 1, component |-> (b + h - 1) % 6]
    BY SixComponents DEF Part
  <2> HIDE DEF a, b, r, s, x, z, q
  <2>5. a + j - 1 = r - 1 /\ b + h - 1 = s - 1
    BY <2>2, <2>3
  <2>6. QED
    BY <2>4, <2>5
<1> HIDE DEF q, r, s, x, z, e
<1>11. /\ x.turbine \in Nat \ {0} /\ x.component \in 0..5
       /\ z.turbine \in Nat \ {0} /\ z.component \in 0..5
       /\ x.turbine # z.turbine \/ x.component # z.component
  <2> DEFINE a == (r - 1) \div 6
             b == (s - 1) \div 6
             g == (r - 1) % 6
             y == (s - 1) % 6
  <2>1. r - 1 \in Nat /\ s - 1 \in Nat /\ r \in Nat /\ s \in Nat
    BY <1>8, <1>9
  <2>2. /\ a \in Nat /\ g \in 0..5 /\ r - 1 = a * 6 + g
        /\ b \in Nat /\ y \in 0..5 /\ s - 1 = b * 6 + y
    BY <2>1, SMT
  <2>3. /\ x = [turbine |-> a + 1, component |-> g]
        /\ z = [turbine |-> b + 1, component |-> y]
    BY <1>10
  <2> HIDE DEF a, b, g, y
  <2>4. a # b \/ g # y
    BY <1>9, <2>1, <2>2
  <2>5. QED
    BY <2>2, <2>3, <2>4
<1>12. ASSUME NEW a \in WindAddresses(q, x), a \in WindAddresses(q, z)
       PROVE  FALSE
  <2>1. \/ /\ ~(x.component = 0 /\ q.ext.name \notin Vlans)
           /\ a = <<<<"turbine", x.turbine>>, x.component>>
        \/ /\ x.component = 0 /\ q.ext.name \notin Vlans
           /\ a = <<<<"turbine", x.turbine>>, e + x.turbine - 1>>
        \/ /\ x.component = 0
           /\ a = <<<<"external", q.ext.name>>, e + x.turbine - 1>>
    BY PartAddresses DEF e
  <2>2. \/ /\ ~(z.component = 0 /\ q.ext.name \notin Vlans)
           /\ a = <<<<"turbine", z.turbine>>, z.component>>
        \/ /\ z.component = 0 /\ q.ext.name \notin Vlans
           /\ a = <<<<"turbine", z.turbine>>, e + z.turbine - 1>>
        \/ /\ z.component = 0
           /\ a = <<<<"external", q.ext.name>>, e + z.turbine - 1>>
    BY <1>12, PartAddresses DEF e
  <2>3. QED
    BY <1>7, <1>11, <2>1, <2>2
<1>13. WindAddresses(q, x) \cap WindAddresses(q, z) = {}
  BY <1>12, Zenon
<1>14. QED
  BY <1>6, <1>13, Zenon DEF q

\* No two containers of a profile have an address in common, however the stages
\* were cut short or repeated, when its networks have names of their own and a
\* main controller that stays on the network of its turbine has an address beyond
\* those of the other components.
THEOREM OwnAddressesHolds ==
  ASSUME \A s \in Scenarios : \A k \in DOMAIN s : OwnNetworks(s[k])
  PROVE  Spec => []OwnAddresses
<1>1. ScaleInv => OwnAddresses
  <2> SUFFICES ASSUME ScaleInv, post = "done", OwnHosts,
                      NEW l \in DOMAIN profiles
               PROVE  LET q == profiles[l]
                          placed == Placed(q)
                          all == UNION {Container(q, c).addresses : c \in placed}
                      IN  /\ \A c, d \in placed :
                               c # d => Container(q, c).addresses
                                          \cap Container(q, d).addresses = {}
                          /\ ~Wind(q) =>
                               \A m \in DOMAIN NetInfo(q) :
                                 LET w == NetInfo(q)[m]
                                 IN  {a[2] : a \in {b \in all :
                                        b[1] = <<"external", w.name>>}} =
                                       (w.address + 1)..(w.address + Cardinality(placed))
    BY Zenon DEF OwnAddresses
  <2>1. OwnNetworks(profiles[l])
    BY Zenon DEF ScaleInv, Control
  <2>2. \A c, d \in Placed(profiles[l]) :
          c # d => Container(profiles[l], c).addresses
                     \cap Container(profiles[l], d).addresses = {}
    BY <2>1, BuiltinOwn, WindOwn, Zenon
  <2>3. QED
    BY <2>1, <2>2, BuiltinRow, Zenon
<1>2. QED
  BY <1>1, ScaleInvHolds, PTL

----------------------------------------------------------------------------
(* To configure again.  What add_inject leaves of a list depends on each of *)
(* its calls: that is shown by induction on their number.                   *)

\* A set of numbers has a least one.
LEMMA Least ==
  ASSUME NEW T \in SUBSET Nat, T # {}
  PROVE  \E x \in T : \A y \in T : x <= y
<1> DEFINE R == OpToRel(<, Nat)
<1>1. IsWellFoundedOn(R, Nat)
  BY NatLessThanWellFounded
<1>2. \A x, y \in Nat : <<y, x>> \in R <=> y < x
  BY DEF OpToRel
<1> HIDE DEF R
<1>3. PICK x \in T : \A y \in T : ~(<<y, x>> \in R)
  BY <1>1, WFMin
<1>4. ASSUME NEW y \in T PROVE x <= y
  <2>1. x \in Nat /\ y \in Nat
    OBVIOUS
  <2>2. ~(y < x)
    BY <1>2, <1>3, <2>1, Zenon
  <2>3. QED
    BY <2>1, <2>2
<1>5. QED
  BY <1>4

\* So one that has 0, and what follows each of its members, has them all.
LEMMA Inductive ==
  ASSUME NEW T \in SUBSET Nat, 0 \in T, \A x \in T : x + 1 \in T
  PROVE  T = Nat
<1> SUFFICES ASSUME Nat \ T # {} PROVE FALSE
  OBVIOUS
<1>1. PICK x \in Nat \ T : \A y \in Nat \ T : x <= y
  BY Least
<1>2. x - 1 \in T
  BY <1>1
<1>3. QED
  BY <1>1, <1>2

\* r has the entry x.
Lists(r, x) == \E e \in DOMAIN r : r[e] = x
AddOne(r, x) == IF Lists(r, x) THEN r ELSE Append(r, x)

\* The list after each call, as f[m].
Calls(s, new, last, f) ==
  f = [m \in 0..last |-> IF m = 0 THEN s ELSE AddOne(f[m - 1], new[m])]

LEMMA CallsExist ==
  ASSUME NEW s, NEW new, NEW last \in Nat
  PROVE  \E f : Calls(s, new, last, f)
<1> DEFINE T == {m \in Nat : \E f : Calls(s, new, m, f)}
<1>1. 0 \in T
  <2> DEFINE f == [m \in 0..0 |-> s]
  <2>1. Calls(s, new, 0, f)
    BY DEF Calls
  <2>2. QED
    BY <2>1
<1>2. ASSUME NEW x \in T PROVE x + 1 \in T
  <2>1. PICK f : Calls(s, new, x, f)
    OBVIOUS
  <2> DEFINE g == [m \in 0..(x + 1) |->
                     IF m = x + 1 THEN AddOne(f[x], new[x + 1]) ELSE f[m]]
  <2>2. x \in Nat
    OBVIOUS
  <2>3. \A m \in 0..x : f[m] = IF m = 0 THEN s ELSE AddOne(f[m - 1], new[m])
    BY <2>1, Zenon DEF Calls
  <2>4. ASSUME NEW m \in 0..(x + 1)
        PROVE  g[m] = IF m = 0 THEN s ELSE AddOne(g[m - 1], new[m])
    <3>1. CASE m = x + 1
      <4>1. m # 0 /\ m - 1 = x /\ x \in 0..(x + 1) /\ x # x + 1
        BY <2>2, <3>1
      <4>2. g[m - 1] = f[x]
        BY <4>1
      <4>3. g[m] = AddOne(f[x], new[x + 1])
        BY <3>1
      <4>4. QED
        BY <3>1, <4>1, <4>2, <4>3, Zenon
    <3>2. CASE m = 0
      <4>1. 0 \in 0..x /\ m # x + 1
        BY <2>2, <3>2
      <4>2. g[m] = f[0]
        BY <3>2, <4>1
      <4>3. QED
        BY <2>3, <3>2, <4>1, <4>2
    <3>3. CASE m # x + 1 /\ m # 0
      <4>1. m \in 0..x /\ m - 1 \in 0..(x + 1) /\ m - 1 # x + 1
        BY <2>2, <3>3
      <4>2. g[m] = f[m] /\ g[m - 1] = f[m - 1]
        BY <3>3, <4>1
      <4>3. QED
        BY <2>3, <3>3, <4>1, <4>2, Zenon
    <3>4. QED
      BY <3>1, <3>2, <3>3
  <2>5. DOMAIN g = 0..(x + 1) /\ g = [m \in 0..(x + 1) |-> g[m]]
    OBVIOUS
  <2> HIDE DEF g
  <2>6. Calls(s, new, x + 1, g)
    BY <2>4, <2>5, Zenon DEF Calls
  <2>7. QED
    BY <2>2, <2>6
<1>3. T = Nat
  <2>1. T \in SUBSET Nat
    OBVIOUS
  <2> HIDE DEF T
  <2>2. QED
    BY <1>1, <1>2, <2>1, Inductive
<1>4. QED
  BY <1>3

\* What is added to a list: it keeps its entries and gets the new ones, and stays
\* what it is when there is none.
LEMMA AddedLists ==
  ASSUME NEW S, NEW s \in Seq(S), NEW new \in Seq(S)
  PROVE  /\ Added(s, new) \in Seq(S)
         /\ \A x : Lists(s, x) => Lists(Added(s, new), x)
         /\ \A m \in DOMAIN new : Lists(Added(s, new), new[m])
         /\ (\A m \in DOMAIN new : Lists(s, new[m])) => Added(s, new) = s
<1> DEFINE last == Len(new)
           f == CHOOSE g : Calls(s, new, last, g)
<1>1. last \in Nat /\ DOMAIN new = 1..last
  OBVIOUS
<1>2. Added(s, new) = f[last]
  BY Zenon DEF Added, Calls, AddOne, Lists
<1>3. Calls(s, new, last, f)
  BY <1>1, CallsExist
<1> HIDE DEF f, last
<1>4. f[0] = s /\ \A m \in 1..last : f[m] = AddOne(f[m - 1], new[m])
  <2>1. \A m \in 0..last : f[m] = IF m = 0 THEN s ELSE AddOne(f[m - 1], new[m])
    BY <1>3, Zenon DEF Calls
  <2>2. 0 \in 0..last /\ \A m \in 1..last : m \in 0..last /\ m # 0
    BY <1>1
  <2>3. QED
    BY <2>1, <2>2, Zenon
<1>5. ASSUME NEW r \in Seq(S), NEW x \in S
      PROVE  /\ AddOne(r, x) \in Seq(S)
             /\ \A y : Lists(r, y) => Lists(AddOne(r, x), y)
             /\ Lists(AddOne(r, x), x)
             /\ Lists(r, x) => AddOne(r, x) = r
  <2>1. CASE Lists(r, x)
    BY <2>1 DEF AddOne
  <2>2. CASE ~Lists(r, x)
    <3> DEFINE a == Append(r, x)
    <3>1. /\ a \in Seq(S) /\ DOMAIN a = 1..(Len(r) + 1) /\ DOMAIN r = 1..Len(r)
          /\ Len(r) \in Nat /\ a[Len(r) + 1] = x
          /\ \A e \in 1..Len(r) : a[e] = r[e]
      OBVIOUS
    <3>2. AddOne(r, x) = a
      BY <2>2 DEF AddOne
    <3> HIDE DEF a
    <3>3. Lists(a, x)
      BY <3>1 DEF Lists
    <3>4. \A e \in DOMAIN r : e \in DOMAIN a /\ a[e] = r[e]
      BY <3>1
    <3>5. \A y : Lists(r, y) => Lists(a, y)
      BY <3>4, Zenon DEF Lists
    <3>6. QED
      BY <2>2, <3>1, <3>2, <3>3, <3>5
  <2>3. QED
    BY <2>1, <2>2
<1> DEFINE T == {m \in Nat : m <= last =>
                   /\ f[m] \in Seq(S)
                   /\ \A x : Lists(s, x) => Lists(f[m], x)
                   /\ \A e \in 1..m : Lists(f[m], new[e])
                   /\ (\A e \in DOMAIN new : Lists(s, new[e])) => f[m] = s}
<1>6. 0 \in T
  BY <1>4
<1>7. ASSUME NEW x \in T PROVE x + 1 \in T
  <2>1. x \in Nat /\ x + 1 \in Nat
    OBVIOUS
  <2>2. SUFFICES ASSUME x + 1 <= last
                 PROVE  /\ f[x + 1] \in Seq(S)
                        /\ \A y : Lists(s, y) => Lists(f[x + 1], y)
                        /\ \A e \in 1..(x + 1) : Lists(f[x + 1], new[e])
                        /\ (\A e \in DOMAIN new : Lists(s, new[e])) => f[x + 1] = s
    BY <2>1
  <2>3. /\ f[x] \in Seq(S)
        /\ \A y : Lists(s, y) => Lists(f[x], y)
        /\ \A e \in 1..x : Lists(f[x], new[e])
        /\ (\A e \in DOMAIN new : Lists(s, new[e])) => f[x] = s
    BY <1>1, <2>1, <2>2
  <2>4. x + 1 \in 1..last /\ (x + 1) - 1 = x
    BY <1>1, <2>1, <2>2
  <2>5. f[x + 1] = AddOne(f[x], new[x + 1]) /\ new[x + 1] \in S
    BY <1>1, <1>4, <2>4
  <2> HIDE DEF T
  <2>6. /\ f[x + 1] \in Seq(S)
        /\ \A y : Lists(f[x], y) => Lists(f[x + 1], y)
        /\ Lists(f[x + 1], new[x + 1])
        /\ Lists(f[x], new[x + 1]) => f[x + 1] = f[x]
    <3>1. f[x] \in Seq(S)
      BY <2>3
    <3>2. /\ AddOne(f[x], new[x + 1]) \in Seq(S)
          /\ \A y : Lists(f[x], y) => Lists(AddOne(f[x], new[x + 1]), y)
          /\ Lists(AddOne(f[x], new[x + 1]), new[x + 1])
          /\ Lists(f[x], new[x + 1]) => AddOne(f[x], new[x + 1]) = f[x]
      BY <1>5, <2>5, <3>1, Zenon
    <3>3. QED
      BY <2>5, <3>2, Zenon
  <2>7. \A e \in 1..(x + 1) : e \in 1..x \/ e = x + 1
    BY <2>1
  <2>8. \A e \in 1..(x + 1) : Lists(f[x + 1], new[e])
    BY <2>3, <2>6, <2>7, Zenon
  <2>9. (\A e \in DOMAIN new : Lists(s, new[e])) => f[x + 1] = s
    BY <1>1, <2>3, <2>4, <2>6, Zenon
  <2>10. QED
    BY <2>3, <2>6, <2>8, <2>9, Zenon
<1>8. T = Nat
  <2>1. T \in SUBSET Nat
    OBVIOUS
  <2> HIDE DEF T
  <2>2. QED
    BY <1>6, <1>7, <2>1, Inductive
<1>9. last \in T /\ last <= last
  BY <1>1, <1>8
<1>10. /\ f[last] \in Seq(S)
       /\ \A x : Lists(s, x) => Lists(f[last], x)
       /\ \A e \in 1..last : Lists(f[last], new[e])
       /\ (\A e \in DOMAIN new : Lists(s, new[e])) => f[last] = s
  BY <1>9, Zenon
<1>11. QED
  BY <1>1, <1>2, <1>10, Zenon

\* What the profiles inject.
InjectionsOf(q) ==
  {Startup, <<"tgz", 0>>} \cup {<<q.scripts[m], 500 + m>> : m \in DOMAIN q.scripts}
Injectable == UNION {InjectionsOf(profiles[l]) : l \in DOMAIN profiles}

WellFormed(t) ==
  /\ Broker \in DOMAIN t
  /\ t = [h \in DOMAIN t |-> [injects |-> t[h].injects, feds |-> t[h].feds]]
  /\ \A h \in DOMAIN t : t[h].injects \in Seq(Injectable)

\* All nodes, as <<profile, node>>, and those that the stage has done.
AllNodes == UNION {{l} \X (1..NodeCount(profiles[l])) : l \in DOMAIN profiles}
Done == {c \in AllNodes : Before(c[1], c[2])}
Earlier(e, c) == e[1] < c[1] \/ (e[1] = c[1] /\ e[2] < c[2])

HasNode(t, c) ==
  LET q == profiles[c[1]]
      h == Hostname(q, c[2])
  IN  /\ h \in DOMAIN t
      /\ \A m \in DOMAIN Injections(q) : Lists(t[h].injects, Injections(q)[m])

\* Of the nodes d, the last one that annotates the broker made the annotation v;
\* with no such node it is still the one that was there.
Annotating(c) == Annotates(profiles[c[1]], c[2])
Count(c) == profiles[c[1]].base + Mains(profiles[c[1]], c[2]) + 1
Noted(v, was, d) ==
  \/ v = was /\ \A c \in d : ~Annotating(c)
  \/ \E c \in d : /\ Annotating(c) /\ v = Count(c)
                  /\ \A e \in d : Annotating(e) => e = c \/ Earlier(e, c)

Alike(t, u) ==
  /\ DOMAIN t = DOMAIN u
  /\ \A h \in DOMAIN t : t[h].injects = u[h].injects
  /\ \A h \in DOMAIN t \ {Broker} : t[h].feds = u[h].feds

\* The experiment has what a whole configure stage leaves, if one has ended well,
\* and the process of another one has changed at most the annotation.
Again ==
  /\ WellFormed(topo) /\ WellFormed(mem)
  /\ pc # "configure" => mem = topo
  /\ pc = "configure" =>
       /\ \A c \in Done : HasNode(mem, c)
       /\ Noted(mem[Broker].feds, topo[Broker].feds, Done)
       /\ configured => Alike(mem, topo)
  /\ configured =>
       /\ \A c \in AllNodes : HasNode(topo, c)
       /\ Noted(topo[Broker].feds, topo[Broker].feds, AllNodes)

LEMMA InjectionsListed ==
  ASSUME profiles \in Scenarios, NEW l \in DOMAIN profiles
  PROVE  Injections(profiles[l]) \in Seq(Injectable)
<1> DEFINE q == profiles[l]
           a == <<Startup>>
           b == [m \in DOMAIN q.scripts |-> <<q.scripts[m], 500 + m>>]
           c == IF Wind(q) THEN <<<<"tgz", 0>>>> ELSE <<>>
<1>1. InjectionsOf(q) \subseteq Injectable
  BY DEF Injectable
<1>2. Len(q.scripts) \in Nat /\ DOMAIN q.scripts = 1..Len(q.scripts)
  BY ScaleAssumption, Zenon DEF ScaleAssumption
<1> HIDE DEF q
<1>3. a \in Seq(Injectable)
  <2>1. Startup \in Injectable
    BY <1>1 DEF InjectionsOf
  <2>2. QED
    BY <2>1
<1>4. c \in Seq(Injectable)
  <2>1. <<"tgz", 0>> \in Injectable
    BY <1>1 DEF InjectionsOf
  <2>2. QED
    BY <2>1
<1>5. b \in Seq(Injectable)
  <2>1. \A m \in DOMAIN q.scripts : <<q.scripts[m], 500 + m>> \in Injectable
    BY <1>1 DEF InjectionsOf
  <2>2. b \in [1..Len(q.scripts) -> Injectable]
    BY <1>2, <2>1
  <2> HIDE DEF b
  <2>3. QED
    BY <1>2, <2>2
<1>6. Injections(q) = a \o b \o c
  BY DEF Injections
<1> HIDE DEF a, b, c
<1>7. a \o b \o c \in Seq(Injectable)
  BY <1>3, <1>4, <1>5
<1>8. QED
  BY <1>6, <1>7 DEF q

\* A node with the injections of the profile: the others are what they were.
Equipped(t, u, h, inj) ==
  /\ WellFormed(u) /\ DOMAIN u = DOMAIN t \cup {h}
  /\ \A x \in DOMAIN t \ {h} : u[x] = t[x]
  /\ h \in DOMAIN t => u[h].feds = t[h].feds
  /\ \A m \in DOMAIN inj : Lists(u[h].injects, inj[m])
  /\ h \in DOMAIN t =>
       /\ \A y : Lists(t[h].injects, y) => Lists(u[h].injects, y)
       /\ (\A m \in DOMAIN inj : Lists(t[h].injects, inj[m]))
            => u[h].injects = t[h].injects

LEMMA NodeConfigured ==
  ASSUME NEW t, WellFormed(t), NEW h, NEW inj \in Seq(Injectable)
  PROVE  Equipped(t, AddInjects(AddNode(t, h), h, inj), h, inj)
<1> DEFINE w == AddNode(t, h)
           u == AddInjects(w, h, inj)
<1>1. /\ DOMAIN w = DOMAIN t \cup {h}
      /\ \A x \in DOMAIN t : w[x] = t[x]
      /\ h \notin DOMAIN t => w[h] = PlainNode
  BY DEF AddNode, Over
<1>2. \A x \in DOMAIN t :
        t[x] = [injects |-> t[x].injects, feds |-> t[x].feds]
          /\ t[x].injects \in Seq(Injectable)
  BY DEF WellFormed
<1>3. Broker \in DOMAIN t
  BY DEF WellFormed
<1> DEFINE s == w[h].injects
           f == w[h].feds
           r == Added(s, inj)
<1>4. w[h] = [injects |-> s, feds |-> f] /\ s \in Seq(Injectable)
  <2>1. CASE h \in DOMAIN t
    BY <1>1, <1>2, <2>1
  <2>2. CASE h \notin DOMAIN t
    <3>1. w[h] = [injects |-> <<>>, feds |-> 0]
      BY <1>1, <2>2 DEF PlainNode
    <3> HIDE DEF w
    <3>2. s = <<>> /\ f = 0
      BY <3>1
    <3> HIDE DEF s, f
    <3>3. QED
      BY <3>1, <3>2
  <2>3. QED
    BY <2>1, <2>2
<1>5. u = [w EXCEPT ![h] = [w[h] EXCEPT !.injects = r]]
  BY DEF AddInjects
<1>6. /\ r \in Seq(Injectable)
      /\ \A x : Lists(s, x) => Lists(r, x)
      /\ \A m \in DOMAIN inj : Lists(r, inj[m])
      /\ (\A m \in DOMAIN inj : Lists(s, inj[m])) => r = s
  <2> HIDE DEF s
  <2>1. QED
    BY <1>4, AddedLists
<1>7. h \in DOMAIN t => s = t[h].injects /\ f = t[h].feds
  BY <1>1
<1>8. w = [x \in DOMAIN w |-> w[x]]
  BY DEF AddNode, Over
<1> HIDE DEF w, s, f, r, u
<1>9. [w[h] EXCEPT !.injects = r] = [injects |-> r, feds |-> f]
  BY <1>4
<1>10. /\ DOMAIN u = DOMAIN t \cup {h} /\ u = [x \in DOMAIN u |-> u[x]]
       /\ u[h] = [injects |-> r, feds |-> f]
       /\ \A x \in DOMAIN t \ {h} : u[x] = t[x]
  BY <1>1, <1>5, <1>8, <1>9
<1>11. u[h].injects = r /\ u[h].feds = f
  BY <1>10
<1>12. WellFormed(u)
  <2>1. \A x \in DOMAIN u :
          u[x] = [injects |-> u[x].injects, feds |-> u[x].feds]
            /\ u[x].injects \in Seq(Injectable)
    BY <1>2, <1>6, <1>10, <1>11
  <2>2. u = [x \in DOMAIN u |-> [injects |-> u[x].injects, feds |-> u[x].feds]]
    BY <1>10, <2>1
  <2>3. QED
    BY <1>3, <1>10, <2>1, <2>2 DEF WellFormed
<1>13. QED
  BY <1>6, <1>7, <1>10, <1>11, <1>12, Zenon DEF u, w, Equipped

LEMMA NodeAnnotated ==
  ASSUME NEW t, WellFormed(t), NEW q, NEW i
  PROVE  LET u == Annotate(t, q, i)
         IN  /\ WellFormed(u) /\ DOMAIN u = DOMAIN t
             /\ \A x \in DOMAIN t : u[x].injects = t[x].injects
             /\ \A x \in DOMAIN t \ {Broker} : u[x].feds = t[x].feds
             /\ u[Broker].feds = IF Annotates(q, i) THEN q.base + Mains(q, i) + 1
                                 ELSE t[Broker].feds
<1> DEFINE u == Annotate(t, q, i)
           v == q.base + Mains(q, i) + 1
<1>1. CASE ~Annotates(q, i)
  BY <1>1 DEF Annotate
<1>2. CASE Annotates(q, i)
  <2>1. u = [t EXCEPT ![Broker] = [t[Broker] EXCEPT !.feds = v]]
    BY <1>2 DEF Annotate
  <2>2. /\ \A x \in DOMAIN t :
             t[x] = [injects |-> t[x].injects, feds |-> t[x].feds]
               /\ t[x].injects \in Seq(Injectable)
        /\ Broker \in DOMAIN t /\ t = [x \in DOMAIN t |-> t[x]]
    BY DEF WellFormed
  <2> HIDE DEF u, v
  <2>3. [t[Broker] EXCEPT !.feds = v] = [injects |-> t[Broker].injects, feds |-> v]
    BY <2>2
  <2>4. /\ DOMAIN u = DOMAIN t /\ u = [x \in DOMAIN u |-> u[x]]
        /\ u[Broker] = [injects |-> t[Broker].injects, feds |-> v]
        /\ \A x \in DOMAIN t \ {Broker} : u[x] = t[x]
    BY <2>1, <2>2, <2>3
  <2>5. /\ \A x \in DOMAIN t : u[x].injects = t[x].injects
        /\ u[Broker].feds = v
    BY <2>4
  <2>6. \A x \in DOMAIN u :
          u[x] = [injects |-> u[x].injects, feds |-> u[x].feds]
            /\ u[x].injects \in Seq(Injectable)
    BY <2>2, <2>4
  <2>7. u = [x \in DOMAIN u |-> [injects |-> u[x].injects, feds |-> u[x].feds]]
    BY <2>4, <2>6
  <2>8. WellFormed(u)
    BY <2>2, <2>4, <2>6, <2>7 DEF WellFormed
  <2>9. QED
    BY <1>2, <2>4, <2>5, <2>8 DEF u, v
<1>3. QED
  BY <1>1, <1>2

\* The nodes that a stage has done, step by step.
LEMMA NodesDone ==
  ASSUME Control
  PROVE  /\ p = 1 /\ n = 0 => Done = {}
         /\ p > Len(profiles) => Done = AllNodes
         /\ AtNode => /\ <<p, n>> \in AllNodes
                      /\ \A e \in Done : Earlier(e, <<p, n>>)
         /\ profiles' = profiles =>
              /\ Stages /\ n = 0 /\ p' = p /\ n' = 1 => Done' = Done
              /\ Stages /\ n > NodeCount(profiles[p]) /\ p' = p + 1 /\ n' = 0 =>
                   Done' = Done
              /\ AtNode /\ p' = p /\ n' = n + 1 => Done' = Done \cup {<<p, n>>}
<1>1. \A c \in AllNodes : /\ c = <<c[1], c[2]>> /\ c[1] \in DOMAIN profiles
                          /\ c[2] \in 1..NodeCount(profiles[c[1]])
  BY DEF AllNodes
<1>2. AtNode => <<p, n>> \in AllNodes
  BY AtProfile DEF AllNodes
<1>3. \A e \in Done : Earlier(e, <<p, n>>)
  BY DEF Done, Before, Earlier
<1>4. \A c \in AllNodes :
        /\ p = 1 /\ n = 0 => ~Before(c[1], c[2])
        /\ p > Len(profiles) => Before(c[1], c[2])
  BY <1>1, BeforeSteps
<1>5. ASSUME profiles' = profiles
      PROVE  /\ Stages /\ n = 0 /\ p' = p /\ n' = 1 => Done' = Done
             /\ Stages /\ n > NodeCount(profiles[p]) /\ p' = p + 1 /\ n' = 0 =>
                  Done' = Done
             /\ AtNode /\ p' = p /\ n' = n + 1 => Done' = Done \cup {<<p, n>>}
  <2>1. AllNodes' = AllNodes
    BY <1>5 DEF AllNodes
  <2>2. Done' = {c \in AllNodes : Before(c[1], c[2])'}
    BY <2>1 DEF Done
  <2>3. ASSUME NEW c \in AllNodes
        PROVE  /\ Stages /\ n = 0 /\ p' = p /\ n' = 1 =>
                    (Before(c[1], c[2])' <=> Before(c[1], c[2]))
               /\ Stages /\ n > NodeCount(profiles[p]) /\ p' = p + 1 /\ n' = 0 =>
                    (Before(c[1], c[2])' <=> Before(c[1], c[2]))
               /\ p' = p /\ n' = n + 1 =>
                    (Before(c[1], c[2])' <=>
                       Before(c[1], c[2]) \/ (c[1] = p /\ c[2] = n))
    BY <1>1, BeforeSteps
  <2>4. \A c \in AllNodes : c[1] = p /\ c[2] = n <=> c = <<p, n>>
    BY <1>1
  <2>5. QED
    BY <1>2, <2>2, <2>3, <2>4 DEF Done
<1>6. QED
  BY <1>2, <1>3, <1>4, <1>5 DEF Done

\* A later node has the last word on the annotation.
LEMMA NotedStep ==
  ASSUME NEW v, NEW was, NEW d, NEW c,
         Noted(v, was, d), \A e \in d : Earlier(e, c)
  PROVE  Noted(IF Annotating(c) THEN Count(c) ELSE v, was, d \cup {c})
<1>1. CASE Annotating(c)
  BY <1>1 DEF Noted
<1>2. CASE ~Annotating(c)
  <2>1. CASE v = was /\ \A e \in d : ~Annotating(e)
    BY <1>2, <2>1 DEF Noted
  <2>2. CASE \E b \in d : /\ Annotating(b) /\ v = Count(b)
                          /\ \A e \in d : Annotating(e) => e = b \/ Earlier(e, b)
    BY <1>2, <2>2 DEF Noted
  <2>3. QED
    BY <2>1, <2>2 DEF Noted
<1>3. QED
  BY <1>1, <1>2

\* A stage that finds the annotation of a whole stage makes the same.
LEMMA NotedOnce ==
  ASSUME Control, NEW v, NEW w, Noted(v, w, AllNodes), Noted(w, w, AllNodes)
  PROVE  v = w
<1>1. \A c \in AllNodes : c = <<c[1], c[2]>> /\ c[1] \in Nat /\ c[2] \in Nat
  <2>1. \A c \in AllNodes : /\ c = <<c[1], c[2]>> /\ c[1] \in DOMAIN profiles
                            /\ c[2] \in 1..NodeCount(profiles[c[1]])
    BY DEF AllNodes
  <2>2. QED
    BY <2>1, ProfileNumbers DEF Control
<1>2. SUFFICES ASSUME v # w PROVE FALSE
  OBVIOUS
<1>3. PICK b \in AllNodes :
        /\ Annotating(b) /\ v = Count(b)
        /\ \A e \in AllNodes : Annotating(e) => e = b \/ Earlier(e, b)
  BY <1>2, Zenon DEF Noted
<1>4. PICK c \in AllNodes :
        /\ Annotating(c) /\ w = Count(c)
        /\ \A e \in AllNodes : Annotating(e) => e = c \/ Earlier(e, c)
  BY <1>3, Zenon DEF Noted
<1>5. b # c
  BY <1>2, <1>3, <1>4
<1>6. Earlier(b, c) /\ Earlier(c, b)
  BY <1>3, <1>4, <1>5, Zenon
<1>7. QED
  BY <1>1, <1>3, <1>4, <1>6 DEF Earlier

\* A node that the stage does: it has what the profile injects, the other nodes
\* keep what they have, and where it had all of it nothing but the annotation is
\* changed.
LEMMA NodeDone ==
  ASSUME Control, Again, ConfigureNode
  PROVE  LET c == <<p, n>>
         IN  /\ WellFormed(mem')
             /\ \A e \in Done \cup {c} : HasNode(mem', e)
             /\ mem'[Broker].feds = IF Annotating(c) THEN Count(c)
                                    ELSE mem[Broker].feds
             /\ configured => Alike(mem', topo)
<1> DEFINE c == <<p, n>>
           q == profiles[p]
           h == Hostname(q, n)
           inj == Injections(q)
           t == AddInjects(AddNode(mem, h), h, inj)
<1>1. pc = "configure" /\ AtNode /\ mem' = Annotate(t, q, n)
  BY DEF ConfigureNode
<1>2. p \in DOMAIN profiles /\ c \in AllNodes /\ profiles \in Scenarios
  BY <1>1, AtProfile, NodesDone DEF Control
<1>3. inj \in Seq(Injectable)
  BY <1>2, InjectionsListed
<1>4. /\ WellFormed(mem) /\ \A e \in Done : HasNode(mem, e)
      /\ configured => Alike(mem, topo) /\ HasNode(topo, c)
  BY <1>1, <1>2 DEF Again
<1>5. Equipped(mem, t, h, inj)
  <2> HIDE DEF inj, h
  <2>1. QED
    BY <1>3, <1>4, NodeConfigured, Zenon
<1>6. HasNode(topo, c) =>
        /\ h \in DOMAIN topo
        /\ \A m \in DOMAIN inj : Lists(topo[h].injects, inj[m])
  BY Zenon DEF HasNode
<1>7. \A u : h \in DOMAIN u /\ (\A m \in DOMAIN inj : Lists(u[h].injects, inj[m]))
               => HasNode(u, c)
  BY Zenon DEF HasNode
<1>8. Annotating(c) = Annotates(q, n) /\ Count(c) = q.base + Mains(q, n) + 1
  BY DEF Annotating, Count
<1> HIDE DEF t
<1>9. /\ WellFormed(mem') /\ DOMAIN mem' = DOMAIN t
      /\ \A x \in DOMAIN t : mem'[x].injects = t[x].injects
      /\ \A x \in DOMAIN t \ {Broker} : mem'[x].feds = t[x].feds
      /\ mem'[Broker].feds = IF Annotates(q, n) THEN q.base + Mains(q, n) + 1
                             ELSE t[Broker].feds
  BY <1>1, <1>5, NodeAnnotated DEF Equipped
<1> HIDE DEF q, h, inj, c
<1>10. Broker \in DOMAIN mem
  BY <1>4 DEF WellFormed
<1>11. \A x \in DOMAIN mem :
         /\ x \in DOMAIN mem'
         /\ \A y : Lists(mem[x].injects, y) => Lists(mem'[x].injects, y)
  BY <1>5, <1>9 DEF Equipped
<1>12. ASSUME NEW e \in Done PROVE HasNode(mem', e)
  BY <1>4, <1>11 DEF HasNode
<1>13. HasNode(mem', c)
  BY <1>5, <1>7, <1>9 DEF Equipped
<1>14. mem'[Broker].feds = IF Annotating(c) THEN Count(c) ELSE mem[Broker].feds
  BY <1>5, <1>8, <1>9, <1>10 DEF Equipped
<1>15. ASSUME configured PROVE Alike(mem', topo)
  <2>1. Alike(mem, topo) /\ h \in DOMAIN topo
        /\ \A m \in DOMAIN inj : Lists(topo[h].injects, inj[m])
    BY <1>4, <1>6, <1>15
  <2>2. h \in DOMAIN mem /\ t[h].injects = mem[h].injects
    BY <1>5, <2>1 DEF Alike, Equipped
  <2>3. /\ DOMAIN mem' = DOMAIN mem
        /\ \A x \in DOMAIN mem : mem'[x].injects = mem[x].injects
        /\ \A x \in DOMAIN mem \ {Broker} : mem'[x].feds = mem[x].feds
    BY <1>5, <1>9, <2>2 DEF Equipped
  <2>4. QED
    BY <2>1, <2>3 DEF Alike
<1>16. QED
  BY <1>9, <1>12, <1>13, <1>14, <1>15 DEF c

LEMMA AgainInit == Init => Again
<1> SUFFICES ASSUME Init PROVE Again
  OBVIOUS
<1>1. WellFormed(topo)
  <2>1. topo = [h \in {Broker} |-> [injects |-> <<>>, feds |-> 0]]
    BY DEF Init, PlainNode
  <2>2. /\ DOMAIN topo = {Broker}
        /\ \A h \in {Broker} : topo[h].injects = <<>> /\ topo[h].feds = 0
    BY <2>1
  <2>3. <<>> \in Seq(Injectable)
    OBVIOUS
  <2>4. QED
    BY <2>1, <2>2, <2>3 DEF WellFormed
<1>2. QED
  BY <1>1 DEF Init, Again

LEMMA AgainStep ==
  ASSUME Control, Again, [Next]_vars
  PROVE  Again'
<1> USE DEF process, disk, cluster
<1>1. profiles' = profiles
  BY DEF Next, Work, ConfigureStart, ConfigureProfile, InvalidProfile,
         ConfigureNode, NextProfile, ConfigureEnd, PostStart, PostProfile,
         WriteScript, SendScript, PostEnd, Die, DieWriting, Launch, LaunchOn, Boot,
           Stop, vars
<1>2. Injectable' = Injectable /\ AllNodes' = AllNodes
  BY <1>1 DEF Injectable, AllNodes
<1>3. /\ WellFormed(mem)' <=> WellFormed(mem')
      /\ WellFormed(topo)' <=> WellFormed(topo')
  BY <1>2 DEF WellFormed
<1>4. \A c : /\ HasNode(mem, c)' <=> HasNode(mem', c)
             /\ HasNode(topo, c)' <=> HasNode(topo', c)
  BY <1>1 DEF HasNode
<1>5. \A c : (Annotating(c)' <=> Annotating(c)) /\ Count(c)' = Count(c)
  BY <1>1 DEF Annotating, Count
<1>6. /\ Noted(mem[Broker].feds, topo[Broker].feds, Done)'
           <=> Noted(mem'[Broker].feds, topo'[Broker].feds, Done')
      /\ Noted(topo[Broker].feds, topo[Broker].feds, AllNodes)'
           <=> Noted(topo'[Broker].feds, topo'[Broker].feds, AllNodes)
  BY <1>2, <1>5 DEF Noted
<1>7. SUFFICES
        /\ WellFormed(topo') /\ WellFormed(mem')
        /\ pc' # "configure" => mem' = topo'
        /\ pc' = "configure" =>
             /\ \A c \in Done' : HasNode(mem', c)
             /\ Noted(mem'[Broker].feds, topo'[Broker].feds, Done')
             /\ configured' => Alike(mem', topo')
        /\ configured' =>
             /\ \A c \in AllNodes : HasNode(topo', c)
             /\ Noted(topo'[Broker].feds, topo'[Broker].feds, AllNodes)
  BY <1>2, <1>3, <1>4, <1>6 DEF Again, Alike
<1>8. CASE /\ UNCHANGED <<topo, configured, mem>> /\ (pc' = "configure" <=> pc = "configure")
           /\ pc = "configure" => Done' = Done
  BY <1>8 DEF Again
<1>9. CASE /\ UNCHANGED <<topo, configured>> /\ mem' = topo /\ pc' # "configure"
  BY <1>9 DEF Again
<1>10. CASE ConfigureStart
  <2>1. /\ UNCHANGED <<topo, configured, mem>> /\ pc = "idle" /\ p' = 1 /\ n' = 0
    BY <1>10 DEF ConfigureStart
  <2>2. Done' = {}
    <3>1. \A c \in AllNodes : c[1] \in Nat /\ c[1] >= 1 /\ c[2] \in Nat /\ c[2] >= 1
      <4>1. \A c \in AllNodes : /\ c[1] \in DOMAIN profiles
                                /\ c[2] \in 1..NodeCount(profiles[c[1]])
        BY DEF AllNodes
      <4>2. QED
        BY <4>1, ProfileNumbers DEF Control
    <3>2. QED
      BY <1>2, <2>1, <3>1 DEF Done, Before
  <2>3. mem = topo
    BY <2>1 DEF Again
  <2>4. QED
    BY <2>1, <2>2, <2>3 DEF Again, Noted, Alike
<1>11. CASE ConfigureNode
  <2> DEFINE c == <<p, n>>
  <2>1. /\ UNCHANGED <<topo, configured, pc>> /\ pc = "configure" /\ AtNode
        /\ p' = p /\ n' = n + 1
    BY <1>11 DEF ConfigureNode
  <2>2. Done' = Done \cup {c} /\ \A e \in Done : Earlier(e, c)
    BY <1>1, <2>1, NodesDone
  <2>3. /\ WellFormed(mem')
        /\ \A e \in Done \cup {c} : HasNode(mem', e)
        /\ mem'[Broker].feds = IF Annotating(c) THEN Count(c) ELSE mem[Broker].feds
        /\ configured => Alike(mem', topo)
    BY <1>11, NodeDone
  <2> HIDE DEF c
  <2>4. Noted(mem[Broker].feds, topo[Broker].feds, Done)
    BY <2>1 DEF Again
  <2>5. Noted(mem'[Broker].feds, topo[Broker].feds, Done \cup {c})
    <3>1. Noted(IF Annotating(c) THEN Count(c) ELSE mem[Broker].feds,
                topo[Broker].feds, Done \cup {c})
      BY <2>2, <2>4, NotedStep
    <3>2. QED
      BY <2>3, <3>1, Zenon
  <2>6. QED
    BY <2>1, <2>2, <2>3, <2>5 DEF Again
<1>12. CASE ConfigureEnd
  <2>1. /\ pc = "configure" /\ p > Len(profiles) /\ topo' = mem /\ mem' = mem
        /\ pc' = "idle"
    BY <1>12 DEF ConfigureEnd
  <2>2. Done = AllNodes
    BY <2>1, NodesDone
  <2>3. Noted(mem[Broker].feds, topo[Broker].feds, AllNodes)
        /\ (\A c \in AllNodes : HasNode(mem, c)) /\ WellFormed(mem)
    BY <2>1, <2>2 DEF Again
  <2>4. Noted(mem[Broker].feds, mem[Broker].feds, AllNodes)
    BY <2>3, Zenon DEF Noted
  <2>5. QED
    BY <2>1, <2>3, <2>4
<1>13. CASE ConfigureProfile
  <2>1. Stages /\ n = 0 /\ p' = p /\ n' = 1 /\ UNCHANGED <<topo, configured, mem, pc>>
    BY <1>13 DEF ConfigureProfile
  <2>2. QED
    BY <1>1, <1>8, <2>1, NodesDone
<1>14. CASE NextProfile
  <2>1. /\ Stages /\ n > NodeCount(profiles[p]) /\ p' = p + 1 /\ n' = 0
        /\ UNCHANGED <<topo, configured, mem, pc>>
    BY <1>14 DEF NextProfile
  <2>2. QED
    BY <1>1, <1>8, <2>1, NodesDone
<1>15. CASE InvalidProfile \/ Die \/ DieWriting
  BY <1>9, <1>15 DEF InvalidProfile, Die, DieWriting
<1>16. CASE PostStart \/ PostProfile \/ WriteScript \/ SendScript \/ PostEnd
  BY <1>8, <1>16 DEF PostStart, PostProfile, WriteScript, SendScript, PostEnd, Control
<1>17. CASE Launch \/ Boot \/ Stop
  BY <1>8, <1>17 DEF Launch, LaunchOn, Boot, Stop, Done, Before, Control
<1>18. CASE UNCHANGED vars
  <2>1. Done' = Done
    BY <1>2, <1>18 DEF vars, Done, Before
  <2>2. QED
    BY <1>8, <1>18, <2>1 DEF vars
<1>19. QED
  BY <1>10, <1>11, <1>12, <1>13, <1>14, <1>15, <1>16, <1>17, <1>18 DEF Next, Work

LEMMA AgainHolds == Spec => [](Control /\ Again)
<1>1. ScaleInv => Control
  BY DEF ScaleInv
<1>2. Control /\ Again /\ [Next]_vars => Again'
  BY AgainStep
<1>3. QED
  BY <1>1, <1>2, AgainInit, ScaleInvHolds, PTL DEF Spec

\* The annotation of the broker is a number of federates.
AnnotationNat == topo[Broker].feds \in Nat /\ mem[Broker].feds \in Nat

LEMMA AnnotationNatHolds == Spec => []AnnotationNat
<1>1. Init => AnnotationNat
  BY DEF Init, PlainNode, AnnotationNat
<1>2. Control /\ Again /\ AnnotationNat /\ [Next]_vars => AnnotationNat'
  <2> SUFFICES ASSUME Control, Again, AnnotationNat, [Next]_vars
               PROVE  AnnotationNat'
    OBVIOUS
  <2>1. CASE ConfigureNode
    <3> DEFINE q == profiles[p]
               mains == {j \in 1..WindCount(q, n) : Part(q, n, j).component = 0}
    <3>1. p \in DOMAIN profiles /\ n \in 1..NodeCount(q) /\ profiles \in Scenarios
      BY <2>1, AtProfile DEF ConfigureNode, Control
    <3>2. q.base \in Nat
      BY <3>1, ScaleAssumption
    <3>3. Mains(q, n) \in Nat
      <4>1. IsFiniteSet(1..WindCount(q, n))
        <5>1. q.perNode \in Nat /\ Total(q) \in Nat /\ n \in Nat
          BY <3>1, ProfileNumbers
        <5>2. q.perNode = 0 => n * q.perNode <= Total(q)
          BY <5>1
        <5>3. q.perNode # 0 => Total(q) % q.perNode \in Nat
          BY <5>1
        <5>4. WindCount(q, n) \in Nat
          BY <5>1, <5>2, <5>3 DEF WindCount
        <5>. QED  BY <5>4, FS_Interval
      <4>2. mains \in SUBSET (1..WindCount(q, n))
        OBVIOUS
      <4> HIDE DEF mains
      <4>3. IsFiniteSet(mains)
        BY <4>1, <4>2, FS_Subset
      <4>. QED  BY <4>3, FS_CardinalityType DEF Mains, mains
    <3>4. mem'[Broker].feds = IF Annotating(<<p, n>>) THEN Count(<<p, n>>)
                              ELSE mem[Broker].feds
      BY <2>1, NodeDone
    <3>5. Count(<<p, n>>) = q.base + Mains(q, n) + 1
      BY DEF Count
    <3> HIDE DEF q
    <3>. QED  BY <2>1, <3>2, <3>3, <3>4, <3>5 DEF ConfigureNode, AnnotationNat
  <2>2. CASE ~ConfigureNode
    BY <2>2 DEF Next, Work, ConfigureStart, ConfigureProfile, InvalidProfile,
         ConfigureEnd, NextProfile, PostStart, PostProfile, WriteScript,
         SendScript, PostEnd, Die, DieWriting, Launch, LaunchOn, Boot,
           Stop, disk, cluster,
         process, vars, AnnotationNat
  <2>. QED  BY <2>1, <2>2
<1>3. QED
  BY <1>1, <1>2, AgainHolds, PTL DEF Spec

\* A configure stage that follows one that ended well, however many were cut
\* short between them, ends with the experiment it began with: injections are
\* looked for before they are added, and the last node that counts federates is
\* the same one again.
THEOREM RepeatableHolds == Spec => Repeatable
<1>1. Control /\ Again /\ [Next]_vars => [configured => topo' = topo]_vars
  <2> SUFFICES ASSUME Control, Again, Next, configured PROVE topo' = topo
    OBVIOUS
  <2>1. CASE ConfigureEnd
    <3>1. pc = "configure" /\ p > Len(profiles) /\ topo' = mem
      BY <2>1 DEF ConfigureEnd
    <3>2. Done = AllNodes
      BY <3>1, NodesDone
    <3>3. /\ Alike(mem, topo) /\ WellFormed(mem) /\ WellFormed(topo)
          /\ Noted(mem[Broker].feds, topo[Broker].feds, AllNodes)
          /\ Noted(topo[Broker].feds, topo[Broker].feds, AllNodes)
      BY <3>1, <3>2 DEF Again
    <3>4. mem[Broker].feds = topo[Broker].feds
      BY <3>3, NotedOnce
    <3>5. \A h \in DOMAIN mem :
            mem[h].injects = topo[h].injects /\ mem[h].feds = topo[h].feds
      BY <3>3, <3>4 DEF Alike
    <3>6. mem = topo
      BY <3>3, <3>5 DEF WellFormed, Alike
    <3>7. QED
      BY <3>1, <3>6
  <2>2. CASE ~ConfigureEnd
    BY <2>2 DEF Next, Work, ConfigureStart, ConfigureProfile, InvalidProfile,
         ConfigureNode, NextProfile, PostStart, PostProfile, WriteScript,
         SendScript, PostEnd, Die, DieWriting, Launch, LaunchOn, Boot,
           Stop, disk, cluster,
         process
  <2>3. QED
    BY <2>1, <2>2
<1>2. QED
  BY <1>1, AgainHolds, PTL DEF Spec, Repeatable
=============================================================================
