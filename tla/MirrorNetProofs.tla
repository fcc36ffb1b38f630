-------------------------- MODULE MirrorNetProofs --------------------------
(***************************************************************************)
(* Proofs about MirrorNet for any experiments, subnets and sizes.          *)
(***************************************************************************)
EXTENDS MirrorNet, TLAPS

\* The addresses of the two directions: receiver i is on the i-th address from
\* the end, tap h on the h-th from the beginning.
Layout ==
  /\ recvAddr \in [Exp -> [1..Receivers -> [net : Subnet \cup {None}, host : Int]]]
  /\ tapAddr = [e \in Exp |-> tapAddr[e]]
  /\ net \in [Exp -> Subnet]
  /\ \A e \in Exp, i \in 1..Receivers :
       recvAddr[e][i] = NoAddr \/ recvAddr[e][i].host = Size - 1 - i
  /\ \A e \in Exp : \A h \in DOMAIN tapAddr[e] :
       h \in 1..MaxHost /\ tapAddr[e][h].host = h


\* The taps of an experiment exist only while it is running with their subnet in
\* its stored status, and an experiment that has chosen a subnet shares it with
\* another one only for a reason.
Active(e) == pc[e] = "post-start" \/ tapAddr[e] # NoTaps
Race(e, x) == {e, x} \in overlap \/ e \in blind \/ x \in blind
Chosen ==
  /\ pc \in [Exp -> {"idle", "post-start", "running"}]
  /\ store \in [Exp -> [running : BOOLEAN, subnet : Subnet \cup {None}]]
  /\ \A e \in Exp : tapAddr[e] # NoTaps =>
       pc[e] = "running" /\ store[e].running /\ store[e].subnet = net[e]
  /\ \A e, x \in Exp :
       e # x /\ Active(e) /\ Active(x) /\ net[e] = net[x] => Race(e, x)

\* Addresses are laid out from the two ends of the subnet in every reachable
\* state (configure, postStart).
THEOREM LayoutCorrect == Spec => []Layout
<1>1. Init => Layout
  BY MirrorNetAssumption DEF Init, Layout, NoAddr, NoTaps, None
<1>2. Layout /\ [Next]_vars => Layout'
  <2> SUFFICES ASSUME Layout, [Next]_vars PROVE Layout'
    OBVIOUS
  <2> USE MirrorNetAssumption DEF Layout
  <2>1. ASSUME NEW e \in Exp,
             Configure(e) \/ PostStartNet(e) \/ PostStartNoNet(e)
               \/ PostStartSave(e) \/ PostStartFail(e) \/ Stop(e)
        PROVE  Layout'
    <3>1. CASE Configure(e)
      BY <3>1 DEF Configure
    <3>2. CASE PostStartNet(e)
      <4>1. /\ tapAddr' = [tapAddr EXCEPT ![e] = NoTaps]
            /\ UNCHANGED recvAddr
            /\ net' \in [Exp -> Subnet]
        BY <3>2 DEF PostStartNet, mirrorNet
      <4>2. DOMAIN NoTaps = {}
        BY DEF NoTaps
      <4>3. \A x \in Exp : tapAddr'[x] = IF x = e THEN NoTaps ELSE tapAddr[x]
        BY <4>1
      <4> QED
        BY <4>1, <4>2, <4>3
    <3>3. CASE PostStartNoNet(e)
      BY <3>3 DEF PostStartNoNet
    <3>4. CASE PostStartSave(e)
      <4>1. PICK k \in 1..MaxHost :
              tapAddr' = [tapAddr EXCEPT ![e] =
                            [h \in 1..k |-> [net |-> net[e], host |-> h]]]
        BY <3>4 DEF PostStartSave
      <4>2. UNCHANGED <<recvAddr, net>>
        BY <3>4 DEF PostStartSave
      <4>3. \A x \in Exp : x # e => tapAddr'[x] = tapAddr[x]
        BY <4>1
      <4>4. tapAddr'[e] = [h \in 1..k |-> [net |-> net[e], host |-> h]]
        BY <4>1
      <4>5. \A h \in DOMAIN tapAddr'[e] :
              h \in 1..MaxHost /\ tapAddr'[e][h].host = h
        BY <4>4
      <4>6. tapAddr' = [x \in Exp |-> tapAddr'[x]]
        BY <4>1
      <4>7. \A x \in Exp : \A h \in DOMAIN tapAddr'[x] :
              h \in 1..MaxHost /\ tapAddr'[x][h].host = h
        <5> SUFFICES ASSUME NEW x \in Exp, NEW h \in DOMAIN tapAddr'[x]
                     PROVE  h \in 1..MaxHost /\ tapAddr'[x][h].host = h
          OBVIOUS
        <5>1. CASE x = e
          BY <5>1, <4>5
        <5>2. CASE x # e
          <6>1. tapAddr'[x] = tapAddr[x]
            BY <5>2, <4>3
          <6> QED
            BY <6>1
        <5> QED
          BY <5>1, <5>2
      <4> QED
        BY <4>2, <4>6, <4>7
    <3>5. CASE PostStartFail(e)
      BY <3>5 DEF PostStartFail
    <3>6. CASE Stop(e)
      <4>1. /\ tapAddr' = [tapAddr EXCEPT ![e] = NoTaps]
            /\ UNCHANGED recvAddr
            /\ net' \in [Exp -> Subnet]
        BY <3>6 DEF Stop, mirrorNet
      <4>2. DOMAIN NoTaps = {}
        BY DEF NoTaps
      <4>3. \A x \in Exp : tapAddr'[x] = IF x = e THEN NoTaps ELSE tapAddr[x]
        BY <4>1
      <4> QED
        BY <4>1, <4>2, <4>3
    <3> QED
      BY <2>1, <3>1, <3>2, <3>3, <3>4, <3>5, <3>6
  <2>2. CASE UNCHANGED vars
    BY <2>2 DEF vars
  <2> QED
    BY <2>1, <2>2 DEF Next
<1> QED
  BY <1>1, <1>2, PTL DEF Spec

\* No two taps or receivers of an experiment have the same address, and none has
\* the network or broadcast address, as long as the subnet has room for all of
\* them (configure, postStart).
THEOREM NoClashHolds == Spec => []NoClash
<1>1. Layout => NoClash
  BY MirrorNetAssumption DEF Layout, NoClash
<1> QED
  BY <1>1, LayoutCorrect, PTL

\* A step that makes no experiment active and leaves the history keeps Chosen.
LEMMA ChosenKept ==
  ASSUME Chosen,
         pc' \in [Exp -> {"idle", "post-start", "running"}],
         store' \in [Exp -> [running : BOOLEAN, subnet : Subnet \cup {None}]],
         UNCHANGED <<net, blind, overlap>>,
         \A x \in Exp : Active(x)' => Active(x),
         \A x \in Exp : tapAddr'[x] # NoTaps =>
           /\ pc'[x] = "running" /\ store'[x].running
           /\ store'[x].subnet = net'[x]
  PROVE  Chosen'
BY DEF Chosen, Race

\* Starting or stopping an experiment keeps the type of the store.
LEMMA StoreKept ==
  ASSUME store \in [Exp -> [running : BOOLEAN, subnet : Subnet \cup {None}]],
         NEW e \in Exp, NEW r \in BOOLEAN,
         store' = [store EXCEPT ![e].running = r]
  PROVE  /\ store' \in [Exp -> [running : BOOLEAN, subnet : Subnet \cup {None}]]
         /\ store'[e].running = r /\ store'[e].subnet = store[e].subnet
         /\ \A x \in Exp : x # e => store'[x] = store[x]
OBVIOUS

\* Two running experiments share a mirror subnet only by a race of their
\* post-starts or a failure to list experiments (mirrorNet).
THEOREM SharedOnlyByRaceHolds == Spec => []SharedOnlyByRace
<1>1. Init => Chosen
  BY DEF Init, Chosen, Active, NoTaps, None
<1>2. Layout /\ Chosen /\ [Next]_vars => Chosen'
  <2> SUFFICES ASSUME Layout, Chosen, [Next]_vars PROVE Chosen'
    OBVIOUS
  <2> USE MirrorNetAssumption DEF Layout, Chosen, Active, Race
  <2>1. ASSUME NEW e \in Exp,
             Configure(e) \/ PostStartNet(e) \/ PostStartNoNet(e)
               \/ PostStartSave(e) \/ PostStartFail(e) \/ Stop(e)
        PROVE  Chosen'
    <3>1. CASE Configure(e)
      BY <3>1 DEF Configure
    <3>2. CASE PostStartNet(e)
      <4>1. PICK n \in Subnet : mirrorNet(e, n) /\ net' = [net EXCEPT ![e] = n]
        BY <3>2 DEF PostStartNet
      <4>2. /\ pc[e] = "idle"
            /\ pc' = [pc EXCEPT ![e] = "post-start"]
            /\ tapAddr' = [tapAddr EXCEPT ![e] = NoTaps]
            /\ overlap' = {p \in overlap : e \notin p}
                  \cup {{e, x} : x \in {y \in Exp : pc[y] = "post-start"}}
            /\ UNCHANGED store
        BY <3>2 DEF PostStartNet
      <4>3. \A x \in Exp : x # e => /\ pc'[x] = pc[x]
                                   /\ tapAddr'[x] = tapAddr[x]
                                   /\ net'[x] = net[x]
        BY <4>1, <4>2
      <4>4. pc'[e] = "post-start" /\ tapAddr'[e] = NoTaps /\ net'[e] = n
        BY <4>1, <4>2
      <4>5. /\ blind \subseteq blind' \cup {e} /\ blind' \subseteq blind \cup {e}
            /\ UnusedSubnet(n) \/ e \in blind'
        BY <4>1 DEF mirrorNet
      <4>6. \A x, y \in Exp : x # e /\ y # e /\ Race(x, y) => Race(x, y)'
        BY <4>2, <4>5
      <4>7. \A x \in Exp : x # e /\ tapAddr[x] # NoTaps /\ net[x] = n => e \in blind'
        <5> SUFFICES ASSUME NEW x \in Exp, x # e, tapAddr[x] # NoTaps, net[x] = n
                     PROVE  e \in blind'
          OBVIOUS
        <5>1. n \in Used
          BY MirrorNetAssumption DEF Used, None
        <5> QED
          BY <5>1, <4>5 DEF UnusedSubnet
      <4>8. \A x \in Exp : x # e /\ pc[x] = "post-start" =>
              {e, x} \in overlap' /\ {x, e} \in overlap'
        <5> SUFFICES ASSUME NEW x \in Exp, x # e, pc[x] = "post-start"
                     PROVE  {e, x} \in overlap' /\ {x, e} \in overlap'
          OBVIOUS
        <5>1. {e, x} \in overlap'
          BY <4>2
        <5>2. {x, e} = {e, x}
          OBVIOUS
        <5> QED
          BY <5>1, <5>2
      <4>9. \A x \in Exp : x # e /\ Active(x) /\ net[x] = n =>
              Race(e, x)' /\ Race(x, e)'
        BY <4>7, <4>8
      <4>10. \A x, y \in Exp :
               x # y /\ Active(x)' /\ Active(y)' /\ net'[x] = net'[y] => Race(x, y)'
        <5> SUFFICES ASSUME NEW x \in Exp, NEW y \in Exp, x # y,
                            Active(x)', Active(y)', net'[x] = net'[y]
                     PROVE  Race(x, y)'
          OBVIOUS
        <5>1. CASE x = e
          BY <5>1, <4>3, <4>4, <4>9
        <5>2. CASE y = e
          BY <5>2, <4>3, <4>4, <4>9
        <5>3. CASE x # e /\ y # e
          BY <5>3, <4>3, <4>6
        <5> QED
          BY <5>1, <5>2, <5>3
      <4>11. \A x \in Exp : tapAddr'[x] # NoTaps =>
               /\ pc'[x] = "running" /\ store'[x].running
               /\ store'[x].subnet = net'[x]
        BY <4>2, <4>3, <4>4
      <4>12. /\ pc' \in [Exp -> {"idle", "post-start", "running"}]
             /\ UNCHANGED store
        BY <4>2
      <4> QED
        BY <4>10, <4>11, <4>12
    <3>3. CASE PostStartNoNet(e)
      <4>1. /\ pc[e] = "idle" /\ pc' = [pc EXCEPT ![e] = "running"]
            /\ store' = [store EXCEPT ![e].running = TRUE]
            /\ UNCHANGED <<tapAddr, net, blind, overlap>>
        BY <3>3 DEF PostStartNoNet
      <4>2. /\ store' \in [Exp -> [running : BOOLEAN, subnet : Subnet \cup {None}]]
            /\ \A x \in Exp : x # e => store'[x] = store[x]
        BY <4>1, StoreKept
      <4>3. tapAddr[e] = NoTaps
        BY <4>1
      <4> QED
        BY <4>1, <4>2, <4>3, ChosenKept
    <3>4. CASE PostStartSave(e)
      <4>1. /\ pc[e] = "post-start"
            /\ pc' = [pc EXCEPT ![e] = "running"]
            /\ store' = [store EXCEPT ![e] = [running |-> TRUE, subnet |-> net[e]]]
            /\ UNCHANGED <<net, blind, overlap>>
        BY <3>4 DEF PostStartSave
      <4>2. \A x \in Exp : x # e => tapAddr'[x] = tapAddr[x]
        BY <3>4 DEF PostStartSave
      <4>3. \A x \in Exp : Active(x)' => Active(x)
        BY <4>1, <4>2
      <4>4. \A x \in Exp : tapAddr'[x] # NoTaps =>
              /\ pc'[x] = "running" /\ store'[x].running
              /\ store'[x].subnet = net'[x]
        BY <4>1, <4>2
      <4>5. store' \in [Exp -> [running : BOOLEAN, subnet : Subnet \cup {None}]]
        BY <4>1
      <4>6. pc' \in [Exp -> {"idle", "post-start", "running"}]
        BY <4>1
      <4> HIDE DEF Layout, Chosen, Active, Race
      <4> QED
        BY <4>1, <4>3, <4>4, <4>5, <4>6, ChosenKept
    <3>5. CASE PostStartFail(e)
      <4>1. /\ pc[e] = "post-start" /\ pc' = [pc EXCEPT ![e] = "running"]
            /\ store' = [store EXCEPT ![e].running = TRUE]
            /\ UNCHANGED <<net, blind, overlap>>
        BY <3>5 DEF PostStartFail
      <4>2. /\ store' \in [Exp -> [running : BOOLEAN, subnet : Subnet \cup {None}]]
            /\ \A x \in Exp : x # e => store'[x] = store[x]
        BY <4>1, StoreKept
      <4>3. /\ tapAddr'[e] = NoTaps
            /\ \A x \in Exp : x # e => tapAddr'[x] = tapAddr[x]
        BY <3>5, <4>1 DEF PostStartFail
      <4>4. pc' \in [Exp -> {"idle", "post-start", "running"}]
        BY <4>1
      <4>5. \A x \in Exp : Active(x)' => Active(x)
        BY <4>1, <4>3
      <4>6. \A x \in Exp : tapAddr'[x] # NoTaps =>
              /\ pc'[x] = "running" /\ store'[x].running
              /\ store'[x].subnet = net'[x]
        BY <4>1, <4>2, <4>3
      <4> HIDE DEF Layout, Chosen, Active, Race
      <4> QED
        BY <4>1, <4>2, <4>4, <4>5, <4>6, ChosenKept
    <3>6. CASE Stop(e)
      <4>1. /\ pc[e] = "running" /\ pc' = [pc EXCEPT ![e] = "idle"]
            /\ store' = [store EXCEPT ![e].running = FALSE]
            /\ UNCHANGED <<net, blind, overlap>>
        BY <3>6 DEF Stop
      <4>2. /\ store' \in [Exp -> [running : BOOLEAN, subnet : Subnet \cup {None}]]
            /\ \A x \in Exp : x # e => store'[x] = store[x]
        BY <4>1, StoreKept
      <4>3. /\ tapAddr'[e] = NoTaps
            /\ \A x \in Exp : x # e => tapAddr'[x] = tapAddr[x]
        BY <3>6, <4>1 DEF Stop
      <4>4. pc' \in [Exp -> {"idle", "post-start", "running"}]
        BY <4>1
      <4>5. \A x \in Exp : Active(x)' => Active(x)
        BY <4>1, <4>3
      <4>6. \A x \in Exp : tapAddr'[x] # NoTaps =>
              /\ pc'[x] = "running" /\ store'[x].running
              /\ store'[x].subnet = net'[x]
        BY <4>1, <4>2, <4>3
      <4> HIDE DEF Layout, Chosen, Active, Race
      <4> QED
        BY <4>1, <4>2, <4>4, <4>5, <4>6, ChosenKept
    <3> QED
      BY <2>1, <3>1, <3>2, <3>3, <3>4, <3>5, <3>6
  <2>2. CASE UNCHANGED vars
    BY <2>2 DEF vars
  <2> QED
    BY <2>1, <2>2 DEF Next
<1>3. Chosen => SharedOnlyByRace
  BY DEF Chosen, SharedOnlyByRace, Active, Race
<1> QED
  BY <1>1, <1>2, <1>3, LayoutCorrect, PTL DEF Spec

=============================================================================
