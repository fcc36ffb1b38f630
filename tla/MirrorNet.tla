----------------------------- MODULE MirrorNet -----------------------------
(***************************************************************************)
(* The networks and addresses the mirror app hands out                     *)
(* (configure, postStart, mirrorNet, runningExperiments in                 *)
(* go/cmd/phenix-app-mirror/main.go) when several experiments use it.      *)
(*                                                                         *)
(* configure and post-start each call mirrorNet, which takes the first     *)
(* subnet no running experiment has in its status.  configure addresses    *)
(* the receivers from the end of the subnet backwards, post-start the taps *)
(* of the cluster hosts from its beginning forwards.  The status, with the *)
(* subnet, reaches the store when post-start has ended.                    *)
(***************************************************************************)
EXTENDS Integers, FiniteSets

CONSTANTS
  Exp,        \* experiments
  Subnet,     \* the subnets mirrorNet can be moved to: 0 is the configured one
  Size,       \* addresses of a subnet, network and broadcast included
  MaxHost,    \* bound: cluster hosts an experiment is scheduled on
  Receivers,  \* receivers of an experiment, in list order: 1..Receivers
  ListFails   \* whether listing the experiments in the store can fail

ASSUME MirrorNetAssumption ==
  /\ Subnet \in SUBSET Nat /\ 0 \in Subnet
  /\ Size \in Nat /\ MaxHost \in Nat \ {0} /\ Receivers \in Nat
  /\ MaxHost + Receivers <= Size - 2
  /\ ListFails \in BOOLEAN

VARIABLES
  pc,         \* pc[e]: "idle", "post-start" or "running"
  store,      \* store[e]: whether e is running and the subnet of its status
  recvAddr,   \* recvAddr[e][i]: address of receiver i in the topology
  net,        \* net[e]: the subnet post-start works with
  tapAddr,    \* tapAddr[e]: addresses of the taps, by order of creation
  blind,      \* history: experiments that could not list the others
  overlap     \* history: pairs whose post-starts were in progress together

vars == <<pc, store, recvAddr, net, tapAddr, blind, overlap>>

None == -1
Addr == [net : Subnet, host : Int]
NoAddr == [net |-> None, host |-> None]
NoTaps == [h \in {} |-> NoAddr]

Init ==
  /\ pc = [e \in Exp |-> "idle"]
  /\ store = [e \in Exp |-> [running |-> FALSE, subnet |-> None]]
  /\ recvAddr = [e \in Exp |-> [i \in 1..Receivers |-> NoAddr]]
  /\ net = [e \in Exp |-> 0]
  /\ tapAddr = [e \in Exp |-> NoTaps]
  /\ blind = {}
  /\ overlap = {}

\* Mutant of Used: experiments that are not running count, running ones do not.
UsedByStopped ==
  {store[e].subnet : e \in {x \in Exp : ~store[x].running}} \ {None}

\* Subnets in the status of a running experiment (runningExperiments).
Used == {store[e].subnet : e \in {x \in Exp : store[x].running}} \ {None}

\* putil.UnusedSubnet: the first subnet that is not in use.
UnusedSubnet(n) == /\ n \in Subnet \ Used
                   /\ \A m \in Subnet \ Used : n <= m

\* mirrorNet() returns n; when the experiments cannot be listed it goes on with
\* the configured subnet.
mirrorNet(e, n) ==
  \/ UnusedSubnet(n) /\ blind' = blind \ {e}
  \/ ListFails /\ n = 0 /\ blind' = blind \cup {e}

\* Mutant of Configure: counts down from the broadcast address.
ConfigureFromBroadcast(e) ==
  /\ pc[e] = "idle"
  /\ \E n \in Subnet :
       recvAddr' = [recvAddr EXCEPT ![e] =
         [i \in 1..Receivers |-> [net |-> n, host |-> Size - i]]]
  /\ UNCHANGED <<pc, store, net, tapAddr, blind, overlap>>

\* configure() addresses the first k receivers: all of them, or those before
\* the one whose configuration is in error.
Configure(e) ==
  /\ pc[e] = "idle"
  /\ \E n \in Subnet, k \in 0..Receivers :
       /\ UnusedSubnet(n) \/ (ListFails /\ n = 0)
       /\ recvAddr' = [recvAddr EXCEPT ![e] = [i \in 1..Receivers |->
            IF i <= k THEN [net |-> n, host |-> Size - 1 - i] ELSE @[i]]]
  /\ UNCHANGED <<pc, store, net, tapAddr, blind, overlap>>

\* postStart(), up to the choice of the subnet.
PostStartNet(e) ==
  /\ pc[e] = "idle"
  /\ \E n \in Subnet : mirrorNet(e, n) /\ net' = [net EXCEPT ![e] = n]
  /\ pc' = [pc EXCEPT ![e] = "post-start"]
  /\ tapAddr' = [tapAddr EXCEPT ![e] = NoTaps]
  /\ overlap' = {p \in overlap : e \notin p}
                  \cup {{e, x} : x \in {y \in Exp : pc[y] = "post-start"}}
  /\ UNCHANGED <<store, recvAddr>>

\* postStart() when no subnet is left: an error before anything is created.
PostStartNoNet(e) ==
  /\ pc[e] = "idle"
  /\ Subnet \subseteq Used
  /\ pc' = [pc EXCEPT ![e] = "running"]
  /\ store' = [store EXCEPT ![e].running = TRUE]
  /\ UNCHANGED <<recvAddr, net, tapAddr, blind, overlap>>

\* postStart(), the rest of it: tap k of the hosts gets the k-th address, and
\* the status is stored with the experiment that is now running.
PostStartSave(e) ==
  /\ pc[e] = "post-start"
  /\ \E k \in 1..MaxHost :
       tapAddr' = [tapAddr EXCEPT ![e] =
                     [h \in 1..k |-> [net |-> net[e], host |-> h]]]
  /\ store' = [store EXCEPT ![e] = [running |-> TRUE, subnet |-> net[e]]]
  /\ pc' = [pc EXCEPT ![e] = "running"]
  /\ UNCHANGED <<recvAddr, net, blind, overlap>>

\* post-start fails: its taps are deleted and the experiment is running with
\* the status of an earlier run, or without one.
PostStartFail(e) ==
  /\ pc[e] = "post-start"
  /\ store' = [store EXCEPT ![e].running = TRUE]
  /\ pc' = [pc EXCEPT ![e] = "running"]
  /\ UNCHANGED <<recvAddr, net, tapAddr, blind, overlap>>

\* phenix stops the experiment; the status stays in the store.
Stop(e) ==
  /\ pc[e] = "running"
  /\ pc' = [pc EXCEPT ![e] = "idle"]
  /\ store' = [store EXCEPT ![e].running = FALSE]
  /\ tapAddr' = [tapAddr EXCEPT ![e] = NoTaps]
  /\ UNCHANGED <<recvAddr, net, blind, overlap>>

Next == \E e \in Exp :
  \/ Configure(e)
  \/ PostStartNet(e)
  \/ PostStartNoNet(e)
  \/ PostStartSave(e)
  \/ PostStartFail(e)
  \/ Stop(e)

Spec == Init /\ [][Next]_vars

(***************************************************************************)
(* Properties                                                              *)
(***************************************************************************)

TypeOK ==
  /\ pc \in [Exp -> {"idle", "post-start", "running"}]
  /\ store \in [Exp -> [running : BOOLEAN, subnet : Subnet \cup {None}]]
  /\ recvAddr \in [Exp -> [1..Receivers -> Addr \cup {NoAddr}]]
  /\ net \in [Exp -> Subnet]
  /\ \A e \in Exp : \A h \in DOMAIN tapAddr[e] : tapAddr[e][h] \in Addr
  /\ blind \in SUBSET Exp
  /\ overlap \in SUBSET SUBSET Exp

\* The taps and receivers of an experiment have different addresses, and none
\* is the network or the broadcast address: the two ranges do not meet as long
\* as the subnet has room for both (configure counts down from the end,
\* postStart up from the beginning).
NoClash ==
  \A e \in Exp :
    LET taps == {tapAddr[e][h] : h \in DOMAIN tapAddr[e]}
        recvs == {recvAddr[e][i] : i \in 1..Receivers} \ {NoAddr}
    IN  /\ taps \cap recvs = {}
        /\ \A i, j \in 1..Receivers :
             recvAddr[e][i] = recvAddr[e][j] => i = j \/ recvAddr[e][i] = NoAddr
        /\ \A a \in taps \cup recvs : 0 < a.host /\ a.host < Size - 1

\* Two running experiments share a mirror subnet only when their post-starts
\* were in progress at the same time or one of them could not list the running
\* experiments (mirrorNet).
SharedOnlyByRace ==
  \A e, x \in Exp :
    /\ e # x /\ pc[e] = "running" /\ pc[x] = "running"
    /\ tapAddr[e] # NoTaps /\ tapAddr[x] # NoTaps
    /\ store[e].subnet = store[x].subnet
    => {e, x} \in overlap \/ e \in blind \/ x \in blind

\* main.go:290-292: "Cluster hosts will be addressed at the beginning of the
\* mirror network going forward (target VMs to receive mirrored data are
\* addressed from the end of the mirror network backwards)."  The receivers of a
\* running experiment are on the network of its taps.
ReceiversOnMirrorNet ==
  \A e \in Exp : pc[e] = "running" /\ tapAddr[e] # NoTaps =>
    \A i \in 1..Receivers : recvAddr[e][i] # NoAddr =>
      recvAddr[e][i].net = store[e].subnet

=============================================================================
