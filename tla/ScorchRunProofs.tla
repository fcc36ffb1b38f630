--------------------------- MODULE ScorchRunProofs ---------------------------
(***************************************************************************)
(* Proofs about ScorchRun, for every experiment: any scenarios, components *)
(* and programs, any number of runs and faults.  What is asked of the      *)
(* requests themselves is a predicate of the scenario: the components name *)
(* what is theirs (Apart), a disruption notes its times around what it     *)
(* does (Stamped), a collector records after its checks (Recorded), what   *)
(* is collected is deleted before the run or has a new name (Renewing) and *)
(* what writes it is ended (Closing), a component ends all that it has set *)
(* up (Tidy).  The first three are then proved of the programs that every  *)
(* configuration of the components has (Configured).                       *)
(***************************************************************************)
EXTENDS ScorchRun, ScorchExperiment, SequenceTheorems, WellFoundedInduction,
  NaturalsInduction, TLAPS

----------------------------------------------------------------------------
(* Types *)

\* Whose turn it is, and which request.
AtOK ==
  /\ run \in 1..(MaxRun + 1) /\ stage \in Stage
  /\ who \in Member /\ pc \in Nat

LEMMA KindType ==
  ASSUME TypeOK
  PROVE  /\ Kind[scen] \in Seq(STRING) /\ Len(Kind[scen]) \in Nat \ {0}
         /\ Member = 1..Len(Kind[scen])
         /\ \A i \in Member : Kind[scen][i] \in STRING /\ i \in Nat
<1>1. Kind[scen] \in Seq(STRING) /\ Kind[scen] # <<>>
  BY RunAssumption DEF RunAssumption, TypeOK
<1>2. /\ Len(Kind[scen]) \in Nat \ {0}
      /\ Member = 1..Len(Kind[scen])
  BY <1>1, EmptySeq, LenProperties DEF Member
<1>3. \A i \in Member : Kind[scen][i] \in STRING /\ i \in Nat
  BY <1>1, <1>2, ElementOfSeq
<1>. QED  BY <1>1, <1>2, <1>3

LEMMA MemberSame ==
  ASSUME UNCHANGED scen
  PROVE  Member' = Member /\ Cmd' = Cmd /\ Proc' = Proc /\ Saved' = Saved
<1>1. Member' = Member
  BY DEF Member
<1>. QED  BY <1>1 DEF Cmd, Proc, Saved

LEMMA RequestType ==
  ASSUME TypeOK, Running
  PROVE  /\ run \in 1..MaxRun /\ r \in Request
         /\ r.op = "again" => r.skip < pc
<1>1. run \in 1..MaxRun /\ scen \in Scenario /\ stage \in Stage
      /\ who \in Member
  BY RunAssumption DEF TypeOK, Running, RunAssumption
<1>2. Prog \in Seq(Request)
  BY <1>1, RunAssumption DEF RunAssumption, Prog, Member
<1>3. pc \in 1..Len(Prog)
  BY DEF Running
<1>4. DOMAIN Prog = 1..Len(Prog) /\ r \in Request
  BY <1>2, <1>3, LenProperties, ElementOfSeq DEF r
<1>5. r.op = "again" => r.skip < pc
  BY <1>1, <1>3, <1>4, RunAssumption DEF RunAssumption, Prog, r, Member
<1>. QED  BY <1>1, <1>4, <1>5

LEMMA LeaveType ==
  ASSUME TypeOK, run <= MaxRun, Leave, UNCHANGED scen
  PROVE  AtOK'
<1>1. Len(Kind[scen]) \in Nat \ {0} /\ Member = 1..Len(Kind[scen])
  BY KindType
<1>2. CASE who < Len(Kind[scen])
  BY <1>1, <1>2, MemberSame DEF TypeOK, Leave, AtOK, Stage
<1>3. CASE ~(who < Len(Kind[scen]))
  BY <1>1, <1>3, MemberSame, RunAssumption DEF TypeOK, Leave, AtOK, Stage, RunAssumption
<1>. QED  BY <1>2, <1>3

LEMMA MoveType ==
  ASSUME TypeOK, Running, UNCHANGED scen,
         Continue \/ Step(1 + r.skip) \/ Raise \/ Fails
  PROVE  AtOK'
<1>0. run <= MaxRun /\ pc \in Nat
  BY DEF Running, TypeOK
<1>1. r.skip \in Nat
  BY RequestType DEF Request
<1>2. CASE Continue \/ Step(1 + r.skip)
  BY <1>0, <1>1, <1>2, MemberSame DEF Continue, Step, TypeOK, AtOK
<1>3. CASE Leave
  BY <1>0, <1>3, LeaveType
<1>4. CASE Exit
  <2>1. CASE stage = 4
    BY <1>0, <1>4, <2>1, LeaveType DEF Exit
  <2>2. CASE stage # 4
    BY <1>4, <2>2, KindType, MemberSame DEF Exit, TypeOK, AtOK, Stage
  <2>. QED  BY <2>1, <2>2
<1>. QED  BY <1>2, <1>3, <1>4 DEF Raise, Fails

ClockOK ==
  clock \in [on : BOOLEAN, now : Nat, stop : Nat, delay : Nat, attack : Nat]
FaultsOK == faults \in 0..MaxFault /\ late \subseteq Nat
AgentsOK ==
  /\ queue \in [VM -> Seq(Cmd)] /\ answer \in [VM -> {"ok", "bad"}]
  /\ proc \subseteq Proc /\ file \subseteq File
  /\ down \subseteq VM \X STRING \X Member
LabOK ==
  /\ filter \subseteq VM \cup {Host}
  /\ tags \subseteq (VM \cup {Host}) \X STRING
  /\ net \subseteq STRING \X (VM \cup {Host}) \X Member
HistoryOK ==
  /\ saved \subseteq Saved /\ done \subseteq Nat \X Member \X Stage
  /\ collateral \subseteq STRING \X STRING

LEMMA Parts ==
  /\ TypeOK <=> /\ scen \in Scenario /\ AtOK /\ ClockOK /\ FaultsOK
                /\ AgentsOK /\ LabOK /\ HistoryOK
  /\ TypeOK' <=> /\ scen' \in Scenario /\ AtOK' /\ ClockOK' /\ FaultsOK'
                 /\ AgentsOK' /\ LabOK' /\ HistoryOK'
BY DEF TypeOK, AtOK, ClockOK, FaultsOK, AgentsOK, LabOK, HistoryOK

LEMMA FaultType ==
  ASSUME TypeOK, Fault \/ NoFault, UNCHANGED late
  PROVE  FaultsOK'
BY RunAssumption DEF TypeOK, FaultsOK, Fault, NoFault, RunAssumption

LEMMA LateType ==
  ASSUME TypeOK, Late \/ InTime
  PROVE  FaultsOK'
<1>1. run \in Nat
  BY RunAssumption DEF TypeOK, RunAssumption
<1>2. CASE Late
  <2>1. faults' \in 0..MaxFault
    BY <1>2, RunAssumption DEF TypeOK, Fault, Late, RunAssumption
  <2>2. late' \subseteq Nat
    BY <1>1, <1>2 DEF TypeOK, Late
  <2>. QED  BY <2>1, <2>2 DEF FaultsOK
<1>3. CASE InTime
  BY <1>3 DEF TypeOK, FaultsOK, InTime
<1>. QED  BY <1>2, <1>3

LEMMA TickType ==
  ASSUME TypeOK, NEW d \in Nat, Tick(d)
  PROVE  ClockOK'
<1>1. ClockOK
  BY Parts
<1>2. CASE clock.on
  <2>1. clock' = [clock EXCEPT !.now = clock.now + d] /\ clock.now + d \in Nat
    BY <1>1, <1>2 DEF ClockOK, Tick
  <2>. QED  BY <1>1, <2>1 DEF ClockOK
<1>3. CASE ~clock.on
  BY <1>1, <1>3 DEF ClockOK, Tick
<1>. QED  BY <1>2, <1>3

\* What an action leaves alone keeps its type.
LEMMA SameType ==
  ASSUME TypeOK, UNCHANGED scen
  PROVE  /\ UNCHANGED at => AtOK'
         /\ UNCHANGED clock => ClockOK'
         /\ UNCHANGED <<faults, late>> => FaultsOK'
         /\ UNCHANGED agents => AgentsOK'
         /\ UNCHANGED lab => LabOK'
         /\ UNCHANGED <<saved, done, collateral>> => HistoryOK'
         /\ UNCHANGED history => HistoryOK' /\ FaultsOK'
BY MemberSame
   DEF TypeOK, AtOK, ClockOK, FaultsOK, AgentsOK, LabOK, HistoryOK, at, agents, lab,
       history

\* An action that a request leads to without touching a VM or a file.
LEMMA PlainType ==
  ASSUME TypeOK, Running, UNCHANGED <<scen, agents, lab, saved, done, collateral>>,
         Continue \/ Step(1 + r.skip) \/ Raise \/ Fails, ClockOK', FaultsOK'
  PROVE  TypeOK'
<1>1. AtOK'
  BY MoveType
<1>2. AgentsOK' /\ LabOK' /\ HistoryOK'
  BY SameType
<1>3. scen' \in Scenario
  BY DEF TypeOK
<1>. QED  BY <1>1, <1>2, <1>3, Parts

LEMMA LaunchType ==
  ASSUME TypeOK, Launch
  PROVE  TypeOK'
<1>1. AtOK'
  BY MemberSame DEF Launch, Continue, Step, TypeOK, AtOK
<1>2. ClockOK'
  BY DEF Launch, TypeOK, ClockOK
<1>3. FaultsOK' /\ AgentsOK' /\ LabOK' /\ HistoryOK'
  BY SameType DEF Launch
<1>. QED  BY <1>1, <1>2, <1>3, Parts DEF Launch

LEMMA FinishType ==
  ASSUME TypeOK, Finish
  PROVE  TypeOK'
<1>1. AtOK'
  BY LeaveType DEF Finish
<1>2. who \in Member /\ run \in Nat /\ stage \in Stage
  BY RunAssumption DEF TypeOK, RunAssumption
<1>3. HistoryOK'
  BY <1>2, MemberSame DEF Finish, TypeOK, HistoryOK
<1>4. FaultsOK' /\ AgentsOK' /\ LabOK' /\ ClockOK'
  BY SameType DEF Finish
<1>. QED  BY <1>1, <1>3, <1>4, Parts DEF Finish

LEMMA WaitType ==
  ASSUME TypeOK, AwaitAnswer \/ OverlookAnswer \/ TimeOut \/ Sleeping
  PROVE  TypeOK'
<1>1. CASE AwaitAnswer
  <2>1. Running /\ (Fails \/ Continue)
    BY <1>1 DEF AwaitAnswer, Is
  <2>2. ClockOK'
    BY <1>1, <2>1, RequestType, TickType DEF AwaitAnswer, Request
  <2>. QED  BY <1>1, <2>1, <2>2, PlainType, SameType DEF AwaitAnswer, history
<1>2. CASE OverlookAnswer
  <2>1. Running /\ Continue
    BY <1>2 DEF OverlookAnswer, Is
  <2>. QED  BY <1>2, <2>1, PlainType, SameType DEF OverlookAnswer, history
<1>3. CASE TimeOut
  <2>1. Running /\ Raise
    BY <1>3 DEF TimeOut, Is
  <2>2. ClockOK'
    BY <1>3, <2>1, RequestType, TickType DEF TimeOut, Request
  <2>3. FaultsOK'
    BY <1>3, LateType DEF TimeOut
  <2>. QED  BY <1>3, <2>1, <2>2, <2>3, PlainType DEF TimeOut
<1>4. CASE Sleeping
  <2>1. Running /\ Continue /\ Tick(SleepTime)
    BY <1>4 DEF Sleeping, Is
  <2>2. SleepTime \in Nat
    <3>1. r.n \in Nat /\ clock.now \in Nat
      BY <2>1, RequestType DEF Request, TypeOK
    <3>. QED  BY <3>1 DEF SleepTime
  <2>3. ClockOK'
    BY <2>1, <2>2, TickType
  <2>4. FaultsOK'
    BY <1>4, LateType DEF Sleeping
  <2>. QED  BY <1>4, <2>1, <2>3, <2>4, PlainType DEF Sleeping
<1>. QED  BY <1>1, <1>2, <1>3, <1>4

LEMMA DecideType ==
  ASSUME TypeOK, Branch \/ Happen \/ Repeat \/ Attempted \/ GiveUp \/ Pass \/ Note
  PROVE  TypeOK'
<1>1. CASE Branch
  <2>1. Running /\ (Continue \/ Step(1 + r.skip))
    BY <1>1 DEF Branch, Is
  <2>. QED  BY <1>1, <2>1, PlainType, SameType DEF Branch, history
<1>2. CASE Happen
  <2>1. Running /\ (Continue \/ Step(1 + r.skip))
    BY <1>2 DEF Happen, Is
  <2>2. FaultsOK'
    BY <1>2, FaultType DEF Happen
  <2>. QED  BY <1>2, <2>1, <2>2, PlainType, SameType DEF Happen
<1>3. CASE Repeat
  <2>1. Running /\ (Continue \/ Step(0 - r.skip))
    BY <1>3 DEF Repeat, Is
  <2>2. CASE Continue
    BY <1>3, <2>1, <2>2, PlainType, SameType DEF Repeat, history
  <2>3. CASE Step(0 - r.skip)
    <3>1. r.skip \in Nat /\ r.skip < pc
      BY <1>3, <2>1, RequestType DEF Repeat, Is, Request
    <3>2. pc' \in Nat /\ UNCHANGED <<run, stage, who>>
      <4>1. pc' = pc + (0 - r.skip) /\ UNCHANGED <<run, stage, who>>
        BY <2>3 DEF Step
      <4>2. pc \in Nat
        BY DEF TypeOK
      <4>. QED  BY <3>1, <4>1, <4>2
    <3>4. AtOK'
      BY <1>3, <3>2, MemberSame DEF Repeat, TypeOK, AtOK
    <3>3. ClockOK' /\ FaultsOK' /\ AgentsOK' /\ LabOK' /\ HistoryOK'
      BY <1>3, SameType DEF Repeat
    <3>. QED  BY <1>3, <3>3, <3>4, Parts DEF Repeat
  <2>. QED  BY <2>1, <2>2, <2>3
<1>4. CASE Attempted
  <2>1. Running /\ (Continue \/ Fails)
    BY <1>4 DEF Attempted, Is
  <2>2. FaultsOK'
    BY <1>4, FaultType DEF Attempted
  <2>. QED  BY <1>4, <2>1, <2>2, PlainType, SameType DEF Attempted
<1>5. CASE GiveUp
  <2>1. Running /\ Fails
    BY <1>5 DEF GiveUp, Is
  <2>. QED  BY <1>5, <2>1, PlainType, SameType DEF GiveUp, history
<1>6. CASE Pass
  <2>1. Running /\ Continue
    BY <1>6 DEF Pass, Is
  <2>. QED  BY <1>6, <2>1, PlainType, SameType DEF Pass, history
<1>7. CASE Note
  <2>1. Running /\ Continue
    BY <1>7 DEF Note, Is
  <2>2. r.n \in Nat /\ r.time \in Nat
    BY <2>1, RequestType DEF Request
  <2>3. \/ clock' = [NoTime EXCEPT !.on = TRUE]
        \/ clock' = [clock EXCEPT !.stop = clock.now]
        \/ clock' = [clock EXCEPT !.delay = r.n, !.attack = clock.now + r.time]
    BY <1>7 DEF Note, Noted
  <2>4. ClockOK
    BY Parts
  <2>5. NoTime \in [on : BOOLEAN, now : Nat, stop : Nat, delay : Nat, attack : Nat]
    BY DEF NoTime
  <2>6. clock.now \in Nat /\ clock.now + r.time \in Nat
    BY <2>2, <2>4 DEF ClockOK
  <2>7. ClockOK'
    BY <2>2, <2>3, <2>4, <2>5, <2>6 DEF ClockOK
  <2>. QED  BY <1>7, <2>1, <2>7, PlainType, SameType DEF Note, history
<1>. QED  BY <1>1, <1>2, <1>3, <1>4, <1>5, <1>6, <1>7
----------------------------------------------------------------------------
(* What is asked of minimega, and files *)

LEMMA TagType ==
  ASSUME TypeOK, SetFilter \/ SetTag \/ SwitchOn \/ SwitchOff
  PROVE  TypeOK'
<1>1. Running
  BY DEF SetFilter, SetTag, SwitchOn, SwitchOff, Is
<1>2. r.vms \subseteq VM \cup {Host} /\ r.names \subseteq STRING
  BY <1>1, RequestType DEF Request
<1>3. who \in Member /\ Kind[scen][who] \in STRING
  BY KindType DEF TypeOK
<1>4. CASE SetFilter
  <2>1. LabOK'
    BY <1>2, <1>4, MemberSame DEF SetFilter, TypeOK, LabOK
  <2>2. AtOK'
    BY <1>1, <1>4, MoveType DEF SetFilter
  <2>. QED  BY <1>4, <2>1, <2>2, SameType, Parts DEF SetFilter
<1>5. CASE SetTag
  <2>1. LabOK'
    BY <1>2, <1>5, MemberSame DEF SetTag, TypeOK, LabOK
  <2>2. AtOK'
    BY <1>1, <1>5, MoveType DEF SetTag
  <2>. QED  BY <1>5, <2>1, <2>2, SameType, Parts DEF SetTag
<1>6. CASE SwitchOn
  <2>1. LabOK'
    BY <1>2, <1>3, <1>6, MemberSame DEF SwitchOn, TypeOK, LabOK
  <2>2. AtOK'
    BY <1>1, <1>6, MoveType DEF SwitchOn
  <2>3. FaultsOK'
    BY <1>6, FaultType DEF SwitchOn
  <2>. QED  BY <1>6, <2>1, <2>2, <2>3, SameType, Parts DEF SwitchOn
<1>7. CASE SwitchOff
  <2>1. LabOK'
    BY <1>7, MemberSame DEF SwitchOff, TypeOK, LabOK
  <2>2. AtOK'
    BY <1>1, <1>7, MoveType DEF SwitchOff
  <2>3. FaultsOK'
    BY <1>7, FaultType DEF SwitchOff
  <2>4. HistoryOK'
    <3>1. \A n \in net : Kind[scen][n[3]] \in STRING
      BY KindType DEF TypeOK
    <3>2. collateral' \subseteq STRING \X STRING
      BY <1>3, <1>7, <3>1 DEF SwitchOff, TypeOK
    <3>. QED  BY <1>7, <3>2, MemberSame DEF SwitchOff, TypeOK, HistoryOK
  <2>. QED  BY <1>7, <2>1, <2>2, <2>3, <2>4, SameType, Parts DEF SwitchOff
<1>. QED  BY <1>4, <1>5, <1>6, <1>7
LEMMA FileType ==
  ASSUME TypeOK, Fetch \/ Missing \/ WriteFile \/ GatherFile
  PROVE  TypeOK'
<1>1. Running
  BY DEF Fetch, Missing, WriteFile, GatherFile, Is
<1>2. r.files \subseteq STRING
  BY <1>1, RequestType DEF Request
<1>3. who \in Member /\ run \in Nat
  BY RunAssumption DEF TypeOK, RunAssumption
<1>4. ASSUME NEW f \in STRING, NEW data \in SUBSET Nat, NEW torn \in BOOLEAN,
             Save(f, data, torn)
      PROVE  saved' \subseteq Saved
  <2>. DEFINE x == [by |-> who, run |-> run, name |-> f, data |-> data, torn |-> torn]
  <2>1. x \in Saved
    BY <1>3 DEF Saved
  <2>2. saved' = saved \cup {x}
    BY <1>4 DEF Save
  <2>. HIDE DEF x
  <2>. QED  BY <2>1, <2>2 DEF TypeOK
<1>5. CASE Fetch
  <2>1. PICK f \in file : Save(f.name, f.data, Torn(f.vm, f.name))
    BY <1>5 DEF Fetch
  <2>2. f.name \in STRING /\ f.data \in SUBSET Nat
    BY DEF TypeOK, File
  <2>3. Torn(f.vm, f.name) \in BOOLEAN
    BY DEF Torn
  <2>4. saved' \subseteq Saved
    BY <1>4, <2>1, <2>2, <2>3
  <2>5. HistoryOK'
    BY <1>5, <2>4, MemberSame DEF Fetch, TypeOK, HistoryOK
  <2>6. AtOK'
    BY <1>1, <1>5, MoveType DEF Fetch
  <2>. QED  BY <1>5, <2>5, <2>6, SameType, Parts DEF Fetch
<1>6. CASE Missing
  <2>1. Fails
    BY <1>6 DEF Missing
  <2>2. FaultsOK'
    BY <1>6, LateType DEF Missing
  <2>. QED  BY <1>1, <1>6, <2>1, <2>2, SameType, PlainType DEF Missing
<1>7. CASE WriteFile
  <2>1. PICK f \in r.files : Save(f, {run}, FALSE)
    BY <1>7 DEF WriteFile
  <2>2. saved' \subseteq Saved
    BY <1>2, <1>3, <1>4, <2>1
  <2>3. HistoryOK'
    BY <1>7, <2>2, MemberSame DEF WriteFile, TypeOK, HistoryOK
  <2>4. AtOK'
    BY <1>1, <1>7, MoveType DEF WriteFile
  <2>. QED  BY <1>7, <2>3, <2>4, SameType, Parts DEF WriteFile
<1>8. CASE GatherFile
  <2>1. Continue \/ Fails
    BY <1>8 DEF GatherFile
  <2>. QED  BY <1>1, <1>8, <2>1, SameType, PlainType DEF GatherFile, history
<1>. QED  BY <1>5, <1>6, <1>7, <1>8

----------------------------------------------------------------------------
(* The VMs *)

LEMMA QueueType ==
  ASSUME TypeOK, Issue \/ Forget
  PROVE  TypeOK'
<1>1. Running
  BY DEF Issue, Forget, Is
<1>2. AtOK'
  BY <1>1, MoveType DEF Issue, Forget
<1>3. CASE Issue
  <2>. DEFINE cmd == [rq |-> r, by |-> who, run |-> run]
  <2>0. r \in Request /\ who \in Member /\ run \in Nat
    BY <1>1, RequestType DEF TypeOK
  <2>1. cmd \in Cmd
    BY <2>0 DEF Cmd
  <2>. HIDE DEF cmd
  <2>2. \A v \in VM : queue[v] \in Seq(Cmd) /\ Append(queue[v], cmd) \in Seq(Cmd)
    BY <2>1, AppendProperties DEF TypeOK
  <2>3. queue' = [v \in VM |-> IF v \in filter THEN Append(queue[v], cmd) ELSE queue[v]]
    BY <1>3 DEF Issue, cmd
  <2>4. queue' \in [VM -> Seq(Cmd)]
    BY <2>2, <2>3
  <2>5. AgentsOK'
    BY <1>3, <2>4, MemberSame DEF Issue, TypeOK, AgentsOK
  <2>. QED  BY <1>2, <1>3, <2>5, SameType, Parts DEF Issue
<1>4. CASE Forget
  <2>1. queue' \in [VM -> Seq(Cmd)]
    BY <1>4, EmptySeq DEF Forget
  <2>2. AgentsOK'
    BY <1>4, <2>1, MemberSame DEF Forget, TypeOK, AgentsOK
  <2>. QED  BY <1>2, <1>4, <2>2, SameType, Parts DEF Forget
<1>. QED  BY <1>3, <1>4

LEMMA HeadType ==
  ASSUME TypeOK, NEW v \in VM, queue[v] # <<>>
  PROVE  queue[v][1] \in Cmd /\ Tail(queue[v]) \in Seq(Cmd)
<1>1. queue[v] \in Seq(Cmd)
  BY DEF TypeOK
<1>. QED  BY <1>1, HeadTailProperties, EmptySeq, ElementOfSeq, LenProperties

LEMMA ExecuteType ==
  ASSUME TypeOK, NEW v \in VM, Execute(v)
  PROVE  TypeOK'
<1>. DEFINE q == queue[v][1]
            links == {v} \X q.rq.names \X {q.by}
<1>1. q \in Cmd /\ Tail(queue[v]) \in Seq(Cmd)
  BY HeadType DEF Execute
<1>. HIDE DEF q
<1>2. /\ q.rq \in Request /\ q.by \in Member /\ q.run \in Nat
      /\ q.rq.names \subseteq STRING /\ q.rq.files \subseteq STRING
      /\ q.rq.ends \in BOOLEAN
  BY <1>1 DEF Cmd, Request
<1>3. /\ queue' = [queue EXCEPT ![v] = Tail(queue[v])]
      /\ UNCHANGED <<scen, at, clock, lab, saved, done, late>>
      /\ \/ /\ answer' = [answer EXCEPT ![v] = "ok"]
            /\ proc' = (proc \ Killed(v, q)) \cup Begun(v, q)
            /\ file' = (file \ Replaced(v, q)) \cup Written(v, q)
            /\ down' = IF q.rq.act = "down" THEN down \cup links
                       ELSE {d \in down : q.rq.act = "up" =>
                               d[1] # v \/ d[2] \notin q.rq.names}
            /\ collateral' = collateral \cup
                 {<<Kind[scen][q.by], Kind[scen][p.by]>> :
                    p \in {x \in Killed(v, q) : x.by # q.by}}
            /\ NoFault
         \/ /\ Fault
            /\ answer' = [answer EXCEPT ![v] = "bad"]
            /\ UNCHANGED <<proc, file, down, collateral>>
  BY DEF Execute, q
<1>4. queue' \in [VM -> Seq(Cmd)] /\ answer' \in [VM -> {"ok", "bad"}]
  BY <1>1, <1>3 DEF TypeOK
<1>5. Begun(v, q) \subseteq Proc
  <2>1. (q.rq.act = "run") \in BOOLEAN
    OBVIOUS
  <2>2. ASSUME NEW n \in STRING
        PROVE  [vm |-> v, name |-> n, by |-> q.by, fg |-> q.rq.act = "run",
                ends |-> q.rq.ends, files |-> q.rq.files] \in Proc
    BY <1>2, <2>1 DEF Proc
  <2>. QED  BY <1>2, <2>2 DEF Begun
<1>6. Written(v, q) \subseteq File
  <2>1. ASSUME NEW f \in STRING
        PROVE  Data(v, f, q) \subseteq Nat
    BY <1>2 DEF Data, TypeOK, File
  <2>2. ASSUME NEW f \in STRING
        PROVE  [vm |-> v, name |-> f, data |-> Data(v, f, q)] \in File
    BY <2>1 DEF File
  <2>. QED  BY <1>2, <2>2 DEF Written
<1>7. proc' \subseteq Proc /\ file' \subseteq File
  BY <1>3, <1>5, <1>6 DEF TypeOK
<1>8. down' \subseteq VM \X STRING \X Member
  <2>1. links \subseteq VM \X STRING \X Member
    BY <1>2
  <2>. HIDE DEF links
  <2>. QED  BY <1>3, <2>1 DEF TypeOK
<1>9. AgentsOK'
  BY <1>3, <1>4, <1>7, <1>8, MemberSame DEF AgentsOK
<1>10. HistoryOK'
  <2>1. \A i \in Member : Kind[scen][i] \in STRING
    BY KindType
  <2>2. \A p \in Killed(v, q) : p.by \in Member
    BY DEF Killed, TypeOK, Proc
  <2>3. collateral' \subseteq STRING \X STRING
    BY <1>2, <1>3, <2>1, <2>2 DEF TypeOK
  <2>. QED  BY <1>3, <2>3, MemberSame DEF TypeOK, HistoryOK
<1>11. FaultsOK'
  BY <1>3, FaultType
<1>. QED  BY <1>3, <1>9, <1>10, <1>11, SameType, Parts

LEMMA ProcEndsType ==
  ASSUME TypeOK, NEW p \in proc, ProcEnds(p)
  PROVE  TypeOK'
<1>1. AgentsOK'
  BY MemberSame DEF ProcEnds, TypeOK, AgentsOK
<1>. QED  BY <1>1, SameType, Parts DEF ProcEnds

LEMMA TypeStep ==
  ASSUME TypeOK, [Next]_vars
  PROVE  TypeOK'
<1>1. CASE Launch \/ Finish
  BY <1>1, LaunchType, FinishType
<1>2. CASE SetFilter \/ SetTag \/ SwitchOn \/ SwitchOff
  BY <1>2, TagType
<1>3. CASE Issue \/ Forget
  BY <1>3, QueueType
<1>4. CASE AwaitAnswer \/ OverlookAnswer \/ TimeOut \/ Sleeping
  BY <1>4, WaitType
<1>5. CASE Branch \/ Happen \/ Repeat \/ Attempted \/ GiveUp \/ Pass \/ Note
  BY <1>5, DecideType
<1>6. CASE Fetch \/ Missing \/ WriteFile \/ GatherFile
  BY <1>6, FileType
<1>7. CASE \E v \in VM : Execute(v)
  BY <1>7, ExecuteType
<1>8. CASE \E p \in proc : ProcEnds(p)
  BY <1>8, ProcEndsType
<1>9. CASE UNCHANGED vars
  BY <1>9, SameType, Parts DEF vars, TypeOK
<1>. QED
  BY <1>1, <1>2, <1>3, <1>4, <1>5, <1>6, <1>7, <1>8, <1>9 DEF Next

\* Type correctness, for every experiment: in particular whatever a program
\* asks for, nobody outside the run owns a process, an interface or a capture,
\* and no exception or exit leads outside the stages of the components.
THEOREM TypeCorrect == Spec => []TypeOK
<1>1. Init => TypeOK
  <2>. SUFFICES ASSUME Init PROVE TypeOK
    OBVIOUS
  <2>1. scen \in Scenario /\ 1 \in 1..(MaxRun + 1) /\ 0 \in 0..MaxFault
    BY RunAssumption DEF Init, RunAssumption
  <2>2. 1 \in Member
    <3>1. Kind[scen] \in Seq(STRING) /\ Kind[scen] # <<>>
      BY <2>1, RunAssumption DEF RunAssumption
    <3>. QED  BY <3>1, EmptySeq, LenProperties DEF Member
  <2>3. AtOK /\ FaultsOK
    BY <2>1, <2>2 DEF Init, AtOK, FaultsOK, Stage
  <2>4. ClockOK
    BY DEF Init, ClockOK, NoTime
  <2>5. AgentsOK
    BY EmptySeq DEF Init, AgentsOK
  <2>6. LabOK /\ HistoryOK
    BY DEF Init, LabOK, HistoryOK
  <2>. QED  BY <2>1, <2>3, <2>4, <2>5, <2>6, Parts
<1>2. TypeOK /\ [Next]_vars => TypeOK'
  BY TypeStep
<1>. QED  BY <1>1, <1>2, PTL DEF Spec

----------------------------------------------------------------------------
(* What there is in the experiment, and who asked for it *)

\* A command that waits, a process and a capture or the like were asked for by
\* the component that they are said to be of.
Ordered == \A v \in VM : \A k \in DOMAIN queue[v] :
             queue[v][k].rq \in Asked(scen, queue[v][k].by) /\ queue[v][k].rq.op = "exec"
Started == \A x \in proc : \E y \in Asked(scen, x.by) :
             y.op = "exec" /\ y.act \in {"run", "start", "append"} /\ x.name \in y.names
Switched == \A x \in net : \E y \in Asked(scen, x[3]) :
              y.op = "on" /\ x[1] \in y.names /\ x[2] \in y.vms
Sourced == Ordered /\ Started /\ Switched /\ OthersSurvive

LEMMA Asking ==
  ASSUME TypeOK, Running
  PROVE  r \in Asked(scen, who)
<1>1. run \in 1..MaxRun /\ stage \in Stage
  BY RequestType DEF TypeOK
<1>2. Prog \in Seq(Request)
  BY <1>1, RunAssumption DEF RunAssumption, Prog, Member, TypeOK
<1>3. pc \in DOMAIN Prog
  BY <1>2, LenProperties DEF Running
<1>4. r \in {Program[scen][run][stage][who][k] :
              k \in DOMAIN Program[scen][run][stage][who]}
  BY <1>3 DEF Prog, r
<1>5. r \in UNION {{Program[scen][run][g][who][k] :
                      k \in DOMAIN Program[scen][run][g][who]} : g \in Stage}
  BY <1>1, <1>4
<1>. QED  BY <1>1, <1>5 DEF Asked

\* Where nothing is asked for, ended or switched.
LEMMA SourcedSame ==
  ASSUME Sourced, UNCHANGED <<scen, queue, net, collateral>>, proc' \subseteq proc
  PROVE  Sourced'
<1>1. Ordered' /\ Switched' /\ OthersSurvive'
  BY DEF Sourced, Ordered, Switched, OthersSurvive
<1>2. Started'
  BY DEF Sourced, Started
<1>. QED  BY <1>1, <1>2 DEF Sourced

LEMMA SourcedIssue ==
  ASSUME TypeOK, Sourced, Issue \/ Forget
  PROVE  Sourced'
<1>1. Running /\ UNCHANGED <<scen, proc, net, collateral>>
  BY DEF Issue, Forget, Is, lab, history
<1>2. Started' /\ Switched' /\ OthersSurvive'
  BY <1>1 DEF Sourced, Started, Switched, OthersSurvive
<1>3. ASSUME NEW v \in VM, NEW k \in DOMAIN queue'[v]
      PROVE  queue'[v][k].rq \in Asked(scen, queue'[v][k].by)
             /\ queue'[v][k].rq.op = "exec"
  <2>1. CASE Issue /\ v \in filter
    <3>. DEFINE cmd == [rq |-> r, by |-> who, run |-> run]
    <3>1. cmd.rq \in Asked(scen, cmd.by) /\ cmd.rq.op = "exec"
      BY <1>1, <2>1, Asking DEF Issue, Is
    <3>0. r \in Request /\ who \in Member /\ run \in Nat
      BY <1>1, RequestType DEF TypeOK
    <3>2. queue[v] \in Seq(Cmd) /\ cmd \in Cmd
      BY <3>0 DEF TypeOK, Cmd
    <3>3. queue'[v] = Append(queue[v], cmd)
      BY <2>1 DEF Issue
    <3>. HIDE DEF cmd
    <3>4. queue'[v][k] = cmd \/ (k \in DOMAIN queue[v] /\ queue'[v][k] = queue[v][k])
      <4>1. /\ DOMAIN queue[v] = 1..Len(queue[v]) /\ Len(queue[v]) \in Nat
            /\ DOMAIN queue'[v] = 1..(Len(queue[v]) + 1)
            /\ \A m \in 1..Len(queue[v]) : queue'[v][m] = queue[v][m]
            /\ queue'[v][Len(queue[v]) + 1] = cmd
        <5>. DEFINE old == queue[v]
        <5>1. old \in Seq(Cmd) /\ cmd \in Cmd /\ queue'[v] = Append(old, cmd)
          BY <3>2, <3>3
        <5>. HIDE DEF old
        <5>2. /\ DOMAIN old = 1..Len(old) /\ Len(old) \in Nat
              /\ DOMAIN Append(old, cmd) = 1..(Len(old) + 1)
              /\ \A m \in 1..Len(old) : Append(old, cmd)[m] = old[m]
              /\ Append(old, cmd)[Len(old) + 1] = cmd
          BY <5>1
        <5>. QED  BY <5>1, <5>2 DEF old
      <4>. QED  BY <4>1
    <3>. QED  BY <3>1, <3>4 DEF Sourced, Ordered
  <2>2. CASE Issue /\ v \notin filter
    BY <2>2 DEF Issue, Sourced, Ordered
  <2>3. CASE Forget
    BY <2>3 DEF Forget
  <2>. QED  BY <2>1, <2>2, <2>3
<1>4. Ordered'
  BY <1>1, <1>3 DEF Ordered
<1>. QED  BY <1>2, <1>4 DEF Sourced

LEMMA SourcedSwitch ==
  ASSUME TypeOK, Apart(scen), Sourced, SwitchOn \/ SwitchOff
  PROVE  Sourced'
<1>1. Running /\ UNCHANGED <<scen, queue, proc>>
  BY DEF SwitchOn, SwitchOff, Is, agents
<1>2. r \in Asked(scen, who) /\ who \in Member
  BY <1>1, Asking DEF TypeOK
<1>3. Ordered' /\ Started'
  BY <1>1 DEF Sourced, Ordered, Started
<1>4. CASE SwitchOn
  <2>1. r.op = "on" /\ net' \subseteq net \cup (r.names \X r.vms \X {who})
        /\ collateral' = collateral
    BY <1>4 DEF SwitchOn, Is
  <2>2. Switched'
    <3>1. \A x \in r.names \X r.vms \X {who} :
            x[1] \in r.names /\ x[2] \in r.vms /\ x[3] = who
      OBVIOUS
    <3>2. \A x \in net' : x \in net \/ x \in r.names \X r.vms \X {who}
      BY <2>1
    <3>. QED  BY <1>1, <1>2, <2>1, <3>1, <3>2 DEF Sourced, Switched
  <2>. QED  BY <1>3, <2>1, <2>2 DEF Sourced, OthersSurvive
<1>5. CASE SwitchOff
  <2>. DEFINE gone == {n \in net : n[1] \in r.names /\ n[2] \in r.vms}
  <2>1. /\ r.op = "off" /\ net' \subseteq net
        /\ \/ collateral' = collateral
           \/ collateral' = collateral \cup
                {<<Kind[scen][who], Kind[scen][n[3]]>> : n \in {m \in gone : m[3] # who}}
    BY <1>5 DEF SwitchOff, Is
  <2>2. ASSUME NEW x \in gone, x[3] # who
        PROVE  <<Kind[scen][who], Kind[scen][x[3]]>> \in Excused
    <3>1. PICK y \in Asked(scen, x[3]) :
            y.op = "on" /\ x[1] \in y.names /\ x[2] \in y.vms
      BY DEF Sourced, Switched
    <3>2. Collide(r, y)
      BY <2>1, <3>1 DEF Collide
    <3>3. x[3] \in Member
      BY DEF TypeOK
    <3>. QED  BY <1>2, <2>2, <3>2, <3>3 DEF Apart, Member
  <2>3. OthersSurvive'
    BY <2>1, <2>2 DEF Sourced, OthersSurvive
  <2>4. Switched'
    BY <1>1, <2>1 DEF Sourced, Switched
  <2>. QED  BY <1>3, <2>3, <2>4 DEF Sourced
<1>. QED  BY <1>4, <1>5

LEMMA SourcedExecute ==
  ASSUME TypeOK, Apart(scen), Sourced, NEW v \in VM, Execute(v)
  PROVE  Sourced'
<1>. DEFINE q == queue[v][1]
<1>1. queue[v] \in Seq(Cmd) /\ queue[v] # <<>>
  BY DEF Execute, TypeOK
<1>2. q \in Cmd /\ q.rq \in Asked(scen, q.by) /\ q.rq.op = "exec"
  <2>1. 1 \in DOMAIN queue[v]
    BY <1>1, EmptySeq, LenProperties
  <2>. QED  BY <1>1, <2>1, HeadType DEF Sourced, Ordered
<1>3. /\ queue' = [queue EXCEPT ![v] = Tail(queue[v])]
      /\ UNCHANGED <<scen, net>>
      /\ \/ /\ proc' = (proc \ Killed(v, q)) \cup Begun(v, q)
            /\ collateral' = collateral \cup
                 {<<Kind[scen][q.by], Kind[scen][p.by]>> :
                    p \in {x \in Killed(v, q) : x.by # q.by}}
         \/ UNCHANGED <<proc, collateral>>
  BY DEF Execute, q, lab
<1>. HIDE DEF q
<1>4. Switched'
  BY <1>3 DEF Sourced, Switched
<1>5. Ordered'
  <2>1. \A u \in VM \ {v} : queue'[u] = queue[u]
    BY <1>3 DEF TypeOK
  <2>2. queue'[v] = Tail(queue[v])
    BY <1>3 DEF TypeOK
  <2>3. \A k \in DOMAIN Tail(queue[v]) :
          k + 1 \in DOMAIN queue[v] /\ Tail(queue[v])[k] = queue[v][k + 1]
    BY <1>1, EmptySeq, LenProperties, HeadTailProperties
  <2>. QED  BY <1>3, <2>1, <2>2, <2>3 DEF Sourced, Ordered
<1>6. Started'
  <2>1. \A x \in Begun(v, q) : x.by = q.by /\ x.name \in q.rq.names
                               /\ q.rq.act \in {"run", "start", "append"}
    BY DEF Begun, Starts
  <2>2. \A x \in proc' : x \in proc \/ x \in Begun(v, q)
    BY <1>3
  <2>. QED  BY <1>2, <1>3, <2>1, <2>2 DEF Sourced, Started
<1>7. OthersSurvive'
  <2>1. ASSUME NEW x \in Killed(v, q), x.by # q.by
        PROVE  <<Kind[scen][q.by], Kind[scen][x.by]>> \in Excused
    <3>1. x \in proc /\ q.rq.act = "kill" /\ x.name \in q.rq.names
      BY DEF Killed
    <3>2. PICK y \in Asked(scen, x.by) :
            /\ y.op = "exec" /\ y.act \in {"run", "start", "append"}
            /\ x.name \in y.names
      BY <3>1 DEF Sourced, Started
    <3>3. Collide(q.rq, y)
      BY <1>2, <3>1, <3>2 DEF Collide
    <3>4. x.by \in Member /\ q.by \in Member
      BY <1>2, <3>1 DEF TypeOK, Proc, Cmd
    <3>. QED  BY <1>2, <2>1, <3>2, <3>3, <3>4 DEF Apart, Member
  <2>. QED  BY <1>3, <2>1 DEF Sourced, OthersSurvive
<1>. QED  BY <1>4, <1>5, <1>6, <1>7 DEF Sourced

\* Of any components, in any order and with any faults: when no request of one
\* names what a request of another starts, but for those that are known to, none
\* ends or switches off what is another's, however late the agents execute what
\* they were told, and in whichever VMs (disruption.py:29, opcexport.py:140,
\* pcap.py:43).
THEOREM OthersSurviveHolds ==
  ASSUME \A s \in Scenario : Apart(s)
  PROVE  Spec => []OthersSurvive
<1>1. Init => Sourced
  BY DEF Init, Sourced, Ordered, Started, Switched, OthersSurvive
<1>2. TypeOK /\ Sourced /\ [Next]_vars => Sourced'
  <2>. SUFFICES ASSUME TypeOK, Sourced, [Next]_vars
                PROVE  Sourced'
    OBVIOUS
  <2>0. Apart(scen)
    BY DEF TypeOK
  <2>1. CASE Launch \/ Finish \/ SetFilter \/ SetTag \/ AwaitAnswer \/ OverlookAnswer
             \/ TimeOut \/ Sleeping
    BY <2>1, SourcedSame DEF Launch, Finish, SetFilter, SetTag, AwaitAnswer,
       OverlookAnswer, TimeOut, Sleeping, agents, lab, history
  <2>2. CASE Branch \/ Happen \/ Repeat \/ Attempted \/ GiveUp \/ Pass \/ Note
    BY <2>2, SourcedSame DEF Branch, Happen, Repeat, Attempted, GiveUp, Pass, Note,
       agents, lab, history
  <2>3. CASE Fetch \/ Missing \/ WriteFile \/ GatherFile
    BY <2>3, SourcedSame DEF Fetch, Missing, WriteFile, GatherFile, agents, lab,
       history
  <2>4. CASE Issue \/ Forget
    BY <2>4, SourcedIssue
  <2>5. CASE SwitchOn \/ SwitchOff
    BY <2>0, <2>5, SourcedSwitch
  <2>6. CASE \E v \in VM : Execute(v)
    BY <2>0, <2>6, SourcedExecute
  <2>7. CASE \E p \in proc : ProcEnds(p)
    BY <2>7, SourcedSame DEF ProcEnds, lab, history
  <2>8. CASE UNCHANGED vars
    BY <2>8, SourcedSame DEF vars, agents, lab, history
  <2>. QED
    BY <2>1, <2>2, <2>3, <2>4, <2>5, <2>6, <2>7, <2>8 DEF Next
<1>3. Sourced => OthersSurvive
  BY DEF Sourced
<1>. QED  BY <1>1, <1>2, <1>3, TypeCorrect, PTL DEF Spec

----------------------------------------------------------------------------
(* What a request does to the turn, to the clock and to what is saved *)

\* The turn of component i in stage g of run q is over.
Past(q, g, i) == q < run \/ (q = run /\ (g < stage \/ (g = stage /\ i < who)))

Straightly == ~r.caught /\ r.op \notin {"if", "unless", "mishap", "again"}

\* One step of the program: what every kind of request has in common, and what
\* those do that the schedule and the records depend on.
Requested ==
  /\ Running /\ UNCHANGED <<scen, done>>
  /\ Continue \/ Leave \/ Exit \/ (UNCHANGED <<run, stage, who>> /\ ~Straightly)
  /\ Straightly /\ Ends(r) => Leave \/ Exit
  /\ r.op = "stamp" => Continue /\ clock' = Noted
  /\ r.op \in {"sleep", "rest"} => Continue /\ Tick(SleepTime)
  /\ r.op # "stamp" => clock' = clock \/ \E d \in Nat : Tick(d)
  /\ ~Waits(r) /\ r.op # "stamp" => clock' = clock
  /\ Straightly /\ r.op = "timed" /\ r.fail # "ignore" =>
       Leave \/ Exit \/ clock.stop >= r.n
  /\ Straightly /\ r.op = "gather" /\ r.fail # "ignore" =>
       Leave \/ Exit \/ There
  /\ saved \subseteq saved'
  /\ \A x \in saved' \ saved : x.run = run /\ Makes(r, x.name)

\* What is not a step of a program does none of this.
Aside == UNCHANGED <<scen, at, clock, saved, done>>

LEMMA RaiseStep ==
  ASSUME TypeOK, Running, Raise
  PROVE  Leave \/ (UNCHANGED <<run, stage, who>> /\ ~Straightly)
BY DEF Raise, Step, Straightly

LEMMA FailStep ==
  ASSUME TypeOK, Running, Fails
  PROVE  /\ Continue \/ Leave \/ Exit \/ (UNCHANGED <<run, stage, who>> /\ ~Straightly)
         /\ r.fail # "ignore" /\ Straightly => Leave \/ Exit
<1>1. CASE r.fail = "raise" /\ Raise
  BY <1>1, RaiseStep
<1>2. CASE r.fail = "exit" /\ Exit
  BY <1>2
<1>3. CASE r.fail = "ignore" /\ Continue
  BY <1>3
<1>. QED  BY <1>1, <1>2, <1>3 DEF Fails

LEMMA RequestedStep ==
  ASSUME TypeOK, [Next]_vars
  PROVE  Launch \/ Finish \/ Requested \/ Aside
<1>. USE DEF at, agents, lab, history, Is, Waits, Ends, Makes
<1>1. CASE SetFilter \/ SetTag \/ Issue \/ Forget
  BY <1>1 DEF SetFilter, SetTag, Issue, Forget, Requested
<1>2. CASE AwaitAnswer
  <2>1. Running /\ r.time \in Nat
    BY <1>2, RequestType DEF AwaitAnswer, Request
  <2>. QED  BY <1>2, <2>1, FailStep DEF AwaitAnswer, Requested
<1>3. CASE OverlookAnswer
  BY <1>3 DEF OverlookAnswer, Requested
<1>4. CASE TimeOut
  <2>1. Running /\ r.n \in Nat
    BY <1>4, RequestType DEF TimeOut, Request
  <2>. QED  BY <1>4, <2>1, RaiseStep DEF TimeOut, Requested
<1>5. CASE Sleeping
  <2>1. Running /\ r.n \in Nat /\ clock.now \in Nat
    BY <1>5, RequestType DEF Sleeping, Request, TypeOK
  <2>2. Tick(SleepTime) /\ \E d \in Nat : Tick(d)
    BY <1>5, <2>1 DEF Sleeping, SleepTime
  <2>. QED  BY <1>5, <2>1, <2>2 DEF Sleeping, Requested
<1>6. CASE Branch \/ Happen \/ Repeat
  BY <1>6 DEF Branch, Happen, Repeat, Step, Straightly, Requested
<1>7. CASE Attempted
  BY <1>7, FailStep DEF Attempted, Requested
<1>8. CASE GiveUp
  BY <1>8, FailStep DEF GiveUp, Requested
<1>9. CASE Pass
  BY <1>9 DEF Pass, Requested
<1>10. CASE Note
  BY <1>10 DEF Note, Requested
<1>11. CASE Fetch \/ WriteFile
  BY <1>11 DEF Fetch, WriteFile, Save, Requested
<1>12. CASE Missing
  BY <1>12, FailStep DEF Missing, Requested
<1>13. CASE GatherFile
  BY <1>13, FailStep DEF GatherFile, Requested
<1>14. CASE SwitchOn
  BY <1>14, FailStep DEF SwitchOn, Requested
<1>15. CASE SwitchOff
  BY <1>15, FailStep DEF SwitchOff, Requested
<1>16. CASE (\E v \in VM : Execute(v)) \/ (\E p \in proc : ProcEnds(p))
  BY <1>16 DEF Execute, ProcEnds, Aside
<1>17. CASE UNCHANGED vars
  BY <1>17 DEF vars, Aside
<1>. QED
  BY <1>1, <1>2, <1>3, <1>4, <1>5, <1>6, <1>7, <1>8, <1>9, <1>10, <1>11, <1>12,
     <1>13, <1>14, <1>15, <1>16, <1>17 DEF Next

\* Turns are over for good, and so is the one that is left.
LEMMA Later ==
  ASSUME TypeOK, UNCHANGED scen, run <= MaxRun, Leave \/ Exit,
         NEW q \in Nat, NEW g \in Stage, NEW i \in Member,
         Past(q, g, i) \/ (q = run /\ g = stage /\ i = who)
  PROVE  Past(q, g, i)'
<1>1. /\ run \in Nat /\ stage \in 1..4 /\ Len(Kind[scen]) \in Nat
      /\ who \in 1..Len(Kind[scen]) /\ i \in 1..Len(Kind[scen]) /\ g \in 1..4
  BY KindType, RunAssumption DEF TypeOK, Stage, RunAssumption
<1>. QED  BY <1>1 DEF Past, Leave, Exit

----------------------------------------------------------------------------
(* The schedule of a disruption *)

\* What came to its end is over.
Order == \A x \in done : Past(x[1], x[3], x[2])

\* Where a disruption is in its program, and what the clock says then.
Disrupting == run <= MaxRun /\ stage = 2 /\ Kind[scen][who] = "disruption"
Timeline ==
  Disrupting =>
    \A b, e \in DOMAIN Prog :
      TimedAt(Prog, Duration[scen], b, e) =>
        /\ pc > b => clock.on
        /\ pc > b /\ (\A j \in b..(pc - 1) : ~Waits(Prog[j])) => clock.now = 0
        /\ pc = e => clock.now + 1 >= Duration[scen]
        /\ pc > e => clock.stop + 1 >= Duration[scen]

OnSchedule == Order /\ Timeline /\ Schedule /\ AttackInsideRun

LEMMA OrderStep ==
  ASSUME TypeOK, Order, [Next]_vars
  PROVE  Order'
<1>0. \A x \in done : x[1] \in Nat /\ x[2] \in Member /\ x[3] \in Stage
  BY DEF TypeOK
<1>1. CASE Launch
  BY <1>1 DEF Launch, Continue, Step, history, Order, Past
<1>2. CASE Finish
  <2>1. run <= MaxRun /\ Leave /\ done' = done \cup {<<run, who, stage>>}
        /\ UNCHANGED scen
    BY <1>2 DEF Finish
  <2>2. run \in Nat /\ who \in Member /\ stage \in Stage
    BY RunAssumption DEF TypeOK, RunAssumption
  <2>3. ASSUME NEW x \in done' PROVE Past(x[1], x[3], x[2])'
    <3>1. x \in done \/ x = <<run, who, stage>>
      BY <2>1
    <3>2. /\ x[1] \in Nat /\ x[2] \in Member /\ x[3] \in Stage
          /\ Past(x[1], x[3], x[2]) \/ (x[1] = run /\ x[3] = stage /\ x[2] = who)
      BY <1>0, <2>2, <3>1 DEF Order
    <3>. QED  BY <2>1, <3>2, Later
  <2>. QED  BY <2>3 DEF Order
<1>3. CASE Requested
  <2>1. run <= MaxRun /\ UNCHANGED <<scen, done>>
    BY <1>3 DEF Requested, Running
  <2>2. CASE Leave \/ Exit
    <3>1. ASSUME NEW x \in done PROVE Past(x[1], x[3], x[2])'
      BY <1>0, <2>1, <2>2, Later DEF Order
    <3>. QED  BY <2>1, <3>1 DEF Order
  <2>3. CASE UNCHANGED <<run, stage, who>>
    BY <2>1, <2>3 DEF Order, Past
  <2>. QED  BY <1>3, <2>2, <2>3 DEF Requested, Continue, Step
<1>4. CASE Aside
  BY <1>4 DEF Aside, at, Order, Past
<1>. QED  BY <1>1, <1>2, <1>3, <1>4, RequestedStep

LEMMA ProgramType ==
  ASSUME NEW s \in Scenario, NEW q \in 1..MaxRun, NEW g \in Stage,
         NEW i \in DOMAIN Kind[s]
  PROVE  LET prog == Program[s][q][g][i]
         IN  /\ Len(prog) \in Nat /\ DOMAIN prog = 1..Len(prog)
             /\ \A k \in DOMAIN prog : prog[k].n \in Nat /\ prog[k].time \in Nat
<1>. DEFINE prog == Program[s][q][g][i]
<1>1. prog \in Seq(Request)
  BY RunAssumption DEF RunAssumption
<1>. HIDE DEF prog
<1>2. Len(prog) \in Nat /\ DOMAIN prog = 1..Len(prog)
  BY <1>1, LenProperties
<1>3. \A k \in DOMAIN prog : prog[k] \in Request
  BY <1>1, <1>2, ElementOfSeq
<1>4. \A k \in DOMAIN prog : prog[k].n \in Nat /\ prog[k].time \in Nat
  BY <1>3 DEF Request
<1>. QED  BY <1>2, <1>4 DEF prog

\* The program of the component whose turn it is.
LEMMA TurnProgram ==
  ASSUME TypeOK, run <= MaxRun
  PROVE  /\ Len(Prog) \in Nat /\ DOMAIN Prog = 1..Len(Prog)
         /\ \A k \in DOMAIN Prog : Prog[k].n \in Nat /\ Prog[k].time \in Nat
         /\ run \in 1..MaxRun /\ stage \in Stage /\ who \in DOMAIN Kind[scen]
         /\ Duration[scen] \in Nat /\ pc \in Nat
<1>1. /\ run \in 1..MaxRun /\ stage \in Stage /\ who \in DOMAIN Kind[scen]
      /\ scen \in Scenario /\ Duration[scen] \in Nat /\ pc \in Nat
  BY RunAssumption DEF TypeOK, RunAssumption, Member
<1>. QED  BY <1>1, ProgramType DEF Prog

LEMMA TurnStamped ==
  ASSUME TypeOK, Stamped(scen), run <= MaxRun
  PROVE  /\ Disrupting => Timely(Prog, Duration[scen])
         /\ ~Disrupting => \A k \in DOMAIN Prog : Prog[k].op # "stamp"
<1>1. run \in 1..MaxRun /\ stage \in Stage /\ who \in DOMAIN Kind[scen]
  BY TurnProgram
<1>. QED  BY <1>1 DEF Stamped, Disrupting, Prog

LEMMA NextProgram ==
  ASSUME TypeOK, [Next]_vars, run' <= MaxRun
  PROVE  Len(Prog') \in Nat /\ DOMAIN Prog' = 1..Len(Prog')
<1>1. run' \in 1..MaxRun /\ stage' \in Stage /\ who' \in DOMAIN Kind[scen']
      /\ scen' \in Scenario
  <2>1. TypeOK' /\ MaxRun \in Nat
    BY TypeStep, RunAssumption DEF RunAssumption
  <2>. QED  BY <2>1 DEF TypeOK, Member
<1>. DEFINE prog == Program[scen'][run'][stage'][who']
<1>2. Len(prog) \in Nat /\ DOMAIN prog = 1..Len(prog)
  BY <1>1, ProgramType
<1>. QED  BY <1>2 DEF Prog

LEMMA TimelineStep ==
  ASSUME TypeOK, Timeline, Stamped(scen), [Next]_vars
  PROVE  Timeline'
<1>0. UNCHANGED scen
  BY RequestedStep DEF Launch, Finish, Requested, Aside
<1>. SUFFICES ASSUME Disrupting', NEW b \in DOMAIN Prog', NEW e \in DOMAIN Prog',
                     TimedAt(Prog', Duration[scen], b, e)
              PROVE  /\ pc' > b => clock'.on
                     /\ pc' > b /\ (\A j \in b..(pc' - 1) : ~Waits(Prog'[j])) =>
                          clock'.now = 0
                     /\ pc' = e => clock'.now + 1 >= Duration[scen]
                     /\ pc' > e => clock'.stop + 1 >= Duration[scen]
  BY <1>0 DEF Timeline, TimedAt, Waits
<1>1. b \in Nat \ {0} /\ e \in Nat /\ e > b + 1
  <2>1. DOMAIN Prog' = 1..Len(Prog') /\ Len(Prog') \in Nat
    BY NextProgram DEF Disrupting
  <2>. QED  BY <2>1 DEF TimedAt
<1>2. CASE pc' \in {0, 1}
  <2>1. ~(pc' > b) /\ pc' # e /\ ~(pc' > e)
    BY <1>1, <1>2
  <2>. QED  BY <2>1
<1>3. CASE Aside
  <2>1. Disrupting /\ Prog' = Prog /\ UNCHANGED <<pc, clock>>
    BY <1>3 DEF Aside, at, Disrupting, Prog
  <2>. QED  BY <1>0, <2>1 DEF Timeline
<1>4. CASE Requested /\ UNCHANGED <<run, stage, who>> /\ pc' \notin {0, 1}
  <2>1. /\ Disrupting /\ Prog' = Prog /\ Running
    BY <1>0, <1>4 DEF Disrupting, Prog, Requested
  <2>2. /\ pc > b => clock.on
        /\ pc > b /\ (\A j \in b..(pc - 1) : ~Waits(Prog[j])) => clock.now = 0
        /\ pc = e => clock.now + 1 >= Duration[scen]
        /\ pc > e => clock.stop + 1 >= Duration[scen]
    BY <2>1 DEF Timeline
  <2>3. pc \in DOMAIN Prog /\ r = Prog[pc] /\ pc \in Nat /\ Duration[scen] \in Nat
        /\ r.n \in Nat
    BY <2>1, TurnProgram DEF Running, r, Disrupting
  <2>4. Straightly /\ Continue /\ pc' = pc + 1 /\ ~Ends(r)
    <3>1. Straight(Prog)
      BY <2>1, TurnStamped DEF Timely, Disrupting
    <3>2. Straightly
      BY <2>3, <3>1 DEF Straight, Straightly
    <3>3. ~Leave /\ ~Exit
      BY <1>4 DEF Leave, Exit
    <3>. QED  BY <1>4, <3>2, <3>3 DEF Requested, Continue, Step
  <2>5. clock \in [on : BOOLEAN, now : Nat, stop : Nat, delay : Nat, attack : Nat]
    BY DEF TypeOK
  <2>6. CASE pc < b
    BY <1>1, <2>3, <2>4, <2>6
  <2>7. CASE pc = b
    BY <1>1, <1>4, <2>1, <2>3, <2>4, <2>7 DEF Requested, Noted, TimedAt, NoTime
  <2>8. CASE pc = e
    BY <1>1, <1>4, <2>1, <2>2, <2>3, <2>4, <2>5, <2>8 DEF Requested, Noted, TimedAt
  <2>9. CASE pc > b /\ pc # e
    <3>1. /\ clock.on /\ clock'.on /\ clock'.stop = clock.stop /\ clock'.now >= clock.now
          /\ ~Waits(r) => clock'.now = clock.now
          /\ r.op = "stamp" => r.names = {"attack"} /\ pc < e
      <4>1. clock.on
        BY <2>2, <2>9
      <4>2. CASE r.op = "stamp"
        <5>1. r.names = {"attack"} /\ pc < e
          BY <1>1, <2>1, <2>3, <2>9, <4>2 DEF TimedAt
        <5>2. clock' = [clock EXCEPT !.delay = r.n, !.attack = clock.now + r.time]
          BY <1>4, <4>2, <5>1 DEF Requested, Noted
        <5>. QED  BY <2>5, <4>1, <5>1, <5>2
      <4>3. CASE r.op # "stamp"
        <5>1. clock' = clock \/ \E d \in Nat : clock' = [clock EXCEPT !.now = @ + d]
          BY <1>4, <4>1, <4>3 DEF Requested, Tick
        <5>2. ~Waits(r) => clock' = clock
          BY <1>4, <4>3 DEF Requested
        <5>. QED  BY <2>5, <4>1, <4>3, <5>1, <5>2
      <4>. QED  BY <4>2, <4>3
    <3>2. ~(pc' = e /\ ~(clock'.now + 1 >= Duration[scen]))
      <4>. SUFFICES ASSUME pc' = e PROVE clock'.now + 1 >= Duration[scen]
        OBVIOUS
      <4>1. r.op \in {"sleep", "rest"} /\ r.n >= Duration[scen]
        BY <1>1, <2>1, <2>3, <2>4 DEF TimedAt
      <4>2. Tick(SleepTime)
        BY <1>4, <4>1 DEF Requested
      <4>3. clock' = [clock EXCEPT !.now = @ +
                        IF r.op = "sleep" THEN r.n
                        ELSE IF r.n > clock.now + 1 THEN r.n - clock.now ELSE 0]
        BY <3>1, <4>2 DEF SleepTime, Tick
      <4>. QED  BY <2>3, <2>5, <4>1, <4>3
    <3>3. pc' > e => clock'.stop + 1 >= Duration[scen]
      BY <1>1, <2>2, <2>3, <2>4, <2>9, <3>1
    <3>4. (\A j \in b..(pc' - 1) : ~Waits(Prog'[j])) => clock'.now = 0
      <4>. SUFFICES ASSUME \A j \in b..(pc' - 1) : ~Waits(Prog'[j]) PROVE clock'.now = 0
        OBVIOUS
      <4>1. pc \in b..(pc' - 1) /\ b..(pc - 1) \subseteq b..(pc' - 1)
        BY <1>1, <2>3, <2>4, <2>9
      <4>2. ~Waits(r) /\ \A j \in b..(pc - 1) : ~Waits(Prog[j])
        BY <2>1, <2>3, <4>1
      <4>. QED  BY <2>2, <2>9, <3>1, <4>2
    <3>. QED  BY <3>1, <3>2, <3>3, <3>4
  <2>. QED  BY <1>1, <2>3, <2>6, <2>7, <2>8, <2>9
<1>. QED
  BY <1>2, <1>3, <1>4, RequestedStep
     DEF Launch, Finish, Requested, Continue, Step, Leave, Exit

\* Only a disruption notes anything, and it is its turn.
LEMMA StampTurn ==
  ASSUME TypeOK, Stamped(scen), Requested, r.op = "stamp"
  PROVE  Disrupting /\ pc \in DOMAIN Prog /\ r = Prog[pc]
<1>1. pc \in DOMAIN Prog /\ r = Prog[pc] /\ run <= MaxRun
  BY TurnProgram DEF Requested, Running, r
<1>. QED  BY <1>1, TurnStamped

\* What other requests leave of the clock.
LEMMA ClockKept ==
  ASSUME TypeOK, \/ Requested /\ r.op # "stamp"
                 \/ Launch \/ Finish \/ Aside
  PROVE  clock'.stop = clock.stop /\ clock'.delay = clock.delay
         /\ clock'.attack = clock.attack
<1>1. clock \in [on : BOOLEAN, now : Nat, stop : Nat, delay : Nat, attack : Nat]
  BY DEF TypeOK
<1>2. CASE Launch \/ Finish \/ Aside
  BY <1>1, <1>2 DEF Launch, Finish, Aside
<1>3. CASE Requested /\ r.op # "stamp"
  <2>1. clock' = clock \/ \E d \in Nat : clock' = [clock EXCEPT !.now = @ + d]
    BY <1>3 DEF Requested, Tick
  <2>. QED  BY <1>1, <2>1
<1>. QED  BY <1>2, <1>3

LEMMA ScheduleStep ==
  ASSUME TypeOK, OnSchedule, Stamped(scen), [Next]_vars
  PROVE  Schedule'
<1>0. UNCHANGED scen
  BY RequestedStep DEF Launch, Finish, Requested, Aside
<1>. SUFFICES ASSUME NEW i \in Member, Kind[scen][i] = "disruption",
                     <<run', i, 2>> \in done'
              PROVE  clock'.stop + 1 >= Duration[scen]
  BY <1>0, MemberSame DEF Schedule
<1>1. run \in Nat /\ run' \in {run, run + 1}
  <2>1. run \in Nat
    BY RunAssumption DEF TypeOK, RunAssumption
  <2>2. run' \in {run, run + 1}
    BY <2>1, RequestedStep
       DEF Launch, Finish, Requested, Aside, Continue, Step, Leave, Exit, at
  <2>. QED  BY <2>1, <2>2
<1>2. ASSUME <<run', i, 2>> \in done
      PROVE  run' = run /\ (stage > 2 \/ (stage = 2 /\ i < who))
             /\ clock.stop + 1 >= Duration[scen]
  <2>1. Past(run', 2, i)
    BY <1>2 DEF OnSchedule, Order
  <2>2. run' = run /\ (stage > 2 \/ (stage = 2 /\ i < who))
    BY <1>1, <2>1 DEF Past
  <2>. QED  BY <1>2, <2>2 DEF OnSchedule, Schedule
<1>3. CASE Launch \/ Aside
  BY <1>2, <1>3, ClockKept DEF Launch, Aside, history
<1>4. CASE Finish
  <2>1. CASE <<run', i, 2>> \in done
    BY <1>2, <1>4, <2>1, ClockKept
  <2>2. CASE <<run', i, 2>> \notin done
    <3>1. /\ run <= MaxRun /\ pc > Len(Prog) /\ clock' = clock
          /\ <<run', i, 2>> = <<run, who, stage>>
      BY <1>4, <2>2 DEF Finish
    <3>2. Disrupting
      BY <3>1 DEF Disrupting
    <3>3. PICK b, e \in DOMAIN Prog : TimedAt(Prog, Duration[scen], b, e)
      BY <3>1, <3>2, TurnStamped DEF Timely
    <3>4. pc > e
      BY <3>1, TurnProgram
    <3>. QED  BY <3>1, <3>2, <3>3, <3>4 DEF OnSchedule, Timeline
  <2>. QED  BY <2>1, <2>2
<1>5. CASE Requested
  <2>1. <<run', i, 2>> \in done
    BY <1>5 DEF Requested
  <2>2. r.op # "stamp"
    <3>. SUFFICES ASSUME r.op = "stamp" PROVE FALSE
      OBVIOUS
    <3>1. stage = 2 /\ Kind[scen][who] = "disruption" /\ who \in Member
      BY <1>5, StampTurn DEF Disrupting, TypeOK
    <3>2. i < who /\ i = who
      BY <1>2, <2>1, <3>1 DEF Stamped, Member
    <3>3. who \in Nat
      BY KindType, <3>1
    <3>. QED  BY <3>2, <3>3
  <2>. QED  BY <1>2, <1>5, <2>1, <2>2, ClockKept
<1>. QED  BY <1>3, <1>4, <1>5, RequestedStep

LEMMA AttackStep ==
  ASSUME TypeOK, OnSchedule, Stamped(scen), [Next]_vars
  PROVE  AttackInsideRun'
<1>0. UNCHANGED scen
  BY RequestedStep DEF Launch, Finish, Requested, Aside
<1>1. CASE clock'.delay = clock.delay /\ clock'.attack = clock.attack
  BY <1>0, <1>1 DEF OnSchedule, AttackInsideRun
<1>2. CASE Requested /\ r.op = "stamp"
  <2>1. Disrupting /\ pc \in DOMAIN Prog /\ r = Prog[pc]
    BY <1>2, StampTurn
  <2>2. PICK b, e \in DOMAIN Prog : TimedAt(Prog, Duration[scen], b, e)
    BY <2>1, TurnStamped DEF Timely, Disrupting
  <2>3. clock \in [on : BOOLEAN, now : Nat, stop : Nat, delay : Nat, attack : Nat]
    BY DEF TypeOK
  <2>4. /\ pc \in Nat /\ b \in Nat /\ e \in Nat /\ r.n \in Nat /\ r.time \in Nat
        /\ Duration[scen] \in Nat
    BY <2>1, TurnProgram DEF Disrupting
  <2>5. CASE pc = b
    BY <1>0, <1>2, <2>1, <2>2, <2>4, <2>5
       DEF Requested, Noted, TimedAt, NoTime, AttackInsideRun
  <2>6. CASE pc = e
    BY <1>1, <1>2, <2>1, <2>2, <2>3, <2>6 DEF Requested, Noted, TimedAt
  <2>7. CASE pc # b /\ pc # e
    <3>1. /\ b < pc /\ r.names = {"attack"} /\ \A j \in b..pc : ~Waits(Prog[j])
          /\ Duration[scen] >= r.n + 305 => r.time <= Duration[scen]
      BY <1>2, <2>1, <2>2, <2>7 DEF TimedAt
    <3>2. \A j \in b..(pc - 1) : ~Waits(Prog[j])
      BY <2>4, <3>1
    <3>3. clock.now = 0
      BY <2>1, <2>2, <2>4, <3>1, <3>2 DEF OnSchedule, Timeline
    <3>4. clock' = [clock EXCEPT !.delay = r.n, !.attack = clock.now + r.time]
      BY <1>2, <3>1 DEF Requested, Noted
    <3>5. clock'.delay = r.n /\ clock'.attack = r.time
      BY <2>3, <2>4, <3>3, <3>4
    <3>. QED  BY <1>0, <3>1, <3>5 DEF AttackInsideRun
  <2>. QED  BY <2>5, <2>6, <2>7
<1>. QED  BY <1>1, <1>2, RequestedStep, ClockKept

LEMMA OnScheduleHolds ==
  ASSUME \A s \in Scenario : Stamped(s)
  PROVE  Spec => []OnSchedule
<1>1. Init /\ TypeOK => OnSchedule
  <2>. SUFFICES ASSUME Init, TypeOK PROVE OnSchedule
    OBVIOUS
  <2>1. Order /\ Schedule
    BY DEF Init, Order, Schedule
  <2>2. Timeline
    BY DEF Init, Timeline, Disrupting
  <2>3. AttackInsideRun
    BY RunAssumption DEF Init, NoTime, AttackInsideRun, RunAssumption
  <2>. QED  BY <2>1, <2>2, <2>3 DEF OnSchedule
<1>2. TypeOK /\ OnSchedule /\ [Next]_vars => OnSchedule'
  <2>. SUFFICES ASSUME TypeOK, OnSchedule, [Next]_vars PROVE OnSchedule'
    OBVIOUS
  <2>1. Stamped(scen)
    BY DEF TypeOK
  <2>. QED
    BY <2>1, OrderStep, TimelineStep, ScheduleStep, AttackStep DEF OnSchedule
<1>. QED  BY <1>1, <1>2, TypeCorrect, PTL DEF Spec

\* However late the agents are, and whatever fails before or in between: a
\* disruption that came to its end has lasted for run_duration, less a tick.
THEOREM ScheduleHolds ==
  ASSUME \A s \in Scenario : Stamped(s)
  PROVE  Spec => []Schedule
<1>1. OnSchedule => Schedule
  BY DEF OnSchedule
<1>. QED  BY <1>1, OnScheduleHolds, PTL

\* An attack is told to end before its run does (disruption.py:205), when the
\* run is long enough.
THEOREM AttackInsideRunHolds ==
  ASSUME \A s \in Scenario : Stamped(s)
  PROVE  Spec => []AttackInsideRun
<1>1. OnSchedule => AttackInsideRun
  BY DEF OnSchedule
<1>. QED  BY <1>1, OnScheduleHolds, PTL

----------------------------------------------------------------------------
(* The record of a run *)

Record == "experiment_record.json"

\* Files are of this run or of one before, and records are made when it stops.
SavedOrder ==
  \A x \in saved : x.run <= run /\ (x.name = Record /\ x.run = run => stage >= 3)

\* What a component has made sure of by the time it is at a request.
Passed ==
  run <= MaxRun /\ stage = 3 /\ Straight(Prog) =>
    \A k \in DOMAIN Prog :
      k < pc =>
        /\ ~Ends(Prog[k])
        /\ Prog[k].op = "timed" /\ Prog[k].fail # "ignore" => clock.stop >= Prog[k].n
        /\ Prog[k].op = "gather" /\ Prog[k].fail # "ignore" =>
             \E x \in saved : /\ x.run = run /\ x.name \in Prog[k].files
                              /\ Kind[scen][x.by] \in Prog[k].names

OnRecord == SavedOrder /\ Passed /\ RecordComplete

\* Runs and stages follow one another, and after a stage of start there are no
\* stamps.
LEMMA Forward ==
  ASSUME TypeOK, [Next]_vars
  PROVE  /\ run \in Nat /\ run' \in {run, run + 1} /\ stage \in 1..4 /\ stage' \in 1..4
         /\ run' = run => stage' >= stage
         /\ UNCHANGED scen /\ saved \subseteq saved'
         /\ Stamped(scen) /\ stage >= 3 => clock'.stop = clock.stop
         /\ saved' # saved => Requested
<1>1. run \in Nat /\ stage \in 1..4
  BY RunAssumption DEF TypeOK, Stage, RunAssumption
<1>2. /\ run' \in {run, run + 1} /\ stage' \in 1..4
      /\ run' = run => stage' >= stage
  BY <1>1, RequestedStep
     DEF Launch, Finish, Requested, Aside, Continue, Step, Leave, Exit, at
<1>3. UNCHANGED scen /\ saved \subseteq saved' /\ (saved' # saved => Requested)
  BY RequestedStep DEF Launch, Finish, Requested, Aside, history
<1>4. Stamped(scen) /\ stage >= 3 => clock'.stop = clock.stop
  <2>1. Stamped(scen) /\ stage >= 3 /\ Requested => r.op # "stamp"
    BY <1>1, StampTurn DEF Disrupting
  <2>. QED  BY <2>1, RequestedStep, ClockKept
<1>. QED  BY <1>1, <1>2, <1>3, <1>4

\* A record is made by the collector, when the run is stopped.
LEMMA RecordTurn ==
  ASSUME TypeOK, Recorded(scen), Requested, Makes(r, Record)
  PROVE  /\ stage = 3 /\ pc \in DOMAIN Prog /\ r = Prog[pc] /\ run <= MaxRun
         /\ Recording(Prog, Duration[scen], \E j \in Member : Kind[scen][j] = "vmstats")
<1>1. pc \in DOMAIN Prog /\ r = Prog[pc] /\ run \in 1..MaxRun /\ stage \in Stage
      /\ who \in DOMAIN Kind[scen] /\ run <= MaxRun
  BY TurnProgram DEF Requested, Running, r
<1>. QED  BY <1>1 DEF Recorded, Prog, Member, Record

LEMMA SavedOrderStep ==
  ASSUME TypeOK, SavedOrder, Recorded(scen), [Next]_vars
  PROVE  SavedOrder'
<1>. SUFFICES ASSUME NEW x \in saved'
              PROVE  x.run <= run' /\ (x.name = Record /\ x.run = run' => stage' >= 3)
  BY DEF SavedOrder
<1>1. CASE x \in saved
  <2>1. x.run \in Nat /\ x.run <= run /\ (x.name = Record /\ x.run = run => stage >= 3)
    BY <1>1 DEF SavedOrder, TypeOK, Saved
  <2>. QED  BY <2>1, Forward
<1>2. CASE x \notin saved
  <2>1. Requested /\ x.run = run /\ Makes(r, x.name)
    BY <1>2, Forward DEF Requested
  <2>2. x.name = Record => stage = 3
    BY <2>1, RecordTurn
  <2>. QED  BY <2>1, <2>2, Forward
<1>. QED  BY <1>1, <1>2

LEMMA PassedStep ==
  ASSUME TypeOK, Passed, Stamped(scen), [Next]_vars
  PROVE  Passed'
<1>0. UNCHANGED scen /\ saved \subseteq saved'
  BY Forward
<1>. SUFFICES ASSUME run' <= MaxRun, stage' = 3, Straight(Prog'),
                     NEW k \in DOMAIN Prog', k < pc'
              PROVE  /\ ~Ends(Prog'[k])
                     /\ Prog'[k].op = "timed" /\ Prog'[k].fail # "ignore" =>
                          clock'.stop >= Prog'[k].n
                     /\ Prog'[k].op = "gather" /\ Prog'[k].fail # "ignore" =>
                          \E x \in saved' :
                            /\ x.run = run' /\ x.name \in Prog'[k].files
                            /\ Kind[scen][x.by] \in Prog'[k].names
  BY <1>0 DEF Passed, Straight, Ends
<1>1. k \in Nat /\ k >= 1
  BY NextProgram
<1>2. CASE pc' \in {0, 1}
  BY <1>1, <1>2
<1>3. CASE Aside
  <2>1. UNCHANGED <<run, stage, pc, clock, saved>> /\ Prog' = Prog
    BY <1>3 DEF Aside, at, Prog
  <2>. QED  BY <2>1 DEF Passed
<1>4. CASE Requested /\ UNCHANGED <<run, stage, who>> /\ pc' \notin {0, 1}
  <2>1. Prog' = Prog /\ run <= MaxRun /\ stage = 3
    BY <1>0, <1>4 DEF Prog
  <2>2. pc \in DOMAIN Prog /\ r = Prog[pc] /\ pc \in Nat
    BY <1>4, <2>1, TurnProgram DEF Requested, Running, r
  <2>3. clock'.stop = clock.stop
    BY <2>1, Forward
  <2>4. Straightly
    BY <2>1, <2>2 DEF Straight, Straightly
  <2>5. ~Leave /\ ~Exit
    BY <1>4 DEF Leave, Exit
  <2>6. pc' = pc + 1
    BY <1>4, <2>4, <2>5 DEF Requested, Continue, Step
  <2>7. CASE k < pc
    <3>1. /\ ~Ends(Prog[k])
          /\ Prog[k].op = "timed" /\ Prog[k].fail # "ignore" =>
               clock.stop >= Prog[k].n
          /\ Prog[k].op = "gather" /\ Prog[k].fail # "ignore" =>
               \E x \in saved : /\ x.run = run /\ x.name \in Prog[k].files
                                /\ Kind[scen][x.by] \in Prog[k].names
      BY <2>1, <2>7 DEF Passed
    <3>. QED  BY <1>0, <1>4, <2>1, <2>3, <3>1
  <2>8. CASE k = pc
    <3>1. /\ ~Ends(r)
          /\ r.op = "timed" /\ r.fail # "ignore" => clock.stop >= r.n
          /\ r.op = "gather" /\ r.fail # "ignore" =>
               \E x \in saved : /\ x.run = run /\ x.name \in r.files
                                /\ Kind[scen][x.by] \in r.names
      BY <1>4, <2>4, <2>5 DEF Requested, There
    <3>. QED  BY <1>0, <1>4, <2>1, <2>2, <2>3, <2>8, <3>1
  <2>. QED  BY <1>1, <2>2, <2>6, <2>7, <2>8
<1>. QED
  BY <1>2, <1>3, <1>4, RequestedStep
     DEF Launch, Finish, Requested, Continue, Step, Leave, Exit

LEMMA RecordStep ==
  ASSUME TypeOK, OnRecord, Stamped(scen), Recorded(scen), [Next]_vars
  PROVE  RecordComplete'
<1>0. UNCHANGED scen /\ Member' = Member
  BY Forward, MemberSame
<1>. SUFFICES ASSUME NEW x \in saved', x.name = Record, x.run = run'
              PROVE  /\ clock'.stop >= Duration[scen]
                     /\ \A i \in Member : Kind[scen][i] = "vmstats" =>
                          \E y \in saved' : /\ y.by = i /\ y.run = run'
                                            /\ y.name = "vm_stats.jsonl"
  BY <1>0 DEF RecordComplete, Record
<1>. SUFFICES /\ run' = run /\ clock'.stop = clock.stop
              /\ clock.stop >= Duration[scen]
              /\ \A i \in Member : Kind[scen][i] = "vmstats" =>
                   \E y \in saved : y.by = i /\ y.run = run /\ y.name = "vm_stats.jsonl"
  BY Forward
<1>1. CASE x \in saved
  <2>1. x.run \in Nat /\ x.run <= run /\ (x.run = run => stage >= 3)
    BY <1>1 DEF OnRecord, SavedOrder, TypeOK, Saved
  <2>2. run' = run /\ stage >= 3
    BY <2>1, Forward
  <2>3. clock'.stop = clock.stop
    BY <2>2, Forward
  <2>. QED  BY <1>1, <2>2, <2>3 DEF OnRecord, RecordComplete, Record
<1>2. CASE x \notin saved
  <2>1. Requested /\ x.run = run /\ Makes(r, Record)
    BY <1>2, Forward DEF Requested
  <2>2. /\ stage = 3 /\ pc \in DOMAIN Prog /\ r = Prog[pc] /\ run <= MaxRun
        /\ Recording(Prog, Duration[scen], \E j \in Member : Kind[scen][j] = "vmstats")
    BY <2>1, RecordTurn
  <2>3. run' = run /\ clock'.stop = clock.stop
    BY <2>1, <2>2, Forward
  <2>4. ASSUME NEW k \in DOMAIN Prog, k < pc
        PROVE  /\ ~Ends(Prog[k])
               /\ Prog[k].op = "timed" /\ Prog[k].fail # "ignore" =>
                    clock.stop >= Prog[k].n
               /\ Prog[k].op = "gather" /\ Prog[k].fail # "ignore" =>
                    \E y \in saved : /\ y.run = run /\ y.name \in Prog[k].files
                                     /\ Kind[scen][y.by] \in Prog[k].names
    BY <2>2, <2>4 DEF OnRecord, Passed, Recording
  <2>5. Makes(Prog[pc], Record)
    BY <2>1, <2>2
  <2>6. ~ \E j \in DOMAIN Prog : j < pc /\ Ends(Prog[j])
    BY <2>4
  <2>7. PICK k \in DOMAIN Prog :
          /\ k < pc /\ Prog[k].op = "timed" /\ Prog[k].fail # "ignore"
          /\ Prog[k].n >= Duration[scen]
    BY <2>2, <2>5, <2>6 DEF Recording, Record
  <2>8. clock.stop >= Duration[scen]
    <3>1. clock.stop >= Prog[k].n
      BY <2>4, <2>7
    <3>2. clock.stop \in Nat /\ Prog[k].n \in Nat /\ Duration[scen] \in Nat
      BY <2>2, TurnProgram DEF TypeOK
    <3>. QED  BY <2>7, <3>1, <3>2
  <2>9. ASSUME NEW i \in Member, Kind[scen][i] = "vmstats"
        PROVE  \E y \in saved : y.by = i /\ y.run = run /\ y.name = "vm_stats.jsonl"
    <3>1. PICK j \in DOMAIN Prog :
            /\ j < pc /\ Prog[j].op = "gather" /\ Prog[j].fail # "ignore"
            /\ Prog[j].names = {"vmstats"} /\ Prog[j].files = {"vm_stats.jsonl"}
      BY <2>2, <2>5, <2>6, <2>9 DEF Recording, Record
    <3>2. PICK y \in saved : /\ y.run = run /\ y.name = "vm_stats.jsonl"
                             /\ Kind[scen][y.by] = "vmstats"
      BY <2>4, <3>1
    <3>3. y.by \in Member
      BY DEF TypeOK, Saved
    <3>. QED  BY <2>9, <3>2, <3>3 DEF Recorded, Member
  <2>. QED  BY <2>3, <2>8, <2>9
<1>. QED  BY <1>1, <1>2

\* When there is a record of a run, its disruption has lasted for as long as the
\* record says and the statistics are there, whatever failed or came late.
THEOREM RecordCompleteHolds ==
  ASSUME \A s \in Scenario : Stamped(s) /\ Recorded(s)
  PROVE  Spec => []RecordComplete
<1>1. Init => OnRecord
  BY DEF Init, OnRecord, SavedOrder, Passed, RecordComplete
<1>2. TypeOK /\ OnRecord /\ [Next]_vars => OnRecord'
  <2>. SUFFICES ASSUME TypeOK, OnRecord, [Next]_vars PROVE OnRecord'
    OBVIOUS
  <2>1. Stamped(scen) /\ Recorded(scen)
    BY DEF TypeOK
  <2>. QED  BY <2>1, SavedOrderStep, PassedStep, RecordStep DEF OnRecord
<1>3. OnRecord => RecordComplete
  BY DEF OnRecord
<1>. QED  BY <1>1, <1>2, <1>3, TypeCorrect, PTL DEF Spec

----------------------------------------------------------------------------
(* How a program goes on, and what its requests do *)

\* What a step does to the turn.
Moves ==
  \/ UNCHANGED <<run, stage, who>> /\ pc' = pc + 1
  \/ /\ UNCHANGED <<run, stage, who>> /\ pc' = pc + (1 + r.skip)
     /\ r.caught \/ r.op \in {"if", "unless", "mishap"}
  \/ UNCHANGED <<run, stage, who>> /\ r.op = "again"
  \/ Exit \/ (Leave /\ ~Sure(r))

LEMMA RaiseMoves ==
  ASSUME Raise, ~Sure(r)
  PROVE  Moves
BY DEF Raise, Step, Moves

LEMMA FailMoves ==
  ASSUME Fails, ~Sure(r) \/ (r.op = "try")
  PROVE  Moves
<1>1. CASE r.fail = "raise" /\ Raise
  <2>1. ~Sure(r)
    BY <1>1 DEF Sure
  <2>. QED  BY <1>1, <2>1, RaiseMoves
<1>2. CASE r.fail = "exit" /\ Exit
  BY <1>2 DEF Moves
<1>3. CASE r.fail = "ignore" /\ Continue
  BY <1>3 DEF Moves, Continue, Step
<1>. QED  BY <1>1, <1>2, <1>3 DEF Fails

LEMMA Moved ==
  ASSUME [Next]_vars
  PROVE  \/ UNCHANGED at
         \/ Launch \/ Finish
         \/ Running /\ Moves
<1>1. CASE SetFilter \/ SetTag \/ Issue \/ Forget
  BY <1>1 DEF SetFilter, SetTag, Issue, Forget, Is, Moves, Continue, Step
<1>2. CASE AwaitAnswer
  <2>1. Running /\ r.op \in {"await", "prefix"} /\ (Fails \/ Continue)
    BY <1>2 DEF AwaitAnswer, Is
  <2>. QED  BY <2>1, FailMoves DEF Moves, Continue, Step, Sure
<1>3. CASE OverlookAnswer \/ Sleeping
  BY <1>3 DEF OverlookAnswer, Sleeping, Is, Moves, Continue, Step
<1>4. CASE TimeOut
  <2>1. Running /\ r.op \in {"await", "prefix"} /\ Raise
    BY <1>4 DEF TimeOut, Is
  <2>. QED  BY <2>1, RaiseMoves DEF Sure
<1>5. CASE Branch \/ Happen \/ Repeat
  BY <1>5 DEF Branch, Happen, Repeat, Is, Moves, Continue, Step
<1>6. CASE Attempted
  <2>1. Running /\ r.op = "try" /\ (Fails \/ Continue)
    BY <1>6 DEF Attempted, Is
  <2>. QED  BY <2>1, FailMoves DEF Moves, Continue, Step
<1>7. CASE GiveUp
  <2>1. Running /\ r.op \in {"stop", "running", "timed"} /\ Fails
    BY <1>7 DEF GiveUp, Is
  <2>. QED  BY <2>1, FailMoves DEF Sure
<1>8. CASE Pass \/ Note \/ Fetch \/ WriteFile
  BY <1>8 DEF Pass, Note, Fetch, WriteFile, Is, Moves, Continue, Step
<1>9. CASE Missing \/ GatherFile
  <2>1. Running /\ r.op \in {"recv", "gather"} /\ (Fails \/ Continue)
    BY <1>9 DEF Missing, GatherFile, Is
  <2>. QED  BY <2>1, FailMoves DEF Moves, Continue, Step, Sure
<1>10. CASE SwitchOn \/ SwitchOff
  <2>1. Running /\ r.op \in {"on", "off"} /\ (Fails \/ Continue)
    BY <1>10 DEF SwitchOn, SwitchOff, Is
  <2>. QED  BY <2>1, FailMoves DEF Moves, Continue, Step, Sure
<1>11. CASE (\E v \in VM : Execute(v)) \/ (\E x \in proc : ProcEnds(x)) \/ UNCHANGED vars
  BY <1>11 DEF Execute, ProcEnds, vars
<1>. QED
  BY <1>1, <1>2, <1>3, <1>4, <1>5, <1>6, <1>7, <1>8, <1>9, <1>10, <1>11 DEF Next

\* A program gets to its request k only through its request j.
Through(prog, j, k) ==
  \A m \in DOMAIN prog :
    /\ prog[m].op # "again"
    /\ m < j /\ (prog[m].caught \/ prog[m].op \in {"if", "unless", "mishap"})
         => m + prog[m].skip < j \/ k <= m + prog[m].skip

\* A program that is beyond its request j has been beyond it before, or was at it.
LEMMA Onward ==
  ASSUME TypeOK, [Next]_vars, run' <= MaxRun, NEW j \in Nat \ {0}, Through(Prog', j, pc'),
         pc' > j
  PROVE  /\ UNCHANGED <<scen, run, stage, who>> /\ Prog' = Prog /\ run <= MaxRun
         /\ pc <= pc' /\ (UNCHANGED at \/ (Running /\ pc < pc'))
         /\ pc > j \/ (pc = j /\ Running)
<1>0. UNCHANGED scen
  BY Forward
<1>1. CASE UNCHANGED at
  <2>1. pc \in Nat
    BY DEF TypeOK
  <2>. QED  BY <1>0, <1>1, <2>1 DEF at, Prog
<1>2. CASE Launch
  <2>1. pc' = 1
    BY <1>2 DEF Launch, Continue, Step
  <2>. QED  BY <2>1
<1>3. CASE Finish
  <2>1. pc' = 0
    BY <1>3 DEF Finish, Leave
  <2>. QED  BY <2>1
<1>4. CASE Running /\ Moves
  <2>1. pc \in Nat /\ pc \in 1..Len(Prog) /\ r \in Request /\ pc \in DOMAIN Prog
        /\ run <= MaxRun
    <3>1. run <= MaxRun
      BY <1>4 DEF Running
    <3>. QED  BY <1>4, <3>1, RequestType, TurnProgram DEF TypeOK, Running
  <2>2. r.skip \in Nat
    BY <2>1 DEF Request
  <2>3. ~Leave /\ ~Exit
    BY DEF Leave, Exit
  <2>4. CASE UNCHANGED <<run, stage, who>>
    <3>1. Prog' = Prog
      BY <1>0, <2>4 DEF Prog
    <3>2. r.op # "again"
      BY <2>1, <3>1 DEF Through, r
    <3>3. CASE pc' = pc + 1
      BY <1>0, <1>4, <2>1, <2>4, <3>1, <3>3
    <3>4. CASE pc' = pc + (1 + r.skip) /\ (r.caught \/ r.op \in {"if", "unless", "mishap"})
      <4>1. pc < j => pc + r.skip < j
        <5>1. pc < j => pc + r.skip < j \/ pc' <= pc + r.skip
          BY <2>1, <3>1, <3>4 DEF Through, r
        <5>. QED  BY <2>1, <2>2, <3>4, <5>1
      <4>2. pc' \in Nat /\ pc < pc' /\ (pc < j => ~(pc' > j))
        BY <2>1, <2>2, <3>4, <4>1
      <4>3. pc <= pc' /\ (pc > j \/ pc = j)
        BY <2>1, <4>2
      <4>. QED  BY <1>0, <1>4, <2>1, <2>4, <3>1, <4>2, <4>3
    <3>. QED  BY <1>4, <2>3, <3>2, <3>3, <3>4 DEF Moves
  <2>5. CASE ~UNCHANGED <<run, stage, who>>
    BY <1>4, <2>3, <2>5 DEF Moves
  <2>. QED  BY <2>4, <2>5
<1>. QED  BY <1>1, <1>2, <1>3, <1>4, Moved

\* A step that leaves a request makes it.
LEMMA ByOp ==
  ASSUME TypeOK, [Next]_vars, Running, ~UNCHANGED at
  PROVE  /\ r.op = "exec" => Issue
         /\ r.op = "forget" => Forget
         /\ r.op = "filter" => SetFilter
         /\ r.op = "tag" => SetTag
         /\ r.op = "sleep" => Sleeping
         /\ r.op \in {"await", "prefix"} => AwaitAnswer \/ OverlookAnswer \/ TimeOut
         /\ r.op = "if" => Branch
         /\ r.op = "off" => SwitchOff
<1>1. ~Launch /\ ~Finish
  <2>1. pc # 0 /\ ~(pc > Len(Prog))
    <3>1. run <= MaxRun
      BY DEF Running
    <3>. QED  BY <3>1, TurnProgram DEF Running
  <2>. QED  BY <2>1 DEF Launch, Finish
<1>2. CASE Issue \/ Forget \/ SetFilter \/ SetTag \/ Sleeping \/ AwaitAnswer
           \/ OverlookAnswer \/ TimeOut
  BY <1>2 DEF Issue, Forget, SetFilter, SetTag, Sleeping, AwaitAnswer, OverlookAnswer,
     TimeOut, Is
<1>3. CASE Branch \/ Happen \/ Repeat \/ Attempted \/ GiveUp \/ Pass \/ Note
  BY <1>3 DEF Branch, Happen, Repeat, Attempted, GiveUp, Pass, Note, Is
<1>4. CASE Fetch \/ Missing \/ WriteFile \/ GatherFile \/ SwitchOn \/ SwitchOff
  BY <1>4 DEF Fetch, Missing, WriteFile, GatherFile, SwitchOn, SwitchOff, Is
<1>5. CASE (\E v \in VM : Execute(v)) \/ (\E x \in proc : ProcEnds(x)) \/ UNCHANGED vars
  BY <1>5 DEF Execute, ProcEnds, vars
<1>. QED  BY <1>1, <1>2, <1>3, <1>4, <1>5 DEF Next

\* Which actions change what.
LEMMA Effects ==
  ASSUME [Next]_vars
  PROVE  /\ UNCHANGED <<queue, file>> \/ Issue \/ Forget \/ \E v \in VM : Execute(v)
         /\ tags' = tags \/ SetTag
         /\ filter' = filter \/ SetFilter
         /\ net' = net \/ SwitchOn \/ SwitchOff
         /\ late \subseteq late'
         /\ done' = done \/ Finish
         /\ saved' = saved \/ Fetch \/ WriteFile
<1>. USE DEF agents, lab, history
<1>1. CASE Launch \/ Finish \/ SetFilter \/ SetTag \/ AwaitAnswer \/ OverlookAnswer
  BY <1>1 DEF Launch, Finish, SetFilter, SetTag, AwaitAnswer, OverlookAnswer
<1>2. CASE Issue \/ Forget \/ Branch \/ Happen \/ Repeat \/ Attempted
  BY <1>2 DEF Issue, Forget, Branch, Happen, Repeat, Attempted
<1>3. CASE TimeOut \/ Sleeping \/ Missing
  BY <1>3 DEF TimeOut, Sleeping, Missing, Late, InTime
<1>4. CASE GiveUp \/ Pass \/ Note \/ Fetch \/ WriteFile \/ GatherFile
  BY <1>4 DEF GiveUp, Pass, Note, Fetch, WriteFile, GatherFile
<1>5. CASE SwitchOn \/ SwitchOff
  BY <1>5 DEF SwitchOn, SwitchOff
<1>6. CASE (\E v \in VM : Execute(v)) \/ (\E x \in proc : ProcEnds(x)) \/ UNCHANGED vars
  BY <1>6 DEF Execute, ProcEnds, vars
<1>. QED  BY <1>1, <1>2, <1>3, <1>4, <1>5, <1>6 DEF Next

----------------------------------------------------------------------------
(* The files of the VMs, and the commands about them that wait *)

Starting(c, f) == c.rq.act \in {"run", "start", "append"} /\ f \in c.rq.files
Deleting(c, f) == c.rq.act = "remove" /\ f \in c.rq.files
FileAt(y, v, f) == y.vm = v /\ y.name = f

\* The file f is in the VM v, or will be; it has data of other runs, or will have.
Alive(v, f) ==
  \/ \E y \in file : FileAt(y, v, f)
  \/ \E k \in DOMAIN queue[v] : Starting(queue[v][k], f)
Old(v, f) ==
  \/ \E y \in file : FileAt(y, v, f) /\ y.data # {run}
  \/ \E k \in DOMAIN queue[v] : Starting(queue[v][k], f) /\ queue[v][k].run # run

\* If so, it will be deleted: for good, or until this run begins it.
Gone(v, f) ==
  Alive(v, f) =>
    \E k \in DOMAIN queue[v] :
      /\ Deleting(queue[v][k], f)
      /\ \A m \in DOMAIN queue[v] : m > k => ~Starting(queue[v][m], f)
Clear(v, f) ==
  Old(v, f) =>
    \E k \in DOMAIN queue[v] :
      /\ Deleting(queue[v][k], f)
      /\ \A m \in DOMAIN queue[v] : m > k /\ Starting(queue[v][m], f) => queue[v][m].run = run

LEMMA FilesSame ==
  ASSUME UNCHANGED <<queue, file>>, NEW v, NEW f
  PROVE  /\ Alive(v, f)' = Alive(v, f) /\ Gone(v, f)' = Gone(v, f)
         /\ UNCHANGED run => Old(v, f)' = Old(v, f) /\ Clear(v, f)' = Clear(v, f)
         /\ Gone(v, f) => Clear(v, f)'
         /\ ~Alive(v, f) => ~Old(v, f)'
BY DEF Alive, Gone, Old, Clear

LEMMA QueueFacts ==
  ASSUME TypeOK, NEW v \in VM
  PROVE  /\ DOMAIN queue[v] = 1..Len(queue[v]) /\ Len(queue[v]) \in Nat
         /\ \A k \in DOMAIN queue[v] : queue[v][k] \in Cmd
<1>1. queue[v] \in Seq(Cmd)
  BY DEF TypeOK
<1>. QED  BY <1>1, LenProperties, ElementOfSeq

\* What is issued comes last.
LEMMA IssueQueue ==
  ASSUME TypeOK, Issue, NEW v \in VM
  PROVE  /\ v \notin filter => queue'[v] = queue[v]
         /\ v \in filter =>
              /\ DOMAIN queue'[v] = DOMAIN queue[v] \cup {Len(queue[v]) + 1}
              /\ \A k \in DOMAIN queue[v] : queue'[v][k] = queue[v][k] /\ k < Len(queue[v]) + 1
              /\ queue'[v][Len(queue[v]) + 1] = [rq |-> r, by |-> who, run |-> run]
<1>. DEFINE cmd == [rq |-> r, by |-> who, run |-> run]
            old == queue[v]
<1>1. v \notin filter => queue'[v] = queue[v]
  BY DEF Issue
<1>2. v \in filter => queue'[v] = Append(old, cmd)
  BY DEF Issue
<1>3. old \in Seq(Cmd) /\ cmd \in Cmd
  <2>1. Running
    BY DEF Issue, Is
  <2>2. r \in Request /\ who \in Member /\ run \in Nat
    BY <2>1, RequestType DEF TypeOK
  <2>. QED  BY <2>2 DEF Cmd, TypeOK
<1>4. /\ DOMAIN old = 1..Len(old) /\ Len(old) \in Nat
      /\ DOMAIN Append(old, cmd) = 1..(Len(old) + 1)
      /\ \A m \in 1..Len(old) : Append(old, cmd)[m] = old[m]
      /\ Append(old, cmd)[Len(old) + 1] = cmd
  <2>. HIDE DEF old, cmd
  <2>. QED  BY <1>3
<1>5. 1..(Len(old) + 1) = 1..Len(old) \cup {Len(old) + 1} /\ \A k \in 1..Len(old) : k < Len(old) + 1
  <2>. HIDE DEF old
  <2>. QED  BY <1>4
<1>. QED
  <2>. HIDE DEF cmd
  <2>1. v \in filter =>
              /\ DOMAIN queue'[v] = DOMAIN old \cup {Len(old) + 1}
              /\ \A k \in DOMAIN old : queue'[v][k] = old[k] /\ k < Len(old) + 1
              /\ queue'[v][Len(old) + 1] = cmd
    <3>. HIDE DEF old
    <3>. QED  BY <1>2, <1>4, <1>5
  <2>. QED  BY <1>1, <2>1 DEF cmd

LEMMA IssueFiles ==
  ASSUME TypeOK, Issue, NEW v \in VM, NEW f
  PROVE  /\ ~Old(v, f) => ~Old(v, f)'
         /\ Clear(v, f) => Clear(v, f)'
         /\ ~Begins(r, f) => (~Alive(v, f) => ~Alive(v, f)') /\ (Gone(v, f) => Gone(v, f)')
         /\ Removes(r, f) /\ (Alive(v, f) => v \in filter) => Gone(v, f)' /\ Clear(v, f)'
<1>. DEFINE cmd == [rq |-> r, by |-> who, run |-> run]
            Q == queue[v]
            N == Len(queue[v]) + 1
<1>1. UNCHANGED <<file, run>> /\ r.op = "exec"
  BY DEF Issue, Continue, Step, Is
<1>2. CASE v \notin filter
  <2>1. queue'[v] = queue[v]
    BY <1>2, IssueQueue
  <2>2. /\ Alive(v, f)' = Alive(v, f) /\ Old(v, f)' = Old(v, f)
        /\ Gone(v, f)' = Gone(v, f) /\ Clear(v, f)' = Clear(v, f)
    BY <1>1, <2>1 DEF Alive, Old, Gone, Clear
  <2>3. ~Alive(v, f) => Gone(v, f) /\ Clear(v, f)
    BY DEF Alive, Old, Gone, Clear
  <2>. QED  BY <1>2, <2>2, <2>3
<1>3. CASE v \in filter
  <2>1. /\ DOMAIN queue'[v] = DOMAIN Q \cup {N}
        /\ \A k \in DOMAIN Q : queue'[v][k] = Q[k] /\ k < N
        /\ queue'[v][N] = cmd
    BY <1>3, IssueQueue
  <2>2. \A k \in DOMAIN Q : k \in Nat
    BY QueueFacts
  <2>3. N \in Nat
    BY QueueFacts
  <2>4. /\ cmd.run = run
        /\ Starting(cmd, f) <=> Begins(r, f)
        /\ Deleting(cmd, f) <=> Removes(r, f)
    BY <1>1 DEF Starting, Begins, Deleting, Removes
  <2>. HIDE DEF cmd, Q, N
  <2>5. ~Old(v, f) => ~Old(v, f)'
    BY <1>1, <2>1, <2>4 DEF Old, Q
  <2>6. Clear(v, f) => Clear(v, f)'
    <3>. SUFFICES ASSUME Clear(v, f), Old(v, f)'
                  PROVE  \E k \in DOMAIN queue'[v] :
                           /\ Deleting(queue'[v][k], f)
                           /\ \A m \in DOMAIN queue'[v] :
                                m > k /\ Starting(queue'[v][m], f) => queue'[v][m].run = run
      BY <1>1 DEF Clear
    <3>1. PICK k \in DOMAIN Q :
            /\ Deleting(Q[k], f)
            /\ \A m \in DOMAIN Q : m > k /\ Starting(Q[m], f) => Q[m].run = run
      BY <2>5 DEF Clear, Q
    <3>. QED  BY <2>1, <2>4, <3>1
  <2>7. ~Begins(r, f) => (~Alive(v, f) => ~Alive(v, f)')
    BY <1>1, <2>1, <2>4 DEF Alive, Q
  <2>8. ~Begins(r, f) /\ Gone(v, f) => Gone(v, f)'
    <3>. SUFFICES ASSUME ~Begins(r, f), Gone(v, f), Alive(v, f)'
                  PROVE  \E k \in DOMAIN queue'[v] :
                           /\ Deleting(queue'[v][k], f)
                           /\ \A m \in DOMAIN queue'[v] : m > k => ~Starting(queue'[v][m], f)
      BY DEF Gone
    <3>1. PICK k \in DOMAIN Q :
            /\ Deleting(Q[k], f)
            /\ \A m \in DOMAIN Q : m > k => ~Starting(Q[m], f)
      BY <2>7 DEF Gone, Q
    <3>. QED  BY <2>1, <2>4, <3>1
  <2>9. Removes(r, f) => Gone(v, f)' /\ Clear(v, f)'
    <3>. SUFFICES ASSUME Removes(r, f)
                  PROVE  \E k \in DOMAIN queue'[v] :
                           /\ Deleting(queue'[v][k], f)
                           /\ \A m \in DOMAIN queue'[v] : ~(m > k)
      BY DEF Gone, Clear
    <3>1. \A m \in DOMAIN queue'[v] : ~(m > N)
      BY <2>1, <2>2, <2>3
    <3>. QED  BY <2>1, <2>4, <3>1
  <2>. QED  BY <2>5, <2>6, <2>7, <2>8, <2>9
<1>. QED  BY <1>2, <1>3

LEMMA ForgetFiles ==
  ASSUME Forget, NEW v \in VM, NEW f
  PROVE  /\ ~Old(v, f) => ~Old(v, f)'
         /\ ~Alive(v, f) => ~Alive(v, f)'
         /\ queue[v] = <<>> => /\ Gone(v, f) => Gone(v, f)'
                               /\ Clear(v, f) => Clear(v, f)'
<1>1. UNCHANGED <<file, run>> /\ queue'[v] = <<>>
  BY DEF Forget, Continue, Step
<1>2. ~Old(v, f) => ~Old(v, f)'
  BY <1>1 DEF Old
<1>3. ~Alive(v, f) => ~Alive(v, f)'
  BY <1>1 DEF Alive
<1>4. queue[v] = <<>> => Gone(v, f)' = Gone(v, f) /\ Clear(v, f)' = Clear(v, f)
  <2>. SUFFICES ASSUME queue[v] = <<>>
                PROVE  Gone(v, f)' = Gone(v, f) /\ Clear(v, f)' = Clear(v, f)
    OBVIOUS
  <2>1. queue'[v] = queue[v]
    BY <1>1
  <2>. QED  BY <1>1, <2>1 DEF Gone, Clear, Alive, Old
<1>. QED  BY <1>2, <1>3, <1>4

\* What the agent of u takes is the first of its commands.
LEMMA ExecuteQueue ==
  ASSUME TypeOK, NEW u \in VM, Execute(u)
  PROVE  /\ \A v \in VM \ {u} : queue'[v] = queue[v]
         /\ 1 \in DOMAIN queue[u]
         /\ \A k \in DOMAIN queue'[u] :
              k + 1 \in DOMAIN queue[u] /\ queue'[u][k] = queue[u][k + 1] /\ k + 1 > 1
         /\ \A k \in DOMAIN queue[u] : k # 1 =>
              k - 1 \in DOMAIN queue'[u] /\ queue'[u][k - 1] = queue[u][k]
         /\ \A k \in DOMAIN queue[u] : \A m \in DOMAIN queue'[u] : m > k - 1 => m + 1 > k
<1>. DEFINE Q == queue[u]
<1>1. Q \in Seq(Cmd) /\ Q # <<>>
  BY DEF Execute, TypeOK
<1>2. queue' = [queue EXCEPT ![u] = Tail(Q)]
  BY DEF Execute
<1>3. /\ \A v \in VM \ {u} : queue'[v] = queue[v]
      /\ queue'[u] = Tail(Q)
  BY <1>2 DEF TypeOK
<1>. HIDE DEF Q
<1>4. /\ DOMAIN Q = 1..Len(Q) /\ Len(Q) \in Nat \ {0}
      /\ DOMAIN Tail(Q) = 1..(Len(Q) - 1)
      /\ \A k \in 1..(Len(Q) - 1) : Tail(Q)[k] = Q[k + 1]
  BY <1>1, EmptySeq, LenProperties, HeadTailProperties
<1>5. /\ 1 \in DOMAIN Q
      /\ \A k \in DOMAIN Tail(Q) :
           k + 1 \in DOMAIN Q /\ Tail(Q)[k] = Q[k + 1] /\ k + 1 > 1
  BY <1>4
<1>6. \A k \in DOMAIN Q : k # 1 => k - 1 \in DOMAIN Tail(Q) /\ Tail(Q)[k - 1] = Q[k]
  <2>. SUFFICES ASSUME NEW k \in DOMAIN Q, k # 1
                PROVE  k - 1 \in DOMAIN Tail(Q) /\ Tail(Q)[k - 1] = Q[k]
    OBVIOUS
  <2>1. k - 1 \in 1..(Len(Q) - 1) /\ (k - 1) + 1 = k
    BY <1>4
  <2>2. Tail(Q)[k - 1] = Q[(k - 1) + 1]
    BY <1>4, <2>1
  <2>. QED  BY <1>4, <2>1, <2>2
<1>7. \A k \in DOMAIN Q : \A m \in DOMAIN Tail(Q) : m > k - 1 => m + 1 > k
  BY <1>4
<1>. QED  BY <1>3, <1>5, <1>6, <1>7 DEF Q

\* What the agent of u leaves, deletes and begins.
LEMMA ExecuteFile ==
  ASSUME TypeOK, NEW u \in VM, Execute(u), NEW v \in VM, NEW f
  PROVE  LET c == queue[u][1]
         IN  /\ \A y \in file' : FileAt(y, v, f) =>
                  \/ y \in file /\ (v = u => ~Deleting(c, f))
                  \/ /\ v = u /\ Starting(c, f)
                     /\ \A d \in y.data :
                          d = c.run \/ \E x \in file : FileAt(x, v, f) /\ d \in x.data
                     /\ c.run \in y.data
             /\ run' = run
<1>. DEFINE c == queue[u][1]
<1>0. run' = run
  BY DEF Execute, at
<1>1. \/ file' = (file \ Replaced(u, c)) \cup Written(u, c)
      \/ Starts(c) /\ file' = file
  BY DEF Execute
<1>2. \A y \in file : FileAt(y, v, f) /\ v = u /\ Deleting(c, f) => y \in Replaced(u, c)
  BY DEF Replaced, FileAt, Deleting
<1>3. ASSUME NEW y \in Written(u, c), FileAt(y, v, f)
      PROVE  /\ v = u /\ Starting(c, f)
             /\ \A d \in y.data :
                  d = c.run \/ \E x \in file : FileAt(x, v, f) /\ d \in x.data
             /\ c.run \in y.data
  <2>. HIDE DEF c
  <2>1. PICK g \in c.rq.files : Starts(c) /\ y = [vm |-> u, name |-> g, data |-> Data(u, g, c)]
    BY DEF Written
  <2>2. u = v /\ g = f /\ y.data = Data(v, f, c)
    BY <1>3, <2>1 DEF FileAt
  <2>3. Starting(c, f)
    BY <2>1, <2>2 DEF Starts, Starting
  <2>4. c.run \in Data(v, f, c)
    BY DEF Data
  <2>5. \A d \in Data(v, f, c) : d = c.run \/ \E x \in file : FileAt(x, v, f) /\ d \in x.data
    BY DEF Data, FileAt
  <2>. QED  BY <2>2, <2>3, <2>4, <2>5
<1>4. Starts(c) => ~Deleting(c, f)
  BY DEF Starts, Deleting
<1>. HIDE DEF c
<1>5. \A y \in file' : FileAt(y, v, f) =>
        \/ y \in file /\ (v = u => ~Deleting(c, f))
        \/ /\ v = u /\ Starting(c, f)
           /\ \A d \in y.data :
                d = c.run \/ \E x \in file : FileAt(x, v, f) /\ d \in x.data
           /\ c.run \in y.data
  <2>1. CASE file' = (file \ Replaced(u, c)) \cup Written(u, c)
    <3>. SUFFICES ASSUME NEW y \in file', FileAt(y, v, f)
                  PROVE  \/ y \in file /\ (v = u => ~Deleting(c, f))
                         \/ /\ v = u /\ Starting(c, f)
                            /\ \A d \in y.data :
                                 d = c.run \/ \E x \in file : FileAt(x, v, f) /\ d \in x.data
                            /\ c.run \in y.data
      OBVIOUS
    <3>1. CASE y \in Written(u, c)
      BY <1>3, <3>1
    <3>2. CASE y \in file \ Replaced(u, c)
      BY <1>2, <3>2
    <3>. QED  BY <2>1, <3>1, <3>2
  <2>2. CASE Starts(c) /\ file' = file
    BY <1>4, <2>2
  <2>. QED  BY <1>1, <2>1, <2>2
<1>. QED  BY <1>0, <1>5 DEF c

LEMMA ExecuteFiles ==
  ASSUME TypeOK, NEW u \in VM, Execute(u), NEW v \in VM, NEW f
  PROVE  /\ ~Old(v, f) => ~Old(v, f)'
         /\ ~Alive(v, f) => ~Alive(v, f)'
         /\ Gone(v, f) => Gone(v, f)'
         /\ Clear(v, f) => Clear(v, f)'
<1>. DEFINE c == queue[u][1]
<1>1. /\ run' = run
      /\ \A y \in file' : FileAt(y, v, f) =>
           \/ y \in file /\ (v = u => ~Deleting(c, f))
           \/ /\ v = u /\ Starting(c, f)
              /\ \A d \in y.data :
                   d = c.run \/ \E x \in file : FileAt(x, v, f) /\ d \in x.data
              /\ c.run \in y.data
  BY ExecuteFile
<1>2. CASE v # u
  <2>1. queue'[v] = queue[v]
    BY <1>2, ExecuteQueue
  <2>. HIDE DEF c
  <2>2. (~Old(v, f) => ~Old(v, f)') /\ (~Alive(v, f) => ~Alive(v, f)')
    BY <1>1, <1>2, <2>1 DEF Old, Alive
  <2>. QED  BY <1>1, <2>1, <2>2 DEF Gone, Clear
<1>3. CASE v = u
  <2>1. /\ 1 \in DOMAIN queue[v]
        /\ \A k \in DOMAIN queue'[v] :
             k + 1 \in DOMAIN queue[v] /\ queue'[v][k] = queue[v][k + 1] /\ k + 1 > 1
        /\ \A k \in DOMAIN queue[v] : k # 1 =>
             k - 1 \in DOMAIN queue'[v] /\ queue'[v][k - 1] = queue[v][k]
        /\ \A k \in DOMAIN queue[v] : \A m \in DOMAIN queue'[v] : m > k - 1 => m + 1 > k
    BY <1>3, ExecuteQueue
  <2>2. c = queue[v][1]
    BY <1>3
  <2>. HIDE DEF c
  <2>3. ~Alive(v, f) => ~Alive(v, f)'
    BY <1>1, <2>1, <2>2 DEF Alive
  <2>4. ~Old(v, f) => ~Old(v, f)'
    <3>. SUFFICES ASSUME ~Old(v, f) PROVE ~Old(v, f)'
      OBVIOUS
    <3>1. ~ \E k \in DOMAIN queue'[v] : Starting(queue'[v][k], f) /\ queue'[v][k].run # run
      BY <2>1 DEF Old
    <3>2. ASSUME NEW y \in file', FileAt(y, v, f) PROVE y.data = {run}
      <4>1. CASE y \in file
        BY <3>2, <4>1 DEF Old
      <4>2. CASE /\ Starting(c, f) /\ c.run \in y.data
                 /\ \A d \in y.data :
                      d = c.run \/ \E x \in file : FileAt(x, v, f) /\ d \in x.data
        <5>1. c.run = run
          BY <2>1, <2>2, <4>2 DEF Old
        <5>2. \A x \in file : FileAt(x, v, f) => x.data = {run}
          BY DEF Old
        <5>. QED  BY <4>2, <5>1, <5>2
      <4>. QED  BY <1>1, <3>2, <4>1, <4>2
    <3>. QED  BY <1>1, <3>1, <3>2 DEF Old
  <2>5. Deleting(c, f) => \A y \in file' : ~FileAt(y, v, f)
    BY <1>1, <1>3 DEF Deleting, Starting
  <2>6. Gone(v, f) => Gone(v, f)'
    <3>. SUFFICES ASSUME Gone(v, f), Alive(v, f)'
                  PROVE  \E k \in DOMAIN queue'[v] :
                           /\ Deleting(queue'[v][k], f)
                           /\ \A m \in DOMAIN queue'[v] : m > k => ~Starting(queue'[v][m], f)
      BY DEF Gone
    <3>1. PICK k \in DOMAIN queue[v] :
            /\ Deleting(queue[v][k], f)
            /\ \A m \in DOMAIN queue[v] : m > k => ~Starting(queue[v][m], f)
      BY <2>3 DEF Gone
    <3>2. CASE k = 1
      <4>1. \A m \in DOMAIN queue'[v] : ~Starting(queue'[v][m], f)
        BY <2>1, <3>1, <3>2
      <4>. QED  BY <2>2, <2>5, <3>1, <3>2, <4>1 DEF Alive
    <3>3. CASE k # 1
      BY <2>1, <3>1, <3>3
    <3>. QED  BY <3>2, <3>3
  <2>7. Clear(v, f) => Clear(v, f)'
    <3>. SUFFICES ASSUME Clear(v, f), Old(v, f)'
                  PROVE  \E k \in DOMAIN queue'[v] :
                           /\ Deleting(queue'[v][k], f)
                           /\ \A m \in DOMAIN queue'[v] :
                                m > k /\ Starting(queue'[v][m], f) => queue'[v][m].run = run
      BY <1>1 DEF Clear
    <3>1. PICK k \in DOMAIN queue[v] :
            /\ Deleting(queue[v][k], f)
            /\ \A m \in DOMAIN queue[v] :
                 m > k /\ Starting(queue[v][m], f) => queue[v][m].run = run
      BY <2>4 DEF Clear
    <3>2. CASE k = 1
      <4>1. \A m \in DOMAIN queue'[v] : Starting(queue'[v][m], f) => queue'[v][m].run = run
        BY <2>1, <3>1, <3>2
      <4>. QED  BY <1>1, <2>2, <2>5, <3>1, <3>2, <4>1 DEF Old
    <3>3. CASE k # 1
      BY <2>1, <3>1, <3>3
    <3>. QED  BY <3>2, <3>3
  <2>. QED  BY <2>3, <2>4, <2>6, <2>7
<1>. QED  BY <1>2, <1>3

----------------------------------------------------------------------------
(* What is known of the files when a component collects them *)

\* What nobody has begun is not there, and what only this run begins is its own.
Own ==
  \A v \in VM : \A f \in STRING :
    /\ (\A q \in 1..MaxRun : q <= run => ~BegunIn(scen, q, f)) => ~Alive(v, f)
    /\ (\A q \in 1..MaxRun \ {run} : ~BegunIn(scen, q, f)) => ~Old(v, f)
    /\ run = 1 => ~Old(v, f)

\* A VM that no component halts runs.
Up == \A v \in VM : Unhalted(scen, v) => ~Halted(v)

\* The program has set its tags, and its filter selects VMs that have them.
NoUntag(prog) == \A k \in DOMAIN prog : prog[k].op # "untag"
Lasting(T) ==
  \A i \in DOMAIN Kind[scen] : \A q \in 1..MaxRun : \A g \in Stage :
    LET prog == Program[scen][q][g][i]
    IN  \A k \in DOMAIN prog : prog[k].op = "untag" => prog[k].names \cap T = {}
HasTag(v, T) == \E t \in T : <<v, t>> \in tags
TagsSet ==
  run <= MaxRun /\ NoUntag(Prog) =>
    \A b \in DOMAIN Prog :
      pc > b /\ Passing(Prog, b) /\ Prog[b].op = "tag" =>
        Prog[b].vms \X Prog[b].names \subseteq tags
Filtered ==
  run <= MaxRun =>
    \A a \in DOMAIN Prog :
      /\ pc > a /\ Passing(Prog, a) /\ Prog[a].op = "filter"
      /\ \A m \in DOMAIN Prog : a < m /\ m < pc => Prog[m].op # "filter"
      /\ Prog[a].names # {} /\ Lasting(Prog[a].names)
      => \A v \in filter : HasTag(v, Prog[a].names)
\* Files begun under tags are in VMs that have one of them.
UnderTags ==
  \A v \in VM : \A f \in STRING : \A T \in SUBSET STRING :
    T # {} /\ Under(scen, f, T) /\ Alive(v, f) => HasTag(v, T)
Selected ==
  run <= MaxRun =>
    \A v \in VM : \A f \in STRING : \A a \in DOMAIN Prog :
      Chosen(scen, Prog, a, pc, v, f) /\ Alive(v, f) => v \in filter

\* After a sleep, the agents have done what they were told, until more is asked.
Slept ==
  run <= MaxRun =>
    \A w \in DOMAIN Prog :
      /\ pc > w /\ Passing(Prog, w) /\ Prog[w].op = "sleep" /\ Prog[w].n > 0
      /\ \A m \in DOMAIN Prog : w < m /\ m < pc => Prog[m].op # "exec"
      => \A v \in VM : Unhalted(scen, v) => run \in late \/ queue[v] = <<>>

\* Component i has deleted the file f in its turn, or at its end.
DeletedNow(v, f) ==
  run <= MaxRun /\ \E j \in DOMAIN Prog : j < pc /\ Deletion(scen, Prog, j, v, f)
DeletedAtEnd(i, v, f) ==
  LET D == Deletes[Kind[scen][i]]
  IN  \/ <<run, i, D>> \in done
      \/ stage = D /\ who = i /\ DeletedNow(v, f)
Removed ==
  \A v \in VM : \A f \in STRING : \A i \in Member :
    AtEnd(scen, i, v, f) /\ DeletedAtEnd(i, v, f) => Gone(v, f)

\* It has done so in every run before this one.
Earlier(i) ==
  Kind[scen][i] \in DOMAIN Deletes
    /\ \A q \in 1..(run - 1) : <<q, i, Deletes[Kind[scen][i]]>> \in done
Ready ==
  \A v \in VM : \A f \in STRING : \A i \in Member :
    Unhalted(scen, v) /\ AtEnd(scen, i, v, f) /\ Earlier(i) => run \in late \/ Clear(v, f)

\* It has done so in stage h of this run.
DeletedIn(i, h, v, f) ==
  \/ stage > h
  \/ stage = h /\ who > i
  \/ /\ stage = h /\ who = i /\ run <= MaxRun
     /\ \E j \in DOMAIN Prog :
          j < pc /\ Deletion(scen, Prog, j, v, f) /\ \A k \in 1..j : Sure(Prog[k])
Prepared ==
  \A v \in VM : \A f \in STRING : \A i \in Member : \A h \in 1..3 :
    /\ run <= MaxRun /\ stage < 4
    /\ Unhalted(scen, v) /\ Early(scen, i, h, v, f) /\ DeletedIn(i, h, v, f)
    => run \in late \/ Clear(v, f)

\* Then it is deleted when the program has waited for the agent.
Renewed(v, f) ==
  \E i \in Member :
    \/ AtEnd(scen, i, v, f) /\ Earlier(i)
    \/ stage < 4 /\ \E h \in 1..(stage - 1) : Early(scen, i, h, v, f)
Settled ==
  run <= MaxRun =>
    \A v \in VM : \A f \in STRING : \A w \in DOMAIN Prog :
      pc > w /\ Awaits(Prog, w, v) /\ Unhalted(scen, v) /\ Renewed(v, f)
        => run \in late \/ ~Old(v, f)

\* What becomes of a file in any step.
LEMMA FilesStep ==
  ASSUME TypeOK, [Next]_vars, NEW v \in VM, NEW f
  PROVE  /\ ~Alive(v, f) /\ ~(Issue /\ Begins(r, f)) => ~Alive(v, f)'
         /\ UNCHANGED run /\ ~Old(v, f) => ~Old(v, f)'
         /\ ~UNCHANGED run /\ ~Alive(v, f) => ~Old(v, f)'
         /\ Gone(v, f) /\ ~(Issue /\ Begins(r, f)) /\ ~(Forget /\ queue[v] # <<>>)
              => Gone(v, f)'
         /\ UNCHANGED run /\ Clear(v, f) /\ ~(Forget /\ queue[v] # <<>>) => Clear(v, f)'
         /\ ~UNCHANGED run /\ Gone(v, f) => Clear(v, f)'
<1>1. CASE UNCHANGED <<queue, file>>
  BY <1>1, FilesSame
<1>2. CASE Issue
  <2>1. UNCHANGED run
    BY <1>2 DEF Issue, Continue, Step
  <2>. QED  BY <1>2, <2>1, IssueFiles
<1>3. CASE Forget
  <2>1. UNCHANGED run
    BY <1>3 DEF Forget, Continue, Step
  <2>2. ~Issue
    BY <1>3 DEF Forget, Issue, Is
  <2>. QED  BY <1>3, <2>1, <2>2, ForgetFiles
<1>4. ASSUME NEW u \in VM, Execute(u)
      PROVE  /\ UNCHANGED run
             /\ ~Old(v, f) => ~Old(v, f)'
             /\ ~Alive(v, f) => ~Alive(v, f)'
             /\ Gone(v, f) => Gone(v, f)'
             /\ Clear(v, f) => Clear(v, f)'
  <2>1. UNCHANGED run
    BY <1>4 DEF Execute, at
  <2>. QED  BY <1>4, <2>1, ExecuteFiles
<1>. QED  BY <1>1, <1>2, <1>3, <1>4, Effects

LEMMA OwnStep ==
  ASSUME TypeOK, Own, [Next]_vars
  PROVE  Own'
<1>. SUFFICES ASSUME NEW v \in VM, NEW f \in STRING
              PROVE  /\ (\A q \in 1..MaxRun : q <= run' => ~BegunIn(scen, q, f)) => ~Alive(v, f)'
                     /\ (\A q \in 1..MaxRun \ {run'} : ~BegunIn(scen, q, f)) => ~Old(v, f)'
                     /\ run' = 1 => ~Old(v, f)'
  BY Forward DEF Own, BegunIn, Begins
<1>1. /\ (\A q \in 1..MaxRun : q <= run => ~BegunIn(scen, q, f)) => ~Alive(v, f)
      /\ (\A q \in 1..MaxRun \ {run} : ~BegunIn(scen, q, f)) => ~Old(v, f)
      /\ run = 1 => ~Old(v, f)
  BY DEF Own
<1>2. run \in Nat \ {0} /\ run' \in {run, run + 1} /\ MaxRun \in Nat
  BY Forward, RunAssumption DEF TypeOK, RunAssumption
<1>3. Issue /\ Begins(r, f) => run \in 1..MaxRun /\ run' = run /\ BegunIn(scen, run, f)
  <2>. SUFFICES ASSUME Issue, Begins(r, f) PROVE run \in 1..MaxRun /\ run' = run /\ BegunIn(scen, run, f)
    OBVIOUS
  <2>1. Running /\ run' = run
    BY DEF Issue, Is, Continue, Step
  <2>2. run <= MaxRun /\ pc \in DOMAIN Prog
    BY <2>1, TurnProgram DEF Running
  <2>3. run \in 1..MaxRun /\ stage \in Stage /\ who \in DOMAIN Kind[scen]
    BY <2>2, TurnProgram
  <2>. QED  BY <2>1, <2>2, <2>3 DEF BegunIn, Prog, r
<1>4. (\A q \in 1..MaxRun : q <= run' => ~BegunIn(scen, q, f)) => ~Alive(v, f)'
  <2>. SUFFICES ASSUME \A q \in 1..MaxRun : q <= run' => ~BegunIn(scen, q, f)
                PROVE  ~Alive(v, f)'
    OBVIOUS
  <2>1. \A q \in 1..MaxRun : q <= run => q <= run'
    BY <1>2
  <2>2. ~Alive(v, f)
    BY <1>1, <2>1
  <2>3. run \in 1..MaxRun /\ run' = run => ~BegunIn(scen, run, f)
    <3>1. run <= run
      BY <1>2
    <3>. QED  BY <3>1
  <2>4. ~(Issue /\ Begins(r, f))
    BY <1>3, <2>3
  <2>. QED  BY <2>2, <2>4, FilesStep
<1>5. CASE run' = run
  BY <1>1, <1>4, <1>5, FilesStep
<1>6. CASE run' # run
  <2>1. run' # 1
    BY <1>2, <1>6
  <2>2. \A q \in 1..MaxRun : q <= run => q \in 1..MaxRun \ {run'}
    BY <1>2, <1>6
  <2>. QED  BY <1>1, <1>4, <1>6, <2>1, <2>2, FilesStep
<1>. QED  BY <1>5, <1>6

LEMMA UpStep ==
  ASSUME TypeOK, Up, [Next]_vars
  PROVE  Up'
<1>. SUFFICES ASSUME NEW v \in VM, Unhalted(scen, v), NEW x \in net', x[1] = "halted", x[2] = v
              PROVE  FALSE
  BY Forward DEF Up, Halted, Unhalted
<1>1. x \notin net
  BY DEF Up, Halted
<1>2. SwitchOn /\ x \in r.names \X r.vms \X {who}
  BY <1>1, Effects DEF SwitchOn, SwitchOff
<1>3. Running /\ r.op = "on" /\ "halted" \in r.names /\ v \in r.vms
  BY <1>2 DEF SwitchOn, Is
<1>4. r \in Asked(scen, who) /\ who \in DOMAIN Kind[scen]
  BY <1>3, Asking DEF TypeOK, Member
<1>. QED  BY <1>3, <1>4 DEF Unhalted

\* A program that is beyond its request j has just made it, or had done so before.
LEMMA Crossing ==
  ASSUME TypeOK, [Next]_vars, run' <= MaxRun, NEW j \in DOMAIN Prog', Passing(Prog', j),
         pc' > j
  PROVE  /\ UNCHANGED <<scen, run, stage, who>> /\ Prog' = Prog /\ run <= MaxRun
         /\ pc \in Nat /\ pc' \in Nat /\ j \in Nat /\ pc <= pc'
         /\ UNCHANGED at \/ (Running /\ pc \in DOMAIN Prog /\ r = Prog[pc] /\ pc < pc')
         /\ \/ pc > j
            \/ pc = j /\ Running /\ r = Prog[j] /\ ~UNCHANGED at
<1>1. j \in Nat \ {0}
  BY NextProgram
<1>2. /\ UNCHANGED <<scen, run, stage, who>> /\ Prog' = Prog /\ run <= MaxRun
      /\ pc <= pc' /\ (UNCHANGED at \/ (Running /\ pc < pc'))
      /\ pc > j \/ (pc = j /\ Running)
  <2>1. Through(Prog', j, pc')
    BY DEF Through, Passing
  <2>. QED  BY <1>1, <2>1, Onward
<1>3. pc \in Nat /\ (Running => pc \in DOMAIN Prog)
  BY <1>2, TurnProgram DEF Running
<1>4. pc' \in Nat
  BY TypeStep DEF TypeOK
<1>5. pc = j => ~UNCHANGED at
  BY <1>1, <1>3 DEF at
<1>. QED  BY <1>1, <1>2, <1>3, <1>4, <1>5 DEF r

LEMMA TagsSetStep ==
  ASSUME TypeOK, TagsSet, [Next]_vars
  PROVE  TagsSet'
<1>. SUFFICES ASSUME run' <= MaxRun, NoUntag(Prog'), NEW b \in DOMAIN Prog',
                     pc' > b, Passing(Prog', b), Prog'[b].op = "tag"
              PROVE  Prog'[b].vms \X Prog'[b].names \subseteq tags'
  BY DEF TagsSet, NoUntag, Passing
<1>1. Prog' = Prog /\ run <= MaxRun
  BY Crossing
<1>2. CASE pc > b
  <2>1. Prog[b].vms \X Prog[b].names \subseteq tags
    BY <1>1, <1>2 DEF TagsSet
  <2>2. SetTag => tags \subseteq tags'
    <3>1. Running => pc \in DOMAIN Prog
      BY <1>1, TurnProgram DEF Running
    <3>. QED  BY <1>1, <3>1 DEF SetTag, Is, r, NoUntag
  <2>. QED  BY <1>1, <2>1, <2>2, Effects
<1>3. CASE pc = b /\ Running /\ r = Prog[b] /\ ~UNCHANGED at
  <2>1. SetTag /\ r.op = "tag"
    BY <1>1, <1>3, ByOp
  <2>. QED  BY <1>1, <1>3, <2>1 DEF SetTag
<1>. QED  BY <1>2, <1>3, Crossing

LEMMA TagsKept ==
  ASSUME TypeOK, [Next]_vars, NEW v, NEW T, Lasting(T), HasTag(v, T)
  PROVE  HasTag(v, T)'
<1>1. CASE tags' = tags
  BY <1>1 DEF HasTag
<1>2. CASE SetTag
  <2>1. Running
    BY <1>2 DEF SetTag, Is
  <2>2. run <= MaxRun
    BY <2>1 DEF Running
  <2>3. run \in 1..MaxRun /\ stage \in Stage /\ who \in DOMAIN Kind[scen] /\ pc \in DOMAIN Prog
    BY <2>1, <2>2, TurnProgram DEF Running
  <2>4. r.op = "untag" => r.names \cap T = {}
    BY <2>3 DEF Lasting, Prog, r
  <2>5. PICK t \in T : <<v, t>> \in tags
    BY DEF HasTag
  <2>6. <<v, t>> \in tags'
    <3>1. CASE r.op = "tag"
      BY <1>2, <2>5, <3>1 DEF SetTag
    <3>2. CASE r.op = "untag"
      BY <1>2, <2>4, <2>5, <3>2 DEF SetTag
    <3>. QED  BY <1>2, <3>1, <3>2 DEF SetTag, Is
  <2>. QED  BY <2>6 DEF HasTag
<1>. QED  BY <1>1, <1>2, Effects

LEMMA FilteredStep ==
  ASSUME TypeOK, Filtered, [Next]_vars
  PROVE  Filtered'
<1>. SUFFICES ASSUME run' <= MaxRun, NEW a \in DOMAIN Prog',
                     pc' > a, Passing(Prog', a), Prog'[a].op = "filter",
                     \A m \in DOMAIN Prog' : a < m /\ m < pc' => Prog'[m].op # "filter",
                     NEW T, T = Prog'[a].names, T # {}, Lasting(T), NEW v \in filter'
              PROVE  HasTag(v, T)'
  <2>1. \A T : Lasting(T)' <=> Lasting(T)
    BY Forward DEF Lasting
  <2>2. ASSUME run' <= MaxRun, NEW a \in DOMAIN Prog',
               /\ pc' > a /\ Passing(Prog', a) /\ Prog'[a].op = "filter"
               /\ \A m \in DOMAIN Prog' : a < m /\ m < pc' => Prog'[m].op # "filter"
               /\ Prog'[a].names # {} /\ Lasting(Prog'[a].names),
               NEW v \in filter'
        PROVE  \E t \in Prog'[a].names : <<v, t>> \in tags'
    BY <2>2 DEF HasTag
  <2>. QED  BY <2>1, <2>2 DEF Filtered, Passing, HasTag
<1>1. /\ Prog' = Prog /\ run <= MaxRun /\ pc \in Nat /\ pc' \in Nat /\ a \in Nat /\ pc <= pc'
      /\ UNCHANGED at \/ (Running /\ pc \in DOMAIN Prog /\ r = Prog[pc] /\ pc < pc')
  BY Crossing
<1>2. CASE pc > a
  <2>1. \A m \in DOMAIN Prog : a < m /\ m < pc => Prog[m].op # "filter"
    <3>1. DOMAIN Prog = 1..Len(Prog) /\ Len(Prog) \in Nat
      BY <1>1, TurnProgram
    <3>2. \A m \in DOMAIN Prog : m < pc => m < pc'
      BY <1>1, <3>1
    <3>. QED  BY <1>1, <3>2
  <2>2. ~SetFilter
    <3>. SUFFICES ASSUME SetFilter PROVE FALSE
      OBVIOUS
    <3>1. pc' = pc + 1 /\ r.op = "filter"
      BY DEF SetFilter, Is, Continue, Step
    <3>2. ~UNCHANGED at
      BY <1>1, <3>1 DEF at
    <3>. QED  BY <1>1, <1>2, <3>1, <3>2
  <2>3. HasTag(v, T)
    BY <1>1, <1>2, <2>1, <2>2, Effects DEF Filtered
  <2>. QED  BY <1>1, <2>3, TagsKept
<1>3. CASE pc = a /\ Running /\ r = Prog[a] /\ ~UNCHANGED at
  <2>1. SetFilter
    BY <1>1, <1>3, ByOp
  <2>. QED  BY <1>1, <1>3, <2>1 DEF SetFilter, HasTag
<1>. QED  BY <1>2, <1>3, Crossing

\* A step that begins a file in a VM issues a command there.
LEMMA BeginningFile ==
  ASSUME TypeOK, [Next]_vars, NEW v \in VM, NEW f, ~Alive(v, f), Alive(v, f)'
  PROVE  /\ Issue /\ Begins(r, f) /\ v \in filter
         /\ Running /\ run \in 1..MaxRun /\ stage \in Stage /\ who \in DOMAIN Kind[scen]
         /\ run <= MaxRun /\ pc \in DOMAIN Prog /\ r = Prog[pc]
<1>1. Issue /\ Begins(r, f)
  BY FilesStep
<1>2. v \in filter
  <2>1. v \notin filter => queue'[v] = queue[v] /\ file' = file
    BY <1>1, IssueQueue DEF Issue
  <2>. QED  BY <2>1 DEF Alive
<1>3. Running
  BY <1>1 DEF Issue, Is
<1>4. run <= MaxRun
  BY <1>3 DEF Running
<1>5. run \in 1..MaxRun /\ stage \in Stage /\ who \in DOMAIN Kind[scen] /\ pc \in DOMAIN Prog
  BY <1>3, <1>4, TurnProgram DEF Running
<1>. QED  BY <1>1, <1>2, <1>3, <1>4, <1>5 DEF r

LEMMA UnderTagsStep ==
  ASSUME TypeOK, Filtered, UnderTags, [Next]_vars
  PROVE  UnderTags'
<1>. SUFFICES ASSUME NEW v \in VM, NEW f \in STRING, NEW T \in SUBSET STRING,
                     T # {}, Under(scen, f, T), Alive(v, f)'
              PROVE  HasTag(v, T)'
  <2>1. \A f, T : Under(scen, f, T)' <=> Under(scen, f, T)
    BY Forward
  <2>. QED  BY <2>1 DEF UnderTags
<1>1. Lasting(T)
  BY DEF Under, Lasting
<1>2. CASE Alive(v, f)
  BY <1>1, <1>2, TagsKept DEF UnderTags
<1>3. CASE ~Alive(v, f)
  <2>1. /\ v \in filter /\ run \in 1..MaxRun /\ stage \in Stage /\ who \in DOMAIN Kind[scen]
        /\ run <= MaxRun /\ pc \in DOMAIN Prog /\ r = Prog[pc] /\ Begins(r, f)
    BY <1>3, BeginningFile
  <2>2. PICK a \in DOMAIN Prog :
          /\ a < pc /\ Passing(Prog, a) /\ Prog[a].op = "filter" /\ Prog[a].names = T
          /\ \A m \in DOMAIN Prog : a < m /\ m < pc => Prog[m].op # "filter"
    BY <2>1 DEF Under, Prog
  <2>3. a \in Nat /\ pc \in Nat
    BY <2>1, TurnProgram
  <2>4. pc > a
    BY <2>2, <2>3
  <2>5. HasTag(v, T)
    BY <1>1, <2>1, <2>2, <2>4 DEF Filtered
  <2>. QED  BY <1>1, <2>5, TagsKept
<1>. QED  BY <1>2, <1>3

LEMMA SelectedStep ==
  ASSUME TypeOK, Filtered, TagsSet, UnderTags, Selected, [Next]_vars
  PROVE  Selected'
<1>. SUFFICES ASSUME run' <= MaxRun, NEW v \in VM, NEW f \in STRING, NEW a \in DOMAIN Prog',
                     Chosen(scen, Prog', a, pc', v, f), Alive(v, f)'
              PROVE  v \in filter'
  <2>1. scen' = scen
    BY Forward
  <2>. QED  BY <2>1 DEF Selected
<1>0. a < pc' /\ Passing(Prog', a)
  BY DEF Chosen
<1>1. a \in Nat /\ pc' \in Nat
  <2>1. pc' \in Nat
    BY TypeStep DEF TypeOK
  <2>. QED  BY <2>1, NextProgram
<1>2. pc' > a
  BY <1>0, <1>1
<1>3. /\ Prog' = Prog /\ run <= MaxRun /\ pc \in Nat /\ pc <= pc'
      /\ UNCHANGED at \/ (Running /\ pc \in DOMAIN Prog /\ r = Prog[pc] /\ pc < pc')
  BY <1>0, <1>2, Crossing
<1>4. \A k \in DOMAIN Prog : a < k /\ k < pc' => Prog[k].op # "filter" /\ ~Begins(Prog[k], f)
  BY <1>3 DEF Chosen
<1>5. CASE pc > a
  <2>1. Chosen(scen, Prog, a, pc, v, f)
    <3>1. \A k \in DOMAIN Prog : k < pc => k < pc'
      <4>1. DOMAIN Prog = 1..Len(Prog) /\ Len(Prog) \in Nat
        BY <1>3, TurnProgram
      <4>. QED  BY <1>1, <1>3, <4>1
    <3>2. a < pc
      BY <1>1, <1>3, <1>5
    <3>. QED  BY <1>3, <3>1, <3>2 DEF Chosen
  <2>2. \A k : k = pc /\ Running /\ pc < pc' => k \in DOMAIN Prog /\ a < k /\ k < pc'
    BY <1>1, <1>3, <1>5, TurnProgram DEF Running
  <2>3. ~SetFilter
    <3>. SUFFICES ASSUME SetFilter PROVE FALSE
      OBVIOUS
    <3>1. Running /\ r.op = "filter" /\ pc' = pc + 1
      BY DEF SetFilter, Is, Continue, Step
    <3>. QED  BY <1>1, <1>3, <1>4, <2>2, <3>1 DEF at, r
  <2>4. Alive(v, f)
    <3>. SUFFICES ASSUME ~Alive(v, f) PROVE FALSE
      OBVIOUS
    <3>1. Issue /\ Begins(r, f) /\ Running
      BY BeginningFile
    <3>2. pc' = pc + 1
      BY <3>1 DEF Issue, Continue, Step
    <3>. QED  BY <1>1, <1>3, <1>4, <2>2, <3>1, <3>2 DEF at, r
  <2>5. v \in filter
    BY <1>3, <2>1, <2>4 DEF Selected
  <2>. QED  BY <2>3, <2>5, Effects
<1>6. CASE pc = a /\ Running /\ r = Prog[a] /\ ~UNCHANGED at
  <2>1. r.op = "filter" /\ v \in r.vms
    BY <1>3, <1>6 DEF Chosen
  <2>2. SetFilter
    BY <1>6, <2>1, ByOp
  <2>3. UNCHANGED <<queue, file, tags>>
    BY <2>2 DEF SetFilter, agents
  <2>4. Alive(v, f)
    BY <2>3 DEF Alive
  <2>5. r.names = {} \/ \E t \in r.names : <<v, t>> \in tags
    <3>1. CASE r.names = {}
      BY <3>1
    <3>2. CASE r.names # {} /\ Under(scen, f, r.names)
      <4>1. r.names \in SUBSET STRING
        BY <1>6, RequestType DEF Request
      <4>. QED  BY <2>4, <3>2, <4>1 DEF UnderTags, HasTag
    <3>3. CASE /\ \A k \in DOMAIN Prog : Prog[k].op # "untag"
               /\ \E b \in DOMAIN Prog :
                    /\ b < a /\ Passing(Prog, b) /\ Prog[b].op = "tag" /\ v \in Prog[b].vms
                    /\ Prog[b].names \cap r.names # {}
      <4>1. PICK b \in DOMAIN Prog :
              /\ b < a /\ Passing(Prog, b) /\ Prog[b].op = "tag" /\ v \in Prog[b].vms
              /\ Prog[b].names \cap r.names # {}
        BY <3>3
      <4>2. pc > b
        <5>1. b \in Nat
          BY <1>3, TurnProgram
        <5>. QED  BY <1>1, <1>6, <4>1, <5>1
      <4>3. Prog[b].vms \X Prog[b].names \subseteq tags
        BY <1>3, <3>3, <4>1, <4>2 DEF TagsSet, NoUntag
      <4>4. PICK t \in r.names : t \in Prog[b].names
        BY <4>1
      <4>. QED  BY <4>1, <4>3, <4>4
    <3>. QED  BY <1>3, <1>6, <3>1, <3>2, <3>3 DEF Chosen
  <2>. QED  BY <2>1, <2>2, <2>5 DEF SetFilter
<1>. QED  BY <1>0, <1>2, <1>5, <1>6, Crossing

\* What a program waits for, if no agent is late.
LEMMA Waited ==
  ASSUME TypeOK, Up, Sleeping, r.op = "sleep", r.n > 0,
         NEW v \in VM, Unhalted(scen, v)
  PROVE  run \in late' \/ (queue[v] = <<>> /\ queue' = queue)
<1>1. SleepTime = r.n /\ r.n \in Nat
  <2>1. Running
    BY DEF Sleeping, Is
  <2>. QED  BY <2>1, RequestType DEF SleepTime, Request
<1>2. SleepTime # 0
  BY <1>1
<1>3. CASE \A u \in VM : Idle(u) \/ Halted(u)
  <2>1. Idle(v)
    BY <1>3 DEF Up
  <2>. QED  BY <2>1 DEF Idle, Sleeping, agents
<1>4. CASE ~ \A u \in VM : Idle(u) \/ Halted(u)
  <2>1. Late
    BY <1>2, <1>4 DEF Sleeping
  <2>. QED  BY <2>1 DEF Late
<1>. QED  BY <1>3, <1>4

LEMMA SleptStep ==
  ASSUME TypeOK, Up, Slept, [Next]_vars
  PROVE  Slept'
<1>. SUFFICES ASSUME run' <= MaxRun, NEW w \in DOMAIN Prog',
                     pc' > w, Passing(Prog', w), Prog'[w].op = "sleep", Prog'[w].n > 0,
                     \A m \in DOMAIN Prog' : w < m /\ m < pc' => Prog'[m].op # "exec",
                     NEW v \in VM, Unhalted(scen, v)
              PROVE  run' \in late' \/ queue'[v] = <<>>
  <2>1. \A v : Unhalted(scen, v)' <=> Unhalted(scen, v)
    BY Forward
  <2>. QED  BY <2>1 DEF Slept, Passing
<1>1. /\ Prog' = Prog /\ run <= MaxRun /\ pc \in Nat /\ pc' \in Nat /\ w \in Nat /\ pc <= pc'
      /\ run' = run
      /\ UNCHANGED at \/ (Running /\ pc \in DOMAIN Prog /\ r = Prog[pc] /\ pc < pc')
  BY Crossing
<1>2. CASE pc > w
  <2>1. \A m \in DOMAIN Prog : w < m /\ m < pc => Prog[m].op # "exec"
    <3>1. DOMAIN Prog = 1..Len(Prog) /\ Len(Prog) \in Nat
      BY <1>1, TurnProgram
    <3>2. \A m \in DOMAIN Prog : m < pc => m < pc'
      BY <1>1, <3>1
    <3>. QED  BY <1>1, <3>2
  <2>2. run \in late \/ queue[v] = <<>>
    BY <1>1, <1>2, <2>1 DEF Slept
  <2>3. ~Issue
    <3>. SUFFICES ASSUME Issue PROVE FALSE
      OBVIOUS
    <3>1. pc' = pc + 1 /\ r.op = "exec"
      BY DEF Issue, Is, Continue, Step
    <3>2. ~UNCHANGED at
      BY <1>1, <3>1 DEF at
    <3>. QED  BY <1>1, <1>2, <3>1, <3>2
  <2>4. Forget => queue'[v] = <<>>
    BY DEF Forget
  <2>5. ASSUME NEW u \in VM, Execute(u), queue[v] = <<>> PROVE queue'[v] = <<>>
    <3>1. u # v
      BY <2>5 DEF Execute
    <3>. QED  BY <2>5, <3>1 DEF Execute, TypeOK
  <2>. QED  BY <1>1, <2>2, <2>3, <2>4, <2>5, Effects
<1>3. CASE pc = w /\ Running /\ r = Prog[w] /\ ~UNCHANGED at
  <2>1. Sleeping /\ r.op = "sleep" /\ r.n > 0
    BY <1>1, <1>3, ByOp
  <2>. QED  BY <1>1, <2>1, Waited
<1>. QED  BY <1>2, <1>3, Crossing

\* Commands are forgotten when there are none, or in a run with a late agent.
LEMMA Forgetting ==
  ASSUME TypeOK, Slept, Renewing(scen), Forget
  PROVE  /\ stage = 1
         /\ \A v \in VM : Unhalted(scen, v) => run \in late \/ queue[v] = <<>>
<1>1. Running /\ r.op = "forget"
  BY DEF Forget, Is
<1>2. run <= MaxRun
  BY <1>1 DEF Running
<1>3. /\ run \in 1..MaxRun /\ stage \in Stage /\ who \in DOMAIN Kind[scen]
      /\ pc \in DOMAIN Prog /\ r = Prog[pc] /\ pc \in Nat
      /\ DOMAIN Prog = 1..Len(Prog) /\ Len(Prog) \in Nat
  BY <1>1, <1>2, TurnProgram DEF Running, r
<1>4. /\ Patient(Prog)
      /\ stage > 1 => \A k \in DOMAIN Prog : Prog[k].op # "forget"
  BY <1>3 DEF Renewing, Prog
<1>5. stage = 1
  BY <1>1, <1>3, <1>4 DEF Stage
<1>6. PICK w \in DOMAIN Prog :
        /\ w < pc /\ Passing(Prog, w) /\ Prog[w].op = "sleep" /\ Prog[w].n > 0
        /\ \A m \in DOMAIN Prog : w < m /\ m < pc => Prog[m].op # "exec"
  BY <1>1, <1>3, <1>4 DEF Patient
<1>7. pc > w
  BY <1>3, <1>6
<1>. QED  BY <1>2, <1>5, <1>6, <1>7 DEF Slept

LEMMA DeletesStage ==
  \A kind \in DOMAIN Deletes : Deletes[kind] \in {3, 4}
BY DEF Deletes

LEMMA DeletionMade ==
  ASSUME TypeOK, Selected, [Next]_vars, run' <= MaxRun, NEW v \in VM, NEW f \in STRING,
         NEW j \in DOMAIN Prog', j < pc', Deletion(scen, Prog', j, v, f)
  PROVE  /\ UNCHANGED <<run, stage, who>> /\ Prog' = Prog /\ run <= MaxRun
         /\ j < pc \/ (Gone(v, f)' /\ Clear(v, f)')
<1>0. Passing(Prog', j)
  BY DEF Deletion
<1>1. pc' > j
  <2>1. pc' \in Nat
    BY TypeStep DEF TypeOK
  <2>2. j \in Nat
    BY NextProgram
  <2>. QED  BY <2>1, <2>2
<1>2. /\ UNCHANGED <<run, stage, who>> /\ Prog' = Prog /\ run <= MaxRun
      /\ pc \in Nat /\ j \in Nat
      /\ \/ pc > j
         \/ pc = j /\ Running /\ r = Prog[j] /\ ~UNCHANGED at
  BY <1>0, <1>1, Crossing
<1>3. CASE pc = j /\ Running /\ r = Prog[j] /\ ~UNCHANGED at
  <2>1. Removes(r, f)
    BY <1>2, <1>3 DEF Deletion
  <2>2. Issue
    BY <1>3, <2>1, ByOp DEF Removes
  <2>3. PICK a \in DOMAIN Prog : Chosen(scen, Prog, a, pc, v, f)
    BY <1>2, <1>3 DEF Deletion
  <2>4. Alive(v, f) => v \in filter
    BY <1>2, <2>3 DEF Selected
  <2>. QED  BY <1>2, <2>1, <2>2, <2>4, IssueFiles
<1>. QED  BY <1>2, <1>3

\* A component that came to its end in this run has deleted its files.
LEMMA EndedDeletion ==
  ASSUME TypeOK, [Next]_vars, NEW v \in VM, NEW f \in STRING, NEW i \in Member,
         AtEnd(scen, i, v, f), <<run, i, Deletes[Kind[scen][i]]>> \in done'
  PROVE  DeletedAtEnd(i, v, f)
<1>. DEFINE D == Deletes[Kind[scen][i]]
<1>1. CASE <<run, i, D>> \in done
  BY <1>1 DEF DeletedAtEnd
<1>2. CASE <<run, i, D>> \notin done
  <2>1. Finish
    BY <1>2, Effects
  <2>2. run <= MaxRun /\ pc > Len(Prog) /\ who = i /\ stage = D
    BY <1>2, <2>1 DEF Finish
  <2>3. run \in 1..MaxRun /\ DOMAIN Prog = 1..Len(Prog) /\ Len(Prog) \in Nat /\ pc \in Nat
    BY <2>2, TurnProgram
  <2>4. PICK j \in DOMAIN Prog : Deletion(scen, Prog, j, v, f)
    BY <2>2, <2>3 DEF AtEnd, Prog
  <2>5. j < pc
    BY <2>2, <2>3
  <2>. QED  BY <2>2, <2>4, <2>5 DEF DeletedAtEnd, DeletedNow
<1>. QED  BY <1>1, <1>2

LEMMA RemovedStep ==
  ASSUME TypeOK, Order, Slept, Selected, Removed, Renewing(scen), [Next]_vars
  PROVE  Removed'
<1>. SUFFICES ASSUME NEW v \in VM, NEW f \in STRING, NEW i \in Member,
                     AtEnd(scen, i, v, f), DeletedAtEnd(i, v, f)'
              PROVE  Gone(v, f)'
  <2>1. Member' = Member /\ scen' = scen
    BY Forward, MemberSame
  <2>. QED  BY <2>1 DEF Removed
<1>. DEFINE D == Deletes[Kind[scen][i]]
<1>0. scen' = scen
  BY Forward
<1>1. D \in {3, 4} /\ i \in DOMAIN Kind[scen]
  BY DeletesStage DEF AtEnd, Member
<1>2. DeletedAtEnd(i, v, f) \/ Gone(v, f)'
  <2>1. CASE <<run', i, D>> \in done'
    <3>1. run' = run
      <4>1. run \in Nat /\ run' \in {run, run + 1}
        BY Forward
      <4>2. CASE <<run', i, D>> \in done
        <5>1. Past(run', D, i)
          BY <4>2 DEF Order
        <5>. QED  BY <4>1, <5>1 DEF Past
      <4>3. CASE <<run', i, D>> \notin done
        <5>1. Finish
          BY <2>1, <4>3, Effects
        <5>. QED  BY <2>1, <4>3, <5>1 DEF Finish
      <4>. QED  BY <4>2, <4>3
    <3>. QED  BY <2>1, <3>1, EndedDeletion
  <2>2. CASE stage' = D /\ who' = i /\ DeletedNow(v, f)'
    <3>1. PICK j \in DOMAIN Prog' : j < pc' /\ Deletion(scen, Prog', j, v, f)
      BY <1>0, <2>2 DEF DeletedNow
    <3>2. run' <= MaxRun
      BY <2>2 DEF DeletedNow
    <3>3. /\ UNCHANGED <<run, stage, who>> /\ Prog' = Prog /\ run <= MaxRun
          /\ j < pc \/ Gone(v, f)'
      BY <3>1, <3>2, DeletionMade
    <3>. QED  BY <2>2, <3>1, <3>3 DEF DeletedAtEnd, DeletedNow
  <2>. QED  BY <1>0, <2>1, <2>2 DEF DeletedAtEnd
<1>3. CASE DeletedAtEnd(i, v, f)
  <2>1. stage \in 1..4 /\ stage >= D
    <3>1. stage \in 1..4 /\ run \in Nat
      BY Forward
    <3>2. CASE <<run, i, D>> \in done
      <4>1. Past(run, D, i)
        BY <3>2 DEF Order
      <4>. QED  BY <1>1, <3>1, <4>1 DEF Past
    <3>3. CASE <<run, i, D>> \notin done
      <4>1. stage = D
        BY <1>3, <3>3 DEF DeletedAtEnd
      <4>. QED  BY <1>1, <3>1, <4>1
    <3>. QED  BY <3>1, <3>2, <3>3
  <2>2. ~(Issue /\ Begins(r, f))
    <3>. SUFFICES ASSUME Issue PROVE ~Begins(r, f)
      OBVIOUS
    <3>1. Running
      BY DEF Issue, Is
    <3>2. run <= MaxRun
      BY <3>1 DEF Running
    <3>3. run \in 1..MaxRun /\ who \in DOMAIN Kind[scen] /\ pc \in DOMAIN Prog
      BY <3>1, <3>2, TurnProgram DEF Running
    <3>4. stage \in D..4
      BY <1>1, <2>1
    <3>. QED  BY <3>3, <3>4 DEF AtEnd, Prog, r
  <2>3. ~Forget
    BY <1>1, <2>1, Forgetting
  <2>4. Gone(v, f)
    BY <1>3 DEF Removed
  <2>. QED  BY <2>2, <2>3, <2>4, FilesStep
<1>. QED  BY <1>2, <1>3

\* In a run, what ended in the earlier ones does not change.
LEMMA EarlierBack ==
  ASSUME TypeOK, [Next]_vars, NEW i \in Member, Earlier(i)'
  PROVE  /\ run' = run => Earlier(i)
         /\ run' # run => <<run, i, Deletes[Kind[scen][i]]>> \in done'
<1>0. run \in Nat \ {0} /\ run' \in {run, run + 1} /\ scen' = scen
  BY Forward DEF TypeOK
<1>. DEFINE D == Deletes[Kind[scen][i]]
<1>1. \A q \in 1..(run' - 1) : <<q, i, D>> \in done'
  BY <1>0 DEF Earlier
<1>2. CASE run' = run
  <2>1. \A q \in 1..(run - 1) : q # run
    BY <1>0
  <2>2. \A q \in 1..(run - 1) : <<q, i, D>> \in done
    BY <1>1, <1>2, <2>1, Effects DEF Finish
  <2>. QED  BY <1>0, <1>2, <2>2 DEF Earlier
<1>3. CASE run' # run
  <2>1. run \in 1..(run' - 1)
    <3>1. run' = run + 1
      BY <1>0, <1>3
    <3>2. run \in 1..((run + 1) - 1)
      BY <1>0
    <3>. QED  BY <3>1, <3>2
  <2>. QED  BY <1>1, <1>3, <2>1
<1>. QED  BY <1>2, <1>3

\* A deletion that waits is carried out, or a late agent has not seen it.
LEMMA ClearKept ==
  ASSUME TypeOK, Slept, Renewing(scen), [Next]_vars, run' = run,
         NEW v \in VM, NEW f, Unhalted(scen, v), run \in late \/ Clear(v, f)
  PROVE  run \in late' \/ Clear(v, f)'
<1>1. late \subseteq late'
  BY Effects
<1>2. Forget => run \in late \/ queue[v] = <<>>
  BY Forgetting
<1>. QED  BY <1>1, <1>2, FilesStep

LEMMA ReadyStep ==
  ASSUME TypeOK, Slept, Removed, Ready, Renewing(scen), [Next]_vars
  PROVE  Ready'
<1>. SUFFICES ASSUME NEW v \in VM, NEW f \in STRING, NEW i \in Member,
                     Unhalted(scen, v), AtEnd(scen, i, v, f), Earlier(i)'
              PROVE  run' \in late' \/ Clear(v, f)'
  <2>1. Member' = Member /\ scen' = scen
    BY Forward, MemberSame
  <2>. QED  BY <2>1 DEF Ready
<1>1. CASE run' = run
  <2>1. run \in late \/ Clear(v, f)
    BY <1>1, EarlierBack DEF Ready
  <2>. QED  BY <1>1, <2>1, ClearKept
<1>2. CASE run' # run
  <2>1. DeletedAtEnd(i, v, f)
    BY <1>2, EarlierBack, EndedDeletion
  <2>2. Gone(v, f)
    BY <2>1 DEF Removed
  <2>. QED  BY <1>2, <2>2, FilesStep
<1>. QED  BY <1>1, <1>2

\* The turns that are left before the last stage.
LEMMA LeftTurn ==
  ASSUME TypeOK, run <= MaxRun, Leave \/ Exit, stage' < 4, NEW h \in 1..3, NEW i \in Member,
         stage' > h \/ (stage' = h /\ who' > i)
  PROVE  /\ run' = run /\ stage < 4
         /\ stage > h \/ (stage = h /\ who > i) \/ (stage = h /\ who = i)
<1>1. /\ stage \in 1..4 /\ Len(Kind[scen]) \in Nat /\ who \in 1..Len(Kind[scen])
      /\ i \in 1..Len(Kind[scen])
  BY KindType DEF TypeOK, Stage
<1>. QED  BY <1>1 DEF Leave, Exit

LEMMA PreparedStep ==
  ASSUME TypeOK, Own, Slept, Selected, Prepared, Renewing(scen), [Next]_vars
  PROVE  Prepared'
<1>. SUFFICES ASSUME NEW v \in VM, NEW f \in STRING, NEW i \in Member, NEW h \in 1..3,
                     run' <= MaxRun, stage' < 4,
                     Unhalted(scen, v), Early(scen, i, h, v, f), DeletedIn(i, h, v, f)'
              PROVE  run' \in late' \/ Clear(v, f)'
  <2>1. Member' = Member /\ scen' = scen
    BY Forward, MemberSame
  <2>. QED  BY <2>1 DEF Prepared
<1>0. scen' = scen /\ run \in Nat \ {0} /\ run' \in {run, run + 1}
  BY Forward DEF TypeOK
<1>1. CASE run' = 1
  <2>1. ~Old(v, f)'
    BY <1>1, OwnStep DEF Own
  <2>. QED  BY <2>1 DEF Clear
<1>2. CASE run' # 1
  <2>1. \/ run' = run /\ stage < 4 /\ run <= MaxRun /\ DeletedIn(i, h, v, f)
        \/ Clear(v, f)'
    <3>1. CASE UNCHANGED <<run, stage, who>> /\ ~(stage > h) /\ ~(stage = h /\ who > i)
      <4>1. PICK j \in DOMAIN Prog' :
              /\ j < pc' /\ Deletion(scen, Prog', j, v, f) /\ \A k \in 1..j : Sure(Prog'[k])
        BY <1>0, <3>1 DEF DeletedIn, Sure
      <4>2. /\ Prog' = Prog /\ run <= MaxRun
            /\ j < pc \/ Clear(v, f)'
        BY <4>1, DeletionMade
      <4>. QED  BY <3>1, <4>1, <4>2 DEF DeletedIn
    <3>2. CASE UNCHANGED <<run, stage, who>> /\ (stage > h \/ (stage = h /\ who > i))
      BY <3>2 DEF DeletedIn
    <3>3. CASE ~UNCHANGED <<run, stage, who>>
      <4>1. ~(pc' > 0)
        BY <3>3, Moved DEF at, Launch, Finish, Continue, Step, Leave, Moves, Exit
      <4>2. stage' > h \/ (stage' = h /\ who' > i)
        <5>1. ASSUME NEW j \in DOMAIN Prog', j < pc' PROVE FALSE
          <6>1. j \in Nat \ {0}
            BY NextProgram
          <6>2. pc' \in Nat
            BY TypeStep DEF TypeOK
          <6>. QED  BY <4>1, <5>1, <6>1, <6>2
        <5>. QED  BY <5>1 DEF DeletedIn
      <4>3. \/ Finish
            \/ Running /\ pc' = 0 /\ ~Sure(r) /\ Leave
            \/ Running /\ Exit
        BY <3>3, Moved DEF at, Launch, Continue, Step, Moves, Leave
      <4>4. run <= MaxRun /\ (Leave \/ Exit)
        BY <4>3 DEF Finish, Running
      <4>5. /\ run' = run /\ stage < 4
            /\ stage > h \/ (stage = h /\ who > i) \/ (stage = h /\ who = i)
        BY <4>2, <4>4, LeftTurn
      <4>6. CASE stage = h /\ who = i
        <5>1. run \in 2..MaxRun /\ DOMAIN Prog = 1..Len(Prog) /\ Len(Prog) \in Nat /\ pc \in Nat
          BY <1>0, <1>2, <4>4, <4>5, TurnProgram
        <5>2. PICK j \in DOMAIN Prog :
                Deletion(scen, Prog, j, v, f) /\ \A k \in 1..j : Sure(Prog[k])
          BY <4>6, <5>1 DEF Early, Prog
        <5>3. j < pc
          <6>1. CASE Finish
            BY <5>1, <6>1 DEF Finish
          <6>2. CASE Running /\ ~Sure(r)
            <7>1. pc \notin 1..j
              BY <5>2, <6>2 DEF r
            <7>2. pc >= 1
              BY <6>2 DEF Running
            <7>. QED  BY <5>1, <7>1, <7>2
          <6>. QED  BY <4>3, <4>5, <6>1, <6>2 DEF Exit
        <5>. QED  BY <4>4, <4>5, <4>6, <5>2, <5>3 DEF DeletedIn
      <4>. QED  BY <4>4, <4>5, <4>6 DEF DeletedIn
    <3>. QED  BY <1>0, <3>1, <3>2, <3>3
  <2>2. CASE run' = run /\ stage < 4 /\ run <= MaxRun /\ DeletedIn(i, h, v, f)
    <3>1. run \in late \/ Clear(v, f)
      BY <2>2 DEF Prepared
    <3>. QED  BY <2>2, <3>1, ClearKept
  <2>. QED  BY <2>1, <2>2
<1>. QED  BY <1>1, <1>2

LEMMA SettledStep ==
  ASSUME TypeOK, Up, Ready, Prepared, Settled, [Next]_vars
  PROVE  Settled'
<1>. SUFFICES ASSUME run' <= MaxRun, NEW v \in VM, NEW f \in STRING, NEW w \in DOMAIN Prog',
                     pc' > w, Awaits(Prog', w, v), Unhalted(scen, v), Renewed(v, f)'
              PROVE  run' \in late' \/ ~Old(v, f)'
  <2>1. scen' = scen
    BY Forward
  <2>. QED  BY <2>1 DEF Settled
<1>1. /\ UNCHANGED <<scen, run, stage, who>> /\ Prog' = Prog /\ run <= MaxRun
      /\ pc \in Nat /\ w \in Nat
      /\ pc > w \/ (pc = w /\ Running /\ r = Prog[w] /\ ~UNCHANGED at)
  <2>1. Passing(Prog', w)
    BY DEF Awaits
  <2>. QED  BY <2>1, Crossing
<1>2. PICK i \in Member :
        \/ AtEnd(scen, i, v, f) /\ Earlier(i)
        \/ stage < 4 /\ \E h \in 1..(stage - 1) : Early(scen, i, h, v, f)
  <2>1. PICK i \in Member :
          \/ AtEnd(scen, i, v, f) /\ Earlier(i)'
          \/ stage < 4 /\ \E h \in 1..(stage - 1) : Early(scen, i, h, v, f)
    BY <1>1, MemberSame DEF Renewed
  <2>. QED  BY <1>1, <2>1, EarlierBack
<1>3. late \subseteq late'
  BY Effects
<1>4. CASE pc > w
  <2>1. run \in late \/ ~Old(v, f)
    BY <1>1, <1>2, <1>4 DEF Settled, Renewed
  <2>. QED  BY <1>1, <1>3, <2>1, FilesStep
<1>5. CASE pc = w /\ Running /\ r = Prog[w] /\ ~UNCHANGED at
  <2>1. run \in late \/ Clear(v, f)
    <3>1. CASE AtEnd(scen, i, v, f) /\ Earlier(i)
      BY <3>1 DEF Ready
    <3>2. CASE stage < 4 /\ \E h \in 1..(stage - 1) : Early(scen, i, h, v, f)
      <4>1. PICK h \in 1..(stage - 1) : Early(scen, i, h, v, f)
        BY <3>2
      <4>2. h \in 1..3 /\ stage > h
        BY <3>2 DEF TypeOK, Stage
      <4>. QED  BY <1>1, <3>2, <4>1, <4>2 DEF Prepared, DeletedIn
    <3>. QED  BY <1>2, <3>1, <3>2
  <2>2. queue[v] = <<>> /\ Clear(v, f) => ~Old(v, f)
    <3>. SUFFICES ASSUME queue[v] = <<>> PROVE Clear(v, f) => ~Old(v, f)
      OBVIOUS
    <3>1. Len(queue[v]) = 0
      BY EmptySeq
    <3>2. \A k : k \notin DOMAIN queue[v]
      BY <3>1, QueueFacts
    <3>. QED  BY <3>2 DEF Clear
  <2>3. run \in late' \/ queue[v] = <<>>
    <3>1. CASE r.op \in {"await", "prefix"} /\ v \in r.vms /\ ~r.caught
      <4>1. AwaitAnswer \/ OverlookAnswer \/ TimeOut
        BY <1>5, <3>1, ByOp
      <4>2. ~TimeOut
        <5>1. ~(pc' = 0)
          <6>1. pc' \in Nat
            BY TypeStep DEF TypeOK
          <6>. QED  BY <1>1, <6>1
        <5>. QED  BY <3>1, <5>1 DEF TimeOut, Raise, Leave
      <4>. QED  BY <3>1, <4>1, <4>2 DEF AwaitAnswer, OverlookAnswer, Idle
    <3>2. CASE r.op = "sleep" /\ r.n > 0
      <4>1. Sleeping
        BY <1>5, <3>2, ByOp
      <4>. QED  BY <3>2, <4>1, Waited
    <3>. QED  BY <1>1, <1>5, <3>1, <3>2 DEF Awaits
  <2>4. ~Old(v, f) => ~Old(v, f)'
    BY <1>1, FilesStep
  <2>. QED  BY <1>1, <1>3, <2>1, <2>2, <2>3, <2>4
<1>. QED  BY <1>1, <1>4, <1>5

----------------------------------------------------------------------------
(* The files that are collected *)

SavedBefore == \A x \in saved : x.run \in Nat /\ x.run <= run
Renewal ==
  /\ Own /\ Up /\ TagsSet /\ Filtered /\ UnderTags /\ Selected /\ Slept /\ Order
  /\ Removed /\ Ready /\ Prepared /\ Settled

LEMMA RenewalStep ==
  ASSUME TypeOK, Renewal, Renewing(scen), [Next]_vars
  PROVE  Renewal'
<1>1. Own' /\ Up' /\ TagsSet' /\ Filtered' /\ UnderTags' /\ Selected' /\ Slept' /\ Order'
  BY OwnStep, UpStep, TagsSetStep, FilteredStep, UnderTagsStep, SelectedStep, SleptStep,
     OrderStep DEF Renewal
<1>2. Removed' /\ Ready' /\ Prepared' /\ Settled'
  BY RemovedStep, ReadyStep, PreparedStep, SettledStep DEF Renewal
<1>. QED  BY <1>1, <1>2 DEF Renewal

LEMMA RenewalInit ==
  ASSUME Init
  PROVE  Renewal
<1>1. file = {} /\ queue = [v \in VM |-> <<>>] /\ net = {} /\ done = {} /\ pc = 0
      /\ run = 1 /\ stage = 1 /\ who = 1 /\ scen \in Scenario
  BY DEF Init
<1>2. run \in 1..MaxRun \/ ~(run <= MaxRun)
  BY <1>1, RunAssumption DEF RunAssumption
<1>3. run <= MaxRun => \A k \in DOMAIN Prog : ~(pc > k) /\ ~(k < pc)
  <2>. SUFFICES ASSUME run <= MaxRun, NEW k \in DOMAIN Prog PROVE ~(pc > k) /\ ~(k < pc)
    OBVIOUS
  <2>1. Kind[scen] \in Seq(STRING) /\ Kind[scen] # <<>>
    BY <1>1, RunAssumption DEF RunAssumption
  <2>2. who \in DOMAIN Kind[scen]
    BY <1>1, <2>1, EmptySeq, LenProperties
  <2>3. k \in Nat \ {0}
    BY <1>1, <1>2, <2>2, ProgramType DEF Prog, Stage
  <2>. QED  BY <1>1, <2>3
<1>4. \A v \in VM : \A f : ~Alive(v, f) /\ ~Old(v, f)
  BY <1>1 DEF Alive, Old
<1>5. Own /\ Up /\ UnderTags /\ Order
  BY <1>1, <1>4 DEF Own, Up, Halted, UnderTags, Order
<1>6. TagsSet /\ Filtered /\ Selected /\ Slept
  BY <1>3, <1>4 DEF TagsSet, Filtered, Selected, Slept
<1>7. Removed /\ Ready /\ Prepared /\ Settled
  BY <1>4 DEF Removed, Ready, Prepared, Settled, Gone, Clear
<1>. QED  BY <1>5, <1>6, <1>7 DEF Renewal

\* What is fetched is of this run, if the agents were in time and the component
\* has deleted it at the end of every earlier run.
LEMMA FetchedRenewed ==
  ASSUME TypeOK, Renewal, Renewing(scen), Fetch, NEW y \in file,
         y.vm \in r.vms, y.name \in r.files
  PROVE  \/ y.data = {run}
         \/ run \in late
         \/ Kind[scen][who] \in Keepers
         \/ /\ Kind[scen][who] \in DOMAIN Deletes
            /\ \E q \in 1..(run - 1) : <<q, who, Deletes[Kind[scen][who]]>> \notin done
<1>1. Running /\ r.op = "recv"
  BY DEF Fetch, Is
<1>2. run <= MaxRun
  BY <1>1 DEF Running
<1>3. /\ run \in 1..MaxRun /\ stage \in Stage /\ who \in DOMAIN Kind[scen] /\ who \in Member
      /\ pc \in DOMAIN Prog /\ pc \in Nat /\ r = Prog[pc]
      /\ DOMAIN Prog = 1..Len(Prog) /\ Len(Prog) \in Nat
  BY <1>1, <1>2, TurnProgram DEF Running, r, Member
<1>4. y.vm \in VM /\ y.name \in STRING
  BY DEF TypeOK, File
<1>. DEFINE v == y.vm
            f == y.name
<1>5. Old(v, f) \/ y.data = {run}
  BY DEF Old, FileAt
<1>6. CASE Kind[scen][who] \in Keepers
  BY <1>6
<1>7. CASE Kind[scen][who] \notin Keepers
  <2>1. \/ \A q \in 1..MaxRun \ {run} : ~BegunIn(scen, q, f)
        \/ /\ Unhalted(scen, v)
           /\ \E w \in DOMAIN Prog : w < pc /\ Awaits(Prog, w, v)
           /\ \/ AtEnd(scen, who, v, f)
              \/ stage < 4 /\ \E h \in 1..(stage - 1) : Early(scen, who, h, v, f)
    BY <1>1, <1>3, <1>4, <1>7 DEF Renewing, Prog
  <2>2. CASE \A q \in 1..MaxRun \ {run} : ~BegunIn(scen, q, f)
    <3>1. ~Old(v, f)
      BY <1>4, <2>2 DEF Renewal, Own
    <3>. QED  BY <1>5, <3>1
  <2>3. CASE /\ Unhalted(scen, v)
             /\ \E w \in DOMAIN Prog : w < pc /\ Awaits(Prog, w, v)
             /\ \/ AtEnd(scen, who, v, f)
                \/ stage < 4 /\ \E h \in 1..(stage - 1) : Early(scen, who, h, v, f)
    <3>1. PICK w \in DOMAIN Prog : w < pc /\ Awaits(Prog, w, v)
      BY <2>3
    <3>2. pc > w
      BY <1>3, <3>1
    <3>3. CASE Renewed(v, f)
      <4>1. run \in late \/ ~Old(v, f)
        BY <1>2, <1>4, <2>3, <3>1, <3>2, <3>3 DEF Renewal, Settled
      <4>. QED  BY <1>5, <4>1
    <3>4. CASE ~Renewed(v, f)
      <4>1. AtEnd(scen, who, v, f) /\ ~Earlier(who)
        BY <1>3, <2>3, <3>4 DEF Renewed
      <4>. QED  BY <4>1 DEF AtEnd, Earlier
    <3>. QED  BY <3>3, <3>4
  <2>. QED  BY <2>1, <2>2, <2>3
<1>. QED  BY <1>6, <1>7

LEMMA FreshStep ==
  ASSUME TypeOK, Renewal, SavedBefore, Fresh, Renewing(scen), [Next]_vars
  PROVE  SavedBefore' /\ Fresh'
<1>0. scen' = scen /\ run \in Nat /\ run' \in {run, run + 1} /\ late \subseteq late'
  BY Forward, Effects
<1>. DEFINE Good(x) ==
       \/ x.data = {x.run}
       \/ x.run \in late
       \/ Kind[scen][x.by] \in Keepers
       \/ /\ Kind[scen][x.by] \in DOMAIN Deletes
          /\ \E q \in 1..(x.run - 1) : <<q, x.by, Deletes[Kind[scen][x.by]]>> \notin done
<1>1. \A x \in saved' : x.run \in Nat /\ x.run <= run /\ Good(x)
  <2>. SUFFICES ASSUME NEW x \in saved' PROVE x.run \in Nat /\ x.run <= run /\ Good(x)
    OBVIOUS
  <2>1. CASE x \in saved
    BY <2>1 DEF SavedBefore, Fresh
  <2>2. CASE x \notin saved /\ Fetch
    <3>1. PICK y \in file : /\ y.vm \in r.vms /\ y.name \in r.files
                            /\ Save(y.name, y.data, Torn(y.vm, y.name))
      BY <2>2 DEF Fetch
    <3>2. x.by = who /\ x.run = run /\ x.data = y.data
      BY <2>2, <3>1 DEF Save
    <3>. QED  BY <1>0, <2>2, <3>1, <3>2, FetchedRenewed
  <2>3. CASE x \notin saved /\ WriteFile
    <3>1. x.run = run /\ x.data = {run}
      BY <2>3 DEF WriteFile, Save
    <3>. QED  BY <1>0, <3>1
  <2>. QED  BY <2>1, <2>2, <2>3, Effects
<1>2. SavedBefore'
  BY <1>0, <1>1 DEF SavedBefore
<1>3. \A q \in Nat : q < run => \A i, D : <<q, i, D>> \notin done => <<q, i, D>> \notin done'
  BY <1>0, Effects DEF Finish
<1>4. ASSUME NEW x \in saved' PROVE Good(x)'
  <2>1. x.run \in Nat /\ x.run <= run /\ Good(x)
    BY <1>1
  <2>2. \A q \in 1..(x.run - 1) : q \in Nat /\ q < run
    BY <1>0, <2>1
  <2>. QED  BY <1>0, <1>3, <2>1, <2>2
<1>5. Fresh'
  BY <1>4 DEF Fresh
<1>. QED  BY <1>2, <1>5

\* The files that components collect hold the data of the run alone, in every
\* experiment whose components renew them: they are deleted before the run, or
\* named after it, by requests that no failure skips, and waited for.
THEOREM FreshHolds ==
  ASSUME \A s \in Scenario : Renewing(s)
  PROVE  Spec => []Fresh
<1>1. Init => Renewal /\ SavedBefore /\ Fresh
  BY RenewalInit DEF Init, SavedBefore, Fresh
<1>2. TypeOK /\ Renewal /\ SavedBefore /\ Fresh /\ [Next]_vars
        => Renewal' /\ SavedBefore' /\ Fresh'
  <2>. SUFFICES ASSUME TypeOK, Renewal, SavedBefore, Fresh, [Next]_vars
                PROVE  Renewal' /\ SavedBefore' /\ Fresh'
    OBVIOUS
  <2>1. Renewing(scen)
    BY DEF TypeOK
  <2>. QED  BY <2>1, RenewalStep, FreshStep
<1>. QED  BY <1>1, <1>2, TypeCorrect, PTL DEF Spec

----------------------------------------------------------------------------
(* What a component has set up in a VM, and the commands that end it *)

Present(i, e, n, v) ==
  IF e = "kill" THEN \E p \in proc : p.vm = v /\ p.name = n /\ p.by = i
                ELSE <<v, n, i>> \in down
Setting(c, i, e, n) == c.by = i /\ Sets(c.rq, e, n)

\* Component i has set n up in the VM v, or will have.
Active(i, e, n, v) ==
  Present(i, e, n, v) \/ \E k \in DOMAIN queue[v] : Setting(queue[v][k], i, e, n)

\* If so, a command to end it waits behind all that set it up.
Doomed(i, e, n, v) ==
  Active(i, e, n, v) =>
    \E k \in DOMAIN queue[v] :
      /\ Undoes(queue[v][k].rq, e, n)
      /\ \A m \in DOMAIN queue[v] : m > k => ~Setting(queue[v][m], i, e, n)

LEMMA IssueActive ==
  ASSUME TypeOK, Issue, NEW v \in VM, NEW i, NEW e \in Enders, NEW n
  PROVE  /\ ~(i = who /\ Sets(r, e, n)) =>
              (~Active(i, e, n, v) => ~Active(i, e, n, v)') /\ (Doomed(i, e, n, v) => Doomed(i, e, n, v)')
         /\ Undoes(r, e, n) /\ (Active(i, e, n, v) => v \in filter) => Doomed(i, e, n, v)'
<1>. DEFINE cmd == [rq |-> r, by |-> who, run |-> run]
            Q == queue[v]
            N == Len(queue[v]) + 1
<1>1. UNCHANGED <<proc, down>>
  BY DEF Issue
<1>2. Present(i, e, n, v)' = Present(i, e, n, v)
  BY <1>1 DEF Present
<1>3. CASE v \notin filter
  <2>1. queue'[v] = queue[v]
    BY <1>3, IssueQueue
  <2>2. Active(i, e, n, v)' = Active(i, e, n, v) /\ Doomed(i, e, n, v)' = Doomed(i, e, n, v)
    BY <1>2, <2>1 DEF Active, Doomed
  <2>3. ~Active(i, e, n, v) => Doomed(i, e, n, v)
    BY DEF Doomed
  <2>. QED  BY <1>3, <2>2, <2>3
<1>4. CASE v \in filter
  <2>1. /\ DOMAIN queue'[v] = DOMAIN Q \cup {N}
        /\ \A k \in DOMAIN Q : queue'[v][k] = Q[k] /\ k < N
        /\ queue'[v][N] = cmd
    BY <1>4, IssueQueue
  <2>2. N \in Nat /\ \A k \in DOMAIN Q : k \in Nat
    BY QueueFacts
  <2>3. /\ Setting(cmd, i, e, n) <=> i = who /\ Sets(r, e, n)
        /\ Undoes(cmd.rq, e, n) <=> Undoes(r, e, n)
    BY DEF Setting
  <2>4. Undoes(r, e, n) => ~Sets(r, e, n)
    BY DEF Undoes, Sets, Enders
  <2>. HIDE DEF cmd, Q, N
  <2>5. ~(i = who /\ Sets(r, e, n)) /\ ~Active(i, e, n, v) => ~Active(i, e, n, v)'
    BY <1>2, <2>1, <2>3 DEF Active, Q
  <2>6. ~(i = who /\ Sets(r, e, n)) /\ Doomed(i, e, n, v) => Doomed(i, e, n, v)'
    <3>. SUFFICES ASSUME ~(i = who /\ Sets(r, e, n)), Doomed(i, e, n, v), Active(i, e, n, v)'
                  PROVE  \E k \in DOMAIN queue'[v] :
                           /\ Undoes(queue'[v][k].rq, e, n)
                           /\ \A m \in DOMAIN queue'[v] : m > k => ~Setting(queue'[v][m], i, e, n)
      BY DEF Doomed
    <3>1. PICK k \in DOMAIN Q :
            /\ Undoes(Q[k].rq, e, n)
            /\ \A m \in DOMAIN Q : m > k => ~Setting(Q[m], i, e, n)
      BY <2>5 DEF Doomed, Q
    <3>. QED  BY <2>1, <2>3, <3>1
  <2>7. Undoes(r, e, n) => Doomed(i, e, n, v)'
    <3>. SUFFICES ASSUME Undoes(r, e, n)
                  PROVE  \E k \in DOMAIN queue'[v] :
                           /\ Undoes(queue'[v][k].rq, e, n)
                           /\ \A m \in DOMAIN queue'[v] : ~(m > k)
      BY DEF Doomed
    <3>1. \A m \in DOMAIN queue'[v] : ~(m > N)
      BY <2>1, <2>2
    <3>. QED  BY <2>1, <2>3, <3>1
  <2>. QED  BY <2>5, <2>6, <2>7
<1>. QED  BY <1>3, <1>4

LEMMA ForgetActive ==
  ASSUME Forget, NEW v \in VM, NEW i, NEW e, NEW n
  PROVE  /\ ~Active(i, e, n, v) => ~Active(i, e, n, v)'
         /\ queue[v] = <<>> => (Doomed(i, e, n, v) => Doomed(i, e, n, v)')
<1>1. UNCHANGED <<proc, down>> /\ queue'[v] = <<>>
  BY DEF Forget
<1>2. Present(i, e, n, v)' = Present(i, e, n, v)
  BY <1>1 DEF Present
<1>3. ~Active(i, e, n, v) => ~Active(i, e, n, v)'
  BY <1>1, <1>2 DEF Active
<1>4. queue[v] = <<>> => Doomed(i, e, n, v)' = Doomed(i, e, n, v)
  <2>. SUFFICES ASSUME queue[v] = <<>> PROVE Doomed(i, e, n, v)' = Doomed(i, e, n, v)
    OBVIOUS
  <2>1. queue'[v] = queue[v]
    BY <1>1
  <2>. QED  BY <1>2, <2>1 DEF Doomed, Active
<1>. QED  BY <1>3, <1>4

\* What the agent of u ends and sets up.
LEMMA ExecutePresent ==
  ASSUME TypeOK, NEW u \in VM, Execute(u), NEW v \in VM, NEW i, NEW e \in Enders, NEW n,
         Present(i, e, n, v)'
  PROVE  LET c == queue[u][1]
         IN  \/ Present(i, e, n, v) /\ (v = u => ~Undoes(c.rq, e, n))
             \/ v = u /\ Setting(c, i, e, n)
<1>. DEFINE c == queue[u][1]
            links == {u} \X c.rq.names \X {c.by}
<1>1. \/ /\ proc' = (proc \ Killed(u, c)) \cup Begun(u, c)
         /\ down' = IF c.rq.act = "down" THEN down \cup links
                    ELSE {d \in down : c.rq.act = "up" => d[1] # u \/ d[2] \notin c.rq.names}
      \/ Starts(c) /\ UNCHANGED <<proc, down>>
  BY DEF Execute
<1>2. Starts(c) => ~Undoes(c.rq, e, n)
  BY DEF Starts, Undoes, Enders
<1>. HIDE DEF c
<1>3. CASE Starts(c) /\ UNCHANGED <<proc, down>>
  BY <1>2, <1>3 DEF Present, c
<1>4. CASE e = "kill" /\ proc' = (proc \ Killed(u, c)) \cup Begun(u, c)
  <2>1. PICK p \in proc' : p.vm = v /\ p.name = n /\ p.by = i
    BY <1>4 DEF Present
  <2>2. CASE p \in proc \ Killed(u, c)
    <3>1. v = u => ~Undoes(c.rq, e, n)
      BY <1>4, <2>1, <2>2 DEF Killed, Undoes
    <3>. QED  BY <1>4, <2>1, <2>2, <3>1 DEF Present, c
  <2>3. CASE p \in Begun(u, c)
    <3>1. p.vm = u /\ p.by = c.by /\ p.name \in c.rq.names /\ Starts(c)
      BY <2>3 DEF Begun
    <3>. QED  BY <1>4, <2>1, <3>1 DEF Setting, Sets, Starts, c
  <2>. QED  BY <1>4, <2>1, <2>2, <2>3
<1>5. CASE /\ e = "up"
           /\ down' = IF c.rq.act = "down" THEN down \cup links
                      ELSE {d \in down : c.rq.act = "up" => d[1] # u \/ d[2] \notin c.rq.names}
  <2>1. <<v, n, i>> \in down'
    BY <1>5 DEF Present
  <2>2. CASE c.rq.act = "down"
    <3>1. <<v, n, i>> \in down \/ <<v, n, i>> \in links
      BY <1>5, <2>1, <2>2
    <3>. QED  BY <1>5, <2>2, <3>1 DEF Present, Setting, Sets, Undoes, c
  <2>3. CASE c.rq.act # "down"
    <3>1. <<v, n, i>> \in down /\ (c.rq.act = "up" => v # u \/ n \notin c.rq.names)
      BY <1>5, <2>1, <2>3
    <3>. QED  BY <1>5, <3>1 DEF Present, Undoes, c
  <2>. QED  BY <2>2, <2>3
<1>. QED  BY <1>1, <1>3, <1>4, <1>5 DEF Enders

LEMMA ExecuteActive ==
  ASSUME TypeOK, NEW u \in VM, Execute(u), NEW v \in VM, NEW i, NEW e \in Enders, NEW n
  PROVE  /\ ~Active(i, e, n, v) => ~Active(i, e, n, v)'
         /\ Doomed(i, e, n, v) => Doomed(i, e, n, v)'
<1>. DEFINE c == queue[u][1]
<1>1. Present(i, e, n, v)' =>
        \/ Present(i, e, n, v) /\ (v = u => ~Undoes(c.rq, e, n))
        \/ v = u /\ Setting(c, i, e, n)
  BY ExecutePresent
<1>2. CASE v # u
  <2>1. queue'[v] = queue[v]
    BY <1>2, ExecuteQueue
  <2>2. ~Active(i, e, n, v) => ~Active(i, e, n, v)'
    BY <1>1, <1>2, <2>1 DEF Active
  <2>. QED  BY <2>1, <2>2 DEF Doomed
<1>3. CASE v = u
  <2>1. /\ 1 \in DOMAIN queue[v]
        /\ \A k \in DOMAIN queue'[v] :
             k + 1 \in DOMAIN queue[v] /\ queue'[v][k] = queue[v][k + 1] /\ k + 1 > 1
        /\ \A k \in DOMAIN queue[v] : k # 1 =>
             k - 1 \in DOMAIN queue'[v] /\ queue'[v][k - 1] = queue[v][k]
        /\ \A k \in DOMAIN queue[v] : \A m \in DOMAIN queue'[v] : m > k - 1 => m + 1 > k
    BY <1>3, ExecuteQueue
  <2>2. c = queue[v][1]
    BY <1>3
  <2>. HIDE DEF c
  <2>3. ~Active(i, e, n, v) => ~Active(i, e, n, v)'
    BY <1>1, <2>1, <2>2 DEF Active
  <2>4. Doomed(i, e, n, v) => Doomed(i, e, n, v)'
    <3>. SUFFICES ASSUME Doomed(i, e, n, v), Active(i, e, n, v)'
                  PROVE  \E k \in DOMAIN queue'[v] :
                           /\ Undoes(queue'[v][k].rq, e, n)
                           /\ \A m \in DOMAIN queue'[v] : m > k => ~Setting(queue'[v][m], i, e, n)
      BY DEF Doomed
    <3>1. PICK k \in DOMAIN queue[v] :
            /\ Undoes(queue[v][k].rq, e, n)
            /\ \A m \in DOMAIN queue[v] : m > k => ~Setting(queue[v][m], i, e, n)
      BY <2>3 DEF Doomed
    <3>2. CASE k = 1
      <4>1. \A m \in DOMAIN queue'[v] : ~Setting(queue'[v][m], i, e, n)
        BY <2>1, <3>1, <3>2
      <4>2. Undoes(c.rq, e, n) /\ ~Setting(c, i, e, n)
        BY <2>2, <3>1, <3>2 DEF Undoes, Setting, Sets, Enders
      <4>3. ~Present(i, e, n, v)'
        BY <1>1, <1>3, <4>2
      <4>. QED  BY <4>1, <4>3 DEF Active
    <3>3. CASE k # 1
      BY <2>1, <3>1, <3>3
    <3>. QED  BY <3>2, <3>3
  <2>. QED  BY <2>3, <2>4
<1>. QED  BY <1>2, <1>3

\* Which actions change what the agents have and do.
LEMMA AgentEffects ==
  ASSUME [Next]_vars
  PROVE  \/ UNCHANGED <<queue, proc, down>>
         \/ Issue
         \/ Forget
         \/ \E v \in VM : Execute(v)
         \/ UNCHANGED <<queue, down>> /\ proc' \subseteq proc
<1>. USE DEF agents
<1>1. CASE Launch \/ Finish \/ SetFilter \/ SetTag \/ AwaitAnswer \/ OverlookAnswer
  BY <1>1 DEF Launch, Finish, SetFilter, SetTag, AwaitAnswer, OverlookAnswer
<1>2. CASE Issue \/ Forget \/ Branch \/ Happen \/ Repeat \/ Attempted
  BY <1>2 DEF Issue, Forget, Branch, Happen, Repeat, Attempted
<1>3. CASE TimeOut \/ Sleeping \/ Missing
  BY <1>3 DEF TimeOut, Sleeping, Missing, Late, InTime
<1>4. CASE GiveUp \/ Pass \/ Note \/ Fetch \/ WriteFile \/ GatherFile
  BY <1>4 DEF GiveUp, Pass, Note, Fetch, WriteFile, GatherFile
<1>5. CASE SwitchOn \/ SwitchOff
  BY <1>5 DEF SwitchOn, SwitchOff
<1>6. CASE (\E v \in VM : Execute(v)) \/ (\E p \in proc : ProcEnds(p)) \/ UNCHANGED vars
  BY <1>6 DEF ProcEnds, vars
<1>. QED  BY <1>1, <1>2, <1>3, <1>4, <1>5, <1>6 DEF Next

\* What becomes of it in any step.
LEMMA ActiveStep ==
  ASSUME TypeOK, [Next]_vars, NEW v \in VM, NEW i, NEW e \in Enders, NEW n
  PROVE  /\ ~Active(i, e, n, v) /\ ~(Issue /\ i = who /\ Sets(r, e, n)) => ~Active(i, e, n, v)'
         /\ /\ Doomed(i, e, n, v) /\ ~(Issue /\ i = who /\ Sets(r, e, n))
            /\ ~(Forget /\ queue[v] # <<>>)
            => Doomed(i, e, n, v)'
<1>1. CASE UNCHANGED <<queue, down>> /\ proc' \subseteq proc
  <2>1. Present(i, e, n, v)' => Present(i, e, n, v)
    BY <1>1 DEF Present
  <2>2. Active(i, e, n, v)' => Active(i, e, n, v)
    BY <1>1, <2>1 DEF Active
  <2>. QED  BY <1>1, <2>2 DEF Doomed
<1>2. CASE UNCHANGED <<queue, proc, down>>
  BY <1>1, <1>2
<1>3. CASE Issue
  BY <1>3, IssueActive
<1>4. CASE Forget
  BY <1>4, ForgetActive
<1>5. ASSUME NEW u \in VM, Execute(u)
      PROVE  /\ ~Active(i, e, n, v) => ~Active(i, e, n, v)'
             /\ Doomed(i, e, n, v) => Doomed(i, e, n, v)'
  BY <1>5, ExecuteActive
<1>. QED  BY <1>1, <1>2, <1>3, <1>4, <1>5, AgentEffects

\* With no command that waits, what is doomed has ended.
LEMMA EmptyQueue ==
  ASSUME TypeOK, NEW v \in VM, queue[v] = <<>>
  PROVE  /\ DOMAIN queue[v] = {}
         /\ \A i, e, n : Doomed(i, e, n, v) => ~Active(i, e, n, v)
<1>1. Len(queue[v]) = 0
  BY EmptySeq
<1>2. \A k : k \notin DOMAIN queue[v]
  BY <1>1, QueueFacts
<1>. QED  BY <1>2 DEF Doomed

----------------------------------------------------------------------------
(* Which VMs the filter selects *)

\* The filter in force is the one the program has set.
Filtering ==
  run <= MaxRun =>
    \A a \in DOMAIN Prog :
      Filters(Prog, a, pc) =>
        filter \subseteq Prog[a].vms /\ (Prog[a].names = {} => filter = Prog[a].vms)

\* A filter in force has been so before, or has just been set.
LEMMA InForce ==
  ASSUME TypeOK, [Next]_vars, run' <= MaxRun, NEW a \in DOMAIN Prog', Filters(Prog', a, pc')
  PROVE  /\ UNCHANGED <<scen, run, stage, who>> /\ Prog' = Prog /\ run <= MaxRun
         /\ \/ Filters(Prog, a, pc) /\ UNCHANGED filter
            \/ pc = a /\ r = Prog[a] /\ r.op = "filter" /\ SetFilter
<1>1. Through(Prog', a, pc')
  BY DEF Filters, Through
<1>2. a \in Nat \ {0} /\ pc' \in Nat /\ DOMAIN Prog' = 1..Len(Prog') /\ Len(Prog') \in Nat
  <2>1. pc' \in Nat
    BY TypeStep DEF TypeOK
  <2>. QED  BY <2>1, NextProgram
<1>3. pc' > a
  BY <1>2 DEF Filters
<1>4. /\ UNCHANGED <<scen, run, stage, who>> /\ Prog' = Prog /\ run <= MaxRun
      /\ pc <= pc' /\ (UNCHANGED at \/ (Running /\ pc < pc'))
      /\ pc > a \/ (pc = a /\ Running)
  BY <1>1, <1>2, <1>3, Onward
<1>5. pc \in Nat
  BY DEF TypeOK
<1>6. CASE pc > a
  <2>1. \A k \in DOMAIN Prog : k \in Nat /\ Prog[k].skip \in Nat
    <3>1. /\ run \in 1..MaxRun /\ stage \in Stage /\ who \in DOMAIN Kind[scen] /\ scen \in Scenario
      BY <1>4, TurnProgram DEF TypeOK
    <3>2. Prog \in Seq(Request)
      BY <3>1, RunAssumption DEF RunAssumption, Prog
    <3>3. \A k \in DOMAIN Prog : Prog[k] \in Request
      BY <1>2, <1>4, <3>2, ElementOfSeq
    <3>. QED  BY <1>2, <1>4, <3>3 DEF Request
  <2>2. Filters(Prog, a, pc)
    <3>1. a < pc /\ Prog[a].op = "filter"
      BY <1>2, <1>4, <1>5, <1>6 DEF Filters
    <3>2. \A k \in DOMAIN Prog : k < pc => k < pc'
      BY <1>2, <1>4, <1>5, <2>1
    <3>3. \A k \in DOMAIN Prog : pc' <= k + Prog[k].skip => pc <= k + Prog[k].skip
      BY <1>2, <1>4, <1>5, <2>1
    <3>. QED  BY <1>4, <3>1, <3>2, <3>3 DEF Filters
  <2>3. ~SetFilter
    <3>. SUFFICES ASSUME SetFilter PROVE FALSE
      OBVIOUS
    <3>1. Running /\ r.op = "filter" /\ pc' = pc + 1
      BY DEF SetFilter, Is, Continue, Step
    <3>2. pc \in DOMAIN Prog /\ pc < pc' /\ a < pc
      BY <1>2, <1>4, <1>5, <1>6, <3>1 DEF Running
    <3>. QED  BY <1>4, <3>1, <3>2 DEF Filters, r
  <2>. QED  BY <1>4, <2>2, <2>3, Effects
<1>7. CASE pc = a /\ Running
  <2>1. r = Prog[a] /\ r.op = "filter"
    BY <1>4, <1>7 DEF r, Filters
  <2>2. ~UNCHANGED at
    BY <1>2, <1>3, <1>7 DEF at
  <2>. QED  BY <1>4, <1>7, <2>1, <2>2, ByOp
<1>. QED  BY <1>4, <1>6, <1>7

LEMMA FilteringStep ==
  ASSUME TypeOK, Filtering, [Next]_vars
  PROVE  Filtering'
<1>. SUFFICES ASSUME run' <= MaxRun, NEW a \in DOMAIN Prog', Filters(Prog', a, pc')
              PROVE  /\ filter' \subseteq Prog'[a].vms
                     /\ Prog'[a].names = {} => filter' = Prog'[a].vms
  BY DEF Filtering, Filters
<1>1. /\ Prog' = Prog /\ run <= MaxRun
      /\ \/ Filters(Prog, a, pc) /\ UNCHANGED filter
         \/ pc = a /\ r = Prog[a] /\ r.op = "filter" /\ SetFilter
  BY InForce
<1>2. CASE Filters(Prog, a, pc) /\ UNCHANGED filter
  BY <1>1, <1>2 DEF Filtering
<1>3. CASE r = Prog[a] /\ SetFilter
  BY <1>1, <1>3 DEF SetFilter
<1>. QED  BY <1>1, <1>2, <1>3

----------------------------------------------------------------------------
(* Where what is set up comes from *)

\* Every command that waits, process and disabled interface is placed there by
\* a request of its component.
Located ==
  /\ \A v \in VM : \A k \in DOMAIN queue[v] :
       queue[v][k].rq \in Placed(scen, queue[v][k].by, v)
  /\ \A p \in proc : \E x \in Placed(scen, p.by, p.vm) :
       Sets(x, "kill", p.name) /\ x.files = p.files
  /\ \A d \in down : \E x \in Placed(scen, d[3], d[1]) : Sets(x, "up", d[2])

\* What the program asks for now is meant for the VMs the filter selects.
LEMMA Placing ==
  ASSUME TypeOK, Filtering, Running, NEW v \in filter
  PROVE  r \in Placed(scen, who, v)
<1>1. run <= MaxRun
  BY DEF Running
<1>2. run \in 1..MaxRun /\ stage \in Stage /\ pc \in DOMAIN Prog
  BY <1>1, TurnProgram DEF Running
<1>3. \A a \in DOMAIN Prog : Filters(Prog, a, pc) => v \in Prog[a].vms
  BY <1>1 DEF Filtering
<1>. QED  BY <1>2, <1>3 DEF Placed, Prog, r

LEMMA LocatedStep ==
  ASSUME TypeOK, Filtering, Located, [Next]_vars
  PROVE  Located'
<1>. DEFINE LQ == \A v \in VM : \A k \in DOMAIN queue[v] :
                    queue[v][k].rq \in Placed(scen, queue[v][k].by, v)
            LP == \A p \in proc : \E x \in Placed(scen, p.by, p.vm) :
                    Sets(x, "kill", p.name) /\ x.files = p.files
            LD == \A d \in down : \E x \in Placed(scen, d[3], d[1]) : Sets(x, "up", d[2])
<1>0. scen' = scen
  BY Forward
<1>1. LQ /\ LP /\ LD
  BY DEF Located
<1>2. CASE UNCHANGED <<queue, proc, down>> \/ (UNCHANGED <<queue, down>> /\ proc' \subseteq proc)
  BY <1>0, <1>1, <1>2 DEF Located
<1>3. CASE Forget
  <2>1. \A v \in VM : \A k : k \notin DOMAIN queue'[v]
    <3>. SUFFICES ASSUME NEW v \in VM, NEW k \in DOMAIN queue'[v] PROVE FALSE
      OBVIOUS
    <3>1. queue'[v] = <<>>
      BY <1>3 DEF Forget
    <3>. QED  BY <3>1
  <2>2. UNCHANGED <<proc, down>>
    BY <1>3 DEF Forget
  <2>. QED  BY <1>0, <1>1, <2>1, <2>2 DEF Located
<1>4. CASE Issue
  <2>1. Running /\ UNCHANGED <<proc, down>>
    BY <1>4 DEF Issue, Is
  <2>2. ASSUME NEW v \in VM, NEW k \in DOMAIN queue'[v]
        PROVE  queue'[v][k].rq \in Placed(scen, queue'[v][k].by, v)
    <3>1. CASE v \notin filter
      <4>1. queue'[v] = queue[v]
        BY <1>4, <3>1, IssueQueue
      <4>. QED  BY <1>1, <2>2, <4>1
    <3>2. CASE v \in filter
      <4>. DEFINE cmd == [rq |-> r, by |-> who, run |-> run]
      <4>1. \/ k \in DOMAIN queue[v] /\ queue'[v][k] = queue[v][k]
            \/ queue'[v][k] = cmd
        BY <1>4, <2>2, <3>2, IssueQueue
      <4>2. cmd.rq \in Placed(scen, cmd.by, v)
        BY <2>1, <3>2, Placing
      <4>. HIDE DEF cmd
      <4>. QED  BY <1>1, <4>1, <4>2
    <3>. QED  BY <3>1, <3>2
  <2>. QED  BY <1>0, <1>1, <2>1, <2>2 DEF Located
<1>5. ASSUME NEW u \in VM, Execute(u) PROVE Located'
  <2>. DEFINE c == queue[u][1]
              links == {u} \X c.rq.names \X {c.by}
  <2>1. 1 \in DOMAIN queue[u] /\ c.rq \in Placed(scen, c.by, u)
    BY <1>1, <1>5, ExecuteQueue
  <2>2. \/ /\ proc' = (proc \ Killed(u, c)) \cup Begun(u, c)
           /\ down' = IF c.rq.act = "down" THEN down \cup links
                      ELSE {d \in down : c.rq.act = "up" => d[1] # u \/ d[2] \notin c.rq.names}
        \/ UNCHANGED <<proc, down>>
    BY <1>5 DEF Execute
  <2>3. ASSUME NEW v \in VM, NEW k \in DOMAIN queue'[v]
        PROVE  queue'[v][k].rq \in Placed(scen, queue'[v][k].by, v)
    <3>1. CASE v # u
      <4>1. queue'[v] = queue[v]
        BY <1>5, <3>1, ExecuteQueue
      <4>. QED  BY <1>1, <2>3, <4>1
    <3>2. CASE v = u
      <4>1. k + 1 \in DOMAIN queue[v] /\ queue'[v][k] = queue[v][k + 1]
        BY <1>5, <2>3, <3>2, ExecuteQueue
      <4>. QED  BY <1>1, <4>1
    <3>. QED  BY <3>1, <3>2
  <2>. HIDE DEF c
  <2>4. ASSUME NEW p \in proc'
        PROVE  \E x \in Placed(scen, p.by, p.vm) : Sets(x, "kill", p.name) /\ x.files = p.files
    <3>1. p \in proc \/ p \in Begun(u, c)
      BY <2>2
    <3>2. CASE p \in Begun(u, c)
      <4>1. /\ p.vm = u /\ p.by = c.by /\ p.name \in c.rq.names /\ p.files = c.rq.files
            /\ Starts(c)
        BY <3>2 DEF Begun
      <4>2. Sets(c.rq, "kill", p.name)
        BY <4>1 DEF Sets, Starts
      <4>. QED  BY <2>1, <4>1, <4>2 DEF c
    <3>. QED  BY <1>1, <3>1, <3>2
  <2>5. ASSUME NEW d \in down'
        PROVE  \E x \in Placed(scen, d[3], d[1]) : Sets(x, "up", d[2])
    <3>1. d \in down \/ (c.rq.act = "down" /\ d \in links)
      BY <2>2
    <3>2. CASE c.rq.act = "down" /\ d \in links
      <4>1. d[1] = u /\ d[2] \in c.rq.names /\ d[3] = c.by
        BY <3>2
      <4>. QED  BY <2>1, <3>2, <4>1 DEF Sets, c
    <3>. QED  BY <1>1, <3>1, <3>2
  <2>. QED  BY <1>0, <2>3, <2>4, <2>5 DEF Located
<1>. QED  BY <1>2, <1>3, <1>4, <1>5, AgentEffects

----------------------------------------------------------------------------
(* Tags that a component has set before *)

\* Component i has tagged the VM in stage h of this run.
MarkedIn(i, h, v, T) ==
  \/ stage > h
  \/ stage = h /\ who > i
  \/ stage = h /\ who = i /\ \E b \in DOMAIN Prog : b < pc /\ Tags(Prog, b, v, T)
Marks ==
  run <= MaxRun /\ stage < 4 =>
    \A v \in VM : \A T \in SUBSET STRING : \A i \in Member : \A h \in 1..3 :
      Marked(scen, i, h, v, T) /\ MarkedIn(i, h, v, T) => HasTag(v, T)

\* A tag is only lost when a program removes it.
LEMMA TagsHeld ==
  ASSUME [Next]_vars, NEW v, NEW T, HasTag(v, T),
         Running /\ r.op = "untag" => r.names \cap T = {}
  PROVE  HasTag(v, T)'
<1>1. CASE tags' = tags
  BY <1>1 DEF HasTag
<1>2. CASE SetTag
  <2>1. PICK t \in T : <<v, t>> \in tags
    BY DEF HasTag
  <2>2. <<v, t>> \in tags'
    <3>1. CASE r.op = "tag"
      BY <1>2, <2>1, <3>1 DEF SetTag
    <3>2. CASE r.op = "untag"
      BY <1>2, <2>1, <3>2 DEF SetTag, Is
    <3>. QED  BY <1>2, <3>1, <3>2 DEF SetTag, Is
  <2>. QED  BY <2>2 DEF HasTag
<1>. QED  BY <1>1, <1>2, Effects

LEMMA MarksStep ==
  ASSUME TypeOK, Marks, [Next]_vars
  PROVE  Marks'
<1>. SUFFICES ASSUME NEW v \in VM, NEW T \in SUBSET STRING, NEW i \in Member, NEW h \in 1..3,
                     run' <= MaxRun, stage' < 4,
                     Marked(scen, i, h, v, T), MarkedIn(i, h, v, T)'
              PROVE  HasTag(v, T)'
  <2>1. Member' = Member /\ scen' = scen
    BY Forward, MemberSame
  <2>. QED  BY <2>1 DEF Marks
<1>0. scen' = scen
  BY Forward
<1>1. \/ run <= MaxRun /\ stage < 4 /\ MarkedIn(i, h, v, T)
      \/ Running /\ ~UNCHANGED at /\ r.op = "tag" /\ v \in r.vms /\ r.names \cap T # {}
  <2>1. CASE UNCHANGED <<run, stage, who>> /\ ~(stage > h) /\ ~(stage = h /\ who > i)
    <3>1. PICK b \in DOMAIN Prog' : b < pc' /\ Tags(Prog', b, v, T)
      BY <1>0, <2>1 DEF MarkedIn, Tags
    <3>2. stage = h /\ who = i
      BY <1>0, <2>1 DEF MarkedIn
    <3>3. pc' > b
      <4>1. pc' \in Nat
        BY TypeStep DEF TypeOK
      <4>2. b \in Nat
        BY NextProgram
      <4>. QED  BY <3>1, <4>1, <4>2
    <3>4. Passing(Prog', b)
      BY <3>1 DEF Tags
    <3>5. /\ Prog' = Prog /\ run <= MaxRun /\ pc \in Nat /\ b \in Nat
          /\ pc > b \/ (pc = b /\ Running /\ r = Prog[b] /\ ~UNCHANGED at)
      BY <3>3, <3>4, Crossing
    <3>6. CASE pc > b
      BY <2>1, <3>1, <3>2, <3>5, <3>6 DEF MarkedIn
    <3>7. CASE pc = b /\ Running /\ r = Prog[b] /\ ~UNCHANGED at
      BY <3>1, <3>5, <3>7 DEF Tags
    <3>. QED  BY <3>5, <3>6, <3>7
  <2>2. CASE UNCHANGED <<run, stage, who>> /\ (stage > h \/ (stage = h /\ who > i))
    BY <2>2 DEF MarkedIn
  <2>3. CASE ~UNCHANGED <<run, stage, who>>
    <3>1. ~(pc' > 0)
      BY <2>3, Moved DEF at, Launch, Finish, Continue, Step, Leave, Moves, Exit
    <3>2. stage' > h \/ (stage' = h /\ who' > i)
      <4>1. ASSUME NEW j \in DOMAIN Prog', j < pc' PROVE FALSE
        <5>1. j \in Nat \ {0}
          BY NextProgram
        <5>2. pc' \in Nat
          BY TypeStep DEF TypeOK
        <5>. QED  BY <3>1, <4>1, <5>1, <5>2
      <4>. QED  BY <4>1 DEF MarkedIn
    <3>3. \/ Finish
          \/ Running /\ pc' = 0 /\ ~Sure(r) /\ Leave
          \/ Running /\ Exit
      BY <2>3, Moved DEF at, Launch, Continue, Step, Moves, Leave
    <3>4. run <= MaxRun /\ (Leave \/ Exit)
      BY <3>3 DEF Finish, Running
    <3>5. /\ run' = run /\ stage < 4
          /\ stage > h \/ (stage = h /\ who > i) \/ (stage = h /\ who = i)
      BY <3>2, <3>4, LeftTurn
    <3>6. CASE stage = h /\ who = i
      <4>1. run \in 1..MaxRun /\ DOMAIN Prog = 1..Len(Prog) /\ Len(Prog) \in Nat /\ pc \in Nat
        BY <3>4, TurnProgram
      <4>2. PICK b \in DOMAIN Prog : Tags(Prog, b, v, T)
        BY <3>6, <4>1 DEF Marked, Prog
      <4>3. \A k \in 1..b : Sure(Prog[k])
        BY <4>2 DEF Tags
      <4>4. b < pc
        <5>1. CASE Finish
          BY <4>1, <5>1 DEF Finish
        <5>2. CASE Running /\ ~Sure(r)
          <6>1. pc \notin 1..b
            BY <4>3, <5>2 DEF r
          <6>2. pc >= 1
            BY <5>2 DEF Running
          <6>. QED  BY <4>1, <6>1, <6>2
        <5>. QED  BY <3>3, <3>5, <5>1, <5>2 DEF Exit
      <4>. QED  BY <3>4, <3>5, <3>6, <4>2, <4>4 DEF MarkedIn
    <3>. QED  BY <3>4, <3>5, <3>6 DEF MarkedIn
  <2>. QED  BY <2>1, <2>2, <2>3
<1>2. CASE run <= MaxRun /\ stage < 4 /\ MarkedIn(i, h, v, T)
  <2>1. HasTag(v, T)
    BY <1>2 DEF Marks
  <2>2. Running /\ r.op = "untag" => r.names \cap T = {}
    <3>. SUFFICES ASSUME Running, r.op = "untag" PROVE r.names \cap T = {}
      OBVIOUS
    <3>1. /\ run \in 1..MaxRun /\ stage \in 1..4 /\ who \in DOMAIN Kind[scen]
          /\ pc \in DOMAIN Prog
      BY <1>2, TurnProgram DEF Running, Stage
    <3>2. stage \in 1..3
      BY <1>2, <3>1
    <3>. QED  BY <3>1, <3>2 DEF Marked, Prog, r
  <2>. QED  BY <2>1, <2>2, TagsHeld
<1>3. CASE Running /\ ~UNCHANGED at /\ r.op = "tag" /\ v \in r.vms /\ r.names \cap T # {}
  <2>1. SetTag
    BY <1>3, ByOp
  <2>. QED  BY <1>3, <2>1 DEF SetTag, HasTag
<1>. QED  BY <1>1, <1>2, <1>3

\* The filter of a program selects the VM.
Picks ==
  run <= MaxRun => \A v \in VM : Picked(scen, who, stage, Prog, pc, v) => v \in filter

LEMMA PicksStep ==
  ASSUME TypeOK, Marks, Picks, [Next]_vars
  PROVE  Picks'
<1>. SUFFICES ASSUME run' <= MaxRun, NEW v \in VM,
                     Picked(scen, who', stage', Prog', pc', v)
              PROVE  v \in filter'
  BY Forward DEF Picks
<1>1. PICK a \in DOMAIN Prog' :
        /\ Filters(Prog', a, pc') /\ v \in Prog'[a].vms
        /\ \/ Prog'[a].names = {}
           \/ stage' < 4 /\ \E h \in 1..(stage' - 1) : Marked(scen, who', h, v, Prog'[a].names)
  BY DEF Picked
<1>2. /\ UNCHANGED <<scen, run, stage, who>> /\ Prog' = Prog /\ run <= MaxRun
      /\ \/ Filters(Prog, a, pc) /\ UNCHANGED filter
         \/ pc = a /\ r = Prog[a] /\ r.op = "filter" /\ SetFilter
  BY <1>1, InForce
<1>3. CASE Filters(Prog, a, pc) /\ UNCHANGED filter
  <2>1. Picked(scen, who, stage, Prog, pc, v)
    BY <1>1, <1>2, <1>3 DEF Picked
  <2>. QED  BY <1>2, <1>3, <2>1 DEF Picks
<1>4. CASE r = Prog[a] /\ SetFilter
  <2>1. v \in r.vms
    BY <1>1, <1>2, <1>4
  <2>2. CASE r.names = {}
    BY <1>4, <2>1, <2>2 DEF SetFilter
  <2>3. CASE r.names # {}
    <3>1. PICK h \in 1..(stage - 1) : stage < 4 /\ Marked(scen, who, h, v, r.names)
      BY <1>1, <1>2, <1>4, <2>3
    <3>2. h \in 1..3 /\ stage > h /\ who \in Member
      BY <3>1 DEF TypeOK, Stage
    <3>3. r.names \in SUBSET STRING
      BY <1>4, RequestType DEF SetFilter, Is, Request
    <3>4. HasTag(v, r.names)
      BY <1>2, <3>1, <3>2, <3>3 DEF Marks, MarkedIn
    <3>. QED  BY <1>4, <2>1, <3>4 DEF SetFilter, HasTag
  <2>. QED  BY <2>2, <2>3
<1>. QED  BY <1>2, <1>3, <1>4

----------------------------------------------------------------------------
(* What a program has ended *)

\* What it ends with a command is doomed.
Dooms ==
  run <= MaxRun /\ stage > 1 =>
    \A v \in VM : \A e \in Enders : \A n : \A j \in DOMAIN Prog :
      pc > j /\ Ending(scen, who, stage, Prog, j, e, n, v) => Doomed(who, e, n, v)

LEMMA DoomsStep ==
  ASSUME TypeOK, Slept, Picks, Dooms, Renewing(scen), [Next]_vars
  PROVE  Dooms'
<1>. SUFFICES ASSUME run' <= MaxRun, stage' > 1, NEW v \in VM, NEW e \in Enders, NEW n,
                     NEW j \in DOMAIN Prog', pc' > j, NEW i, i = who',
                     Ending(scen, i, stage', Prog', j, e, n, v)
              PROVE  Doomed(i, e, n, v)'
  <2>1. scen' = scen
    BY Forward
  <2>. QED  BY <2>1 DEF Dooms, Doomed, Active, Setting, Present
<1>0. Passing(Prog', j)
  BY DEF Ending
<1>1. /\ UNCHANGED <<scen, run, stage, who>> /\ Prog' = Prog /\ run <= MaxRun
      /\ pc \in Nat /\ j \in Nat
      /\ UNCHANGED at \/ (Running /\ pc \in DOMAIN Prog /\ r = Prog[pc] /\ pc < pc')
      /\ pc > j \/ (pc = j /\ Running /\ r = Prog[j] /\ ~UNCHANGED at)
  BY <1>0, Crossing
<1>2. i = who
  BY <1>1
<1>3. CASE pc > j
  <2>1. Doomed(who, e, n, v)
    BY <1>1, <1>3 DEF Dooms
  <2>2. ~(Issue /\ Sets(r, e, n))
    <3>. SUFFICES ASSUME Issue PROVE ~Sets(r, e, n)
      OBVIOUS
    <3>1. ~UNCHANGED at
      BY <1>1 DEF Issue, Continue, Step, at
    <3>. QED  BY <1>1, <1>3, <3>1 DEF Ending
  <2>3. ~Forget
    BY <1>1, Forgetting
  <2>. QED  BY <1>2, <2>1, <2>2, <2>3, ActiveStep
<1>4. CASE pc = j /\ Running /\ r = Prog[j] /\ ~UNCHANGED at
  <2>1. Undoes(r, e, n) /\ r.op = "exec" /\ Picked(scen, who, stage, Prog, pc, v)
    BY <1>1, <1>4 DEF Ending
  <2>2. Issue
    BY <1>4, <2>1, ByOp
  <2>3. v \in filter
    BY <1>1, <2>1 DEF Picks
  <2>. QED  BY <1>2, <2>1, <2>2, <2>3, IssueActive
<1>. QED  BY <1>1, <1>3, <1>4

\* A wait that does not time out ends when the agents have done all.
LEMMA Answered ==
  ASSUME TypeOK, [Next]_vars, Running, ~UNCHANGED at, r.op \in {"await", "prefix"},
         ~r.caught, NEW v \in VM, v \in r.vms, pc' # 0
  PROVE  queue[v] = <<>> /\ UNCHANGED agents
<1>1. AwaitAnswer \/ OverlookAnswer \/ TimeOut
  BY ByOp
<1>2. ~TimeOut
  BY DEF TimeOut, Raise, Leave
<1>. QED  BY <1>1, <1>2 DEF AwaitAnswer, OverlookAnswer, Idle

\* After it has waited, it has ended.
Spent ==
  run <= MaxRun /\ stage > 1 =>
    \A v \in VM : \A n : \A j \in DOMAIN Prog : \A w \in DOMAIN Prog :
      /\ Ending(scen, who, stage, Prog, j, "kill", n, v)
      /\ j < w /\ w < pc /\ Awaits(Prog, w, v) /\ Unhalted(scen, v)
      => run \in late \/ ~Active(who, "kill", n, v)

LEMMA SpentStep ==
  ASSUME TypeOK, Up, Dooms, Spent, [Next]_vars
  PROVE  Spent'
<1>. SUFFICES ASSUME run' <= MaxRun, stage' > 1, NEW v \in VM, NEW n,
                     NEW j \in DOMAIN Prog', NEW w \in DOMAIN Prog',
                     NEW i, i = who', Ending(scen, i, stage', Prog', j, "kill", n, v),
                     j < w, w < pc', Awaits(Prog', w, v), Unhalted(scen, v)
              PROVE  run' \in late' \/ ~Active(i, "kill", n, v)'
  <2>1. scen' = scen
    BY Forward
  <2>. QED  BY <2>1 DEF Spent, Active, Setting, Present
<1>0. Passing(Prog', w) /\ pc' > w
  <2>1. pc' \in Nat
    BY TypeStep DEF TypeOK
  <2>2. w \in Nat
    BY NextProgram
  <2>. QED  BY <2>1, <2>2 DEF Awaits
<1>1. /\ UNCHANGED <<scen, run, stage, who>> /\ Prog' = Prog /\ run <= MaxRun
      /\ pc \in Nat /\ w \in Nat
      /\ UNCHANGED at \/ (Running /\ pc \in DOMAIN Prog /\ r = Prog[pc] /\ pc < pc')
      /\ pc > w \/ (pc = w /\ Running /\ r = Prog[w] /\ ~UNCHANGED at)
  BY <1>0, Crossing
<1>2. j \in Nat /\ pc > j
  <2>1. j \in Nat
    BY <1>1, TurnProgram
  <2>. QED  BY <1>1, <2>1
<1>3. i = who
  BY <1>1
<1>4. late \subseteq late'
  BY Effects
<1>5. ~Active(i, "kill", n, v) => ~Active(i, "kill", n, v)'
  <2>1. ~(Issue /\ Sets(r, "kill", n))
    <3>. SUFFICES ASSUME Issue PROVE ~Sets(r, "kill", n)
      OBVIOUS
    <3>1. ~UNCHANGED at
      BY <1>1 DEF Issue, Continue, Step, at
    <3>2. j < pc
      BY <1>1, <1>2
    <3>. QED  BY <1>1, <3>1, <3>2 DEF Ending
  <2>. QED  BY <1>3, <2>1, ActiveStep DEF Enders
<1>6. CASE pc > w
  <2>1. w < pc
    BY <1>1, <1>6
  <2>2. run \in late \/ ~Active(who, "kill", n, v)
    BY <1>1, <2>1 DEF Spent
  <2>. QED  BY <1>1, <1>3, <1>4, <1>5, <2>2
<1>7. CASE pc = w /\ Running /\ r = Prog[w] /\ ~UNCHANGED at
  <2>1. Doomed(who, "kill", n, v)
    BY <1>1, <1>2 DEF Dooms, Enders
  <2>2. run \in late' \/ queue[v] = <<>>
    <3>1. CASE r.op \in {"await", "prefix"} /\ v \in r.vms /\ ~r.caught
      <4>1. pc' # 0
        BY <1>0, <1>1
      <4>. QED  BY <1>7, <3>1, <4>1, Answered
    <3>2. CASE r.op = "sleep" /\ r.n > 0
      <4>1. Sleeping
        BY <1>7, <3>2, ByOp
      <4>. QED  BY <3>2, <4>1, Waited
    <3>. QED  BY <1>1, <1>7, <3>1, <3>2 DEF Awaits
  <2>3. queue[v] = <<>> => ~Active(who, "kill", n, v)
    BY <2>1, EmptyQueue
  <2>. QED  BY <1>1, <1>3, <1>5, <2>2, <2>3
<1>. QED  BY <1>1, <1>6, <1>7

\* A program that looks for a process has waited before, kills it if it is there,
\* and waits again.
Checks ==
  run <= MaxRun =>
    \A v \in VM : \A n : \A j \in DOMAIN Prog :
      Checking(Prog, j, n, v) =>
        /\ pc = j => queue[v] = <<>>
        /\ pc = j + 2 => v \in filter
        /\ pc = j + 3 => Doomed(who, "kill", n, v)
        /\ pc > j + 3 => ~Active(who, "kill", n, v)

\* How it gets from one of these requests to the next.
LEMMA ChecksTurn ==
  ASSUME TypeOK, [Next]_vars, run' <= MaxRun, NEW v, NEW n, NEW j \in DOMAIN Prog',
         Checking(Prog', j, n, v), pc' >= j
  PROVE  /\ UNCHANGED <<scen, run, stage, who>> /\ Prog' = Prog /\ run <= MaxRun
         /\ pc \in Nat /\ pc' \in Nat /\ j \in Nat /\ j > 1
         /\ UNCHANGED at \/ (Running /\ pc \in DOMAIN Prog /\ r = Prog[pc] /\ pc < pc' /\ ~UNCHANGED at)
         /\ pc > j \/ pc = j \/ pc = j - 1
         /\ pc' > j => pc >= j
<1>1. j \in Nat /\ j - 1 \in DOMAIN Prog' /\ j - 1 \in Nat \ {0} /\ pc' \in Nat
  <2>1. j - 1 \in DOMAIN Prog'
    BY DEF Checking
  <2>2. pc' \in Nat
    BY TypeStep DEF TypeOK
  <2>. QED  BY <2>1, <2>2, NextProgram
<1>2. pc' > j - 1 /\ Passing(Prog', j - 1) /\ Passing(Prog', j)
  BY <1>1 DEF Checking
<1>3. /\ UNCHANGED <<scen, run, stage, who>> /\ Prog' = Prog /\ run <= MaxRun
      /\ pc \in Nat /\ pc <= pc'
      /\ UNCHANGED at \/ (Running /\ pc \in DOMAIN Prog /\ r = Prog[pc] /\ pc < pc')
      /\ pc > j - 1 \/ pc = j - 1
  BY <1>1, <1>2, Crossing
<1>4. pc' > j => pc >= j
  <2>. SUFFICES ASSUME pc' > j PROVE pc >= j
    OBVIOUS
  <2>1. pc > j \/ pc = j
    BY <1>2, Crossing
  <2>. QED  BY <1>1, <1>3, <2>1
<1>5. pc < pc' => ~UNCHANGED at
  BY <1>1, <1>3 DEF at
<1>. QED  BY <1>1, <1>3, <1>4, <1>5

LEMMA ChecksStep ==
  ASSUME TypeOK, Checks, [Next]_vars
  PROVE  Checks'
<1>. SUFFICES ASSUME run' <= MaxRun, NEW v \in VM, NEW n, NEW j \in DOMAIN Prog',
                     Checking(Prog', j, n, v), NEW i, i = who'
              PROVE  /\ pc' = j => queue'[v] = <<>>
                     /\ pc' = j + 2 => v \in filter'
                     /\ pc' = j + 3 => Doomed(i, "kill", n, v)'
                     /\ pc' > j + 3 => ~Active(i, "kill", n, v)'
  BY DEF Checks, Doomed, Active, Setting, Present
<1>0. j \in Nat /\ pc' \in Nat
  <2>1. pc' \in Nat
    BY TypeStep DEF TypeOK
  <2>. QED  BY <2>1, NextProgram
<1>. SUFFICES ASSUME pc' >= j
              PROVE  /\ pc' = j => queue'[v] = <<>>
                     /\ pc' = j + 2 => v \in filter'
                     /\ pc' = j + 3 => Doomed(i, "kill", n, v)'
                     /\ pc' > j + 3 => ~Active(i, "kill", n, v)'
  BY <1>0
<1>1. /\ Prog' = Prog /\ run <= MaxRun /\ i = who /\ UNCHANGED <<run, stage>>
      /\ pc \in Nat /\ pc' \in Nat /\ j \in Nat /\ j > 1
      /\ UNCHANGED at \/ (Running /\ pc \in DOMAIN Prog /\ r = Prog[pc] /\ pc < pc' /\ ~UNCHANGED at)
      /\ pc > j \/ pc = j \/ pc = j - 1
      /\ pc' > j => pc >= j
  BY ChecksTurn
<1>2. Checking(Prog, j, n, v) /\ j \in DOMAIN Prog
  BY <1>1
<1>3. /\ pc = j => queue[v] = <<>>
      /\ pc = j + 2 => v \in filter
      /\ pc = j + 3 => Doomed(i, "kill", n, v)
      /\ pc > j + 3 => ~Active(i, "kill", n, v)
  BY <1>1, <1>2 DEF Checks
<1>4. ~UNCHANGED at =>
        /\ pc = j - 1 => AwaitsOnly(r, v)
        /\ pc = j => r.op = "if" /\ r.skip = 3 /\ r.vms = {v} /\ r.names = {n}
        /\ pc = j + 1 => r.op = "filter" /\ v \in r.vms /\ r.names = {}
        /\ pc = j + 2 => r.op = "exec" /\ Undoes(r, "kill", n)
        /\ pc = j + 3 => AwaitsOnly(r, v)
        /\ pc > j => ~Sets(r, "kill", n)
  BY <1>1, <1>2 DEF Checking
<1>5. /\ ~UNCHANGED at /\ pc = j => Branch /\ pc' \in {j + 1, j + 4}
      /\ ~UNCHANGED at /\ pc = j + 1 => SetFilter /\ pc' = j + 2
      /\ ~UNCHANGED at /\ pc = j + 2 => Issue /\ pc' = j + 3
      /\ ~UNCHANGED at /\ pc \in {j - 1, j + 3} => queue[v] = <<>> /\ UNCHANGED agents
  <2>1. ASSUME ~UNCHANGED at, pc = j PROVE Branch /\ pc' \in {j + 1, j + 4}
    <3>1. Branch /\ r.skip = 3
      BY <1>1, <1>4, <2>1, ByOp
    <3>. QED  BY <1>1, <2>1, <3>1 DEF Branch, Continue, Step
  <2>2. ASSUME ~UNCHANGED at, pc = j + 1 PROVE SetFilter /\ pc' = j + 2
    <3>1. SetFilter
      BY <1>1, <1>4, <2>2, ByOp
    <3>. QED  BY <1>1, <2>2, <3>1 DEF SetFilter, Continue, Step
  <2>3. ASSUME ~UNCHANGED at, pc = j + 2 PROVE Issue /\ pc' = j + 3
    <3>1. Issue
      BY <1>1, <1>4, <2>3, ByOp
    <3>. QED  BY <1>1, <2>3, <3>1 DEF Issue, Continue, Step
  <2>4. ASSUME ~UNCHANGED at, pc \in {j - 1, j + 3} PROVE queue[v] = <<>> /\ UNCHANGED agents
    <3>1. AwaitsOnly(r, v) /\ pc' # 0
      BY <1>1, <1>4, <2>4
    <3>. QED  BY <1>1, <2>4, <3>1, Answered DEF AwaitsOnly
  <2>. QED  BY <2>1, <2>2, <2>3, <2>4
<1>6. CASE pc' = j
  <2>1. CASE UNCHANGED at
    <3>1. queue[v] = <<>>
      BY <1>3, <1>6, <2>1 DEF at
    <3>2. ~Issue /\ ~Forget
      BY <1>1, <2>1 DEF Issue, Forget, Continue, Step, at
    <3>3. ASSUME NEW u \in VM, Execute(u) PROVE queue'[v] = <<>>
      <4>1. u # v
        BY <3>1, <3>3 DEF Execute
      <4>. QED  BY <3>1, <3>3, <4>1, ExecuteQueue
    <3>4. queue'[v] = <<>>
      BY <3>1, <3>2, <3>3, Effects
    <3>. QED  BY <1>0, <1>6, <3>4
  <2>2. CASE ~UNCHANGED at
    <3>1. pc = j - 1
      BY <1>1, <1>6, <2>2
    <3>2. queue'[v] = <<>>
      BY <1>5, <2>2, <3>1 DEF agents
    <3>. QED  BY <1>0, <1>6, <3>2
  <2>. QED  BY <1>6, <2>1, <2>2
<1>7. CASE pc' = j + 2
  <2>1. CASE UNCHANGED at
    <3>1. ~SetFilter
      BY <1>1, <2>1 DEF SetFilter, Continue, Step, at
    <3>2. v \in filter
      BY <1>3, <1>7, <2>1 DEF at
    <3>. QED  BY <1>0, <1>7, <3>1, <3>2, Effects
  <2>2. CASE ~UNCHANGED at
    <3>1. pc = j + 1
      BY <1>0, <1>1, <1>5, <1>7, <2>2
    <3>2. SetFilter /\ r.op = "filter" /\ v \in r.vms /\ r.names = {}
      BY <1>4, <1>5, <2>2, <3>1
    <3>3. v \in filter'
      BY <3>2 DEF SetFilter
    <3>. QED  BY <1>0, <1>7, <3>3
  <2>. QED  BY <2>1, <2>2
<1>8. CASE pc' = j + 3
  <2>1. CASE UNCHANGED at
    <3>1. ~Issue /\ ~Forget
      BY <1>1, <2>1 DEF Issue, Forget, Continue, Step, at
    <3>2. Doomed(i, "kill", n, v)
      BY <1>3, <1>8, <2>1 DEF at
    <3>3. Doomed(i, "kill", n, v)'
      BY <3>1, <3>2, ActiveStep DEF Enders
    <3>. QED  BY <1>0, <1>8, <3>3
  <2>2. CASE ~UNCHANGED at
    <3>1. pc = j + 2
      BY <1>0, <1>1, <1>5, <1>8, <2>2
    <3>2. Issue /\ Undoes(r, "kill", n) /\ v \in filter
      BY <1>3, <1>4, <1>5, <2>2, <3>1
    <3>3. Doomed(i, "kill", n, v)'
      BY <3>2, IssueActive DEF Enders
    <3>. QED  BY <1>0, <1>8, <3>3
  <2>. QED  BY <2>1, <2>2
<1>9. CASE pc' > j + 3
  <2>0. ~Active(i, "kill", n, v)' =>
          /\ pc' = j => queue'[v] = <<>>
          /\ pc' = j + 2 => v \in filter'
          /\ pc' = j + 3 => Doomed(i, "kill", n, v)'
          /\ pc' > j + 3 => ~Active(i, "kill", n, v)'
    BY <1>0, <1>9
  <2>1. CASE pc > j + 3
    <3>1. ~(Issue /\ Sets(r, "kill", n))
      <4>1. Issue => ~UNCHANGED at
        BY <1>1 DEF Issue, Continue, Step, at
      <4>. QED  BY <1>1, <1>4, <2>1, <4>1
    <3>. QED  BY <1>3, <2>0, <2>1, <3>1, ActiveStep DEF Enders
  <2>2. CASE pc = j + 3
    <3>1. ~UNCHANGED at
      BY <1>1, <1>9, <2>2 DEF at
    <3>2. queue[v] = <<>> /\ UNCHANGED agents /\ Doomed(i, "kill", n, v)
      BY <1>3, <1>5, <2>2, <3>1
    <3>3. ~Active(i, "kill", n, v)
      BY <3>2, EmptyQueue
    <3>4. ~Active(i, "kill", n, v)'
      BY <3>2, <3>3 DEF agents, Active, Present
    <3>. QED  BY <2>0, <3>4
  <2>3. CASE pc = j
    <3>1. ~UNCHANGED at
      BY <1>1, <1>9, <2>3 DEF at
    <3>2. Branch /\ pc' # pc + 1 /\ r.op = "if" /\ r.vms = {v} /\ r.names = {n}
      BY <1>1, <1>4, <1>5, <1>9, <2>3, <3>1
    <3>3. ~RunsProc /\ UNCHANGED agents
      BY <3>2 DEF Branch, Continue, Step
    <3>4. ~Present(i, "kill", n, v)
      BY <3>2, <3>3 DEF RunsProc, Present
    <3>5. DOMAIN queue[v] = {}
      BY <1>3, <2>3, EmptyQueue
    <3>6. ~Active(i, "kill", n, v)
      BY <3>4, <3>5 DEF Active
    <3>7. ~Active(i, "kill", n, v)'
      BY <3>3, <3>6 DEF agents, Active, Present
    <3>. QED  BY <2>0, <3>7
  <2>. QED
    <3>1. pc = j + 1 \/ pc = j + 2 => pc' <= j + 3
      <4>1. UNCHANGED at => pc' = pc
        BY DEF at
      <4>. QED  BY <1>1, <1>5, <4>1
    <3>. QED  BY <1>0, <1>1, <1>9, <2>1, <2>2, <2>3, <3>1
<1>. QED
  <2>1. pc' = j \/ pc' = j + 2 \/ pc' = j + 3 \/ pc' > j + 3
          \/ ~(pc' = j \/ pc' = j + 2 \/ pc' = j + 3 \/ pc' > j + 3)
    OBVIOUS
  <2>. QED  BY <1>6, <1>7, <1>8, <1>9, <2>1

----------------------------------------------------------------------------
(* What a component leaves behind *)

\* What it has switched off, in its last stage, is off.
Offs ==
  /\ run <= MaxRun /\ Kind[scen][who] \in DOMAIN LastStage
  /\ stage = LastStage[Kind[scen][who]]
  => \A j \in DOMAIN Prog : \A what : \A where :
       j < pc /\ SwitchesOff(Prog, j, what, where) => <<what, where, who>> \notin net

\* After its last stage, what it has set up is doomed, and switched off.
Left ==
  \A i \in Member :
    Kind[scen][i] \in DOMAIN LastStage /\ <<run, i, LastStage[Kind[scen][i]]>> \in done =>
      /\ \A v \in VM : \A x \in Placed(scen, i, v) : \A e \in Enders : \A n \in x.names :
           Sets(x, e, n) => Doomed(i, e, n, v)
      /\ \A x \in net : x[3] # i

LEMMA LastStages ==
  \A kind \in DOMAIN LastStage : LastStage[kind] \in {3, 4}
BY DEF LastStage

LEMMA SwitchedStep ==
  ASSUME TypeOK, Switched, [Next]_vars
  PROVE  Switched'
<1>. SUFFICES ASSUME NEW x \in net'
              PROVE  \E y \in Asked(scen, x[3]) : y.op = "on" /\ x[1] \in y.names /\ x[2] \in y.vms
  BY Forward DEF Switched
<1>1. CASE x \in net
  BY <1>1 DEF Switched
<1>2. CASE x \notin net
  <2>1. SwitchOn
    BY <1>2, Effects DEF SwitchOff
  <2>2. Running /\ r.op = "on" /\ x \in r.names \X r.vms \X {who}
    BY <1>2, <2>1 DEF SwitchOn, Is
  <2>. QED  BY <2>2, Asking
<1>. QED  BY <1>1, <1>2

\* In its last stage and after it, a component sets up nothing.
LEMMA SetsNothing ==
  ASSUME TypeOK, Tidy(scen), Running, Kind[scen][who] \in DOMAIN LastStage,
         stage >= LastStage[Kind[scen][who]]
  PROVE  r.op # "on" /\ \A e \in Enders : \A n : ~Sets(r, e, n)
<1>1. run <= MaxRun
  BY DEF Running
<1>2. /\ run \in 1..MaxRun /\ stage \in 1..4 /\ who \in DOMAIN Kind[scen]
      /\ pc \in DOMAIN Prog
  BY <1>1, TurnProgram DEF Running, Stage
<1>3. stage \in LastStage[Kind[scen][who]]..4
  BY <1>2, LastStages
<1>. QED  BY <1>2, <1>3 DEF Tidy, Prog, r, Sets

LEMMA OffsStep ==
  ASSUME TypeOK, Offs, Tidy(scen), [Next]_vars
  PROVE  Offs'
<1>. SUFFICES ASSUME run' <= MaxRun, Kind[scen][who'] \in DOMAIN LastStage,
                     stage' = LastStage[Kind[scen][who']],
                     NEW j \in DOMAIN Prog', NEW what, NEW where,
                     j < pc', SwitchesOff(Prog', j, what, where), <<what, where, who'>> \in net'
              PROVE  FALSE
  BY Forward DEF Offs
<1>0. Passing(Prog', j) /\ pc' > j /\ pc' # 0
  <2>1. pc' \in Nat
    BY TypeStep DEF TypeOK
  <2>2. j \in Nat
    BY NextProgram
  <2>. QED  BY <2>1, <2>2 DEF SwitchesOff
<1>1. /\ UNCHANGED <<scen, run, stage, who>> /\ Prog' = Prog /\ run <= MaxRun
      /\ pc \in Nat /\ j \in Nat
      /\ pc > j \/ (pc = j /\ Running /\ r = Prog[j] /\ ~UNCHANGED at)
  BY <1>0, Crossing
<1>2. CASE pc > j
  <2>1. <<what, where, who>> \notin net
    BY <1>1, <1>2 DEF Offs
  <2>2. SwitchOn
    BY <1>1, <2>1, Effects DEF SwitchOff
  <2>3. Running /\ r.op = "on"
    BY <2>2 DEF SwitchOn, Is
  <2>4. stage = LastStage[Kind[scen][who]] /\ stage \in 1..4
    BY <1>1, Forward
  <2>5. stage >= LastStage[Kind[scen][who]]
    BY <2>4
  <2>. QED  BY <1>1, <2>3, <2>5, SetsNothing
<1>3. CASE pc = j /\ Running /\ r = Prog[j] /\ ~UNCHANGED at
  <2>1. /\ r.op = "off" /\ what \in r.names /\ where \in r.vms
        /\ r.fail # "ignore" /\ ~r.caught
    BY <1>1, <1>3 DEF SwitchesOff
  <2>2. SwitchOff
    BY <1>3, <2>1, ByOp
  <2>3. ~Fails
    BY <1>0, <2>1 DEF Fails, Raise, Exit, Leave
  <2>. QED  BY <1>1, <2>1, <2>2, <2>3 DEF SwitchOff
<1>. QED  BY <1>1, <1>2, <1>3

\* A component that comes to its end has ended all and switched all off.
LEMMA LastEnd ==
  ASSUME TypeOK, Switched, Dooms, Checks, Offs, Tidy(scen), run <= MaxRun, pc > Len(Prog),
         Kind[scen][who] \in DOMAIN LastStage, stage = LastStage[Kind[scen][who]]
  PROVE  /\ \A v \in VM : \A x \in Placed(scen, who, v) : \A e \in Enders : \A n \in x.names :
              Sets(x, e, n) => Doomed(who, e, n, v)
         /\ \A x \in net : x[3] # who
<1>1. /\ run \in 1..MaxRun /\ who \in DOMAIN Kind[scen] /\ pc \in Nat
      /\ DOMAIN Prog = 1..Len(Prog) /\ Len(Prog) \in Nat
  BY TurnProgram
<1>2. stage > 1
  BY LastStages
<1>3. /\ \A v \in VM : \A x \in Placed(scen, who, v) : \A e \in Enders : \A n \in x.names :
           Sets(x, e, n) => Ended(scen, who, stage, Prog, e, n, v)
      /\ \A x \in Asked(scen, who) : x.op = "on" =>
           \A what \in x.names : \A where \in x.vms :
             \E j \in DOMAIN Prog : SwitchesOff(Prog, j, what, where)
  BY <1>1 DEF Tidy, Prog
<1>4. ASSUME NEW v \in VM, NEW e \in Enders, NEW n, Ended(scen, who, stage, Prog, e, n, v)
      PROVE  Doomed(who, e, n, v)
  <2>1. PICK j \in DOMAIN Prog : \/ Ending(scen, who, stage, Prog, j, e, n, v)
                                 \/ e = "kill" /\ Checking(Prog, j, n, v)
    BY <1>4 DEF Ended
  <2>2. CASE Ending(scen, who, stage, Prog, j, e, n, v)
    <3>1. pc > j
      BY <1>1
    <3>. QED  BY <1>2, <2>2, <3>1 DEF Dooms
  <2>3. CASE e = "kill" /\ Checking(Prog, j, n, v)
    <3>1. j + 3 \in DOMAIN Prog
      BY <2>3 DEF Checking
    <3>2. pc > j + 3
      BY <1>1, <3>1
    <3>. QED  BY <2>3, <3>2 DEF Checks, Doomed
  <2>. QED  BY <2>1, <2>2, <2>3
<1>5. ASSUME NEW x \in net, x[3] = who PROVE FALSE
  <2>1. PICK y \in Asked(scen, who) : y.op = "on" /\ x[1] \in y.names /\ x[2] \in y.vms
    BY <1>5 DEF Switched
  <2>2. PICK j \in DOMAIN Prog : SwitchesOff(Prog, j, x[1], x[2])
    BY <1>3, <2>1
  <2>3. j < pc
    BY <1>1
  <2>4. x = <<x[1], x[2], who>>
    BY <1>5 DEF TypeOK
  <2>. QED  BY <2>2, <2>3, <2>4 DEF Offs
<1>. QED  BY <1>3, <1>4, <1>5

LEMMA LeftStep ==
  ASSUME TypeOK, Order, Slept, Switched, Dooms, Checks, Offs, Left,
         Renewing(scen), Tidy(scen), [Next]_vars
  PROVE  Left'
<1>. SUFFICES ASSUME NEW i \in Member, Kind[scen][i] \in DOMAIN LastStage,
                     NEW L, L = LastStage[Kind[scen][i]], <<run', i, L>> \in done'
              PROVE  /\ \A v \in VM : \A x \in Placed(scen, i, v) : \A e \in Enders :
                          \A n \in x.names : Sets(x, e, n) => Doomed(i, e, n, v)'
                     /\ \A x \in net' : x[3] # i
  <2>1. Member' = Member /\ scen' = scen
    BY Forward, MemberSame
  <2>. QED  BY <2>1 DEF Left
<1>1. L \in {3, 4}
  BY LastStages
<1>2. CASE <<run', i, L>> \in done
  <2>1. run' = run /\ stage >= L
    <3>1. Past(run', L, i)
      BY <1>2 DEF Order
    <3>2. run \in Nat /\ run' \in {run, run + 1} /\ stage \in 1..4
      BY Forward
    <3>. QED  BY <1>1, <3>1, <3>2 DEF Past
  <2>2. Running /\ who = i => r.op # "on" /\ \A e \in Enders : \A n : ~Sets(r, e, n)
    BY <2>1, SetsNothing
  <2>3. ~Forget
    <3>1. stage # 1
      BY <1>1, <2>1
    <3>. QED  BY <3>1, Forgetting
  <2>4. ASSUME NEW v \in VM, NEW x \in Placed(scen, i, v), NEW e \in Enders,
               NEW n \in x.names, Sets(x, e, n)
        PROVE  Doomed(i, e, n, v)'
    <3>1. Doomed(i, e, n, v)
      BY <1>2, <2>1, <2>4 DEF Left
    <3>2. Issue => Running
      BY DEF Issue, Is
    <3>. QED  BY <2>2, <2>3, <3>1, <3>2, ActiveStep
  <2>5. ASSUME NEW x \in net', x[3] = i PROVE FALSE
    <3>1. x \notin net
      BY <1>2, <2>1, <2>5 DEF Left
    <3>2. SwitchOn
      BY <3>1, Effects DEF SwitchOff
    <3>3. Running /\ r.op = "on" /\ x \in r.names \X r.vms \X {who}
      BY <3>1, <3>2 DEF SwitchOn, Is
    <3>. QED  BY <2>2, <2>5, <3>3
  <2>. QED  BY <2>4, <2>5
<1>3. CASE <<run', i, L>> \notin done
  <2>1. Finish
    BY <1>3, Effects
  <2>2. run <= MaxRun /\ pc > Len(Prog) /\ who = i /\ stage = L /\ UNCHANGED <<agents, lab>>
    BY <1>3, <2>1 DEF Finish
  <2>3. /\ \A v \in VM : \A x \in Placed(scen, i, v) : \A e \in Enders : \A n \in x.names :
             Sets(x, e, n) => Doomed(i, e, n, v)
        /\ \A x \in net : x[3] # i
    BY <2>2, LastEnd
  <2>4. \A v, e, n : Doomed(i, e, n, v)' <=> Doomed(i, e, n, v)
    BY <2>2 DEF agents, Doomed, Active, Present
  <2>. QED  BY <2>2, <2>3, <2>4 DEF lab
<1>. QED  BY <1>2, <1>3

\* What a component has in the experiment is not doomed when no command waits.
LEMMA NothingLeftNow ==
  ASSUME TypeOK, Located, Left
  PROVE  NothingLeft
<1>. SUFFICES ASSUME \A v \in VM : queue[v] = <<>>, NEW i \in Member,
                     Kind[scen][i] \in DOMAIN LastStage,
                     <<run, i, LastStage[Kind[scen][i]]>> \in done, Owns(i)
              PROVE  FALSE
  BY DEF NothingLeft
<1>1. ASSUME NEW v \in VM, NEW e \in Enders, NEW n, NEW x \in Placed(scen, i, v), Sets(x, e, n)
      PROVE  ~Present(i, e, n, v)
  <2>1. n \in x.names
    BY <1>1 DEF Sets
  <2>2. Doomed(i, e, n, v)
    BY <1>1, <2>1 DEF Left
  <2>. QED  BY <2>2, EmptyQueue DEF Active
<1>2. ASSUME NEW p \in proc, p.by = i PROVE FALSE
  <2>1. p.vm \in VM
    BY DEF TypeOK, Proc
  <2>2. PICK x \in Placed(scen, i, p.vm) : Sets(x, "kill", p.name)
    BY <1>2 DEF Located
  <2>3. Present(i, "kill", p.name, p.vm)
    BY <1>2 DEF Present
  <2>. QED  BY <1>1, <2>1, <2>2, <2>3 DEF Enders
<1>3. ASSUME NEW d \in down, d[3] = i PROVE FALSE
  <2>1. d[1] \in VM /\ d = <<d[1], d[2], i>>
    BY <1>3 DEF TypeOK
  <2>2. PICK x \in Placed(scen, i, d[1]) : Sets(x, "up", d[2])
    BY <1>3 DEF Located
  <2>3. Present(i, "up", d[2], d[1])
    BY <2>1 DEF Present
  <2>. QED  BY <1>1, <2>1, <2>2, <2>3 DEF Enders
<1>4. \A x \in net : x[3] # i
  BY DEF Left
<1>. QED  BY <1>2, <1>3, <1>4 DEF Owns

LEMMA CompleteStep ==
  ASSUME TypeOK, Located, Checks, Spent, Complete, Closing(scen), [Next]_vars
  PROVE  Complete'
<1>. SUFFICES ASSUME NEW x \in saved', x.torn
              PROVE  x.run \in late' \/ Kind[scen][x.by] \in Hasty
  BY Forward DEF Complete
<1>0. late \subseteq late'
  BY Effects
<1>1. CASE x \in saved
  BY <1>0, <1>1 DEF Complete
<1>2. CASE x \notin saved /\ WriteFile
  BY <1>2 DEF WriteFile, Save
<1>3. CASE x \notin saved /\ Fetch
  <2>1. Running /\ r.op = "recv"
    BY <1>3 DEF Fetch, Is
  <2>2. run <= MaxRun
    BY <2>1 DEF Running
  <2>3. /\ run \in 1..MaxRun /\ stage \in Stage /\ who \in DOMAIN Kind[scen]
        /\ pc \in DOMAIN Prog /\ pc \in Nat /\ r = Prog[pc]
        /\ DOMAIN Prog = 1..Len(Prog) /\ Len(Prog) \in Nat
    BY <2>1, <2>2, TurnProgram DEF Running, r
  <2>4. PICK f \in file : /\ f.vm \in r.vms /\ f.name \in r.files
                          /\ Save(f.name, f.data, Torn(f.vm, f.name))
    BY <1>3 DEF Fetch
  <2>. DEFINE v == f.vm
  <2>5. v \in VM /\ x.by = who /\ x.run = run /\ Torn(v, f.name)
    BY <1>3, <2>4 DEF Save, TypeOK, File
  <2>6. PICK p \in proc : p.vm = v /\ f.name \in p.files
    BY <2>5 DEF Torn
  <2>7. PICK y \in Placed(scen, p.by, v) : Sets(y, "kill", p.name) /\ y.files = p.files
    BY <2>6 DEF Located
  <2>8. p.by \in DOMAIN Kind[scen] /\ p.name \in y.names
    BY <2>7 DEF TypeOK, Proc, Member, Sets
  <2>. DEFINE n == p.name
  <2>9. CASE Kind[scen][who] \notin Hasty
    <3>1. y.files \cap r.files # {}
      BY <2>4, <2>6, <2>7
    <3>2. v \in r.vms \cap VM
      BY <2>4, <2>5
    <3>. HIDE DEF v, n
    <3>3. \A k \in DOMAIN Prog : Prog[k].op = "recv" =>
            \A u \in Prog[k].vms \cap VM : \A m \in DOMAIN Kind[scen] :
              \A z \in Placed(scen, m, u) : \A l \in z.names :
                Sets(z, "kill", l) /\ z.files \cap Prog[k].files # {} =>
                  /\ m = who /\ stage > 1
                  /\ \/ /\ Unhalted(scen, u)
                        /\ \E j, w \in DOMAIN Prog :
                             /\ j < w /\ w < k /\ Awaits(Prog, w, u)
                             /\ Ending(scen, who, stage, Prog, j, "kill", l, u)
                     \/ \E j \in DOMAIN Prog : j + 3 < k /\ Checking(Prog, j, l, u)
      BY <2>3, <2>9 DEF Closing, Prog
    <3>. USE DEF n
    <3>4. /\ p.by = who /\ stage > 1
          /\ \/ /\ Unhalted(scen, v)
                /\ \E j, w \in DOMAIN Prog :
                     /\ j < w /\ w < pc /\ Awaits(Prog, w, v)
                     /\ Ending(scen, who, stage, Prog, j, "kill", n, v)
             \/ \E j \in DOMAIN Prog : j + 3 < pc /\ Checking(Prog, j, n, v)
      BY <2>1, <2>3, <2>7, <2>8, <3>2, <3>1, <3>3
    <3>. USE DEF v
    <3>5. Active(who, "kill", n, v)
      BY <2>6, <3>4 DEF Active, Present
    <3>6. CASE /\ Unhalted(scen, v)
               /\ \E j, w \in DOMAIN Prog :
                    /\ j < w /\ w < pc /\ Awaits(Prog, w, v)
                    /\ Ending(scen, who, stage, Prog, j, "kill", n, v)
      <4>1. run \in late
        BY <2>2, <2>5, <3>4, <3>5, <3>6 DEF Spent
      <4>. QED  BY <1>0, <2>5, <4>1
    <3>7. ASSUME NEW j \in DOMAIN Prog, j + 3 < pc, Checking(Prog, j, n, v) PROVE FALSE
      <4>1. pc > j + 3
        BY <2>3, <3>7
      <4>. QED  BY <2>2, <2>5, <3>5, <3>7, <4>1 DEF Checks
    <3>. QED  BY <3>4, <3>6, <3>7
  <2>. QED  BY <2>5, <2>9
<1>. QED  BY <1>1, <1>2, <1>3, Effects

\* All that is known of what components set up and end.
Setup ==
  /\ Up /\ Slept /\ Order /\ Switched
  /\ Filtering /\ Located /\ Marks /\ Picks /\ Dooms /\ Spent /\ Checks

LEMMA SetupInit ==
  ASSUME Init
  PROVE  Setup /\ Offs /\ Left
<1>1. /\ queue = [v \in VM |-> <<>>] /\ net = {} /\ proc = {} /\ down = {} /\ done = {} /\ pc = 0
      /\ run = 1 /\ stage = 1 /\ who = 1 /\ scen \in Scenario
  BY DEF Init
<1>2. run \in 1..MaxRun \/ ~(run <= MaxRun)
  BY <1>1, RunAssumption DEF RunAssumption
<1>3. run <= MaxRun => \A k \in DOMAIN Prog : k \in Nat \ {0}
  <2>. SUFFICES ASSUME run <= MaxRun, NEW k \in DOMAIN Prog PROVE k \in Nat \ {0}
    OBVIOUS
  <2>1. Kind[scen] \in Seq(STRING) /\ Kind[scen] # <<>>
    BY <1>1, RunAssumption DEF RunAssumption
  <2>2. who \in DOMAIN Kind[scen]
    BY <1>1, <2>1, EmptySeq, LenProperties
  <2>. QED  BY <1>1, <1>2, <2>2, ProgramType DEF Prog, Stage
<1>4. run <= MaxRun => \A k \in DOMAIN Prog :
        ~(k < pc) /\ ~(pc > k) /\ pc # k /\ pc # k + 2 /\ pc # k + 3 /\ ~(pc > k + 3)
  BY <1>1, <1>3
<1>5. Up /\ Slept /\ Order
  BY RenewalInit DEF Renewal
<1>6. Switched
  BY <1>1 DEF Switched
<1>7. \A v \in VM : \A k : k \notin DOMAIN queue[v]
  BY <1>1
<1>8. Located
  BY <1>1, <1>7 DEF Located
<1>9. Filtering /\ Picks
  BY <1>4 DEF Filtering, Picks, Picked, Filters
<1>10. Marks
  <2>1. \A i \in Member : ~(who > i)
    <3>. SUFFICES ASSUME NEW i \in Member PROVE i \in Nat \ {0}
      BY <1>1
    <3>1. Kind[scen] \in Seq(STRING)
      BY <1>1, RunAssumption DEF RunAssumption
    <3>. QED  BY <3>1, LenProperties DEF Member
  <2>. QED  BY <1>1, <1>4, <2>1 DEF Marks, MarkedIn
<1>11. Dooms /\ Spent
  BY <1>1 DEF Dooms, Spent
<1>12. Checks
  BY <1>4 DEF Checks
<1>13. Offs /\ Left
  BY <1>1, <1>4 DEF Offs, Left
<1>. QED  BY <1>5, <1>6, <1>8, <1>9, <1>10, <1>11, <1>12, <1>13 DEF Setup

LEMMA SetupStep ==
  ASSUME TypeOK, Setup, Renewing(scen), [Next]_vars
  PROVE  Setup'
<1>1. Up' /\ Slept' /\ Order' /\ Switched'
  BY UpStep, SleptStep, OrderStep, SwitchedStep DEF Setup
<1>2. Filtering' /\ Located' /\ Marks' /\ Picks'
  BY FilteringStep, LocatedStep, MarksStep, PicksStep DEF Setup
<1>3. Dooms' /\ Spent' /\ Checks'
  BY DoomsStep, SpentStep, ChecksStep DEF Setup
<1>. QED  BY <1>1, <1>2, <1>3 DEF Setup

\* A component that came to the end of its last stage leaves nothing behind, in
\* every experiment whose components end there what they may have set up, in the
\* VMs that they may have set it up in and by requests that nothing skips,
\* whatever failed before and whichever tags are gone (disruption.py:303,
\* iperf.py:407).
THEOREM NothingLeftHolds ==
  ASSUME \A s \in Scenario : Renewing(s) /\ Tidy(s)
  PROVE  Spec => []NothingLeft
<1>1. Init => Setup /\ Offs /\ Left
  BY SetupInit
<1>2. TypeOK /\ Setup /\ Offs /\ Left /\ [Next]_vars => Setup' /\ Offs' /\ Left'
  <2>. SUFFICES ASSUME TypeOK, Setup, Offs, Left, [Next]_vars
                PROVE  Setup' /\ Offs' /\ Left'
    OBVIOUS
  <2>1. Renewing(scen) /\ Tidy(scen)
    BY DEF TypeOK
  <2>2. Setup'
    BY <2>1, SetupStep
  <2>3. Offs' /\ Left'
    BY <2>1, OffsStep, LeftStep DEF Setup
  <2>. QED  BY <2>2, <2>3
<1>3. TypeOK /\ Setup /\ Left => NothingLeft
  BY NothingLeftNow DEF Setup
<1>. QED  BY <1>1, <1>2, <1>3, TypeCorrect, PTL DEF Spec

\* What a component collects is complete, but for those that do not wait, in every
\* experiment in which the one that collects a file is the one that had it written,
\* and ends and waits for the process first, or looks whether there is one.
THEOREM CompleteHolds ==
  ASSUME \A s \in Scenario : Renewing(s) /\ Closing(s)
  PROVE  Spec => []Complete
<1>1. Init => Setup /\ Complete
  BY SetupInit DEF Init, Complete
<1>2. TypeOK /\ Setup /\ Complete /\ [Next]_vars => Setup' /\ Complete'
  <2>. SUFFICES ASSUME TypeOK, Setup, Complete, [Next]_vars PROVE Setup' /\ Complete'
    OBVIOUS
  <2>1. Renewing(scen) /\ Closing(scen)
    BY DEF TypeOK
  <2>2. Complete'
    BY <2>1, CompleteStep DEF Setup
  <2>. QED  BY <2>1, <2>2, SetupStep
<1>. QED  BY <1>1, <1>2, TypeCorrect, PTL DEF Spec

----------------------------------------------------------------------------
(* The timing of an attack *)

Timing == [run : Nat, delay : Nat, attack : Nat]
Fits(t) == t.delay + AttackLength(t) <= t.run

\* For every configuration of a disruption the attack that starts after its
\* delay ends with the run at the latest (disruption.py:205), if and only if
\* the run exceeds the delay by 30.5 s: the bound of AttackInsideRun is exact.
THEOREM AttackFits ==
  \A t \in Timing : Fits(t) <=> t.delay + 305 <= t.run
<1>. SUFFICES ASSUME NEW t \in Timing
              PROVE  Fits(t) <=> t.delay + 305 <= t.run
  OBVIOUS
<1>1. t.run \in Nat /\ t.delay \in Nat /\ t.attack \in Nat
  BY DEF Timing
<1>2. AttackLength(t) =
        IF t.attack + t.delay + 50 <= t.run - 600 THEN t.attack
        ELSE IF t.run - 600 - t.delay - 10 < 0
             THEN -(t.run - 600 - t.delay - 10) ELSE t.run - 600 - t.delay - 10
  BY DEF AttackLength
<1>. QED  BY <1>1, <1>2 DEF Fits

----------------------------------------------------------------------------
(* Programs of every configuration *)

\* Strings.  The provers do not know of those that are written out that they are.
Word == STRING \cup
  {"alert", "art", "attack", "background-gen", "bridge capture",
   "caldera-report", "capture", "case", "client-data", "client-log",
   "config.ini", "csv", "disruption", "dos-results", "dos.py", "dump.pcap",
   "ettercap", "experiment_record.json", "halted", "host_stats.jsonl",
   "hoststats", "hping3", "iperf", "iperf3", "iperf3.exe",
   "iperf_mapping.json", "linux", "malware-gen", "merged.pcap",
   "netstat_outputs.txt", "opc-log", "pcap", "pcap_metadata.json", "phys-log",
   "phys-results", "pipe", "providerdata", "pybennu-power-solver",
   "python.exe", "qos", "qos_values_applied.json", "rperf", "rperf.exe",
   "rtds", "server-data", "server-log", "sniff", "snort", "snort.log",
   "snort.stats", "solver-log", "spare", "start", "start-time", "stop",
   "stop-time", "tap", "tcpdump", "traffic-server", "unplugged",
   "vm_stats.jsonl", "vmstat", "vmstat.out", "vmstats", "windows"}
Texts == SUBSET Word
Where == SUBSET (VM \cup {Host})

\* Requests, with any words.
Rqs == [op : Ops, vms : Where, act : Acts, names : Texts, files : Texts, n : Nat,
        time : Nat, ends : BOOLEAN, fail : Fail, caught : BOOLEAN, skip : Nat]

LEMMA RqIs ==
  /\ Rq \in Rqs
  /\ Rq.op = "try" /\ Rq.act = "" /\ Rq.names = {} /\ Rq.files = {} /\ Rq.n = 0
  /\ Rq.fail = "raise" /\ Rq.caught = FALSE /\ Rq.vms = {}
BY DEF Rqs, Where, Texts, Ops, Rq, Acts, Fail

\* Requests that end, start or switch only what is named, and neither note the
\* time nor make a record; those that do not branch.
Names(x) ==
  IF x.op \in {"on", "off"} \/ (x.op = "exec" /\ x.act \notin {"down", "up", "remove"})
  THEN x.names ELSE {}
Safe(N) ==
  {x \in Rqs : Names(x) \subseteq N /\ x.op # "stamp" /\ ~Makes(x, Record)}
Plain(N) ==
  {x \in Safe(N) : ~x.caught /\ x.op \notin {"if", "unless", "mishap", "again"}}

LEMMA OneOf ==
  ASSUME NEW X, NEW x \in X
  PROVE  <<x>> \in Seq(X)
OBVIOUS

LEMMA OneRequest ==
  ASSUME NEW N, NEW X, Plain(N) \subseteq X, NEW x \in Plain(N)
  PROVE  <<x>> \in Seq(X)
BY OneOf

LEMMA Joined ==
  ASSUME NEW X
  PROVE  /\ <<>> \in Seq(X)
         /\ \A p, q \in Seq(X) : p \o q \in Seq(X)
BY ConcatProperties, EmptySeq

LEMMA Commands ==
  ASSUME NEW N, NEW X, Plain(N) \subseteq X
  PROVE  /\ \A S \in Where : Filter(S) \in Seq(X)
         /\ \A t \in Word, S \in Where : Tagged(t, S) \in Seq(X)
         /\ \A t \in Word, S \in Where : Tag(t, S) \in Seq(X)
         /\ \A t \in Word, S \in Where : Untag(t, S) \in Seq(X)
         /\ \A a \in Acts, n \in Texts, f \in Texts :
               n \subseteq N \/ a \in {"down", "up", "remove"} =>
                 Exec(a, n, f) \in Seq(X) /\ Job(a, n, f) \in Seq(X)
         /\ \A S \in Where, n \in Nat, d \in Nat, f \in Fail : Await(S, n, d, f) \in Seq(X)
         /\ \A S \in Where : AwaitPrefix(S) \in Seq(X)
         /\ ForgetCommands \in Seq(X)
<1>. USE RqIs, OneRequest DEF Safe, Plain, Rqs, Names, Makes, Record, Where, Texts, Ops
<1>1. ASSUME NEW S \in Where PROVE Filter(S) \in Seq(X)
  <2>1. [Rq EXCEPT !.op = "filter", !.vms = S] \in Plain(N)
    OBVIOUS
  <2>. QED  BY <2>1 DEF Filter
<1>2. ASSUME NEW t \in Word, NEW S \in Where
      PROVE  /\ Tagged(t, S) \in Seq(X) /\ Tag(t, S) \in Seq(X)
             /\ Untag(t, S) \in Seq(X)
  <2>1. [Rq EXCEPT !.op = "filter", !.vms = S, !.names = {t}] \in Plain(N)
    OBVIOUS
  <2>2. [Rq EXCEPT !.op = "tag", !.vms = S, !.names = {t}] \in Plain(N)
    OBVIOUS
  <2>3. [Rq EXCEPT !.op = "untag", !.vms = S, !.names = {t}] \in Plain(N)
    OBVIOUS
  <2>4. Tagged(t, S) \in Seq(X)
    BY <2>1 DEF Tagged
  <2>5. Tag(t, S) \in Seq(X)
    BY <2>2 DEF Tag
  <2>6. Untag(t, S) \in Seq(X)
    BY <2>3 DEF Untag
  <2>. QED  BY <2>4, <2>5, <2>6
<1>3. ASSUME NEW a \in Acts, NEW n \in Texts, NEW f \in Texts,
             n \subseteq N \/ a \in {"down", "up", "remove"}
      PROVE  Exec(a, n, f) \in Seq(X) /\ Job(a, n, f) \in Seq(X)
  <2>1. [Rq EXCEPT !.op = "exec", !.act = a, !.names = n, !.files = f] \in Plain(N)
    BY <1>3
  <2>2. [Rq EXCEPT !.op = "exec", !.act = a, !.names = n, !.files = f, !.ends = TRUE]
          \in Plain(N)
    BY <1>3
  <2>3. Exec(a, n, f) \in Seq(X)
    BY <2>1 DEF Exec
  <2>4. Job(a, n, f) \in Seq(X)
    BY <2>2 DEF Job
  <2>. QED  BY <2>3, <2>4
<1>4. ASSUME NEW S \in Where, NEW n \in Nat, NEW d \in Nat, NEW f \in Fail
      PROVE  Await(S, n, d, f) \in Seq(X)
  <2>1. [Rq EXCEPT !.op = "await", !.vms = S, !.n = n, !.time = d, !.fail = f] \in Plain(N)
    OBVIOUS
  <2>. QED  BY <2>1 DEF Await
<1>5. ASSUME NEW S \in Where PROVE AwaitPrefix(S) \in Seq(X)
  <2>1. [Rq EXCEPT !.op = "prefix", !.vms = S, !.n = 100, !.fail = "exit"] \in Plain(N)
    BY DEF Fail
  <2>. QED  BY <2>1 DEF AwaitPrefix
<1>6. ForgetCommands \in Seq(X)
  <2>1. [Rq EXCEPT !.op = "forget"] \in Plain(N)
    OBVIOUS
  <2>. QED  BY <2>1 DEF ForgetCommands
<1>. QED  BY <1>1, <1>2, <1>3, <1>4, <1>5, <1>6

LEMMA Services ==
  ASSUME NEW N, NEW X, Plain(N) \subseteq X
  PROVE  /\ \A d \in Nat : /\ Sleep(d) \in Seq(X) /\ Rest(d) \in Seq(X)
                           /\ Timed(d) \in Seq(X)
         /\ \A v \in VM, f \in Word \ {Record}, x \in Fail : Recv(v, f, x) \in Seq(X)
         /\ \A x \in Fail : Attempt(x) \in Seq(X) /\ Stop(x) \in Seq(X)
         /\ \A v \in VM : EnsureRunning(v) \in Seq(X)
         /\ \A n \in N \cap Word, S \in Where, x \in Fail : On(n, S, x) \in Seq(X)
         /\ \A n \in Texts, S \in Where, x \in Fail : n \subseteq N => Off(n, S, x) \in Seq(X)
         /\ \A f \in Word \ {Record} : Write(f) \in Seq(X)
         /\ \A n \in Word, f \in Word, x \in Fail : Gather(n, f, x) \in Seq(X)
<1>. USE RqIs, OneRequest DEF Safe, Plain, Rqs, Names, Makes, Where, Texts, Ops
<1>1. ASSUME NEW d \in Nat
      PROVE  Sleep(d) \in Seq(X) /\ Rest(d) \in Seq(X) /\ Timed(d) \in Seq(X)
  <2>1. [Rq EXCEPT !.op = "sleep", !.n = d] \in Plain(N)
    OBVIOUS
  <2>2. [Rq EXCEPT !.op = "rest", !.n = d] \in Plain(N)
    OBVIOUS
  <2>3. [Rq EXCEPT !.op = "timed", !.n = d] \in Plain(N)
    OBVIOUS
  <2>4. Sleep(d) \in Seq(X)
    BY <2>1 DEF Sleep
  <2>5. Rest(d) \in Seq(X)
    BY <2>2 DEF Rest
  <2>6. Timed(d) \in Seq(X)
    BY <2>3 DEF Timed
  <2>. QED  BY <2>4, <2>5, <2>6
<1>2. ASSUME NEW v \in VM, NEW f \in Word \ {Record}, NEW x \in Fail
      PROVE  Recv(v, f, x) \in Seq(X)
  <2>1. [Rq EXCEPT !.op = "recv", !.vms = {v}, !.files = {f}, !.fail = x] \in Plain(N)
    OBVIOUS
  <2>. QED  BY <2>1 DEF Recv
<1>3. ASSUME NEW x \in Fail PROVE Attempt(x) \in Seq(X) /\ Stop(x) \in Seq(X)
  <2>1. [Rq EXCEPT !.fail = x] \in Plain(N)
    OBVIOUS
  <2>2. [Rq EXCEPT !.op = "stop", !.fail = x] \in Plain(N)
    OBVIOUS
  <2>3. Attempt(x) \in Seq(X)
    BY <2>1 DEF Attempt
  <2>4. Stop(x) \in Seq(X)
    BY <2>2 DEF Stop
  <2>. QED  BY <2>3, <2>4
<1>8. ASSUME NEW v \in VM PROVE EnsureRunning(v) \in Seq(X)
  <2>1. [Rq EXCEPT !.op = "running", !.vms = {v}, !.fail = "exit"] \in Plain(N)
    BY DEF Fail
  <2>. QED  BY <2>1 DEF EnsureRunning
<1>4. ASSUME NEW n \in N \cap Word, NEW S \in Where, NEW x \in Fail
      PROVE  On(n, S, x) \in Seq(X)
  <2>1. [Rq EXCEPT !.op = "on", !.vms = S, !.names = {n}, !.fail = x] \in Plain(N)
    OBVIOUS
  <2>. QED  BY <2>1 DEF On
<1>5. ASSUME NEW n \in Texts, NEW S \in Where, NEW x \in Fail, n \subseteq N
      PROVE  Off(n, S, x) \in Seq(X)
  <2>1. [Rq EXCEPT !.op = "off", !.vms = S, !.names = n, !.fail = x] \in Plain(N)
    BY <1>5
  <2>. QED  BY <2>1 DEF Off
<1>6. ASSUME NEW f \in Word \ {Record} PROVE Write(f) \in Seq(X)
  <2>1. [Rq EXCEPT !.op = "write", !.files = {f}] \in Plain(N)
    OBVIOUS
  <2>. QED  BY <2>1 DEF Write
<1>7. ASSUME NEW n \in Word, NEW f \in Word, NEW x \in Fail
      PROVE  Gather(n, f, x) \in Seq(X)
  <2>1. [Rq EXCEPT !.op = "gather", !.names = {n}, !.files = {f}, !.fail = x] \in Plain(N)
    OBVIOUS
  <2>. QED  BY <2>1 DEF Gather
<1>. QED  BY <1>1, <1>2, <1>3, <1>4, <1>5, <1>6, <1>7, <1>8

LEMMA Safer ==
  ASSUME NEW N, NEW x \in Safe(N), NEW k \in Nat
  PROVE  [x EXCEPT !.caught = TRUE, !.skip = k] \in Safe(N)
BY DEF Safe, Rqs, Names, Makes

LEMMA ProgType ==
  ASSUME NEW N, NEW p \in Seq(Safe(N))
  PROVE  /\ Len(p) \in Nat /\ DOMAIN p = 1..Len(p)
         /\ \A i \in DOMAIN p : i \in Nat /\ p[i] \in Safe(N)
BY LenProperties, ElementOfSeq 

LEMMA Tried ==
  ASSUME NEW N, NEW p \in Seq(Safe(N))
  PROVE  Try(p) \in Seq(Safe(N))
<1>1. /\ Len(p) \in Nat /\ DOMAIN p = 1..Len(p)
      /\ \A i \in DOMAIN p : i \in Nat /\ p[i] \in Safe(N)
  BY ProgType
<1>2. \A i \in DOMAIN p : Len(p) - i \in Nat
  BY <1>1
<1>3. \A i \in DOMAIN p : [p[i] EXCEPT !.caught = TRUE, !.skip = Len(p) - i] \in Safe(N)
  BY <1>1, <1>2, Safer
<1>4. Try(p) \in [1..Len(p) -> Safe(N)]
  BY <1>1, <1>3 DEF Try
<1>. QED  BY <1>1, <1>4, SeqDef

LEMMA Controls ==
  ASSUME NEW N
  PROVE  /\ \A v \in VM, n \in Word, p \in Seq(Safe(N)) :
              If(v, n, p) \in Seq(Safe(N)) /\ Unless(v, n, p) \in Seq(Safe(N))
         /\ \A p \in Seq(Safe(N)) :
              /\ Mishap(p) \in Seq(Safe(N)) /\ Until(p) \in Seq(Safe(N))
              /\ Try(p) \in Seq(Safe(N))
<1>2. \A p \in Seq(Safe(N)) : Len(p) \in Nat
  BY LenProperties
<1>3. ASSUME NEW v \in VM, NEW n \in Word, NEW p \in Seq(Safe(N))
      PROVE  If(v, n, p) \in Seq(Safe(N)) /\ Unless(v, n, p) \in Seq(Safe(N))
  <2>. DEFINE x == [Rq EXCEPT !.op = "if", !.vms = {v}, !.names = {n}, !.skip = Len(p)]
              y == [Rq EXCEPT !.op = "unless", !.vms = {v}, !.names = {n}, !.skip = Len(p)]
  <2>1. x \in Safe(N)
    BY RqIs, <1>2 DEF Safe, Rqs, Names, Makes, Ops, Where, Texts
  <2>2. y \in Safe(N)
    BY RqIs, <1>2 DEF Safe, Rqs, Names, Makes, Ops, Where, Texts
  <2>. HIDE DEF x, y
  <2>3. <<x>> \o p \in Seq(Safe(N)) /\ <<y>> \o p \in Seq(Safe(N))
    BY <2>1, <2>2, OneOf, Joined
  <2>. QED  BY <2>3 DEF If, Unless, x, y
<1>4. ASSUME NEW p \in Seq(Safe(N))
      PROVE  Mishap(p) \in Seq(Safe(N)) /\ Until(p) \in Seq(Safe(N))
  <2>. DEFINE x == [Rq EXCEPT !.op = "mishap", !.skip = Len(p)]
              y == [Rq EXCEPT !.op = "again", !.skip = Len(p)]
  <2>1. x \in Safe(N)
    BY RqIs, <1>2 DEF Safe, Rqs, Names, Makes, Ops, Where, Texts
  <2>2. y \in Safe(N)
    BY RqIs, <1>2 DEF Safe, Rqs, Names, Makes, Ops, Where, Texts
  <2>. HIDE DEF x, y
  <2>3. <<x>> \o p \in Seq(Safe(N)) /\ p \o <<y>> \in Seq(Safe(N))
    BY <2>1, <2>2, OneOf, Joined
  <2>. QED  BY <2>3 DEF Mishap, Until, x, y
<1>. QED  BY <1>3, <1>4, Tried

----------------------------------------------------------------------------
(* Loops *)

LEMMA Climbing ==
  ASSUME NEW T \in SUBSET Nat, 0 \in T, \A x \in T : x + 1 \in T
  PROVE  T = Nat
<1>. DEFINE R == OpToRel(<, Nat)
<1>. SUFFICES ASSUME Nat \ T # {} PROVE FALSE
  OBVIOUS
<1>1. IsWellFoundedOn(R, Nat)
  BY NatLessThanWellFounded
<1>2. \A x, y \in Nat : <<y, x>> \in R <=> y < x
  BY DEF OpToRel
<1>. HIDE DEF R
<1>3. PICK x \in Nat \ T : \A y \in Nat \ T : ~(<<y, x>> \in R)
  BY <1>1, WFMin
<1>4. x # 0
  OBVIOUS
<1>5. x - 1 \in Nat /\ x - 1 < x /\ (x - 1) + 1 = x
  BY <1>4
<1>6. x - 1 \in T
  BY <1>2, <1>3, <1>5
<1>. QED  BY <1>5, <1>6

\* What the parts of s are together, up to each of them.
Together(s, m, f) ==
  \A i \in 1..m : f[i] = IF i = 1 THEN s[i] ELSE f[i - 1] \o s[i]

LEMMA TogetherExists ==
  ASSUME NEW X, NEW w \in Nat, NEW s \in [1..w -> Seq(X)]
  PROVE  \E f \in [1..w -> Seq(X)] : Together(s, w, f)
<1>. DEFINE To(m) == {i \in 1..w : i <= m}
            Right(f, m) == \A i \in To(m) : f[i] = IF i = 1 THEN s[i] ELSE f[i - 1] \o s[i]
            T == {m \in Nat : \E f \in [To(m) -> Seq(X)] : Right(f, m)}
<1>1. 0 \in T
  <2>1. To(0) = {}
    OBVIOUS
  <2>2. /\ [i \in To(0) |-> s[i]] \in [To(0) -> Seq(X)]
        /\ Right([i \in To(0) |-> s[i]], 0)
    BY <2>1
  <2>. QED  BY <2>2
<1>2. ASSUME NEW m \in T PROVE m + 1 \in T
  <2>1. PICK f \in [To(m) -> Seq(X)] : Right(f, m)
    OBVIOUS
  <2>. DEFINE g == [i \in To(m + 1) |-> IF i = 1 THEN s[i] ELSE f[i - 1] \o s[i]]
  <2>2. \A i \in To(m + 1) : i # 1 => i - 1 \in To(m)
    OBVIOUS
  <2>3. ASSUME NEW i \in To(m + 1)
        PROVE  (IF i = 1 THEN s[i] ELSE f[i - 1] \o s[i]) \in Seq(X)
    <3>1. s[i] \in Seq(X) /\ (i # 1 => f[i - 1] \in Seq(X))
      BY <2>2
    <3>. QED  BY <3>1, Joined
  <2>4. g \in [To(m + 1) -> Seq(X)]
    BY <2>3
  <2>5. \A i \in To(m) : i \in To(m + 1) /\ g[i] = f[i]
    BY <2>1
  <2>6. Right(g, m + 1)
    BY <2>2, <2>5
  <2>7. m + 1 \in Nat
    OBVIOUS
  <2>. HIDE DEF g, To, Right
  <2>8. \E h \in [To(m + 1) -> Seq(X)] : Right(h, m + 1)
    BY <2>4, <2>6
  <2>. QED  BY <2>7, <2>8
<1>3. T = Nat
  <2>1. T \in SUBSET Nat
    OBVIOUS
  <2>. HIDE DEF T
  <2>. QED  BY <1>1, <1>2, <2>1, Climbing
<1>4. To(w) = 1..w
  OBVIOUS
<1>5. PICK f \in [To(w) -> Seq(X)] : Right(f, w)
  BY <1>3
<1>. QED  BY <1>4, <1>5 DEF Together

LEMMA Flat ==
  ASSUME NEW X, NEW w \in Nat, NEW s \in [1..w -> Seq(X)]
  PROVE  FlattenSeq(s) \in Seq(X)
<1>1. s \in Seq(Seq(X)) /\ Len(s) = w
  BY SeqDef, LenProperties
<1>2. CASE w = 0
  <2>1. FlattenSeq(s) = s
    BY <1>1, <1>2 DEF FlattenSeq
  <2>2. s = <<>>
    BY <1>1, <1>2, EmptySeq
  <2>. QED  BY <2>1, <2>2, Joined
<1>3. CASE w # 0
  <2>. DEFINE Defined(f) == f = [i \in 1..w |-> IF i = 1 THEN s[i] ELSE f[i - 1] \o s[i]]
              fs == CHOOSE f : Defined(f)
  <2>1. PICK g \in [1..w -> Seq(X)] : Together(s, w, g)
    BY TogetherExists
  <2>2. Defined(g)
    BY <2>1 DEF Together
  <2>3. Defined(fs)
    BY <2>2
  <2>4. FlattenSeq(s) = fs[w]
    BY <1>1, <1>3 DEF FlattenSeq
  <2>5. \A i \in 1..w : fs[i] = IF i = 1 THEN s[i] ELSE fs[i - 1] \o s[i]
    <3>. DEFINE h == [i \in 1..w |-> IF i = 1 THEN s[i] ELSE fs[i - 1] \o s[i]]
    <3>1. fs = h
      BY <2>3
    <3>2. \A i \in 1..w : h[i] = IF i = 1 THEN s[i] ELSE fs[i - 1] \o s[i]
      OBVIOUS
    <3>. HIDE DEF fs, h
    <3>. QED  BY <3>1, <3>2
  <2>. HIDE DEF fs
  <2>. DEFINE T == {m \in Nat : m + 1 \in 1..w => fs[m + 1] \in Seq(X)}
  <2>6. 0 \in T
    BY <1>3, <2>5
  <2>7. ASSUME NEW m \in T PROVE m + 1 \in T
    <3>. SUFFICES ASSUME (m + 1) + 1 \in 1..w PROVE fs[(m + 1) + 1] \in Seq(X)
      OBVIOUS
    <3>1. m \in Nat /\ m + 1 \in 1..w /\ (m + 1) + 1 # 1 /\ ((m + 1) + 1) - 1 = m + 1
      OBVIOUS
    <3>2. fs[m + 1] \in Seq(X) /\ s[(m + 1) + 1] \in Seq(X)
      BY <3>1
    <3>3. fs[(m + 1) + 1] = fs[m + 1] \o s[(m + 1) + 1]
      BY <2>5, <3>1
    <3>. QED  BY <3>2, <3>3, Joined
  <2>8. T = Nat
    <3>1. T \in SUBSET Nat
      OBVIOUS
    <3>. HIDE DEF T
    <3>. QED  BY <2>6, <2>7, <3>1, Climbing
  <2>9. w - 1 \in Nat /\ (w - 1) + 1 = w /\ w \in 1..w
    BY <1>3
  <2>10. w - 1 \in T
    <3>. HIDE DEF T
    <3>. QED  BY <2>8, <2>9
  <2>11. fs[w] \in Seq(X)
    BY <2>9, <2>10
  <2>. QED  BY <2>4, <2>11
<1>. QED  BY <1>2, <1>3

\* A loop over a sequence of W.
LEMMA Looped ==
  ASSUME NEW X, NEW W, NEW x \in Seq(W), NEW s,
         s = [i \in DOMAIN x |-> s[i]], \A i \in DOMAIN x : s[i] \in Seq(X)
  PROVE  FlattenSeq(s) \in Seq(X)
<1>1. Len(x) \in Nat /\ DOMAIN x = 1..Len(x)
  BY LenProperties
<1>2. s \in [1..Len(x) -> Seq(X)]
  BY <1>1
<1>. QED  BY <1>1, <1>2, Flat

----------------------------------------------------------------------------
(* The helpers, and the components *)

LEMMA Helpers ==
  ASSUME NEW N, NEW X, Plain(N) \subseteq X
  PROVE  /\ ClearFilter \in Seq(X) /\ Run \in Seq(X) /\ Send \in Seq(X) /\ Query \in Seq(X)
         /\ \A v \in VM, p \in Seq(X), n \in Nat :
              ExecWait(v, p, n) \in Seq(X) /\ RunAndCheck(v, p, n) \in Seq(X)
         /\ \A v \in VM, p \in Seq(X), n, d \in Nat : RunFor(v, p, n, d) \in Seq(X)
         /\ \A v \in VM, p \in Word : p \in N => KillProcess({v}, p) \in Seq(X)
         /\ \A v \in VM, f, os \in Word : DeleteFile(v, f, os) \in Seq(X)
         /\ \A v \in VM : Ps(v) \in Seq(X)
         /\ \A p \in Seq(X) : \A b : When(b, p) \in Seq(X)
         /\ \A v \in VM, f \in Word \ {Record} : RecvFile(v, <<f>>) \in Seq(X)
         /\ \A v \in VM, f, g \in Word \ {Record} : RecvFile(v, <<f, g>>) \in Seq(X)
<1>1. ClearFilter \in Seq(X) /\ Run \in Seq(X) /\ Send \in Seq(X) /\ Query \in Seq(X)
  <2>1. VM \in Where /\ "run" \in Acts /\ {} \in Texts /\ {"raise", "exit"} \subseteq Fail
    BY DEF Where, Acts, Texts, Fail
  <2>2. Filter(VM) \in Seq(X) /\ Exec("run", {}, {}) \in Seq(X)
    BY <2>1, Commands
  <2>3. Attempt("raise") \in Seq(X) /\ Attempt("exit") \in Seq(X)
    BY <2>1, Services
  <2>. QED  BY <2>2, <2>3, Joined DEF ClearFilter, Run, Send, Query
<1>2. ASSUME NEW v \in VM, NEW p \in Seq(X), NEW n \in Nat, NEW d \in Nat
      PROVE  RunFor(v, p, n, d) \in Seq(X) /\ ExecWait(v, p, n) \in Seq(X)
  <2>1. {v} \in Where /\ {"exit", "ignore"} \subseteq Fail /\ 0 \in Nat
    BY DEF Where, Fail
  <2>2. /\ Filter({v}) \in Seq(X) /\ Await({v}, n, d, "exit") \in Seq(X)
        /\ Await({v}, n, 0, "ignore") \in Seq(X)
    BY <2>1, Commands
  <2>. QED  BY <2>2, Joined DEF RunFor, ExecWait
<1>3. ASSUME NEW v \in VM, NEW p \in Word, p \in N
      PROVE  KillProcess({v}, p) \in Seq(X)
  <2>1. {v} \in Where /\ "kill" \in Acts /\ {} \in Texts /\ {p} \in Texts /\ {p} \subseteq N
    BY <1>3 DEF Where, Acts, Texts
  <2>2. Filter({v}) \in Seq(X) /\ Exec("kill", {p}, {}) \in Seq(X)
    BY <2>1, Commands
  <2>. QED  BY <2>2, Joined DEF KillProcess
<1>4. ASSUME NEW v \in VM, NEW f \in Word, NEW os \in Word
      PROVE  DeleteFile(v, f, os) \in Seq(X)
  <2>1. {v} \in Where /\ "remove" \in Acts /\ {} \in Texts /\ {f} \in Texts
    BY DEF Where, Acts, Texts
  <2>2. Filter({v}) \in Seq(X) /\ Exec("remove", {}, {f}) \in Seq(X)
    BY <2>1, Commands
  <2>. QED  BY <1>1, <2>2, Joined DEF DeleteFile
<1>5. \A v \in VM, p \in Seq(X), n \in Nat : RunAndCheck(v, p, n) \in Seq(X)
  BY <1>2 DEF RunAndCheck
<1>6. \A v \in VM : Ps(v) \in Seq(X)
  BY <1>1, <1>5 DEF Ps
<1>7. \A p \in Seq(X) : \A b : When(b, p) \in Seq(X)
  BY Joined DEF When
<1>8. ASSUME NEW v \in VM, NEW f \in Word \ {Record}, NEW g \in Word \ {Record}
      PROVE  RecvFile(v, <<f>>) \in Seq(X) /\ RecvFile(v, <<f, g>>) \in Seq(X)
  <2>. DEFINE a == [i \in DOMAIN <<f>> |-> Recv(v, <<f>>[i], "exit")]
              b == [i \in DOMAIN <<f, g>> |-> Recv(v, <<f, g>>[i], "exit")]
  <2>1. Recv(v, f, "exit") \in Seq(X) /\ Recv(v, g, "exit") \in Seq(X)
    BY Services DEF Fail
  <2>2. <<f>> \in Seq({f, g}) /\ <<f, g>> \in Seq({f, g})
    OBVIOUS
  <2>3. \A i \in DOMAIN <<f>> : a[i] \in Seq(X)
    BY <2>1
  <2>4. \A i \in DOMAIN <<f, g>> : b[i] \in Seq(X)
    BY <2>1
  <2>5. FlattenSeq(a) \in Seq(X)
    <3>1. a = [i \in DOMAIN <<f>> |-> a[i]]
      OBVIOUS
    <3>. HIDE DEF a
    <3>. QED  BY <2>2, <2>3, <3>1, Looped
  <2>6. FlattenSeq(b) \in Seq(X)
    <3>1. b = [i \in DOMAIN <<f, g>> |-> b[i]]
      OBVIOUS
    <3>. HIDE DEF b
    <3>. QED  BY <2>2, <2>4, <3>1, Looped
  <2>. QED  BY <2>5, <2>6 DEF RecvFile, For
<1>. QED  BY <1>1, <1>2, <1>3, <1>4, <1>5, <1>6, <1>7, <1>8

LEMMA OpcPrograms ==
  ASSUME NEW c \in OpcConfig, NEW N, "python.exe" \in N
  PROVE  /\ OpcConfigure(c) \in Seq(Safe(N)) /\ OpcStart(c) \in Seq(Safe(N))
         /\ OpcStop(c) \in Seq(Safe(N)) /\ OpcCleanup(c) \in Seq(Safe(N))
<1>. DEFINE X == Safe(N)
<1>1. c.host \in VM /\ Plain(N) \subseteq X
  BY DEF OpcConfig, Plain
<1>10. /\ "python.exe" \in Word /\ "linux" \in Word
       /\ "opc-log" \in Word \ {Record} /\ "opc-log" \in Word
  BY DEF Record, Word
<1>0. X = Safe(N)
  OBVIOUS
<1>. HIDE DEF X
<1>2. Stop("exit") \in Seq(X) /\ Sleep(50) \in Seq(X) /\ Sleep(100) \in Seq(X)
      /\ Attempt("raise") \in Seq(X)
  BY <1>1, Services DEF Fail
<1>3. Filter({c.host}) \in Seq(X) /\ Exec("append", {"python.exe"}, {"opc-log"}) \in Seq(X)
  <2>1. /\ {c.host} \in Where /\ {"python.exe"} \in Texts /\ {"opc-log"} \in Texts
        /\ "append" \in Acts /\ {"python.exe"} \subseteq N
    BY <1>1, <1>10 DEF Where, Texts, Acts
  <2>. QED  BY <1>1, <1>10, <2>1, Commands
<1>4. \A p \in Seq(X) : Unless(c.host, "python.exe", p) \in Seq(X)
  BY <1>0, <1>1, <1>10, Controls
<1>5. /\ Run \in Seq(X) /\ Send \in Seq(X) /\ ClearFilter \in Seq(X) /\ Ps(c.host) \in Seq(X)
      /\ KillProcess({c.host}, "python.exe") \in Seq(X)
      /\ RecvFile(c.host, <<"opc-log">>) \in Seq(X)
      /\ DeleteFile(c.host, "opc-log", "linux") \in Seq(X)
  BY <1>1, <1>10, Helpers
<1>6. /\ ExecWait(c.host, Run, 0) \in Seq(X) /\ RunAndCheck(c.host, Run, 100) \in Seq(X)
      /\ When("route" \in c.opts, ExecWait(c.host, Run, 0)) \in Seq(X)
  BY <1>1, <1>5, Helpers
<1>7. \A p, q \in Seq(X) : p \o q \in Seq(X)
  BY Joined
<1>8. OpcConfigure(c) \in Seq(X)
  BY <1>2, <1>5, <1>6, <1>7 DEF OpcConfigure
<1>9. OpcStart(c) \in Seq(X)
  <2>. DEFINE check(p) == Ps(c.host) \o Unless(c.host, "python.exe", Sleep(50) \o p)
  <2>1. \A p \in Seq(X) : check(p) \in Seq(X)
    BY <1>2, <1>4, <1>5, <1>7
  <2>2. check(check(check(Stop("exit")))) \in Seq(X)
    BY <1>2, <2>1
  <2>. QED  BY <1>2, <1>3, <1>5, <1>7, <2>2 DEF OpcStart
<1>11. OpcStop(c) \in Seq(X) /\ OpcCleanup(c) \in Seq(X)
  BY <1>5, <1>6, <1>7 DEF OpcStop, OpcCleanup
<1>. QED  BY <1>0, <1>8, <1>9, <1>11

LEMMA ProviderPrograms ==
  ASSUME NEW c \in [kind : {"rtds", "providerdata"}, host : VM, opts : Opts],
         NEW N, Solver \in N, "case" \in N
  PROVE  /\ RtdsConfigure(c) \in Seq(Safe(N)) /\ RtdsStart(c) \in Seq(Safe(N))
         /\ RtdsStop(c) \in Seq(Safe(N)) /\ RtdsCleanup(c) \in Seq(Safe(N))
         /\ ProviderConfigure(c) \in Seq(Safe(N)) /\ ProviderStart(c) \in Seq(Safe(N))
         /\ ProviderStop(c) \in Seq(Safe(N))
<1>. DEFINE X == Safe(N)
<1>0. X = Safe(N)
  OBVIOUS
<1>1. c.host \in VM /\ Plain(N) \subseteq X
  BY DEF Plain
<1>. HIDE DEF X
<1>2. /\ {"case", Solver, "csv", "solver-log", "config.ini", "linux"} \subseteq Word
      /\ Record \notin {"csv", "solver-log", "config.ini"}
  BY DEF Word, Solver, Record
<1>3. /\ Stop("exit") \in Seq(X) /\ Attempt("raise") \in Seq(X) /\ Attempt("exit") \in Seq(X)
      /\ Sleep(30) \in Seq(X) /\ Sleep(80) \in Seq(X)
      /\ EnsureRunning(c.host) \in Seq(X) /\ Write("config.ini") \in Seq(X)
  BY <1>1, <1>2, Services DEF Fail
<1>4. /\ On("case", {Host}, "exit") \in Seq(X)
      /\ Off({"case"}, {Host}, "ignore") \in Seq(X) /\ Off({"case"}, {Host}, "exit") \in Seq(X)
  <2>1. /\ {Host} \in Where /\ {"case"} \in Texts /\ {"case"} \subseteq N
        /\ {"exit", "ignore"} \subseteq Fail
    BY <1>2 DEF Where, Texts, Fail
  <2>. QED  BY <1>1, <1>2, <2>1, Services
<1>5. /\ Exec("kill", {Solver}, {}) \in Seq(X) /\ Exec("remove", {}, {"csv"}) \in Seq(X)
      /\ Exec("append", {Solver}, {"csv", "solver-log"}) \in Seq(X)
  <2>1. /\ {Solver} \in Texts /\ {} \in Texts /\ {"csv"} \in Texts /\ {"csv", "solver-log"} \in Texts
        /\ {Solver} \subseteq N /\ {"kill", "append", "remove"} \subseteq Acts
    BY <1>2 DEF Texts, Acts
  <2>. QED  BY <1>1, <2>1, Commands
<1>6. /\ Run \in Seq(X) /\ Send \in Seq(X) /\ Query \in Seq(X) /\ Ps(c.host) \in Seq(X)
      /\ RecvFile(c.host, <<"csv">>) \in Seq(X) /\ RecvFile(c.host, <<"solver-log">>) \in Seq(X)
      /\ DeleteFile(c.host, "solver-log", "linux") \in Seq(X)
  BY <1>1, <1>2, Helpers
<1>7. \A p \in Seq(X) : /\ If(c.host, Solver, p) \in Seq(X) /\ Unless(c.host, Solver, p) \in Seq(X)
                        /\ Mishap(p) \in Seq(X)
  BY <1>0, <1>1, <1>2, Controls
<1>8. \A p \in Seq(X) : /\ RunAndCheck(c.host, p, 50) \in Seq(X) /\ ExecWait(c.host, p, 0) \in Seq(X)
                        /\ \A b : When(b, p) \in Seq(X)
  BY <1>1, Helpers
<1>9. \A p, q \in Seq(X) : p \o q \in Seq(X)
  BY Joined
<1>10. StopCase(TRUE) \in Seq(X) /\ StopCase(FALSE) \in Seq(X)
  BY <1>3, <1>4, <1>9 DEF StopCase
<1>11. StartCase(c) \in Seq(X) /\ StopProvider(c) \in Seq(X) /\ RecvConfig \in Seq(X)
  BY <1>3, <1>4, <1>5, <1>6, <1>7, <1>8, <1>9, <1>10 DEF StartCase, StopProvider, RecvConfig
<1>12. EnsureProvider(c) \in Seq(X) /\ CheckNtp(c) \in Seq(X) /\ CheckProvider(c) \in Seq(X)
  BY <1>3, <1>5, <1>6, <1>7, <1>8, <1>9 DEF EnsureProvider, CheckNtp, CheckProvider
<1>13. FetchProvider(c) \in Seq(X)
  BY <1>6, <1>8, <1>9, <1>11 DEF FetchProvider
<1>14. RtdsConfigure(c) \in Seq(X) /\ RtdsStart(c) \in Seq(X)
  BY <1>3, <1>6, <1>8, <1>9, <1>11, <1>12 DEF RtdsConfigure, RtdsStart
<1>15. RtdsStop(c) \in Seq(X) /\ RtdsCleanup(c) \in Seq(X)
  BY <1>5, <1>6, <1>8, <1>9, <1>10, <1>11, <1>13 DEF RtdsStop, RtdsCleanup
<1>16. /\ ProviderConfigure(c) \in Seq(X) /\ ProviderStart(c) \in Seq(X)
       /\ ProviderStop(c) \in Seq(X)
  BY <1>3, <1>6, <1>8, <1>9, <1>11, <1>12, <1>13 DEF ProviderConfigure, ProviderStart, ProviderStop
<1>. QED  BY <1>0, <1>14, <1>15, <1>16

LEMMA CalderaPrograms ==
  ASSUME NEW c \in [kind : {"caldera"}, server : VM, names : Seq(STRING)], NEW N
  PROVE  CalderaStage(c) \in Seq(Safe(N))
<1>. DEFINE X == Safe(N)
<1>0. X = Safe(N)
  OBVIOUS
<1>1. c.server \in VM /\ c.names \in Seq(STRING) /\ Plain(N) \subseteq X
  BY DEF Plain
<1>. HIDE DEF X
<1>2. "caldera-report" \in Word \ {Record}
  BY DEF Word, Record
<1>3. /\ Attempt("raise") \in Seq(X) /\ Attempt("exit") \in Seq(X) /\ Sleep(100) \in Seq(X)
      /\ Write("caldera-report") \in Seq(X)
  BY <1>1, <1>2, Services DEF Fail
<1>4. Filter({c.server}) \in Seq(X) /\ Await({c.server}, 0, 0, "ignore") \in Seq(X)
  <2>1. {c.server} \in Where /\ "ignore" \in Fail
    BY <1>1 DEF Where, Fail
  <2>. QED  BY <1>1, <2>1, Commands
<1>5. Run \in Seq(X) /\ RunAndCheck(c.server, Run, 0) \in Seq(X)
  BY <1>1, Helpers
<1>6. \A p, q \in Seq(X) : p \o q \in Seq(X)
  BY Joined
<1>7. ApiCall(c) \in Seq(X)
  BY <1>3, <1>4, <1>5, <1>6 DEF ApiCall
<1>. DEFINE s == [i \in DOMAIN c.names |-> ApiCall(c) \o Attempt("exit")]
<1>8. \A i \in DOMAIN c.names : s[i] \in Seq(X)
  BY <1>3, <1>6, <1>7
<1>9. s = [i \in DOMAIN c.names |-> s[i]]
  OBVIOUS
<1>. HIDE DEF s
<1>10. FlattenSeq(s) \in Seq(X)
  BY <1>1, <1>8, <1>9, Looped
<1>11. Until(Sleep(100) \o ApiCall(c)) \in Seq(X)
  BY <1>0, <1>3, <1>6, <1>7, Controls
<1>. QED  BY <1>0, <1>3, <1>6, <1>7, <1>10, <1>11 DEF CalderaStage, For, s

LEMMA ArtPrograms ==
  ASSUME NEW c \in [kind : {"art"}, vms : Seq(VM), results : Seq(STRING), opts : Opts],
         NEW f \in STRING \ {Record}, NEW N
  PROVE  ArtStart(c, f) \in Seq(Safe(N))
<1>. DEFINE X == Safe(N)
<1>0. X = Safe(N)
  OBVIOUS
<1>1. c.vms \in Seq(VM) /\ Plain(N) \subseteq X /\ f \in Word
  BY DEF Plain, Word
<1>. HIDE DEF X
<1>2. \A p, q \in Seq(X) : p \o q \in Seq(X)
  BY Joined
<1>3. Attempt("raise") \in Seq(X) /\ Attempt("exit") \in Seq(X) /\ Stop("raise") \in Seq(X)
  BY <1>1, Services DEF Fail
<1>4. Run \in Seq(X) /\ Send \in Seq(X) /\ \A p \in Seq(X) : \A b : When(b, p) \in Seq(X)
  BY <1>1, Helpers
<1>5. Exec("run", {}, {f}) \in Seq(X)
  <2>1. {} \in Texts /\ {f} \in Texts /\ {} \subseteq N /\ "run" \in Acts
    BY <1>1 DEF Texts, Acts
  <2>. QED  BY <1>1, <2>1, Commands
<1>6. Mishap(Stop("raise")) \in Seq(X)
  BY <1>0, <1>3, Controls
<1>7. ASSUME NEW v \in VM
      PROVE  /\ Filter({v}) \in Seq(X) /\ ExecWait(v, Exec("run", {}, {f}), 0) \in Seq(X)
             /\ Recv(v, f, "exit") \in Seq(X)
  <2>1. {v} \in Where /\ "exit" \in Fail
    BY DEF Where, Fail
  <2>2. Filter({v}) \in Seq(X)
    BY <1>1, <2>1, Commands
  <2>3. ExecWait(v, Exec("run", {}, {f}), 0) \in Seq(X)
    BY <1>1, <1>5, Helpers
  <2>4. Recv(v, f, "exit") \in Seq(X)
    BY <1>1, <2>1, Services
  <2>. QED  BY <2>2, <2>3, <2>4
<1>. DEFINE check == When("validator" \in c.opts,
                          Attempt("raise") \o When("abort" \in c.opts, Mishap(Stop("raise"))))
            s == [i \in DOMAIN c.vms |->
                    Send \o Filter({c.vms[i]}) \o Run
                      \o ExecWait(c.vms[i], Exec("run", {}, {f}), 0) \o Recv(c.vms[i], f, "exit")
                      \o check]
<1>8. check \in Seq(X)
  BY <1>2, <1>3, <1>4, <1>6
<1>. HIDE DEF check
<1>9. \A i \in DOMAIN c.vms : s[i] \in Seq(X)
  <2>1. \A i \in DOMAIN c.vms : c.vms[i] \in VM
    BY <1>1, LenProperties, ElementOfSeq
  <2>. QED  BY <1>2, <1>4, <1>7, <1>8, <2>1
<1>10. s = [i \in DOMAIN c.vms |-> s[i]]
  OBVIOUS
<1>. HIDE DEF s
<1>11. FlattenSeq(s) \in Seq(X)
  BY <1>1, <1>9, <1>10, Looped
<1>. QED  BY <1>0, <1>2, <1>3, <1>11 DEF ArtStart, For, s, check

LEMMA SnortPrograms ==
  ASSUME NEW c \in [kind : {"snort"}, host : VM, wait : Nat, configs : Seq(STRING), opts : Opts],
         NEW N, "snort" \in N
  PROVE  /\ SnortConfigure(c) \in Seq(Safe(N)) /\ SnortStart(c) \in Seq(Safe(N))
         /\ SnortStop(c) \in Seq(Safe(N)) /\ SnortCleanup(c) \in Seq(Safe(N))
<1>. DEFINE X == Safe(N)
<1>0. X = Safe(N)
  OBVIOUS
<1>1. c.host \in VM /\ c.wait \in Nat /\ c.configs \in Seq(STRING) /\ Plain(N) \subseteq X
  BY DEF Plain
<1>. HIDE DEF X
<1>2. \A p, q \in Seq(X) : p \o q \in Seq(X)
  BY Joined
<1>3. /\ {"snort", "sniff", "alert", "snort.log", "snort.stats"} \subseteq Word
      /\ Record \notin {"alert", "snort.log", "snort.stats"}
  BY DEF Word, Record
<1>4. Filter({c.host}) \in Seq(X)
  <2>1. {c.host} \in Where
    BY <1>1 DEF Where
  <2>. QED  BY <1>1, <2>1, Commands
<1>5. /\ Exec("up", {"sniff"}, {}) \in Seq(X)
      /\ Exec("remove", {}, {"alert", "snort.log", "snort.stats"}) \in Seq(X)
      /\ Exec("append", {"snort"}, {"alert", "snort.log", "snort.stats"}) \in Seq(X)
      /\ Exec("remove", {}, {"snort.log"}) \in Seq(X)
      /\ Exec("remove", {}, {"snort.stats"}) \in Seq(X)
  <2>1. /\ {"up", "remove", "append"} \subseteq Acts
        /\ {} \in Texts /\ {"sniff"} \in Texts /\ {"snort"} \in Texts /\ {"snort.log"} \in Texts
        /\ {"snort.stats"} \in Texts /\ {"alert", "snort.log", "snort.stats"} \in Texts
        /\ {"snort"} \subseteq N
    BY <1>3 DEF Acts, Texts
  <2>. QED  BY <1>1, <2>1, Commands
<1>6. /\ Attempt("raise") \in Seq(X) /\ Sleep(c.wait) \in Seq(X)
      /\ \A f \in {"alert", "snort.log", "snort.stats"} : Recv(c.host, f, "raise") \in Seq(X)
  BY <1>1, <1>3, Services DEF Fail
<1>7. /\ Run \in Seq(X) /\ Send \in Seq(X) /\ KillProcess({c.host}, "snort") \in Seq(X)
      /\ \A p \in Seq(X) : \A b : When(b, p) \in Seq(X)
  BY <1>1, <1>3, Helpers
<1>. DEFINE s == [i \in DOMAIN c.configs |-> Send]
            w == [i \in DOMAIN SnortLogs |-> Recv(c.host, SnortLogs[i], "raise")]
<1>8. s = [i \in DOMAIN c.configs |-> s[i]] /\ \A i \in DOMAIN c.configs : s[i] \in Seq(X)
  BY <1>7
<1>9. w = [i \in DOMAIN SnortLogs |-> w[i]] /\ \A i \in DOMAIN SnortLogs : w[i] \in Seq(X)
  BY <1>6 DEF SnortLogs
<1>10. SnortLogs \in Seq({"alert", "snort.log", "snort.stats"})
  BY DEF SnortLogs
<1>. HIDE DEF s, w
<1>11. FlattenSeq(s) \in Seq(X)
  BY <1>1, <1>8, Looped
<1>12. FlattenSeq(w) \in Seq(X)
  BY <1>9, <1>10, Looped
<1>13. SnortConfigure(c) \in Seq(X)
  BY <1>2, <1>4, <1>5, <1>7, <1>11 DEF SnortConfigure, For, s
<1>14. SnortStart(c) \in Seq(X) /\ SnortCleanup(c) \in Seq(X)
  BY <1>2, <1>4, <1>5, <1>7 DEF SnortStart, SnortCleanup
<1>15. SnortStop(c) \in Seq(X)
  BY <1>2, <1>6, <1>7, <1>12 DEF SnortStop, For, w
<1>. QED  BY <1>0, <1>13, <1>14, <1>15

LEMMA EttercapPrograms ==
  ASSUME NEW c \in [kind : {"ettercap"}, vms : Seq(VM), bare : SUBSET VM],
         NEW N, "ettercap" \in N
  PROVE  EttercapStart(c) \in Seq(Safe(N)) /\ EttercapStop(c) \in Seq(Safe(N))
<1>. DEFINE X == Safe(N)
<1>0. X = Safe(N)
  OBVIOUS
<1>1. c.vms \in Seq(VM) /\ Plain(N) \subseteq X
  BY DEF Plain
<1>2. \A i \in DOMAIN c.vms : c.vms[i] \in VM
  BY <1>1, LenProperties, ElementOfSeq
<1>. HIDE DEF X
<1>3. \A p, q \in Seq(X) : p \o q \in Seq(X)
  BY Joined
<1>4. {"ettercap", "tap"} \subseteq Word
  BY DEF Word
<1>5. Stop("raise") \in Seq(X)
  BY <1>1, Services DEF Fail
<1>6. Exec("up", {"tap"}, {}) \in Seq(X) /\ Exec("start", {"ettercap"}, {}) \in Seq(X)
  <2>1. /\ {"up", "start"} \subseteq Acts /\ {} \in Texts /\ {"tap"} \in Texts
        /\ {"ettercap"} \in Texts /\ {"ettercap"} \subseteq N
    BY <1>4 DEF Acts, Texts
  <2>. QED  BY <1>1, <2>1, Commands
<1>7. \A v \in VM : Filter({v}) \in Seq(X)
  <2>1. \A v \in VM : {v} \in Where
    BY DEF Where
  <2>. QED  BY <1>1, <2>1, Commands
<1>8. \A v \in VM : KillProcess({v}, "ettercap") \in Seq(X)
  BY <1>1, <1>4, Helpers
<1>. DEFINE s == [i \in DOMAIN c.vms |->
                    IF c.vms[i] \in c.bare THEN Stop("raise")
                    ELSE Filter({c.vms[i]}) \o Exec("up", {"tap"}, {})
                           \o Exec("start", {"ettercap"}, {})]
            w == [i \in DOMAIN c.vms |-> KillProcess({c.vms[i]}, "ettercap")]
<1>9. \A i \in DOMAIN c.vms : s[i] \in Seq(X) /\ w[i] \in Seq(X)
  BY <1>2, <1>3, <1>5, <1>6, <1>7, <1>8
<1>10. s = [i \in DOMAIN c.vms |-> s[i]] /\ w = [i \in DOMAIN c.vms |-> w[i]]
  OBVIOUS
<1>. HIDE DEF s, w
<1>11. FlattenSeq(s) \in Seq(X) /\ FlattenSeq(w) \in Seq(X)
  BY <1>1, <1>9, <1>10, Looped
<1>. QED  BY <1>0, <1>11 DEF EttercapStart, EttercapStop, For, s, w

\* A loop over VMs that kills, sends or runs.
Traffic ==
  [host : VM, background : Seq(VM), malware : Seq(VM), duration : Nat]

LEMMA TrafficPrograms ==
  ASSUME NEW c \in [kind : {"trafficgen"}, targets : Seq(Traffic)],
         NEW N, {"traffic-server", "background-gen", "malware-gen"} \subseteq N
  PROVE  /\ TrafficConfigure(c) \in Seq(Safe(N)) /\ TrafficStart(c) \in Seq(Safe(N))
         /\ TrafficStop(c) \in Seq(Safe(N)) /\ TrafficCleanup(c) \in Seq(Safe(N))
<1>. DEFINE X == Safe(N)
<1>0. X = Safe(N)
  OBVIOUS
<1>1. c.targets \in Seq(Traffic) /\ Plain(N) \subseteq X
  BY DEF Plain
<1>. HIDE DEF X
<1>2. \A p, q \in Seq(X) : p \o q \in Seq(X)
  BY Joined
<1>3. {"traffic-server", "background-gen", "malware-gen"} \subseteq Word
  BY DEF Word
<1>4. Stop("raise") \in Seq(X) /\ \A d \in Nat : Sleep(d) \in Seq(X)
  BY <1>1, Services DEF Fail
<1>5. /\ Exec("start", {"traffic-server"}, {}) \in Seq(X)
      /\ Spawn({"background-gen"}, {}) \in Seq(X) /\ Spawn({"malware-gen"}, {}) \in Seq(X)
  <2>1. /\ "start" \in Acts /\ {} \in Texts /\ {"traffic-server"} \in Texts
        /\ {"background-gen"} \in Texts /\ {"malware-gen"} \in Texts
        /\ {"traffic-server"} \subseteq N /\ {"background-gen"} \subseteq N
        /\ {"malware-gen"} \subseteq N
    BY <1>3 DEF Acts, Texts
  <2>. QED  BY <1>1, <2>1, Commands DEF Spawn
<1>6. Run \in Seq(X) /\ Send \in Seq(X)
  BY <1>1, Helpers
<1>7. ASSUME NEW v \in VM
      PROVE  /\ Filter({v}) \in Seq(X)
             /\ \A n \in {"traffic-server", "background-gen", "malware-gen"} :
                  KillProcess({v}, n) \in Seq(X)
  <2>1. {v} \in Where
    BY DEF Where
  <2>2. Filter({v}) \in Seq(X)
    BY <1>1, <2>1, Commands
  <2>. QED  BY <1>1, <1>3, <2>2, Helpers
<1>8. ASSUME NEW x \in Seq(VM), NEW s, s = [i \in DOMAIN x |-> s[i]],
             \A i \in DOMAIN x : x[i] \in VM => s[i] \in Seq(X)
      PROVE  FlattenSeq(s) \in Seq(X)
  <2>1. \A i \in DOMAIN x : x[i] \in VM
    BY LenProperties, ElementOfSeq
  <2>. QED  BY <1>8, <2>1, Looped
<1>9. ASSUME NEW s, s = [i \in DOMAIN c.targets |-> s[i]],
             \A i \in DOMAIN c.targets : c.targets[i] \in Traffic => s[i] \in Seq(X)
      PROVE  FlattenSeq(s) \in Seq(X)
  <2>1. \A i \in DOMAIN c.targets : c.targets[i] \in Traffic
    BY <1>1, LenProperties, ElementOfSeq
  <2>. QED  BY <1>1, <1>9, <2>1, Looped
<1>10. TrafficConfigure(c) \in Seq(X)
  <2>. DEFINE B(x) == [i \in DOMAIN x.background |-> Send]
              M(x) == [i \in DOMAIN x.malware |-> Send]
              s == [i \in DOMAIN c.targets |->
                      Send \o FlattenSeq(B(c.targets[i])) \o FlattenSeq(M(c.targets[i]))]
  <2>1. ASSUME NEW x \in Traffic PROVE FlattenSeq(B(x)) \in Seq(X) /\ FlattenSeq(M(x)) \in Seq(X)
    <3>1. x.background \in Seq(VM) /\ x.malware \in Seq(VM)
      BY DEF Traffic
    <3>2. B(x) = [i \in DOMAIN x.background |-> B(x)[i]] /\ M(x) = [i \in DOMAIN x.malware |-> M(x)[i]]
      OBVIOUS
    <3>3. /\ \A i \in DOMAIN x.background : B(x)[i] \in Seq(X)
          /\ \A i \in DOMAIN x.malware : M(x)[i] \in Seq(X)
      BY <1>6
    <3>. HIDE DEF B, M
    <3>. QED  BY <1>8, <3>1, <3>2, <3>3
  <2>. HIDE DEF B, M
  <2>2. \A i \in DOMAIN c.targets : c.targets[i] \in Traffic => s[i] \in Seq(X)
    BY <1>2, <1>6, <2>1
  <2>3. s = [i \in DOMAIN c.targets |-> s[i]]
    OBVIOUS
  <2>. HIDE DEF s
  <2>4. FlattenSeq(s) \in Seq(X)
    BY <1>9, <2>2, <2>3
  <2>. QED  BY <2>4 DEF TrafficConfigure, For, s, B, M
<1>11. TrafficStart(c) \in Seq(X)
  <2>. DEFINE B(x) == [i \in DOMAIN x.background |->
                         Filter({x.host}) \o Exec("start", {"traffic-server"}, {})
                           \o Filter({x.background[i]}) \o Spawn({"background-gen"}, {})]
              M(x) == [i \in DOMAIN x.malware |->
                         IF x.background = <<>> THEN Stop("raise")
                         ELSE Filter({x.malware[i]}) \o Spawn({"malware-gen"}, {})]
              s == [i \in DOMAIN c.targets |->
                      FlattenSeq(B(c.targets[i])) \o FlattenSeq(M(c.targets[i]))
                        \o Sleep(c.targets[i].duration + 50)]
  <2>1. ASSUME NEW x \in Traffic PROVE FlattenSeq(B(x)) \in Seq(X) /\ FlattenSeq(M(x)) \in Seq(X)
    <3>1. x.background \in Seq(VM) /\ x.malware \in Seq(VM) /\ x.host \in VM
      BY DEF Traffic
    <3>2. B(x) = [i \in DOMAIN x.background |-> B(x)[i]] /\ M(x) = [i \in DOMAIN x.malware |-> M(x)[i]]
      OBVIOUS
    <3>3. /\ \A i \in DOMAIN x.background : x.background[i] \in VM => B(x)[i] \in Seq(X)
          /\ \A i \in DOMAIN x.malware : x.malware[i] \in VM => M(x)[i] \in Seq(X)
      BY <1>2, <1>4, <1>5, <1>7, <3>1
    <3>. HIDE DEF B, M
    <3>. QED  BY <1>8, <3>1, <3>2, <3>3
  <2>. HIDE DEF B, M
  <2>2. \A i \in DOMAIN c.targets : c.targets[i] \in Traffic => s[i] \in Seq(X)
    <3>1. \A x \in Traffic : Sleep(x.duration + 50) \in Seq(X)
      BY <1>4 DEF Traffic
    <3>. QED  BY <1>2, <2>1, <3>1
  <2>3. s = [i \in DOMAIN c.targets |-> s[i]]
    OBVIOUS
  <2>. HIDE DEF s
  <2>4. FlattenSeq(s) \in Seq(X)
    BY <1>9, <2>2, <2>3
  <2>. QED  BY <2>4 DEF TrafficStart, For, s, B, M
<1>12. TrafficStop(c) \in Seq(X)
  <2>. DEFINE B(x) == [i \in DOMAIN x.background |->
                         KillProcess({x.host}, "traffic-server")
                           \o KillProcess({x.background[i]}, "background-gen")]
              M(x) == [i \in DOMAIN x.malware |-> KillProcess({x.malware[i]}, "malware-gen")]
              s == [i \in DOMAIN c.targets |->
                      FlattenSeq(B(c.targets[i])) \o FlattenSeq(M(c.targets[i]))]
  <2>1. ASSUME NEW x \in Traffic PROVE FlattenSeq(B(x)) \in Seq(X) /\ FlattenSeq(M(x)) \in Seq(X)
    <3>1. x.background \in Seq(VM) /\ x.malware \in Seq(VM) /\ x.host \in VM
      BY DEF Traffic
    <3>2. B(x) = [i \in DOMAIN x.background |-> B(x)[i]] /\ M(x) = [i \in DOMAIN x.malware |-> M(x)[i]]
      OBVIOUS
    <3>3. /\ \A i \in DOMAIN x.background : x.background[i] \in VM => B(x)[i] \in Seq(X)
          /\ \A i \in DOMAIN x.malware : x.malware[i] \in VM => M(x)[i] \in Seq(X)
      BY <1>2, <1>7, <3>1
    <3>. HIDE DEF B, M
    <3>. QED  BY <1>8, <3>1, <3>2, <3>3
  <2>. HIDE DEF B, M
  <2>2. \A i \in DOMAIN c.targets : c.targets[i] \in Traffic => s[i] \in Seq(X)
    BY <1>2, <2>1
  <2>3. s = [i \in DOMAIN c.targets |-> s[i]]
    OBVIOUS
  <2>. HIDE DEF s
  <2>4. FlattenSeq(s) \in Seq(X)
    BY <1>9, <2>2, <2>3
  <2>. QED  BY <2>4 DEF TrafficStop, For, s, B, M
<1>13. TrafficCleanup(c) \in Seq(X)
  <2>. DEFINE B(x) == [i \in DOMAIN x.background |->
                         Filter({x.host}) \o Run \o Filter({x.background[i]}) \o Run]
              M(x) == [i \in DOMAIN x.malware |-> Filter({x.malware[i]}) \o Run]
              s == [i \in DOMAIN c.targets |->
                      FlattenSeq(B(c.targets[i])) \o FlattenSeq(M(c.targets[i]))]
  <2>1. ASSUME NEW x \in Traffic PROVE FlattenSeq(B(x)) \in Seq(X) /\ FlattenSeq(M(x)) \in Seq(X)
    <3>1. x.background \in Seq(VM) /\ x.malware \in Seq(VM) /\ x.host \in VM
      BY DEF Traffic
    <3>2. B(x) = [i \in DOMAIN x.background |-> B(x)[i]] /\ M(x) = [i \in DOMAIN x.malware |-> M(x)[i]]
      OBVIOUS
    <3>3. /\ \A i \in DOMAIN x.background : x.background[i] \in VM => B(x)[i] \in Seq(X)
          /\ \A i \in DOMAIN x.malware : x.malware[i] \in VM => M(x)[i] \in Seq(X)
      BY <1>2, <1>6, <1>7, <3>1
    <3>. HIDE DEF B, M
    <3>. QED  BY <1>8, <3>1, <3>2, <3>3
  <2>. HIDE DEF B, M
  <2>2. \A i \in DOMAIN c.targets : c.targets[i] \in Traffic => s[i] \in Seq(X)
    BY <1>2, <2>1
  <2>3. s = [i \in DOMAIN c.targets |-> s[i]]
    OBVIOUS
  <2>. HIDE DEF s
  <2>4. FlattenSeq(s) \in Seq(X)
    BY <1>9, <2>2, <2>3
  <2>. QED  BY <2>4 DEF TrafficCleanup, For, s, B, M
<1>. QED  BY <1>0, <1>10, <1>11, <1>12, <1>13

LEMMA TcpdumpPrograms ==
  ASSUME NEW c \in [kind : {"tcpdump"}, vms : Seq(VM)], NEW N, "tcpdump" \in N
  PROVE  TcpdumpStart(c) \in Seq(Safe(N)) /\ TcpdumpStop(c) \in Seq(Safe(N))
<1>. DEFINE X == Safe(N)
<1>0. X = Safe(N)
  OBVIOUS
<1>1. c.vms \in Seq(VM) /\ Plain(N) \subseteq X
  BY DEF Plain
<1>2. \A i \in DOMAIN c.vms : c.vms[i] \in VM
  BY <1>1, LenProperties, ElementOfSeq
<1>. HIDE DEF X
<1>3. \A p, q \in Seq(X) : p \o q \in Seq(X)
  BY Joined
<1>4. {"tcpdump", "tap", "dump.pcap"} \subseteq Word /\ "dump.pcap" # Record
  BY DEF Word, Record
<1>5. /\ Exec("up", {"tap"}, {}) \in Seq(X) /\ Exec("start", {"tcpdump"}, {"dump.pcap"}) \in Seq(X)
      /\ Exec("kill", {"tcpdump"}, {}) \in Seq(X) /\ Exec("remove", {}, {"dump.pcap"}) \in Seq(X)
  <2>1. /\ {"up", "start", "kill", "remove"} \subseteq Acts /\ {} \in Texts /\ {"tap"} \in Texts
        /\ {"tcpdump"} \in Texts /\ {"dump.pcap"} \in Texts /\ {"tcpdump"} \subseteq N
    BY <1>4 DEF Acts, Texts
  <2>. QED  BY <1>1, <2>1, Commands
<1>6. Attempt("exit") \in Seq(X) /\ \A v \in VM : Recv(v, "dump.pcap", "raise") \in Seq(X)
  BY <1>1, <1>4, Services DEF Fail
<1>7. \A v \in VM : Filter({v}) \in Seq(X)
  <2>1. \A v \in VM : {v} \in Where
    BY DEF Where
  <2>. QED  BY <1>1, <2>1, Commands
<1>8. Run \in Seq(X) /\ \A v \in VM, p \in Seq(X) : ExecWait(v, p, 0) \in Seq(X)
  BY <1>1, Helpers
<1>. DEFINE s == [i \in DOMAIN c.vms |->
                    ExecWait(c.vms[i], Run, 0) \o Attempt("exit")
                      \o Filter({c.vms[i]}) \o Exec("up", {"tap"}, {})
                      \o Exec("start", {"tcpdump"}, {"dump.pcap"})]
            w == [i \in DOMAIN c.vms |->
                    ExecWait(c.vms[i], Exec("kill", {"tcpdump"}, {}), 0)
                      \o Recv(c.vms[i], "dump.pcap", "raise") \o Exec("remove", {}, {"dump.pcap"})]
<1>9. \A i \in DOMAIN c.vms : s[i] \in Seq(X) /\ w[i] \in Seq(X)
  BY <1>2, <1>3, <1>5, <1>6, <1>7, <1>8
<1>10. s = [i \in DOMAIN c.vms |-> s[i]] /\ w = [i \in DOMAIN c.vms |-> w[i]]
  OBVIOUS
<1>. HIDE DEF s, w
<1>11. FlattenSeq(s) \in Seq(X) /\ FlattenSeq(w) \in Seq(X)
  BY <1>1, <1>9, <1>10, Looped
<1>. QED  BY <1>0, <1>11 DEF TcpdumpStart, TcpdumpStop, For, s, w

LEMMA VmstatsPrograms ==
  ASSUME NEW c \in [kind : {"vmstats"}, vms : Seq(VM), opts : Opts], NEW N, "vmstat" \in N
  PROVE  VmstatsStart(c) \in Seq(Safe(N)) /\ VmstatsStop(c) \in Seq(Safe(N))
<1>. DEFINE X == Safe(N)
<1>0. X = Safe(N)
  OBVIOUS
<1>1. c.vms \in Seq(VM) /\ Plain(N) \subseteq X
  BY DEF Plain
<1>2. \A i \in DOMAIN c.vms : c.vms[i] \in VM
  BY <1>1, LenProperties, ElementOfSeq
<1>. HIDE DEF X
<1>3. \A p, q \in Seq(X) : p \o q \in Seq(X)
  BY Joined
<1>4. /\ {"vmstat", "vmstat.out", "vm_stats.jsonl"} \subseteq Word
      /\ Record \notin {"vmstat.out", "vm_stats.jsonl"}
  BY DEF Word, Record
<1>5. /\ Exec("append", {"vmstat"}, {"vmstat.out"}) \in Seq(X)
      /\ Exec("kill", {"vmstat"}, {}) \in Seq(X) /\ Exec("remove", {}, {"vmstat.out"}) \in Seq(X)
  <2>1. /\ {"append", "kill", "remove"} \subseteq Acts /\ {} \in Texts
        /\ {"vmstat"} \in Texts /\ {"vmstat.out"} \in Texts /\ {"vmstat"} \subseteq N
    BY <1>4 DEF Acts, Texts
  <2>. QED  BY <1>1, <2>1, Commands
<1>6. /\ Tagged("vmstat", Linux) \in Seq(X) /\ \A v \in VM : Tag("vmstat", {v}) \in Seq(X)
  <2>1. Linux \in Where /\ \A v \in VM : {v} \in Where
    BY DEF Where, Linux
  <2>. QED  BY <1>1, <1>4, <2>1, Commands
<1>7. /\ Attempt("raise") \in Seq(X) /\ Stop("raise") \in Seq(X) /\ Sleep(50) \in Seq(X)
      /\ Write("vm_stats.jsonl") \in Seq(X) /\ \A v \in VM : Recv(v, "vmstat.out", "exit") \in Seq(X)
  BY <1>1, <1>4, Services DEF Fail
<1>8. ClearFilter \in Seq(X)
  BY <1>1, Helpers
<1>. DEFINE s == [i \in DOMAIN c.vms |-> Tag("vmstat", {c.vms[i]})]
            w == [i \in DOMAIN c.vms |-> Recv(c.vms[i], "vmstat.out", "exit")]
<1>9. \A i \in DOMAIN c.vms : s[i] \in Seq(X) /\ w[i] \in Seq(X)
  BY <1>2, <1>6, <1>7
<1>10. s = [i \in DOMAIN c.vms |-> s[i]] /\ w = [i \in DOMAIN c.vms |-> w[i]]
  OBVIOUS
<1>. HIDE DEF s, w
<1>11. FlattenSeq(s) \in Seq(X) /\ FlattenSeq(w) \in Seq(X)
  BY <1>1, <1>9, <1>10, Looped
<1>12. VmstatsStart(c) \in Seq(X)
  BY <1>3, <1>5, <1>6, <1>7, <1>8, <1>11 DEF VmstatsStart, For, s
<1>13. VmstatsStop(c) \in Seq(X)
  BY <1>3, <1>5, <1>6, <1>7, <1>8, <1>11 DEF VmstatsStop, For, w
<1>. QED  BY <1>0, <1>12, <1>13

LEMMA QosPrograms ==
  ASSUME NEW c \in [kind : {"qos"},
                    limits : Seq([vm : VM, loss : Nat, factor : Nat, others : BOOLEAN])],
         NEW count, NEW N, "qos" \in N
  PROVE  QosStart(c, count) \in Seq(Safe(N)) /\ QosStop(c) \in Seq(Safe(N))
<1>. DEFINE X == Safe(N)
            L == [vm : VM, loss : Nat, factor : Nat, others : BOOLEAN]
<1>0. X = Safe(N)
  OBVIOUS
<1>1. c.limits \in Seq(L) /\ Plain(N) \subseteq X
  BY DEF Plain
<1>2. \A i \in DOMAIN c.limits : c.limits[i].vm \in VM
  <2>1. \A x \in L : x.vm \in VM
    OBVIOUS
  <2>. HIDE DEF L
  <2>2. \A i \in DOMAIN c.limits : c.limits[i] \in L
    BY <1>1, LenProperties, ElementOfSeq
  <2>. QED  BY <2>1, <2>2
<1>. HIDE DEF X
<1>3. \A p, q \in Seq(X) : p \o q \in Seq(X)
  BY Joined
<1>4. {"qos", "qos_values_applied.json"} \subseteq Word /\ "qos_values_applied.json" # Record
  BY DEF Word, Record
<1>5. Write("qos_values_applied.json") \in Seq(X) /\ Stop("exit") \in Seq(X)
  BY <1>1, <1>4, Services DEF Fail
<1>6. \A v \in VM : On("qos", {v}, "raise") \in Seq(X) /\ Off({"qos"}, {v}, "raise") \in Seq(X)
  <2>1. /\ "raise" \in Fail /\ {"qos"} \in Texts /\ {"qos"} \subseteq N
        /\ \A v \in VM : {v} \in Where
    BY <1>4 DEF Where, Texts, Fail
  <2>. QED  BY <1>1, <1>4, <2>1, Services
<1>7. \A p \in Seq(X) : \A b : When(b, p) \in Seq(X)
  BY <1>1, Helpers
<1>. DEFINE s == [i \in DOMAIN c.limits |->
                    When(c.limits[i].loss > 0,
                         IF Loss(c.limits[i], count) > 999 THEN Stop("exit")
                         ELSE On("qos", {c.limits[i].vm}, "raise"))
                      \o When(c.limits[i].others, On("qos", {c.limits[i].vm}, "raise"))]
            w == [i \in DOMAIN c.limits |-> Off({"qos"}, {c.limits[i].vm}, "raise")]
<1>8. \A i \in DOMAIN c.limits : s[i] \in Seq(X) /\ w[i] \in Seq(X)
  <2>1. ASSUME NEW i \in DOMAIN c.limits PROVE s[i] \in Seq(X)
    <3>1. On("qos", {c.limits[i].vm}, "raise") \in Seq(X)
      BY <1>2, <1>6
    <3>2. (IF Loss(c.limits[i], count) > 999 THEN Stop("exit")
           ELSE On("qos", {c.limits[i].vm}, "raise")) \in Seq(X)
      BY <1>5, <3>1
    <3>3. /\ When(c.limits[i].loss > 0,
                  IF Loss(c.limits[i], count) > 999 THEN Stop("exit")
                  ELSE On("qos", {c.limits[i].vm}, "raise")) \in Seq(X)
          /\ When(c.limits[i].others, On("qos", {c.limits[i].vm}, "raise")) \in Seq(X)
      BY <1>7, <3>1, <3>2
    <3>. QED  BY <1>3, <3>3
  <2>. QED  BY <1>2, <1>6, <2>1
<1>9. s = [i \in DOMAIN c.limits |-> s[i]] /\ w = [i \in DOMAIN c.limits |-> w[i]]
  OBVIOUS
<1>. HIDE DEF s, w
<1>10. FlattenSeq(s) \in Seq(X) /\ FlattenSeq(w) \in Seq(X)
  BY <1>1, <1>8, <1>9, Looped
<1>. QED  BY <1>0, <1>3, <1>5, <1>10 DEF QosStart, QosStop, For, s, w

LEMMA PipePrograms ==
  ASSUME NEW c \in [kind : {"pipe"}, opts : Opts], NEW N, "pipe" \in N
  PROVE  PipeStart(c) \in Seq(Safe(N)) /\ PipeCleanup(c) \in Seq(Safe(N))
<1>. DEFINE X == Safe(N)
<1>0. X = Safe(N)
  OBVIOUS
<1>1. Plain(N) \subseteq X
  BY DEF Plain
<1>. HIDE DEF X
<1>2. \A p, q \in Seq(X) : p \o q \in Seq(X)
  BY Joined
<1>3. "pipe" \in Word
  BY DEF Word
<1>4. Stop("raise") \in Seq(X)
  BY <1>1, Services DEF Fail
<1>5. On("pipe", {Host}, "raise") \in Seq(X) /\ Off({"pipe"}, {Host}, "raise") \in Seq(X)
  <2>1. "raise" \in Fail /\ {"pipe"} \in Texts /\ {"pipe"} \subseteq N /\ {Host} \in Where
    BY <1>3 DEF Where, Texts, Fail
  <2>. QED  BY <1>1, <1>3, <2>1, Services
<1>6. \A p \in Seq(X) : \A b : When(b, p) \in Seq(X)
  BY <1>1, Helpers
<1>. QED  BY <1>0, <1>2, <1>4, <1>5, <1>6 DEF PipeStart, PipeCleanup

LEMMA PcapPrograms ==
  ASSUME NEW c \in [kind : {"pcap"}, vms : Seq(VM), targets : Seq(VM), opts : Opts],
         NEW N, {"capture", "bridge capture"} \subseteq N
  PROVE  PcapStart(c) \in Seq(Safe(N)) /\ PcapStop(c) \in Seq(Safe(N))
<1>. DEFINE X == Safe(N)
<1>0. X = Safe(N)
  OBVIOUS
<1>1. c.vms \in Seq(VM) /\ c.targets \in Seq(VM) /\ Plain(N) \subseteq X
  BY DEF Plain
<1>2. \A i \in DOMAIN c.vms : c.vms[i] \in VM
  BY <1>1, LenProperties, ElementOfSeq
<1>. HIDE DEF X
<1>3. \A p, q \in Seq(X) : p \o q \in Seq(X)
  BY Joined
<1>4. /\ {"capture", "bridge capture", "pcap", "merged.pcap", "pcap_metadata.json"} \subseteq Word
      /\ Record \notin {"capture", "merged.pcap", "pcap_metadata.json"}
  BY DEF Word, Record
<1>5. /\ Attempt("raise") \in Seq(X) /\ Attempt("exit") \in Seq(X)
      /\ Gather("pcap", "capture", "exit") \in Seq(X) /\ Write("capture") \in Seq(X)
      /\ Write("merged.pcap") \in Seq(X) /\ Write("pcap_metadata.json") \in Seq(X)
  BY <1>1, <1>4, Services DEF Fail
<1>6. /\ AllCaptures \in Seq(X)
      /\ \A v \in VM : On("capture", {v}, "raise") \in Seq(X) /\ Off({"capture"}, {v}, "raise") \in Seq(X)
  <2>1. /\ "raise" \in Fail /\ {"capture"} \in Texts /\ {"capture"} \subseteq N
        /\ {"capture", "bridge capture"} \in Texts
        /\ VM \cup {Host} \in Where /\ \A v \in VM : {v} \in Where
    BY <1>4 DEF Where, Texts, Fail
  <2>. QED  BY <1>1, <1>4, <2>1, Services DEF AllCaptures
<1>7. Query \in Seq(X) /\ \A p \in Seq(X) : \A b : When(b, p) \in Seq(X)
  BY <1>1, Helpers
<1>. DEFINE s == [i \in DOMAIN c.vms |-> On("capture", {c.vms[i]}, "raise") \o Write("capture")]
            w == [i \in DOMAIN c.vms |-> Off({"capture"}, {c.vms[i]}, "raise")]
            u == [i \in DOMAIN c.vms |-> Gather("pcap", "capture", "exit") \o Attempt("exit")]
            t == [i \in DOMAIN c.targets |-> Attempt("raise") \o Attempt("raise")]
<1>8. \A i \in DOMAIN c.vms : s[i] \in Seq(X) /\ w[i] \in Seq(X) /\ u[i] \in Seq(X)
  BY <1>2, <1>3, <1>5, <1>6
<1>9. \A i \in DOMAIN c.targets : t[i] \in Seq(X)
  BY <1>3, <1>5
<1>10. /\ s = [i \in DOMAIN c.vms |-> s[i]] /\ w = [i \in DOMAIN c.vms |-> w[i]]
       /\ u = [i \in DOMAIN c.vms |-> u[i]] /\ t = [i \in DOMAIN c.targets |-> t[i]]
  OBVIOUS
<1>. HIDE DEF s, w, u, t
<1>11. FlattenSeq(s) \in Seq(X) /\ FlattenSeq(w) \in Seq(X) /\ FlattenSeq(u) \in Seq(X)
  BY <1>1, <1>8, <1>10, Looped
<1>12. FlattenSeq(t) \in Seq(X)
  BY <1>1, <1>9, <1>10, Looped
<1>13. PcapStart(c) \in Seq(X)
  BY <1>3, <1>5, <1>6, <1>7, <1>11 DEF PcapStart, For, s
<1>14. MergeFlood(c) \in Seq(X)
  BY <1>3, <1>7, <1>12 DEF MergeFlood, Merge, Dedupe, For, t
<1>15. (IF c.targets = <<>> THEN Dedupe ELSE MergeFlood(c)) \in Seq(X)
  BY <1>7, <1>14 DEF Dedupe
<1>16. When("merge" \in c.opts,
            Merge \o When("dedupe" \in c.opts, IF c.targets = <<>> THEN Dedupe ELSE MergeFlood(c))
              \o Attempt("raise") \o Write("merged.pcap")) \in Seq(X)
  BY <1>3, <1>5, <1>7, <1>15 DEF Merge
<1>17. PcapStop(c) \in Seq(X)
  BY <1>3, <1>5, <1>6, <1>7, <1>11, <1>16 DEF PcapStop, For, w, u
<1>. QED  BY <1>0, <1>13, <1>17

LEMMA MmPrograms ==
  ASSUME NEW c \in [kind : {"mm"}, opts : Opts,
                    commands : [1..4 -> Seq([type : STRING, vm : VM \cup {Host}])]],
         NEW g \in 1..4,
         NEW N, {"capture", "bridge capture", "halted", "unplugged"} \subseteq N
  PROVE  MmStage(c, g) \in Seq(Safe(N))
<1>. DEFINE X == Safe(N)
            L == [type : STRING, vm : VM \cup {Host}]
            Whats == {"capture", "bridge capture", "halted", "unplugged"}
<1>0. X = Safe(N)
  OBVIOUS
<1>1. c.commands[g] \in Seq(L) /\ Plain(N) \subseteq X
  BY DEF Plain
<1>2. \A i \in DOMAIN c.commands[g] : c.commands[g][i].vm \in VM \cup {Host}
  <2>1. \A x \in L : x.vm \in VM \cup {Host}
    OBVIOUS
  <2>. HIDE DEF L
  <2>2. \A i \in DOMAIN c.commands[g] : c.commands[g][i] \in L
    BY <1>1, LenProperties, ElementOfSeq
  <2>. QED  BY <2>1, <2>2
<1>. HIDE DEF X
<1>3. \A p, q \in Seq(X) : p \o q \in Seq(X)
  BY Joined
<1>4. Whats \subseteq Word /\ "capture" # Record
  BY DEF Word, Record
<1>5. /\ Attempt("exit") \in Seq(X) /\ Sleep(20) \in Seq(X) /\ Write("capture") \in Seq(X)
  BY <1>1, <1>4, Services DEF Fail
<1>6. \A v \in VM \cup {Host} : \A n \in Whats :
        On(n, {v}, "exit") \in Seq(X) /\ Off({n}, {v}, "exit") \in Seq(X)
  <2>1. /\ "exit" \in Fail /\ \A n \in Whats : {n} \in Texts /\ {n} \subseteq N /\ n \in N \cap Word
        /\ \A v \in VM \cup {Host} : {v} \in Where
    BY <1>4 DEF Where, Texts, Fail
  <2>. HIDE DEF Whats
  <2>. QED  BY <1>1, <2>1, Services
<1>7. \A p \in Seq(X) : \A b : When(b, p) \in Seq(X)
  BY <1>1, Helpers
<1>8. Until(Sleep(20)) \in Seq(X)
  BY <1>0, <1>5, Controls
<1>9. \A v \in VM \cup {Host} : \A n \in {"capture", "bridge capture"} :
        StartCapture(n, v) \in Seq(X) /\ StopCapture(c, n, v) \in Seq(X)
  BY <1>3, <1>5, <1>6, <1>7, <1>8 DEF StartCapture, StopCapture
<1>10. ASSUME NEW x, x.vm \in VM \cup {Host} PROVE MmCommand(c, x) \in Seq(X)
  <2>1. /\ On("halted", {x.vm}, "exit") \in Seq(X) /\ Off({"halted"}, {x.vm}, "exit") \in Seq(X)
        /\ On("unplugged", {x.vm}, "exit") \in Seq(X) /\ Off({"unplugged"}, {x.vm}, "exit") \in Seq(X)
        /\ <<>> \in Seq(X)
    BY <1>6, <1>10, Joined
  <2>. DEFINE what == IF x.vm = Host THEN "bridge capture" ELSE "capture"
  <2>2. StartCapture(what, x.vm) \in Seq(X) /\ StopCapture(c, what, x.vm) \in Seq(X)
    BY <1>9, <1>10
  <2>. HIDE DEF what
  <2>. QED  BY <2>1, <2>2 DEF MmCommand, what
<1>. DEFINE s == [i \in DOMAIN c.commands[g] |-> MmCommand(c, c.commands[g][i])]
<1>11. s = [i \in DOMAIN c.commands[g] |-> s[i]] /\ \A i \in DOMAIN c.commands[g] : s[i] \in Seq(X)
  BY <1>2, <1>10
<1>. HIDE DEF s, L
<1>12. FlattenSeq(s) \in Seq(X)
  BY <1>1, <1>11, Looped
<1>. QED  BY <1>0, <1>12 DEF MmStage, For, s

IperfNames == {"iperf3", "iperf3.exe", "rperf", "rperf.exe"}
IperfConfig ==
  [kind : {"iperf"}, first : VM, servers : Seq(VM), opts : Opts,
   pairs : Seq([server : VM, client : VM])]

LEMMA IperfPrograms ==
  ASSUME NEW c \in IperfConfig, NEW first, NEW N, IperfNames \subseteq N
  PROVE  /\ IperfConfigure(c, first) \in Seq(Safe(N)) /\ IperfStart(c) \in Seq(Safe(N))
         /\ IperfStop(c) \in Seq(Safe(N)) /\ IperfCleanup(c) \in Seq(Safe(N))
<1>. DEFINE X == Safe(N)
            Pair == [server : VM, client : VM]
<1>0. X = Safe(N)
  OBVIOUS
<1>1. /\ c.first \in VM /\ c.servers \in Seq(VM) /\ c.pairs \in Seq(Pair)
      /\ Plain(N) \subseteq X
  BY DEF Plain, IperfConfig
<1>2. /\ \A i \in DOMAIN c.pairs : c.pairs[i].server \in VM /\ c.pairs[i].client \in VM
      /\ \A i \in DOMAIN c.servers : c.servers[i] \in VM
  <2>1. \A x \in Pair : x.server \in VM /\ x.client \in VM
    OBVIOUS
  <2>. HIDE DEF Pair
  <2>2. \A i \in DOMAIN c.pairs : c.pairs[i] \in Pair
    BY <1>1, LenProperties, ElementOfSeq
  <2>3. \A i \in DOMAIN c.servers : c.servers[i] \in VM
    BY <1>1, LenProperties, ElementOfSeq
  <2>. QED  BY <2>1, <2>2, <2>3
<1>. HIDE DEF X, Pair
<1>3. \A p, q \in Seq(X) : p \o q \in Seq(X)
  BY Joined
<1>4. /\ IperfNames \subseteq Word
      /\ {"iperf", "client-data", "client-log", "server-log", "server-data",
          "iperf_mapping.json", "netstat_outputs.txt"} \subseteq Word
      /\ Record \notin {"client-data", "client-log", "server-log", "server-data",
                        "iperf_mapping.json", "netstat_outputs.txt"}
  BY DEF Word, Record, IperfNames
<1>5. \A v : IperfName(c, v) \in IperfNames
  BY DEF IperfName, IperfNames
<1>6. IperfVMs(c) \subseteq VM
  BY <1>2 DEF IperfVMs
<1>7. ASSUME NEW S \in SUBSET IperfVMs(c)
      PROVE  /\ Tagged("iperf", S) \in Seq(X) /\ RunMulti(S) \in Seq(X)
             /\ Exec("kill", {IperfName(c, v) : v \in S}, {}) \in Seq(X)
  <2>1. S \in Where /\ {IperfName(c, v) : v \in S} \in Texts /\ {IperfName(c, v) : v \in S} \subseteq N
        /\ "kill" \in Acts /\ {} \in Texts
    BY <1>4, <1>5, <1>6 DEF Where, Texts, Acts
  <2>2. /\ Tagged("iperf", S) \in Seq(X) /\ AwaitPrefix(S) \in Seq(X)
        /\ Exec("kill", {IperfName(c, v) : v \in S}, {}) \in Seq(X)
    BY <1>1, <1>4, <2>1, Commands
  <2>3. Run \in Seq(X)
    BY <1>1, Helpers
  <2>. QED  BY <1>3, <2>2, <2>3 DEF RunMulti
<1>8. /\ Exec("remove", {}, IperfFiles) \in Seq(X) /\ ForgetCommands \in Seq(X)
      /\ Untag("iperf", IperfVMs(c)) \in Seq(X)
      /\ \A v, w \in VM : Tag("iperf", {v, w}) \in Seq(X) /\ Filter({v}) \in Seq(X)
  <2>1. /\ "remove" \in Acts /\ {} \in Texts /\ IperfFiles \in Texts /\ IperfVMs(c) \in Where
        /\ \A v, w \in VM : {v, w} \in Where /\ {v} \in Where
    BY <1>4, <1>6 DEF Where, Texts, Acts, IperfFiles
  <2>. QED  BY <1>1, <1>4, <2>1, Commands
<1>9. \A n \in IperfNames :
        /\ Exec("start", {n}, {}) \in Seq(X)
        /\ Spawn({n}, {}) \in Seq(X) /\ Spawn({n}, {"server-log"}) \in Seq(X)
        /\ Job("append", {n}, {}) \in Seq(X)
        /\ Job("append", {n}, {"client-data", "client-log"}) \in Seq(X)
  <2>1. /\ {"start", "append"} \subseteq Acts /\ {} \in Texts /\ {"server-log"} \in Texts
        /\ {"client-data", "client-log"} \in Texts
        /\ \A n \in IperfNames : {n} \in Texts /\ {n} \subseteq N
    BY <1>4 DEF Texts, Acts
  <2>. QED  BY <1>1, <2>1, Commands DEF Spawn
<1>10. /\ Attempt("raise") \in Seq(X) /\ Attempt("exit") \in Seq(X)
       /\ Sleep(20) \in Seq(X) /\ Sleep(50) \in Seq(X)
       /\ Write("iperf_mapping.json") \in Seq(X) /\ Write("netstat_outputs.txt") \in Seq(X)
       /\ \A v \in VM : \A f \in {"client-data", "client-log", "server-log", "server-data"} :
            Recv(v, f, "raise") \in Seq(X)
  BY <1>1, <1>4, Services DEF Fail
<1>11. /\ ClearFilter \in Seq(X) /\ Ps(c.first) \in Seq(X)
       /\ \A p \in Seq(X) : \A b : When(b, p) \in Seq(X)
  BY <1>1, Helpers
<1>12. /\ IperfVMs(c) \ Windows \in SUBSET IperfVMs(c)
       /\ IperfVMs(c) \cap Windows \in SUBSET IperfVMs(c)
  OBVIOUS
<1>13. KillAllIperf(c) \in Seq(X) /\ DeleteAllIperf(c) \in Seq(X)
  BY <1>3, <1>7, <1>8, <1>10, <1>11, <1>12 DEF KillAllIperf, DeleteAllIperf, PerOS
<1>14. IperfConfigure(c, first) \in Seq(X)
  <2>. DEFINE s == [i \in DOMAIN c.pairs |-> Tag("iperf", {c.pairs[i].server, c.pairs[i].client})]
  <2>1. s = [i \in DOMAIN c.pairs |-> s[i]] /\ \A i \in DOMAIN c.pairs : s[i] \in Seq(X)
    BY <1>2, <1>8
  <2>. HIDE DEF s
  <2>2. FlattenSeq(s) \in Seq(X)
    BY <1>1, <2>1, Looped
  <2>3. PerOS(c, LAMBDA S : RunMulti(S) \o Attempt("exit")) \in Seq(X)
    BY <1>3, <1>7, <1>10, <1>11, <1>12 DEF PerOS
  <2>4. When("verify" \in c.opts /\ first, PerOS(c, LAMBDA S : RunMulti(S) \o Attempt("exit")))
          \in Seq(X)
    BY <1>11, <2>3
  <2>. QED  BY <1>3, <1>8, <1>10, <1>13, <2>2, <2>4 DEF IperfConfigure, For, s
<1>15. IperfStart(c) \in Seq(X)
  <2>. DEFINE s == [i \in DOMAIN c.servers |->
                      Filter({c.servers[i]}) \o Exec("start", {IperfName(c, c.servers[i])}, {})]
              w == [i \in DOMAIN c.pairs |->
                      Filter({c.pairs[i].server})
                        \o Spawn({IperfName(c, c.pairs[i].server)},
                                 IF c.pairs[i].server \in Windows THEN {} ELSE {"server-log"})]
              u == [i \in DOMAIN c.pairs |->
                      Filter({c.pairs[i].client})
                        \o Job("append", {IperfName(c, c.pairs[i].client)},
                               IF Rperf(c) THEN {} ELSE {"client-data", "client-log"})]
  <2>1. s = [i \in DOMAIN c.servers |-> s[i]] /\ \A i \in DOMAIN c.servers : s[i] \in Seq(X)
    BY <1>2, <1>3, <1>5, <1>8, <1>9
  <2>2. w = [i \in DOMAIN c.pairs |-> w[i]] /\ \A i \in DOMAIN c.pairs : w[i] \in Seq(X)
    BY <1>2, <1>3, <1>5, <1>8, <1>9
  <2>3. u = [i \in DOMAIN c.pairs |-> u[i]] /\ \A i \in DOMAIN c.pairs : u[i] \in Seq(X)
    BY <1>2, <1>3, <1>5, <1>8, <1>9
  <2>. HIDE DEF s, w, u
  <2>4. FlattenSeq(s) \in Seq(X) /\ FlattenSeq(w) \in Seq(X) /\ FlattenSeq(u) \in Seq(X)
    BY <1>1, <2>1, <2>2, <2>3, Looped
  <2>5. (IF Rperf(c) THEN FlattenSeq(s) ELSE FlattenSeq(w)) \in Seq(X)
    BY <2>4
  <2>. QED  BY <1>3, <1>10, <1>11, <2>4, <2>5 DEF IperfStart, For, s, w, u
<1>16. NetstatInfo(c) \in Seq(X)
  <2>1. RunMulti(IperfVMs(c) \ Windows) \o RunMulti(IperfVMs(c) \ Windows)
          \o RunMulti(IperfVMs(c) \cap Windows) \o Write("netstat_outputs.txt") \in Seq(X)
    BY <1>3, <1>7, <1>10, <1>12
  <2>. QED  BY <1>0, <2>1, Controls DEF NetstatInfo
<1>17. IperfStop(c) \in Seq(X)
  <2>. DEFINE s == [i \in DOMAIN c.pairs |-> RecvPair(c.pairs[i])]
  <2>1. \A p \in [server : VM, client : VM] : RecvPair(p) \in Seq(X)
    BY <1>3, <1>10, <1>11 DEF RecvPair
  <2>2. \A i \in DOMAIN c.pairs : c.pairs[i] \in [server : VM, client : VM]
    BY <1>1, LenProperties, ElementOfSeq DEF Pair
  <2>3. s = [i \in DOMAIN c.pairs |-> s[i]] /\ \A i \in DOMAIN c.pairs : s[i] \in Seq(X)
    BY <2>1, <2>2
  <2>. HIDE DEF s
  <2>4. FlattenSeq(s) \in Seq(X)
    BY <1>1, <2>3, Looped
  <2>5. If(c.first, IperfName(c, c.first), Sleep(50)) \in Seq(X)
    <3>1. IperfName(c, c.first) \in Word
      BY <1>4, <1>5
    <3>. QED  BY <1>0, <1>1, <1>10, <3>1, Controls
  <2>. QED
    BY <1>3, <1>10, <1>11, <1>13, <1>16, <2>4, <2>5 DEF IperfStop, For, s
<1>18. IperfCleanup(c) \in Seq(X)
  BY <1>3, <1>8, <1>11, <1>13 DEF IperfCleanup
<1>. QED  BY <1>0, <1>14, <1>15, <1>17, <1>18

LEMMA TimesAre ==
  ASSUME NEW t \in Times
  PROVE  /\ t.run \in Nat /\ t.delay \in Nat /\ t.pdelay \in Nat /\ t.phys \in Nat
         /\ AttackLength(t) \in Nat
         /\ (IF t.pdelay + 150 > t.run THEN t.run - 10 ELSE t.pdelay + 150) \in Nat
         /\ t.run >= t.delay + 305 => t.delay + AttackLength(t) <= t.run
<1>1. /\ t.run \in Nat /\ t.run >= 10 /\ t.delay \in Nat /\ t.attack \in Nat /\ t.pdelay \in Nat
      /\ t.phys \in Nat
  BY DEF Times
<1>2. AttackLength(t) =
        IF t.attack + t.delay + 50 <= t.run - 600 THEN t.attack
        ELSE IF t.run - 600 - t.delay - 10 < 0
             THEN -(t.run - 600 - t.delay - 10) ELSE t.run - 600 - t.delay - 10
  BY DEF AttackLength
<1>. QED  BY <1>1, <1>2

LEMMA DisruptionPrograms ==
  ASSUME NEW c \in DisruptionConfig, NEW first,
         NEW N, {"dos.py", "hping3", "python.exe"} \subseteq N
  PROVE  /\ DisruptionConfigure(c, first) \in Seq(Safe(N))
         /\ DisruptionCleanup(c) \in Seq(Safe(N))
<1>. DEFINE X == Safe(N)
<1>0. X = Safe(N)
  OBVIOUS
<1>1. /\ c.attacker \in VM /\ c.opc \in VM /\ c.targets \in Seq(VM)
      /\ Plain(N) \subseteq X
  BY DEF Plain, DisruptionConfig
<1>. HIDE DEF X
<1>2. \A p, q \in Seq(X) : p \o q \in Seq(X)
  BY Joined
<1>3. {"dos.py", "hping3", "python.exe", "spare", "dos-results", "phys-results", "phys-log",
       "windows"} \subseteq Word
  BY DEF Word
<1>4. Sleep(10) \in Seq(X) /\ \A v \in VM : EnsureRunning(v) \in Seq(X)
  BY <1>1, Services
<1>5. /\ Filter({c.attacker}) \in Seq(X)
      /\ Exec("down", {"spare"}, {}) \in Seq(X) /\ Exec("up", {"spare"}, {}) \in Seq(X)
      /\ Exec("remove", {}, {"dos-results"}) \in Seq(X)
  <2>1. /\ {"down", "up", "remove"} \subseteq Acts /\ {} \in Texts /\ {"spare"} \in Texts
        /\ {"dos-results"} \in Texts /\ {c.attacker} \in Where
    BY <1>1, <1>3 DEF Where, Texts, Acts
  <2>. QED  BY <1>1, <2>1, Commands
<1>6. /\ KillProcess({c.attacker}, "dos.py") \in Seq(X) /\ KillProcess({c.attacker}, "hping3") \in Seq(X)
      /\ KillProcess({c.opc}, "python.exe") \in Seq(X)
      /\ DeleteFile(c.opc, "phys-results", "windows") \in Seq(X)
      /\ DeleteFile(c.opc, "phys-log", "windows") \in Seq(X)
  BY <1>1, <1>3, Helpers
<1>7. /\ ClearFilter \in Seq(X) /\ Run \in Seq(X) /\ RunAndCheck(c.attacker, Run, 50) \in Seq(X)
      /\ ExecWait(c.attacker, Exec("down", {"spare"}, {}), 100) \in Seq(X)
      /\ \A p \in Seq(X) : \A b : When(b, p) \in Seq(X)
  BY <1>1, <1>5, Helpers
<1>8. KillDos(c) \in Seq(X) /\ KillScenario(c) \in Seq(X)
  BY <1>2, <1>6 DEF KillDos, KillScenario
<1>. DEFINE x == <<c.attacker>> \o c.targets
            s == [i \in DOMAIN x |-> EnsureRunning(x[i])]
<1>9. x \in Seq(VM)
  <2>1. <<c.attacker>> \in Seq(VM)
    BY <1>1
  <2>. QED  BY <1>1, <2>1, ConcatProperties
<1>. HIDE DEF x
<1>10. \A i \in DOMAIN x : s[i] \in Seq(X)
  <2>1. \A i \in DOMAIN x : x[i] \in VM
    BY <1>9, LenProperties, ElementOfSeq
  <2>. QED  BY <1>4, <2>1
<1>11. s = [i \in DOMAIN x |-> s[i]]
  OBVIOUS
<1>. HIDE DEF s
<1>12. FlattenSeq(s) \in Seq(X)
  BY <1>9, <1>10, <1>11, Looped
<1>13. DisruptionConfigure(c, first) \in Seq(X)
  BY <1>2, <1>7, <1>8, <1>12 DEF DisruptionConfigure, For, s, x
<1>14. DisruptionCleanup(c) \in Seq(X)
  BY <1>2, <1>4, <1>5, <1>6, <1>7, <1>8 DEF DisruptionCleanup
<1>. QED  BY <1>0, <1>13, <1>14

----------------------------------------------------------------------------
(* What a disruption notes *)

Stamps == {x \in Rqs : x.op = "stamp" /\ ~x.caught}
Noting(N) == Plain(N) \cup Stamps

\* The start has been noted, and attacks since, before anything was waited for.
Noticed(p, d) ==
  /\ 2 \in DOMAIN p /\ p[2].op = "stamp" /\ p[2].names = {"start"}
  /\ \A k \in DOMAIN p \ {2} :
       p[k].op = "stamp" =>
         /\ 2 < k /\ p[k].names = {"attack"}
         /\ \A j \in 2..k : ~Waits(p[j])
         /\ d >= p[k].n + 305 => p[k].time <= d
Prompt(p) == \A j \in 2..Len(p) : ~Waits(p[j])
\* The last request waits for the rest of the duration, or ends the stage.
Lasts(p, d) ==
  \/ Ends(p[Len(p)])
  \/ p[Len(p)].op \in {"sleep", "rest"} /\ p[Len(p)].n >= d

LEMMA PlainNotes ==
  ASSUME NEW N
  PROVE  /\ Plain(N) \subseteq Noting(N)
         /\ \A p \in Seq(Plain(N)) : p \in Seq(Noting(N))
         /\ \A p \in Seq(Noting(N)) : Straight(p)
<1>1. Plain(N) \subseteq Noting(N)
  BY DEF Noting
<1>2. \A p \in Seq(Plain(N)) : p \in Seq(Noting(N))
  BY <1>1, SeqMonotonic
<1>3. ASSUME NEW p \in Seq(Noting(N)) PROVE Straight(p)
  <2>1. \A k \in DOMAIN p : p[k] \in Noting(N)
    BY LenProperties, ElementOfSeq
  <2>2. \A x \in Noting(N) : ~x.caught /\ x.op \notin {"if", "unless", "mishap", "again"}
    BY DEF Noting, Plain, Stamps
  <2>. QED  BY <2>1, <2>2 DEF Straight
<1>. QED  BY <1>1, <1>2, <1>3

LEMMA BothParts ==
  ASSUME NEW X, NEW p \in Seq(X), NEW q \in Seq(X)
  PROVE  /\ p \o q \in Seq(X) /\ Len(p \o q) = Len(p) + Len(q)
         /\ Len(p) \in Nat /\ Len(q) \in Nat
         /\ DOMAIN p = 1..Len(p) /\ DOMAIN q = 1..Len(q) /\ DOMAIN (p \o q) = 1..(Len(p) + Len(q))
         /\ \A k \in DOMAIN p : p[k] \in X
         /\ \A k \in DOMAIN q : q[k] \in X
         /\ \A k \in 1..Len(p) : (p \o q)[k] = p[k]
         /\ \A k \in 1..Len(q) : (p \o q)[Len(p) + k] = q[k]
         /\ \A k \in 1..(Len(p) + Len(q)) : k > Len(p) =>
              k - Len(p) \in 1..Len(q) /\ (p \o q)[k] = q[k - Len(p)]
<1>1. /\ p \o q \in Seq(X) /\ Len(p \o q) = Len(p) + Len(q)
      /\ \A i \in 1..(Len(p) + Len(q)) :
           (p \o q)[i] = IF i <= Len(p) THEN p[i] ELSE q[i - Len(p)]
  BY ConcatProperties
<1>2. /\ Len(p) \in Nat /\ Len(q) \in Nat
      /\ DOMAIN p = 1..Len(p) /\ DOMAIN q = 1..Len(q) /\ DOMAIN (p \o q) = 1..Len(p \o q)
  BY <1>1, LenProperties
<1>3. /\ \A k \in DOMAIN p : p[k] \in X
      /\ \A k \in DOMAIN q : q[k] \in X
  BY <1>2, ElementOfSeq
<1>4. \A k \in 1..Len(p) : (p \o q)[k] = p[k]
  BY <1>1, <1>2
<1>5. \A k \in 1..(Len(p) + Len(q)) : k > Len(p) =>
        k - Len(p) \in 1..Len(q) /\ (p \o q)[k] = q[k - Len(p)]
  BY <1>1, <1>2
<1>6. \A k \in 1..Len(q) : (p \o q)[Len(p) + k] = q[k]
  <2>. TAKE k \in 1..Len(q)
  <2>1. Len(p) + k \in 1..(Len(p) + Len(q)) /\ Len(p) + k > Len(p) /\ (Len(p) + k) - Len(p) = k
    BY <1>2
  <2>. QED  BY <1>5, <2>1
<1>. QED  BY <1>1, <1>2, <1>3, <1>4, <1>5, <1>6

\* What does not note anything may follow.
LEMMA Followed ==
  ASSUME NEW N, NEW d, NEW p \in Seq(Noting(N)), NEW q \in Seq(Plain(N)), Noticed(p, d)
  PROVE  Noticed(p \o q, d)
<1>1. q \in Seq(Noting(N))
  BY PlainNotes
<1>2. \A k \in DOMAIN q : q[k].op # "stamp"
  <2>1. \A k \in DOMAIN q : q[k] \in Plain(N)
    BY LenProperties, ElementOfSeq
  <2>. QED  BY <2>1 DEF Plain, Safe
<1>3. /\ Len(p) \in Nat /\ Len(q) \in Nat
      /\ DOMAIN p = 1..Len(p) /\ DOMAIN q = 1..Len(q) /\ DOMAIN (p \o q) = 1..(Len(p) + Len(q))
      /\ \A k \in 1..Len(p) : (p \o q)[k] = p[k]
      /\ \A k \in 1..(Len(p) + Len(q)) : k > Len(p) =>
           k - Len(p) \in 1..Len(q) /\ (p \o q)[k] = q[k - Len(p)]
  BY <1>1, BothParts
<1>4. \A k \in DOMAIN (p \o q) : (p \o q)[k].op = "stamp" => k \in DOMAIN p
  BY <1>2, <1>3
<1>5. \A k \in DOMAIN p : k \in DOMAIN (p \o q) /\ \A j \in 2..k : j \in DOMAIN p /\ (p \o q)[j] = p[j]
  BY <1>3
<1>6. 2 \in DOMAIN p /\ (p \o q)[2] = p[2]
  BY <1>3 DEF Noticed
<1>. QED  BY <1>3, <1>4, <1>5, <1>6 DEF Noticed

LEMMA Attacked ==
  ASSUME NEW N, NEW d, NEW p \in Seq(Noting(N)), NEW x \in Stamps,
         Noticed(p, d), Prompt(p), x.names = {"attack"}, d >= x.n + 305 => x.time <= d
  PROVE  Noticed(p \o <<x>>, d)
<1>1. <<x>> \in Seq(Noting(N)) /\ Len(<<x>>) = 1 /\ <<x>>[1] = x
  BY OneOf DEF Noting
<1>2. /\ Len(p) \in Nat
      /\ DOMAIN p = 1..Len(p) /\ DOMAIN (p \o <<x>>) = 1..(Len(p) + 1)
      /\ \A k \in 1..Len(p) : (p \o <<x>>)[k] = p[k]
      /\ (p \o <<x>>)[Len(p) + 1] = x
  BY <1>1, BothParts
<1>3. ~Waits(x)
  BY DEF Stamps, Waits
<1>4. \A j \in 2..(Len(p) + 1) : ~Waits((p \o <<x>>)[j])
  <2>. TAKE j \in 2..(Len(p) + 1)
  <2>1. CASE j = Len(p) + 1
    BY <1>2, <1>3, <2>1
  <2>2. CASE j # Len(p) + 1
    <3>1. j \in 2..Len(p) /\ j \in 1..Len(p)
      BY <1>2, <2>2
    <3>. QED  BY <1>2, <3>1 DEF Prompt
  <2>. QED  BY <2>1, <2>2
<1>5. 2 \in DOMAIN p /\ (p \o <<x>>)[2] = p[2] /\ 2 < Len(p) + 1
  BY <1>2 DEF Noticed
<1>6. ASSUME NEW k \in DOMAIN (p \o <<x>>) \ {2}, (p \o <<x>>)[k].op = "stamp"
      PROVE  /\ 2 < k /\ (p \o <<x>>)[k].names = {"attack"}
             /\ \A j \in 2..k : ~Waits((p \o <<x>>)[j])
             /\ d >= (p \o <<x>>)[k].n + 305 => (p \o <<x>>)[k].time <= d
  <2>1. CASE k = Len(p) + 1
    BY <1>2, <1>4, <1>5, <2>1
  <2>2. CASE k # Len(p) + 1
    <3>1. k \in DOMAIN p \ {2} /\ (p \o <<x>>)[k] = p[k]
      BY <1>2, <2>2
    <3>2. \A j \in 2..k : j \in 2..(Len(p) + 1)
      BY <1>2, <3>1
    <3>3. /\ 2 < k /\ p[k].names = {"attack"}
          /\ d >= p[k].n + 305 => p[k].time <= d
      BY <1>6, <3>1 DEF Noticed
    <3>. QED  BY <1>4, <3>1, <3>2, <3>3
  <2>. QED  BY <2>1, <2>2
<1>. QED  BY <1>2, <1>5, <1>6 DEF Noticed

\* The stop is noted last, and what follows does not note anything.
LEMMA Stopped ==
  ASSUME NEW N, NEW d, NEW p \in Seq(Noting(N)), NEW y \in Stamps, NEW q \in Seq(Plain(N)),
         Noticed(p, d), Lasts(p, d), Len(p) > 2, y.names = {"stop"}
  PROVE  Timely((p \o <<y>>) \o q, d)
<1>. DEFINE m == p \o <<y>>
            z == m \o q
<1>1. <<y>> \in Seq(Noting(N)) /\ Len(<<y>>) = 1 /\ <<y>>[1] = y
  BY OneOf DEF Noting
<1>2. q \in Seq(Noting(N))
  BY PlainNotes
<1>3. /\ m \in Seq(Noting(N)) /\ Len(m) = Len(p) + 1 /\ Len(p) \in Nat
      /\ DOMAIN p = 1..Len(p) /\ DOMAIN m = 1..(Len(p) + 1)
      /\ \A k \in 1..Len(p) : m[k] = p[k]
      /\ m[Len(p) + 1] = y
  BY <1>1, BothParts
<1>. HIDE DEF m
<1>4. /\ z \in Seq(Noting(N)) /\ Len(q) \in Nat /\ DOMAIN q = 1..Len(q)
      /\ DOMAIN z = 1..(Len(m) + Len(q))
      /\ \A k \in 1..Len(m) : z[k] = m[k]
      /\ \A k \in 1..(Len(m) + Len(q)) : k > Len(m) =>
           k - Len(m) \in 1..Len(q) /\ z[k] = q[k - Len(m)]
  <2>1. m \in Seq(Noting(N)) /\ q \in Seq(Noting(N))
    BY <1>2, <1>3
  <2>2. /\ m \o q \in Seq(Noting(N)) /\ Len(q) \in Nat /\ DOMAIN q = 1..Len(q)
        /\ DOMAIN (m \o q) = 1..(Len(m) + Len(q))
        /\ \A k \in 1..Len(m) : (m \o q)[k] = m[k]
        /\ \A k \in 1..(Len(m) + Len(q)) : k > Len(m) =>
             k - Len(m) \in 1..Len(q) /\ (m \o q)[k] = q[k - Len(m)]
    BY <2>1, BothParts
  <2>. QED  BY <2>2
<1>. HIDE DEF z
<1>5. \A k \in DOMAIN q : q[k].op # "stamp"
  <2>1. \A k \in DOMAIN q : q[k] \in Plain(N)
    BY LenProperties, ElementOfSeq
  <2>. QED  BY <2>1 DEF Plain, Safe
<1>. DEFINE e == Len(p) + 1
<1>6. /\ 2 \in DOMAIN z /\ e \in DOMAIN z /\ 2 < e - 1 /\ e - 1 = Len(p)
      /\ \A k \in 1..Len(p) : z[k] = p[k]
      /\ z[e] = y
  <2>1. \A k \in 1..Len(p) : k \in 1..Len(m)
    BY <1>3
  <2>2. e \in 1..Len(m) /\ e \in 1..(Len(m) + Len(q)) /\ 2 \in 1..(Len(m) + Len(q))
    BY <1>3, <1>4
  <2>3. z[e] = y
    BY <1>3, <1>4, <2>2
  <2>4. \A k \in 1..Len(p) : z[k] = p[k]
    BY <1>3, <1>4, <2>1
  <2>5. 2 < e - 1 /\ e - 1 = Len(p) /\ 2 \in DOMAIN z /\ e \in DOMAIN z
    BY <1>3, <1>4, <2>2
  <2>. QED  BY <2>3, <2>4, <2>5
<1>7. \A k \in DOMAIN z : z[k].op = "stamp" /\ k # e => k \in 1..Len(p)
  <2>. TAKE k \in DOMAIN z
  <2>1. CASE k > Len(m)
    BY <1>4, <1>5, <2>1
  <2>2. CASE ~(k > Len(m))
    BY <1>3, <1>4, <2>2
  <2>. QED  BY <2>1, <2>2
<1>8. \A k \in 1..Len(p) : \A j \in 2..k : z[j] = p[j]
  BY <1>3, <1>6
<1>. HIDE DEF e
<1>9. TimedAt(z, d, 2, e)
  <2>1. 2 < e - 1 /\ z[2] = p[2] /\ z[e - 1] = p[Len(p)]
    BY <1>3, <1>6
  <2>2. z[2].op = "stamp" /\ z[2].names = {"start"}
    BY <2>1 DEF Noticed
  <2>3. z[e].op = "stamp" /\ z[e].names = {"stop"}
    BY <1>6 DEF Stamps
  <2>4. \/ Ends(z[e - 1])
        \/ z[e - 1].op \in {"sleep", "rest"} /\ z[e - 1].n >= d
    <3>1. \/ Ends(p[Len(p)])
          \/ p[Len(p)].op \in {"sleep", "rest"} /\ p[Len(p)].n >= d
      BY DEF Lasts
    <3>. QED  BY <2>1, <3>1
  <2>5. ASSUME NEW k \in DOMAIN z \ {2, e}, z[k].op = "stamp"
        PROVE  /\ 2 < k /\ k < e /\ z[k].names = {"attack"}
               /\ \A j \in 2..k : ~Waits(z[j])
               /\ d >= z[k].n + 305 => z[k].time <= d
    <3>1. k \in 1..Len(p) /\ k \in DOMAIN p \ {2} /\ z[k] = p[k]
      BY <1>3, <1>6, <1>7, <2>5
    <3>2. /\ 2 < k /\ p[k].names = {"attack"} /\ \A j \in 2..k : ~Waits(p[j])
          /\ d >= p[k].n + 305 => p[k].time <= d
      BY <2>5, <3>1 DEF Noticed
    <3>3. k < e
      BY <1>3, <3>1 DEF e
    <3>. QED  BY <1>8, <3>1, <3>2, <3>3
  <2>. QED  BY <2>1, <2>2, <2>3, <2>4, <2>5 DEF TimedAt
<1>10. Straight(z)
  BY <1>4, PlainNotes
<1>. QED  BY <1>6, <1>9, <1>10 DEF Timely, z, m

LEMMA Assoc ==
  ASSUME NEW X, NEW p \in Seq(X), NEW q \in Seq(X), NEW w \in Seq(X)
  PROVE  (p \o q) \o w = p \o (q \o w)
BY ConcatAssociative

LEMMA Appended ==
  ASSUME NEW X, NEW p \in Seq(X), NEW y \in X
  PROVE  /\ p \o <<y>> \in Seq(X) /\ Len(p) \in Nat /\ Len(p \o <<y>>) = Len(p) + 1
         /\ DOMAIN (p \o <<y>>) = 1..(Len(p) + 1)
         /\ \A k \in 1..Len(p) : (p \o <<y>>)[k] = p[k]
         /\ (p \o <<y>>)[Len(p) + 1] = y
<1>1. <<y>> \in Seq(X) /\ Len(<<y>>) = 1 /\ <<y>>[1] = y
  OBVIOUS
<1>2. /\ p \o <<y>> \in Seq(X) /\ Len(p) \in Nat
      /\ Len(p \o <<y>>) = Len(p) + Len(<<y>>)
      /\ DOMAIN (p \o <<y>>) = 1..(Len(p) + Len(<<y>>))
      /\ \A k \in 1..Len(p) : (p \o <<y>>)[k] = p[k]
      /\ \A k \in 1..Len(<<y>>) : (p \o <<y>>)[Len(p) + k] = <<y>>[k]
  <2>. DEFINE q == <<y>>
  <2>1. q \in Seq(X)
    BY <1>1
  <2>. HIDE DEF q
  <2>2. /\ p \o q \in Seq(X) /\ Len(p) \in Nat
        /\ Len(p \o q) = Len(p) + Len(q)
        /\ DOMAIN (p \o q) = 1..(Len(p) + Len(q))
        /\ \A k \in 1..Len(p) : (p \o q)[k] = p[k]
        /\ \A k \in 1..Len(q) : (p \o q)[Len(p) + k] = q[k]
    BY <2>1, BothParts
  <2>. QED  BY <2>2 DEF q
<1>3. 1 \in 1..Len(<<y>>)
  BY <1>1
<1>. QED  BY <1>1, <1>2, <1>3

LEMMA StampIs ==
  ASSUME NEW what \in Word, NEW n \in Nat, NEW d \in Nat
  PROVE  \E x \in Stamps :
           /\ Stamp(what, n, d) = <<x>>
           /\ x.names = {what} /\ x.n = n /\ x.time = d
<1>. DEFINE x == [Rq EXCEPT !.op = "stamp", !.names = {what}, !.n = n, !.time = d]
<1>1. x \in Stamps
  BY RqIs DEF Stamps, Rqs, Texts, Ops
<1>2. x.names = {what} /\ x.n = n /\ x.time = d
  BY RqIs DEF Rqs
<1>3. Stamp(what, n, d) = <<x>>
  BY DEF Stamp
<1>. HIDE DEF x
<1>. QED  BY <1>1, <1>2, <1>3

\* What a disruption does while it lasts, in two parts.
LEMMA Grows ==
  ASSUME NEW N, NEW d, NEW p \in Seq(Noting(N)), NEW x \in Seq(Noting(N)),
         NEW q \in Seq(Plain(N)), Noticed(p \o x, d)
  PROVE  Noticed(p \o (x \o q), d)
<1>1. q \in Seq(Noting(N)) /\ p \o x \in Seq(Noting(N))
  BY PlainNotes, BothParts
<1>2. p \o (x \o q) = (p \o x) \o q
  BY <1>1, Assoc
<1>. QED  BY <1>1, <1>2, Followed

LEMMA LastIs ==
  ASSUME NEW N, NEW p \in Seq(Noting(N)), NEW x \in Seq(Noting(N)), NEW y \in Noting(N),
         Len(p) > 2
  PROVE  LET z == p \o (x \o <<y>>) IN z[Len(z)] = y /\ Len(z) > 2
<1>1. <<y>> \in Seq(Noting(N)) /\ Len(<<y>>) = 1 /\ <<y>>[1] = y
  OBVIOUS
<1>. DEFINE m == p \o x
<1>2. m \in Seq(Noting(N)) /\ Len(m) > 2 /\ Len(m) \in Nat
  <2>1. m \in Seq(Noting(N)) /\ Len(m) = Len(p) + Len(x) /\ Len(p) \in Nat /\ Len(x) \in Nat
    BY BothParts
  <2>. QED  BY <2>1
<1>3. p \o (x \o <<y>>) = m \o <<y>>
  BY <1>1, Assoc
<1>. HIDE DEF m
<1>4. Len(m \o <<y>>) = Len(m) + 1 /\ (m \o <<y>>)[Len(m) + 1] = y
  BY <1>1, <1>2, BothParts
<1>. QED  BY <1>2, <1>3, <1>4

\* The start of a disruption, and what it may do before it attacks.
LEMMA Opened ==
  ASSUME NEW N, NEW d, NEW v \in VM
  PROVE  LET p == Attempt("raise") \o Stamp("start", 0, 0) \o Write("start-time")
         IN  /\ p \in Seq(Noting(N)) /\ Len(p) > 2
             /\ Noticed(p, d)
             /\ Prompt(p \o Filter({v}))
<1>. DEFINE X == Noting(N)
<1>1. {"start", "start-time"} \subseteq Word /\ "start-time" # Record
  BY DEF Word, Record
<1>2. PICK s \in Stamps : Stamp("start", 0, 0) = <<s>> /\ s.names = {"start"}
  BY <1>1, StampIs
<1>3. \E a, w, f \in X :
        /\ Attempt("raise") = <<a>> /\ Write("start-time") = <<w>> /\ Filter({v}) = <<f>>
        /\ a.op = "try" /\ w.op = "write" /\ f.op = "filter"
  <2>. DEFINE a == [Rq EXCEPT !.fail = "raise"]
              w == [Rq EXCEPT !.op = "write", !.files = {"start-time"}]
              f == [Rq EXCEPT !.op = "filter", !.vms = {v}]
  <2>1. /\ a \in Rqs /\ a.op = "try" /\ a.caught = FALSE
        /\ w \in Rqs /\ w.op = "write" /\ w.caught = FALSE /\ w.files = {"start-time"}
        /\ f \in Rqs /\ f.op = "filter" /\ f.caught = FALSE
    BY <1>1, RqIs DEF Rqs, Ops, Fail, Texts, Where
  <2>2. ~Makes(w, Record) /\ ~Makes(a, Record) /\ ~Makes(f, Record)
    BY <1>1, <2>1 DEF Makes
  <2>3. Names(a) = {} /\ Names(w) = {} /\ Names(f) = {}
    BY <2>1 DEF Names
  <2>4. a \in X /\ w \in X /\ f \in X
    BY <2>1, <2>2, <2>3 DEF Noting, Plain, Safe
  <2>5. Attempt("raise") = <<a>> /\ Write("start-time") = <<w>> /\ Filter({v}) = <<f>>
    BY DEF Attempt, Write, Filter
  <2>. HIDE DEF a, w, f
  <2>. QED  BY <2>1, <2>4, <2>5
<1>4. PICK a \in X, w \in X, f \in X :
        /\ Attempt("raise") = <<a>> /\ Write("start-time") = <<w>> /\ Filter({v}) = <<f>>
        /\ a.op = "try" /\ w.op = "write" /\ f.op = "filter"
  BY <1>3
<1>5. s \in X /\ s.op = "stamp"
  BY DEF Noting, Stamps
<1>. HIDE DEF X
<1>. DEFINE p == (<<a>> \o <<s>>) \o <<w>>
<1>6. /\ p \in Seq(X) /\ Len(p) = 3 /\ DOMAIN p = 1..3
      /\ p[1] = a /\ p[2] = s /\ p[3] = w
  <2>. DEFINE q == <<a>> \o <<s>>
  <2>1. <<a>> \in Seq(X) /\ Len(<<a>>) = 1 /\ <<a>>[1] = a
    BY <1>4
  <2>2. /\ q \in Seq(X) /\ Len(q) = Len(<<a>>) + 1
        /\ \A k \in 1..Len(<<a>>) : q[k] = <<a>>[k]
        /\ q[Len(<<a>>) + 1] = s
    BY <1>5, <2>1, Appended
  <2>. HIDE DEF q
  <2>3. Len(q) = 2 /\ q[1] = a /\ q[2] = s
    BY <2>1, <2>2
  <2>4. /\ p \in Seq(X) /\ Len(p) = Len(q) + 1 /\ DOMAIN p = 1..(Len(q) + 1)
        /\ \A k \in 1..Len(q) : p[k] = q[k]
        /\ p[Len(q) + 1] = w
    <3>1. p = q \o <<w>>
      BY DEF q
    <3>. HIDE DEF p
    <3>2. w \in X
      OBVIOUS
    <3>3. q \in Seq(X)
      BY <2>2
    <3>4. /\ q \o <<w>> \in Seq(X) /\ Len(q \o <<w>>) = Len(q) + 1
          /\ DOMAIN (q \o <<w>>) = 1..(Len(q) + 1)
          /\ \A k \in 1..Len(q) : (q \o <<w>>)[k] = q[k]
          /\ (q \o <<w>>)[Len(q) + 1] = w
      BY <3>2, <3>3, Appended
    <3>. QED  BY <3>1, <3>4
  <2>. HIDE DEF p
  <2>. QED  BY <2>3, <2>4
<1>. HIDE DEF p
<1>7. Noticed(p, d)
  BY <1>2, <1>4, <1>5, <1>6 DEF Noticed
<1>8. Prompt(p \o <<f>>)
  <2>0. p \in Seq(X) /\ f \in X
    BY <1>6
  <2>1. /\ Len(p \o <<f>>) = Len(p) + 1
        /\ \A k \in 1..Len(p) : (p \o <<f>>)[k] = p[k]
        /\ (p \o <<f>>)[Len(p) + 1] = f
    BY <2>0, Appended
  <2>2. /\ Len(p \o <<f>>) = 4
        /\ \A k \in 1..3 : (p \o <<f>>)[k] = p[k]
        /\ (p \o <<f>>)[4] = f
    BY <1>6, <2>1
  <2>3. \A j \in 2..4 : j = 2 \/ j = 3 \/ j = 4
    OBVIOUS
  <2>4. ~Waits(s) /\ ~Waits(w) /\ ~Waits(f)
    BY <1>4, <1>5 DEF Waits
  <2>5. (p \o <<f>>)[2] = s /\ (p \o <<f>>)[3] = w
    BY <1>6, <2>2
  <2>. QED  BY <2>2, <2>3, <2>4, <2>5 DEF Prompt
<1>9. p = Attempt("raise") \o Stamp("start", 0, 0) \o Write("start-time")
  BY <1>2, <1>4 DEF p
<1>10. /\ p \in Seq(Noting(N)) /\ Len(p) > 2 /\ Noticed(p, d)
       /\ Prompt(p \o Filter({v}))
  BY <1>4, <1>6, <1>7, <1>8 DEF X
<1>. QED  BY <1>9, <1>10

LEMMA WaitIs ==
  ASSUME NEW N, NEW d \in Nat
  PROVE  /\ \E x \in Plain(N) : Sleep(d) = <<x>> /\ x.op = "sleep" /\ x.n = d
         /\ \E x \in Plain(N) : Rest(d) = <<x>> /\ x.op = "rest" /\ x.n = d
         /\ \E x \in Plain(N) : Stop("raise") = <<x>> /\ Ends(x)
<1>. DEFINE a == [Rq EXCEPT !.op = "sleep", !.n = d]
            b == [Rq EXCEPT !.op = "rest", !.n = d]
            e == [Rq EXCEPT !.op = "stop", !.fail = "raise"]
<1>1. /\ a \in Rqs /\ a.op = "sleep" /\ a.caught = FALSE /\ a.n = d
      /\ b \in Rqs /\ b.op = "rest" /\ b.caught = FALSE /\ b.n = d
      /\ e \in Rqs /\ e.op = "stop" /\ e.caught = FALSE /\ e.fail = "raise"
  BY RqIs DEF Rqs, Ops, Fail
<1>2. /\ Sleep(d) = <<a>> /\ Rest(d) = <<b>> /\ Stop("raise") = <<e>>
  BY DEF Sleep, Rest, Stop
<1>. HIDE DEF a, b, e
<1>3. a \in Plain(N) /\ b \in Plain(N) /\ e \in Plain(N)
  BY <1>1 DEF Plain, Safe, Names, Makes
<1>4. Ends(e)
  BY <1>1 DEF Ends
<1>. QED  BY <1>1, <1>2, <1>3, <1>4

\* The attack is noted before the command is issued.
LEMMA Scripted ==
  ASSUME NEW c \in DisruptionConfig, NEW N, {"dos.py", "hping3"} \subseteq N,
         NEW act \in {"run", "start"}, NEW p \in Seq(Noting(N)),
         Noticed(p, c.t.run), Prompt(p \o Filter({c.attacker}))
  PROVE  LET x == Filter({c.attacker}) \o DosScript(c, act)
         IN  x \in Seq(Noting(N)) /\ Noticed(p \o x, c.t.run)
<1>. DEFINE X == Noting(N)
            d == c.t.run
            j == Job(act, {"dos.py", "hping3"}, {"dos-results"})
            f == Filter({c.attacker})
<1>1. c.attacker \in VM /\ c.t \in Times
  BY DEF DisruptionConfig
<1>2. /\ c.t.delay \in Nat /\ c.t.delay + AttackLength(c.t) \in Nat
      /\ d >= c.t.delay + 305 => c.t.delay + AttackLength(c.t) <= d
  <2>1. /\ c.t.delay \in Nat /\ AttackLength(c.t) \in Nat
        /\ d >= c.t.delay + 305 => c.t.delay + AttackLength(c.t) <= d
    BY <1>1, TimesAre
  <2>. QED  BY <2>1
<1>3. j \in Seq(Plain(N)) /\ f \in Seq(Plain(N))
  <2>1. /\ {"run", "start"} \subseteq Acts /\ {"dos.py", "hping3"} \in Texts
        /\ {"dos-results"} \in Texts /\ {c.attacker} \in Where /\ Plain(N) \subseteq Plain(N)
    BY <1>1 DEF Where, Texts, Acts, Word
  <2>. QED  BY <2>1, Commands
<1>4. j \in Seq(X) /\ f \in Seq(X)
  BY <1>3, PlainNotes
<1>5. PICK x \in Stamps :
        /\ Stamp("attack", c.t.delay, c.t.delay + AttackLength(c.t)) = <<x>>
        /\ x.names = {"attack"} /\ x.n = c.t.delay
        /\ x.time = c.t.delay + AttackLength(c.t)
  <2>1. "attack" \in Word
    BY DEF Word
  <2>. QED  BY <1>2, <2>1, StampIs
<1>6. DosScript(c, act) = <<x>> \o j
  BY <1>5 DEF DosScript
<1>7. p \o f \in Seq(X) /\ Noticed(p \o f, d)
  BY <1>3, <1>4, BothParts, Followed
<1>8. x \in X /\ <<x>> \in Seq(X)
  BY OneOf DEF Noting
<1>. HIDE DEF j, f, d
<1>9. Noticed((p \o f) \o <<x>>, d)
  <2>1. d >= x.n + 305 => x.time <= d
    BY <1>2, <1>5
  <2>2. Prompt(p \o f)
    BY DEF f
  <2>. QED  BY <1>5, <1>7, <2>1, <2>2, Attacked
<1>10. Noticed(((p \o f) \o <<x>>) \o j, d)
  <2>1. (p \o f) \o <<x>> \in Seq(X)
    BY <1>7, <1>8, BothParts
  <2>. QED  BY <1>3, <1>9, <2>1, Followed
<1>11. ((p \o f) \o <<x>>) \o j = p \o (f \o (<<x>> \o j))
  <2>1. <<x>> \o j \in Seq(X)
    BY <1>4, <1>8, BothParts
  <2>2. ((p \o f) \o <<x>>) \o j = (p \o f) \o (<<x>> \o j)
    BY <1>4, <1>7, <1>8, Assoc
  <2>3. (p \o f) \o (<<x>> \o j) = p \o (f \o (<<x>> \o j))
    BY <1>4, <2>1, Assoc
  <2>. QED  BY <2>2, <2>3
<1>12. f \o (<<x>> \o j) \in Seq(X)
  BY <1>4, <1>8, BothParts
<1>. QED  BY <1>6, <1>10, <1>11, <1>12 DEF f, d

LEMMA Disrupted ==
  ASSUME NEW c \in DisruptionConfig, NEW N, {"dos.py", "hping3", "python.exe"} \subseteq N,
         NEW p \in Seq(Noting(N)), Len(p) > 2,
         Noticed(p, c.t.run), Prompt(p \o Filter({c.attacker}))
  PROVE  LET z == p \o Disrupt(c)
         IN  /\ z \in Seq(Noting(N)) /\ Len(z) > 2
             /\ Noticed(z, c.t.run) /\ Lasts(z, c.t.run)
<1>. DEFINE X == Noting(N)
            Y == Plain(N)
            d == c.t.run
<1>1. c.attacker \in VM /\ c.opc \in VM /\ c.t \in Times
  BY DEF DisruptionConfig
<1>2. /\ d \in Nat /\ c.t.delay \in Nat /\ c.t.pdelay \in Nat /\ c.t.phys \in Nat
      /\ AttackLength(c.t) \in Nat /\ c.t.delay + AttackLength(c.t) \in Nat
      /\ (IF c.t.pdelay + 150 > c.t.run THEN c.t.run - 10 ELSE c.t.pdelay + 150) \in Nat
      /\ d >= d
  BY <1>1, TimesAre
<1>3. /\ \A x \in Y : x \in X
      /\ \A x \in Seq(Y) : x \in Seq(X)
      /\ \A x \in X : <<x>> \in Seq(X)
      /\ \A x, y \in Seq(X) : x \o y \in Seq(X)
      /\ \A x, y \in Seq(Y) : x \o y \in Seq(Y)
  <2>1. \A x \in X : <<x>> \in Seq(X)
    BY OneOf
  <2>2. Y \subseteq X /\ \A x \in Seq(Y) : x \in Seq(X)
    BY PlainNotes
  <2>. QED  BY <2>1, <2>2, Joined
<1>4. PICK rest \in Y : Rest(d) = <<rest>> /\ rest.op = "rest" /\ rest.n = d
  BY <1>2, WaitIs
<1>5. RunScenario(c) \in Seq(Y)
  <2>. DEFINE j == Job("run", {"python.exe"}, {"phys-results", "phys-log"})
  <2>1. j \in Seq(Y)
    <3>1. /\ "run" \in Acts /\ {"python.exe"} \in Texts /\ {"python.exe"} \subseteq N
          /\ {"phys-results", "phys-log"} \in Texts /\ Y \subseteq Y
      BY DEF Acts, Texts, Word
    <3>. QED  BY <3>1, Commands
  <2>. HIDE DEF j
  <2>2. RunFor(c.opc, j, IF c.t.pdelay + 150 > c.t.run THEN c.t.run - 10 ELSE c.t.pdelay + 150,
               c.t.phys) \in Seq(Y)
    <3>1. Y \subseteq Y
      OBVIOUS
    <3>. HIDE DEF Y
    <3>. QED  BY <1>1, <1>2, <2>1, <3>1, Helpers DEF Y
  <2>3. Attempt("exit") \in Seq(Y)
    <3>1. Y \subseteq Y /\ "exit" \in Fail
      BY DEF Fail
    <3>. QED  BY <3>1, Services
  <2>. QED  BY <1>3, <2>2, <2>3 DEF RunScenario, j
<1>6. Sleep(c.t.pdelay) \in Seq(Y) /\ ClearFilter \in Seq(Y)
  <2>1. Y \subseteq Y
    OBVIOUS
  <2>. QED  BY <1>2, <2>1, Services, Helpers
<1>. HIDE DEF X, Y, d
\* what is done, and the rest of the duration
<1>7. ASSUME NEW x \in Seq(X), Noticed(p \o x, d), Disrupt(c) = x \o Rest(d)
      PROVE  LET z == p \o Disrupt(c)
             IN  z \in Seq(X) /\ Len(z) > 2 /\ Noticed(z, d) /\ Lasts(z, d)
  <2>. DEFINE z == p \o (x \o <<rest>>)
  <2>1. z \in Seq(X)
    BY <1>3, <1>4 DEF X
  <2>2. z[Len(z)] = rest /\ Len(z) > 2
    BY <1>3, <1>4, LastIs DEF X
  <2>3. Noticed(z, d)
    <3>1. <<rest>> \in Seq(Y)
      BY OneOf
    <3>. QED  BY <1>7, <3>1, Grows DEF X, Y
  <2>. HIDE DEF z
  <2>4. Lasts(z, d)
    <3>1. d >= d
      BY <1>2
    <3>. QED  BY <1>4, <2>2, <3>1 DEF Lasts
  <2>5. z = p \o Disrupt(c)
    BY <1>4, <1>7 DEF z
  <2>. QED  BY <2>1, <2>2, <2>3, <2>4, <2>5
\* or only one request
<1>8. ASSUME NEW y \in Y, Disrupt(c) = <<y>>,
             Ends(y) \/ (y.op \in {"sleep", "rest"} /\ y.n >= d)
      PROVE  LET z == p \o Disrupt(c)
             IN  z \in Seq(X) /\ Len(z) > 2 /\ Noticed(z, d) /\ Lasts(z, d)
  <2>. DEFINE z == p \o <<y>>
  <2>1. y \in X /\ p \in Seq(X) /\ <<y>> \in Seq(Y)
    BY <1>3, OneOf DEF X
  <2>2. z \in Seq(X) /\ Len(p) \in Nat /\ Len(z) = Len(p) + 1 /\ z[Len(p) + 1] = y
    BY <2>1, Appended
  <2>3. Noticed(z, d)
    BY <2>1, Followed DEF X, Y, d
  <2>4. z = p \o Disrupt(c)
    BY <1>8
  <2>. HIDE DEF z
  <2>5. z[Len(z)] = y /\ Len(z) > 2
    BY <2>2
  <2>6. Lasts(z, d)
    BY <1>8, <2>5 DEF Lasts
  <2>. QED  BY <2>2, <2>3, <2>4, <2>5, <2>6
<1>9. CASE c.mode = "baseline"
  <2>1. PICK y \in Y : Sleep(d) = <<y>> /\ y.op = "sleep" /\ y.n = d
    BY <1>2, WaitIs DEF Y
  <2>2. Disrupt(c) = <<y>>
    BY <1>9, <2>1 DEF Disrupt, d
  <2>3. d >= d
    BY <1>2
  <2>. QED  BY <1>8, <2>1, <2>2, <2>3 DEF X, d
<1>10. CASE c.mode = "dos"
  <2>. DEFINE f == Filter({c.attacker}) \o DosScript(c, "run")
              w == Await({c.attacker}, AttackLength(c.t), c.t.delay + AttackLength(c.t), "exit")
              t == Attempt("exit")
  <2>1. f \in Seq(X) /\ Noticed(p \o f, d)
    BY Scripted DEF X, d
  <2>2. w \in Seq(Y) /\ t \in Seq(Y)
    <3>1. {c.attacker} \in Where /\ "exit" \in Fail /\ Plain(N) \subseteq Y
      BY <1>1 DEF Where, Fail, Y
    <3>. QED  BY <1>2, <3>1, Commands, Services
  <2>3. Disrupt(c) = ((f \o w) \o t) \o Rest(d)
    BY <1>10 DEF Disrupt, RunDos, RunFor, d
  <2>. HIDE DEF f, w, t
  <2>4. Noticed(p \o (f \o w), d) /\ f \o w \in Seq(X)
    BY <1>3, <2>1, <2>2, Grows DEF X, Y
  <2>5. Noticed(p \o ((f \o w) \o t), d) /\ (f \o w) \o t \in Seq(X)
    BY <1>3, <2>2, <2>4, Grows DEF X, Y
  <2>. QED  BY <1>7, <2>3, <2>5 DEF X, d
<1>11. CASE c.mode = "physical"
  <2>. DEFINE x == Sleep(c.t.pdelay) \o RunScenario(c)
  <2>1. x \in Seq(Y) /\ x \in Seq(X)
    BY <1>3, <1>5, <1>6
  <2>2. Disrupt(c) = x \o Rest(d)
    BY <1>11 DEF Disrupt, d
  <2>. HIDE DEF x
  <2>3. Noticed(p \o x, d)
    BY <2>1, Followed DEF X, Y, d
  <2>. QED  BY <1>7, <2>1, <2>2, <2>3 DEF X, d
<1>12. CASE c.mode = "cyber_physical"
  <2>. DEFINE f == Filter({c.attacker}) \o DosScript(c, "start")
              g == f \o ClearFilter
              h == g \o Sleep(c.t.pdelay)
              x == h \o RunScenario(c)
  <2>1. f \in Seq(X) /\ Noticed(p \o f, d)
    BY Scripted DEF X, d
  <2>2. Disrupt(c) = x \o Rest(d)
    <3>1. Disrupt(c) =
            Filter({c.attacker}) \o DosScript(c, "start") \o ClearFilter
              \o Sleep(c.t.pdelay) \o RunScenario(c) \o Rest(c.t.run)
      BY <1>12 DEF Disrupt
    <3>. QED  BY <3>1 DEF d
  <2>. HIDE DEF f
  <2>3. g \in Seq(X) /\ Noticed(p \o g, d)
    BY <1>3, <1>6, <2>1, Grows DEF X, Y
  <2>. HIDE DEF g
  <2>4. h \in Seq(X) /\ Noticed(p \o h, d)
    BY <1>3, <1>6, <2>3, Grows DEF X, Y
  <2>. HIDE DEF h
  <2>5. x \in Seq(X) /\ Noticed(p \o x, d)
    BY <1>3, <1>5, <2>4, Grows DEF X, Y
  <2>. HIDE DEF x
  <2>. QED  BY <1>7, <2>2, <2>5 DEF X, d
<1>13. CASE c.mode \notin {"baseline", "dos", "physical", "cyber_physical"}
  <2>1. PICK y \in Y : Stop("raise") = <<y>> /\ Ends(y)
    BY <1>2, WaitIs DEF Y
  <2>2. Disrupt(c) = <<y>>
    BY <1>13, <2>1 DEF Disrupt
  <2>. QED  BY <1>8, <2>1, <2>2 DEF X, d
<1>. QED  BY <1>9, <1>10, <1>11, <1>12, <1>13

LEMMA DisruptionTimed ==
  ASSUME NEW c \in DisruptionConfig, NEW N, {"dos.py", "hping3", "python.exe"} \subseteq N
  PROVE  /\ DisruptionStart(c) \in Seq(Noting(N))
         /\ Timely(DisruptionStart(c), c.t.run)
<1>. DEFINE X == Noting(N)
            Y == Plain(N)
            d == c.t.run
            p == Attempt("raise") \o Stamp("start", 0, 0) \o Write("start-time")
            z == p \o Disrupt(c)
            a == When(Attacks(c),
                      KillDos(c) \o RecvFile(c.attacker, <<"dos-results">>) \o Attempt("exit"))
            b == When(Disturbs(c),
                      KillScenario(c) \o Attempt("exit")
                        \o RecvFile(c.opc, <<"phys-results", "phys-log">>) \o Query)
            w == Write("stop-time")
            q == ((w \o a) \o b) \o ClearFilter
<1>1. c.attacker \in VM /\ c.opc \in VM
  BY DEF DisruptionConfig
<1>2. /\ {"stop", "stop-time", "dos-results", "phys-results", "phys-log", "dos.py", "hping3",
          "python.exe"} \subseteq Word
      /\ Record \notin {"stop-time", "dos-results", "phys-results", "phys-log"}
  BY DEF Word, Record
<1>3. /\ z \in Seq(X) /\ Len(z) > 2 /\ Noticed(z, d) /\ Lasts(z, d)
  <2>1. p \in Seq(X) /\ Len(p) > 2 /\ Noticed(p, d) /\ Prompt(p \o Filter({c.attacker}))
    BY <1>1, Opened
  <2>. HIDE DEF p
  <2>. QED  BY <2>1, Disrupted
<1>4. PICK y \in Stamps : Stamp("stop", 0, 0) = <<y>> /\ y.names = {"stop"}
  BY <1>2, StampIs
<1>5. Y \subseteq Y /\ Y = Plain(N) /\ \A u, v \in Seq(Y) : u \o v \in Seq(Y)
  BY Joined
<1>6. \A x \in Seq(Y) : x \in Seq(X)
  BY PlainNotes
<1>7. /\ DisruptionStart(c) =
           p \o Disrupt(c) \o Stamp("stop", 0, 0) \o w \o a \o b \o ClearFilter
  BY DEF DisruptionStart
<1>. HIDE DEF Y, X, p
<1>8. Attempt("exit") \in Seq(Y) /\ w \in Seq(Y)
  BY <1>2, <1>5, Services DEF Fail
<1>9. KillDos(c) \in Seq(Y) /\ KillScenario(c) \in Seq(Y)
  <2>1. /\ KillProcess({c.attacker}, "dos.py") \in Seq(Y)
        /\ KillProcess({c.attacker}, "hping3") \in Seq(Y)
        /\ KillProcess({c.opc}, "python.exe") \in Seq(Y)
    BY <1>1, <1>2, <1>5, Helpers
  <2>. QED  BY <1>5, <2>1 DEF KillDos, KillScenario
<1>10. /\ RecvFile(c.attacker, <<"dos-results">>) \in Seq(Y)
       /\ RecvFile(c.opc, <<"phys-results", "phys-log">>) \in Seq(Y)
       /\ Query \in Seq(Y) /\ ClearFilter \in Seq(Y)
       /\ \A u \in Seq(Y) : \A t : When(t, u) \in Seq(Y)
  BY <1>1, <1>2, <1>5, Helpers
<1>11. a \in Seq(Y) /\ b \in Seq(Y)
  BY <1>5, <1>8, <1>9, <1>10
<1>. HIDE DEF w, a, b
<1>12. q \in Seq(Y)
  BY <1>5, <1>8, <1>10, <1>11
<1>13. DisruptionStart(c) = (z \o <<y>>) \o q
  <2>. DEFINE m == z \o <<y>>
  <2>1. m \in Seq(X)
    <3>1. y \in X
      BY DEF X, Noting
    <3>. HIDE DEF z
    <3>. QED  BY <1>3, <3>1, Appended
  <2>2. DisruptionStart(c) = ((m \o w) \o a) \o b \o ClearFilter
    BY <1>4, <1>7
  <2>. HIDE DEF m
  <2>3. w \in Seq(X) /\ a \in Seq(X) /\ b \in Seq(X) /\ ClearFilter \in Seq(X)
    BY <1>6, <1>8, <1>10, <1>11
  <2>. DEFINE u == w \o a
              v == u \o b
  <2>4. u \in Seq(X) /\ v \in Seq(X)
    BY <2>3, Joined
  <2>5. (m \o w) \o a = m \o u
    BY <2>1, <2>3, Assoc
  <2>. HIDE DEF u
  <2>6. (m \o u) \o b = m \o v
    BY <2>1, <2>3, <2>4, Assoc
  <2>. HIDE DEF v
  <2>7. (m \o v) \o ClearFilter = m \o (v \o ClearFilter)
    BY <2>1, <2>3, <2>4, Assoc
  <2>8. DisruptionStart(c) = m \o q
    BY <2>2, <2>5, <2>6, <2>7 DEF u, v
  <2>. QED  BY <2>8 DEF m
<1>. HIDE DEF z, q, d
<1>14. Timely((z \o <<y>>) \o q, d)
  BY <1>3, <1>4, <1>12, Stopped DEF X, Y
<1>15. (z \o <<y>>) \o q \in Seq(X)
  <2>1. y \in X /\ q \in Seq(X)
    BY <1>6, <1>12 DEF X, Noting
  <2>2. z \o <<y>> \in Seq(X)
    BY <1>3, <2>1, Appended
  <2>. QED  BY <2>1, <2>2, BothParts
<1>. QED  BY <1>13, <1>14, <1>15 DEF X, d

----------------------------------------------------------------------------
(* What a collector makes sure of *)

Occurs(x, p) == \E k \in DOMAIN p : p[k] = x

LEMMA Occurring ==
  ASSUME NEW X, NEW p \in Seq(X), NEW q \in Seq(X), NEW x, Occurs(x, p) \/ Occurs(x, q)
  PROVE  Occurs(x, p \o q)
<1>1. /\ Len(p) \in Nat /\ Len(q) \in Nat
      /\ DOMAIN p = 1..Len(p) /\ DOMAIN q = 1..Len(q) /\ DOMAIN (p \o q) = 1..(Len(p) + Len(q))
      /\ \A k \in 1..Len(p) : (p \o q)[k] = p[k]
      /\ \A k \in 1..Len(q) : (p \o q)[Len(p) + k] = q[k]
  BY BothParts
<1>2. CASE Occurs(x, p)
  <2>1. PICK k \in DOMAIN p : p[k] = x
    BY <1>2 DEF Occurs
  <2>2. k \in DOMAIN (p \o q) /\ (p \o q)[k] = x
    BY <1>1, <2>1
  <2>. QED  BY <2>2 DEF Occurs
<1>3. CASE Occurs(x, q)
  <2>1. PICK k \in DOMAIN q : q[k] = x
    BY <1>3 DEF Occurs
  <2>2. Len(p) + k \in DOMAIN (p \o q) /\ (p \o q)[Len(p) + k] = x
    BY <1>1, <2>1
  <2>. QED  BY <2>2 DEF Occurs
<1>. QED  BY <1>2, <1>3

\* The record is written once, after p, in which every check was made.
LEMMA Recorder ==
  ASSUME NEW p \in Seq(Plain({})), NEW q \in Seq(Plain({})), NEW w \in Rqs,
         ~w.caught, w.op = "write", NEW d \in Nat, NEW measured \in BOOLEAN,
         \E x : Occurs(x, p) /\ (Ends(x) \/ (x.op = "timed" /\ x.fail # "ignore" /\ x.n >= d)),
         measured => \E x : /\ Occurs(x, p)
                            /\ x.op = "gather" /\ x.fail # "ignore"
                            /\ x.names = {"vmstats"} /\ x.files = {"vm_stats.jsonl"}
  PROVE  Recording((p \o <<w>>) \o q, d, measured)
<1>. DEFINE Z == Plain({}) \cup {w}
            m == p \o <<w>>
            z == m \o q
<1>1. p \in Seq(Z) /\ q \in Seq(Z) /\ w \in Z
  <2>1. Plain({}) \subseteq Z
    OBVIOUS
  <2>. HIDE DEF Z
  <2>2. p \in Seq(Z) /\ q \in Seq(Z)
    BY <2>1, SeqMonotonic
  <2>. QED  BY <2>2 DEF Z
<1>2. /\ \A k \in DOMAIN p : p[k] \in Plain({})
      /\ \A k \in DOMAIN q : q[k] \in Plain({})
  BY LenProperties, ElementOfSeq
<1>. HIDE DEF Z
<1>3. /\ m \in Seq(Z) /\ Len(p) \in Nat /\ Len(m) = Len(p) + 1
      /\ \A k \in 1..Len(p) : m[k] = p[k]
      /\ m[Len(p) + 1] = w
  BY <1>1, Appended
<1>. HIDE DEF m
<1>4. /\ z \in Seq(Z) /\ Len(q) \in Nat /\ DOMAIN q = 1..Len(q)
      /\ DOMAIN z = 1..(Len(m) + Len(q))
      /\ \A k \in 1..Len(m) : z[k] = m[k]
      /\ \A k \in 1..(Len(m) + Len(q)) : k > Len(m) =>
           k - Len(m) \in 1..Len(q) /\ z[k] = q[k - Len(m)]
  <2>1. m \in Seq(Z) /\ q \in Seq(Z)
    BY <1>1, <1>3
  <2>2. /\ m \o q \in Seq(Z) /\ Len(q) \in Nat /\ DOMAIN q = 1..Len(q)
        /\ DOMAIN (m \o q) = 1..(Len(m) + Len(q))
        /\ \A k \in 1..Len(m) : (m \o q)[k] = m[k]
        /\ \A k \in 1..(Len(m) + Len(q)) : k > Len(m) =>
             k - Len(m) \in 1..Len(q) /\ (m \o q)[k] = q[k - Len(m)]
    BY <2>1, BothParts
  <2>. QED  BY <2>2
<1>5. DOMAIN p = 1..Len(p)
  BY LenProperties
<1>. HIDE DEF z
<1>6. \A k \in DOMAIN p : k \in DOMAIN z /\ k < Len(p) + 1 /\ z[k] = p[k]
  BY <1>3, <1>4, <1>5
<1>7. \A k \in DOMAIN z : z[k] \in Plain({}) \/ (k = Len(p) + 1 /\ z[k] = w)
  <2>. TAKE k \in DOMAIN z
  <2>1. CASE k > Len(m)
    BY <1>2, <1>4, <2>1
  <2>2. CASE k = Len(m)
    BY <1>3, <1>4, <2>2
  <2>3. CASE k < Len(m)
    <3>1. k \in 1..Len(p) /\ k \in 1..Len(m)
      BY <1>3, <1>4, <2>3
    <3>. QED  BY <1>2, <1>3, <1>4, <1>5, <3>1
  <2>. QED  BY <1>3, <1>4, <2>1, <2>2, <2>3
<1>8. \A x \in Plain({}) : /\ ~Makes(x, "experiment_record.json") /\ ~x.caught
                           /\ x.op \notin {"if", "unless", "mishap", "again"}
  BY DEF Plain, Safe, Record
<1>9. Straight(z)
  BY <1>7, <1>8 DEF Straight
<1>10. \A k \in DOMAIN z : Makes(z[k], "experiment_record.json") => k = Len(p) + 1
  BY <1>7, <1>8
<1>11. \/ \E j \in DOMAIN z : j < Len(p) + 1 /\ Ends(z[j])
       \/ \E j \in DOMAIN z :
            j < Len(p) + 1 /\ z[j].op = "timed" /\ z[j].fail # "ignore" /\ z[j].n >= d
  BY <1>6 DEF Occurs
<1>12. measured => \E j \in DOMAIN z :
         /\ j < Len(p) + 1 /\ z[j].op = "gather" /\ z[j].fail # "ignore"
         /\ z[j].names = {"vmstats"} /\ z[j].files = {"vm_stats.jsonl"}
  BY <1>6 DEF Occurs
<1>13. Recording(z, d, measured)
  BY <1>9, <1>10, <1>11, <1>12 DEF Recording
<1>. QED  BY <1>13 DEF z, m

LEMMA CollectorPrograms ==
  ASSUME NEW c \in [kind : {"collector"}, on : SUBSET STRING, run : Nat, mode : STRING,
                    logs : Seq(VM), opts : Opts],
         NEW N, NEW measured \in BOOLEAN, measured => "vmstats" \in c.on
  PROVE  /\ Recording(CollectorStop(c), c.run, measured)
         /\ \A k \in DOMAIN CollectorStop(c) :
              CollectorStop(c)[k].op # "stamp" /\ Names(CollectorStop(c)[k]) \subseteq N
<1>. DEFINE Y == Plain({})
            t == Attempt("raise") \o Attempt("raise")
            v == When("vmstats" \in c.on, Gather("vmstats", "vm_stats.jsonl", "raise"))
            h == When("hoststats" \in c.on, Gather("hoststats", "host_stats.jsonl", "raise"))
            g == When("miniccc" \in c.opts, For(c.logs, LAMBDA x : Attempt("exit")))
            i == When("iperf" \in c.opts /\ "iperf" \in c.on, Attempt("raise"))
            e == CollectDisruption(c)
            o == When("qos" \in c.on, Gather("qos", "qos_values_applied.json", "raise"))
            p == t \o v \o h \o g \o i \o e \o o \o CollectProvider(c) \o CollectPcap(c)
            q == When("csv" \in c.opts, IF "rtds" \in c.on THEN Query ELSE Stop("exit"))
            w == [Rq EXCEPT !.op = "write", !.files = {Record}]
<1>1. c.run \in Nat /\ c.logs \in Seq(VM)
  OBVIOUS
<1>2. /\ {"vmstats", "vm_stats.jsonl", "hoststats", "host_stats.jsonl", "qos",
          "qos_values_applied.json", "providerdata", "rtds", "config.ini", "pcap",
          "pcap_metadata.json", "merged.pcap", "disruption", "start-time", "stop-time",
          "dos-results", "phys-results", Record} \subseteq Word
      /\ {"raise", "exit"} \subseteq Fail
  BY DEF Word, Record, Fail
<1>3. /\ Y \subseteq Y /\ Y = Plain({}) /\ <<>> \in Seq(Y)
      /\ \A x, y \in Seq(Y) : x \o y \in Seq(Y)
  BY Joined
<1>4. CollectorStop(c) = p \o <<w>> \o q
  BY DEF CollectorStop, Write, Record
<1>. HIDE DEF Y, q, w
<1>5. /\ Attempt("raise") \in Seq(Y) /\ Attempt("exit") \in Seq(Y)
      /\ Stop("raise") \in Seq(Y) /\ Stop("exit") \in Seq(Y) /\ Timed(c.run) \in Seq(Y)
      /\ \A n, f \in Word : Gather(n, f, "raise") \in Seq(Y)
  BY <1>1, <1>2, <1>3, Services
<1>6. /\ \A x \in Seq(Y) : \A b : When(b, x) \in Seq(Y)
      /\ Query \in Seq(Y)
  BY <1>3, Helpers
<1>7. t \in Seq(Y) /\ v \in Seq(Y) /\ h \in Seq(Y) /\ i \in Seq(Y) /\ o \in Seq(Y)
  BY <1>2, <1>3, <1>5, <1>6
<1>8. g \in Seq(Y)
  <2>. DEFINE l == c.logs
              s == [k \in DOMAIN l |-> Attempt("exit")]
  <2>1. s = [k \in DOMAIN l |-> s[k]] /\ \A k \in DOMAIN l : s[k] \in Seq(Y)
    BY <1>5
  <2>. HIDE DEF s
  <2>2. FlattenSeq(s) \in Seq(Y)
    BY <1>1, <2>1, Looped
  <2>3. For(c.logs, LAMBDA x : Attempt("exit")) \in Seq(Y)
    BY <2>2 DEF For, s
  <2>. QED  BY <1>6, <2>3
<1>9. CheckTimes(c) \in Seq(Y)
  BY <1>2, <1>3, <1>5 DEF CheckTimes
<1>10. e \in Seq(Y)
  BY <1>2, <1>3, <1>5, <1>6, <1>9 DEF CollectDisruption
<1>11. CollectPcap(c) \in Seq(Y)
  BY <1>2, <1>3, <1>5, <1>6 DEF CollectPcap
<1>12. CollectProvider(c) \in Seq(Y)
  <2>. DEFINE kind == IF "providerdata" \in c.on THEN "providerdata" ELSE "rtds"
  <2>1. kind \in Word
    BY <1>2
  <2>. HIDE DEF kind
  <2>2. Gather(kind, "config.ini", "raise") \in Seq(Y)
    BY <1>2, <1>5, <2>1
  <2>3. /\ When("pmus" \in c.opts, Stop("raise")) \in Seq(Y)
        /\ \A x \in Seq(Y) : When(kind \in c.on, x) \in Seq(Y)
    BY <1>5, <1>6
  <2>. QED  BY <1>3, <1>5, <2>2, <2>3 DEF CollectProvider, kind
<1>13. q \in Seq(Y)
  BY <1>5, <1>6 DEF q
\* what it checks
<1>14. \E x : Occurs(x, e) /\ (Ends(x) \/ (x.op = "timed" /\ x.fail # "ignore" /\ x.n >= c.run))
  <2>1. CASE "disruption" \notin c.on
    <3>. DEFINE x == [Rq EXCEPT !.op = "stop", !.fail = "exit"]
    <3>1. e = <<x>>
      BY <2>1 DEF CollectDisruption, Stop
    <3>2. Ends(x)
      BY RqIs DEF Ends, Rqs
    <3>. HIDE DEF x, e
    <3>3. Occurs(x, e)
      BY <3>1 DEF Occurs
    <3>. QED  BY <3>2, <3>3
  <2>2. CASE "disruption" \in c.on
    <3>. DEFINE x == [Rq EXCEPT !.op = "timed", !.n = c.run]
                a == Gather("disruption", "start-time", "raise")
                       \o Gather("disruption", "stop-time", "raise")
                d1 == When(c.mode \in {"dos", "cyber_physical"},
                           Gather("disruption", "dos-results", "raise"))
                d2 == When(c.mode \in {"physical", "cyber_physical"},
                           Gather("disruption", "phys-results", "raise"))
    <3>1. e = ((a \o <<x>>) \o d1) \o d2
      BY <2>2 DEF CollectDisruption, CheckTimes, Timed
    <3>2. x.op = "timed" /\ x.fail = "raise" /\ x.n = c.run
      BY RqIs DEF Rqs
    <3>3. <<x>> \in Seq(Y)
      BY <1>5 DEF Timed
    <3>4. a \in Seq(Y) /\ d1 \in Seq(Y) /\ d2 \in Seq(Y)
      BY <1>2, <1>3, <1>5, <1>6
    <3>5. x.fail # "ignore" /\ x.n >= c.run
      BY <1>1, <3>2
    <3>. HIDE DEF x, a, d1, d2, e
    <3>6. Occurs(x, <<x>>)
      BY DEF Occurs
    <3>7. Occurs(x, a \o <<x>>)
      BY <3>3, <3>4, <3>6, Occurring
    <3>8. Occurs(x, (a \o <<x>>) \o d1)
      BY <1>3, <3>3, <3>4, <3>7, Occurring
    <3>9. Occurs(x, ((a \o <<x>>) \o d1) \o d2)
      BY <1>3, <3>3, <3>4, <3>8, Occurring
    <3>. QED  BY <3>1, <3>2, <3>5, <3>9
  <2>. QED  BY <2>1, <2>2
<1>15. measured => \E x : /\ Occurs(x, v)
                          /\ x.op = "gather" /\ x.fail # "ignore"
                          /\ x.names = {"vmstats"} /\ x.files = {"vm_stats.jsonl"}
  <2>. SUFFICES ASSUME measured
       PROVE  \E x : /\ Occurs(x, v)
                     /\ x.op = "gather" /\ x.fail # "ignore"
                     /\ x.names = {"vmstats"} /\ x.files = {"vm_stats.jsonl"}
    OBVIOUS
  <2>. DEFINE x == [Rq EXCEPT !.op = "gather", !.names = {"vmstats"},
                              !.files = {"vm_stats.jsonl"}, !.fail = "raise"]
  <2>1. v = <<x>>
    BY DEF When, Gather
  <2>2. /\ x.op = "gather" /\ x.fail # "ignore"
        /\ x.names = {"vmstats"} /\ x.files = {"vm_stats.jsonl"}
    BY RqIs DEF Rqs
  <2>. HIDE DEF x, v
  <2>3. Occurs(x, v)
    BY <2>1 DEF Occurs
  <2>. QED  BY <2>2, <2>3
<1>. HIDE DEF t, v, h, g, i, e, o
<1>16. /\ p \in Seq(Y)
       /\ \A x : Occurs(x, v) \/ Occurs(x, e) => Occurs(x, p)
  <2>. DEFINE a == t \o v
              b == a \o h \o g \o i
              d1 == b \o e
              d2 == d1 \o o
              d3 == d2 \o CollectProvider(c)
  <2>1. /\ a \in Seq(Y) /\ a \o h \in Seq(Y) /\ (a \o h) \o g \in Seq(Y) /\ b \in Seq(Y)
    BY <1>3, <1>7, <1>8
  <2>2. \A x : Occurs(x, v) => Occurs(x, b)
    <3>. TAKE x
    <3>. HAVE Occurs(x, v)
    <3>1. Occurs(x, a)
      BY <1>7, Occurring
    <3>. HIDE DEF a
    <3>2. Occurs(x, a \o h)
      BY <1>7, <2>1, <3>1, Occurring
    <3>3. Occurs(x, (a \o h) \o g)
      BY <1>8, <2>1, <3>2, Occurring
    <3>. QED  BY <1>7, <2>1, <3>3, Occurring
  <2>3. p = d3 \o CollectPcap(c)
    OBVIOUS
  <2>. HIDE DEF b
  <2>4. d1 \in Seq(Y) /\ \A x : Occurs(x, b) \/ Occurs(x, e) => Occurs(x, d1)
    BY <1>3, <1>10, <2>1, Occurring
  <2>. HIDE DEF d1
  <2>5. d2 \in Seq(Y) /\ \A x : Occurs(x, d1) => Occurs(x, d2)
    BY <1>3, <1>7, <2>4, Occurring
  <2>. HIDE DEF d2
  <2>6. d3 \in Seq(Y) /\ \A x : Occurs(x, d2) => Occurs(x, d3)
    BY <1>3, <1>12, <2>5, Occurring
  <2>. HIDE DEF d3
  <2>7. d3 \o CollectPcap(c) \in Seq(Y)
        /\ \A x : Occurs(x, d3) => Occurs(x, d3 \o CollectPcap(c))
    BY <1>3, <1>11, <2>6, Occurring
  <2>. QED  BY <2>2, <2>3, <2>4, <2>5, <2>6, <2>7
<1>. HIDE DEF p
<1>17. w \in Rqs /\ w.caught = FALSE /\ w.op = "write"
  BY <1>2, RqIs DEF w, Rqs, Ops, Texts
<1>18. \E x : Occurs(x, p) /\ (Ends(x) \/ (x.op = "timed" /\ x.fail # "ignore" /\ x.n >= c.run))
  BY <1>14, <1>16
<1>19. measured => \E x : /\ Occurs(x, p)
                          /\ x.op = "gather" /\ x.fail # "ignore"
                          /\ x.names = {"vmstats"} /\ x.files = {"vm_stats.jsonl"}
  BY <1>15, <1>16
<1>20. Recording((p \o <<w>>) \o q, c.run, measured)
  BY <1>1, <1>13, <1>16, <1>17, <1>18, <1>19, Recorder DEF Y
<1>21. \A k \in DOMAIN CollectorStop(c) :
         CollectorStop(c)[k].op # "stamp" /\ Names(CollectorStop(c)[k]) \subseteq N
  <2>. DEFINE Z == {x \in Rqs : x.op # "stamp" /\ Names(x) = {}}
  <2>1. Y \subseteq Z
    BY DEF Y, Plain, Safe
  <2>2. w \in Z
    BY <1>17 DEF Names
  <2>3. \A k \in Z : k.op # "stamp" /\ Names(k) \subseteq N
    OBVIOUS
  <2>. HIDE DEF Z
  <2>4. p \in Seq(Z) /\ q \in Seq(Z)
    BY <1>13, <1>16, <2>1, SeqMonotonic
  <2>5. p \o <<w>> \in Seq(Z)
    BY <2>2, <2>4, Appended
  <2>6. (p \o <<w>>) \o q \in Seq(Z)
    BY <2>4, <2>5, Joined
  <2>7. \A k \in DOMAIN ((p \o <<w>>) \o q) : ((p \o <<w>>) \o q)[k] \in Z
    BY <2>6, LenProperties, ElementOfSeq
  <2>. QED  BY <1>4, <2>3, <2>7
<1>. QED  BY <1>4, <1>20, <1>21

----------------------------------------------------------------------------
(* Every configuration *)

\* What the components of a type end, start or switch.
Theirs(kind) ==
  CASE kind = "disruption" -> {"dos.py", "hping3", "python.exe"}
    [] kind = "opcexport" -> {"python.exe"}
    [] kind \in {"rtds", "providerdata"} -> {Solver, "case"}
    [] kind = "snort" -> {"snort"}
    [] kind = "ettercap" -> {"ettercap"}
    [] kind = "trafficgen" -> {"traffic-server", "background-gen", "malware-gen"}
    [] kind = "tcpdump" -> {"tcpdump"}
    [] kind = "vmstats" -> {"vmstat"}
    [] kind = "iperf" -> IperfNames
    [] kind = "qos" -> {"qos"}
    [] kind = "pipe" -> {"pipe"}
    [] kind = "pcap" -> {"capture", "bridge capture"}
    [] kind = "mm" -> {"capture", "bridge capture", "halted", "unplugged"}
    [] OTHER -> {}

Kinds ==
  {"disruption", "opcexport", "rtds", "providerdata", "caldera", "art", "snort",
   "ettercap", "trafficgen", "tcpdump", "vmstats", "iperf", "qos", "pipe", "pcap",
   "mm", "collector"}

LEMMA TheirOwn ==
  ASSUME NEW k \in Kinds, NEW l \in Kinds, k # l,
         Theirs(k) \cap Theirs(l) # {}
  PROVE  \/ <<k, l>> \in Excused
         \/ k = "rtds" /\ l = "providerdata"
         \/ k = "providerdata" /\ l = "rtds"
<1>1. PICK x \in Theirs(k) : x \in Theirs(l)
  OBVIOUS
<1>2. ASSUME NEW m \in Kinds, x \in Theirs(m)
      PROVE  \/ x \in {"dos.py", "hping3"} /\ m = "disruption"
             \/ x = "python.exe" /\ m \in {"disruption", "opcexport"}
             \/ x \in {"pybennu-power-solver", "case"} /\ m \in {"rtds", "providerdata"}
             \/ x = "snort" /\ m = "snort"
             \/ x = "ettercap" /\ m = "ettercap"
             \/ x \in {"traffic-server", "background-gen", "malware-gen"} /\ m = "trafficgen"
             \/ x = "tcpdump" /\ m = "tcpdump"
             \/ x = "vmstat" /\ m = "vmstats"
             \/ x \in {"iperf3", "iperf3.exe", "rperf", "rperf.exe"} /\ m = "iperf"
             \/ x = "qos" /\ m = "qos"
             \/ x = "pipe" /\ m = "pipe"
             \/ x \in {"capture", "bridge capture"} /\ m \in {"pcap", "mm"}
             \/ x \in {"halted", "unplugged"} /\ m = "mm"
  <2>1. CASE m = "disruption"
    BY <1>2, <2>1 DEF Theirs, Solver, IperfNames
  <2>2. CASE m = "opcexport"
    BY <1>2, <2>2 DEF Theirs, Solver, IperfNames
  <2>3. CASE m = "rtds"
    BY <1>2, <2>3 DEF Theirs, Solver, IperfNames
  <2>4. CASE m = "providerdata"
    BY <1>2, <2>4 DEF Theirs, Solver, IperfNames
  <2>5. CASE m = "caldera"
    BY <1>2, <2>5 DEF Theirs, Solver, IperfNames
  <2>6. CASE m = "art"
    BY <1>2, <2>6 DEF Theirs, Solver, IperfNames
  <2>7. CASE m = "snort"
    BY <1>2, <2>7 DEF Theirs, Solver, IperfNames
  <2>8. CASE m = "ettercap"
    BY <1>2, <2>8 DEF Theirs, Solver, IperfNames
  <2>9. CASE m = "trafficgen"
    BY <1>2, <2>9 DEF Theirs, Solver, IperfNames
  <2>10. CASE m = "tcpdump"
    BY <1>2, <2>10 DEF Theirs, Solver, IperfNames
  <2>11. CASE m = "vmstats"
    BY <1>2, <2>11 DEF Theirs, Solver, IperfNames
  <2>12. CASE m = "iperf"
    BY <1>2, <2>12 DEF Theirs, Solver, IperfNames
  <2>13. CASE m = "qos"
    BY <1>2, <2>13 DEF Theirs, Solver, IperfNames
  <2>14. CASE m = "pipe"
    BY <1>2, <2>14 DEF Theirs, Solver, IperfNames
  <2>15. CASE m = "pcap"
    BY <1>2, <2>15 DEF Theirs, Solver, IperfNames
  <2>16. CASE m = "mm"
    BY <1>2, <2>16 DEF Theirs, Solver, IperfNames
  <2>17. CASE m = "collector"
    BY <1>2, <2>17 DEF Theirs, Solver, IperfNames
  <2>. QED
    BY <2>1, <2>2, <2>3, <2>4, <2>5, <2>6, <2>7, <2>8, <2>9, <2>10, <2>11, <2>12, <2>13,
       <2>14, <2>15, <2>16, <2>17 DEF Kinds
<1>. HIDE DEF Kinds
<1>. QED  BY <1>1, <1>2 DEF Excused

LEMMA FourStages ==
  ASSUME NEW X, NEW a \in Seq(X), NEW b \in Seq(X), NEW e \in Seq(X), NEW f \in Seq(X),
         NEW g \in Stage
  PROVE  <<a, b, e, f>>[g] \in Seq(X)
<1>1. g = 1 \/ g = 2 \/ g = 3 \/ g = 4
  BY DEF Stage
<1>. QED  BY <1>1

\* A component of type kind does only this when it is not a disruption that
\* starts or a collector that stops.
LEMMA StagesSafe ==
  ASSUME NEW c \in Config, NEW q \in Nat, NEW g \in Stage,
         c.kind = "art" => q \in DOMAIN c.results /\ c.results[q] # Record,
         ~(c.kind = "disruption" /\ g = 2), ~(c.kind = "collector" /\ g = 3)
  PROVE  Stages(c, q)[g] \in Seq(Safe(Theirs(c.kind)))
<1>. DEFINE N == Theirs(c.kind)
            X == Safe(N)
<1>0. <<>> \in Seq(X)
  BY Joined
<1>1. CASE c \in DisruptionConfig
  <2>1. c.kind = "disruption" /\ N = {"dos.py", "hping3", "python.exe"}
    BY <1>1 DEF DisruptionConfig, Theirs
  <2>2. Stages(c, q) =
          <<DisruptionConfigure(c, q = 1), DisruptionStart(c), <<>>, DisruptionCleanup(c)>>
    BY <2>1 DEF Stages
  <2>. HIDE DEF N
  <2>3. DisruptionConfigure(c, q = 1) \in Seq(X) /\ DisruptionCleanup(c) \in Seq(X)
    BY <1>1, <2>1, DisruptionPrograms
  <2>4. g = 1 \/ g = 3 \/ g = 4
    BY <2>1 DEF Stage
  <2>5. Stages(c, q)[g] \in {DisruptionConfigure(c, q = 1), <<>>, DisruptionCleanup(c)}
    BY <2>2, <2>4
  <2>. HIDE DEF X
  <2>6. Stages(c, q)[g] \in Seq(X)
    BY <1>0, <2>3, <2>5
  <2>. QED  BY <2>6 DEF X, N
<1>2. CASE c \in OpcConfig
  <2>1. c.kind = "opcexport" /\ N = {"python.exe"}
    BY <1>2 DEF OpcConfig, Theirs
  <2>2. Stages(c, q) = <<OpcConfigure(c), OpcStart(c), OpcStop(c), OpcCleanup(c)>>
    BY <2>1 DEF Stages
  <2>. HIDE DEF N
  <2>3. /\ OpcConfigure(c) \in Seq(X) /\ OpcStart(c) \in Seq(X)
        /\ OpcStop(c) \in Seq(X) /\ OpcCleanup(c) \in Seq(X)
    BY <1>2, <2>1, OpcPrograms
  <2>. QED  BY <2>2, <2>3, FourStages DEF N
<1>3. CASE c \in [kind : {"rtds", "providerdata"}, host : VM, opts : Opts]
  <2>1. c.kind \in {"rtds", "providerdata"} /\ N = {Solver, "case"}
    BY <1>3 DEF Theirs
  <2>2. \/ Stages(c, q) = <<RtdsConfigure(c), RtdsStart(c), RtdsStop(c), RtdsCleanup(c)>>
        \/ Stages(c, q) = <<ProviderConfigure(c), ProviderStart(c), ProviderStop(c), <<>>>>
    BY <2>1 DEF Stages
  <2>. HIDE DEF N
  <2>3. /\ RtdsConfigure(c) \in Seq(X) /\ RtdsStart(c) \in Seq(X)
        /\ RtdsStop(c) \in Seq(X) /\ RtdsCleanup(c) \in Seq(X)
        /\ ProviderConfigure(c) \in Seq(X) /\ ProviderStart(c) \in Seq(X)
        /\ ProviderStop(c) \in Seq(X)
    BY <1>3, <2>1, ProviderPrograms
  <2>. QED  BY <1>0, <2>2, <2>3, FourStages DEF N
<1>4. CASE c \in [kind : {"caldera"}, server : VM, names : Seq(STRING)]
  <2>1. c.kind = "caldera"
    BY <1>4
  <2>2. Stages(c, q) = [h \in Stage |-> CalderaStage(c)]
    BY <2>1 DEF Stages
  <2>3. Stages(c, q)[g] = CalderaStage(c)
    BY <2>2
  <2>. HIDE DEF N
  <2>4. CalderaStage(c) \in Seq(X)
    BY <1>4, CalderaPrograms
  <2>. QED  BY <2>3, <2>4 DEF N
<1>5. CASE c \in [kind : {"art"}, vms : Seq(VM), results : Seq(STRING), opts : Opts]
  <2>1. c.kind = "art" /\ c.results \in Seq(STRING)
    BY <1>5
  <2>2. Stages(c, q) = <<<<>>, ArtStart(c, c.results[q]), <<>>, <<>>>>
    BY <2>1 DEF Stages
  <2>3. c.results[q] \in STRING \ {Record}
    BY <2>1, LenProperties, ElementOfSeq
  <2>. HIDE DEF N
  <2>4. ArtStart(c, c.results[q]) \in Seq(X)
    BY <1>5, <2>3, ArtPrograms
  <2>. QED  BY <1>0, <2>2, <2>4, FourStages DEF N
<1>6. CASE c \in [kind : {"snort"}, host : VM, wait : Nat, configs : Seq(STRING), opts : Opts]
  <2>1. c.kind = "snort" /\ N = {"snort"}
    BY <1>6 DEF Theirs
  <2>2. Stages(c, q) = <<SnortConfigure(c), SnortStart(c), SnortStop(c), SnortCleanup(c)>>
    BY <2>1 DEF Stages
  <2>. HIDE DEF N
  <2>3. /\ SnortConfigure(c) \in Seq(X) /\ SnortStart(c) \in Seq(X)
        /\ SnortStop(c) \in Seq(X) /\ SnortCleanup(c) \in Seq(X)
    BY <1>6, <2>1, SnortPrograms
  <2>. QED  BY <2>2, <2>3, FourStages DEF N
<1>7. CASE c \in [kind : {"ettercap"}, vms : Seq(VM), bare : SUBSET VM]
  <2>1. c.kind = "ettercap" /\ N = {"ettercap"}
    BY <1>7 DEF Theirs
  <2>2. Stages(c, q) = <<<<>>, EttercapStart(c), EttercapStop(c), <<>>>>
    BY <2>1 DEF Stages
  <2>. HIDE DEF N
  <2>3. EttercapStart(c) \in Seq(X) /\ EttercapStop(c) \in Seq(X)
    BY <1>7, <2>1, EttercapPrograms
  <2>. QED  BY <1>0, <2>2, <2>3, FourStages DEF N
<1>8. CASE c \in [kind : {"trafficgen"}, targets : Seq(Traffic)]
  <2>1. c.kind = "trafficgen" /\ N = {"traffic-server", "background-gen", "malware-gen"}
    BY <1>8 DEF Theirs
  <2>2. Stages(c, q) =
          <<TrafficConfigure(c), TrafficStart(c), TrafficStop(c), TrafficCleanup(c)>>
    BY <2>1 DEF Stages
  <2>. HIDE DEF N
  <2>3. /\ TrafficConfigure(c) \in Seq(X) /\ TrafficStart(c) \in Seq(X)
        /\ TrafficStop(c) \in Seq(X) /\ TrafficCleanup(c) \in Seq(X)
    BY <1>8, <2>1, TrafficPrograms
  <2>. QED  BY <2>2, <2>3, FourStages DEF N
<1>9. CASE c \in [kind : {"tcpdump"}, vms : Seq(VM)]
  <2>1. c.kind = "tcpdump" /\ N = {"tcpdump"}
    BY <1>9 DEF Theirs
  <2>2. Stages(c, q) = <<<<>>, TcpdumpStart(c), TcpdumpStop(c), <<>>>>
    BY <2>1 DEF Stages
  <2>. HIDE DEF N
  <2>3. TcpdumpStart(c) \in Seq(X) /\ TcpdumpStop(c) \in Seq(X)
    BY <1>9, <2>1, TcpdumpPrograms
  <2>. QED  BY <1>0, <2>2, <2>3, FourStages DEF N
<1>10. CASE c \in [kind : {"vmstats"}, vms : Seq(VM), opts : Opts]
  <2>1. c.kind = "vmstats" /\ N = {"vmstat"}
    BY <1>10 DEF Theirs
  <2>2. Stages(c, q) = <<<<>>, VmstatsStart(c), VmstatsStop(c), <<>>>>
    BY <2>1 DEF Stages
  <2>. HIDE DEF N
  <2>3. VmstatsStart(c) \in Seq(X) /\ VmstatsStop(c) \in Seq(X)
    BY <1>10, <2>1, VmstatsPrograms
  <2>. QED  BY <1>0, <2>2, <2>3, FourStages DEF N
<1>11. CASE c \in IperfConfig
  <2>1. c.kind = "iperf" /\ N = IperfNames
    BY <1>11 DEF IperfConfig, Theirs
  <2>2. Stages(c, q) = <<IperfConfigure(c, q = 1), IperfStart(c), IperfStop(c), IperfCleanup(c)>>
    BY <2>1 DEF Stages
  <2>. HIDE DEF N
  <2>3. /\ IperfConfigure(c, q = 1) \in Seq(X) /\ IperfStart(c) \in Seq(X)
        /\ IperfStop(c) \in Seq(X) /\ IperfCleanup(c) \in Seq(X)
    BY <1>11, <2>1, IperfPrograms
  <2>. QED  BY <2>2, <2>3, FourStages DEF N
<1>12. CASE c \in [kind : {"qos"},
                   limits : Seq([vm : VM, loss : Nat, factor : Nat, others : BOOLEAN])]
  <2>1. c.kind = "qos" /\ N = {"qos"}
    BY <1>12 DEF Theirs
  <2>2. Stages(c, q) = <<<<>>, QosStart(c, q), QosStop(c), <<>>>>
    BY <2>1 DEF Stages
  <2>. HIDE DEF N
  <2>3. QosStart(c, q) \in Seq(X) /\ QosStop(c) \in Seq(X)
    BY <1>12, <2>1, QosPrograms
  <2>. QED  BY <1>0, <2>2, <2>3, FourStages DEF N
<1>13. CASE c \in [kind : {"pipe"}, opts : Opts]
  <2>1. c.kind = "pipe" /\ N = {"pipe"}
    BY <1>13 DEF Theirs
  <2>2. Stages(c, q) = <<<<>>, PipeStart(c), <<>>, PipeCleanup(c)>>
    BY <2>1 DEF Stages
  <2>. HIDE DEF N
  <2>3. PipeStart(c) \in Seq(X) /\ PipeCleanup(c) \in Seq(X)
    BY <1>13, <2>1, PipePrograms
  <2>. QED  BY <1>0, <2>2, <2>3, FourStages DEF N
<1>14. CASE c \in [kind : {"pcap"}, vms : Seq(VM), targets : Seq(VM), opts : Opts]
  <2>1. c.kind = "pcap" /\ N = {"capture", "bridge capture"}
    BY <1>14 DEF Theirs
  <2>2. Stages(c, q) = <<<<>>, PcapStart(c), PcapStop(c), <<>>>>
    BY <2>1 DEF Stages
  <2>. HIDE DEF N
  <2>3. PcapStart(c) \in Seq(X) /\ PcapStop(c) \in Seq(X)
    BY <1>14, <2>1, PcapPrograms
  <2>. QED  BY <1>0, <2>2, <2>3, FourStages DEF N
<1>15. CASE c \in [kind : {"mm"}, opts : Opts,
                   commands : [1..4 -> Seq([type : STRING, vm : VM \cup {Host}])]]
  <2>1. c.kind = "mm" /\ N = {"capture", "bridge capture", "halted", "unplugged"}
    BY <1>15 DEF Theirs
  <2>2. Stages(c, q) = [h \in Stage |-> MmStage(c, h)]
    BY <2>1 DEF Stages
  <2>3. Stages(c, q)[g] = MmStage(c, g)
    BY <2>2
  <2>. HIDE DEF N
  <2>4. \A h \in 1..4 : MmStage(c, h) \in Seq(X)
    BY <1>15, <2>1, MmPrograms
  <2>5. MmStage(c, g) \in Seq(X)
    BY <2>4 DEF Stage
  <2>. QED  BY <2>3, <2>5 DEF N
<1>16. CASE c \in [kind : {"collector"}, on : SUBSET STRING, run : Nat, mode : STRING,
                   logs : Seq(VM), opts : Opts]
  <2>1. c.kind = "collector"
    BY <1>16
  <2>2. Stages(c, q) = <<<<>>, <<>>, CollectorStop(c), <<>>>>
    BY <2>1 DEF Stages
  <2>3. g = 1 \/ g = 2 \/ g = 4
    BY <2>1 DEF Stage
  <2>4. Stages(c, q)[g] = <<>>
    BY <2>2, <2>3
  <2>. HIDE DEF X
  <2>5. Stages(c, q)[g] \in Seq(X)
    BY <1>0, <2>4
  <2>. QED  BY <2>5 DEF X, N
<1>. HIDE DEF N, X
<1>17. Stages(c, q)[g] \in Seq(X)
  BY <1>1, <1>2, <1>3, <1>4, <1>5, <1>6, <1>7, <1>8, <1>9, <1>10, <1>11, <1>12, <1>13,
     <1>14, <1>15, <1>16 DEF Config, IperfConfig, Traffic, X, N
<1>. QED  BY <1>17 DEF X, N

\* What a component of type kind does in any of its stages.
LEMMA StagesDo ==
  ASSUME NEW c \in Config, NEW q \in Nat, NEW g \in Stage,
         c.kind = "art" => q \in DOMAIN c.results /\ c.results[q] # Record
  PROVE  LET p == Stages(c, q)[g]
         IN  /\ c.kind \in Kinds
             /\ \A k \in DOMAIN p : Names(p[k]) \subseteq Theirs(c.kind)
             /\ IF c.kind = "disruption" /\ g = 2 THEN Timely(p, c.t.run)
                ELSE \A k \in DOMAIN p : p[k].op # "stamp"
             /\ IF c.kind = "collector" /\ g = 3
                THEN \A measured \in BOOLEAN :
                       (measured => "vmstats" \in c.on) => Recording(p, c.run, measured)
                ELSE \A k \in DOMAIN p : ~Makes(p[k], Record)
<1>. DEFINE p == Stages(c, q)[g]
            N == Theirs(c.kind)
<1>1. c.kind \in Kinds
  BY DEF Config, Kinds, DisruptionConfig, OpcConfig
<1>2. CASE c.kind = "disruption" /\ g = 2
  <2>1. c \in DisruptionConfig
    BY <1>2 DEF Config, OpcConfig
  <2>2. p = DisruptionStart(c)
    BY <1>2 DEF Stages
  <2>3. N = {"dos.py", "hping3", "python.exe"}
    BY <1>2 DEF Theirs
  <2>. HIDE DEF p, N
  <2>4. p \in Seq(Noting(N)) /\ Timely(p, c.t.run)
    BY <2>1, <2>2, <2>3, DisruptionTimed
  <2>5. \A x \in Noting(N) : Names(x) \subseteq N /\ ~Makes(x, Record)
    BY DEF Noting, Plain, Safe, Stamps, Names, Makes
  <2>6. \A k \in DOMAIN p : p[k] \in Noting(N)
    BY <2>4, LenProperties, ElementOfSeq
  <2>7. c.kind # "collector"
    BY <1>2
  <2>. QED  BY <1>1, <1>2, <2>4, <2>5, <2>6, <2>7 DEF p, N
<1>3. CASE c.kind = "collector" /\ g = 3
  <2>1. c \in [kind : {"collector"}, on : SUBSET STRING, run : Nat, mode : STRING,
               logs : Seq(VM), opts : Opts]
    BY <1>3 DEF Config, OpcConfig, DisruptionConfig
  <2>2. p = CollectorStop(c)
    BY <1>3 DEF Stages
  <2>. HIDE DEF p, N
  <2>3. /\ \A measured \in BOOLEAN :
             (measured => "vmstats" \in c.on) => Recording(p, c.run, measured)
        /\ \A k \in DOMAIN p : p[k].op # "stamp" /\ Names(p[k]) \subseteq N
    <3>1. ASSUME NEW measured \in BOOLEAN, measured => "vmstats" \in c.on
          PROVE  Recording(p, c.run, measured)
      BY <2>1, <2>2, <3>1, CollectorPrograms
    <3>2. \A k \in DOMAIN p : p[k].op # "stamp" /\ Names(p[k]) \subseteq N
      BY <2>1, <2>2, CollectorPrograms
    <3>. QED  BY <3>1, <3>2
  <2>4. c.kind # "disruption"
    BY <1>3
  <2>. QED  BY <1>1, <1>3, <2>3, <2>4 DEF p, N
<1>4. CASE ~(c.kind = "disruption" /\ g = 2) /\ ~(c.kind = "collector" /\ g = 3)
  <2>1. p \in Seq(Safe(N))
    BY <1>4, StagesSafe
  <2>. HIDE DEF p, N
  <2>2. \A k \in DOMAIN p : p[k] \in Safe(N)
    BY <2>1, ProgType
  <2>3. \A x \in Safe(N) : x.op # "stamp" /\ Names(x) \subseteq N /\ ~Makes(x, Record)
    BY DEF Safe
  <2>. QED  BY <1>1, <1>4, <2>2, <2>3 DEF p, N
<1>. QED  BY <1>2, <1>3, <1>4

\* The programs of configured components are as the theorems ask.
LEMMA ConfiguredPrograms ==
  ASSUME NEW s \in Scenario, NEW C, Configured(s, C)
  PROVE  Apart(s) /\ Stamped(s) /\ Recorded(s)
<1>. DEFINE D == DOMAIN C
<1>1. /\ DOMAIN Kind[s] = D
      /\ \A i \in D :
           /\ C[i] \in Config /\ Kind[s][i] = C[i].kind
           /\ \A q \in 1..MaxRun : \A g \in Stage : Program[s][q][g][i] = Stages(C[i], q)[g]
      /\ \A i, j \in D :
           /\ C[i].kind = C[j].kind => i = j
           /\ ~(C[i].kind = "rtds" /\ C[j].kind = "providerdata")
  <2>1. \A i \in D : C[i] \in Config
    BY LenProperties, ElementOfSeq DEF Configured
  <2>. QED  BY <2>1 DEF Configured
<1>2. \A i \in D :
        /\ C[i].kind = "disruption" => C[i].t.run = Duration[s]
        /\ C[i].kind = "collector" => C[i].run = Duration[s]
        /\ C[i].kind = "collector" =>
             ((\E j \in D : C[j].kind = "vmstats") => "vmstats" \in C[i].on)
        /\ C[i].kind = "art" =>
             \A q \in 1..MaxRun : q \in DOMAIN C[i].results /\ C[i].results[q] # Record
  BY DEF Configured, Record
<1>3. \A q \in 1..MaxRun : q \in Nat
  BY RunAssumption DEF RunAssumption
<1>. HIDE DEF D
<1>4. ASSUME NEW i \in D, NEW q \in 1..MaxRun, NEW g \in Stage
      PROVE  LET p == Program[s][q][g][i]
             IN  /\ Kind[s][i] \in Kinds
                 /\ \A k \in DOMAIN p : Names(p[k]) \subseteq Theirs(Kind[s][i])
                 /\ IF Kind[s][i] = "disruption" /\ g = 2 THEN Timely(p, Duration[s])
                    ELSE \A k \in DOMAIN p : p[k].op # "stamp"
                 /\ IF Kind[s][i] = "collector" /\ g = 3
                    THEN Recording(p, Duration[s],
                                   \E j \in DOMAIN Kind[s] : Kind[s][j] = "vmstats")
                    ELSE \A k \in DOMAIN p : ~Makes(p[k], Record)
  <2>. DEFINE p == Stages(C[i], q)[g]
              M == \E j \in DOMAIN Kind[s] : Kind[s][j] = "vmstats"
  <2>1. C[i] \in Config /\ q \in Nat /\ Program[s][q][g][i] = p /\ Kind[s][i] = C[i].kind
    BY <1>1, <1>3
  <2>2. M \in BOOLEAN /\ (C[i].kind = "collector" => (M => "vmstats" \in C[i].on))
    BY <1>1, <1>2
  <2>3. /\ C[i].kind = "art" => q \in DOMAIN C[i].results /\ C[i].results[q] # Record
        /\ C[i].kind = "disruption" => C[i].t.run = Duration[s]
        /\ C[i].kind = "collector" => C[i].run = Duration[s]
    BY <1>2
  <2>4. /\ C[i].kind \in Kinds
        /\ \A k \in DOMAIN p : Names(p[k]) \subseteq Theirs(C[i].kind)
        /\ IF C[i].kind = "disruption" /\ g = 2 THEN Timely(p, C[i].t.run)
           ELSE \A k \in DOMAIN p : p[k].op # "stamp"
        /\ IF C[i].kind = "collector" /\ g = 3
           THEN \A measured \in BOOLEAN :
                  (measured => "vmstats" \in C[i].on) => Recording(p, C[i].run, measured)
           ELSE \A k \in DOMAIN p : ~Makes(p[k], Record)
    BY <2>1, <2>3, StagesDo
  <2>. HIDE DEF p, M
  <2>5. C[i].kind = "collector" /\ g = 3 => Recording(p, Duration[s], M)
    BY <2>2, <2>3, <2>4
  <2>. QED  BY <2>1, <2>3, <2>4, <2>5 DEF M
<1>5. \A i \in D : \A x \in Asked(s, i) : Names(x) \subseteq Theirs(Kind[s][i])
  <2>. SUFFICES ASSUME NEW i \in D, NEW x \in Asked(s, i)
                PROVE  Names(x) \subseteq Theirs(Kind[s][i])
    OBVIOUS
  <2>. DEFINE Of(q, g) == {Program[s][q][g][i][k] : k \in DOMAIN Program[s][q][g][i]}
              In(q) == UNION {Of(q, g) : g \in Stage}
  <2>1. Asked(s, i) = UNION {In(q) : q \in 1..MaxRun}
    BY DEF Asked
  <2>. HIDE DEF In
  <2>2. PICK q \in 1..MaxRun : x \in In(q)
    BY <2>1
  <2>. HIDE DEF Of
  <2>3. PICK g \in Stage : x \in Of(q, g)
    BY <2>2 DEF In
  <2>4. PICK k \in DOMAIN Program[s][q][g][i] : x = Program[s][q][g][i][k]
    BY <2>3 DEF Of
  <2>. QED  BY <1>4, <2>4
<1>6. MaxRun # 0 => \A i \in D : Kind[s][i] \in Kinds
  <2>1. MaxRun # 0 => 1 \in 1..MaxRun
    BY RunAssumption DEF RunAssumption
  <2>2. 1 \in Stage
    BY DEF Stage
  <2>. QED  BY <1>4, <2>1, <2>2
<1>7. Apart(s)
  <2>. SUFFICES ASSUME NEW i \in D, NEW j \in D, i # j,
                       NEW x \in Asked(s, i), NEW y \in Asked(s, j), Collide(x, y)
                PROVE  <<Kind[s][i], Kind[s][j]>> \in Excused
    BY <1>1 DEF Apart
  <2>1. MaxRun # 0
    <3>1. \E q : q \in 1..MaxRun
      BY DEF Asked
    <3>. QED  BY <3>1
  <2>2. Names(x) = x.names /\ Names(y) = y.names /\ x.names \cap y.names # {}
    BY DEF Collide, Names
  <2>3. Theirs(Kind[s][i]) \cap Theirs(Kind[s][j]) # {}
    BY <1>5, <2>2
  <2>4. Kind[s][i] # Kind[s][j] /\ Kind[s][i] \in Kinds /\ Kind[s][j] \in Kinds
    BY <1>1, <1>6, <2>1
  <2>5. /\ ~(Kind[s][i] = "rtds" /\ Kind[s][j] = "providerdata")
        /\ ~(Kind[s][i] = "providerdata" /\ Kind[s][j] = "rtds")
    BY <1>1
  <2>. QED  BY <2>3, <2>4, <2>5, TheirOwn
<1>8. Stamped(s)
  <2>1. \A i, j \in DOMAIN Kind[s] :
          Kind[s][i] = "disruption" /\ Kind[s][j] = "disruption" => i = j
    BY <1>1
  <2>2. ASSUME NEW q \in 1..MaxRun, NEW g \in Stage, NEW i \in D
        PROVE  IF Kind[s][i] = "disruption" /\ g = 2
               THEN Timely(Program[s][q][g][i], Duration[s])
               ELSE \A k \in DOMAIN Program[s][q][g][i] : Program[s][q][g][i][k].op # "stamp"
    BY <1>4
  <2>. QED  BY <1>1, <2>1, <2>2 DEF Stamped
<1>9. Recorded(s)
  <2>1. \A i, j \in DOMAIN Kind[s] :
          Kind[s][i] = "vmstats" /\ Kind[s][j] = "vmstats" => i = j
    BY <1>1
  <2>. QED  BY <1>1, <1>4, <2>1 DEF Recorded, Record
<1>. QED  BY <1>7, <1>8, <1>9

\* However its components are configured, one of each type, an experiment is as
\* the theorems above ask, and so none of them ends or switches off what is
\* another's, but for the two pairs that are known to (disruption.py:29,
\* opcexport.py:140, pcap.py:43).
THEOREM OthersSurviveConfigured ==
  ASSUME \A s \in Scenario : \E C : Configured(s, C)
  PROVE  Spec => []OthersSurvive
<1>1. \A s \in Scenario : Apart(s)
  BY ConfiguredPrograms
<1>. QED  BY <1>1, OthersSurviveHolds

\* However a disruption is configured, with any other components: when it came to
\* its end it has lasted for run_duration, less a tick.
THEOREM ScheduleConfigured ==
  ASSUME \A s \in Scenario : \E C : Configured(s, C)
  PROVE  Spec => []Schedule
<1>1. \A s \in Scenario : Stamped(s)
  BY ConfiguredPrograms
<1>. QED  BY <1>1, ScheduleHolds

\* However a disruption is configured, with any other components: its attack is
\* told to end before the run does (disruption.py:205), when the run is long enough.
THEOREM AttackInsideRunConfigured ==
  ASSUME \A s \in Scenario : \E C : Configured(s, C)
  PROVE  Spec => []AttackInsideRun
<1>1. \A s \in Scenario : Stamped(s)
  BY ConfiguredPrograms
<1>. QED  BY <1>1, AttackInsideRunHolds

\* However the collector and what it collects from are configured: it does not
\* record a run whose disruption ended early, or that has no statistics of this
\* run though there should be some (collector.py).
THEOREM RecordCompleteConfigured ==
  ASSUME \A s \in Scenario : \E C : Configured(s, C)
  PROVE  Spec => []RecordComplete
<1>1. \A s \in Scenario : Stamped(s) /\ Recorded(s)
  BY ConfiguredPrograms
<1>. QED  BY <1>1, RecordCompleteHolds
=============================================================================
