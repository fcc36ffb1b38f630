--------------------------- MODULE ScorchCCProofs ---------------------------
(***************************************************************************)
(* Proofs about ScorchCC.  TypeOK holds for any number of components that  *)
(* run at the same time; the rest is for one component at a time, any      *)
(* number of VMs and jobs.                                                 *)
(***************************************************************************)
EXTENDS ScorchCC, TLAPS

ServerType ==
  /\ filter \in SUBSET VM
  /\ cmds \subseteq Command /\ lastId \in Nat
  /\ \A k \in cmds : k.id <= lastId
  /\ \A k, d \in cmds : k.id = d.id => k = d
  /\ resp \subseteq Response
RanType == ran \subseteq [job : Job, vm : VM, answer : Answer, had : BOOLEAN]
AgentType ==
  /\ seen \subseteq Nat \X VM
  /\ file \subseteq (0..MaxJob) \X VM
  /\ RanType
ClientType ==
  /\ pc \in [Client -> Labels]
  /\ phase \in [Client -> {"app", "vm"}]
  /\ job \in [Client -> Job]
  /\ id \in [Client -> Nat]
  /\ got \in [Client -> Answer]
  /\ judged \in [Client -> SUBSET Job]
RestType == jobs \in 0..MaxJob /\ mounted \subseteq VM /\ killed \subseteq VM

LEMMA TypeParts == TypeOK <=> ServerType /\ AgentType /\ ClientType /\ RestType
BY DEF TypeOK, ServerType, AgentType, RanType, ClientType, RestType

LEMMA NoJobType == NoJob \in Job /\ NoAnswer \in Answer
<1>1. PICK v \in VM : TRUE BY CCAssumption
<1>2. (CHOOSE u \in VM : TRUE) \in VM BY <1>1
<1>3. {} \in SUBSET VM /\ 0 \in 0..MaxJob BY CCAssumption
<1>4. "reset" \in Kinds BY DEF Kinds
<1>. QED BY <1>2, <1>3, <1>4 DEF NoJob, Job, NoAnswer, Answer

LEMMA EndType ==
  ASSUME ClientType, NEW c \in Client, End(c)
  PROVE  ClientType'
BY NoJobType DEF End, ClientType, Labels

LEMMA GotoType ==
  ASSUME ClientType, NEW c \in Client, NEW l \in Labels, Goto(c, l),
         id' \in [Client -> Nat], got' \in [Client -> Answer]
  PROVE  ClientType'
BY DEF Goto, ClientType

LEMMA FilterType ==
  ASSUME ServerType, NEW f \in SUBSET VM, SetFilter(f)
  PROVE  ServerType'
BY DEF SetFilter, ServerType

LEMMA IssueType ==
  ASSUME ServerType, NEW j \in Job, NEW isFile \in BOOLEAN, Issue(j, isFile)
  PROVE  ServerType'
<1> DEFINE new == [id |-> lastId + 1, to |-> filter, file |-> isFile, job |-> j]
<1>1. new \in Command /\ new.id = lastId + 1
  BY DEF ServerType, Command
<1>2. cmds' = cmds \cup {new} /\ lastId' = lastId + 1
      /\ filter' = filter /\ resp' = resp
  BY DEF Issue
<1> HIDE DEF new
<1>3. \A k \in cmds : k.id \in Nat /\ k.id <= lastId
  BY DEF ServerType, Command
<1>4. lastId \in Nat BY DEF ServerType
<1>5. \A k \in cmds' : k.id <= lastId'
  BY <1>1, <1>2, <1>3, <1>4
<1>6. \A k, d \in cmds' : k.id = d.id => k = d
  <2>1. \A k \in cmds : k.id # new.id BY <1>1, <1>3, <1>4
  <2>. QED BY <2>1, <1>2 DEF ServerType
<1>. QED BY <1>1, <1>2, <1>4, <1>5, <1>6 DEF ServerType

LEMMA KeepType ==
  ASSUME AgentType, RestType, Keep
  PROVE  AgentType' /\ RestType'
BY DEF Keep, agent, AgentType, RanType, RestType

LEMMA ServerSame ==
  ASSUME ServerType, UNCHANGED server
  PROVE  ServerType'
BY DEF server, ServerType

LEMMA ReadLastType ==
  ASSUME ServerType, ClientType, NEW c \in Client, NEW at, NEW next \in Labels,
         ReadLast(c, at, next)
  PROVE  ClientType'
<1>1. CASE cmds = {} BY <1>1, EndType DEF ReadLast
<1>2. CASE cmds # {}
  <2>1. PICK k \in cmds : id' = [id EXCEPT ![c] = k.id]
    BY <1>2 DEF ReadLast, Newest
  <2>2. k.id \in Nat BY DEF ServerType, Command
  <2>3. id' \in [Client -> Nat] BY <2>1, <2>2 DEF ClientType
  <2>4. got' \in [Client -> Answer] BY <1>2 DEF ReadLast, ClientType
  <2>. QED BY <1>2, <2>3, <2>4, GotoType DEF ReadLast
<1>. QED BY <1>1, <1>2

LEMMA TakeType ==
  ASSUME ClientType, RestType, NEW c \in Client, Take(c)
  PROVE  ClientType' /\ RestType'
<1>1. PICK k \in Kinds, v \in VM, f \in AppFilter \cup {{}} :
        LET j == [kind |-> k, vm |-> v, to |-> f, script |-> jobs + 1]
        IN /\ job' = [job EXCEPT ![c] = j]
           /\ pc' = [pc EXCEPT ![c] = First(j)]
           /\ phase' = IF k \in {"app", "reset"} THEN phase
                       ELSE [phase EXCEPT ![c] = "vm"]
  BY DEF Take
<1> DEFINE j == [kind |-> k, vm |-> v, to |-> f, script |-> jobs + 1]
<1>2. f \in SUBSET VM BY CCAssumption
<1>3. jobs + 1 \in 0..MaxJob BY CCAssumption DEF Take, RestType
<1>4. j \in Job BY <1>2, <1>3 DEF Job
<1>5. j.kind = k BY DEF Job
<1>6. First(j) \in Labels
  BY <1>5 DEF First, Kinds, Scripted, Labels
<1> HIDE DEF j
<1>7. job' = [job EXCEPT ![c] = j] /\ pc' = [pc EXCEPT ![c] = First(j)]
  BY <1>1 DEF j
<1>8. phase' \in [Client -> {"app", "vm"}] BY <1>1 DEF ClientType
<1>9. UNCHANGED <<id, got, judged, mounted, killed>> /\ jobs' = jobs + 1
  BY DEF Take
<1>. QED BY <1>3, <1>4, <1>6, <1>7, <1>8, <1>9 DEF ClientType, RestType

LEMMA RunType ==
  ASSUME ServerType, AgentType, ClientType, RestType, NEW v \in VM, Run(v)
  PROVE  ServerType' /\ AgentType' /\ ClientType' /\ RestType'
<1>1. PICK k \in cmds, a \in Answer :
    /\ seen' = seen \cup {<<k.id, v>>}
    /\ resp' = resp \cup {[id |-> k.id, vm |-> v, answer |-> a]}
    /\ IF k.file
       THEN file' = file \cup {<<k.job.script, v>>} /\ ran' = ran
       ELSE /\ file' = file
            /\ ran' = ran \cup {[job |-> k.job, vm |-> v, answer |-> a,
                                 had |-> <<k.job.script, v>> \in file]}
    /\ UNCHANGED <<filter, cmds, lastId, client, mounted, jobs, killed>>
  BY DEF Run
<1>2. k.id \in Nat /\ k.job \in Job BY DEF ServerType, Command
<1>3. k.job.script \in 0..MaxJob BY <1>2 DEF Job
<1>4. ServerType'
  <2>1. [id |-> k.id, vm |-> v, answer |-> a] \in Response BY <1>2 DEF Response
  <2>2. UNCHANGED <<filter, cmds, lastId>> BY <1>1
  <2>. QED BY <1>1, <2>1, <2>2 DEF ServerType
<1>5. AgentType'
  <2>1. seen' \subseteq Nat \X VM BY <1>1, <1>2 DEF AgentType
  <2>2. file' \subseteq (0..MaxJob) \X VM BY <1>1, <1>3 DEF AgentType
  <2>3. RanType'
    <3>1. (<<k.job.script, v>> \in file) \in BOOLEAN OBVIOUS
    <3> DEFINE b == <<k.job.script, v>> \in file
    <3>2. b \in BOOLEAN OBVIOUS
    <3>3. ran' \in {ran, ran \cup {[job |-> k.job, vm |-> v, answer |-> a, had |-> b]}}
      BY <1>1
    <3> HIDE DEF b
    <3>4. [job |-> k.job, vm |-> v, answer |-> a, had |-> b]
          \in [job : Job, vm : VM, answer : Answer, had : BOOLEAN]
      BY <1>2, <3>2
    <3>5. RanType BY DEF AgentType
    <3>. QED BY <3>3, <3>4, <3>5 DEF RanType
  <2>. QED BY <2>1, <2>2, <2>3 DEF AgentType
<1>6. ClientType' /\ RestType'
  <2>1. UNCHANGED <<client, mounted, jobs, killed>> BY <1>1
  <2>. QED BY <2>1 DEF client, ClientType, RestType
<1>. QED BY <1>4, <1>5, <1>6

LEMMA TypeStep == TypeOK /\ [Next]_vars => TypeOK'
<1> SUFFICES ASSUME ServerType, AgentType, ClientType, RestType, [Next]_vars
             PROVE  ServerType' /\ AgentType' /\ ClientType' /\ RestType'
  BY TypeParts, PTL
<1>1. CASE UNCHANGED vars
  BY <1>1 DEF vars, server, agent, client, ServerType, AgentType, RanType,
              ClientType, RestType
<1>2. ASSUME NEW v \in VM, Run(v)
      PROVE  ServerType' /\ AgentType' /\ ClientType' /\ RestType'
  BY <1>2, RunType
<1>3. ASSUME NEW c \in Client, Step(c) \/ StageStart(c) \/ Kill(c)
      PROVE  ServerType' /\ AgentType' /\ ClientType' /\ RestType'
  <2>0. job[c] \in Job /\ job[c].vm \in VM /\ job[c].to \in SUBSET VM
        /\ id \in [Client -> Nat] /\ got \in [Client -> Answer]
    BY DEF ClientType, Job
  <2>v. VM \in SUBSET VM /\ {job[c].vm} \in SUBSET VM BY <2>0
  <2>1. CASE StageStart(c)
    <3>1. "run" \in Labels BY DEF Labels
    <3>2. id' \in [Client -> Nat] /\ got' \in [Client -> Answer]
      BY <2>1, <2>0 DEF StageStart
    <3>3. ClientType' BY <2>1, <3>1, <3>2, GotoType DEF StageStart
    <3>4. AgentType' /\ RestType' BY <2>1, KeepType DEF StageStart
    <3>5. ServerType' BY <2>1, ServerSame DEF StageStart
    <3>. QED BY <3>3, <3>4, <3>5
  <2>2. CASE StageEnd(c)
    <3>1. ClientType' BY <2>2, EndType DEF StageEnd
    <3>2. AgentType' /\ RestType' BY <2>2, KeepType DEF StageEnd
    <3>3. ServerType' BY <2>2, ServerSame DEF StageEnd
    <3>. QED BY <3>1, <3>2, <3>3
  <2>3. CASE Take(c)
    <3>1. ServerType' BY <2>3, ServerSame DEF Take
    <3>2. AgentType' BY <2>3 DEF Take, agent, AgentType, RanType
    <3>. QED BY <2>3, <3>1, <3>2, TakeType
  <2>4. CASE SendFilter(c)
    <3>1. "send" \in Labels BY DEF Labels
    <3>2. id' \in [Client -> Nat] /\ got' \in [Client -> Answer]
      BY <2>4, <2>0 DEF SendFilter
    <3>3. ClientType' BY <2>4, <3>1, <3>2, GotoType DEF SendFilter
    <3>4. AgentType' /\ RestType' BY <2>4, KeepType DEF SendFilter
    <3>5. ServerType' BY <2>4, FilterType, <2>v DEF SendFilter
    <3>. QED BY <3>3, <3>4, <3>5
  <2>5. CASE Send(c)
    <3>1. "send last" \in Labels BY DEF Labels
    <3>3. ClientType' BY <2>5, <2>0, <3>1, GotoType DEF Send
    <3>4. AgentType' /\ RestType' BY <2>5, KeepType DEF Send
    <3>5. ServerType' BY <2>5, <2>0, IssueType DEF Send
    <3>. QED BY <3>3, <3>4, <3>5
  <2>6. CASE SendLast(c)
    <3>1. "send wait" \in Labels BY DEF Labels
    <3>2. ClientType' BY <2>6, <3>1, ReadLastType DEF SendLast
    <3>3. AgentType' /\ RestType' BY <2>6, KeepType DEF SendLast, ReadLast
    <3>4. ServerType' BY <2>6, ServerSame DEF SendLast, ReadLast
    <3>. QED BY <3>2, <3>3, <3>4
  <2>7. CASE SendWait(c)
    <3>1. "send clear" \in Labels BY DEF Labels
    <3>2. id' \in [Client -> Nat] /\ got' \in [Client -> Answer]
      BY <2>7, <2>0 DEF SendWait
    <3>3. ClientType' BY <2>7, <3>1, <3>2, GotoType DEF SendWait
    <3>4. AgentType' /\ RestType' BY <2>7, KeepType DEF SendWait
    <3>5. ServerType' BY <2>7, ServerSame DEF SendWait
    <3>. QED BY <3>3, <3>4, <3>5
  <2>8. CASE SendClear(c)
    <3>1. "exec filter" \in Labels BY DEF Labels
    <3>2. id' \in [Client -> Nat] /\ got' \in [Client -> Answer]
      BY <2>8, <2>0 DEF SendClear
    <3>3. ClientType' BY <2>8, <3>1, <3>2, GotoType DEF SendClear
    <3>4. AgentType' /\ RestType' BY <2>8, KeepType DEF SendClear
    <3>5. ServerType' BY <2>8, FilterType, <2>v DEF SendClear
    <3>. QED BY <3>3, <3>4, <3>5
  <2>9. CASE ExecFilter(c)
    <3>1. "exec" \in Labels BY DEF Labels
    <3>2. id' \in [Client -> Nat] /\ got' \in [Client -> Answer]
      BY <2>9, <2>0 DEF ExecFilter
    <3>3. ClientType' BY <2>9, <3>1, <3>2, GotoType DEF ExecFilter
    <3>4. AgentType' /\ RestType' BY <2>9, KeepType DEF ExecFilter
    <3>5. ServerType' BY <2>9, FilterType, <2>v DEF ExecFilter
    <3>. QED BY <3>3, <3>4, <3>5
  <2>10. CASE Exec(c)
    <3> DEFINE l == CASE job[c].kind \in {"wait", "check"} -> "exec last"
                      [] job[c].kind = "background"        -> "clear filter"
                      [] OTHER                             -> "run"
    <3>1. l \in Labels BY DEF Labels
    <3>2. Goto(c, l) BY <2>10 DEF Exec
    <3> HIDE DEF l
    <3>3. ClientType' BY <2>10, <2>0, <3>1, <3>2, GotoType DEF Exec
    <3>4. AgentType' /\ RestType' BY <2>10, KeepType DEF Exec
    <3>5. ServerType' BY <2>10, <2>0, IssueType DEF Exec
    <3>. QED BY <3>3, <3>4, <3>5
  <2>11. CASE ExecLast(c)
    <3>1. "exec wait" \in Labels BY DEF Labels
    <3>2. ClientType' BY <2>11, <3>1, ReadLastType DEF ExecLast
    <3>3. AgentType' /\ RestType' BY <2>11, KeepType DEF ExecLast, ReadLast
    <3>4. ServerType' BY <2>11, ServerSame DEF ExecLast, ReadLast
    <3>. QED BY <3>2, <3>3, <3>4
  <2>12. CASE ExecWait(c)
    <3>1. "exit code" \in Labels BY DEF Labels
    <3>2. id' \in [Client -> Nat] /\ got' \in [Client -> Answer]
      BY <2>12, <2>0 DEF ExecWait
    <3>3. ClientType' BY <2>12, <3>1, <3>2, GotoType DEF ExecWait
    <3>4. AgentType' /\ RestType' BY <2>12, KeepType DEF ExecWait
    <3>5. ServerType' BY <2>12, ServerSame DEF ExecWait
    <3>. QED BY <3>3, <3>4, <3>5
  <2>13. CASE ExitCode(c)
    <3>1. CASE HasExitCode(c)
      <4>1. PICK r \in resp : got' = [got EXCEPT ![c] = r.answer]
        BY <2>13, <3>1 DEF ExitCode
      <4>2. r.answer \in Answer BY DEF ServerType, Response
      <4>3. got' \in [Client -> Answer] BY <4>1, <4>2, <2>0
      <4>6. id' = [id EXCEPT ![c] = 0] BY <2>13, <3>1 DEF ExitCode
      <4>4. id' \in [Client -> Nat] BY <4>6, <2>0
      <4>5. "judge" \in Labels BY DEF Labels
      <4>. QED BY <2>13, <3>1, <4>3, <4>4, <4>5, GotoType, KeepType, ServerSame DEF ExitCode
    <3>2. CASE ~HasExitCode(c)
      BY <2>13, <3>2, EndType, KeepType, ServerSame DEF ExitCode
    <3>. QED BY <3>1, <3>2
  <2>14. CASE TimedOut(c)
    <3>1. ClientType' BY <2>14, EndType DEF TimedOut
    <3>2. AgentType' /\ RestType' BY <2>14, KeepType DEF TimedOut
    <3>3. ServerType' BY <2>14, ServerSame DEF TimedOut
    <3>. QED BY <3>1, <3>2, <3>3
  <2>15. CASE Accept(c)
    <3>1. ClientType'
      <4>1. pc' \in [Client -> Labels] BY <2>15 DEF Accept, ClientType, Labels
      <4>2. judged' \in [Client -> SUBSET Job] BY <2>15, <2>0 DEF Accept, ClientType
      <4>3. got' \in [Client -> Answer] BY <2>15, NoJobType DEF Accept, ClientType
      <4>. QED BY <2>15, <4>1, <4>2, <4>3 DEF Accept, ClientType
    <3>2. AgentType' /\ RestType' BY <2>15, KeepType DEF Accept
    <3>3. ServerType' BY <2>15, ServerSame DEF Accept, server
    <3>. QED BY <3>1, <3>2, <3>3
  <2>16. CASE Refuse(c)
    <3>1. ClientType' BY <2>16, EndType DEF Refuse
    <3>2. AgentType' /\ RestType' BY <2>16, KeepType DEF Refuse
    <3>3. ServerType' BY <2>16, ServerSame DEF Refuse
    <3>. QED BY <3>1, <3>2, <3>3
  <2>17. CASE ClearFilter(c)
    <3>1. "run" \in Labels BY DEF Labels
    <3>2. id' \in [Client -> Nat] /\ got' \in [Client -> Answer]
      BY <2>17, <2>0 DEF ClearFilter
    <3>3. ClientType' BY <2>17, <3>1, <3>2, GotoType DEF ClearFilter
    <3>4. AgentType' /\ RestType' BY <2>17, KeepType DEF ClearFilter
    <3>5. ServerType' BY <2>17, FilterType, <2>v DEF ClearFilter
    <3>. QED BY <3>3, <3>4, <3>5
  <2>18. CASE SetAppFilter(c)
    <3>1. "exec" \in Labels BY DEF Labels
    <3>3. ClientType' BY <2>18, <2>0, <3>1, GotoType DEF SetAppFilter
    <3>4. AgentType' /\ RestType' BY <2>18, KeepType DEF SetAppFilter
    <3>5. ServerType' BY <2>18, <2>0, FilterType DEF SetAppFilter
    <3>. QED BY <3>3, <3>4, <3>5
  <2>19. CASE Mount(c)
    <3>1. ClientType'
      BY <2>19, <2>0, GotoType DEF Mount, Labels
    <3>2. ServerType' BY <2>19, ServerSame DEF Mount, server
    <3>3. AgentType' BY <2>19 DEF Mount, agent, AgentType, RanType
    <3>4. RestType' BY <2>19, <2>0 DEF Mount, RestType
    <3>. QED BY <3>1, <3>2, <3>3, <3>4
  <2>20. CASE MissingFile(c)
    <3>1. ClientType' BY <2>20, EndType DEF MissingFile
    <3>2. AgentType' /\ RestType' BY <2>20, KeepType DEF MissingFile
    <3>3. ServerType' BY <2>20, ServerSame DEF MissingFile
    <3>. QED BY <3>1, <3>2, <3>3
  <2>21. CASE Copy(c)
    <3>1. PICK l \in {"unmount", "unmount failed"} : Goto(c, l) BY <2>21 DEF Copy
    <3>2. l \in Labels BY DEF Labels
    <3>3. ClientType' BY <2>21, <2>0, <3>1, <3>2, GotoType DEF Copy
    <3>4. AgentType' /\ RestType' BY <2>21, KeepType DEF Copy
    <3>5. ServerType' BY <2>21, ServerSame DEF Copy
    <3>. QED BY <3>3, <3>4, <3>5
  <2>22. CASE Unmount(c)
    <3>1. ClientType'
      BY <2>22, <2>0, GotoType DEF Unmount, Labels
    <3>2. ServerType' BY <2>22, ServerSame DEF Unmount, server
    <3>3. AgentType' BY <2>22 DEF Unmount, agent, AgentType, RanType
    <3>4. RestType' BY <2>22, <2>0 DEF Unmount, RestType
    <3>. QED BY <3>1, <3>2, <3>3, <3>4
  <2>23. CASE UnmountFailed(c)
    <3>1. ClientType'
      BY <2>23, EndType DEF UnmountFailed
    <3>2. ServerType' BY <2>23, ServerSame DEF UnmountFailed, server
    <3>3. AgentType' BY <2>23 DEF UnmountFailed, agent, AgentType, RanType
    <3>4. RestType' BY <2>23, <2>0 DEF UnmountFailed, RestType
    <3>. QED BY <3>1, <3>2, <3>3, <3>4
  <2>24. CASE ResetFilter(c)
    <3>1. "reset 1" \in Labels BY DEF Labels
    <3>2. id' \in [Client -> Nat] /\ got' \in [Client -> Answer]
      BY <2>24, <2>0 DEF ResetFilter
    <3>3. ClientType' BY <2>24, <3>1, <3>2, GotoType DEF ResetFilter
    <3>4. AgentType' /\ RestType' BY <2>24, KeepType DEF ResetFilter
    <3>5. ServerType' BY <2>24, FilterType, <2>v DEF ResetFilter
    <3>. QED BY <3>3, <3>4, <3>5
  <2>25. CASE ResetCommands(c)
    <3> DEFINE l == IF pc[c] = "reset 1" THEN "reset 2" ELSE "reset 4"
    <3>1. l \in Labels BY DEF Labels
    <3>2. Goto(c, l) BY <2>25 DEF ResetCommands
    <3> HIDE DEF l
    <3>3. ClientType' BY <2>25, <2>0, <3>1, <3>2, GotoType DEF ResetCommands
    <3>4. ServerType' BY <2>25 DEF ResetCommands, ServerType
    <3>5. AgentType' BY <2>25 DEF ResetCommands, AgentType, RanType
    <3>6. RestType' BY <2>25 DEF ResetCommands, RestType
    <3>. QED BY <3>3, <3>4, <3>5, <3>6
  <2>26. CASE ResetResponses(c)
    <3> DEFINE l == IF pc[c] = "reset 2" THEN "reset 3" ELSE "run"
    <3>1. l \in Labels BY DEF Labels
    <3>2. Goto(c, l) BY <2>26 DEF ResetResponses
    <3> HIDE DEF l
    <3>3. ClientType' BY <2>26, <2>0, <3>1, <3>2, GotoType DEF ResetResponses
    <3>4. ServerType' BY <2>26 DEF ResetResponses, ServerType
    <3>5. AgentType' /\ RestType' BY <2>26, KeepType DEF ResetResponses
    <3>. QED BY <3>3, <3>4, <3>5
  <2>27. CASE Kill(c)
    <3>1. ClientType' BY <2>27, EndType DEF Kill
    <3>2. ServerType' BY <2>27, ServerSame DEF Kill, server
    <3>3. AgentType' BY <2>27 DEF Kill, agent, AgentType, RanType
    <3>4. RestType' BY <2>27, <2>0 DEF Kill, RestType
    <3>. QED BY <3>1, <3>2, <3>3, <3>4
  <2>. QED
    BY <1>3, <2>1, <2>2, <2>3, <2>4, <2>5, <2>6, <2>7, <2>8, <2>9, <2>10, <2>11,
       <2>12, <2>13, <2>14, <2>15, <2>16, <2>17, <2>18, <2>19, <2>20, <2>21,
       <2>22, <2>23, <2>24, <2>25, <2>26, <2>27
          DEF Step
<1>. QED BY <1>1, <1>2, <1>3 DEF Next

LEMMA TypeInit == Init => TypeOK
<1> SUFFICES ASSUME Init PROVE TypeOK OBVIOUS
<1>1. ServerType /\ AgentType BY DEF Init, ServerType, AgentType, RanType
<1>2. ClientType BY NoJobType DEF Init, ClientType, Labels
<1>3. RestType BY CCAssumption DEF Init, RestType
<1>. QED BY <1>1, <1>2, <1>3, TypeParts

\* The variables keep their types and the ids of commands stay unique, however
\* many components run at the same time (cc.py, utils.py).
THEOREM TypeCorrect == Spec => []TypeOK
BY TypeInit, TypeStep, PTL DEF Spec

----------------------------------------------------------------------------
(* One component at a time *)

OneClient == \A c, d \in Client : c = d

\* Which jobs reach which label.
PcKind == \A c \in Client :
  /\ pc[c] \in {"send filter", "send", "send last", "send wait", "send clear"}
       => job[c].kind \in Scripted
  /\ pc[c] = "exec filter" => job[c].kind \in Scripted \cup {"check"}
  /\ pc[c] = "exec" => job[c].kind \in Scripted \cup {"check", "app"}
  /\ pc[c] \in {"exec last", "exec wait", "exit code", "judge"}
       => job[c].kind \in {"wait", "check"}
  /\ pc[c] = "app filter" => job[c].kind = "app"

LEMMA PcKindStep ==
  ASSUME OneClient, ClientType, PcKind, [Next]_vars
  PROVE  PcKind'
<1>1. CASE UNCHANGED vars
  BY <1>1 DEF vars, server, agent, client, PcKind
<1>2. ASSUME NEW v \in VM, Run(v) PROVE PcKind'
  <2>. UNCHANGED client BY <1>2 DEF Run
  <2>. QED BY DEF client, PcKind
<1>3. ASSUME NEW c \in Client, Step(c) \/ StageStart(c) \/ Kill(c)
      PROVE  PcKind'
  <2>a. /\ \A d \in Client : d = c
        /\ c \in DOMAIN pc /\ c \in DOMAIN job /\ c \in DOMAIN id
        /\ c \in DOMAIN got /\ c \in DOMAIN judged /\ c \in DOMAIN phase
    BY DEF OneClient, ClientType
  <2>1. CASE StageStart(c)
    BY <2>1, <2>a DEF StageStart, Goto, End, PcKind
  <2>2. CASE StageEnd(c)
    BY <2>2, <2>a DEF StageEnd, Goto, End, PcKind
  <2>3. CASE Take(c)
    <3>1. PICK k \in Kinds, v \in VM, f \in AppFilter \cup {{}} :
            LET j == [kind |-> k, vm |-> v, to |-> f, script |-> jobs + 1]
            IN job' = [job EXCEPT ![c] = j] /\ pc' = [pc EXCEPT ![c] = First(j)]
      BY <2>3 DEF Take
    <3>2. job'[c].kind = k /\ pc'[c] = First(job'[c])
      BY <3>1, <2>a
    <3>. QED BY <3>2, <2>a DEF PcKind, First, Kinds, Scripted
  <2>4. CASE SendFilter(c)
    BY <2>4, <2>a DEF SendFilter, Goto, End, PcKind
  <2>5. CASE Send(c)
    BY <2>5, <2>a DEF Send, Goto, End, PcKind
  <2>6. CASE SendLast(c)
    BY <2>6, <2>a DEF SendLast, ReadLast, Goto, End, PcKind
  <2>7. CASE SendWait(c)
    BY <2>7, <2>a DEF SendWait, Goto, End, PcKind
  <2>8. CASE SendClear(c)
    BY <2>8, <2>a DEF SendClear, Goto, End, PcKind
  <2>9. CASE ExecFilter(c)
    BY <2>9, <2>a DEF ExecFilter, Goto, End, PcKind
  <2>10. CASE Exec(c)
    BY <2>10, <2>a DEF Exec, Goto, PcKind, Scripted
  <2>11. CASE ExecLast(c)
    BY <2>11, <2>a DEF ExecLast, ReadLast, Goto, End, PcKind
  <2>12. CASE ExecWait(c)
    BY <2>12, <2>a DEF ExecWait, Goto, End, PcKind
  <2>13. CASE ExitCode(c)
    BY <2>13, <2>a DEF ExitCode, Goto, End, PcKind
  <2>14. CASE TimedOut(c)
    BY <2>14, <2>a DEF TimedOut, Goto, End, PcKind
  <2>15. CASE Accept(c)
    BY <2>15, <2>a DEF Accept, Goto, End, PcKind
  <2>16. CASE Refuse(c)
    BY <2>16, <2>a DEF Refuse, Goto, End, PcKind
  <2>17. CASE ClearFilter(c)
    BY <2>17, <2>a DEF ClearFilter, Goto, End, PcKind
  <2>18. CASE SetAppFilter(c)
    BY <2>18, <2>a DEF SetAppFilter, Goto, End, PcKind
  <2>19. CASE Mount(c)
    BY <2>19, <2>a DEF Mount, Goto, End, PcKind
  <2>20. CASE MissingFile(c)
    BY <2>20, <2>a DEF MissingFile, Goto, End, PcKind
  <2>21. CASE Copy(c)
    BY <2>21, <2>a DEF Copy, Goto, End, PcKind
  <2>22. CASE Unmount(c)
    BY <2>22, <2>a DEF Unmount, Goto, End, PcKind
  <2>23. CASE UnmountFailed(c)
    BY <2>23, <2>a DEF UnmountFailed, Goto, End, PcKind
  <2>24. CASE ResetFilter(c)
    BY <2>24, <2>a DEF ResetFilter, Goto, End, PcKind
  <2>25. CASE ResetCommands(c)
    BY <2>25, <2>a DEF ResetCommands, Goto, End, PcKind
  <2>26. CASE ResetResponses(c)
    BY <2>26, <2>a DEF ResetResponses, Goto, End, PcKind
  <2>27. CASE Kill(c)
    BY <2>27, <2>a DEF Kill, Goto, End, PcKind
  <2>. QED
    BY <1>3, <2>1, <2>2, <2>3, <2>4, <2>5, <2>6, <2>7, <2>8, <2>9, <2>10,
       <2>11, <2>12, <2>13, <2>14, <2>15, <2>16, <2>17, <2>18, <2>19, <2>20,
       <2>21, <2>22, <2>23, <2>24, <2>25, <2>26, <2>27
    DEF Step
<1>. QED BY <1>1, <1>2, <1>3 DEF Next

\* The command a client waits for is the one it has issued.
Mine(c, k) ==
  k.job = job[c] /\ (k.file <=> pc[c] \in {"send last", "send wait"})
Waits == \A c \in Client :
  /\ pc[c] \in {"send last", "exec last"}
       => \E k \in cmds : k.id = lastId /\ Mine(c, k)
  /\ pc[c] \in {"send wait", "exec wait", "exit code"}
       => \E k \in cmds : k.id = id[c] /\ Mine(c, k)

\* What a response says is what its command did.
Answers == \A r \in resp :
  /\ r.id <= lastId
  /\ \A k \in cmds : k.id = r.id =>
       /\ r.vm \in k.to
       /\ k.file => <<k.job.script, r.vm>> \in file
       /\ ~k.file => \E x \in ran :
            x.job = k.job /\ x.vm = r.vm /\ x.answer = r.answer

LEMMA IssueNew ==
  ASSUME NEW j, NEW isFile, Issue(j, isFile)
  PROVE  \E k \in cmds' : k.id = lastId' /\ k.job = j /\ (k.file <=> isFile)
<1> DEFINE new == [id |-> lastId + 1, to |-> filter, file |-> isFile, job |-> j]
<1>1. new \in cmds' /\ lastId' = lastId + 1 BY DEF Issue
<1>2. new.id = lastId + 1 /\ new.job = j /\ new.file = isFile OBVIOUS
<1>. QED BY <1>1, <1>2

LEMMA PcTake ==
  ASSUME ClientType, NEW c \in Client, Take(c)
  PROVE  pc'[c] \in {"send filter", "exec filter", "app filter", "exec",
                     "reset 0", "mount"}
<1>1. PICK k \in Kinds, v \in VM, f \in AppFilter \cup {{}} :
        LET j == [kind |-> k, vm |-> v, to |-> f, script |-> jobs + 1]
        IN pc' = [pc EXCEPT ![c] = First(j)]
  BY DEF Take
<1>. QED BY <1>1 DEF First, Kinds, Scripted, ClientType

LEMMA WaitsStep ==
  ASSUME OneClient, ServerType, ClientType, Waits, [Next]_vars
  PROVE  Waits'
<1>1. CASE UNCHANGED vars
  BY <1>1 DEF vars, server, agent, client, Waits, Mine
<1>2. ASSUME NEW v \in VM, Run(v) PROVE Waits'
  <2>. UNCHANGED <<client, cmds, lastId>> BY <1>2 DEF Run
  <2>. QED BY DEF client, Waits, Mine
<1>3. ASSUME NEW c \in Client, Step(c) \/ StageStart(c) \/ Kill(c)
      PROVE  Waits'
  <2>a. /\ \A d \in Client : d = c
        /\ c \in DOMAIN pc /\ c \in DOMAIN job /\ c \in DOMAIN id
        /\ c \in DOMAIN got /\ c \in DOMAIN judged /\ c \in DOMAIN phase
    BY DEF OneClient, ClientType
  <2>1. CASE StageStart(c)
    <3>1. pc'[c] \notin {"send last", "exec last", "send wait", "exec wait", "exit code"}
      BY <2>1, <2>a DEF StageStart, Goto, End, First
    <3>. QED BY <3>1, <2>a DEF Waits
  <2>2. CASE StageEnd(c)
    <3>1. pc'[c] \notin {"send last", "exec last", "send wait", "exec wait", "exit code"}
      BY <2>2, <2>a DEF StageEnd, Goto, End, First
    <3>. QED BY <3>1, <2>a DEF Waits
  <2>3. CASE Take(c)
    <3>. QED BY <2>3, PcTake, <2>a DEF Waits
  <2>4. CASE SendFilter(c)
    <3>1. pc'[c] \notin {"send last", "exec last", "send wait", "exec wait", "exit code"}
      BY <2>4, <2>a DEF SendFilter, Goto, End, First
    <3>. QED BY <3>1, <2>a DEF Waits
  <2>5. CASE Send(c)
    <3>1. PICK k \in cmds' : k.id = lastId' /\ k.job = job[c] /\ (k.file <=> TRUE)
      BY <2>5, IssueNew DEF Send
    <3>2. job' = job /\ pc'[c] = "send last" /\ pc[c] # "exit code"
      BY <2>5, <2>a DEF Send, Goto
    <3>. QED BY <3>1, <3>2, <2>a DEF Waits, Mine
  <2>6. CASE SendLast(c)
    <3>1. CASE cmds = {}
      BY <2>6, <3>1, <2>a DEF SendLast, ReadLast, End, Waits
    <3>2. CASE cmds # {}
      <4>1. PICK k \in cmds : k.id = lastId /\ Mine(c, k)
        BY <2>6, <2>a DEF SendLast, ReadLast, Waits
      <4>2. PICK d \in cmds : Newest(d) /\ id' = [id EXCEPT ![c] = d.id]
        BY <2>6, <3>2 DEF SendLast, ReadLast
      <4>3. d.id = k.id
        BY <4>1, <4>2 DEF Newest, ServerType, Command
      <4>4. id'[c] = k.id BY <4>2, <4>3, <2>a
      <4>5. cmds' = cmds /\ job' = job /\ pc'[c] = "send wait" /\ pc[c] = "send last"
        BY <2>6, <3>2, <2>a DEF SendLast, ReadLast, Goto, server
      <4>. QED BY <4>1, <4>4, <4>5, <2>a DEF Waits, Mine
    <3>. QED BY <3>1, <3>2
  <2>7. CASE SendWait(c)
    <3>1. pc'[c] \notin {"send last", "exec last", "send wait", "exec wait", "exit code"}
      BY <2>7, <2>a DEF SendWait, Goto, End, First
    <3>. QED BY <3>1, <2>a DEF Waits
  <2>8. CASE SendClear(c)
    <3>1. pc'[c] \notin {"send last", "exec last", "send wait", "exec wait", "exit code"}
      BY <2>8, <2>a DEF SendClear, Goto, End, First
    <3>. QED BY <3>1, <2>a DEF Waits
  <2>9. CASE ExecFilter(c)
    <3>1. pc'[c] \notin {"send last", "exec last", "send wait", "exec wait", "exit code"}
      BY <2>9, <2>a DEF ExecFilter, Goto, End, First
    <3>. QED BY <3>1, <2>a DEF Waits
  <2>10. CASE Exec(c)
    <3>1. PICK k \in cmds' : k.id = lastId' /\ k.job = job[c] /\ (k.file <=> FALSE)
      BY <2>10, IssueNew DEF Exec
    <3>2. job' = job /\ pc'[c] \in {"exec last", "clear filter", "run"}
      BY <2>10, <2>a DEF Exec, Goto
    <3>. QED BY <3>1, <3>2, <2>a DEF Waits, Mine
  <2>11. CASE ExecLast(c)
    <3>1. CASE cmds = {}
      BY <2>11, <3>1, <2>a DEF ExecLast, ReadLast, End, Waits
    <3>2. CASE cmds # {}
      <4>1. PICK k \in cmds : k.id = lastId /\ Mine(c, k)
        BY <2>11, <2>a DEF ExecLast, ReadLast, Waits
      <4>2. PICK d \in cmds : Newest(d) /\ id' = [id EXCEPT ![c] = d.id]
        BY <2>11, <3>2 DEF ExecLast, ReadLast
      <4>3. d.id = k.id
        BY <4>1, <4>2 DEF Newest, ServerType, Command
      <4>4. id'[c] = k.id BY <4>2, <4>3, <2>a
      <4>5. cmds' = cmds /\ job' = job /\ pc'[c] = "exec wait" /\ pc[c] = "exec last"
        BY <2>11, <3>2, <2>a DEF ExecLast, ReadLast, Goto, server
      <4>. QED BY <4>1, <4>4, <4>5, <2>a DEF Waits, Mine
    <3>. QED BY <3>1, <3>2
  <2>12. CASE ExecWait(c)
    BY <2>12, <2>a DEF ExecWait, Goto, server, Waits, Mine
  <2>13. CASE ExitCode(c)
    <3>1. pc'[c] \in {"judge", "idle"} BY <2>13, <2>a DEF ExitCode, Goto, End
    <3>. QED BY <3>1, <2>a DEF Waits
  <2>14. CASE TimedOut(c)
    <3>1. pc'[c] \notin {"send last", "exec last", "send wait", "exec wait", "exit code"}
      BY <2>14, <2>a DEF TimedOut, Goto, End, First
    <3>. QED BY <3>1, <2>a DEF Waits
  <2>15. CASE Accept(c)
    <3>1. pc'[c] \notin {"send last", "exec last", "send wait", "exec wait", "exit code"}
      BY <2>15, <2>a DEF Accept, Goto, End, First
    <3>. QED BY <3>1, <2>a DEF Waits
  <2>16. CASE Refuse(c)
    <3>1. pc'[c] \notin {"send last", "exec last", "send wait", "exec wait", "exit code"}
      BY <2>16, <2>a DEF Refuse, Goto, End, First
    <3>. QED BY <3>1, <2>a DEF Waits
  <2>17. CASE ClearFilter(c)
    <3>1. pc'[c] \notin {"send last", "exec last", "send wait", "exec wait", "exit code"}
      BY <2>17, <2>a DEF ClearFilter, Goto, End, First
    <3>. QED BY <3>1, <2>a DEF Waits
  <2>18. CASE SetAppFilter(c)
    <3>1. pc'[c] \notin {"send last", "exec last", "send wait", "exec wait", "exit code"}
      BY <2>18, <2>a DEF SetAppFilter, Goto, End, First
    <3>. QED BY <3>1, <2>a DEF Waits
  <2>19. CASE Mount(c)
    <3>1. pc'[c] \in {"copy", "unmount failed"} BY <2>19, <2>a DEF Mount, Goto
    <3>. QED BY <3>1, <2>a DEF Waits
  <2>20. CASE MissingFile(c)
    <3>1. pc'[c] \notin {"send last", "exec last", "send wait", "exec wait", "exit code"}
      BY <2>20, <2>a DEF MissingFile, Goto, End, First
    <3>. QED BY <3>1, <2>a DEF Waits
  <2>21. CASE Copy(c)
    <3>1. pc'[c] \notin {"send last", "exec last", "send wait", "exec wait", "exit code"}
      BY <2>21, <2>a DEF Copy, Goto, End, First
    <3>. QED BY <3>1, <2>a DEF Waits
  <2>22. CASE Unmount(c)
    <3>1. pc'[c] \notin {"send last", "exec last", "send wait", "exec wait", "exit code"}
      BY <2>22, <2>a DEF Unmount, Goto, End, First
    <3>. QED BY <3>1, <2>a DEF Waits
  <2>23. CASE UnmountFailed(c)
    <3>1. pc'[c] \notin {"send last", "exec last", "send wait", "exec wait", "exit code"}
      BY <2>23, <2>a DEF UnmountFailed, Goto, End, First
    <3>. QED BY <3>1, <2>a DEF Waits
  <2>24. CASE ResetFilter(c)
    <3>1. pc'[c] \notin {"send last", "exec last", "send wait", "exec wait", "exit code"}
      BY <2>24, <2>a DEF ResetFilter, Goto, End, First
    <3>. QED BY <3>1, <2>a DEF Waits
  <2>25. CASE ResetCommands(c)
    <3>1. pc'[c] \notin {"send last", "exec last", "send wait", "exec wait", "exit code"}
      BY <2>25, <2>a DEF ResetCommands, Goto, End, First
    <3>. QED BY <3>1, <2>a DEF Waits
  <2>26. CASE ResetResponses(c)
    <3>1. pc'[c] \notin {"send last", "exec last", "send wait", "exec wait", "exit code"}
      BY <2>26, <2>a DEF ResetResponses, Goto, End, First
    <3>. QED BY <3>1, <2>a DEF Waits
  <2>27. CASE Kill(c)
    <3>1. pc'[c] \notin {"send last", "exec last", "send wait", "exec wait", "exit code"}
      BY <2>27, <2>a DEF Kill, Goto, End, First
    <3>. QED BY <3>1, <2>a DEF Waits
  <2>. QED
    BY <1>3, <2>1, <2>2, <2>3, <2>4, <2>5, <2>6, <2>7, <2>8, <2>9, <2>10,
       <2>11, <2>12, <2>13, <2>14, <2>15, <2>16, <2>17, <2>18, <2>19, <2>20,
       <2>21, <2>22, <2>23, <2>24, <2>25, <2>26, <2>27
    DEF Step
<1>. QED BY <1>1, <1>2, <1>3 DEF Next

LEMMA AnswersKept ==
  ASSUME Answers, UNCHANGED <<lastId, cmds, resp, agent>>
  PROVE  Answers'
BY DEF Answers, agent

LEMMA AnswersIssue ==
  ASSUME ServerType, Answers, NEW j, NEW isFile, Issue(j, isFile), UNCHANGED agent
  PROVE  Answers'
<1>1. \A r \in resp : r.id \in Nat /\ r.id <= lastId
  BY DEF Answers, ServerType, Response
<1>2. lastId \in Nat BY DEF ServerType
<1> DEFINE new == [id |-> lastId + 1, to |-> filter, file |-> isFile, job |-> j]
<1>3. cmds' = cmds \cup {new} /\ lastId' = lastId + 1 /\ resp' = resp
      /\ file' = file /\ ran' = ran
  BY DEF Issue, agent
<1>4. new.id = lastId + 1 OBVIOUS
<1> HIDE DEF new
<1>5. ASSUME NEW r \in resp' PROVE r.id <= lastId' /\ r.id # new.id
  BY <1>1, <1>2, <1>3, <1>4
<1>. QED BY <1>3, <1>5 DEF Answers

LEMMA AnswersStep ==
  ASSUME ServerType, Answers, [Next]_vars
  PROVE  Answers'
<1>1. CASE UNCHANGED vars
  BY <1>1 DEF vars, server, agent, client, Answers
<1>2. ASSUME NEW v \in VM, Run(v) PROVE Answers'
  <2>1. PICK k \in cmds, a \in Answer :
    /\ v \in k.to
    /\ resp' = resp \cup {[id |-> k.id, vm |-> v, answer |-> a]}
    /\ IF k.file
       THEN file' = file \cup {<<k.job.script, v>>} /\ ran' = ran
       ELSE /\ file' = file
            /\ ran' = ran \cup {[job |-> k.job, vm |-> v, answer |-> a,
                                 had |-> <<k.job.script, v>> \in file]}
    /\ UNCHANGED <<cmds, lastId>>
    BY <1>2 DEF Run
  <2> DEFINE new == [id |-> k.id, vm |-> v, answer |-> a]
             x == [job |-> k.job, vm |-> v, answer |-> a,
                   had |-> <<k.job.script, v>> \in file]
  <2>2. resp' = resp \cup {new} /\ new.id = k.id /\ new.vm = v /\ new.answer = a
    BY <2>1
  <2>3. x.job = k.job /\ x.vm = v /\ x.answer = a OBVIOUS
  <2>4. /\ k.file => <<k.job.script, v>> \in file'
        /\ ~k.file => x \in ran'
        /\ file \subseteq file' /\ ran \subseteq ran'
    BY <2>1
  <2> HIDE DEF new, x
  <2>5. k.id <= lastId /\ \A d \in cmds : d.id = k.id => d = k BY DEF ServerType
  <2>6. ASSUME NEW r \in resp PROVE
          /\ r.id <= lastId'
          /\ \A d \in cmds' : d.id = r.id =>
               /\ r.vm \in d.to
               /\ d.file => <<d.job.script, r.vm>> \in file'
               /\ ~d.file => \E y \in ran' :
                    y.job = d.job /\ y.vm = r.vm /\ y.answer = r.answer
    BY <2>1, <2>4 DEF Answers
  <2>7. /\ new.id <= lastId'
        /\ \A d \in cmds' : d.id = new.id =>
             /\ new.vm \in d.to
             /\ d.file => <<d.job.script, new.vm>> \in file'
             /\ ~d.file => \E y \in ran' :
                  y.job = d.job /\ y.vm = new.vm /\ y.answer = new.answer
    <3>1. new.id <= lastId' BY <2>1, <2>2, <2>5
    <3>2. ASSUME NEW d \in cmds', d.id = new.id PROVE d = k
      BY <3>2, <2>1, <2>2, <2>5
    <3>. QED BY <2>1, <2>2, <2>3, <2>4, <3>1, <3>2
  <2>. QED BY <2>2, <2>6, <2>7 DEF Answers
<1>3. ASSUME NEW c \in Client, Step(c) \/ StageStart(c) \/ Kill(c)
      PROVE  Answers'
  <2>1. CASE StageStart(c)
    BY <2>1, AnswersKept DEF StageStart, Keep, server
  <2>2. CASE StageEnd(c)
    BY <2>2, AnswersKept DEF StageEnd, Keep, server
  <2>3. CASE Take(c)
    BY <2>3, AnswersKept DEF Take, Keep, server
  <2>4. CASE SendFilter(c)
    BY <2>4, AnswersKept DEF SendFilter, Keep, SetFilter
  <2>5. CASE Send(c)
    BY <2>5, AnswersIssue DEF Send, Keep
  <2>6. CASE SendLast(c)
    BY <2>6, AnswersKept DEF SendLast, ReadLast, Keep, server
  <2>7. CASE SendWait(c)
    BY <2>7, AnswersKept DEF SendWait, Keep, server
  <2>8. CASE SendClear(c)
    BY <2>8, AnswersKept DEF SendClear, Keep, SetFilter
  <2>9. CASE ExecFilter(c)
    BY <2>9, AnswersKept DEF ExecFilter, Keep, SetFilter
  <2>10. CASE Exec(c)
    BY <2>10, AnswersIssue DEF Exec, Keep
  <2>11. CASE ExecLast(c)
    BY <2>11, AnswersKept DEF ExecLast, ReadLast, Keep, server
  <2>12. CASE ExecWait(c)
    BY <2>12, AnswersKept DEF ExecWait, Keep, server
  <2>13. CASE ExitCode(c)
    BY <2>13, AnswersKept DEF ExitCode, Keep, server
  <2>14. CASE TimedOut(c)
    BY <2>14, AnswersKept DEF TimedOut, Keep, server
  <2>15. CASE Accept(c)
    BY <2>15, AnswersKept DEF Accept, Keep, server
  <2>16. CASE Refuse(c)
    BY <2>16, AnswersKept DEF Refuse, Keep, server
  <2>17. CASE ClearFilter(c)
    BY <2>17, AnswersKept DEF ClearFilter, Keep, SetFilter
  <2>18. CASE SetAppFilter(c)
    BY <2>18, AnswersKept DEF SetAppFilter, Keep, SetFilter
  <2>19. CASE Mount(c)
    BY <2>19, AnswersKept DEF Mount, Keep, server
  <2>20. CASE MissingFile(c)
    BY <2>20, AnswersKept DEF MissingFile, Keep, server
  <2>21. CASE Copy(c)
    BY <2>21, AnswersKept DEF Copy, Keep, server
  <2>22. CASE Unmount(c)
    BY <2>22, AnswersKept DEF Unmount, Keep, server
  <2>23. CASE UnmountFailed(c)
    BY <2>23, AnswersKept DEF UnmountFailed, Keep, server
  <2>24. CASE ResetFilter(c)
    BY <2>24, AnswersKept DEF ResetFilter, Keep, SetFilter
  <2>25. CASE ResetCommands(c)
    BY <2>25 DEF ResetCommands, Answers, Keep, agent
  <2>26. CASE ResetResponses(c)
    BY <2>26 DEF ResetResponses, Answers, Keep, agent
  <2>27. CASE Kill(c)
    BY <2>27, AnswersKept DEF Kill, Keep, server
  <2>. QED
    BY <1>3, <2>1, <2>2, <2>3, <2>4, <2>5, <2>6, <2>7, <2>8, <2>9, <2>10,
       <2>11, <2>12, <2>13, <2>14, <2>15, <2>16, <2>17, <2>18, <2>19, <2>20,
       <2>21, <2>22, <2>23, <2>24, <2>25, <2>26, <2>27
    DEF Step
<1>. QED BY <1>1, <1>2, <1>3 DEF Next

\* A command of one VM is issued under that VM's filter.
Routed ==
  /\ \A c \in Client : pc[c] \in {"send", "exec"} /\ job[c].kind # "app"
                         => filter = {job[c].vm}
  /\ \A k \in cmds : k.job.kind # "app" => k.to = {k.job.vm}
  /\ RunsWhereAsked

\* A script is in its VM from the moment the exec may be issued.
Delivered ==
  /\ \A c \in Client :
       job[c].kind \in Scripted /\ pc[c] \in {"send clear", "exec filter", "exec"}
         => <<job[c].script, job[c].vm>> \in file
  /\ \A k \in cmds : ~k.file /\ k.job.kind \in Scripted
                       => <<k.job.script, k.job.vm>> \in file
  /\ ScriptFirst

LEMMA TakeKind ==
  ASSUME ClientType, NEW c \in Client, Take(c)
  PROVE  /\ pc'[c] = "exec" => job'[c].kind = "app"
         /\ pc'[c] = "exec filter" => job'[c].kind = "check"
<1>1. PICK k \in Kinds, v \in VM, f \in AppFilter \cup {{}} :
        LET j == [kind |-> k, vm |-> v, to |-> f, script |-> jobs + 1]
        IN job' = [job EXCEPT ![c] = j] /\ pc' = [pc EXCEPT ![c] = First(j)]
  BY DEF Take
<1>2. job'[c].kind = k /\ pc'[c] = First(job'[c])
  BY <1>1 DEF ClientType
<1>. QED BY <1>2 DEF First, Kinds, Scripted

LEMMA RoutedStep ==
  ASSUME OneClient, ClientType, PcKind, Routed, [Next]_vars
  PROVE  Routed'
<1>1. CASE UNCHANGED vars
  BY <1>1 DEF vars, server, agent, client, Routed, RunsWhereAsked
<1>2. ASSUME NEW v \in VM, Run(v) PROVE Routed'
  <2>1. PICK k \in cmds, a \in Answer :
    /\ v \in k.to
    /\ ran' \in {ran, ran \cup {[job |-> k.job, vm |-> v, answer |-> a,
                                 had |-> <<k.job.script, v>> \in file]}}
    /\ UNCHANGED <<filter, cmds, client>>
    BY <1>2 DEF Run
  <2>2. k.job.kind # "app" => v = k.job.vm BY <2>1 DEF Routed
  <2> DEFINE x == [job |-> k.job, vm |-> v, answer |-> a,
                   had |-> <<k.job.script, v>> \in file]
  <2>3. x.job = k.job /\ x.vm = v OBVIOUS
  <2>4. ran' \in {ran, ran \cup {x}} BY <2>1
  <2> HIDE DEF x
  <2>5. RunsWhereAsked' BY <2>2, <2>3, <2>4 DEF Routed, RunsWhereAsked
  <2>. QED BY <2>1, <2>5 DEF Routed, client
<1>3. ASSUME NEW c \in Client, Step(c) \/ StageStart(c) \/ Kill(c)
      PROVE  Routed'
  <2>a. /\ \A d \in Client : d = c
        /\ c \in DOMAIN pc /\ c \in DOMAIN job /\ c \in DOMAIN id
        /\ c \in DOMAIN got /\ c \in DOMAIN judged /\ c \in DOMAIN phase
    BY DEF OneClient, ClientType
  <2>1. CASE StageStart(c)
    <3>1. pc'[c] \notin {"send", "exec"} /\ ran' = ran /\ cmds' \subseteq cmds
      BY <2>1, <2>a DEF StageStart, Goto, End, Keep, agent, SetFilter, server
    <3>. QED BY <3>1, <2>a DEF Routed, RunsWhereAsked
  <2>2. CASE StageEnd(c)
    <3>1. pc'[c] \notin {"send", "exec"} /\ ran' = ran /\ cmds' \subseteq cmds
      BY <2>2, <2>a DEF StageEnd, Goto, End, Keep, agent, SetFilter, server
    <3>. QED BY <3>1, <2>a DEF Routed, RunsWhereAsked
  <2>3. CASE Take(c)
    <3>1. pc'[c] \in {"send", "exec"} => job'[c].kind = "app"
      BY <2>3, TakeKind, PcTake
    <3>2. UNCHANGED <<cmds, ran>> BY <2>3 DEF Take, server, agent
    <3>. QED BY <3>1, <3>2, <2>a DEF Routed, RunsWhereAsked
  <2>4. CASE SendFilter(c)
    <3>1. filter' = {job'[c].vm} /\ cmds' = cmds /\ ran' = ran
      BY <2>4, <2>a DEF SendFilter, Goto, SetFilter, Keep, agent
    <3>. QED BY <3>1, <2>a DEF Routed, RunsWhereAsked
  <2>5. CASE Send(c)
    <3> DEFINE new == [id |-> lastId + 1, to |-> filter,
                       file |-> TRUE, job |-> job[c]]
    <3>1. cmds' = cmds \cup {new} /\ new.to = filter /\ new.job = job[c]
      BY <2>5 DEF Send, Issue
    <3> HIDE DEF new
    <3>2. new.job.kind # "app" => new.to = {new.job.vm}
      BY <2>5, <3>1, PcKind DEF Send, Routed, PcKind, Scripted
    <3>3. pc'[c] \notin {"send", "exec"} /\ ran' = ran
      BY <2>5, <2>a DEF Send, Goto, Keep, agent
    <3>. QED BY <3>1, <3>2, <3>3, <2>a DEF Routed, RunsWhereAsked
  <2>6. CASE SendLast(c)
    <3>1. pc'[c] \notin {"send", "exec"} /\ ran' = ran /\ cmds' \subseteq cmds
      BY <2>6, <2>a DEF SendLast, ReadLast, Goto, End, Keep, agent, SetFilter, server
    <3>. QED BY <3>1, <2>a DEF Routed, RunsWhereAsked
  <2>7. CASE SendWait(c)
    <3>1. pc'[c] \notin {"send", "exec"} /\ ran' = ran /\ cmds' \subseteq cmds
      BY <2>7, <2>a DEF SendWait, Goto, End, Keep, agent, SetFilter, server
    <3>. QED BY <3>1, <2>a DEF Routed, RunsWhereAsked
  <2>8. CASE SendClear(c)
    <3>1. pc'[c] \notin {"send", "exec"} /\ ran' = ran /\ cmds' \subseteq cmds
      BY <2>8, <2>a DEF SendClear, Goto, End, Keep, agent, SetFilter, server
    <3>. QED BY <3>1, <2>a DEF Routed, RunsWhereAsked
  <2>9. CASE ExecFilter(c)
    <3>1. filter' = {job'[c].vm} /\ cmds' = cmds /\ ran' = ran
      BY <2>9, <2>a DEF ExecFilter, Goto, SetFilter, Keep, agent
    <3>. QED BY <3>1, <2>a DEF Routed, RunsWhereAsked
  <2>10. CASE Exec(c)
    <3> DEFINE new == [id |-> lastId + 1, to |-> filter,
                       file |-> FALSE, job |-> job[c]]
    <3>1. cmds' = cmds \cup {new} /\ new.to = filter /\ new.job = job[c]
      BY <2>10 DEF Exec, Issue
    <3> HIDE DEF new
    <3>2. new.job.kind # "app" => new.to = {new.job.vm}
      BY <2>10, <3>1, PcKind DEF Exec, Routed, PcKind, Scripted
    <3>3. pc'[c] \notin {"send", "exec"} /\ ran' = ran
      BY <2>10, <2>a DEF Exec, Goto, Keep, agent
    <3>. QED BY <3>1, <3>2, <3>3, <2>a DEF Routed, RunsWhereAsked
  <2>11. CASE ExecLast(c)
    <3>1. pc'[c] \notin {"send", "exec"} /\ ran' = ran /\ cmds' \subseteq cmds
      BY <2>11, <2>a DEF ExecLast, ReadLast, Goto, End, Keep, agent, SetFilter, server
    <3>. QED BY <3>1, <2>a DEF Routed, RunsWhereAsked
  <2>12. CASE ExecWait(c)
    <3>1. pc'[c] \notin {"send", "exec"} /\ ran' = ran /\ cmds' \subseteq cmds
      BY <2>12, <2>a DEF ExecWait, Goto, End, Keep, agent, SetFilter, server
    <3>. QED BY <3>1, <2>a DEF Routed, RunsWhereAsked
  <2>13. CASE ExitCode(c)
    <3>1. pc'[c] \notin {"send", "exec"} /\ ran' = ran /\ cmds' \subseteq cmds
      BY <2>13, <2>a DEF ExitCode, Goto, End, Keep, agent, SetFilter, server
    <3>. QED BY <3>1, <2>a DEF Routed, RunsWhereAsked
  <2>14. CASE TimedOut(c)
    <3>1. pc'[c] \notin {"send", "exec"} /\ ran' = ran /\ cmds' \subseteq cmds
      BY <2>14, <2>a DEF TimedOut, Goto, End, Keep, agent, SetFilter, server
    <3>. QED BY <3>1, <2>a DEF Routed, RunsWhereAsked
  <2>15. CASE Accept(c)
    <3>1. pc'[c] \notin {"send", "exec"} /\ ran' = ran /\ cmds' \subseteq cmds
      BY <2>15, <2>a DEF Accept, Goto, End, Keep, agent, SetFilter, server
    <3>. QED BY <3>1, <2>a DEF Routed, RunsWhereAsked
  <2>16. CASE Refuse(c)
    <3>1. pc'[c] \notin {"send", "exec"} /\ ran' = ran /\ cmds' \subseteq cmds
      BY <2>16, <2>a DEF Refuse, Goto, End, Keep, agent, SetFilter, server
    <3>. QED BY <3>1, <2>a DEF Routed, RunsWhereAsked
  <2>17. CASE ClearFilter(c)
    <3>1. pc'[c] \notin {"send", "exec"} /\ ran' = ran /\ cmds' \subseteq cmds
      BY <2>17, <2>a DEF ClearFilter, Goto, End, Keep, agent, SetFilter, server
    <3>. QED BY <3>1, <2>a DEF Routed, RunsWhereAsked
  <2>18. CASE SetAppFilter(c)
    <3>1. job'[c].kind = "app" /\ cmds' = cmds /\ ran' = ran
      BY <2>18, <2>a DEF SetAppFilter, Goto, SetFilter, Keep, agent, PcKind
    <3>. QED BY <3>1, <2>a DEF Routed, RunsWhereAsked
  <2>19. CASE Mount(c)
    <3>1. pc'[c] \notin {"send", "exec"} /\ ran' = ran /\ cmds' \subseteq cmds
      BY <2>19, <2>a DEF Mount, Goto, End, Keep, agent, SetFilter, server
    <3>. QED BY <3>1, <2>a DEF Routed, RunsWhereAsked
  <2>20. CASE MissingFile(c)
    <3>1. pc'[c] \notin {"send", "exec"} /\ ran' = ran /\ cmds' \subseteq cmds
      BY <2>20, <2>a DEF MissingFile, Goto, End, Keep, agent, SetFilter, server
    <3>. QED BY <3>1, <2>a DEF Routed, RunsWhereAsked
  <2>21. CASE Copy(c)
    <3>1. pc'[c] \notin {"send", "exec"} /\ ran' = ran /\ cmds' \subseteq cmds
      BY <2>21, <2>a DEF Copy, Goto, End, Keep, agent, SetFilter, server
    <3>. QED BY <3>1, <2>a DEF Routed, RunsWhereAsked
  <2>22. CASE Unmount(c)
    <3>1. pc'[c] \notin {"send", "exec"} /\ ran' = ran /\ cmds' \subseteq cmds
      BY <2>22, <2>a DEF Unmount, Goto, End, Keep, agent, SetFilter, server
    <3>. QED BY <3>1, <2>a DEF Routed, RunsWhereAsked
  <2>23. CASE UnmountFailed(c)
    <3>1. pc'[c] \notin {"send", "exec"} /\ ran' = ran /\ cmds' \subseteq cmds
      BY <2>23, <2>a DEF UnmountFailed, Goto, End, Keep, agent, SetFilter, server
    <3>. QED BY <3>1, <2>a DEF Routed, RunsWhereAsked
  <2>24. CASE ResetFilter(c)
    <3>1. pc'[c] \notin {"send", "exec"} /\ ran' = ran /\ cmds' \subseteq cmds
      BY <2>24, <2>a DEF ResetFilter, Goto, End, Keep, agent, SetFilter, server
    <3>. QED BY <3>1, <2>a DEF Routed, RunsWhereAsked
  <2>25. CASE ResetCommands(c)
    <3>1. pc'[c] \notin {"send", "exec"} /\ ran' = ran /\ cmds' \subseteq cmds
      BY <2>25, <2>a DEF ResetCommands, Goto, End, Keep, agent, SetFilter, server
    <3>. QED BY <3>1, <2>a DEF Routed, RunsWhereAsked
  <2>26. CASE ResetResponses(c)
    <3>1. pc'[c] \notin {"send", "exec"} /\ ran' = ran /\ cmds' \subseteq cmds
      BY <2>26, <2>a DEF ResetResponses, Goto, End, Keep, agent, SetFilter, server
    <3>. QED BY <3>1, <2>a DEF Routed, RunsWhereAsked
  <2>27. CASE Kill(c)
    <3>1. pc'[c] \notin {"send", "exec"} /\ ran' = ran /\ cmds' \subseteq cmds
      BY <2>27, <2>a DEF Kill, Goto, End, Keep, agent, SetFilter, server
    <3>. QED BY <3>1, <2>a DEF Routed, RunsWhereAsked
  <2>. QED
    BY <1>3, <2>1, <2>2, <2>3, <2>4, <2>5, <2>6, <2>7, <2>8, <2>9, <2>10,
       <2>11, <2>12, <2>13, <2>14, <2>15, <2>16, <2>17, <2>18, <2>19, <2>20,
       <2>21, <2>22, <2>23, <2>24, <2>25, <2>26, <2>27
    DEF Step
<1>. QED BY <1>1, <1>2, <1>3 DEF Next

LEMMA DeliveredStep ==
  ASSUME OneClient, ClientType, PcKind, Waits, Answers, Routed,
         Delivered, [Next]_vars
  PROVE  Delivered'
<1>1. CASE UNCHANGED vars
  BY <1>1 DEF vars, server, agent, client, Delivered, ScriptFirst
<1>2. ASSUME NEW v \in VM, Run(v) PROVE Delivered'
  <2>1. PICK k \in cmds, a \in Answer :
    /\ v \in k.to
    /\ IF k.file
       THEN file' = file \cup {<<k.job.script, v>>} /\ ran' = ran
       ELSE /\ file' = file
            /\ ran' = ran \cup {[job |-> k.job, vm |-> v, answer |-> a,
                                 had |-> <<k.job.script, v>> \in file]}
    /\ UNCHANGED <<filter, cmds, client>>
    BY <1>2 DEF Run
  <2>2. file \subseteq file' BY <2>1
  <2>3. ScriptFirst'
    <3>1. CASE k.file BY <2>1, <3>1 DEF Delivered, ScriptFirst
    <3>2. CASE ~k.file
      <4> DEFINE x == [job |-> k.job, vm |-> v, answer |-> a,
                       had |-> <<k.job.script, v>> \in file]
      <4>1. k.job.kind \in Scripted => <<k.job.script, v>> \in file
        BY <2>1, <3>2 DEF Routed, Delivered, Scripted
      <4>2. x.job = k.job /\ (k.job.kind \in Scripted => x.had)
        BY <4>1
      <4>3. ran' = ran \cup {x} BY <2>1, <3>2
      <4> HIDE DEF x
      <4>. QED BY <4>2, <4>3 DEF Delivered, ScriptFirst
    <3>. QED BY <3>1, <3>2
  <2>. QED BY <2>1, <2>2, <2>3 DEF Delivered, client
<1>3. ASSUME NEW c \in Client, Step(c) \/ StageStart(c) \/ Kill(c)
      PROVE  Delivered'
  <2>a. /\ \A d \in Client : d = c
        /\ c \in DOMAIN pc /\ c \in DOMAIN job /\ c \in DOMAIN id
        /\ c \in DOMAIN got /\ c \in DOMAIN judged /\ c \in DOMAIN phase
    BY DEF OneClient, ClientType
  <2>1. CASE StageStart(c)
    <3>1. /\ pc'[c] \notin {"send clear", "exec filter", "exec"}
          /\ ran' = ran /\ file' = file /\ cmds' \subseteq cmds
      BY <2>1, <2>a DEF StageStart, Goto, End, Keep, agent, SetFilter, server
    <3>. QED BY <3>1, <2>a DEF Delivered, ScriptFirst
  <2>2. CASE StageEnd(c)
    <3>1. /\ pc'[c] \notin {"send clear", "exec filter", "exec"}
          /\ ran' = ran /\ file' = file /\ cmds' \subseteq cmds
      BY <2>2, <2>a DEF StageEnd, Goto, End, Keep, agent, SetFilter, server
    <3>. QED BY <3>1, <2>a DEF Delivered, ScriptFirst
  <2>3. CASE Take(c)
    <3>1. pc'[c] \in {"send clear", "exec filter", "exec"}
            => job'[c].kind \notin Scripted
      BY <2>3, TakeKind, PcTake DEF Scripted
    <3>2. UNCHANGED <<cmds, ran, file>> BY <2>3 DEF Take, server, agent
    <3>. QED BY <3>1, <3>2, <2>a DEF Delivered, ScriptFirst
  <2>4. CASE SendFilter(c)
    <3>1. /\ pc'[c] \notin {"send clear", "exec filter", "exec"}
          /\ ran' = ran /\ file' = file /\ cmds' \subseteq cmds
      BY <2>4, <2>a DEF SendFilter, Goto, End, Keep, agent, SetFilter, server
    <3>. QED BY <3>1, <2>a DEF Delivered, ScriptFirst
  <2>5. CASE Send(c)
    <3> DEFINE new == [id |-> lastId + 1, to |-> filter, file |-> TRUE,
                       job |-> job[c]]
    <3>1. cmds' = cmds \cup {new} /\ new.file BY <2>5 DEF Send, Issue
    <3> HIDE DEF new
    <3>3. /\ pc'[c] = "send last" /\ ran' = ran /\ file' = file
      BY <2>5, <2>a DEF Send, Goto, Keep, agent
    <3>. QED BY <3>1, <3>3, <2>a DEF Delivered, ScriptFirst
  <2>6. CASE SendLast(c)
    <3>1. /\ pc'[c] \notin {"send clear", "exec filter", "exec"}
          /\ ran' = ran /\ file' = file /\ cmds' \subseteq cmds
      BY <2>6, <2>a DEF SendLast, ReadLast, Goto, End, Keep, agent, SetFilter, server
    <3>. QED BY <3>1, <2>a DEF Delivered, ScriptFirst
  <2>7. CASE SendWait(c)
    <3>1. PICK k \in cmds : k.id = id[c] /\ Mine(c, k)
      BY <2>7 DEF SendWait, Waits
    <3>2. PICK r \in resp : r.id = id[c]
      BY <2>7 DEF SendWait, Answered
    <3>3. k.file /\ k.job = job[c] BY <2>7, <3>1 DEF SendWait, Mine
    <3>4. r.vm \in k.to /\ <<k.job.script, r.vm>> \in file
      BY <3>1, <3>2, <3>3 DEF Answers
    <3>5. job[c].kind # "app" BY <2>7 DEF SendWait, PcKind, Scripted
    <3>6. r.vm = job[c].vm BY <3>3, <3>4, <3>5 DEF Routed
    <3>7. <<job[c].script, job[c].vm>> \in file BY <3>3, <3>4, <3>6
    <3>8. job' = job /\ cmds' = cmds /\ ran' = ran /\ file' = file
      BY <2>7 DEF SendWait, Goto, Keep, agent, server
    <3>. QED BY <3>7, <3>8, <2>a DEF Delivered, ScriptFirst
  <2>8. CASE SendClear(c)
    <3>1. /\ job' = job /\ cmds' = cmds /\ ran' = ran /\ file' = file
          /\ pc[c] \in {"send clear", "exec filter"}
      BY <2>8, <2>a DEF SendClear, Goto, SetFilter, Keep, agent
    <3>. QED BY <3>1, <2>a DEF Delivered, ScriptFirst
  <2>9. CASE ExecFilter(c)
    <3>1. /\ job' = job /\ cmds' = cmds /\ ran' = ran /\ file' = file
          /\ pc[c] \in {"send clear", "exec filter"}
      BY <2>9, <2>a DEF ExecFilter, Goto, SetFilter, Keep, agent
    <3>. QED BY <3>1, <2>a DEF Delivered, ScriptFirst
  <2>10. CASE Exec(c)
    <3> DEFINE new == [id |-> lastId + 1, to |-> filter, file |-> FALSE,
                       job |-> job[c]]
    <3>1. cmds' = cmds \cup {new} /\ new.job = job[c] BY <2>10 DEF Exec, Issue
    <3> HIDE DEF new
    <3>2. new.job.kind \in Scripted => <<new.job.script, new.job.vm>> \in file
      BY <2>10, <3>1 DEF Exec, Delivered
    <3>3. /\ pc'[c] \notin {"send clear", "exec filter", "exec"}
          /\ ran' = ran /\ file' = file
      BY <2>10, <2>a DEF Exec, Goto, Keep, agent
    <3>. QED BY <3>1, <3>2, <3>3, <2>a DEF Delivered, ScriptFirst
  <2>11. CASE ExecLast(c)
    <3>1. /\ pc'[c] \notin {"send clear", "exec filter", "exec"}
          /\ ran' = ran /\ file' = file /\ cmds' \subseteq cmds
      BY <2>11, <2>a DEF ExecLast, ReadLast, Goto, End, Keep, agent, SetFilter, server
    <3>. QED BY <3>1, <2>a DEF Delivered, ScriptFirst
  <2>12. CASE ExecWait(c)
    <3>1. /\ pc'[c] \notin {"send clear", "exec filter", "exec"}
          /\ ran' = ran /\ file' = file /\ cmds' \subseteq cmds
      BY <2>12, <2>a DEF ExecWait, Goto, End, Keep, agent, SetFilter, server
    <3>. QED BY <3>1, <2>a DEF Delivered, ScriptFirst
  <2>13. CASE ExitCode(c)
    <3>1. /\ pc'[c] \notin {"send clear", "exec filter", "exec"}
          /\ ran' = ran /\ file' = file /\ cmds' \subseteq cmds
      BY <2>13, <2>a DEF ExitCode, Goto, End, Keep, agent, SetFilter, server
    <3>. QED BY <3>1, <2>a DEF Delivered, ScriptFirst
  <2>14. CASE TimedOut(c)
    <3>1. /\ pc'[c] \notin {"send clear", "exec filter", "exec"}
          /\ ran' = ran /\ file' = file /\ cmds' \subseteq cmds
      BY <2>14, <2>a DEF TimedOut, Goto, End, Keep, agent, SetFilter, server
    <3>. QED BY <3>1, <2>a DEF Delivered, ScriptFirst
  <2>15. CASE Accept(c)
    <3>1. /\ pc'[c] \notin {"send clear", "exec filter", "exec"}
          /\ ran' = ran /\ file' = file /\ cmds' \subseteq cmds
      BY <2>15, <2>a DEF Accept, Goto, End, Keep, agent, SetFilter, server
    <3>. QED BY <3>1, <2>a DEF Delivered, ScriptFirst
  <2>16. CASE Refuse(c)
    <3>1. /\ pc'[c] \notin {"send clear", "exec filter", "exec"}
          /\ ran' = ran /\ file' = file /\ cmds' \subseteq cmds
      BY <2>16, <2>a DEF Refuse, Goto, End, Keep, agent, SetFilter, server
    <3>. QED BY <3>1, <2>a DEF Delivered, ScriptFirst
  <2>17. CASE ClearFilter(c)
    <3>1. /\ pc'[c] \notin {"send clear", "exec filter", "exec"}
          /\ ran' = ran /\ file' = file /\ cmds' \subseteq cmds
      BY <2>17, <2>a DEF ClearFilter, Goto, End, Keep, agent, SetFilter, server
    <3>. QED BY <3>1, <2>a DEF Delivered, ScriptFirst
  <2>18. CASE SetAppFilter(c)
    <3>1. job'[c].kind = "app" /\ cmds' = cmds /\ ran' = ran /\ file' = file
      BY <2>18, <2>a DEF SetAppFilter, Goto, SetFilter, Keep, agent, PcKind
    <3>. QED BY <3>1, <2>a DEF Delivered, ScriptFirst, Scripted
  <2>19. CASE Mount(c)
    <3>1. /\ pc'[c] \notin {"send clear", "exec filter", "exec"}
          /\ ran' = ran /\ file' = file /\ cmds' \subseteq cmds
      BY <2>19, <2>a DEF Mount, Goto, End, Keep, agent, SetFilter, server
    <3>. QED BY <3>1, <2>a DEF Delivered, ScriptFirst
  <2>20. CASE MissingFile(c)
    <3>1. /\ pc'[c] \notin {"send clear", "exec filter", "exec"}
          /\ ran' = ran /\ file' = file /\ cmds' \subseteq cmds
      BY <2>20, <2>a DEF MissingFile, Goto, End, Keep, agent, SetFilter, server
    <3>. QED BY <3>1, <2>a DEF Delivered, ScriptFirst
  <2>21. CASE Copy(c)
    <3>1. /\ pc'[c] \notin {"send clear", "exec filter", "exec"}
          /\ ran' = ran /\ file' = file /\ cmds' \subseteq cmds
      BY <2>21, <2>a DEF Copy, Goto, End, Keep, agent, SetFilter, server
    <3>. QED BY <3>1, <2>a DEF Delivered, ScriptFirst
  <2>22. CASE Unmount(c)
    <3>1. /\ pc'[c] \notin {"send clear", "exec filter", "exec"}
          /\ ran' = ran /\ file' = file /\ cmds' \subseteq cmds
      BY <2>22, <2>a DEF Unmount, Goto, End, Keep, agent, SetFilter, server
    <3>. QED BY <3>1, <2>a DEF Delivered, ScriptFirst
  <2>23. CASE UnmountFailed(c)
    <3>1. /\ pc'[c] \notin {"send clear", "exec filter", "exec"}
          /\ ran' = ran /\ file' = file /\ cmds' \subseteq cmds
      BY <2>23, <2>a DEF UnmountFailed, Goto, End, Keep, agent, SetFilter, server
    <3>. QED BY <3>1, <2>a DEF Delivered, ScriptFirst
  <2>24. CASE ResetFilter(c)
    <3>1. /\ pc'[c] \notin {"send clear", "exec filter", "exec"}
          /\ ran' = ran /\ file' = file /\ cmds' \subseteq cmds
      BY <2>24, <2>a DEF ResetFilter, Goto, End, Keep, agent, SetFilter, server
    <3>. QED BY <3>1, <2>a DEF Delivered, ScriptFirst
  <2>25. CASE ResetCommands(c)
    <3>1. /\ pc'[c] \notin {"send clear", "exec filter", "exec"}
          /\ ran' = ran /\ file' = file /\ cmds' \subseteq cmds
      BY <2>25, <2>a DEF ResetCommands, Goto, End, Keep, agent, SetFilter, server
    <3>. QED BY <3>1, <2>a DEF Delivered, ScriptFirst
  <2>26. CASE ResetResponses(c)
    <3>1. /\ pc'[c] \notin {"send clear", "exec filter", "exec"}
          /\ ran' = ran /\ file' = file /\ cmds' \subseteq cmds
      BY <2>26, <2>a DEF ResetResponses, Goto, End, Keep, agent, SetFilter, server
    <3>. QED BY <3>1, <2>a DEF Delivered, ScriptFirst
  <2>27. CASE Kill(c)
    <3>1. /\ pc'[c] \notin {"send clear", "exec filter", "exec"}
          /\ ran' = ran /\ file' = file /\ cmds' \subseteq cmds
      BY <2>27, <2>a DEF Kill, Goto, End, Keep, agent, SetFilter, server
    <3>. QED BY <3>1, <2>a DEF Delivered, ScriptFirst
  <2>. QED
    BY <1>3, <2>1, <2>2, <2>3, <2>4, <2>5, <2>6, <2>7, <2>8, <2>9, <2>10,
       <2>11, <2>12, <2>13, <2>14, <2>15, <2>16, <2>17, <2>18, <2>19, <2>20,
       <2>21, <2>22, <2>23, <2>24, <2>25, <2>26, <2>27
    DEF Step
<1>. QED BY <1>1, <1>2, <1>3 DEF Next

LEMMA OwnResultStep ==
  ASSUME OneClient, ClientType, Waits, Answers, OwnResult, [Next]_vars
  PROVE  OwnResult'
<1>1. CASE UNCHANGED vars
  BY <1>1 DEF vars, server, agent, client, OwnResult
<1>2. ASSUME NEW v \in VM, Run(v) PROVE OwnResult'
  <2>1. ran \subseteq ran' /\ UNCHANGED client BY <1>2 DEF Run
  <2>. QED BY <2>1 DEF OwnResult, client
<1>3. ASSUME NEW c \in Client, Step(c) \/ StageStart(c) \/ Kill(c)
      PROVE  OwnResult'
  <2>a. /\ \A d \in Client : d = c
        /\ c \in DOMAIN pc /\ c \in DOMAIN job /\ c \in DOMAIN id
        /\ c \in DOMAIN got /\ c \in DOMAIN judged /\ c \in DOMAIN phase
    BY DEF OneClient, ClientType
  <2>1. CASE StageStart(c)
    <3>1. pc'[c] # "judge" BY <2>1, <2>a DEF StageStart, Goto, End
    <3>. QED BY <3>1, <2>a DEF OwnResult
  <2>2. CASE StageEnd(c)
    <3>1. pc'[c] # "judge" BY <2>2, <2>a DEF StageEnd, Goto, End
    <3>. QED BY <3>1, <2>a DEF OwnResult
  <2>3. CASE Take(c)
    <3>1. pc'[c] # "judge" BY <2>3, PcTake
    <3>. QED BY <3>1, <2>a DEF OwnResult
  <2>4. CASE SendFilter(c)
    <3>1. pc'[c] # "judge" BY <2>4, <2>a DEF SendFilter, Goto, End
    <3>. QED BY <3>1, <2>a DEF OwnResult
  <2>5. CASE Send(c)
    <3>1. pc'[c] # "judge" BY <2>5, <2>a DEF Send, Goto, End
    <3>. QED BY <3>1, <2>a DEF OwnResult
  <2>6. CASE SendLast(c)
    <3>1. pc'[c] # "judge" BY <2>6, <2>a DEF SendLast, ReadLast, Goto, End
    <3>. QED BY <3>1, <2>a DEF OwnResult
  <2>7. CASE SendWait(c)
    <3>1. pc'[c] # "judge" BY <2>7, <2>a DEF SendWait, Goto, End
    <3>. QED BY <3>1, <2>a DEF OwnResult
  <2>8. CASE SendClear(c)
    <3>1. pc'[c] # "judge" BY <2>8, <2>a DEF SendClear, Goto, End
    <3>. QED BY <3>1, <2>a DEF OwnResult
  <2>9. CASE ExecFilter(c)
    <3>1. pc'[c] # "judge" BY <2>9, <2>a DEF ExecFilter, Goto, End
    <3>. QED BY <3>1, <2>a DEF OwnResult
  <2>10. CASE Exec(c)
    <3>1. pc'[c] # "judge" BY <2>10, <2>a DEF Exec, Goto, End
    <3>. QED BY <3>1, <2>a DEF OwnResult
  <2>11. CASE ExecLast(c)
    <3>1. pc'[c] # "judge" BY <2>11, <2>a DEF ExecLast, ReadLast, Goto, End
    <3>. QED BY <3>1, <2>a DEF OwnResult
  <2>12. CASE ExecWait(c)
    <3>1. pc'[c] # "judge" BY <2>12, <2>a DEF ExecWait, Goto, End
    <3>. QED BY <3>1, <2>a DEF OwnResult
  <2>13. CASE ExitCode(c)
    <3>1. CASE HasExitCode(c)
      <4>1. PICK r \in resp : /\ r.id = id[c] /\ r.vm = job[c].vm
                              /\ got' = [got EXCEPT ![c] = r.answer]
        BY <2>13, <3>1 DEF ExitCode
      <4>2. PICK k \in cmds : k.id = id[c] /\ Mine(c, k)
        BY <2>13 DEF ExitCode, Waits
      <4>3. ~k.file /\ k.job = job[c] BY <2>13, <4>2 DEF ExitCode, Mine
      <4>4. PICK x \in ran : x.job = k.job /\ x.vm = r.vm /\ x.answer = r.answer
        BY <4>1, <4>2, <4>3 DEF Answers
      <4>5. job' = job /\ ran' = ran BY <2>13, <3>1 DEF ExitCode, Goto, Keep, agent
      <4>6. got'[c] = r.answer BY <4>1, <2>a
      <4>. QED BY <4>1, <4>3, <4>4, <4>5, <4>6, <2>a DEF OwnResult
    <3>2. CASE ~HasExitCode(c)
      <4>1. pc'[c] # "judge" BY <2>13, <3>2, <2>a DEF ExitCode, End
      <4>. QED BY <4>1, <2>a DEF OwnResult
    <3>. QED BY <3>1, <3>2
  <2>14. CASE TimedOut(c)
    <3>1. pc'[c] # "judge" BY <2>14, <2>a DEF TimedOut, Goto, End
    <3>. QED BY <3>1, <2>a DEF OwnResult
  <2>15. CASE Accept(c)
    <3>1. pc'[c] # "judge" BY <2>15, <2>a DEF Accept, Goto, End
    <3>. QED BY <3>1, <2>a DEF OwnResult
  <2>16. CASE Refuse(c)
    <3>1. pc'[c] # "judge" BY <2>16, <2>a DEF Refuse, Goto, End
    <3>. QED BY <3>1, <2>a DEF OwnResult
  <2>17. CASE ClearFilter(c)
    <3>1. pc'[c] # "judge" BY <2>17, <2>a DEF ClearFilter, Goto, End
    <3>. QED BY <3>1, <2>a DEF OwnResult
  <2>18. CASE SetAppFilter(c)
    <3>1. pc'[c] # "judge" BY <2>18, <2>a DEF SetAppFilter, Goto, End
    <3>. QED BY <3>1, <2>a DEF OwnResult
  <2>19. CASE Mount(c)
    <3>1. pc'[c] # "judge" BY <2>19, <2>a DEF Mount, Goto, End
    <3>. QED BY <3>1, <2>a DEF OwnResult
  <2>20. CASE MissingFile(c)
    <3>1. pc'[c] # "judge" BY <2>20, <2>a DEF MissingFile, Goto, End
    <3>. QED BY <3>1, <2>a DEF OwnResult
  <2>21. CASE Copy(c)
    <3>1. pc'[c] # "judge" BY <2>21, <2>a DEF Copy, Goto, End
    <3>. QED BY <3>1, <2>a DEF OwnResult
  <2>22. CASE Unmount(c)
    <3>1. pc'[c] # "judge" BY <2>22, <2>a DEF Unmount, Goto, End
    <3>. QED BY <3>1, <2>a DEF OwnResult
  <2>23. CASE UnmountFailed(c)
    <3>1. pc'[c] # "judge" BY <2>23, <2>a DEF UnmountFailed, Goto, End
    <3>. QED BY <3>1, <2>a DEF OwnResult
  <2>24. CASE ResetFilter(c)
    <3>1. pc'[c] # "judge" BY <2>24, <2>a DEF ResetFilter, Goto, End
    <3>. QED BY <3>1, <2>a DEF OwnResult
  <2>25. CASE ResetCommands(c)
    <3>1. pc'[c] # "judge" BY <2>25, <2>a DEF ResetCommands, Goto, End
    <3>. QED BY <3>1, <2>a DEF OwnResult
  <2>26. CASE ResetResponses(c)
    <3>1. pc'[c] # "judge" BY <2>26, <2>a DEF ResetResponses, Goto, End
    <3>. QED BY <3>1, <2>a DEF OwnResult
  <2>27. CASE Kill(c)
    <3>1. pc'[c] # "judge" BY <2>27, <2>a DEF Kill, Goto, End
    <3>. QED BY <3>1, <2>a DEF OwnResult
  <2>. QED
    BY <1>3, <2>1, <2>2, <2>3, <2>4, <2>5, <2>6, <2>7, <2>8, <2>9, <2>10,
       <2>11, <2>12, <2>13, <2>14, <2>15, <2>16, <2>17, <2>18, <2>19, <2>20,
       <2>21, <2>22, <2>23, <2>24, <2>25, <2>26, <2>27
    DEF Step
<1>. QED BY <1>1, <1>2, <1>3 DEF Next

LEMMA TypePartsNext == TypeOK' => ServerType' /\ ClientType'
BY DEF TypeOK, ServerType, ClientType


\* One component at a time, any number of VMs: every command runs where it was
\* asked for and never before its script is there, and mm_exec_wait returns
\* the result of its own command.
Inv ==
  /\ ServerType /\ ClientType
  /\ PcKind /\ Waits /\ Answers /\ Routed /\ Delivered /\ OwnResult

LEMMA InvInit == Init => Inv
<1> SUFFICES ASSUME Init PROVE Inv OBVIOUS
<1>1. ServerType /\ ClientType BY TypeInit, TypeParts
<1>2. \A c \in Client : pc[c] = "idle" BY DEF Init
<1>3. PcKind /\ Waits /\ OwnResult BY <1>2 DEF PcKind, Waits, OwnResult
<1>4. Answers BY DEF Init, Answers
<1>5. Routed BY <1>2 DEF Init, Routed, RunsWhereAsked
<1>6. Delivered BY <1>2 DEF Init, Delivered, ScriptFirst
<1>. QED BY <1>1, <1>3, <1>4, <1>5, <1>6 DEF Inv

LEMMA InvStep == OneClient /\ TypeOK /\ Inv /\ [Next]_vars => TypeOK' /\ Inv'
<1> SUFFICES ASSUME OneClient, TypeOK, Inv, [Next]_vars PROVE TypeOK' /\ Inv'
  OBVIOUS
<1>1. TypeOK' BY TypeStep
<1>2. ServerType' /\ ClientType' BY <1>1, TypePartsNext
<1>3. PcKind' BY PcKindStep DEF Inv
<1>4. Waits' BY WaitsStep DEF Inv
<1>5. Answers' BY AnswersStep DEF Inv
<1>6. Routed' BY RoutedStep DEF Inv
<1>7. Delivered' BY DeliveredStep DEF Inv
<1>8. OwnResult' BY OwnResultStep DEF Inv
<1>. QED BY <1>1, <1>2, <1>3, <1>4, <1>5, <1>6, <1>7, <1>8 DEF Inv

LEMMA InvAlways ==
  ASSUME OneClient
  PROVE  Spec => [](TypeOK /\ Inv)
<1>1. Init => TypeOK /\ Inv BY TypeInit, InvInit
<1>2. (TypeOK /\ Inv) /\ [Next]_vars => (TypeOK /\ Inv)' BY InvStep
<1>. QED BY <1>1, <1>2, PTL DEF Spec

\* A command for one VM runs in that VM only (cc.py __run, utils.mm_exec_wait).
THEOREM RunsWhereAskedHolds ==
  ASSUME OneClient
  PROVE  Spec => []RunsWhereAsked
<1>1. Inv => RunsWhereAsked BY DEF Inv, Routed
<1>. QED BY <1>1, InvAlways, PTL

\* No VM runs a script that has not arrived (cc.py __send_cmd_as_file).
THEOREM ScriptFirstHolds ==
  ASSUME OneClient
  PROVE  Spec => []ScriptFirst
<1>1. Inv => ScriptFirst BY DEF Inv, Delivered
<1>. QED BY <1>1, InvAlways, PTL

\* mm_exec_wait returns what its own command did in its own VM.
THEOREM OwnResultHolds ==
  ASSUME OneClient
  PROVE  Spec => []OwnResult
<1>1. Inv => OwnResult BY DEF Inv
<1>. QED BY <1>1, InvAlways, PTL

----------------------------------------------------------------------------
(* A failed command stops its stage *)

BeforeExec == {"send filter", "send", "send last", "send wait", "send clear",
               "exec filter", "app filter", "exec"}

\* Jobs are numbered: what is listed, has run or is in progress is not newer
\* than the counter.
Numbered ==
  /\ \A k \in cmds : k.job.script <= jobs
  /\ \A r \in ran : r.job.script <= jobs
  /\ \A c \in Client : job[c].script <= jobs

\* A job issues one command besides its script, and a VM runs it once.
Once ==
  /\ \A k, d \in cmds : ~k.file /\ ~d.file /\ k.job = d.job => k = d
  /\ \A c \in Client : pc[c] \in BeforeExec =>
       /\ \A k \in cmds : k.job = job[c] => k.file
       /\ \A r \in ran : r.job # job[c]
  /\ \A r \in ran, k \in cmds : ~k.file /\ k.job = r.job => <<k.id, r.vm>> \in seen
  /\ \A r, q \in ran : r.job = q.job /\ r.vm = q.vm => r = q

\* An accepted job is one that succeeded in its VM.
Judged == \A c \in Client : \A j \in judged[c] :
  j.kind # "app" /\ \E r \in ran : r.job = j /\ Success(j, r.answer)

LEMMA TakeJob ==
  ASSUME ClientType, NEW c \in Client, Take(c)
  PROVE  job'[c].script = jobs + 1 /\ jobs' = jobs + 1
<1>1. PICK k \in Kinds, v \in VM, f \in AppFilter \cup {{}} :
        LET j == [kind |-> k, vm |-> v, to |-> f, script |-> jobs + 1]
        IN job' = [job EXCEPT ![c] = j]
  BY DEF Take
<1>2. job'[c].script = jobs + 1 BY <1>1 DEF ClientType
<1>. QED BY <1>2 DEF Take

LEMMA NumberedStep ==
  ASSUME OneClient, ServerType, AgentType, ClientType, RestType,
         Numbered, [Next]_vars
  PROVE  Numbered'
<1>1. CASE UNCHANGED vars
  BY <1>1 DEF vars, server, agent, client, Numbered
<1>2. ASSUME NEW v \in VM, Run(v) PROVE Numbered'
  <2>1. PICK k \in cmds, a \in Answer :
          /\ \/ ran' = ran
             \/ ran' = ran \cup {[job |-> k.job, vm |-> v, answer |-> a,
                                  had |-> <<k.job.script, v>> \in file]}
          /\ UNCHANGED <<cmds, client, jobs>>
    BY <1>2 DEF Run
  <2>2. \A r \in ran' : r \in ran \/ r.job = k.job BY <2>1
  <2>. QED BY <2>1, <2>2 DEF Numbered, client
<1>3. ASSUME NEW c \in Client, Step(c) \/ StageStart(c) \/ Kill(c)
      PROVE  Numbered'
  <2>a. /\ \A d \in Client : d = c
        /\ c \in DOMAIN pc /\ c \in DOMAIN job /\ c \in DOMAIN id
        /\ c \in DOMAIN got /\ c \in DOMAIN judged /\ c \in DOMAIN phase
    BY DEF OneClient, ClientType
  <2>b. jobs \in Nat /\ NoJob.script = 0 BY DEF RestType, NoJob
  <2>1. CASE StageStart(c)
    <3>1. /\ job'[c] \in {job[c], NoJob} /\ jobs' = jobs
          /\ cmds' \subseteq cmds /\ ran' = ran
      BY <2>1, <2>a DEF StageStart, Goto, End, Keep, agent, SetFilter, server
    <3>. QED BY <3>1, <2>a, <2>b DEF Numbered
  <2>2. CASE StageEnd(c)
    <3>1. /\ job'[c] \in {job[c], NoJob} /\ jobs' = jobs
          /\ cmds' \subseteq cmds /\ ran' = ran
      BY <2>2, <2>a DEF StageEnd, Goto, End, Keep, agent, SetFilter, server
    <3>. QED BY <3>1, <2>a, <2>b DEF Numbered
  <2>3. CASE Take(c)
    <3>1. job'[c].script = jobs + 1 /\ jobs' = jobs + 1 BY <2>3, TakeJob
    <3>2. UNCHANGED <<cmds, ran>> BY <2>3 DEF Take, server, agent
    <3>3. /\ \A k \in cmds : k.job.script \in Nat
          /\ \A r \in ran : r.job.script \in Nat
      BY DEF ServerType, AgentType, RanType, Command, Job
    <3>. QED BY <3>1, <3>2, <3>3, <2>a, <2>b DEF Numbered
  <2>4. CASE SendFilter(c)
    <3>1. /\ job'[c] \in {job[c], NoJob} /\ jobs' = jobs
          /\ cmds' \subseteq cmds /\ ran' = ran
      BY <2>4, <2>a DEF SendFilter, Goto, End, Keep, agent, SetFilter, server
    <3>. QED BY <3>1, <2>a, <2>b DEF Numbered
  <2>5. CASE Send(c)
    <3> DEFINE new == [id |-> lastId + 1, to |-> filter, file |-> TRUE,
                       job |-> job[c]]
    <3>0. cmds' = cmds \cup {new} /\ new.job = job[c] BY <2>5 DEF Send, Issue
    <3> HIDE DEF new
    <3>1. \A k \in cmds' : k \in cmds \/ k.job = job[c] BY <3>0
    <3>2. job' = job /\ jobs' = jobs /\ ran' = ran
      BY <2>5 DEF Send, Goto, Keep, agent
    <3>. QED BY <3>1, <3>2 DEF Numbered
  <2>6. CASE SendLast(c)
    <3>1. /\ job'[c] \in {job[c], NoJob} /\ jobs' = jobs
          /\ cmds' \subseteq cmds /\ ran' = ran
      BY <2>6, <2>a DEF SendLast, ReadLast, Goto, End, Keep, agent, SetFilter, server
    <3>. QED BY <3>1, <2>a, <2>b DEF Numbered
  <2>7. CASE SendWait(c)
    <3>1. /\ job'[c] \in {job[c], NoJob} /\ jobs' = jobs
          /\ cmds' \subseteq cmds /\ ran' = ran
      BY <2>7, <2>a DEF SendWait, Goto, End, Keep, agent, SetFilter, server
    <3>. QED BY <3>1, <2>a, <2>b DEF Numbered
  <2>8. CASE SendClear(c)
    <3>1. /\ job'[c] \in {job[c], NoJob} /\ jobs' = jobs
          /\ cmds' \subseteq cmds /\ ran' = ran
      BY <2>8, <2>a DEF SendClear, Goto, End, Keep, agent, SetFilter, server
    <3>. QED BY <3>1, <2>a, <2>b DEF Numbered
  <2>9. CASE ExecFilter(c)
    <3>1. /\ job'[c] \in {job[c], NoJob} /\ jobs' = jobs
          /\ cmds' \subseteq cmds /\ ran' = ran
      BY <2>9, <2>a DEF ExecFilter, Goto, End, Keep, agent, SetFilter, server
    <3>. QED BY <3>1, <2>a, <2>b DEF Numbered
  <2>10. CASE Exec(c)
    <3> DEFINE new == [id |-> lastId + 1, to |-> filter, file |-> FALSE,
                       job |-> job[c]]
    <3>0. cmds' = cmds \cup {new} /\ new.job = job[c] BY <2>10 DEF Exec, Issue
    <3> HIDE DEF new
    <3>1. \A k \in cmds' : k \in cmds \/ k.job = job[c] BY <3>0
    <3>2. job' = job /\ jobs' = jobs /\ ran' = ran
      BY <2>10 DEF Exec, Goto, Keep, agent
    <3>. QED BY <3>1, <3>2 DEF Numbered
  <2>11. CASE ExecLast(c)
    <3>1. /\ job'[c] \in {job[c], NoJob} /\ jobs' = jobs
          /\ cmds' \subseteq cmds /\ ran' = ran
      BY <2>11, <2>a DEF ExecLast, ReadLast, Goto, End, Keep, agent, SetFilter, server
    <3>. QED BY <3>1, <2>a, <2>b DEF Numbered
  <2>12. CASE ExecWait(c)
    <3>1. /\ job'[c] \in {job[c], NoJob} /\ jobs' = jobs
          /\ cmds' \subseteq cmds /\ ran' = ran
      BY <2>12, <2>a DEF ExecWait, Goto, End, Keep, agent, SetFilter, server
    <3>. QED BY <3>1, <2>a, <2>b DEF Numbered
  <2>13. CASE ExitCode(c)
    <3>1. /\ job'[c] \in {job[c], NoJob} /\ jobs' = jobs
          /\ cmds' \subseteq cmds /\ ran' = ran
      BY <2>13, <2>a DEF ExitCode, Goto, End, Keep, agent, SetFilter, server
    <3>. QED BY <3>1, <2>a, <2>b DEF Numbered
  <2>14. CASE TimedOut(c)
    <3>1. /\ job'[c] \in {job[c], NoJob} /\ jobs' = jobs
          /\ cmds' \subseteq cmds /\ ran' = ran
      BY <2>14, <2>a DEF TimedOut, Goto, End, Keep, agent, SetFilter, server
    <3>. QED BY <3>1, <2>a, <2>b DEF Numbered
  <2>15. CASE Accept(c)
    <3>1. /\ job'[c] \in {job[c], NoJob} /\ jobs' = jobs
          /\ cmds' \subseteq cmds /\ ran' = ran
      BY <2>15, <2>a DEF Accept, Goto, End, Keep, agent, SetFilter, server
    <3>. QED BY <3>1, <2>a, <2>b DEF Numbered
  <2>16. CASE Refuse(c)
    <3>1. /\ job'[c] \in {job[c], NoJob} /\ jobs' = jobs
          /\ cmds' \subseteq cmds /\ ran' = ran
      BY <2>16, <2>a DEF Refuse, Goto, End, Keep, agent, SetFilter, server
    <3>. QED BY <3>1, <2>a, <2>b DEF Numbered
  <2>17. CASE ClearFilter(c)
    <3>1. /\ job'[c] \in {job[c], NoJob} /\ jobs' = jobs
          /\ cmds' \subseteq cmds /\ ran' = ran
      BY <2>17, <2>a DEF ClearFilter, Goto, End, Keep, agent, SetFilter, server
    <3>. QED BY <3>1, <2>a, <2>b DEF Numbered
  <2>18. CASE SetAppFilter(c)
    <3>1. /\ job'[c] \in {job[c], NoJob} /\ jobs' = jobs
          /\ cmds' \subseteq cmds /\ ran' = ran
      BY <2>18, <2>a DEF SetAppFilter, Goto, End, Keep, agent, SetFilter, server
    <3>. QED BY <3>1, <2>a, <2>b DEF Numbered
  <2>19. CASE Mount(c)
    <3>1. /\ job'[c] \in {job[c], NoJob} /\ jobs' = jobs
          /\ cmds' \subseteq cmds /\ ran' = ran
      BY <2>19, <2>a DEF Mount, Goto, End, Keep, agent, SetFilter, server
    <3>. QED BY <3>1, <2>a, <2>b DEF Numbered
  <2>20. CASE MissingFile(c)
    <3>1. /\ job'[c] \in {job[c], NoJob} /\ jobs' = jobs
          /\ cmds' \subseteq cmds /\ ran' = ran
      BY <2>20, <2>a DEF MissingFile, Goto, End, Keep, agent, SetFilter, server
    <3>. QED BY <3>1, <2>a, <2>b DEF Numbered
  <2>21. CASE Copy(c)
    <3>1. /\ job'[c] \in {job[c], NoJob} /\ jobs' = jobs
          /\ cmds' \subseteq cmds /\ ran' = ran
      BY <2>21, <2>a DEF Copy, Goto, End, Keep, agent, SetFilter, server
    <3>. QED BY <3>1, <2>a, <2>b DEF Numbered
  <2>22. CASE Unmount(c)
    <3>1. /\ job'[c] \in {job[c], NoJob} /\ jobs' = jobs
          /\ cmds' \subseteq cmds /\ ran' = ran
      BY <2>22, <2>a DEF Unmount, Goto, End, Keep, agent, SetFilter, server
    <3>. QED BY <3>1, <2>a, <2>b DEF Numbered
  <2>23. CASE UnmountFailed(c)
    <3>1. /\ job'[c] \in {job[c], NoJob} /\ jobs' = jobs
          /\ cmds' \subseteq cmds /\ ran' = ran
      BY <2>23, <2>a DEF UnmountFailed, Goto, End, Keep, agent, SetFilter, server
    <3>. QED BY <3>1, <2>a, <2>b DEF Numbered
  <2>24. CASE ResetFilter(c)
    <3>1. /\ job'[c] \in {job[c], NoJob} /\ jobs' = jobs
          /\ cmds' \subseteq cmds /\ ran' = ran
      BY <2>24, <2>a DEF ResetFilter, Goto, End, Keep, agent, SetFilter, server
    <3>. QED BY <3>1, <2>a, <2>b DEF Numbered
  <2>25. CASE ResetCommands(c)
    <3>1. /\ job'[c] \in {job[c], NoJob} /\ jobs' = jobs
          /\ cmds' \subseteq cmds /\ ran' = ran
      BY <2>25, <2>a DEF ResetCommands, Goto, End, Keep, agent, SetFilter, server
    <3>. QED BY <3>1, <2>a, <2>b DEF Numbered
  <2>26. CASE ResetResponses(c)
    <3>1. /\ job'[c] \in {job[c], NoJob} /\ jobs' = jobs
          /\ cmds' \subseteq cmds /\ ran' = ran
      BY <2>26, <2>a DEF ResetResponses, Goto, End, Keep, agent, SetFilter, server
    <3>. QED BY <3>1, <2>a, <2>b DEF Numbered
  <2>27. CASE Kill(c)
    <3>1. /\ job'[c] \in {job[c], NoJob} /\ jobs' = jobs
          /\ cmds' \subseteq cmds /\ ran' = ran
      BY <2>27, <2>a DEF Kill, Goto, End, Keep, agent, SetFilter, server
    <3>. QED BY <3>1, <2>a, <2>b DEF Numbered
  <2>. QED
    BY <1>3, <2>1, <2>2, <2>3, <2>4, <2>5, <2>6, <2>7, <2>8, <2>9, <2>10,
       <2>11, <2>12, <2>13, <2>14, <2>15, <2>16, <2>17, <2>18, <2>19, <2>20,
       <2>21, <2>22, <2>23, <2>24, <2>25, <2>26, <2>27
    DEF Step
<1>. QED BY <1>1, <1>2, <1>3 DEF Next

LEMMA OnceStep ==
  ASSUME OneClient, ServerType, AgentType, ClientType, RestType,
         Numbered, Once, [Next]_vars
  PROVE  Once'
<1>1. CASE UNCHANGED vars
  BY <1>1 DEF vars, server, agent, client, Once
<1>2. ASSUME NEW v \in VM, Run(v) PROVE Once'
  <2>1. PICK k \in cmds, a \in Answer :
    /\ <<k.id, v>> \notin seen /\ seen' = seen \cup {<<k.id, v>>}
    /\ IF k.file
       THEN ran' = ran
       ELSE ran' = ran \cup {[job |-> k.job, vm |-> v, answer |-> a,
                              had |-> <<k.job.script, v>> \in file]}
    /\ UNCHANGED <<cmds, client>>
    BY <1>2 DEF Run
  <2>2. CASE k.file BY <2>1, <2>2 DEF Once, client
  <2>3. CASE ~k.file
    <3> DEFINE x == [job |-> k.job, vm |-> v, answer |-> a,
                     had |-> <<k.job.script, v>> \in file]
    <3>1. x.job = k.job /\ x.vm = v OBVIOUS
    <3>2. ran' = ran \cup {x} BY <2>1, <2>3
    <3> HIDE DEF x
    <3>3. \A r \in ran : r.job = k.job => r.vm # v BY <2>1, <2>3 DEF Once
    <3>4. \A r, q \in ran' : r.job = q.job /\ r.vm = q.vm => r = q
      BY <3>1, <3>2, <3>3 DEF Once
    <3>5. \A r \in ran', d \in cmds' :
            ~d.file /\ d.job = r.job => <<d.id, r.vm>> \in seen'
      BY <2>1, <2>3, <3>1, <3>2 DEF Once
    <3>6. \A c \in Client : pc[c] \in BeforeExec => x.job # job[c]
      BY <2>3, <3>1 DEF Once
    <3>7. cmds' = cmds /\ pc' = pc /\ job' = job BY <2>1 DEF client
    <3>. QED BY <3>2, <3>4, <3>5, <3>6, <3>7 DEF Once
  <2>. QED BY <2>2, <2>3
<1>3. ASSUME NEW c \in Client, Step(c) \/ StageStart(c) \/ Kill(c)
      PROVE  Once'
  <2>a. /\ \A d \in Client : d = c
        /\ c \in DOMAIN pc /\ c \in DOMAIN job /\ c \in DOMAIN id
        /\ c \in DOMAIN got /\ c \in DOMAIN judged /\ c \in DOMAIN phase
    BY DEF OneClient, ClientType
  <2>1. CASE StageStart(c)
    <3>1. /\ pc'[c] \notin BeforeExec
          /\ cmds' = cmds /\ ran' = ran /\ seen' = seen
      BY <2>1, <2>a DEF StageStart, Goto, End, Keep, agent, SetFilter, server,
                   BeforeExec
    <3>. QED BY <3>1, <2>a DEF Once
  <2>2. CASE StageEnd(c)
    <3>1. /\ pc'[c] \notin BeforeExec
          /\ cmds' = cmds /\ ran' = ran /\ seen' = seen
      BY <2>2, <2>a DEF StageEnd, Goto, End, Keep, agent, SetFilter, server,
                   BeforeExec
    <3>. QED BY <3>1, <2>a DEF Once
  <2>3. CASE Take(c)
    <3>1. job'[c].script = jobs + 1 BY <2>3, TakeJob
    <3>2. UNCHANGED <<cmds, ran, seen>> BY <2>3 DEF Take, server, agent
    <3>3. /\ \A k \in cmds : k.job.script \in Nat /\ k.job.script <= jobs
          /\ \A r \in ran : r.job.script \in Nat /\ r.job.script <= jobs
      BY DEF ServerType, AgentType, RanType, Command, Job, Numbered
    <3>4. jobs \in Nat BY DEF RestType
    <3>5. /\ \A k \in cmds : k.job # job'[c]
          /\ \A r \in ran : r.job # job'[c]
      BY <3>1, <3>3, <3>4
    <3>. QED BY <3>2, <3>5, <2>a DEF Once
  <2>4. CASE SendFilter(c)
    <3>1. /\ pc'[c] \notin BeforeExec \/ (job' = job /\ pc[c] \in BeforeExec)
          /\ cmds' = cmds /\ ran' = ran /\ seen' = seen
      BY <2>4, <2>a DEF SendFilter, Goto, End, Keep, agent, SetFilter, server,
                   BeforeExec
    <3>. QED BY <3>1, <2>a DEF Once
  <2>5. CASE Send(c)
    <3> DEFINE new == [id |-> lastId + 1, to |-> filter, file |-> TRUE,
                       job |-> job[c]]
    <3>1. cmds' = cmds \cup {new} /\ new.job = job[c] /\ (new.file <=> TRUE)
      BY <2>5 DEF Send, Issue
    <3> HIDE DEF new
    <3>2. job' = job /\ ran' = ran /\ seen' = seen
      BY <2>5 DEF Send, Goto, Keep, agent
    <3>3. pc[c] \in BeforeExec BY <2>5 DEF Send, BeforeExec
    <3>. QED BY <3>1, <3>2, <3>3, <2>a DEF Once
  <2>6. CASE SendLast(c)
    <3>1. /\ pc'[c] \notin BeforeExec \/ (job' = job /\ pc[c] \in BeforeExec)
          /\ cmds' = cmds /\ ran' = ran /\ seen' = seen
      BY <2>6, <2>a DEF SendLast, ReadLast, Goto, End, Keep, agent, SetFilter, server,
                   BeforeExec
    <3>. QED BY <3>1, <2>a DEF Once
  <2>7. CASE SendWait(c)
    <3>1. /\ pc'[c] \notin BeforeExec \/ (job' = job /\ pc[c] \in BeforeExec)
          /\ cmds' = cmds /\ ran' = ran /\ seen' = seen
      BY <2>7, <2>a DEF SendWait, Goto, End, Keep, agent, SetFilter, server,
                   BeforeExec
    <3>. QED BY <3>1, <2>a DEF Once
  <2>8. CASE SendClear(c)
    <3>1. /\ pc'[c] \notin BeforeExec \/ (job' = job /\ pc[c] \in BeforeExec)
          /\ cmds' = cmds /\ ran' = ran /\ seen' = seen
      BY <2>8, <2>a DEF SendClear, Goto, End, Keep, agent, SetFilter, server,
                   BeforeExec
    <3>. QED BY <3>1, <2>a DEF Once
  <2>9. CASE ExecFilter(c)
    <3>1. /\ pc'[c] \notin BeforeExec \/ (job' = job /\ pc[c] \in BeforeExec)
          /\ cmds' = cmds /\ ran' = ran /\ seen' = seen
      BY <2>9, <2>a DEF ExecFilter, Goto, End, Keep, agent, SetFilter, server,
                   BeforeExec
    <3>. QED BY <3>1, <2>a DEF Once
  <2>10. CASE Exec(c)
    <3> DEFINE new == [id |-> lastId + 1, to |-> filter, file |-> FALSE,
                       job |-> job[c]]
    <3>1. cmds' = cmds \cup {new} /\ new.job = job[c] /\ (new.file <=> FALSE)
      BY <2>10 DEF Exec, Issue
    <3> HIDE DEF new
    <3>2. job' = job /\ ran' = ran /\ seen' = seen
      BY <2>10 DEF Exec, Goto, Keep, agent
    <3>3. pc[c] \in BeforeExec BY <2>10 DEF Exec, BeforeExec
    <3>4. pc'[c] \notin BeforeExec BY <2>10, <2>a DEF Exec, Goto, BeforeExec
    <3>. QED BY <3>1, <3>2, <3>3, <3>4, <2>a DEF Once
  <2>11. CASE ExecLast(c)
    <3>1. /\ pc'[c] \notin BeforeExec
          /\ cmds' = cmds /\ ran' = ran /\ seen' = seen
      BY <2>11, <2>a DEF ExecLast, ReadLast, Goto, End, Keep, agent, SetFilter, server,
                   BeforeExec
    <3>. QED BY <3>1, <2>a DEF Once
  <2>12. CASE ExecWait(c)
    <3>1. /\ pc'[c] \notin BeforeExec
          /\ cmds' = cmds /\ ran' = ran /\ seen' = seen
      BY <2>12, <2>a DEF ExecWait, Goto, End, Keep, agent, SetFilter, server,
                   BeforeExec
    <3>. QED BY <3>1, <2>a DEF Once
  <2>13. CASE ExitCode(c)
    <3>1. /\ pc'[c] \notin BeforeExec
          /\ cmds' = cmds /\ ran' = ran /\ seen' = seen
      BY <2>13, <2>a DEF ExitCode, Goto, End, Keep, agent, SetFilter, server,
                   BeforeExec
    <3>. QED BY <3>1, <2>a DEF Once
  <2>14. CASE TimedOut(c)
    <3>1. /\ pc'[c] \notin BeforeExec
          /\ cmds' = cmds /\ ran' = ran /\ seen' = seen
      BY <2>14, <2>a DEF TimedOut, Goto, End, Keep, agent, SetFilter, server,
                   BeforeExec
    <3>. QED BY <3>1, <2>a DEF Once
  <2>15. CASE Accept(c)
    <3>1. /\ pc'[c] \notin BeforeExec
          /\ cmds' = cmds /\ ran' = ran /\ seen' = seen
      BY <2>15, <2>a DEF Accept, Goto, End, Keep, agent, SetFilter, server,
                   BeforeExec
    <3>. QED BY <3>1, <2>a DEF Once
  <2>16. CASE Refuse(c)
    <3>1. /\ pc'[c] \notin BeforeExec
          /\ cmds' = cmds /\ ran' = ran /\ seen' = seen
      BY <2>16, <2>a DEF Refuse, Goto, End, Keep, agent, SetFilter, server,
                   BeforeExec
    <3>. QED BY <3>1, <2>a DEF Once
  <2>17. CASE ClearFilter(c)
    <3>1. /\ pc'[c] \notin BeforeExec
          /\ cmds' = cmds /\ ran' = ran /\ seen' = seen
      BY <2>17, <2>a DEF ClearFilter, Goto, End, Keep, agent, SetFilter, server,
                   BeforeExec
    <3>. QED BY <3>1, <2>a DEF Once
  <2>18. CASE SetAppFilter(c)
    <3>1. /\ pc'[c] \notin BeforeExec \/ (job' = job /\ pc[c] \in BeforeExec)
          /\ cmds' = cmds /\ ran' = ran /\ seen' = seen
      BY <2>18, <2>a DEF SetAppFilter, Goto, End, Keep, agent, SetFilter, server,
                   BeforeExec
    <3>. QED BY <3>1, <2>a DEF Once
  <2>19. CASE Mount(c)
    <3>1. /\ pc'[c] \notin BeforeExec
          /\ cmds' = cmds /\ ran' = ran /\ seen' = seen
      BY <2>19, <2>a DEF Mount, Goto, End, Keep, agent, SetFilter, server,
                   BeforeExec
    <3>. QED BY <3>1, <2>a DEF Once
  <2>20. CASE MissingFile(c)
    <3>1. /\ pc'[c] \notin BeforeExec
          /\ cmds' = cmds /\ ran' = ran /\ seen' = seen
      BY <2>20, <2>a DEF MissingFile, Goto, End, Keep, agent, SetFilter, server,
                   BeforeExec
    <3>. QED BY <3>1, <2>a DEF Once
  <2>21. CASE Copy(c)
    <3>1. /\ pc'[c] \notin BeforeExec
          /\ cmds' = cmds /\ ran' = ran /\ seen' = seen
      BY <2>21, <2>a DEF Copy, Goto, End, Keep, agent, SetFilter, server,
                   BeforeExec
    <3>. QED BY <3>1, <2>a DEF Once
  <2>22. CASE Unmount(c)
    <3>1. /\ pc'[c] \notin BeforeExec
          /\ cmds' = cmds /\ ran' = ran /\ seen' = seen
      BY <2>22, <2>a DEF Unmount, Goto, End, Keep, agent, SetFilter, server,
                   BeforeExec
    <3>. QED BY <3>1, <2>a DEF Once
  <2>23. CASE UnmountFailed(c)
    <3>1. /\ pc'[c] \notin BeforeExec
          /\ cmds' = cmds /\ ran' = ran /\ seen' = seen
      BY <2>23, <2>a DEF UnmountFailed, Goto, End, Keep, agent, SetFilter, server,
                   BeforeExec
    <3>. QED BY <3>1, <2>a DEF Once
  <2>24. CASE ResetFilter(c)
    <3>1. /\ pc'[c] \notin BeforeExec
          /\ cmds' = cmds /\ ran' = ran /\ seen' = seen
      BY <2>24, <2>a DEF ResetFilter, Goto, End, Keep, agent, SetFilter, server,
                   BeforeExec
    <3>. QED BY <3>1, <2>a DEF Once
  <2>25. CASE ResetCommands(c)
    <3>1. pc'[c] \notin BeforeExec /\ cmds' = {} /\ ran' = ran
      BY <2>25, <2>a DEF ResetCommands, Goto, BeforeExec
    <3>. QED BY <3>1, <2>a DEF Once
  <2>26. CASE ResetResponses(c)
    <3>1. /\ pc'[c] \notin BeforeExec
          /\ cmds' = cmds /\ ran' = ran /\ seen' = seen
      BY <2>26, <2>a DEF ResetResponses, Goto, End, Keep, agent, SetFilter, server,
                   BeforeExec
    <3>. QED BY <3>1, <2>a DEF Once
  <2>27. CASE Kill(c)
    <3>1. /\ pc'[c] \notin BeforeExec
          /\ cmds' = cmds /\ ran' = ran /\ seen' = seen
      BY <2>27, <2>a DEF Kill, Goto, End, Keep, agent, SetFilter, server,
                   BeforeExec
    <3>. QED BY <3>1, <2>a DEF Once
  <2>. QED
    BY <1>3, <2>1, <2>2, <2>3, <2>4, <2>5, <2>6, <2>7, <2>8, <2>9, <2>10,
       <2>11, <2>12, <2>13, <2>14, <2>15, <2>16, <2>17, <2>18, <2>19, <2>20,
       <2>21, <2>22, <2>23, <2>24, <2>25, <2>26, <2>27
    DEF Step
<1>. QED BY <1>1, <1>2, <1>3 DEF Next

LEMMA JudgedStep ==
  ASSUME OneClient, ClientType, PcKind, OwnResult, Judged, [Next]_vars
  PROVE  Judged'
<1>1. CASE UNCHANGED vars
  BY <1>1 DEF vars, server, agent, client, Judged
<1>2. ASSUME NEW v \in VM, Run(v) PROVE Judged'
  <2>1. ran \subseteq ran' /\ UNCHANGED client BY <1>2 DEF Run
  <2>. QED BY <2>1 DEF Judged, client
<1>3. ASSUME NEW c \in Client, Step(c) \/ StageStart(c) \/ Kill(c)
      PROVE  Judged'
  <2>a. /\ \A d \in Client : d = c
        /\ c \in DOMAIN pc /\ c \in DOMAIN job /\ c \in DOMAIN id
        /\ c \in DOMAIN got /\ c \in DOMAIN judged /\ c \in DOMAIN phase
    BY DEF OneClient, ClientType
  <2>1. CASE StageStart(c)
    <3>1. judged'[c] \in {judged[c], {}} /\ ran' = ran
      BY <2>1, <2>a DEF StageStart, Goto, End, Keep, agent
    <3>. QED BY <3>1, <2>a DEF Judged
  <2>2. CASE StageEnd(c)
    <3>1. judged'[c] \in {judged[c], {}} /\ ran' = ran
      BY <2>2, <2>a DEF StageEnd, Goto, End, Keep, agent
    <3>. QED BY <3>1, <2>a DEF Judged
  <2>3. CASE Take(c)
    <3>1. judged'[c] \in {judged[c], {}} /\ ran' = ran
      BY <2>3, <2>a DEF Take, Goto, End, Keep, agent
    <3>. QED BY <3>1, <2>a DEF Judged
  <2>4. CASE SendFilter(c)
    <3>1. judged'[c] \in {judged[c], {}} /\ ran' = ran
      BY <2>4, <2>a DEF SendFilter, Goto, End, Keep, agent
    <3>. QED BY <3>1, <2>a DEF Judged
  <2>5. CASE Send(c)
    <3>1. judged'[c] \in {judged[c], {}} /\ ran' = ran
      BY <2>5, <2>a DEF Send, Goto, End, Keep, agent
    <3>. QED BY <3>1, <2>a DEF Judged
  <2>6. CASE SendLast(c)
    <3>1. judged'[c] \in {judged[c], {}} /\ ran' = ran
      BY <2>6, <2>a DEF SendLast, ReadLast, Goto, End, Keep, agent
    <3>. QED BY <3>1, <2>a DEF Judged
  <2>7. CASE SendWait(c)
    <3>1. judged'[c] \in {judged[c], {}} /\ ran' = ran
      BY <2>7, <2>a DEF SendWait, Goto, End, Keep, agent
    <3>. QED BY <3>1, <2>a DEF Judged
  <2>8. CASE SendClear(c)
    <3>1. judged'[c] \in {judged[c], {}} /\ ran' = ran
      BY <2>8, <2>a DEF SendClear, Goto, End, Keep, agent
    <3>. QED BY <3>1, <2>a DEF Judged
  <2>9. CASE ExecFilter(c)
    <3>1. judged'[c] \in {judged[c], {}} /\ ran' = ran
      BY <2>9, <2>a DEF ExecFilter, Goto, End, Keep, agent
    <3>. QED BY <3>1, <2>a DEF Judged
  <2>10. CASE Exec(c)
    <3>1. judged'[c] \in {judged[c], {}} /\ ran' = ran
      BY <2>10, <2>a DEF Exec, Goto, End, Keep, agent
    <3>. QED BY <3>1, <2>a DEF Judged
  <2>11. CASE ExecLast(c)
    <3>1. judged'[c] \in {judged[c], {}} /\ ran' = ran
      BY <2>11, <2>a DEF ExecLast, ReadLast, Goto, End, Keep, agent
    <3>. QED BY <3>1, <2>a DEF Judged
  <2>12. CASE ExecWait(c)
    <3>1. judged'[c] \in {judged[c], {}} /\ ran' = ran
      BY <2>12, <2>a DEF ExecWait, Goto, End, Keep, agent
    <3>. QED BY <3>1, <2>a DEF Judged
  <2>13. CASE ExitCode(c)
    <3>1. judged'[c] \in {judged[c], {}} /\ ran' = ran
      BY <2>13, <2>a DEF ExitCode, Goto, End, Keep, agent
    <3>. QED BY <3>1, <2>a DEF Judged
  <2>14. CASE TimedOut(c)
    <3>1. judged'[c] \in {judged[c], {}} /\ ran' = ran
      BY <2>14, <2>a DEF TimedOut, Goto, End, Keep, agent
    <3>. QED BY <3>1, <2>a DEF Judged
  <2>15. CASE Accept(c)
    <3>1. PICK r \in ran : r.job = job[c] /\ r.answer = got[c]
      BY <2>15 DEF Accept, OwnResult
    <3>2. Success(job[c], r.answer) /\ job[c].kind # "app"
      BY <2>15, <3>1 DEF Accept, PcKind
    <3>3. judged'[c] = judged[c] \cup {job[c]} /\ ran' = ran
      BY <2>15, <2>a DEF Accept, Keep, agent
    <3>. QED BY <3>1, <3>2, <3>3, <2>a DEF Judged
  <2>16. CASE Refuse(c)
    <3>1. judged'[c] \in {judged[c], {}} /\ ran' = ran
      BY <2>16, <2>a DEF Refuse, Goto, End, Keep, agent
    <3>. QED BY <3>1, <2>a DEF Judged
  <2>17. CASE ClearFilter(c)
    <3>1. judged'[c] \in {judged[c], {}} /\ ran' = ran
      BY <2>17, <2>a DEF ClearFilter, Goto, End, Keep, agent
    <3>. QED BY <3>1, <2>a DEF Judged
  <2>18. CASE SetAppFilter(c)
    <3>1. judged'[c] \in {judged[c], {}} /\ ran' = ran
      BY <2>18, <2>a DEF SetAppFilter, Goto, End, Keep, agent
    <3>. QED BY <3>1, <2>a DEF Judged
  <2>19. CASE Mount(c)
    <3>1. judged'[c] \in {judged[c], {}} /\ ran' = ran
      BY <2>19, <2>a DEF Mount, Goto, End, Keep, agent
    <3>. QED BY <3>1, <2>a DEF Judged
  <2>20. CASE MissingFile(c)
    <3>1. judged'[c] \in {judged[c], {}} /\ ran' = ran
      BY <2>20, <2>a DEF MissingFile, Goto, End, Keep, agent
    <3>. QED BY <3>1, <2>a DEF Judged
  <2>21. CASE Copy(c)
    <3>1. judged'[c] \in {judged[c], {}} /\ ran' = ran
      BY <2>21, <2>a DEF Copy, Goto, End, Keep, agent
    <3>. QED BY <3>1, <2>a DEF Judged
  <2>22. CASE Unmount(c)
    <3>1. judged'[c] \in {judged[c], {}} /\ ran' = ran
      BY <2>22, <2>a DEF Unmount, Goto, End, Keep, agent
    <3>. QED BY <3>1, <2>a DEF Judged
  <2>23. CASE UnmountFailed(c)
    <3>1. judged'[c] \in {judged[c], {}} /\ ran' = ran
      BY <2>23, <2>a DEF UnmountFailed, Goto, End, Keep, agent
    <3>. QED BY <3>1, <2>a DEF Judged
  <2>24. CASE ResetFilter(c)
    <3>1. judged'[c] \in {judged[c], {}} /\ ran' = ran
      BY <2>24, <2>a DEF ResetFilter, Goto, End, Keep, agent
    <3>. QED BY <3>1, <2>a DEF Judged
  <2>25. CASE ResetCommands(c)
    <3>1. judged'[c] \in {judged[c], {}} /\ ran' = ran
      BY <2>25, <2>a DEF ResetCommands, Goto, End, Keep, agent
    <3>. QED BY <3>1, <2>a DEF Judged
  <2>26. CASE ResetResponses(c)
    <3>1. judged'[c] \in {judged[c], {}} /\ ran' = ran
      BY <2>26, <2>a DEF ResetResponses, Goto, End, Keep, agent
    <3>. QED BY <3>1, <2>a DEF Judged
  <2>27. CASE Kill(c)
    <3>1. judged'[c] \in {judged[c], {}} /\ ran' = ran
      BY <2>27, <2>a DEF Kill, Goto, End, Keep, agent
    <3>. QED BY <3>1, <2>a DEF Judged
  <2>. QED
    BY <1>3, <2>1, <2>2, <2>3, <2>4, <2>5, <2>6, <2>7, <2>8, <2>9, <2>10,
       <2>11, <2>12, <2>13, <2>14, <2>15, <2>16, <2>17, <2>18, <2>19, <2>20,
       <2>21, <2>22, <2>23, <2>24, <2>25, <2>26, <2>27
    DEF Step
<1>. QED BY <1>1, <1>2, <1>3 DEF Next

FailInv == Numbered /\ Once /\ Judged

LEMMA FailInvStep ==
  OneClient /\ TypeOK /\ Inv /\ FailInv /\ [Next]_vars => FailInv'
BY TypeParts, NumberedStep, OnceStep, JudgedStep DEF Inv, FailInv

\* Nothing is executed in a stage after a waited command has failed: every
\* accepted command succeeded in the VM that ran it (cc.py __run).
THEOREM FailStopsStageHolds ==
  ASSUME OneClient
  PROVE  Spec => []FailStopsStage
<1>1. Init => FailInv
  <2> SUFFICES ASSUME Init PROVE FailInv OBVIOUS
  <2>1. /\ cmds = {} /\ ran = {} /\ jobs = 0
        /\ \A c \in Client : pc[c] = "idle" /\ job[c].script = 0 /\ judged[c] = {}
    BY DEF Init, NoJob
  <2>. QED BY <2>1 DEF FailInv, Numbered, Once, Judged, BeforeExec
<1>2. TypeOK /\ Inv /\ FailInv /\ [Next]_vars => FailInv' BY FailInvStep
<1>3. Inv /\ FailInv => FailStopsStage
  <2> SUFFICES ASSUME Inv, FailInv, NEW c \in Client, NEW j \in judged[c],
                      NEW r \in ran, r.job = j
               PROVE  Success(j, r.answer)
    BY DEF FailStopsStage
  <2>1. PICK q \in ran : q.job = j /\ Success(j, q.answer) BY DEF FailInv, Judged
  <2>2. j.kind # "app" BY DEF FailInv, Judged
  <2>3. q.vm = r.vm BY <2>1, <2>2 DEF Inv, Routed, RunsWhereAsked
  <2>4. q = r BY <2>1, <2>3 DEF FailInv, Once
  <2>. QED BY <2>1, <2>4
<1>. QED BY <1>1, <1>2, <1>3, InvAlways, PTL DEF Spec

----------------------------------------------------------------------------
(* Mounts: any number of components at the same time *)

Copying == {"copy", "unmount", "unmount failed"}
UnmountedAlt == \A v \in mounted :
  v \in killed \/ \E d \in Client : pc[d] \in Copying /\ job[d].vm = v

LEMMA UnmountedSame == Unmounted <=> UnmountedAlt
BY DEF Unmounted, UnmountedAlt, Copying

LEMMA KeepsUnmounted ==
  ASSUME UnmountedAlt, NEW c \in Client, pc[c] \notin Copying,
         \A d \in Client \ {c} : pc'[d] = pc[d] /\ job'[d] = job[d],
         UNCHANGED <<mounted, killed>>
  PROVE  UnmountedAlt'
BY DEF UnmountedAlt

LEMMA OthersKept ==
  ASSUME pc \in [Client -> Labels], job \in [Client -> Job],
         NEW c \in Client, Step(c) \/ StageStart(c) \/ Kill(c)
  PROVE  \A d \in Client \ {c} : pc'[d] = pc[d] /\ job'[d] = job[d]
<1>1. CASE StageStart(c) BY <1>1 DEF StageStart, Goto, End
<1>2. CASE StageEnd(c) BY <1>2 DEF StageEnd, Goto, End
<1>3. CASE Take(c) BY <1>3 DEF Take, Goto, End
<1>4. CASE SendFilter(c) BY <1>4 DEF SendFilter, Goto, End
<1>5. CASE Send(c) BY <1>5 DEF Send, Goto, End
<1>6. CASE SendLast(c) BY <1>6 DEF SendLast, ReadLast, Goto, End
<1>7. CASE SendWait(c) BY <1>7 DEF SendWait, Goto, End
<1>8. CASE SendClear(c) BY <1>8 DEF SendClear, Goto, End
<1>9. CASE ExecFilter(c) BY <1>9 DEF ExecFilter, Goto, End
<1>10. CASE Exec(c) BY <1>10 DEF Exec, Goto, End
<1>11. CASE ExecLast(c) BY <1>11 DEF ExecLast, ReadLast, Goto, End
<1>12. CASE ExecWait(c) BY <1>12 DEF ExecWait, Goto, End
<1>13. CASE ExitCode(c) BY <1>13 DEF ExitCode, Goto, End
<1>14. CASE TimedOut(c) BY <1>14 DEF TimedOut, Goto, End
<1>15. CASE Accept(c) BY <1>15 DEF Accept, Goto, End
<1>16. CASE Refuse(c) BY <1>16 DEF Refuse, Goto, End
<1>17. CASE ClearFilter(c) BY <1>17 DEF ClearFilter, Goto, End
<1>18. CASE SetAppFilter(c) BY <1>18 DEF SetAppFilter, Goto, End
<1>19. CASE Mount(c) BY <1>19 DEF Mount, Goto, End
<1>20. CASE MissingFile(c) BY <1>20 DEF MissingFile, Goto, End
<1>21. CASE Copy(c) BY <1>21 DEF Copy, Goto, End
<1>22. CASE Unmount(c) BY <1>22 DEF Unmount, Goto, End
<1>23. CASE UnmountFailed(c) BY <1>23 DEF UnmountFailed, Goto, End
<1>24. CASE ResetFilter(c) BY <1>24 DEF ResetFilter, Goto, End
<1>25. CASE ResetCommands(c) BY <1>25 DEF ResetCommands, Goto, End
<1>26. CASE ResetResponses(c) BY <1>26 DEF ResetResponses, Goto, End
<1>27. CASE Kill(c) BY <1>27 DEF Kill, Goto, End
<1>. QED
  BY <1>1, <1>2, <1>3, <1>4, <1>5, <1>6, <1>7, <1>8, <1>9, <1>10, <1>11,
     <1>12, <1>13, <1>14, <1>15, <1>16, <1>17, <1>18, <1>19, <1>20, <1>21,
     <1>22, <1>23, <1>24, <1>25, <1>26, <1>27
  DEF Step

LEMMA UnmountedStep ==
  ASSUME ClientType, UnmountedAlt, [Next]_vars
  PROVE  UnmountedAlt'
<1>1. CASE UNCHANGED vars
  BY <1>1 DEF vars, server, agent, client, UnmountedAlt
<1>2. ASSUME NEW v \in VM, Run(v) PROVE UnmountedAlt'
  <2>1. UNCHANGED <<client, mounted, killed>> BY <1>2 DEF Run
  <2>. QED BY <2>1 DEF UnmountedAlt, client
<1>3. ASSUME NEW c \in Client, Step(c) \/ StageStart(c) \/ Kill(c)
      PROVE  UnmountedAlt'
  <2>a. /\ pc \in [Client -> Labels] /\ job \in [Client -> Job] BY DEF ClientType
  <2>b. \A d \in Client \ {c} : pc'[d] = pc[d] /\ job'[d] = job[d]
    BY <1>3, <2>a, OthersKept
  <2>1. CASE StageStart(c)
    <3>1. pc[c] \notin Copying /\ UNCHANGED <<mounted, killed>>
      BY <2>1 DEF StageStart, Keep, Copying
    <3>. QED BY <3>1, <2>b, KeepsUnmounted
  <2>2. CASE StageEnd(c)
    <3>1. pc[c] \notin Copying /\ UNCHANGED <<mounted, killed>>
      BY <2>2 DEF StageEnd, Keep, Copying
    <3>. QED BY <3>1, <2>b, KeepsUnmounted
  <2>3. CASE Take(c)
    <3>1. pc[c] \notin Copying /\ UNCHANGED <<mounted, killed>>
      BY <2>3 DEF Take, Keep, Copying
    <3>. QED BY <3>1, <2>b, KeepsUnmounted
  <2>4. CASE SendFilter(c)
    <3>1. pc[c] \notin Copying /\ UNCHANGED <<mounted, killed>>
      BY <2>4 DEF SendFilter, Keep, Copying
    <3>. QED BY <3>1, <2>b, KeepsUnmounted
  <2>5. CASE Send(c)
    <3>1. pc[c] \notin Copying /\ UNCHANGED <<mounted, killed>>
      BY <2>5 DEF Send, Keep, Copying
    <3>. QED BY <3>1, <2>b, KeepsUnmounted
  <2>6. CASE SendLast(c)
    <3>1. pc[c] \notin Copying /\ UNCHANGED <<mounted, killed>>
      BY <2>6 DEF SendLast, ReadLast, Keep, Copying
    <3>. QED BY <3>1, <2>b, KeepsUnmounted
  <2>7. CASE SendWait(c)
    <3>1. pc[c] \notin Copying /\ UNCHANGED <<mounted, killed>>
      BY <2>7 DEF SendWait, Keep, Copying
    <3>. QED BY <3>1, <2>b, KeepsUnmounted
  <2>8. CASE SendClear(c)
    <3>1. pc[c] \notin Copying /\ UNCHANGED <<mounted, killed>>
      BY <2>8 DEF SendClear, Keep, Copying
    <3>. QED BY <3>1, <2>b, KeepsUnmounted
  <2>9. CASE ExecFilter(c)
    <3>1. pc[c] \notin Copying /\ UNCHANGED <<mounted, killed>>
      BY <2>9 DEF ExecFilter, Keep, Copying
    <3>. QED BY <3>1, <2>b, KeepsUnmounted
  <2>10. CASE Exec(c)
    <3>1. pc[c] \notin Copying /\ UNCHANGED <<mounted, killed>>
      BY <2>10 DEF Exec, Keep, Copying
    <3>. QED BY <3>1, <2>b, KeepsUnmounted
  <2>11. CASE ExecLast(c)
    <3>1. pc[c] \notin Copying /\ UNCHANGED <<mounted, killed>>
      BY <2>11 DEF ExecLast, ReadLast, Keep, Copying
    <3>. QED BY <3>1, <2>b, KeepsUnmounted
  <2>12. CASE ExecWait(c)
    <3>1. pc[c] \notin Copying /\ UNCHANGED <<mounted, killed>>
      BY <2>12 DEF ExecWait, Keep, Copying
    <3>. QED BY <3>1, <2>b, KeepsUnmounted
  <2>13. CASE ExitCode(c)
    <3>1. pc[c] \notin Copying /\ UNCHANGED <<mounted, killed>>
      BY <2>13 DEF ExitCode, Keep, Copying
    <3>. QED BY <3>1, <2>b, KeepsUnmounted
  <2>14. CASE TimedOut(c)
    <3>1. pc[c] \notin Copying /\ UNCHANGED <<mounted, killed>>
      BY <2>14 DEF TimedOut, Keep, Copying
    <3>. QED BY <3>1, <2>b, KeepsUnmounted
  <2>15. CASE Accept(c)
    <3>1. pc[c] \notin Copying /\ UNCHANGED <<mounted, killed>>
      BY <2>15 DEF Accept, Keep, Copying
    <3>. QED BY <3>1, <2>b, KeepsUnmounted
  <2>16. CASE Refuse(c)
    <3>1. pc[c] \notin Copying /\ UNCHANGED <<mounted, killed>>
      BY <2>16 DEF Refuse, Keep, Copying
    <3>. QED BY <3>1, <2>b, KeepsUnmounted
  <2>17. CASE ClearFilter(c)
    <3>1. pc[c] \notin Copying /\ UNCHANGED <<mounted, killed>>
      BY <2>17 DEF ClearFilter, Keep, Copying
    <3>. QED BY <3>1, <2>b, KeepsUnmounted
  <2>18. CASE SetAppFilter(c)
    <3>1. pc[c] \notin Copying /\ UNCHANGED <<mounted, killed>>
      BY <2>18 DEF SetAppFilter, Keep, Copying
    <3>. QED BY <3>1, <2>b, KeepsUnmounted
  <2>19. CASE Mount(c)
    <3>1. CASE mounted' = mounted \cup {job[c].vm} /\ Goto(c, "copy")
      <4>1. pc'[c] = "copy" /\ job' = job BY <3>1, <2>a DEF Goto
      <4>2. killed' = killed /\ pc[c] \notin Copying BY <2>19 DEF Mount, Copying
      <4>. QED BY <3>1, <4>1, <4>2, <2>b DEF UnmountedAlt, Copying
    <3>2. CASE UNCHANGED mounted
      <4>1. killed' = killed /\ pc[c] \notin Copying BY <2>19 DEF Mount, Copying
      <4>. QED BY <3>2, <4>1, <2>b, KeepsUnmounted
    <3>. QED BY <2>19, <3>1, <3>2 DEF Mount
  <2>20. CASE MissingFile(c)
    <3>1. pc[c] \notin Copying /\ UNCHANGED <<mounted, killed>>
      BY <2>20 DEF MissingFile, Keep, Copying
    <3>. QED BY <3>1, <2>b, KeepsUnmounted
  <2>21. CASE Copy(c)
    <3>1. job' = job /\ pc'[c] \in Copying /\ UNCHANGED <<mounted, killed>>
      BY <2>21, <2>a DEF Copy, Goto, Keep, Copying
    <3>. QED BY <3>1, <2>b DEF UnmountedAlt
  <2>22. CASE Unmount(c)
    <3>1. mounted' = mounted \ {job[c].vm} /\ killed' = killed
      BY <2>22 DEF Unmount
    <3>. QED BY <3>1, <2>b DEF UnmountedAlt
  <2>23. CASE UnmountFailed(c)
    <3>1. mounted' = mounted \ {job[c].vm} /\ killed' = killed
      BY <2>23 DEF UnmountFailed
    <3>. QED BY <3>1, <2>b DEF UnmountedAlt
  <2>24. CASE ResetFilter(c)
    <3>1. pc[c] \notin Copying /\ UNCHANGED <<mounted, killed>>
      BY <2>24 DEF ResetFilter, Keep, Copying
    <3>. QED BY <3>1, <2>b, KeepsUnmounted
  <2>25. CASE ResetCommands(c)
    <3>1. pc[c] \notin Copying /\ UNCHANGED <<mounted, killed>>
      BY <2>25 DEF ResetCommands, Keep, Copying
    <3>. QED BY <3>1, <2>b, KeepsUnmounted
  <2>26. CASE ResetResponses(c)
    <3>1. pc[c] \notin Copying /\ UNCHANGED <<mounted, killed>>
      BY <2>26 DEF ResetResponses, Keep, Copying
    <3>. QED BY <3>1, <2>b, KeepsUnmounted
  <2>27. CASE Kill(c)
    <3>1. CASE pc[c] \in Copying
      <4>1. mounted' = mounted /\ killed' = killed \cup {job[c].vm}
        BY <2>27, <3>1 DEF Kill, Copying
      <4>. QED BY <4>1, <2>b DEF UnmountedAlt
    <3>2. CASE pc[c] \notin Copying
      <4>1. UNCHANGED <<mounted, killed>> BY <2>27, <3>2 DEF Kill, Copying
      <4>. QED BY <3>2, <4>1, <2>b, KeepsUnmounted
    <3>. QED BY <3>1, <3>2
  <2>. QED
    BY <1>3, <2>1, <2>2, <2>3, <2>4, <2>5, <2>6, <2>7, <2>8, <2>9, <2>10,
       <2>11, <2>12, <2>13, <2>14, <2>15, <2>16, <2>17, <2>18, <2>19, <2>20,
       <2>21, <2>22, <2>23, <2>24, <2>25, <2>26, <2>27
    DEF Step
<1>. QED BY <1>1, <1>2, <1>3 DEF Next

\* No VM stays mounted unless the process that mounted it was killed, however
\* the copy ends (utils.mm_send, utils.mm_recv).
THEOREM UnmountedHolds == Spec => []Unmounted
<1>1. Init => UnmountedAlt BY DEF Init, UnmountedAlt
<1>2. TypeOK /\ UnmountedAlt /\ [Next]_vars => UnmountedAlt'
  BY TypeParts, UnmountedStep
<1>. QED BY <1>1, <1>2, TypeCorrect, UnmountedSame, PTL DEF Spec
=============================================================================
