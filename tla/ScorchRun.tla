------------------------------ MODULE ScorchRun ------------------------------
(***************************************************************************)
(* Runs of a scorch experiment: the stages of the components of a run, one *)
(* after the other, each a process that makes the requests of its program  *)
(* (ScorchPrograms, ScorchCapture), with the agents of the VMs and the     *)
(* processes they start going on at the same time.                         *)
(*                                                                         *)
(* What the requests do is read from common/utils.py and scorch/app.py.    *)
(* phenix, minimega and the agents are not in this repository: the four    *)
(* stages go over the components in their order; a component that exits    *)
(* with status 1 makes phenix go to the cleanup stage; an exception does   *)
(* not, because execute_stage catches it.  An agent executes its commands  *)
(* in the order in which they were issued (snort.py counts on it), waiting *)
(* for those that do not run in the background.                            *)
(*                                                                         *)
(* Faults: a command fails in the VM; a request, a program of the host or  *)
(* a check fails; an agent is late, so that a wait times out or a sleep is *)
(* too short.  Killing, deleting and setting interfaces do not fail.       *)
(***************************************************************************)
EXTENDS ScorchRequest, FiniteSets

CONSTANTS
  Scenario,  \* the scenarios: names for what one experiment is configured to do
  Kind,      \* Kind[s]: the types of the components of s, in their order
  Program,   \* Program[s][r][g][i]: requests of component i in stage g of run r
  Duration,  \* Duration[s]: run_duration of the disruption, in ticks
  MaxRun,    \* bound: runs (iterations) of the experiment
  MaxFault   \* bound: faults of the experiment

\* configure, start, stop, cleanup
Stage == 1..4

ASSUME RunAssumption ==
  /\ \A s \in Scenario : Kind[s] \in Seq(STRING) /\ Kind[s] # <<>>
  /\ \A s \in Scenario : \A q \in 1..MaxRun : \A g \in Stage :
       \A i \in DOMAIN Kind[s] : Program[s][q][g][i] \in Seq(Request)
  \* a repeated block begins in the program
  /\ \A s \in Scenario : \A q \in 1..MaxRun : \A g \in Stage :
       \A i \in DOMAIN Kind[s] : \A k \in DOMAIN Program[s][q][g][i] :
         Program[s][q][g][i][k].op = "again" => Program[s][q][g][i][k].skip < k
  /\ \A s \in Scenario : Duration[s] \in Nat
  /\ MaxRun \in Nat /\ MaxFault \in Nat

VARIABLES
  scen,       \* the scenario
  run, stage, who,  \* the component whose turn it is
  pc,         \* its next request; 0 before the stage is launched
  clock,      \* since the disruption began; when it stopped; the attack's delay
              \* and its end
  filter,     \* VMs the filter of the experiment selects
  tags,       \* <<vm, tag>>
  queue,      \* commands the agent of a VM has not executed
  answer,     \* of the last command a VM has executed
  proc,       \* processes in VMs
  file,       \* files in VMs, each with the runs whose data it holds
  down,       \* <<vm, interface, component>> disabled
  net,        \* <<what, where, component>>: captures, limits, halted VMs, ...
  saved,      \* files in the directories of the components
  done,       \* <<run, component, stage>> that came to its end
  faults,     \* faults so far
  late,       \* runs in which an agent was late
  collateral  \* <<kind, kind>>: the first removed what the second had set up

at == <<run, stage, who, pc>>
agents == <<queue, answer, proc, file, down>>
lab == <<filter, tags, net>>
history == <<saved, done, faults, late, collateral>>
vars == <<scen, at, clock, agents, lab, history>>

Member == DOMAIN Kind[scen]
Cmd == [rq : Request, by : Member, run : Nat]
Proc == [vm : VM, name : STRING, by : Member, fg : BOOLEAN, ends : BOOLEAN,
         files : SUBSET STRING]
File == [vm : VM, name : STRING, data : SUBSET Nat]
Saved == [by : Member, run : Nat, name : STRING, data : SUBSET Nat, torn : BOOLEAN]
NoTime == [on |-> FALSE, now |-> 0, stop |-> 0, delay |-> 0, attack |-> 0]

Init ==
  /\ scen \in Scenario
  /\ run = 1 /\ stage = 1 /\ who = 1 /\ pc = 0
  /\ clock = NoTime
  /\ filter = VM /\ tags = {} /\ net = {}
  /\ queue = [v \in VM |-> <<>>]
  /\ answer = [v \in VM |-> "ok"]
  /\ proc = {} /\ file = {} /\ down = {}
  /\ saved = {} /\ done = {} /\ faults = 0 /\ late = {} /\ collateral = {}
----------------------------------------------------------------------------
(* From request to request, and from component to component *)

Prog == Program[scen][run][stage][who]
Running == run <= MaxRun /\ pc \in 1..Len(Prog)
r == Prog[pc]
Is(op) == Running /\ r.op = op

Step(n) == pc' = pc + n /\ UNCHANGED <<run, stage, who>>
Continue == Step(1)

\* The stage is over, and phenix starts the next one.
Leave ==
  /\ pc' = 0
  /\ IF who < Len(Kind[scen])
     THEN who' = who + 1 /\ UNCHANGED <<run, stage>>
     ELSE /\ who' = 1
          /\ stage' = IF stage = 4 THEN 1 ELSE stage + 1
          /\ run' = IF stage = 4 THEN run + 1 ELSE run

\* The component exits with status 1, and the run goes to its cleanup.
Exit ==
  IF stage = 4 THEN Leave
  ELSE pc' = 0 /\ stage' = 4 /\ who' = 1 /\ UNCHANGED run

\* An exception: caught where the code catches it, or by execute_stage.
Raise == IF r.caught THEN Step(1 + r.skip) ELSE Leave

Fails == \/ r.fail = "raise" /\ Raise
         \/ r.fail = "exit" /\ Exit
         \/ r.fail = "ignore" /\ Continue

Fault == faults < MaxFault /\ faults' = faults + 1
NoFault == UNCHANGED faults
Late == Fault /\ late' = late \cup {run}
InTime == UNCHANGED <<faults, late>>

Tick(d) == clock' = IF clock.on THEN [clock EXCEPT !.now = @ + d] ELSE clock

Launch ==
  /\ run <= MaxRun /\ pc = 0
  /\ Continue
  /\ clock' = [clock EXCEPT !.on = FALSE]
  /\ UNCHANGED <<scen, agents, lab, history>>

Finish ==
  /\ run <= MaxRun /\ pc > Len(Prog)
  /\ Leave
  /\ done' = done \cup {<<run, who, stage>>}
  /\ UNCHANGED <<scen, clock, agents, lab, saved, faults, late, collateral>>
----------------------------------------------------------------------------
(* Commands: what is asked of minimega *)

SetFilter ==
  /\ Is("filter")
  /\ filter' = IF r.names = {} THEN r.vms
               ELSE {v \in r.vms : \E t \in r.names : <<v, t>> \in tags}
  /\ Continue
  /\ UNCHANGED <<scen, clock, agents, tags, net, history>>

SetTag ==
  /\ Is("tag") \/ Is("untag")
  /\ tags' = IF r.op = "tag" THEN tags \cup (r.vms \X r.names)
                             ELSE tags \ (r.vms \X r.names)
  /\ Continue
  /\ UNCHANGED <<scen, clock, agents, filter, net, history>>

Issue ==
  /\ Is("exec")
  /\ queue' = [v \in VM |->
                 IF v \in filter
                 THEN Append(queue[v], [rq |-> r, by |-> who, run |-> run])
                 ELSE queue[v]]
  /\ Continue
  /\ UNCHANGED <<scen, clock, answer, proc, file, down, lab, history>>

\* Commands that no agent has executed are gone.
Forget ==
  /\ Is("forget")
  /\ queue' = [v \in VM |-> <<>>]
  /\ Continue
  /\ UNCHANGED <<scen, clock, answer, proc, file, down, lab, history>>

Idle(v) == queue[v] = <<>> /\ \A p \in proc : p.vm = v => ~p.fg
Halted(v) == \E n \in net : n[1] = "halted" /\ n[2] = v
Bad == \E v \in r.vms \cap VM : answer[v] = "bad"

\* Mutant of AwaitAnswer: an answer to an earlier command will do.
AwaitAnyAnswer ==
  /\ Is("await") \/ (Is("prefix") /\ filter = r.vms)
  /\ r.n = 0 \/ r.time <= r.n
  /\ IF Bad THEN Fails ELSE Continue
  /\ Tick(r.time)
  /\ UNCHANGED <<scen, agents, lab, history>>

AwaitAnswer ==
  /\ Is("await") \/ (Is("prefix") /\ filter = r.vms)
  /\ r.n = 0 \/ r.time <= r.n
  /\ \A v \in r.vms \cap VM : Idle(v)
  /\ IF Bad THEN Fails ELSE Continue
  /\ Tick(r.time)
  /\ UNCHANGED <<scen, agents, lab, history>>

\* mm_get_cc_responses takes one answer for two and loses the last.
OverlookAnswer ==
  /\ Is("prefix") /\ filter = r.vms
  /\ \A v \in r.vms \cap VM : Idle(v)
  /\ Bad /\ Continue
  /\ UNCHANGED <<scen, clock, agents, lab, history>>

\* Longer than the wait, or an answer that is late.
TimeOut ==
  /\ Is("await") \/ Is("prefix")
  /\ r.n > 0
  /\ \/ /\ r.time > r.n \/ (r.op = "prefix" /\ filter # r.vms)
        /\ InTime
     \/ /\ \E v \in r.vms \cap VM : ~Idle(v)
        /\ Late
  /\ Raise
  /\ Tick(r.n)
  /\ UNCHANGED <<scen, agents, lab, saved, done, collateral>>

\* Mutant of SleepTime: what remains is cut to whole seconds.
SleepTimeWhole ==
  IF r.op = "sleep" THEN r.n
  ELSE IF r.n > clock.now + 1 THEN ((r.n - clock.now) \div 10) * 10 ELSE 0

\* What remains of a duration is slept for if it is more than a tick.
SleepTime ==
  IF r.op = "sleep" THEN r.n
  ELSE IF r.n > clock.now + 1 THEN r.n - clock.now ELSE 0

\* A sleep is long enough for the agents to do what they were told, except
\* for those that are late.
Sleeping ==
  /\ Is("sleep") \/ Is("rest")
  /\ IF SleepTime = 0 \/ \A v \in VM : Idle(v) \/ Halted(v) THEN InTime ELSE Late
  /\ Continue
  /\ Tick(SleepTime)
  /\ UNCHANGED <<scen, agents, lab, saved, done, collateral>>
----------------------------------------------------------------------------
(* Decisions and time *)

RunsProc == \E p \in proc : p.vm \in r.vms /\ p.name \in r.names

Branch ==
  /\ Is("if") \/ Is("unless")
  /\ IF RunsProc = (r.op = "if") THEN Continue ELSE Step(1 + r.skip)
  /\ UNCHANGED <<scen, clock, agents, lab, history>>

\* What is seldom, happens: the block for it is entered.
Happen ==
  /\ Is("mishap")
  /\ \/ Step(1 + r.skip) /\ NoFault
     \/ Continue /\ Fault
  /\ UNCHANGED <<scen, clock, agents, lab, saved, done, late, collateral>>

Repeat ==
  /\ Is("again")
  /\ Continue \/ Step(0 - r.skip)
  /\ UNCHANGED <<scen, clock, agents, lab, history>>

\* A program of the host, or an answer from outside, is as it should be or not.
Attempted ==
  /\ Is("try")
  /\ \/ Continue /\ NoFault
     \/ Fails /\ Fault
  /\ UNCHANGED <<scen, clock, agents, lab, saved, done, late, collateral>>

GiveUp ==
  /\ \/ Is("stop")
     \/ Is("running") /\ \E v \in r.vms : Halted(v)
     \/ Is("timed") /\ clock.stop < r.n
  /\ Fails
  /\ UNCHANGED <<scen, clock, agents, lab, history>>

Pass ==
  /\ \/ Is("running") /\ \A v \in r.vms : ~Halted(v)
     \/ Is("timed") /\ clock.stop >= r.n
  /\ Continue
  /\ UNCHANGED <<scen, clock, agents, lab, history>>

\* Mutant of Noted: the delay of an attack is counted twice.
NotedTwice ==
  IF "start" \in r.names THEN [NoTime EXCEPT !.on = TRUE]
  ELSE IF "stop" \in r.names THEN [clock EXCEPT !.stop = clock.now]
  ELSE [clock EXCEPT !.delay = r.n, !.attack = clock.now + r.n + r.time]

Noted ==
  IF "start" \in r.names THEN [NoTime EXCEPT !.on = TRUE]
  ELSE IF "stop" \in r.names THEN [clock EXCEPT !.stop = clock.now]
  ELSE [clock EXCEPT !.delay = r.n, !.attack = clock.now + r.time]

Note ==
  /\ Is("stamp")
  /\ clock' = Noted
  /\ Continue
  /\ UNCHANGED <<scen, agents, lab, history>>
----------------------------------------------------------------------------
(* Files and what minimega manages *)

Torn(v, f) == \E p \in proc : p.vm = v /\ f \in p.files
Save(f, data, torn) ==
  saved' = saved \cup {[by |-> who, run |-> run, name |-> f, data |-> data,
                        torn |-> torn]}

Fetch ==
  /\ Is("recv")
  /\ \E f \in file : /\ f.vm \in r.vms /\ f.name \in r.files
                     /\ Save(f.name, f.data, Torn(f.vm, f.name))
  /\ Continue
  /\ UNCHANGED <<scen, clock, agents, lab, done, faults, late, collateral>>

Missing ==
  /\ Is("recv")
  /\ ~ \E f \in file : f.vm \in r.vms /\ f.name \in r.files
  /\ IF \A v \in r.vms : Idle(v) THEN InTime ELSE Late
  /\ Fails
  /\ UNCHANGED <<scen, clock, agents, lab, saved, done, collateral>>

WriteFile ==
  /\ Is("write")
  /\ \E f \in r.files : Save(f, {run}, FALSE)
  /\ Continue
  /\ UNCHANGED <<scen, clock, agents, lab, done, faults, late, collateral>>

\* Mutant of There: a file of another run will do.
ThereOnce == \E x \in saved : x.name \in r.files /\ Kind[scen][x.by] \in r.names

\* A component of the kind has saved the file in this run.
There ==
  \E x \in saved : x.run = run /\ x.name \in r.files /\ Kind[scen][x.by] \in r.names

GatherFile ==
  /\ Is("gather")
  /\ IF There THEN Continue ELSE Fails
  /\ UNCHANGED <<scen, clock, agents, lab, history>>

SwitchOn ==
  /\ Is("on")
  /\ \/ /\ Continue /\ NoFault
        /\ net' = net \cup (r.names \X r.vms \X {who})
     \/ Fails /\ Fault /\ UNCHANGED net
  /\ UNCHANGED <<scen, clock, agents, filter, tags, saved, done, late, collateral>>

\* Of every component that has set it up.
SwitchOff ==
  LET gone == {n \in net : n[1] \in r.names /\ n[2] \in r.vms}
  IN  /\ Is("off")
      /\ \/ /\ Continue /\ NoFault
            /\ net' = net \ gone
            /\ collateral' = collateral \cup
                 {<<Kind[scen][who], Kind[scen][n[3]]>> : n \in {m \in gone : m[3] # who}}
         \/ Fails /\ Fault /\ UNCHANGED <<net, collateral>>
      /\ UNCHANGED <<scen, clock, agents, filter, tags, saved, done, late>>
----------------------------------------------------------------------------
(* The VMs *)

Starts(q) == q.rq.act \in {"run", "start", "append"}
\* Mutant of Killed: pkill is used in every VM, and there is none in Windows.
KilledLinux(v, q) ==
  {p \in proc : q.rq.act = "kill" /\ p.vm = v /\ v \in Linux /\ p.name \in q.rq.names}
\* Mutant of Killed: the pattern matches every process.
KilledAll(v, q) == {p \in proc : q.rq.act = "kill" /\ p.vm = v}

Killed(v, q) == {p \in proc : q.rq.act = "kill" /\ p.vm = v /\ p.name \in q.rq.names}
Begun(v, q) ==
  {[vm |-> v, name |-> n, by |-> q.by, fg |-> q.rq.act = "run",
    ends |-> q.rq.ends, files |-> q.rq.files] :
     n \in {m \in q.rq.names : Starts(q)}}

\* A file that is started anew holds the data of this run alone.
Data(v, f, q) ==
  {q.run} \cup UNION {x.data : x \in {y \in file :
                        q.rq.act = "append" /\ y.vm = v /\ y.name = f}}
Written(v, q) ==
  {[vm |-> v, name |-> f, data |-> Data(v, f, q)] :
     f \in {g \in q.rq.files : Starts(q)}}
\* Mutant of Replaced: the name given to delete is not that of the file.
ReplacedAnew(v, q) == {f \in file : f.vm = v /\ f.name \in q.rq.files /\ Starts(q)}

Replaced(v, q) ==
  {f \in file : f.vm = v /\ f.name \in q.rq.files
                  /\ (Starts(q) \/ q.rq.act = "remove")}

\* The agent of v executes its oldest command.
Execute(v) ==
  LET q == queue[v][1]
      links == {v} \X q.rq.names \X {q.by}
  IN  /\ queue[v] # <<>> /\ ~Halted(v)
      /\ \A p \in proc : p.vm = v => ~p.fg
      /\ queue' = [queue EXCEPT ![v] = Tail(@)]
      /\ \/ /\ answer' = [answer EXCEPT ![v] = "ok"]
            /\ proc' = (proc \ Killed(v, q)) \cup Begun(v, q)
            /\ file' = (file \ Replaced(v, q)) \cup Written(v, q)
            /\ down' = IF q.rq.act = "down" THEN down \cup links
                       ELSE {d \in down : q.rq.act = "up" =>
                               d[1] # v \/ d[2] \notin q.rq.names}
            /\ collateral' = collateral \cup
                 {<<Kind[scen][q.by], Kind[scen][p.by]>> :
                    p \in {x \in Killed(v, q) : x.by # q.by}}
            /\ NoFault
         \/ /\ Starts(q) /\ Fault
            /\ answer' = [answer EXCEPT ![v] = "bad"]
            /\ UNCHANGED <<proc, file, down, collateral>>
      /\ UNCHANGED <<scen, at, clock, lab, saved, done, late>>

\* A program that does not run until it is killed is through.
ProcEnds(p) ==
  /\ p.ends
  /\ proc' = proc \ {p}
  /\ UNCHANGED <<scen, at, clock, queue, answer, file, down, lab, history>>

Next ==
  \/ Launch \/ Finish
  \/ SetFilter \/ SetTag \/ Issue \/ Forget
  \/ AwaitAnswer \/ OverlookAnswer \/ TimeOut \/ Sleeping
  \/ Branch \/ Happen \/ Repeat \/ Attempted \/ GiveUp \/ Pass \/ Note
  \/ Fetch \/ Missing \/ WriteFile \/ GatherFile \/ SwitchOn \/ SwitchOff
  \/ \E v \in VM : Execute(v)
  \/ \E p \in proc : ProcEnds(p)

Spec == Init /\ [][Next]_vars
----------------------------------------------------------------------------
(* Properties *)

\* The variables hold what their comments say.
TypeOK ==
  /\ scen \in Scenario
  /\ run \in 1..(MaxRun + 1) /\ stage \in Stage
  /\ who \in Member /\ pc \in Nat
  /\ clock \in [on : BOOLEAN, now : Nat, stop : Nat, delay : Nat, attack : Nat]
  /\ filter \subseteq VM \cup {Host}
  /\ tags \subseteq (VM \cup {Host}) \X STRING
  /\ queue \in [VM -> Seq(Cmd)]
  /\ answer \in [VM -> {"ok", "bad"}]
  /\ proc \subseteq Proc /\ file \subseteq File
  /\ down \subseteq VM \X STRING \X Member
  /\ net \subseteq STRING \X (VM \cup {Host}) \X Member
  /\ saved \subseteq Saved
  /\ done \subseteq Nat \X Member \X Stage
  /\ faults \in 0..MaxFault /\ late \subseteq Nat
  /\ collateral \subseteq STRING \X STRING

\* Components that are known to collide: see OthersSurvive.
Excused ==
  {<<"disruption", "opcexport">>, <<"opcexport", "disruption">>,
   <<"pcap", "mm">>, <<"mm", "pcap">>}

\* All that component i of a scenario asks for.
Asked(s, i) ==
  UNION {UNION {{Program[s][q][g][i][k] : k \in DOMAIN Program[s][q][g][i]} :
                  g \in Stage} : q \in 1..MaxRun}

\* What one component ends or switches off, no other one starts or switches on.
Collide(x, y) ==
  \/ /\ x.op = "exec" /\ x.act = "kill"
     /\ y.op = "exec" /\ y.act \in {"run", "start", "append"}
     /\ x.names \cap y.names # {}
  \/ /\ x.op = "off" /\ y.op = "on"
     /\ x.names \cap y.names # {} /\ x.vms \cap y.vms # {}
Apart(s) ==
  \A i, j \in DOMAIN Kind[s] :
    i # j /\ (\E x \in Asked(s, i) : \E y \in Asked(s, j) : Collide(x, y))
      => <<Kind[s][i], Kind[s][j]>> \in Excused

\* A program whose requests are made one after the other, until one fails.
Straight(prog) ==
  \A k \in DOMAIN prog :
    ~prog[k].caught /\ prog[k].op \notin {"if", "unless", "mishap", "again"}
Waits(x) == x.op \in {"await", "prefix", "sleep", "rest"}
Ends(x) == x.op = "stop" /\ x.fail # "ignore"

\* A program notes the start of a disruption at b and its end at e, after it
\* has waited for the rest of the duration d, and an attack that ends in time
\* before it has waited for anything.
TimedAt(prog, d, b, e) ==
  /\ b < e - 1
  /\ prog[b].op = "stamp" /\ prog[b].names = {"start"}
  /\ prog[e].op = "stamp" /\ prog[e].names = {"stop"}
  /\ \/ Ends(prog[e - 1])
     \/ prog[e - 1].op \in {"sleep", "rest"} /\ prog[e - 1].n >= d
  /\ \A k \in DOMAIN prog \ {b, e} :
       prog[k].op = "stamp" =>
         /\ b < k /\ k < e /\ prog[k].names = {"attack"}
         /\ \A j \in b..k : ~Waits(prog[j])
         /\ d >= prog[k].n + 305 => prog[k].time <= d
Timely(prog, d) ==
  Straight(prog) /\ \E b, e \in DOMAIN prog : TimedAt(prog, d, b, e)

\* The only disruption of a scenario is its only component to note the time.
Stamped(s) ==
  /\ \A i, j \in DOMAIN Kind[s] :
       Kind[s][i] = "disruption" /\ Kind[s][j] = "disruption" => i = j
  /\ \A q \in 1..MaxRun : \A g \in Stage : \A i \in DOMAIN Kind[s] :
       IF Kind[s][i] = "disruption" /\ g = 2 THEN Timely(Program[s][q][g][i], Duration[s])
       ELSE \A k \in DOMAIN Program[s][q][g][i] : Program[s][q][g][i][k].op # "stamp"

\* A program writes a record after it has looked at the noted times and for the
\* statistics, if there should be some.
Makes(x, f) == x.op \in {"write", "recv"} /\ f \in x.files
Recording(prog, d, measured) ==
  /\ Straight(prog)
  /\ \A k \in DOMAIN prog :
       Makes(prog[k], "experiment_record.json") =>
         \/ \E j \in DOMAIN prog : j < k /\ Ends(prog[j])
         \/ /\ \E j \in DOMAIN prog :
                  j < k /\ prog[j].op = "timed" /\ prog[j].fail # "ignore" /\ prog[j].n >= d
            /\ measured => \E j \in DOMAIN prog :
                  /\ j < k /\ prog[j].op = "gather" /\ prog[j].fail # "ignore"
                  /\ prog[j].names = {"vmstats"} /\ prog[j].files = {"vm_stats.jsonl"}

\* Records are what the collector writes when a run is stopped, of one vmstats.
Recorded(s) ==
  /\ \A i, j \in DOMAIN Kind[s] :
       Kind[s][i] = "vmstats" /\ Kind[s][j] = "vmstats" => i = j
  /\ \A q \in 1..MaxRun : \A g \in Stage : \A i \in DOMAIN Kind[s] :
       IF Kind[s][i] = "collector" /\ g = 3
       THEN Recording(Program[s][q][g][i], Duration[s],
                      \E j \in DOMAIN Kind[s] : Kind[s][j] = "vmstats")
       ELSE \A k \in DOMAIN Program[s][q][g][i] :
              ~Makes(Program[s][q][g][i][k], "experiment_record.json")

\* The stage in which a component deletes the files it has collected.
Deletes == [tcpdump |-> 3, vmstats |-> 3, disruption |-> 4, rtds |-> 4]

\* A program gets past its request j only through it.
Passing(prog, j) ==
  \A k \in DOMAIN prog :
    /\ prog[k].op # "again"
    /\ k < j /\ (prog[k].caught \/ prog[k].op \in {"if", "unless", "mishap"})
         => k + prog[k].skip < j
\* No exception ends it.
Sure(x) ==
  x.op \in {"filter", "tag", "exec", "sleep", "write"} \/ (x.op = "try" /\ x.fail # "raise")

Begins(x, f) == x.op = "exec" /\ x.act \in {"run", "start", "append"} /\ f \in x.files
Removes(x, f) == x.op = "exec" /\ x.act = "remove" /\ f \in x.files

\* The file f is begun only in VMs with one of the tags T, which they keep.
Under(s, f, T) ==
  \A i \in DOMAIN Kind[s] : \A q \in 1..MaxRun : \A g \in Stage :
    LET prog == Program[s][q][g][i]
    IN  \A k \in DOMAIN prog :
          /\ prog[k].op = "untag" => prog[k].names \cap T = {}
          /\ Begins(prog[k], f) =>
               \E a \in DOMAIN prog :
                 /\ a < k /\ Passing(prog, a) /\ prog[a].op = "filter" /\ prog[a].names = T
                 /\ \A m \in DOMAIN prog : a < m /\ m < k => prog[m].op # "filter"

\* When a program is at its request j, the filter that it has set at a selects
\* the VM v, at least if the file f is there.
Chosen(s, prog, a, j, v, f) ==
  /\ a < j /\ Passing(prog, a) /\ prog[a].op = "filter" /\ v \in prog[a].vms
  /\ \A k \in DOMAIN prog : a < k /\ k < j => prog[k].op # "filter" /\ ~Begins(prog[k], f)
  /\ \/ prog[a].names = {}
     \/ Under(s, f, prog[a].names)
     \/ /\ \A k \in DOMAIN prog : prog[k].op # "untag"
        /\ \E b \in DOMAIN prog :
             /\ b < a /\ Passing(prog, b) /\ prog[b].op = "tag" /\ v \in prog[b].vms
             /\ prog[b].names \cap prog[a].names # {}
Deletion(s, prog, j, v, f) ==
  /\ Removes(prog[j], f) /\ Passing(prog, j)
  /\ \E a \in DOMAIN prog : Chosen(s, prog, a, j, v, f)

\* Waits until the agent of v has done what it was told.
Awaits(prog, w, v) ==
  /\ Passing(prog, w)
  /\ \/ prog[w].op \in {"await", "prefix"} /\ v \in prog[w].vms /\ ~prog[w].caught
     \/ prog[w].op = "sleep" /\ prog[w].n > 0

\* A component deletes the file in stage h of every run but the first, or in
\* the stage of Deletes, after which nobody begins it; it has a new name.
Early(s, i, h, v, f) ==
  \A q \in 2..MaxRun :
    LET prog == Program[s][q][h][i]
    IN  \E j \in DOMAIN prog : Deletion(s, prog, j, v, f) /\ \A k \in 1..j : Sure(prog[k])
AtEnd(s, i, v, f) ==
  /\ Kind[s][i] \in DOMAIN Deletes
  /\ \A q \in 1..MaxRun :
       LET prog == Program[s][q][Deletes[Kind[s][i]]][i]
       IN  \E j \in DOMAIN prog : Deletion(s, prog, j, v, f)
  /\ \A q \in 1..MaxRun : \A g \in Deletes[Kind[s][i]]..4 : \A n \in DOMAIN Kind[s] :
       \A k \in DOMAIN Program[s][q][g][n] : ~Begins(Program[s][q][g][n][k], f)
BegunIn(s, q, f) ==
  \E g \in Stage : \E i \in DOMAIN Kind[s] : \E k \in DOMAIN Program[s][q][g][i] :
    Begins(Program[s][q][g][i][k], f)

Unhalted(s, v) ==
  \A i \in DOMAIN Kind[s] : \A x \in Asked(s, i) :
    x.op = "on" /\ "halted" \in x.names => v \notin x.vms

\* Commands are only forgotten after a wait in which nothing was asked for.
Patient(prog) ==
  \A k \in DOMAIN prog :
    prog[k].op = "forget" =>
      \E w \in DOMAIN prog :
        /\ w < k /\ Passing(prog, w) /\ prog[w].op = "sleep" /\ prog[w].n > 0
        /\ \A m \in DOMAIN prog : w < m /\ m < k => prog[m].op # "exec"

\* A component that collects a file deletes it before the run, or has a new name
\* for it, and waits for the deletion.
Keepers == {"opcexport", "providerdata"}
Renewing(s) ==
  \A i \in DOMAIN Kind[s] : \A q \in 1..MaxRun : \A g \in Stage :
    LET prog == Program[s][q][g][i]
    IN  /\ Patient(prog)
        /\ g > 1 => \A k \in DOMAIN prog : prog[k].op # "forget"
        /\ Kind[s][i] \notin Keepers =>
             \A k \in DOMAIN prog : prog[k].op = "recv" =>
               \A v \in prog[k].vms \cap VM : \A f \in prog[k].files :
                 \/ \A p \in 1..MaxRun \ {q} : ~BegunIn(s, p, f)
                 \/ /\ Unhalted(s, v)
                    /\ \E w \in DOMAIN prog : w < k /\ Awaits(prog, w, v)
                    /\ \/ AtEnd(s, i, v, f)
                       \/ g < 4 /\ \E h \in 1..(g - 1) : Early(s, i, h, v, f)

\* The stage after which a component should have nothing left in the
\* experiment.
LastStage ==
  [disruption |-> 4, pipe |-> 4, tcpdump |-> 3, vmstats |-> 3, iperf |-> 3,
   qos |-> 3, pcap |-> 3, rtds |-> 3, opcexport |-> 3, snort |-> 3,
   ettercap |-> 3, trafficgen |-> 3]

\* What a command sets up in a VM is ended by killing the process or bringing
\* the interface up.
Enders == {"kill", "up"}
Sets(x, e, n) ==
  n \in x.names /\ x.act \in IF e = "kill" THEN {"run", "start", "append"} ELSE {"down"}
Undoes(x, e, n) == x.act = e /\ n \in x.names

\* The filter that a program sets at a is in force at its request j, which it
\* reaches through no other.
Filters(prog, a, j) ==
  /\ a < j /\ prog[a].op = "filter"
  /\ \A k \in DOMAIN prog :
       /\ prog[k].op # "again"
       /\ a < k /\ k < j => prog[k].op # "filter"
       /\ k < a /\ (prog[k].caught \/ prog[k].op \in {"if", "unless", "mishap"})
            => k + prog[k].skip < a \/ j <= k + prog[k].skip
\* Requests of component i that may be meant for the VM v.
Placed(s, i, v) ==
  UNION {UNION {LET prog == Program[s][q][g][i]
                IN  {prog[k] : k \in {j \in DOMAIN prog :
                       \A a \in DOMAIN prog : Filters(prog, a, j) => v \in prog[a].vms}} :
                  g \in Stage} : q \in 1..MaxRun}

\* A program tags the VM v, whatever fails; the component does so in stage h of
\* every run, and nobody removes the tags before the last stage.
Tags(prog, b, v, T) ==
  /\ prog[b].op = "tag" /\ v \in prog[b].vms /\ prog[b].names \cap T # {}
  /\ Passing(prog, b) /\ \A k \in 1..b : Sure(prog[k])
Marked(s, i, h, v, T) ==
  \A q \in 1..MaxRun :
    /\ \E b \in DOMAIN Program[s][q][h][i] : Tags(Program[s][q][h][i], b, v, T)
    /\ \A g \in 1..3 : \A m \in DOMAIN Kind[s] : \A k \in DOMAIN Program[s][q][g][m] :
         Program[s][q][g][m][k].op = "untag" => Program[s][q][g][m][k].names \cap T = {}

\* When component i is at request j of its program in stage g, the filter
\* selects the VM v.
Picked(s, i, g, prog, j, v) ==
  \E a \in DOMAIN prog :
    /\ Filters(prog, a, j) /\ v \in prog[a].vms
    /\ \/ prog[a].names = {}
       \/ g < 4 /\ \E h \in 1..(g - 1) : Marked(s, i, h, v, prog[a].names)

\* With its request j, it ends n in v; or it asks at j whether the process runs
\* and, if so, kills it and waits.
Ending(s, i, g, prog, j, e, n, v) ==
  /\ prog[j].op = "exec" /\ Undoes(prog[j], e, n) /\ Passing(prog, j)
  /\ Picked(s, i, g, prog, j, v)
  /\ \A k \in DOMAIN prog : j < k => ~Sets(prog[k], e, n)
AwaitsOnly(x, v) == x.op = "await" /\ v \in x.vms /\ ~x.caught
Checking(prog, j, n, v) ==
  /\ {j - 1, j + 1, j + 2, j + 3} \subseteq DOMAIN prog
  /\ Passing(prog, j - 1) /\ AwaitsOnly(prog[j - 1], v)
  /\ Passing(prog, j) /\ prog[j].op = "if" /\ prog[j].skip = 3
  /\ prog[j].vms = {v} /\ prog[j].names = {n}
  /\ prog[j + 1].op = "filter" /\ v \in prog[j + 1].vms /\ prog[j + 1].names = {}
  /\ prog[j + 2].op = "exec" /\ Undoes(prog[j + 2], "kill", n)
  /\ AwaitsOnly(prog[j + 3], v)
  /\ \A k \in DOMAIN prog : j < k => ~Sets(prog[k], "kill", n)

\* A component collects a file only after it has ended, and waited for, what
\* writes the file, which it has started itself.
Hasty == {"disruption", "opcexport", "snort", "providerdata"}
Closing(s) ==
  \A i \in DOMAIN Kind[s] : \A q \in 1..MaxRun : \A g \in Stage :
    LET prog == Program[s][q][g][i]
    IN  Kind[s][i] \notin Hasty =>
          \A k \in DOMAIN prog : prog[k].op = "recv" =>
            \A v \in prog[k].vms \cap VM : \A m \in DOMAIN Kind[s] : \A x \in Placed(s, m, v) :
              \A n \in x.names :
                Sets(x, "kill", n) /\ x.files \cap prog[k].files # {} =>
                  /\ m = i /\ g > 1
                  /\ \/ /\ Unhalted(s, v)
                        /\ \E j, w \in DOMAIN prog :
                             /\ j < w /\ w < k /\ Awaits(prog, w, v)
                             /\ Ending(s, i, g, prog, j, "kill", n, v)
                     \/ \E j \in DOMAIN prog : j + 3 < k /\ Checking(prog, j, n, v)

\* In its last stage, a component ends or switches off all that it has set up,
\* and it sets up nothing more.
Ended(s, i, g, prog, e, n, v) ==
  \E j \in DOMAIN prog :
    \/ Ending(s, i, g, prog, j, e, n, v)
    \/ e = "kill" /\ Checking(prog, j, n, v)
SwitchesOff(prog, j, what, where) ==
  /\ prog[j].op = "off" /\ what \in prog[j].names /\ where \in prog[j].vms
  /\ prog[j].fail # "ignore" /\ ~prog[j].caught /\ Passing(prog, j)
Tidy(s) ==
  \A i \in DOMAIN Kind[s] : Kind[s][i] \in DOMAIN LastStage =>
    LET last == LastStage[Kind[s][i]]
    IN  \A q \in 1..MaxRun :
          LET prog == Program[s][q][last][i]
          IN  /\ \A v \in VM : \A x \in Placed(s, i, v) : \A e \in Enders : \A n \in x.names :
                   Sets(x, e, n) => Ended(s, i, last, prog, e, n, v)
              /\ \A x \in Asked(s, i) : x.op = "on" =>
                   \A what \in x.names : \A where \in x.vms :
                     \E j \in DOMAIN prog : SwitchesOff(prog, j, what, where)
              /\ \A g \in last..4 : \A k \in DOMAIN Program[s][q][g][i] :
                   LET x == Program[s][q][g][i][k]
                   IN  /\ x.op # "on"
                       /\ \A e \in Enders : \A n \in x.names : ~Sets(x, e, n)

Owns(i) ==
  \/ \E p \in proc : p.by = i
  \/ \E n \in net : n[3] = i
  \/ \E d \in down : d[3] = i

\* A component whose last stage came to its end has left no process, no
\* disabled interface, no capture, limit, pipe or simulation behind, once the
\* agents have done what they were told.
NothingLeft ==
  pc = 0 /\ (\A v \in VM : queue[v] = <<>>) =>
    \A i \in Member :
      /\ Kind[scen][i] \in DOMAIN LastStage
      /\ <<run, i, LastStage[Kind[scen][i]]>> \in done
      => ~Owns(i)

\* A component removes what it has set up itself.  Not so: python.exe is
\* killed whoever started it (disruption.py:29, opcexport.py:140), and pcap
\* and mm stop all captures of a VM, or of the experiment (pcap.py:43).
OthersSurvive == collateral \subseteq Excused

\* The files a component collects hold the data of its run and of no other,
\* if the agents are in time and, where it deletes them only when the run ends,
\* has done so in the earlier runs.  Not so: the log of opcexport, whose
\* deletion fails (opcexport.py:146), and what providerdata never deletes.
Fresh ==
  \A x \in saved :
    \/ x.data = {x.run}
    \/ x.run \in late
    \/ LET kind == Kind[scen][x.by]
       IN  \/ kind \in Keepers
           \/ /\ kind \in DOMAIN Deletes
              /\ \E q \in 1..(x.run - 1) : <<q, x.by, Deletes[kind]>> \notin done

\* A file is collected when nothing writes it any more, if the agents are in
\* time.  Not so for those that issue a kill command and fetch at once
\* (disruption.py:257, opcexport.py:140, snort.py:104), and providerdata.
Complete ==
  \A x \in saved :
    x.torn => \/ x.run \in late
              \/ Kind[scen][x.by] \in Hasty

\* A disruption that came to its end lasted for run_duration, less a tick.
Schedule ==
  \A i \in Member :
    Kind[scen][i] = "disruption" /\ <<run, i, 2>> \in done
      => clock.stop + 1 >= Duration[scen]

\* The attack is told to end before the run does (disruption.py:205), unless
\* the run is so short that the absolute value taken of a negative difference
\* (disruption.py:159, 210) is too long.
AttackInsideRun ==
  Duration[scen] >= clock.delay + 305 => clock.attack <= Duration[scen]

\* There is a record of an experiment only when its disruption lasted for the
\* duration the record states, and the statistics it goes with are there.
RecordComplete ==
  \A x \in saved :
    x.name = "experiment_record.json" /\ x.run = run =>
      /\ clock.stop >= Duration[scen]
      /\ \A i \in Member : Kind[scen][i] = "vmstats" =>
           \E y \in saved : y.by = i /\ y.run = run /\ y.name = "vm_stats.jsonl"
=============================================================================
