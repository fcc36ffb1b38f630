# Verification of phenix-apps

This directory holds a TLA+ development of the apps, scorch components and
helpers in this repository.  `src/` below is the repository's `src` directory
(`src/go`, `src/python`); `PP` abbreviates `src/python/phenix_apps`.

phenix runs every app and every scorch component as a process of its own, once
per stage of an experiment, hands it the experiment as JSON and takes the JSON
it prints.  So a program here has little state in memory.  What matters is the
state that outlives its processes: taps, ports and mirrors on cluster hosts, the
status of the experiment in phenix's store, the miniccc command list and filter
of a minimega namespace, files under `/tmp` and in the experiment's directory,
and processes left behind in the background.  The models are about that state
and about processes that die, fail half way, or run beside each other.

## 1. Inventory

### Apps

| Component | State | Operations | What makes it correct |
|---|---|---|---|
| mirror app, `src/go/cmd/phenix-app-mirror/main.go` | taps, GRE/ERSPAN ports and OVS mirrors on the cluster hosts; the app's status in the store (subnet, tap name, mirrors); the receivers' addresses in the topology | `configure`, `preStart`, `postStart` with its deferred clean-up, `cleanup`, `deleteTap`, `deleteMirror`, `mirrorNet`, `runningExperiments` | nothing leaked, post-start all or nothing, mirrors usable, addresses and subnets disjoint |
| Go util package, `src/go/util` | none | extraction and decoding of the experiment's parts, random names, templates | results are those the mirror models take from it |
| app base class, `PP/apps/__init__.py` | the experiment object | `add_node`, `add_inject`, `add_annotation`, `add_label`, lookups | idempotent over repeated configures; one node per host name |
| scale app, `PP/apps/scale` | topology nodes, startup scripts, minimega scripts; next address of every network | `configure` and `post_start` over profiles and plugins (`builtin`, `wind_turbine`) | every container on exactly one node, no address twice, the same host names in both stages |
| ot-sim app, `PP/apps/otsim` | annotations and injections of nodes; configs and broker scripts in the experiment's directory | `pre_start` over servers, clients and front ends, then the broker scripts | a server's annotation and config name the broker that is started for it, and that counts it |
| helics app, `PP/apps/helics` | injections of nodes, broker scripts | `pre_start`: read the annotations, add up federates per broker, write the scripts | each broker that is started waits for exactly what connects to it |
| sceptre app, `PP/apps/sceptre` | injections of nodes, files in the experiment's directory, a table of field device servers in the process | `configure` and `pre_start` over providers, field devices, federates, OPC, SCADA, HMIs, workstations, historians | every injected file is written; a name for a register, in whatever file, leads to that register |
| other configuration apps (caldera, protonuke, wireguard, wind_turbine) | none of their own | one pass from metadata to files | left to unit tests |
| schedulers, `PP/schedulers` | `spec.schedules` | one loop over nodes | every node is scheduled |

### Scorch

| Component | State | Operations | What makes it correct |
|---|---|---|---|
| component runner, `PP/apps/scorch/app.py` | the signal handler, the info file | `execute_stage`, `run_and_check_command`, the SIGTERM handler | an exception ends the stage, SIGTERM wakes `signal.pause()` |
| miniccc helpers, `PP/common/utils.py` | the command list, the responses and the filter of the namespace, kept by minimega | `mm_exec_wait`, `mm_wait_for_cmd`, `mm_wait_for_prefix`, `mm_last_command`, `mm_send`, `mm_recv`, ... | the right command, in the right VMs, its own result |
| cc | as above, and script files in VMs | jobs of stages and VMs: exec, exec wait, background, send, recv, reset | script before command, failure ends the stage, mounts do not outlive copies |
| hoststats | a buffer shared by two threads, the output file, the `monitor` flag | `start`, `__run_monitor`, `__flush_buffer` | every sample once and in order, none lost by a failed write, it stops |
| kafka component and listener | pid file in `/tmp`, background processes, the output file | `configure`, `cleanup`, the listener's `run` | no stray listener, nothing else is killed, well-formed output, it subscribes |
| disruption | attacker's interfaces, processes, files | `configure`, `start`, `cleanup` | the attack stays inside the run, the run lasts as long as it should, nothing runs on |
| mm, pcap, tcpdump | captures of the namespace, processes in VMs | start and stop of captures, waiting for files | every started capture is stopped and its file fetched |
| iperf, vmstats | processes in VMs, miniccc prefixes | servers and clients, polls by prefix | waits end, every VM's result is collected |
| collector | the record of an experiment | checks of the disruption's times, gathering of the others' files | a record only of a complete experiment |
| rtds, providerdata, opcexport | a simulation case, processes and logs in VMs, output files | start and check of simulator and providers, queries, export | stopped again; files are of one run and complete |
| qos, art, pipe, caldera, ettercap, snort, trafficgen | limits and pipes of the namespace, processes in VMs | short sequences of miniccc helpers | limits, pipes and processes are removed; nobody else's are |

Interactions: stages are calls by phenix, in its order; apps reach minimega by
requests to one server process, whose filter, prefix and command list are global
to an experiment; scorch runs components in parallel when they are in the
background; the only signals are SIGTERM to a background component and
`os.kill` of the kafka listener.  The hard behaviours are: a process that dies
between creating something and recording its name; commands that fail on one of
several hosts; requests of two components interleaving on shared minimega
state; a thread and a signal handler over an unlocked buffer; a pid file that
outlives its process; waits that test the wrong thing; files of an aborted run
that are taken for those of the next; a kill by name that hits another's process;
two apps that count the same federates from different data; and a plant whose
files, written one by one, refer to registers by numbers.  `PROJECT.json`
lists each with its line under `hazards`.

## 2. Plan

Modules in their order, each with the property that decides its design.

Done:

1. `Mirror`: resources of one experiment over runs and failures (nothing leaked).
2. `MirrorNet`: subnets and addresses among experiments (nothing shared).
3. `ScorchCC`: a component process on the miniccc helpers (right VM, own result).
4. `HostStats`: two threads and a signal (exactly once).
5. `KafkaListener`, and `Kafka`, which extends it with the component that starts
   and kills listeners (no stray process).
6. `Scale`: profiles, plugins and two stages over the experiment object (every
   container in one place with addresses of its own, the stages agree).

7. `ScorchRequest`, `ScorchPrograms`, `ScorchCapture`: the stages of the other
   seventeen scorch components as sequences of requests.
8. `ScorchRun`: what the requests mean, over iterations of a scorch run with
   faults (nothing left behind, fresh and complete files, the schedule).
9. `SampleLog`: the abstract specification that `HostStats` implements.
10. `Federation`, which extends `Scale` with the two apps that run after it on the
    same experiment (brokers wait for what connects to them).
11. `Sceptre`, which extends `Federation` with the last app of that experiment (the
    files of a plant agree on its registers, and exist).

12. `Service`: the abstract specification that `Kafka` implements.
13. `ScorchExperiment`: what the scorch components can be configured to do, and the
    stages that follow, for `MCScorchRun` and for the proofs.

Nothing of the plan is left.  A *reservation* (experiments hold disjoint subnets) as
an abstract specification of `MirrorNet` was planned and is not stated: it would hold
only while post-starts do not overlap, and `SharedOnlyByRace` says that and what
happens otherwise.

## 3. The models

### Mirror (`Mirror.tla`, `MCMirror.tla`, proofs in `MirrorProofs.tla`)

One experiment on a set of cluster hosts, started up to `MaxRun` times.  One
action is one command to one host, or one decision between commands: so the
process can die between any two, and any command can fail with or without its
effect.  `pc` and `stage` say which loop of which handler runs; `todoHost` and
`todoRecv` are what is left of the loops over hosts and over the app's receivers.
A receiver is its place in the list `app.Hosts()`: `Configure` addresses them in the
order of the list up to the first it cannot address (`Addressed`), and post-start
takes them in the same order (`IsNext`), whereas hosts and saved mirrors are maps
and sets and are taken in any order.
`tap`, `port` and `mirror` are the world; `saved` is the status in phenix's
store, `status` the one `postStart` is building.  `PreStart`, `PostStart`,
`CreateTap`, `NextReceiver`, `AddPort`, `AddMirror`, `SaveStatus` are the lines of
`preStart` and `postStart`; `RemoveReceiver` to `TapsDone` are `deleteMirror` and
`deleteTap`, entered from pre-start, from the deferred function (`undo`) and from
cleanup.  `Panic` is `netaddr.MustParseIP` on an empty address.  After
`Configure` the receivers are in the state post-start will find.  `excused` is history: the
pairs of a run and a host on which one of the causes named in `Accounted` may have
leaked something.

Left out: the contents of the commands and the injected files; GRE or ERSPAN
(both are one port); random names (distinct).

### MirrorNet (`MirrorNet.tla`, `MCMirrorNet.tla`, proofs in `MirrorNetProofs.tla`)

Several experiments that choose a subnet and addresses.  `Used` and
`UnusedSubnet` are `runningExperiments` and `putil.UnusedSubnet`;
`mirrorNet` falls back to the configured subnet if the store cannot be listed.
`PostStartNet` reads the store, `PostStartSave` writes it: two experiments may do
the first before either does the second.  `blind` and `overlap` record the two
ways a subnet can be shared.

### ScorchCC (`ScorchCC.tla`, `MCScorchCC.tla`, proofs in `ScorchCCProofs.tla`)

Component processes, minimega's shared state (`filter`, `cmds`, `lastId`, `resp`)
and VMs.  One action is one request to minimega.  `SendFilter` to `SendClear` are
`__send_cmd_as_file`, `ExecFilter` to `ExitCode` are `mm_exec_wait` with
`mm_last_command` and `mm_wait_for_cmd`; `TimedOut` is the RuntimeError of both
polls, `Accept` and `Refuse` the judgement of the result in `cc.py` and
`run_and_check_command`, `Mount` to `UnmountFailed` `mm_send` and `mm_recv`,
`ResetFilter` to `ResetResponses` `__reset_cc`.  A stage may run any jobs, so
every order of jobs is covered.  `Run` is the agent of a VM: it executes listed
commands in any order, each once.

minimega and miniccc are not in this repository.  What is assumed of them: a
filter selects VMs at the moment the command is issued, ids count up and are not
used again after a reset, an agent answers a command after it has executed it.

### HostStats (`HostStats.tla`, `MCHostStats.tla`, proofs in `HostStatsProofs.tla`)

`main` and `sampler` are the positions of the two threads; `resdata` is the buffer
both of them write to the file and then replace, in two steps.  A write may fail
after any number of records.  `Terminate` is SIGTERM: it wakes `signal.pause()`,
and at any other point it is swallowed by the handler that does nothing (`missed`).

`SampleLog` is what the component promises without threads, buffers and signals:
samples are taken, and delivered to a log in order and together; a delivery may be
torn, after which its samples are still pending; the log is closed only when
nothing is pending.  `ImplementsSampleLog` is `Log!Spec` for
`Log == INSTANCE SampleLog WITH ...`: the samples that are pending are those of the
buffer that the file does not have (`Unwritten`), since the write and the clearing
of the buffer are two steps and the delivery happens at the first of them.

### KafkaListener and Kafka (`MCKafka.tla`, proofs in `KafkaProofs.tla`)

`KafkaListener` is `kafka_listener.py`: entries of the topics list (`Plain`,
`Wild`, `GiveUp`), `Subscribe`, then `Skip`, `StoreFirst`, `Store` for each
message.  A wildcard is the set of topics it matches and a filter a name that a
message passes or not.  `Kafka` extends it with `kafka_component.py`: `Spawn`,
`CreateFile` and `WritePid` are configure, `ReadPid`, `RemoveFile` and `KillPid`
cleanup, with `Crash` between any two steps.  Pids are numbers of listeners; the
pid of a listener that has ended may become another process's (`OtherStarts`).

`Service` is what the component promises without files and pids: a process is
switched on when none is on, and a stage that switches off ends with nothing on;
what is on may end by itself; a stage that is cut short, or cannot do its work on
the file, may lose what is on, and nothing else may.  `ImplementsService` is
`OnOff!Spec` for `OnOff == INSTANCE Service WITH ...`: a listener is on while it
runs within the component's reach, lost when it runs out of it (`orphan`), and `done`
is that the last cleanup went through (`clean`).

Assumed of the broker: subscribing to no topic raises; a consumer gets the
messages published after it subscribed, in any order.

### Scale (`Scale.tla`, `MCScale.tla`, proofs in `ScaleProofs.tla`)

The first part is the plugins' arithmetic: `NodeCount`, `ContainerCount`, `Part`
(which component of which turbine a number on a node is), addresses.  Both stages
call it, each in a process of its own.  `topo` is the saved experiment, `mem` the
copy a configure stage works on and prints (`ConfigureEnd`); `configs` and `tgz`
are the files it writes on the way, which remain when it dies.  `WriteScript` and
`SendScript` are the body of the post-start loop, around the write of the script.
A file is emptied when it is opened and then filled: `DieWriting` is a configure that
dies in between, at the startup script of a VM (`broken`), at one of its configs or at
the archive of all configs (`Torn`, nothing or a part of the file).  Where it does not
die the files of a node are one step, since nobody reads them before the stage is
over; a minimega script is written again before anything sends it.  The archive is
injected from the experiment that an earlier configure printed, so a VM that boots then
gets what is cut off: the code has this flaw, and `cut`, which is history, says when.
`Boot`, `Stop` and `Launch` are phenix and the startup script in a VM.  A script
is a sequence of containers, each with its part and its addresses; a config
directory is a VM and a number.  Host names are triples, so that they are equal
exactly when the strings are.

Left out: gateways, hardware defaults, volumes other than the config's, the
contents of configs, summary tables, dry runs, plugin discovery.

### The scorch run (`ScorchRequest.tla`, `ScorchPrograms.tla`, `ScorchCapture.tla`, `ScorchExperiment.tla`, `ScorchRun.tla`, `MCScorchRun.tla`, proofs in `ScorchRunProofs.tla`)

A stage of a scorch component is straight-line code over a few calls, so it is
written as the sequence of requests it makes, with its loops over VMs unrolled and
forward jumps for its conditions.  `ScorchRequest` has the requests and, in terms
of them, the helpers of `utils.py` and the methods of `ComponentBase` (`ExecWait`,
`RunAndCheck`, `EnsureRunning`, `RecvFile`, `KillProcess`, ...); `ScorchPrograms`
the stages of the components that run attacks, simulators and tools (disruption,
opcexport, rtds, providerdata, caldera, art, snort, ettercap, trafficgen);
`ScorchCapture` those that measure and record (tcpdump, vmstats, iperf, qos, pipe,
pcap, mm, collector).  `ScorchExperiment` says what each can be configured to do
(`Config`), which sequences are its stages (`Stages`), and when an experiment is one
of so configured components (`Configured`).  `ScorchRun` gives each kind of request
its meaning, one action per kind, and runs the components of an experiment stage by
stage and iteration by iteration.  A request carries the failure the code gives it: an
exception, which `execute_stage` turns into a line of the info file and the stage
is over; exit with status 1, after which phenix goes to the cleanup; or nothing.
`queue`, `answer`, `proc`, `file` and `down` are the VMs, `filter`, `tags` and `net`
(captures, limits, pipes, the simulation case, VMs that are stopped) minimega and
the host, `saved` the files on the host with the runs whose data they hold.  `clock`
counts tenths of a second from the start of a disruption.

The command list is simpler than in `ScorchCC`: an agent executes its commands in
the order they were issued and waits for one in the foreground, and `ExecWait` is
a few steps and not one per request, because components run one after the other
here.  Each of the following is one fault (`MaxFault`): a command that starts a
program fails, a request to minimega or a program of the host fails, a check or an
answer from outside is not what it should be, or an agent has not done what it was
told when the code goes on.  Killing a process, deleting a file and setting an
interface up or down do not fail by themselves.

Left out: the text of commands, what is computed from documents and captures, and
errors in a configuration that every run meets.

### Federation (`Federation.tla`, `MCScale.tla`, proofs in `FederationProofs.tla`)

The pre-start stage of ot-sim and of helics, which phenix runs in this order on the
experiment that the scale app has filled.  `PreStart` to `AppEnd` are the two
stages, one step for a server (`OtsimServer`) and one for a script
(`WriteBrokerScript`), so that a process can die (`FedFail`) between any two;
`HelicsCount` reads all annotations at once, as the code does before it writes
anything.  `exp` is the part of the saved experiment these two change and `work`
the copy an app prints at its end; `topo` is what the scale app changes of it.
`connects` and `scripts` are files, which remain when the app dies.  `FedBoot`
gives a VM the later one of two injections at one path, as phenix does.  `Mark` is
the user who sets or clears `do_not_boot` in a stopped experiment.

Left out: labels, log settings, dynamic brokers, front ends and clients (no
federates), the rest of the configs, hosts with more than one address.  The broker's host of a wind farm is not
itself a server of ot-sim.

### Sceptre (`Sceptre.tla`, `MCPlants.tla`, `MCScale.tla`, proofs in `FederationProofs.tla`)

The sceptre app runs after the others on the same experiment.  `SceptreConfigure`
injects a path for every file of a host, by its type and its labels, and writes
some at once (`WrittenAtOnce`); the pre-start stage goes through the types of hosts
in the order of `Parts`, with one action per type and one step per host
(`PrepareProvider` to `PrepareHistorian`), and `NextStage` is what the code does
between two types.  `spc` and `at` are that position, `pre` the variables that outlive
a host: the table of servers (`fd_server_configs`) and the host of the last
`opc_config`.  `nodes` are the injections in the saved experiment and `draft` those
in the copy; `made` are the files there are and `written` what is in those that
refer to registers.  `Raises` are the conditions that end the stage with an exception,
and `SceptreFail` is that or the death of the process; the experiment is then not
started, and can be again.  `Others` is every step of the other apps and of the cluster.

The devices of the nine infrastructures are tables (`Transmission` to `Battery`) of how
many fields a type has of each kind; `Points`, `Unnumbered` and `Numbered` are the
numbering of registers, `ServerFile`, `ClientFile`, `Tags`, `HistorianFile` and
`FederateFile` what the templates write for them.  `Reads` follows a name back: the tag a
server has at a port and an address, and the points of the provider that tag has.

Left out: sunspec, hardware in the loop, register maps and files of the user
(an override is another path, `Source`), logic, the contents of scripts.  Every host
of the topology that the app handles has metadata.

### What the properties except

Where the code does not keep a property in some case, the property says so and
names the line.  The cases are worth a reader's attention:

* `AttackInsideRun` (`disruption.py:205`, "make sure DoS ends before stop time"):
  the time that is left is taken as an absolute value (lines 159 and 210), so for
  a `run_duration` below the delay and 30.5 s the attack is longer than the run.
  `AttackFits` proves that this bound is exact; the scenario `tiny` is such a run.
* `OthersSurvive`: disruption and opcexport each kill every `python.exe` of the OPC
  host; pcap and mm stop each other's captures.
* `Fresh`: the log of opcexport is deleted with a Linux command on Windows;
  providerdata deletes nothing; tcpdump, vmstats, disruption and rtds delete their
  files when a run ends and not before the next, so that a stage that failed before
  that (`done`) leaves them to the next run; snort and iperf delete theirs first, but
  an agent may be late with it.
* `Complete`: disruption, opcexport and snort fetch at once after they have issued
  a kill command; providerdata does not stop what writes.
* `HelicsReads` (`helics/app.py:115`): an annotation that names a broker other than
  the root without a port or as `host|iface`, and a second port on one host, are a
  KeyError, though `helics/README.md` has these forms (items 3 and 4); so the
  experiments `ByInterface` and `TwoPorts` cannot start, nor a wind farm whose
  broker is not the root.  `ServersUsable` says that ot-sim's own annotations never
  lead there.
* `BrokersCounted`: ot-sim counts servers that are marked not to boot, and does not
  count a server whose own metadata names the broker without a base count; a broker
  that is marked does not run, which helics only logs; a sub-broker's script of an
  earlier start is still injected when its federates are marked later.
* `EveryContainer`, `OwnAddresses` and `OwnConfig`: two profiles whose host names coincide share
  VMs, because a node whose name exists is not added (`apps/__init__.py:358`).
* `OwnConfig` and `Launched` (`wind_turbine.py:353`): when a configure died as it wrote
  and none has ended since (`cut`), a container may mount a config that is cut off, or
  a VM have a startup script that is, and so no containers.  A config is never that of
  another part, and both are whole again once a configure has ended.
* `Schedule`: a run may be a tick (0.1 s) shorter than its `run_duration`, because
  disruption sleeps the rest only when it is more (`disruption.py:195`); the collector
  asserts the whole duration (`collector.py:129`), so that such a run has no record.
* `PointsReached`: a server with two protocols uses one name for registers of both
  (`fd_server.mako:27`); OPC's templates know 104 as `iec60870`, which no server's
  metadata is called; OPC and clients of a serial server do not connect to its
  serial device; a historian with no OPC server on its network takes the tags of
  whichever OPC server was handled last, at no address.
* `FilesReady`: the start script of a field device with Windows is injected as
  `start.sh` and written as `start.ps1` (`app.py:126`); `objects.txt` is injected for
  every PowerWorld provider and written for the last (`app.py:627`).

Three things in the sceptre app end or spoil every run that meets them, so that no
interleaving is needed to see them; the model takes them as they are:

* every front end raises: its config is built without `device_subtype`
  (`app.py:1108`), which `FieldDeviceConfig` requires (`configs.py:31`);
* a client of a modbus server has a config that is not well-formed:
  `fd_client.mako` opens `modbus-client` and closes `modbus-tcp-client`;
* a device in the metadata with anything but a name and a type raises, because the
  parser removes keys of the dictionary it iterates over (`app.py:1503` to 1520).

## 4. Runs

| Run | Checks | Shows |
|---|---|---|
| `mirror` | `Accounted`, `AllOrNothing`, `MirrorsUsable`, `CleanedUp`, `StatusMonotone` | nothing is leaked without one of the causes in the code, post-start is all or nothing, the saved status is that of a complete post-start |
| `mirror_panic` | `PreStartClears`, violated | configure returns at a receiver without an interface and leaves the next one without an address, at which post-start panics after the taps exist; nothing ever deletes them |
| `mirror_net` | `NoClash`, `SharedOnlyByRace` | addresses are disjoint in a subnet that is exactly full, subnets are shared only by a race |
| `mirror_net_move` | `ReceiversOnMirrorNet`, violated | post-start may move the taps to another subnet than configure gave the receivers |
| `scorch_cc` | `RunsWhereAsked`, `ScriptFirst`, `OwnResult`, `FailStopsStage`, `Unmounted`, `StageEnds` | with one component at a time, commands run where they should and are judged by their own result |
| `scorch_cc_together` | `ScopedByVM`, violated | with two components at a time, a process asks for the exit code of another one's command |
| `hoststats` | `ExactlyOnce`, `NoneLost`, `ImplementsSampleLog`, `Stops` | the join replaces a lock; a failed write loses nothing; threads and buffer implement the sample log |
| `kafka` | `Tracked`, `ImplementsService`, `KillsOwn`, `RowsUnderHeader`, `NoDuplicates`, `Subscribes` | listeners stay within reach of the pid file, start and stop implement the on and off of a service, output is well formed |
| `kafka_entries` | `EveryEntryFound`, violated | a wildcard after another entry is not waited for |
| `scorch_run` | `NothingLeft`, `OthersSurvive`, `Fresh`, `Complete`, `Schedule`, `AttackInsideRun`, `RecordComplete` | over two iterations and a fault, components remove what they set up, collect their own run's files, and keep the schedule |
| `scale` | `EveryContainer`, `OwnAddresses`, `OwnConfig`, `Repeatable`, `Launched`, `BrokersCounted`, `ServersUsable`, `PointsReached`, `FilesReady` | both stages agree on hosts, numbers, configs and addresses, the brokers on their federates, and the files of a plant on its registers, over deaths and repetitions |
| `scale_feds` | `FederatesCounted`, violated | the federate count for the HELICS broker is one too high for a single VM |

The five violated properties quote what the repository says; each is a finding of
`PROJECT.json`, with the shortest behaviour TLC reports explained there.

### Bounds

* `MaxRun = 2` (`mirror`): the second run meets what the first left; a third adds
  only repetitions because pre-start overwrites the one status there is.  Two
  hosts are needed for "failed on one, done on the other".
  There is one receiver in `mirror`; two multiply the states, and what is lost without
  them (a failure after the first is complete) the proofs cover, for any number.
  `mirror_panic` has two, no failing commands and no kills: one at which configure
  returns, and one behind it.
* `mirror_net`: three experiments on two subnets, so that subnets run out; `Size`
  leaves room for exactly the addresses asked for, so an off-by-one clashes.
* `MaxJob = 3` (`scorch_cc`): a job, one between, and one that meets what the
  first left (a filter, a listed command, an answer); two VMs so that "another VM"
  exists, one of them Windows because it is judged differently.
* `PerFlush = 3`, `MaxSample = 8`: two full flush periods and a remainder; polls
  without data are not bounded.
* `MaxListener = 2`, `MaxMessage = 2`, `MaxStage = 3` (`kafka`): configure,
  cleanup, configure, with a message for each listener.
* `scale`: seven scenarios for the profiles, each for a branch of the arithmetic (a
  remainder, an exact fit, a density that splits turbines, none, more than one
  profile, shared host names, an invalid profile), and five for the federation: sub
  brokers beside the root, ot-sim without helics, brokers named by interface, two
  ports on a host, and a farm whose broker is the root.  `MaxStage = 3` lets a
  configure that died be followed by one that ends and one that repeats it;
  `MaxMark = 1` lets one node be marked between two starts.  Nine plants: one with
  every type of host but front ends and two networks, one with what the properties
  except, one with devices of the other infrastructures, and six that cannot start.
  They run without profiles, since the apps share nothing but the order they run in.
* `scorch_run`: fourteen experiments of three VMs, one of them Windows, that have
  all seventeen components and every mode of disruption; components that share a VM, a
  process name or the captures are together in one.  `MaxRun = 2` iterations, since
  what an iteration leaves is met by the next; `MaxFault = 1`, because a fault ends
  its stage and the properties speak of what follows it.  Times are in tenths of a
  second, so that the schedule's boundary of 30.5 s is a state.

Symmetry is used in the `mirror_net` runs, among experiments, and in the two runs of
`Mirror`, among cluster hosts but not receivers, which have an order.  Their
properties are invariants and one property of steps (`StatusMonotone`), and no
definition tells the permuted values apart.

### Fairness

`Mirror` and `MirrorNet` have none: their properties are about what may not happen, and
their loops go over finite lists.  `ScorchCC`: each process and each VM's agent; without the second
`mm_wait_for_cmd`, which has no timeout here, would wait for ever, and rightly.
`HostStats`: both threads are scheduled; nothing is assumed of SIGTERM, which is
why `Stops` begins with it.  `Kafka`: listeners run and the clock goes on, so that
the deadline of the wait loop passes; nothing is assumed of messages.  `Scale`
with `Federation` and `Sceptre`: the startup script in a VM that has its file goes on, while no
app runs.  The scorch run has no fairness: all its properties are safety.  No action
of the user, of phenix or of a failure is fair.

Deadlock is not checked where a bounded environment stops for good (all stages
run, all jobs taken); the mirror models never stop.

## 5. Proofs

All theorems hold for every value of the constants under the named assumptions
(`MirrorAssumption`, `MirrorNetAssumption`, `CCAssumption`, `HostStatsAssumption`,
`KafkaAssumption`, `StageAssumption`, `ScaleAssumption`, `FederationAssumption`,
`RequestAssumption`, `RunAssumption`, `PlantAssumption`; `Shares` states its own);
`MaxRun`, `MaxJob` and the like are then arbitrary.  Some theorems have a hypothesis
about the scenarios besides, which TLC evaluates for those of the runs: see
`ScaleProofs`, `ScorchRunProofs` and `FederationProofs`.  `FederationAssumption` says that the hosts of the ot-sim servers
differ and are in the topology: metadata is a mapping from host names, and the app
goes over the nodes of the topology (`extract_nodes_type`).  `PlantAssumption` says that the hosts of a plant are a list
whose names differ, as a topology's do, and that a server's devices are a list for
each protocol.

* `MirrorProofs`: the type invariant, all four invariants and `StatusMonotone`.  No invariant here is
  inductive by itself.  The strengthening has four layers: `Shape` (which loop
  variables mean what at each label), `Owned` (every resource belongs to the saved
  run, the current run or an excused pair), `Deleted` (what a deletion loop has
  passed is gone or excused), `Created` (what a creation loop has passed exists,
  and is recorded).  Each is proved from the earlier ones.
* `MirrorNetProofs`: `NoClash` from `Layout` (where addresses lie in the subnet)
  and the assumption that the subnet has room; `SharedOnlyByRace` from `Chosen`
  (an experiment in post-start has a subnet that no running one used when it
  looked).
* `ScorchCCProofs`: `TypeOK`, `FailStopsStage` and `Unmounted`, and, assuming that
  `Client` has one element, `RunsWhereAsked`, `ScriptFirst`, `OwnResult`.  The
  invariant says what each label implies of the filter (`Routed`), of the id that
  is waited for (`Numbered`, `Waits`), of answers (`Answers`) and of delivered
  files (`Delivered`).  The assumption is needed: `scorch_cc_together` shows what
  happens without it.
* `HostStatsProofs`: the type invariant, both invariants of the run, and two that
  follow (`StoppedComplete`, `BufferBounded`).  `Places` says that the main thread is at
  the buffer only when the sampler is gone; with it, `Counted` and its parts
  relate file, buffer and samples, and `Room` bounds the buffer by the polls of a
  period.  `Implements` is the refinement: initial states map to initial states, and
  each step to a step of `SampleLog` or to none, from the same invariants.
* `KafkaProofs`: `TypeOK`, `Tracked`, `KillsOwn`, and `CleanedUp` (after a cleanup
  that went through nothing runs that it could find), from the
  relation between the file, the pid in hand and the running listeners
  (`FileInv`, `Found`, `Quiet`, `Owned`); and `RowsUnderHeader` and `NoDuplicates`,
  from `OutputInv`: which rows a listener has under its header at each label
  (`Rows`, `Ruled`), and that what it has yet to store is not in the file (`Unread`,
  `Once`).  The last two need `Tracked`: two listeners would write to one file.
  `ServiceImplemented` is the refinement, `Spec => ImplementsService`: with `Reach`
  (an orphan was started, and no pid file names what cleanup has found gone) each step
  is one of `Service` or none, among them the two that lose a listener (`GivesUp`).
* `ScaleProofs`: `Shares`, about the arithmetic: whatever the profile, the nodes
  hold consecutive, non-empty blocks of the containers and the last block ends at the
  total; it rests on the bounds of a rounded-up division and on the uniqueness of
  the remainder.  On it rest `EveryContainer`, `OwnAddresses` and `OwnConfig`, with
  `ScaleInv`: what is on disk, in the VMs and in the process when a stage has done the
  nodes before the one it is at, which is what both stages compute from the same
  profile.  `OwnConfigHolds` is from three facts about the archive that boots inject
  (`Ready`, `Whole`, `Kept`): since the last configure that ended, it has the configs of
  every VM; a step that writes leaves what belongs to other VMs (`OtherNode`), and only one
  that dies as it writes puts anything but the part's own config there, and sets `cut`.
  `OwnAddresses` has the hypothesis `OwnNetworks`: the networks of a
  profile have names of their own, and a main controller that stays on the network of
  its turbine has an address beyond the other components'.  `Repeatable` is from
  `Control` (where the process is) and `Again` (a copy of a configured experiment
  has all that the stage would add).  What goes through the nodes of a profile, or
  the profiles, is proved with `Least`: a set of numbers that is not empty has a
  least one, so that no induction over an operator is needed.
* `ScorchRunProofs`: `TypeOK` for any experiment whose stages are sequences of
  requests with no jump back beyond their beginning: no exception, exit or jump
  leads outside the stages; and `AttackFits`, about the schedule's arithmetic.  The
  other seven properties have a hypothesis about the programs, which TLC evaluates for
  all experiments of `scorch_run` (`MCScorchRun`).  `OthersSurvive`, for components that
  name what is theirs (`Apart`), from `Sourced`: whatever waits, runs or is
  switched on was asked for by the component it is said to be of.  `Schedule` and
  `AttackInsideRun`, for disruptions that note their times around what they do
  (`Stamped`), from `OnSchedule`: what the clock says at each request of the stage.
  `RecordComplete`, for collectors that record after their checks (`Recorded`) too, from
  `OnRecord`: the checks that lie behind have succeeded, and what they saw is still so.
  `Fresh`, for components that delete the files they collect (`Renewing`), at the end of
  each run or early in the next, or have a new name for them: by a request that no
  branch skips, under a filter that selects the VMs where the file is, with a wait
  before the file is fetched.  It is from `Renewal`.  `Onward` is how a program gets past a request:
  only by making it.  `FilesStep` says what a step does to the file of a VM, counting
  the commands that wait: it is gone when a command that deletes it comes after all
  that begin it (`Gone`), or when only this run begins it again (`Clear`).  The rest are facts about
  a program that is past a request: its tags are set, its filter selects, it has deleted,
  and, when it has waited, nothing of an earlier run is there (`Settled`).
  `NothingLeft`, for components that also end in their last stage all that they may have
  set up (`Tidy`), and `Complete`, for those that have ended and waited for what writes a
  file before they fetch it (`Closing`), are both from `Setup`: the filter in force
  is the one that the program set (`Filtering`), and everything that was set up, or
  will be by a command that waits, was asked for by its component in a VM it may be
  meant for (`Located`).  What a component has set up is doomed (`Dooms`) once a command
  that ends it waits behind all that set it up, and nothing that comes later revives it
  (`ActiveStep`); it has ended when it was waited for (`Spent`).
  `OthersSurviveConfigured`, `ScheduleConfigured`, `AttackInsideRunConfigured` and
  `RecordCompleteConfigured` have no hypothesis about programs left: the experiment is
  what its components are configured to do (`Configured`), with any VMs, targets,
  durations, options and files, one component of each type.  That all those programs are
  `Apart`, `Stamped` and `Recorded` (`ConfiguredPrograms`) is proved stage by stage: a
  request belongs to `Safe(N)` when it ends, starts or switches only what is in `N`,
  and neither notes the time nor makes a record; a stage is a sequence of such
  requests for the names of its type (`Theirs`), through every condition, retry and loop
  (`Looped`: a loop of any length, by a least counterexample); and the names of two
  types have nothing in common but for the pairs `OthersSurvive` excuses (`TheirOwn`).
  The start of a disruption (`DisruptionTimed`) and the stop of a collector
  (`CollectorPrograms`) are taken apart at the requests that matter.  `Fresh`,
  `NothingLeft` and `Complete` keep their hypotheses, which are about the order of the
  filters, commands and waits of whole programs; that they hold is evaluated for the
  configurations of the run.
* `FederationProofs`: `Composed`, every behaviour of the composition is one of
  `Scale`; and `ServersUsable`, from `FedInv`: the servers that a stage has gone
  through have the annotation they are given, in the copy and, once ot-sim has
  ended, in the experiment that helics reads.  `ComposedWithSceptre` and
  `ServersUsableWithSceptre` say both of the composition with sceptre, whose only step
  that the other apps notice is its failure.  `BrokersCounted`, of the composition with
  sceptre: `NodesInv` says what annotations and injections the saved experiment, the
  copies and the topology have in common, `OrderedInv` in which order the injections
  of the two apps at one path are, `ScriptsInv` what the scripts on disk and in hand
  were told.  A broker waits for a sum over servers, and what connects is a set of
  nodes: the folds of the community modules over finite sets are shown to be sums,
  by sets that contain the empty set and with a set every one with one element more
  (`InductiveSets`).  `FilesReady`, from `FilesInv`: the pre-start goes through the
  hosts in the order of `Parts` (`Position`), and the file that an injection names is
  written when its host is behind (`Prepared`, `Injects`), whatever earlier starts did.
  `AddressesDistinct`: of two registers that one counter numbers, the later one has the
  greater address.  `PointsReached`, on top of it, from `PointsInv`: what is in a file
  is a function of the plant, whoever wrote it in whichever start (`Contents`), and the
  hosts whose files a later file is made from were written in this start (`Gathered`).
  The hypothesis is `Addressable`: devices have names of their own, and a server has at
  most 20000 registers of a protocol, so that the addresses of one kind of modbus
  registers do not run into the next kind's.  The lists in the files are sequences put
  one after the other (`Flattened`: all their items, each once).

Only model-checked: liveness
(`StageEnds` of `ScorchCC`, `Stops`, `Subscribes`, `Launched`), which the prover does not handle;
and the five violations, which are behaviours, not theorems.  The type invariants of `Mirror`,
`HostStats`, `Kafka`, `ScorchCC` and `ScorchRun` are proved and not run.

## 6. Not modelled

* The wind_turbine, caldera, protonuke and wireguard apps, and of ot-sim the
  front ends, clients and the rest of the configs: one pass that turns metadata
  into files through templates.  They keep no state, meet no other program, and
  write every file anew; what could be wrong is the content, which a model would
  only repeat.
* Of the sceptre app: sunspec, hardware in the loop, manual register maps, logic and
  the scripts that start programs; their contents refer to nothing else.
* The schedulers: one loop that assigns a field.
* The Go util package: lookups and decoding, used by their results.
* The scripts that run elsewhere: `csv_gen.py` of collector (a query that may fail)
  and those opcexport sends to a VM (a program that runs until it is killed).
* The helpers of `utils.py` for indices, addresses and templates; plugin discovery,
  gateways and hardware defaults of the scale app; dry runs.
* phenix, minimega, miniccc, Open vSwitch, Kafka and HELICS are outside the
  repository and are modelled by how this code uses them.
