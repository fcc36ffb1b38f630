---------------------------- MODULE KafkaProofs ----------------------------
(***************************************************************************)
(* Proofs about Kafka: for any topics lists, messages and bounds.          *)
(*                                                                         *)
(* FileInv says what the pid file and the process of the component know of *)
(* each other at each label; with it the three promises of the pid file    *)
(* (Tracked, CleanedUp, KillsOwn) are inductive, and with Reach the        *)
(* component implements Service.  OutputInv says what the output file and  *)
(* the listener that appends to it know of each other; with it and Tracked *)
(* the two promises about the file (RowsUnderHeader, NoDuplicates) are.    *)
(***************************************************************************)
EXTENDS Kafka, FiniteSetTheorems, SequenceTheorems, TLAPS

\* What the pid file holds at each label of the component's process.
FileInv ==
  /\ pc = "create" => ~exists
  /\ pc = "write" => exists /\ content = 0
  /\ pc = "remove" => exists /\ content = pid
  /\ pc = "kill" => ~exists \/ content = pid
  /\ ~exists => content = 0

\* A running listener is found in the pid file, or its pid is held.
Found ==
  \A l \in live \ orphan :
    \/ exists /\ content = l
    \/ pid = l /\ pc \in {"create", "write", "kill"}

\* Nothing runs unseen while the last finished stage is cleanup.
Quiet == clean => pc = "idle" /\ live \subseteq orphan

\* A pid in the file or in hand is the one of a listener that runs or that has
\* ended by itself; a pid of another process is not the one of a listener.
Owned ==
  /\ content # 0 => content \in live \cup stale
  /\ pid # 0 => pid \in live \cup stale
  /\ pc = "kill" /\ content # 0 => content \in stale
  /\ live \cap other = {}
  /\ victim \subseteq stale

----------------------------------------------------------------------------
(* Types *)

LEMMA EndType ==
  ASSUME ListenerTypeOK, NEW l, End(l)
  PROVE  ListenerTypeOK' /\ started' = started /\ live' = live \ {l}
<1>1. live' \subseteq 1..started' /\ started' = started
  BY DEF ListenerTypeOK, End
<1>2. at' \in [Listener -> {"topics", "consume"}]
  BY DEF ListenerTypeOK, End
<1>3. entry' \in [Listener -> Nat \ {0}]
  <2>1. entry \in [Listener -> Nat \ {0}] /\ 1 \in Nat \ {0}
    BY DEF ListenerTypeOK
  <2>2. entry' = [entry EXCEPT ![l] = 1]
    BY DEF End
  <2>. DEFINE N == Nat \ {0}
  <2>. HIDE DEF N
  <2>3. entry \in [Listener -> N] /\ 1 \in N
    BY <2>1 DEF N
  <2>4. entry' \in [Listener -> N]
    BY <2>2, <2>3
  <2>. QED  BY <2>4 DEF N
<1>4. sub' \in [Listener -> SUBSET Topic]
  BY DEF ListenerTypeOK, End
<1>5. late' \in [Listener -> BOOLEAN]
  BY DEF ListenerTypeOK, End
<1>6. header' \in [Listener -> SUBSET Column]
  BY DEF ListenerTypeOK, End
<1>7. inbox' \in [Listener -> SUBSET (1..MaxMessage)]
  BY DEF ListenerTypeOK, End
<1>. QED
  BY <1>1, <1>2, <1>3, <1>4, <1>5, <1>6, <1>7 DEF ListenerTypeOK, End, broker

LEMMA EntryType ==
  ASSUME NEW c \in Config
  PROVE  /\ Len(c.entries) \in Nat /\ DOMAIN c.entries = 1..Len(c.entries)
         /\ \A i \in 1..Len(c.entries) : c.entries[i] \in Entry
<1>1. c.entries \in Seq(Entry)
  BY KafkaAssumption DEF KafkaAssumption
<1>. QED  BY <1>1, LenProperties

LEMMA SentType ==
  ASSUME ListenerTypeOK, NEW l \in Listener, NEW n \in inbox[l], n \in DOMAIN sent
  PROVE  sent[n].keys \in SUBSET Column
<1>1. sent[n] \in Message
  BY LenProperties DEF ListenerTypeOK
<1>. QED  BY <1>1, KafkaAssumption DEF KafkaAssumption

\* What the broker has sent has been published.
Delivered == \A l \in Listener : inbox[l] \subseteq DOMAIN sent

LEMMA DeliveredStep ==
  ASSUME ListenerTypeOK, Delivered, [Next]_vars
  PROVE  Delivered'
<1>1. sent \in Seq(Message) /\ DOMAIN sent = 1..Len(sent) /\ Len(sent) \in Nat
  BY LenProperties DEF ListenerTypeOK
<1>. USE DEF Delivered
<1>2. CASE Publish
  <2>1. PICK m \in Message :
          /\ sent' = Append(sent, m)
          /\ inbox' = [l \in Listener |->
               IF l \in live /\ at[l] = "consume" /\ m.topic \in sub[l]
               THEN inbox[l] \cup {Len(sent) + 1} ELSE inbox[l]]
    BY <1>2 DEF Publish
  <2>2. DOMAIN sent' = 1..(Len(sent) + 1)
    <3>1. sent' \in Seq(Message) /\ Len(sent') = Len(sent) + 1
      BY <1>1, <2>1, AppendProperties
    <3>. QED  BY <3>1, LenProperties
  <2>. QED  BY <1>1, <2>1, <2>2
<1>3. ASSUME NEW l \in Listener, Consume(l)
      PROVE  Delivered'
  <2>1. PICK n \in inbox[l] : Read(l, n)
    BY <1>3 DEF Consume, Skip, StoreFirst, Store
  <2>2. inbox' = [inbox EXCEPT ![l] = @ \ {n}] /\ sent' = sent
    BY <2>1 DEF Read, broker
  <2>. QED  BY <2>2 DEF ListenerTypeOK
<1>4. ASSUME NEW l, End(l)
      PROVE  Delivered'
  BY <1>4 DEF End, broker, ListenerTypeOK
<1>5. CASE UNCHANGED <<inbox, sent>>
  BY <1>5
<1>. QED
  BY <1>2, <1>3, <1>4, <1>5
     DEF Next, vars, listenerVars, client, broker, Component, ConfigureStart,
         CleanupStart, AlreadyConfigured, Spawn, Launch, SpawnFails,
         CreateFile, WritePid, NoPid, ReadPid, RemoveFile, KillPid, Crash,
         Works, Plain, Wild, GiveUp, Subscribe, Nothing, Time, Deadline,
         Fails, Halt, OtherStarts, OtherEnds

\* Header lines and rows are lines.
LEMMA LineType ==
  ASSUME ListenerTypeOK, NEW c \in SUBSET Column, NEW n \in 0..MaxMessage
  PROVE  [msg |-> n, columns |-> c] \in Line
BY DEF Line

LEMMA ConsumeType ==
  ASSUME ListenerTypeOK, Delivered, NEW l \in Listener, Consume(l)
  PROVE  /\ header' \in [Listener -> SUBSET Column]
         /\ inbox' \in [Listener -> SUBSET (1..MaxMessage)]
         /\ file' \in Seq(Line)
         /\ UNCHANGED <<cfg, started, live, at, entry, sub, late, broker>>
<1>1. PICK n \in inbox[l] : Skip(l, n) \/ StoreFirst(l, n) \/ Store(l, n)
  BY DEF Consume
<1>2. n \in DOMAIN sent /\ n \in 1..MaxMessage
  BY <1>1 DEF Delivered, ListenerTypeOK
<1>3. sent[n].keys \in SUBSET Column
  BY <1>1, <1>2, SentType
<1>4. /\ inbox' \in [Listener -> SUBSET (1..MaxMessage)]
      /\ UNCHANGED <<cfg, started, live, at, entry, sub, late, broker>>
  BY <1>1 DEF Skip, StoreFirst, Store, Read, ListenerTypeOK
<1>5. n \in 0..MaxMessage /\ 0 \in 0..MaxMessage
  BY <1>2, KafkaAssumption DEF KafkaAssumption
<1>6. CASE Skip(l, n)
  BY <1>4, <1>6 DEF Skip, ListenerTypeOK
<1>7. CASE StoreFirst(l, n)
  <2>1. header' \in [Listener -> SUBSET Column]
    BY <1>3, <1>7 DEF StoreFirst, ListenerTypeOK
  <2>2. /\ Head_(sent[n].keys) \in Line
        /\ [msg |-> n, columns |-> sent[n].keys] \in Line
    BY <1>3, <1>5, LineType DEF Head_
  <2>. DEFINE both == <<Head_(sent[n].keys),
                        [msg |-> n, columns |-> sent[n].keys]>>
  <2>3. both \in Seq(Line)
    BY <2>2
  <2>4. file' = file \o both
    BY <1>7 DEF StoreFirst
  <2>5. file' \in Seq(Line)
    <3>. HIDE DEF both
    <3>. QED  BY <2>3, <2>4, ConcatProperties DEF ListenerTypeOK
  <2>. QED  BY <1>4, <2>1, <2>5
<1>8. CASE Store(l, n)
  <2>1. Row(l, n) \in Line
    <3>1. header[l] \in SUBSET Column
      BY DEF ListenerTypeOK
    <3>. QED  BY <1>3, <1>5, <3>1, LineType DEF Row
  <2>2. file' \in Seq(Line)
    BY <1>8, <2>1, AppendProperties DEF Store, ListenerTypeOK
  <2>. QED  BY <1>4, <1>8, <2>2 DEF Store, ListenerTypeOK
<1>. QED  BY <1>1, <1>6, <1>7, <1>8

LEMMA SearchType ==
  ASSUME ListenerTypeOK, NEW l \in Listener,
         Plain(l) \/ Wild(l) \/ GiveUp(l) \/ Subscribe(l)
  PROVE  /\ at' \in [Listener -> {"topics", "consume"}]
         /\ entry' \in [Listener -> Nat \ {0}]
         /\ sub' \in [Listener -> SUBSET Topic]
         /\ UNCHANGED <<cfg, started, live, late, header, inbox, broker, file>>
<1>1. cfg \in Config /\ entry[l] \in Nat /\ sub[l] \subseteq Topic
  BY DEF ListenerTypeOK
<1>2. CASE Plain(l) \/ Wild(l)
  <2>1. cfg.entries[entry[l]].names \subseteq Topic
    <3>1. l \in live /\ entry[l] <= Len(cfg.entries)
      BY <1>2 DEF Plain, Wild, AtEntry
    <3>2. entry[l] \in DOMAIN cfg.entries => cfg.entries[entry[l]] \in Entry
      BY <1>1, EntryType
    <3>3. entry[l] # 0
      BY DEF ListenerTypeOK
    <3>. QED  BY <1>1, <3>1, <3>2, <3>3, EntryType DEF Entry
  <2>2. sub' \in [Listener -> SUBSET Topic]
    BY <1>1, <1>2, <2>1 DEF Plain, Wild, ListenerTypeOK
  <2>3. entry' \in [Listener -> Nat \ {0}]
    BY <1>1, <1>2 DEF Plain, Wild, Next_, ListenerTypeOK
  <2>. QED  BY <1>1, <1>2, <2>2, <2>3 DEF Plain, Wild, ListenerTypeOK
<1>3. CASE GiveUp(l)
  BY <1>1, <1>3 DEF GiveUp, Next_, ListenerTypeOK
<1>4. CASE Subscribe(l)
  <2>1. sub' \in [Listener -> SUBSET Topic]
    BY <1>1, <1>4 DEF Subscribe, ListenerTypeOK
  <2>. QED  BY <1>4, <2>1 DEF Subscribe, ListenerTypeOK
<1>. QED  BY <1>2, <1>3, <1>4

LEMMA PublishType ==
  ASSUME ListenerTypeOK, Publish
  PROVE  /\ inbox' \in [Listener -> SUBSET (1..MaxMessage)]
         /\ topics' \subseteq Topic
         /\ sent' \in Seq(Message) /\ Len(sent') <= MaxMessage
         /\ UNCHANGED <<cfg, started, live, at, entry, sub, late, header, file>>
<1>1. PICK m \in Message :
        /\ sent' = Append(sent, m)
        /\ topics' = topics \cup {m.topic}
        /\ inbox' = [l \in Listener |->
             IF l \in live /\ at[l] = "consume" /\ m.topic \in sub[l]
             THEN inbox[l] \cup {Len(sent) + 1} ELSE inbox[l]]
  BY DEF Publish
<1>2. sent \in Seq(Message) /\ Len(sent) \in Nat /\ Len(sent) < MaxMessage
  BY LenProperties DEF ListenerTypeOK, Publish
<1>3. sent' \in Seq(Message) /\ Len(sent') = Len(sent) + 1
  BY <1>1, <1>2, AppendProperties
<1>4. Len(sent) + 1 \in 1..MaxMessage
  BY <1>2, KafkaAssumption DEF KafkaAssumption
<1>5. inbox' \in [Listener -> SUBSET (1..MaxMessage)]
  BY <1>1, <1>4 DEF ListenerTypeOK
<1>6. m.topic \in Topic
  BY KafkaAssumption DEF KafkaAssumption
<1>. QED
  BY <1>1, <1>2, <1>3, <1>4, <1>5, <1>6, KafkaAssumption
     DEF Publish, ListenerTypeOK, KafkaAssumption

LEMMA LaunchType ==
  ASSUME ListenerTypeOK, Launch, started < MaxListener
  PROVE  ListenerTypeOK' /\ started' = started + 1 /\ live' = live \cup {started'}
BY KafkaAssumption
   DEF ListenerTypeOK, Launch, KafkaAssumption, client, broker

LEMMA ListenerStepType ==
  ASSUME ListenerTypeOK, Delivered, NEW l \in Listener,
         \/ Plain(l) \/ Wild(l) \/ GiveUp(l) \/ Subscribe(l) \/ Consume(l)
         \/ Deadline(l) \/ Publish
  PROVE  ListenerTypeOK' /\ started' = started /\ live' = live
<1>1. CASE Plain(l) \/ Wild(l) \/ GiveUp(l) \/ Subscribe(l)
  BY <1>1, SearchType DEF ListenerTypeOK, broker
<1>2. CASE Consume(l)
  BY <1>2, ConsumeType DEF ListenerTypeOK, broker
<1>3. CASE Deadline(l)
  <2>1. late' \in [Listener -> BOOLEAN]
    BY <1>3 DEF Deadline, ListenerTypeOK
  <2>. QED  BY <1>3, <2>1 DEF Deadline, ListenerTypeOK, broker
<1>4. CASE Publish
  BY <1>4, PublishType DEF ListenerTypeOK
<1>. QED  BY <1>1, <1>2, <1>3, <1>4

\* Type correctness, for any metadata, messages and bounds.
THEOREM TypeCorrect == Spec => [](TypeOK /\ Delivered)
<1>1. Init => TypeOK /\ Delivered
  <2>. SUFFICES ASSUME Init PROVE TypeOK /\ Delivered
    OBVIOUS
  <2>1. sent \in Seq(Message) /\ Len(sent) = 0 /\ file \in Seq(Line)
    BY EmptySeq DEF Init, InitListener
  <2>2. 0 \in 0..MaxListener /\ 0 \in 0..MaxStage /\ 0 <= MaxMessage
    BY KafkaAssumption, StageAssumption DEF KafkaAssumption, StageAssumption
  <2>3. ListenerTypeOK
    BY <2>1, <2>2 DEF Init, InitListener, ListenerTypeOK
  <2>4. /\ started = 0 /\ pc = "idle" /\ pid = 0 /\ stages = 0 /\ exists = FALSE
        /\ content = 0 /\ other = {} /\ clean = FALSE /\ orphan = {}
        /\ stale = {} /\ victim = {}
    BY DEF Init, InitListener
  <2>5. 0 \in 0..started
    BY <2>4
  <2>6. TypeOK
    BY <2>2, <2>3, <2>4, <2>5 DEF TypeOK, Labels
  <2>. QED  BY <2>6 DEF Init, InitListener, Delivered
<1>2. TypeOK /\ Delivered /\ [Next]_vars => (TypeOK /\ Delivered)'
  <2>. SUFFICES ASSUME TypeOK, Delivered, [Next]_vars
                PROVE  TypeOK'
    BY DeliveredStep DEF TypeOK
  <2>0. ListenerTypeOK
    BY DEF TypeOK
  <2>01. UNCHANGED listenerVars => ListenerTypeOK' /\ started' = started
    BY <2>0 DEF listenerVars, client, broker, ListenerTypeOK
  <2>02. started \in Nat
    BY <2>0, KafkaAssumption DEF ListenerTypeOK, KafkaAssumption
  <2>03. pc \in {"create", "write", "remove", "kill"} =>
           pid # 0 /\ pid \in 1..started /\ {pid} \subseteq 1..started
    BY <2>02 DEF TypeOK
  <2>04. /\ orphan \subseteq 1..started /\ stale \subseteq 1..started
         /\ other \subseteq 1..started /\ exists \in BOOLEAN
         /\ content \in 0..started /\ 0 \in 0..started
         /\ pid \in 0..started
    BY <2>02 DEF TypeOK
  <2>. USE DEF history, Labels
  <2>1. CASE ConfigureStart \/ CleanupStart
    <3>1. stages' \in 0..MaxStage
      BY <2>1, StageAssumption
         DEF ConfigureStart, CleanupStart, TypeOK, StageAssumption
    <3>2. UNCHANGED <<listenerVars, pid, exists, content, other, orphan,
                      stale, victim>>
      BY <2>1 DEF ConfigureStart, CleanupStart
    <3>3. pc = "idle" /\ pc' \in {"configure", "cleanup"} /\ clean' = FALSE
      BY <2>1 DEF ConfigureStart, CleanupStart
    <3>. QED  BY <2>01, <3>1, <3>2, <3>3 DEF TypeOK
  <2>2. CASE AlreadyConfigured \/ SpawnFails
    BY <2>01, <2>02, <2>2 DEF AlreadyConfigured, SpawnFails, Finish, TypeOK
  <2>3. CASE Spawn
    <3>1. /\ ListenerTypeOK' /\ started' = started + 1
          /\ pc' = "create" /\ pid' = started'
          /\ UNCHANGED <<stages, exists, content, other, history>>
      BY <2>0, <2>3, LaunchType DEF Spawn
    <3>. QED  BY <2>02, <3>1 DEF TypeOK
  <2>4. CASE CreateFile
    <3>1. /\ UNCHANGED listenerVars /\ pid # 0 /\ orphan' \subseteq 1..started
          /\ UNCHANGED <<stages, other, clean, stale, victim>>
      BY <2>03, <2>04, <2>4 DEF CreateFile, Finish
    <3>2. /\ exists' \in BOOLEAN /\ content' \in 0..started
          /\ \/ pc' = "write" /\ pid' = pid
             \/ pc' = "idle" /\ pid' = 0
      BY <2>04, <2>4 DEF CreateFile, Finish
    <3>. QED  BY <2>01, <2>02, <3>1, <3>2 DEF TypeOK
  <2>5. CASE WritePid
    <3>1. /\ UNCHANGED listenerVars /\ pid # 0 /\ orphan' \subseteq 1..started
          /\ content' \in 0..started
          /\ UNCHANGED <<stages, exists, other, clean, stale, victim>>
      BY <2>03, <2>04, <2>5 DEF WritePid, Finish
    <3>2. pc' = "idle" /\ pid' = 0
      BY <2>5 DEF WritePid, Finish
    <3>. QED  BY <2>01, <2>02, <3>1, <3>2 DEF TypeOK
  <2>6. CASE NoPid
    BY <2>01, <2>02, <2>6 DEF NoPid, Finish, TypeOK
  <2>7. CASE ReadPid
    BY <2>01, <2>02, <2>7 DEF ReadPid, TypeOK
  <2>8. CASE RemoveFile
    <3>1. /\ UNCHANGED listenerVars /\ pid # 0 /\ stale' \subseteq 1..started
          /\ exists' \in BOOLEAN /\ content' \in 0..started
          /\ UNCHANGED <<pid, stages, other, clean, orphan, victim>>
      BY <2>03, <2>04, <2>8 DEF RemoveFile
    <3>2. pc' = "kill"
      BY <2>8 DEF RemoveFile
    <3>. QED  BY <2>01, <2>02, <3>1, <3>2 DEF TypeOK
  <2>9. CASE KillPid
    <3>1. ListenerTypeOK' /\ started' = started
      BY <2>0, <2>9, EndType DEF KillPid
    <3>. QED  BY <2>02, <2>9, <3>1 DEF KillPid, Finish, TypeOK
  <2>10. CASE Crash
    <3>1. orphan' \subseteq 1..started
      BY <2>02, <2>10 DEF Crash, TypeOK
    <3>. QED  BY <2>01, <2>02, <2>10, <3>1 DEF Crash, Finish, TypeOK
  <2>11. ASSUME NEW l \in Listener, Fails(l) \/ (Nothing(l) /\ Ended(l))
         PROVE  TypeOK'
    <3>1. End(l) /\ l \in live /\ Ended(l)
      BY <2>11 DEF Fails, Nothing, Halt
    <3>2. ListenerTypeOK' /\ started' = started /\ l \in 1..started
      BY <2>0, <3>1, EndType DEF ListenerTypeOK
    <3>. QED  BY <3>1, <3>2 DEF Ended, TypeOK, componentVars
  <2>12. ASSUME NEW l \in Listener,
                \/ Plain(l) \/ Wild(l) \/ GiveUp(l) \/ Subscribe(l)
                \/ Consume(l) \/ Deadline(l) \/ Publish,
                UNCHANGED <<componentVars, other, history>>
         PROVE  TypeOK'
    BY <2>0, <2>12, ListenerStepType DEF TypeOK, componentVars
  <2>13. CASE Publish /\ UNCHANGED <<componentVars, other, history>>
    <3>1. ListenerTypeOK' /\ started' = started
      BY <2>0, <2>13, PublishType DEF ListenerTypeOK
    <3>. QED  BY <2>13, <3>1 DEF TypeOK, componentVars
  <2>14. ASSUME NEW p \in Listener, OtherStarts(p) \/ OtherEnds(p)
         PROVE  TypeOK'
    <3>1. other' \subseteq 1..started
      <4>1. CASE OtherStarts(p)
        <5>1. p \in 1..started
          BY <2>02, <4>1 DEF OtherStarts, Listener
        <5>. QED  BY <2>04, <4>1, <5>1 DEF OtherStarts
      <4>2. CASE OtherEnds(p)
        BY <2>04, <4>2 DEF OtherEnds
      <4>. QED  BY <2>14, <4>1, <4>2
    <3>. QED
      BY <2>01, <2>14, <3>1 DEF OtherStarts, OtherEnds, TypeOK, componentVars
  <2>15. CASE UNCHANGED vars
    BY <2>01, <2>15 DEF vars, TypeOK, componentVars
  <2>. QED
    BY <2>1, <2>2, <2>3, <2>4, <2>5, <2>6, <2>7, <2>8, <2>9, <2>10, <2>11,
       <2>12, <2>13, <2>14, <2>15 DEF Next, Component, Works, Time
<1>. QED  BY <1>1, <1>2, PTL DEF Spec

----------------------------------------------------------------------------
(* The pid file *)

PidInv == FileInv /\ Found /\ Quiet /\ Owned

LEMMA PidTypes ==
  ASSUME TypeOK
  PROVE  /\ started \in Nat /\ live \subseteq 1..started
         /\ pid \in 0..started /\ content \in 0..started
         /\ other \subseteq 1..started
         /\ pid = 0 <=> pc \in {"idle", "configure", "cleanup"}
BY KafkaAssumption DEF TypeOK, ListenerTypeOK, KafkaAssumption

\* Steps of listeners, and of nothing the pid file is about.
LEMMA ListenerKinds ==
  ASSUME TypeOK, NEW l \in Listener, Works(l) \/ Time(l) \/ Fails(l)
  PROVE  /\ UNCHANGED <<componentVars, other, clean, orphan, victim>>
         /\ \/ live' = live /\ stale' = stale
            \/ live' = live \ {l} /\ stale' = stale \cup {l}
<1>1. CASE Fails(l) \/ (Nothing(l) /\ Ended(l))
  BY <1>1 DEF Fails, Nothing, Halt, End, Ended
<1>2. CASE /\ Plain(l) \/ Wild(l) \/ GiveUp(l) \/ Subscribe(l) \/ Consume(l)
           /\ UNCHANGED <<componentVars, other, history>>
  <2>1. live' = live
    BY <1>2 DEF Plain, Wild, GiveUp, Subscribe, Consume, Skip, StoreFirst,
                Store, Read
  <2>. QED  BY <1>2, <2>1 DEF history
<1>3. CASE Time(l)
  BY <1>3 DEF Time, Deadline, history
<1>. QED  BY <1>1, <1>2, <1>3 DEF Works

LEMMA FileInvStep ==
  ASSUME TypeOK, PidInv, [Next]_vars
  PROVE  FileInv'
<1>. USE PidTypes DEF PidInv, FileInv, history, listenerVars
<1>1. CASE ConfigureStart
  BY <1>1 DEF ConfigureStart
<1>2. CASE CleanupStart
  BY <1>2 DEF CleanupStart
<1>3. CASE AlreadyConfigured
  BY <1>3 DEF AlreadyConfigured, Finish
<1>4. CASE Spawn
  BY <1>4 DEF Spawn, Launch
<1>5. CASE SpawnFails
  BY <1>5 DEF SpawnFails, Finish
<1>6. CASE CreateFile
  BY <1>6 DEF CreateFile, Finish
<1>7. CASE WritePid
  BY <1>7 DEF WritePid, Finish
<1>8. CASE NoPid
  BY <1>8 DEF NoPid, Finish
<1>9. CASE ReadPid
  BY <1>9 DEF ReadPid
<1>10. CASE RemoveFile
  BY <1>10 DEF RemoveFile
<1>11. CASE KillPid
  BY <1>11 DEF KillPid, Finish, End
<1>12. CASE Crash
  BY <1>12 DEF Crash, Finish
<1>13. ASSUME NEW l \in Listener, Works(l) \/ Time(l) \/ Fails(l)
      PROVE  FileInv'
  BY <1>13, ListenerKinds DEF componentVars
<1>14. ASSUME NEW p \in Listener, OtherStarts(p) \/ OtherEnds(p)
      PROVE  FileInv'
  BY <1>14 DEF OtherStarts, OtherEnds, componentVars
<1>15. CASE Publish /\ UNCHANGED <<componentVars, other, history>>
  BY <1>15 DEF Publish, componentVars
<1>16. CASE UNCHANGED vars
  BY <1>16 DEF vars, componentVars
<1>. QED
  BY <1>1, <1>2, <1>3, <1>4, <1>5, <1>6, <1>7, <1>8, <1>9, <1>10, <1>11,
     <1>12, <1>13, <1>14, <1>15, <1>16
     DEF Next, Component

LEMMA FoundStep ==
  ASSUME TypeOK, PidInv, [Next]_vars
  PROVE  Found'
<1>. USE PidTypes DEF PidInv, Found, history, listenerVars
<1>1. CASE ConfigureStart
  BY <1>1 DEF ConfigureStart, FileInv
<1>2. CASE CleanupStart
  BY <1>2 DEF CleanupStart, FileInv
<1>3. CASE AlreadyConfigured
  BY <1>3 DEF AlreadyConfigured, Finish, FileInv
<1>4. CASE Spawn
  BY <1>4 DEF Spawn, Launch, FileInv
<1>5. CASE SpawnFails
  BY <1>5 DEF SpawnFails, Finish, FileInv
<1>6. CASE CreateFile
  BY <1>6 DEF CreateFile, Finish, FileInv
<1>7. CASE WritePid
  BY <1>7 DEF WritePid, Finish, FileInv
<1>8. CASE NoPid
  BY <1>8 DEF NoPid, Finish, FileInv
<1>9. CASE ReadPid
  BY <1>9 DEF ReadPid, FileInv
<1>10. CASE RemoveFile
  BY <1>10 DEF RemoveFile, FileInv
<1>11. CASE KillPid
  BY <1>11 DEF KillPid, Finish, End, FileInv
<1>12. CASE Crash
  BY <1>12 DEF Crash, Finish, FileInv
<1>13. ASSUME NEW l \in Listener, Works(l) \/ Time(l) \/ Fails(l)
      PROVE  Found'
  BY <1>13, ListenerKinds DEF componentVars
<1>14. ASSUME NEW p \in Listener, OtherStarts(p) \/ OtherEnds(p)
      PROVE  Found'
  BY <1>14 DEF OtherStarts, OtherEnds, componentVars
<1>15. CASE Publish /\ UNCHANGED <<componentVars, other, history>>
  BY <1>15 DEF Publish, componentVars
<1>16. CASE UNCHANGED vars
  BY <1>16 DEF vars, componentVars
<1>. QED
  BY <1>1, <1>2, <1>3, <1>4, <1>5, <1>6, <1>7, <1>8, <1>9, <1>10, <1>11,
     <1>12, <1>13, <1>14, <1>15, <1>16
     DEF Next, Component

LEMMA QuietStep ==
  ASSUME TypeOK, PidInv, [Next]_vars
  PROVE  Quiet'
<1>. USE PidTypes DEF PidInv, Quiet, history, listenerVars
<1>1. CASE ConfigureStart
  BY <1>1 DEF ConfigureStart, Found, FileInv
<1>2. CASE CleanupStart
  BY <1>2 DEF CleanupStart, Found, FileInv
<1>3. CASE AlreadyConfigured
  BY <1>3 DEF AlreadyConfigured, Finish, Found, FileInv
<1>4. CASE Spawn
  BY <1>4 DEF Spawn, Launch, Found, FileInv
<1>5. CASE SpawnFails
  BY <1>5 DEF SpawnFails, Finish, Found, FileInv
<1>6. CASE CreateFile
  BY <1>6 DEF CreateFile, Finish, Found, FileInv
<1>7. CASE WritePid
  BY <1>7 DEF WritePid, Finish, Found, FileInv
<1>8. CASE NoPid
  BY <1>8 DEF NoPid, Finish, Found, FileInv
<1>9. CASE ReadPid
  BY <1>9 DEF ReadPid, Found, FileInv
<1>10. CASE RemoveFile
  BY <1>10 DEF RemoveFile, Found, FileInv
<1>11. CASE KillPid
  BY <1>11 DEF KillPid, Finish, End, Found, FileInv
<1>12. CASE Crash
  BY <1>12 DEF Crash, Finish, Found, FileInv
<1>13. ASSUME NEW l \in Listener, Works(l) \/ Time(l) \/ Fails(l)
      PROVE  Quiet'
  BY <1>13, ListenerKinds DEF componentVars
<1>14. ASSUME NEW p \in Listener, OtherStarts(p) \/ OtherEnds(p)
      PROVE  Quiet'
  BY <1>14 DEF OtherStarts, OtherEnds, componentVars
<1>15. CASE Publish /\ UNCHANGED <<componentVars, other, history>>
  BY <1>15 DEF Publish, componentVars
<1>16. CASE UNCHANGED vars
  BY <1>16 DEF vars, componentVars
<1>. QED
  BY <1>1, <1>2, <1>3, <1>4, <1>5, <1>6, <1>7, <1>8, <1>9, <1>10, <1>11,
     <1>12, <1>13, <1>14, <1>15, <1>16
     DEF Next, Component

LEMMA OwnedStep ==
  ASSUME TypeOK, PidInv, [Next]_vars
  PROVE  Owned'
<1>. USE PidTypes DEF PidInv, Owned, history, listenerVars
<1>1. CASE ConfigureStart
  BY <1>1 DEF ConfigureStart, FileInv
<1>2. CASE CleanupStart
  BY <1>2 DEF CleanupStart, FileInv
<1>3. CASE AlreadyConfigured
  BY <1>3 DEF AlreadyConfigured, Finish, FileInv
<1>4. CASE Spawn
  BY <1>4 DEF Spawn, Launch, FileInv
<1>5. CASE SpawnFails
  BY <1>5 DEF SpawnFails, Finish, FileInv
<1>6. CASE CreateFile
  BY <1>6 DEF CreateFile, Finish, FileInv
<1>7. CASE WritePid
  BY <1>7 DEF WritePid, Finish, FileInv
<1>8. CASE NoPid
  BY <1>8 DEF NoPid, Finish, FileInv
<1>9. CASE ReadPid
  BY <1>9 DEF ReadPid, FileInv
<1>10. CASE RemoveFile
  BY <1>10 DEF RemoveFile, FileInv
<1>11. CASE KillPid
  BY <1>11 DEF KillPid, Finish, End, FileInv
<1>12. CASE Crash
  BY <1>12 DEF Crash, Finish, FileInv
<1>13. ASSUME NEW l \in Listener, Works(l) \/ Time(l) \/ Fails(l)
      PROVE  Owned'
  BY <1>13, ListenerKinds DEF componentVars
<1>14. ASSUME NEW p \in Listener, OtherStarts(p) \/ OtherEnds(p)
      PROVE  Owned'
  BY <1>14 DEF OtherStarts, OtherEnds, componentVars
<1>15. CASE Publish /\ UNCHANGED <<componentVars, other, history>>
  BY <1>15 DEF Publish, componentVars
<1>16. CASE UNCHANGED vars
  BY <1>16 DEF vars, componentVars
<1>. QED
  BY <1>1, <1>2, <1>3, <1>4, <1>5, <1>6, <1>7, <1>8, <1>9, <1>10, <1>11,
     <1>12, <1>13, <1>14, <1>15, <1>16
     DEF Next, Component

LEMMA PidInvHolds == Spec => []PidInv
<1>1. Init => PidInv
  BY DEF Init, InitListener, PidInv, FileInv, Found, Quiet, Owned
<1>2. TypeOK /\ PidInv /\ [Next]_vars => PidInv'
  BY FileInvStep, FoundStep, QuietStep, OwnedStep DEF PidInv
<1>. QED  BY <1>1, <1>2, TypeCorrect, PTL DEF Spec

\* A running listener is in the pid file or in the hands of a process of the
\* component, except those a fault has lost; so there is at most one.
THEOREM TrackedHolds == Spec => []Tracked
<1>1. TypeOK /\ PidInv => Tracked
  <2>. SUFFICES ASSUME TypeOK, PidInv
                PROVE  Cardinality(live \ orphan) <= 1
    BY DEF Tracked, PidInv, Found
  <2>1. \A x, y \in live \ orphan : x = y
    BY PidTypes DEF PidInv, Found, FileInv
  <2>2. CASE live \ orphan = {}
    BY <2>2, FS_EmptySet
  <2>3. ASSUME NEW x \in live \ orphan
        PROVE  Cardinality(live \ orphan) <= 1
    <3>1. live \ orphan = {x}
      BY <2>1, <2>3
    <3>2. Cardinality({x}) = 1
      BY FS_Singleton
    <3>. QED  BY <3>1, <3>2
  <2>. QED  BY <2>2, <2>3
<1>. QED  BY <1>1, TypeCorrect, PidInvHolds, PTL

\* After cleanup nothing runs that was not lost before.
THEOREM CleanedUpHolds == Spec => []CleanedUp
<1>1. PidInv => CleanedUp
  BY DEF PidInv, Quiet, CleanedUp
<1>. QED  BY <1>1, PidInvHolds, PTL

\* cleanup kills another process only over a stale pid.
THEOREM KillsOwnHolds == Spec => []KillsOwn
<1>1. PidInv => KillsOwn
  BY DEF PidInv, Owned, KillsOwn
<1>. QED  BY <1>1, PidInvHolds, PTL

----------------------------------------------------------------------------
(* The abstract specification *)

\* A pid in the file or in hand is not the one of a listener that was lost.
Reach ==
  /\ content # 0 => content \notin orphan
  /\ pid # 0 => pid \notin orphan

LEMMA ReachStep ==
  ASSUME TypeOK, PidInv, Reach, [Next]_vars
  PROVE  Reach'
<1>. USE PidTypes DEF PidInv, Reach, history, listenerVars
<1>1. CASE ConfigureStart \/ CleanupStart
  BY <1>1 DEF ConfigureStart, CleanupStart
<1>2. CASE AlreadyConfigured \/ SpawnFails
  BY <1>2 DEF AlreadyConfigured, SpawnFails, Finish
<1>3. CASE Spawn
  BY <1>3 DEF Spawn, TypeOK
<1>4. CASE CreateFile
  BY <1>4 DEF CreateFile, Finish, FileInv
<1>5. CASE WritePid
  BY <1>5 DEF WritePid, Finish, FileInv
<1>6. CASE NoPid \/ ReadPid
  BY <1>6 DEF NoPid, ReadPid, Finish
<1>7. CASE RemoveFile
  BY <1>7 DEF RemoveFile
<1>8. CASE KillPid
  BY <1>8 DEF KillPid, Finish
<1>9. CASE Crash
  BY <1>9 DEF Crash, Finish, FileInv
<1>10. ASSUME NEW l \in Listener, Works(l) \/ Time(l) \/ Fails(l)
       PROVE  Reach'
  BY <1>10, ListenerKinds DEF componentVars
<1>11. ASSUME NEW p \in Listener, OtherStarts(p) \/ OtherEnds(p)
       PROVE  Reach'
  BY <1>11 DEF OtherStarts, OtherEnds, componentVars
<1>12. CASE (Publish /\ UNCHANGED <<componentVars, other, history>>)
              \/ UNCHANGED vars
  BY <1>12 DEF vars, componentVars
<1>. QED
  BY <1>1, <1>2, <1>3, <1>4, <1>5, <1>6, <1>7, <1>8, <1>9, <1>10, <1>11,
     <1>12 DEF Next, Component

LEMMA ReachHolds == Spec => []Reach
<1>1. Init => Reach
  BY DEF Init, Reach
<1>2. TypeOK /\ PidInv /\ Reach /\ [Next]_vars => Reach'
  BY ReachStep
<1>. QED  BY <1>1, <1>2, TypeCorrect, PidInvHolds, PTL DEF Spec

\* What is on is one listener at most.
LEMMA OneOn ==
  ASSUME TypeOK, PidInv
  PROVE  \A x, y \in live \ orphan : x = y
BY PidTypes DEF PidInv, Found, FileInv

\* Steps after which the same listeners are within reach, or out of it.
LEMMA Stutters ==
  ASSUME UNCHANGED <<live, orphan, clean>>, Stage' = Stage
  PROVE  UNCHANGED OnOff!vars
BY DEF OnOff!vars

\* A step that ends the stage and gives up a pid: nothing, or what was on, is
\* lost.
LEMMA GivesUp ==
  ASSUME TypeOK, PidInv, Stage # "idle", Stage' = "idle",
         UNCHANGED <<live, clean>>,
         orphan' = orphan \/ (orphan' = orphan \cup {pid} /\ pid # 0)
  PROVE  OnOff!Next
<1>. DEFINE On == live \ orphan
<1>1. CASE (live \ orphan)' = On
  <2>1. (live \cap orphan)' = live \cap orphan
    BY <1>1
  <2>. QED  BY <1>1, <2>1 DEF OnOff!Next, OnOff!Return
<1>2. CASE (live \ orphan)' # On
  <2>1. orphan' = orphan \cup {pid} /\ pid \in On
    BY <1>2
  <2>2. On = {pid}
    BY <2>1, OneOn
  <2>3. (live \ orphan)' = {} /\ (live \cap orphan)' = (live \cap orphan) \cup On
    BY <2>1, <2>2
  <2>. QED  BY <2>3 DEF OnOff!Next, OnOff!Lose
<1>. QED  BY <1>1, <1>2

LEMMA ServiceStep ==
  ASSUME TypeOK, PidInv, Reach, [Next]_vars
  PROVE  [OnOff!Next]_(OnOff!vars)
<1>. USE DEF history, listenerVars
<1>1. CASE ConfigureStart \/ CleanupStart
  <2>1. OnOff!Begin
    BY <1>1 DEF ConfigureStart, CleanupStart, OnOff!Begin, Stage
  <2>. QED  BY <2>1 DEF OnOff!Next
<1>2. CASE AlreadyConfigured \/ SpawnFails
  <2>1. OnOff!Return
    BY <1>2 DEF AlreadyConfigured, SpawnFails, Finish, OnOff!Return, Stage
  <2>. QED  BY <2>1 DEF OnOff!Next
<1>3. CASE Spawn
  <2>1. live \ orphan = {}
    BY <1>3, PidTypes DEF Spawn, PidInv, Found
  <2>2. started + 1 \notin orphan /\ started + 1 \in Listener
    BY <1>3, PidTypes, KafkaAssumption
       DEF Spawn, TypeOK, Listener, KafkaAssumption
  <2>3. /\ live' = live \cup {started + 1} /\ UNCHANGED <<orphan, clean>>
        /\ pc = "configure" /\ pc' = "create"
    BY <1>3 DEF Spawn, Launch
  <2>4. /\ (live \ orphan)' = {started + 1}
        /\ (live \cap orphan)' = live \cap orphan
    BY <2>1, <2>2, <2>3
  <2>5. OnOff!SwitchOn
    BY <2>1, <2>2, <2>3, <2>4 DEF OnOff!SwitchOn, Stage
  <2>. QED  BY <2>5 DEF OnOff!Next
<1>4. CASE CreateFile \/ WritePid
  <2>1. CASE pc' = "write"
    <3>1. UNCHANGED <<live, orphan, clean>> /\ Stage' = Stage
      BY <1>4, <2>1 DEF CreateFile, WritePid, Finish, Stage
    <3>. QED  BY <3>1, Stutters
  <2>2. CASE pc' # "write"
    <3>1. pid # 0
      BY <1>4, PidTypes DEF CreateFile, WritePid
    <3>2. /\ UNCHANGED <<live, clean>> /\ Stage # "idle" /\ Stage' = "idle"
          /\ orphan' = orphan \/ orphan' = orphan \cup {pid}
      BY <1>4, <2>2 DEF CreateFile, WritePid, Finish, Stage
    <3>. QED  BY <3>1, <3>2, GivesUp
  <2>. QED  BY <2>1, <2>2
<1>5. CASE NoPid
  <2>1. live \ orphan = {}
    BY <1>5, PidTypes DEF NoPid, PidInv, Found, FileInv
  <2>2. OnOff!SwitchOff
    BY <1>5, <2>1 DEF NoPid, Finish, OnOff!SwitchOff, Stage
  <2>. QED  BY <2>2 DEF OnOff!Next
<1>6. CASE ReadPid \/ RemoveFile
  <2>1. UNCHANGED <<live, orphan, clean>> /\ Stage' = Stage
    BY <1>6 DEF ReadPid, RemoveFile, Stage
  <2>. QED  BY <2>1, Stutters
<1>7. CASE KillPid
  <2>1. live \ orphan \subseteq {pid} /\ pid \notin orphan
    BY <1>7, PidTypes DEF KillPid, PidInv, Found, FileInv, Owned, Reach
  <2>2. live' = live \ {pid} /\ UNCHANGED orphan
    BY <1>7 DEF KillPid, End
  <2>3. (live \ orphan)' = {} /\ (live \cap orphan)' = live \cap orphan
    BY <2>1, <2>2
  <2>4. OnOff!SwitchOff
    BY <1>7, <2>3 DEF KillPid, Finish, OnOff!SwitchOff, Stage
  <2>. QED  BY <2>4 DEF OnOff!Next
<1>8. CASE Crash
  <2>1. /\ UNCHANGED <<live, clean>>
        /\ orphan' = orphan \/ (orphan' = orphan \cup {pid} /\ pid # 0)
    BY <1>8 DEF Crash
  <2>2. Stage # "idle" /\ Stage' = "idle"
    BY <1>8 DEF Crash, Finish, TypeOK, Labels, Stage
  <2>. QED  BY <2>1, <2>2, GivesUp
<1>9. ASSUME NEW l \in Listener, Works(l) \/ Time(l) \/ Fails(l)
      PROVE  [OnOff!Next]_(OnOff!vars)
  <2>1. /\ UNCHANGED <<orphan, clean>> /\ Stage' = Stage
        /\ live' = live \/ live' = live \ {l}
    BY <1>9, ListenerKinds DEF componentVars, Stage
  <2>2. CASE live' = live
    BY <2>1, <2>2, Stutters
  <2>3. CASE l \in live \cap orphan /\ live' = live \ {l}
    <3>1. /\ (live \ orphan)' = live \ orphan
          /\ (live \cap orphan)' = (live \cap orphan) \ {l}
      BY <2>1, <2>3
    <3>2. OnOff!EndsByItself
      BY <2>1, <2>3, <3>1 DEF OnOff!EndsByItself
    <3>. QED  BY <3>2 DEF OnOff!Next
  <2>4. CASE l \in live \ orphan /\ live' = live \ {l}
    <3>1. live \ orphan = {l}
      BY <2>4, OneOn
    <3>2. (live \ orphan)' = {} /\ (live \cap orphan)' = live \cap orphan
      BY <2>1, <2>4, <3>1
    <3>3. OnOff!EndsByItself
      BY <2>1, <3>2 DEF OnOff!EndsByItself
    <3>. QED  BY <3>3 DEF OnOff!Next
  <2>5. CASE l \notin live
    BY <2>1, <2>5, <2>2
  <2>. QED  BY <2>1, <2>2, <2>3, <2>4, <2>5
<1>10. ASSUME NEW p \in Listener, OtherStarts(p) \/ OtherEnds(p)
       PROVE  [OnOff!Next]_(OnOff!vars)
  <2>1. UNCHANGED <<live, orphan, clean>> /\ Stage' = Stage
    BY <1>10 DEF OtherStarts, OtherEnds, componentVars, Stage
  <2>. QED  BY <2>1, Stutters
<1>11. CASE (Publish /\ UNCHANGED <<componentVars, other, history>>)
              \/ UNCHANGED vars
  <2>1. UNCHANGED <<live, orphan, clean>> /\ Stage' = Stage
    BY <1>11 DEF Publish, vars, componentVars, Stage
  <2>. QED  BY <2>1, Stutters
<1>. QED
  BY <1>1, <1>2, <1>3, <1>4, <1>5, <1>6, <1>7, <1>8, <1>9, <1>10, <1>11
     DEF Next, Component

\* The component, its pid file and its listeners implement the on and off of
\* Service, for any topics lists, however many listeners, stages and faults.
THEOREM ServiceImplemented == Spec => ImplementsService
<1>1. Init => OnOff!Init
  BY DEF Init, InitListener, OnOff!Init, Stage
<1>2. TypeOK /\ PidInv /\ Reach /\ [Next]_vars => [OnOff!Next]_(OnOff!vars)
  BY ServiceStep
<1>. QED
  BY <1>1, <1>2, TypeCorrect, PidInvHolds, ReachHolds, PTL
     DEF Spec, ImplementsService, OnOff!Spec

----------------------------------------------------------------------------
(* The output file *)

\* Every row of f has the columns of the last header above it.
Ruled(f) ==
  \A i \in DOMAIN f : f[i].msg # 0 =>
    \E h \in 1..i : /\ f[h].msg = 0
                    /\ f[h].columns = f[i].columns
                    /\ \A k \in h + 1..i : f[k].msg # 0

\* The last header of f has columns c.
Ends(f, c) ==
  \E h \in DOMAIN f : /\ f[h].msg = 0
                      /\ f[h].columns = c
                      /\ \A k \in h + 1..Len(f) : f[k].msg # 0

\* No message is twice in f.
Once(f) ==
  \A i, k \in DOMAIN f : f[i].msg = f[k].msg /\ f[i].msg # 0 => i = k

\* A pid that no listener runs under has no writer and no messages: a listener
\* begins with neither.
Resting == \A l \in Listener \ live : header[l] = {} /\ inbox[l] = {}

\* While no listener is lost, the last header of the file is the one of the
\* listener that runs.
Rows ==
  cfg.csv /\ orphan = {} =>
    Ruled(file) /\ \A l \in live : header[l] # {} => Ends(file, header[l])

\* What the listener that runs has not read is not in the file, nor is what
\* has not been published.
Unread ==
  /\ \A i \in DOMAIN file : file[i].msg <= Len(sent)
  /\ orphan = {} =>
       /\ Once(file)
       /\ \A l \in live : \A n \in inbox[l] :
            \A i \in DOMAIN file : file[i].msg # n

OutputInv == Resting /\ Rows /\ Unread

LEMMA Appended ==
  ASSUME NEW f \in Seq(Line), NEW x \in Line
  PROVE  /\ Len(f) \in Nat /\ DOMAIN f = 1..Len(f)
         /\ \A i \in DOMAIN f : f[i] \in Line
         /\ Append(f, x) \in Seq(Line)
         /\ Len(Append(f, x)) = Len(f) + 1
         /\ DOMAIN Append(f, x) = 1..(Len(f) + 1)
         /\ \A i \in 1..Len(f) : Append(f, x)[i] = f[i]
         /\ Append(f, x)[Len(f) + 1] = x
<1>1. Len(f) \in Nat /\ DOMAIN f = 1..Len(f)
  BY LenProperties
<1>2. \A i \in DOMAIN f : f[i] \in Line
  BY <1>1, ElementOfSeq
<1>3. Append(f, x) \in Seq(Line) /\ Len(Append(f, x)) = Len(f) + 1
  BY AppendProperties
<1>4. DOMAIN Append(f, x) = 1..(Len(f) + 1)
  BY <1>3, LenProperties
<1>5. \A i \in 1..Len(f) : Append(f, x)[i] = f[i]
  BY AppendProperties
<1>6. Append(f, x)[Len(f) + 1] = x
  BY AppendProperties
<1>. QED  BY <1>1, <1>2, <1>3, <1>4, <1>5, <1>6

\* A row under the header it belongs to keeps the file in order.
LEMMA RowAppended ==
  ASSUME NEW f \in Seq(Line), NEW n \in (0..MaxMessage) \ {0},
         NEW c \in SUBSET Column, Ruled(f), Ends(f, c)
  PROVE  LET g == Append(f, [msg |-> n, columns |-> c])
         IN Ruled(g) /\ Ends(g, c)
<1>. DEFINE x == [msg |-> n, columns |-> c]
            g == Append(f, x)
            N == Len(f)
<1>1. x \in Line
  BY DEF Line
<1>2. x.msg # 0 /\ x.columns = c
  OBVIOUS
<1>3. /\ N \in Nat /\ DOMAIN f = 1..N /\ DOMAIN g = 1..(N + 1) /\ Len(g) = N + 1
      /\ \A i \in 1..N : g[i] = f[i]
      /\ g[N + 1] = x
  BY <1>1, Appended
<1>. HIDE DEF x, g, N
<1>4. PICK h \in 1..N : /\ f[h].msg = 0 /\ f[h].columns = c
                        /\ \A k \in h + 1..N : f[k].msg # 0
  BY <1>3 DEF Ends, N
<1>5. /\ h \in 1..(N + 1) /\ g[h].msg = 0 /\ g[h].columns = c
      /\ \A k \in h + 1..(N + 1) : g[k].msg # 0
  <2>1. \A k \in h + 1..(N + 1) : k \in h + 1..N \/ k = N + 1
    BY <1>3
  <2>2. \A k \in h + 1..N : k \in 1..N
    BY <1>3
  <2>. QED  BY <1>2, <1>3, <1>4, <2>1, <2>2
<1>6. Ends(g, c)
  BY <1>3, <1>5 DEF Ends
<1>7. ASSUME NEW i \in 1..(N + 1), g[i].msg # 0
      PROVE  \E j \in 1..i : /\ g[j].msg = 0 /\ g[j].columns = g[i].columns
                             /\ \A k \in j + 1..i : g[k].msg # 0
  <2>1. CASE i = N + 1
    BY <1>2, <1>3, <1>5, <2>1
  <2>2. CASE i \in 1..N
    <3>1. PICK j \in 1..i : /\ f[j].msg = 0 /\ f[j].columns = f[i].columns
                            /\ \A k \in j + 1..i : f[k].msg # 0
      BY <1>3, <1>7, <2>2 DEF Ruled
    <3>2. j \in 1..N /\ \A k \in j + 1..i : k \in 1..N
      BY <1>3, <2>2
    <3>. QED  BY <1>3, <2>2, <3>1, <3>2
  <2>. QED  BY <1>3, <2>1, <2>2
<1>8. Ruled(g)
  BY <1>3, <1>7 DEF Ruled
<1>. QED  BY <1>6, <1>8 DEF g, x

\* A header may come at any time: it rules the rows after it.
LEMMA HeaderAppended ==
  ASSUME NEW f \in Seq(Line), NEW c \in SUBSET Column, Ruled(f)
  PROVE  LET g == Append(f, Head_(c)) IN Ruled(g) /\ Ends(g, c)
<1>. DEFINE x == Head_(c)
            g == Append(f, x)
            N == Len(f)
<1>1. x \in Line /\ x.msg = 0 /\ x.columns = c
  BY KafkaAssumption DEF KafkaAssumption, Line, Head_
<1>2. /\ N \in Nat /\ DOMAIN f = 1..N /\ DOMAIN g = 1..(N + 1) /\ Len(g) = N + 1
      /\ \A i \in 1..N : g[i] = f[i]
      /\ g[N + 1] = x
  BY <1>1, Appended
<1>. HIDE DEF x, g, N
<1>3. Ends(g, c)
  BY <1>1, <1>2 DEF Ends
<1>4. ASSUME NEW i \in 1..(N + 1), g[i].msg # 0
      PROVE  \E j \in 1..i : /\ g[j].msg = 0 /\ g[j].columns = g[i].columns
                             /\ \A k \in j + 1..i : g[k].msg # 0
  <2>1. i \in 1..N
    BY <1>1, <1>2, <1>4
  <2>2. PICK j \in 1..i : /\ f[j].msg = 0 /\ f[j].columns = f[i].columns
                          /\ \A k \in j + 1..i : f[k].msg # 0
    BY <1>2, <1>4, <2>1 DEF Ruled
  <2>3. j \in 1..N /\ \A k \in j + 1..i : k \in 1..N
    BY <1>2, <2>1
  <2>. QED  BY <1>2, <2>1, <2>2, <2>3
<1>5. Ruled(g)
  BY <1>2, <1>4 DEF Ruled
<1>. QED  BY <1>3, <1>5 DEF g, x

\* Header and row of StoreFirst, one after the other.
LEMMA TwoAppended ==
  ASSUME NEW f \in Seq(Line), NEW x \in Line, NEW y \in Line
  PROVE  f \o <<x, y>> = Append(Append(f, x), y)
<1>. DEFINE a == <<x>>
            b == <<y>>
<1>1. a \in Seq(Line) /\ b \in Seq(Line)
  OBVIOUS
<1>2. a \o b = <<x, y>>
  <2>1. Append(a, y) = <<x, y>>
    <3>. DEFINE c == Append(a, y)
                d == <<x, y>>
    <3>1. Len(a) = 1 /\ a[1] = x
      OBVIOUS
    <3>2. d \in Seq(Line) /\ Len(d) = 2 /\ d[1] = x /\ d[2] = y
      OBVIOUS
    <3>3. c \in Seq(Line) /\ Len(c) = 2 /\ c[1] = x /\ c[2] = y
      <4>. HIDE DEF a
      <4>1. /\ c \in Seq(Line) /\ Len(c) = Len(a) + 1
            /\ \A i \in 1..Len(a) : c[i] = a[i]
            /\ c[Len(a) + 1] = y
        BY <1>1, Appended
      <4>. HIDE DEF c
      <4>. QED  BY <3>1, <4>1
    <3>. HIDE DEF c, d
    <3>4. \A i \in 1..Len(c) : c[i] = d[i]
      BY <3>2, <3>3
    <3>5. c = d
      BY <3>2, <3>3, <3>4, SeqEqual
    <3>. QED  BY <3>5 DEF c, d
  <2>2. Append(a, y) = a \o b
    BY <1>1, AppendIsConcat
  <2>. QED  BY <2>1, <2>2
<1>3. Append(f, x) = f \o a /\ Append(f, x) \in Seq(Line)
  BY AppendIsConcat, Appended
<1>4. Append(Append(f, x), y) = Append(f, x) \o b
  BY <1>3, AppendIsConcat
<1>. HIDE DEF a, b
<1>5. f \o (a \o b) = (f \o a) \o b
  BY <1>1, ConcatAssociative
<1>. QED  BY <1>2, <1>3, <1>4, <1>5

\* A row that has not been written yet is not there twice.
LEMMA OnceAppended ==
  ASSUME NEW f \in Seq(Line), NEW x \in Line, Once(f),
         x.msg # 0 => \A i \in DOMAIN f : f[i].msg # x.msg
  PROVE  Once(Append(f, x))
<1>. DEFINE g == Append(f, x)
            N == Len(f)
<1>1. /\ N \in Nat /\ DOMAIN f = 1..N /\ DOMAIN g = 1..(N + 1)
      /\ \A i \in 1..N : g[i] = f[i]
      /\ g[N + 1] = x
  BY Appended
<1>. HIDE DEF g, N
<1>2. ASSUME NEW i \in 1..(N + 1), NEW k \in 1..(N + 1),
             g[i].msg = g[k].msg, g[i].msg # 0
      PROVE  i = k
  <2>1. CASE i \in 1..N /\ k \in 1..N
    BY <1>1, <1>2, <2>1 DEF Once
  <2>2. CASE i \in 1..N /\ k = N + 1
    BY <1>1, <1>2, <2>2
  <2>3. CASE i = N + 1 /\ k \in 1..N
    BY <1>1, <1>2, <2>3
  <2>. QED  BY <1>1, <2>1, <2>2, <2>3
<1>3. Once(g)
  BY <1>1, <1>2 DEF Once
<1>. QED  BY <1>3 DEF g

\* While no listener is lost only one runs.
LEMMA OneListener ==
  ASSUME TypeOK, PidInv, orphan = {}
  PROVE  \A x, y \in live : x = y
BY PidTypes DEF PidInv, Found, FileInv

\* A lost listener stays lost.
LEMMA OrphansGrow ==
  ASSUME [Next]_vars
  PROVE  orphan \subseteq orphan' /\ cfg' = cfg
<1>. USE DEF history, listenerVars
<1>1. ASSUME NEW l \in Listener, Works(l) \/ Time(l) \/ Fails(l)
      PROVE  orphan \subseteq orphan' /\ cfg' = cfg
  <2>1. CASE Works(l)
    BY <2>1 DEF Works, Plain, Wild, GiveUp, Subscribe, Consume, Skip,
                StoreFirst, Store, Read, Nothing, Halt, End, Ended
  <2>2. CASE Time(l) \/ Fails(l)
    BY <2>2 DEF Time, Deadline, Fails, Halt, End, Ended
  <2>. QED  BY <1>1, <2>1, <2>2
<1>2. CASE Component \/ Crash
  BY <1>2 DEF Component, AlreadyConfigured, Spawn, Launch, SpawnFails,
              CreateFile, WritePid, NoPid, ReadPid, RemoveFile, KillPid, End,
              Crash, Finish
<1>3. CASE ConfigureStart \/ CleanupStart
  BY <1>3 DEF ConfigureStart, CleanupStart
<1>4. ASSUME NEW p \in Listener, OtherStarts(p) \/ OtherEnds(p)
      PROVE  orphan \subseteq orphan' /\ cfg' = cfg
  BY <1>4 DEF OtherStarts, OtherEnds
<1>5. CASE Publish /\ UNCHANGED <<componentVars, other, history>>
  BY <1>5 DEF Publish
<1>6. CASE UNCHANGED vars
  BY <1>6 DEF vars
<1>. QED  BY <1>1, <1>2, <1>3, <1>4, <1>5, <1>6 DEF Next

\* What a step may do to the output: a listener consumes, starts or ends, a
\* message is published; every other step leaves it alone.
LEMMA OutputKinds ==
  ASSUME TypeOK, Delivered, [Next]_vars
  PROVE  \/ \E l \in live : Consume(l)
         \/ Launch /\ started < MaxListener
         \/ \E l : End(l)
         \/ Publish
         \/ UNCHANGED <<live, header, inbox, sent, file>>
<1>. USE DEF listenerVars, client, broker
<1>1. ASSUME NEW l \in Listener, Works(l) \/ Time(l) \/ Fails(l)
      PROVE  \/ Consume(l) /\ l \in live
             \/ End(l)
             \/ UNCHANGED <<live, header, inbox, sent, file>>
  <2>1. CASE Works(l)
    <3>1. CASE Plain(l) \/ Wild(l) \/ GiveUp(l) \/ Subscribe(l)
      BY <3>1 DEF Plain, Wild, GiveUp, Subscribe
    <3>2. CASE Consume(l)
      BY <3>2 DEF Consume, Skip, StoreFirst, Store, Read
    <3>3. CASE Nothing(l)
      BY <3>3 DEF Nothing, Halt
    <3>. QED  BY <2>1, <3>1, <3>2, <3>3 DEF Works
  <2>2. CASE Time(l)
    BY <2>2 DEF Time, Deadline
  <2>3. CASE Fails(l)
    BY <2>3 DEF Fails, Halt
  <2>. QED  BY <1>1, <2>1, <2>2, <2>3
<1>2. CASE Component \/ Crash
  <2>1. CASE Spawn
    BY <2>1 DEF Spawn
  <2>2. CASE KillPid
    BY <2>2 DEF KillPid
  <2>3. CASE \/ AlreadyConfigured \/ SpawnFails \/ CreateFile \/ WritePid
             \/ NoPid \/ ReadPid \/ RemoveFile \/ Crash
    BY <2>3 DEF AlreadyConfigured, SpawnFails, CreateFile, WritePid, NoPid,
                ReadPid, RemoveFile, Crash
  <2>. QED  BY <1>2, <2>1, <2>2, <2>3 DEF Component
<1>3. CASE ConfigureStart \/ CleanupStart
  BY <1>3 DEF ConfigureStart, CleanupStart
<1>4. ASSUME NEW p \in Listener, OtherStarts(p) \/ OtherEnds(p)
      PROVE  UNCHANGED <<live, header, inbox, sent, file>>
  BY <1>4 DEF OtherStarts, OtherEnds
<1>5. CASE UNCHANGED vars
  BY <1>5 DEF vars
<1>. QED  BY <1>1, <1>2, <1>3, <1>4, <1>5 DEF Next

\* What a listener that has read message n may write.
LEMMA Written ==
  ASSUME TypeOK, Delivered, NEW l \in Listener, NEW n \in inbox[l],
         Skip(l, n) \/ StoreFirst(l, n) \/ Store(l, n)
  PROVE  /\ live' = live /\ l \in live /\ sent' = sent
         /\ inbox' = [inbox EXCEPT ![l] = @ \ {n}]
         /\ n \in (0..MaxMessage) \ {0} /\ n <= Len(sent)
         /\ file \in Seq(Line) /\ header[l] \in SUBSET Column
         /\ \/ file' = file /\ header' = header
            \/ \E c \in SUBSET Column :
                 LET f == Append(file, Head_(c))
                     row == [msg |-> n, columns |-> c]
                 IN /\ f \in Seq(Line)
                    /\ file' = Append(f, row)
                    /\ header' = [header EXCEPT ![l] = c]
            \/ \E c \in SUBSET Column :
                 /\ file' = Append(file, [msg |-> n, columns |-> c])
                 /\ header' = header
                 /\ cfg.csv => c = header[l] /\ c # {}
<1>1. n \in DOMAIN sent /\ n \in 1..MaxMessage
  BY DEF Delivered, TypeOK, ListenerTypeOK
<1>2. sent[n].keys \in SUBSET Column
  BY <1>1, SentType DEF TypeOK
<1>3. n \in (0..MaxMessage) \ {0} /\ n <= Len(sent)
  <2>1. sent \in Seq(Message)
    BY DEF TypeOK, ListenerTypeOK
  <2>2. DOMAIN sent = 1..Len(sent) /\ Len(sent) \in Nat
    BY <2>1, LenProperties
  <2>. QED  BY <1>1, <2>2, KafkaAssumption DEF KafkaAssumption
<1>4. /\ live' = live /\ l \in live /\ sent' = sent
      /\ inbox' = [inbox EXCEPT ![l] = @ \ {n}]
  BY DEF Skip, StoreFirst, Store, Read, broker
<1>5. file \in Seq(Line) /\ header[l] \in SUBSET Column
  BY DEF TypeOK, ListenerTypeOK
<1>6. CASE Skip(l, n)
  BY <1>3, <1>4, <1>5, <1>6 DEF Skip
<1>7. CASE StoreFirst(l, n)
  <2>. DEFINE c == sent[n].keys
              x == Head_(c)
              y == [msg |-> n, columns |-> c]
  <2>1. x \in Line /\ y \in Line
    BY <1>2, <1>3, KafkaAssumption DEF KafkaAssumption, Line, Head_
  <2>2. file' = file \o <<x, y>> /\ header' = [header EXCEPT ![l] = c]
    BY <1>7 DEF StoreFirst
  <2>3. c \in SUBSET Column
    BY <1>2
  <2>4. Append(file, x) \in Seq(Line) /\ file \o <<x, y>> = Append(Append(file, x), y)
    <3>. HIDE DEF x, y
    <3>. QED  BY <1>5, <2>1, Appended, TwoAppended
  <2>5. file' = Append(Append(file, Head_(c)), [msg |-> n, columns |-> c])
    BY <2>2, <2>4
  <2>6. Append(file, Head_(c)) \in Seq(Line)
    BY <2>4
  <2>. HIDE DEF c, x, y
  <2>7. \E d \in SUBSET Column :
          LET f == Append(file, Head_(d))
              row == [msg |-> n, columns |-> d]
          IN /\ f \in Seq(Line)
             /\ file' = Append(f, row)
             /\ header' = [header EXCEPT ![l] = d]
    BY <2>2, <2>3, <2>5, <2>6
  <2>. QED  BY <1>3, <1>4, <1>5, <2>7
<1>8. CASE Store(l, n)
  BY <1>2, <1>3, <1>4, <1>5, <1>8 DEF Store, Row
<1>. QED  BY <1>6, <1>7, <1>8

LEMMA Running ==
  ASSUME TypeOK
  PROVE  /\ live \subseteq Listener
         /\ started < MaxListener => started + 1 \in Listener \ live
<1>1. started \in 0..MaxListener /\ live \subseteq 1..started /\ MaxListener \in Nat
  BY KafkaAssumption DEF KafkaAssumption, TypeOK, ListenerTypeOK
<1>. QED  BY <1>1 DEF Listener

LEMMA RestingStep ==
  ASSUME TypeOK, Delivered, Resting, [Next]_vars
  PROVE  Resting'
<1>. USE DEF Resting
<1>0. /\ header \in [Listener -> SUBSET Column]
      /\ inbox \in [Listener -> SUBSET (1..MaxMessage)]
  BY DEF TypeOK, ListenerTypeOK
<1>1. ASSUME NEW l \in live, Consume(l)
      PROVE  Resting'
  <2>1. l \in Listener
    BY Running
  <2>2. PICK n \in inbox[l] : Skip(l, n) \/ StoreFirst(l, n) \/ Store(l, n)
    BY <1>1 DEF Consume
  <2>3. \A k \in Listener \ {l} : header'[k] = header[k] /\ inbox'[k] = inbox[k]
    BY <1>0, <2>1, <2>2 DEF Skip, StoreFirst, Store, Read
  <2>4. live' = live
    BY <2>2 DEF Skip, StoreFirst, Store, Read
  <2>. QED  BY <2>3, <2>4
<1>2. CASE Launch
  BY <1>2 DEF Launch, client
<1>3. ASSUME NEW l, End(l)
      PROVE  Resting'
  <2>1. /\ live' = live \ {l}
        /\ header' = [header EXCEPT ![l] = {}] /\ inbox' = [inbox EXCEPT ![l] = {}]
    BY <1>3 DEF End
  <2>2. ASSUME NEW k \in Listener, k \notin live'
        PROVE  header'[k] = {} /\ inbox'[k] = {}
    <3>1. CASE k = l
      BY <1>0, <2>1, <3>1
    <3>2. CASE k # l
      <4>1. k \in Listener \ live /\ header'[k] = header[k] /\ inbox'[k] = inbox[k]
        BY <1>0, <2>1, <2>2, <3>2
      <4>. QED  BY <4>1
    <3>. QED  BY <3>1, <3>2
  <2>. QED  BY <2>2
<1>4. CASE Publish
  BY <1>0, <1>4 DEF Publish
<1>5. CASE UNCHANGED <<live, header, inbox, sent, file>>
  BY <1>5
<1>. QED  BY <1>1, <1>2, <1>3, <1>4, <1>5, OutputKinds

LEMMA RowsStep ==
  ASSUME TypeOK, Delivered, PidInv, Resting, Rows, [Next]_vars
  PROVE  Rows'
<1>. SUFFICES ASSUME cfg.csv, orphan = {}, cfg' = cfg
              PROVE  /\ Ruled(file')
                     /\ \A k \in live' : header'[k] # {} =>
                          Ends(file', header'[k])
  BY OrphansGrow DEF Rows, Ruled, Ends
<1>0. /\ header \in [Listener -> SUBSET Column]
      /\ live \subseteq Listener /\ \A x, y \in live : x = y
  BY OneListener, Running DEF TypeOK, ListenerTypeOK
<1>01. /\ Ruled(file)
       /\ \A k \in live : header[k] # {} => Ends(file, header[k])
  BY DEF Rows
<1>1. ASSUME NEW l \in live, Consume(l)
      PROVE  /\ Ruled(file')
             /\ \A k \in live' : header'[k] # {} => Ends(file', header'[k])
  <2>1. PICK n \in inbox[l] : Skip(l, n) \/ StoreFirst(l, n) \/ Store(l, n)
    BY <1>1 DEF Consume
  <2>2. l \in Listener /\ \A k \in live : k = l
    BY <1>0, <1>1
  <2>3. live' = live /\ n \in (0..MaxMessage) \ {0} /\ file \in Seq(Line)
        /\ header[l] \in SUBSET Column
    BY <2>1, <2>2, Written
  <2>4. CASE file' = file /\ header' = header
    BY <1>01, <2>3, <2>4
  <2>5. ASSUME NEW c \in SUBSET Column,
               Append(file, Head_(c)) \in Seq(Line),
               file' = Append(Append(file, Head_(c)), [msg |-> n, columns |-> c]),
               header' = [header EXCEPT ![l] = c]
        PROVE  /\ Ruled(file')
               /\ \A k \in live' : header'[k] # {} => Ends(file', header'[k])
    <3>. DEFINE f == Append(file, Head_(c))
    <3>1. Ruled(f) /\ Ends(f, c)
      BY <1>01, <2>3, HeaderAppended
    <3>2. f \in Seq(Line) /\ file' = Append(f, [msg |-> n, columns |-> c])
      BY <2>5
    <3>. HIDE DEF f
    <3>3. Ruled(file') /\ Ends(file', c)
      BY <2>3, <3>1, <3>2, RowAppended
    <3>4. header'[l] = c
      BY <1>0, <2>2, <2>5
    <3>. QED  BY <2>2, <2>3, <3>3, <3>4
  <2>6. ASSUME NEW c \in SUBSET Column,
               file' = Append(file, [msg |-> n, columns |-> c]),
               header' = header, c = header[l], c # {}
        PROVE  /\ Ruled(file')
               /\ \A k \in live' : header'[k] # {} => Ends(file', header'[k])
    <3>1. Ends(file, c)
      BY <1>01, <2>6
    <3>2. Ruled(file') /\ Ends(file', c)
      <4>1. file \in Seq(Line) /\ n \in (0..MaxMessage) \ {0} /\ Ruled(file)
        BY <1>01, <2>3
      <4>. QED  BY <2>6, <3>1, <4>1, RowAppended
    <3>. QED  BY <2>2, <2>3, <2>6, <3>2
  <2>. QED  BY <2>1, <2>2, <2>4, <2>5, <2>6, Written
<1>2. CASE Launch /\ started < MaxListener
  <2>1. /\ live' = live \cup {started + 1} /\ header' = header /\ file' = file
        /\ started + 1 \in Listener \ live
    BY <1>2, Running DEF Launch, client
  <2>2. header[started + 1] = {}
    BY <2>1 DEF Resting
  <2>. QED  BY <1>01, <2>1, <2>2
<1>3. ASSUME NEW l, End(l)
      PROVE  /\ Ruled(file')
             /\ \A k \in live' : header'[k] # {} => Ends(file', header'[k])
  <2>1. /\ file' = file /\ live' = live \ {l}
        /\ \A k \in live' : header'[k] = header[k]
    BY <1>0, <1>3 DEF End
  <2>. QED  BY <1>01, <2>1
<1>4. CASE Publish
  BY <1>01, <1>4 DEF Publish
<1>5. CASE UNCHANGED <<live, header, inbox, sent, file>>
  BY <1>01, <1>5
<1>. QED  BY <1>1, <1>2, <1>3, <1>4, <1>5, OutputKinds

LEMMA UnreadStep ==
  ASSUME TypeOK, Delivered, PidInv, Resting, Unread, [Next]_vars
  PROVE  Unread'
<1>0. /\ inbox \in [Listener -> SUBSET (1..MaxMessage)]
      /\ file \in Seq(Line) /\ sent \in Seq(Message)
      /\ Len(sent) \in Nat /\ live \subseteq Listener
      /\ \A i \in DOMAIN file : file[i].msg <= Len(sent) /\ file[i].msg \in Nat
  <2>1. file \in Seq(Line) /\ sent \in Seq(Message)
    BY DEF TypeOK, ListenerTypeOK
  <2>2. \A i \in DOMAIN file : file[i] \in Line
    BY <2>1, LenProperties, ElementOfSeq
  <2>3. \A i \in DOMAIN file : file[i].msg \in Nat
    BY <2>2, KafkaAssumption DEF Line, KafkaAssumption
  <2>4. Len(sent) \in Nat
    BY <2>1, LenProperties
  <2>. QED  BY <2>1, <2>3, <2>4, Running DEF TypeOK, ListenerTypeOK, Unread
<1>1. ASSUME NEW l \in live, Consume(l)
      PROVE  Unread'
  <2>1. PICK n \in inbox[l] : Skip(l, n) \/ StoreFirst(l, n) \/ Store(l, n)
    BY <1>1 DEF Consume
  <2>2. l \in Listener
    BY <1>0, <1>1
  <2>3. /\ live' = live /\ sent' = sent /\ inbox'[l] = inbox[l] \ {n}
        /\ n \in (0..MaxMessage) \ {0} /\ n <= Len(sent)
        /\ header[l] \in SUBSET Column
    BY <1>0, <2>1, <2>2, Written
  <2>4. orphan' = {} => orphan = {} /\ \A k \in live : k = l
    BY <1>1, OneListener, OrphansGrow
  <2>5. orphan = {} => /\ Once(file)
                       /\ \A m \in inbox[l] : \A i \in DOMAIN file : file[i].msg # m
    BY <1>1 DEF Unread
  <2>6. CASE file' = file /\ header' = header
    BY <1>0, <2>3, <2>4, <2>5, <2>6 DEF Unread
  \* A row of the message that was read, to a file that does not have it yet.
  <2>7. ASSUME NEW f \in Seq(Line), NEW c \in SUBSET Column,
               file' = Append(f, [msg |-> n, columns |-> c]),
               \A i \in DOMAIN f : f[i].msg <= Len(sent),
               orphan = {} =>
                 /\ Once(f)
                 /\ \A m \in inbox[l] : \A i \in DOMAIN f : f[i].msg # m
        PROVE  Unread'
    <3>. DEFINE x == [msg |-> n, columns |-> c]
    <3>1. x \in Line /\ x.msg = n
      BY <2>3 DEF Line
    <3>. HIDE DEF x
    <3>2. /\ DOMAIN f = 1..Len(f) /\ Len(f) \in Nat
          /\ DOMAIN file' = 1..(Len(f) + 1)
          /\ \A i \in 1..Len(f) : file'[i] = f[i]
          /\ file'[Len(f) + 1] = x
      BY <2>7, <3>1, Appended DEF x
    <3>3. \A i \in DOMAIN file' : i \in DOMAIN f \/ i = Len(f) + 1
      BY <3>2
    <3>4. \A i \in DOMAIN file' : file'[i].msg <= Len(sent')
      BY <2>3, <2>7, <3>1, <3>2, <3>3
    <3>5. orphan = {} => Once(file')
      BY <2>7, <3>1, OnceAppended DEF x
    <3>6. orphan = {} => \A m \in inbox'[l] : \A i \in DOMAIN file' : file'[i].msg # m
      BY <2>3, <2>7, <3>1, <3>2, <3>3
    <3>. QED  BY <2>3, <2>4, <3>4, <3>5, <3>6 DEF Unread
  <2>8. ASSUME NEW c \in SUBSET Column,
               Append(file, Head_(c)) \in Seq(Line),
               file' = Append(Append(file, Head_(c)), [msg |-> n, columns |-> c])
        PROVE  Unread'
    <3>. DEFINE x == Head_(c)
                f == Append(file, x)
    <3>1. x \in Line /\ x.msg = 0
      BY KafkaAssumption DEF KafkaAssumption, Line, Head_
    <3>. HIDE DEF x
    <3>2. /\ DOMAIN file = 1..Len(file) /\ Len(file) \in Nat
          /\ DOMAIN f = 1..(Len(file) + 1)
          /\ \A i \in 1..Len(file) : f[i] = file[i]
          /\ f[Len(file) + 1] = x
      BY <1>0, <3>1, Appended
    <3>3. orphan = {} => Once(f)
      BY <1>0, <2>5, <3>1, OnceAppended
    <3>. HIDE DEF f
    <3>4. \A i \in DOMAIN f : i \in DOMAIN file \/ i = Len(file) + 1
      BY <3>2
    <3>5. \A i \in DOMAIN f : f[i].msg <= Len(sent)
      BY <1>0, <3>1, <3>2, <3>4
    <3>6. \A m \in inbox[l] : m # 0
      BY <1>0, <2>2
    <3>7. orphan = {} => \A m \in inbox[l] : \A i \in DOMAIN f : f[i].msg # m
      BY <2>5, <3>1, <3>2, <3>4, <3>6
    <3>8. f \in Seq(Line) /\ file' = Append(f, [msg |-> n, columns |-> c])
      BY <2>8 DEF f, x
    <3>. QED  BY <2>7, <3>3, <3>5, <3>7, <3>8
  <2>9. ASSUME NEW c \in SUBSET Column,
               file' = Append(file, [msg |-> n, columns |-> c])
        PROVE  Unread'
    BY <1>0, <2>5, <2>7, <2>9
  <2>. QED  BY <2>1, <2>2, <2>6, <2>8, <2>9, Written
<1>2. CASE Launch /\ started < MaxListener
  <2>1. /\ live' = live \cup {started + 1} /\ inbox' = inbox /\ file' = file
        /\ sent' = sent /\ started + 1 \in Listener \ live
    BY <1>2, Running DEF Launch, client, broker
  <2>2. inbox[started + 1] = {}
    BY <2>1 DEF Resting
  <2>. QED  BY <2>1, <2>2, OrphansGrow DEF Unread, Once
<1>3. ASSUME NEW l, End(l)
      PROVE  Unread'
  <2>1. /\ file' = file /\ sent' = sent /\ live' = live \ {l}
        /\ \A k \in live' : inbox'[k] = inbox[k]
    BY <1>0, <1>3 DEF End, broker
  <2>. QED  BY <2>1, OrphansGrow DEF Unread, Once
<1>4. CASE Publish
  <2>1. /\ file' = file /\ live' = live
        /\ \A l \in live : inbox'[l] \subseteq inbox[l] \cup {Len(sent) + 1}
    BY <1>0, <1>4 DEF Publish
  <2>2. Len(sent') = Len(sent) + 1
    <3>1. PICK m \in Message : sent' = Append(sent, m)
      BY <1>4 DEF Publish
    <3>. QED  BY <1>0, <3>1, AppendProperties
  <2>3. \A i \in DOMAIN file : file[i].msg <= Len(sent') /\ file[i].msg # Len(sent) + 1
    BY <1>0, <2>2
  <2>. QED  BY <2>1, <2>3, OrphansGrow DEF Unread, Once
<1>5. CASE UNCHANGED <<live, header, inbox, sent, file>>
  BY <1>5, OrphansGrow DEF Unread, Once
<1>. QED  BY <1>1, <1>2, <1>3, <1>4, <1>5, OutputKinds

LEMMA OutputInvHolds == Spec => []OutputInv
<1>1. Init => OutputInv
  <2>. SUFFICES ASSUME Init PROVE OutputInv
    OBVIOUS
  <2>1. file = <<>> /\ live = {} /\ header = [l \in Listener |-> {}]
        /\ inbox = [l \in Listener |-> {}]
    BY DEF Init, InitListener
  <2>2. DOMAIN file = {}
    BY <2>1
  <2>. QED  BY <2>1, <2>2 DEF OutputInv, Resting, Rows, Ruled, Unread, Once
<1>2. TypeOK /\ Delivered /\ PidInv /\ OutputInv /\ [Next]_vars => OutputInv'
  BY RestingStep, RowsStep, UnreadStep DEF OutputInv
<1>. QED  BY <1>1, <1>2, TypeCorrect, PidInvHolds, PTL DEF Spec

\* As long as no listener was lost, every row of the file one experiment writes
\* has the columns of the last header above it, whatever the listeners before
\* it have left there.
THEOREM RowsUnderHeaderHolds == Spec => []RowsUnderHeader
<1>1. OutputInv => RowsUnderHeader
  BY DEF OutputInv, Rows, Ruled, RowsUnderHeader
<1>. QED  BY <1>1, OutputInvHolds, PTL

\* As long as no listener was lost, no message is in the file twice.
THEOREM NoDuplicatesHolds == Spec => []NoDuplicates
<1>1. OutputInv => NoDuplicates
  BY DEF OutputInv, Unread, Once, NoDuplicates
<1>. QED  BY <1>1, OutputInvHolds, PTL
=============================================================================
