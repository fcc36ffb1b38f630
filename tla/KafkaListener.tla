--------------------------- MODULE KafkaListener ---------------------------
(***************************************************************************)
(* The listener processes of the scorch kafka component                    *)
(* (scorch/kafka/kafka_listener.py), numbered in the order in which they   *)
(* are started.                                                            *)
(*                                                                         *)
(* A listener goes through the entries of the component's topics list,     *)
(* waits for topics that match a wildcard, subscribes, and appends every   *)
(* message that passes a filter to the output file.  All listeners of one  *)
(* component append to the same file.                                      *)
(*                                                                         *)
(* A wildcard is the set of topics that contain it; a filter is a member   *)
(* of Filter, and a message says which of them it satisfies.  The broker   *)
(* and the Python client are not in this repository: subscribing to no     *)
(* topic raises an error, and a consumer is sent the messages published to *)
(* its topics after it subscribed, in any order (auto_offset_reset is      *)
(* "latest", there is no consumer group).                                  *)
(***************************************************************************)
EXTENDS Naturals, Sequences, FiniteSets

CONSTANTS
  Topic,        \* topics of the experiment
  Filter,       \* key and value pairs an entry filters by
  Column,       \* keys of messages
  Config,       \* the component's metadata to check: its topics list and csv
  Message,      \* messages producers send
  MaxListener,  \* bound: how many listeners are started
  MaxMessage    \* bound: how many messages are published

Entry == [wild : BOOLEAN, names : SUBSET Topic, filters : SUBSET Filter]

ASSUME KafkaAssumption ==
  /\ \A c \in Config : c.csv \in BOOLEAN /\ c.entries \in Seq(Entry)
  /\ Message \subseteq [topic : Topic, keys : SUBSET Column,
                        passes : SUBSET Filter]
  /\ MaxListener \in Nat /\ MaxMessage \in Nat

VARIABLES
  cfg,        \* the component's metadata
  started,    \* listeners started so far
  live,       \* those that are running
  at,         \* where a listener is
  entry,      \* the entry of the topics list it is at
  sub,        \* subscribedTopics, then what it has subscribed to
  late,       \* wait_duration_seconds have passed since it began
  header,     \* columns of its csv.DictWriter, {} before there is one
  inbox,      \* messages it has been sent and has not read
  topics,     \* topics the broker has
  sent,       \* messages published so far
  file        \* lines of the output file

client == <<at, entry, sub, late, header, inbox>>
broker == <<topics, sent>>
listenerVars == <<cfg, started, live, client, broker, file>>

Listener == 1..MaxListener
Line == [msg : 0..MaxMessage, columns : SUBSET Column]
Head_(c) == [msg |-> 0, columns |-> c]   \* a header line

InitListener ==
  /\ cfg \in Config
  /\ started = 0 /\ live = {}
  /\ at = [l \in Listener |-> "topics"]
  /\ entry = [l \in Listener |-> 1]
  /\ sub = [l \in Listener |-> {}]
  /\ late = [l \in Listener |-> FALSE]
  /\ header = [l \in Listener |-> {}]
  /\ inbox = [l \in Listener |-> {}]
  /\ topics \in SUBSET Topic /\ sent = <<>> /\ file = <<>>

\* Process l is gone, with its state, if it is running.
End(l) ==
  /\ live' = live \ {l}
  /\ at' = [at EXCEPT ![l] = "topics"]
  /\ entry' = [entry EXCEPT ![l] = 1]
  /\ sub' = [sub EXCEPT ![l] = {}]
  /\ late' = [late EXCEPT ![l] = FALSE]
  /\ header' = [header EXCEPT ![l] = {}]
  /\ inbox' = [inbox EXCEPT ![l] = {}]
  /\ UNCHANGED <<cfg, started, broker, file>>

\* Popen: a new process, with a pid of its own.
Launch ==
  /\ started' = started + 1
  /\ live' = live \cup {started + 1}
  /\ UNCHANGED <<cfg, client, broker, file>>

----------------------------------------------------------------------------
(* run(), up to consumer.subscribe *)

AtEntry(l) == l \in live /\ at[l] = "topics" /\ entry[l] <= Len(cfg.entries)
Next_(l) == entry' = [entry EXCEPT ![l] = @ + 1]

Plain(l) ==
  /\ AtEntry(l)
  /\ ~cfg.entries[entry[l]].wild
  /\ sub' = [sub EXCEPT ![l] = @ \cup cfg.entries[entry[l]].names]
  /\ Next_(l)
  /\ UNCHANGED <<cfg, started, live, at, late, header, inbox, broker, file>>

\* One round of the wait loop.  What ends it is that subscribedTopics is not
\* empty, whichever entry filled it.
Wild(l) ==
  /\ AtEntry(l)
  /\ cfg.entries[entry[l]].wild /\ ~late[l]
  /\ LET found == sub[l] \cup (cfg.entries[entry[l]].names \cap topics)
     IN /\ found # {}
        /\ sub' = [sub EXCEPT ![l] = found]
  /\ Next_(l)
  /\ UNCHANGED <<cfg, started, live, at, late, header, inbox, broker, file>>

\* Mutant of GiveUp: the deadline is not looked at.
GiveUpNever(l) == FALSE /\ UNCHANGED listenerVars

GiveUp(l) ==
  /\ AtEntry(l)
  /\ cfg.entries[entry[l]].wild /\ late[l]
  /\ Next_(l)
  /\ UNCHANGED <<cfg, started, live, at, sub, late, header, inbox, broker, file>>

Chosen(l) ==
  /\ l \in live /\ at[l] = "topics"
  /\ entry[l] = Len(cfg.entries) + 1

\* Mutant of Subscribe: auto_offset_reset is "earliest".
SubscribeEarliest(l) ==
  /\ Chosen(l)
  /\ LET s == IF cfg.entries = <<>> THEN Topic ELSE sub[l]
     IN /\ s # {}
        /\ sub' = [sub EXCEPT ![l] = s]
        /\ inbox' = [inbox EXCEPT ![l] =
                       {n \in DOMAIN sent : sent[n].topic \in s}]
  /\ at' = [at EXCEPT ![l] = "consume"]
  /\ UNCHANGED <<cfg, started, live, entry, late, header, broker, file>>

\* Without a topics list the pattern is the name of the experiment.
Subscribe(l) ==
  /\ Chosen(l)
  /\ LET s == IF cfg.entries = <<>> THEN Topic ELSE sub[l]
     IN /\ s # {}
        /\ sub' = [sub EXCEPT ![l] = s]
  /\ at' = [at EXCEPT ![l] = "consume"]
  /\ UNCHANGED <<cfg, started, live, entry, late, header, inbox, broker, file>>

----------------------------------------------------------------------------
(* run(), the loop over messages *)

\* A message is stored if it passes a filter of any entry, or if any entry
\* has none.
Stored(m) ==
  \/ cfg.entries = <<>>
  \/ \E i \in DOMAIN cfg.entries :
       LET f == cfg.entries[i].filters IN f = {} \/ f \cap m.passes # {}

Read(l, n) ==
  /\ l \in live /\ at[l] = "consume" /\ n \in inbox[l]
  /\ inbox' = [inbox EXCEPT ![l] = @ \ {n}]
  /\ UNCHANGED <<cfg, started, live, at, entry, sub, late, broker>>

Skip(l, n) ==
  /\ Read(l, n) /\ ~Stored(sent[n])
  /\ UNCHANGED <<header, file>>

\* Keys a later message adds are not in the writer's columns; rows leave them
\* out (extrasaction is "ignore").  Without a DictWriter every key is written.
Row(l, n) ==
  [msg |-> n, columns |-> IF cfg.csv THEN header[l] ELSE sent[n].keys]

\* Mutant of StoreFirst: a header is written only to an empty file.
StoreFirstHeaderOnce(l, n) ==
  /\ Read(l, n) /\ Stored(sent[n]) /\ cfg.csv /\ header[l] = {}
  /\ header' = [header EXCEPT ![l] = sent[n].keys]
  /\ file' = (IF file = <<>> THEN <<Head_(sent[n].keys)>> ELSE file)
             \o <<[msg |-> n, columns |-> sent[n].keys]>>

\* The first message a listener stores fixes the columns.  Header and row are
\* flushed together.
StoreFirst(l, n) ==
  /\ Read(l, n) /\ Stored(sent[n]) /\ cfg.csv /\ header[l] = {}
  /\ header' = [header EXCEPT ![l] = sent[n].keys]
  /\ file' = file \o <<Head_(sent[n].keys), [msg |-> n, columns |-> sent[n].keys]>>

Store(l, n) ==
  /\ Read(l, n) /\ Stored(sent[n]) /\ (cfg.csv => header[l] # {})
  /\ file' = Append(file, Row(l, n))
  /\ UNCHANGED header

Consume(l) ==
  \E n \in inbox[l] : Skip(l, n) \/ StoreFirst(l, n) \/ Store(l, n)

----------------------------------------------------------------------------
(* The ends of a listener, and the rest of the world *)

Halt(l) == l \in live /\ End(l)

\* consumer.subscribe of an empty list of topics
Nothing(l) == Chosen(l) /\ cfg.entries # <<>> /\ sub[l] = {} /\ Halt(l)

Deadline(l) ==
  /\ l \in live /\ at[l] = "topics" /\ ~late[l]
  /\ late' = [late EXCEPT ![l] = TRUE]
  /\ UNCHANGED <<cfg, started, live, at, entry, sub, header, inbox, broker, file>>

\* A producer publishes a message, which creates its topic; every consumer of
\* the topic will be sent it.
Publish ==
  /\ Len(sent) < MaxMessage
  /\ \E m \in Message :
       /\ sent' = Append(sent, m)
       /\ topics' = topics \cup {m.topic}
       /\ inbox' = [l \in Listener |->
            IF l \in live /\ at[l] = "consume" /\ m.topic \in sub[l]
            THEN inbox[l] \cup {Len(sent) + 1} ELSE inbox[l]]
  /\ UNCHANGED <<cfg, started, live, at, entry, sub, late, header, file>>

ListenerStep(l) ==
  \/ Plain(l) \/ Wild(l) \/ GiveUp(l) \/ Subscribe(l) \/ Consume(l)
  \/ Nothing(l)

ListenerTypeOK ==
  /\ cfg \in Config
  /\ started \in 0..MaxListener
  /\ live \subseteq 1..started
  /\ at \in [Listener -> {"topics", "consume"}]
  /\ entry \in [Listener -> Nat \ {0}]
  /\ sub \in [Listener -> SUBSET Topic]
  /\ late \in [Listener -> BOOLEAN]
  /\ header \in [Listener -> SUBSET Column]
  /\ inbox \in [Listener -> SUBSET (1..MaxMessage)]
  /\ topics \subseteq Topic
  /\ sent \in Seq(Message) /\ Len(sent) <= MaxMessage
  /\ file \in Seq(Line)
=============================================================================
