-------------------------- MODULE HostStatsProofs --------------------------
(***************************************************************************)
(* Proofs about HostStats, for every flush period and any number of polls. *)
(*                                                                         *)
(* The two threads share the buffer without a lock.  What makes this right *)
(* is Places: the main thread reaches a label at which it touches the      *)
(* buffer only when the sampler is gone.  With it every step is one of the *)
(* six kinds of lemma StepKinds, and the three facts about the samples     *)
(* (Counted, Kept, Room) are proved kind by kind.                          *)
(***************************************************************************)
EXTENDS HostStats, SequenceTheorems, TLAPS

\* The main thread is at the buffer only when the sampler is gone.
Places ==
  /\ main \in {"init", "start"} => sampler = "new"
  /\ main \in {"flush", "clear", "stopped"} => sampler = "gone"
  /\ main = "killed" => sampler \in {"new", "gone"}

\* The file, then what is still to be written, are the samples in order.
Counted == ~failed =>
  /\ Len(out) <= sampled
  /\ \A k \in 1..Len(out) : out[k] = k
  /\ main # "killed" =>
       /\ Len(out) + Len(Unwritten) = sampled
       /\ \A k \in 1..Len(Unwritten) : Unwritten[k] = Len(out) + k

In(i, s) == \E k \in 1..Len(s) : s[k] = i

\* Every sample is in the file or is still to be written.
Kept == main # "killed" => \A i \in 1..sampled : In(i, out) \/ In(i, Unwritten)

\* Nothing is left to write when the component has stopped.
Emptied == main = "stopped" /\ ~failed => resdata = <<>>

\* How full the buffer can be at each label of the sampler.
Room ==
  /\ Len(resdata) <= PerFlush
  /\ sampler = "new" => Len(resdata) = 0
  /\ sampler \in {"loop", "poll"} =>
       Len(resdata) <= IF count = 0 THEN PerFlush - 1 ELSE count - 1
  /\ sampler = "check" => Len(resdata) <= IF count = 0 THEN PerFlush ELSE count
  /\ sampler = "sleep" => Len(resdata) <= count
  /\ sampler \in {"flush", "clear"} => count = 0

----------------------------------------------------------------------------
(* Types *)

LEMMA WriteType ==
  ASSUME TypeOK, Write \/ WriteFails
  PROVE  out' \in Seq(1..MaxSample) /\ failed' \in BOOLEAN
<1>0. resdata \in Seq(1..MaxSample) /\ out \in Seq(1..MaxSample)
  BY DEF TypeOK
<1>1. CASE Write
  <2>1. out \o resdata \in Seq(1..MaxSample)
    BY <1>0, ConcatProperties
  <2>. QED  BY <1>1, <2>1 DEF Write, TypeOK
<1>2. CASE WriteFails
  <2>1. PICK n \in 0..Len(resdata) : out' = out \o SubSeq(resdata, 1, n)
    BY <1>2 DEF WriteFails
  <2>2. Len(resdata) \in Nat
    BY <1>0, LenProperties
  <2>3. \A i \in 1..n : resdata[i] \in 1..MaxSample
    <3>1. resdata \in [1..Len(resdata) -> 1..MaxSample]
      BY <1>0, LenProperties
    <3>. QED  BY <2>2, <3>1
  <2>4. SubSeq(resdata, 1, n) \in Seq(1..MaxSample)
    BY <2>2, <2>3, SubSeqProperties
  <2>5. out' \in Seq(1..MaxSample)
    BY <1>0, <2>1, <2>4, ConcatProperties
  <2>. QED  BY <1>2, <2>5 DEF WriteFails
<1>. QED  BY <1>1, <1>2

\* Type correctness, for every flush period and any number of polls.
THEOREM TypeCorrect == Spec => []TypeOK
<1>1. Init => TypeOK
  <2>1. <<>> \in Seq(1..MaxSample)
    BY EmptySeq
  <2>2. 0 \in 0..(PerFlush - 1) /\ 0 \in 0..MaxSample
    BY HostStatsAssumption DEF HostStatsAssumption
  <2>. SUFFICES ASSUME Init PROVE TypeOK
    OBVIOUS
  <2>3. resdata \in Seq(1..MaxSample) /\ out \in Seq(1..MaxSample)
    BY <2>1 DEF Init
  <2>. QED
    BY <2>2, <2>3 DEF Init, TypeOK, MainLabels, SamplerLabels
<1>2. TypeOK /\ [Next]_vars => TypeOK'
  <2>. SUFFICES ASSUME TypeOK, [Next]_vars
                PROVE  TypeOK'
    OBVIOUS
  <2>. USE DEF TypeOK, MainLabels, SamplerLabels, flags
  <2>1. CASE Construct \/ StartSampler \/ Pause \/ StopMonitor \/ Join
    BY <2>1 DEF Construct, StartSampler, Pause, StopMonitor, Join
  <2>2. CASE MainFlush
    <3>1. Write \/ WriteFails
      BY <2>2 DEF MainFlush
    <3>2. out' \in Seq(1..MaxSample) /\ failed' \in BOOLEAN
      BY <3>1, WriteType
    <3>. QED  BY <2>2, <3>2 DEF MainFlush
  <2>3. CASE Flush
    <3>1. Write \/ WriteFails
      BY <2>3 DEF Flush
    <3>2. out' \in Seq(1..MaxSample) /\ failed' \in BOOLEAN
      BY <3>1, WriteType
    <3>. QED  BY <2>3, <3>2 DEF Flush
  <2>4. CASE MainClear \/ Clear
    <3>1. resdata' \in Seq(1..MaxSample)
      BY <2>4, EmptySeq DEF MainClear, Clear
    <3>. QED  BY <2>4, <3>1 DEF MainClear, Clear
  <2>5. CASE Loop \/ PollNothing \/ PollError \/ Check
    BY <2>5 DEF Loop, PollNothing, PollError, Check
  <2>6. CASE PollData
    <3>1. sampled + 1 \in 1..MaxSample
      BY <2>6, HostStatsAssumption DEF PollData, HostStatsAssumption
    <3>2. resdata' \in Seq(1..MaxSample)
      BY <2>6, <3>1 DEF PollData
    <3>. QED  BY <2>6, <3>1, <3>2 DEF PollData
  <2>7. CASE Sleep
    BY <2>7, HostStatsAssumption DEF Sleep, HostStatsAssumption
  <2>8. CASE Terminate
    BY <2>8 DEF Terminate
  <2>9. CASE Kill
    BY <2>9, EmptySeq DEF Kill
  <2>10. CASE UNCHANGED vars
    BY <2>10 DEF vars
  <2>. QED
    BY <2>1, <2>2, <2>3, <2>4, <2>5, <2>6, <2>7, <2>8, <2>9, <2>10
       DEF Next, Main, Sampler
<1>. QED  BY <1>1, <1>2, PTL DEF Spec

----------------------------------------------------------------------------
(* Exclusion *)

\* The main thread is at the buffer only when the sampler is gone: the join
\* is what replaces a lock.
THEOREM PlacesHold == Spec => []Places
<1>1. Init => Places
  BY DEF Init, Places
<1>2. Places /\ [Next]_vars => Places'
  <2>. SUFFICES ASSUME Places, [Next]_vars
                PROVE  Places'
    OBVIOUS
  <2>. USE DEF Places
  <2>1. CASE Construct \/ StartSampler \/ Pause \/ StopMonitor \/ Join
    BY <2>1 DEF Construct, StartSampler, Pause, StopMonitor, Join
  <2>2. CASE MainFlush \/ MainClear
    BY <2>2 DEF MainFlush, MainClear
  <2>3. CASE Loop \/ PollData \/ PollNothing \/ PollError \/ Check
    BY <2>3 DEF Loop, PollData, PollNothing, PollError, Check
  <2>4. CASE Flush \/ Clear \/ Sleep
    BY <2>4 DEF Flush, Clear, Sleep
  <2>5. CASE Terminate \/ Kill
    BY <2>5 DEF Terminate, Kill
  <2>6. CASE UNCHANGED vars
    BY <2>6 DEF vars
  <2>. QED
    BY <2>1, <2>2, <2>3, <2>4, <2>5, <2>6 DEF Next, Main, Sampler
<1>. QED  BY <1>1, <1>2, PTL DEF Spec

----------------------------------------------------------------------------
(* The six kinds of step *)

Appends ==
  /\ ~Writing /\ ~Writing' /\ main \notin {"killed", "stopped"} /\ main' = main
  /\ sampled' = sampled + 1 /\ resdata' = Append(resdata, sampled + 1)
  /\ UNCHANGED <<out, failed>>
Writes ==
  /\ ~Writing /\ Writing' /\ main \notin {"killed", "stopped"}
  /\ main' \notin {"killed", "stopped"}
  /\ Write /\ UNCHANGED <<resdata, sampled>>
Breaks ==
  /\ ~Writing /\ ~Writing' /\ main # "killed"
  /\ WriteFails /\ UNCHANGED <<resdata, sampled>>
Clears ==
  /\ Writing /\ ~Writing' /\ main # "killed"
  /\ resdata' = <<>>
  /\ UNCHANGED <<out, sampled, failed>>
Ends ==
  /\ main' = "killed" /\ ~Writing'
  /\ resdata' = <<>>
  /\ UNCHANGED <<out, sampled, failed>>
Keeps ==
  /\ Writing' = Writing
  /\ main = "killed" => main' = "killed"
  /\ main' = "stopped" => main = "stopped" \/ resdata = <<>>
  /\ UNCHANGED <<resdata, out, sampled, failed>>

LEMMA StepKinds ==
  ASSUME TypeOK, Places, [Next]_vars
  PROVE  Appends \/ Writes \/ Breaks \/ Clears \/ Ends \/ Keeps
<1>. USE DEF Places, Writing, flags
<1>1. CASE Construct \/ StartSampler \/ Pause \/ StopMonitor
  <2>1. Keeps
    BY <1>1 DEF Construct, StartSampler, Pause, StopMonitor, Keeps
  <2>. QED  BY <2>1
<1>2. CASE Join
  <2>1. Keeps
    BY <1>2 DEF Join, Keeps
  <2>. QED  BY <2>1
<1>3. CASE MainFlush
  <2>1. Writes \/ Breaks
    BY <1>3 DEF MainFlush, Writes, Breaks
  <2>. QED  BY <2>1
<1>4. CASE MainClear
  <2>1. Clears
    BY <1>4 DEF MainClear, Clears
  <2>. QED  BY <2>1
<1>5. CASE Loop \/ PollNothing \/ PollError \/ Check \/ Sleep
  <2>1. Keeps
    BY <1>5 DEF Loop, PollNothing, PollError, Check, Sleep, Keeps
  <2>. QED  BY <2>1
<1>. DEFINE Live == main \notin {"killed", "stopped"}
<1>6. CASE PollData /\ Live
  <2>1. Appends
    BY <1>6 DEF PollData, Appends
  <2>. QED  BY <2>1
<1>7. CASE Flush /\ Live
  <2>1. Writes \/ Breaks
    BY <1>7 DEF Flush, Writes, Breaks
  <2>. QED  BY <2>1
<1>8. CASE Clear /\ Live
  <2>1. Clears
    BY <1>8 DEF Clear, Clears
  <2>. QED  BY <2>1
<1>9. CASE Terminate
  <2>1. Keeps
    BY <1>9 DEF Terminate, Keeps
  <2>. QED  BY <2>1
<1>10. CASE Kill
  <2>1. Ends
    BY <1>10 DEF Kill, Ends
  <2>. QED  BY <2>1
<1>11. CASE UNCHANGED vars
  <2>1. Keeps
    BY <1>11 DEF vars, Keeps
  <2>. QED  BY <2>1
<1>. QED
  BY <1>1, <1>2, <1>3, <1>4, <1>5, <1>6, <1>7, <1>8, <1>9, <1>10, <1>11
     DEF Next, Main, Sampler, PollData, Flush, Clear
----------------------------------------------------------------------------
(* The samples *)

LEMMA WriteAppends ==
  ASSUME TypeOK, Write
  PROVE  /\ Len(out') = Len(out) + Len(resdata)
         /\ \A k \in 1..Len(out') : out'[k] =
              IF k <= Len(out) THEN out[k] ELSE resdata[k - Len(out)]
<1>1. resdata \in Seq(1..MaxSample) /\ out \in Seq(1..MaxSample)
  BY DEF TypeOK
<1>2. out' = out \o resdata
  BY DEF Write
<1>. QED  BY <1>1, <1>2, ConcatProperties

LEMMA PrefixAppends ==
  ASSUME TypeOK, WriteFails
  PROVE  /\ Len(out) <= Len(out')
         /\ \A k \in 1..Len(out) : out'[k] = out[k]
<1>1. resdata \in Seq(1..MaxSample) /\ out \in Seq(1..MaxSample)
  BY DEF TypeOK
<1>2. PICK n \in 0..Len(resdata) : out' = out \o SubSeq(resdata, 1, n)
  BY DEF WriteFails
<1>3. Len(resdata) \in Nat /\ resdata \in [1..Len(resdata) -> 1..MaxSample]
  BY <1>1, LenProperties
<1>4. \A i \in 1..n : resdata[i] \in 1..MaxSample
  BY <1>3
<1>5. SubSeq(resdata, 1, n) \in Seq(1..MaxSample)
  BY <1>3, <1>4, SubSeqProperties
<1>6. Len(SubSeq(resdata, 1, n)) \in Nat /\ Len(out) \in Nat
  BY <1>1, <1>5, LenProperties
<1>. DEFINE written == SubSeq(resdata, 1, n)
<1>7. /\ Len(out \o written) = Len(out) + Len(written)
      /\ \A i \in 1..Len(out) + Len(written) :
           (out \o written)[i] = IF i <= Len(out) THEN out[i]
                                 ELSE written[i - Len(out)]
  BY <1>1, <1>5, ConcatProperties
<1>. HIDE DEF written
<1>8. Len(written) \in Nat /\ out' = out \o written
  BY <1>2, <1>6 DEF written
<1>. QED  BY <1>6, <1>7, <1>8

LEMMA CountedStep ==
  ASSUME TypeOK, Places, Counted, [Next]_vars
  PROVE  Counted'
<1>0. /\ resdata \in Seq(1..MaxSample) /\ out \in Seq(1..MaxSample)
      /\ Len(resdata) \in Nat /\ Len(out) \in Nat /\ sampled \in Nat
  BY LenProperties, HostStatsAssumption DEF TypeOK, HostStatsAssumption
<1>. SUFFICES ASSUME ~failed'
              PROVE  /\ Len(out') <= sampled'
                     /\ \A k \in 1..Len(out') : out'[k] = k
                     /\ main' # "killed" =>
                          /\ Len(out') + Len(Unwritten') = sampled'
                          /\ \A k \in 1..Len(Unwritten') :
                               Unwritten'[k] = Len(out') + k
  BY DEF Counted
<1>1. CASE Appends
  <2>1. /\ Len(out) + Len(resdata) = sampled
        /\ \A k \in 1..Len(out) : out[k] = k
        /\ \A k \in 1..Len(resdata) : resdata[k] = Len(out) + k
    BY <1>1 DEF Counted, Appends, Unwritten
  <2>2. Unwritten' = Append(resdata, sampled + 1) /\ out' = out
    BY <1>1 DEF Appends, Unwritten
  <2>3. /\ Len(Append(resdata, sampled + 1)) = Len(resdata) + 1
        /\ \A k \in 1..Len(resdata) + 1 : Append(resdata, sampled + 1)[k] =
             IF k = Len(resdata) + 1 THEN sampled + 1 ELSE resdata[k]
    <3>1. resdata \in Seq(Nat) /\ sampled + 1 \in Nat
      BY <1>0, SeqMonotonic, HostStatsAssumption DEF HostStatsAssumption
    <3>. QED  BY <3>1, AppendProperties
  <2>. QED  BY <1>0, <1>1, <2>1, <2>2, <2>3 DEF Appends
<1>2. CASE Writes
  <2>1. /\ Len(out) + Len(resdata) = sampled
        /\ \A k \in 1..Len(out) : out[k] = k
        /\ \A k \in 1..Len(resdata) : resdata[k] = Len(out) + k
    BY <1>2 DEF Counted, Writes, Write, Unwritten
  <2>2. Unwritten' = <<>> /\ sampled' = sampled
    BY <1>2 DEF Writes, Unwritten
  <2>3. /\ Len(out') = Len(out) + Len(resdata)
        /\ \A k \in 1..Len(out') : out'[k] =
             IF k <= Len(out) THEN out[k] ELSE resdata[k - Len(out)]
    BY <1>2, WriteAppends DEF Writes
  <2>4. \A k \in 1..Len(out') : out'[k] = k
    BY <1>0, <2>1, <2>3
  <2>. QED  BY <1>0, <2>1, <2>2, <2>3, <2>4
<1>3. CASE Breaks
  BY <1>3 DEF Breaks, WriteFails
<1>4. CASE Clears
  BY <1>0, <1>4 DEF Clears, Counted, Unwritten
<1>5. CASE Ends
  BY <1>0, <1>5 DEF Ends, Counted
<1>6. CASE Keeps
  BY <1>0, <1>6 DEF Keeps, Counted, Unwritten
<1>. QED  BY StepKinds, <1>1, <1>2, <1>3, <1>4, <1>5, <1>6

LEMMA EmptiedStep ==
  ASSUME TypeOK, Places, Emptied, [Next]_vars
  PROVE  Emptied'
<1>1. CASE Keeps
  BY <1>1 DEF Emptied, Keeps
<1>2. CASE Appends \/ Writes \/ Breaks \/ Clears \/ Ends
  BY <1>2 DEF Emptied, Appends, Writes, Breaks, WriteFails, Clears, Ends
<1>. QED  BY StepKinds, <1>1, <1>2

\* Until a write fails the file and the buffer are the samples in order,
\* none lost and none twice; and when the component has stopped, all of them
\* are in the file.
THEOREM CountedHolds == Spec => [](Counted /\ Emptied)
<1>1. Init => Counted /\ Emptied
  BY EmptySeq DEF Init, Counted, Emptied, Unwritten, Writing
<1>2. TypeOK /\ Places /\ (Counted /\ Emptied) /\ [Next]_vars
        => (Counted /\ Emptied)'
  BY CountedStep, EmptiedStep
<1>. QED  BY <1>1, <1>2, TypeCorrect, PlacesHold, PTL DEF Spec
LEMMA SamplesShape ==
  ASSUME TypeOK
  PROVE  /\ Samples \in Seq(Nat) /\ Len(Samples) = sampled
         /\ \A k \in 1..sampled : Samples[k] = k
<1>1. sampled \in Nat
  BY HostStatsAssumption DEF TypeOK, HostStatsAssumption
<1>2. Samples \in [1..sampled -> Nat] /\ \A k \in 1..sampled : Samples[k] = k
  BY <1>1 DEF Samples
<1>. QED  BY <1>1, <1>2

LEMMA OutUnwritten ==
  ASSUME TypeOK, Counted, ~failed, main # "killed"
  PROVE  out \o Unwritten = Samples
<1>1. out \in Seq(Nat) /\ Unwritten \in Seq(Nat)
  <2>1. out \in Seq(Nat) /\ resdata \in Seq(Nat)
    BY SeqMonotonic, HostStatsAssumption DEF TypeOK, HostStatsAssumption
  <2>. QED  BY <2>1, EmptySeq DEF Unwritten
<1>2. /\ out \o Unwritten \in Seq(Nat)
      /\ Len(out \o Unwritten) = Len(out) + Len(Unwritten)
      /\ \A i \in 1..Len(out) + Len(Unwritten) : (out \o Unwritten)[i] =
           IF i <= Len(out) THEN out[i] ELSE Unwritten[i - Len(out)]
  BY <1>1, ConcatProperties
<1>3. /\ Len(out) + Len(Unwritten) = sampled
      /\ \A k \in 1..Len(out) : out[k] = k
      /\ \A k \in 1..Len(Unwritten) : Unwritten[k] = Len(out) + k
  BY DEF Counted
<1>4. Len(out) \in Nat /\ Len(Unwritten) \in Nat
  BY <1>1, LenProperties
<1>. DEFINE both == out \o Unwritten
<1>5. /\ both \in Seq(Nat) /\ Len(both) = sampled
      /\ \A k \in 1..sampled : both[k] = k
  <2>1. \A k \in 1..sampled : both[k] = k
    <3>. TAKE k \in 1..sampled
    <3>1. CASE k <= Len(out)
      BY <1>2, <1>3, <1>4, <3>1
    <3>2. CASE k > Len(out)
      <4>1. k - Len(out) \in 1..Len(Unwritten)
        BY <1>3, <1>4, <3>2
      <4>2. both[k] = Unwritten[k - Len(out)]
        BY <1>2, <1>3, <1>4, <3>2
      <4>. QED  BY <1>3, <1>4, <4>1, <4>2
    <3>. QED  BY <1>3, <1>4, <3>1, <3>2
  <2>. QED  BY <1>2, <1>3, <2>1
<1>. HIDE DEF both
<1>6. both = Samples
  BY <1>5, SamplesShape, SeqEqual
<1>. QED  BY <1>6 DEF both

\* Until a write fails the file and the buffer are the samples in order.
THEOREM ExactlyOnceHolds == Spec => []ExactlyOnce
<1>1. TypeOK /\ Counted => ExactlyOnce
  <2>. SUFFICES ASSUME TypeOK, Counted, ~failed
                PROVE  /\ main # "killed" => out \o Unwritten = Samples
                       /\ Len(out) <= sampled
                       /\ \A k \in DOMAIN out : out[k] = k
    BY DEF ExactlyOnce
  <2>1. DOMAIN out = 1..Len(out)
    BY LenProperties DEF TypeOK
  <2>. QED  BY <2>1, OutUnwritten DEF Counted
<1>. QED  BY <1>1, TypeCorrect, CountedHolds, PTL

\* When the component has stopped without a failed write, every sample is in
\* the file, once and in order.
THEOREM StoppedCompleteHolds == Spec => []StoppedComplete
<1>1. TypeOK /\ Places /\ Counted /\ Emptied => StoppedComplete
  <2>. SUFFICES ASSUME TypeOK, Places, Counted, Emptied,
                       main = "stopped", ~failed
                PROVE  out = Samples
    BY DEF StoppedComplete
  <2>1. Unwritten = <<>>
    BY DEF Emptied, Unwritten
  <2>2. out \o <<>> = Samples
    BY <2>1, OutUnwritten
  <2>3. out \o <<>> = out
    BY ConcatEmptySeq DEF TypeOK
  <2>. QED  BY <2>2, <2>3
<1>. QED  BY <1>1, TypeCorrect, PlacesHold, CountedHolds, PTL

----------------------------------------------------------------------------
(* Failed writes *)

LEMMA KeptStep ==
  ASSUME TypeOK, Places, Kept, [Next]_vars
  PROVE  Kept'
<1>0. /\ resdata \in Seq(1..MaxSample) /\ out \in Seq(1..MaxSample)
      /\ Len(resdata) \in Nat /\ Len(out) \in Nat /\ sampled \in Nat
  BY LenProperties, HostStatsAssumption DEF TypeOK, HostStatsAssumption
<1>. SUFFICES ASSUME main' # "killed", NEW i \in 1..sampled'
              PROVE  In(i, out') \/ In(i, Unwritten')
  BY DEF Kept, In
<1>1. CASE Appends
  <2>1. Unwritten = resdata /\ Unwritten' = Append(resdata, sampled + 1)
    BY <1>1 DEF Appends, Unwritten
  <2>2. /\ Len(Append(resdata, sampled + 1)) = Len(resdata) + 1
        /\ \A k \in 1..Len(resdata) :
             Append(resdata, sampled + 1)[k] = resdata[k]
        /\ Append(resdata, sampled + 1)[Len(resdata) + 1] = sampled + 1
    <3>1. resdata \in Seq(Nat) /\ sampled + 1 \in Nat
      BY <1>0, SeqMonotonic, HostStatsAssumption DEF HostStatsAssumption
    <3>. QED  BY <3>1, AppendProperties
  <2>3. CASE i = sampled + 1
    BY <1>0, <2>1, <2>2, <2>3 DEF In
  <2>4. CASE i \in 1..sampled
    <3>1. In(i, out) \/ In(i, resdata)
      BY <1>1, <2>1, <2>4 DEF Kept, Appends
    <3>2. CASE In(i, out)
      BY <1>1, <3>2 DEF Appends, In
    <3>3. CASE In(i, resdata)
      <4>1. PICK k \in 1..Len(resdata) : resdata[k] = i
        BY <3>3 DEF In
      <4>2. k \in 1..Len(Unwritten') /\ Unwritten'[k] = i
        BY <1>0, <2>1, <2>2, <4>1
      <4>. QED  BY <4>2 DEF In
    <3>. QED  BY <3>1, <3>2, <3>3
  <2>. QED  BY <1>0, <1>1, <2>3, <2>4 DEF Appends
<1>2. CASE Writes
  <2>1. In(i, out) \/ In(i, resdata)
    BY <1>2 DEF Kept, Writes, Unwritten
  <2>2. /\ Len(out') = Len(out) + Len(resdata)
        /\ \A k \in 1..Len(out') : out'[k] =
             IF k <= Len(out) THEN out[k] ELSE resdata[k - Len(out)]
    BY <1>2, WriteAppends DEF Writes
  <2>3. CASE In(i, out)
    <3>1. PICK k \in 1..Len(out) : out[k] = i
      BY <2>3 DEF In
    <3>2. k \in 1..Len(out') /\ out'[k] = i
      BY <1>0, <2>2, <3>1
    <3>. QED  BY <3>2 DEF In
  <2>4. CASE In(i, resdata)
    <3>1. PICK k \in 1..Len(resdata) : resdata[k] = i
      BY <2>4 DEF In
    <3>2. /\ Len(out) + k \in 1..Len(out') /\ ~(Len(out) + k <= Len(out))
          /\ Len(out) + k - Len(out) = k
      BY <1>0, <2>2, <3>1
    <3>3. out'[Len(out) + k] = i
      BY <2>2, <3>1, <3>2
    <3>. QED  BY <3>2, <3>3 DEF In
  <2>. QED  BY <2>1, <2>3, <2>4
<1>3. CASE Breaks
  <2>1. In(i, out) \/ In(i, resdata)
    BY <1>3 DEF Kept, Breaks, Unwritten
  <2>2. Len(out) <= Len(out') /\ \A k \in 1..Len(out) : out'[k] = out[k]
    BY <1>3, PrefixAppends DEF Breaks
  <2>3. Len(out') \in Nat
    BY <1>3, WriteType, LenProperties DEF Breaks
  <2>4. In(i, out) => In(i, out')
    BY <1>0, <2>2, <2>3 DEF In
  <2>5. Unwritten' = resdata
    BY <1>3 DEF Breaks, Unwritten
  <2>. QED  BY <2>1, <2>4, <2>5
<1>4. CASE Clears
  <2>1. In(i, out) \/ In(i, <<>>)
    BY <1>4 DEF Kept, Clears, Unwritten
  <2>2. ~ In(i, <<>>)
    BY EmptySeq DEF In
  <2>. QED  BY <1>4, <2>1, <2>2 DEF Clears
<1>5. CASE Ends
  BY <1>5 DEF Ends
<1>6. CASE Keeps
  <2>1. Unwritten' = Unwritten /\ out' = out
    BY <1>6 DEF Keeps, Unwritten
  <2>2. In(i, out) \/ In(i, Unwritten)
    BY <1>6 DEF Keeps, Kept
  <2>. QED  BY <2>1, <2>2
<1>. QED  BY StepKinds, <1>1, <1>2, <1>3, <1>4, <1>5, <1>6

\* A failed write loses no sample: it is in the file or in the buffer that
\* the main thread writes again.
THEOREM NoneLostHolds == Spec => []NoneLost
<1>1. Init => Kept
  BY DEF Init, Kept
<1>2. TypeOK /\ Places /\ Kept /\ [Next]_vars => Kept'
  BY KeptStep
<1>3. TypeOK /\ Kept => NoneLost
  <2>. SUFFICES ASSUME TypeOK, Kept, main # "killed", NEW i \in 1..sampled
                PROVE  \/ \E k \in DOMAIN out : out[k] = i
                       \/ \E k \in DOMAIN resdata : resdata[k] = i
    BY DEF NoneLost
  <2>1. DOMAIN out = 1..Len(out) /\ DOMAIN resdata = 1..Len(resdata)
    BY LenProperties DEF TypeOK
  <2>2. ~ In(i, <<>>)
    BY EmptySeq DEF In
  <2>3. In(i, out) \/ In(i, resdata)
    BY <2>2 DEF Kept, Unwritten
  <2>. QED  BY <2>1, <2>3 DEF In
<1>. QED  BY <1>1, <1>2, <1>3, TypeCorrect, PlacesHold, PTL DEF Spec

----------------------------------------------------------------------------
(* The buffer *)

LEMMA RoomStep ==
  ASSUME TypeOK, Places, Room, [Next]_vars
  PROVE  Room'
<1>0. /\ Len(resdata) \in Nat /\ count \in 0..(PerFlush - 1)
      /\ PerFlush \in Nat \ {0} /\ sampler \in SamplerLabels
  BY LenProperties, HostStatsAssumption DEF TypeOK, HostStatsAssumption
<1>00. Len(<<>>) = 0
  BY EmptySeq
<1>. USE DEF Room
<1>1. CASE Construct \/ StopMonitor \/ Join \/ Pause
  BY <1>1 DEF Construct, StopMonitor, Join, Pause
<1>2. CASE StartSampler
  BY <1>0, <1>2 DEF StartSampler, Places
<1>3. CASE MainFlush
  BY <1>3 DEF MainFlush
<1>4. CASE MainClear
  BY <1>0, <1>00, <1>4 DEF MainClear, Places
<1>5. CASE Loop \/ PollNothing \/ PollError
  BY <1>0, <1>5 DEF Loop, PollNothing, PollError
<1>6. CASE Check
  BY <1>0, <1>00, <1>6 DEF Check
<1>7. CASE PollData
  <2>1. Len(resdata') = Len(resdata) + 1
    <3>1. resdata \in Seq(Nat) /\ sampled + 1 \in Nat
      BY SeqMonotonic, HostStatsAssumption DEF TypeOK, HostStatsAssumption
    <3>. QED  BY <1>7, <3>1, AppendProperties DEF PollData
  <2>. QED  BY <1>0, <1>7, <2>1 DEF PollData
<1>8. CASE Flush
  BY <1>0, <1>8 DEF Flush
<1>9. CASE Clear
  BY <1>0, <1>00, <1>9 DEF Clear
<1>10. CASE Sleep
  BY <1>0, <1>10 DEF Sleep
<1>11. CASE Terminate
  BY <1>11 DEF Terminate
<1>12. CASE Kill
  BY <1>0, <1>00, <1>12 DEF Kill
<1>13. CASE UNCHANGED vars
  BY <1>13 DEF vars
<1>. QED
  BY <1>1, <1>2, <1>3, <1>4, <1>5, <1>6, <1>7, <1>8, <1>9, <1>10, <1>11,
     <1>12, <1>13 DEF Next, Main, Sampler

LEMMA RoomHolds == Spec => []Room
<1>1. Init => Room
  BY EmptySeq, HostStatsAssumption DEF Init, Room, HostStatsAssumption
<1>2. TypeOK /\ Places /\ Room /\ [Next]_vars => Room'
  BY RoomStep
<1>. QED  BY <1>1, <1>2, TypeCorrect, PlacesHold, PTL DEF Spec

\* The buffer never holds more than the polls of one flush period.
THEOREM BufferBoundedHolds == Spec => []BufferBounded
<1>1. Room => BufferBounded
  BY DEF Room, BufferBounded
<1>. QED  BY <1>1, RoomHolds, PTL

----------------------------------------------------------------------------
(* The abstract specification *)

LEMMA LogStep ==
  ASSUME TypeOK, Places, Room, Emptied, [Next]_vars
  PROVE  [Log!Next]_(Log!vars)
<1>. USE DEF Places, Unwritten, Writing, Phase, flags
<1>1. CASE Construct \/ StartSampler \/ Pause \/ StopMonitor
  <2>1. UNCHANGED Log!vars
    BY <1>1 DEF Construct, StartSampler, Pause, StopMonitor, Log!vars
  <2>. QED  BY <2>1
<1>2. CASE Join
  <2>1. CASE resdata = <<>>
    <3>1. Log!Close
      BY <1>2, <2>1 DEF Join, Log!Close
    <3>. QED  BY <3>1 DEF Log!Next
  <2>2. CASE resdata # <<>>
    <3>1. UNCHANGED Log!vars
      BY <1>2, <2>2 DEF Join, Log!vars
    <3>. QED  BY <3>1
  <2>. QED  BY <2>1, <2>2
<1>3. CASE MainFlush
  <2>1. CASE Write /\ main' = "clear"
    <3>1. CASE resdata = <<>>
      <4>1. out' = out
        BY <2>1, <3>1, ConcatEmptySeq DEF Write, TypeOK
      <4>2. UNCHANGED Log!vars
        BY <1>3, <2>1, <3>1, <4>1 DEF MainFlush, Write, Log!vars
      <4>. QED  BY <4>2
    <3>2. CASE resdata # <<>>
      <4>1. Log!Deliver
        BY <1>3, <2>1, <3>2 DEF MainFlush, Write, Log!Deliver
      <4>. QED  BY <4>1 DEF Log!Next
    <3>. QED  BY <3>1, <3>2
  <2>2. CASE WriteFails /\ main' = "stopped"
    <3>1. Log!Tear
      BY <1>3, <2>2 DEF MainFlush, WriteFails, Log!Tear
    <3>. QED  BY <3>1 DEF Log!Next
  <2>. QED  BY <1>3, <2>1, <2>2 DEF MainFlush
<1>4. CASE MainClear
  <2>1. Log!Close
    BY <1>4 DEF MainClear, Log!Close
  <2>. QED  BY <2>1 DEF Log!Next
<1>5. CASE Loop \/ PollNothing \/ PollError \/ Check \/ Sleep
  <2>1. UNCHANGED Log!vars
    BY <1>5 DEF Loop, PollNothing, PollError, Check, Sleep, Log!vars
  <2>. QED  BY <2>1
<1>. DEFINE Live == main \notin {"killed", "stopped"}
<1>6. CASE PollData /\ Live
  <2>1. Log!Take
    BY <1>6 DEF PollData, Log!Take
  <2>. QED  BY <2>1 DEF Log!Next
<1>7. CASE Flush /\ Live
  <2>1. CASE Write /\ sampler' = "clear"
    <3>1. CASE resdata = <<>>
      <4>1. out' = out
        BY <2>1, <3>1, ConcatEmptySeq DEF Write, TypeOK
      <4>2. UNCHANGED Log!vars
        BY <1>7, <2>1, <3>1, <4>1 DEF Flush, Write, Log!vars
      <4>. QED  BY <4>2
    <3>2. CASE resdata # <<>>
      <4>1. Log!Deliver
        BY <1>7, <2>1, <3>2 DEF Flush, Write, Log!Deliver
      <4>. QED  BY <4>1 DEF Log!Next
    <3>. QED  BY <3>1, <3>2
  <2>2. CASE WriteFails /\ sampler' = "gone"
    <3>1. Log!Tear
      BY <1>7, <2>2 DEF Flush, WriteFails, Log!Tear
    <3>. QED  BY <3>1 DEF Log!Next
  <2>. QED  BY <1>7, <2>1, <2>2 DEF Flush
<1>8. CASE Clear /\ Live
  <2>1. UNCHANGED Log!vars
    BY <1>8 DEF Clear, Log!vars
  <2>. QED  BY <2>1
<1>9. CASE Terminate
  <2>1. CASE main = "init"
    <3>0. resdata = <<>>
      BY <2>1, EmptySeq DEF Room, TypeOK
    <3>1. Log!Crash
      BY <1>9, <2>1, <3>0 DEF Terminate, Log!Crash
    <3>. QED  BY <3>1 DEF Log!Next
  <2>2. CASE main # "init"
    <3>1. UNCHANGED Log!vars
      BY <1>9, <2>2 DEF Terminate, Log!vars
    <3>. QED  BY <3>1
  <2>. QED  BY <2>1, <2>2
<1>10. CASE Kill
  <2>1. Log!Crash
    BY <1>10 DEF Kill, Log!Crash
  <2>. QED  BY <2>1 DEF Log!Next
<1>11. CASE UNCHANGED vars
  <2>1. UNCHANGED Log!vars
    BY <1>11 DEF vars, Log!vars
  <2>. QED  BY <2>1
<1>. QED
  BY <1>1, <1>2, <1>3, <1>4, <1>5, <1>6, <1>7, <1>8, <1>9, <1>10, <1>11
     DEF Next, Main, Sampler, PollData, Flush, Clear

\* The two threads, the buffer and the signals implement the sample log, for
\* every flush period and any number of polls.
THEOREM Implements == Spec => ImplementsSampleLog
<1>1. Init => Log!Init
  BY DEF Init, Log!Init, Unwritten, Writing, Phase
<1>2. TypeOK /\ Places /\ Room /\ Emptied /\ [Next]_vars => [Log!Next]_(Log!vars)
  BY LogStep
<1>. QED
  BY <1>1, <1>2, TypeCorrect, PlacesHold, RoomHolds, CountedHolds, PTL
     DEF Spec, ImplementsSampleLog, Log!Spec
=============================================================================
