--------------------------- MODULE Staleness_proof ---------------------------
(***************************************************************************)
(* How many samples are under way: staleness_samples never undercounts     *)
(* them by more than the one in the processor's hand, and there are never  *)
(* more than max_required_samples + 1, whatever the parameters.            *)
(*                                                                         *)
(* The bound is not inductive.  update_param_version replaces the counter  *)
(* by a sum it takes at two moments, so the invariant also says what the   *)
(* first half of the sum covers while the second is awaited; and a         *)
(* processor that waits for the feeder has decided to take a sample with a *)
(* counter that may be another one when it takes it.                       *)
(***************************************************************************)
EXTENDS FullyAsync_proof

Active == Cardinality(Unfinished) + Len(cancel_queue)

HandInv ==
    rollout_sample \in Samples =>
        \/ processor \in {"drain", "await"} /\ drain_site = "limit"
        \/ processor \in {"submit", "submit_idle", "crashed"}

CountInv ==
    /\ InFlight + InHand <= staleness_samples + 1
    /\ InFlight + InHand <= max_required_samples + 1
    /\ processor = "get" => InFlight <= max_required_samples
    /\ update_call = "sizing" => Active <= update_base

LEMMA MaxIsNat == max_required_samples \in Nat
  <1>1. RequiredSamples * TriggerStep \in Nat
    BY RollouterAssumption
  <1>2. RequiredSamples * TriggerStep * (100 + StalenessPercent) \in Nat
    BY <1>1, RollouterAssumption
  <1> QED
    BY <1>2 DEF max_required_samples

-----------------------------------------------------------------------------
(* Counting samples in the queue                                           *)

LEMMA RealFinite ==
    ASSUME NEW q \in Seq(Nat)
    PROVE  /\ IsFiniteSet(RealSamples(q))
           /\ Cardinality(RealSamples(q)) \in Nat
           /\ Cardinality(RealSamples(q)) <= Len(q)
  <1>1. Len(q) \in Nat /\ DOMAIN q = 1..Len(q)
    BY LenProperties
  <1>2. IsFiniteSet(1..Len(q)) /\ Cardinality(1..Len(q)) = Len(q)
    <2>1. 1 \in Int /\ Len(q) \in Int
      BY <1>1
    <2>2. IsFiniteSet(1..Len(q))
      BY <2>1, FS_Interval
    <2>3. Cardinality(1..Len(q)) = IF 1 > Len(q) THEN 0 ELSE Len(q) - 1 + 1
      BY <2>1, FS_Interval
    <2> QED
      BY <1>1, <2>2, <2>3
  <1>3. RealSamples(q) \in SUBSET (1..Len(q))
    BY <1>1 DEF RealSamples
  <1>4. IsFiniteSet(RealSamples(q))
    BY <1>2, <1>3, FS_Subset
  <1>5. Cardinality(RealSamples(q)) <= Cardinality(1..Len(q))
    BY <1>2, <1>3, FS_Subset
  <1>6. Cardinality(RealSamples(q)) \in Nat
    BY <1>4, FS_CardinalityType
  <1> QED
    BY <1>2, <1>4, <1>5, <1>6

LEMMA AddOne ==
    ASSUME NEW S, IsFiniteSet(S), NEW x
    PROVE  /\ Cardinality(S) \in Nat
           /\ Cardinality(S \cup {x}) \in Nat
           /\ Cardinality(S \cup {x}) <= Cardinality(S) + 1
  <1>1. Cardinality(S) \in Nat
    BY FS_CardinalityType
  <1>2. CASE x \in S
    <2>1. S \cup {x} = S
      BY <1>2
    <2> QED
      BY <1>1, <2>1
  <1>3. CASE x \notin S
    <2>1. Cardinality(S \cup {x}) = Cardinality(S) + 1
      BY <1>3, FS_AddElement
    <2> QED
      BY <1>1, <2>1
  <1> QED
    BY <1>2, <1>3

(* A sample more in the queue is one more at the most; an end mark none.   *)
LEMMA RealAppend ==
    ASSUME NEW q \in Seq(Nat), NEW s \in Nat
    PROVE  /\ Cardinality(RealSamples(Append(q, s))) <= Cardinality(RealSamples(q)) + 1
           /\ s = EndMark =>
                Cardinality(RealSamples(Append(q, s))) = Cardinality(RealSamples(q))
  <1>1. /\ Append(q, s) \in Seq(Nat)
        /\ Len(Append(q, s)) = Len(q) + 1
        /\ \A i \in 1..Len(q) : Append(q, s)[i] = q[i]
        /\ Append(q, s)[Len(q) + 1] = s
        /\ Len(q) \in Nat
        /\ DOMAIN q = 1..Len(q)
        /\ DOMAIN Append(q, s) = 1..Len(q) + 1
    BY AppendProperties, LenProperties
  <1>2. IsFiniteSet(RealSamples(q)) /\ Cardinality(RealSamples(q)) \in Nat
    BY RealFinite
  <1>3. CASE s = EndMark
    <2>1. RealSamples(Append(q, s)) = RealSamples(q)
      BY <1>1, <1>3 DEF RealSamples
    <2> QED
      BY <1>2, <2>1
  <1>4. CASE s # EndMark
    <2>1. RealSamples(Append(q, s)) = RealSamples(q) \cup {Len(q) + 1}
      BY <1>1, <1>4 DEF RealSamples
    <2>2. Cardinality(RealSamples(q) \cup {Len(q) + 1}) <= Cardinality(RealSamples(q)) + 1
      BY <1>2, AddOne
    <2>3. Cardinality(RealSamples(Append(q, s))) <= Cardinality(RealSamples(q)) + 1
      BY <2>1, <2>2
    <2> QED
      BY <1>4, <2>3
  <1> QED
    BY <1>3, <1>4

(* Taking the first one adds none.                                         *)
LEMMA RealTail ==
    ASSUME NEW q \in Seq(Nat), q # <<>>
    PROVE  Cardinality(RealSamples(Tail(q))) <= Cardinality(RealSamples(q))
  <1> DEFINE shift == [i \in RealSamples(Tail(q)) |-> i + 1]
  <1>1. /\ Tail(q) \in Seq(Nat)
        /\ Len(Tail(q)) = Len(q) - 1
        /\ \A i \in 1..Len(Tail(q)) : Tail(q)[i] = q[i + 1]
        /\ Len(q) \in Nat
        /\ DOMAIN q = 1..Len(q)
        /\ DOMAIN Tail(q) = 1..Len(q) - 1
    BY HeadTailProperties, LenProperties
  <1>2. \A i \in RealSamples(Tail(q)) : i \in Nat /\ i + 1 \in RealSamples(q)
    BY <1>1 DEF RealSamples
  <1>3. shift \in [RealSamples(Tail(q)) -> RealSamples(q)]
    BY <1>2
  <1>4. \A i, j \in RealSamples(Tail(q)) : shift[i] = shift[j] => i = j
    BY <1>2
  <1>5. shift \in Injection(RealSamples(Tail(q)), RealSamples(q))
    BY <1>3, <1>4 DEF Injection, IsInjective
  <1> QED
    BY <1>5, RealFinite, FS_Injection

(* So a put adds one at the most, whether or not the queue was full.       *)
LEMMA RealPut ==
    ASSUME QueueTypeOK, NEW s \in Nat, PutSample(s)
    PROVE  /\ Cardinality(RealSamples(queue')) <= Cardinality(RealSamples(queue)) + 1
           /\ s = EndMark =>
                Cardinality(RealSamples(queue')) <= Cardinality(RealSamples(queue))
  <1>1. /\ Kept \in Seq(Nat)
        /\ Cardinality(RealSamples(Kept)) <= Cardinality(RealSamples(queue))
    <2>1. CASE IsFull
      <3>1. queue # <<>>
        BY <2>1, MaxQueueSizeAssumption DEF IsFull
      <3> QED
        BY <2>1, <3>1, HeadTailProperties, RealTail DEF Kept, QueueTypeOK
    <2>2. CASE ~IsFull
      BY <2>2, RealFinite DEF Kept, QueueTypeOK
    <2> QED
      BY <2>1, <2>2
  <1>2. queue' = Append(Kept, s) /\ queue \in Seq(Nat)
    BY DEF PutSample, QueueTypeOK
  <1>3. /\ Cardinality(RealSamples(queue')) <= Cardinality(RealSamples(Kept)) + 1
        /\ s = EndMark =>
              Cardinality(RealSamples(queue')) = Cardinality(RealSamples(Kept))
    BY <1>1, <1>2, RealAppend
  <1>4. /\ Cardinality(RealSamples(Kept)) \in Nat
        /\ Cardinality(RealSamples(queue)) \in Nat
        /\ Cardinality(RealSamples(queue')) \in Nat
    BY <1>1, <1>2, RealFinite, AppendProperties
  <1> QED
    BY <1>1, <1>3, <1>4

-----------------------------------------------------------------------------
(* Counting tasks                                                          *)

LEMMA CountsOf ==
    ASSUME NEW t \in [Samples -> TaskStates], NEW c \in Seq(Samples), NEW q \in Seq(Nat)
    PROVE  /\ IsFiniteSet({s \in Samples : t[s] # "none"})
           /\ Cardinality({s \in Samples : t[s] # "none"}) \in Nat
           /\ Len(c) \in Nat
           /\ Cardinality(RealSamples(q)) \in Nat
           /\ Cardinality(RealSamples(q)) <= Len(q)
           /\ Len(q) \in Nat
  <1>1. IsFiniteSet(Samples)
    BY RollouterAssumption, FS_Interval DEF Samples
  <1>2. {s \in Samples : t[s] # "none"} \in SUBSET Samples
    OBVIOUS
  <1>3. /\ IsFiniteSet({s \in Samples : t[s] # "none"})
        /\ Cardinality({s \in Samples : t[s] # "none"}) \in Nat
    BY <1>1, <1>2, FS_Subset, FS_CardinalityType
  <1> QED
    BY <1>3, RealFinite, LenProperties

LEMMA Counts ==
    ASSUME TypeOK
    PROVE  /\ IsFiniteSet(Unfinished)
           /\ Cardinality(Unfinished) \in Nat
           /\ Len(cancel_queue) \in Nat
           /\ Cardinality(RealSamples(queue)) \in Nat
           /\ Cardinality(RealSamples(queue)) <= Len(queue)
           /\ Len(queue) \in Nat
           /\ InHand \in {0, 1}
           /\ staleness_samples \in Nat
           /\ update_base \in Nat
  <1>1. /\ task \in [Samples -> TaskStates]
        /\ cancel_queue \in Seq(Samples)
        /\ queue \in Seq(Nat)
    BY DEF TypeOK, QueueTypeOK, StreamTypeOK, TaskTypeOK
  <1> QED
    BY <1>1, CountsOf DEF Unfinished, TypeOK, FlagTypeOK, CallTypeOK, InHand

(* The same of the next state.                                             *)
LEMMA CountsNext ==
    ASSUME TypeOK'
    PROVE  /\ IsFiniteSet(Unfinished')
           /\ Cardinality(Unfinished') \in Nat
           /\ Len(cancel_queue') \in Nat
           /\ Cardinality(RealSamples(queue')) \in Nat
           /\ Len(queue') \in Nat
           /\ InHand' \in {0, 1}
           /\ staleness_samples' \in Nat
           /\ update_base' \in Nat
  <1>1. /\ task' \in [Samples -> TaskStates]
        /\ cancel_queue' \in Seq(Samples)
        /\ queue' \in Seq(Nat)
    BY DEF TypeOK, QueueTypeOK, StreamTypeOK, TaskTypeOK
  <1> QED
    BY <1>1, CountsOf DEF Unfinished, TypeOK, FlagTypeOK, CallTypeOK, InHand

(* A task that ends is one less, and a new one is one more.                *)
LEMMA TaskCount ==
    ASSUME TypeOK, NEW s \in Samples, NEW v, task' = [task EXCEPT ![s] = v]
    PROVE  /\ v = "none" /\ task[s] # "none" =>
                Cardinality(Unfinished') = Cardinality(Unfinished) - 1
           /\ v # "none" /\ task[s] # "none" => Unfinished' = Unfinished
           /\ v # "none" => Cardinality(Unfinished') <= Cardinality(Unfinished) + 1
  <1>0. task \in [Samples -> TaskStates]
    BY DEF TypeOK, TaskTypeOK
  <1>1. CASE v = "none"
    <2>1. Unfinished' = Unfinished \ {s}
      BY <1>0, <1>1 DEF Unfinished
    <2>2. task[s] # "none" => s \in Unfinished
      BY DEF Unfinished
    <2> QED
      BY <1>1, <2>1, <2>2, Counts, FS_RemoveElement
  <1>2. CASE v # "none"
    <2>1. Unfinished' = Unfinished \cup {s}
      BY <1>0, <1>2 DEF Unfinished
    <2>2. task[s] # "none" => s \in Unfinished
      BY DEF Unfinished
    <2>3. IsFiniteSet(Unfinished) /\ Cardinality(Unfinished) \in Nat
      BY Counts
    <2>4. Cardinality(Unfinished \cup {s}) <= Cardinality(Unfinished) + 1
      BY <2>3, AddOne
    <2>5. Cardinality(Unfinished') <= Cardinality(Unfinished) + 1
      BY <2>1, <2>4
    <2>6. task[s] # "none" => Unfinished' = Unfinished
      BY <2>1, <2>2
    <2> QED
      BY <1>2, <2>5, <2>6
  <1> QED
    BY <1>1, <1>2

-----------------------------------------------------------------------------
(* Where the processor holds a sample                                      *)

LEMMA HandStep == TypeOK /\ HandInv /\ [Next]_vars => HandInv'
  <1> SUFFICES ASSUME TypeOK, HandInv, [Next]_vars
               PROVE  HandInv'
    OBVIOUS
  <1> USE DEF RollouterDoes, HandInv
  <1>1. CASE RollouterDoes(ProcessorNext)
    <2>1. CASE TopPause \/ SignalPause
      BY <2>1 DEF TopPause, SignalPause
    <2>2. CASE TopContinue
      BY <2>2 DEF TopContinue
    <2>3. CASE TopTake
      BY <2>3 DEF TopTake, TakePending, Done, Samples
    <2>4. CASE GetPending
      BY <2>4 DEF GetPending, TakePending, Done, Samples
    <2>5. CASE DrainLeave
      BY <2>5 DEF DrainLeave, NoSample, Samples, TypeOK, ProcessorTypeOK
    <2>6. CASE DrainAwait \/ DrainEmptied \/ DrainReap
      BY <2>6 DEF DrainAwait, DrainEmptied, DrainReap
    <2>7. CASE Rest \/ SubmitWait
      BY <2>7 DEF Rest, SubmitWait
    <2>8. CASE Submit
      BY <2>8 DEF Submit, NoSample, Samples
    <2>9. CASE ProcessorQueues
      BY <2>9 DEF ProcessorQueues
    <2> QED
      BY <1>1, <2>1, <2>2, <2>3, <2>4, <2>5, <2>6, <2>7, <2>8, <2>9 DEF ProcessorNext
  <1>2. CASE RollouterDoes(MonitorNext)
    BY <1>2, MonitorFrame DEF MonitorNext, MonitorDecides, MonitorUnpauses,
       MonitorStops, Unpause, NotifyProcessor, procVars
  <1>3. CASE RollouterDoes(CallNext)
    BY <1>3, CallFrame DEF CallNext, CallQueues, PauseBegin, PauseCancel, PauseEnd,
       UpdateBegin, UpdateSize, UpdateEnd, ResumeBegin, ResumeEnd, Reopen, Unpause,
       NotifyProcessor, procVars
  <1>4. CASE UNCHANGED <<processor, rollout_sample, drain_site>>
    BY <1>4
  <1>5. ASSUME RollouterDoes(FeedSamples) \/ RollouterDoes(MainNext)
        PROVE  UNCHANGED <<processor, rollout_sample, drain_site>>
    BY <1>5, MainFrame DEF FeedSamples, procVars
  <1>6. ASSUME NEW s \in Samples, RollouterDoes(TaskNext(s))
        PROVE  UNCHANGED <<processor, rollout_sample, drain_site>>
    BY <1>6, TaskFrame DEF procVars
  <1>7. ASSUME TrainerDoes(TrainerNext)
        PROVE  UNCHANGED <<processor, rollout_sample, drain_site>>
    BY <1>7, TrainerFrame DEF TrainerDoes, rollouterInner
  <1>8. \/ RollouterDoes(RollouterNext)
        \/ TrainerDoes(TrainerNext)
        \/ UNCHANGED <<processor, rollout_sample, drain_site>>
    BY DEF Next, DriverEnds, Ended, vars, rollouterVars
  <1>9. CASE RollouterDoes(RollouterNext)
    <2>1. \/ RollouterDoes(FeedSamples) \/ RollouterDoes(MainNext)
          \/ RollouterDoes(ProcessorNext)
          \/ \E s \in Samples : RollouterDoes(TaskNext(s))
          \/ RollouterDoes(MonitorNext) \/ RollouterDoes(CallNext)
      BY <1>9 DEF RollouterNext, RollouterDoes
    <2> QED
      BY <2>1, <1>1, <1>2, <1>3, <1>4, <1>5, <1>6
  <1> QED
    BY <1>4, <1>7, <1>8, <1>9

-----------------------------------------------------------------------------
(* The count.  Most steps add nothing to what is under way.                *)

Quiet ==
    /\ Active' <= Active
    /\ InFlight' + InHand' <= InFlight + InHand
    /\ InFlight' <= InFlight
    /\ staleness_samples' = staleness_samples
    /\ processor' = "get" => processor = "get"
    /\ update_call' = "sizing" => update_call = "sizing"
    /\ update_base' = update_base

LEMMA SumNat ==
    ASSUME NEW a \in Nat, NEW b \in Nat
    PROVE  a + b \in Nat
  OBVIOUS

LEMMA SumTypes ==
    ASSUME TypeOK, TypeOK'
    PROVE  /\ InFlight + InHand \in Nat
           /\ (InFlight + InHand)' \in Nat
  <1>1. InFlight + InHand \in Nat
    <2>1. InFlight \in Nat
      BY Counts DEF InFlight
    <2>2. InHand \in Nat
      BY Counts
    <2> QED
      BY <2>1, <2>2
  <1>2. (InFlight + InHand)' \in Nat
    <2>1. InFlight' \in Nat
      BY CountsNext DEF InFlight
    <2>2. InHand' \in Nat
      BY CountsNext
    <2> QED
      BY <2>1, <2>2, SumNat
  <1> QED
    BY <1>1, <1>2

LEMMA LeqChain ==
    ASSUME NEW a \in Nat, NEW b \in Nat, NEW c \in Nat, NEW d \in Nat,
           b <= a, a <= c + 1, d = c
    PROVE  b <= d + 1
  OBVIOUS

LEMMA QuietKeeps ==
    ASSUME TypeOK, TypeOK', CountInv, Quiet
    PROVE  CountInv'
  <1>1. InFlight' + InHand' <= staleness_samples' + 1
    <2>1. InFlight + InHand <= staleness_samples + 1
      BY DEF CountInv
    <2>2. InFlight' + InHand' <= InFlight + InHand
      BY DEF Quiet
    <2>3. staleness_samples' = staleness_samples
      BY DEF Quiet
    <2>4. /\ InFlight + InHand \in Nat
          /\ InFlight' + InHand' \in Nat
      BY SumTypes
    <2>5. staleness_samples \in Nat /\ staleness_samples' \in Nat
      BY Counts, CountsNext
    <2> QED
      BY <2>1, <2>2, <2>3, <2>4, <2>5, LeqChain
  <1>2. InFlight' + InHand' <= max_required_samples + 1
    <2>1. InFlight + InHand <= max_required_samples + 1
      BY DEF CountInv
    <2>2. InFlight' + InHand' <= InFlight + InHand
      BY DEF Quiet
    <2>3. max_required_samples' = max_required_samples
      BY DEF max_required_samples
    <2>4. /\ InFlight + InHand \in Nat
          /\ InFlight' + InHand' \in Nat
      BY SumTypes
    <2> QED
      BY <2>1, <2>2, <2>3, <2>4, MaxIsNat
  <1>3. processor' = "get" => InFlight' <= max_required_samples
    BY Counts, CountsNext, MaxIsNat DEF CountInv, InFlight, Quiet
  <1>4. update_call' = "sizing" => Active' <= update_base'
    BY Counts, CountsNext DEF CountInv, Active, Quiet
  <1> QED
    BY <1>1, <1>2, <1>3, <1>4 DEF CountInv

(* A step that leaves the tasks, cancel_queue and the counter alone, lets  *)
(* go of a sample at the most and adds none to the queue.                  *)
LEMMA QuietFrame ==
    ASSUME TypeOK,
           UNCHANGED <<task, cancel_queue, staleness_samples, update_base>>,
           rollout_sample' \in {rollout_sample, NoSample},
           \/ queue' = queue
           \/ Cardinality(RealSamples(queue')) <= Cardinality(RealSamples(queue)),
           Cardinality(RealSamples(queue')) \in Nat,
           processor' = "get" => processor = "get",
           update_call' = "sizing" => update_call = "sizing"
    PROVE  Quiet
  <1>1. Unfinished' = Unfinished /\ Len(cancel_queue') = Len(cancel_queue)
    BY DEF Unfinished
  <1>2. InHand' \in {0, 1} /\ InHand' <= InHand
    BY DEF InHand, NoSample, Samples
  <1>3. Cardinality(RealSamples(queue')) <= Cardinality(RealSamples(queue))
    BY Counts
  <1>4. Active' <= Active /\ InFlight' <= InFlight
    BY <1>1, <1>3, Counts DEF Active, InFlight
  <1>5. InFlight' + InHand' <= InFlight + InHand
    BY <1>1, <1>2, <1>3, Counts DEF InFlight, InHand
  <1> QED
    BY <1>4, <1>5 DEF Quiet

(* The steps of a task: it ends, and its sample goes to one of the queues. *)
LEMMA TaskQuiet ==
    ASSUME TypeOK, TypeOK', NEW s \in Samples, TaskNext(s)
    PROVE  Quiet
  <1> USE DEF Active, InFlight, InHand
  <1>1. /\ UNCHANGED <<rollout_sample, staleness_samples, update_base, processor, update_call>>
        /\ Cardinality(Unfinished) \in Nat /\ Cardinality(Unfinished') \in Nat
        /\ Len(cancel_queue) \in Nat
        /\ Cardinality(RealSamples(queue)) \in Nat
        /\ Cardinality(RealSamples(queue')) \in Nat
        /\ task \in [Samples -> TaskStates] /\ cancel_queue \in Seq(Samples)
    BY TaskFrame, Counts, CountsNext
    DEF procVars, flagVars, callVars, TypeOK, TaskTypeOK, StreamTypeOK
  <1>2. ASSUME Interrupt(s), task[s] # "none", queue' = queue
        PROVE  Quiet
    <2>1. Cardinality(Unfinished') = Cardinality(Unfinished) - 1
      BY <1>2, TaskCount DEF Interrupt
    <2>2. Len(cancel_queue') = Len(cancel_queue) + 1
      BY <1>1, <1>2, AppendProperties DEF Interrupt
    <2> QED
      BY <1>1, <1>2, <2>1, <2>2 DEF Quiet
  <1>3. CASE TaskStart(s)
    <2>1. CASE servers_paused
      BY <1>2, <1>3, <2>1 DEF TaskStart, mqVars
    <2>2. CASE ~servers_paused
      <3>1. Unfinished' = Unfinished
        BY <1>3, <2>2, TaskCount DEF TaskStart
      <3> QED
        BY <1>1, <1>3, <2>2, <3>1 DEF TaskStart, mqVars, Quiet
    <2> QED
      BY <2>1, <2>2
  <1>4. CASE TaskInterrupted(s)
    BY <1>2, <1>4 DEF TaskInterrupted, mqVars
  <1>5. CASE TaskGenerated(s)
    <2>1. task[s] # "none" /\ task' = [task EXCEPT ![s] = "putting"]
      BY <1>5 DEF TaskGenerated
    <2>2. Unfinished' = Unfinished
      BY <1>1, <2>1 DEF Unfinished
    <2> QED
      BY <1>1, <1>5, <2>2 DEF TaskGenerated, mqVars, Quiet
  <1>6. CASE TaskFails(s)
    <2>1. Cardinality(Unfinished') = Cardinality(Unfinished) - 1
      BY <1>6, TaskCount DEF TaskFails
    <2> QED
      BY <1>1, <1>6, <2>1 DEF TaskFails, mqVars, Quiet
  <1>7. CASE TaskPut(s)
    <2>1. Cardinality(Unfinished') = Cardinality(Unfinished) - 1
      BY <1>7, TaskCount DEF TaskPut
    <2>2. Cardinality(RealSamples(queue')) <= Cardinality(RealSamples(queue)) + 1
      BY <1>7, RealPut DEF TaskPut, TypeOK, Samples
    <2> QED
      BY <1>1, <1>7, <2>1, <2>2 DEF TaskPut, Quiet
  <1> QED
    BY <1>3, <1>4, <1>5, <1>6, <1>7 DEF TaskNext

(* The steps of the processor.  It takes a sample only below the limit,    *)
(* and counts it; it submits the one in its hand outside the critical      *)
(* sections of update_param_version.                                       *)
LEMMA ProcessorCount ==
    ASSUME TypeOK, TypeOK', LockHeld, HandInv, CountInv, ProcessorNext
    PROVE  CountInv'
  <1> USE DEF Active, InFlight, InHand
  <1>1. /\ UNCHANGED <<queue, update_call, update_base>>
        /\ Cardinality(Unfinished) \in Nat /\ Cardinality(Unfinished') \in Nat
        /\ Len(cancel_queue) \in Nat /\ Len(cancel_queue') \in Nat
        /\ Cardinality(RealSamples(queue)) \in Nat
        /\ Cardinality(RealSamples(queue')) \in Nat
        /\ staleness_samples \in Nat /\ update_base \in Nat
        /\ task \in [Samples -> TaskStates] /\ cancel_queue \in Seq(Samples)
    BY ProcessorFrame, Counts, CountsNext
    DEF mqVars, callVars, TypeOK, TaskTypeOK, StreamTypeOK
  <1>2. CASE TopContinue
    <2>1. Unfinished' = Unfinished
      BY <1>2 DEF TopContinue, taskVars, Unfinished
    <2>2. Len(cancel_queue') = Len(cancel_queue) - 1
      BY <1>1, <1>2, HeadTailProperties DEF TopContinue
    <2>3. rollout_sample \notin Samples
      BY <1>2 DEF TopContinue, HandInv
    <2>4. Quiet
      BY <1>1, <1>2, <2>1, <2>2, <2>3 DEF TopContinue, flagVars, Quiet
    <2> QED
      BY <2>4, QuietKeeps
  <1>3. ASSUME TakePending, processor \in {"top", "get"}, UNCHANGED <<taskVars, cancel_queue>>,
               InFlight <= max_required_samples
        PROVE  CountInv'
    <2>1. Unfinished' = Unfinished
      BY <1>3 DEF taskVars, Unfinished
    <2>2. rollout_sample \notin Samples
      BY <1>3 DEF HandInv
    <2>3. staleness_samples' = staleness_samples + 1 /\ processor' = "drain"
      BY <1>3 DEF TakePending
    <2>4. InFlight <= staleness_samples + 1
      BY <1>1, <2>2 DEF CountInv
    <2>5. InFlight' + InHand' <= staleness_samples' + 1
      BY <1>1, <1>3, <2>1, <2>3, <2>4
    <2>6. InFlight' + InHand' <= max_required_samples + 1
      BY <1>1, <1>3, <2>1, MaxIsNat
    <2>7. update_call' = "sizing" => Active' <= update_base'
      BY <1>1, <1>3, <2>1 DEF CountInv
    <2> QED
      BY <2>3, <2>5, <2>6, <2>7 DEF CountInv
  <1>4. CASE TopTake
    <2>1. rollout_sample \notin Samples
      BY <1>4 DEF TopTake, HandInv
    <2>2. staleness_samples < max_required_samples
      BY <1>1, <1>4, MaxIsNat DEF TopTake, ShouldPause
    <2>3. InFlight <= max_required_samples
      BY <1>1, <2>1, <2>2, MaxIsNat DEF CountInv
    <2>4. CASE pending_queue # <<>>
      BY <1>3, <1>4, <2>3, <2>4 DEF TopTake
    <2>5. CASE pending_queue = <<>>
      <3>1. Unfinished' = Unfinished /\ cancel_queue' = cancel_queue
        BY <1>4 DEF TopTake, taskVars, Unfinished
      <3>2. UNCHANGED <<rollout_sample, staleness_samples>>
        BY <1>4, <2>5 DEF TopTake
      <3> QED
        BY <1>1, <2>3, <3>1, <3>2 DEF CountInv
    <2> QED
      BY <2>4, <2>5
  <1>5. CASE GetPending
    BY <1>3, <1>5 DEF GetPending, CountInv
  <1>6. CASE Submit
    <2>1. update_call # "sizing"
      BY <1>6 DEF Submit, CanEnter, LockHeld
    <2>2. /\ UNCHANGED <<cancel_queue, staleness_samples>>
          /\ rollout_sample' = NoSample
          /\ processor' = "top"
          /\ task' = [task EXCEPT ![rollout_sample] = "created"]
      BY <1>6 DEF Submit, flagVars
    <2>3. Cardinality(Unfinished') + InHand' <= Cardinality(Unfinished) + InHand
      <3>1. CASE rollout_sample \in Samples
        <4>1. Unfinished' = Unfinished \cup {rollout_sample}
          BY <1>1, <2>2, <3>1 DEF Unfinished
        <4>2. Cardinality(Unfinished') <= Cardinality(Unfinished) + 1
          BY <4>1, Counts, AddOne
        <4> QED
          BY <1>1, <2>2, <3>1, <4>2 DEF NoSample, Samples
      <3>2. CASE rollout_sample \notin Samples
        <4>1. task' = task
          BY <1>1, <2>2, <3>2
        <4>2. Unfinished' = Unfinished
          BY <4>1 DEF Unfinished
        <4> QED
          BY <1>1, <2>2, <3>2, <4>2 DEF NoSample, Samples
      <3> QED
        BY <3>1, <3>2
    <2> QED
      BY <1>1, <2>1, <2>2, <2>3, MaxIsNat DEF CountInv
  <1>7. CASE \/ TopPause \/ SignalPause \/ DrainLeave \/ DrainAwait \/ DrainEmptied
             \/ DrainReap \/ Rest \/ SubmitWait \/ ProcessorQueues
    <2>1. /\ UNCHANGED <<task, cancel_queue, staleness_samples>>
          /\ rollout_sample' \in {rollout_sample, NoSample}
          /\ processor' = "get" => processor = "get"
      BY <1>7 DEF TopPause, SignalPause, DrainLeave, DrainAwait, DrainEmptied,
         DrainReap, Rest, SubmitWait, ProcessorQueues, taskVars, flagVars,
         TypeOK, ProcessorTypeOK
    <2> QED
      BY <1>1, <2>1, QuietFrame, QuietKeeps
  <1> QED
    BY <1>2, <1>4, <1>5, <1>6, <1>7 DEF ProcessorNext

(* The remote calls.  update_param_version counts the samples of the       *)
(* rollouter first and those of the queue later, and those that moved to   *)
(* the queue in between twice.                                             *)
LEMMA CallCount ==
    ASSUME TypeOK, TypeOK', CountInv, CallNext
    PROVE  CountInv'
  <1> USE DEF Active, InFlight, InHand
  <1>1. /\ UNCHANGED <<queue, cancel_queue, task, rollout_sample>>
        /\ Unfinished' = Unfinished
        /\ Cardinality(Unfinished) \in Nat
        /\ Len(cancel_queue) \in Nat /\ Len(queue) \in Nat
        /\ Cardinality(RealSamples(queue)) \in Nat
        /\ Cardinality(RealSamples(queue)) <= Len(queue)
        /\ Cardinality(RealSamples(queue')) \in Nat
        /\ staleness_samples \in Nat /\ update_base \in Nat
    BY CallFrame, Counts, CountsNext DEF Unfinished
  <1>2. CASE UpdateBegin
    <2>1. Cardinality(Unfinished) + Len(cancel_queue) <= update_base'
      BY <1>1, <1>2 DEF UpdateBegin, StaleInRollouter, ActiveCount, TypeOK, TaskTypeOK
    <2>2. UNCHANGED <<staleness_samples, processor>>
      BY <1>2 DEF UpdateBegin, procVars
    <2> QED
      BY <1>1, <2>1, <2>2 DEF CountInv
  <1>3. CASE UpdateSize
    <2>1. /\ staleness_samples' = update_base + Len(queue)
          /\ update_call' = "validating"
          /\ processor' = processor
          /\ update_call = "sizing"
      BY <1>3 DEF UpdateSize, procVars
    <2>2. InFlight <= staleness_samples'
      BY <1>1, <2>1 DEF CountInv
    <2>3. InFlight' + InHand' <= staleness_samples' + 1
      BY <1>1, <2>1, <2>2
    <2> QED
      BY <1>1, <2>1, <2>3 DEF CountInv
  <1>4. CASE \/ CallQueues \/ PauseBegin \/ PauseCancel \/ PauseEnd \/ UpdateEnd
             \/ ResumeBegin \/ ResumeEnd
    <2>1. /\ UNCHANGED <<staleness_samples, update_base>>
          /\ processor' = "get" => processor = "get"
          /\ update_call' = "sizing" => update_call = "sizing"
      BY <1>4 DEF CallQueues, PauseBegin, PauseCancel, PauseEnd, UpdateEnd,
         ResumeBegin, ResumeEnd, Reopen, Unpause, NotifyProcessor, ForgetTasks,
         flagVars, procVars, callVars
    <2> QED
      BY <1>1, <2>1, QuietFrame, QuietKeeps
  <1> QED
    BY <1>2, <1>3, <1>4 DEF CallNext

(* Everything else is quiet.                                               *)
LEMMA OtherQuiet ==
    ASSUME TypeOK, TypeOK',
           \/ RollouterDoes(FeedSamples) \/ RollouterDoes(MainNext)
           \/ RollouterDoes(MonitorNext) \/ TrainerDoes(TrainerNext)
           \/ DriverEnds \/ UNCHANGED vars
    PROVE  Quiet
  <1>1. Cardinality(RealSamples(queue')) \in Nat
    BY CountsNext
  <1>2. CASE RollouterDoes(FeedSamples)
    BY <1>1, <1>2, QuietFrame
    DEF RollouterDoes, FeedSamples, mqVars, taskVars, procVars, flagVars, callVars
  <1>3. CASE RollouterDoes(MainNext)
    <2>1. UNCHANGED <<task, cancel_queue, staleness_samples, update_base,
                      rollout_sample, processor, update_call>>
      BY <1>3, MainFrame DEF RollouterDoes, procVars, flagVars, callVars
    <2>2. CASE FinishStream
      <3>1. Cardinality(RealSamples(queue')) <= Cardinality(RealSamples(queue))
        BY <2>2, RealPut DEF FinishStream, TypeOK, EndMark
      <3> QED
        BY <1>1, <2>1, <3>1, QuietFrame
    <2>3. CASE StopRunning \/ MainQueues
      <3>1. queue' = queue
        BY <2>3 DEF StopRunning, MainQueues, mqVars
      <3> QED
        BY <1>1, <2>1, <3>1, QuietFrame
    <2> QED
      BY <1>3, <2>2, <2>3 DEF RollouterDoes, MainNext
  <1>4. CASE RollouterDoes(MonitorNext)
    <2>1. UNCHANGED <<task, cancel_queue, staleness_samples, update_base,
                      rollout_sample, update_call, queue>>
      BY <1>4, MonitorFrame DEF RollouterDoes, mqVars, taskVars, callVars
    <2>2. processor' = "get" => processor = "get"
      BY <1>4 DEF RollouterDoes, MonitorNext, MonitorDecides, MonitorUnpauses,
         MonitorStops, Unpause, NotifyProcessor, procVars
    <2> QED
      BY <1>1, <2>1, <2>2, QuietFrame
  <1>5. CASE TrainerDoes(TrainerNext)
    <2>1. UNCHANGED <<task, cancel_queue, staleness_samples, update_base,
                      rollout_sample, processor>>
      BY <1>5, TrainerFrame DEF TrainerDoes, rollouterInner
    <2>2. update_call' = "sizing" => update_call = "sizing"
      BY <1>5 DEF TrainerDoes, TrainerNext, RequestSample, CollectSample, CollectEnd,
         UpdateActor, SyncPause, SyncWeights, LogValidation, FinishFit, rollouterVars
    <2>3. CASE RequestSample
      <3>1. Cardinality(RealSamples(queue')) <= Cardinality(RealSamples(queue))
        <4>1. queue' = queue \/ (queue # <<>> /\ queue' = Tail(queue))
          BY <2>3 DEF RequestSample, GetSample, GetWait, GetClosed, GetTake
        <4>2. queue \in Seq(Nat)
          BY DEF TypeOK, QueueTypeOK
        <4>3. CASE queue' = queue
          BY <4>3, Counts
        <4>4. CASE queue # <<>> /\ queue' = Tail(queue)
          BY <4>2, <4>4, RealTail
        <4> QED
          BY <4>1, <4>3, <4>4
      <3> QED
        BY <1>1, <2>1, <2>2, <3>1, QuietFrame
    <2>4. CASE \/ CollectSample \/ CollectEnd \/ UpdateActor \/ SyncPause
               \/ SyncWeights \/ LogValidation \/ FinishFit
      <3>1. queue' = queue
        BY <2>4 DEF CollectSample, CollectEnd, UpdateActor, SyncPause, SyncWeights,
           LogValidation, FinishFit, Receive, GetValidate, UpdateMQParamVersion, mqVars
      <3> QED
        BY <1>1, <2>1, <2>2, <3>1, QuietFrame
    <2> QED
      BY <1>5, <2>3, <2>4 DEF TrainerDoes, TrainerNext
  <1>6. CASE DriverEnds
    <2>1. RealSamples(<<>>) = {}
      BY DEF RealSamples
    <2>2. Cardinality(RealSamples(queue')) = 0
      BY <1>6, <2>1, FS_EmptySet DEF DriverEnds, ClearQueue
    <2>3. Cardinality(RealSamples(queue')) <= Cardinality(RealSamples(queue))
      BY <2>2, Counts
    <2> QED
      BY <1>1, <1>6, <2>3, QuietFrame DEF DriverEnds, rollouterVars
  <1>7. CASE UNCHANGED vars
    BY <1>1, <1>7, QuietFrame DEF vars, mqVars, rollouterVars
  <1> QED
    BY <1>2, <1>3, <1>4, <1>5, <1>6, <1>7

LEMMA CountStep ==
    TypeOK /\ TypeOK' /\ LockHeld /\ HandInv /\ CountInv /\ [Next]_vars => CountInv'
  <1> SUFFICES ASSUME TypeOK, TypeOK', LockHeld, HandInv, CountInv, [Next]_vars
               PROVE  CountInv'
    OBVIOUS
  <1>1. CASE RollouterDoes(ProcessorNext)
    BY <1>1, ProcessorCount DEF RollouterDoes
  <1>2. CASE RollouterDoes(CallNext)
    BY <1>2, CallCount DEF RollouterDoes
  <1>3. ASSUME NEW s \in Samples, RollouterDoes(TaskNext(s))
        PROVE  CountInv'
    BY <1>3, TaskQuiet, QuietKeeps DEF RollouterDoes
  <1>4. ASSUME \/ RollouterDoes(FeedSamples) \/ RollouterDoes(MainNext)
               \/ RollouterDoes(MonitorNext) \/ TrainerDoes(TrainerNext)
               \/ DriverEnds \/ UNCHANGED vars
        PROVE  CountInv'
    BY <1>4, OtherQuiet, QuietKeeps
  <1> QED
    BY <1>1, <1>2, <1>3, <1>4 DEF Next, RollouterNext, RollouterDoes, Ended

LEMMA CountInvariant == Spec => [](TypeOK /\ HandInv /\ CountInv)
  <1>1. Init => HandInv /\ CountInv
    <2> SUFFICES ASSUME Init PROVE HandInv /\ CountInv
      OBVIOUS
    <2> USE DEF Init, MQInit, RollouterInit
    <2>1. Unfinished = {} /\ RealSamples(queue) = {} /\ Len(cancel_queue) = 0
      BY DEF Unfinished, RealSamples
    <2>2. Cardinality(Unfinished) = 0 /\ Cardinality(RealSamples(queue)) = 0
      BY <2>1, FS_EmptySet
    <2>3. InFlight = 0 /\ InHand = 0
      BY <2>1, <2>2 DEF InFlight, InHand, NoSample, Samples
    <2> QED
      BY <2>3, MaxIsNat DEF HandInv, CountInv, NoSample, Samples
  <1> QED
    BY <1>1, HandStep, CountStep, TypeCorrect, LockExclusive, PTL DEF Spec

(* staleness_samples, recomputed by each new version from sets and queues  *)
(* that change meanwhile, never misses more than one sample under way:     *)
(* for every batch size, threshold, queue size and number of servers.      *)
THEOREM StalenessCounts == Spec => []StalenessCovers
  <1>1. CountInv => StalenessCovers
    BY DEF CountInv, StalenessCovers
  <1> QED
    BY <1>1, CountInvariant, PTL

(* So there are never more than max_required_samples + 1 samples being     *)
(* generated, interrupted or waiting for the trainer.                      *)
THEOREM FlightIsBounded == Spec => []InFlightBounded
  <1>1. TypeOK /\ CountInv => InFlightBounded
    BY Counts, MaxIsNat DEF CountInv, InFlight, InHand, InFlightBounded
  <1> QED
    BY <1>1, CountInvariant, PTL
=============================================================================
