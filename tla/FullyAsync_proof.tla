-------------------------- MODULE FullyAsync_proof --------------------------
(***************************************************************************)
(* Proofs about fully asynchronous training, for every number of samples,  *)
(* batch size, trigger step, staleness threshold, capacity of the servers  *)
(* and number of failures, with and without partial rollout.               *)
(*                                                                         *)
(* The first lemmas say what each coroutine leaves alone; every later      *)
(* proof treats a whole coroutine as one step wherever it can.             *)
(***************************************************************************)
EXTENDS FullyAsync, SequenceTheorems, FiniteSetTheorems, TLAPS

LEMMA ProcessorFrame ==
    ProcessorNext =>
        UNCHANGED <<mqVars, fed, sample_version, fate, monitor_loop_trigger,
                    current_param_version, servers_paused, serviceVars, callVars>>
  BY DEF ProcessorNext, TopPause, TopContinue, TopTake, GetPending, SignalPause,
         DrainLeave, DrainAwait, DrainEmptied, DrainReap, Rest, SubmitWait, Submit,
         ProcessorQueues, TakePending, feedVars, taskVars, procVars, flagVars,
         serviceVars, callVars

LEMMA TaskFrame ==
    ASSUME NEW s \in Samples, TaskNext(s)
    PROVE  UNCHANGED <<mq_running, mq_param_version, val_queue, feedVars, procVars,
                       lock, flagVars, serviceVars, callVars>>
  BY DEF TaskNext, TaskStart, TaskInterrupted, TaskGenerated, TaskFails, TaskPut,
         PutSample, mqVars, counters

LEMMA MainFrame ==
    MainNext =>
        UNCHANGED <<mq_running, mq_param_version, val_queue, feedVars, cancel_queue,
                    task, finished, failed, sample_version, procVars, flagVars,
                    monitor, callVars>>
  BY DEF MainNext, FinishStream, StopRunning, MainQueues, PutSample, mqVars,
         counters, taskVars, serviceVars

LEMMA MonitorFrame ==
    MonitorNext =>
        UNCHANGED <<mqVars, feedVars, cancel_queue, taskVars, rollout_sample,
                    drain_site, done_tasks_bound, on_loop, monitor_loop_trigger,
                    staleness_samples, current_param_version, servers_paused,
                    main, rollouter_running, callVars>>
  BY DEF MonitorNext, MonitorDecides, MonitorUnpauses, MonitorStops, procVars,
         flagVars, serviceVars

LEMMA CallFrame ==
    CallNext =>
        UNCHANGED <<queue, getter, got, mq_param_version, feedVars, cancel_queue,
                    task, sample_version, fate, rollout_sample, drain_site,
                    done_tasks_bound, on_loop, serviceVars, update_version>>
  BY DEF CallNext, CallQueues, PauseBegin, PauseCancel, PauseEnd, UpdateBegin,
         UpdateSize, UpdateEnd, ResumeBegin, ResumeEnd, PutValidate, Reopen,
         ForgetTasks, mqVars, taskVars, procVars, flagVars, callVars

LEMMA TrainerFrame ==
    TrainerNext => UNCHANGED rollouterInner
  BY DEF TrainerNext, RequestSample, CollectSample, CollectEnd, UpdateActor,
         SyncPause, SyncWeights, LogValidation, FinishFit, rollouterVars,
         rollouterInner, trainerVars, syncVars

-----------------------------------------------------------------------------
(* The operations on the queue and on the lock keep their types.           *)

LEMMA PutTypes ==
    ASSUME QueueTypeOK, NEW s \in Nat, PutSample(s)
    PROVE  QueueTypeOK'
  <1>1. Kept \in Seq(Nat)
    <2>1. CASE IsFull
      <3>1. queue # <<>>
        BY <2>1, MaxQueueSizeAssumption DEF IsFull
      <3> QED
        BY <2>1, <3>1, HeadTailProperties DEF Kept, QueueTypeOK
    <2>2. CASE ~IsFull
      BY <2>2 DEF Kept, QueueTypeOK
    <2> QED
      BY <2>1, <2>2
  <1>2. queue' \in Seq(Nat)
    BY <1>1, AppendProperties DEF PutSample
  <1> QED
    BY <1>2 DEF PutSample, NotifyConsumers, QueueTypeOK

LEMMA GetTypes ==
    ASSUME QueueTypeOK, NEW c \in Consumers, GetSample(c)
    PROVE  QueueTypeOK'
  <1>1. CASE GetWait(c)
    BY <1>1 DEF GetWait, QueueTypeOK
  <1>2. CASE GetClosed(c)
    BY <1>2 DEF GetClosed, QueueTypeOK
  <1>3. CASE GetTake(c)
    <2>1. Head(queue) \in Nat /\ Tail(queue) \in Seq(Nat)
      BY <1>3, HeadTailProperties DEF GetTake, QueueTypeOK
    <2> QED
      BY <1>3, <2>1 DEF GetTake, QueueTypeOK
  <1> QED
    BY <1>1, <1>2, <1>3 DEF GetSample

LEMMA LockTypes ==
    ASSUME lock \in Seq(Coroutines), NEW c \in Coroutines,
           Leave \/ Hold(c) \/ WaitInLine(c) \/ lock' = lock
    PROVE  lock' \in Seq(Coroutines)
  <1>1. CASE Leave
    BY <1>1, HeadTailProperties, EmptySeq DEF Leave
  <1>2. CASE Hold(c)
    BY <1>2 DEF Hold
  <1>3. CASE WaitInLine(c)
    BY <1>3, AppendProperties DEF WaitInLine
  <1> QED
    BY <1>1, <1>2, <1>3

(* The number of active tasks is a number.                                 *)
LEMMA CountTypes ==
    ASSUME TaskTypeOK
    PROVE  ActiveCount \in Nat
  <1>1. IsFiniteSet(Samples)
    BY RollouterAssumption, FS_Interval DEF Samples
  <1>2. IsFiniteSet(Unfinished)
    BY <1>1, FS_Subset DEF Unfinished
  <1> QED
    BY <1>2, FS_CardinalityType DEF ActiveCount, TaskTypeOK

-----------------------------------------------------------------------------
(* Type correctness, coroutine by coroutine                                *)

LEMMA ProcessorTypes ==
    ASSUME TypeOK, RollouterDoes(ProcessorNext)
    PROVE  TypeOK'
  <1> USE DEF TypeOK, RollouterDoes
  <1>1. QueueTypeOK' /\ CallTypeOK' /\ TrainerTypeOK'
    BY ProcessorFrame DEF mqVars, serviceVars, callVars, trainerVars,
       QueueTypeOK, CallTypeOK, TrainerTypeOK
  <1>2. ASSUME TakePending
        PROVE  /\ pending_queue' \in Seq(Samples \cup {Done})
               /\ staleness_samples' \in Nat
               /\ rollout_sample' \in Samples \cup {NoSample}
               /\ drain_site' \in {"limit", "done"}
    BY <1>2, HeadTailProperties DEF TakePending, StreamTypeOK, FlagTypeOK, Done, NoSample
  <1>3. StreamTypeOK'
    <2>1. CASE TopContinue
      BY <2>1, HeadTailProperties DEF TopContinue, feedVars, StreamTypeOK
    <2>2. CASE TopTake
      BY <1>2, <2>2 DEF TopTake, StreamTypeOK
    <2>3. CASE GetPending
      BY <1>2, <2>3 DEF GetPending, StreamTypeOK
    <2>4. CASE UNCHANGED <<feedVars, cancel_queue>>
      BY <2>4 DEF feedVars, StreamTypeOK
    <2> QED
      BY <2>1, <2>2, <2>3, <2>4 DEF ProcessorNext, TopPause, SignalPause,
         DrainLeave, DrainAwait, DrainEmptied, DrainReap, Rest, SubmitWait, Submit,
         ProcessorQueues
  <1>4. TaskTypeOK'
    <2>1. CASE DrainReap
      BY <2>1 DEF DrainReap, TaskTypeOK
    <2>2. CASE Submit
      BY <2>2 DEF Submit, TaskTypeOK, TaskStates
    <2>3. CASE UNCHANGED taskVars
      BY <2>3 DEF taskVars, TaskTypeOK
    <2> QED
      BY <2>1, <2>2, <2>3 DEF ProcessorNext, TopPause, TopContinue, TopTake,
         GetPending, SignalPause, DrainLeave, DrainAwait, DrainEmptied, Rest,
         SubmitWait, ProcessorQueues
  <1>5. ProcessorTypeOK'
    <2> USE DEF ProcessorTypeOK, ProcessorStates
    <2>1. CASE TopContinue
      BY <2>1, HeadTailProperties DEF TopContinue, StreamTypeOK
    <2>2. CASE TopTake
      BY <1>2, <2>2 DEF TopTake, TakePending
    <2>3. CASE GetPending
      BY <1>2, <2>3 DEF GetPending, TakePending
    <2>4. CASE DrainLeave
      BY <2>4 DEF DrainLeave
    <2>5. CASE \/ TopPause \/ SignalPause \/ DrainAwait \/ DrainEmptied
               \/ Rest \/ SubmitWait \/ Submit \/ ProcessorQueues
      BY <2>5 DEF TopPause, SignalPause, DrainAwait, DrainEmptied, Rest,
         SubmitWait, Submit, ProcessorQueues, NoSample
    <2>6. CASE DrainReap
      BY <2>6 DEF DrainReap
    <2> QED
      BY <2>1, <2>2, <2>3, <2>4, <2>5, <2>6 DEF ProcessorNext
  <1>6. FlagTypeOK'
    <2>1. lock' \in Seq(Coroutines)
      <3>1. \/ Leave \/ Hold("processor") \/ WaitInLine("processor") \/ lock' = lock
        BY DEF ProcessorNext, TopPause, TopContinue, TopTake, GetPending,
           SignalPause, DrainLeave, DrainAwait, DrainEmptied, DrainReap, Rest,
           SubmitWait, Submit, ProcessorQueues
      <3> QED
        BY <3>1, LockTypes DEF FlagTypeOK, Coroutines
    <2>2. paused' \in BOOLEAN /\ staleness_samples' \in Nat
      BY <1>2 DEF ProcessorNext, TopPause, TopContinue, TopTake, GetPending,
         SignalPause, DrainLeave, DrainAwait, DrainEmptied, DrainReap, Rest,
         SubmitWait, Submit, ProcessorQueues, flagVars, FlagTypeOK
    <2> QED
      BY <2>1, <2>2, ProcessorFrame DEF FlagTypeOK
  <1> QED
    BY <1>1, <1>3, <1>4, <1>5, <1>6

LEMMA TaskTypes ==
    ASSUME TypeOK, NEW s \in Samples, RollouterDoes(TaskNext(s))
    PROVE  TypeOK'
  <1> USE DEF TypeOK, RollouterDoes
  <1>1. ProcessorTypeOK' /\ FlagTypeOK' /\ CallTypeOK' /\ TrainerTypeOK'
    BY TaskFrame DEF procVars, flagVars, serviceVars, callVars, trainerVars,
       ProcessorTypeOK, FlagTypeOK, CallTypeOK, TrainerTypeOK
  <1>2. CASE TaskPut(s)
    <2>1. QueueTypeOK'
      BY <1>2, PutTypes DEF TaskPut, Samples
    <2>2. StreamTypeOK'
      BY <1>2 DEF TaskPut, feedVars, StreamTypeOK
    <2>3. fate' \in [Samples -> Fates]
      BY <1>2 DEF TaskPut, RecordDrop, TaskTypeOK, Fates
    <2>4. task' \in [Samples -> TaskStates]
      BY <1>2 DEF TaskPut, TaskTypeOK, TaskStates
    <2>5. finished' \in Nat /\ failed' \in Nat /\ sample_version' \in [Samples -> Nat]
      BY <1>2 DEF TaskPut, TaskTypeOK
    <2> QED
      BY <1>1, <2>1, <2>2, <2>3, <2>4, <2>5 DEF TaskTypeOK
  <1>3. CASE TaskStart(s) \/ TaskInterrupted(s) \/ TaskGenerated(s) \/ TaskFails(s)
    <2>1. QueueTypeOK'
      BY <1>3 DEF TaskStart, TaskInterrupted, TaskGenerated, TaskFails, mqVars, QueueTypeOK
    <2>2. StreamTypeOK'
      <3>1. Append(cancel_queue, s) \in Seq(Samples)
        BY AppendProperties DEF StreamTypeOK
      <3> QED
        BY <1>3, <3>1 DEF TaskStart, TaskInterrupted, TaskGenerated, TaskFails,
           Interrupt, feedVars, StreamTypeOK
    <2>3. task' \in [Samples -> TaskStates]
      BY <1>3 DEF TaskStart, TaskInterrupted, TaskGenerated, TaskFails, Interrupt,
         TaskTypeOK, TaskStates
    <2>4. finished' \in Nat /\ failed' \in Nat
      BY <1>3 DEF TaskStart, TaskInterrupted, TaskGenerated, TaskFails, Interrupt,
         TaskTypeOK
    <2>5. sample_version' \in [Samples -> Nat] /\ fate' \in [Samples -> Fates]
      BY <1>3 DEF TaskStart, TaskInterrupted, TaskGenerated, TaskFails, TaskTypeOK,
         Fates, FlagTypeOK
    <2> QED
      BY <1>1, <2>1, <2>2, <2>3, <2>4, <2>5 DEF TaskTypeOK
  <1> QED
    BY <1>2, <1>3 DEF TaskNext

LEMMA MainTypes ==
    ASSUME TypeOK, RollouterDoes(MainNext)
    PROVE  TypeOK'
  <1> USE DEF TypeOK, RollouterDoes
  <1>1. StreamTypeOK' /\ ProcessorTypeOK' /\ TrainerTypeOK'
    BY MainFrame DEF feedVars, procVars, trainerVars, StreamTypeOK,
       ProcessorTypeOK, TrainerTypeOK
  <1>2. QueueTypeOK'
    BY PutTypes DEF MainNext, FinishStream, StopRunning, MainQueues, EndMark,
       mqVars, QueueTypeOK
  <1>3. TaskTypeOK'
    BY MainFrame DEF MainNext, FinishStream, StopRunning, MainQueues, RecordDrop,
       taskVars, TaskTypeOK, Fates
  <1>4. FlagTypeOK'
    <2>1. lock' \in Seq(Coroutines)
      <3>1. \/ Leave \/ Hold("main") \/ WaitInLine("main") \/ lock' = lock
        BY DEF MainNext, FinishStream, StopRunning, MainQueues
      <3> QED
        BY <3>1, LockTypes DEF FlagTypeOK, Coroutines
    <2> QED
      BY <2>1, MainFrame DEF flagVars, FlagTypeOK
  <1>5. CallTypeOK'
    BY MainFrame DEF MainNext, FinishStream, StopRunning, MainQueues, callVars,
       serviceVars, CallTypeOK
  <1> QED
    BY <1>1, <1>2, <1>3, <1>4, <1>5

LEMMA MonitorTypes ==
    ASSUME TypeOK, RollouterDoes(MonitorNext)
    PROVE  TypeOK'
  <1> USE DEF TypeOK, RollouterDoes
  <1>1. QueueTypeOK' /\ StreamTypeOK' /\ TaskTypeOK' /\ TrainerTypeOK'
    BY MonitorFrame DEF mqVars, feedVars, taskVars, trainerVars, QueueTypeOK,
       StreamTypeOK, TaskTypeOK, TrainerTypeOK
  <1>2. ProcessorTypeOK'
    BY MonitorFrame DEF MonitorNext, MonitorDecides, MonitorUnpauses, MonitorStops,
       Unpause, NotifyProcessor, procVars, ProcessorTypeOK, ProcessorStates
  <1>3. FlagTypeOK'
    <2>1. lock' \in Seq(Coroutines)
      <3>1. \/ Leave \/ Hold("monitor") \/ WaitInLine("monitor") \/ lock' = lock
        BY DEF MonitorNext, MonitorDecides, MonitorUnpauses, MonitorStops
      <3> QED
        BY <3>1, LockTypes DEF FlagTypeOK, Coroutines
    <2>2. paused' \in BOOLEAN
      BY DEF MonitorNext, MonitorDecides, MonitorUnpauses, MonitorStops, Unpause,
         flagVars, FlagTypeOK
    <2> QED
      BY <2>1, <2>2, MonitorFrame DEF FlagTypeOK
  <1>4. CallTypeOK'
    BY MonitorFrame DEF MonitorNext, MonitorDecides, MonitorUnpauses, MonitorStops,
       callVars, CallTypeOK
  <1> QED
    BY <1>1, <1>2, <1>3, <1>4

LEMMA CallTypes ==
    ASSUME TypeOK, RollouterDoes(CallNext)
    PROVE  TypeOK'
  <1> USE DEF TypeOK, RollouterDoes
  <1>1. QueueTypeOK' /\ StreamTypeOK' /\ TrainerTypeOK'
    BY CallFrame DEF feedVars, trainerVars, QueueTypeOK, StreamTypeOK, TrainerTypeOK
  <1>2. TaskTypeOK'
    <2>1. finished' \in Nat /\ failed' \in Nat
      BY DEF CallNext, CallQueues, PauseBegin, PauseCancel, PauseEnd, UpdateBegin,
         UpdateSize, UpdateEnd, ResumeBegin, ResumeEnd, ForgetTasks, taskVars, TaskTypeOK
    <2> QED
      BY <2>1, CallFrame DEF TaskTypeOK
  <1>3. ProcessorTypeOK'
    <2>1. processor' \in ProcessorStates
      BY DEF CallNext, CallQueues, PauseBegin, PauseCancel, PauseEnd, UpdateBegin,
         UpdateSize, UpdateEnd, ResumeBegin, ResumeEnd, Reopen, Unpause,
         NotifyProcessor, procVars, ProcessorTypeOK, ProcessorStates
    <2> QED
      BY <2>1, CallFrame DEF ProcessorTypeOK
  <1>4. ActiveCount \in Nat /\ Len(queue) \in Nat /\ Len(cancel_queue) \in Nat
    BY CountTypes, LenProperties DEF QueueTypeOK, StreamTypeOK
  <1>5. FlagTypeOK'
    <2>1. lock' \in Seq(Coroutines)
      <3>1. \E c \in Coroutines : Leave \/ Hold(c) \/ WaitInLine(c) \/ lock' = lock
        BY DEF CallNext, CallQueues, PauseBegin, PauseCancel, PauseEnd, UpdateBegin,
           UpdateSize, UpdateEnd, ResumeBegin, ResumeEnd, ForgetTasks, Reopen, Coroutines
      <3> QED
        BY <3>1, LockTypes DEF FlagTypeOK
    <2>2. /\ paused' \in BOOLEAN
          /\ monitor_loop_trigger' \in BOOLEAN
          /\ servers_paused' \in BOOLEAN
      BY DEF CallNext, CallQueues, PauseBegin, PauseCancel, PauseEnd, UpdateBegin,
         UpdateSize, UpdateEnd, ResumeBegin, ResumeEnd, ForgetTasks, Reopen, Unpause,
         flagVars, FlagTypeOK
    <2>3. staleness_samples' \in Nat /\ current_param_version' \in Nat
      BY <1>4 DEF CallNext, CallQueues, PauseBegin, PauseCancel, PauseEnd, UpdateBegin,
         UpdateSize, UpdateEnd, ResumeBegin, ResumeEnd, flagVars, FlagTypeOK, CallTypeOK
    <2> QED
      BY <2>1, <2>2, <2>3 DEF FlagTypeOK
  <1>6. CallTypeOK'
    <2>1. update_base' \in Nat
      BY <1>4 DEF CallNext, CallQueues, PauseBegin, PauseCancel, PauseEnd, UpdateBegin,
         UpdateSize, UpdateEnd, ResumeBegin, ResumeEnd, StaleInRollouter, callVars, CallTypeOK
    <2>2. /\ pause_call' \in {"none", "called", "cancelling", "gathering", "returned"}
          /\ update_call' \in {"none", "called", "sizing", "validating"}
          /\ resume_call' \in {"none", "called", "resuming"}
      BY DEF CallNext, CallQueues, PauseBegin, PauseCancel, PauseEnd, UpdateBegin,
         UpdateSize, UpdateEnd, ResumeBegin, ResumeEnd, ForgetTasks, Reopen, callVars,
         CallTypeOK
    <2> QED
      BY <2>1, <2>2, CallFrame DEF serviceVars, CallTypeOK
  <1> QED
    BY <1>1, <1>2, <1>3, <1>5, <1>6

LEMMA TrainerTypes ==
    ASSUME TypeOK, TrainerDoes(TrainerNext)
    PROVE  TypeOK'
  <1> USE DEF TypeOK, TrainerDoes
  <1>1. StreamTypeOK' /\ ProcessorTypeOK' /\ FlagTypeOK'
    BY TrainerFrame DEF rollouterInner, StreamTypeOK, ProcessorTypeOK, FlagTypeOK
  <1>2. QueueTypeOK'
    <2>1. ASSUME Receive("trainer") PROVE QueueTypeOK'
      BY <2>1, TrainerAssumption DEF Receive, QueueTypeOK
    <2>2. ASSUME GetSample("trainer") PROVE QueueTypeOK'
      BY <2>2, GetTypes, TrainerAssumption
    <2> QED
      BY <2>1, <2>2 DEF TrainerNext, RequestSample, CollectSample, CollectEnd,
         UpdateActor, SyncPause, SyncWeights, LogValidation, FinishFit, mqVars,
         UpdateMQParamVersion, GetValidate, QueueTypeOK, TrainerTypeOK
  <1>3. TaskTypeOK'
    <2>1. fate' \in [Samples -> Fates]
      BY DEF TrainerNext, RequestSample, CollectSample, CollectEnd, UpdateActor,
         SyncPause, SyncWeights, LogValidation, FinishFit, rollouterVars, TaskTypeOK, Fates
    <2> QED
      BY <2>1, TrainerFrame DEF rollouterInner, TaskTypeOK
  <1>4. CallTypeOK'
    BY TrainerFrame DEF TrainerNext, RequestSample, CollectSample, CollectEnd,
       UpdateActor, SyncPause, SyncWeights, LogValidation, FinishFit, rollouterVars,
       rollouterInner, CallTypeOK, TrainerTypeOK
  <1>5. TrainerTypeOK'
    BY RollouterAssumption DEF TrainerNext, RequestSample, CollectSample, CollectEnd,
       UpdateActor, SyncDue, SyncPause, SyncWeights, LogValidation, FinishFit,
       trainerVars, syncVars, TrainerTypeOK
  <1> QED
    BY <1>1, <1>2, <1>3, <1>4, <1>5

LEMMA FeedTypes ==
    ASSUME TypeOK, RollouterDoes(FeedSamples)
    PROVE  TypeOK'
  <1> USE DEF TypeOK, RollouterDoes
  <1>1. /\ QueueTypeOK' /\ TaskTypeOK' /\ ProcessorTypeOK'
        /\ FlagTypeOK' /\ CallTypeOK' /\ TrainerTypeOK'
    BY DEF FeedSamples, mqVars, taskVars, procVars, flagVars, serviceVars, callVars,
       trainerVars, QueueTypeOK, TaskTypeOK, ProcessorTypeOK, FlagTypeOK, CallTypeOK,
       TrainerTypeOK
  <1>2. StreamTypeOK'
    <2> DEFINE room == PendingSize - Len(pending_queue)
               left == TotalRolloutSteps + 1 - fed
               n    == IF room < left THEN room ELSE left
               new  == [i \in 1..n |-> IF fed + i <= TotalRolloutSteps
                                         THEN fed + i ELSE Done]
    <2>1. /\ fed' = fed + n
          /\ pending_queue' = pending_queue \o new
          /\ cancel_queue' = cancel_queue
          /\ fed <= TotalRolloutSteps
          /\ Len(pending_queue) < PendingSize
      BY DEF FeedSamples
    <2>2. Len(pending_queue) \in Nat /\ fed \in Nat
      BY LenProperties, RollouterAssumption DEF StreamTypeOK
    <2>3. n \in Nat /\ fed + n <= TotalRolloutSteps + 1
      BY <2>1, <2>2, RollouterAssumption
    <2> HIDE DEF n
    <2>4. \A i \in 1..n : new[i] \in Samples \cup {Done}
      BY <2>2, <2>3, RollouterAssumption DEF Samples, Done
    <2>5. new \in [1..n -> Samples \cup {Done}]
      BY <2>4
    <2>6. new \in Seq(Samples \cup {Done})
      BY <2>3, <2>5, SeqDef
    <2>7. pending_queue' \in Seq(Samples \cup {Done})
      BY <2>1, <2>6, ConcatProperties DEF StreamTypeOK
    <2> QED
      BY <2>1, <2>2, <2>3, <2>7, RollouterAssumption DEF StreamTypeOK
  <1> QED
    BY <1>1, <1>2

(* Every variable keeps its type.                                          *)
THEOREM TypeCorrect == Spec => []TypeOK
  <1>1. Init => TypeOK
    <2> SUFFICES ASSUME Init PROVE TypeOK
      OBVIOUS
    <2> USE DEF Init, MQInit, RollouterInit, TrainerInit
    <2>1. QueueTypeOK /\ StreamTypeOK
      BY RollouterAssumption DEF QueueTypeOK, StreamTypeOK, Nothing
    <2>2. TaskTypeOK /\ ProcessorTypeOK
      BY DEF TaskTypeOK, TaskStates, Fates, ProcessorTypeOK, ProcessorStates
    <2>3. FlagTypeOK
      BY EmptySeq DEF FlagTypeOK
    <2>4. CallTypeOK
      BY DEF CallTypeOK
    <2>5. TrainerTypeOK
      BY RollouterAssumption DEF TrainerTypeOK
    <2> QED
      BY <2>1, <2>2, <2>3, <2>4, <2>5 DEF TypeOK
  <1>2. TypeOK /\ [Next]_vars => TypeOK'
    <2> SUFFICES ASSUME TypeOK, [Next]_vars PROVE TypeOK'
      OBVIOUS
    <2>1. CASE RollouterDoes(RollouterNext)
      BY <2>1, FeedTypes, ProcessorTypes, TaskTypes, MainTypes, MonitorTypes, CallTypes
      DEF RollouterDoes, RollouterNext
    <2>2. CASE TrainerDoes(TrainerNext)
      BY <2>2, TrainerTypes
    <2>3. CASE DriverEnds
      BY <2>3 DEF DriverEnds, ClearQueue, rollouterVars, trainerVars, TypeOK,
         QueueTypeOK, StreamTypeOK, TaskTypeOK, ProcessorTypeOK, FlagTypeOK,
         CallTypeOK, TrainerTypeOK
    <2>4. CASE UNCHANGED vars
      BY <2>4 DEF vars, mqVars, rollouterVars, trainerVars, TypeOK, QueueTypeOK,
         StreamTypeOK, TaskTypeOK, ProcessorTypeOK, FlagTypeOK, CallTypeOK, TrainerTypeOK
    <2> QED
      BY <2>1, <2>2, <2>3, <2>4 DEF Next, Ended
  <1> QED
    BY <1>1, <1>2, PTL DEF Spec

-----------------------------------------------------------------------------
(* The lock.  A coroutine that suspends inside its critical section is at  *)
(* the head of the line, and only the head of the line leaves it.          *)

LockMove(c) ==
    \/ CanEnter(c) /\ (Leave \/ Hold(c))
    \/ WaitInLine(c)
    \/ lock' = lock

(* A move of one coroutine does not take the lock from another that holds it. *)
LEMMA HeadStays ==
    ASSUME lock \in Seq(Coroutines), NEW c, NEW d, c # d, LockMove(c),
           lock # <<>>, Head(lock) = d
    PROVE  lock' # <<>> /\ Head(lock') = d
  <1>1. ~CanEnter(c)
    BY DEF CanEnter
  <1>2. CASE WaitInLine(c)
    BY <1>2, HeadTailAppend, AppendProperties, EmptySeq DEF WaitInLine
  <1> QED
    BY <1>1, <1>2 DEF LockMove

LEMMA HoldTakes ==
    ASSUME NEW c, CanEnter(c), Hold(c)
    PROVE  lock' # <<>> /\ Head(lock') = c
  BY DEF CanEnter, Hold

LEMMA LockStep ==
    TypeOK /\ LockHeld /\ [Next]_vars => LockHeld'
  <1> SUFFICES ASSUME TypeOK, LockHeld, [Next]_vars
               PROVE  LockHeld'
    OBVIOUS
  <1> USE DEF RollouterDoes
  <1>0. lock \in Seq(Coroutines)
    BY DEF TypeOK, FlagTypeOK
  <1>1. CASE RollouterDoes(ProcessorNext)
    <2>1. LockMove("processor")
      BY <1>1 DEF ProcessorNext, TopPause, TopContinue, TopTake, GetPending,
         SignalPause, DrainLeave, DrainAwait, DrainEmptied, DrainReap, Rest,
         SubmitWait, Submit, ProcessorQueues, LockMove, CanEnter, LockHeld
    <2>2. processor' = "await" => lock' # <<>> /\ Head(lock') = "processor"
      <3>1. CASE DrainAwait
        BY <3>1, HoldTakes DEF DrainAwait
      <3>2. CASE ~DrainAwait /\ processor' = "await"
        <4>1. processor = "await" /\ ProcessorQueues
          BY <1>1, <3>2 DEF ProcessorNext, TopPause, TopContinue, TopTake, GetPending,
             TakePending, SignalPause, DrainLeave, DrainEmptied, DrainReap, Rest,
             SubmitWait, Submit, ProcessorQueues, TypeOK, ProcessorTypeOK
        <4> QED
          BY <4>1 DEF ProcessorQueues
      <3> QED
        BY <3>1, <3>2
    <2>3. UNCHANGED <<pause_call, update_call, resume_call>>
      BY <1>1, ProcessorFrame DEF callVars
    <2> QED
      BY <1>0, <2>1, <2>2, <2>3, HeadStays DEF LockHeld
  <1>2. CASE RollouterDoes(MainNext)
    <2>1. LockMove("main")
      BY <1>2 DEF MainNext, FinishStream, StopRunning, MainQueues, LockMove
    <2>2. UNCHANGED <<processor, pause_call, update_call, resume_call>>
      BY <1>2, MainFrame DEF procVars, callVars
    <2> QED
      BY <1>0, <2>1, <2>2, HeadStays DEF LockHeld
  <1>3. CASE RollouterDoes(MonitorNext)
    <2>1. LockMove("monitor")
      BY <1>3 DEF MonitorNext, MonitorDecides, MonitorUnpauses, MonitorStops, LockMove
    <2>2. /\ UNCHANGED <<pause_call, update_call, resume_call>>
          /\ processor' = "await" => processor = "await"
      BY <1>3, MonitorFrame DEF callVars, procVars, MonitorNext, MonitorDecides,
         MonitorUnpauses, MonitorStops, Unpause, NotifyProcessor
    <2> QED
      BY <1>0, <2>1, <2>2, HeadStays DEF LockHeld
  <1>4. CASE RollouterDoes(CallNext)
    <2>1. processor' = "await" => processor = "await"
      BY <1>4 DEF CallNext, CallQueues, PauseBegin, PauseCancel, PauseEnd, UpdateBegin,
         UpdateSize, UpdateEnd, ResumeBegin, ResumeEnd, Reopen, Unpause,
         NotifyProcessor, procVars
    <2>2. CASE CallQueues
      <3>1. UNCHANGED <<processor, pause_call, update_call, resume_call>>
        BY <2>2 DEF CallQueues, procVars, callVars
      <3>2. lock # <<>> /\ lock' # <<>> /\ Head(lock') = Head(lock)
        BY <1>0, <2>2, AppendProperties, EmptySeq DEF CallQueues, WaitInLine
      <3> QED
        BY <3>1, <3>2 DEF LockHeld
    <2>3. CASE PauseBegin \/ PauseCancel \/ PauseEnd
      <3>1. LockMove("pause") /\ UNCHANGED <<update_call, resume_call>>
        BY <2>3 DEF PauseBegin, PauseCancel, PauseEnd, ForgetTasks, LockMove,
           CanEnter, LockHeld
      <3>2. pause_call' \in {"cancelling", "gathering"}
              => lock' # <<>> /\ Head(lock') = "pause"
        BY <2>3, HoldTakes DEF PauseBegin, PauseCancel, PauseEnd, ForgetTasks, LockHeld
      <3> QED
        BY <1>0, <2>1, <3>1, <3>2, HeadStays DEF LockHeld
    <2>4. CASE UpdateBegin \/ UpdateSize \/ UpdateEnd
      <3>1. LockMove("update") /\ UNCHANGED <<pause_call, resume_call>>
        BY <2>4 DEF UpdateBegin, UpdateSize, UpdateEnd, LockMove, CanEnter, LockHeld
      <3>2. update_call' \in {"sizing", "validating"}
              => lock' # <<>> /\ Head(lock') = "update"
        BY <2>4, HoldTakes DEF UpdateBegin, UpdateSize, UpdateEnd, LockHeld
      <3> QED
        BY <1>0, <2>1, <3>1, <3>2, HeadStays DEF LockHeld
    <2>5. CASE ResumeBegin \/ ResumeEnd
      <3>1. LockMove("resume") /\ UNCHANGED <<pause_call, update_call>>
        BY <2>5 DEF ResumeBegin, ResumeEnd, Reopen, LockMove, CanEnter, LockHeld
      <3>2. resume_call' = "resuming" => lock' # <<>> /\ Head(lock') = "resume"
        BY <2>5, HoldTakes DEF ResumeBegin, ResumeEnd, Reopen, LockHeld
      <3> QED
        BY <1>0, <2>1, <3>1, <3>2, HeadStays DEF LockHeld
    <2> QED
      BY <1>4, <2>2, <2>3, <2>4, <2>5 DEF CallNext
  <1>5. CASE TrainerDoes(TrainerNext)
    <2>1. UNCHANGED <<lock, processor>>
      BY <1>5, TrainerFrame DEF TrainerDoes, rollouterInner
    <2>2. /\ pause_call' \in {"cancelling", "gathering"} => pause_call' = pause_call
          /\ update_call' \in {"sizing", "validating"} => update_call' = update_call
          /\ resume_call' = "resuming" => resume_call' = resume_call
      BY <1>5 DEF TrainerDoes, TrainerNext, RequestSample, CollectSample, CollectEnd,
         UpdateActor, SyncPause, SyncWeights, LogValidation, FinishFit, rollouterVars
    <2> QED
      BY <2>1, <2>2 DEF LockHeld
  <1>6. CASE UNCHANGED <<lock, processor, pause_call, update_call, resume_call>>
    BY <1>6 DEF LockHeld
  <1>7. ASSUME RollouterDoes(FeedSamples)
        PROVE  UNCHANGED <<lock, processor, pause_call, update_call, resume_call>>
    BY <1>7 DEF FeedSamples, procVars, callVars
  <1>8. ASSUME NEW s \in Samples, RollouterDoes(TaskNext(s))
        PROVE  UNCHANGED <<lock, processor, pause_call, update_call, resume_call>>
    BY <1>8, TaskFrame DEF procVars, callVars
  <1> QED
    BY <1>1, <1>2, <1>3, <1>4, <1>5, <1>6, <1>7, <1>8
    DEF Next, RollouterNext, DriverEnds, Ended, vars, rollouterVars

(* Two coroutines are never in the middle of their critical sections.      *)
THEOREM LockExclusive == Spec => []LockHeld
  <1>1. Init => LockHeld
    BY DEF Init, RollouterInit, LockHeld
  <1> QED
    BY <1>1, LockStep, TypeCorrect, PTL DEF Spec

-----------------------------------------------------------------------------
(* The condition.  Only Rest and SubmitWait put the processor to sleep,    *)
(* with paused read under the lock, and whoever clears paused wakes it.    *)
THEOREM SleepIsPaused == Spec => []SleepsOnlyPaused
  <1>1. Init => SleepsOnlyPaused
    BY DEF Init, RollouterInit, SleepsOnlyPaused
  <1>2. TypeOK /\ SleepsOnlyPaused /\ [Next]_vars => SleepsOnlyPaused'
    <2> SUFFICES ASSUME TypeOK, SleepsOnlyPaused, [Next]_vars
                 PROVE  SleepsOnlyPaused'
      OBVIOUS
    <2> USE DEF RollouterDoes, SleepsOnlyPaused
    <2>1. CASE RollouterDoes(ProcessorNext)
      <3>1. CASE \/ TopPause \/ SignalPause \/ DrainLeave \/ DrainAwait
                 \/ DrainEmptied \/ DrainReap \/ Rest \/ SubmitWait \/ Submit
        BY <3>1 DEF TopPause, SignalPause, DrainLeave, DrainAwait, DrainEmptied,
           DrainReap, Rest, SubmitWait, Submit, flagVars, TypeOK, ProcessorTypeOK
      <3>2. CASE TopContinue \/ TopTake \/ GetPending
        BY <3>2 DEF TopContinue, TopTake, GetPending, TakePending
      <3>3. CASE ProcessorQueues
        BY <3>3 DEF ProcessorQueues
      <3> QED
        BY <2>1, <3>1, <3>2, <3>3 DEF ProcessorNext
    <2>2. CASE RollouterDoes(MonitorNext)
      BY <2>2 DEF MonitorNext, MonitorDecides, MonitorUnpauses, MonitorStops, Unpause,
         NotifyProcessor, procVars, flagVars
    <2>3. CASE RollouterDoes(CallNext)
      BY <2>3 DEF CallNext, CallQueues, PauseBegin, PauseCancel, PauseEnd, UpdateBegin,
         UpdateSize, UpdateEnd, ResumeBegin, ResumeEnd, Reopen, Unpause,
         NotifyProcessor, procVars, flagVars
    <2>4. CASE UNCHANGED <<processor, paused>>
      BY <2>4
    <2>5. ASSUME RollouterDoes(FeedSamples) \/ RollouterDoes(MainNext)
          PROVE  UNCHANGED <<processor, paused>>
      BY <2>5, MainFrame DEF FeedSamples, procVars, flagVars
    <2>6. ASSUME NEW s \in Samples, RollouterDoes(TaskNext(s))
          PROVE  UNCHANGED <<processor, paused>>
      BY <2>6, TaskFrame DEF procVars, flagVars
    <2>7. ASSUME TrainerDoes(TrainerNext)
          PROVE  UNCHANGED <<processor, paused>>
      BY <2>7, TrainerFrame DEF TrainerDoes, rollouterInner
    <2> QED
      BY <2>1, <2>2, <2>3, <2>4, <2>5, <2>6, <2>7
      DEF Next, RollouterNext, DriverEnds, Ended, vars, rollouterVars
  <1> QED
    BY <1>1, <1>2, TypeCorrect, PTL DEF Spec

-----------------------------------------------------------------------------
(* pause waits for a set of tasks that only shrinks: Submit, the one step  *)
(* that creates a task, needs the lock, which pause keeps while it waits.  *)
THEOREM PauseIsFrozen == Spec => PauseFreezesTasks
  <1>1. TypeOK /\ LockHeld /\ [Next]_vars =>
          [(pause_call \in {"cancelling", "gathering"})
              => (Unfinished' \subseteq Unfinished)]_vars
    <2> SUFFICES ASSUME TypeOK, LockHeld, [Next]_vars,
                        pause_call \in {"cancelling", "gathering"}
                 PROVE  Unfinished' \subseteq Unfinished
      OBVIOUS
    <2> USE DEF RollouterDoes
    <2>1. lock # <<>> /\ Head(lock) = "pause"
      BY DEF LockHeld
    <2>2. ASSUME task' = task
          PROVE  Unfinished' \subseteq Unfinished
      BY <2>2 DEF Unfinished
    <2>3. CASE RollouterDoes(ProcessorNext)
      <3>1. ~Submit
        BY <2>1 DEF Submit, CanEnter
      <3>2. task' = task
        BY <2>3, <3>1 DEF ProcessorNext, TopPause, TopContinue, TopTake, GetPending,
           SignalPause, DrainLeave, DrainAwait, DrainEmptied, DrainReap, Rest,
           SubmitWait, ProcessorQueues, taskVars
      <3> QED
        BY <2>2, <3>2
    <2>4. ASSUME NEW s \in Samples, RollouterDoes(TaskNext(s))
          PROVE  Unfinished' \subseteq Unfinished
      <3>1. task \in [Samples -> TaskStates]
        BY DEF TypeOK, TaskTypeOK
      <3>2. task[s] # "none" /\ \E v : task' = [task EXCEPT ![s] = v]
        BY <2>4, <3>1 DEF TaskNext, TaskStart, TaskInterrupted, TaskGenerated, TaskFails,
           TaskPut, Interrupt
      <3> QED
        BY <3>1, <3>2 DEF Unfinished
    <2>5. ASSUME \/ RollouterDoes(FeedSamples) \/ RollouterDoes(MainNext)
                 \/ RollouterDoes(MonitorNext) \/ RollouterDoes(CallNext)
                 \/ TrainerDoes(TrainerNext)
          PROVE  task' = task
      BY <2>5, MainFrame, MonitorFrame, CallFrame, TrainerFrame
      DEF FeedSamples, TrainerDoes, taskVars, rollouterInner
    <2> QED
      BY <2>2, <2>3, <2>4, <2>5
      DEF Next, RollouterNext, DriverEnds, Ended, vars, rollouterVars
  <1> QED
    BY <1>1, TypeCorrect, LockExclusive, PTL DEF Spec, PauseFreezesTasks

-----------------------------------------------------------------------------
(* The versions.  VersionsFollow is not inductive: that the rollouter is   *)
(* one version behind only between the calls of one synchronisation needs  *)
(* to know where the trainer is while each call is pending, and that       *)
(* update_param_version carries the version the queue was told.            *)
SyncInv ==
    /\ trainer = "syncing" <=> pause_call # "none"
    /\ trainer = "syncing" => update_call = "none" /\ resume_call = "none"
    /\ update_version = mq_param_version
    /\ trainer_version =
         IF trainer \in {"wait", "syncing"} THEN mq_param_version + 1
                                           ELSE mq_param_version
    /\ mq_param_version =
         IF update_call = "called" THEN current_param_version + 1
                                   ELSE current_param_version

LEMMA SyncStep == TypeOK /\ SyncInv /\ [Next]_vars => SyncInv'
  <1> SUFFICES ASSUME TypeOK, SyncInv, [Next]_vars
               PROVE  SyncInv'
    OBVIOUS
  <1> USE DEF RollouterDoes, TrainerDoes, SyncInv
  <1> DEFINE seen == <<trainer, pause_call, update_call, resume_call, update_version,
                       mq_param_version, trainer_version, current_param_version>>
  <1>0. /\ mq_param_version \in Nat
        /\ trainer_version \in Nat
        /\ current_param_version \in Nat
        /\ update_version \in Nat
    BY DEF TypeOK, QueueTypeOK, TrainerTypeOK, FlagTypeOK, CallTypeOK
  <1>1. CASE UNCHANGED seen
    BY <1>1
  <1>2. CASE RollouterDoes(CallNext)
    <2>1. UNCHANGED <<trainer, trainer_version, mq_param_version, update_version>>
      BY <1>2, CallFrame DEF trainerVars
    <2>2. CASE CallQueues
      BY <2>1, <2>2 DEF CallQueues, callVars, flagVars
    <2>3. CASE PauseBegin \/ PauseCancel \/ PauseEnd
      BY <2>1, <2>3 DEF PauseBegin, PauseCancel, PauseEnd, ForgetTasks
    <2>4. CASE UpdateBegin
      BY <1>0, <2>1, <2>4 DEF UpdateBegin
    <2>5. CASE UpdateSize \/ UpdateEnd
      BY <2>1, <2>5 DEF UpdateSize, UpdateEnd, flagVars
    <2>6. CASE ResumeBegin \/ ResumeEnd
      BY <2>1, <2>6 DEF ResumeBegin, ResumeEnd, Reopen
    <2> QED
      BY <1>2, <2>2, <2>3, <2>4, <2>5, <2>6 DEF CallNext
  <1>3. CASE TrainerDoes(TrainerNext)
    <2>1. current_param_version' = current_param_version
      BY <1>3, TrainerFrame DEF rollouterInner
    <2>2. CASE UpdateActor
      BY <1>0, <2>1, <2>2 DEF UpdateActor, mqVars
    <2>3. CASE SyncPause
      BY <2>1, <2>3 DEF SyncPause, LastSyncEnded, mqVars, syncVars
    <2>4. CASE SyncWeights
      BY <1>0, <2>1, <2>4 DEF SyncWeights, UpdateMQParamVersion, syncVars
    <2>5. CASE RequestSample
      BY <2>5, <2>1 DEF RequestSample, GetSample, GetWait, GetClosed, GetTake,
         rollouterVars, trainerVars
    <2>6. CASE CollectSample \/ CollectEnd
      BY <2>6, <2>1 DEF CollectSample, CollectEnd, Receive, rollouterVars, syncVars
    <2>7. CASE LogValidation \/ FinishFit
      BY <2>7, <2>1 DEF LogValidation, FinishFit, GetValidate, rollouterVars, syncVars
    <2> QED
      BY <1>3, <2>2, <2>3, <2>4, <2>5, <2>6, <2>7 DEF TrainerNext
  <1>4. ASSUME \/ RollouterDoes(FeedSamples) \/ RollouterDoes(ProcessorNext)
               \/ RollouterDoes(MainNext) \/ RollouterDoes(MonitorNext)
        PROVE  UNCHANGED seen
    BY <1>4, ProcessorFrame, MainFrame, MonitorFrame
    DEF FeedSamples, mqVars, flagVars, callVars, trainerVars
  <1>5. ASSUME NEW s \in Samples, RollouterDoes(TaskNext(s))
        PROVE  UNCHANGED seen
    BY <1>5, TaskFrame DEF flagVars, callVars, trainerVars
  <1>6. ASSUME DriverEnds
        PROVE  UNCHANGED seen
    BY <1>6 DEF DriverEnds, ClearQueue, rollouterVars, trainerVars
  <1>7. ASSUME UNCHANGED vars
        PROVE  UNCHANGED seen
    BY <1>7 DEF vars, mqVars, rollouterVars, trainerVars
  <1> HIDE DEF seen
  <1> QED
    BY <1>1, <1>2, <1>3, <1>4, <1>5, <1>6, <1>7 DEF Next, RollouterNext, Ended

(* The queue learns a version before the rollouter and after the trainer,  *)
(* none is more than one behind the one before it, and they differ only    *)
(* while a synchronisation is under way.                                   *)
THEOREM VersionsInOrder == Spec => []VersionsFollow
  <1>1. Init => SyncInv
    BY DEF Init, MQInit, RollouterInit, TrainerInit, SyncInv
  <1>2. TypeOK /\ SyncInv => VersionsFollow
    BY DEF TypeOK, QueueTypeOK, TrainerTypeOK, FlagTypeOK, CallTypeOK, SyncInv,
       VersionsFollow
  <1> QED
    BY <1>1, <1>2, SyncStep, TypeCorrect, PTL DEF Spec

-----------------------------------------------------------------------------
(* The end mark                                                            *)
(*                                                                         *)
(* EndMarkLast speaks of the time after the mark was put; the invariant    *)
(* also says that there was none before, that no task is left that could   *)
(* still put a sample, and that the main coroutine puts the mark only once *)
(* the processor has ended for good.                                       *)

Clean(q)  == \A i \in DOMAIN q : q[i] # EndMark
Marked(q) == \A i \in DOMAIN q : q[i] = EndMark => i = Len(q)
Ending    == {"stopping", "failed", "returned"}
EndTaken  == got["trainer"] = EndMark \/ trainer \in Ending

IdleInv == processor = "returned" => Unfinished = {}
MarkInv ==
    /\ main = "streaming" => Clean(queue) /\ ~EndTaken
    /\ main # "streaming" => processor \in {"returned", "crashed"}
    /\ main # "streaming" /\ processor = "returned" =>
          Marked(queue) /\ (EndTaken => queue = <<>>)

-----------------------------------------------------------------------------
(* Queues with and without the mark                                        *)

LEMMA CleanTail ==
    ASSUME NEW q \in Seq(Nat), q # <<>>, Clean(q)
    PROVE  Tail(q) \in Seq(Nat) /\ Clean(Tail(q)) /\ Head(q) # EndMark
<1>1. /\ Tail(q) \in Seq(Nat) /\ Len(Tail(q)) = Len(q) - 1 /\ Head(q) = q[1]
      /\ \A i \in 1..Len(Tail(q)) : Tail(q)[i] = q[i + 1]
      /\ Len(q) \in Nat \ {0} /\ DOMAIN q = 1..Len(q)
      /\ DOMAIN Tail(q) = 1..Len(q) - 1
  BY HeadTailProperties, LenProperties
<1>2. \A i \in 1..Len(q) - 1 : i + 1 \in 1..Len(q)
  BY <1>1
<1>3. 1 \in 1..Len(q)
  BY <1>1
<1> QED BY <1>1, <1>2, <1>3 DEF Clean

LEMMA OneLess == \A i, n \in Nat : i + 1 = n => i = n - 1
OBVIOUS

LEMMA EmptyWhenNoLength ==
    ASSUME NEW q \in Seq(Nat), Len(q) = 0
    PROVE  q = <<>>
BY EmptySeq

LEMMA MarkedTail ==
    ASSUME NEW q \in Seq(Nat), q # <<>>, Marked(q)
    PROVE  Marked(Tail(q)) /\ (Head(q) = EndMark => Tail(q) = <<>>)
<1>1. /\ Tail(q) \in Seq(Nat) /\ Len(Tail(q)) = Len(q) - 1 /\ Head(q) = q[1]
      /\ \A i \in 1..Len(Tail(q)) : Tail(q)[i] = q[i + 1]
      /\ Len(q) \in Nat \ {0} /\ DOMAIN q = 1..Len(q)
      /\ DOMAIN Tail(q) = 1..Len(q) - 1
  BY HeadTailProperties, LenProperties
<1>2. ASSUME NEW i \in DOMAIN Tail(q), Tail(q)[i] = EndMark PROVE i = Len(Tail(q))
  <2>1. i \in Nat /\ i + 1 \in 1..Len(q) /\ q[i + 1] = EndMark
    BY <1>1, <1>2
  <2>2. i + 1 = Len(q)
    BY <1>1, <2>1 DEF Marked
  <2>3. i = Len(q) - 1
    <3>1. i \in Nat /\ Len(q) \in Nat
      BY <1>1, <2>1
    <3> QED BY <2>2, <3>1, OneLess
  <2> QED BY <1>1, <2>3
<1>3. ASSUME Head(q) = EndMark PROVE Tail(q) = <<>>
  <2>1. 1 \in 1..Len(q)
    BY <1>1
  <2>2. 1 = Len(q)
    BY <1>1, <1>3, <2>1 DEF Marked
  <2>3. Len(Tail(q)) = 0
    BY <1>1, <2>2
  <2> QED BY <1>1, <2>3, EmptyWhenNoLength
<1> QED BY <1>2, <1>3 DEF Marked

LEMMA CleanAppend ==
    ASSUME NEW q \in Seq(Nat), Clean(q), NEW s \in Nat
    PROVE  /\ s # EndMark => Clean(Append(q, s))
           /\ Marked(Append(q, s))
<1>1. /\ Len(Append(q, s)) = Len(q) + 1
      /\ \A i \in 1..Len(q) : Append(q, s)[i] = q[i]
      /\ Append(q, s)[Len(q) + 1] = s
      /\ Len(q) \in Nat /\ DOMAIN q = 1..Len(q)
      /\ DOMAIN Append(q, s) = 1..Len(q) + 1
  BY AppendProperties, LenProperties
<1>2. \A i \in 1..Len(q) + 1 : i \in 1..Len(q) \/ i = Len(q) + 1
  BY <1>1
<1> QED BY <1>1, <1>2 DEF Clean, Marked

(* A put into a queue without the mark, which may drop its head.           *)
LEMMA CleanPut ==
    ASSUME QueueTypeOK, Clean(queue), NEW s \in Nat, PutSample(s)
    PROVE  /\ s # EndMark => Clean(queue')
           /\ Marked(queue')
           /\ got' = got
<1>1. Kept \in Seq(Nat) /\ Clean(Kept)
  <2>1. CASE IsFull
    <3>1. queue # <<>>
      BY <2>1, MaxQueueSizeAssumption DEF IsFull
    <3> QED BY <2>1, <3>1, CleanTail DEF Kept, QueueTypeOK
  <2>2. CASE ~IsFull
    BY <2>2 DEF Kept, QueueTypeOK
  <2> QED BY <2>1, <2>2
<1> QED BY <1>1, CleanAppend DEF PutSample

-----------------------------------------------------------------------------
(* When the processor has returned, no task is left.                       *)

LEMMA ProcessorGoesOn == ProcessorNext => processor \notin {"returned", "crashed"}
BY DEF ProcessorNext, TopPause, TopContinue, TopTake, GetPending, SignalPause,
       DrainLeave, DrainAwait, DrainEmptied, DrainReap, Rest, SubmitWait, Submit,
       ProcessorQueues

LEMMA NoneActive ==
    ASSUME TypeOK, ~(ActiveCount > 0)
    PROVE  Unfinished = {}
<1>1. finished \in Nat /\ failed \in Nat
  BY DEF TypeOK, TaskTypeOK
<1>2. IsFiniteSet(Unfinished)
  <2>1. IsFiniteSet(Samples)
    BY RollouterAssumption, FS_Interval DEF Samples
  <2> QED BY <2>1, FS_Subset DEF Unfinished
<1>3. Cardinality(Unfinished) \in Nat
  BY <1>2, FS_CardinalityType
<1>4. Cardinality(Unfinished) = 0
  BY <1>1, <1>3 DEF ActiveCount
<1> QED BY <1>2, <1>4, FS_EmptySet

LEMMA ProcessorReturns ==
    ASSUME TypeOK, ProcessorNext, processor' = "returned"
    PROVE  Unfinished' = {}
<1>1. CASE DrainLeave
  <2>1. drain_site = "done" /\ task' = task
    BY <1>1 DEF DrainLeave, taskVars, TypeOK, ProcessorTypeOK
  <2>2. ~(ActiveCount > 0)
    BY <1>1, <2>1 DEF DrainLeave, DrainMore
  <2>3. Unfinished = {}
    BY <2>2, NoneActive
  <2> QED BY <2>1, <2>3 DEF Unfinished
<1>2. CASE ProcessorQueues
  BY <1>2 DEF ProcessorQueues
<1>3. CASE TopPause \/ TopContinue \/ TopTake \/ GetPending \/ SignalPause
           \/ DrainAwait \/ DrainEmptied \/ DrainReap \/ Rest \/ SubmitWait \/ Submit
  BY <1>3 DEF TopPause, TopContinue, TopTake, GetPending, TakePending, SignalPause,
     DrainAwait, DrainEmptied, DrainReap, Rest, SubmitWait, Submit
<1> QED BY <1>1, <1>2, <1>3 DEF ProcessorNext

(* The coroutines that may wake the processor do not end it, nor start it. *)
LEMMA EndedStays ==
    ASSUME TypeOK, MonitorNext \/ CallNext
    PROVE  \A p \in {"returned", "crashed"} : processor' = p <=> processor = p
<1>1. CASE MonitorNext
  BY <1>1 DEF MonitorNext, MonitorDecides, MonitorUnpauses, MonitorStops, Unpause,
     NotifyProcessor, procVars
<1>2. CASE CallNext
  BY <1>2 DEF CallNext, CallQueues, PauseBegin, PauseCancel, PauseEnd, UpdateBegin,
     UpdateSize, UpdateEnd, ResumeBegin, ResumeEnd, Reopen, Unpause,
     NotifyProcessor, procVars
<1> QED BY <1>1, <1>2

LEMMA FewerTasks ==
    ASSUME TypeOK, NEW s \in Samples, TaskNext(s)
    PROVE  s \in Unfinished /\ Unfinished' \subseteq Unfinished
<1>1. task[s] # "none" /\ \E v : task' = [task EXCEPT ![s] = v]
  BY DEF TaskNext, TaskStart, TaskInterrupted, TaskGenerated, TaskFails, TaskPut, Interrupt
<1>2. task \in [Samples -> TaskStates]
  BY DEF TypeOK, TaskTypeOK
<1> QED BY <1>1, <1>2 DEF Unfinished

LEMMA IdleStep == TypeOK /\ IdleInv /\ [Next]_vars => IdleInv'
<1> SUFFICES ASSUME TypeOK, IdleInv, [Next]_vars, processor' = "returned"
             PROVE  Unfinished' = {}
  BY DEF IdleInv
<1>1. CASE ProcessorNext
  BY <1>1, ProcessorReturns
<1>2. CASE MonitorNext \/ CallNext
  <2>1. processor = "returned" /\ task' = task
    BY <1>2, EndedStays, MonitorFrame, CallFrame DEF taskVars
  <2> QED BY <2>1 DEF IdleInv, Unfinished
<1>3. ASSUME NEW s \in Samples, TaskNext(s) PROVE Unfinished' = {}
  <2>1. processor = "returned"
    BY <1>3, TaskFrame DEF procVars
  <2> QED BY <1>3, <2>1, FewerTasks DEF IdleInv
<1>4. CASE UNCHANGED <<processor, task>>
  BY <1>4 DEF IdleInv, Unfinished
<1>5. CASE FeedSamples \/ MainNext \/ TrainerNext \/ DriverEnds \/ UNCHANGED vars
  BY <1>4, <1>5, MainFrame, TrainerFrame
  DEF FeedSamples, procVars, taskVars, rollouterInner, DriverEnds, vars, rollouterVars
<1> QED BY <1>1, <1>2, <1>3, <1>5
        DEF Next, Ended, RollouterDoes, TrainerDoes, RollouterNext

-----------------------------------------------------------------------------
(* The mark                                                                *)

LEMMA PutStep ==
    ASSUME TypeOK, IdleInv, MarkInv, trainer' = trainer,
           \/ \E s \in Samples : TaskNext(s)
           \/ MainNext
    PROVE  MarkInv'
<1>q. QueueTypeOK
  BY DEF TypeOK
<1>1. ASSUME NEW s \in Samples, TaskPut(s) PROVE MarkInv'
  <2>1. UNCHANGED <<main, processor>> /\ PutSample(s) /\ s \in Nat /\ s # EndMark
    BY <1>1, RollouterAssumption DEF TaskPut, serviceVars, procVars, Samples, EndMark
  <2>2. s \in Unfinished
    BY <1>1, FewerTasks DEF TaskNext
  <2>3. processor # "returned"
    BY <2>2 DEF IdleInv
  <2>4. CASE main = "streaming"
    <3>1. Clean(queue') /\ got' = got
      BY <1>q, <2>1, <2>4, CleanPut DEF MarkInv
    <3> QED BY <2>1, <2>3, <2>4, <3>1 DEF MarkInv, EndTaken
  <2>5. CASE main # "streaming"
    BY <2>1, <2>3, <2>5 DEF MarkInv
  <2> QED BY <2>4, <2>5
<1>2. CASE FinishStream
  <2>1. /\ main = "streaming" /\ main' = "stopping" /\ processor' = processor
        /\ processor \in {"returned", "crashed"} /\ PutSample(EndMark)
    BY <1>2 DEF FinishStream, procVars
  <2>2. EndMark \in Nat
    BY DEF EndMark
  <2>3. Marked(queue') /\ got' = got
    BY <1>q, <2>1, <2>2, CleanPut DEF MarkInv
  <2> QED BY <2>1, <2>3 DEF MarkInv, EndTaken
<1>3. CASE UNCHANGED <<queue, got, main, processor>>
  BY <1>3 DEF MarkInv, EndTaken
<1>4. CASE StopRunning \/ MainQueues
  <2>1. /\ UNCHANGED <<queue, got, processor>>
        /\ main' = main \/ (main = "stopping" /\ main' = "done")
    BY <1>4 DEF StopRunning, MainQueues, mqVars, procVars, serviceVars
  <2> QED BY <2>1 DEF MarkInv, EndTaken
<1>5. ASSUME NEW s \in Samples,
             TaskStart(s) \/ TaskInterrupted(s) \/ TaskGenerated(s) \/ TaskFails(s)
      PROVE  UNCHANGED <<queue, got, main, processor>>
  BY <1>5 DEF TaskStart, TaskInterrupted, TaskGenerated, TaskFails, mqVars, serviceVars,
     procVars
<1> QED BY <1>1, <1>2, <1>3, <1>4, <1>5 DEF TaskNext, MainNext

LEMMA GetStep ==
    ASSUME TypeOK, MarkInv, RequestSample
    PROVE  MarkInv'
<1>0. /\ UNCHANGED <<main, processor, trainer>> /\ trainer \notin Ending
      /\ GetSample("trainer") /\ queue \in Seq(Nat)
      /\ "trainer" \in Consumers /\ got \in [Consumers -> Nat \cup {Nothing, Closed}]
  BY TrainerAssumption
  DEF RequestSample, rollouterVars, trainerVars, Ending, TypeOK, QueueTypeOK
<1>1. CASE GetWait("trainer")
  BY <1>0, <1>1 DEF GetWait, MarkInv, EndTaken
<1>2. CASE GetClosed("trainer")
  <2>1. queue' = queue /\ got'["trainer"] # EndMark
    BY <1>0, <1>2 DEF GetClosed, Closed, EndMark
  <2> QED BY <1>0, <2>1 DEF MarkInv, EndTaken
<1>3. CASE GetTake("trainer")
  <2>1. queue # <<>> /\ queue' = Tail(queue) /\ got'["trainer"] = Head(queue)
    BY <1>0, <1>3 DEF GetTake
  <2>2. CASE main = "streaming"
    <3>1. Clean(queue') /\ got'["trainer"] # EndMark
      BY <1>0, <2>1, <2>2, CleanTail DEF MarkInv
    <3> QED BY <1>0, <2>2, <3>1 DEF MarkInv, EndTaken
  <2>3. CASE main # "streaming"
    <3>1. CASE processor = "returned"
      <4>1. Marked(queue') /\ (got'["trainer"] = EndMark => queue' = <<>>)
        BY <1>0, <2>1, <2>3, <3>1, MarkedTail DEF MarkInv
      <4> QED BY <1>0, <2>3, <3>1, <4>1 DEF MarkInv, EndTaken
    <3>2. CASE processor # "returned"
      BY <1>0, <2>3, <3>2 DEF MarkInv
    <3> QED BY <3>1, <3>2
  <2> QED BY <2>2, <2>3
<1> QED BY <1>0, <1>1, <1>2, <1>3 DEF GetSample

(* The trainer's other steps end it only when it has taken the mark.       *)
LEMMA TrainStep ==
    ASSUME TypeOK, MarkInv, TrainerNext
    PROVE  MarkInv'
<1>1. CASE RequestSample
  BY <1>1, GetStep
<1>2. CASE CollectSample \/ CollectEnd
  <2>0. "trainer" \in Consumers /\ got \in [Consumers -> Nat \cup {Nothing, Closed}]
    BY TrainerAssumption DEF TypeOK, QueueTypeOK
  <2>1. UNCHANGED <<queue, main, processor>> /\ got'["trainer"] # EndMark
    BY <1>2, <2>0 DEF CollectSample, CollectEnd, Receive, rollouterVars, rollouterInner,
       Nothing, EndMark
  <2>2. CASE CollectSample
    <3>1. trainer' \notin Ending
      BY <2>2 DEF CollectSample, Ending
    <3> QED BY <2>1, <3>1 DEF MarkInv, EndTaken
  <2>3. CASE CollectEnd
    <3>1. EndTaken
      BY <2>3 DEF CollectEnd, EndTaken
    <3> QED BY <2>1, <3>1 DEF MarkInv
  <2> QED BY <1>2, <2>2, <2>3
<1>3. CASE UpdateActor \/ SyncPause \/ SyncWeights \/ LogValidation \/ FinishFit
  <2>1. UNCHANGED <<queue, got, main, processor>>
    BY <1>3 DEF UpdateActor, SyncPause, SyncWeights, LogValidation, FinishFit,
       UpdateMQParamVersion, GetValidate, mqVars, rollouterVars, rollouterInner
  <2>2. trainer' \in Ending => trainer \in Ending
    BY <1>3 DEF UpdateActor, SyncPause, SyncWeights, LogValidation, FinishFit, Ending
  <2> QED BY <2>1, <2>2 DEF MarkInv, EndTaken
<1> QED BY <1>1, <1>2, <1>3 DEF TrainerNext

LEMMA MarkStep == TypeOK /\ IdleInv /\ MarkInv /\ [Next]_vars => MarkInv'
<1> SUFFICES ASSUME TypeOK, IdleInv, MarkInv, [Next]_vars PROVE MarkInv'
  OBVIOUS
<1>1. CASE ProcessorNext /\ trainer' = trainer
  <2>1. UNCHANGED <<queue, got, main>> /\ processor \notin {"returned", "crashed"}
    BY <1>1, ProcessorFrame, ProcessorGoesOn DEF mqVars, serviceVars
  <2> QED BY <1>1, <2>1 DEF MarkInv, EndTaken
<1>2. CASE (MonitorNext \/ CallNext) /\ trainer' = trainer
  <2>1. UNCHANGED <<queue, got, main>>
    BY <1>2, MonitorFrame, CallFrame DEF mqVars, serviceVars
  <2> QED BY <1>2, <2>1, EndedStays DEF MarkInv, EndTaken
<1>3. CASE ((\E s \in Samples : TaskNext(s)) \/ MainNext) /\ trainer' = trainer
  BY <1>3, PutStep
<1>4. CASE TrainerNext
  BY <1>4, TrainStep
<1>5. CASE DriverEnds
  <2>1. UNCHANGED <<got, main, processor, trainer>> /\ queue' = <<>> /\ DOMAIN queue' = {}
    BY <1>5 DEF DriverEnds, ClearQueue, rollouterVars, trainerVars
  <2> QED BY <2>1 DEF MarkInv, EndTaken, Clean, Marked
<1>6. CASE UNCHANGED <<queue, got, main, processor, trainer>>
  BY <1>6 DEF MarkInv, EndTaken
<1>7. CASE FeedSamples /\ trainer' = trainer
  BY <1>6, <1>7 DEF FeedSamples, mqVars, serviceVars, procVars
<1>8. CASE UNCHANGED vars
  BY <1>6, <1>8 DEF vars, mqVars, rollouterVars, trainerVars
<1> QED BY <1>1, <1>2, <1>3, <1>4, <1>5, <1>7, <1>8
        DEF Next, Ended, RollouterDoes, TrainerDoes, RollouterNext, trainerVars

(* The trainer reads every sample that was put before the end of the       *)
(* stream, however the last tasks, the main coroutine and it interleave.   *)
THEOREM MarkIsLast == Spec => []EndMarkLast
<1>1. Init => IdleInv /\ MarkInv
  <2> SUFFICES ASSUME Init PROVE IdleInv /\ MarkInv
    OBVIOUS
  <2>1. processor = "top" /\ main = "streaming" /\ trainer = "collect"
    BY DEF Init, RollouterInit, TrainerInit
  <2>2. queue = <<>> /\ got["trainer"] = Nothing
    BY TrainerAssumption DEF Init, MQInit
  <2>3. Nothing # EndMark
    BY DEF Nothing, EndMark
  <2>4. Clean(queue)
    BY <2>2 DEF Clean
  <2> QED BY <2>1, <2>2, <2>3, <2>4 DEF IdleInv, MarkInv, EndTaken, Ending
<1>2. IdleInv /\ MarkInv => EndMarkLast
  BY DEF IdleInv, MarkInv, EndMarkLast, Marked, EndTaken, Ending
<1> QED BY <1>1, <1>2, IdleStep, MarkStep, TypeCorrect, PTL DEF Spec
=============================================================================
