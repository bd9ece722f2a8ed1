------------------------- MODULE MessageQueue_proof -------------------------
(***************************************************************************)
(* Proofs about the message queue, for every size, every set of consumers  *)
(* and every number of samples.                                            *)
(***************************************************************************)
EXTENDS MessageQueue, SequenceTheorems, TLAPS

(* What put_sample leaves in the deque, full or not, has room for one      *)
(* more sample and is a suffix of what was there.                          *)
LEMMA KeptSuffix ==
    ASSUME queue \in Seq(Nat), Len(queue) <= MaxQueueSize
    PROVE  /\ Kept \in Seq(Nat)
           /\ Len(Kept) < MaxQueueSize
           /\ Len(Kept) <= Len(queue)
           /\ \A i \in 1..Len(Kept) : Kept[i] = queue[Len(queue) - Len(Kept) + i]
  <1>1. CASE IsFull
    <2>1. queue # <<>> /\ Kept = Tail(queue)
      BY <1>1, MaxQueueSizeAssumption DEF IsFull, Kept
    <2>2. /\ Tail(queue) \in Seq(Nat)
          /\ Len(Tail(queue)) = Len(queue) - 1
          /\ \A i \in 1..Len(Tail(queue)) : Tail(queue)[i] = queue[i + 1]
      BY <2>1, HeadTailProperties
    <2> QED
      BY <2>1, <2>2, MaxQueueSizeAssumption
  <1>2. CASE ~IsFull
    BY <1>2, MaxQueueSizeAssumption DEF IsFull, Kept
  <1> QED
    BY <1>1, <1>2

-----------------------------------------------------------------------------
(* Every variable of the queue keeps its type, and the deque its maximum.  *)
THEOREM MQTypeCorrect == MQSpec => []MQTypeOK
  <1>1. MQInit => MQTypeOK
    BY MaxQueueSizeAssumption DEF MQInit, MQTypeOK, Nothing
  <1>2. MQTypeOK /\ [MQNext]_mqVars => MQTypeOK'
    <2> SUFFICES ASSUME MQTypeOK, [MQNext]_mqVars
                 PROVE  MQTypeOK'
      OBVIOUS
    <2> USE DEF MQTypeOK
    <2>1. CASE PutSample(total_produced + 1)
      <3>1. /\ Kept \in Seq(Nat)
            /\ Len(Kept) < MaxQueueSize
        BY KeptSuffix
      <3>2. queue' \in Seq(Nat) /\ Len(queue') = Len(Kept) + 1
        BY <2>1, <3>1, AppendProperties DEF PutSample
      <3>3. getter' \in [Consumers -> {"idle", "waiting", "woken", "returned"}]
        BY <2>1 DEF PutSample, NotifyConsumers
      <3> QED
        BY <2>1, <3>1, <3>2, <3>3, MaxQueueSizeAssumption DEF PutSample
    <2>2. ASSUME NEW c \in Consumers, GetSample(c)
          PROVE  MQTypeOK'
      <3>1. CASE GetWait(c)
        BY <3>1 DEF GetWait, counters
      <3>2. CASE GetClosed(c)
        BY <3>2 DEF GetClosed, counters
      <3>3. CASE GetTake(c)
        <4>1. /\ Tail(queue) \in Seq(Nat)
              /\ Len(Tail(queue)) = Len(queue) - 1
              /\ Head(queue) \in Nat
          BY <3>3, HeadTailProperties DEF GetTake
        <4> QED
          BY <3>3, <4>1, MaxQueueSizeAssumption DEF GetTake
      <3> QED
        BY <2>2, <3>1, <3>2, <3>3 DEF GetSample
    <2>3. ASSUME NEW c \in Consumers, Receive(c)
          PROVE  MQTypeOK'
      BY <2>3 DEF Receive, counters
    <2>4. CASE UpdateMQParamVersion(mq_param_version + 1)
      BY <2>4 DEF UpdateMQParamVersion, counters
    <2>5. CASE PutValidate(mq_param_version)
      BY <2>5, AppendProperties DEF PutValidate, counters
    <2>6. CASE GetValidate
      BY <2>6, HeadTailProperties DEF GetValidate, counters
    <2>7. CASE ClearQueue
      BY <2>7, MaxQueueSizeAssumption DEF ClearQueue, counters
    <2>8. CASE Shutdown
      BY <2>8 DEF Shutdown, NotifyConsumers, counters
    <2>9. CASE UNCHANGED mqVars
      BY <2>9 DEF mqVars
    <2> QED
      BY <2>1, <2>2, <2>3, <2>4, <2>5, <2>6, <2>7, <2>8, <2>9 DEF MQNext
  <1> QED
    BY <1>1, <1>2, PTL DEF MQSpec

-----------------------------------------------------------------------------
(* No caller of get_sample sleeps while there is something for it: every   *)
(* step that makes the deque non-empty, or closes the queue, wakes all the *)
(* callers that sleep, and a caller goes to sleep only after it looked.    *)
THEOREM NoWakeupIsLost == MQSpec => []NoLostWakeup
  <1>1. MQInit => NoLostWakeup
    BY DEF MQInit, NoLostWakeup
  <1>2. MQTypeOK /\ NoLostWakeup /\ [MQNext]_mqVars => NoLostWakeup'
    <2> SUFFICES ASSUME MQTypeOK, NoLostWakeup, [MQNext]_mqVars,
                        NEW d \in Consumers, getter'[d] = "waiting"
                 PROVE  queue' = <<>> /\ mq_running'
      BY DEF NoLostWakeup
    <2>1. getter \in [Consumers -> {"idle", "waiting", "woken", "returned"}]
      BY DEF MQTypeOK
    <2>2. CASE PutSample(total_produced + 1)
      BY <2>1, <2>2 DEF PutSample, NotifyConsumers
    <2>3. ASSUME NEW c \in Consumers, GetSample(c)
          PROVE  queue' = <<>> /\ mq_running'
      <3>1. CASE GetWait(c)
        BY <3>1 DEF GetWait
      <3>2. CASE GetClosed(c)
        BY <2>1, <3>2 DEF GetClosed, NoLostWakeup
      <3>3. CASE GetTake(c)
        <4>1. d # c /\ getter[d] = "waiting"
          BY <2>1, <3>3 DEF GetTake
        <4> QED
          BY <3>3, <4>1 DEF GetTake, NoLostWakeup
      <3> QED
        BY <2>3, <3>1, <3>2, <3>3 DEF GetSample
    <2>4. ASSUME NEW c \in Consumers, Receive(c)
          PROVE  queue' = <<>> /\ mq_running'
      BY <2>1, <2>4 DEF Receive, NoLostWakeup
    <2>5. CASE \/ UpdateMQParamVersion(mq_param_version + 1)
               \/ PutValidate(mq_param_version)
               \/ GetValidate
               \/ ClearQueue
      BY <2>5 DEF UpdateMQParamVersion, PutValidate, GetValidate, ClearQueue,
                  NoLostWakeup
    <2>6. CASE Shutdown
      BY <2>1, <2>6 DEF Shutdown, NotifyConsumers
    <2>7. CASE UNCHANGED mqVars
      BY <2>7 DEF mqVars, NoLostWakeup
    <2> QED
      BY <2>2, <2>3, <2>4, <2>5, <2>6, <2>7 DEF MQNext
  <1> QED
    BY <1>1, <1>2, MQTypeCorrect, PTL DEF MQSpec

-----------------------------------------------------------------------------
(* The deque holds the newest samples in the order of put_sample.          *)
LEMMA NewestStep ==
    MQTypeOK /\ QueueIsNewest /\ [MQNext]_mqVars => QueueIsNewest'
  <1> SUFFICES ASSUME MQTypeOK, QueueIsNewest, [MQNext]_mqVars,
                      NEW i \in 1..Len(queue')
               PROVE  queue'[i] = total_produced' - Len(queue') + i
    BY DEF QueueIsNewest
  <1>0. queue \in Seq(Nat) /\ Len(queue) <= MaxQueueSize /\ total_produced \in Nat
    BY DEF MQTypeOK
  <1>1. CASE PutSample(total_produced + 1)
    <2>1. /\ Kept \in Seq(Nat)
          /\ Len(Kept) <= Len(queue)
          /\ \A j \in 1..Len(Kept) : Kept[j] = queue[Len(queue) - Len(Kept) + j]
      BY <1>0, KeptSuffix
    <2>2. /\ queue' = Append(Kept, total_produced + 1)
          /\ total_produced' = total_produced + 1
      BY <1>1 DEF PutSample
    <2>3. /\ Len(queue') = Len(Kept) + 1
          /\ \A j \in 1..Len(Kept) : queue'[j] = Kept[j]
          /\ queue'[Len(Kept) + 1] = total_produced + 1
      BY <1>0, <2>1, <2>2, AppendProperties
    <2>4. CASE i = Len(Kept) + 1
      BY <1>0, <2>1, <2>2, <2>3, <2>4
    <2>5. CASE i \in 1..Len(Kept)
      <3>1. Len(queue) - Len(Kept) + i \in 1..Len(queue)
        BY <1>0, <2>1, <2>5
      <3>2. queue[Len(queue) - Len(Kept) + i]
              = total_produced - Len(queue) + (Len(queue) - Len(Kept) + i)
        BY <3>1 DEF QueueIsNewest
      <3> QED
        BY <1>0, <2>1, <2>2, <2>3, <2>5, <3>2
    <2> QED
      BY <2>1, <2>3, <2>4, <2>5
  <1>2. ASSUME NEW c \in Consumers, GetTake(c)
        PROVE  queue'[i] = total_produced' - Len(queue') + i
    <2>1. /\ queue' = Tail(queue)
          /\ total_produced' = total_produced
          /\ Len(Tail(queue)) = Len(queue) - 1
          /\ \A j \in 1..Len(Tail(queue)) : Tail(queue)[j] = queue[j + 1]
      BY <1>0, <1>2, HeadTailProperties DEF GetTake
    <2>2. i + 1 \in 1..Len(queue)
      BY <1>0, <2>1
    <2>3. queue[i + 1] = total_produced - Len(queue) + (i + 1)
      BY <2>2 DEF QueueIsNewest
    <2>4. queue'[i] = queue[i + 1]
      BY <2>1
    <2>5. Len(queue) \in Nat /\ i \in Nat /\ Len(queue') = Len(queue) - 1
      BY <1>0, <2>1
    <2>6. total_produced - Len(queue) + (i + 1) = total_produced - (Len(queue) - 1) + i
      BY <1>0, <2>5
    <2>7. total_produced' - Len(queue') + i = total_produced - (Len(queue) - 1) + i
      BY <2>1, <2>5
    <2> QED
      BY <2>3, <2>4, <2>6, <2>7
  <1>3. CASE ClearQueue
    BY <1>3 DEF ClearQueue
  <1>4. CASE queue' = queue /\ total_produced' = total_produced
    BY <1>4 DEF QueueIsNewest
  <1>5. ASSUME NEW c \in Consumers, GetSample(c)
        PROVE  queue'[i] = total_produced' - Len(queue') + i
    BY <1>2, <1>4, <1>5 DEF GetSample, GetWait, GetClosed, counters
  <1>6. ASSUME NEW c \in Consumers, Receive(c)
        PROVE  queue'[i] = total_produced' - Len(queue') + i
    BY <1>4, <1>6 DEF Receive, counters
  <1>7. CASE \/ UpdateMQParamVersion(mq_param_version + 1)
             \/ PutValidate(mq_param_version)
             \/ GetValidate
             \/ Shutdown
    BY <1>4, <1>7 DEF UpdateMQParamVersion, PutValidate, GetValidate, Shutdown,
                      counters
  <1>8. CASE UNCHANGED mqVars
    BY <1>4, <1>8 DEF mqVars
  <1> QED
    BY <1>1, <1>3, <1>5, <1>6, <1>7, <1>8 DEF MQNext

THEOREM NewestStay == MQSpec => []QueueIsNewest
  <1>1. MQInit => QueueIsNewest
    BY DEF MQInit, QueueIsNewest
  <1> QED
    BY <1>1, NewestStep, MQTypeCorrect, PTL DEF MQSpec

-----------------------------------------------------------------------------
(* An answer is on its way to a consumer exactly when its call returned.   *)
Answered == \A c \in Consumers : getter[c] = "returned" <=> got[c] # Nothing

LEMMA AnsweredHolds == MQSpec => []Answered
  <1>1. MQInit => Answered
    BY DEF MQInit, Answered
  <1>2. MQTypeOK /\ Answered /\ [MQNext]_mqVars => Answered'
    <2> SUFFICES ASSUME MQTypeOK, Answered, [MQNext]_mqVars,
                        NEW d \in Consumers
                 PROVE  getter'[d] = "returned" <=> got'[d] # Nothing
      BY DEF Answered
    <2>0. /\ getter \in [Consumers -> {"idle", "waiting", "woken", "returned"}]
          /\ got \in [Consumers -> Nat \cup {Nothing, Closed}]
          /\ getter[d] = "returned" <=> got[d] # Nothing
      BY DEF MQTypeOK, Answered
    <2>1. CASE NotifyConsumers /\ got' = got
      BY <2>0, <2>1 DEF NotifyConsumers
    <2>2. ASSUME NEW c \in Consumers, GetSample(c)
          PROVE  getter'[d] = "returned" <=> got'[d] # Nothing
      <3>1. CASE GetWait(c)
        BY <2>0, <2>2, <3>1 DEF GetSample, GetWait
      <3>2. CASE GetClosed(c)
        BY <2>0, <3>2 DEF GetClosed, Nothing, Closed
      <3>3. CASE GetTake(c)
        <4>1. Head(queue) \in Nat
          BY <3>3, HeadTailProperties DEF GetTake, MQTypeOK
        <4> QED
          BY <2>0, <3>3, <4>1 DEF GetTake, Nothing
      <3> QED
        BY <2>2, <3>1, <3>2, <3>3 DEF GetSample
    <2>3. ASSUME NEW c \in Consumers, Receive(c)
          PROVE  getter'[d] = "returned" <=> got'[d] # Nothing
      BY <2>0, <2>3 DEF Receive
    <2>4. CASE getter' = getter /\ got' = got
      BY <2>0, <2>4
    <2> QED
      BY <2>1, <2>2, <2>3, <2>4
      DEF MQNext, mqVars, PutSample, Shutdown, UpdateMQParamVersion,
          PutValidate, GetValidate, ClearQueue
  <1> QED
    BY <1>1, <1>2, MQTypeCorrect, PTL DEF MQSpec

(* The deque, its condition and its counters implement the sliding window: *)
(* each step of the actor moves the window the way WindowNext allows, or   *)
(* leaves it alone.                                                        *)
THEOREM QueueIsWindow == MQSpec => WindowSafety
  <1> USE DEF Window!Nothing, Window!Closed, Nothing, Closed
  <1>1. MQInit => Window!WindowInit
    <2> SUFFICES ASSUME MQInit PROVE Window!WindowInit
      OBVIOUS
    <2>1. Len(queue) = 0 /\ total_produced = 0
      BY DEF MQInit
    <2>2. total_produced - Len(queue) = 0
      BY <2>1
    <2> QED
      BY <2>1, <2>2 DEF MQInit, Window!WindowInit
  <1>2. MQTypeOK /\ QueueIsNewest /\ Answered /\ [MQNext]_mqVars
          => [Window!WindowNext]_(Window!winVars)
    <2> SUFFICES ASSUME MQTypeOK, QueueIsNewest, Answered, [MQNext]_mqVars
                 PROVE  Window!WindowNext \/ UNCHANGED Window!winVars
      OBVIOUS
    <2>0. /\ queue \in Seq(Nat)
          /\ Len(queue) \in Nat
          /\ Len(queue) <= MaxQueueSize
          /\ total_produced \in Nat
      BY DEF MQTypeOK
    <2>1. CASE PutSample(total_produced + 1)
      <3>1. Kept \in Seq(Nat)
        BY <2>0, KeptSuffix
      <3>2. Len(queue') = Len(Kept) + 1
        BY <2>1, <3>1, AppendProperties DEF PutSample
      <3>3. Len(Kept) = IF Len(queue) >= MaxQueueSize THEN Len(queue) - 1 ELSE Len(queue)
        <4>1. Len(queue) >= MaxQueueSize => queue # <<>>
          BY MaxQueueSizeAssumption
        <4> QED
          BY <2>0, <4>1, HeadTailProperties DEF Kept, IsFull
      <3>4. total_produced' - Len(queue')
              = IF total_produced - (total_produced - Len(queue)) >= MaxQueueSize
                  THEN total_produced - Len(queue) + 1 ELSE total_produced - Len(queue)
        <4>1. total_produced' = total_produced + 1
          BY <2>1 DEF PutSample
        <4>2. Len(queue') = IF Len(queue) >= MaxQueueSize
                              THEN Len(queue) ELSE Len(queue) + 1
          BY <2>0, <3>2, <3>3
        <4>3. total_produced - (total_produced - Len(queue)) = Len(queue)
          BY <2>0
        <4> QED
          BY <2>0, <4>1, <4>2, <4>3, MaxQueueSizeAssumption
      <3>5. Window!WindowPut
        BY <2>1, <3>4 DEF PutSample, Window!WindowPut
      <3> QED
        BY <3>5 DEF Window!WindowNext
    <2>2. ASSUME NEW c \in Consumers, GetSample(c)
          PROVE  Window!WindowNext \/ UNCHANGED Window!winVars
      <3>0. got[c] = -2
        BY <2>2 DEF GetSample, Answered
      <3>1. CASE GetWait(c)
        BY <3>1 DEF GetWait, counters, Window!winVars
      <3>2. CASE GetClosed(c)
        <4>1. Window!WindowRefuse(c)
          BY <2>0, <3>0, <3>2 DEF GetClosed, counters, Window!WindowRefuse
        <4> QED
          BY <4>1 DEF Window!WindowNext
      <3>3. CASE GetTake(c)
        <4>1. Len(Tail(queue)) = Len(queue) - 1 /\ Len(queue) > 0 /\ Head(queue) = queue[1]
          BY <2>0, <3>3, HeadTailProperties, EmptySeq DEF GetTake
        <4>2. queue[1] = total_produced - Len(queue) + 1
          BY <2>0, <4>1 DEF QueueIsNewest
        <4>3. /\ total_produced' = total_produced
              /\ Len(queue') = Len(queue) - 1
              /\ got' = [got EXCEPT ![c] = total_produced - Len(queue) + 1]
              /\ mq_running' = mq_running
          BY <3>3, <4>1, <4>2 DEF GetTake
        <4>4. /\ total_produced - Len(queue) < total_produced
              /\ total_produced' - Len(queue') = total_produced - Len(queue) + 1
          BY <2>0, <4>1, <4>3
        <4>5. Window!WindowTake(c)
          BY <3>0, <4>3, <4>4 DEF Window!WindowTake
        <4> QED
          BY <4>5 DEF Window!WindowNext
      <3> QED
        BY <2>2, <3>1, <3>2, <3>3 DEF GetSample
    <2>3. ASSUME NEW c \in Consumers, Receive(c)
          PROVE  Window!WindowNext
      <3>1. Window!WindowRead(c)
        BY <2>3 DEF Receive, counters, Answered, Window!WindowRead
      <3> QED
        BY <3>1 DEF Window!WindowNext
    <2>4. CASE ClearQueue
      <3>1. Window!WindowClear
        BY <2>0, <2>4 DEF ClearQueue, counters, Window!WindowClear
      <3> QED
        BY <3>1 DEF Window!WindowNext
    <2>5. CASE Shutdown
      <3>1. Window!WindowClose
        BY <2>5 DEF Shutdown, counters, Window!WindowClose
      <3> QED
        BY <3>1 DEF Window!WindowNext
    <2>6. CASE \/ UpdateMQParamVersion(mq_param_version + 1)
               \/ PutValidate(mq_param_version)
               \/ GetValidate
      BY <2>6 DEF UpdateMQParamVersion, PutValidate, GetValidate, counters,
                  Window!winVars
    <2>7. CASE UNCHANGED mqVars
      BY <2>7 DEF mqVars, Window!winVars
    <2> QED
      BY <2>1, <2>2, <2>3, <2>4, <2>5, <2>6, <2>7 DEF MQNext
  <1> QED
    BY <1>1, <1>2, MQTypeCorrect, NewestStay, AnsweredHolds, PTL
    DEF MQSpec, WindowSafety
=============================================================================
