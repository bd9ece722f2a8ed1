---------------------------- MODULE MessageQueue ----------------------------
(***************************************************************************)
(* The MessageQueue actor of fully_async_policy: a bounded deque that      *)
(* drops its oldest sample when it is full, with callers of get_sample     *)
(* that wait on a condition.  Every method runs under one asyncio.Lock and *)
(* only Condition.wait suspends it, so a method is one step, and           *)
(* get_sample is one step up to its wait and one step after each wake-up.  *)
(*                                                                         *)
(* A sample is a natural number; what it stands for is up to the module    *)
(* that uses this one.                                                     *)
(***************************************************************************)
EXTENDS Integers, Sequences

CONSTANTS MaxQueueSize,  (* maxlen of the deque                            *)
          Consumers      (* the callers of get_sample                      *)

ASSUME MaxQueueSizeAssumption == MaxQueueSize \in Nat \ {0}

VARIABLES queue,              (* the deque of samples                      *)
          mq_running,         (* FALSE once shutdown was called            *)
          total_produced,
          total_consumed,
          dropped_samples,
          mq_param_version,   (* the version the synchronizer announced    *)
          val_queue,          (* validation results on their way back      *)
          getter,             (* getter[c]: where consumer c's call is     *)
          got                 (* got[c]: the answer on its way to c        *)

counters == <<total_produced, total_consumed, dropped_samples>>
mqVars == <<queue, mq_running, total_produced, total_consumed,
            dropped_samples, mq_param_version, val_queue, getter, got>>

Nothing == -2   (* no answer is on its way                                 *)
Closed  == -1   (* the bare None that get_sample returns after shutdown    *)

MQInit ==
    /\ queue = <<>>
    /\ mq_running = TRUE
    /\ total_produced = 0
    /\ total_consumed = 0
    /\ dropped_samples = 0
    /\ mq_param_version = 0
    /\ val_queue = <<>>
    /\ getter = [c \in Consumers |-> "idle"]
    /\ got = [c \in Consumers |-> Nothing]

-----------------------------------------------------------------------------
(* The methods of the actor                                                *)

(* Mutants of NotifyConsumers: no notification at all; Condition.notify    *)
(* for one caller instead of notify_all.                                   *)
NotifyNobody == UNCHANGED getter
NotifyOne ==
    LET waiting == {c \in Consumers : getter[c] = "waiting"}
    IN getter' = IF waiting = {} THEN getter
                 ELSE [getter EXCEPT ![CHOOSE c \in waiting : TRUE] = "woken"]

(* Condition.notify_all: every waiting caller will compete for the lock.   *)
NotifyConsumers ==
    getter' = [c \in Consumers |->
                 IF getter[c] = "waiting" THEN "woken" ELSE getter[c]]

(* Mutant of IsFull: off by one.                                           *)
IsFullLate == Len(queue) > MaxQueueSize

IsFull == Len(queue) >= MaxQueueSize

(* Mutants of Kept: the newest sample makes room; nothing makes room.      *)
KeepAll == queue
KeepOldest == IF IsFull THEN SubSeq(queue, 1, Len(queue) - 1) ELSE queue

(* What a put leaves in the deque: a full one loses its oldest sample.     *)
Kept == IF IsFull THEN Tail(queue) ELSE queue

PutSample(s) ==
    /\ queue' = Append(Kept, s)
    /\ dropped_samples' = IF IsFull THEN dropped_samples + 1 ELSE dropped_samples
    /\ total_produced' = total_produced + 1
    /\ NotifyConsumers
    /\ UNCHANGED <<mq_running, total_consumed, mq_param_version, val_queue, got>>

(* The loop of get_sample, entered by a new call and after each wake-up.   *)
GetWait(c) ==
    /\ queue = <<>>
    /\ mq_running
    /\ getter' = [getter EXCEPT ![c] = "waiting"]
    /\ UNCHANGED <<queue, mq_running, counters, mq_param_version, val_queue, got>>

GetClosed(c) ==
    /\ queue = <<>>
    /\ ~mq_running
    /\ getter' = [getter EXCEPT ![c] = "returned"]
    /\ got' = [got EXCEPT ![c] = Closed]
    /\ UNCHANGED <<queue, mq_running, counters, mq_param_version, val_queue>>

(* Mutant of GetTake: pop instead of popleft.                              *)
GetTakeLast(c) ==
    /\ queue # <<>>
    /\ getter' = [getter EXCEPT ![c] = "returned"]
    /\ got' = [got EXCEPT ![c] = queue[Len(queue)]]
    /\ queue' = SubSeq(queue, 1, Len(queue) - 1)
    /\ total_consumed' = total_consumed + 1
    /\ UNCHANGED <<mq_running, total_produced, dropped_samples,
                   mq_param_version, val_queue>>

GetTake(c) ==
    /\ queue # <<>>
    /\ getter' = [getter EXCEPT ![c] = "returned"]
    /\ got' = [got EXCEPT ![c] = Head(queue)]
    /\ queue' = Tail(queue)
    /\ total_consumed' = total_consumed + 1
    /\ UNCHANGED <<mq_running, total_produced, dropped_samples,
                   mq_param_version, val_queue>>

GetSample(c) ==
    /\ getter[c] \in {"idle", "woken"}
    /\ GetWait(c) \/ GetClosed(c) \/ GetTake(c)

(* The caller receives the answer.                                         *)
Receive(c) ==
    /\ getter[c] = "returned"
    /\ getter' = [getter EXCEPT ![c] = "idle"]
    /\ got' = [got EXCEPT ![c] = Nothing]
    /\ UNCHANGED <<queue, mq_running, counters, mq_param_version, val_queue>>

UpdateMQParamVersion(v) ==
    /\ mq_param_version' = v
    /\ UNCHANGED <<queue, mq_running, counters, val_queue, getter, got>>

ClearQueue ==
    /\ queue' = <<>>
    /\ UNCHANGED <<mq_running, counters, mq_param_version, val_queue, getter, got>>

Shutdown ==
    /\ mq_running' = FALSE
    /\ NotifyConsumers
    /\ UNCHANGED <<queue, counters, mq_param_version, val_queue, got>>

PutValidate(data) ==
    /\ val_queue' = Append(val_queue, data)
    /\ UNCHANGED <<queue, mq_running, counters, mq_param_version, getter, got>>

(* get_validate never waits: it answers None when nothing is there.        *)
GetValidate ==
    /\ val_queue' = IF val_queue = <<>> THEN <<>> ELSE Tail(val_queue)
    /\ UNCHANGED <<queue, mq_running, counters, mq_param_version, getter, got>>

-----------------------------------------------------------------------------
(* The queue on its own: a producer that numbers its samples, consumers    *)
(* that call get_sample again and again, a synchronizer that announces     *)
(* versions, and a driver that may clear the queue or shut it down.        *)

MQNext ==
    \/ PutSample(total_produced + 1)
    \/ \E c \in Consumers : GetSample(c) \/ Receive(c)
    \/ UpdateMQParamVersion(mq_param_version + 1)
    \/ PutValidate(mq_param_version)
    \/ GetValidate
    \/ ClearQueue
    \/ Shutdown

(* asyncio runs every woken coroutine, and the lock is first come first    *)
(* served: a woken caller of get_sample gets its turn.                     *)
MQFairness == \A c \in Consumers :
    WF_mqVars(getter[c] = "woken" /\ GetSample(c))

MQSpec == MQInit /\ [][MQNext]_mqVars /\ MQFairness

-----------------------------------------------------------------------------
(* Properties *)

(* The deque never grows beyond its maximum and every field has its type.  *)
MQTypeOK ==
    /\ queue \in Seq(Nat)
    /\ Len(queue) <= MaxQueueSize
    /\ mq_running \in BOOLEAN
    /\ total_produced \in Nat
    /\ total_consumed \in Nat
    /\ dropped_samples \in Nat
    /\ mq_param_version \in Nat
    /\ val_queue \in Seq(Nat)
    /\ getter \in [Consumers -> {"idle", "waiting", "woken", "returned"}]
    /\ got \in [Consumers -> Nat \cup {Nothing, Closed}]

(* The deque holds exactly the most recently produced samples, in the      *)
(* order put_sample was called: nothing is lost from the middle, reordered *)
(* or doubled by the drop at the front.                                    *)
QueueIsNewest ==
    \A i \in 1..Len(queue) : queue[i] = total_produced - Len(queue) + i

(* No wake-up is lost: a call of get_sample sleeps on the condition only   *)
(* while the deque is empty and the queue is running.                      *)
NoLostWakeup ==
    \A c \in Consumers : getter[c] = "waiting" => queue = <<>> /\ mq_running

(* After shutdown no caller stays blocked in get_sample.                   *)
ShutdownReleases ==
    \A c \in Consumers : ~mq_running ~> getter[c] \notin {"waiting", "woken"}

(* The actor implements the sliding window: samples leave it in the order  *)
(* they were put, each at most once, and only a full queue or clear_queue  *)
(* loses one.                                                              *)
Window == INSTANCE SlidingWindow WITH
            Capacity <- MaxQueueSize,
            lo <- total_produced - Len(queue),
            hi <- total_produced,
            open <- mq_running,
            out <- got

WindowSafety == Window!WindowInit /\ [][Window!WindowNext]_(Window!winVars)
=============================================================================
