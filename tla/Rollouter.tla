----------------------------- MODULE Rollouter -----------------------------
(***************************************************************************)
(* The FullyAsyncRollouter actor: one asyncio event loop that runs         *)
(*   - the feeder          _feed_samples,                                  *)
(*   - the processor       _processor_worker,                              *)
(*   - one task per sample _process_single_sample_streaming,               *)
(*   - the main coroutine  _streaming_generation_main,                     *)
(*   - the monitor         _async_monitor_loop,                            *)
(* and serves the remote calls pause, update_param_version and resume of   *)
(* the ParameterSynchronizer.  They share one asyncio lock and one         *)
(* condition on it.                                                        *)
(*                                                                         *)
(* A step is what a coroutine does between two suspensions.  The event     *)
(* loop switches coroutines only there, so the stretches that the          *)
(* processor runs without suspending, whatever their length, keep          *)
(* on_loop TRUE and exclude the other coroutines of this actor; the        *)
(* message queue, the trainer and the generation servers still run.        *)
(***************************************************************************)
EXTENDS MessageQueue, FiniteSets, Functions

CONSTANTS
    TotalRolloutSteps,  (* how many samples are generated in all           *)
    RequiredSamples,    (* samples of one training step                    *)
    TriggerStep,        (* trigger_parameter_sync_step                     *)
    StalenessPercent,   (* staleness_threshold, in percent                 *)
    ServerCapacity,     (* 16 times the number of generation servers       *)
    PendingSize,        (* maxsize of pending_queue                        *)
    PartialRollout,     (* whether a pause interrupts the generation       *)
    MaxFailures         (* bound: how many generations raise               *)

max_required_samples ==
    (RequiredSamples * TriggerStep * (100 + StalenessPercent)) \div 100

max_concurrent_samples ==
    IF ServerCapacity < max_required_samples
      THEN ServerCapacity ELSE max_required_samples

ASSUME RollouterAssumption ==
    /\ TotalRolloutSteps \in Nat \ {0}
    /\ RequiredSamples \in Nat \ {0}
    /\ TriggerStep \in Nat \ {0}
    /\ StalenessPercent \in Nat
    /\ ServerCapacity \in Nat \ {0}
    /\ PendingSize \in Nat \ {0}
    /\ PartialRollout \in BOOLEAN
    /\ MaxFailures \in Nat

ASSUME QueueSizeAssumption == MaxQueueSize = max_required_samples

Samples == 1..TotalRolloutSteps
NoSample == 0           (* the processor's local rollout_sample is unset   *)
Done     == 0           (* the string "DONE" that ends pending_queue       *)
EndMark  == 0           (* the sample None that ends the message queue     *)

VARIABLES
    fed,                     (* items the feeder has put: samples, then DONE *)
    pending_queue,
    cancel_queue,            (* interrupted samples, to be continued         *)
    task,                    (* task[s]: the unfinished task of sample s     *)
    finished,                (* tasks in active_tasks that returned          *)
    failed,                  (* tasks in active_tasks that raised            *)
    sample_version,          (* param_version stamped on a generated sample  *)
    fate,                    (* history: how sample s left the system        *)
    processor,               (* where the processor is                       *)
    rollout_sample,          (* the sample in its hand                       *)
    drain_site,              (* which of its three drain loops it runs       *)
    done_tasks_bound,        (* its local done_tasks was assigned            *)
    on_loop,                 (* it goes on without having suspended          *)
    lock,                    (* holder and waiters, first come first served  *)
    paused,
    monitor_loop_trigger,
    staleness_samples,
    current_param_version,
    servers_paused,          (* the generation servers refuse and interrupt  *)
    main,                    (* where _streaming_generation_main is          *)
    monitor,                 (* where _async_monitor_loop is                 *)
    rollouter_running,
    pause_call,              (* the three remote calls                       *)
    update_call,
    resume_call,
    update_version,          (* argument of update_param_version             *)
    update_base              (* its sum before the queue size is awaited     *)

taskVars    == <<task, finished, failed, sample_version, fate>>
procVars    == <<processor, rollout_sample, drain_site, done_tasks_bound, on_loop>>
flagVars    == <<paused, monitor_loop_trigger, staleness_samples,
                 current_param_version, servers_paused>>
serviceVars == <<main, monitor, rollouter_running>>
callVars    == <<pause_call, update_call, resume_call, update_version, update_base>>
feedVars    == <<fed, pending_queue>>

rollouterVars == <<fed, pending_queue, cancel_queue, task, finished, failed,
                   sample_version, fate, processor, rollout_sample, drain_site,
                   done_tasks_bound, on_loop, lock, paused,
                   monitor_loop_trigger, staleness_samples,
                   current_param_version, servers_paused, main, monitor,
                   rollouter_running, pause_call, update_call, resume_call,
                   update_version, update_base>>

(* The state in which fit starts: workers are up, the first weight         *)
(* synchronisation (version 0) has paused and resumed the rollouter, and   *)
(* its validation result was read.                                         *)
RollouterInit ==
    /\ fed = 0
    /\ pending_queue = <<>>
    /\ cancel_queue = <<>>
    /\ task = [s \in Samples |-> "none"]
    /\ finished = 0
    /\ failed = 0
    /\ sample_version = [s \in Samples |-> 0]
    /\ fate = [s \in Samples |-> "none"]
    /\ processor = "top"
    /\ rollout_sample = NoSample
    /\ drain_site = "pause"
    /\ done_tasks_bound = FALSE
    /\ on_loop = FALSE
    /\ lock = <<>>
    /\ paused = FALSE
    /\ monitor_loop_trigger = TRUE
    /\ staleness_samples = 0
    /\ current_param_version = 0
    /\ servers_paused = FALSE
    /\ main = "streaming"
    /\ monitor = "sleeping"
    /\ rollouter_running = TRUE
    /\ pause_call = "none"
    /\ update_call = "none"
    /\ resume_call = "none"
    /\ update_version = 0
    /\ update_base = 0

-----------------------------------------------------------------------------
(* The lock and the condition                                              *)

Unfinished == {s \in Samples : task[s] # "none"}

(* len(active_tasks): a task stays in the set after it returned, until a   *)
(* drain loop or pause removes it.                                         *)
ActiveCount == Cardinality(Unfinished) + finished + failed

InLine(c)   == c \in Range(lock)
CanEnter(c) == lock # <<>> => Head(lock) = c
Leave       == lock' = IF lock = <<>> THEN <<>> ELSE Tail(lock)

(* Mutant of Hold: the lock is given up before the await.                  *)
HoldUntilAwait(c) == Leave

(* The coroutine suspends inside its critical section.                     *)
Hold(c) == lock' = IF lock = <<>> THEN <<c>> ELSE lock

WaitInLine(c) ==
    /\ lock # <<>>
    /\ ~InLine(c)
    /\ lock' = Append(lock, c)

(* Mutant of NotifyProcessor: the flag is cleared without notify_all.      *)
NotifyNoProcessor == UNCHANGED processor

(* condition.notify_all: a processor that sleeps in one of its two         *)
(* "while self.paused" loops will compete for the lock and look again.     *)
NotifyProcessor ==
    processor' = CASE processor = "rest_idle"   -> "rest"
                   [] processor = "submit_idle" -> "submit"
                   [] OTHER                     -> processor

(* Mutant of ShouldPause: the queue alone counts.                          *)
ShouldPauseOnQueue == Len(queue) >= MaxQueueSize

(* _should_pause_generation                                                *)
ShouldPause ==
    \/ Len(queue) >= MaxQueueSize
    \/ staleness_samples >= max_required_samples

-----------------------------------------------------------------------------
(* The feeder: it puts without suspending as long as there is room, the    *)
(* samples 1, 2, ... and then DONE.                                        *)

FeedSamples ==
    /\ ~on_loop
    /\ fed <= TotalRolloutSteps
    /\ Len(pending_queue) < PendingSize
    /\ LET room == PendingSize - Len(pending_queue)
           left == TotalRolloutSteps + 1 - fed
           n    == IF room < left THEN room ELSE left
       IN /\ fed' = fed + n
          /\ pending_queue' = pending_queue \o
               [i \in 1..n |-> IF fed + i <= TotalRolloutSteps THEN fed + i ELSE Done]
    /\ UNCHANGED <<mqVars, cancel_queue, taskVars, procVars, lock, flagVars,
                   serviceVars, callVars>>

-----------------------------------------------------------------------------
(* The processor                                                           *)

(* The head of the loop: pause, continue an interrupted sample, or take a  *)
(* new one.                                                                *)
TakePending ==
    /\ pending_queue # <<>>
    /\ pending_queue' = Tail(pending_queue)
    /\ staleness_samples' = staleness_samples + 1
    /\ rollout_sample' = Head(pending_queue)
    /\ drain_site' = IF Head(pending_queue) = Done THEN "done" ELSE "limit"
    /\ processor' = "drain"
    /\ on_loop' = TRUE

TopPause ==
    /\ processor = "top"
    /\ paused \/ ShouldPause
    /\ processor' = "signal"
    /\ on_loop' = TRUE
    /\ UNCHANGED <<mqVars, feedVars, cancel_queue, taskVars, rollout_sample,
                   drain_site, done_tasks_bound, lock, flagVars, serviceVars, callVars>>

TopContinue ==
    /\ processor = "top"
    /\ ~(paused \/ ShouldPause)
    /\ cancel_queue # <<>>
    /\ rollout_sample' = Head(cancel_queue)
    /\ cancel_queue' = Tail(cancel_queue)
    /\ drain_site' = "limit"
    /\ processor' = "drain"
    /\ on_loop' = TRUE
    /\ UNCHANGED <<mqVars, feedVars, taskVars, done_tasks_bound, lock, flagVars,
                   serviceVars, callVars>>

TopTake ==
    /\ processor = "top"
    /\ ~(paused \/ ShouldPause)
    /\ cancel_queue = <<>>
    /\ IF pending_queue = <<>>
         THEN /\ processor' = "get"
              /\ on_loop' = FALSE
              /\ UNCHANGED <<pending_queue, staleness_samples, rollout_sample, drain_site>>
         ELSE TakePending
    /\ UNCHANGED <<mqVars, fed, cancel_queue, taskVars, done_tasks_bound, lock,
                   paused, monitor_loop_trigger, current_param_version,
                   servers_paused, serviceVars, callVars>>

(* pending_queue.get() had to wait for the feeder.                         *)
GetPending ==
    /\ processor = "get"
    /\ TakePending
    /\ UNCHANGED <<mqVars, fed, cancel_queue, taskVars, done_tasks_bound, lock,
                   paused, monitor_loop_trigger, current_param_version,
                   servers_paused, serviceVars, callVars>>

(* Under the lock: self.paused = True.                                     *)
SignalPause ==
    /\ processor = "signal"
    /\ CanEnter("processor")
    /\ Leave
    /\ paused' = TRUE
    /\ processor' = "drain"
    /\ drain_site' = "pause"
    /\ on_loop' = TRUE
    /\ UNCHANGED <<mqVars, feedVars, cancel_queue, taskVars, rollout_sample,
                   done_tasks_bound, monitor_loop_trigger, staleness_samples,
                   current_param_version, servers_paused, serviceVars, callVars>>

(* Mutant of DrainMore: every drain loop stops below the limit.            *)
DrainBelowLimit == ActiveCount >= max_concurrent_samples

(* The condition of the drain loop at hand.                                *)
DrainMore ==
    IF drain_site = "limit" THEN ActiveCount >= max_concurrent_samples
                            ELSE ActiveCount > 0

DrainLeave ==
    /\ processor = "drain"
    /\ ~InLine("processor")
    /\ ~DrainMore
    /\ processor' = CASE drain_site = "pause" -> "rest"
                      [] drain_site = "limit" -> "submit"
                      [] drain_site = "done"  -> "returned"
    /\ rollout_sample' = IF drain_site = "done" THEN NoSample ELSE rollout_sample
    /\ on_loop' = (drain_site # "done")
    /\ UNCHANGED <<mqVars, feedVars, cancel_queue, taskVars, drain_site,
                   done_tasks_bound, lock, flagVars, serviceVars, callVars>>

(* With the lock, and active_tasks not empty: asyncio.wait keeps the lock  *)
(* until a task has ended.                                                 *)
DrainAwait ==
    /\ processor = "drain"
    /\ InLine("processor") \/ DrainMore
    /\ CanEnter("processor")
    /\ ActiveCount > 0
    /\ Hold("processor")
    /\ processor' = "await"
    /\ on_loop' = FALSE
    /\ UNCHANGED <<mqVars, feedVars, cancel_queue, taskVars, rollout_sample,
                   drain_site, done_tasks_bound, flagVars, serviceVars, callVars>>

(* With the lock, but active_tasks was emptied by pause meanwhile:         *)
(* "for task in done_tasks" reads the set of an earlier round, if there    *)
(* was one, and raises UnboundLocalError otherwise.                        *)
DrainEmptied ==
    /\ processor = "drain"
    /\ InLine("processor") \/ DrainMore
    /\ CanEnter("processor")
    /\ ActiveCount = 0
    /\ Leave
    /\ processor' = IF done_tasks_bound THEN "drain" ELSE "crashed"
    /\ on_loop' = done_tasks_bound
    /\ UNCHANGED <<mqVars, feedVars, cancel_queue, taskVars, rollout_sample,
                   drain_site, done_tasks_bound, flagVars, serviceVars, callVars>>

(* FIRST_COMPLETED: the ended tasks leave active_tasks, and awaiting one   *)
(* that raised raises again, which ends the processor.                     *)
DrainReap ==
    /\ processor = "await"
    /\ finished + failed > 0
    /\ finished' = 0
    /\ failed' = 0
    /\ done_tasks_bound' = TRUE
    /\ Leave
    /\ processor' = IF failed > 0 THEN "crashed" ELSE "drain"
    /\ on_loop' = (failed = 0)
    /\ UNCHANGED <<mqVars, feedVars, cancel_queue, task, sample_version, fate,
                   rollout_sample, drain_site, flagVars, serviceVars, callVars>>

(* "while self.paused: await condition.wait()", after the drain ...        *)
Rest ==
    /\ processor = "rest"
    /\ CanEnter("processor")
    /\ Leave
    /\ processor' = IF paused THEN "rest_idle" ELSE "top"
    /\ on_loop' = ~paused
    /\ UNCHANGED <<mqVars, feedVars, cancel_queue, taskVars, rollout_sample,
                   drain_site, done_tasks_bound, flagVars, serviceVars, callVars>>

(* ... and before a sample is submitted.                                   *)
SubmitWait ==
    /\ processor = "submit"
    /\ CanEnter("processor")
    /\ paused
    /\ Leave
    /\ processor' = "submit_idle"
    /\ on_loop' = FALSE
    /\ UNCHANGED <<mqVars, feedVars, cancel_queue, taskVars, rollout_sample,
                   drain_site, done_tasks_bound, flagVars, serviceVars, callVars>>

Submit ==
    /\ processor = "submit"
    /\ CanEnter("processor")
    /\ ~paused
    /\ Leave
    /\ task' = [task EXCEPT ![rollout_sample] = "created"]
    /\ rollout_sample' = NoSample
    /\ processor' = "top"
    /\ on_loop' = TRUE
    /\ UNCHANGED <<mqVars, feedVars, cancel_queue, finished, failed,
                   sample_version, fate, drain_site, done_tasks_bound, flagVars,
                   serviceVars, callVars>>

(* The lock is taken: the processor suspends in the line.                  *)
ProcessorQueues ==
    /\ \/ processor \in {"signal", "rest", "submit"}
       \/ processor = "drain" /\ DrainMore
    /\ WaitInLine("processor")
    /\ on_loop' = FALSE
    /\ UNCHANGED <<mqVars, feedVars, cancel_queue, taskVars, processor,
                   rollout_sample, drain_site, done_tasks_bound, flagVars,
                   serviceVars, callVars>>

ProcessorNext ==
    \/ TopPause \/ TopContinue \/ TopTake \/ GetPending
    \/ SignalPause \/ DrainLeave \/ DrainAwait \/ DrainEmptied \/ DrainReap
    \/ Rest \/ SubmitWait \/ Submit \/ ProcessorQueues

-----------------------------------------------------------------------------
(* The task of sample s                                                    *)

(* Mutant of Interrupt: the interrupted sample is forgotten.               *)
InterruptLost(s) ==
    /\ task' = [task EXCEPT ![s] = "none"]
    /\ finished' = finished + 1
    /\ UNCHANGED cancel_queue

(* An interrupted sample is kept for later.                                *)
Interrupt(s) ==
    /\ task' = [task EXCEPT ![s] = "none"]
    /\ finished' = finished + 1
    /\ cancel_queue' = Append(cancel_queue, s)

(* The request reaches the servers; paused servers answer at once that it  *)
(* was interrupted.                                                        *)
TaskStart(s) ==
    /\ ~on_loop
    /\ task[s] = "created"
    /\ IF servers_paused
         THEN Interrupt(s)
         ELSE /\ task' = [task EXCEPT ![s] = "generating"]
              /\ UNCHANGED <<finished, cancel_queue>>
    /\ UNCHANGED <<mqVars, feedVars, failed, sample_version, fate, procVars,
                   lock, flagVars, serviceVars, callVars>>

TaskInterrupted(s) ==
    /\ ~on_loop
    /\ task[s] = "generating"
    /\ servers_paused
    /\ Interrupt(s)
    /\ UNCHANGED <<mqVars, feedVars, failed, sample_version, fate, procVars,
                   lock, flagVars, serviceVars, callVars>>

TaskGenerated(s) ==
    /\ ~on_loop
    /\ task[s] = "generating"
    /\ task' = [task EXCEPT ![s] = "putting"]
    /\ sample_version' = [sample_version EXCEPT ![s] = current_param_version]
    /\ UNCHANGED <<mqVars, feedVars, cancel_queue, finished, failed, fate,
                   procVars, lock, flagVars, serviceVars, callVars>>

(* A generation that raises; only a drain loop looks at the exception.     *)
TaskFails(s) ==
    /\ ~on_loop
    /\ task[s] = "generating"
    /\ Cardinality({r \in Samples : fate[r] = "failed"}) < MaxFailures
    /\ task' = [task EXCEPT ![s] = "none"]
    /\ failed' = failed + 1
    /\ fate' = [fate EXCEPT ![s] = "failed"]
    /\ UNCHANGED <<mqVars, feedVars, cancel_queue, finished, sample_version,
                   procVars, lock, flagVars, serviceVars, callVars>>

(* History of a put: the sample a full queue drops is gone.                *)
RecordDrop ==
    fate' = IF IsFull /\ Head(queue) # EndMark
              THEN [fate EXCEPT ![Head(queue)] = "dropped"] ELSE fate

(* The queue appends it while this actor may be anywhere.                  *)
TaskPut(s) ==
    /\ task[s] = "putting"
    /\ PutSample(s)
    /\ RecordDrop
    /\ task' = [task EXCEPT ![s] = "none"]
    /\ finished' = finished + 1
    /\ UNCHANGED <<feedVars, cancel_queue, failed, sample_version, procVars,
                   lock, flagVars, serviceVars, callVars>>

TaskNext(s) ==
    \/ TaskStart(s) \/ TaskInterrupted(s) \/ TaskGenerated(s)
    \/ TaskFails(s) \/ TaskPut(s)

-----------------------------------------------------------------------------
(* The main coroutine: once the processor has ended, one way or the other, *)
(* the end mark is put into the message queue and the monitor is stopped.  *)

FinishStream ==
    /\ ~on_loop
    /\ main = "streaming"
    /\ processor \in {"returned", "crashed"}
    /\ PutSample(EndMark)
    /\ RecordDrop
    /\ main' = "stopping"
    /\ UNCHANGED <<feedVars, cancel_queue, task, finished, failed,
                   sample_version, procVars, lock, flagVars, monitor,
                   rollouter_running, callVars>>

StopRunning ==
    /\ ~on_loop
    /\ main = "stopping"
    /\ CanEnter("main")
    /\ Leave
    /\ rollouter_running' = FALSE
    /\ main' = "done"
    /\ UNCHANGED <<mqVars, feedVars, cancel_queue, taskVars, procVars, flagVars,
                   monitor, callVars>>

MainQueues ==
    /\ ~on_loop
    /\ main = "stopping"
    /\ WaitInLine("main")
    /\ UNCHANGED <<mqVars, feedVars, cancel_queue, taskVars, procVars, flagVars,
                   serviceVars, callVars>>

MainNext == FinishStream \/ StopRunning \/ MainQueues

-----------------------------------------------------------------------------
(* The monitor: after each sleep it reads monitor_loop_trigger and whether *)
(* to pause, both without the lock, and then takes the lock to unpause.    *)

Unpause ==
    /\ paused' = FALSE
    /\ NotifyProcessor

MonitorDecides ==
    /\ ~on_loop
    /\ monitor = "sleeping"
    /\ monitor_loop_trigger
    /\ ~ShouldPause
    /\ IF lock = <<>>
         THEN /\ Unpause
              /\ UNCHANGED <<lock, monitor>>
         ELSE /\ WaitInLine("monitor")
              /\ monitor' = "unpausing"
              /\ UNCHANGED <<paused, processor>>
    /\ UNCHANGED <<mqVars, feedVars, cancel_queue, taskVars, rollout_sample,
                   drain_site, done_tasks_bound, on_loop, monitor_loop_trigger,
                   staleness_samples, current_param_version, servers_paused,
                   main, rollouter_running, callVars>>

MonitorUnpauses ==
    /\ ~on_loop
    /\ monitor = "unpausing"
    /\ CanEnter("monitor")
    /\ Leave
    /\ Unpause
    /\ monitor' = "sleeping"
    /\ UNCHANGED <<mqVars, feedVars, cancel_queue, taskVars, rollout_sample,
                   drain_site, done_tasks_bound, on_loop, monitor_loop_trigger,
                   staleness_samples, current_param_version, servers_paused,
                   main, rollouter_running, callVars>>

MonitorStops ==
    /\ ~on_loop
    /\ monitor = "sleeping"
    /\ lock = <<>>
    /\ ~rollouter_running
    /\ monitor' = "done"
    /\ UNCHANGED <<mqVars, feedVars, cancel_queue, taskVars, procVars, lock,
                   flagVars, main, rollouter_running, callVars>>

MonitorNext == MonitorDecides \/ MonitorUnpauses \/ MonitorStops

-----------------------------------------------------------------------------
(* The remote calls of the ParameterSynchronizer.  Each one queues for the *)
(* lock when it is taken.                                                  *)

CallQueues ==
    /\ ~on_loop
    /\ \/ pause_call = "called" /\ WaitInLine("pause")
       \/ update_call = "called" /\ WaitInLine("update")
       \/ resume_call = "called" /\ update_call = "none" /\ WaitInLine("resume")
    /\ UNCHANGED <<mqVars, feedVars, cancel_queue, taskVars, procVars, flagVars,
                   serviceVars, callVars>>

(* pause: set paused, interrupt the servers in partial rollout, wait for   *)
(* every active task with the lock in hand, forget them.  Without partial  *)
(* rollout and without a task it does not suspend.                         *)
ForgetTasks ==
    /\ finished' = 0
    /\ failed' = 0
    /\ monitor_loop_trigger' = FALSE
    /\ Leave
    /\ pause_call' = "returned"

PauseBegin ==
    /\ ~on_loop
    /\ pause_call = "called"
    /\ CanEnter("pause")
    /\ paused' = TRUE
    /\ IF ~PartialRollout /\ ActiveCount = 0
         THEN ForgetTasks
         ELSE /\ Hold("pause")
              /\ pause_call' = IF PartialRollout THEN "cancelling" ELSE "gathering"
              /\ UNCHANGED <<finished, failed, monitor_loop_trigger>>
    /\ UNCHANGED <<mqVars, feedVars, cancel_queue, task, sample_version, fate,
                   procVars, staleness_samples, current_param_version,
                   servers_paused, serviceVars, update_call, resume_call,
                   update_version, update_base>>

PauseCancel ==
    /\ ~on_loop
    /\ pause_call = "cancelling"
    /\ servers_paused' = TRUE
    /\ pause_call' = "gathering"
    /\ UNCHANGED <<mqVars, feedVars, cancel_queue, taskVars, procVars, lock,
                   paused, monitor_loop_trigger, staleness_samples,
                   current_param_version, serviceVars, update_call,
                   resume_call, update_version, update_base>>

PauseEnd ==
    /\ ~on_loop
    /\ pause_call = "gathering"
    /\ Unfinished = {}
    /\ ForgetTasks
    /\ UNCHANGED <<mqVars, feedVars, cancel_queue, task, sample_version, fate,
                   procVars, paused, staleness_samples, current_param_version,
                   servers_paused, serviceVars, update_call, resume_call,
                   update_version, update_base>>

(* The samples in the rollouter that a new version makes stale.            *)
StaleInRollouter == ActiveCount + Len(cancel_queue)

(* Mutant of UpdateBegin: the new version is not stored.                   *)
UpdateBeginOld ==
    /\ ~on_loop
    /\ update_call = "called"
    /\ CanEnter("update")
    /\ Hold("update")
    /\ update_base' = StaleInRollouter
    /\ update_call' = "sizing"
    /\ UNCHANGED <<mqVars, feedVars, cancel_queue, taskVars, procVars, paused,
                   monitor_loop_trigger, staleness_samples, current_param_version,
                   servers_paused, serviceVars, pause_call, resume_call,
                   update_version>>

(* update_param_version: the sum is evaluated from the left, the queue     *)
(* size is awaited with the lock in hand.                                  *)
UpdateBegin ==
    /\ ~on_loop
    /\ update_call = "called"
    /\ CanEnter("update")
    /\ Hold("update")
    /\ current_param_version' = update_version
    /\ update_base' = StaleInRollouter
    /\ update_call' = "sizing"
    /\ UNCHANGED <<mqVars, feedVars, cancel_queue, taskVars, procVars, paused,
                   monitor_loop_trigger, staleness_samples, servers_paused,
                   serviceVars, pause_call, resume_call, update_version>>

(* Mutant of UpdateSize: the samples in the message queue are not counted. *)
UpdateSizeOfTasks ==
    /\ ~on_loop
    /\ update_call = "sizing"
    /\ staleness_samples' = update_base
    /\ update_base' = 0
    /\ update_call' = "validating"
    /\ UNCHANGED <<mqVars, feedVars, cancel_queue, taskVars, procVars, lock,
                   paused, monitor_loop_trigger, current_param_version,
                   servers_paused, serviceVars, pause_call, resume_call,
                   update_version>>

UpdateSize ==
    /\ ~on_loop
    /\ update_call = "sizing"
    /\ staleness_samples' = update_base + Len(queue)
    /\ update_base' = 0
    /\ update_call' = "validating"
    /\ UNCHANGED <<mqVars, feedVars, cancel_queue, taskVars, procVars, lock,
                   paused, monitor_loop_trigger, current_param_version,
                   servers_paused, serviceVars, pause_call, resume_call,
                   update_version>>

UpdateEnd ==
    /\ ~on_loop
    /\ update_call = "validating"
    /\ PutValidate(update_version)
    /\ Leave
    /\ update_call' = "none"
    /\ UNCHANGED <<feedVars, cancel_queue, taskVars, procVars, flagVars,
                   serviceVars, pause_call, resume_call, update_version,
                   update_base>>

(* resume: Ray starts it when the result of update_param_version is there. *)
(* It suspends only to wake the servers, in partial rollout.               *)
Reopen ==
    /\ Unpause
    /\ monitor_loop_trigger' = TRUE
    /\ Leave
    /\ resume_call' = "none"

ResumeBegin ==
    /\ ~on_loop
    /\ resume_call = "called"
    /\ update_call = "none"
    /\ CanEnter("resume")
    /\ IF PartialRollout
         THEN /\ Hold("resume")
              /\ resume_call' = "resuming"
              /\ UNCHANGED <<paused, processor, monitor_loop_trigger>>
         ELSE Reopen
    /\ UNCHANGED <<mqVars, feedVars, cancel_queue, taskVars, rollout_sample,
                   drain_site, done_tasks_bound, on_loop, staleness_samples,
                   current_param_version, servers_paused, serviceVars,
                   pause_call, update_call, update_version, update_base>>

ResumeEnd ==
    /\ ~on_loop
    /\ resume_call = "resuming"
    /\ servers_paused' = FALSE
    /\ Reopen
    /\ UNCHANGED <<mqVars, feedVars, cancel_queue, taskVars, rollout_sample,
                   drain_site, done_tasks_bound, on_loop, staleness_samples,
                   current_param_version, serviceVars, pause_call, update_call,
                   update_version, update_base>>

CallNext ==
    \/ CallQueues
    \/ PauseBegin \/ PauseCancel \/ PauseEnd
    \/ UpdateBegin \/ UpdateSize \/ UpdateEnd
    \/ ResumeBegin \/ ResumeEnd

RollouterNext ==
    \/ FeedSamples
    \/ ProcessorNext
    \/ \E s \in Samples : TaskNext(s)
    \/ MainNext
    \/ MonitorNext
    \/ CallNext
=============================================================================
