----------------------------- MODULE FullyAsync -----------------------------
(***************************************************************************)
(* Fully asynchronous training: Rollouter, MessageQueue, Trainer and       *)
(* ParameterSynchronizer, started and watched by the task runner.          *)
(***************************************************************************)
EXTENDS Trainer

VARIABLE driver            (* _run_training_loop                           *)

vars == <<mqVars, rollouterVars, trainerVars, driver>>

Init ==
    /\ MQInit
    /\ RollouterInit
    /\ TrainerInit
    /\ driver = "waiting"

(* Both components returned, or the trainer failed and the rollouter is    *)
(* cancelled; the queue is cleared and the process ends.                   *)
DriverEnds ==
    /\ driver = "waiting"
    /\ \/ trainer = "failed"
       \/ trainer = "returned" /\ main = "done" /\ monitor = "done"
    /\ ClearQueue
    /\ driver' = IF trainer = "failed" THEN "failed" ELSE "completed"
    /\ UNCHANGED <<rollouterVars, trainerVars>>

(* A step of one of the actors, while the process is alive.                *)
RollouterDoes(A) == driver = "waiting" /\ A /\ UNCHANGED <<trainerVars, driver>>
TrainerDoes(A)   == driver = "waiting" /\ A /\ UNCHANGED driver

Ended == driver # "waiting" /\ UNCHANGED vars

Next ==
    \/ RollouterDoes(RollouterNext)
    \/ TrainerDoes(TrainerNext)
    \/ DriverEnds
    \/ Ended

Spec == Init /\ [][Next]_vars

(* The event loop runs every coroutine that can go on, Ray delivers every  *)
(* call, every generation ends, and the trainer's updates end.  Nothing is *)
(* assumed about which generation ends first or about their failures.      *)
(* A remote call that is ready again and again gets its turn (SF): the     *)
(* loop takes what is ready first come first served, however often a       *)
(* stretch of the processor keeps it from running in between.              *)
Fairness ==
    /\ WF_vars(RollouterDoes(FeedSamples))
    /\ WF_vars(RollouterDoes(ProcessorNext))
    /\ WF_vars(RollouterDoes(MainNext))
    /\ WF_vars(RollouterDoes(MonitorNext))
    /\ SF_vars(RollouterDoes(CallNext))
    /\ \A s \in Samples :
          /\ WF_vars(RollouterDoes(TaskStart(s)))
          /\ WF_vars(RollouterDoes(TaskInterrupted(s) \/ TaskGenerated(s)))
          /\ WF_vars(RollouterDoes(TaskPut(s)))
    /\ WF_vars(TrainerDoes(TrainerNext))
    /\ WF_vars(DriverEnds)

FairSpec == Spec /\ Fairness

-----------------------------------------------------------------------------
(* What the code keeps                                                     *)

TaskStates      == {"none", "created", "generating", "putting"}
Fates           == {"none", "trained", "discarded", "dropped", "failed"}
ProcessorStates == {"top", "get", "signal", "drain", "await", "rest", "rest_idle",
                    "submit", "submit_idle", "returned", "crashed"}
Coroutines      == {"processor", "main", "monitor", "pause", "update", "resume"}

QueueTypeOK ==
    /\ queue \in Seq(Nat)
    /\ getter \in [Consumers -> {"idle", "waiting", "woken", "returned"}]
    /\ got \in [Consumers -> Nat \cup {Nothing, Closed}]
    /\ mq_param_version \in Nat

StreamTypeOK ==
    /\ fed \in 0..TotalRolloutSteps + 1
    /\ pending_queue \in Seq(Samples \cup {Done})
    /\ cancel_queue \in Seq(Samples)

TaskTypeOK ==
    /\ task \in [Samples -> TaskStates]
    /\ finished \in Nat
    /\ failed \in Nat
    /\ sample_version \in [Samples -> Nat]
    /\ fate \in [Samples -> Fates]

ProcessorTypeOK ==
    /\ processor \in ProcessorStates
    /\ rollout_sample \in Samples \cup {NoSample}
    /\ drain_site \in {"pause", "limit", "done"}
    /\ done_tasks_bound \in BOOLEAN
    /\ on_loop \in BOOLEAN

FlagTypeOK ==
    /\ lock \in Seq(Coroutines)
    /\ paused \in BOOLEAN
    /\ monitor_loop_trigger \in BOOLEAN
    /\ staleness_samples \in Nat
    /\ current_param_version \in Nat
    /\ servers_paused \in BOOLEAN

CallTypeOK ==
    /\ main \in {"streaming", "stopping", "done"}
    /\ monitor \in {"sleeping", "unpausing", "done"}
    /\ rollouter_running \in BOOLEAN
    /\ pause_call \in {"none", "called", "cancelling", "gathering", "returned"}
    /\ update_call \in {"none", "called", "sizing", "validating"}
    /\ resume_call \in {"none", "called", "resuming"}
    /\ update_version \in Nat
    /\ update_base \in Nat

TrainerTypeOK ==
    /\ trainer \in {"collect", "train", "wait", "syncing", "log", "stopping",
                    "failed", "returned"}
    /\ batch \subseteq Samples
    /\ local_trigger_step \in 1..TriggerStep
    /\ trainer_version \in Nat
    /\ driver \in {"waiting", "failed", "completed"}

(* Every variable has its type; in particular the trainer never makes more *)
(* than TriggerStep updates without a synchronisation.                     *)
TypeOK ==
    /\ QueueTypeOK
    /\ StreamTypeOK
    /\ TaskTypeOK
    /\ ProcessorTypeOK
    /\ FlagTypeOK
    /\ CallTypeOK
    /\ TrainerTypeOK

(* Where a sample can be.  The three queues are one sequence, so that a    *)
(* sample that is twice in them is seen.                                   *)
Queued == pending_queue \o cancel_queue \o queue

Holders == << Range(Queued) \cap Samples,
              {rollout_sample} \cap Samples,
              Unfinished,
              {got["trainer"]} \cap Samples,
              batch,
              {s \in Samples : fate[s] # "none"} >>

(* Every sample the feeder has put is in exactly one place, or left the    *)
(* system in one recorded way; none is doubled by an interruption that     *)
(* races with a pause, a drop or a crash of the processor.                 *)
OnePlace == driver = "waiting" =>
    /\ \A i, j \in DOMAIN Queued :
          i # j /\ Queued[i] = Queued[j] => Queued[i] \notin Samples
    /\ \A i, j \in DOMAIN Holders : i # j => Holders[i] \cap Holders[j] = {}
    /\ UNION Range(Holders) = {s \in Samples : s <= fed}

(* The three copies of the parameter version follow one another through    *)
(* the pause / update / resume calls: the queue is told a version before   *)
(* the rollouter, each is at most one behind the one before it, and all    *)
(* agree whenever no synchronisation is under way.                         *)
VersionsFollow ==
    /\ current_param_version <= mq_param_version
    /\ mq_param_version <= current_param_version + 1
    /\ mq_param_version <= trainer_version
    /\ trainer_version <= mq_param_version + 1
    /\ mq_param_version < trainer_version => trainer \in {"wait", "syncing"}
    /\ current_param_version < mq_param_version => update_call = "called"

(* While pause waits for the active tasks with the lock in hand, no task   *)
(* starts: the set it waits for can only shrink.                           *)
PauseFreezesTasks ==
    [][(pause_call \in {"cancelling", "gathering"})
          => (Unfinished' \subseteq Unfinished)]_vars

(* A coroutine that suspended inside the critical section still owns it:   *)
(* two of pause, update_param_version, resume and a drain loop are never   *)
(* in the middle of theirs at once.                                        *)
LockHeld ==
    /\ processor = "await" => lock # <<>> /\ Head(lock) = "processor"
    /\ pause_call \in {"cancelling", "gathering"} => lock # <<>> /\ Head(lock) = "pause"
    /\ update_call \in {"sizing", "validating"} => lock # <<>> /\ Head(lock) = "update"
    /\ resume_call = "resuming" => lock # <<>> /\ Head(lock) = "resume"

(* The processor sleeps on the condition only while generation is paused:  *)
(* whoever clears the flag, the monitor or resume, has woken it.           *)
SleepsOnlyPaused == processor \in {"rest_idle", "submit_idle"} => paused

(* The samples between the processor and the trainer, and the one the      *)
(* processor took but has not submitted.                                   *)
RealSamples(q) == {i \in DOMAIN q : q[i] # EndMark}
InFlight == Cardinality(Unfinished) + Len(cancel_queue) + Cardinality(RealSamples(queue))
InHand   == IF rollout_sample \in Samples THEN 1 ELSE 0

(* staleness_samples, which a new version recomputes from the sets and     *)
(* queues while they change, undercounts by one at the most: the sample    *)
(* in the processor's hand.                                                *)
StalenessCovers == InFlight + InHand <= staleness_samples + 1

(* So generation runs at most one sample past its limit.                   *)
InFlightBounded == InFlight <= max_required_samples + 1

(* By how many versions the trainer can be ahead of the version a sample   *)
(* was finished with: those that a full queue lasts for, the one it makes  *)
(* while the sample is on its way, and one more when a task may run        *)
(* through a synchronisation, which partial rollout excludes.              *)
MaxLag ==
    (max_required_samples - 1) \div (RequiredSamples * TriggerStep)
       + (IF PartialRollout THEN 1 ELSE 2)

(* No sample of a batch is staler than that, in whatever order the trainer *)
(* consumes between the two halves of a synchronisation, the queue drops   *)
(* and tasks end; staleness_threshold itself is not this bound.            *)
VersionLag == \A s \in batch : trainer_version <= sample_version[s] + MaxLag

(* When the processor has ended by itself, the end mark is the last thing  *)
(* the queue ever holds: the trainer leaves no sample behind it.           *)
EndMarkLast ==
    processor = "returned" /\ main # "streaming" =>
        /\ Unfinished = {}
        /\ \A i \in DOMAIN queue : queue[i] = EndMark => i = Len(queue)
        /\ trainer \in {"stopping", "failed", "returned"} => queue = <<>>

(* The run ends: no wait of the rollouter for the trainer, of the trainer  *)
(* for the rollouter, or of a coroutine for the lock lasts for ever.  It   *)
(* does where interrupted samples, which stay counted in staleness_samples *)
(* while generation is paused, cannot use up the whole limit; where they   *)
(* can, RolloutRecovers shows how it stops.                                *)
Terminates == <>(driver # "waiting")

-----------------------------------------------------------------------------
(* What documents and comments say and the code does not keep              *)

(* "When triggering parameter synchronization, if Rollouter has ongoing    *)
(* tasks, it will wait for the tasks to complete and not add new tasks"    *)
(* (README.md:240): from the return of pause until the new version is in   *)
(* place no task runs.                                                     *)
NoTaskDuringSync ==
    pause_call = "returned" \/ update_call # "none" => Unfinished = {}

(* "Function 2: Trigger rollout recovery" (fully_async_rollouter.py:697)   *)
(* and "rollout continues to generate and trainer continues to consume"    *)
(* (README.md:145): a paused rollouter goes on some time later.            *)
RolloutRecovers == paused ~> (~paused \/ driver # "waiting")
=============================================================================
