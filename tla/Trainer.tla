------------------------------ MODULE Trainer ------------------------------
(***************************************************************************)
(* The FullyAsyncTrainer actor and the ParameterSynchronizer it calls.     *)
(* Both block in ray.get until their remote calls are answered, so the     *)
(* trainer is one sequential process: collect a batch, train, synchronise  *)
(* the parameters after every TriggerStep batches, read the validation     *)
(* results.  It meets the rollouter only through the message queue and     *)
(* the three remote calls.                                                 *)
(***************************************************************************)
EXTENDS Rollouter

CONSTANT TestFreq          (* rollout.test_freq                            *)

ASSUME TrainerAssumption ==
    /\ TestFreq \in Nat \ {0}
    /\ "trainer" \in Consumers

VARIABLES
    trainer,               (* where fit is                                 *)
    batch,                 (* the samples collected for the next step      *)
    local_trigger_step,    (* training steps since the last sync, plus one *)
    trainer_version        (* the trainer's current_param_version          *)

trainerVars == <<trainer, batch, local_trigger_step, trainer_version>>
syncVars == <<local_trigger_step, trainer_version>>

TrainerInit ==
    /\ trainer = "collect"
    /\ batch = {}
    /\ local_trigger_step = 1
    /\ trainer_version = 0

(* The rollouter's variables that the trainer never touches.               *)
rollouterInner == <<fed, pending_queue, cancel_queue, task, finished, failed,
                    sample_version, processor, rollout_sample, drain_site,
                    done_tasks_bound, on_loop, lock, paused,
                    monitor_loop_trigger, staleness_samples,
                    current_param_version, servers_paused, main, monitor,
                    rollouter_running, update_base>>

-----------------------------------------------------------------------------
(* _get_samples_from_queue                                                 *)

(* ray.get(get_sample): the call runs in the queue actor.                  *)
RequestSample ==
    /\ trainer = "collect"
    /\ GetSample("trainer")
    /\ UNCHANGED <<rollouterVars, trainerVars>>

CollectSample ==
    /\ trainer = "collect"
    /\ got["trainer"] \in Samples
    /\ Receive("trainer")
    /\ batch' = batch \cup {got["trainer"]}
    /\ trainer' = IF Cardinality(batch) + 1 < RequiredSamples THEN "collect" ELSE "train"
    /\ UNCHANGED <<rollouterVars, syncVars>>

(* The end mark: what was collected so far is not enough for a step and is *)
(* thrown away, and fit leaves its loop.                                   *)
CollectEnd ==
    /\ trainer = "collect"
    /\ getter["trainer"] = "returned"
    /\ got["trainer"] = EndMark
    /\ Receive("trainer")
    /\ fate' = [s \in Samples |-> IF s \in batch THEN "discarded" ELSE fate[s]]
    /\ batch' = {}
    /\ trainer' = "stopping"
    /\ UNCHANGED <<rollouterInner, pause_call, update_call, resume_call,
                   update_version, syncVars>>

-----------------------------------------------------------------------------
(* fit_step after its batch is there: one update of the weights, then      *)
(* _trigger_parameter_sync_after_step.                                     *)

(* Mutant of SyncDue: one step too late.                                   *)
SyncDueLate == local_trigger_step > TriggerStep

SyncDue == local_trigger_step >= TriggerStep

UpdateActor ==
    /\ trainer = "train"
    /\ fate' = [s \in Samples |-> IF s \in batch THEN "trained" ELSE fate[s]]
    /\ batch' = {}
    /\ IF SyncDue
         THEN /\ local_trigger_step' = 1
              /\ trainer_version' = trainer_version + 1
              /\ trainer' = "wait"
         ELSE /\ local_trigger_step' = local_trigger_step + 1
              /\ trainer' = "log"
              /\ UNCHANGED trainer_version
    /\ UNCHANGED <<mqVars, rollouterInner, pause_call, update_call, resume_call,
                   update_version>>

(* Mutant of LastSyncEnded: the last update and resume are not awaited.    *)
NoWait == TRUE

(* wait_last_valid: the calls of the last synchronisation have returned.   *)
LastSyncEnded == update_call = "none" /\ resume_call = "none"

(* wait_last_valid, then sync_weights asks the rollouter to pause.         *)
SyncPause ==
    /\ trainer = "wait"
    /\ LastSyncEnded
    /\ pause_call' = "called"
    /\ trainer' = "syncing"
    /\ UNCHANGED <<mqVars, rollouterInner, fate, update_call, resume_call,
                   update_version, batch, syncVars>>

(* sync_weights once the rollouter is paused: the queue is told the        *)
(* version, no weights are transferred (that is commented out), update and *)
(* resume are sent without waiting for them.                               *)
SyncWeights ==
    /\ trainer = "syncing"
    /\ pause_call = "returned"
    /\ UpdateMQParamVersion(trainer_version)
    /\ update_version' = trainer_version
    /\ pause_call' = "none"
    /\ update_call' = "called"
    /\ resume_call' = "called"
    /\ trainer' = "log"
    /\ UNCHANGED <<rollouterInner, fate, batch, syncVars>>

(* _log_validation_data, at the end of each step.                          *)
LogValidation ==
    /\ trainer = "log"
    /\ GetValidate
    /\ trainer' = "collect"
    /\ UNCHANGED <<rollouterVars, batch, syncVars>>

-----------------------------------------------------------------------------
(* The end of fit.  The call of the final synchronisation passes an        *)
(* argument that its signature does not have, which raises.                *)
NeedsFinalSync ==
    trainer_version % TestFreq # 0 \/ local_trigger_step > 1

FinishFit ==
    /\ trainer = "stopping"
    /\ LastSyncEnded
    /\ GetValidate
    /\ trainer' = IF NeedsFinalSync THEN "failed" ELSE "returned"
    /\ UNCHANGED <<rollouterVars, batch, syncVars>>

TrainerNext ==
    \/ RequestSample \/ CollectSample \/ CollectEnd
    \/ UpdateActor \/ SyncPause \/ SyncWeights \/ LogValidation
    \/ FinishFit
=============================================================================
