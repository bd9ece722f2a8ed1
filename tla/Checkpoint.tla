----------------------------- MODULE Checkpoint -----------------------------
(***************************************************************************)
(* Saving and resuming of a fully asynchronous run: the trainer writes the *)
(* shards of its models, the rollouter the position of its dataloader, and *)
(* the trainer moves the tracker file; a crash may come between any two.   *)
(*                                                                         *)
(* A model is known by the set of samples its updates were made with, a    *)
(* shard file by the model it was written from.                            *)
(***************************************************************************)
EXTENDS Integers, Sequences, FiniteSets, FiniteSetsExt, Functions

CONSTANTS
    Ranks,              (* workers that hold a shard of each model          *)
    UseCritic,
    TotalRolloutSteps,  (* samples of the whole run                         *)
    DatasetSize,        (* samples the dataloader yields in an epoch        *)
    TotalEpochs,        (* config.rollout.total_epochs                      *)
    RequiredSamples,    (* samples of an update                             *)
    TriggerSteps,       (* trigger_parameter_sync_step, one is chosen       *)
    MaxKeeps,           (* max_ckpt_to_keep, one is chosen; 0 is None       *)
    SaveFreq,
    TestFreq,           (* config.rollout.test_freq                         *)
    Lead,               (* bound: samples between the feeder and an update  *)
    MaxCrashes          (* bound: crashes of the job                        *)

ASSUME CheckpointAssumption ==
    /\ TotalRolloutSteps \in Nat \ {0}
    /\ RequiredSamples \in Nat \ {0}
    /\ TriggerSteps \subseteq Nat \ {0}
    /\ MaxKeeps \subseteq Nat
    /\ DatasetSize \in Nat \ {0} /\ TotalEpochs \in Nat \ {0}
    /\ SaveFreq \in Nat \ {0} /\ TestFreq \in Nat \ {0}
    /\ Lead \in Nat /\ Lead >= RequiredSamples
    /\ MaxCrashes \in Nat
    /\ IsFiniteSet(Ranks) /\ Ranks # {}
    /\ UseCritic \in BOOLEAN

Roles    == IF UseCritic THEN <<"actor", "critic">> ELSE <<"actor">>
RoleSet  == Range(Roles)
Steps    == TotalRolloutSteps \div RequiredSamples
Versions == 0..Steps + MaxCrashes

(* A shard file, with the model it was written from; a torn one was opened *)
(* for writing and never closed.                                           *)
Missing  == [state |-> "missing", model |-> {}]
Torn     == [state |-> "torn",    model |-> {}]
Whole(m) == [state |-> "whole",   model |-> m]

NoFile   == -1          (* data.pt or the tracker does not exist            *)
TornFile == -2

VARIABLES
    trigger_parameter_sync_step,
    max_ckpt_to_keep,
    (* in the processes *)
    stage,                  (* where the trainer is                         *)
    saving,                 (* the role being saved, an index of Roles      *)
    writing,                (* writing[r]: rank r's part of that save       *)
    final,                  (* the save is the one after the loop           *)
    weights,                (* weights[role][r]: samples its updates used   *)
    current_param_version,
    local_trigger_step,
    global_steps,           (* the trainer's                                *)
    previous_saved_paths,   (* per role; a version stands for its path      *)
    fed,                    (* position of the rollouter's dataloader       *)
    left,                   (* what its iterator still yields               *)
    rollout_steps,          (* the rollouter's global_steps                 *)
    feeding,
    flight,                 (* samples between the feeder and an update     *)
    (* on disk *)
    shard,                  (* shard[role][v][r]                            *)
    data,                   (* data[v]: the position in data.pt             *)
    tracker,                (* latest_checkpointed_iteration.txt            *)
    crashes

config   == <<trigger_parameter_sync_step, max_ckpt_to_keep>>
saveVars == <<saving, writing, final>>
stepVars == <<current_param_version, local_trigger_step>>
feedVars == <<fed, left, rollout_steps, feeding, flight>>
disk     == <<shard, data, tracker>>
vars == <<config, stage, saveVars, weights, stepVars, global_steps,
          previous_saved_paths, feedVars, disk, crashes>>

Idle    == [r \in Ranks |-> "idle"]
NoModel == [role \in RoleSet |-> [r \in Ranks |-> {}]]
NoPaths == [role \in RoleSet |-> <<>>]
AllData == DatasetSize * TotalEpochs

Init ==
    /\ trigger_parameter_sync_step \in TriggerSteps
    /\ max_ckpt_to_keep \in MaxKeeps
    /\ stage = "load"
    /\ saving = 1 /\ writing = Idle /\ final = FALSE
    /\ weights = NoModel
    /\ current_param_version = 0 /\ local_trigger_step = 1 /\ global_steps = 1
    /\ previous_saved_paths = NoPaths
    /\ fed = 0 /\ left = AllData
    /\ rollout_steps = 1 /\ feeding = TRUE /\ flight = {}
    /\ shard = [role \in RoleSet |-> [v \in Versions |-> [r \in Ranks |-> Missing]]]
    /\ data = [v \in Versions |-> NoFile]
    /\ tracker = NoFile
    /\ crashes = 0

Stopped == stage \in {"broken", "failed", "ended"}

-----------------------------------------------------------------------------
(* Feeding and training                                                    *)

(* The feeder puts a sample before it looks whether that was the last one. *)
FeedSample ==
    /\ ~Stopped /\ stage # "load"
    /\ feeding /\ left > 0 /\ Cardinality(flight) < Lead
    /\ fed' = fed + 1 /\ left' = left - 1
    /\ flight' = flight \cup {fed + 1}
    /\ feeding' = (rollout_steps < TotalRolloutSteps)
    /\ rollout_steps' = IF feeding' THEN rollout_steps + 1 ELSE rollout_steps
    /\ UNCHANGED <<config, stage, saveVars, weights, stepVars, global_steps,
                   previous_saved_paths, disk, crashes>>

(* The epochs are used up: the feeding is over, whatever the count.        *)
FeedEnd ==
    /\ ~Stopped /\ stage # "load"
    /\ feeding /\ left = 0
    /\ feeding' = FALSE
    /\ UNCHANGED <<config, stage, saveVars, weights, stepVars, global_steps,
                   previous_saved_paths, fed, left, rollout_steps, flight, disk, crashes>>

(* A checkpoint is due by its version, or early when the reserved machine  *)
(* (ESI) is close to its expiration.                                       *)
SaveDue(version, esi) == version % SaveFreq = 0 \/ esi

(* What follows a save, or a step without one.                             *)
AfterSave(last) ==
    /\ stage' = IF last THEN "ended" ELSE "train"
    /\ global_steps' = IF last THEN global_steps ELSE global_steps + 1

BeginSave(version, last) ==
    /\ final' = last
    /\ saving' = 1
    /\ UNCHANGED writing
    /\ \E esi \in BOOLEAN :
          IF SaveDue(version, esi)
            THEN stage' = "room" /\ UNCHANGED global_steps
            ELSE AfterSave(last)

(* Mutant of SyncDue: one step too many.                                   *)
SyncDueLate == local_trigger_step > trigger_parameter_sync_step
SyncDue == local_trigger_step >= trigger_parameter_sync_step

(* One fit_step: samples arrive in any order, every rank of every role     *)
(* makes the update, the version follows, and a checkpoint may be due.     *)
FitStep ==
    /\ stage = "train"
    /\ \E batch \in kSubset(RequiredSamples, flight) :
          /\ flight' = flight \ batch
          /\ weights' = [role \in RoleSet |->
                            [r \in Ranks |-> weights[role][r] \cup batch]]
    /\ local_trigger_step'    = IF SyncDue THEN 1 ELSE local_trigger_step + 1
    /\ current_param_version' = IF SyncDue THEN current_param_version + 1
                                           ELSE current_param_version
    /\ BeginSave(current_param_version', FALSE)
    /\ UNCHANGED <<config, previous_saved_paths, fed, left, rollout_steps, feeding,
                   disk, crashes>>

(* The queue has ended: samples short of a batch are given up.  A version  *)
(* that is not complete or not validated asks for a last synchronisation,  *)
(* and that call raises.                                                   *)
FinishFit ==
    /\ stage = "train"
    /\ ~feeding /\ Cardinality(flight) < RequiredSamples
    /\ IF local_trigger_step > 1 \/ current_param_version % TestFreq # 0
         THEN stage' = "failed" /\ UNCHANGED <<saveVars, global_steps>>
         ELSE BeginSave(current_param_version, TRUE)
    /\ UNCHANGED <<config, weights, stepVars, previous_saved_paths, feedVars,
                   disk, crashes>>

-----------------------------------------------------------------------------
(* Saving                                                                  *)

Role    == Roles[saving]
Keep    == max_ckpt_to_keep
Last(n, paths)    == SubSeq(paths, Len(paths) - n + 1, Len(paths))
Dropped(n, paths) == Range(SubSeq(paths, 1, Len(paths) - n))

(* The retention keeps the last n of the paths and removes the others.     *)
Retain(n, paths) ==
    /\ previous_saved_paths' = [previous_saved_paths EXCEPT ![Role] = Last(n, paths)]
    /\ shard' = [shard EXCEPT ![Role] =
                    [v \in Versions |-> IF v \in Dropped(n, paths)
                                          THEN [r \in Ranks |-> Missing] ELSE @[v]]]

(* Mutants of RoomFor: all but one of the allowed are kept before a save   *)
(* plus one, or none of them.                                              *)
RoomForOneMore(paths) == IF Keep > 1 /\ Len(paths) >= Keep THEN Keep ELSE Len(paths)
RoomForNone(paths)    == IF Keep > 1 /\ Len(paths) >= Keep THEN 0 ELSE Len(paths)

(* How many checkpoints stay when a new one is about to be written.        *)
RoomFor(paths) == IF Keep > 1 /\ Len(paths) >= Keep THEN Keep - 1 ELSE Len(paths)

EnsureCapacity ==
    /\ stage = "room"
    /\ LET paths == previous_saved_paths[Role] IN Retain(RoomFor(paths), paths)
    /\ writing' = Idle
    /\ stage' = "shards"
    /\ UNCHANGED <<config, saving, final, weights, stepVars, global_steps, feedVars,
                   data, tracker, crashes>>

(* The ranks write on their own.                                           *)
OpenShard(r) ==
    /\ stage = "shards" /\ writing[r] = "idle"
    /\ writing' = [writing EXCEPT ![r] = "open"]
    /\ shard' = [shard EXCEPT ![Role][current_param_version][r] = Torn]
    /\ UNCHANGED <<config, stage, saving, final, weights, stepVars, global_steps,
                   previous_saved_paths, feedVars, data, tracker, crashes>>

CloseShard(r) ==
    /\ stage = "shards" /\ writing[r] = "open"
    /\ writing' = [writing EXCEPT ![r] = "done"]
    /\ shard' = [shard EXCEPT ![Role][current_param_version][r] = Whole(weights[Role][r])]
    /\ UNCHANGED <<config, stage, saving, final, weights, stepVars, global_steps,
                   previous_saved_paths, feedVars, data, tracker, crashes>>

(* Mutant of Barrier: the first rank to finish goes on.                    *)
NoBarrier == \E r \in Ranks : writing[r] = "done"
Barrier == \A r \in Ranks : writing[r] = "done"

RegisterCheckpoint ==
    /\ stage = "shards" /\ Barrier
    /\ LET paths == Append(previous_saved_paths[Role], current_param_version)
       IN  Retain(IF Keep > 0 /\ Len(paths) > Keep THEN Keep ELSE Len(paths), paths)
    /\ IF saving < Len(Roles) THEN saving' = saving + 1 /\ stage' = "room"
                              ELSE saving' = saving     /\ stage' = "data"
    /\ UNCHANGED <<config, writing, final, weights, stepVars, global_steps, feedVars,
                   data, tracker, crashes>>

(* The rollouter's part: the position of the dataloader, not the samples   *)
(* on their way.                                                           *)
OpenData ==
    /\ stage = "data"
    /\ data' = [data EXCEPT ![current_param_version] = TornFile]
    /\ stage' = "data_open"
    /\ UNCHANGED <<config, saveVars, weights, stepVars, global_steps,
                   previous_saved_paths, feedVars, shard, tracker, crashes>>

CloseData ==
    /\ stage = "data_open"
    /\ data' = [data EXCEPT ![current_param_version] = fed]
    /\ stage' = "track"
    /\ UNCHANGED <<config, saveVars, weights, stepVars, global_steps,
                   previous_saved_paths, feedVars, shard, tracker, crashes>>

(* open(..., "w") empties the tracker, closing it writes the number.       *)
OpenTracker ==
    /\ stage = "track"
    /\ tracker' = TornFile
    /\ stage' = "track_open"
    /\ UNCHANGED <<config, saveVars, weights, stepVars, global_steps,
                   previous_saved_paths, feedVars, shard, data, crashes>>

CloseTracker ==
    /\ stage = "track_open"
    /\ tracker' = current_param_version
    /\ AfterSave(final)
    /\ UNCHANGED <<config, saveVars, weights, stepVars, previous_saved_paths,
                   feedVars, shard, data, crashes>>

-----------------------------------------------------------------------------
(* Crash and resume                                                        *)

Folder(v) == data[v] # NoFile \/ \E role \in RoleSet, r \in Ranks :
                                     shard[role][v][r] # Missing
Loadable(v) ==
    /\ data[v] # TornFile
    /\ \A role \in RoleSet, r \in Ranks : shard[role][v][r].state = "whole"

(* Mutants of ResumePosition and ResumeSteps: the data goes on after the   *)
(* samples of the trained versions; the count after the samples fed, so    *)
(* that those in flight are not made up for.                               *)
ResumeTrained(v) == v * trigger_parameter_sync_step * RequiredSamples
ResumePosition(v) == IF data[v] = NoFile THEN 0 ELSE data[v]

ResumeStepsFed(v) == ResumePosition(v) + 1
ResumeSteps(v) == v * RequiredSamples * trigger_parameter_sync_step + 1

(* No tracker or no folder: the run starts from scratch.                   *)
LoadNothing ==
    /\ stage = "load"
    /\ tracker = NoFile \/ (tracker \in Versions /\ ~Folder(tracker))
    /\ stage' = "train"
    /\ UNCHANGED <<config, saveVars, weights, stepVars, global_steps,
                   previous_saved_paths, feedVars, disk, crashes>>

(* An empty tracker is no number, a missing or torn shard cannot be read:  *)
(* the run does not start, whoever starts it.                              *)
LoadFails ==
    /\ stage = "load"
    /\ tracker = TornFile \/ (tracker \in Versions /\ Folder(tracker) /\ ~Loadable(tracker))
    /\ stage' = "broken"
    /\ UNCHANGED <<config, saveVars, weights, stepVars, global_steps,
                   previous_saved_paths, feedVars, disk, crashes>>

(* The iterator goes on to the end of the epoch it was saved in -- saved   *)
(* right there, with nothing or with a new epoch -- and then the epochs    *)
(* are counted from the first again.                                       *)
LoadCheckpoint ==
    /\ stage = "load"
    /\ tracker \in Versions /\ Folder(tracker) /\ Loadable(tracker)
    /\ stage' = "train"
    /\ current_param_version' = tracker
    /\ global_steps' = tracker * trigger_parameter_sync_step + 1
    /\ weights' = [role \in RoleSet |-> [r \in Ranks |-> shard[role][tracker][r].model]]
    /\ fed' = ResumePosition(tracker)
    /\ \E rest \in 0..DatasetSize :
          /\ (fed' + rest) % DatasetSize = 0 /\ fed' + rest > 0
          /\ left' = rest + (TotalEpochs - 1) * DatasetSize
    /\ rollout_steps' = ResumeSteps(tracker)
    /\ UNCHANGED <<config, saveVars, local_trigger_step, previous_saved_paths,
                   feeding, flight, disk, crashes>>

(* The job is lost with all its processes, and started again.              *)
Crash ==
    /\ ~Stopped /\ crashes < MaxCrashes
    /\ crashes' = crashes + 1
    /\ stage' = "load"
    /\ saving' = 1 /\ writing' = Idle /\ final' = FALSE
    /\ weights' = NoModel
    /\ current_param_version' = 0 /\ local_trigger_step' = 1 /\ global_steps' = 1
    /\ previous_saved_paths' = NoPaths
    /\ fed' = 0 /\ left' = AllData
    /\ rollout_steps' = 1 /\ feeding' = TRUE /\ flight' = {}
    /\ UNCHANGED <<config, disk>>

Halted == Stopped /\ UNCHANGED vars

Next ==
    \/ FeedSample \/ FeedEnd \/ FitStep \/ FinishFit
    \/ EnsureCapacity
    \/ \E r \in Ranks : OpenShard(r) \/ CloseShard(r)
    \/ RegisterCheckpoint
    \/ OpenData \/ CloseData \/ OpenTracker \/ CloseTracker
    \/ LoadNothing \/ LoadFails \/ LoadCheckpoint
    \/ Crash \/ Halted

Spec == Init /\ [][Next]_vars

-----------------------------------------------------------------------------
(* What the checkpoints keep.  A run is in step when every update makes a  *)
(* version: no folder is written twice before the run is over.             *)
InStep == trigger_parameter_sync_step = 1

Restorable(v) == Loadable(v) /\ data[v] # NoFile

(* The models in memory, resumed from whichever ranks' and roles' files,   *)
(* are of one and the same update.                                         *)
ResumesWhole ==
    InStep => \A role1, role2 \in RoleSet, r1, r2 \in Ranks :
                  weights[role1][r1] = weights[role2][r2]

(* With one checkpoint to keep, the registration of a new one removes the  *)
(* one that the tracker names, before the other roles, the data and the    *)
(* tracker follow.                                                         *)
Overtaken ==
    Keep = 1 /\ \E role \in RoleSet : \E v \in Range(previous_saved_paths[role]) : v > tracker

(* From the first save on, a crash at any point of the training loop finds *)
(* everything the tracker's version needs, if the tracker is not just then *)
(* being written -- and, where one checkpoint is kept, not yet from the    *)
(* first registration of the next one on.                                  *)
CrashKeepsOne ==
    InStep /\ ~final /\ stage \notin {"load", "broken"} /\ tracker \in Versions
        => Restorable(tracker) \/ Overtaken

(* A life of the job leaves no more checkpoints than it may keep, or two   *)
(* when it may keep one.                                                   *)
OnDisk(role) == {v \in Versions : \E r \in Ranks : shard[role][v][r] # Missing}
RetentionBound ==
    Keep > 0 => \A role \in RoleSet :
                   Cardinality(OnDisk(role)) <= (crashes + 1) * (IF Keep = 1 THEN 2 ELSE Keep)

(* A sample the models were trained on is never fed again.                 *)
NoRepeat ==
    InStep => \A role \in RoleSet, r \in Ranks :
                 /\ weights[role][r] \cap flight = {}
                 /\ \A s \in weights[role][r] : s <= fed

(* Whatever was lost on the way, a run that gets to its end made the       *)
(* updates it was asked for; resumed when it had made them all, one more   *)
(* at the most.  It falls short only when the data is used up, and then by *)
(* no more than an unfinished batch and what each crash lost on its way.   *)
TrainsTotal ==
    stage \in {"ended", "failed"} /\ InStep => \A role \in RoleSet, r \in Ranks :
        LET trained == Cardinality(weights[role][r]) IN
        /\ trained <= Steps * RequiredSamples + crashes
        /\ \/ trained >= Steps * RequiredSamples
           \/ left = 0 /\ trained + RequiredSamples + crashes * Lead > AllData

(* The step counter tells the updates.                                     *)
CountsUpdates ==
    stage = "train" /\ InStep => \A role \in RoleSet, r \in Ranks :
                   Cardinality(weights[role][r]) = (global_steps - 1) * RequiredSamples
-----------------------------------------------------------------------------
(* What the comments say and the code does not keep                        *)

(* "Register a successfully saved checkpoint [...] and removes excess old  *)
(* checkpoints" (checkpoint_manager.py:161): between two saves, what the   *)
(* tracker names, the last successfully saved, can be loaded.              *)
SavedStays == stage = "train" /\ tracker \in Versions => Restorable(tracker)

(* "With max_ckpt_to_keep=1, this does nothing - we keep the existing      *)
(* checkpoint until the new save completes successfully"                   *)
(* (checkpoint_manager.py:148): a job that is started again finds the      *)
(* existing one whole if its tracker still names it.                       *)
KeptUntilSaved ==
    Keep = 1 /\ stage = "load" /\ tracker \in Versions => Restorable(tracker)
=============================================================================
