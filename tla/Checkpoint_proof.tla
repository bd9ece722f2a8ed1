-------------------------- MODULE Checkpoint_proof --------------------------
(***************************************************************************)
(* Proofs about saving and resuming, for every number of ranks, with and   *)
(* without a critic, for every length of the run and every crash.          *)
(***************************************************************************)
EXTENDS Checkpoint, FiniteSetTheorems, SequenceTheorems, TLAPS

Stages  == {"load", "train", "room", "shards", "data", "data_open",
            "track", "track_open", "broken", "failed", "ended"}
Lost    == {"load", "broken"}       (* nothing is in memory                 *)
Shards  == [state : {"missing", "torn", "whole"}, model : SUBSET Nat]

TypeInv ==
    /\ trigger_parameter_sync_step \in Nat \ {0}
    /\ max_ckpt_to_keep \in Nat
    /\ stage \in Stages
    /\ saving \in 1..Len(Roles)
    /\ writing \in [Ranks -> {"idle", "open", "done"}]
    /\ weights \in [RoleSet -> [Ranks -> SUBSET Nat]]
    /\ current_param_version \in Nat
    /\ local_trigger_step \in Nat \ {0}
    /\ fed \in Nat /\ left \in Nat
    /\ flight \in SUBSET Nat
    /\ shard \in [RoleSet -> [Versions -> [Ranks -> Shards]]]
    /\ data \in [Versions -> Nat \cup {NoFile, TornFile}]
    /\ tracker \in Nat \cup {NoFile, TornFile}

WholeAt(role, v, r) == shard[role][v][r].state = "whole"
ModelAt(role, v, r) == shard[role][v][r].model
Tracked == tracker \in Versions

(* The shards the save in progress has written.                            *)
Written(role, r) ==
    \/ stage \in {"data", "data_open", "track", "track_open"}
    \/ stage \in {"room", "shards"} /\ \E i \in 1..Len(Roles) : i < saving /\ role = Roles[i]
    \/ stage = "shards" /\ role = Role /\ writing[r] = "done"

SameModel == \A role1, role2 \in RoleSet, r1, r2 \in Ranks :
                weights[role1][r1] = weights[role2][r2]

(* What is lost, and what the tracker may name.                            *)
MemoryInv ==
    /\ stage = "load" => weights = NoModel /\ flight = {}
    /\ Tracked => data[tracker] # NoFile
    /\ Tracked /\ stage \notin Lost => tracker <= current_param_version
    /\ stage \in {"track", "track_open"} /\ current_param_version \in Versions
          => data[current_param_version] # NoFile

(* The whole files of a version that is tracked, was tracked and is being  *)
(* written again, or is about to be tracked hold one model: when it is the *)
(* present version, the one in memory.                                     *)
TrackedAgree ==
    Tracked => \A role1, role2 \in RoleSet, r1, r2 \in Ranks :
        WholeAt(role1, tracker, r1) /\ WholeAt(role2, tracker, r2)
            => ModelAt(role1, tracker, r1) = ModelAt(role2, tracker, r2)
TrackedCurrent ==
    Tracked /\ stage \notin Lost /\ tracker = current_param_version =>
        \A role \in RoleSet, r \in Ranks :
            WholeAt(role, tracker, r) => ModelAt(role, tracker, r) = weights[role][r]
WrittenCurrent ==
    stage \notin Lost /\ current_param_version \in Versions =>
        \A role \in RoleSet, r \in Ranks :
            Written(role, r) /\ WholeAt(role, current_param_version, r)
                => ModelAt(role, current_param_version, r) = weights[role][r]

(* Samples: the model in memory knows none that is still to come, that of  *)
(* the tracked version none past the position saved with it.               *)
SampleInv ==
    /\ \A s \in flight : s <= fed
    /\ \A role \in RoleSet, r \in Ranks :
          weights[role][r] \cap flight = {} /\ \A s \in weights[role][r] : s <= fed
PositionInv ==
    /\ Tracked /\ data[tracker] \in Nat =>
          \A role \in RoleSet, r \in Ranks : WholeAt(role, tracker, r) =>
              \A s \in ModelAt(role, tracker, r) : s <= data[tracker]
    /\ stage \notin Lost /\ current_param_version \in Versions
       /\ (stage \in {"track", "track_open"} \/ tracker = current_param_version)
       /\ data[current_param_version] \in Nat =>
          \A role \in RoleSet, r \in Ranks :
              \A s \in weights[role][r] : s <= data[current_param_version]

(* Counts: a version of the models is known by the number of its samples.  *)
Sized(model, v) == IsFiniteSet(model) /\ Cardinality(model) = v * RequiredSamples
StepInv ==
    /\ IsFiniteSet(flight) /\ global_steps \in Nat /\ final \in BOOLEAN
    /\ stage = "load" => current_param_version = 0 /\ global_steps = 1
    /\ stage = "train" => global_steps = current_param_version + 1
    /\ stage \in {"room", "shards", "data", "data_open", "track", "track_open"} /\ ~final
          => global_steps = current_param_version
SizeInv ==
    /\ \A role \in RoleSet, r \in Ranks : Sized(weights[role][r], current_param_version)
    /\ \A role \in RoleSet, v \in Versions, r \in Ranks :
          WholeAt(role, v, r) => Sized(ModelAt(role, v, r), v)

(* The inductive invariant, of a run in step.                              *)
Inv == TypeInv /\ (InStep => /\ SameModel /\ MemoryInv
                             /\ TrackedAgree /\ TrackedCurrent /\ WrittenCurrent
                             /\ SampleInv /\ PositionInv /\ StepInv /\ SizeInv)

-----------------------------------------------------------------------------
(* Types                                                                   *)

LEMMA RolesFacts ==
    /\ Len(Roles) \in Nat \ {0}
    /\ \A i \in 1..Len(Roles) : Roles[i] \in RoleSet
    /\ \A role \in RoleSet : \E i \in 1..Len(Roles) : role = Roles[i]
    /\ \A i, j \in 1..Len(Roles) : Roles[i] = Roles[j] => i = j
<1>1. CASE UseCritic
  <2>1. Roles = <<"actor", "critic">>
    BY <1>1 DEF Roles
  <2>2. Len(Roles) = 2 /\ Roles[1] = "actor" /\ Roles[2] = "critic" /\ DOMAIN Roles = 1..2
    BY <2>1
  <2>3. 1..2 = {1, 2}
    OBVIOUS
  <2> QED BY <2>2, <2>3 DEF RoleSet, Range
<1>2. CASE ~UseCritic
  <2>1. Roles = <<"actor">>
    BY <1>2 DEF Roles
  <2>2. Len(Roles) = 1 /\ Roles[1] = "actor" /\ DOMAIN Roles = 1..1
    BY <2>1
  <2>3. 1..1 = {1}
    OBVIOUS
  <2> QED BY <2>2, <2>3 DEF RoleSet, Range
<1> QED BY <1>1, <1>2

LEMMA VersionsAreNat == Versions \subseteq Nat
<1>1. Steps \in Nat
  BY CheckpointAssumption DEF Steps
<1> QED BY <1>1, CheckpointAssumption DEF Versions

LEMMA DataSize ==
    AllData \in Nat /\ DatasetSize \in Nat \ {0} /\ TotalEpochs \in Nat \ {0}
    /\ (TotalEpochs - 1) * DatasetSize \in Nat
    /\ AllData = DatasetSize + (TotalEpochs - 1) * DatasetSize
<1> DEFINE d == DatasetSize
           e == TotalEpochs - 1
<1>1. d \in Nat \ {0} /\ e \in Nat /\ TotalEpochs = e + 1
  BY CheckpointAssumption
<1> HIDE DEF d, e
<1>2. e * d \in Nat /\ d * (e + 1) = d + e * d
  BY <1>1
<1>3. AllData = d * (e + 1)
  BY <1>1 DEF AllData, d
<1> QED BY <1>1, <1>2, <1>3 DEF d, e

LEMMA TypeInit == Init => TypeInv
<1> SUFFICES ASSUME Init PROVE TypeInv
  OBVIOUS
<1>1. Missing \in Shards
  BY DEF Missing, Shards
<1>2. shard \in [RoleSet -> [Versions -> [Ranks -> Shards]]]
  BY <1>1 DEF Init
<1>3. saving \in 1..Len(Roles) /\ writing \in [Ranks -> {"idle", "open", "done"}]
  BY RolesFacts DEF Init, Idle
<1>4. weights \in [RoleSet -> [Ranks -> SUBSET Nat]]
  BY DEF Init, NoModel
<1> QED BY <1>2, <1>3, <1>4, CheckpointAssumption, DataSize DEF Init, TypeInv, Stages

(* The whole shards of a step are those before it, unless one is closed.   *)
Fewer == \A role \in RoleSet, v \in Versions, r \in Ranks :
            shard'[role][v][r] = shard[role][v][r] \/ shard'[role][v][r].state # "whole"

LEMMA RetainFewer ==
    ASSUME TypeInv, NEW n, NEW paths, Retain(n, paths)
    PROVE  shard' \in [RoleSet -> [Versions -> [Ranks -> Shards]]] /\ Fewer
<1> DEFINE kept == [v \in Versions |-> IF v \in Dropped(n, paths)
                                         THEN [r \in Ranks |-> Missing] ELSE shard[Role][v]]
<1>1. shard' = [shard EXCEPT ![Role] = kept]
  BY DEF Retain
<1>2. Missing \in Shards /\ Missing.state # "whole"
  BY DEF Missing, Shards
<1>3. Role \in RoleSet
  BY RolesFacts DEF TypeInv, Role
<1>4. kept \in [Versions -> [Ranks -> Shards]]
  BY <1>2, <1>3 DEF TypeInv
<1>5. \A v \in Versions, r \in Ranks : kept[v][r] = shard[Role][v][r] \/ kept[v][r] = Missing
  OBVIOUS
<1> HIDE DEF kept
<1> QED BY <1>1, <1>2, <1>3, <1>4, <1>5 DEF TypeInv, Fewer

(* One rank's file of the version being saved is written.                  *)
Wrote(rank, w) == shard' = [shard EXCEPT ![Role][current_param_version][rank] = w]

LEMMA OneFile ==
    ASSUME TypeInv, NEW rank \in Ranks, NEW w \in Shards, Wrote(rank, w)
    PROVE  /\ shard' \in [RoleSet -> [Versions -> [Ranks -> Shards]]]
           /\ \A role \in RoleSet, v \in Versions, r \in Ranks :
                 shard'[role][v][r] = IF role = Role /\ v = current_param_version /\ r = rank
                                        THEN w ELSE shard[role][v][r]
<1> DEFINE V == current_param_version
           k == [shard[Role][V] EXCEPT ![rank] = w]
           h == [shard[Role] EXCEPT ![V] = k]
<1>0. Role \in RoleSet /\ shard \in [RoleSet -> [Versions -> [Ranks -> Shards]]]
  BY RolesFacts DEF TypeInv, Role
<1>1. V \in Versions => /\ k \in [Ranks -> Shards]
                        /\ \A r \in Ranks : k[r] = IF r = rank THEN w ELSE shard[Role][V][r]
  BY <1>0
<1>2. shard' = [shard EXCEPT ![Role] = h]
  BY DEF Wrote
<1> HIDE DEF k
<1>3. h \in [Versions -> [Ranks -> Shards]]
      /\ \A v \in Versions : h[v] = IF v = V THEN k ELSE shard[Role][v]
  BY <1>0, <1>1
<1> HIDE DEF h
<1>4. shard' \in [RoleSet -> [Versions -> [Ranks -> Shards]]]
      /\ \A role \in RoleSet : shard'[role] = IF role = Role THEN h ELSE shard[role]
  BY <1>0, <1>2, <1>3
<1> HIDE DEF V
<1>5. \A role \in RoleSet, v \in Versions, r \in Ranks :
         shard'[role][v][r] = IF role = Role /\ v = V /\ r = rank THEN w ELSE shard[role][v][r]
  BY <1>1, <1>3, <1>4
<1> QED BY <1>4, <1>5 DEF V

LEMMA OpenFewer ==
    ASSUME TypeInv, NEW rank \in Ranks, OpenShard(rank)
    PROVE  shard' \in [RoleSet -> [Versions -> [Ranks -> Shards]]] /\ Fewer
<1>1. Torn \in Shards /\ Torn.state # "whole"
  BY DEF Torn, Shards
<1>2. Wrote(rank, Torn)
  BY DEF OpenShard, Wrote
<1>3. /\ shard' \in [RoleSet -> [Versions -> [Ranks -> Shards]]]
      /\ \A role \in RoleSet, v \in Versions, r \in Ranks :
            shard'[role][v][r] = IF role = Role /\ v = current_param_version /\ r = rank
                                   THEN Torn ELSE shard[role][v][r]
  BY <1>1, <1>2, OneFile
<1> QED BY <1>1, <1>3 DEF Fewer

LEMMA CloseOne ==
    ASSUME TypeInv, NEW rank \in Ranks, CloseShard(rank)
    PROVE  /\ shard' \in [RoleSet -> [Versions -> [Ranks -> Shards]]]
           /\ \A role \in RoleSet, v \in Versions, r \in Ranks :
                 IF role = Role /\ v = current_param_version /\ r = rank
                   THEN shard'[role][v][r].model = weights[role][r]
                   ELSE shard'[role][v][r] = shard[role][v][r]
<1> DEFINE w == Whole(weights[Role][rank])
<1>1. w \in Shards /\ w.model = weights[Role][rank]
  BY RolesFacts DEF Role, Whole, Shards, TypeInv
<1>2. Wrote(rank, w)
  BY DEF CloseShard, Wrote
<1> HIDE DEF w
<1>3. /\ shard' \in [RoleSet -> [Versions -> [Ranks -> Shards]]]
      /\ \A role \in RoleSet, v \in Versions, r \in Ranks :
            shard'[role][v][r] = IF role = Role /\ v = current_param_version /\ r = rank
                                   THEN w ELSE shard[role][v][r]
  BY <1>1, <1>2, OneFile
<1> QED BY <1>1, <1>3

LEMMA TypeStep == TypeInv /\ [Next]_vars => TypeInv'
<1> SUFFICES ASSUME TypeInv, [Next]_vars PROVE TypeInv'
  OBVIOUS
<1>0. CASE UNCHANGED vars \/ Halted
  BY <1>0 DEF vars, config, saveVars, stepVars, feedVars, disk, Halted, TypeInv
<1>1. CASE FeedSample
  <2>1. fed' \in Nat /\ left' \in Nat /\ flight' \in SUBSET Nat
    BY <1>1 DEF FeedSample, TypeInv
  <2> QED BY <1>1, <2>1 DEF FeedSample, TypeInv, config, saveVars, stepVars, disk
<1>12. CASE FeedEnd
  BY <1>12 DEF FeedEnd, TypeInv, config, saveVars, stepVars, disk
<1>2. CASE FitStep
  <2>1. /\ flight' \in SUBSET Nat /\ weights' \in [RoleSet -> [Ranks -> SUBSET Nat]]
    <3>1. PICK batch \in SUBSET flight : /\ flight' = flight \ batch
                                         /\ weights' = [role \in RoleSet |->
                                              [r \in Ranks |-> weights[role][r] \cup batch]]
      BY <1>2 DEF FitStep, kSubset
    <3> QED BY <3>1 DEF TypeInv
  <2>2. current_param_version' \in Nat /\ local_trigger_step' \in Nat \ {0}
    BY <1>2 DEF FitStep, TypeInv
  <2>3. stage' \in Stages /\ saving' \in 1..Len(Roles)
        /\ UNCHANGED <<trigger_parameter_sync_step, max_ckpt_to_keep, writing, fed, left, shard,
                       data, tracker>>
    BY <1>2, RolesFacts DEF FitStep, BeginSave, AfterSave, Stages, config, disk
  <2> QED BY <2>1, <2>2, <2>3 DEF TypeInv
<1>3. CASE FinishFit
  <2>1. stage' \in Stages /\ saving' \in 1..Len(Roles) /\ writing' = writing
    BY <1>3, RolesFacts DEF FinishFit, BeginSave, AfterSave, Stages, saveVars, TypeInv
  <2> QED BY <1>3, <2>1 DEF FinishFit, TypeInv, config, stepVars, feedVars, disk
<1>4. CASE EnsureCapacity
  <2>1. shard' \in [RoleSet -> [Versions -> [Ranks -> Shards]]]
    BY <1>4, RetainFewer DEF EnsureCapacity
  <2> QED BY <1>4, <2>1 DEF EnsureCapacity, TypeInv, Idle, Stages, config, stepVars, feedVars
<1>5. ASSUME NEW r \in Ranks, OpenShard(r) \/ CloseShard(r) PROVE TypeInv'
  <2>1. shard' \in [RoleSet -> [Versions -> [Ranks -> Shards]]]
    BY <1>5, OpenFewer, CloseOne
  <2> QED BY <1>5, <2>1 DEF OpenShard, CloseShard, TypeInv, config, stepVars, feedVars
<1>6. CASE RegisterCheckpoint
  <2>1. shard' \in [RoleSet -> [Versions -> [Ranks -> Shards]]]
    BY <1>6, RetainFewer DEF RegisterCheckpoint
  <2>2. stage' \in Stages /\ saving' \in 1..Len(Roles)
    BY <1>6, RolesFacts DEF RegisterCheckpoint, TypeInv, Stages
  <2> QED BY <1>6, <2>1, <2>2 DEF RegisterCheckpoint, TypeInv, config, stepVars, feedVars
<1>7. CASE OpenData \/ CloseData
  BY <1>7 DEF OpenData, CloseData, TypeInv, Stages, config, saveVars, stepVars, feedVars
<1>8. CASE OpenTracker \/ CloseTracker
  BY <1>8 DEF OpenTracker, CloseTracker, AfterSave, TypeInv, Stages, config, saveVars,
              stepVars, feedVars
<1>9. CASE LoadNothing \/ LoadFails
  BY <1>9 DEF LoadNothing, LoadFails, TypeInv, Stages, config, saveVars, stepVars, feedVars, disk
<1>10. CASE LoadCheckpoint
  <2>1. tracker \in Versions /\ tracker \in Nat
    BY <1>10, VersionsAreNat DEF LoadCheckpoint
  <2>2. fed' \in Nat
    BY <1>10, <2>1 DEF LoadCheckpoint, ResumePosition, Loadable, TypeInv
  <2>3. \A role \in RoleSet, r \in Ranks : shard[role][tracker][r].model \in SUBSET Nat
    BY <2>1 DEF TypeInv, Shards
  <2>4. weights' \in [RoleSet -> [Ranks -> SUBSET Nat]]
    BY <1>10, <2>3 DEF LoadCheckpoint
  <2>5. left' \in Nat
    <3>1. PICK rest \in 0..DatasetSize : left' = rest + (TotalEpochs - 1) * DatasetSize
      BY <1>10 DEF LoadCheckpoint
    <3> QED BY <3>1, DataSize
  <2> QED BY <1>10, <2>1, <2>2, <2>4, <2>5 DEF LoadCheckpoint, TypeInv, Stages, config, saveVars, disk
<1>11. CASE Crash
  BY <1>11, RolesFacts, DataSize DEF Crash, TypeInv, Stages, Idle, NoModel, config, disk
<1> QED BY <1>0, <1>1, <1>2, <1>3, <1>4, <1>5, <1>6, <1>7, <1>8, <1>9, <1>10, <1>11, <1>12
    DEF Next

-----------------------------------------------------------------------------
(* What the steps leave alone.                                             *)

LEMMA FewerElsewhere ==
    ASSUME TypeInv, [Next]_vars, \A r \in Ranks : ~CloseShard(r)
    PROVE  Fewer
<1>1. CASE EnsureCapacity
  BY <1>1, RetainFewer DEF EnsureCapacity
<1>2. CASE RegisterCheckpoint
  BY <1>2, RetainFewer DEF RegisterCheckpoint
<1>3. CASE \E r \in Ranks : OpenShard(r)
  BY <1>3, OpenFewer
<1>4. CASE shard' = shard
  BY <1>4 DEF Fewer
<1> QED BY <1>1, <1>2, <1>3, <1>4
        DEF Next, vars, disk, FeedSample, FeedEnd, FitStep, FinishFit, OpenData, CloseData, OpenTracker,
            CloseTracker, LoadNothing, LoadFails, LoadCheckpoint, Crash, Halted

(* Steps in which memory, versions and the tracker stay.                   *)
Kept == UNCHANGED <<weights, current_param_version, data, tracker>>

LEMMA SavingKeeps ==
    ASSUME EnsureCapacity \/ RegisterCheckpoint
           \/ \E r \in Ranks : OpenShard(r) \/ CloseShard(r)
    PROVE  Kept /\ UNCHANGED feedVars
           /\ stage \in {"room", "shards"} /\ stage' \in {"room", "shards", "data"}
BY DEF EnsureCapacity, RegisterCheckpoint, OpenShard, CloseShard, Kept, stepVars

LEMMA OthersKeep ==
    ASSUME FeedSample \/ FeedEnd \/ FinishFit \/ Halted \/ UNCHANGED vars
    PROVE  /\ Kept /\ shard' = shard
           /\ stage \notin Lost \/ stage' = stage
           /\ (stage' = stage /\ UNCHANGED saveVars) \/ stage' \in {"train", "room", "failed", "ended"}
           /\ stage' # "load" \/ UNCHANGED flight
<1>1. CASE FeedSample \/ FeedEnd
  BY <1>1 DEF FeedSample, FeedEnd, Kept, stepVars, disk, Stopped, Lost
<1>2. CASE FinishFit
  BY <1>2 DEF FinishFit, BeginSave, AfterSave, Kept, stepVars, disk, Lost
<1>3. CASE Halted \/ UNCHANGED vars
  BY <1>3 DEF Halted, vars, feedVars, Kept, stepVars, disk, Lost
<1> QED BY <1>1, <1>2, <1>3

(* What an update does, when each makes a version.                         *)
LEMMA Update ==
    ASSUME TypeInv, InStep, FitStep
    PROVE  /\ current_param_version' = current_param_version + 1
           /\ UNCHANGED <<shard, data, tracker, fed>> /\ stage = "train"
           /\ stage' \in {"train", "room"} /\ saving' = 1
           /\ \E batch \in SUBSET flight :
                 /\ flight' = flight \ batch
                 /\ weights' = [role \in RoleSet |-> [r \in Ranks |-> weights[role][r] \cup batch]]
<1>1. SyncDue
  BY DEF SyncDue, InStep, TypeInv
<1>2. /\ current_param_version' = current_param_version + 1
      /\ UNCHANGED <<shard, data, tracker, fed>> /\ stage = "train"
      /\ BeginSave(current_param_version', FALSE)
  BY <1>1 DEF FitStep, disk
<1>3. \E batch \in SUBSET flight :
         /\ flight' = flight \ batch
         /\ weights' = [role \in RoleSet |-> [r \in Ranks |-> weights[role][r] \cup batch]]
  BY DEF FitStep, kSubset
<1>4. stage' \in {"train", "room"} /\ saving' = 1
  BY <1>2 DEF BeginSave, AfterSave
<1> QED BY <1>2, <1>3, <1>4

(* Which step it is.                                                       *)
LEMMA Cases ==
    ASSUME [Next]_vars
    PROVE  \/ FeedSample \/ FeedEnd \/ FinishFit \/ Halted \/ UNCHANGED vars
           \/ FitStep
           \/ EnsureCapacity \/ RegisterCheckpoint \/ (\E r \in Ranks : OpenShard(r))
           \/ \E r \in Ranks : CloseShard(r)
           \/ OpenData \/ CloseData \/ OpenTracker \/ CloseTracker
           \/ LoadNothing \/ LoadFails \/ LoadCheckpoint \/ Crash
BY DEF Next

-----------------------------------------------------------------------------
(* Memory                                                                  *)

LEMMA SameStep ==
    ASSUME TypeInv, InStep, SameModel, TrackedAgree, [Next]_vars
    PROVE  SameModel'
<1>1. CASE FitStep
  <2>1. PICK batch : weights' = [role \in RoleSet |-> [r \in Ranks |-> weights[role][r] \cup batch]]
    BY <1>1, Update
  <2> QED BY <2>1 DEF SameModel
<1>2. CASE LoadCheckpoint
  <2>1. /\ weights' = [role \in RoleSet |-> [r \in Ranks |-> shard[role][tracker][r].model]]
        /\ Tracked /\ Loadable(tracker)
    BY <1>2 DEF LoadCheckpoint, Tracked
  <2> QED BY <2>1 DEF SameModel, TrackedAgree, WholeAt, ModelAt, Loadable
<1>3. CASE Crash
  BY <1>3 DEF Crash, SameModel, NoModel
<1>4. CASE weights' = weights
  BY <1>4 DEF SameModel
<1>5. FeedSample \/ FeedEnd \/ FinishFit \/ Halted \/ UNCHANGED vars => weights' = weights
  BY OthersKeep DEF Kept
<1>6. EnsureCapacity \/ RegisterCheckpoint \/ (\E r \in Ranks : OpenShard(r))
      \/ (\E r \in Ranks : CloseShard(r)) => weights' = weights
  BY SavingKeeps DEF Kept
<1>7. OpenData \/ CloseData \/ OpenTracker \/ CloseTracker \/ LoadNothing \/ LoadFails
         => weights' = weights
  BY DEF OpenData, CloseData, OpenTracker, CloseTracker, LoadNothing, LoadFails
<1> QED BY <1>1, <1>2, <1>3, <1>4, <1>5, <1>6, <1>7, Cases

LEMMA MemoryStep ==
    ASSUME TypeInv, InStep, MemoryInv, [Next]_vars
    PROVE  MemoryInv'
<1>0. Lost = {"load", "broken"} /\ TornFile \notin Versions /\ NoFile \notin Versions
  BY VersionsAreNat DEF Lost, TornFile, NoFile
<1>1. CASE FeedSample \/ FeedEnd \/ FinishFit \/ Halted \/ UNCHANGED vars
  <2>1. /\ Kept
        /\ stage \notin Lost \/ stage' = stage
        /\ stage' = stage \/ stage' \in {"train", "room", "failed", "ended"}
        /\ stage' # "load" \/ UNCHANGED flight
    BY <1>1, OthersKeep
  <2> QED BY <1>0, <2>1 DEF MemoryInv, Kept, Tracked
<1>2. CASE FitStep
  BY <1>0, <1>2, Update DEF MemoryInv, Tracked, TypeInv
<1>3. CASE EnsureCapacity \/ RegisterCheckpoint \/ (\E r \in Ranks : OpenShard(r))
           \/ \E r \in Ranks : CloseShard(r)
  <2>1. /\ Kept /\ stage \in {"room", "shards"} /\ stage' \in {"room", "shards", "data"}
    BY <1>3, SavingKeeps
  <2> QED BY <1>0, <2>1 DEF MemoryInv, Kept, Tracked
<1>4. CASE OpenData
  <2>1. /\ data' = [data EXCEPT ![current_param_version] = TornFile]
        /\ UNCHANGED <<tracker, current_param_version>> /\ stage = "data" /\ stage' = "data_open"
    BY <1>4 DEF OpenData, stepVars
  <2> QED BY <1>0, <2>1 DEF MemoryInv, Tracked, TypeInv, NoFile, TornFile
<1>5. CASE CloseData
  <2>1. /\ data' = [data EXCEPT ![current_param_version] = fed]
        /\ UNCHANGED <<tracker, current_param_version>> /\ stage = "data_open" /\ stage' = "track"
    BY <1>5 DEF CloseData, stepVars
  <2> QED BY <1>0, <2>1 DEF MemoryInv, Tracked, TypeInv, NoFile, TornFile
<1>6. CASE OpenTracker
  <2>1. /\ tracker' = TornFile /\ UNCHANGED <<data, current_param_version>>
        /\ stage = "track" /\ stage' = "track_open"
    BY <1>6 DEF OpenTracker, stepVars
  <2> QED BY <1>0, <2>1 DEF MemoryInv, Tracked
<1>7. CASE CloseTracker
  <2>1. /\ tracker' = current_param_version /\ UNCHANGED <<data, current_param_version>>
        /\ stage = "track_open" /\ stage' \in {"ended", "train"}
    BY <1>7 DEF CloseTracker, AfterSave, stepVars
  <2> QED BY <1>0, <2>1 DEF MemoryInv, Tracked, TypeInv
<1>8. CASE LoadNothing
  <2>1. /\ stage = "load" /\ stage' = "train" /\ UNCHANGED <<data, tracker>>
        /\ tracker = NoFile \/ (Tracked /\ data[tracker] = NoFile)
    BY <1>8 DEF LoadNothing, Folder, Tracked, disk
  <2> QED BY <1>0, <2>1 DEF MemoryInv, Tracked
<1>9. CASE LoadFails
  <2>1. /\ stage' = "broken" /\ UNCHANGED <<data, tracker>>
    BY <1>9 DEF LoadFails, disk
  <2> QED BY <1>0, <2>1 DEF MemoryInv, Tracked
<1>10. CASE LoadCheckpoint
  <2>1. /\ stage' = "train" /\ current_param_version' = tracker /\ UNCHANGED <<data, tracker>>
    BY <1>10 DEF LoadCheckpoint, disk
  <2> QED BY <1>0, <2>1 DEF MemoryInv, Tracked, TypeInv
<1>11. CASE Crash
  <2>1. /\ stage' = "load" /\ weights' = NoModel /\ flight' = {} /\ UNCHANGED <<data, tracker>>
    BY <1>11 DEF Crash, disk
  <2> QED BY <1>0, <2>1 DEF MemoryInv, Tracked
<1> QED BY <1>1, <1>2, <1>3, <1>4, <1>5, <1>6, <1>7, <1>8, <1>9, <1>10, <1>11, Cases

-----------------------------------------------------------------------------
(* Files                                                                   *)

(* A whole file is as it was, whatever was done to the others.             *)
LEMMA WholeKept ==
    ASSUME Fewer, NEW role \in RoleSet, NEW v \in Versions, NEW r \in Ranks, WholeAt(role, v, r)'
    PROVE  WholeAt(role, v, r) /\ ModelAt(role, v, r)' = ModelAt(role, v, r)
BY DEF Fewer, WholeAt, ModelAt

LEMMA AgreeStep ==
    ASSUME TypeInv, InStep, SameModel, MemoryInv, TrackedAgree, TrackedCurrent, WrittenCurrent,
           [Next]_vars
    PROVE  TrackedAgree'
<1>0. TornFile \notin Versions /\ NoFile \notin Versions
  BY VersionsAreNat DEF TornFile, NoFile
<1>1. CASE Fewer /\ tracker' = tracker
  <2> SUFFICES ASSUME Tracked, NEW role1 \in RoleSet, NEW role2 \in RoleSet,
                      NEW r1 \in Ranks, NEW r2 \in Ranks,
                      WholeAt(role1, tracker, r1)', WholeAt(role2, tracker, r2)'
               PROVE  ModelAt(role1, tracker, r1)' = ModelAt(role2, tracker, r2)'
    BY <1>1 DEF TrackedAgree, Tracked
  <2>1. tracker \in Versions
    BY DEF Tracked
  <2>2. /\ shard'[role1][tracker][r1] = shard[role1][tracker][r1]
        /\ shard'[role2][tracker][r2] = shard[role2][tracker][r2]
    BY <1>1, <2>1 DEF Fewer, WholeAt
  <2> QED BY <1>1, <2>2 DEF TrackedAgree, WholeAt, ModelAt
<1>2. CASE tracker' \notin Versions
  BY <1>2 DEF TrackedAgree, Tracked
<1>3. ASSUME NEW rank \in Ranks, CloseShard(rank) PROVE TrackedAgree'
  <2>1. tracker' = tracker /\ UNCHANGED weights /\ stage \notin Lost
    BY <1>3, SavingKeeps DEF Kept, Lost
  <2> SUFFICES ASSUME Tracked, NEW role1 \in RoleSet, NEW role2 \in RoleSet,
                      NEW r1 \in Ranks, NEW r2 \in Ranks,
                      WholeAt(role1, tracker, r1)', WholeAt(role2, tracker, r2)'
               PROVE  ModelAt(role1, tracker, r1)' = ModelAt(role2, tracker, r2)'
    BY <2>1 DEF TrackedAgree, Tracked
  <2>2. tracker \in Versions
    BY DEF Tracked
  <2>3. CASE tracker # current_param_version
    <3>1. /\ shard'[role1][tracker][r1] = shard[role1][tracker][r1]
          /\ shard'[role2][tracker][r2] = shard[role2][tracker][r2]
      BY <1>3, <2>2, <2>3, CloseOne
    <3> QED BY <2>1, <3>1 DEF TrackedAgree, WholeAt, ModelAt
  <2>4. CASE tracker = current_param_version
    <3>1. ASSUME NEW role \in RoleSet, NEW r \in Ranks, WholeAt(role, tracker, r)'
          PROVE  ModelAt(role, tracker, r)' = weights[role][r]
      <4>1. CASE role = Role /\ r = rank
        BY <1>3, <2>1, <2>2, <2>4, <4>1, CloseOne DEF ModelAt
      <4>2. CASE ~(role = Role /\ r = rank)
        <5>1. shard'[role][tracker][r] = shard[role][tracker][r]
          BY <1>3, <2>2, <4>2, CloseOne
        <5> QED BY <2>1, <2>2, <2>4, <3>1, <5>1 DEF TrackedCurrent, Tracked, WholeAt, ModelAt
      <4> QED BY <4>1, <4>2
    <3> QED BY <3>1 DEF SameModel
  <2> QED BY <2>3, <2>4
<1>4. CASE CloseTracker
  <2>1. tracker' = current_param_version /\ shard' = shard /\ stage = "track_open"
    BY <1>4 DEF CloseTracker
  <2>2. current_param_version \in Versions =>
          \A role \in RoleSet, r \in Ranks : WholeAt(role, current_param_version, r)
             => ModelAt(role, current_param_version, r) = weights[role][r]
    BY <2>1 DEF WrittenCurrent, Written, Lost
  <2> QED BY <2>1, <2>2 DEF TrackedAgree, Tracked, SameModel, WholeAt, ModelAt
<1>5. (\A rank \in Ranks : ~CloseShard(rank)) => Fewer
  BY FewerElsewhere
<1>6. tracker' = tracker \/ OpenTracker \/ CloseTracker
  BY DEF Next, vars, disk, FeedSample, FeedEnd, FitStep, FinishFit, EnsureCapacity, RegisterCheckpoint,
         OpenShard, CloseShard, OpenData, CloseData, LoadNothing, LoadFails, LoadCheckpoint,
         Crash, Halted
<1>7. OpenTracker => tracker' \notin Versions
  BY <1>0 DEF OpenTracker
<1> QED BY <1>1, <1>2, <1>3, <1>4, <1>5, <1>6, <1>7

LEMMA CurrentStep ==
    ASSUME TypeInv, InStep, MemoryInv, TrackedAgree, TrackedCurrent, WrittenCurrent, [Next]_vars
    PROVE  TrackedCurrent'
<1>0. TornFile \notin Versions /\ NoFile \notin Versions
  BY VersionsAreNat DEF TornFile, NoFile
<1>1. CASE Fewer /\ UNCHANGED <<tracker, weights, current_param_version>> /\ stage \notin Lost
  <2> SUFFICES ASSUME Tracked, tracker = current_param_version,
                      NEW role \in RoleSet, NEW r \in Ranks, WholeAt(role, tracker, r)'
               PROVE  ModelAt(role, tracker, r)' = weights[role][r]
    BY <1>1 DEF TrackedCurrent, Tracked
  <2>1. shard'[role][tracker][r] = shard[role][tracker][r]
    BY <1>1 DEF Fewer, WholeAt, Tracked
  <2> QED BY <1>1, <2>1 DEF TrackedCurrent, WholeAt, ModelAt
<1>2. CASE tracker' \notin Versions \/ stage' \in Lost \/ tracker' # current_param_version'
  BY <1>2 DEF TrackedCurrent, Tracked
<1>3. ASSUME NEW rank \in Ranks, CloseShard(rank) PROVE TrackedCurrent'
  <2>1. UNCHANGED <<tracker, weights, current_param_version>> /\ stage \notin Lost
    BY <1>3, SavingKeeps DEF Kept, Lost
  <2> SUFFICES ASSUME Tracked, tracker = current_param_version,
                      NEW role \in RoleSet, NEW r \in Ranks, WholeAt(role, tracker, r)'
               PROVE  ModelAt(role, tracker, r)' = weights[role][r]
    BY <2>1 DEF TrackedCurrent, Tracked
  <2>2. tracker \in Versions
    BY DEF Tracked
  <2>3. CASE role = Role /\ r = rank
    BY <1>3, <2>1, <2>2, <2>3, CloseOne DEF ModelAt
  <2>4. CASE ~(role = Role /\ r = rank)
    <3>1. shard'[role][tracker][r] = shard[role][tracker][r]
      BY <1>3, <2>2, <2>4, CloseOne
    <3> QED BY <2>1, <2>2, <3>1 DEF TrackedCurrent, Tracked, WholeAt, ModelAt
  <2> QED BY <2>3, <2>4
<1>4. CASE CloseTracker
  <2>1. /\ tracker' = current_param_version /\ stage = "track_open"
        /\ UNCHANGED <<shard, weights, current_param_version>>
    BY <1>4 DEF CloseTracker, stepVars
  <2> QED BY <2>1 DEF WrittenCurrent, Written, Lost, TrackedCurrent, Tracked, WholeAt, ModelAt
<1>5. CASE LoadCheckpoint
  <2>1. /\ weights' = [role \in RoleSet |-> [r \in Ranks |-> shard[role][tracker][r].model]]
        /\ UNCHANGED <<shard, tracker>>
    BY <1>5 DEF LoadCheckpoint, disk
  <2> QED BY <2>1 DEF TrackedCurrent, ModelAt
<1>6. FitStep => tracker' \notin Versions \/ tracker' # current_param_version'
  BY <1>0, Update, VersionsAreNat DEF MemoryInv, Tracked, TypeInv, Lost
<1>7. LoadNothing => tracker' \notin Versions
  BY <1>0 DEF LoadNothing, disk, MemoryInv, Tracked, Folder
<1>8. LoadFails \/ Crash => stage' \in Lost
  BY DEF LoadFails, Crash, Lost
<1>9. OpenTracker => tracker' \notin Versions
  BY <1>0 DEF OpenTracker
<1>10. FeedSample \/ FeedEnd \/ FinishFit \/ Halted \/ UNCHANGED vars =>
          /\ UNCHANGED <<tracker, weights, current_param_version>>
          /\ stage \notin Lost \/ stage' \in Lost
  BY OthersKeep DEF Kept
<1>11. EnsureCapacity \/ RegisterCheckpoint \/ (\E r \in Ranks : OpenShard(r)) =>
          UNCHANGED <<tracker, weights, current_param_version>> /\ stage \notin Lost
  BY SavingKeeps DEF Kept, Lost
<1>12. OpenData \/ CloseData =>
          UNCHANGED <<tracker, weights, current_param_version>> /\ stage \notin Lost
  BY DEF OpenData, CloseData, stepVars, Lost
<1>13. (\A rank \in Ranks : ~CloseShard(rank)) => Fewer
  BY FewerElsewhere
<1> QED BY <1>1, <1>2, <1>3, <1>4, <1>5, <1>6, <1>7, <1>8, <1>9, <1>10, <1>11, <1>12, <1>13, Cases

LEMMA WrittenStep ==
    ASSUME TypeInv, InStep, WrittenCurrent, [Next]_vars
    PROVE  WrittenCurrent'
<1>1. ASSUME Fewer, UNCHANGED <<weights, current_param_version>>, stage \notin Lost,
             \A role \in RoleSet, r \in Ranks : Written(role, r)' => Written(role, r)
      PROVE  WrittenCurrent'
  <2> SUFFICES ASSUME current_param_version \in Versions,
                      NEW role \in RoleSet, NEW r \in Ranks, Written(role, r)',
                      WholeAt(role, current_param_version, r)'
               PROVE  ModelAt(role, current_param_version, r)' = weights[role][r]
    BY <1>1 DEF WrittenCurrent
  <2>1. shard'[role][current_param_version][r] = shard[role][current_param_version][r]
    BY <1>1 DEF Fewer, WholeAt
  <2> QED BY <1>1, <2>1 DEF WrittenCurrent, WholeAt, ModelAt
<1>2. CASE stage' \notin {"room", "shards", "data", "data_open", "track", "track_open"}
  BY <1>2 DEF WrittenCurrent, Written
<1>3. CASE stage' = "room" /\ saving' = 1
  <2>1. \A i \in 1..Len(Roles) : ~(i < 1)
    OBVIOUS
  <2> QED BY <1>3, <2>1 DEF WrittenCurrent, Written
<1>4. CASE EnsureCapacity
  <2>1. /\ stage = "room" /\ stage' = "shards" /\ saving' = saving /\ writing' = Idle
        /\ UNCHANGED <<weights, current_param_version>>
    BY <1>4 DEF EnsureCapacity, stepVars
  <2>2. \A role \in RoleSet, r \in Ranks : Written(role, r)' => Written(role, r)
    BY <2>1 DEF Written, Idle
  <2> QED BY <1>1, <1>4, <2>1, <2>2, RetainFewer DEF EnsureCapacity, Lost
<1>5. ASSUME NEW rank \in Ranks, OpenShard(rank) PROVE WrittenCurrent'
  <2>1. /\ stage = "shards" /\ stage' = stage /\ saving' = saving
        /\ writing' = [writing EXCEPT ![rank] = "open"]
        /\ UNCHANGED <<weights, current_param_version>>
    BY <1>5 DEF OpenShard, stepVars
  <2>2. \A r \in Ranks : writing'[r] = "done" => writing[r] = "done"
    BY <2>1 DEF TypeInv
  <2>3. \A role \in RoleSet, r \in Ranks : Written(role, r)' => Written(role, r)
    BY <2>1, <2>2 DEF Written, Role
  <2> QED BY <1>1, <1>5, <2>1, <2>3, OpenFewer DEF Lost
<1>6. ASSUME NEW rank \in Ranks, CloseShard(rank) PROVE WrittenCurrent'
  <2>1. /\ stage = "shards" /\ stage' = stage /\ saving' = saving
        /\ writing' = [writing EXCEPT ![rank] = "done"]
        /\ UNCHANGED <<weights, current_param_version>>
    BY <1>6 DEF CloseShard, stepVars
  <2> SUFFICES ASSUME current_param_version \in Versions,
                      NEW role \in RoleSet, NEW r \in Ranks, Written(role, r)',
                      WholeAt(role, current_param_version, r)'
               PROVE  ModelAt(role, current_param_version, r)' = weights[role][r]
    BY <2>1 DEF WrittenCurrent
  <2>2. CASE role = Role /\ r = rank
    BY <1>6, <2>1, <2>2, CloseOne DEF ModelAt
  <2>3. CASE ~(role = Role /\ r = rank)
    <3>1. shard'[role][current_param_version][r] = shard[role][current_param_version][r]
      BY <1>6, <2>3, CloseOne
    <3>2. r # rank => (writing'[r] = "done" => writing[r] = "done")
      BY <2>1 DEF TypeInv
    <3>3. Written(role, r)
      BY <2>1, <2>3, <3>2 DEF Written, Role
    <3> QED BY <2>1, <3>1, <3>3 DEF WrittenCurrent, WholeAt, ModelAt, Lost
  <2> QED BY <2>2, <2>3
<1>7. CASE RegisterCheckpoint
  <2>1. /\ stage = "shards" /\ \A r \in Ranks : writing[r] = "done"
        /\ UNCHANGED <<weights, current_param_version>>
        /\ \/ saving < Len(Roles) /\ saving' = saving + 1 /\ stage' = "room"
           \/ ~(saving < Len(Roles)) /\ stage' = "data"
    BY <1>7 DEF RegisterCheckpoint, Barrier, stepVars
  <2>2. saving \in Nat /\ saving <= Len(Roles) /\ Len(Roles) \in Nat
    BY RolesFacts DEF TypeInv
  <2>3. \A role \in RoleSet, r \in Ranks : Written(role, r)' => Written(role, r)
    <3> SUFFICES ASSUME NEW role \in RoleSet, NEW r \in Ranks, Written(role, r)'
                 PROVE  Written(role, r)
      OBVIOUS
    <3>1. PICK i \in 1..Len(Roles) : i < saving + 1 /\ role = Roles[i]
      <4>1. CASE stage' = "room"
        BY <2>1, <4>1 DEF Written
      <4>2. CASE stage' = "data"
        <5>1. ~(saving < Len(Roles))
          BY <2>1, <4>2
        <5> QED BY <2>2, <5>1, RolesFacts
      <4> QED BY <2>1, <4>1, <4>2
    <3>2. CASE i < saving
      BY <2>1, <3>1, <3>2 DEF Written
    <3>3. CASE ~(i < saving)
      <4>1. i = saving
        BY <2>2, <3>1, <3>3
      <4> QED BY <2>1, <3>1, <4>1 DEF Written, Role
    <3> QED BY <3>2, <3>3
  <2> QED BY <1>1, <1>7, <2>1, <2>3, RetainFewer DEF RegisterCheckpoint, Lost
<1>8. CASE OpenData \/ CloseData \/ OpenTracker
  <2>1. /\ stage \in {"data", "data_open", "track"}
        /\ UNCHANGED <<weights, current_param_version, shard>>
    BY <1>8 DEF OpenData, CloseData, OpenTracker, stepVars
  <2> QED BY <1>1, <2>1 DEF Written, Fewer, Lost
<1>9. CASE FeedSample \/ FeedEnd \/ FinishFit \/ Halted \/ UNCHANGED vars
  <2>1. /\ UNCHANGED <<weights, current_param_version, shard>>
        /\ (stage' = stage /\ UNCHANGED saveVars) \/ stage' \in {"train", "room", "failed", "ended"}
    BY <1>9, OthersKeep DEF Kept
  <2>2. stage' = "room" => saving' = 1 \/ (stage' = stage /\ UNCHANGED saveVars)
    <3>1. CASE FinishFit
      BY <3>1 DEF FinishFit, BeginSave
    <3>2. CASE FeedSample \/ FeedEnd \/ Halted \/ UNCHANGED vars
      BY <3>2 DEF FeedSample, FeedEnd, Halted, vars
    <3> QED BY <1>9, <3>1, <3>2
  <2>3. CASE stage' = stage /\ UNCHANGED saveVars
    <3>1. \A role \in RoleSet, r \in Ranks : Written(role, r)' <=> Written(role, r)
      BY <2>3 DEF Written, Role, saveVars
    <3>2. Fewer /\ (stage' \notin Lost => stage \notin Lost)
      BY <2>1, <2>3 DEF Fewer
    <3>3. CASE stage \in Lost
      BY <1>2, <2>3, <3>3 DEF Lost
    <3>4. CASE stage \notin Lost
      BY <1>1, <2>1, <3>1, <3>2, <3>4
    <3> QED BY <3>3, <3>4
  <2> QED BY <1>2, <1>3, <2>1, <2>2, <2>3
<1>10. FitStep => stage' = "train" \/ (stage' = "room" /\ saving' = 1)
  BY Update
<1>11. CloseTracker \/ LoadNothing \/ LoadFails \/ LoadCheckpoint \/ Crash
          => stage' \in {"train", "ended", "broken", "load"}
  BY DEF CloseTracker, AfterSave, LoadNothing, LoadFails, LoadCheckpoint, Crash
<1> QED BY <1>2, <1>3, <1>4, <1>5, <1>6, <1>7, <1>8, <1>9, <1>10, <1>11, Cases

-----------------------------------------------------------------------------
(* Samples                                                                 *)

(* After a load nothing is on its way, and the position read from data.pt  *)
(* is past all the samples of the model that was read.                     *)
LEMMA SampleStep ==
    ASSUME TypeInv, InStep, MemoryInv, SampleInv, PositionInv, [Next]_vars
    PROVE  SampleInv'
<1>1. CASE FeedSample
  <2>1. fed' = fed + 1 /\ flight' = flight \cup {fed + 1} /\ weights' = weights
    BY <1>1 DEF FeedSample
  <2>2. \A role \in RoleSet, r \in Ranks : fed + 1 \notin weights[role][r]
    BY DEF SampleInv, TypeInv
  <2>3. \A s \in flight' : s <= fed'
    BY <2>1 DEF SampleInv, TypeInv
  <2>4. \A role \in RoleSet, r \in Ranks : \A s \in weights[role][r] : s <= fed'
    BY <2>1 DEF SampleInv, TypeInv
  <2>5. \A role \in RoleSet, r \in Ranks : weights[role][r] \cap flight' = {}
    BY <2>1, <2>2 DEF SampleInv
  <2> QED BY <2>1, <2>3, <2>4, <2>5 DEF SampleInv
<1>2. CASE FitStep
  <2>1. fed' = fed
    BY <1>2, Update
  <2>2. PICK batch \in SUBSET flight : /\ flight' = flight \ batch
           /\ weights' = [role \in RoleSet |-> [r \in Ranks |-> weights[role][r] \cup batch]]
    BY <1>2, Update
  <2> QED BY <2>1, <2>2 DEF SampleInv
<1>3. CASE LoadCheckpoint
  <2>1. /\ weights' = [role \in RoleSet |-> [r \in Ranks |-> shard[role][tracker][r].model]]
        /\ Tracked /\ Loadable(tracker) /\ stage = "load" /\ flight' = flight
        /\ fed' = ResumePosition(tracker)
    BY <1>3 DEF LoadCheckpoint, Tracked
  <2>2. flight' = {} /\ data[tracker] # NoFile /\ data[tracker] # TornFile
    BY <2>1 DEF MemoryInv, Loadable
  <2>3. fed' = data[tracker] /\ data[tracker] \in Nat
    BY <2>1, <2>2 DEF ResumePosition, TypeInv, Tracked
  <2>4. \A role \in RoleSet, r \in Ranks : \A s \in weights'[role][r] : s <= fed'
    BY <2>1, <2>3 DEF PositionInv, WholeAt, ModelAt, Loadable
  <2> QED BY <2>2, <2>4 DEF SampleInv
<1>4. CASE Crash
  BY <1>4 DEF Crash, SampleInv, NoModel
<1>5. CASE UNCHANGED <<weights, flight, fed>>
  BY <1>5 DEF SampleInv
<1>6. CASE FeedEnd \/ FinishFit \/ Halted \/ UNCHANGED vars
  <2>1. UNCHANGED <<weights, flight, fed>>
    BY <1>6 DEF FeedEnd, FinishFit, Halted, vars, feedVars
  <2> QED BY <1>5, <2>1
<1>7. EnsureCapacity \/ RegisterCheckpoint \/ (\E r \in Ranks : OpenShard(r))
      \/ (\E r \in Ranks : CloseShard(r)) => UNCHANGED <<weights, flight, fed>>
  BY SavingKeeps DEF Kept, feedVars
<1>8. OpenData \/ CloseData \/ OpenTracker \/ CloseTracker \/ LoadNothing \/ LoadFails
         => UNCHANGED <<weights, flight, fed>>
  BY DEF OpenData, CloseData, OpenTracker, CloseTracker, LoadNothing, LoadFails, feedVars
<1> QED BY <1>1, <1>2, <1>3, <1>4, <1>5, <1>6, <1>7, <1>8, Cases

LEMMA PositionStep ==
    ASSUME TypeInv, InStep, MemoryInv, TrackedCurrent, WrittenCurrent, SampleInv, PositionInv,
           [Next]_vars
    PROVE  PositionInv'
<1> DEFINE Saved == Tracked /\ data[tracker] \in Nat =>
                \A role \in RoleSet, r \in Ranks : WholeAt(role, tracker, r) =>
                    \A s \in ModelAt(role, tracker, r) : s <= data[tracker]
           Past == stage \notin Lost /\ current_param_version \in Versions
                /\ (stage \in {"track", "track_open"} \/ tracker = current_param_version)
                /\ data[current_param_version] \in Nat =>
                   \A role \in RoleSet, r \in Ranks :
                       \A s \in weights[role][r] : s <= data[current_param_version]
<1>0. /\ TornFile \notin Versions /\ NoFile \notin Versions
      /\ TornFile \notin Nat /\ NoFile \notin Nat
  BY VersionsAreNat DEF TornFile, NoFile
<1>a. Saved /\ Past
  BY DEF PositionInv
<1>b. Saved' /\ Past' => PositionInv'
  BY DEF PositionInv
<1>1. ASSUME Fewer, UNCHANGED <<tracker, data>> PROVE Saved'
  <2> SUFFICES ASSUME tracker \in Versions, data[tracker] \in Nat,
                      NEW role \in RoleSet, NEW r \in Ranks, WholeAt(role, tracker, r)'
               PROVE  \A s \in ModelAt(role, tracker, r)' : s <= data[tracker]
    BY <1>1 DEF Tracked
  <2>1. shard'[role][tracker][r] = shard[role][tracker][r]
    BY <1>1 DEF Fewer, WholeAt
  <2> QED BY <1>1, <1>a, <2>1 DEF Tracked, WholeAt, ModelAt
<1>2. ASSUME UNCHANGED <<weights, current_param_version, tracker, data>>, stage \notin Lost,
             stage' \in {"track", "track_open"} => stage \in {"track", "track_open"}
      PROVE  Past'
  BY <1>2, <1>a
<1>3. CASE FitStep
  <2>1. /\ current_param_version' = current_param_version + 1 /\ stage = "train"
        /\ stage' \in {"train", "room"} /\ UNCHANGED <<shard, data, tracker>>
    BY <1>3, Update
  <2>2. ~(current_param_version' \in Versions /\ tracker = current_param_version')
    BY <2>1, VersionsAreNat DEF MemoryInv, Tracked, TypeInv, Lost
  <2>3. Past'
    BY <2>1, <2>2
  <2>4. Saved'
    BY <1>1, <2>1 DEF Fewer
  <2> QED BY <1>b, <2>3, <2>4
<1>4. CASE LoadCheckpoint
  <2>1. /\ weights' = [role \in RoleSet |-> [r \in Ranks |-> shard[role][tracker][r].model]]
        /\ Tracked /\ Loadable(tracker) /\ current_param_version' = tracker
        /\ UNCHANGED <<shard, data, tracker>>
    BY <1>4 DEF LoadCheckpoint, Tracked, disk
  <2>2. data[tracker] \in Nat => \A role \in RoleSet, r \in Ranks :
           \A s \in weights'[role][r] : s <= data[tracker]
    BY <1>a, <2>1 DEF WholeAt, ModelAt, Loadable
  <2>3. Past'
    BY <2>1, <2>2
  <2>4. Saved'
    BY <1>1, <2>1 DEF Fewer
  <2> QED BY <1>b, <2>3, <2>4
<1>5. CASE FeedSample \/ FeedEnd \/ FinishFit \/ Halted \/ UNCHANGED vars
  <2>1. /\ UNCHANGED <<weights, current_param_version, data, tracker, shard>>
        /\ stage \notin Lost \/ stage' = stage
        /\ stage' = stage \/ stage' \in {"train", "room", "failed", "ended"}
    BY <1>5, OthersKeep DEF Kept
  <2>2. Saved'
    BY <1>1, <2>1 DEF Fewer
  <2>3. CASE stage \in Lost
    BY <1>b, <2>1, <2>2, <2>3
  <2>4. CASE stage \notin Lost
    BY <1>b, <1>2, <2>1, <2>2, <2>4
  <2> QED BY <2>3, <2>4
<1>6. CASE EnsureCapacity \/ RegisterCheckpoint \/ (\E r \in Ranks : OpenShard(r))
  <2>1. /\ UNCHANGED <<weights, current_param_version, data, tracker>> /\ stage \notin Lost
        /\ stage' \notin {"track", "track_open"}
    BY <1>6, SavingKeeps DEF Kept, Lost
  <2>2. Fewer
    BY <1>6, RetainFewer, OpenFewer DEF EnsureCapacity, RegisterCheckpoint
  <2>3. Saved'
    BY <1>1, <2>1, <2>2
  <2>4. Past'
    BY <1>2, <2>1
  <2> QED BY <1>b, <2>3, <2>4
<1>7. ASSUME NEW rank \in Ranks, CloseShard(rank) PROVE PositionInv'
  <2>1. /\ UNCHANGED <<weights, current_param_version, data, tracker>> /\ stage \notin Lost
        /\ stage' \notin {"track", "track_open"}
    BY <1>7, SavingKeeps DEF Kept, Lost
  <2>2. Saved'
    <3> SUFFICES ASSUME tracker \in Versions, data[tracker] \in Nat,
                        NEW role \in RoleSet, NEW r \in Ranks, WholeAt(role, tracker, r)'
                 PROVE  \A s \in ModelAt(role, tracker, r)' : s <= data[tracker]
      BY <2>1 DEF Tracked
    <3>1. CASE role = Role /\ tracker = current_param_version /\ r = rank
      <4>1. ModelAt(role, tracker, r)' = weights[role][r]
        BY <1>7, <2>1, <3>1, CloseOne DEF ModelAt
      <4> QED BY <1>a, <2>1, <3>1, <4>1
    <3>2. CASE ~(role = Role /\ tracker = current_param_version /\ r = rank)
      <4>1. shard'[role][tracker][r] = shard[role][tracker][r]
        BY <1>7, <3>2, CloseOne
      <4> QED BY <1>a, <2>1, <4>1 DEF Tracked, WholeAt, ModelAt
    <3> QED BY <3>1, <3>2
  <2>3. Past'
    BY <1>2, <2>1
  <2> QED BY <1>b, <2>2, <2>3
<1>8. CASE OpenData
  <2>1. /\ data' = [data EXCEPT ![current_param_version] = TornFile]
        /\ UNCHANGED <<weights, tracker, current_param_version, shard>>
        /\ stage' = "data_open" /\ stage = "data"
    BY <1>8 DEF OpenData, stepVars
  <2>2. \A v \in Versions : data'[v] = IF v = current_param_version THEN TornFile ELSE data[v]
    BY <2>1 DEF TypeInv
  <2>3. Saved'
    BY <1>0, <1>a, <2>1, <2>2 DEF Tracked, WholeAt, ModelAt
  <2>4. Past'
    BY <1>0, <2>1, <2>2
  <2> QED BY <1>b, <2>3, <2>4
<1>9. CASE CloseData
  <2>1. /\ data' = [data EXCEPT ![current_param_version] = fed]
        /\ UNCHANGED <<weights, tracker, current_param_version, shard>>
        /\ stage' = "track" /\ stage = "data_open"
    BY <1>9 DEF CloseData, stepVars
  <2>2. \A v \in Versions : data'[v] = IF v = current_param_version THEN fed ELSE data[v]
    BY <2>1 DEF TypeInv
  <2>3. Saved'
    <3> SUFFICES ASSUME tracker \in Versions, data'[tracker] \in Nat,
                        NEW role \in RoleSet, NEW r \in Ranks, WholeAt(role, tracker, r)
                 PROVE  \A s \in ModelAt(role, tracker, r) : s <= data'[tracker]
      BY <2>1 DEF Tracked, WholeAt, ModelAt
    <3>1. CASE tracker = current_param_version
      <4>1. ModelAt(role, tracker, r) = weights[role][r]
        BY <2>1, <3>1 DEF TrackedCurrent, Tracked, Lost
      <4>2. data'[tracker] = fed
        BY <2>2, <3>1
      <4> QED BY <4>1, <4>2 DEF SampleInv
    <3>2. CASE tracker # current_param_version
      <4>1. data'[tracker] = data[tracker]
        BY <2>2, <3>2
      <4> QED BY <1>a, <4>1 DEF Tracked
    <3> QED BY <3>1, <3>2
  <2>4. Past'
    BY <2>1, <2>2 DEF SampleInv
  <2> QED BY <1>b, <2>3, <2>4
<1>10. CASE OpenTracker
  <2>1. /\ tracker' = TornFile /\ UNCHANGED <<weights, current_param_version, shard, data>>
        /\ stage = "track"
    BY <1>10 DEF OpenTracker, stepVars
  <2>2. Saved'
    BY <1>0, <2>1 DEF Tracked
  <2>3. Past'
    BY <1>a, <2>1 DEF Lost
  <2> QED BY <1>b, <2>2, <2>3
<1>11. CASE CloseTracker
  <2>1. /\ tracker' = current_param_version
        /\ UNCHANGED <<weights, current_param_version, shard, data>>
        /\ stage = "track_open" /\ stage' \in {"ended", "train"}
    BY <1>11 DEF CloseTracker, AfterSave, stepVars
  <2>2. current_param_version \in Versions =>
           \A role \in RoleSet, r \in Ranks : WholeAt(role, current_param_version, r)
              => ModelAt(role, current_param_version, r) = weights[role][r]
    BY <2>1 DEF WrittenCurrent, Written, Lost
  <2>3. current_param_version \in Versions /\ data[current_param_version] \in Nat =>
           \A role \in RoleSet, r \in Ranks :
               \A s \in weights[role][r] : s <= data[current_param_version]
    BY <1>a, <2>1 DEF Lost
  <2>4. Saved'
    BY <2>1, <2>2, <2>3 DEF Tracked, WholeAt, ModelAt
  <2>5. Past'
    BY <2>1, <2>3
  <2> QED BY <1>b, <2>4, <2>5
<1>12. CASE LoadNothing
  <2>1. /\ UNCHANGED <<shard, data, tracker>> /\ tracker \notin Versions /\ stage' = "train"
    BY <1>0, <1>12 DEF LoadNothing, disk, MemoryInv, Tracked, Folder
  <2> QED BY <1>b, <2>1 DEF Tracked
<1>13. CASE LoadFails \/ Crash
  <2>1. /\ UNCHANGED <<shard, data, tracker>> /\ stage' \in Lost
    BY <1>13 DEF LoadFails, Crash, disk, Lost
  <2>2. Saved'
    BY <1>1, <2>1 DEF Fewer
  <2> QED BY <1>b, <2>1, <2>2
<1> QED BY <1>3, <1>4, <1>5, <1>6, <1>7, <1>8, <1>9, <1>10, <1>11, <1>12, <1>13, Cases

-----------------------------------------------------------------------------
(* Counts                                                                  *)

LEMMA StepStep ==
    ASSUME TypeInv, InStep, StepInv, [Next]_vars
    PROVE  StepInv'
<1>0. local_trigger_step >= trigger_parameter_sync_step /\ trigger_parameter_sync_step = 1
  BY DEF InStep, TypeInv
<1>1. CASE FeedSample
  <2>1. IsFiniteSet(flight')
    BY <1>1, FS_AddElement DEF FeedSample, StepInv
  <2> QED BY <1>1, <2>1 DEF FeedSample, StepInv, saveVars, stepVars
<1>2. CASE FitStep
  <2>1. IsFiniteSet(flight')
    BY <1>2, FS_Subset DEF FitStep, StepInv
  <2>2. /\ stage = "train" /\ BeginSave(current_param_version', FALSE)
        /\ current_param_version' = current_param_version + 1
    BY <1>2, Update DEF FitStep
  <2>3. /\ final' = FALSE
        /\ \/ stage' = "room" /\ global_steps' = global_steps
           \/ stage' = "train" /\ global_steps' = global_steps + 1
    BY <2>2 DEF BeginSave, AfterSave
  <2>4. global_steps = current_param_version + 1 /\ current_param_version \in Nat
    BY <2>2 DEF StepInv, TypeInv
  <2>5. /\ stage' = "room" => global_steps' = current_param_version'
        /\ stage' = "train" => global_steps' = current_param_version' + 1
        /\ global_steps' \in Nat /\ stage' \in {"room", "train"}
    BY <2>2, <2>3, <2>4
  <2> QED BY <2>1, <2>3, <2>5 DEF StepInv
<1>3. CASE FinishFit
  <2>1. UNCHANGED <<current_param_version, flight>>
    BY <1>3 DEF FinishFit, stepVars, feedVars
  <2>2. global_steps' = global_steps
        /\ \/ stage' = "failed" /\ final' = final
           \/ stage' \in {"room", "ended"} /\ final' = TRUE
    BY <1>3 DEF FinishFit, BeginSave, AfterSave, saveVars
  <2> QED BY <2>1, <2>2 DEF StepInv
<1>4. CASE EnsureCapacity \/ RegisterCheckpoint \/ \E r \in Ranks : OpenShard(r) \/ CloseShard(r)
  <2>1. /\ UNCHANGED <<current_param_version, flight, final, global_steps>>
        /\ stage \in {"room", "shards"} /\ stage' \in {"room", "shards", "data"}
    BY <1>4, SavingKeeps DEF Kept, feedVars, EnsureCapacity, RegisterCheckpoint, OpenShard, CloseShard
  <2> QED BY <2>1 DEF StepInv
<1>5. CASE OpenData \/ CloseData \/ OpenTracker
  <2>1. /\ UNCHANGED <<current_param_version, flight, final, global_steps>>
        /\ stage \in {"data", "data_open", "track"} /\ stage' \in {"data_open", "track", "track_open"}
    BY <1>5 DEF OpenData, CloseData, OpenTracker, stepVars, feedVars, saveVars
  <2> QED BY <2>1 DEF StepInv
<1>6. CASE CloseTracker
  <2>1. /\ UNCHANGED <<current_param_version, flight, final>> /\ stage = "track_open"
        /\ \/ final /\ stage' = "ended" /\ global_steps' = global_steps
           \/ ~final /\ stage' = "train" /\ global_steps' = global_steps + 1
    BY <1>6 DEF CloseTracker, AfterSave, stepVars, feedVars, saveVars, StepInv
  <2> QED BY <2>1 DEF StepInv
<1>7. CASE LoadNothing \/ LoadFails
  <2>1. /\ UNCHANGED <<current_param_version, flight, final, global_steps>>
        /\ stage = "load" /\ stage' \in {"train", "broken"}
    BY <1>7 DEF LoadNothing, LoadFails, stepVars, feedVars, saveVars
  <2> QED BY <2>1 DEF StepInv
<1>8. CASE LoadCheckpoint
  <2>1. /\ UNCHANGED <<flight, final>> /\ stage' = "train" /\ current_param_version' = tracker
        /\ global_steps' = tracker * trigger_parameter_sync_step + 1 /\ tracker \in Nat
    BY <1>8, VersionsAreNat DEF LoadCheckpoint, saveVars
  <2>2. global_steps' = tracker + 1
    BY <1>0, <2>1
  <2> QED BY <2>1, <2>2 DEF StepInv
<1>9. CASE Crash
  BY <1>9, FS_EmptySet DEF Crash, StepInv
<1>10. CASE FeedEnd \/ Halted \/ UNCHANGED vars
  BY <1>10 DEF FeedEnd, Halted, vars, stepVars, feedVars, saveVars, StepInv
<1> QED BY <1>1, <1>2, <1>3, <1>4, <1>5, <1>6, <1>7, <1>8, <1>9, <1>10, Cases

(* A batch that was still to come makes the next version.                  *)
LEMMA NextSized ==
    ASSUME NEW model, NEW v \in Nat, Sized(model, v), NEW batch, IsFiniteSet(batch),
           Cardinality(batch) = RequiredSamples, model \cap batch = {}
    PROVE  Sized(model \cup batch, v + 1)
<1>1. RequiredSamples \in Nat
  BY CheckpointAssumption
<1>2. /\ IsFiniteSet(model \cup batch)
      /\ Cardinality(model \cup batch)
            = Cardinality(model) + Cardinality(batch) - Cardinality(model \cap batch)
  BY FS_Union DEF Sized
<1>3. Cardinality(model \cap batch) = 0
  BY FS_EmptySet
<1> DEFINE n == v * RequiredSamples
<1>4. n \in Nat /\ Cardinality(model) = n
  BY <1>1 DEF Sized
<1>5. (v + 1) * RequiredSamples = n + RequiredSamples
  BY <1>1
<1> HIDE DEF n
<1>6. Cardinality(model \cup batch) = n + RequiredSamples
  BY <1>1, <1>2, <1>3, <1>4
<1> QED BY <1>2, <1>5, <1>6 DEF Sized

LEMMA NothingSized == Sized({}, 0)
<1>1. 0 * RequiredSamples = 0
  BY CheckpointAssumption
<1> QED BY <1>1, FS_EmptySet DEF Sized

LEMMA SizeStep ==
    ASSUME TypeInv, InStep, SampleInv, StepInv, SizeInv, [Next]_vars
    PROVE  SizeInv'
<1> DEFINE Memory == \A role \in RoleSet, r \in Ranks :
                        Sized(weights[role][r], current_param_version)
           Disk   == \A role \in RoleSet, v \in Versions, r \in Ranks :
                        WholeAt(role, v, r) => Sized(ModelAt(role, v, r), v)
<1>a. Memory /\ Disk
  BY DEF SizeInv
<1>b. Memory' /\ Disk' => SizeInv'
  BY DEF SizeInv
<1>1. ASSUME Fewer PROVE Disk'
  <2> SUFFICES ASSUME NEW role \in RoleSet, NEW v \in Versions, NEW r \in Ranks,
                      WholeAt(role, v, r)'
               PROVE  Sized(ModelAt(role, v, r)', v)
    BY DEF Sized
  <2>1. WholeAt(role, v, r) /\ ModelAt(role, v, r)' = ModelAt(role, v, r)
    BY <1>1, WholeKept
  <2> QED BY <1>a, <2>1
<1>2. ASSUME NEW rank \in Ranks, CloseShard(rank) PROVE Disk'
  <2> SUFFICES ASSUME NEW role \in RoleSet, NEW v \in Versions, NEW r \in Ranks,
                      WholeAt(role, v, r)'
               PROVE  Sized(ModelAt(role, v, r)', v)
    BY DEF Sized
  <2>1. CASE role = Role /\ v = current_param_version /\ r = rank
    <3>1. ModelAt(role, v, r)' = weights[role][r]
      BY <1>2, <2>1, CloseOne DEF ModelAt
    <3> QED BY <1>a, <2>1, <3>1
  <2>2. CASE ~(role = Role /\ v = current_param_version /\ r = rank)
    <3>1. shard'[role][v][r] = shard[role][v][r]
      BY <1>2, <2>2, CloseOne
    <3> QED BY <1>a, <3>1 DEF WholeAt, ModelAt
  <2> QED BY <2>1, <2>2
<1>3. Disk'
  BY <1>1, <1>2, FewerElsewhere
<1>4. ASSUME UNCHANGED <<weights, current_param_version>> PROVE Memory'
  BY <1>a, <1>4 DEF Sized
<1>5. ASSUME FitStep PROVE Memory'
  <2>1. PICK batch \in SUBSET flight :
           /\ Cardinality(batch) = RequiredSamples
           /\ weights' = [role \in RoleSet |-> [r \in Ranks |-> weights[role][r] \cup batch]]
    BY <1>5 DEF FitStep, kSubset
  <2>2. current_param_version' = current_param_version + 1
    BY <1>5, Update
  <2>3. IsFiniteSet(batch)
    BY FS_Subset DEF StepInv
  <2>4. ASSUME NEW role \in RoleSet, NEW r \in Ranks
        PROVE  Sized(weights[role][r] \cup batch, current_param_version + 1)
    <3>1. weights[role][r] \cap batch = {}
      BY DEF SampleInv
    <3>2. Sized(weights[role][r], current_param_version) /\ current_param_version \in Nat
      BY <1>a DEF TypeInv
    <3> QED BY <2>1, <2>3, <3>1, <3>2, NextSized
  <2> SUFFICES ASSUME NEW role \in RoleSet, NEW r \in Ranks
               PROVE  Sized(weights'[role][r], current_param_version')
    BY DEF Sized
  <2>5. weights'[role][r] = weights[role][r] \cup batch
    BY <2>1
  <2> QED BY <2>2, <2>4, <2>5
<1>6. ASSUME LoadCheckpoint PROVE Memory'
  <2>1. /\ weights' = [role \in RoleSet |-> [r \in Ranks |-> shard[role][tracker][r].model]]
        /\ tracker \in Versions /\ Loadable(tracker) /\ current_param_version' = tracker
    BY <1>6 DEF LoadCheckpoint
  <2> SUFFICES ASSUME NEW role \in RoleSet, NEW r \in Ranks
               PROVE  Sized(weights'[role][r], current_param_version')
    BY DEF Sized
  <2>2. weights'[role][r] = ModelAt(role, tracker, r) /\ WholeAt(role, tracker, r)
    BY <2>1 DEF ModelAt, WholeAt, Loadable
  <2> QED BY <1>a, <2>1, <2>2
<1>7. ASSUME Crash PROVE Memory'
  <2>1. weights' = NoModel /\ current_param_version' = 0
    BY <1>7 DEF Crash
  <2> SUFFICES ASSUME NEW role \in RoleSet, NEW r \in Ranks
               PROVE  Sized(weights'[role][r], current_param_version')
    BY DEF Sized
  <2>2. weights'[role][r] = {}
    BY <2>1 DEF NoModel
  <2> QED BY <2>1, <2>2, NothingSized
<1>8. Memory'
  <2>1. FeedSample \/ FeedEnd \/ FinishFit \/ Halted \/ UNCHANGED vars
           => UNCHANGED <<weights, current_param_version>>
    BY OthersKeep DEF Kept
  <2>2. EnsureCapacity \/ RegisterCheckpoint \/ (\E r \in Ranks : OpenShard(r))
        \/ (\E r \in Ranks : CloseShard(r)) => UNCHANGED <<weights, current_param_version>>
    BY SavingKeeps DEF Kept
  <2>3. OpenData \/ CloseData \/ OpenTracker \/ CloseTracker \/ LoadNothing \/ LoadFails
           => UNCHANGED <<weights, current_param_version>>
    BY DEF OpenData, CloseData, OpenTracker, CloseTracker, LoadNothing, LoadFails, stepVars
  <2> HIDE DEF Memory
  <2> QED BY <1>4, <1>5, <1>6, <1>7, <2>1, <2>2, <2>3, Cases
<1> QED BY <1>b, <1>3, <1>8

-----------------------------------------------------------------------------
(* The invariant and the theorems                                          *)

LEMMA InvInit == Init => Inv
<1> SUFFICES ASSUME Init PROVE Inv
  OBVIOUS
<1>1. TypeInv
  BY TypeInit
<1>2. SameModel /\ MemoryInv /\ SampleInv
  BY VersionsAreNat DEF Init, SameModel, MemoryInv, SampleInv, NoModel, Tracked, NoFile, Lost
<1>3. ~Tracked /\ stage \in Lost
  BY VersionsAreNat DEF Init, Tracked, NoFile, Lost
<1>4. TrackedAgree /\ TrackedCurrent /\ WrittenCurrent /\ PositionInv
  BY <1>3 DEF TrackedAgree, TrackedCurrent, WrittenCurrent, PositionInv
<1>5. StepInv
  BY FS_EmptySet DEF Init, StepInv
<1>6. SizeInv
  <2>1. \A role \in RoleSet, r \in Ranks : weights[role][r] = {} /\ current_param_version = 0
    BY DEF Init, NoModel
  <2>2. \A role \in RoleSet, v \in Versions, r \in Ranks : ~WholeAt(role, v, r)
    BY DEF Init, WholeAt, Missing
  <2> QED BY <2>1, <2>2, NothingSized DEF SizeInv
<1> QED BY <1>1, <1>2, <1>4, <1>5, <1>6 DEF Inv

LEMMA InvStep == Inv /\ [Next]_vars => Inv'
<1> SUFFICES ASSUME Inv, [Next]_vars PROVE Inv'
  OBVIOUS
<1>1. TypeInv /\ TypeInv'
  BY TypeStep DEF Inv
<1>2. UNCHANGED trigger_parameter_sync_step
  BY DEF Next, vars, config, FeedSample, FeedEnd, FitStep, FinishFit, EnsureCapacity, OpenShard,
         CloseShard, RegisterCheckpoint, OpenData, CloseData, OpenTracker, CloseTracker,
         LoadNothing, LoadFails, LoadCheckpoint, Crash, Halted
<1>3. InStep' => InStep
  BY <1>2 DEF InStep
<1>4. CASE InStep
  <2>1. /\ SameModel /\ MemoryInv /\ TrackedAgree /\ TrackedCurrent /\ WrittenCurrent
        /\ SampleInv /\ PositionInv /\ StepInv /\ SizeInv
    BY <1>4 DEF Inv
  <2>2. SameModel'
    BY <1>1, <1>4, <2>1, SameStep
  <2>3. MemoryInv'
    BY <1>1, <1>4, <2>1, MemoryStep
  <2>4. TrackedAgree'
    BY <1>1, <1>4, <2>1, AgreeStep
  <2>5. TrackedCurrent'
    BY <1>1, <1>4, <2>1, CurrentStep
  <2>6. WrittenCurrent'
    BY <1>1, <1>4, <2>1, WrittenStep
  <2>7. SampleInv'
    BY <1>1, <1>4, <2>1, SampleStep
  <2>8. PositionInv'
    BY <1>1, <1>4, <2>1, PositionStep
  <2>9. StepInv'
    BY <1>1, <1>4, <2>1, StepStep
  <2>10. SizeInv'
    BY <1>1, <1>4, <2>1, SizeStep
  <2> QED BY <1>1, <2>2, <2>3, <2>4, <2>5, <2>6, <2>7, <2>8, <2>9, <2>10 DEF Inv
<1>5. CASE ~InStep
  BY <1>1, <1>3, <1>5 DEF Inv
<1> QED BY <1>4, <1>5

LEMMA Invariant == Spec => []Inv
BY InvInit, InvStep, PTL DEF Spec

(* Whenever the job is lost, in the middle of whichever file: if it starts *)
(* again, all ranks of all models resume from the same update.             *)
THEOREM ResumeIsWhole == Spec => []ResumesWhole
<1>1. Inv => ResumesWhole
  BY DEF Inv, SameModel, ResumesWhole
<1> QED BY <1>1, Invariant, PTL

(* No crash makes the models train twice on one sample: the saved position *)
(* of the data is past every sample of the saved models.                   *)
THEOREM NothingRepeats == Spec => []NoRepeat
<1>1. Inv => NoRepeat
  BY DEF Inv, SampleInv, NoRepeat
<1> QED BY <1>1, Invariant, PTL

(* After any number of crashes the step counter still tells how many       *)
(* samples the models were trained on.                                     *)
THEOREM StepsCount == Spec => []CountsUpdates
<1>1. Inv => CountsUpdates
  <2> SUFFICES ASSUME Inv, stage = "train", InStep, NEW role \in RoleSet, NEW r \in Ranks
               PROVE  Cardinality(weights[role][r]) = (global_steps - 1) * RequiredSamples
    BY DEF CountsUpdates
  <2>1. Sized(weights[role][r], current_param_version)
    BY DEF Inv, SizeInv
  <2>2. global_steps - 1 = current_param_version
    BY DEF Inv, StepInv, TypeInv
  <2> QED BY <2>1, <2>2 DEF Sized
<1> QED BY <1>1, Invariant, PTL

-----------------------------------------------------------------------------
(* What a crash finds                                                      *)

PathType == previous_saved_paths \in [RoleSet -> Seq(Nat)]
Paths(role) == previous_saved_paths[role]

Saving == stage \in {"room", "shards", "data", "data_open", "track", "track_open"}

(* The save in progress has put its path to those of the role.             *)
Registered(role) ==
    \/ stage \in {"data", "data_open", "track", "track_open"}
    \/ stage \in {"room", "shards"} /\ \E i \in 1..Len(Roles) : i < saving /\ role = Roles[i]

Guarded == ~final /\ stage \notin Lost

(* The paths are of growing versions.  None is past the tracker's but that *)
(* of the save in progress: what the retention drops, before a save or     *)
(* after it, is older than what the tracker names.                         *)
Increasing(p) == \A i, j \in 1..Len(p) : i < j => p[i] < p[j]
Ordered(role) ==
    /\ Increasing(Paths(role))
    /\ \A i \in 1..Len(Paths(role)) :
          /\ Paths(role)[i] <= current_param_version
          /\ Saving /\ Paths(role)[i] = current_param_version => Registered(role)
          /\ Tracked => \/ Paths(role)[i] <= tracker
                        \/ Registered(role) /\ Paths(role)[i] = current_param_version
PathInv ==
    /\ stage = "load" => previous_saved_paths = NoPaths
    /\ stage \in {"load", "train"} => ~final
    /\ Guarded => \A role \in RoleSet : Ordered(role)

(* Until the run is over, what the tracker names is whole, if no newer     *)
(* version has taken the one place there is, and what is being written is  *)
(* another version.                                                        *)
KeptInv ==
    Guarded =>
      /\ Tracked => Restorable(tracker) \/ Overtaken
      /\ Saving /\ Tracked => tracker < current_param_version
      /\ current_param_version \in Versions =>
            \A role \in RoleSet, r \in Ranks :
               Written(role, r) => WholeAt(role, current_param_version, r)
      /\ stage \in {"track", "track_open"} /\ current_param_version \in Versions
            => data[current_param_version] \in Nat

(* The configuration is chosen once.                                       *)
LEMMA ConfigStays ==
    ASSUME [Next]_vars
    PROVE  UNCHANGED <<trigger_parameter_sync_step, max_ckpt_to_keep>>
BY DEF Next, vars, config, FeedSample, FeedEnd, FitStep, FinishFit, EnsureCapacity, OpenShard,
       CloseShard, RegisterCheckpoint, OpenData, CloseData, OpenTracker, CloseTracker,
       LoadNothing, LoadFails, LoadCheckpoint, Crash, Halted

(* What the retention keeps of the paths, and of the files.                *)
LEMMA Retained ==
    ASSUME TypeInv, PathType, NEW paths \in Seq(Nat), NEW n \in 0..Len(paths), Retain(n, paths)
    PROVE  /\ PathType'
           /\ \A role \in RoleSet : role # Role => previous_saved_paths'[role] = Paths(role)
           /\ Len(previous_saved_paths'[Role]) = n
           /\ \A i \in 1..n : previous_saved_paths'[Role][i] = paths[Len(paths) - n + i]
           /\ \A role \in RoleSet, v \in Versions, r \in Ranks :
                 \/ shard'[role][v][r] = shard[role][v][r]
                 \/ /\ role = Role /\ shard'[role][v][r] = Missing
                    /\ \E i \in 1..Len(paths) - n : v = paths[i]
           /\ \A v \in Versions, r \in Ranks, i \in 1..Len(paths) - n :
                 v = paths[i] => shard'[Role][v][r] = Missing
<1> DEFINE last == Last(n, paths)
           head == SubSeq(paths, 1, Len(paths) - n)
           kept == [v \in Versions |-> IF v \in Range(head)
                                         THEN [r \in Ranks |-> Missing] ELSE shard[Role][v]]
<1>1. Len(paths) \in Nat /\ n \in Nat /\ n <= Len(paths)
  BY LenProperties
<1>2. last \in Seq(Nat) /\ Len(last) = n /\ \A i \in 1..n : last[i] = paths[Len(paths) - n + i]
  <2> DEFINE a == Len(paths) - n + 1
             b == Len(paths)
  <2>1. /\ SubSeq(paths, a, b) \in Seq(Nat)
        /\ Len(SubSeq(paths, a, b)) = IF a <= b THEN b - a + 1 ELSE 0
        /\ \A i \in 1..b - a + 1 : SubSeq(paths, a, b)[i] = paths[a + i - 1]
    <3>1. \A i \in a..b : paths[i] \in Nat
      BY <1>1, ElementOfSeq
    <3> QED BY <1>1, <3>1, SubSeqProperties
  <2>2. b - a + 1 = n /\ (a <= b <=> n # 0) /\ \A i \in 1..n : a + i - 1 = Len(paths) - n + i
    BY <1>1
  <2>3. last = SubSeq(paths, a, b)
    BY DEF Last
  <2> HIDE DEF a, b, last
  <2> QED BY <2>1, <2>2, <2>3
<1>3. head \in Seq(Nat) /\ Len(head) = Len(paths) - n
      /\ \A i \in 1..Len(paths) - n : head[i] = paths[i]
  BY <1>1, SubSeqProperties, ElementOfSeq
<1>4. Role \in RoleSet
  BY RolesFacts DEF TypeInv, Role
<1>5. /\ previous_saved_paths' = [previous_saved_paths EXCEPT ![Role] = last]
      /\ shard' = [shard EXCEPT ![Role] = kept]
  BY DEF Retain, Dropped
<1>6. \A v \in Versions, r \in Ranks :
         kept[v][r] = shard[Role][v][r] \/ (kept[v][r] = Missing /\ v \in Range(head))
  OBVIOUS
<1>7. /\ \A v \in Range(head) : \E i \in 1..Len(paths) - n : v = paths[i]
      /\ \A i \in 1..Len(paths) - n : paths[i] \in Range(head)
  <2>1. DOMAIN head = 1..Len(paths) - n
    BY <1>3, LenProperties
  <2> HIDE DEF head
  <2> QED BY <1>3, <2>1 DEF Range
<1>a. \A v \in Versions, r \in Ranks : v \in Range(head) => kept[v][r] = Missing
  OBVIOUS
<1> HIDE DEF last, kept, head
<1>8. \A role \in RoleSet, v \in Versions, r \in Ranks :
         shard'[role][v][r] = IF role = Role THEN kept[v][r] ELSE shard[role][v][r]
  BY <1>4, <1>5 DEF TypeInv
<1>9. \A role \in RoleSet :
         previous_saved_paths'[role] = IF role = Role THEN last ELSE previous_saved_paths[role]
  BY <1>4, <1>5 DEF PathType
<1>10. PathType'
  BY <1>2, <1>4, <1>5 DEF PathType
<1>11. \A role \in RoleSet, v \in Versions, r \in Ranks :
         \/ shard'[role][v][r] = shard[role][v][r]
         \/ /\ role = Role /\ shard'[role][v][r] = Missing
            /\ \E i \in 1..Len(paths) - n : v = paths[i]
  BY <1>6, <1>7, <1>8
<1>12. \A v \in Versions, r \in Ranks, i \in 1..Len(paths) - n :
          v = paths[i] => shard'[Role][v][r] = Missing
  BY <1>4, <1>7, <1>8, <1>a
<1> QED BY <1>2, <1>4, <1>9, <1>10, <1>11, <1>12 DEF Paths

(* The end of a growing sequence is one, and no more than it.              *)
LEMMA Suffix ==
    ASSUME NEW p \in Seq(Nat), Increasing(p), NEW n \in 0..Len(p),
           NEW q, Len(q) = n, \A i \in 1..n : q[i] = p[Len(p) - n + i]
    PROVE  /\ Increasing(q)
           /\ \A i \in 1..Len(q) : \E j \in 1..Len(p) : q[i] = p[j]
<1> DEFINE L == Len(p)
           d == Len(p) - n
<1>1. L \in Nat /\ n \in Nat /\ n <= L /\ d \in Nat /\ L = d + n
  BY LenProperties
<1>2. \A i \in 1..n : q[i] = p[d + i]
  OBVIOUS
<1>3. \A i, j \in 1..L : i < j => p[i] < p[j]
  BY DEF Increasing
<1> HIDE DEF L, d
<1>4. \A i \in 1..n : d + i \in 1..L
  BY <1>1
<1>5. Increasing(q)
  <2> SUFFICES ASSUME NEW i \in 1..n, NEW j \in 1..n, i < j PROVE q[i] < q[j]
    BY DEF Increasing
  <2>1. d + i \in 1..L /\ d + j \in 1..L /\ d + i < d + j
    BY <1>1
  <2> QED BY <1>2, <1>3, <2>1
<1>6. \A i \in 1..n : \E j \in 1..L : q[i] = p[j]
  BY <1>2, <1>4
<1> QED BY <1>5, <1>6 DEF L

(* One more at the end, past the others.                                   *)
LEMMA OneMorePath ==
    ASSUME NEW p \in Seq(Nat), Increasing(p), NEW v \in Nat, \A i \in 1..Len(p) : p[i] < v
    PROVE  /\ Append(p, v) \in Seq(Nat) /\ Len(Append(p, v)) = Len(p) + 1
           /\ \A i \in 1..Len(p) : Append(p, v)[i] = p[i]
           /\ Append(p, v)[Len(p) + 1] = v
           /\ Increasing(Append(p, v))
<1>1. Len(p) \in Nat
  BY LenProperties
<1>2. /\ Append(p, v) \in Seq(Nat) /\ Len(Append(p, v)) = Len(p) + 1
      /\ \A i \in 1..Len(p) : Append(p, v)[i] = p[i]
      /\ Append(p, v)[Len(p) + 1] = v
  BY <1>1
<1> DEFINE q == Append(p, v)
           L == Len(p)
<1>3. \A i, j \in 1..L : i < j => p[i] < p[j]
  BY DEF Increasing
<1>4. L \in Nat /\ Len(q) = L + 1 /\ (\A i \in 1..L : q[i] = p[i]) /\ q[L + 1] = v
      /\ \A i \in 1..L : p[i] < v
  BY <1>1, <1>2
<1> HIDE DEF q, L
<1>5. \A i, j \in 1..Len(q) : i < j => q[i] < q[j]
  <2> SUFFICES ASSUME NEW i \in 1..L + 1, NEW j \in 1..L + 1, i < j PROVE q[i] < q[j]
    BY <1>4
  <2>1. i \in 1..L
    BY <1>4
  <2>2. CASE j \in 1..L
    BY <1>3, <1>4, <2>1, <2>2
  <2>3. CASE j = L + 1
    BY <1>4, <2>1, <2>3
  <2> QED BY <1>4, <2>2, <2>3
<1> QED BY <1>2, <1>5 DEF Increasing, q

(* What the retention is asked for: before a save all the paths, or at     *)
(* least one of them when two may be kept; after it at least two of them.  *)
RoomLeft == RoomFor(Paths(Role))
Put      == Append(Paths(Role), current_param_version)
PutLeft  == IF Keep > 0 /\ Len(Put) > Keep THEN Keep ELSE Len(Put)

LEMMA Asked ==
    ASSUME TypeInv, PathType
    PROVE  /\ Role \in RoleSet /\ Paths(Role) \in Seq(Nat) /\ Len(Paths(Role)) \in Nat
           /\ Put \in Seq(Nat) /\ Len(Put) = Len(Paths(Role)) + 1
           /\ RoomLeft \in 0..Len(Paths(Role)) /\ PutLeft \in 0..Len(Put)
           /\ RoomLeft = Len(Paths(Role)) \/ (Keep > 1 /\ RoomLeft = Keep - 1)
           /\ PutLeft = Len(Put) \/ (Keep > 0 /\ PutLeft = Keep)
           /\ EnsureCapacity => Retain(RoomLeft, Paths(Role))
           /\ RegisterCheckpoint => Retain(PutLeft, Put)
<1>1. Role \in RoleSet
  BY RolesFacts DEF TypeInv, Role
<1>2. Paths(Role) \in Seq(Nat)
  BY <1>1 DEF PathType, Paths
<1>3. Len(Paths(Role)) \in Nat /\ current_param_version \in Nat /\ Keep \in Nat
  BY <1>2, LenProperties DEF TypeInv, Keep
<1>4. Put \in Seq(Nat) /\ Len(Put) = Len(Paths(Role)) + 1
  BY <1>2, <1>3 DEF Put
<1>5. /\ RoomLeft \in 0..Len(Paths(Role))
      /\ RoomLeft = Len(Paths(Role)) \/ (Keep > 1 /\ RoomLeft = Keep - 1)
  BY <1>3 DEF RoomLeft, RoomFor
<1>6. /\ PutLeft \in 0..Len(Put)
      /\ PutLeft = Len(Put) \/ (Keep > 0 /\ PutLeft = Keep)
  BY <1>3, <1>4 DEF PutLeft
<1>7. EnsureCapacity => Retain(RoomLeft, Paths(Role))
  BY DEF EnsureCapacity, RoomLeft, Paths
<1>8. RegisterCheckpoint => Retain(PutLeft, Put)
  BY DEF RegisterCheckpoint, PutLeft, Put, Paths
<1> QED BY <1>1, <1>2, <1>3, <1>4, <1>5, <1>6, <1>7, <1>8

(* The role being saved is registered by its own save only.                *)
LEMMA NotYetRegistered ==
    ASSUME TypeInv, stage \in {"room", "shards"}
    PROVE  ~Registered(Role)
<1>1. \A i \in 1..Len(Roles) : Roles[i] = Role => i = saving
  BY RolesFacts DEF TypeInv, Role
<1>2. saving \in Nat
  BY RolesFacts DEF TypeInv
<1> QED BY <1>1, <1>2 DEF Registered

LEMMA RegisteredNext ==
    ASSUME TypeInv, RegisterCheckpoint, NEW role \in RoleSet
    PROVE  Registered(role)' <=> Registered(role) \/ role = Role
<1>1. /\ stage = "shards"
      /\ \/ saving < Len(Roles) /\ saving' = saving + 1 /\ stage' = "room"
         \/ ~(saving < Len(Roles)) /\ stage' = "data"
  BY DEF RegisterCheckpoint
<1>2. saving \in 1..Len(Roles) /\ Len(Roles) \in Nat
  BY RolesFacts DEF TypeInv
<1>3. Registered(role) <=> \E i \in 1..Len(Roles) : i < saving /\ role = Roles[i]
  BY <1>1 DEF Registered
<1>4. Registered(role)' <=> \E i \in 1..Len(Roles) : i < saving + 1 /\ role = Roles[i]
  <2>1. CASE stage' = "room"
    BY <1>1, <2>1 DEF Registered
  <2>2. CASE stage' = "data"
    <3>1. ~(saving < Len(Roles))
      BY <1>1, <2>2
    <3> QED BY <1>2, <2>2, <3>1, RolesFacts DEF Registered
  <2> QED BY <1>1, <2>1, <2>2
<1> HIDE DEF Registered
<1>5. \A i \in 1..Len(Roles) : i < saving + 1 <=> i < saving \/ i = saving
  BY <1>2
<1> QED BY <1>2, <1>3, <1>4, <1>5 DEF Role

LEMMA PathTypeStep == ASSUME TypeInv, PathType, [Next]_vars PROVE PathType'
<1>1. CASE EnsureCapacity \/ RegisterCheckpoint
  BY <1>1, Asked, Retained
<1>2. CASE Crash
  BY <1>2 DEF Crash, PathType, NoPaths
<1>3. CASE UNCHANGED previous_saved_paths
  BY <1>3 DEF PathType
<1> QED BY <1>1, <1>2, <1>3
        DEF Next, vars, FeedSample, FeedEnd, FitStep, FinishFit, OpenShard, CloseShard, OpenData, CloseData,
            OpenTracker, CloseTracker, LoadNothing, LoadFails, LoadCheckpoint, Halted

LEMMA PathStep ==
    ASSUME TypeInv, TypeInv', InStep, PathType, PathInv, [Next]_vars
    PROVE  PathInv'
<1>0. /\ Lost = {"load", "broken"} /\ UNCHANGED max_ckpt_to_keep
      /\ TornFile \notin Versions /\ NoFile \notin Versions /\ Versions \subseteq Nat
      /\ \A role \in RoleSet : Paths(role) \in Seq(Nat)
      /\ \A role \in RoleSet : \A i \in 1..Len(Paths(role)) : Paths(role)[i] \in Nat
  <2>1. UNCHANGED max_ckpt_to_keep
    BY ConfigStays
  <2>2. \A role \in RoleSet : Paths(role) \in Seq(Nat)
    BY DEF PathType, Paths
  <2>3. \A role \in RoleSet : \A i \in 1..Len(Paths(role)) : Paths(role)[i] \in Nat
    BY <2>2, ElementOfSeq
  <2> QED BY <2>1, <2>2, <2>3, VersionsAreNat DEF Lost, TornFile, NoFile
<1>1. ASSUME UNCHANGED <<previous_saved_paths, current_param_version, tracker>>,
             Guarded' => Guarded, stage' # "load" \/ stage = "load",
             stage' \in {"load", "train"} => ~final',
             \A role \in RoleSet : Registered(role)' <=> Registered(role), Saving' => Saving
      PROVE  PathInv'
  BY <1>1 DEF PathInv, Ordered, Paths, Tracked
<1>2. CASE FeedSample \/ FeedEnd \/ Halted \/ UNCHANGED vars
  <2>1. UNCHANGED <<previous_saved_paths, current_param_version, tracker, stage, saving, final>>
    BY <1>2 DEF FeedSample, FeedEnd, Halted, vars, saveVars, stepVars, disk
  <2> QED BY <1>0, <1>1, <2>1 DEF Guarded, Registered, Saving, Keep, PathInv
<1>3. CASE FinishFit
  <2>1. /\ stage = "train" /\ UNCHANGED <<previous_saved_paths, current_param_version, tracker>>
        /\ \/ stage' = "failed" /\ final' = final
           \/ stage' \in {"room", "ended"} /\ final' = TRUE
    BY <1>3 DEF FinishFit, BeginSave, AfterSave, stepVars, disk, saveVars
  <2>2. CASE final' = TRUE /\ stage' \in {"room", "ended"}
    BY <2>1, <2>2 DEF PathInv, Guarded
  <2>3. CASE stage' = "failed" /\ final' = final
    BY <1>0, <1>1, <2>1, <2>3 DEF Guarded, Registered, Saving, Keep
  <2> QED BY <2>1, <2>2, <2>3
<1>4. CASE FitStep
  <2>1. /\ UNCHANGED <<previous_saved_paths, tracker>> /\ stage = "train"
        /\ stage' \in {"train", "room"} /\ saving' = 1
        /\ current_param_version' = current_param_version + 1 /\ current_param_version \in Nat
    BY <1>4, Update DEF FitStep, TypeInv
  <2> SUFFICES ASSUME Guarded', NEW role \in RoleSet PROVE Ordered(role)'
    <3>1. ~final'
      BY <1>4 DEF FitStep, BeginSave
    <3> QED BY <2>1, <3>1 DEF PathInv
  <2>2. /\ Increasing(Paths(role))
        /\ Tracked => \A i \in 1..Len(Paths(role)) : Paths(role)[i] <= tracker
        /\ \A i \in 1..Len(Paths(role)) : Paths(role)[i] <= current_param_version
    <3>1. Guarded
      BY <1>0, <2>1 DEF PathInv, Guarded, Keep
    <3> QED BY <2>1, <3>1 DEF PathInv, Ordered, Registered
  <2>3. \A i \in 1..Len(Paths(role)) : Paths(role)[i] < current_param_version + 1
    BY <1>0, <2>1, <2>2
  <2>4. \A i \in 1..Len(Paths(role)) :
           Paths(role)[i] <= current_param_version + 1 /\ Paths(role)[i] # current_param_version + 1
    BY <1>0, <2>1, <2>3
  <2>5. Paths(role)' = Paths(role)
    BY <2>1 DEF Paths
  <2> HIDE DEF Paths
  <2> QED BY <2>1, <2>2, <2>4, <2>5 DEF Ordered, Tracked
<1>5. CASE EnsureCapacity
  <2>1. /\ stage = "room" /\ stage' = "shards" /\ Retain(RoomLeft, Paths(Role))
        /\ UNCHANGED <<saving, final, current_param_version, tracker>>
    BY <1>5, Asked DEF EnsureCapacity, stepVars
  <2> DEFINE R == Role
  <2>2. /\ R \in RoleSet /\ RoomLeft \in 0..Len(Paths(R))
        /\ Len(previous_saved_paths'[R]) = RoomLeft
        /\ \A i \in 1..RoomLeft :
              previous_saved_paths'[R][i] = Paths(R)[Len(Paths(R)) - RoomLeft + i]
        /\ \A role \in RoleSet : role # R => previous_saved_paths'[role] = Paths(role)
    BY <2>1, Asked, Retained
  <2> HIDE DEF R
  <2> SUFFICES ASSUME Guarded', NEW role \in RoleSet PROVE Ordered(role)'
    BY <2>1, <2>2 DEF PathInv
  <2>3. Ordered(role)
    BY <1>0, <2>1 DEF PathInv, Guarded, Keep
  <2>4. Registered(role)' <=> Registered(role)
    BY <2>1 DEF Registered
  <2>5. /\ Increasing(Paths(role)')
        /\ \A i \in 1..Len(Paths(role)') : \E j \in 1..Len(Paths(role)) :
              Paths(role)'[i] = Paths(role)[j]
    <3>1. CASE role = R
      <4> DEFINE p == Paths(R)
                 q == previous_saved_paths'[R]
      <4>1. p \in Seq(Nat)
        BY <1>0, <2>2
      <4>2. Increasing(p)
        BY <2>3, <3>1 DEF Ordered
      <4>3. Len(q) = RoomLeft /\ \A i \in 1..RoomLeft : q[i] = p[Len(p) - RoomLeft + i]
        BY <2>2
      <4>4. RoomLeft \in 0..Len(p)
        BY <2>2
      <4> HIDE DEF p, q
      <4>5. Increasing(q)
        BY <4>1, <4>2, <4>3, <4>4, Suffix
      <4>6. \A i \in 1..Len(q) : \E j \in 1..Len(p) : q[i] = p[j]
        BY <4>1, <4>2, <4>3, <4>4, Suffix
      <4> QED BY <3>1, <4>5, <4>6 DEF p, q, Paths
    <3>2. CASE role # R
      BY <2>2, <2>3, <3>2 DEF Ordered, Paths
    <3> QED BY <3>1, <3>2
  <2> QED BY <2>1, <2>3, <2>4, <2>5 DEF Ordered, Tracked, Saving
<1>6. CASE RegisterCheckpoint
  <2>1. /\ stage = "shards" /\ stage' \in {"room", "data"} /\ Retain(PutLeft, Put)
        /\ UNCHANGED <<final, current_param_version, tracker>>
    BY <1>6, Asked DEF RegisterCheckpoint, stepVars
  <2> DEFINE R == Role
  <2>2. /\ R \in RoleSet /\ PutLeft \in 0..Len(Put) /\ Put \in Seq(Nat)
        /\ Len(previous_saved_paths'[R]) = PutLeft
        /\ \A i \in 1..PutLeft : previous_saved_paths'[R][i] = Put[Len(Put) - PutLeft + i]
        /\ \A role \in RoleSet : role # R => previous_saved_paths'[role] = Paths(role)
    BY <2>1, Asked, Retained
  <2>3. /\ ~Registered(R)
        /\ \A role \in RoleSet : Registered(role)' <=> Registered(role) \/ role = R
    BY <1>6, <2>1, NotYetRegistered, RegisteredNext
  <2> HIDE DEF R
  <2> SUFFICES ASSUME Guarded', NEW role \in RoleSet PROVE Ordered(role)'
    BY <2>1, <2>2 DEF PathInv
  <2>4. Guarded
    BY <1>0, <2>1 DEF Guarded, Keep
  <2>5. Ordered(role) /\ Ordered(R)
    BY <2>2, <2>4 DEF PathInv
  <2>6. CASE role # R
    <3>1. Paths(role)' = Paths(role) /\ (Registered(role)' <=> Registered(role))
      BY <2>2, <2>3, <2>6 DEF Paths
    <3> HIDE DEF Paths, Registered
    <3> QED BY <2>1, <2>5, <3>1 DEF Ordered, Tracked, Saving
  <2>7. CASE role = R
    <3>1. \A i \in 1..Len(Paths(R)) :
             /\ Paths(R)[i] < current_param_version
             /\ Tracked => Paths(R)[i] <= tracker
      <4>1. current_param_version \in Nat /\ Saving
        BY <2>1 DEF TypeInv, Saving
      <4> QED BY <1>0, <2>2, <2>3, <2>5, <4>1 DEF Ordered
    <3>2. Increasing(Put) /\ Len(Put) = Len(Paths(R)) + 1
          /\ (\A i \in 1..Len(Paths(R)) : Put[i] = Paths(R)[i])
          /\ Put[Len(Paths(R)) + 1] = current_param_version
      <4>1. current_param_version \in Nat /\ Paths(R) \in Seq(Nat) /\ Increasing(Paths(R))
            /\ \A i \in 1..Len(Paths(R)) : Paths(R)[i] < current_param_version
        BY <1>0, <2>2, <2>5, <3>1 DEF TypeInv, Ordered
      <4> HIDE DEF Paths
      <4> QED BY <4>1, OneMorePath DEF Put, R
    <3>3. /\ Increasing(previous_saved_paths'[R])
          /\ \A i \in 1..Len(previous_saved_paths'[R]) : \E j \in 1..Len(Put) :
                previous_saved_paths'[R][i] = Put[j]
      <4> DEFINE q == previous_saved_paths'[R]
      <4>1. Put \in Seq(Nat) /\ PutLeft \in 0..Len(Put)
        BY <2>2
      <4>2. Increasing(Put)
        BY <3>2
      <4>3. Len(q) = PutLeft /\ \A i \in 1..PutLeft : q[i] = Put[Len(Put) - PutLeft + i]
        BY <2>2
      <4> HIDE DEF q
      <4>4. Increasing(q)
        BY <4>1, <4>2, <4>3, Suffix
      <4>5. \A i \in 1..Len(q) : \E j \in 1..Len(Put) : q[i] = Put[j]
        BY <4>1, <4>2, <4>3, Suffix
      <4> QED BY <4>4, <4>5 DEF q
    <3>4. \A j \in 1..Len(Put) :
             /\ Put[j] <= current_param_version
             /\ Tracked => Put[j] <= tracker \/ Put[j] = current_param_version
      <4>1. Len(Paths(R)) \in Nat /\ current_param_version \in Nat
        BY <1>0, <2>2, LenProperties DEF TypeInv
      <4>2. \A j \in 1..Len(Put) : j \in 1..Len(Paths(R)) \/ j = Len(Paths(R)) + 1
        BY <3>2, <4>1
      <4>3. \A j \in 1..Len(Paths(R)) : Paths(R)[j] \in Nat
        BY <1>0, <2>2
      <4> HIDE DEF Paths
      <4> QED BY <3>1, <3>2, <4>1, <4>2, <4>3
    <3>5. Registered(role)' /\ Paths(role)' = previous_saved_paths'[R]
      BY <2>3, <2>7 DEF Paths
    <3> HIDE DEF Registered, Paths
    <3> QED BY <2>1, <3>3, <3>4, <3>5 DEF Ordered, Tracked
  <2> QED BY <2>6, <2>7
<1>7. CASE \E r \in Ranks : OpenShard(r) \/ CloseShard(r)
  <2>1. UNCHANGED <<previous_saved_paths, current_param_version, tracker, stage, saving, final>>
    BY <1>7 DEF OpenShard, CloseShard, stepVars
  <2> QED BY <1>0, <1>1, <2>1 DEF Guarded, Registered, Saving, Keep, PathInv
<1>8. CASE OpenData \/ CloseData
  <2>1. /\ stage \in {"data", "data_open"} /\ stage' \in {"data_open", "track"}
        /\ UNCHANGED <<previous_saved_paths, current_param_version, tracker, saving, final>>
    BY <1>8 DEF OpenData, CloseData, saveVars, stepVars
  <2> QED BY <1>0, <1>1, <2>1 DEF Guarded, Registered, Saving, Keep, PathInv
<1>9. CASE OpenTracker
  <2>1. /\ stage = "track" /\ stage' = "track_open" /\ tracker' = TornFile
        /\ UNCHANGED <<previous_saved_paths, current_param_version, saving, final>>
    BY <1>9 DEF OpenTracker, saveVars, stepVars
  <2>2. ~Tracked' /\ (Guarded' => Guarded)
    BY <1>0, <2>1 DEF Tracked, Guarded, Keep
  <2>3. Versions' = Versions
    OBVIOUS
  <2> QED BY <2>1, <2>2 DEF PathInv, Ordered, Registered, Saving, Paths
<1>10. CASE CloseTracker
  <2>1. /\ stage = "track_open" /\ tracker' = current_param_version
        /\ UNCHANGED <<previous_saved_paths, current_param_version, final>>
        /\ stage' = IF final THEN "ended" ELSE "train"
    BY <1>10 DEF CloseTracker, AfterSave, saveVars, stepVars
  <2>2. (Guarded' => Guarded) /\ ~Saving' /\ stage' # "load" /\ (stage' = "train" => ~final')
    BY <1>0, <2>1 DEF Guarded, Keep, Saving
  <2> QED BY <2>1, <2>2 DEF PathInv, Ordered, Paths, Tracked
<1>11. CASE LoadNothing \/ LoadFails \/ LoadCheckpoint
  <2>1. /\ stage = "load" /\ stage' \in {"train", "broken"}
        /\ UNCHANGED <<previous_saved_paths, final>>
    BY <1>11 DEF LoadNothing, LoadFails, LoadCheckpoint, saveVars
  <2>2. previous_saved_paths' = NoPaths /\ ~final' /\ stage' # "load"
    BY <2>1 DEF PathInv
  <2>3. \A role \in RoleSet : Len(previous_saved_paths'[role]) = 0
    BY <2>2 DEF NoPaths
  <2> QED BY <2>1, <2>2, <2>3 DEF PathInv, Ordered, Increasing, Paths
<1>12. CASE Crash
  <2>1. stage' = "load" /\ previous_saved_paths' = NoPaths /\ final' = FALSE
    BY <1>12 DEF Crash
  <2>2. ~Guarded'
    BY <1>0, <2>1 DEF Guarded
  <2> QED BY <2>1, <2>2 DEF PathInv
<1> QED BY <1>2, <1>3, <1>4, <1>5, <1>6, <1>7, <1>8, <1>9, <1>10, <1>11, <1>12, Cases

(* A retention removes no file of the tracked version, unless one is to be *)
(* kept and another is registered, and none of the version being saved.    *)
LEMMA RetentionSpares ==
    ASSUME TypeInv, InStep, PathType, PathInv, Guarded, EnsureCapacity \/ RegisterCheckpoint,
           NEW role \in RoleSet, NEW r \in Ranks
    PROVE  /\ Tracked /\ (Keep # 1 \/ EnsureCapacity)
                 => shard'[role][tracker][r] = shard[role][tracker][r]
           /\ RegisterCheckpoint /\ current_param_version \in Versions =>
                 shard'[role][current_param_version][r] = shard[role][current_param_version][r]
<1> DEFINE p == Paths(Role)
           L == Len(p)
<1>1. /\ Ordered(Role) /\ p \in Seq(Nat) /\ L \in Nat /\ Keep \in Nat
      /\ ~Registered(Role) /\ Saving
      /\ \A i \in 1..L : p[i] \in Nat
  <2>1. stage \in {"room", "shards"}
    BY DEF EnsureCapacity, RegisterCheckpoint
  <2>2. Role \in RoleSet /\ p \in Seq(Nat) /\ L \in Nat
    BY Asked
  <2>3. \A i \in 1..L : p[i] \in Nat
    BY <2>2, ElementOfSeq
  <2> QED BY <2>1, <2>2, <2>3, NotYetRegistered DEF PathInv, Guarded, Saving, TypeInv, Keep
<1>2. /\ \A i, j \in 1..L : i < j => p[i] < p[j]
      /\ \A i \in 1..L : p[i] <= current_param_version /\ p[i] # current_param_version
      /\ Tracked => \A i \in 1..L : p[i] <= tracker
  BY <1>1 DEF Ordered, Increasing
<1>3. current_param_version \in Nat /\ (Tracked => tracker \in Nat)
  BY VersionsAreNat DEF TypeInv, Tracked
<1> HIDE DEF p, L
<1>4. \A i \in 1..L : i < L => p[i] < current_param_version /\ (Tracked => p[i] < tracker)
  <2> SUFFICES ASSUME NEW i \in 1..L, i < L
               PROVE  p[i] < current_param_version /\ (Tracked => p[i] < tracker)
    OBVIOUS
  <2>1. L \in 1..L
    BY <1>1
  <2>2. p[i] < p[L] /\ p[i] \in Nat /\ p[L] \in Nat
    BY <1>1, <1>2, <2>1
  <2>3. p[L] <= current_param_version /\ (Tracked => p[L] <= tracker)
    BY <1>2, <2>1
  <2> QED BY <1>3, <2>2, <2>3
<1>5. CASE EnsureCapacity
  <2>a. Paths(Role) \in Seq(Nat) /\ RoomLeft \in 0..Len(Paths(Role))
        /\ Retain(RoomLeft, Paths(Role))
    BY <1>5, Asked
  <2>1. /\ \A v \in Versions : shard'[role][v][r] = shard[role][v][r]
                                \/ \E i \in 1..L - RoomLeft : v = p[i]
        /\ RoomLeft = L \/ (Keep > 1 /\ RoomLeft = Keep - 1)
    BY <2>a, Asked, Retained DEF p, L
  <2>2. \A i \in 1..L - RoomLeft : i \in 1..L /\ i < L
    BY <1>1, <2>1
  <2>3. Tracked => \A i \in 1..L - RoomLeft : tracker # p[i]
    BY <1>1, <1>3, <1>4, <2>2
  <2>4. RegisterCheckpoint => FALSE
    BY <1>5 DEF EnsureCapacity, RegisterCheckpoint
  <2> QED BY <2>1, <2>3, <2>4 DEF Tracked
<1>6. CASE RegisterCheckpoint
  <2>a. Put \in Seq(Nat) /\ PutLeft \in 0..Len(Put) /\ Retain(PutLeft, Put)
    BY <1>6, Asked
  <2>b. \A v \in Versions : shard'[role][v][r] = shard[role][v][r]
                             \/ \E i \in 1..Len(Put) - PutLeft : v = Put[i]
    BY <2>a, Retained
  <2>c. /\ PutLeft = Len(Put) \/ (Keep > 0 /\ PutLeft = Keep)
        /\ Len(Put) = L + 1
    BY Asked DEF p, L
  <2>1. /\ \A v \in Versions : shard'[role][v][r] = shard[role][v][r]
                                \/ \E i \in 1..Len(Put) - PutLeft : v = Put[i]
        /\ PutLeft = Len(Put) \/ (Keep > 0 /\ PutLeft = Keep)
        /\ Len(Put) = L + 1
    BY <2>b, <2>c
  <2>2. \A i \in 1..Len(Put) - PutLeft : i \in 1..L /\ (Keep # 1 => i < L)
    BY <1>1, <2>1
  <2>3. \A i \in 1..L : Put[i] = p[i]
    BY <1>1 DEF Put, p, L
  <2>4. \A i \in 1..Len(Put) - PutLeft : current_param_version # Put[i]
    BY <1>2, <2>2, <2>3
  <2>5. Keep # 1 /\ Tracked => \A i \in 1..Len(Put) - PutLeft : tracker # Put[i]
    BY <1>1, <1>3, <1>4, <2>2, <2>3
  <2>6. ~EnsureCapacity
    BY <1>6 DEF EnsureCapacity, RegisterCheckpoint
  <2> QED BY <2>1, <2>4, <2>5, <2>6 DEF Tracked
<1> QED BY <1>5, <1>6

(* With one to keep, making room leaves the paths as they are, and the     *)
(* registration puts the present version there.                            *)
LEMMA OvertakenStays ==
    ASSUME TypeInv, PathType, EnsureCapacity, Overtaken, UNCHANGED <<max_ckpt_to_keep, tracker>>
    PROVE  Overtaken'
<1>1. PICK R \in RoleSet : R = Role
  BY Asked
<1> DEFINE p == Paths(R)
           L == Len(p)
           q == previous_saved_paths'[R]
<1>2. p \in Seq(Nat) /\ L \in Nat /\ RoomLeft = L /\ Retain(RoomLeft, p) /\ RoomLeft \in 0..Len(p)
  <2>1. Keep = 1
    BY DEF Overtaken
  <2> QED BY <1>1, <2>1, Asked DEF Overtaken
<1>3. /\ PathType'
      /\ \A role \in RoleSet : role # R => previous_saved_paths'[role] = Paths(role)
      /\ Len(q) = L /\ \A i \in 1..L : q[i] = p[L - L + i]
  BY <1>1, <1>2, Retained
<1>4. q \in Seq(Nat)
  BY <1>3 DEF PathType
<1> HIDE DEF p, q, L
<1>5. DOMAIN p = 1..L /\ DOMAIN q = 1..L
  BY <1>2, <1>3, <1>4, LenProperties DEF L
<1>6. \A i \in 1..L : q[i] = p[i]
  BY <1>2, <1>3
<1>7. Range(p) \subseteq Range(q)
  BY <1>5, <1>6 DEF Range
<1>8. \A role \in RoleSet : Range(previous_saved_paths[role]) \subseteq Range(previous_saved_paths'[role])
  BY <1>3, <1>7 DEF p, q, Paths
<1> QED BY <1>8 DEF Overtaken, Keep

LEMMA Overtakes ==
    ASSUME TypeInv, PathType, RegisterCheckpoint, Keep = 1, tracker < current_param_version,
           UNCHANGED <<max_ckpt_to_keep, tracker>>
    PROVE  Overtaken'
<1>1. PICK R \in RoleSet : R = Role
  BY Asked
<1> DEFINE q == previous_saved_paths'[R]
           n == Len(Paths(R)) + 1
<1>2. /\ Paths(R) \in Seq(Nat) /\ n \in Nat /\ n > 0 /\ Put \in Seq(Nat) /\ Len(Put) = n
      /\ PutLeft \in 0..Len(Put) /\ Retain(PutLeft, Put)
      /\ PutLeft = n \/ PutLeft = 1
  BY <1>1, Asked
<1>3. /\ PathType' /\ Len(q) = PutLeft
      /\ \A i \in 1..PutLeft : q[i] = Put[n - PutLeft + i]
  BY <1>1, <1>2, Retained
<1>4. Put[n] = current_param_version
  <2> DEFINE p == Paths(R)
             v == current_param_version
  <2>1. p \in Seq(Nat) /\ v \in Nat /\ Put = Append(p, v)
    BY <1>1, <1>2 DEF Put, TypeInv
  <2>2. Append(p, v)[Len(p) + 1] = v
    BY <2>1
  <2> QED BY <2>1, <2>2
<1>5. q \in Seq(Nat)
  BY <1>3 DEF PathType
<1> HIDE DEF q, n
<1>6. PutLeft \in 1..PutLeft /\ n - PutLeft + PutLeft = n
  BY <1>2
<1>7. q[PutLeft] = current_param_version /\ DOMAIN q = 1..PutLeft
  BY <1>3, <1>4, <1>5, <1>6, LenProperties
<1>8. current_param_version \in Range(q)
  BY <1>6, <1>7 DEF Range
<1> QED BY <1>8 DEF Overtaken, Keep, q

LEMMA KeptStep ==
    ASSUME TypeInv, TypeInv', InStep, MemoryInv, PathType, PathInv, KeptInv, [Next]_vars
    PROVE  KeptInv'
<1>0. /\ Lost = {"load", "broken"} /\ UNCHANGED max_ckpt_to_keep
      /\ TornFile \notin Versions /\ NoFile \notin Versions /\ Versions \subseteq Nat
      /\ TornFile \notin Nat /\ NoFile \notin Nat
  <2>1. UNCHANGED max_ckpt_to_keep
    BY ConfigStays
  <2> QED BY <2>1, VersionsAreNat DEF Lost, TornFile, NoFile
<1>a. ASSUME UNCHANGED <<tracker, previous_saved_paths>> PROVE Overtaken' <=> Overtaken
  BY <1>0, <1>a DEF Overtaken, Keep
<1>1. ASSUME UNCHANGED <<current_param_version, tracker, shard, data, previous_saved_paths>>,
             Guarded' => Guarded,
             \A role \in RoleSet, r \in Ranks : Written(role, r)' => Written(role, r),
             Saving' => Saving,
             stage' \in {"track", "track_open"} => stage \in {"track", "track_open"}
      PROVE  KeptInv'
  <2>1. (Overtaken' <=> Overtaken) /\ (Restorable(tracker)' <=> Restorable(tracker))
    BY <1>1, <1>a DEF Restorable, Loadable
  <2> HIDE DEF Overtaken, Restorable
  <2> QED BY <1>1, <2>1 DEF KeptInv, Tracked, WholeAt
<1>2. CASE FeedSample \/ FeedEnd \/ Halted \/ UNCHANGED vars
  <2>1. UNCHANGED <<current_param_version, tracker, shard, data, previous_saved_paths, stage,
                    saving, writing, final>>
    BY <1>2 DEF FeedSample, FeedEnd, Halted, vars, saveVars, stepVars, disk
  <2> QED BY <1>0, <1>1, <2>1 DEF Guarded, Written, Saving, Keep, Role
<1>3. CASE FinishFit
  <2>1. /\ stage = "train"
        /\ UNCHANGED <<current_param_version, tracker, shard, data, previous_saved_paths>>
        /\ \/ stage' = "failed" /\ final' = final
           \/ stage' \in {"room", "ended"} /\ final' = TRUE
    BY <1>3 DEF FinishFit, BeginSave, AfterSave, stepVars, disk, saveVars
  <2>2. CASE final' = TRUE /\ stage' \in {"room", "ended"}
    BY <2>1, <2>2 DEF KeptInv, Guarded
  <2>3. CASE stage' = "failed" /\ final' = final
    BY <1>0, <1>1, <2>1, <2>3 DEF Guarded, Written, Saving, Keep
  <2> QED BY <2>1, <2>2, <2>3
<1>4. CASE FitStep
  <2>1. /\ UNCHANGED <<shard, data, tracker, previous_saved_paths>> /\ stage = "train"
        /\ stage' \in {"train", "room"} /\ saving' = 1
        /\ current_param_version' = current_param_version + 1 /\ current_param_version \in Nat
    BY <1>4, Update DEF FitStep, TypeInv
  <2> SUFFICES ASSUME Guarded' PROVE KeptInv'
    BY DEF KeptInv
  <2>2. Guarded
    BY <1>0, <2>1 DEF PathInv, Guarded, Keep
  <2>3. Tracked => /\ Restorable(tracker) \/ Overtaken
                   /\ tracker <= current_param_version /\ tracker \in Nat
    BY <1>0, <2>1, <2>2 DEF KeptInv, MemoryInv, Tracked
  <2>6. (Overtaken' <=> Overtaken) /\ (Restorable(tracker)' <=> Restorable(tracker))
    BY <1>a, <2>1 DEF Restorable, Loadable
  <2>4. Tracked' => (Restorable(tracker) \/ Overtaken)' /\ tracker' < current_param_version'
    BY <2>1, <2>3, <2>6 DEF Tracked
  <2>5. \A role \in RoleSet, r \in Ranks : ~Written(role, r)'
    <3>1. \A i \in 1..Len(Roles) : ~(i < 1)
      OBVIOUS
    <3> QED BY <2>1, <3>1 DEF Written
  <2> QED BY <2>1, <2>4, <2>5 DEF KeptInv
<1>5. CASE EnsureCapacity \/ RegisterCheckpoint
  <2>1. /\ UNCHANGED <<data, tracker, current_param_version, final>>
        /\ stage \in {"room", "shards"} /\ stage' \in {"room", "shards", "data"}
    BY <1>5 DEF EnsureCapacity, RegisterCheckpoint, stepVars
  <2> SUFFICES ASSUME Guarded' PROVE KeptInv'
    BY DEF KeptInv
  <2>2. Guarded
    BY <1>0, <2>1 DEF Guarded, Keep
  <2>3. \A role \in RoleSet, r \in Ranks :
           /\ Tracked /\ (Keep # 1 \/ EnsureCapacity)
                 => shard'[role][tracker][r] = shard[role][tracker][r]
           /\ RegisterCheckpoint /\ current_param_version \in Versions =>
                 shard'[role][current_param_version][r] = shard[role][current_param_version][r]
    BY <1>5, <2>2, RetentionSpares
  <2>4. Tracked' => (Restorable(tracker) \/ Overtaken)' /\ tracker' < current_param_version'
    <3> SUFFICES ASSUME Tracked PROVE Restorable(tracker)' \/ Overtaken'
      BY <2>1, <2>2 DEF KeptInv, Saving, Tracked
    <3>1. (Restorable(tracker) \/ Overtaken) /\ tracker < current_param_version
      BY <2>1, <2>2 DEF KeptInv, Saving
    <3>2. Overtaken => Keep = 1
      BY DEF Overtaken
    <3>3. CASE Keep = 1 /\ RegisterCheckpoint
      BY <1>0, <2>1, <3>1, <3>3, Overtakes
    <3>4. CASE EnsureCapacity /\ Overtaken
      BY <1>0, <2>1, <3>4, OvertakenStays
    <3>5. CASE (Keep # 1 \/ EnsureCapacity) /\ Restorable(tracker)
      BY <2>1, <2>3, <3>5 DEF Tracked, Restorable, Loadable
    <3> QED BY <1>5, <3>1, <3>2, <3>3, <3>4, <3>5
  <2>5. ASSUME current_param_version \in Versions, NEW role \in RoleSet, NEW r \in Ranks,
               Written(role, r)'
        PROVE  WholeAt(role, current_param_version, r)'
    <3>1. CASE RegisterCheckpoint
      <4>1. Written(role, r)
        <5>1. Registered(role)'
          BY <2>1, <3>1, <2>5 DEF Written, Registered, RegisterCheckpoint
        <5>2. CASE Registered(role)
          BY <5>2 DEF Registered, Written
        <5>3. CASE role = Role
          BY <3>1, <5>3 DEF RegisterCheckpoint, Barrier, Written
        <5> QED BY <3>1, <5>1, <5>2, <5>3, RegisteredNext
      <4>2. WholeAt(role, current_param_version, r)
        BY <2>2, <2>5, <4>1 DEF KeptInv
      <4> QED BY <2>1, <2>3, <2>5, <3>1, <4>2 DEF WholeAt
    <3>2. CASE EnsureCapacity
      <4>1. stage = "room" /\ stage' = "shards" /\ saving' = saving /\ writing' = Idle
        BY <3>2 DEF EnsureCapacity
      <4>2. Written(role, r) /\ Registered(role)
        BY <2>5, <4>1 DEF Written, Idle, Registered
      <4>3. role # Role
        BY <4>1, <4>2, NotYetRegistered
      <4>4. shard'[role][current_param_version][r] = shard[role][current_param_version][r]
        BY <2>5, <3>2, <4>3, Asked, Retained
      <4>5. WholeAt(role, current_param_version, r)
        BY <2>2, <2>5, <4>2 DEF KeptInv
      <4> QED BY <2>1, <4>4, <4>5 DEF WholeAt
    <3> QED BY <1>5, <3>1, <3>2
  <2> QED BY <2>1, <2>4, <2>5 DEF KeptInv
<1>6. ASSUME NEW rank \in Ranks, OpenShard(rank) \/ CloseShard(rank) PROVE KeptInv'
  <2>1. /\ UNCHANGED <<data, tracker, current_param_version, stage, saving, final, weights,
                       previous_saved_paths>>
        /\ stage = "shards"
    BY <1>6 DEF OpenShard, CloseShard, stepVars
  <2> SUFFICES ASSUME Guarded' PROVE KeptInv'
    BY DEF KeptInv
  <2>2. Guarded
    BY <1>0, <2>1 DEF Guarded, Keep
  <2> DEFINE w == IF OpenShard(rank) THEN Torn ELSE Whole(weights[Role][rank])
  <2>3. \A role \in RoleSet, v \in Versions, r \in Ranks :
           shard'[role][v][r] = IF role = Role /\ v = current_param_version /\ r = rank
                                  THEN w ELSE shard[role][v][r]
    <3>1. Torn \in Shards /\ Whole(weights[Role][rank]) \in Shards
      BY RolesFacts DEF Role, Torn, Whole, Shards, TypeInv
    <3>2. w \in Shards /\ Wrote(rank, w)
      BY <1>6, <3>1 DEF OpenShard, CloseShard, Wrote
    <3> HIDE DEF w
    <3> QED BY <3>2, OneFile
  <2>4. Tracked' => (Restorable(tracker) \/ Overtaken)' /\ tracker' < current_param_version'
    <3>1. Tracked => (Restorable(tracker) \/ Overtaken) /\ tracker < current_param_version
      BY <2>1, <2>2 DEF KeptInv, Saving
    <3>2. Tracked => tracker # current_param_version
      BY <1>0, <3>1 DEF Tracked
    <3>3. Tracked => \A role \in RoleSet, r \in Ranks :
             shard'[role][tracker][r] = shard[role][tracker][r]
      BY <2>3, <3>2 DEF Tracked
    <3>4. Tracked /\ Restorable(tracker) => Restorable(tracker)'
      BY <2>1, <3>3 DEF Tracked, Restorable, Loadable
    <3>5. Overtaken' <=> Overtaken
      BY <1>a, <2>1
    <3> QED BY <2>1, <3>1, <3>4, <3>5 DEF Tracked
  <2>5. ASSUME current_param_version \in Versions, NEW role \in RoleSet, NEW r \in Ranks,
               Written(role, r)'
        PROVE  WholeAt(role, current_param_version, r)'
    <3>1. writing' = [writing EXCEPT ![rank] = IF OpenShard(rank) THEN "open" ELSE "done"]
      BY <1>6 DEF OpenShard, CloseShard
    <3>2. writing'[rank] = (IF OpenShard(rank) THEN "open" ELSE "done")
          /\ \A k \in Ranks : k # rank => writing'[k] = writing[k]
      BY <3>1 DEF TypeInv
    <3>3. CASE role = Role /\ r = rank
      <4>1. ~Registered(role)
        BY <2>1, <3>3, NotYetRegistered
      <4>2. writing'[rank] = "done"
        BY <2>1, <2>5, <3>3, <4>1 DEF Written, Registered, Role
      <4>3. ~OpenShard(rank)
        BY <3>2, <4>2
      <4>4. w.state = "whole"
        BY <4>3 DEF Whole
      <4> QED BY <2>1, <2>3, <2>5, <3>3, <4>4 DEF WholeAt
    <3>4. CASE ~(role = Role /\ r = rank)
      <4>1. Written(role, r)
        BY <2>1, <2>5, <3>2, <3>4 DEF Written, Role
      <4>2. WholeAt(role, current_param_version, r)
        BY <2>2, <2>5, <4>1 DEF KeptInv
      <4> QED BY <2>1, <2>3, <2>5, <3>4, <4>2 DEF WholeAt
    <3> QED BY <3>3, <3>4
  <2> QED BY <2>1, <2>4, <2>5 DEF KeptInv
<1>7. CASE OpenData \/ CloseData
  <2>1. /\ UNCHANGED <<tracker, current_param_version, saving, final, shard, previous_saved_paths>>
        /\ \/ stage = "data" /\ stage' = "data_open"
              /\ data' = [data EXCEPT ![current_param_version] = TornFile]
           \/ stage = "data_open" /\ stage' = "track"
              /\ data' = [data EXCEPT ![current_param_version] = fed]
    BY <1>7 DEF OpenData, CloseData, saveVars, stepVars
  <2> SUFFICES ASSUME Guarded' PROVE KeptInv'
    BY DEF KeptInv
  <2>2. Guarded
    BY <1>0, <2>1 DEF Guarded, Keep
  <2>3. Tracked => (Restorable(tracker) \/ Overtaken) /\ tracker < current_param_version
    BY <2>1, <2>2 DEF KeptInv, Saving
  <2>4. Tracked => tracker # current_param_version
    BY <1>0, <2>3 DEF Tracked
  <2>5. Tracked => data'[tracker] = data[tracker]
    BY <2>1, <2>4 DEF Tracked, TypeInv
  <2>6. Tracked' => (Restorable(tracker) \/ Overtaken)' /\ tracker' < current_param_version'
    <3>1. Tracked /\ Restorable(tracker) => Restorable(tracker)'
      BY <2>1, <2>5 DEF Tracked, Restorable, Loadable
    <3>2. Overtaken' <=> Overtaken
      BY <1>a, <2>1
    <3> QED BY <2>1, <2>3, <3>1, <3>2 DEF Tracked
  <2>7. stage' = "track" /\ current_param_version \in Versions => data'[current_param_version] \in Nat
    BY <2>1 DEF TypeInv
  <2>8. current_param_version \in Versions =>
           \A role \in RoleSet, r \in Ranks : WholeAt(role, current_param_version, r)'
    BY <2>1, <2>2 DEF KeptInv, Written, WholeAt
  <2> QED BY <2>1, <2>6, <2>7, <2>8 DEF KeptInv
<1>8. CASE OpenTracker
  <2>1. /\ stage = "track" /\ stage' = "track_open" /\ tracker' = TornFile
        /\ UNCHANGED <<current_param_version, saving, final, shard, data>>
    BY <1>8 DEF OpenTracker, saveVars, stepVars
  <2>2. ~Tracked' /\ (Guarded' => Guarded)
    BY <1>0, <2>1 DEF Tracked, Guarded, Keep
  <2>3. \A role \in RoleSet, r \in Ranks : Written(role, r)
    BY <2>1 DEF Written
  <2> QED BY <2>1, <2>2, <2>3 DEF KeptInv, WholeAt
<1>9. CASE CloseTracker
  <2>1. /\ stage = "track_open" /\ tracker' = current_param_version
        /\ UNCHANGED <<current_param_version, final, shard, data>>
        /\ stage' \in {"ended", "train"}
    BY <1>9 DEF CloseTracker, AfterSave, saveVars, stepVars
  <2> SUFFICES ASSUME Guarded' PROVE KeptInv'
    BY DEF KeptInv
  <2>2. Guarded
    BY <1>0, <2>1 DEF Guarded, Keep
  <2>3. current_param_version \in Versions =>
           /\ data[current_param_version] \in Nat
           /\ \A role \in RoleSet, r \in Ranks : WholeAt(role, current_param_version, r)
    BY <2>1, <2>2 DEF KeptInv, Written
  <2>4. current_param_version \in Versions =>
           data[current_param_version] # TornFile /\ data[current_param_version] # NoFile
    BY <1>0, <2>3
  <2>5. Tracked' => Restorable(tracker)'
    BY <2>1, <2>3, <2>4 DEF Tracked, Restorable, Loadable, WholeAt
  <2> QED BY <2>1, <2>5 DEF KeptInv, Saving, Written
<1>10. CASE LoadNothing \/ LoadCheckpoint
  <2>1. /\ stage = "load" /\ stage' = "train" /\ UNCHANGED <<tracker, shard, data>>
        /\ tracker \in Versions => Loadable(tracker) \/ ~Folder(tracker)
    BY <1>0, <1>10 DEF LoadNothing, LoadCheckpoint, disk
  <2>2. Tracked => data[tracker] # NoFile
    BY DEF MemoryInv
  <2>3. Tracked => Restorable(tracker)
    BY <2>1, <2>2 DEF Tracked, Folder, Restorable
  <2>4. Tracked' => Restorable(tracker)'
    BY <2>1, <2>3 DEF Tracked, Restorable, Loadable
  <2> QED BY <2>1, <2>4 DEF KeptInv, Saving, Written
<1>11. CASE LoadFails \/ Crash
  <2>1. stage' \in Lost
    BY <1>0, <1>11 DEF LoadFails, Crash
  <2> QED BY <2>1 DEF KeptInv, Guarded, Lost
<1> QED BY <1>2, <1>3, <1>4, <1>5, <1>6, <1>7, <1>8, <1>9, <1>10, <1>11, Cases

CrashInv == Inv /\ PathType /\ (InStep => PathInv /\ KeptInv)

LEMMA CrashInvariant == Spec => []CrashInv
<1>1. Init => CrashInv
  <2> SUFFICES ASSUME Init PROVE CrashInv
    OBVIOUS
  <2>1. Inv
    BY InvInit
  <2>2. PathType /\ stage = "load" /\ previous_saved_paths = NoPaths /\ ~final
    BY DEF Init, PathType, NoPaths
  <2>3. PathInv /\ KeptInv
    BY <2>2 DEF PathInv, KeptInv, Guarded, Lost
  <2> QED BY <2>1, <2>2, <2>3 DEF CrashInv
<1>2. CrashInv /\ [Next]_vars => CrashInv'
  <2> SUFFICES ASSUME CrashInv, [Next]_vars PROVE CrashInv'
    OBVIOUS
  <2>1. Inv /\ Inv' /\ TypeInv /\ TypeInv' /\ PathType /\ PathType'
    BY InvStep, PathTypeStep DEF CrashInv, Inv
  <2>2. InStep' => InStep
    BY ConfigStays DEF InStep
  <2>3. ASSUME InStep PROVE PathInv' /\ KeptInv'
    <3>1. MemoryInv /\ PathInv /\ KeptInv
      BY <2>3 DEF CrashInv, Inv
    <3>2. PathInv'
      BY <2>1, <2>3, <3>1, PathStep
    <3>3. KeptInv'
      BY <2>1, <2>3, <3>1, KeptStep
    <3> QED BY <3>2, <3>3
  <2> QED BY <2>1, <2>2, <2>3 DEF CrashInv
<1> QED BY <1>1, <1>2, PTL DEF Spec

(* From the first save on, whichever step of the training loop the job is  *)
(* lost at, the checkpoint its tracker names is complete: the retention    *)
(* frees only versions older than that one, before a save and after it,    *)
(* unless one checkpoint is kept and a newer one is registered already.    *)
THEOREM CrashFindsOne == Spec => []CrashKeepsOne
<1>1. CrashInv => CrashKeepsOne
  BY DEF CrashInv, KeptInv, CrashKeepsOne, Guarded, Lost, Tracked
<1> QED BY <1>1, CrashInvariant, PTL

-----------------------------------------------------------------------------
(* The checkpoints on disk                                                 *)

(* What one life of the job may leave.                                     *)
PerLife == IF Keep = 1 THEN 2 ELSE Keep

Current(role) == IF stage = "shards" /\ role = Role THEN {current_param_version} ELSE {}

(* What lives before this one left, what this one has registered, and what *)
(* it is writing.                                                          *)
Left(role, old) ==
    /\ old \subseteq Versions /\ Cardinality(old) <= crashes * PerLife
    /\ OnDisk(role) \subseteq old \cup Range(Paths(role)) \cup Current(role)
DiskInv ==
    /\ crashes \in Nat
    /\ Keep > 0 => \A role \in RoleSet :
          /\ Len(Paths(role)) <= Keep
          /\ stage = "shards" /\ role = Role => Len(Paths(role)) < PerLife
          /\ \E old : Left(role, old)

LEMMA FewPaths ==
    ASSUME NEW p \in Seq(Nat)
    PROVE  IsFiniteSet(Range(p)) /\ Cardinality(Range(p)) <= Len(p)
<1> DEFINE n == Len(p)
           S == 1..n
           T == Range(p)
<1>1. n \in Nat /\ DOMAIN p = 1..n
  BY LenProperties
<1>2. p \in Surjection(1..n, Range(p))
  <2>1. p \in [1..n -> Nat]
    BY LenProperties
  <2>2. Range(p) = {p[i] : i \in 1..n}
    BY <1>1 DEF Range
  <2> HIDE DEF n
  <2>3. p \in [1..n -> Range(p)]
    BY <2>1, <2>2
  <2>4. \A x \in Range(p) : \E i \in 1..n : p[i] = x
    BY <2>2
  <2> QED BY <2>3, <2>4 DEF Surjection
<1>3. IsFiniteSet(1..n) /\ Cardinality(1..n) = n
  <2>1. 1 \in Int /\ n \in Int /\ n \in Nat
    BY <1>1
  <2> HIDE DEF n
  <2>2. IsFiniteSet(1..n) /\ Cardinality(1..n) = IF 1 > n THEN 0 ELSE n - 1 + 1
    BY <2>1, FS_Interval
  <2>3. (IF 1 > n THEN 0 ELSE n - 1 + 1) = n
    BY <2>1
  <2> QED BY <2>2, <2>3
<1>4. p \in Surjection(S, T) /\ IsFiniteSet(S) /\ Cardinality(S) = n
  BY <1>2, <1>3
<1> HIDE DEF S, T
<1>5. IsFiniteSet(T) /\ Cardinality(T) <= Cardinality(S)
  BY <1>4, FS_Surjection
<1> QED BY <1>4, <1>5 DEF T

LEMMA FewInUnion ==
    ASSUME NEW S, NEW T, IsFiniteSet(S), IsFiniteSet(T), NEW a \in Nat, NEW b \in Nat,
           Cardinality(S) <= a, Cardinality(T) <= b
    PROVE  IsFiniteSet(S \cup T) /\ Cardinality(S \cup T) <= a + b
<1>1. /\ IsFiniteSet(S \cup T)
      /\ Cardinality(S \cup T) = Cardinality(S) + Cardinality(T) - Cardinality(S \cap T)
  BY FS_Union
<1>2. IsFiniteSet(S \cap T)
  BY FS_Intersection
<1>3. Cardinality(S) \in Nat /\ Cardinality(T) \in Nat /\ Cardinality(S \cap T) \in Nat
  BY <1>2, FS_CardinalityType
<1> QED BY <1>1, <1>3

LEMMA Bounded ==
    ASSUME TypeInv, PathType, DiskInv, Keep > 0, NEW role \in RoleSet
    PROVE  Cardinality(OnDisk(role)) <= (crashes + 1) * PerLife
<1> DEFINE p == Paths(role)
           n == Len(p)
           m == crashes * PerLife
<1>1. PICK old : Left(role, old)
  BY DEF DiskInv
<1>2. p \in Seq(Nat)
  BY DEF PathType, Paths
<1>3. n \in Nat /\ Keep \in Nat /\ PerLife \in Nat /\ crashes \in Nat
  BY <1>2, LenProperties DEF TypeInv, Keep, PerLife, DiskInv
<1>4. m \in Nat /\ (crashes + 1) * PerLife = m + PerLife
  BY <1>3
<1>5. IsFiniteSet(old) /\ Cardinality(old) <= m
  <2>1. IsFiniteSet(Versions)
    <3>1. Steps + MaxCrashes \in Int
      BY CheckpointAssumption DEF Steps
    <3> QED BY <3>1, FS_Interval DEF Versions
  <2> QED BY <1>1, <2>1, FS_Subset DEF Left
<1>6. IsFiniteSet(Range(p)) /\ Cardinality(Range(p)) <= n
  BY <1>2, FewPaths
<1> HIDE DEF p, n, m
<1>7. \E c \in {0, 1} :
         /\ IsFiniteSet(Current(role)) /\ Cardinality(Current(role)) = c
         /\ n + c <= PerLife
  <2>1. n <= Keep /\ (stage = "shards" /\ role = Role => n < PerLife)
    BY DEF DiskInv, n, p
  <2>2. CASE stage = "shards" /\ role = Role
    <3>1. Current(role) = {current_param_version}
      BY <2>2 DEF Current
    <3>2. IsFiniteSet(Current(role)) /\ Cardinality(Current(role)) = 1
      BY <3>1, FS_Singleton
    <3>3. n + 1 <= PerLife
      BY <1>3, <2>1, <2>2
    <3> QED BY <3>2, <3>3
  <2>3. CASE ~(stage = "shards" /\ role = Role)
    <3>1. Current(role) = {}
      BY <2>3 DEF Current
    <3>2. IsFiniteSet(Current(role)) /\ Cardinality(Current(role)) = 0
      BY <3>1, FS_EmptySet
    <3>3. n + 0 <= PerLife
      BY <1>3, <2>1 DEF PerLife
    <3> QED BY <3>2, <3>3
  <2> QED BY <2>2, <2>3
<1>8. PICK c \in {0, 1} : /\ IsFiniteSet(Current(role)) /\ Cardinality(Current(role)) = c
                          /\ n + c <= PerLife
  BY <1>7
<1> DEFINE S == old \cup Range(p)
           T == S \cup Current(role)
<1>9. IsFiniteSet(S) /\ Cardinality(S) <= m + n
  BY <1>3, <1>4, <1>5, <1>6, FewInUnion
<1>10. m + n \in Nat /\ c \in Nat /\ Cardinality(Current(role)) <= c
  BY <1>3, <1>4, <1>8
<1> HIDE DEF S
<1>11. IsFiniteSet(T) /\ Cardinality(T) <= m + n + c
  BY <1>8, <1>9, <1>10, FewInUnion
<1>12. OnDisk(role) \in SUBSET T
  BY <1>1 DEF Left, S, p
<1> HIDE DEF T
<1>13. Cardinality(OnDisk(role)) <= Cardinality(T)
       /\ Cardinality(OnDisk(role)) \in Nat /\ Cardinality(T) \in Nat
  BY <1>11, <1>12, FS_Subset, FS_CardinalityType
<1> QED BY <1>3, <1>4, <1>8, <1>10, <1>11, <1>13

LEMMA DiskStep ==
    ASSUME TypeInv, TypeInv', PathType, PathType', DiskInv, [Next]_vars
    PROVE  DiskInv'
<1>0. UNCHANGED max_ckpt_to_keep /\ Keep \in Nat /\ Keep' = Keep /\ PerLife' = PerLife
      /\ (Keep > 0 => Keep <= PerLife)
  BY ConfigStays DEF Keep, PerLife, TypeInv
<1>1. ASSUME UNCHANGED <<previous_saved_paths, crashes>>,
             \A role \in RoleSet : OnDisk(role)' \subseteq OnDisk(role) \cup Current(role),
             \/ UNCHANGED <<stage, saving, current_param_version>>
             \/ stage # "shards" /\ stage' # "shards"
      PROVE  DiskInv'
  <2>1. \A role \in RoleSet : Paths(role)' = Paths(role) /\ Current(role)' = Current(role)
    BY <1>1 DEF Paths, Current, Role
  <2>2. \A role \in RoleSet : \A old : Left(role, old) => Left(role, old)'
    BY <1>0, <1>1, <2>1 DEF Left
  <2>3. stage' = "shards" => stage = "shards" /\ Role' = Role
    BY <1>1 DEF Role
  <2> HIDE DEF Paths, Left
  <2> QED BY <1>0, <1>1, <2>1, <2>2, <2>3 DEF DiskInv
<1>2. ASSUME UNCHANGED shard PROVE \A role \in RoleSet : OnDisk(role)' = OnDisk(role)
  BY <1>2 DEF OnDisk
<1>3. CASE FeedSample \/ FeedEnd \/ Halted \/ UNCHANGED vars
  <2>1. UNCHANGED <<previous_saved_paths, crashes, shard, stage, saving, current_param_version>>
    BY <1>3 DEF FeedSample, FeedEnd, Halted, vars, saveVars, stepVars, disk
  <2> QED BY <1>1, <1>2, <2>1
<1>4. CASE FinishFit \/ FitStep
  <2>1. /\ UNCHANGED <<previous_saved_paths, crashes, shard>> /\ stage = "train"
        /\ stage' \in {"train", "room", "failed", "ended"}
    BY <1>4 DEF FinishFit, FitStep, BeginSave, AfterSave, disk
  <2> QED BY <1>1, <1>2, <2>1
<1>5. CASE OpenData \/ CloseData \/ OpenTracker \/ CloseTracker
           \/ LoadNothing \/ LoadFails \/ LoadCheckpoint
  <2>1. /\ UNCHANGED <<previous_saved_paths, crashes, shard>>
        /\ stage # "shards" /\ stage' # "shards"
    BY <1>5 DEF OpenData, CloseData, OpenTracker, CloseTracker, AfterSave, LoadNothing, LoadFails,
                LoadCheckpoint, disk
  <2> QED BY <1>1, <1>2, <2>1
<1>6. ASSUME NEW rank \in Ranks, OpenShard(rank) \/ CloseShard(rank) PROVE DiskInv'
  <2>1. /\ UNCHANGED <<previous_saved_paths, crashes, stage, saving, current_param_version>>
        /\ stage = "shards"
    BY <1>6 DEF OpenShard, CloseShard, stepVars
  <2> DEFINE w == IF OpenShard(rank) THEN Torn ELSE Whole(weights[Role][rank])
  <2>2. \A role \in RoleSet, v \in Versions, r \in Ranks :
           shard'[role][v][r] = IF role = Role /\ v = current_param_version /\ r = rank
                                  THEN w ELSE shard[role][v][r]
    <3>1. Torn \in Shards /\ Whole(weights[Role][rank]) \in Shards
      BY RolesFacts DEF Role, Torn, Whole, Shards, TypeInv
    <3>2. w \in Shards /\ Wrote(rank, w)
      BY <1>6, <3>1 DEF OpenShard, CloseShard, Wrote
    <3> HIDE DEF w
    <3> QED BY <3>2, OneFile
  <2> HIDE DEF w
  <2>3. \A role \in RoleSet : OnDisk(role)' \subseteq OnDisk(role) \cup Current(role)
    BY <2>1, <2>2 DEF OnDisk, Current
  <2> QED BY <1>1, <2>1, <2>3
<1>7. ASSUME NEW paths \in Seq(Nat), NEW n \in 0..Len(paths), Retain(n, paths),
             UNCHANGED <<crashes, current_param_version>>,
             stage \in {"room", "shards"}, stage' \in {"room", "shards", "data"},
             stage' = "shards" => saving' = saving /\ n < PerLife,
             Keep > 0 => n <= Keep,
             Range(Paths(Role)) \cup Current(Role) \subseteq Range(paths),
             \A role \in RoleSet : role # Role => Current(role) = {}
      PROVE  DiskInv'
  <2>3. PICK R \in RoleSet : R = Role
    BY Asked
  <2>1. /\ \A role \in RoleSet : role # R => previous_saved_paths'[role] = Paths(role)
        /\ Len(previous_saved_paths'[R]) = n
        /\ \A i \in 1..n : previous_saved_paths'[R][i] = paths[Len(paths) - n + i]
        /\ \A role \in RoleSet, v \in Versions, r \in Ranks :
              \/ shard'[role][v][r] = shard[role][v][r]
              \/ shard'[role][v][r] = Missing
        /\ \A v \in Versions, r \in Ranks, i \in 1..Len(paths) - n :
              v = paths[i] => shard'[R][v][r] = Missing
    BY <1>7, <2>3, Retained
  <2>2. stage' = "shards" => Role' = R
    BY <1>7, <2>3 DEF Role
  <2>4. \A role \in RoleSet : OnDisk(role)' \subseteq OnDisk(role)
    BY <2>1 DEF OnDisk
  <2>5. OnDisk(R)' \cap Range(paths) \subseteq Range(previous_saved_paths'[R])
    <3> SUFFICES ASSUME NEW v \in OnDisk(R)', v \in Range(paths)
                 PROVE  v \in Range(previous_saved_paths'[R])
      OBVIOUS
    <3>1. previous_saved_paths'[R] \in Seq(Nat)
      BY <2>3 DEF PathType
    <3>2. /\ DOMAIN paths = 1..Len(paths) /\ Len(paths) \in Nat /\ n \in Nat
          /\ DOMAIN previous_saved_paths'[R] = 1..n
      BY <1>7, <2>1, <3>1, LenProperties
    <3>3. PICK j \in 1..Len(paths) : v = paths[j]
      BY <3>2 DEF Range
    <3>4. j \notin 1..Len(paths) - n
      <4>1. PICK r \in Ranks : shard'[R][v][r] # Missing
        BY DEF OnDisk
      <4> QED BY <2>1, <3>3, <4>1 DEF OnDisk
    <3>5. j - (Len(paths) - n) \in 1..n
          /\ Len(paths) - n + (j - (Len(paths) - n)) = j
      BY <3>2, <3>4
    <3>6. previous_saved_paths'[R][j - (Len(paths) - n)] = v
      BY <2>1, <3>3, <3>5
    <3> QED BY <3>2, <3>5, <3>6 DEF Range
  <2> SUFFICES ASSUME Keep > 0, NEW role \in RoleSet
               PROVE  /\ Len(Paths(role)') <= Keep
                      /\ stage' = "shards" /\ role = Role' => Len(Paths(role)') < PerLife
                      /\ \E old : Left(role, old)'
    BY <1>0, <1>7 DEF DiskInv
  <2>6. PICK old : Left(role, old)
    BY DEF DiskInv
  <2>7. /\ old \subseteq Versions /\ Cardinality(old) <= crashes' * PerLife
        /\ OnDisk(role)' \subseteq OnDisk(role)
        /\ OnDisk(role) \subseteq old \cup Range(Paths(role)) \cup Current(role)
    BY <1>7, <2>4, <2>6 DEF Left
  <2>8. CASE role = R
    <3>1. OnDisk(role)' \subseteq old \cup Range(previous_saved_paths'[R])
      BY <1>7, <2>3, <2>5, <2>7, <2>8
    <3>2. Left(role, old)'
      BY <1>0, <2>7, <2>8, <3>1 DEF Left, Paths
    <3> QED BY <1>7, <2>1, <2>8, <3>2 DEF Paths
  <2>9. CASE role # R
    <3>1. Paths(role)' = Paths(role)
      BY <2>1, <2>9 DEF Paths
    <3>2. Current(role) = {}
      BY <1>7, <2>3, <2>9
    <3>3. Left(role, old)'
      BY <1>0, <2>7, <3>1, <3>2 DEF Left
    <3>4. Len(Paths(role)) <= Keep
      BY DEF DiskInv
    <3> QED BY <2>2, <2>9, <3>1, <3>3, <3>4
  <2> QED BY <2>8, <2>9
<1>8. CASE EnsureCapacity
  <2>1. /\ UNCHANGED <<crashes, current_param_version, saving>>
        /\ stage = "room" /\ stage' = "shards"
    BY <1>8 DEF EnsureCapacity, stepVars
  <2>2. \A role \in RoleSet : Current(role) = {}
    BY <2>1 DEF Current
  <2>3. Paths(Role) \in Seq(Nat) /\ RoomLeft \in 0..Len(Paths(Role)) /\ Retain(RoomLeft, Paths(Role))
        /\ Len(Paths(Role)) \in Nat /\ Role \in RoleSet
    BY <1>8, Asked
  <2>4. CASE Keep > 0
    <3>1. Len(Paths(Role)) <= Keep
      BY <2>3, <2>4 DEF DiskInv
    <3>2. RoomLeft <= Keep /\ RoomLeft < PerLife
      BY <1>0, <2>3, <2>4, <3>1 DEF RoomLeft, RoomFor, PerLife
    <3> QED BY <1>7, <2>1, <2>2, <2>3, <3>2
  <2>5. CASE ~(Keep > 0)
    BY <1>0, <2>1, <2>5 DEF DiskInv
  <2> QED BY <2>4, <2>5
<1>9. CASE RegisterCheckpoint
  <2>1. /\ UNCHANGED <<crashes, current_param_version>>
        /\ stage = "shards" /\ stage' \in {"room", "data"}
    BY <1>9 DEF RegisterCheckpoint, stepVars
  <2>2. Current(Role) = {current_param_version}
        /\ \A role \in RoleSet : role # Role => Current(role) = {}
    BY <2>1 DEF Current
  <2>3. Put \in Seq(Nat) /\ PutLeft \in 0..Len(Put) /\ Retain(PutLeft, Put)
        /\ Paths(Role) \in Seq(Nat) /\ Len(Put) = Len(Paths(Role)) + 1 /\ Len(Paths(Role)) \in Nat
    BY <1>9, Asked
  <2>4. Range(Paths(Role)) \cup Current(Role) \subseteq Range(Put)
    <3> DEFINE p == Paths(Role)
               v == current_param_version
    <3>1. p \in Seq(Nat) /\ v \in Nat /\ Put = Append(p, v)
      BY <2>3 DEF TypeInv, Put
    <3> HIDE DEF p, v
    <3>2. Range(p) \cup {v} \subseteq Range(Append(p, v))
      BY <3>1 DEF Range
    <3> QED BY <2>2, <3>1, <3>2 DEF p, v
  <2>5. CASE Keep > 0
    <3>1. PutLeft <= Keep
      BY <1>0, <2>3, <2>5 DEF PutLeft
    <3> QED BY <1>7, <2>1, <2>2, <2>3, <2>4, <3>1
  <2>6. CASE ~(Keep > 0)
    BY <1>0, <2>1, <2>6 DEF DiskInv
  <2> QED BY <2>5, <2>6
<1>10. CASE Crash
  <2>1. /\ crashes' = crashes + 1 /\ stage' = "load" /\ previous_saved_paths' = NoPaths
        /\ shard' = shard /\ crashes \in Nat
    BY <1>10 DEF Crash, disk, DiskInv
  <2> SUFFICES ASSUME Keep > 0, NEW role \in RoleSet
               PROVE  Len(Paths(role)') <= Keep /\ Left(role, OnDisk(role))'
    BY <1>0, <2>1 DEF DiskInv
  <2>2. Len(Paths(role)') = 0
    BY <2>1 DEF Paths, NoPaths
  <2>3. Cardinality(OnDisk(role)) <= (crashes + 1) * PerLife
    BY Bounded
  <2>4. OnDisk(role)' = OnDisk(role) /\ OnDisk(role) \subseteq Versions
    BY <2>1 DEF OnDisk
  <2>5. Left(role, OnDisk(role))'
    BY <1>0, <2>1, <2>3, <2>4 DEF Left
  <2> QED BY <1>0, <2>2, <2>5
<1> QED BY <1>3, <1>4, <1>5, <1>6, <1>8, <1>9, <1>10, Cases

DisksInv == TypeInv /\ PathType /\ DiskInv

(* A life of the job leaves no more checkpoints of a role than it may keep *)
(* -- or two, when it may keep one: the new one is written before the old  *)
(* one is removed -- and the lives before it no more than that each.       *)
THEOREM DiskIsBounded == Spec => []RetentionBound
<1>1. Init => DisksInv
  <2> SUFFICES ASSUME Init PROVE DisksInv
    OBVIOUS
  <2>1. TypeInv /\ PathType
    BY TypeInit DEF Init, PathType, NoPaths
  <2>2. Keep \in Nat /\ PerLife \in Nat /\ crashes = 0 /\ crashes * PerLife = 0
    BY <2>1 DEF Init, TypeInv, Keep, PerLife
  <2>3. \A role \in RoleSet : Len(Paths(role)) = 0 /\ OnDisk(role) = {} /\ stage = "load"
    BY DEF Init, Paths, NoPaths, OnDisk
  <2>4. \A role \in RoleSet : Left(role, {})
    BY <2>2, <2>3, FS_EmptySet DEF Left
  <2>5. \A role \in RoleSet : \E old : Left(role, old)
    BY <2>4
  <2> HIDE DEF Left, Paths
  <2> QED BY <2>1, <2>2, <2>3, <2>5 DEF DisksInv, DiskInv
<1>2. DisksInv /\ [Next]_vars => DisksInv'
  BY TypeStep, PathTypeStep, DiskStep DEF DisksInv
<1>3. DisksInv => RetentionBound
  BY Bounded DEF DisksInv, RetentionBound, PerLife
<1> QED BY <1>1, <1>2, <1>3, PTL DEF Spec

-----------------------------------------------------------------------------
(* What a run trains                                                       *)

(* The samples that are trained or on their way, and the most there may be *)
(* of those that are trained.                                              *)
Samples == current_param_version * RequiredSamples + Cardinality(flight)
Most    == Steps * RequiredSamples + crashes

(* The feeder goes on until the total or the end of the data; resumed      *)
(* where the total was reached, it puts one more before it looks.          *)
RunInv ==
    /\ crashes \in Nat
    /\ stage \notin Lost =>
          IF feeding
            THEN rollout_steps = Samples + 1
                 /\ (Samples + 1 <= TotalRolloutSteps \/ Samples + 1 <= Most)
            ELSE (Samples >= TotalRolloutSteps \/ left = 0)
                 /\ (Samples <= TotalRolloutSteps \/ Samples <= Most)
    /\ stage = "load" =>
          rollout_steps = 1 /\ feeding /\ (Tracked => tracker * RequiredSamples + 1 <= Most)
    /\ stage \in {"ended", "failed"} \/ (Saving /\ final)
          => ~feeding /\ Cardinality(flight) < RequiredSamples

(* The dataloader is ahead of the updates by what is on its way, and by    *)
(* what was when the job was lost; it goes on to the end of an epoch.      *)
Saves == IF stage = "load" THEN crashes ELSE crashes + 1
DataInv ==
    /\ stage = "load" => fed = 0 /\ left = AllData
    /\ stage \notin Lost => fed + left >= AllData /\ fed <= Samples + crashes * Lead
    /\ Cardinality(flight) <= Lead
    /\ \A v \in Versions : data[v] \in Nat => data[v] <= v * RequiredSamples + Saves * Lead

LEMMA Product == ASSUME NEW a \in Nat, NEW b \in Nat PROVE a * b \in Nat
OBVIOUS

LEMMA Monotone ==
    ASSUME NEW a \in Nat, NEW b \in Nat, NEW r \in Nat, a <= b
    PROVE  a * r <= b * r
OBVIOUS

LEMMA Quotient ==
    ASSUME NEW a \in Nat, NEW b \in Nat \ {0}
    PROVE  a \div b \in Nat /\ (a \div b) * b <= a /\ a < (a \div b + 1) * b
OBVIOUS

(* A number of versions within the total is one of the versions asked for. *)
LEMMA StepsFacts ==
    ASSUME NEW v \in Nat
    PROVE  /\ Steps \in Nat /\ Steps * RequiredSamples \in Nat /\ v * RequiredSamples \in Nat
           /\ Steps * RequiredSamples <= TotalRolloutSteps
           /\ v * RequiredSamples <= TotalRolloutSteps
                 => v * RequiredSamples <= Steps * RequiredSamples
           /\ (v + 1) * RequiredSamples > TotalRolloutSteps
                 => v * RequiredSamples >= Steps * RequiredSamples
           /\ (v + 1) * RequiredSamples = v * RequiredSamples + RequiredSamples
<1> DEFINE R == RequiredSamples
           T == TotalRolloutSteps
           s == T \div R
<1>1. R \in Nat \ {0} /\ T \in Nat
  BY CheckpointAssumption
<1>2. s = Steps
  BY DEF Steps
<1> HIDE DEF R, T
<1>3. s \in Nat /\ s * R <= T /\ T < (s + 1) * R
  BY <1>1, Quotient
<1> HIDE DEF s
<1>4. s * R \in Nat /\ v * R \in Nat
  BY <1>1, <1>3, Product
<1>5. v * R <= T => v * R <= s * R
  <2> SUFFICES ASSUME v * R <= T PROVE v * R <= s * R
    OBVIOUS
  <2>1. CASE v <= s
    BY <1>1, <1>3, <2>1, Monotone
  <2>2. CASE s + 1 <= v
    <3>1. (s + 1) * R <= v * R
      BY <1>1, <1>3, <2>2, Monotone
    <3>2. (s + 1) * R \in Nat
      BY <1>1, <1>3, Product
    <3> QED BY <1>1, <1>3, <1>4, <3>1, <3>2
  <2> QED BY <1>3, <2>1, <2>2
<1>6. (v + 1) * R > T => v * R >= s * R
  <2> SUFFICES ASSUME (v + 1) * R > T PROVE v * R >= s * R
    OBVIOUS
  <2>1. CASE s <= v
    <3>1. s * R <= v * R
      BY <1>1, <1>3, <2>1, Monotone
    <3> QED BY <1>4, <3>1
  <2>2. CASE v + 1 <= s
    <3>1. (v + 1) * R <= s * R
      BY <1>1, <1>3, <2>2, Monotone
    <3>2. (v + 1) * R \in Nat
      BY <1>1, Product
    <3> QED BY <1>1, <1>3, <1>4, <3>1, <3>2
  <2> QED BY <1>3, <2>1, <2>2
<1>7. (v + 1) * R = v * R + R
  BY <1>1
<1>8. Steps \in Nat /\ Steps * R \in Nat /\ v * R \in Nat /\ Steps * R <= T
  BY <1>2, <1>3, <1>4
<1>9. v * R <= T => v * R <= Steps * R
  BY <1>2, <1>5
<1>10. (v + 1) * R > T => v * R >= Steps * R
  BY <1>2, <1>6
<1>11. Steps \in Nat /\ Steps * RequiredSamples \in Nat /\ v * RequiredSamples \in Nat
       /\ Steps * RequiredSamples <= TotalRolloutSteps
  BY <1>8, Zenon DEF R, T
<1>12. v * RequiredSamples <= TotalRolloutSteps
          => v * RequiredSamples <= Steps * RequiredSamples
  BY <1>9, Zenon DEF R, T
<1>13. (v + 1) * RequiredSamples > TotalRolloutSteps
          => v * RequiredSamples >= Steps * RequiredSamples
  BY <1>10, Zenon DEF R, T
<1>14. (v + 1) * RequiredSamples = v * RequiredSamples + RequiredSamples
  BY <1>7, Zenon DEF R
<1> QED BY <1>11, <1>12, <1>13, <1>14, Zenon

LEMMA RunStep ==
    ASSUME TypeInv, TypeInv', InStep, MemoryInv, SampleInv, StepInv, StepInv', RunInv, [Next]_vars
    PROVE  RunInv'
<1> DEFINE v == current_param_version
           f == Cardinality(flight)
           R == RequiredSamples
           T == TotalRolloutSteps
<1>0. /\ Lost = {"load", "broken"} /\ R \in Nat \ {0} /\ T \in Nat \ {0} /\ v \in Nat /\ f \in Nat
      /\ Versions \subseteq Nat /\ crashes \in Nat /\ TornFile \notin Versions
  <2>1. v \in Nat /\ crashes \in Nat
    BY DEF TypeInv, RunInv
  <2>2. f \in Nat
    BY FS_CardinalityType DEF StepInv
  <2> QED BY <2>1, <2>2, CheckpointAssumption, VersionsAreNat DEF Lost, TornFile
<1>a. Samples = v * R + f /\ v * R \in Nat /\ Samples \in Nat /\ Most \in Nat
  BY <1>0, StepsFacts DEF Samples, Most
<1>1. ASSUME UNCHANGED <<current_param_version, flight, feeding, rollout_steps, crashes, left>>,
             stage' \notin Lost => stage \notin Lost, stage' # "load",
             stage' \in {"ended", "failed"} \/ (Saving' /\ final') => ~feeding /\ f < R
      PROVE  RunInv'
  <2>1. Samples' = Samples /\ Most' = Most
    BY <1>1 DEF Samples, Most
  <2> QED BY <1>1, <2>1 DEF RunInv
<1>2. CASE Halted \/ UNCHANGED vars
  <2>1. UNCHANGED <<current_param_version, flight, feeding, rollout_steps, crashes, left,
                    stage, final, tracker>>
    BY <1>2 DEF Halted, vars, saveVars, stepVars, feedVars, disk
  <2>2. Samples' = Samples /\ Most' = Most /\ Saving' = Saving /\ Tracked' = Tracked
    BY <2>1 DEF Samples, Most, Saving, Tracked
  <2> HIDE DEF Samples, Most, Saving, Tracked
  <2> QED BY <2>1, <2>2 DEF RunInv
<1>3. CASE FeedSample
  <2>1. /\ stage \notin Lost /\ stage \notin {"ended", "failed"} /\ feeding
        /\ flight' = flight \cup {fed + 1} /\ feeding' = (rollout_steps < T)
        /\ rollout_steps' = IF feeding' THEN rollout_steps + 1 ELSE rollout_steps
        /\ UNCHANGED <<current_param_version, crashes, stage, final>>
    BY <1>3 DEF FeedSample, Stopped, Lost, saveVars, stepVars
  <2>2. fed + 1 \notin flight
    <3>1. \A s \in flight : s <= fed /\ s \in Nat
      BY DEF SampleInv, TypeInv
    <3>2. fed \in Nat
      BY DEF TypeInv
    <3> QED BY <3>1, <3>2
  <2>3. Cardinality(flight') = f + 1
    BY <2>1, <2>2, FS_AddElement DEF StepInv
  <2>4. Samples' = Samples + 1 /\ Most' = Most
    BY <1>0, <1>a, <2>1, <2>3 DEF Samples, Most
  <2>5. ~(stage' \in {"ended", "failed"} \/ (Saving' /\ final'))
    BY <2>1 DEF RunInv, Saving
  <2>6. rollout_steps = Samples + 1 /\ (Samples + 1 <= T \/ Samples + 1 <= Most)
    BY <2>1 DEF RunInv
  <2>7. CASE Samples + 1 < T
    <3>1. rollout_steps < T
      BY <2>6, <2>7
    <3>2. feeding' /\ rollout_steps' = rollout_steps + 1
      BY <2>1, <3>1
    <3>3. rollout_steps' = Samples' + 1 /\ Samples' + 1 <= T
      BY <1>0, <1>a, <2>4, <2>6, <2>7, <3>2
    <3> QED BY <1>0, <2>1, <2>5, <3>2, <3>3 DEF RunInv
  <2>8. CASE ~(Samples + 1 < T)
    <3>1. ~(rollout_steps < T)
      BY <2>6, <2>8
    <3>2. ~feeding'
      BY <2>1, <3>1
    <3>3. Samples' >= T /\ (Samples' <= T \/ Samples' <= Most')
      BY <1>0, <1>a, <2>4, <2>6, <2>8
    <3> QED BY <1>0, <2>1, <2>5, <3>2, <3>3 DEF RunInv
  <2> QED BY <2>7, <2>8
<1>12. CASE FeedEnd
  <2>1. /\ stage \notin Lost /\ stage \notin {"ended", "failed"} /\ feeding /\ left = 0
        /\ ~feeding' /\ UNCHANGED <<current_param_version, flight, crashes, left, stage, final>>
    BY <1>12 DEF FeedEnd, Stopped, Lost, saveVars, stepVars
  <2>2. Samples' = Samples /\ Most' = Most /\ Saving' = Saving
    BY <2>1 DEF Samples, Most, Saving
  <2>3. ~(Saving /\ final) /\ (Samples + 1 <= T \/ Samples + 1 <= Most)
    BY <2>1 DEF RunInv
  <2>4. Samples <= T \/ Samples <= Most
    BY <1>0, <1>a, <2>3
  <2> HIDE DEF Samples, Most, Saving
  <2> QED BY <1>0, <2>1, <2>2, <2>3, <2>4 DEF RunInv
<1>4. CASE FitStep
  <2>1. /\ stage = "train" /\ stage' \in {"train", "room"} /\ final' = FALSE
        /\ current_param_version' = v + 1 /\ UNCHANGED <<feeding, rollout_steps, crashes, left>>
    BY <1>4, Update DEF FitStep, BeginSave
  <2>2. Cardinality(flight') + R = f
    <3>1. PICK batch \in SUBSET flight : Cardinality(batch) = R /\ flight' = flight \ batch
      BY <1>4 DEF FitStep, kSubset
    <3>2. Cardinality(flight') = f - Cardinality(flight \cap batch)
      BY <3>1, FS_Difference DEF StepInv
    <3>3. flight \cap batch = batch
      BY <3>1
    <3> QED BY <1>0, <3>1, <3>2, <3>3
  <2>3. Samples' = Samples /\ Most' = Most
    <3>1. (v + 1) * R = v * R + R
      BY <1>0, StepsFacts
    <3>2. Cardinality(flight') \in Nat
      BY FS_CardinalityType DEF StepInv
    <3> QED BY <1>0, <1>a, <2>1, <2>2, <3>1, <3>2 DEF Samples, Most
  <2> HIDE DEF v, f
  <2> QED BY <1>0, <2>1, <2>3 DEF RunInv
<1>5. CASE FinishFit
  <2>1. /\ stage = "train" /\ stage' \in {"failed", "room", "ended"} /\ ~feeding /\ f < R
        /\ UNCHANGED <<current_param_version, flight, feeding, rollout_steps, crashes, left>>
    BY <1>5 DEF FinishFit, BeginSave, AfterSave, stepVars, feedVars
  <2> QED BY <1>0, <1>1, <2>1
<1>6. CASE EnsureCapacity \/ RegisterCheckpoint \/ \E r \in Ranks : OpenShard(r) \/ CloseShard(r)
  <2>1. /\ UNCHANGED <<current_param_version, flight, feeding, rollout_steps, crashes, left,
                       final>>
        /\ stage \in {"room", "shards"} /\ stage' \in {"room", "shards", "data"}
    BY <1>6 DEF EnsureCapacity, RegisterCheckpoint, OpenShard, CloseShard, stepVars, feedVars
  <2> QED BY <1>0, <1>1, <2>1 DEF RunInv, Saving
<1>7. CASE OpenData \/ CloseData \/ OpenTracker
  <2>1. /\ UNCHANGED <<current_param_version, flight, feeding, rollout_steps, crashes, left,
                       final>>
        /\ stage \in {"data", "data_open", "track"} /\ stage' \in {"data_open", "track", "track_open"}
    BY <1>7 DEF OpenData, CloseData, OpenTracker, stepVars, feedVars, saveVars
  <2> QED BY <1>0, <1>1, <2>1 DEF RunInv, Saving
<1>8. CASE CloseTracker
  <2>1. /\ UNCHANGED <<current_param_version, flight, feeding, rollout_steps, crashes, left,
                       final>>
        /\ stage = "track_open" /\ stage' = IF final THEN "ended" ELSE "train"
    BY <1>8 DEF CloseTracker, AfterSave, stepVars, feedVars, saveVars
  <2> QED BY <1>0, <1>1, <2>1 DEF RunInv, Saving
<1>9. CASE LoadNothing \/ LoadCheckpoint
  <2>1. /\ stage = "load" /\ stage' = "train" /\ UNCHANGED <<feeding, flight, crashes>>
        /\ \/ current_param_version' = v /\ rollout_steps' = rollout_steps
           \/ /\ Tracked /\ current_param_version' = tracker
              /\ rollout_steps' = tracker * R * trigger_parameter_sync_step + 1
    BY <1>9 DEF LoadNothing, LoadCheckpoint, ResumeSteps, Tracked, stepVars, feedVars
  <2>2. /\ rollout_steps = 1 /\ feeding /\ flight = {} /\ v = 0
        /\ (Tracked => tracker * R + 1 <= Most)
    BY <2>1 DEF RunInv, MemoryInv, StepInv
  <2>3. Cardinality(flight') = 0 /\ Most' = Most
    BY <2>1, <2>2, FS_EmptySet DEF Most
  <2>4. CASE current_param_version' = v /\ rollout_steps' = rollout_steps
    <3>1. 0 * R = 0
      BY <1>0
    <3>2. Samples' = 0
      BY <2>2, <2>3, <2>4, <3>1 DEF Samples
    <3>3. rollout_steps' = Samples' + 1 /\ Samples' + 1 <= T
      BY <1>0, <2>2, <2>4, <3>2
    <3> QED BY <1>0, <2>1, <2>2, <3>3 DEF RunInv, Saving
  <2>5. CASE /\ Tracked /\ current_param_version' = tracker
             /\ rollout_steps' = tracker * R * trigger_parameter_sync_step + 1
    <3>1. tracker \in Nat /\ tracker * R \in Nat
      BY <1>0, <2>5, StepsFacts DEF Tracked
    <3>2. Samples' = tracker * R
      BY <2>3, <2>5, <3>1 DEF Samples
    <3>3. rollout_steps' = tracker * R + 1
      BY <2>5, <3>1 DEF InStep
    <3>4. rollout_steps' = Samples' + 1 /\ Samples' + 1 <= Most'
      BY <2>2, <2>3, <2>5, <3>2, <3>3
    <3> QED BY <1>0, <2>1, <2>2, <3>4 DEF RunInv, Saving
  <2> QED BY <2>1, <2>4, <2>5
<1>10. CASE LoadFails
  <2>1. stage' = "broken" /\ crashes' = crashes
    BY <1>10 DEF LoadFails
  <2> QED BY <1>0, <2>1 DEF RunInv, Saving
<1>11. CASE Crash
  <2>1. /\ stage' = "load" /\ feeding' /\ rollout_steps' = 1 /\ crashes' = crashes + 1
        /\ tracker' = tracker /\ stage # "broken" /\ final' = FALSE
    BY <1>11 DEF Crash, Stopped, disk
  <2>2. Most' = Most + 1
    <3> DEFINE a == Steps * RequiredSamples
    <3>1. a \in Nat
      BY <1>0, StepsFacts
    <3>2. Most = a + crashes /\ Most' = a + crashes'
      BY DEF Most
    <3> HIDE DEF a
    <3> QED BY <1>0, <2>1, <3>1, <3>2
  <2>3. ASSUME Tracked PROVE tracker * R <= Most
    <3>1. tracker \in Nat /\ tracker * R \in Nat
      BY <1>0, <2>3, StepsFacts DEF Tracked
    <3>2. CASE stage = "load"
      BY <1>a, <2>3, <3>1, <3>2 DEF RunInv
    <3>3. CASE stage # "load"
      <4>1. stage \notin Lost
        BY <1>0, <2>1, <3>3
      <4>2. tracker * R <= v * R
        BY <1>0, <2>3, <3>1, <4>1, Monotone DEF MemoryInv
      <4>3. Samples <= T \/ Samples <= Most
        BY <1>0, <1>a, <4>1 DEF RunInv
      <4>4. v * R <= T \/ v * R <= Most
        BY <1>0, <1>a, <4>3
      <4>5. v * R <= T => v * R <= Steps * R
        BY <1>0, StepsFacts
      <4>6. Steps * R <= Most /\ Steps * R \in Nat
        BY <1>0, StepsFacts DEF Most
      <4> HIDE DEF v
      <4> QED BY <1>a, <3>1, <4>2, <4>4, <4>5, <4>6
    <3> QED BY <3>2, <3>3
  <2>4. Tracked' => tracker' * R + 1 <= Most'
    <3>1. Tracked => tracker * R \in Nat
      BY <1>0, StepsFacts DEF Tracked
    <3> QED BY <1>a, <2>1, <2>2, <2>3, <3>1 DEF Tracked
  <2> QED BY <1>0, <2>1, <2>4 DEF RunInv, Saving
<1> QED BY <1>2, <1>3, <1>4, <1>5, <1>6, <1>7, <1>8, <1>9, <1>10, <1>11, <1>12, Cases

(* The end of an epoch is one epoch away from the start at least.          *)
LEMMA EpochEnds ==
    ASSUME NEW x \in Nat, NEW d \in Nat \ {0}, x % d = 0, x > 0
    PROVE  x >= d
OBVIOUS

LEMMA DataStep ==
    ASSUME TypeInv, TypeInv', InStep, MemoryInv, SampleInv, StepInv, StepInv', RunInv, DataInv,
           [Next]_vars
    PROVE  DataInv'
<1> DEFINE v == current_param_version
           f == Cardinality(flight)
           R == RequiredSamples
<1>0. /\ Lost = {"load", "broken"} /\ R \in Nat \ {0} /\ Lead \in Nat /\ v \in Nat /\ f \in Nat
      /\ Versions \subseteq Nat /\ crashes \in Nat /\ TornFile \notin Nat /\ NoFile \notin Nat
      /\ fed \in Nat /\ left \in Nat /\ AllData \in Nat
  <2>1. v \in Nat /\ crashes \in Nat /\ fed \in Nat /\ left \in Nat
    BY DEF TypeInv, RunInv
  <2>2. f \in Nat
    BY FS_CardinalityType DEF StepInv
  <2>3. AllData \in Nat
    BY DataSize
  <2> QED BY <2>1, <2>2, <2>3, CheckpointAssumption, VersionsAreNat
          DEF Lost, TornFile, NoFile
<1>a. /\ Samples = v * R + f /\ v * R \in Nat /\ Samples \in Nat
      /\ crashes * Lead \in Nat /\ (crashes + 1) * Lead = crashes * Lead + Lead
      /\ \A u \in Versions : u * R \in Nat
  <2>1. crashes * Lead \in Nat /\ (crashes + 1) * Lead = crashes * Lead + Lead
    BY <1>0
  <2>2. \A u \in Versions : u * R \in Nat
    BY <1>0, StepsFacts
  <2>3. v * R \in Nat
    BY <1>0, StepsFacts
  <2> HIDE DEF R
  <2> QED BY <1>0, <2>1, <2>2, <2>3 DEF Samples, R
<1>1. ASSUME UNCHANGED <<current_param_version, flight, fed, left, crashes>>,
             stage' \notin Lost => stage \notin Lost, stage' # "load", stage # "load",
             \A u \in Versions : data'[u] \in Nat => data'[u] = data[u]
      PROVE  DataInv'
  <2>1. Samples' = Samples /\ Saves' = Saves
    BY <1>1 DEF Samples, Saves
  <2>2. \A u \in Versions : data'[u] \in Nat => data'[u] <= u * R + Saves' * Lead
    BY <1>1, <2>1 DEF DataInv
  <2> HIDE DEF Samples, Saves
  <2> QED BY <1>1, <2>1, <2>2 DEF DataInv
<1>2. CASE Halted \/ UNCHANGED vars
  <2>1. UNCHANGED <<current_param_version, flight, fed, left, crashes, stage, data>>
    BY <1>2 DEF Halted, vars, stepVars, feedVars, disk
  <2>2. Samples' = Samples /\ Saves' = Saves
    BY <2>1 DEF Samples, Saves
  <2> HIDE DEF Samples, Saves
  <2> QED BY <2>1, <2>2 DEF DataInv
<1>3. CASE FeedSample
  <2>1. /\ stage \notin Lost /\ left > 0 /\ f < Lead
        /\ fed' = fed + 1 /\ left' = left - 1 /\ flight' = flight \cup {fed + 1}
        /\ UNCHANGED <<current_param_version, crashes, stage, data>>
    BY <1>3 DEF FeedSample, Stopped, Lost, stepVars, disk
  <2>2. fed + 1 \notin flight
    <3>1. \A s \in flight : s <= fed /\ s \in Nat
      BY DEF SampleInv, TypeInv
    <3> QED BY <1>0, <3>1
  <2>3. Cardinality(flight') = f + 1
    BY <2>1, <2>2, FS_AddElement DEF StepInv
  <2>4. Samples' = Samples + 1 /\ Saves' = Saves
    BY <1>0, <1>a, <2>1, <2>3 DEF Samples, Saves
  <2>5. /\ fed + left >= AllData /\ fed <= Samples + crashes * Lead
        /\ \A u \in Versions : data[u] \in Nat => data[u] <= u * R + Saves * Lead
    BY <2>1 DEF DataInv
  <2>6. fed' + left' >= AllData /\ fed' <= Samples' + crashes' * Lead
    BY <1>0, <1>a, <2>1, <2>4, <2>5
  <2>7. Cardinality(flight') <= Lead
    BY <1>0, <2>1, <2>3
  <2> HIDE DEF Samples, Saves
  <2> QED BY <1>0, <2>1, <2>4, <2>5, <2>6, <2>7 DEF DataInv
<1>4. CASE FeedEnd
  <2>1. /\ UNCHANGED <<current_param_version, flight, fed, left, crashes, stage, data>>
        /\ stage # "load"
    BY <1>4 DEF FeedEnd, stepVars, disk
  <2> QED BY <1>1, <2>1
<1>5. CASE FitStep
  <2>1. /\ stage = "train" /\ stage' \in {"train", "room"}
        /\ current_param_version' = v + 1 /\ UNCHANGED <<fed, left, crashes, data>>
    BY <1>5, Update DEF FitStep
  <2>2. Cardinality(flight') + R = f
    <3>1. PICK batch \in SUBSET flight : Cardinality(batch) = R /\ flight' = flight \ batch
      BY <1>5 DEF FitStep, kSubset
    <3>2. Cardinality(flight') = f - Cardinality(flight \cap batch)
      BY <3>1, FS_Difference DEF StepInv
    <3>3. flight \cap batch = batch
      BY <3>1
    <3>4. Cardinality(flight') = f - R
      BY <3>1, <3>2, <3>3
    <3>5. f \in Nat /\ R \in Nat
      BY <1>0
    <3> HIDE DEF f, R
    <3> QED BY <3>4, <3>5
  <2>3. Samples' = Samples /\ Saves' = Saves
    <3>1. (v + 1) * R = v * R + R
      BY <1>0, StepsFacts
    <3>2. Cardinality(flight') \in Nat
      BY FS_CardinalityType DEF StepInv
    <3>3. Samples' = Samples
      BY <1>0, <1>a, <2>1, <2>2, <3>1, <3>2 DEF Samples
    <3> QED BY <2>1, <3>3 DEF Saves
  <2>4. Cardinality(flight') <= Lead
    <3>1. Cardinality(flight') \in Nat /\ f <= Lead
      BY FS_CardinalityType DEF StepInv, DataInv
    <3> QED BY <1>0, <2>2, <3>1
  <2>5. /\ fed + left >= AllData /\ fed <= Samples + crashes * Lead
        /\ \A u \in Versions : data[u] \in Nat => data[u] <= u * R + Saves * Lead
    BY <1>0, <2>1 DEF DataInv
  <2> HIDE DEF Samples, Saves, v, f
  <2> QED BY <1>0, <2>1, <2>3, <2>4, <2>5 DEF DataInv
<1>6. CASE FinishFit
  <2>1. /\ stage = "train" /\ stage' \in {"failed", "room", "ended"}
        /\ UNCHANGED <<current_param_version, flight, fed, left, crashes, data>>
    BY <1>6 DEF FinishFit, BeginSave, AfterSave, stepVars, feedVars, disk
  <2> QED BY <1>0, <1>1, <2>1
<1>7. CASE EnsureCapacity \/ RegisterCheckpoint \/ \E r \in Ranks : OpenShard(r) \/ CloseShard(r)
  <2>1. /\ UNCHANGED <<current_param_version, flight, fed, left, crashes, data>>
        /\ stage \in {"room", "shards"} /\ stage' \in {"room", "shards", "data"}
    BY <1>7 DEF EnsureCapacity, RegisterCheckpoint, OpenShard, CloseShard, stepVars, feedVars
  <2> QED BY <1>0, <1>1, <2>1
<1>8. CASE OpenData \/ OpenTracker \/ CloseTracker
  <2>1. /\ UNCHANGED <<current_param_version, flight, fed, left, crashes>>
        /\ stage \in {"data", "track", "track_open"}
        /\ stage' \in {"data_open", "track_open", "train", "ended"}
        /\ data' = data \/ data' = [data EXCEPT ![v] = TornFile]
    BY <1>8 DEF OpenData, OpenTracker, CloseTracker, AfterSave, stepVars, feedVars
  <2>2. \A u \in Versions : data'[u] \in Nat => data'[u] = data[u]
    BY <1>0, <2>1 DEF TypeInv
  <2> HIDE DEF v
  <2> QED BY <1>0, <1>1, <2>1, <2>2
<1>9. CASE CloseData
  <2>1. /\ UNCHANGED <<current_param_version, flight, fed, left, crashes>>
        /\ stage = "data_open" /\ stage' = "track" /\ data' = [data EXCEPT ![v] = fed]
    BY <1>9 DEF CloseData, stepVars, feedVars
  <2>2. Samples' = Samples /\ Saves' = Saves /\ Saves = crashes + 1
    BY <2>1 DEF Samples, Saves
  <2>3. /\ fed + left >= AllData /\ fed <= Samples + crashes * Lead /\ f <= Lead
        /\ \A u \in Versions : data[u] \in Nat => data[u] <= u * R + Saves * Lead
    BY <1>0, <2>1 DEF DataInv
  <2>4. fed <= v * R + Saves * Lead
    <3> DEFINE a == v * R
               c == crashes * Lead
    <3>1. a \in Nat /\ c \in Nat /\ Samples = a + f /\ Saves * Lead = c + Lead
      BY <1>a, <2>2
    <3>2. fed <= a + f + c
      BY <2>3, <3>1
    <3> HIDE DEF a, c, f
    <3>3. fed <= a + (c + Lead)
      BY <1>0, <2>3, <3>1, <3>2
    <3> QED BY <3>1, <3>3 DEF a
  <2>5. \A u \in Versions : data'[u] = IF u = v THEN fed ELSE data[u]
    BY <2>1 DEF TypeInv
  <2> HIDE DEF Samples, Saves, v
  <2>6. \A u \in Versions : data'[u] \in Nat => data'[u] <= u * R + Saves * Lead
    BY <2>3, <2>4, <2>5
  <2> QED BY <1>0, <2>1, <2>2, <2>3, <2>6 DEF DataInv
<1>10. CASE LoadNothing \/ LoadFails
  <2>1. /\ UNCHANGED <<current_param_version, flight, fed, left, crashes, data>>
        /\ stage = "load" /\ stage' \in {"train", "broken"}
    BY <1>10 DEF LoadNothing, LoadFails, stepVars, feedVars, disk
  <2>2. /\ fed = 0 /\ left = AllData /\ f <= Lead /\ Saves = crashes
        /\ \A u \in Versions : data[u] \in Nat => data[u] <= u * R + Saves * Lead
    BY <2>1 DEF DataInv, Saves
  <2>3. Samples' = Samples /\ Saves' = crashes + 1
    BY <2>1 DEF Samples, Saves
  <2>4. \A u \in Versions : data'[u] \in Nat => data'[u] <= u * R + Saves' * Lead
    <3> SUFFICES ASSUME NEW u \in Versions, data[u] \in Nat
                 PROVE  data[u] <= u * R + (crashes + 1) * Lead
      BY <2>1, <2>3
    <3> DEFINE a == u * R
               c == crashes * Lead
               d == data[u]
    <3>1. a \in Nat /\ c \in Nat /\ d \in Nat /\ d <= a + c /\ (crashes + 1) * Lead = c + Lead
      BY <1>a, <2>2
    <3> HIDE DEF a, c, d
    <3>2. d <= a + (c + Lead)
      BY <1>0, <3>1
    <3> QED BY <3>1, <3>2 DEF a, d
  <2>5. fed + left >= AllData /\ fed <= Samples + crashes * Lead
    BY <1>0, <1>a, <2>2
  <2> HIDE DEF Samples, Saves
  <2> QED BY <2>1, <2>2, <2>3, <2>4, <2>5 DEF DataInv
<1>11. CASE LoadCheckpoint
  <2>1. /\ stage = "load" /\ stage' = "train" /\ UNCHANGED <<flight, crashes, data>>
        /\ Tracked /\ Loadable(tracker) /\ current_param_version' = tracker
        /\ fed' = ResumePosition(tracker)
    BY <1>11 DEF LoadCheckpoint, Tracked, disk
  <2>2. flight = {} /\ data[tracker] # NoFile /\ data[tracker] # TornFile
    BY <2>1 DEF MemoryInv, Loadable
  <2>3. fed' = data[tracker] /\ data[tracker] \in Nat /\ tracker \in Versions
    BY <2>1, <2>2 DEF ResumePosition, TypeInv, Tracked
  <2>4. f = 0 /\ Samples' = tracker * R /\ Saves = crashes /\ Saves' = crashes + 1
    <3>1. f = 0 /\ Cardinality(flight') = 0
      BY <2>1, <2>2, FS_EmptySet
    <3>2. tracker * R \in Nat
      BY <1>a, <2>3
    <3> QED BY <2>1, <3>1, <3>2 DEF Samples, Saves
  <2>5. \A u \in Versions : data[u] \in Nat => data[u] <= u * R + crashes * Lead
    BY <2>4 DEF DataInv
  <2>6. fed' <= Samples' + crashes' * Lead
    BY <2>1, <2>3, <2>4, <2>5
  <2>7. fed' + left' >= AllData
    <3>1. PICK rest \in 0..DatasetSize : /\ (fed' + rest) % DatasetSize = 0 /\ fed' + rest > 0
                                         /\ left' = rest + (TotalEpochs - 1) * DatasetSize
      BY <1>11 DEF LoadCheckpoint
    <3>2. fed' \in Nat /\ fed' + rest \in Nat /\ DatasetSize \in Nat \ {0} /\ rest \in Nat
      BY <2>3, DataSize
    <3>3. fed' + rest >= DatasetSize
      BY <3>1, <3>2, EpochEnds
    <3> DEFINE more == (TotalEpochs - 1) * DatasetSize
    <3>4. more \in Nat /\ AllData = DatasetSize + more /\ left' = rest + more
      BY <3>1, DataSize
    <3> DEFINE at == fed'
               d  == DatasetSize
    <3>5. at \in Nat /\ rest \in Nat /\ d \in Nat /\ at + rest >= d
      BY <3>2, <3>3
    <3> HIDE DEF more, at, d
    <3>6. at + (rest + more) >= d + more
      BY <3>4, <3>5
    <3> QED BY <3>4, <3>6 DEF at, d
  <2>8. \A u \in Versions : data'[u] \in Nat => data'[u] <= u * R + Saves' * Lead
    <3> SUFFICES ASSUME NEW u \in Versions, data[u] \in Nat
                 PROVE  data[u] <= u * R + (crashes + 1) * Lead
      BY <2>1, <2>4
    <3> DEFINE a == u * R
               c == crashes * Lead
               d == data[u]
    <3>1. a \in Nat /\ c \in Nat /\ d \in Nat /\ d <= a + c /\ (crashes + 1) * Lead = c + Lead
      BY <1>a, <2>5
    <3> HIDE DEF a, c, d
    <3>2. d <= a + (c + Lead)
      BY <1>0, <3>1
    <3> QED BY <3>1, <3>2 DEF a, d
  <2>9. Cardinality(flight') <= Lead
    BY <1>0, <2>1, <2>4
  <2> HIDE DEF Samples, Saves
  <2> QED BY <2>1, <2>6, <2>7, <2>8, <2>9 DEF DataInv
<1>12. CASE Crash
  <2>1. /\ stage' = "load" /\ fed' = 0 /\ left' = AllData /\ flight' = {}
        /\ crashes' = crashes + 1 /\ data' = data
    BY <1>12 DEF Crash, disk
  <2>2. Saves \in {crashes, crashes + 1} /\ Saves' = crashes + 1
    BY <2>1 DEF Saves
  <2>3. \A u \in Versions : data[u] \in Nat => data[u] <= u * R + Saves * Lead
    BY DEF DataInv
  <2>4. \A u \in Versions : data'[u] \in Nat => data'[u] <= u * R + Saves' * Lead
    <3> SUFFICES ASSUME NEW u \in Versions, data[u] \in Nat
                 PROVE  data[u] <= u * R + (crashes + 1) * Lead
      BY <2>1, <2>2
    <3> DEFINE a == u * R
               c == crashes * Lead
               d == data[u]
    <3>1. a \in Nat /\ c \in Nat /\ d \in Nat /\ (crashes + 1) * Lead = c + Lead
          /\ d <= a + Saves * Lead
      BY <1>a, <2>3
    <3>2. d <= a + c \/ d <= a + (c + Lead)
      BY <2>2, <3>1
    <3> HIDE DEF a, c, d
    <3>3. d <= a + (c + Lead)
      BY <1>0, <3>1, <3>2
    <3> QED BY <3>1, <3>3 DEF a, d
  <2>5. Cardinality(flight') <= Lead
    BY <1>0, <2>1, FS_EmptySet
  <2>6. stage' \in Lost
    BY <1>0, <2>1
  <2> HIDE DEF Saves
  <2> QED BY <2>1, <2>4, <2>5, <2>6 DEF DataInv
<1> QED BY <1>2, <1>3, <1>4, <1>5, <1>6, <1>7, <1>8, <1>9, <1>10, <1>11, <1>12, Cases

CountInv == Inv /\ (InStep => RunInv /\ DataInv)

LEMMA CountInvariant == Spec => []CountInv
<1>1. Init => CountInv
  <2> SUFFICES ASSUME Init PROVE RunInv /\ DataInv
    BY InvInit DEF CountInv
  <2>1. stage = "load" /\ rollout_steps = 1 /\ feeding /\ ~Tracked /\ crashes = 0
        /\ fed = 0 /\ left = AllData /\ flight = {}
    BY VersionsAreNat DEF Init, Tracked, NoFile
  <2>2. Cardinality(flight) = 0 /\ Lead \in Nat
    BY <2>1, FS_EmptySet, CheckpointAssumption
  <2>3. \A v \in Versions : data[v] \notin Nat
    BY DEF Init, NoFile
  <2> QED BY <2>1, <2>2, <2>3 DEF RunInv, DataInv, Lost, Saving
<1>2. CountInv /\ [Next]_vars => CountInv'
  <2> SUFFICES ASSUME CountInv, [Next]_vars PROVE CountInv'
    OBVIOUS
  <2>1. Inv /\ Inv' /\ TypeInv /\ TypeInv' /\ (InStep' <=> InStep)
    BY InvStep, ConfigStays DEF CountInv, Inv, InStep
  <2>2. ASSUME InStep PROVE RunInv' /\ DataInv'
    <3>1. MemoryInv /\ SampleInv /\ StepInv /\ StepInv' /\ RunInv /\ DataInv
      BY <2>1, <2>2 DEF CountInv, Inv
    <3>2. RunInv'
      BY <2>1, <2>2, <3>1, RunStep
    <3>3. DataInv'
      BY <2>1, <2>2, <3>1, DataStep
    <3> QED BY <3>2, <3>3
  <2> QED BY <2>1, <2>2 DEF CountInv
<1> QED BY <1>1, <1>2, PTL DEF Spec

(* However often the job was lost, a run that gets to its end has trained  *)
(* on all the samples its number of steps asks for, and past them on no    *)
(* more than one for each crash.  If it has not, its data is used up, and  *)
(* what it lacks is less than a batch and what the crashes lost on the way.*)
THEOREM TotalIsTrained == Spec => []TrainsTotal
<1>1. CountInv => TrainsTotal
  <2> SUFFICES ASSUME CountInv, stage \in {"ended", "failed"}, InStep,
                      NEW role \in RoleSet, NEW r \in Ranks
               PROVE  LET trained == Cardinality(weights[role][r]) IN
                        /\ trained <= Steps * RequiredSamples + crashes
                        /\ \/ trained >= Steps * RequiredSamples
                           \/ /\ left = 0
                              /\ trained + RequiredSamples + crashes * Lead > AllData
    BY DEF TrainsTotal
  <2> DEFINE v == current_param_version
             f == Cardinality(flight)
             R == RequiredSamples
             T == TotalRolloutSteps
             a == v * R
             b == Steps * R
             c == crashes * Lead
             trained == Cardinality(weights[role][r])
  <2>1. /\ R \in Nat \ {0} /\ T \in Nat /\ v \in Nat /\ f \in Nat /\ crashes \in Nat
        /\ Lead \in Nat /\ fed \in Nat /\ left \in Nat /\ AllData \in Nat
    <3>1. v \in Nat /\ crashes \in Nat /\ fed \in Nat /\ left \in Nat
      BY DEF CountInv, Inv, TypeInv, RunInv
    <3>2. f \in Nat
      BY FS_CardinalityType DEF CountInv, Inv, StepInv
    <3>3. AllData \in Nat
      BY DataSize
    <3> QED BY <3>1, <3>2, <3>3, CheckpointAssumption
  <2>2. trained = a
    BY DEF CountInv, Inv, SizeInv, Sized
  <2>3. ~feeding /\ f < R
    BY DEF CountInv, RunInv
  <2>4. /\ Samples >= T \/ left = 0
        /\ Samples <= T \/ Samples <= Most
    BY <2>3 DEF CountInv, RunInv, Lost
  <2>5. Samples = a + f /\ Most = b + crashes
    BY DEF Samples, Most
  <2>6. /\ a \in Nat /\ b \in Nat /\ b <= T /\ (a <= T => a <= b)
        /\ ((v + 1) * R > T => a >= b) /\ (v + 1) * R = a + R
    BY <2>1, StepsFacts
  <2>7. c \in Nat /\ fed + left >= AllData /\ fed <= Samples + c
    BY <2>1, Product DEF CountInv, DataInv, Lost
  <2> HIDE DEF a, b, c, f, v, trained
  <2>8. a <= b + crashes
    BY <2>1, <2>4, <2>5, <2>6
  <2>9. CASE Samples >= T
    <3>1. a >= b
      BY <2>1, <2>3, <2>5, <2>6, <2>9
    <3> QED BY <2>2, <2>8, <3>1 DEF b, trained
  <2>10. CASE left = 0
    <3>1. a + f + c >= AllData
      BY <2>1, <2>5, <2>6, <2>7, <2>10
    <3>2. a + R + c > AllData
      BY <2>1, <2>3, <2>6, <2>7, <3>1
    <3> QED BY <2>2, <2>8, <2>10, <3>2 DEF b, c, trained
  <2> QED BY <2>4, <2>9, <2>10
<1> QED BY <1>1, CountInvariant, PTL
=============================================================================
