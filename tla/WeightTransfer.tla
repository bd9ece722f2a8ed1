--------------------------- MODULE WeightTransfer ---------------------------
(***************************************************************************)
(* The checkpoint engine: how the manager moves the weights of the trainer *)
(* to the rollout replicas, and how the ranks stream them in buckets with  *)
(* two buffers each. Rank 0 packs the tensors; with "nccl" it broadcasts a *)
(* bucket to every rank at once, with "nixl" each rank reads it from the   *)
(* one before and offers it to the next.                                   *)
(*                                                                         *)
(* A tensor is a number, its data that number in each of its cells.        *)
(***************************************************************************)
EXTENDS Integers, Sequences, SequencesExt, FiniteSets

CONSTANTS
    Replicas,           (* replicas the manager may be given                *)
    NumTensors,
    BucketSize,         (* cells of a buffer                                *)
    MaxUpdates,         (* bound: updates of the weights                    *)
    MaxChanges          (* bound: replicas added or removed                 *)

ASSUME TransferAssumption ==
    /\ IsFiniteSet(Replicas) /\ Replicas # {}
    /\ NumTensors \in Nat /\ BucketSize \in Nat \ {0}
    /\ MaxUpdates \in Nat /\ MaxChanges \in Nat

Trainer == "trainer"    (* the trainer's first worker, rank 0               *)
Ranks   == 0..Cardinality(Replicas)
Cells   == 1..BucketSize
NoGroup == [rank |-> -1, world |-> 0]
NoMeta  == [tensors |-> <<>>, is_last |-> FALSE, buf |-> 0]

VARIABLES
    backend, rebuild_group,
    size,               (* size[t]: cells of tensor t                       *)
    (* the manager *)
    stage,              (* where update_weights is                          *)
    replicas,           (* the list of replicas                             *)
    aborted,            (* replicas whose requests are aborted              *)
    group,              (* group[p]: the process group p believes to be in  *)
    updates, changes,
    (* rank 0's packing *)
    pos, offset,        (* tensors packed, cells used                       *)
    bucket_meta,        (* tensors of the present bucket with their offsets *)
    master,             (* "pack", "last" or "done"                         *)
    (* every rank *)
    buf,                (* buf[r][b]: the cells of buffer b                 *)
    send,               (* send[r]: which buffer is send_buf                *)
    posted,             (* posted[r]: what r broadcasts or offers           *)
    got,                (* got[r]: the ranks that have its data             *)
    (* receiving ranks *)
    inbox,              (* metadata on its way to r                         *)
    op,                 (* op[r]: state of r's receive operation            *)
    coming,             (* metadata of the bucket being received            *)
    metadata,           (* of the bucket being yielded                      *)
    pc, loaded          (* loaded[r]: the tensors yielded to the server     *)

managerVars == <<stage, replicas, aborted, group, updates, changes>>
packVars    == <<pos, offset, bucket_meta, master>>
postVars    == <<posted, got, inbox>>
recvVars    == <<op, coming, metadata, pc, loaded>>
config      == <<backend, rebuild_group, size>>
vars == <<config, managerVars, packVars, buf, send, postVars, recvVars>>

world     == Len(replicas) + 1
Receivers == 1..Len(replicas)

Each(x)  == [r \in Ranks |-> x]
NoBuffer == [b \in {0, 1} |-> [c \in Cells |-> 0]]

Init ==
    /\ backend \in {"nccl", "nixl"} /\ rebuild_group \in BOOLEAN
    /\ size \in [1..NumTensors -> Cells]
    /\ stage = "idle"
    /\ replicas \in {SetToSeq(R) : R \in SUBSET Replicas \ {{}}}
    /\ aborted = {}
    /\ group = [p \in Replicas \cup {Trainer} |-> NoGroup]
    /\ updates = 0 /\ changes = 0
    /\ pos = 0 /\ offset = 0 /\ bucket_meta = <<>> /\ master = "pack"
    /\ buf = Each(NoBuffer) /\ send = Each(0)
    /\ posted = Each(NoMeta) /\ got = Each({}) /\ inbox = Each(<<>>)
    /\ op = Each("none") /\ coming = Each(NoMeta) /\ metadata = Each(NoMeta)
    /\ pc = Each("begin") /\ loaded = Each(<<>>)

-----------------------------------------------------------------------------
(* The manager                                                             *)

AddReplica(p) ==
    /\ stage = "idle" /\ changes < MaxChanges /\ p \notin Range(replicas)
    /\ replicas' = Append(replicas, p) /\ changes' = changes + 1
    /\ UNCHANGED <<config, stage, aborted, group, updates, packVars, buf, send, postVars, recvVars>>

(* A replica is in the list once.                                          *)
Position(p) == CHOOSE i \in Receivers : replicas[i] = p

RemoveReplica(p) ==
    /\ stage = "idle" /\ changes < MaxChanges
    /\ p \in Range(replicas) /\ Len(replicas) > 1
    /\ replicas' = RemoveAt(replicas, Position(p)) /\ changes' = changes + 1
    /\ UNCHANGED <<config, stage, aborted, group, updates, packVars, buf, send, postVars, recvVars>>

AbortRequests ==
    /\ stage = "idle" /\ updates < MaxUpdates
    /\ aborted' = Range(replicas)
    /\ stage' = "build" /\ updates' = updates + 1
    /\ UNCHANGED <<config, replicas, group, changes, packVars, buf, send, postVars, recvVars>>

Members == {Trainer} \cup Range(replicas)
NewGroup(p) == [rank  |-> IF p = Trainer THEN 0
                          ELSE Position(p),
                world |-> world]

(* A Python slice list[-k:]; -0 is 0, the whole list.                      *)
TailFrom(n, k) == IF k = 0 THEN n ELSE k

(* nixl hands each rollout rank the metadata of the rank after it: a slice *)
(* of the last world - 2 entries, and None.                                *)
NextAgents == TailFrom(world, Len(replicas) - 1) + 1
TopologyFits == backend = "nixl" => NextAgents = Len(replicas)

(* nccl keeps a group it has and asserts that nothing changed; a newcomer  *)
(* would wait for the others to found one with it.                         *)
GroupFits == backend = "nccl" /\ ~rebuild_group =>
    \/ \A p \in Members : group[p] = NoGroup
    \/ \A p \in Members : group[p] = NewGroup(p)

BuildProcessGroup ==
    /\ stage = "build"
    /\ IF TopologyFits /\ GroupFits
         THEN /\ stage' = "transfer"
              /\ group' = [p \in DOMAIN group |-> IF p \in Members THEN NewGroup(p) ELSE group[p]]
         ELSE stage' = (IF TopologyFits THEN "group_failed" ELSE "topology_failed") /\ UNCHANGED group
    /\ UNCHANGED <<config, replicas, aborted, updates, changes, packVars, buf, send, postVars, recvVars>>

(* The manager waits for the updates of all the workers.                   *)
(* Mutant of AllUpdated: only for the trainer's.                           *)
TrainerUpdated == master = "done"
AllUpdated     == master = "done" /\ \A r \in Receivers : pc[r] = "done"

Finalize ==
    /\ stage = "transfer" /\ AllUpdated
    /\ stage' = "resume"
    /\ group' = [p \in DOMAIN group |->
          IF p \in Members /\ (backend = "nixl" \/ rebuild_group) THEN NoGroup ELSE group[p]]
    /\ UNCHANGED <<config, replicas, aborted, updates, changes, packVars, buf, send, postVars, recvVars>>

ResumeRequests ==
    /\ stage = "resume"
    /\ aborted' = {}
    /\ stage' = "idle"
    /\ pos' = 0 /\ offset' = 0 /\ bucket_meta' = <<>> /\ master' = "pack"
    /\ buf' = Each(NoBuffer) /\ send' = Each(0)
    /\ posted' = Each(NoMeta) /\ got' = Each({}) /\ inbox' = Each(<<>>)
    /\ op' = Each("none") /\ coming' = Each(NoMeta) /\ metadata' = Each(NoMeta)
    /\ pc' = Each("begin") /\ loaded' = Each(<<>>)
    /\ UNCHANGED <<config, replicas, group, updates, changes>>

-----------------------------------------------------------------------------
(* Sending a bucket                                                        *)

Targets(p)  == IF backend = "nccl" THEN IF p = 0 THEN Receivers ELSE {}
                                   ELSE {p + 1} \cap Receivers
Source(r)   == IF backend = "nccl" THEN 0 ELSE r - 1
Complete(p) == posted[p] = NoMeta \/ got[p] = Targets(p)

(* p's data is announced to those that will read it.                       *)
Post(p, meta) ==
    /\ posted' = [posted EXCEPT ![p] = meta]
    /\ got' = [got EXCEPT ![p] = {}]
    /\ inbox' = [r \in Ranks |-> IF r \in Targets(p) THEN Append(inbox[r], meta) ELSE inbox[r]]

(* Mutant of Bucket: no bucket is marked as the last one.                  *)
BucketNotLast(is_last) == [tensors |-> bucket_meta, is_last |-> FALSE, buf |-> send[0]]
Bucket(is_last) == [tensors |-> bucket_meta, is_last |-> is_last, buf |-> send[0]]

(* Whether the next tensor still fits into the bucket.                     *)
Fits == offset + size[pos + 1] <= BucketSize

Pack ==
    /\ stage = "transfer" /\ master = "pack" /\ pos < NumTensors /\ Fits
    /\ buf' = [buf EXCEPT ![0][send[0]] =
          [c \in Cells |-> IF c \in offset + 1..offset + size[pos + 1] THEN pos + 1 ELSE @[c]]]
    /\ bucket_meta' = Append(bucket_meta, [name |-> pos + 1, offset |-> offset])
    /\ pos' = pos + 1 /\ offset' = offset + size[pos + 1]
    /\ UNCHANGED <<config, managerVars, master, send, postVars, recvVars>>

(* A full bucket goes out when the one before has been received.           *)
(* Mutant of Previous: it is not waited for.                               *)
NoPrevious == TRUE
Previous   == Complete(0)

(* The two buffers change places.                                         *)
Swap(r) == [send EXCEPT ![r] = 1 - @]

Ship ==
    /\ stage = "transfer" /\ master = "pack" /\ pos < NumTensors /\ ~Fits
    /\ Previous
    /\ Post(0, Bucket(FALSE))
    /\ send' = Swap(0)
    /\ bucket_meta' = <<>> /\ offset' = 0
    /\ UNCHANGED <<config, managerVars, pos, master, buf, recvVars>>

ShipLast ==
    /\ stage = "transfer" /\ master = "pack" /\ pos = NumTensors
    /\ Previous
    /\ Post(0, Bucket(TRUE))
    /\ master' = "last"
    /\ UNCHANGED <<config, managerVars, pos, offset, bucket_meta, buf, send, recvVars>>

SendEnds ==
    /\ stage = "transfer" /\ master = "last" /\ Complete(0)
    /\ master' = "done"
    /\ UNCHANGED <<config, managerVars, pos, offset, bucket_meta, buf, send, postVars, recvVars>>

-----------------------------------------------------------------------------
(* Receiving: an operation takes the metadata, then the data               *)

Begin(r) ==
    /\ stage = "transfer" /\ pc[r] = "begin"
    /\ op' = [op EXCEPT ![r] = "meta"]
    /\ pc' = [pc EXCEPT ![r] = "first"]
    /\ UNCHANGED <<config, managerVars, packVars, buf, send, postVars, coming, metadata, loaded>>

TakeMetadata(r) ==
    /\ op[r] = "meta" /\ inbox[r] # <<>>
    /\ coming' = [coming EXCEPT ![r] = Head(inbox[r])]
    /\ inbox' = [inbox EXCEPT ![r] = Tail(@)]
    /\ op' = [op EXCEPT ![r] = "data"]
    /\ UNCHANGED <<config, managerVars, packVars, buf, send, posted, got, metadata, pc, loaded>>

(* A broadcast starts when every rank is in it; a read needs only the two. *)
AllJoined == backend = "nccl" => \A r \in Receivers : op[r] = "data" \/ r \in got[0]

TakeData(r) ==
    /\ op[r] = "data" /\ AllJoined
    /\ LET p == Source(r)
       IN  /\ buf' = [buf EXCEPT ![r][1 - send[r]] =
                 buf[p][IF backend = "nccl" THEN posted[p].buf ELSE coming[r].buf]]
           /\ got' = [got EXCEPT ![p] = @ \cup {r}]
    /\ op' = [op EXCEPT ![r] = "done"]
    /\ UNCHANGED <<config, managerVars, packVars, send, posted, inbox, coming, metadata, pc, loaded>>

(* The bucket received becomes the one to yield; unless it is the last the *)
(* next operation starts. With nixl it is offered to the next rank.        *)
NextBucket(r) ==
    /\ op[r] = "done"
    /\ send' = Swap(r)
    /\ metadata' = [metadata EXCEPT ![r] = coming[r]]
    /\ op' = [op EXCEPT ![r] = IF coming[r].is_last THEN "none" ELSE "meta"]
    /\ pc' = [pc EXCEPT ![r] = "yield"]
    /\ IF backend = "nixl"
         THEN Post(r, [coming[r] EXCEPT !.buf = 1 - send[r]])
         ELSE UNCHANGED postVars
    /\ UNCHANGED <<config, managerVars, packVars, buf, coming, loaded>>

FirstBucket(r) == pc[r] = "first" /\ NextBucket(r)

(* What the server sees of a tensor: its number if all its cells are its.  *)
Read(r, meta) ==
    IF \A c \in meta.offset + 1..meta.offset + size[meta.name] : buf[r][send[r]][c] = meta.name
      THEN meta.name ELSE 0

(* With nixl the metadata of the next bucket is awaited before yielding.   *)
MayYield(r) == backend = "nixl" => op[r] # "meta"

Yield(r) ==
    /\ pc[r] = "yield" /\ metadata[r].tensors # <<>> /\ MayYield(r)
    /\ loaded' = [loaded EXCEPT ![r] = Append(@, Read(r, Head(metadata[r].tensors)))]
    /\ metadata' = [metadata EXCEPT ![r].tensors = Tail(@)]
    /\ UNCHANGED <<config, managerVars, packVars, buf, send, postVars, op, coming, pc>>

(* The next rank, if any, has read what this one offers.                   *)
Forwarded(r) == Complete(r)

LaterBucket(r) ==
    /\ pc[r] = "yield" /\ metadata[r].tensors = <<>> /\ ~metadata[r].is_last
    /\ Forwarded(r)
    /\ NextBucket(r)

ReceiveEnds(r) ==
    /\ pc[r] = "yield" /\ metadata[r].tensors = <<>> /\ metadata[r].is_last
    /\ Complete(r)
    /\ pc' = [pc EXCEPT ![r] = "done"]
    /\ UNCHANGED <<config, managerVars, packVars, buf, send, postVars, op, coming, metadata, loaded>>

-----------------------------------------------------------------------------
ManagerNext ==
    AbortRequests \/ BuildProcessGroup \/ Finalize \/ ResumeRequests

MasterNext == Pack \/ Ship \/ ShipLast \/ SendEnds

ReceiverNext(r) ==
    \/ Begin(r) \/ TakeMetadata(r) \/ TakeData(r)
    \/ FirstBucket(r) \/ LaterBucket(r) \/ Yield(r) \/ ReceiveEnds(r)

Next ==
    \/ ManagerNext \/ MasterNext
    \/ \E p \in Replicas : AddReplica(p) \/ RemoveReplica(p)
    \/ \E r \in Receivers : ReceiverNext(r)

Spec == Init /\ [][Next]_vars

FairSpec ==
    /\ Spec
    /\ WF_vars(ManagerNext) /\ WF_vars(MasterNext)
    /\ \A r \in Ranks : WF_vars(r \in Receivers /\ ReceiverNext(r))

-----------------------------------------------------------------------------
(* Every rank hands its server the tensors in order, each with its own     *)
(* data: no buffer is filled while it is sent, read or yielded from.       *)
InOrderAndIntact == \A r \in Receivers :
    loaded[r] = [i \in 1..Len(loaded[r]) |-> i]

(* Requests go on only after every replica has all of the new weights.     *)
ResumesWithAll == stage = "resume" =>
    \A r \in Receivers : Len(loaded[r]) = NumTensors

(* A transfer that starts comes to its end.                                *)
TransferEnds == stage = "transfer" ~> stage = "idle"
=============================================================================
