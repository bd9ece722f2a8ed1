------------------------ MODULE WeightTransfer_proof ------------------------
(***************************************************************************)
(* Proofs about the checkpoint engine, for any number of replicas, tensors *)
(* of any sizes and buckets of any size, both backends, and any elastic    *)
(* changes between the updates.                                            *)
(***************************************************************************)
EXTENDS WeightTransfer, SequenceTheorems, FiniteSetTheorems, TLAPS

Entries == [name : 1..NumTensors, offset : 0..BucketSize]
Metas   == [tensors : Seq(Entries), is_last : BOOLEAN, buf : {0, 1}]
Buffers == [{0, 1} -> [Cells -> Nat]]

(* A replica is in the list once.                                          *)
Distinct(seq) == \A i, j \in 1..Len(seq) : seq[i] = seq[j] => i = j

(* The types of all but the list of replicas.                              *)
Types ==
    /\ backend \in {"nccl", "nixl"} /\ size \in [1..NumTensors -> Cells]
    /\ pos \in 0..NumTensors /\ offset \in 0..BucketSize
    /\ bucket_meta \in Seq(Entries) /\ master \in {"pack", "last", "done"}
    /\ buf \in [Ranks -> Buffers] /\ send \in [Ranks -> {0, 1}]
    /\ posted \in [Ranks -> Metas] /\ coming \in [Ranks -> Metas]
    /\ metadata \in [Ranks -> Metas] /\ inbox \in [Ranks -> Seq(Metas)]
    /\ got \in [Ranks -> SUBSET Ranks]
    /\ op \in [Ranks -> {"none", "meta", "data", "done"}]
    /\ pc \in [Ranks -> {"begin", "first", "yield", "done"}]
    /\ loaded \in [Ranks -> Seq(Nat)]

(* The type invariant.                                                     *)
TypeInv == replicas \in Seq(Replicas) /\ Distinct(replicas) /\ Types

(* The tensors of ts are those after the first ones, each whole in cells.  *)
Holds(sizes, ts, first, cells) == \A i \in 1..Len(ts) :
    /\ ts[i].name = first + i
    /\ \A c \in ts[i].offset + 1..ts[i].offset + sizes[ts[i].name] : cells[c] = ts[i].name

(* How many tensors r has yielded or is yielding, how many with those its  *)
(* receive operation brings, and how many are in what p announced.         *)
Yielding(r)  == Len(loaded[r]) + Len(metadata[r].tensors)
Expecting(r) == Yielding(r) + (IF op[r] \in {"data", "done"} THEN Len(coming[r].tensors) ELSE 0)
Announced(p) == IF p # 0 THEN Yielding(p)
                ELSE IF master = "pack" THEN pos - Len(bucket_meta) ELSE pos

Real(meta) == meta.tensors # <<>> \/ meta.is_last

(* Between two transfers there is nothing.                                 *)
Blank ==
    /\ pos = 0 /\ offset = 0 /\ bucket_meta = <<>> /\ master = "pack"
    /\ posted = Each(NoMeta) /\ got = Each({}) /\ inbox = Each(<<>>)
    /\ op = Each("none") /\ coming = Each(NoMeta) /\ metadata = Each(NoMeta)
    /\ pc = Each("begin") /\ loaded = Each(<<>>)

(* Rank 0 packs into the buffer it does not send from.                     *)
PackInv ==
    /\ Len(bucket_meta) <= pos
    /\ Holds(size, bucket_meta, pos - Len(bucket_meta), buf[0][send[0]])
    /\ \A i \in 1..Len(bucket_meta) :
          bucket_meta[i].offset + size[bucket_meta[i].name] <= offset
    /\ bucket_meta = <<>> => offset = 0
    /\ master # "pack" => pos = NumTensors
    /\ master = "pack" =>
          ~posted[0].is_last /\ (posted[0] # NoMeta => posted[0].buf = 1 - send[0])

(* What p broadcasts or offers is there until the next is.                 *)
PostOf(p) ==
    /\ Len(posted[p].tensors) <= Announced(p)
    /\ Holds(size, posted[p].tensors, Announced(p) - Len(posted[p].tensors),
             buf[p][posted[p].buf])
    /\ posted[p] # NoMeta => Real(posted[p])
    /\ posted[p].is_last => Announced(p) = NumTensors

(* A receiver yields from one buffer and receives into the other.          *)
RankOf(r) ==
    /\ loaded[r] = [i \in 1..Len(loaded[r]) |-> i]
    /\ Holds(size, metadata[r].tensors, Len(loaded[r]), buf[r][send[r]])
    /\ op[r] = "done" =>
          /\ Holds(size, coming[r].tensors, Yielding(r), buf[r][1 - send[r]])
          /\ Real(coming[r])
          /\ coming[r].is_last => Expecting(r) = NumTensors
    /\ pc[r] = "begin" => op[r] = "none"
    /\ pc[r] \in {"begin", "first"} => metadata[r] = NoMeta /\ posted[r] = NoMeta
    /\ posted[r] # NoMeta => posted[r].buf = send[r]
    /\ metadata[r].is_last => op[r] = "none" /\ Yielding(r) = NumTensors
    /\ pc[r] = "done" => metadata[r].is_last /\ metadata[r].tensors = <<>>
    /\ backend = "nccl" => posted[r] = NoMeta

(* What r's source announced is on its way to r, is being received, or was *)
(* received; only then the source announces more.                          *)
FlowOf(r) ==
    LET p == Source(r)
    IN  \/ /\ posted[p] = NoMeta \/ r \in got[p]
           /\ inbox[r] = <<>> /\ op[r] # "data" /\ Expecting(r) = Announced(p)
        \/ /\ posted[p] # NoMeta /\ r \notin got[p]
           /\ inbox[r] = <<posted[p]>> /\ op[r] # "data"
           /\ Expecting(r) + Len(posted[p].tensors) = Announced(p)
        \/ /\ posted[p] # NoMeta /\ r \notin got[p]
           /\ inbox[r] = <<>> /\ op[r] = "data" /\ coming[r] = posted[p]
           /\ Expecting(r) = Announced(p)

Flows ==
    /\ PackInv
    /\ \A p \in {0} \cup Receivers : PostOf(p)
    /\ \A r \in Receivers : RankOf(r) /\ FlowOf(r)

(* The inductive invariant.                                                *)
Inv ==
    /\ TypeInv
    /\ stage \notin {"transfer", "resume"} => Blank
    /\ stage = "resume" => \A r \in Receivers : pc[r] = "done"
    /\ Flows

-----------------------------------------------------------------------------
(* The list of replicas, and the ranks                                     *)

(* What the list of a set holds.                                           *)
LEMMA ListOfSet ==
    ASSUME NEW R, IsFiniteSet(R), NEW S, R \subseteq S
    PROVE  /\ SetToSeq(R) \in Seq(S)
           /\ Distinct(SetToSeq(R))
<1> DEFINE n == Cardinality(R)
           P(f) == f \in [1..n -> R] /\ IsInjective(f)
<1>1. n \in Nat /\ ExistsBijection(1..n, R)
  BY FS_CardinalityType
<1>2. PICK f : f \in Bijection(1..n, R)
  BY <1>1 DEF ExistsBijection
<1>3. P(f)
  BY <1>2 DEF Bijection, Injection
<1> DEFINE s == CHOOSE g \in [1..n -> R] : IsInjective(g)
<1>4. s \in [1..n -> R] /\ IsInjective(s)
  BY <1>3
<1>5. SetToSeq(R) = s
  BY DEF SetToSeq
<1> HIDE DEF s, n
<1>6. s \in Seq(R) /\ Len(s) = n
  BY <1>1, <1>4
<1>7. Distinct(s)
  BY <1>1, <1>4, <1>6 DEF Distinct, IsInjective
<1>8. s \in Seq(S)
  BY <1>6, SeqMonotonic
<1> QED
  BY <1>5, <1>7, <1>8

(* A list with one element less.                                           *)
LEMMA ListWithout ==
    ASSUME NEW S, NEW s \in Seq(S), Distinct(s), NEW k \in 1..Len(s)
    PROVE  /\ RemoveAt(s, k) \in Seq(S)
           /\ Distinct(RemoveAt(s, k))
<1> DEFINE n == Len(s)
           a == SubSeq(s, 1, k - 1)
           b == SubSeq(s, k + 1, n)
<1>1. n \in Nat /\ \A i \in 1..n : s[i] \in S
  BY LenProperties, ElementOfSeq
<1>2. /\ a \in Seq(S) /\ Len(a) = k - 1
      /\ \A i \in 1..k - 1 : a[i] = s[i]
  <2>1. \A i \in 1..k - 1 : s[i] \in S
    BY <1>1
  <2>2. k - 1 \in Int /\ 1 \in Int
    BY <1>1
  <2>3. /\ a \in Seq(S)
        /\ Len(a) = IF 1 <= k - 1 THEN k - 1 - 1 + 1 ELSE 0
        /\ \A i \in 1..k - 1 - 1 + 1 : a[i] = s[1 + i - 1]
    BY <2>1, <2>2, SubSeqProperties
  <2> QED
    BY <1>1, <2>3
<1>3. /\ b \in Seq(S) /\ Len(b) = n - k
      /\ \A i \in 1..n - k : b[i] = s[k + i]
  <2>1. \A i \in k + 1..n : s[i] \in S
    BY <1>1
  <2>2. k + 1 \in Int /\ n \in Int
    BY <1>1
  <2>3. /\ b \in Seq(S)
        /\ Len(b) = IF k + 1 <= n THEN n - (k + 1) + 1 ELSE 0
        /\ \A i \in 1..n - (k + 1) + 1 : b[i] = s[k + 1 + i - 1]
    BY <2>1, <2>2, SubSeqProperties
  <2> QED
    BY <1>1, <2>3
<1> DEFINE u == a \o b
<1>4. RemoveAt(s, k) = u
  BY DEF RemoveAt
<1> HIDE DEF a, b
<1>5. /\ u \in Seq(S) /\ Len(u) = Len(a) + Len(b)
      /\ \A i \in 1..Len(a) + Len(b) : u[i] = IF i <= Len(a) THEN a[i] ELSE b[i - Len(a)]
  BY <1>2, <1>3, ConcatProperties
<1> HIDE DEF u
<1> DEFINE at(i) == IF i <= k - 1 THEN i ELSE i + 1
<1>6. Len(u) = n - 1
  BY <1>1, <1>2, <1>3, <1>5
<1>7. \A i \in 1..n - 1 : u[i] = s[at(i)] /\ at(i) \in 1..n
  <2> SUFFICES ASSUME NEW i \in 1..n - 1 PROVE u[i] = s[at(i)] /\ at(i) \in 1..n
    OBVIOUS
  <2>1. at(i) \in 1..n
    BY <1>1
  <2>2. CASE i <= k - 1
    BY <2>2, <1>1, <1>2, <1>3, <1>5
  <2>3. CASE i > k - 1
    <3>1. i - (k - 1) \in 1..n - k
      BY <2>3, <1>1
    <3>2. u[i] = b[i - (k - 1)]
      <4>1. i \in 1..Len(a) + Len(b) /\ ~(i <= Len(a)) /\ Len(a) = k - 1
        BY <2>3, <1>1, <1>2, <1>3
      <4> QED
        BY <4>1, <1>5
    <3>3. b[i - (k - 1)] = s[k + (i - (k - 1))]
      BY <3>1, <1>3
    <3>4. k + (i - (k - 1)) = i + 1
      BY <1>1
    <3> QED
      BY <2>1, <2>3, <3>2, <3>3, <3>4, <1>1
  <2> QED
    BY <2>1, <2>2, <2>3, <1>1
<1>8. \A i, j \in 1..n - 1 : u[i] = u[j] => i = j
  <2> SUFFICES ASSUME NEW i \in 1..n - 1, NEW j \in 1..n - 1, u[i] = u[j] PROVE i = j
    OBVIOUS
  <2>1. s[at(i)] = s[at(j)] /\ at(i) \in 1..n /\ at(j) \in 1..n
    BY <1>7
  <2>2. at(i) = at(j)
    BY <2>1 DEF Distinct
  <2> QED
    BY <2>2, <1>1
<1>9. Distinct(u)
  BY <1>6, <1>8 DEF Distinct
<1> QED
  BY <1>4, <1>5, <1>9

(* Every receiver has a rank.                                              *)
LEMMA ReceiversAreRanks ==
    ASSUME TransferAssumption, replicas \in Seq(Replicas), Distinct(replicas)
    PROVE  /\ Len(replicas) \in Nat
           /\ {0} \cup Receivers \subseteq Ranks
<1>1. Len(replicas) \in Nat /\ replicas \in [1..Len(replicas) -> Replicas]
  BY LenProperties
<1>2. replicas \in Injection(1..Len(replicas), Replicas)
  BY <1>1 DEF Injection, IsInjective, Distinct
<1>3. IsFiniteSet(Replicas)
  BY DEF TransferAssumption
<1>4. Cardinality(1..Len(replicas)) <= Cardinality(Replicas)
  BY <1>2, <1>3, FS_Injection
<1>5. Cardinality(1..Len(replicas)) = Len(replicas)
  BY <1>1, FS_Interval
<1>6. Cardinality(Replicas) \in Nat
  BY <1>3, FS_CardinalityType
<1> QED
  BY <1>1, <1>4, <1>5, <1>6 DEF Receivers, Ranks

(* The list holds different replicas, whatever the manager does.           *)
LEMMA ListInit ==
    ASSUME TransferAssumption, Init
    PROVE  replicas \in Seq(Replicas) /\ Distinct(replicas)
<1>1. PICK R \in SUBSET Replicas : replicas = SetToSeq(R)
  BY DEF Init
<1>2. IsFiniteSet(R)
  BY FS_Subset DEF TransferAssumption
<1> QED
  BY <1>1, <1>2, ListOfSet

LEMMA ListAdd ==
    ASSUME NEW S, NEW s \in Seq(S), Distinct(s), NEW p \in S, p \notin Range(s)
    PROVE  Append(s, p) \in Seq(S) /\ Distinct(Append(s, p))
<1> DEFINE u == Append(s, p)
<1>1. /\ u \in Seq(S) /\ Len(u) = Len(s) + 1 /\ u[Len(s) + 1] = p
      /\ \A i \in 1..Len(s) : u[i] = s[i]
  BY AppendProperties
<1> HIDE DEF u
<1>2. Len(s) \in Nat /\ DOMAIN s = 1..Len(s)
  BY LenProperties
<1>3. \A i \in 1..Len(s) : s[i] # p
  BY <1>2 DEF Range
<1>4. Distinct(u)
  <2> SUFFICES ASSUME NEW i \in 1..Len(u), NEW j \in 1..Len(u), u[i] = u[j] PROVE i = j
    BY DEF Distinct
  <2>1. CASE i \in 1..Len(s) /\ j \in 1..Len(s)
    BY <2>1, <1>1 DEF Distinct
  <2>2. CASE i \in 1..Len(s) /\ j = Len(s) + 1
    BY <2>2, <1>1, <1>3
  <2>3. CASE i = Len(s) + 1 /\ j \in 1..Len(s)
    BY <2>3, <1>1, <1>3
  <2>4. CASE i = Len(s) + 1 /\ j = Len(s) + 1
    BY <2>4
  <2> QED
    BY <2>1, <2>2, <2>3, <2>4, <1>1, <1>2
<1> QED
  BY <1>1, <1>4 DEF u

LEMMA ListStep ==
    ASSUME replicas \in Seq(Replicas), Distinct(replicas), [Next]_vars
    PROVE  replicas' \in Seq(Replicas) /\ Distinct(replicas)'
<1>1. CASE UNCHANGED replicas
  BY <1>1 DEF Distinct
<1>2. ASSUME NEW p \in Replicas, AddReplica(p)
      PROVE  replicas' \in Seq(Replicas) /\ Distinct(replicas)'
  <2>1. replicas' = Append(replicas, p) /\ p \notin Range(replicas)
    BY <1>2 DEF AddReplica
  <2>2. Append(replicas, p) \in Seq(Replicas) /\ Distinct(Append(replicas, p))
    BY <2>1, ListAdd
  <2> QED
    BY <2>1, <2>2 DEF Distinct
<1>3. ASSUME NEW p \in Replicas, RemoveReplica(p)
      PROVE  replicas' \in Seq(Replicas) /\ Distinct(replicas)'
  <2>1. replicas' = RemoveAt(replicas, Position(p)) /\ p \in Range(replicas)
    BY <1>3 DEF RemoveReplica
  <2>2. \E i \in Receivers : replicas[i] = p
    BY <2>1, LenProperties DEF Range, Receivers
  <2>3. Position(p) \in 1..Len(replicas)
    BY <2>2 DEF Position, Receivers
  <2>4. /\ RemoveAt(replicas, Position(p)) \in Seq(Replicas)
        /\ Distinct(RemoveAt(replicas, Position(p)))
    BY <2>3, ListWithout
  <2> QED
    BY <2>1, <2>4 DEF Distinct
<1>4. CASE \E r \in Receivers : ReceiverNext(r)
  <2>1. PICK r \in Receivers : ReceiverNext(r)
    BY <1>4
  <2>2. UNCHANGED replicas
    BY <2>1 DEF ReceiverNext, Begin, TakeMetadata, TakeData, FirstBucket, LaterBucket,
       NextBucket, Yield, ReceiveEnds, managerVars
  <2> QED
    BY <2>2, <1>1
<1>5. CASE ManagerNext \/ MasterNext
  <2>1. UNCHANGED replicas
    BY <1>5 DEF ManagerNext, AbortRequests, BuildProcessGroup, Finalize, ResumeRequests,
       MasterNext, Pack, Ship, ShipLast, SendEnds, managerVars
  <2> QED
    BY <2>1, <1>1
<1>6. CASE UNCHANGED vars
  BY <1>6, <1>1 DEF vars, managerVars
<1> QED
  BY <1>2, <1>3, <1>4, <1>5, <1>6 DEF Next

-----------------------------------------------------------------------------
(* Types                                                                   *)

LEMMA BasicTypes ==
    ASSUME TransferAssumption
    PROVE  /\ NumTensors \in Nat /\ BucketSize \in Nat \ {0}
           /\ 0 \in Ranks
           /\ NoMeta \in Metas /\ NoBuffer \in Buffers
           /\ NoMeta.tensors = <<>> /\ ~NoMeta.is_last
<1>1. Cardinality(Replicas) \in Nat
  BY FS_CardinalityType DEF TransferAssumption
<1>2. <<>> \in Seq(Entries)
  BY EmptySeq
<1>3. NoMeta \in Metas /\ NoMeta.tensors = <<>> /\ ~NoMeta.is_last
  BY <1>2 DEF NoMeta, Metas
<1>4. NoBuffer \in Buffers
  BY DEF NoBuffer, Buffers
<1> QED
  BY <1>1, <1>3, <1>4 DEF TransferAssumption, Ranks

LEMMA EachType ==
    ASSUME NEW T, NEW x \in T
    PROVE  Each(x) \in [Ranks -> T]
BY DEF Each

LEMMA FreshTypes ==
    ASSUME TransferAssumption, Init
    PROVE  Types
<1>1. <<>> \in Seq(Entries) /\ <<>> \in Seq(Metas) /\ <<>> \in Seq(Nat)
  BY EmptySeq
<1>2. /\ pos \in 0..NumTensors /\ offset \in 0..BucketSize
      /\ bucket_meta \in Seq(Entries) /\ master \in {"pack", "last", "done"}
      /\ backend \in {"nccl", "nixl"} /\ size \in [1..NumTensors -> Cells]
  BY <1>1, BasicTypes DEF Init
<1>3. buf \in [Ranks -> Buffers] /\ send \in [Ranks -> {0, 1}]
  BY BasicTypes, EachType DEF Init
<1>4. posted \in [Ranks -> Metas] /\ coming \in [Ranks -> Metas] /\ metadata \in [Ranks -> Metas]
  BY BasicTypes, EachType DEF Init
<1>5. inbox \in [Ranks -> Seq(Metas)] /\ loaded \in [Ranks -> Seq(Nat)]
  BY <1>1, EachType DEF Init
<1>6. got \in [Ranks -> SUBSET Ranks]
  BY EachType DEF Init
<1>7. /\ op \in [Ranks -> {"none", "meta", "data", "done"}]
      /\ pc \in [Ranks -> {"begin", "first", "yield", "done"}]
  BY EachType DEF Init
<1> QED
  BY <1>2, <1>3, <1>4, <1>5, <1>6, <1>7 DEF Types

LEMMA ResumeTypes ==
    ASSUME TransferAssumption, Types, ResumeRequests
    PROVE  Types'
<1>1. <<>> \in Seq(Entries) /\ <<>> \in Seq(Metas) /\ <<>> \in Seq(Nat)
  BY EmptySeq
<1>2. /\ pos' \in 0..NumTensors /\ offset' \in 0..BucketSize
      /\ bucket_meta' \in Seq(Entries) /\ master' \in {"pack", "last", "done"}
      /\ backend' \in {"nccl", "nixl"} /\ size' \in [1..NumTensors -> Cells]
  BY <1>1, BasicTypes DEF ResumeRequests, Types, config
<1>3. buf' \in [Ranks -> Buffers] /\ send' \in [Ranks -> {0, 1}]
  BY BasicTypes, EachType DEF ResumeRequests
<1>4. posted' \in [Ranks -> Metas] /\ coming' \in [Ranks -> Metas] /\ metadata' \in [Ranks -> Metas]
  BY BasicTypes, EachType DEF ResumeRequests
<1>5. inbox' \in [Ranks -> Seq(Metas)] /\ loaded' \in [Ranks -> Seq(Nat)]
  BY <1>1, EachType DEF ResumeRequests
<1>6. got' \in [Ranks -> SUBSET Ranks]
  BY EachType DEF ResumeRequests
<1>7. /\ op' \in [Ranks -> {"none", "meta", "data", "done"}]
      /\ pc' \in [Ranks -> {"begin", "first", "yield", "done"}]
  BY EachType DEF ResumeRequests
<1> QED
  BY <1>2, <1>3, <1>4, <1>5, <1>6, <1>7 DEF Types

LEMMA PostTypes ==
    ASSUME TransferAssumption, Types, NEW p \in Ranks, NEW meta \in Metas, Post(p, meta)
    PROVE  /\ posted' \in [Ranks -> Metas] /\ got' \in [Ranks -> SUBSET Ranks]
           /\ inbox' \in [Ranks -> Seq(Metas)]
<1>1. posted' \in [Ranks -> Metas] /\ got' \in [Ranks -> SUBSET Ranks]
  BY DEF Types, Post
<1>2. \A r \in Ranks : inbox[r] \in Seq(Metas)
  BY DEF Types
<1>3. \A r \in Ranks : Append(inbox[r], meta) \in Seq(Metas)
  BY <1>2, AppendProperties
<1>4. inbox' \in [Ranks -> Seq(Metas)]
  BY <1>2, <1>3 DEF Post
<1> QED
  BY <1>1, <1>4

LEMMA BucketTypes ==
    ASSUME TransferAssumption, Types, NEW last \in BOOLEAN
    PROVE  /\ Bucket(last) \in Metas
           /\ Bucket(last).tensors = bucket_meta
           /\ Bucket(last).is_last = last
           /\ Bucket(last).buf = send[0]
BY BasicTypes DEF Bucket, Metas, Types

LEMMA MasterTypes ==
    ASSUME TransferAssumption, Types, MasterNext
    PROVE  Types'
<1> USE BasicTypes
<1>1. CASE Pack
  <2>1. pos \in 0..NumTensors - 1 /\ size[pos + 1] \in Cells /\ size[pos + 1] \in 1..BucketSize
    BY <1>1 DEF Pack, Types, Cells
  <2>2. offset + size[pos + 1] \in 0..BucketSize /\ pos + 1 \in 1..NumTensors /\ pos + 1 \in Nat
    BY <1>1, <2>1 DEF Pack, Types, Fits
  <2>3. [name |-> pos + 1, offset |-> offset] \in Entries
    BY <2>2 DEF Entries, Types
  <2>4. bucket_meta' \in Seq(Entries)
    BY <1>1, <2>3, AppendProperties DEF Pack, Types
  <2>5. buf' \in [Ranks -> Buffers]
    <3> DEFINE new == [c \in Cells |-> IF c \in offset + 1..offset + size[pos + 1] THEN pos + 1
                                       ELSE buf[0][send[0]][c]]
    <3>1. buf[0] \in Buffers /\ send[0] \in {0, 1}
      BY DEF Types
    <3>2. buf[0][send[0]] \in [Cells -> Nat]
      BY <3>1 DEF Buffers
    <3>3. new \in [Cells -> Nat]
      BY <2>2, <3>2
    <3>4. buf' = [buf EXCEPT ![0] = [buf[0] EXCEPT ![send[0]] = new]]
      BY <1>1 DEF Pack
    <3> HIDE DEF new
    <3>5. [buf[0] EXCEPT ![send[0]] = new] \in Buffers
      BY <3>1, <3>3 DEF Buffers
    <3> QED
      BY <3>4, <3>5 DEF Types
  <2> QED
    BY <1>1, <2>2, <2>4, <2>5 DEF Pack, Types, config, managerVars, postVars, recvVars
<1>2. CASE Ship
  <2>1. Bucket(FALSE) \in Metas
    BY BucketTypes
  <2>2. /\ posted' \in [Ranks -> Metas] /\ got' \in [Ranks -> SUBSET Ranks]
        /\ inbox' \in [Ranks -> Seq(Metas)]
    BY <1>2, <2>1, PostTypes DEF Ship
  <2>3. send' \in [Ranks -> {0, 1}]
    <3>1. send[0] \in {0, 1} /\ 0 \in Ranks /\ send \in [Ranks -> {0, 1}]
      BY DEF Types
    <3>2. send' = [send EXCEPT ![0] = 1 - send[0]]
      BY <1>2 DEF Ship, Swap
    <3> QED
      BY <3>1, <3>2
  <2>4. bucket_meta' \in Seq(Entries) /\ offset' \in 0..BucketSize
    BY <1>2, EmptySeq DEF Ship
  <2> QED
    BY <1>2, <2>2, <2>3, <2>4 DEF Ship, Types, config, recvVars
<1>3. CASE ShipLast
  <2>1. Bucket(TRUE) \in Metas
    BY BucketTypes
  <2>2. /\ posted' \in [Ranks -> Metas] /\ got' \in [Ranks -> SUBSET Ranks]
        /\ inbox' \in [Ranks -> Seq(Metas)]
    BY <1>3, <2>1, PostTypes DEF ShipLast
  <2> QED
    BY <1>3, <2>2 DEF ShipLast, Types, config, recvVars
<1>4. CASE SendEnds
  BY <1>4 DEF SendEnds, Types, config, recvVars, postVars
<1> QED
  BY <1>1, <1>2, <1>3, <1>4 DEF MasterNext

(* What a receiver has from the rank it reads.                             *)
LEMMA SourceType ==
    ASSUME TransferAssumption, TypeInv, NEW r \in Receivers
    PROVE  Source(r) \in {0} \cup Receivers /\ Source(r) # r
BY ReceiversAreRanks DEF TypeInv, Source, Receivers

LEMMA EntryTypes ==
    ASSUME NEW ts \in Seq(Entries)
    PROVE  /\ Len(ts) \in Nat
           /\ \A i \in 1..Len(ts) : ts[i].name \in 1..NumTensors /\ ts[i].offset \in 0..BucketSize
           /\ ts # <<>> => Head(ts) \in Entries /\ Tail(ts) \in Seq(Entries)
<1>1. Len(ts) \in Nat /\ \A i \in 1..Len(ts) : ts[i] \in Entries
  BY LenProperties, ElementOfSeq
<1>2. ts # <<>> => Head(ts) \in Entries /\ Tail(ts) \in Seq(Entries)
  BY HeadTailProperties
<1> QED
  BY <1>1, <1>2 DEF Entries

LEMMA NextBucketTypes ==
    ASSUME TransferAssumption, TypeInv, NEW r \in Receivers, NextBucket(r)
    PROVE  Types'
<1> USE BasicTypes
<1>1. r \in Ranks
  BY ReceiversAreRanks DEF TypeInv
<1>2. Types
  BY DEF TypeInv
<1>3. send[r] \in {0, 1} /\ coming[r] \in Metas
  BY <1>1, <1>2 DEF Types
<1> DEFINE offer == [coming[r] EXCEPT !.buf = 1 - send[r]]
<1>4. offer \in Metas
  BY <1>3 DEF Metas
<1>5. /\ posted' \in [Ranks -> Metas] /\ got' \in [Ranks -> SUBSET Ranks]
      /\ inbox' \in [Ranks -> Seq(Metas)]
  <2>1. CASE backend = "nixl"
    <3>1. Post(r, offer)
      BY <2>1 DEF NextBucket
    <3> HIDE DEF offer
    <3> QED
      BY <1>1, <1>2, <1>4, <3>1, PostTypes
  <2>2. CASE backend # "nixl"
    BY <2>2, <1>2 DEF NextBucket, postVars, Types
  <2> QED
    BY <2>1, <2>2
<1>6. send' \in [Ranks -> {0, 1}] /\ metadata' \in [Ranks -> Metas]
  BY <1>1, <1>2, <1>3 DEF NextBucket, Swap, Types
<1>7. /\ op' \in [Ranks -> {"none", "meta", "data", "done"}]
      /\ pc' \in [Ranks -> {"begin", "first", "yield", "done"}]
  BY <1>1, <1>2 DEF NextBucket, Types
<1> QED
  BY <1>2, <1>5, <1>6, <1>7 DEF NextBucket, Types, config, packVars

LEMMA ReceiverTypes ==
    ASSUME TransferAssumption, TypeInv, NEW r \in Receivers, ReceiverNext(r)
    PROVE  Types'
<1> USE BasicTypes
<1>1. r \in Ranks /\ Source(r) \in Ranks
  BY ReceiversAreRanks, SourceType DEF TypeInv
<1>2. Types
  BY DEF TypeInv
<1>3. CASE Begin(r)
  BY <1>1, <1>2, <1>3 DEF Begin, Types, config, packVars, postVars
<1>4. CASE TakeMetadata(r)
  <2>1. inbox[r] \in Seq(Metas) /\ inbox[r] # <<>>
    BY <1>1, <1>2, <1>4 DEF TakeMetadata, Types
  <2>2. Head(inbox[r]) \in Metas /\ Tail(inbox[r]) \in Seq(Metas)
    BY <2>1, HeadTailProperties
  <2>3. coming' \in [Ranks -> Metas] /\ inbox' \in [Ranks -> Seq(Metas)]
    BY <1>1, <1>2, <1>4, <2>2 DEF TakeMetadata, Types
  <2> QED
    BY <1>1, <1>2, <1>4, <2>3 DEF TakeMetadata, Types, config, packVars
<1>5. CASE TakeData(r)
  <2> DEFINE p == Source(r)
             b == IF backend = "nccl" THEN posted[p].buf ELSE coming[r].buf
  <2>1. posted[p] \in Metas /\ coming[r] \in Metas /\ send[r] \in {0, 1}
    BY <1>1, <1>2 DEF Types
  <2>2. b \in {0, 1} /\ 1 - send[r] \in {0, 1}
    BY <2>1 DEF Metas
  <2>3. buf' = [buf EXCEPT ![r] = [buf[r] EXCEPT ![1 - send[r]] = buf[p][b]]]
    BY <1>5 DEF TakeData
  <2>4. got' = [got EXCEPT ![p] = got[p] \cup {r}]
    BY <1>5 DEF TakeData
  <2> HIDE DEF p, b
  <2>5. p \in Ranks
    BY <1>1 DEF p
  <2>6. buf[p][b] \in [Cells -> Nat] /\ buf[r] \in Buffers
    <3>1. buf[p] \in Buffers /\ buf[r] \in Buffers
      BY <1>1, <1>2, <2>5 DEF Types
    <3> QED
      BY <2>2, <3>1 DEF Buffers
  <2>7. [buf[r] EXCEPT ![1 - send[r]] = buf[p][b]] \in Buffers
    BY <2>2, <2>6 DEF Buffers
  <2>8. buf' \in [Ranks -> Buffers]
    BY <1>2, <2>3, <2>7 DEF Types
  <2>9. got' \in [Ranks -> SUBSET Ranks]
    BY <1>1, <1>2, <2>4, <2>5 DEF Types
  <2> QED
    BY <1>1, <1>2, <1>5, <2>8, <2>9 DEF TakeData, Types, config, packVars
<1>6. CASE FirstBucket(r) \/ LaterBucket(r)
  BY <1>6, NextBucketTypes DEF FirstBucket, LaterBucket
<1>7. CASE Yield(r)
  <2> DEFINE m == metadata[r]
  <2>1. m \in Metas /\ m.tensors # <<>> /\ m.tensors \in Seq(Entries)
    BY <1>1, <1>2, <1>7 DEF Yield, Types, Metas
  <2>2. Head(m.tensors).name \in Nat /\ Tail(m.tensors) \in Seq(Entries)
    <3>1. Head(m.tensors) \in Entries /\ Tail(m.tensors) \in Seq(Entries)
      BY <2>1, HeadTailProperties
    <3> QED
      BY <3>1 DEF Entries
  <2>3. Read(r, Head(m.tensors)) \in Nat
    BY <2>2 DEF Read
  <2>4. loaded[r] \in Seq(Nat)
    BY <1>1, <1>2 DEF Types
  <2>5. Append(loaded[r], Read(r, Head(m.tensors))) \in Seq(Nat)
    BY <2>3, <2>4, AppendProperties
  <2>6. loaded' \in [Ranks -> Seq(Nat)]
    BY <1>1, <1>2, <1>7, <2>5 DEF Yield, Types
  <2>7. metadata' = [metadata EXCEPT ![r] = [m EXCEPT !.tensors = Tail(m.tensors)]]
    BY <1>7 DEF Yield
  <2>8. [m EXCEPT !.tensors = Tail(m.tensors)] \in Metas
    BY <2>1, <2>2 DEF Metas
  <2>9. metadata' \in [Ranks -> Metas]
    BY <1>1, <1>2, <2>7, <2>8 DEF Types
  <2> QED
    BY <1>2, <1>7, <2>6, <2>9 DEF Yield, Types, config, packVars, postVars
<1>8. CASE ReceiveEnds(r)
  BY <1>1, <1>2, <1>8 DEF ReceiveEnds, Types, config, packVars, postVars
<1> QED
  BY <1>3, <1>4, <1>5, <1>6, <1>7, <1>8 DEF ReceiverNext

LEMMA TypeInit == TransferAssumption /\ Init => TypeInv
BY ListInit, FreshTypes DEF TypeInv

LEMMA TypeStep ==
    ASSUME TransferAssumption, TypeInv, [Next]_vars
    PROVE  TypeInv'
<1>1. replicas \in Seq(Replicas) /\ Distinct(replicas) /\ Types
  BY DEF TypeInv
<1>2. replicas' \in Seq(Replicas) /\ Distinct(replicas)'
  BY <1>1, ListStep
<1>3. Types'
  <2>1. CASE MasterNext
    BY <1>1, <2>1, MasterTypes
  <2>2. CASE \E r \in Receivers : ReceiverNext(r)
    BY <2>2, ReceiverTypes
  <2>3. CASE ResumeRequests
    BY <1>1, <2>3, ResumeTypes
  <2>4. CASE UNCHANGED <<config, packVars, buf, send, postVars, recvVars>>
    BY <1>1, <2>4 DEF Types, config, packVars, postVars, recvVars
  <2>5. CASE AbortRequests \/ BuildProcessGroup \/ Finalize
    BY <2>4, <2>5 DEF AbortRequests, BuildProcessGroup, Finalize
  <2>6. CASE \E p \in Replicas : AddReplica(p) \/ RemoveReplica(p)
    BY <2>4, <2>6 DEF AddReplica, RemoveReplica
  <2>7. CASE UNCHANGED vars
    BY <2>4, <2>7 DEF vars
  <2> QED
    BY <2>1, <2>2, <2>3, <2>5, <2>6, <2>7 DEF Next, ManagerNext
<1> QED
  BY <1>2, <1>3 DEF TypeInv

-----------------------------------------------------------------------------
(* Frames: what a step of one rank leaves as it is                         *)

(* Besides what is on its way, only what rank r has changes.               *)
Alone(r) ==
    /\ UNCHANGED <<config, managerVars>>
    /\ r # 0 => UNCHANGED packVars
    /\ \A q \in Ranks : q # r =>
          /\ buf'[q] = buf[q] /\ send'[q] = send[q] /\ posted'[q] = posted[q]
          /\ op'[q] = op[q] /\ coming'[q] = coming[q] /\ metadata'[q] = metadata[q]
          /\ pc'[q] = pc[q] /\ loaded'[q] = loaded[q]

LEMMA OneElement ==
    ASSUME NEW x
    PROVE  Append(<<>>, x) = <<x>> /\ Head(<<x>>) = x /\ Tail(<<x>>) = <<>>
OBVIOUS

LEMMA EmptyList == <<>> = [i \in 1..0 |-> i]
OBVIOUS

LEMMA RankTypes ==
    ASSUME TransferAssumption, TypeInv, NEW r \in {0} \cup Receivers
    PROVE  /\ r \in Ranks /\ r \in Nat
           /\ send[r] \in {0, 1} /\ 1 - send[r] \in {0, 1} /\ 1 - send[r] # send[r]
           /\ posted[r] \in Metas /\ coming[r] \in Metas /\ metadata[r] \in Metas
           /\ buf[r] \in Buffers
           /\ inbox[r] \in Seq(Metas) /\ loaded[r] \in Seq(Nat)
           /\ Len(loaded[r]) \in Nat
           /\ Yielding(r) \in Nat /\ Expecting(r) \in Nat
<1>1. r \in Ranks /\ r \in Nat
  BY ReceiversAreRanks DEF TypeInv, Receivers
<1>2. /\ send[r] \in {0, 1} /\ buf[r] \in Buffers
      /\ posted[r] \in Metas /\ coming[r] \in Metas /\ metadata[r] \in Metas
      /\ inbox[r] \in Seq(Metas) /\ loaded[r] \in Seq(Nat)
  BY <1>1 DEF TypeInv, Types
<1>3. 1 - send[r] \in {0, 1} /\ 1 - send[r] # send[r]
  BY <1>2
<1>4. metadata[r].tensors \in Seq(Entries) /\ coming[r].tensors \in Seq(Entries)
  BY <1>2 DEF Metas
<1>5. /\ Len(loaded[r]) \in Nat
      /\ Len(metadata[r].tensors) \in Nat /\ Len(coming[r].tensors) \in Nat
  BY <1>2, <1>4, LenProperties
<1> DEFINE a == Len(loaded[r])
           b == Len(metadata[r].tensors)
           c == Len(coming[r].tensors)
<1>6. a + b \in Nat /\ a + b + c \in Nat /\ a + b + 0 \in Nat
  <2> HIDE DEF a, b, c
  <2>1. a \in Nat /\ b \in Nat /\ c \in Nat
    BY <1>5 DEF a, b, c
  <2> QED
    BY <2>1
<1>7. Yielding(r) = a + b
  BY DEF Yielding
<1>8. Expecting(r) \in {a + b + c, a + b + 0}
  BY DEF Expecting, Yielding
<1> QED
  BY <1>1, <1>2, <1>3, <1>5, <1>6, <1>7, <1>8

LEMMA MetaTypes ==
    ASSUME NEW m \in Metas
    PROVE  /\ m.tensors \in Seq(Entries) /\ Len(m.tensors) \in Nat
           /\ m.is_last \in BOOLEAN /\ m.buf \in {0, 1}
<1>1. m.tensors \in Seq(Entries) /\ m.is_last \in BOOLEAN /\ m.buf \in {0, 1}
  BY DEF Metas
<1> QED
  BY <1>1, LenProperties

LEMMA OthersKeep ==
    ASSUME TransferAssumption, TypeInv, Flows, NEW r \in {0} \cup Receivers, Alone(r)
    PROVE  /\ r # 0 => PackInv'
           /\ \A p \in {0} \cup Receivers : p # r => PostOf(p)' /\ Announced(p)' = Announced(p)
           /\ \A q \in Receivers : q # r => RankOf(q)' /\ Expecting(q)' = Expecting(q)
<1>1. {0} \cup Receivers \subseteq Ranks
  BY ReceiversAreRanks DEF TypeInv
<1>2. backend' = backend /\ size' = size
  BY DEF Alone, config
<1>3. r # 0 => PackInv'
  BY <1>1, <1>2 DEF Alone, packVars, Flows, PackInv
<1>4. ASSUME NEW p \in {0} \cup Receivers, p # r PROVE PostOf(p)' /\ Announced(p)' = Announced(p)
  <2>1. posted'[p] = posted[p] /\ buf'[p] = buf[p] /\ metadata'[p] = metadata[p] /\ loaded'[p] = loaded[p]
    BY <1>1, <1>4 DEF Alone
  <2>2. Announced(p)' = Announced(p)
    <3>1. CASE p = 0
      BY <1>4, <3>1 DEF Alone, packVars, Announced
    <3>2. CASE p # 0
      BY <2>1, <3>2 DEF Announced, Yielding
    <3> QED
      BY <3>1, <3>2
  <2>3. PostOf(p)
    BY DEF Flows
  <2> QED
    BY <1>2, <2>1, <2>2, <2>3 DEF PostOf
<1>5. ASSUME NEW q \in Receivers, q # r PROVE RankOf(q)' /\ Expecting(q)' = Expecting(q)
  <2>1. /\ buf'[q] = buf[q] /\ send'[q] = send[q] /\ posted'[q] = posted[q]
        /\ op'[q] = op[q] /\ coming'[q] = coming[q] /\ metadata'[q] = metadata[q]
        /\ pc'[q] = pc[q] /\ loaded'[q] = loaded[q]
    BY <1>1, <1>5 DEF Alone
  <2>2. Yielding(q)' = Yielding(q) /\ Expecting(q)' = Expecting(q)
    BY <2>1 DEF Yielding, Expecting
  <2>3. RankOf(q)
    BY DEF Flows
  <2> QED
    BY <1>2, <2>1, <2>2, <2>3 DEF RankOf
<1> QED
  BY <1>3, <1>4, <1>5

(* Nothing comes to or goes from q's queue, and its source announced no    *)
(* more.                                                                   *)
LEMMA FlowKept ==
    ASSUME TransferAssumption, TypeInv, Flows, NEW r \in {0} \cup Receivers, Alone(r),
           NEW q \in Receivers, q # r, inbox'[q] = inbox[q],
           q \in got'[Source(q)] <=> q \in got[Source(q)],
           Source(q) = r => posted'[r] = posted[r] /\ Announced(r)' = Announced(r)
    PROVE  FlowOf(q)'
<1>1. q \in Ranks /\ Source(q) \in Ranks /\ Source(q) \in {0} \cup Receivers
  BY ReceiversAreRanks, SourceType DEF TypeInv
<1>2. Source(q)' = Source(q)
  BY DEF Alone, config, Source
<1>3. posted'[Source(q)] = posted[Source(q)] /\ op'[q] = op[q] /\ coming'[q] = coming[q]
  <2>1. CASE Source(q) = r
    BY <1>1, <2>1 DEF Alone
  <2>2. CASE Source(q) # r
    BY <1>1, <2>2 DEF Alone
  <2> QED
    BY <2>1, <2>2
<1>4. Expecting(q)' = Expecting(q)
  BY OthersKeep
<1>5. PICK p \in {0} \cup Receivers : p = Source(q)
  BY <1>1
<1>6. Announced(p)' = Announced(p)
  BY <1>5, OthersKeep
<1>7. FlowOf(q)
  BY DEF Flows
<1> QED
  BY <1>2, <1>3, <1>4, <1>5, <1>6, <1>7 DEF FlowOf

(* Those that read from p.                                                 *)
LEMMA TargetsRead ==
    ASSUME TransferAssumption, TypeInv, NEW p \in {0} \cup Receivers, NEW q \in Receivers
    PROVE  q \in Targets(p) <=> Source(q) = p
<1>1. p \in Nat /\ q \in Nat \ {0}
  BY RankTypes DEF Receivers
<1>2. backend \in {"nccl", "nixl"}
  BY DEF TypeInv, Types
<1>3. p # 0 => p \in Receivers
  OBVIOUS
<1> QED
  BY <1>1, <1>2, <1>3 DEF Targets, Source

(* A rank announces what it has when all have taken what it had.           *)
LEMMA PostFlow ==
    ASSUME TransferAssumption, TypeInv, Flows, NEW p \in {0} \cup Receivers,
           NEW meta \in Metas, Real(meta), Complete(p), Post(p, meta), Alone(p),
           Announced(p)' = Announced(p) + Len(meta.tensors)
    PROVE  \A q \in Receivers : q # p => FlowOf(q)'
<1> SUFFICES ASSUME NEW q \in Receivers, q # p PROVE FlowOf(q)'
  OBVIOUS
<1>1. q \in Ranks /\ p \in Ranks /\ Source(q) \in Ranks
  BY ReceiversAreRanks, SourceType DEF TypeInv
<1>2. CASE Source(q) # p
  <2>1. q \notin Targets(p)
    BY <1>2, TargetsRead
  <2>2. inbox'[q] = inbox[q]
    BY <1>1, <2>1 DEF Post
  <2>3. got'[Source(q)] = got[Source(q)]
    BY <1>1, <1>2 DEF Post, TypeInv, Types
  <2> QED
    BY <1>2, <2>2, <2>3, FlowKept
<1>3. CASE Source(q) = p
  <2>1. q \in Targets(p)
    BY <1>3, TargetsRead
  <2>2. FlowOf(q)
    BY DEF Flows
  <2>3. inbox[q] = <<>> /\ op[q] # "data" /\ Expecting(q) = Announced(p)
    BY <1>3, <2>1, <2>2 DEF FlowOf, Complete
  <2>4. inbox'[q] = <<meta>>
    <3>1. inbox'[q] = Append(inbox[q], meta)
      BY <1>1, <2>1 DEF Post
    <3> QED
      BY <2>3, <3>1, OneElement
  <2>5. posted'[p] = meta /\ got'[p] = {}
    BY <1>1 DEF Post, TypeInv, Types
  <2>6. op'[q] = op[q] /\ Expecting(q)' = Expecting(q)
    BY <1>1, OthersKeep DEF Alone
  <2>7. Source(q)' = p
    BY <1>3 DEF Alone, config, Source
  <2>8. meta # NoMeta
    BY BasicTypes DEF Real
  <2> QED
    BY <2>3, <2>4, <2>5, <2>6, <2>7, <2>8 DEF FlowOf
<1> QED
  BY <1>2, <1>3

-----------------------------------------------------------------------------
(* Tensors in the cells of a buffer                                        *)

LEMMA HoldsNone ==
    ASSUME NEW sizes, NEW first, NEW cells
    PROVE  Holds(sizes, <<>>, first, cells)
BY DEF Holds

LEMMA HoldsTail ==
    ASSUME NEW sizes, NEW ts \in Seq(Entries), ts # <<>>, NEW first \in Int, NEW cells,
           Holds(sizes, ts, first, cells)
    PROVE  /\ Head(ts).name = first + 1
           /\ \A c \in Head(ts).offset + 1..Head(ts).offset + sizes[Head(ts).name] :
                 cells[c] = Head(ts).name
           /\ Holds(sizes, Tail(ts), first + 1, cells)
           /\ Len(Tail(ts)) = Len(ts) - 1
<1> DEFINE n == Len(ts)
           u == Tail(ts)
<1>1. n \in Nat \ {0} /\ Head(ts) = ts[1]
  BY EmptySeq
<1>2. u \in Seq(Entries) /\ Len(u) = n - 1
  BY HeadTailProperties
<1>3. \A i \in 1..n - 1 : u[i] = ts[i + 1]
  BY <1>1
<1> HIDE DEF n, u
<1>4. \A i \in 1..n : /\ ts[i].name = first + i
                      /\ \A c \in ts[i].offset + 1..ts[i].offset + sizes[ts[i].name] :
                            cells[c] = ts[i].name
  BY DEF Holds, n
<1>5. 1 \in 1..n
  BY <1>1
<1>6. /\ Head(ts).name = first + 1
      /\ \A c \in Head(ts).offset + 1..Head(ts).offset + sizes[Head(ts).name] :
            cells[c] = Head(ts).name
  BY <1>1, <1>4, <1>5
<1>7. ASSUME NEW i \in 1..Len(u)
      PROVE  /\ u[i].name = first + 1 + i
             /\ \A c \in u[i].offset + 1..u[i].offset + sizes[u[i].name] : cells[c] = u[i].name
  <2>1. i \in 1..n - 1 /\ i + 1 \in 1..n
    BY <1>1, <1>2
  <2>2. u[i] = ts[i + 1]
    BY <1>3, <2>1
  <2>3. ts[i + 1].name = first + (i + 1)
    BY <1>4, <2>1
  <2>4. first + (i + 1) = first + 1 + i
    BY <2>1
  <2>5. \A c \in ts[i + 1].offset + 1..ts[i + 1].offset + sizes[ts[i + 1].name] :
           cells[c] = ts[i + 1].name
    BY <1>4, <2>1
  <2> QED
    BY <2>2, <2>3, <2>4, <2>5
<1>8. Holds(sizes, u, first + 1, cells)
  BY <1>7 DEF Holds
<1> QED
  BY <1>2, <1>6, <1>8 DEF u, n

(* One more tensor, in cells behind those of the others.                   *)
LEMMA HoldsAppend ==
    ASSUME NEW sizes, NEW ts \in Seq(Entries), NEW first \in Int, NEW cells, NEW more,
           NEW e \in Entries, NEW end \in Int,
           Holds(sizes, ts, first, cells),
           e.name = first + Len(ts) + 1, e.offset = end,
           \A i \in 1..Len(ts) : sizes[ts[i].name] \in Int,
           \A i \in 1..Len(ts) : ts[i].offset + sizes[ts[i].name] <= end,
           \A i \in 1..Len(ts) : \A c \in ts[i].offset + 1..ts[i].offset + sizes[ts[i].name] :
              c <= end => more[c] = cells[c],
           \A c \in end + 1..end + sizes[e.name] : more[c] = e.name
    PROVE  Holds(sizes, Append(ts, e), first, more)
<1> DEFINE n == Len(ts)
           u == Append(ts, e)
<1>1. n \in Nat
  BY LenProperties
<1>2. Len(u) = n + 1 /\ u[n + 1] = e /\ \A i \in 1..n : u[i] = ts[i]
  BY AppendProperties
<1> HIDE DEF u, n
<1>3. \A i \in 1..n : ts[i].offset \in Int
  BY EntryTypes DEF n
<1>4. ASSUME NEW i \in 1..Len(u)
      PROVE  /\ u[i].name = first + i
             /\ \A c \in u[i].offset + 1..u[i].offset + sizes[u[i].name] : more[c] = u[i].name
  <2>1. CASE i = n + 1
    <3>1. u[i] = e
      BY <1>2, <2>1
    <3>2. first + n + 1 = first + i /\ e.name = first + n + 1
      BY <1>1, <2>1 DEF n
    <3> QED
      BY <3>1, <3>2
  <2>2. CASE i \in 1..n
    <3>1. u[i] = ts[i]
      BY <1>2, <2>2
    <3>2. /\ ts[i].name = first + i
          /\ \A c \in ts[i].offset + 1..ts[i].offset + sizes[ts[i].name] : cells[c] = ts[i].name
      BY <2>2 DEF Holds, n
    <3> DEFINE o == ts[i].offset
               z == sizes[ts[i].name]
    <3>3. o \in Int /\ z \in Int /\ o + z <= end
      BY <1>3, <2>2 DEF n
    <3>4. \A c \in o + 1..o + z : c <= end => more[c] = cells[c]
      BY <2>2 DEF n
    <3> HIDE DEF o, z
    <3>5. \A c \in o + 1..o + z : c <= end
      BY <3>3
    <3>6. \A c \in o + 1..o + z : more[c] = cells[c]
      BY <3>4, <3>5
    <3> QED
      BY <3>1, <3>2, <3>6 DEF o, z
  <2> QED
    BY <1>1, <1>2, <2>1, <2>2
<1>5. Holds(sizes, u, first, more)
  BY <1>4 DEF Holds
<1> QED
  BY <1>5 DEF u

-----------------------------------------------------------------------------
(* A step of a receiver                                                    *)

LEMMA Together ==
    ASSUME TransferAssumption, TypeInv, Flows, NEW r \in Receivers, Alone(r),
           PostOf(r)', RankOf(r)', \A q \in Receivers : FlowOf(q)'
    PROVE  Flows'
<1>1. r \in {0} \cup Receivers /\ r # 0
  BY RankTypes DEF Receivers
<1>2. Receivers' = Receivers
  BY DEF Alone, managerVars, Receivers
<1>3. PackInv'
  BY <1>1, OthersKeep
<1>4. \A p \in {0} \cup Receivers : PostOf(p)'
  BY <1>1, OthersKeep
<1>5. \A q \in Receivers : RankOf(q)'
  BY <1>1, OthersKeep
<1> QED
  BY <1>2, <1>3, <1>4, <1>5 DEF Flows

(* A step that neither offers nor yields leaves what r announced.          *)
LEMMA PostSame ==
    ASSUME TransferAssumption, TypeInv, Flows, NEW r \in Receivers, Alone(r),
           loaded'[r] = loaded[r], metadata'[r] = metadata[r], posted'[r] = posted[r],
           buf'[r][send[r]] = buf[r][send[r]]
    PROVE  PostOf(r)' /\ Announced(r)' = Announced(r)
<1>1. r # 0 /\ r \in {0} \cup Receivers
  BY RankTypes DEF Receivers
<1>2. Announced(r)' = Announced(r)
  BY <1>1 DEF Announced, Yielding
<1>3. PostOf(r) /\ RankOf(r)
  BY <1>1 DEF Flows
<1>4. size' = size
  BY DEF Alone, config
<1>5. CASE posted[r] # NoMeta
  <2>1. posted[r].buf = send[r]
    BY <1>3, <1>5 DEF RankOf
  <2> QED
    BY <1>2, <1>3, <1>4, <2>1 DEF PostOf
<1>6. CASE posted[r] = NoMeta
  <2>1. posted[r].tensors = <<>>
    BY <1>6, BasicTypes
  <2>2. Holds(size, <<>>, Announced(r)' - Len(posted[r].tensors), buf'[r][posted[r].buf])
    BY HoldsNone
  <2> QED
    BY <1>2, <1>3, <1>4, <2>1, <2>2 DEF PostOf
<1> QED
  BY <1>2, <1>5, <1>6

LEMMA BeginFlow ==
    ASSUME TransferAssumption, TypeInv, Flows, NEW r \in Receivers, Begin(r)
    PROVE  Flows'
<1> USE DEF Begin
<1>1. r # 0 /\ r \in {0} \cup Receivers /\ r \in Ranks
  BY RankTypes DEF Receivers
<1>2. /\ op' = [op EXCEPT ![r] = "meta"] /\ pc' = [pc EXCEPT ![r] = "first"]
      /\ UNCHANGED <<config, managerVars, packVars, buf, send, postVars, coming, metadata, loaded>>
  OBVIOUS
<1>3. op'[r] = "meta" /\ pc'[r] = "first" /\ \A q \in Ranks \ {r} : op'[q] = op[q] /\ pc'[q] = pc[q]
  BY <1>1 DEF TypeInv, Types
<1>4. Alone(r)
  BY <1>2, <1>3 DEF Alone, postVars
<1>5. PostOf(r)' /\ Announced(r)' = Announced(r)
  BY <1>2, <1>4, PostSame DEF postVars
<1>6. RankOf(r) /\ FlowOf(r)
  BY DEF Flows
<1>7. op[r] = "none" /\ metadata[r] = NoMeta
  BY <1>6 DEF RankOf
<1>8. RankOf(r)'
  BY <1>2, <1>3, <1>6, <1>7, BasicTypes DEF RankOf, config, postVars, Yielding, Expecting
<1>9. ASSUME NEW q \in Receivers PROVE FlowOf(q)'
  <2>1. CASE q # r
    BY <1>1, <1>2, <1>4, <1>5, <2>1, FlowKept DEF postVars
  <2>2. CASE q = r
    <3>1. Source(r) \in {0} \cup Receivers /\ Source(r) # r /\ Source(r)' = Source(r)
      BY <1>2, SourceType DEF Source, config
    <3>2. PICK p \in {0} \cup Receivers : p = Source(r) /\ p # r
      BY <3>1
    <3>3. Announced(p)' = Announced(p)
      BY <1>1, <1>4, <3>2, OthersKeep
    <3>4. Expecting(r)' = Expecting(r)
      BY <1>2, <1>3, <1>7 DEF Expecting, Yielding
    <3> QED
      BY <1>2, <1>3, <1>6, <1>7, <2>2, <3>1, <3>2, <3>3, <3>4 DEF FlowOf, postVars
  <2> QED
    BY <2>1, <2>2
<1> QED
  BY <1>4, <1>5, <1>8, <1>9, Together

LEMMA TakeMetadataFlow ==
    ASSUME TransferAssumption, TypeInv, Flows, NEW r \in Receivers, TakeMetadata(r)
    PROVE  Flows'
<1>1. r # 0 /\ r \in {0} \cup Receivers /\ r \in Ranks
  BY RankTypes DEF Receivers
<1>2. /\ op[r] = "meta" /\ inbox[r] # <<>>
      /\ coming' = [coming EXCEPT ![r] = Head(inbox[r])]
      /\ inbox' = [inbox EXCEPT ![r] = Tail(inbox[r])]
      /\ op' = [op EXCEPT ![r] = "data"]
      /\ UNCHANGED <<config, managerVars, packVars, buf, send, posted, got, metadata, pc, loaded>>
  BY DEF TakeMetadata
<1>3. /\ op'[r] = "data" /\ coming'[r] = Head(inbox[r]) /\ inbox'[r] = Tail(inbox[r])
      /\ \A q \in Ranks \ {r} : op'[q] = op[q] /\ coming'[q] = coming[q] /\ inbox'[q] = inbox[q]
  BY <1>1, <1>2 DEF TypeInv, Types
<1>4. Alone(r)
  BY <1>2, <1>3 DEF Alone
<1>5. PostOf(r)' /\ Announced(r)' = Announced(r)
  BY <1>2, <1>4, PostSame
<1>6. RankOf(r) /\ FlowOf(r)
  BY DEF Flows
<1>7. RankOf(r)'
  <2>1. ~metadata[r].is_last /\ pc[r] # "begin" /\ pc[r] # "done"
    BY <1>2, <1>6 DEF RankOf
  <2> QED
    BY <1>2, <1>3, <1>6, <2>1 DEF RankOf, config
<1>8. PICK p \in {0} \cup Receivers : p = Source(r) /\ p # r
  BY SourceType
<1>9. Source(r)' = p
  BY <1>2, <1>8 DEF Source, config
<1>10. Announced(p)' = Announced(p)
  BY <1>1, <1>4, <1>8, OthersKeep
<1>11. /\ posted[p] # NoMeta /\ r \notin got[p] /\ inbox[r] = <<posted[p]>>
       /\ Expecting(r) + Len(posted[p].tensors) = Announced(p)
  BY <1>2, <1>6, <1>8 DEF FlowOf
<1>12. coming'[r] = posted[p] /\ inbox'[r] = <<>>
  BY <1>3, <1>11, OneElement
<1>13. Expecting(r) = Yielding(r) /\ Expecting(r)' = Yielding(r) + Len(posted[p].tensors)
  <2>1. Expecting(r) = Yielding(r) + 0 /\ Yielding(r) \in Nat
    BY <1>1, <1>2, RankTypes DEF Expecting
  <2>2. Yielding(r)' = Yielding(r)
    BY <1>2 DEF Yielding
  <2>3. Expecting(r)' = Yielding(r)' + Len(coming'[r].tensors)
    BY <1>3 DEF Expecting
  <2> QED
    BY <2>1, <2>2, <2>3, <1>12
<1>14. FlowOf(r)'
  BY <1>2, <1>3, <1>9, <1>10, <1>11, <1>12, <1>13 DEF FlowOf
<1>15. ASSUME NEW q \in Receivers, q # r PROVE FlowOf(q)'
  BY <1>1, <1>2, <1>3, <1>4, <1>5, <1>15, RankTypes, FlowKept
<1> QED
  BY <1>4, <1>5, <1>7, <1>14, <1>15, Together

LEMMA TakeDataFlow ==
    ASSUME TransferAssumption, TypeInv, Flows, NEW r \in Receivers, TakeData(r)
    PROVE  Flows'
<1>1. r # 0 /\ r \in {0} \cup Receivers /\ r \in Ranks
  BY RankTypes DEF Receivers
<1>2. PICK p \in {0} \cup Receivers : p = Source(r) /\ p # r
  BY SourceType
<1>3. p \in Ranks
  BY RankTypes
<1> DEFINE b == IF backend = "nccl" THEN posted[p].buf ELSE coming[r].buf
<1>4. /\ op[r] = "data"
      /\ buf' = [buf EXCEPT ![r] = [buf[r] EXCEPT ![1 - send[r]] = buf[p][b]]]
      /\ got' = [got EXCEPT ![p] = got[p] \cup {r}]
      /\ op' = [op EXCEPT ![r] = "done"]
      /\ UNCHANGED <<config, managerVars, packVars, send, posted, inbox, coming, metadata, pc, loaded>>
  BY <1>2 DEF TakeData
<1>5. RankOf(r) /\ FlowOf(r) /\ PostOf(p)
  BY DEF Flows
<1>6. /\ posted[p] # NoMeta /\ r \notin got[p] /\ inbox[r] = <<>>
      /\ coming[r] = posted[p] /\ Expecting(r) = Announced(p)
  BY <1>2, <1>4, <1>5 DEF FlowOf
<1>7. b = posted[p].buf
  BY <1>6
<1> HIDE DEF b
<1>8. /\ send[r] \in {0, 1} /\ 1 - send[r] \in {0, 1} /\ 1 - send[r] # send[r]
      /\ buf[r] \in Buffers
  BY <1>1, RankTypes
<1>9. /\ op'[r] = "done" /\ \A q \in Ranks \ {r} : op'[q] = op[q] /\ buf'[q] = buf[q]
      /\ buf'[r] = [buf[r] EXCEPT ![1 - send[r]] = buf[p][b]]
  BY <1>1, <1>4 DEF TypeInv, Types
<1>10. buf'[r][1 - send[r]] = buf[p][posted[p].buf] /\ buf'[r][send[r]] = buf[r][send[r]]
  BY <1>7, <1>8, <1>9 DEF Buffers
<1>11. got'[p] = got[p] \cup {r} /\ \A q \in Ranks \ {p} : got'[q] = got[q]
  BY <1>3, <1>4 DEF TypeInv, Types
<1>12. Alone(r)
  BY <1>4, <1>9 DEF Alone
<1>13. PostOf(r)' /\ Announced(r)' = Announced(r)
  BY <1>4, <1>10, <1>12, PostSame
<1>14. Source(r)' = p
  BY <1>2, <1>4 DEF Source, config
<1>15. Announced(p)' = Announced(p)
  BY <1>1, <1>12, <1>2, OthersKeep
<1>16. /\ Expecting(r)' = Expecting(r) /\ Yielding(r)' = Yielding(r)
       /\ Expecting(r) = Yielding(r) + Len(posted[p].tensors)
  BY <1>4, <1>6, <1>9 DEF Expecting, Yielding
<1>17. FlowOf(r)'
  BY <1>4, <1>6, <1>9, <1>11, <1>14, <1>15, <1>16 DEF FlowOf
<1>18. RankOf(r)'
  <2>1. ~metadata[r].is_last /\ pc[r] # "begin" /\ pc[r] # "done"
    BY <1>4, <1>5 DEF RankOf
  <2>2. Real(posted[p]) /\ (posted[p].is_last => Announced(p) = NumTensors)
    BY <1>5, <1>6 DEF PostOf
  <2>3. Announced(p) - Len(posted[p].tensors) = Yielding(r)
    <3>1. Yielding(r) \in Nat /\ Len(posted[p].tensors) \in Nat
      BY <1>1, RankTypes, MetaTypes
    <3> QED
      BY <1>6, <1>16, <3>1
  <2>4. Holds(size, posted[p].tensors, Yielding(r), buf[p][posted[p].buf])
    BY <1>5, <2>3 DEF PostOf
  <2>5. Holds(size, coming[r].tensors, Yielding(r)', buf'[r][1 - send[r]])
    BY <1>6, <1>10, <1>16, <2>4
  <2>6. Expecting(r)' = Announced(p)
    BY <1>6, <1>16
  <2>7. size' = size /\ backend' = backend
    BY <1>4 DEF config
  <2> QED
    BY <1>4, <1>5, <1>6, <1>9, <1>10, <2>1, <2>2, <2>5, <2>6, <2>7 DEF RankOf
<1>19. ASSUME NEW q \in Receivers, q # r PROVE FlowOf(q)'
  <2>1. q \in Ranks /\ Source(q) \in Ranks
    BY RankTypes, SourceType
  <2>2. q \in got'[Source(q)] <=> q \in got[Source(q)]
    BY <1>11, <1>19, <2>1
  <2> QED
    BY <1>1, <1>4, <1>12, <1>13, <1>19, <2>2, FlowKept
<1> QED
  BY <1>12, <1>13, <1>17, <1>18, <1>19, Together

LEMMA YieldFlow ==
    ASSUME TransferAssumption, TypeInv, Flows, NEW r \in Receivers, Yield(r)
    PROVE  Flows'
<1>1. r # 0 /\ r \in {0} \cup Receivers /\ r \in Ranks
  BY RankTypes DEF Receivers
<1> DEFINE m == metadata[r]
           ts == m.tensors
           x == Read(r, Head(ts))
<1>2. /\ pc[r] = "yield" /\ ts # <<>>
      /\ loaded' = [loaded EXCEPT ![r] = Append(loaded[r], x)]
      /\ metadata' = [metadata EXCEPT ![r] = [m EXCEPT !.tensors = Tail(ts)]]
      /\ UNCHANGED <<config, managerVars, packVars, buf, send, postVars, op, coming, pc>>
  BY DEF Yield
<1>3. m \in Metas /\ ts \in Seq(Entries)
  BY <1>1, RankTypes, MetaTypes
<1>4. /\ loaded'[r] = Append(loaded[r], x)
      /\ metadata'[r] = [m EXCEPT !.tensors = Tail(ts)]
      /\ \A q \in Ranks \ {r} : loaded'[q] = loaded[q] /\ metadata'[q] = metadata[q]
  BY <1>1, <1>2 DEF TypeInv, Types
<1>5. RankOf(r) /\ FlowOf(r) /\ PostOf(r)
  BY <1>1 DEF Flows
<1> DEFINE n == Len(loaded[r])
<1>6. n \in Nat /\ loaded[r] \in Seq(Nat) /\ Len(ts) \in Nat
  BY <1>1, <1>3, RankTypes, LenProperties
<1>7. Holds(size, ts, n, buf[r][send[r]])
  BY <1>5 DEF RankOf
<1>8. /\ Head(ts).name = n + 1
      /\ \A c \in Head(ts).offset + 1..Head(ts).offset + size[Head(ts).name] :
            buf[r][send[r]][c] = Head(ts).name
      /\ Holds(size, Tail(ts), n + 1, buf[r][send[r]])
      /\ Len(Tail(ts)) = Len(ts) - 1
  <2>1. n \in Int /\ ts # <<>>
    BY <1>2, <1>6
  <2> HIDE DEF n, ts
  <2> QED
    BY <1>3, <1>7, <2>1, HoldsTail
<1>9. x = n + 1
  BY <1>8 DEF Read
<1>10. /\ metadata'[r].tensors = Tail(ts) /\ metadata'[r].is_last = m.is_last
  BY <1>3, <1>4 DEF Metas
<1> HIDE DEF x
<1>11. /\ Len(loaded'[r]) = n + 1 /\ loaded'[r][n + 1] = n + 1
       /\ \A i \in 1..n : loaded'[r][i] = loaded[r][i]
       /\ loaded'[r] \in Seq(Nat)
  <2>1. x \in Nat
    BY <1>6, <1>9
  <2> QED
    BY <1>4, <1>6, <1>9, <2>1, AppendProperties
<1>12. loaded'[r] = [i \in 1..Len(loaded'[r]) |-> i]
  <2>1. loaded[r] = [i \in 1..n |-> i]
    BY <1>5 DEF RankOf
  <2>2. \A i \in 1..n : loaded[r][i] = i
    BY <2>1
  <2>3. \A i \in 1..n + 1 : loaded'[r][i] = i
    <3> SUFFICES ASSUME NEW i \in 1..n + 1 PROVE loaded'[r][i] = i
      OBVIOUS
    <3>1. CASE i \in 1..n
      BY <1>11, <2>2, <3>1
    <3>2. CASE i = n + 1
      BY <1>11, <3>2
    <3> QED
      BY <3>1, <3>2, <1>6
  <2>4. DOMAIN loaded'[r] = 1..n + 1 /\ loaded'[r] = [i \in 1..n + 1 |-> loaded'[r][i]]
    BY <1>11, LenProperties
  <2> HIDE DEF n
  <2> QED
    BY <1>11, <2>3, <2>4
<1>13. Yielding(r)' = Yielding(r)
  <2>1. Yielding(r) = n + Len(ts)
    BY DEF Yielding
  <2>2. Yielding(r)' = n + 1 + (Len(ts) - 1)
    BY <1>8, <1>10, <1>11 DEF Yielding
  <2> HIDE DEF n, ts
  <2> QED
    BY <1>6, <2>1, <2>2
<1>14. Expecting(r)' = Expecting(r)
  BY <1>2, <1>13 DEF Expecting
<1>15. Alone(r)
  BY <1>2, <1>4 DEF Alone, postVars
<1>16. Announced(r)' = Announced(r)
  BY <1>1, <1>13 DEF Announced
<1>17. PostOf(r)'
  BY <1>2, <1>5, <1>16 DEF PostOf, postVars, config
<1>18. RankOf(r)'
  <2>1. Holds(size, metadata'[r].tensors, Len(loaded'[r]), buf[r][send[r]])
    BY <1>8, <1>10, <1>11
  <2> HIDE DEF m, ts, n
  <2>2. metadata'[r].is_last = metadata[r].is_last
    BY <1>10 DEF m
  <2> QED
    BY <1>2, <1>5, <1>12, <1>13, <1>14, <2>1, <2>2 DEF RankOf, config, postVars
<1>19. ASSUME NEW q \in Receivers PROVE FlowOf(q)'
  <2>1. CASE q # r
    BY <1>1, <1>2, <1>15, <1>16, <2>1, FlowKept DEF postVars
  <2>2. CASE q = r
    <3>1. Source(r) \in {0} \cup Receivers /\ Source(r) # r /\ Source(r)' = Source(r)
      BY <1>2, SourceType DEF Source, config
    <3>2. PICK p \in {0} \cup Receivers : p = Source(r) /\ p # r
      BY <3>1
    <3>3. Announced(p)' = Announced(p)
      BY <1>1, <1>15, <3>2, OthersKeep
    <3> HIDE DEF m, ts, n
    <3> QED
      BY <1>2, <1>5, <1>14, <2>2, <3>1, <3>2, <3>3 DEF FlowOf, postVars
  <2> QED
    BY <2>1, <2>2
<1> QED
  BY <1>15, <1>17, <1>18, <1>19, Together

LEMMA ReceiveEndsFlow ==
    ASSUME TransferAssumption, TypeInv, Flows, NEW r \in Receivers, ReceiveEnds(r)
    PROVE  Flows'
<1>1. r # 0 /\ r \in {0} \cup Receivers /\ r \in Ranks
  BY RankTypes DEF Receivers
<1>2. /\ pc[r] = "yield" /\ metadata[r].tensors = <<>> /\ metadata[r].is_last
      /\ pc' = [pc EXCEPT ![r] = "done"]
      /\ UNCHANGED <<config, managerVars, packVars, buf, send, postVars, op, coming, metadata, loaded>>
  BY DEF ReceiveEnds
<1>3. pc'[r] = "done" /\ \A q \in Ranks \ {r} : pc'[q] = pc[q]
  BY <1>1, <1>2 DEF TypeInv, Types
<1>4. Alone(r)
  BY <1>2, <1>3 DEF Alone, postVars
<1>5. PostOf(r)' /\ Announced(r)' = Announced(r)
  BY <1>2, <1>4, PostSame DEF postVars
<1>6. RankOf(r) /\ FlowOf(r)
  BY DEF Flows
<1>7. Yielding(r)' = Yielding(r) /\ Expecting(r)' = Expecting(r)
  BY <1>2 DEF Yielding, Expecting
<1>8. RankOf(r)'
  BY <1>2, <1>3, <1>6, <1>7 DEF RankOf, config, postVars
<1>9. ASSUME NEW q \in Receivers PROVE FlowOf(q)'
  <2>1. CASE q # r
    BY <1>1, <1>2, <1>4, <1>5, <2>1, FlowKept DEF postVars
  <2>2. CASE q = r
    <3>1. Source(r) \in {0} \cup Receivers /\ Source(r) # r /\ Source(r)' = Source(r)
      BY <1>2, SourceType DEF Source, config
    <3>2. PICK p \in {0} \cup Receivers : p = Source(r) /\ p # r
      BY <3>1
    <3>3. Announced(p)' = Announced(p)
      BY <1>1, <1>4, <3>2, OthersKeep
    <3> QED
      BY <1>2, <1>6, <1>7, <2>2, <3>1, <3>2, <3>3 DEF FlowOf, postVars
  <2> QED
    BY <2>1, <2>2
<1> QED
  BY <1>4, <1>5, <1>8, <1>9, Together

LEMMA NextBucketFlow ==
    ASSUME TransferAssumption, TypeInv, Flows, NEW r \in Receivers,
           FirstBucket(r) \/ LaterBucket(r)
    PROVE  Flows'
<1>1. r # 0 /\ r \in {0} \cup Receivers /\ r \in Ranks
  BY RankTypes DEF Receivers
<1>2. RankOf(r) /\ FlowOf(r) /\ PostOf(r)
  BY <1>1 DEF Flows
<1>3. NextBucket(r)
  BY DEF FirstBucket, LaterBucket
<1>4. metadata[r].tensors = <<>> /\ ~metadata[r].is_last /\ Complete(r)
  <2>1. CASE FirstBucket(r)
    BY <1>2, <2>1, BasicTypes DEF FirstBucket, RankOf, Complete
  <2>2. CASE LaterBucket(r)
    BY <2>2 DEF LaterBucket, Forwarded
  <2> QED
    BY <2>1, <2>2
<1> DEFINE m == coming[r]
           offer == [m EXCEPT !.buf = 1 - send[r]]
<1>5. /\ op[r] = "done"
      /\ send' = [send EXCEPT ![r] = 1 - send[r]]
      /\ metadata' = [metadata EXCEPT ![r] = m]
      /\ op' = [op EXCEPT ![r] = IF m.is_last THEN "none" ELSE "meta"]
      /\ pc' = [pc EXCEPT ![r] = "yield"]
      /\ backend = "nixl" => Post(r, offer)
      /\ backend # "nixl" => UNCHANGED postVars
      /\ UNCHANGED <<config, managerVars, packVars, buf, coming, loaded>>
  BY <1>3 DEF NextBucket, Swap
<1>6. m \in Metas /\ send[r] \in {0, 1} /\ 1 - send[r] \in {0, 1}
  BY <1>1, RankTypes
<1>7. offer \in Metas /\ offer.tensors = m.tensors /\ offer.is_last = m.is_last /\ offer.buf = 1 - send[r]
  BY <1>6 DEF Metas
<1> HIDE DEF offer
<1>8. /\ send'[r] = 1 - send[r] /\ metadata'[r] = m /\ pc'[r] = "yield"
      /\ op'[r] = IF m.is_last THEN "none" ELSE "meta"
      /\ \A q \in Ranks \ {r} : /\ send'[q] = send[q] /\ metadata'[q] = metadata[q]
                                /\ pc'[q] = pc[q] /\ op'[q] = op[q]
  BY <1>1, <1>5 DEF TypeInv, Types
<1>9. /\ backend = "nixl" => posted'[r] = offer /\ got'[r] = {}
      /\ \A q \in Ranks \ {r} : posted'[q] = posted[q] /\ got'[q] = got[q]
  BY <1>1, <1>5 DEF TypeInv, Types, Post, postVars
<1>10. Alone(r)
  BY <1>5, <1>8, <1>9 DEF Alone
<1>11. /\ Holds(size, m.tensors, Yielding(r), buf[r][1 - send[r]])
       /\ Real(m) /\ (m.is_last => Expecting(r) = NumTensors)
  BY <1>2, <1>5 DEF RankOf
<1>12. Len(loaded[r]) \in Nat /\ Len(m.tensors) \in Nat
  BY <1>1, <1>6, RankTypes, MetaTypes
<1>13. /\ Yielding(r) = Len(loaded[r])
       /\ Expecting(r) = Yielding(r) + Len(m.tensors)
       /\ Yielding(r)' = Yielding(r) + Len(m.tensors)
       /\ Expecting(r)' = Expecting(r)
       /\ Yielding(r) \in Nat /\ Yielding(r)' \in Nat
  <2>1. Len(metadata[r].tensors) = 0
    BY <1>4, EmptySeq
  <2>2. Yielding(r) = Len(loaded[r])
    BY <1>12, <2>1 DEF Yielding
  <2>3. Expecting(r) = Yielding(r) + Len(m.tensors)
    BY <1>5 DEF Expecting
  <2>4. Yielding(r)' = Len(loaded[r]) + Len(m.tensors)
    BY <1>5, <1>8 DEF Yielding
  <2>5. Expecting(r)' = Yielding(r)' + 0
    BY <1>8 DEF Expecting
  <2>6. Yielding(r) \in Nat
    BY <1>12, <2>2
  <2>7. Yielding(r)' = Yielding(r) + Len(m.tensors)
    BY <2>2, <2>4
  <2>8. Yielding(r)' \in Nat
    <3> DEFINE k == Len(m.tensors)
               y == Yielding(r)
    <3>1. k \in Nat /\ y \in Nat /\ Yielding(r)' = y + k
      BY <1>12, <2>6, <2>7
    <3> HIDE DEF k, y, m
    <3> QED
      BY <3>1
  <2>9. Expecting(r)' = Yielding(r)'
    BY <2>5, <2>8
  <2> QED
    BY <2>2, <2>3, <2>6, <2>7, <2>8, <2>9
<1>14. Real(offer)
  BY <1>7, <1>11 DEF Real
<1>15. posted'[r] = NoMeta \/ (backend = "nixl" /\ posted'[r] = offer)
  <2>1. CASE backend = "nixl"
    BY <1>9, <2>1
  <2>2. CASE backend # "nixl"
    <3>1. backend = "nccl" /\ posted' = posted
      BY <1>5, <2>2 DEF TypeInv, Types, postVars
    <3> QED
      BY <1>2, <3>1 DEF RankOf
  <2> QED
    BY <2>1, <2>2
<1>16. Announced(r)' = Announced(r) + Len(offer.tensors)
  BY <1>1, <1>7, <1>13 DEF Announced
<1>17. Announced(r)' = Yielding(r)'
  BY <1>1 DEF Announced
<1>18. size' = size /\ backend' = backend
  BY <1>5 DEF config
<1>19. PostOf(r)'
  <2>1. CASE posted'[r] = NoMeta
    <3>1. posted'[r].tensors = <<>> /\ ~posted'[r].is_last
      BY <2>1, BasicTypes
    <3>2. Announced(r)' \in Nat
      BY <1>13, <1>17
    <3>3. Holds(size, <<>>, Announced(r)' - Len(posted'[r].tensors), buf[r][posted'[r].buf])
      BY HoldsNone
    <3>4. Len(posted'[r].tensors) = 0
      BY <3>1, EmptySeq
    <3> QED
      BY <1>5, <1>18, <2>1, <3>1, <3>2, <3>3, <3>4 DEF PostOf
  <2>2. CASE posted'[r] = offer
    <3>1. Announced(r)' - Len(offer.tensors) = Yielding(r) /\ Len(offer.tensors) <= Announced(r)'
      <4> DEFINE k == Len(m.tensors)
                 y == Yielding(r)
      <4>1. Len(offer.tensors) = k /\ Announced(r)' = y + k /\ k \in Nat /\ y \in Nat
        BY <1>7, <1>12, <1>13, <1>17
      <4> HIDE DEF k, y, m
      <4>2. Announced(r)' - Len(offer.tensors) = y /\ Len(offer.tensors) <= Announced(r)'
        BY <4>1
      <4> QED
        BY <4>2 DEF y
    <3>2. Holds(size, offer.tensors, Announced(r)' - Len(offer.tensors), buf[r][offer.buf])
      BY <1>7, <1>11, <3>1
    <3>3. offer.is_last => Announced(r)' = NumTensors
      BY <1>7, <1>11, <1>13, <1>17
    <3> QED
      BY <1>5, <1>14, <1>18, <2>2, <3>1, <3>2, <3>3 DEF PostOf
  <2> QED
    BY <1>15, <2>1, <2>2
<1>20. RankOf(r)'
  <2>1. Holds(size, metadata'[r].tensors, Len(loaded[r]), buf[r][send'[r]])
    BY <1>8, <1>11, <1>13
  <2>2. posted'[r] # NoMeta => posted'[r].buf = send'[r]
    BY <1>7, <1>8, <1>15
  <2>3. metadata'[r].is_last => op'[r] = "none" /\ Yielding(r)' = NumTensors
    BY <1>8, <1>11, <1>13
  <2>4. backend = "nccl" => posted'[r] = NoMeta
    BY <1>15
  <2>5. loaded'[r] = [i \in 1..Len(loaded'[r]) |-> i]
    BY <1>2, <1>5 DEF RankOf
  <2>6. op'[r] # "done"
    BY <1>8
  <2> HIDE DEF m
  <2> QED
    BY <1>5, <1>8, <1>18, <2>1, <2>2, <2>3, <2>4, <2>5, <2>6 DEF RankOf
<1>21. ASSUME NEW q \in Receivers, q # r PROVE FlowOf(q)'
  <2>1. CASE backend = "nixl"
    BY <1>1, <1>4, <1>5, <1>7, <1>10, <1>14, <1>16, <1>21, <2>1, PostFlow
  <2>2. CASE backend # "nixl"
    <3>1. backend = "nccl"
      BY <2>2 DEF TypeInv, Types
    <3>2. Source(q) # r
      BY <1>1, <3>1 DEF Source
    <3> QED
      BY <1>1, <1>5, <1>10, <1>21, <2>2, <3>2, FlowKept DEF postVars
  <2> QED
    BY <2>1, <2>2
<1>22. FlowOf(r)'
  <2>1. PICK p \in {0} \cup Receivers : p = Source(r) /\ p # r
    BY SourceType
  <2>2. p \in Ranks
    BY RankTypes
  <2>3. Source(r)' = p
    BY <1>18, <2>1 DEF Source
  <2>4. posted'[p] = posted[p] /\ got'[p] = got[p]
    BY <1>9, <2>1, <2>2
  <2>5. Announced(p)' = Announced(p)
    BY <1>1, <1>10, <2>1, OthersKeep
  <2>6. inbox'[r] = inbox[r]
    <3>1. CASE backend = "nixl"
      <4>1. r \notin Targets(r)
        BY <1>1, <2>1, TargetsRead
      <4> QED
        BY <1>1, <1>5, <3>1, <4>1 DEF Post
    <3>2. CASE backend # "nixl"
      BY <1>5, <3>2 DEF postVars
    <3> QED
      BY <3>1, <3>2
  <2>7. op'[r] # "data"
    BY <1>8
  <2> HIDE DEF m
  <2> QED
    BY <1>2, <1>5, <1>13, <2>1, <2>3, <2>4, <2>5, <2>6, <2>7 DEF FlowOf
<1> QED
  BY <1>10, <1>19, <1>20, <1>21, <1>22, Together

LEMMA ReceiverFlow ==
    ASSUME TransferAssumption, TypeInv, Flows, NEW r \in Receivers, ReceiverNext(r)
    PROVE  Flows'
BY BeginFlow, TakeMetadataFlow, TakeDataFlow, NextBucketFlow, YieldFlow, ReceiveEndsFlow
   DEF ReceiverNext

-----------------------------------------------------------------------------
(* A step of rank 0                                                        *)

LEMMA TogetherMaster ==
    ASSUME TransferAssumption, TypeInv, Flows, Alone(0),
           PackInv', PostOf(0)', \A q \in Receivers : FlowOf(q)'
    PROVE  Flows'
<1>1. Receivers' = Receivers
  BY DEF Alone, managerVars, Receivers
<1>2. \A p \in {0} \cup Receivers : PostOf(p)'
  BY OthersKeep
<1>3. \A q \in Receivers : q # 0
  BY DEF Receivers
<1>4. \A q \in Receivers : RankOf(q)'
  BY <1>3, OthersKeep
<1> QED
  BY <1>1, <1>2, <1>4 DEF Flows

LEMMA MasterParts ==
    ASSUME TransferAssumption, TypeInv
    PROVE  /\ 0 \in Ranks /\ 0 \in {0} \cup Receivers
           /\ bucket_meta \in Seq(Entries) /\ Len(bucket_meta) \in Nat
           /\ pos \in 0..NumTensors /\ pos \in Nat /\ NumTensors \in Nat
           /\ offset \in Nat /\ BucketSize \in Nat \ {0}
           /\ \A q \in Receivers : q # 0
<1>1. /\ bucket_meta \in Seq(Entries)
      /\ pos \in 0..NumTensors /\ pos \in Nat /\ NumTensors \in Nat
      /\ offset \in Nat /\ BucketSize \in Nat \ {0}
  BY BasicTypes DEF TypeInv, Types
<1>2. Len(bucket_meta) \in Nat
  BY <1>1, LenProperties
<1> QED
  BY <1>1, <1>2, BasicTypes DEF Receivers

LEMMA PackFlow ==
    ASSUME TransferAssumption, TypeInv, Flows, Pack
    PROVE  Flows'
<1> DEFINE z == size[pos + 1]
           s == send[0]
           old == buf[0][s]
           new == [c \in Cells |-> IF c \in offset + 1..offset + z THEN pos + 1 ELSE old[c]]
           e == [name |-> pos + 1, offset |-> offset]
           n == Len(bucket_meta)
<1>1. /\ master = "pack" /\ pos < NumTensors /\ offset + z <= BucketSize
      /\ buf' = [buf EXCEPT ![0] = [buf[0] EXCEPT ![s] = new]]
      /\ bucket_meta' = Append(bucket_meta, e)
      /\ pos' = pos + 1 /\ offset' = offset + z
      /\ UNCHANGED <<config, managerVars, master, send, postVars, recvVars>>
  BY DEF Pack, Fits
<1>2. /\ 0 \in Ranks /\ bucket_meta \in Seq(Entries) /\ n \in Nat
      /\ pos \in Nat /\ NumTensors \in Nat /\ offset \in Nat /\ BucketSize \in Nat \ {0}
  BY MasterParts
<1>3. z \in 1..BucketSize /\ \A i \in 1..NumTensors : size[i] \in 1..BucketSize
  BY <1>1, <1>2 DEF TypeInv, Types, Cells
<1>4. s \in {0, 1} /\ 1 - s \in {0, 1} /\ 1 - s # s /\ buf[0] \in Buffers
  BY RankTypes
<1>5. buf'[0] = [buf[0] EXCEPT ![s] = new] /\ \A q \in Ranks \ {0} : buf'[q] = buf[q]
  BY <1>1, <1>2 DEF TypeInv, Types
<1>6. buf'[0][s] = new /\ buf'[0][1 - s] = buf[0][1 - s]
  <2> HIDE DEF new, s
  <2> QED
    BY <1>4, <1>5 DEF Buffers
<1>7. Alone(0)
  BY <1>1, <1>5 DEF Alone, recvVars, postVars
<1>8. PackInv /\ PostOf(0)
  BY DEF Flows
<1>9. /\ n <= pos /\ Holds(size, bucket_meta, pos - n, old)
      /\ \A i \in 1..n : bucket_meta[i].offset + size[bucket_meta[i].name] <= offset
      /\ ~posted[0].is_last /\ (posted[0] # NoMeta => posted[0].buf = 1 - s)
  BY <1>1, <1>8 DEF PackInv
<1>10. e \in Entries /\ e.name = pos + 1 /\ e.offset = offset
  <2>1. pos + 1 \in 1..NumTensors /\ offset \in 0..BucketSize
    <3> HIDE DEF z
    <3> QED
      BY <1>1, <1>2, <1>3
  <2> QED
    BY <2>1 DEF Entries
<1>11. \A i \in 1..n : bucket_meta[i].name \in 1..NumTensors /\ bucket_meta[i].offset \in Nat
  BY <1>2, EntryTypes
<1>12. \A i \in 1..n : size[bucket_meta[i].name] \in 1..BucketSize
  BY <1>3, <1>11
<1>13. bucket_meta' \in Seq(Entries) /\ Len(bucket_meta') = n + 1
       /\ bucket_meta'[n + 1] = e /\ \A i \in 1..n : bucket_meta'[i] = bucket_meta[i]
  <2> HIDE DEF e
  <2> QED
    BY <1>1, <1>2, <1>10, AppendProperties
<1>14. Holds(size, bucket_meta', pos - n, new)
  <2>1. \A c \in offset + 1..offset + z : c \in Cells /\ new[c] = pos + 1
    <3>1. \A c \in offset + 1..offset + z : c \in Cells
      <4>1. offset + z <= BucketSize /\ offset \in Nat /\ BucketSize \in Nat /\ z \in Nat
        BY <1>1, <1>2, <1>3
      <4> HIDE DEF z
      <4> QED
        BY <4>1 DEF Cells
    <3> QED
      BY <3>1
  <2>2. ASSUME NEW i \in 1..n, NEW c \in bucket_meta[i].offset + 1..bucket_meta[i].offset + size[bucket_meta[i].name], c <= offset
        PROVE  new[c] = old[c]
    <3> DEFINE o == bucket_meta[i].offset
               w == size[bucket_meta[i].name]
    <3>1. o \in Nat /\ w \in 1..BucketSize /\ o + w <= offset
      BY <1>9, <1>11, <1>12
    <3>2. c \in o + 1..o + w
      BY <2>2
    <3>3. /\ offset + z <= BucketSize /\ offset \in Nat /\ BucketSize \in Nat /\ z \in Nat
          /\ c <= offset
      BY <1>1, <1>2, <1>3, <2>2
    <3> HIDE DEF o, w, z
    <3>4. c \in 1..BucketSize /\ c \notin offset + 1..offset + z
      BY <3>1, <3>2, <3>3
    <3> QED
      BY <3>4 DEF Cells, z
  <2>3. pos - n + n + 1 = pos + 1 /\ pos - n \in Int
    BY <1>2
  <2>4. \A i \in 1..n : size[bucket_meta[i].name] \in Int
    BY <1>12
  <2>5. e.name = pos - n + n + 1
    BY <1>10, <2>3
  <2>6. size[e.name] = z
    BY <1>10
  <2> HIDE DEF new, old, e, z
  <2>7. Holds(size, Append(bucket_meta, e), pos - n, new)
    <3>1. offset \in Int /\ e.offset = offset
      BY <1>2, <1>10
    <3>2. \A c \in offset + 1..offset + size[e.name] : new[c] = e.name
      BY <1>10, <2>1, <2>6
    <3>3. \A i \in 1..n : \A c \in bucket_meta[i].offset + 1..bucket_meta[i].offset + size[bucket_meta[i].name] :
             c <= offset => new[c] = old[c]
      BY <2>2
    <3> QED
      BY <1>2, <1>9, <1>10, <2>3, <2>4, <2>5, <3>1, <3>2, <3>3, HoldsAppend
  <2> QED
    BY <1>1, <2>7
<1>15. pos' - Len(bucket_meta') = pos - n /\ Len(bucket_meta') <= pos'
  BY <1>1, <1>2, <1>9, <1>13
<1>16. ASSUME NEW i \in 1..n + 1
       PROVE  bucket_meta'[i].offset + size[bucket_meta'[i].name] <= offset + z
  <2>1. CASE i = n + 1
    BY <1>2, <1>3, <1>10, <1>13, <2>1
  <2>2. CASE i \in 1..n
    <3>1. bucket_meta'[i] = bucket_meta[i]
      BY <1>13, <2>2
    <3>2. bucket_meta[i].offset \in Nat /\ size[bucket_meta[i].name] \in Nat
      BY <1>11, <1>12, <2>2
    <3>3. bucket_meta[i].offset + size[bucket_meta[i].name] <= offset
      BY <1>9, <2>2
    <3> DEFINE o == bucket_meta[i].offset
               w == size[bucket_meta[i].name]
    <3>4. o \in Nat /\ w \in Nat /\ o + w <= offset
      BY <3>2, <3>3
    <3> HIDE DEF o, w, z
    <3>5. o + w <= offset + z
      BY <1>2, <1>3, <3>4
    <3> QED
      BY <3>1, <3>5 DEF o, w
  <2> QED
    BY <1>2, <2>1, <2>2
<1>17. PackInv'
  <2>1. bucket_meta' # <<>>
    BY <1>2, <1>13, EmptySeq
  <2>2. Holds(size', bucket_meta', pos' - Len(bucket_meta'), buf'[0][send'[0]])
    BY <1>1, <1>6, <1>14, <1>15 DEF config
  <2>3. \A i \in 1..Len(bucket_meta') : bucket_meta'[i].offset + size'[bucket_meta'[i].name] <= offset'
    BY <1>1, <1>13, <1>16 DEF config
  <2>4. master' = "pack" /\ posted'[0] = posted[0] /\ send'[0] = s
    BY <1>1 DEF postVars
  <2> QED
    BY <1>9, <1>15, <2>1, <2>2, <2>3, <2>4 DEF PackInv
<1>18. Announced(0)' = Announced(0)
  BY <1>1, <1>15 DEF Announced
<1>19. PostOf(0)'
  <2>1. posted'[0] = posted[0] /\ size' = size
    BY <1>1 DEF postVars, config
  <2>2. CASE posted[0] # NoMeta
    BY <1>6, <1>8, <1>9, <1>18, <2>1, <2>2 DEF PostOf
  <2>3. CASE posted[0] = NoMeta
    <3>1. posted[0].tensors = <<>>
      BY <2>3, BasicTypes
    <3>2. Holds(size, <<>>, Announced(0)' - Len(posted[0].tensors), buf'[0][posted[0].buf])
      BY HoldsNone
    <3> QED
      BY <1>8, <1>18, <2>1, <3>1, <3>2 DEF PostOf
  <2> QED
    BY <2>2, <2>3
<1>20. \A q \in Receivers : FlowOf(q)'
  BY <1>1, <1>7, <1>18, MasterParts, FlowKept DEF postVars
<1> QED
  BY <1>7, <1>17, <1>19, <1>20, TogetherMaster

(* What rank 0 sends is the bucket it has packed.                          *)
LEMMA ShipPosts ==
    ASSUME TransferAssumption, TypeInv, Flows, NEW last \in BOOLEAN,
           master = "pack", Previous, Post(0, Bucket(last)), Alone(0),
           bucket_meta # <<>> \/ last, last => pos = NumTensors,
           buf' = buf,
           Announced(0)' = pos
    PROVE  /\ PostOf(0)' /\ posted'[0] = Bucket(last)
           /\ \A q \in Receivers : FlowOf(q)'
<1> DEFINE n == Len(bucket_meta)
           meta == Bucket(last)
<1>1. /\ 0 \in Ranks /\ 0 \in {0} \cup Receivers /\ n \in Nat /\ pos \in Nat
      /\ \A q \in Receivers : q # 0
  BY MasterParts
<1>2. /\ meta \in Metas /\ meta.tensors = bucket_meta
      /\ meta.is_last = last /\ meta.buf = send[0]
  BY BucketTypes DEF TypeInv
<1>3. Real(meta)
  BY <1>2 DEF Real
<1>4. posted'[0] = meta
  BY <1>1 DEF Post, TypeInv, Types
<1>5. n <= pos /\ Holds(size, bucket_meta, pos - n, buf[0][send[0]])
  BY DEF Flows, PackInv
<1>6. Announced(0) = pos - n
  BY DEF Announced
<1>7. Announced(0)' = Announced(0) + Len(meta.tensors)
  <2> HIDE DEF n
  <2>1. Len(meta.tensors) = n
    BY <1>2 DEF n
  <2> QED
    BY <1>1, <1>6, <2>1
<1>8. size' = size
  BY DEF Alone, config
<1> HIDE DEF meta
<1>9. PostOf(0)'
  BY <1>2, <1>3, <1>4, <1>5, <1>8 DEF PostOf
<1>10. \A q \in Receivers : FlowOf(q)'
  BY <1>1, <1>2, <1>3, <1>7, PostFlow DEF Previous, meta
<1> QED
  BY <1>4, <1>9, <1>10 DEF meta

LEMMA ShipFlow ==
    ASSUME TransferAssumption, TypeInv, Flows, Ship
    PROVE  Flows'
<1>1. /\ master = "pack" /\ pos < NumTensors /\ ~Fits /\ Previous
      /\ Post(0, Bucket(FALSE))
      /\ send' = [send EXCEPT ![0] = 1 - send[0]]
      /\ bucket_meta' = <<>> /\ offset' = 0
      /\ UNCHANGED <<config, managerVars, pos, master, buf, recvVars>>
  BY DEF Ship, Swap
<1>2. /\ 0 \in Ranks /\ pos \in Nat /\ NumTensors \in Nat /\ BucketSize \in Nat \ {0}
      /\ offset \in Nat
  BY MasterParts
<1>3. send'[0] = 1 - send[0] /\ \A q \in Ranks \ {0} : send'[q] = send[q] /\ posted'[q] = posted[q]
  BY <1>1, <1>2 DEF TypeInv, Types, Post
<1>4. Alone(0)
  BY <1>1, <1>3 DEF Alone, recvVars
<1>5. bucket_meta # <<>>
  <2> SUFFICES ASSUME bucket_meta = <<>> PROVE FALSE
    OBVIOUS
  <2>1. offset = 0
    BY DEF Flows, PackInv
  <2>2. size[pos + 1] \in 1..BucketSize
    BY <1>1, <1>2 DEF TypeInv, Types, Cells
  <2> QED
    BY <1>1, <1>2, <2>1, <2>2 DEF Fits
<1>6. Len(bucket_meta') = 0 /\ \A i \in 1..Len(bucket_meta') : FALSE
  BY <1>1, EmptySeq
<1>7. Announced(0)' = pos
  BY <1>1, <1>2, <1>6 DEF Announced
<1>8. /\ PostOf(0)' /\ posted'[0] = Bucket(FALSE)
      /\ \A q \in Receivers : FlowOf(q)'
  BY <1>1, <1>4, <1>5, <1>7, ShipPosts
<1>9. Bucket(FALSE).is_last = FALSE /\ Bucket(FALSE).buf = send[0] /\ send[0] \in {0, 1}
  BY BucketTypes, RankTypes DEF TypeInv
<1>10. send[0] = 1 - send'[0]
  BY <1>3, <1>9
<1>11. Holds(size', bucket_meta', pos' - Len(bucket_meta'), buf'[0][send'[0]])
  BY <1>1, HoldsNone
<1>12. PackInv'
  <2>1. Len(bucket_meta') <= pos'
    BY <1>1, <1>2, <1>6
  <2>2. master' = "pack" /\ bucket_meta' = <<>> /\ offset' = 0
    BY <1>1
  <2>3. ~posted'[0].is_last /\ posted'[0].buf = 1 - send'[0]
    BY <1>8, <1>9, <1>10
  <2> QED
    BY <1>6, <1>11, <2>1, <2>2, <2>3 DEF PackInv
<1> QED
  BY <1>4, <1>8, <1>12, TogetherMaster

LEMMA ShipLastFlow ==
    ASSUME TransferAssumption, TypeInv, Flows, ShipLast
    PROVE  Flows'
<1>1. /\ master = "pack" /\ pos = NumTensors /\ Previous
      /\ Post(0, Bucket(TRUE))
      /\ master' = "last"
      /\ UNCHANGED <<config, managerVars, pos, offset, bucket_meta, buf, send, recvVars>>
  BY DEF ShipLast
<1>2. 0 \in Ranks
  BY MasterParts
<1>3. \A q \in Ranks \ {0} : posted'[q] = posted[q]
  BY <1>1, <1>2 DEF TypeInv, Types, Post
<1>4. Alone(0)
  BY <1>1, <1>3 DEF Alone, recvVars
<1>5. Announced(0)' = pos
  BY <1>1 DEF Announced
<1>6. PostOf(0)' /\ \A q \in Receivers : FlowOf(q)'
  BY <1>1, <1>4, <1>5, ShipPosts
<1>7. PackInv'
  BY <1>1 DEF Flows, PackInv, config
<1> QED
  BY <1>4, <1>6, <1>7, TogetherMaster

LEMMA SendEndsFlow ==
    ASSUME TransferAssumption, TypeInv, Flows, SendEnds
    PROVE  Flows'
<1>1. /\ master = "last" /\ master' = "done"
      /\ UNCHANGED <<config, managerVars, pos, offset, bucket_meta, buf, send, postVars, recvVars>>
  BY DEF SendEnds
<1>2. Alone(0)
  BY <1>1 DEF Alone, recvVars, postVars
<1>3. Announced(0)' = Announced(0)
  BY <1>1 DEF Announced
<1>4. PackInv /\ PostOf(0)
  BY DEF Flows
<1>5. PackInv'
  BY <1>1, <1>4 DEF PackInv, config
<1>6. PostOf(0)'
  BY <1>1, <1>3, <1>4 DEF PostOf, config, postVars
<1>7. \A q \in Receivers : FlowOf(q)'
  BY <1>1, <1>2, <1>3, MasterParts, FlowKept DEF postVars
<1> QED
  BY <1>2, <1>5, <1>6, <1>7, TogetherMaster

LEMMA MasterFlow ==
    ASSUME TransferAssumption, TypeInv, Flows, MasterNext
    PROVE  Flows'
BY PackFlow, ShipFlow, ShipLastFlow, SendEndsFlow DEF MasterNext

-----------------------------------------------------------------------------
(* The manager                                                             *)

(* Whoever the receivers will be, nothing is on its way to them.           *)
LEMMA BlankParts == TransferAssumption /\ TypeInv /\ Blank => Flows
<1> SUFFICES ASSUME TransferAssumption, TypeInv, Blank PROVE Flows
  OBVIOUS
<1>1. {0} \cup Receivers \subseteq Ranks /\ 0 \in Ranks
  BY ReceiversAreRanks, BasicTypes DEF TypeInv
<1>2. \A r \in Ranks :
         /\ posted[r] = NoMeta /\ got[r] = {} /\ inbox[r] = <<>> /\ op[r] = "none"
         /\ coming[r] = NoMeta /\ metadata[r] = NoMeta /\ pc[r] = "begin" /\ loaded[r] = <<>>
  BY DEF Blank, Each
<1>3. pos = 0 /\ offset = 0 /\ bucket_meta = <<>> /\ master = "pack"
  BY DEF Blank
<1>4. NoMeta.tensors = <<>> /\ ~NoMeta.is_last /\ Len(<<>>) = 0
  BY BasicTypes, EmptySeq
<1>5. Announced(0) = 0
  <2>1. Len(bucket_meta) = 0
    BY <1>3, <1>4
  <2>2. Announced(0) = pos - Len(bucket_meta)
    BY <1>3 DEF Announced
  <2> QED
    BY <1>3, <2>1, <2>2
<1>6. \A r \in Receivers : Yielding(r) = 0 /\ Expecting(r) = 0 /\ Announced(r) = 0
  <2> SUFFICES ASSUME NEW r \in Receivers PROVE Yielding(r) = 0 /\ Expecting(r) = 0 /\ Announced(r) = 0
    OBVIOUS
  <2>1. r \in Ranks /\ r # 0
    BY <1>1 DEF Receivers
  <2>2. Yielding(r) = 0
    <3>1. Len(loaded[r]) = 0 /\ Len(metadata[r].tensors) = 0
      BY <1>2, <1>4, <2>1
    <3> QED
      BY <3>1 DEF Yielding
  <2>3. Expecting(r) = 0
    BY <1>2, <2>1, <2>2 DEF Expecting
  <2> QED
    BY <2>1, <2>2, <2>3 DEF Announced
<1>7. PackInv
  <2>1. Holds(size, bucket_meta, pos - Len(bucket_meta), buf[0][send[0]])
    BY <1>3, HoldsNone
  <2>2. \A i \in 1..Len(bucket_meta) : bucket_meta[i].offset + size[bucket_meta[i].name] <= offset
    BY <1>3, <1>4
  <2> QED
    BY <1>1, <1>2, <1>3, <1>4, <2>1, <2>2 DEF PackInv
<1>8. ASSUME NEW p \in {0} \cup Receivers PROVE PostOf(p)
  <2>1. Announced(p) = 0 /\ posted[p] = NoMeta
    BY <1>1, <1>2, <1>5, <1>6
  <2>2. Holds(size, posted[p].tensors, Announced(p) - Len(posted[p].tensors), buf[p][posted[p].buf])
    BY <1>4, <2>1, HoldsNone
  <2> QED
    BY <1>4, <2>1, <2>2 DEF PostOf
<1>9. ASSUME NEW r \in Receivers PROVE RankOf(r) /\ FlowOf(r)
  <2>1. r \in Ranks /\ Source(r) \in {0} \cup Receivers /\ Source(r) \in Ranks
    BY <1>1, SourceType
  <2>2. Holds(size, metadata[r].tensors, Len(loaded[r]), buf[r][send[r]])
    BY <1>2, <1>4, <2>1, HoldsNone
  <2>3. loaded[r] = [i \in 1..Len(loaded[r]) |-> i]
    <3>1. loaded[r] = <<>> /\ Len(loaded[r]) = 0
      BY <1>2, <1>4, <2>1
    <3> QED
      BY <3>1, EmptyList
  <2>4. RankOf(r)
    BY <1>2, <1>4, <2>1, <2>2, <2>3 DEF RankOf
  <2>5. Announced(Source(r)) = 0
    BY <1>5, <1>6, <2>1
  <2>6. FlowOf(r)
    BY <1>2, <1>6, <2>1, <2>5 DEF FlowOf
  <2> QED
    BY <2>4, <2>6
<1> QED
  BY <1>7, <1>8, <1>9 DEF Flows

LEMMA BlankStays ==
    ASSUME Blank, UNCHANGED <<config, packVars, buf, send, postVars, recvVars>>
    PROVE  Blank'
BY DEF Blank, packVars, postVars, recvVars, Each

(* With the same replicas and the same ranks everything stays.             *)
LEMMA FlowsStay ==
    ASSUME Flows, UNCHANGED <<config, replicas, packVars, buf, send, postVars, recvVars>>
    PROVE  Flows'
<1>1. Receivers' = Receivers
  BY DEF Receivers
<1>2. PackInv'
  BY DEF Flows, PackInv, config, packVars, postVars
<1>3. \A p : /\ Yielding(p)' = Yielding(p) /\ Expecting(p)' = Expecting(p)
             /\ Announced(p)' = Announced(p) /\ Source(p)' = Source(p)
  BY DEF Yielding, Expecting, Announced, Source, recvVars, packVars, config
<1>4. \A p \in {0} \cup Receivers : PostOf(p)'
  BY <1>3 DEF Flows, PostOf, config, postVars
<1>5. \A r \in Receivers : RankOf(r)'
  BY <1>3 DEF Flows, RankOf, config, postVars, recvVars
<1>6. \A r \in Receivers : FlowOf(r)'
  BY <1>3 DEF Flows, FlowOf, postVars, recvVars
<1> QED
  BY <1>1, <1>2, <1>4, <1>5, <1>6 DEF Flows

-----------------------------------------------------------------------------
(* The invariant                                                           *)

LEMMA InvInit == TransferAssumption /\ Init => Inv
<1> SUFFICES ASSUME TransferAssumption, Init PROVE Inv
  OBVIOUS
<1>1. TypeInv
  BY TypeInit
<1>2. Blank /\ stage = "idle"
  BY DEF Init, Blank
<1> QED
  BY <1>1, <1>2, BlankParts DEF Inv

(* The ranks work only during a transfer.                                  *)
LEMMA Working ==
    ASSUME TransferAssumption, Inv, NEW r \in Receivers, ReceiverNext(r)
    PROVE  stage = "transfer"
<1>1. RankOf(r) /\ r \in Ranks
  BY RankTypes DEF Inv, Flows
<1>2. CASE stage = "resume"
  <2>1. pc[r] = "done"
    BY <1>2 DEF Inv
  <2>2. op[r] = "none"
    BY <1>1, <2>1 DEF RankOf
  <2> QED
    BY <2>1, <2>2 DEF ReceiverNext, Begin, TakeMetadata, TakeData, FirstBucket, LaterBucket,
       Yield, ReceiveEnds
<1>3. CASE stage \notin {"transfer", "resume"}
  <2>1. Blank
    BY <1>3 DEF Inv
  <2>2. pc[r] = "begin" /\ op[r] = "none"
    BY <1>1, <2>1 DEF Blank, Each
  <2> QED
    BY <1>3, <2>2 DEF ReceiverNext, Begin, TakeMetadata, TakeData, FirstBucket, LaterBucket,
       Yield, ReceiveEnds
<1> QED
  BY <1>2, <1>3

LEMMA InvStep ==
    ASSUME TransferAssumption, Inv, [Next]_vars
    PROVE  Inv'
<1>1. TypeInv'
  BY TypeStep DEF Inv
<1>2. TypeInv /\ Flows
  BY DEF Inv
<1>3. (TransferAssumption /\ TypeInv /\ Blank => Flows)'
  BY BlankParts, PTL
<1>4. Blank' => Flows'
  BY <1>1, <1>3
<1>5. CASE MasterNext
  <2>1. Flows'
    BY <1>2, <1>5, MasterFlow
  <2>2. stage' = "transfer"
    BY <1>5 DEF MasterNext, Pack, Ship, ShipLast, SendEnds, managerVars
  <2> QED
    BY <1>1, <2>1, <2>2 DEF Inv
<1>6. CASE \E r \in Receivers : ReceiverNext(r)
  <2>1. PICK r \in Receivers : ReceiverNext(r)
    BY <1>6
  <2>2. Flows'
    BY <1>2, <2>1, ReceiverFlow
  <2>3. stage = "transfer"
    BY <2>1, Working
  <2>4. stage' = stage
    BY <2>1 DEF ReceiverNext, Begin, TakeMetadata, TakeData, FirstBucket, LaterBucket,
       NextBucket, Yield, ReceiveEnds, managerVars
  <2> QED
    BY <1>1, <2>2, <2>3, <2>4 DEF Inv
<1>7. CASE \E p \in Replicas : AddReplica(p) \/ RemoveReplica(p)
  <2>1. /\ stage = "idle" /\ stage' = stage
        /\ UNCHANGED <<config, packVars, buf, send, postVars, recvVars>>
    BY <1>7 DEF AddReplica, RemoveReplica
  <2>2. Blank'
    BY <2>1, BlankStays DEF Inv
  <2> QED
    BY <1>1, <1>4, <2>1, <2>2 DEF Inv
<1>8. CASE AbortRequests
  <2>1. /\ stage = "idle" /\ stage' = "build"
        /\ UNCHANGED <<config, packVars, buf, send, postVars, recvVars>>
    BY <1>8 DEF AbortRequests
  <2>2. Blank'
    BY <2>1, BlankStays DEF Inv
  <2> QED
    BY <1>1, <1>4, <2>1, <2>2 DEF Inv
<1>9. CASE BuildProcessGroup
  <2>1. /\ stage = "build" /\ stage' # "resume"
        /\ UNCHANGED <<config, packVars, buf, send, postVars, recvVars>>
    BY <1>9 DEF BuildProcessGroup
  <2>2. Blank'
    BY <2>1, BlankStays DEF Inv
  <2> QED
    BY <1>1, <1>4, <2>1, <2>2 DEF Inv
<1>10. CASE Finalize
  <2>1. /\ AllUpdated /\ stage' = "resume"
        /\ UNCHANGED <<config, replicas, packVars, buf, send, postVars, recvVars>>
    BY <1>10 DEF Finalize
  <2>2. Flows'
    BY <1>2, <2>1, FlowsStay
  <2>3. \A r \in Receivers' : pc'[r] = "done"
    BY <2>1 DEF AllUpdated, Receivers, recvVars
  <2> QED
    BY <1>1, <2>1, <2>2, <2>3 DEF Inv
<1>11. CASE ResumeRequests
  <2>1. Blank' /\ stage' = "idle"
    BY <1>11 DEF ResumeRequests, Blank, Each
  <2> QED
    BY <1>1, <1>4, <2>1 DEF Inv
<1>12. CASE UNCHANGED vars
  <2>1. UNCHANGED <<config, stage, replicas, packVars, buf, send, postVars, recvVars>>
    BY <1>12 DEF vars, managerVars
  <2>2. Flows'
    BY <1>2, <2>1, FlowsStay
  <2>3. Receivers' = Receivers /\ pc' = pc
    BY <2>1 DEF Receivers, recvVars
  <2>4. Blank => Blank'
    BY <2>1, BlankStays
  <2> QED
    BY <1>1, <2>1, <2>2, <2>3, <2>4 DEF Inv
<1> QED
  BY <1>5, <1>6, <1>7, <1>8, <1>9, <1>10, <1>11, <1>12 DEF Next, ManagerNext

LEMMA InvHolds == Spec => []Inv
<1>1. Init => Inv
  BY TransferAssumption, InvInit
<1>2. Inv /\ [Next]_vars => Inv'
  BY TransferAssumption, InvStep
<1> QED
  BY <1>1, <1>2, PTL DEF Spec

-----------------------------------------------------------------------------
(* Every server gets the tensors in order, each with its own data, with    *)
(* both backends and whatever the buckets are cut into: no buffer of       *)
(* nccl_checkpoint_engine.py or nixl_checkpoint_engine.py is filled while  *)
(* it is sent, read or yielded from.                                       *)
THEOREM BucketsArriveIntact == Spec => []InOrderAndIntact
<1>1. Inv => InOrderAndIntact
  BY DEF Inv, Flows, RankOf, InOrderAndIntact
<1> QED
  BY <1>1, InvHolds, PTL

(* The manager lets requests go on only when every replica has all of the  *)
(* new weights.                                                            *)
THEOREM ResumeHasAll == Spec => []ResumesWithAll
<1>1. Inv => ResumesWithAll
  <2> SUFFICES ASSUME Inv, stage = "resume", NEW r \in Receivers
               PROVE  Len(loaded[r]) = NumTensors
    BY DEF ResumesWithAll
  <2>1. pc[r] = "done" /\ RankOf(r)
    BY DEF Inv, Flows
  <2>2. metadata[r].is_last /\ metadata[r].tensors = <<>>
    BY <2>1 DEF RankOf
  <2>3. Len(loaded[r]) + Len(metadata[r].tensors) = NumTensors
    BY <2>1, <2>2 DEF RankOf, Yielding
  <2>4. Len(loaded[r]) \in Nat
    BY TransferAssumption, RankTypes DEF Inv
  <2>5. Len(metadata[r].tensors) = 0
    BY <2>2, EmptySeq
  <2> QED
    BY <2>3, <2>4, <2>5
<1> QED
  BY <1>1, InvHolds, PTL
=============================================================================
