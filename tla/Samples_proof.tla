---------------------------- MODULE Samples_proof ----------------------------
(***************************************************************************)
(* Where the samples are: each one the feeder has put is in one place or   *)
(* has left in one recorded way, and none is trained on more than MaxLag   *)
(* versions after it was finished, whatever the parameters.                *)
(***************************************************************************)
EXTENDS Staleness_proof

Places == {"feeder", "pending", "hand", "task", "cancelled", "queue", "got",
           "batch", "gone"}

(* Sample s is in place p and in no other.                                 *)
At(s, p) ==
    /\ p = "feeder"    <=> s > fed
    /\ p = "pending"   <=> s \in Range(pending_queue)
    /\ p = "hand"      <=> s = rollout_sample
    /\ p = "task"      <=> task[s] # "none"
    /\ p = "cancelled" <=> s \in Range(cancel_queue)
    /\ p = "queue"     <=> s \in Range(queue)
    /\ p = "got"       <=> s = got["trainer"]
    /\ p = "batch"     <=> s \in batch
    /\ p = "gone"      <=> fate[s] # "none"

(* No sample is twice in q.                                                *)
Once(q) == \A i, j \in DOMAIN q : i # j /\ q[i] = q[j] => q[i] \notin Samples

PlaceInv ==
    /\ \A s \in Samples : \E p \in Places : At(s, p)
    /\ Once(pending_queue)
    /\ Once(cancel_queue)
    /\ Once(queue)
    /\ Range(queue) \subseteq Samples \cup {EndMark}
    /\ getter["trainer"] # "returned" => got["trainer"] = Nothing

-----------------------------------------------------------------------------
(* Sequences without doubles                                               *)

LEMMA OnceEmpty == Once(<<>>) /\ Range(<<>>) = {}
  BY DEF Once, Range

(* Appending an element.                                                   *)
LEMMA OnceAppend ==
    ASSUME NEW q \in Seq(Nat), Once(q), NEW e \in Nat,
           e \in Samples => e \notin Range(q)
    PROVE  /\ Append(q, e) \in Seq(Nat)
           /\ Once(Append(q, e))
           /\ \A x : x \in Range(Append(q, e)) <=> x \in Range(q) \/ x = e
  <1>1. /\ Append(q, e) \in Seq(Nat)
        /\ Len(Append(q, e)) = Len(q) + 1
        /\ \A i \in 1..Len(q) : Append(q, e)[i] = q[i]
        /\ Append(q, e)[Len(q) + 1] = e
        /\ Len(q) \in Nat
        /\ DOMAIN q = 1..Len(q)
        /\ DOMAIN Append(q, e) = 1..Len(q) + 1
    BY AppendProperties, LenProperties
  <1>2. \A i \in 1..Len(q) + 1 : i \in 1..Len(q) \/ i = Len(q) + 1
    BY <1>1
  <1>3. \A i \in 1..Len(q) : i \in 1..Len(q) + 1
    BY <1>1
  <1>4. Len(q) + 1 \in 1..Len(q) + 1
    BY <1>1
  <1>5. \A x : x \in Range(Append(q, e)) <=> x \in Range(q) \/ x = e
    BY <1>1, <1>2, <1>3, <1>4 DEF Range
  <1>6. ASSUME NEW i \in 1..Len(q) + 1, NEW j \in 1..Len(q) + 1, i # j,
               Append(q, e)[i] = Append(q, e)[j]
        PROVE  Append(q, e)[i] \notin Samples
    <2>1. CASE i \in 1..Len(q) /\ j \in 1..Len(q)
      BY <1>1, <1>6, <2>1 DEF Once
    <2>2. CASE i = Len(q) + 1 /\ j \in 1..Len(q)
      <3>1. q[j] = e
        BY <1>1, <1>6, <2>2
      <3>2. e \in Range(q)
        BY <1>1, <2>2, <3>1 DEF Range
      <3> QED
        BY <1>1, <2>2, <3>2
    <2>3. CASE j = Len(q) + 1 /\ i \in 1..Len(q)
      <3>1. q[i] = e
        BY <1>1, <1>6, <2>3
      <3>2. e \in Range(q)
        BY <1>1, <2>3, <3>1 DEF Range
      <3> QED
        BY <1>1, <2>3, <3>1, <3>2
    <2> QED
      BY <1>2, <1>6, <2>1, <2>2, <2>3
  <1> QED
    BY <1>1, <1>5, <1>6 DEF Once

(* Taking the first one.                                                   *)
LEMMA OnceTail ==
    ASSUME NEW q \in Seq(Nat), q # <<>>, Once(q)
    PROVE  /\ Tail(q) \in Seq(Nat)
           /\ Once(Tail(q))
           /\ Head(q) \in Range(q)
           /\ Head(q) \in Nat
           /\ \A x \in Samples : x \in Range(Tail(q)) <=> x \in Range(q) /\ x # Head(q)
           /\ Range(Tail(q)) \subseteq Range(q)
  <1>1. /\ Tail(q) \in Seq(Nat)
        /\ Len(Tail(q)) = Len(q) - 1
        /\ Head(q) = q[1]
        /\ Head(q) \in Nat
        /\ \A i \in 1..Len(Tail(q)) : Tail(q)[i] = q[i + 1]
        /\ Len(q) \in Nat \ {0}
        /\ DOMAIN q = 1..Len(q)
        /\ DOMAIN Tail(q) = 1..Len(q) - 1
    BY HeadTailProperties, LenProperties
  <1>2. 1 \in 1..Len(q)
    BY <1>1
  <1>3. \A i \in 1..Len(q) - 1 : i + 1 \in 1..Len(q) /\ i + 1 # 1
    BY <1>1
  <1>4. \A i \in 1..Len(q) : i # 1 => i - 1 \in 1..Len(q) - 1 /\ (i - 1) + 1 = i
    BY <1>1
  <1>5. \A i \in 1..Len(q) - 1 : Tail(q)[i] = q[i + 1]
    BY <1>1
  <1>6. Range(Tail(q)) \subseteq Range(q)
    BY <1>1, <1>3, <1>5 DEF Range
  <1>7. ASSUME NEW x \in Samples, x \in Range(Tail(q))
        PROVE  x # Head(q)
    <2>1. PICK i \in 1..Len(q) - 1 : q[i + 1] = x
      BY <1>1, <1>5, <1>7 DEF Range
    <2> QED
      BY <1>1, <1>2, <1>3, <2>1 DEF Once
  <1>8. ASSUME NEW x \in Samples, x \in Range(q), x # Head(q)
        PROVE  x \in Range(Tail(q))
    <2>1. PICK i \in 1..Len(q) : q[i] = x
      BY <1>1, <1>8 DEF Range
    <2>2. i # 1
      BY <1>1, <1>8, <2>1
    <2>3. i - 1 \in 1..Len(q) - 1 /\ Tail(q)[i - 1] = x
      BY <1>4, <1>5, <2>1, <2>2
    <2> QED
      BY <1>1, <2>3 DEF Range
  <1>9. Once(Tail(q))
    <2> SUFFICES ASSUME NEW i \in 1..Len(q) - 1, NEW j \in 1..Len(q) - 1, i # j,
                        Tail(q)[i] = Tail(q)[j]
                 PROVE  Tail(q)[i] \notin Samples
      BY <1>1 DEF Once
    <2>1. i + 1 \in 1..Len(q) /\ j + 1 \in 1..Len(q) /\ i + 1 # j + 1
      BY <1>1, <1>3
    <2>2. q[i + 1] = q[j + 1]
      BY <1>5
    <2> QED
      BY <1>1, <1>5, <2>1, <2>2 DEF Once
  <1>10. Head(q) \in Range(q)
    BY <1>1, <1>2 DEF Range
  <1> QED
    BY <1>1, <1>6, <1>7, <1>8, <1>9, <1>10

(* Two queues in a row.                                                    *)
LEMMA OnceConcat ==
    ASSUME NEW p \in Seq(Nat), NEW q \in Seq(Nat), Once(p), Once(q),
           \A x \in Samples : ~(x \in Range(p) /\ x \in Range(q))
    PROVE  /\ p \o q \in Seq(Nat)
           /\ Once(p \o q)
           /\ \A x : x \in Range(p \o q) <=> x \in Range(p) \/ x \in Range(q)
  <1>1. /\ p \o q \in Seq(Nat)
        /\ Len(p \o q) = Len(p) + Len(q)
        /\ \A i \in 1..Len(p) + Len(q) :
             (p \o q)[i] = IF i <= Len(p) THEN p[i] ELSE q[i - Len(p)]
        /\ Len(p) \in Nat /\ Len(q) \in Nat
        /\ DOMAIN p = 1..Len(p) /\ DOMAIN q = 1..Len(q)
        /\ DOMAIN (p \o q) = 1..Len(p) + Len(q)
    BY ConcatProperties, LenProperties
  <1>2. \A i \in 1..Len(p) : i \in 1..Len(p) + Len(q) /\ (p \o q)[i] = p[i]
    BY <1>1
  <1>3. ASSUME NEW i \in 1..Len(q)
        PROVE  i + Len(p) \in 1..Len(p) + Len(q) /\ (p \o q)[i + Len(p)] = q[i]
    <2>1. i + Len(p) \in 1..Len(p) + Len(q) /\ ~(i + Len(p) <= Len(p))
          /\ (i + Len(p)) - Len(p) = i
      BY <1>1
    <2> QED
      BY <1>1, <2>1
  <1>4. ASSUME NEW i \in 1..Len(p) + Len(q)
        PROVE  \/ i \in 1..Len(p) /\ (p \o q)[i] = p[i]
               \/ i - Len(p) \in 1..Len(q) /\ (p \o q)[i] = q[i - Len(p)]
    BY <1>1
  <1>5. \A x : x \in Range(p \o q) <=> x \in Range(p) \/ x \in Range(q)
    <2>1. ASSUME NEW x, x \in Range(p) \/ x \in Range(q)
          PROVE  x \in Range(p \o q)
      <3>1. CASE x \in Range(p)
        BY <1>1, <1>2, <3>1 DEF Range
      <3>2. CASE x \in Range(q)
        BY <1>1, <1>3, <3>2 DEF Range
      <3> QED
        BY <2>1, <3>1, <3>2
    <2>2. ASSUME NEW x, x \in Range(p \o q)
          PROVE  x \in Range(p) \/ x \in Range(q)
      BY <1>1, <1>4, <2>2 DEF Range
    <2> QED
      BY <2>1, <2>2
  <1>6. ASSUME NEW i \in 1..Len(p) + Len(q), NEW j \in 1..Len(p) + Len(q), i # j,
               (p \o q)[i] = (p \o q)[j], (p \o q)[i] \in Samples
        PROVE  FALSE
    <2>1. CASE i \in 1..Len(p) /\ j \in 1..Len(p)
      BY <1>1, <1>2, <1>6, <2>1 DEF Once
    <2>2. CASE /\ i - Len(p) \in 1..Len(q) /\ (p \o q)[i] = q[i - Len(p)]
               /\ j - Len(p) \in 1..Len(q) /\ (p \o q)[j] = q[j - Len(p)]
      <3>1. i - Len(p) # j - Len(p)
        BY <1>1, <1>6
      <3> QED
        BY <1>1, <1>6, <2>2, <3>1 DEF Once
    <2>3. CASE /\ i \in 1..Len(p) /\ (p \o q)[i] = p[i]
               /\ j - Len(p) \in 1..Len(q) /\ (p \o q)[j] = q[j - Len(p)]
      BY <1>1, <1>6, <2>3 DEF Range
    <2>4. CASE /\ j \in 1..Len(p) /\ (p \o q)[j] = p[j]
               /\ i - Len(p) \in 1..Len(q) /\ (p \o q)[i] = q[i - Len(p)]
      BY <1>1, <1>6, <2>4 DEF Range
    <2> QED
      BY <1>4, <2>1, <2>2, <2>3, <2>4
  <1> QED
    BY <1>1, <1>5, <1>6 DEF Once
-----------------------------------------------------------------------------
(* The steps that move a sample.  Each lemma is about one step: it names   *)
(* the place the sample leaves and the one it comes to.                    *)

placeVars == <<fed, pending_queue, rollout_sample, cancel_queue, task, queue, got,
               getter, batch, fate>>

LEMMA Elsewhere ==
    ASSUME PlaceInv, NEW s \in Samples
    PROVE  \E p \in Places : At(s, p)
  BY DEF PlaceInv

LEMMA PlaceTypes ==
    ASSUME TypeOK
    PROVE  /\ queue \in Seq(Nat)
           /\ pending_queue \in Seq(Nat)
           /\ cancel_queue \in Seq(Nat)
           /\ cancel_queue \in Seq(Samples)
           /\ pending_queue \in Seq(Samples \cup {Done})
           /\ task \in [Samples -> TaskStates]
           /\ fate \in [Samples -> Fates]
           /\ got \in [Consumers -> Nat \cup {Nothing, Closed}]
           /\ getter \in [Consumers -> {"idle", "waiting", "woken", "returned"}]
           /\ "trainer" \in Consumers
           /\ Samples \subseteq Nat
           /\ 0 \notin Samples
           /\ fed \in Nat
  <1>1. Samples \subseteq Nat /\ 0 \notin Samples /\ Samples \cup {Done} \subseteq Nat
    BY RollouterAssumption DEF Samples, Done
  <1>2. Seq(Samples) \subseteq Seq(Nat) /\ Seq(Samples \cup {Done}) \subseteq Seq(Nat)
    BY <1>1
  <1>3. fed \in Nat
    BY RollouterAssumption DEF TypeOK, StreamTypeOK
  <1> QED
    BY <1>1, <1>2, <1>3, TrainerAssumption
    DEF TypeOK, QueueTypeOK, StreamTypeOK, TaskTypeOK

LEMMA PlaceFrame ==
    ASSUME TypeOK, PlaceInv, UNCHANGED placeVars
    PROVE  PlaceInv'
  BY DEF placeVars, PlaceInv, At, Once

(* cancel_queue to the processor's hand.                                   *)
LEMMA ContinueMoves ==
    ASSUME TypeOK, HandInv, PlaceInv, TopContinue, batch' = batch
    PROVE  PlaceInv'
  <1> DEFINE x == Head(cancel_queue)
  <1>1. /\ UNCHANGED <<fed, pending_queue, task, queue, got, getter, fate, batch>>
        /\ rollout_sample' = x
        /\ cancel_queue' = Tail(cancel_queue)
        /\ cancel_queue # <<>>
        /\ rollout_sample \notin Samples
    BY DEF TopContinue, mqVars, feedVars, taskVars, HandInv
  <1>2. /\ Once(cancel_queue')
        /\ x \in Range(cancel_queue)
        /\ \A s \in Samples : s \in Range(cancel_queue') <=> s \in Range(cancel_queue) /\ s # x
    BY <1>1, PlaceTypes, OnceTail DEF PlaceInv
  <1> HIDE DEF x
  <1>3. ASSUME NEW s \in Samples
        PROVE  \E p \in Places : At(s, p)'
    <2>1. PICK p \in Places : At(s, p)
      BY Elsewhere
    <2>2. CASE s = x
      <3>1. p = "cancelled"
        BY <1>2, <2>1, <2>2 DEF At
      <3>2. At(s, "hand")'
        BY <1>1, <1>2, <2>1, <2>2, <3>1 DEF At
      <3> QED
        BY <3>2 DEF Places
    <2>3. CASE s # x
      <3>1. At(s, p)'
        BY <1>1, <1>2, <2>1, <2>3 DEF At
      <3> QED
        BY <3>1
    <2> QED
      BY <2>2, <2>3
  <1> QED
    BY <1>1, <1>2, <1>3 DEF PlaceInv

(* pending_queue to the processor's hand, or the word that ends it.        *)
LEMMA TakeMoves ==
    ASSUME TypeOK, HandInv, PlaceInv, TakePending, processor \in {"top", "get"},
           UNCHANGED <<fed, cancel_queue, task, queue, got, getter, fate, batch>>
    PROVE  PlaceInv'
  <1> DEFINE x == Head(pending_queue)
  <1>1. /\ rollout_sample' = x
        /\ pending_queue' = Tail(pending_queue)
        /\ pending_queue # <<>>
        /\ rollout_sample \notin Samples
    BY DEF TakePending, HandInv
  <1>2. /\ Once(pending_queue')
        /\ x \in Range(pending_queue)
        /\ \A s \in Samples : s \in Range(pending_queue') <=> s \in Range(pending_queue) /\ s # x
    BY <1>1, PlaceTypes, OnceTail DEF PlaceInv
  <1> HIDE DEF x
  <1>3. ASSUME NEW s \in Samples
        PROVE  \E p \in Places : At(s, p)'
    <2>1. PICK p \in Places : At(s, p)
      BY Elsewhere
    <2>2. CASE s = x
      <3>1. p = "pending"
        BY <1>2, <2>1, <2>2 DEF At
      <3>2. At(s, "hand")'
        BY <1>1, <1>2, <2>1, <2>2, <3>1 DEF At
      <3> QED
        BY <3>2 DEF Places
    <2>3. CASE s # x
      <3>1. At(s, p)'
        BY <1>1, <1>2, <2>1, <2>3 DEF At
      <3> QED
        BY <3>1
    <2> QED
      BY <2>2, <2>3
  <1> QED
    BY <1>1, <1>2, <1>3 DEF PlaceInv

(* The hand to a task.                                                     *)
LEMMA SubmitMoves ==
    ASSUME TypeOK, PlaceInv, Submit, batch' = batch
    PROVE  PlaceInv'
  <1> DEFINE x == rollout_sample
  <1>1. /\ UNCHANGED <<fed, pending_queue, cancel_queue, queue, got, getter, fate, batch>>
        /\ rollout_sample' = 0
        /\ task' = [task EXCEPT ![x] = "created"]
    BY DEF Submit, mqVars, feedVars, NoSample
  <1>2. \A s \in Samples : task'[s] # "none" <=> task[s] # "none" \/ s = x
    BY <1>1, PlaceTypes
  <1>3. \A s \in Samples : rollout_sample' # s
    BY <1>1, PlaceTypes
  <1>4. ASSUME NEW s \in Samples
        PROVE  \E p \in Places : At(s, p)'
    <2>1. PICK p \in Places : At(s, p)
      BY Elsewhere
    <2>2. CASE s = x
      <3>1. p = "hand"
        BY <2>1, <2>2 DEF At
      <3>2. At(s, "task")'
        BY <1>1, <1>2, <1>3, <2>1, <2>2, <3>1 DEF At
      <3> QED
        BY <3>2 DEF Places
    <2>3. CASE s # x
      <3>1. At(s, p)'
        BY <1>1, <1>2, <1>3, <2>1, <2>3 DEF At
      <3> QED
        BY <3>1
    <2> QED
      BY <2>2, <2>3
  <1> QED
    BY <1>1, <1>4 DEF PlaceInv

(* A task to cancel_queue.                                                 *)
LEMMA InterruptMoves ==
    ASSUME TypeOK, PlaceInv, NEW x \in Samples, task[x] # "none", Interrupt(x),
           UNCHANGED <<fed, pending_queue, rollout_sample, queue, got, getter, fate, batch>>
    PROVE  PlaceInv'
  <1>1. /\ cancel_queue' = Append(cancel_queue, x)
        /\ task' = [task EXCEPT ![x] = "none"]
    BY DEF Interrupt
  <1>2. x \notin Range(cancel_queue)
    BY Elsewhere DEF At
  <1>3. /\ Once(cancel_queue')
        /\ \A s : s \in Range(cancel_queue') <=> s \in Range(cancel_queue) \/ s = x
    BY <1>1, <1>2, PlaceTypes, OnceAppend DEF PlaceInv
  <1>4. \A s \in Samples : task'[s] # "none" <=> task[s] # "none" /\ s # x
    BY <1>1, PlaceTypes
  <1>5. ASSUME NEW s \in Samples
        PROVE  \E p \in Places : At(s, p)'
    <2>1. PICK p \in Places : At(s, p)
      BY Elsewhere
    <2>2. CASE s = x
      <3>1. p = "task"
        BY <2>1, <2>2 DEF At
      <3>2. At(s, "cancelled")'
        BY <1>3, <1>4, <2>1, <2>2, <3>1 DEF At
      <3> QED
        BY <3>2 DEF Places
    <2>3. CASE s # x
      <3>1. At(s, p)'
        BY <1>3, <1>4, <2>1, <2>3 DEF At
      <3> QED
        BY <3>1
    <2> QED
      BY <2>2, <2>3
  <1> QED
    BY <1>3, <1>5 DEF PlaceInv

(* A failed task is gone.                                                  *)
LEMMA FailMoves ==
    ASSUME TypeOK, PlaceInv, NEW x \in Samples, TaskFails(x), batch' = batch
    PROVE  PlaceInv'
  <1>1. /\ UNCHANGED <<fed, pending_queue, rollout_sample, cancel_queue, queue, got,
                       getter, batch>>
        /\ task[x] # "none"
        /\ task' = [task EXCEPT ![x] = "none"]
        /\ fate' = [fate EXCEPT ![x] = "failed"]
    BY DEF TaskFails, mqVars, feedVars, procVars
  <1>2. /\ \A s \in Samples : task'[s] # "none" <=> task[s] # "none" /\ s # x
        /\ \A s \in Samples : fate'[s] # "none" <=> fate[s] # "none" \/ s = x
    BY <1>1, PlaceTypes
  <1>3. ASSUME NEW s \in Samples
        PROVE  \E p \in Places : At(s, p)'
    <2>1. PICK p \in Places : At(s, p)
      BY Elsewhere
    <2>2. CASE s = x
      <3>1. p = "task"
        BY <1>1, <2>1, <2>2 DEF At
      <3>2. At(s, "gone")'
        BY <1>1, <1>2, <2>1, <2>2, <3>1 DEF At
      <3> QED
        BY <3>2 DEF Places
    <2>3. CASE s # x
      <3>1. At(s, p)'
        BY <1>1, <1>2, <2>1, <2>3 DEF At
      <3> QED
        BY <3>1
    <2> QED
      BY <2>2, <2>3
  <1> QED
    BY <1>1, <1>3 DEF PlaceInv

(* What a full queue drops is gone.                                        *)
Dropped(s) == IsFull /\ s = Head(queue)

LEMMA DropMoves ==
    ASSUME TypeOK, PlaceInv, RecordDrop
    PROVE  /\ Kept \in Seq(Nat)
           /\ Once(Kept)
           /\ Range(Kept) \subseteq Samples \cup {EndMark}
           /\ \A s \in Samples : s \in Range(Kept) <=> s \in Range(queue) /\ ~Dropped(s)
           /\ \A s \in Samples : Dropped(s) => s \in Range(queue)
           /\ \A s \in Samples : fate'[s] # "none" <=> fate[s] # "none" \/ Dropped(s)
  <1>0. queue \in Seq(Nat) /\ Once(queue) /\ fate \in [Samples -> Fates]
        /\ Range(queue) \subseteq Samples \cup {EndMark} /\ 0 \notin Samples
    BY PlaceTypes DEF PlaceInv
  <1>1. CASE IsFull
    <2>1. queue # <<>>
      BY <1>1, MaxQueueSizeAssumption DEF IsFull
    <2>2. /\ Tail(queue) \in Seq(Nat)
          /\ Once(Tail(queue))
          /\ Head(queue) \in Range(queue)
          /\ \A s \in Samples : s \in Range(Tail(queue)) <=> s \in Range(queue) /\ s # Head(queue)
          /\ Range(Tail(queue)) \subseteq Range(queue)
      BY <1>0, <2>1, OnceTail
    <2>3. Kept = Tail(queue)
      BY <1>1 DEF Kept
    <2>4. \A s \in Samples : fate'[s] # "none" <=> fate[s] # "none" \/ s = Head(queue)
      <3>1. CASE Head(queue) = EndMark
        BY <1>0, <3>1 DEF RecordDrop, EndMark
      <3>2. CASE Head(queue) # EndMark
        BY <1>0, <1>1, <3>2 DEF RecordDrop
      <3> QED
        BY <3>1, <3>2
    <2> QED
      BY <1>0, <1>1, <2>2, <2>3, <2>4 DEF Dropped
  <1>2. CASE ~IsFull
    BY <1>0, <1>2 DEF Kept, RecordDrop, Dropped
  <1> QED
    BY <1>1, <1>2

(* A task to the queue.                                                    *)
LEMMA PutMoves ==
    ASSUME TypeOK, PlaceInv, NEW x \in Samples, TaskPut(x), batch' = batch
    PROVE  PlaceInv'
  <1>1. /\ UNCHANGED <<fed, pending_queue, rollout_sample, cancel_queue, got, batch>>
        /\ task[x] # "none"
        /\ task' = [task EXCEPT ![x] = "none"]
        /\ queue' = Append(Kept, x)
        /\ RecordDrop
        /\ NotifyConsumers
    BY DEF TaskPut, PutSample, feedVars, procVars
  <1>2. \A s \in Samples : task'[s] # "none" <=> task[s] # "none" /\ s # x
    BY <1>1, PlaceTypes
  <1>3. /\ Kept \in Seq(Nat)
        /\ Once(Kept)
        /\ Range(Kept) \subseteq Samples \cup {EndMark}
        /\ \A s \in Samples : s \in Range(Kept) <=> s \in Range(queue) /\ ~Dropped(s)
        /\ \A s \in Samples : Dropped(s) => s \in Range(queue)
        /\ \A s \in Samples : fate'[s] # "none" <=> fate[s] # "none" \/ Dropped(s)
    BY <1>1, DropMoves
  <1>4. x \notin Range(queue)
    BY <1>1, Elsewhere DEF At
  <1>5. /\ Once(queue')
        /\ \A s : s \in Range(queue') <=> s \in Range(Kept) \/ s = x
    BY <1>1, <1>3, <1>4, PlaceTypes, OnceAppend
  <1>6. ASSUME NEW s \in Samples
        PROVE  \E p \in Places : At(s, p)'
    <2>1. PICK p \in Places : At(s, p)
      BY Elsewhere
    <2>2. CASE s = x
      <3>1. p = "task"
        BY <1>1, <2>1, <2>2 DEF At
      <3>2. At(s, "queue")'
        BY <1>1, <1>2, <1>3, <1>4, <1>5, <2>1, <2>2, <3>1 DEF At
      <3> QED
        BY <3>2 DEF Places
    <2>3. CASE s # x /\ Dropped(s)
      <3>1. p = "queue"
        BY <1>3, <2>1, <2>3 DEF At
      <3>2. At(s, "gone")'
        BY <1>1, <1>2, <1>3, <1>5, <2>1, <2>3, <3>1 DEF At
      <3> QED
        BY <3>2 DEF Places
    <2>4. CASE s # x /\ ~Dropped(s)
      <3>1. At(s, p)'
        BY <1>1, <1>2, <1>3, <1>5, <2>1, <2>4 DEF At
      <3> QED
        BY <3>1
    <2> QED
      BY <2>2, <2>3, <2>4
  <1>7. getter'["trainer"] # "returned" => got'["trainer"] = Nothing
    BY <1>1, PlaceTypes DEF NotifyConsumers, PlaceInv
  <1>8. Range(queue') \subseteq Samples \cup {EndMark}
    BY <1>3, <1>5
  <1> QED
    BY <1>1, <1>5, <1>6, <1>7, <1>8 DEF PlaceInv

(* The end mark moves nothing but the head of a full queue.                *)
LEMMA FinishMoves ==
    ASSUME TypeOK, PlaceInv, FinishStream, batch' = batch
    PROVE  PlaceInv'
  <1>1. /\ UNCHANGED <<fed, pending_queue, rollout_sample, cancel_queue, task, got, batch>>
        /\ queue' = Append(Kept, 0)
        /\ RecordDrop
        /\ NotifyConsumers
    BY DEF FinishStream, PutSample, feedVars, procVars, EndMark
  <1>3. /\ Kept \in Seq(Nat)
        /\ Once(Kept)
        /\ Range(Kept) \subseteq Samples \cup {EndMark}
        /\ \A s \in Samples : s \in Range(Kept) <=> s \in Range(queue) /\ ~Dropped(s)
        /\ \A s \in Samples : Dropped(s) => s \in Range(queue)
        /\ \A s \in Samples : fate'[s] # "none" <=> fate[s] # "none" \/ Dropped(s)
    BY <1>1, DropMoves
  <1>4. 0 \notin Samples
    BY PlaceTypes
  <1>5. /\ Once(queue')
        /\ \A s : s \in Range(queue') <=> s \in Range(Kept) \/ s = 0
    BY <1>1, <1>3, <1>4, OnceAppend
  <1>6. ASSUME NEW s \in Samples
        PROVE  \E p \in Places : At(s, p)'
    <2>1. PICK p \in Places : At(s, p)
      BY Elsewhere
    <2>3. CASE Dropped(s)
      <3>1. p = "queue"
        BY <1>3, <2>1, <2>3 DEF At
      <3>2. At(s, "gone")'
        BY <1>1, <1>3, <1>4, <1>5, <2>1, <2>3, <3>1 DEF At
      <3> QED
        BY <3>2 DEF Places
    <2>4. CASE ~Dropped(s)
      <3>1. At(s, p)'
        BY <1>1, <1>3, <1>4, <1>5, <2>1, <2>4 DEF At
      <3> QED
        BY <3>1
    <2> QED
      BY <2>3, <2>4
  <1>7. getter'["trainer"] # "returned" => got'["trainer"] = Nothing
    BY <1>1, PlaceTypes DEF NotifyConsumers, PlaceInv
  <1>8. Range(queue') \subseteq Samples \cup {EndMark}
    BY <1>3, <1>5 DEF EndMark
  <1> QED
    BY <1>1, <1>5, <1>6, <1>7, <1>8 DEF PlaceInv

(* The queue to the trainer's call.                                        *)
LEMMA GetMoves ==
    ASSUME TypeOK, PlaceInv, RequestSample
    PROVE  PlaceInv'
  <1>0. /\ UNCHANGED <<fed, pending_queue, rollout_sample, cancel_queue, task, fate, batch>>
        /\ GetSample("trainer")
        /\ got["trainer"] = Nothing
        /\ \A s \in Samples : s # Nothing /\ s # Closed
    BY PlaceTypes DEF RequestSample, rollouterVars, trainerVars, GetSample, PlaceInv,
       Nothing, Closed
  <1>1. CASE GetWait("trainer") \/ GetClosed("trainer")
    <2>1. /\ queue' = queue
          /\ got'["trainer"] \in {Nothing, Closed}
          /\ getter'["trainer"] # "returned" => got'["trainer"] = Nothing
      BY <1>0, <1>1, PlaceTypes DEF GetWait, GetClosed
    <2>2. ASSUME NEW s \in Samples, NEW p \in Places, At(s, p)
          PROVE  At(s, p)'
      BY <1>0, <2>1, <2>2 DEF At
    <2>3. \A s \in Samples : \E p \in Places : At(s, p)'
      BY <2>2, Elsewhere
    <2> QED
      BY <1>0, <2>1, <2>3 DEF PlaceInv
  <1>2. CASE GetTake("trainer")
    <2> DEFINE x == Head(queue)
    <2>1. /\ queue # <<>>
          /\ queue' = Tail(queue)
          /\ got'["trainer"] = x
          /\ getter'["trainer"] = "returned"
      BY <1>2, PlaceTypes DEF GetTake
    <2>2. /\ Once(queue')
          /\ x \in Range(queue)
          /\ \A s \in Samples : s \in Range(queue') <=> s \in Range(queue) /\ s # x
          /\ Range(queue') \subseteq Samples \cup {EndMark}
      BY <2>1, PlaceTypes, OnceTail DEF PlaceInv
    <2> HIDE DEF x
    <2>3. ASSUME NEW s \in Samples
          PROVE  \E p \in Places : At(s, p)'
      <3>1. PICK p \in Places : At(s, p)
        BY Elsewhere
      <3>2. CASE s = x
        <4>1. p = "queue"
          BY <2>2, <3>1, <3>2 DEF At
        <4>2. At(s, "got")'
          BY <1>0, <2>1, <2>2, <3>1, <3>2, <4>1 DEF At
        <4> QED
          BY <4>2 DEF Places
      <3>3. CASE s # x
        <4>1. At(s, p)'
          BY <1>0, <2>1, <2>2, <3>1, <3>3 DEF At
        <4> QED
          BY <4>1
      <3> QED
        BY <3>2, <3>3
    <2> QED
      BY <1>0, <2>1, <2>2, <2>3 DEF PlaceInv
  <1> QED
    BY <1>0, <1>1, <1>2 DEF GetSample

(* The trainer's call to its batch.                                        *)
LEMMA CollectMoves ==
    ASSUME TypeOK, PlaceInv, CollectSample
    PROVE  PlaceInv'
  <1> DEFINE x == got["trainer"]
  <1>1. /\ UNCHANGED <<fed, pending_queue, rollout_sample, cancel_queue, task, queue, fate>>
        /\ x \in Samples
        /\ batch' = batch \cup {x}
        /\ got'["trainer"] = Nothing
    BY PlaceTypes DEF CollectSample, Receive, rollouterVars
  <1>2. \A s \in Samples : s # Nothing
    BY PlaceTypes DEF Nothing
  <1>3. ASSUME NEW s \in Samples
        PROVE  \E p \in Places : At(s, p)'
    <2>1. PICK p \in Places : At(s, p)
      BY Elsewhere
    <2>2. CASE s = x
      <3>1. p = "got"
        BY <2>1, <2>2 DEF At
      <3>2. At(s, "batch")'
        BY <1>1, <1>2, <2>1, <2>2, <3>1 DEF At
      <3> QED
        BY <3>2 DEF Places
    <2>3. CASE s # x
      <3>1. At(s, p)'
        BY <1>1, <1>2, <2>1, <2>3 DEF At
      <3> QED
        BY <3>1
    <2> QED
      BY <2>2, <2>3
  <1> QED
    BY <1>1, <1>3 DEF PlaceInv

(* The batch is trained on, or thrown away behind the end mark.            *)
LEMMA BatchMoves ==
    ASSUME TypeOK, PlaceInv, CollectEnd \/ UpdateActor
    PROVE  PlaceInv'
  <1>1. /\ UNCHANGED <<fed, pending_queue, rollout_sample, cancel_queue, task, queue>>
        /\ batch' = {}
        /\ \A s \in Samples : fate'[s] # "none" <=> fate[s] # "none" \/ s \in batch
    BY PlaceTypes DEF CollectEnd, UpdateActor, rollouterInner, Receive, mqVars
  <1>2. /\ got'["trainer"] = IF CollectEnd THEN Nothing ELSE got["trainer"]
        /\ CollectEnd => got["trainer"] \notin Samples
        /\ getter'["trainer"] # "returned" => got'["trainer"] = Nothing
        /\ Nothing \notin Samples
    BY PlaceTypes DEF CollectEnd, UpdateActor, Receive, mqVars, EndMark, Nothing, PlaceInv
  <1>3. ASSUME NEW s \in Samples
        PROVE  \E p \in Places : At(s, p)'
    <2>1. PICK p \in Places : At(s, p)
      BY Elsewhere
    <2>2. CASE s \in batch
      <3>1. p = "batch"
        BY <2>1, <2>2 DEF At
      <3>2. At(s, "gone")'
        BY <1>1, <1>2, <2>1, <2>2, <3>1 DEF At
      <3> QED
        BY <3>2 DEF Places
    <2>3. CASE s \notin batch
      <3>1. At(s, p)'
        BY <1>1, <1>2, <2>1, <2>3 DEF At
      <3> QED
        BY <3>1
    <2> QED
      BY <2>2, <2>3
  <1> QED
    BY <1>1, <1>2, <1>3 DEF PlaceInv

(* The samples the feeder puts at once, and the word behind them.          *)
LEMMA FedOnce ==
    ASSUME NEW a \in Nat, NEW n \in Nat, a + n <= TotalRolloutSteps + 1
    PROVE  LET f == [i \in 1..n |-> IF a + i <= TotalRolloutSteps THEN a + i ELSE Done]
           IN  /\ f \in Seq(Nat)
               /\ Once(f)
               /\ \A s \in Samples : s \in Range(f) <=> a < s /\ s <= a + n
  <1> DEFINE f == [i \in 1..n |-> IF a + i <= TotalRolloutSteps THEN a + i ELSE Done]
  <1>0. TotalRolloutSteps \in Nat /\ Done = 0 /\ Samples = 1..TotalRolloutSteps
    BY RollouterAssumption DEF Done, Samples
  <1>1. f \in Seq(Nat)
    <2>1. \A i \in 1..n : (IF a + i <= TotalRolloutSteps THEN a + i ELSE Done) \in Nat
      BY <1>0
    <2> QED
      BY <2>1, IsASeq
  <1>2. DOMAIN f = 1..n
    OBVIOUS
  <1>3. \A i \in 1..n : f[i] = IF a + i <= TotalRolloutSteps THEN a + i ELSE 0
    BY <1>0
  <1> HIDE DEF f
  <1>4. Once(f)
    <2> SUFFICES ASSUME NEW i \in 1..n, NEW j \in 1..n, i # j, f[i] = f[j]
                 PROVE  f[i] \notin Samples
      BY <1>2 DEF Once
    <2> QED
      BY <1>0, <1>3
  <1>5. ASSUME NEW s \in Samples, a < s, s <= a + n
        PROVE  s \in Range(f)
    <2>1. s - a \in 1..n /\ a + (s - a) = s /\ s <= TotalRolloutSteps
      BY <1>0, <1>5
    <2>2. f[s - a] = s
      BY <1>3, <2>1
    <2> QED
      BY <1>2, <2>1, <2>2 DEF Range
  <1>6. ASSUME NEW s \in Samples, s \in Range(f)
        PROVE  a < s /\ s <= a + n
    <2>1. PICK i \in 1..n : f[i] = s
      BY <1>2, <1>6 DEF Range
    <2> QED
      BY <1>0, <1>3, <2>1
  <1>7. \A s \in Samples : s \in Range(f) <=> a < s /\ s <= a + n
    BY <1>5, <1>6
  <1> QED
    BY <1>1, <1>4, <1>7 DEF f

LEMMA FeedMoves ==
    ASSUME TypeOK, PlaceInv, FeedSamples, batch' = batch
    PROVE  PlaceInv'
  <1> DEFINE room == PendingSize - Len(pending_queue)
             left == TotalRolloutSteps + 1 - fed
             n == IF room < left THEN room ELSE left
             f == [i \in 1..n |-> IF fed + i <= TotalRolloutSteps THEN fed + i ELSE Done]
  <1>1. /\ UNCHANGED <<rollout_sample, cancel_queue, task, queue, got, getter, fate, batch>>
        /\ fed' = fed + n
        /\ pending_queue' = pending_queue \o f
        /\ fed <= TotalRolloutSteps
        /\ Len(pending_queue) < PendingSize
    BY DEF FeedSamples, mqVars, procVars, taskVars
  <1>2. /\ n \in Nat
        /\ fed \in Nat
        /\ fed + n <= TotalRolloutSteps + 1
    <2>1. Len(pending_queue) \in Nat /\ fed \in Nat
      BY PlaceTypes, LenProperties
    <2> QED
      BY <1>1, <2>1, RollouterAssumption
  <1>3. /\ f \in Seq(Nat)
        /\ Once(f)
        /\ \A s \in Samples : s \in Range(f) <=> fed < s /\ s <= fed + n
    <2> HIDE DEF n
    <2> QED
      BY <1>2, FedOnce
  <1> HIDE DEF f, n
  <1>4. ASSUME NEW s \in Samples, s \in Range(pending_queue)
        PROVE  s \notin Range(f)
    <2>1. PICK p \in Places : At(s, p)
      BY Elsewhere
    <2>2. ~(s > fed)
      BY <1>4, <2>1 DEF At
    <2> QED
      BY <1>2, <1>3, <2>2, PlaceTypes
  <1>5. /\ Once(pending_queue')
        /\ \A s : s \in Range(pending_queue') <=> s \in Range(pending_queue) \/ s \in Range(f)
    BY <1>1, <1>3, <1>4, PlaceTypes, OnceConcat DEF PlaceInv
  <1>6. ASSUME NEW s \in Samples
        PROVE  \E p \in Places : At(s, p)'
    <2>0. s \in Nat
      BY PlaceTypes
    <2>1. PICK p \in Places : At(s, p)
      BY Elsewhere
    <2>2. CASE s \in Range(f)
      <3>1. s > fed /\ ~(s > fed')
        BY <1>1, <1>2, <1>3, <2>0, <2>2
      <3>2. p = "feeder"
        BY <2>1, <3>1 DEF At
      <3>3. At(s, "pending")'
        BY <1>1, <1>5, <2>1, <2>2, <3>1, <3>2 DEF At
      <3> QED
        BY <3>3 DEF Places
    <2>3. CASE s \notin Range(f)
      <3>1. s > fed <=> s > fed'
        BY <1>1, <1>2, <1>3, <2>0, <2>3
      <3>2. At(s, p)'
        BY <1>1, <1>5, <2>1, <2>3, <3>1 DEF At
      <3> QED
        BY <3>2
    <2> QED
      BY <2>2, <2>3
  <1> QED
    BY <1>1, <1>5, <1>6 DEF PlaceInv

LEMMA PlaceStep ==
    ASSUME TypeOK, HandInv, driver = "waiting" => PlaceInv, [Next]_vars
    PROVE  driver' = "waiting" => PlaceInv'
  <1> SUFFICES ASSUME driver = "waiting", driver' = "waiting", PlaceInv
               PROVE  PlaceInv'
    BY DEF Next, RollouterDoes, TrainerDoes, DriverEnds, Ended, vars
  <1> USE DEF RollouterDoes, TrainerDoes
  <1>1. CASE RollouterDoes(FeedSamples)
    BY <1>1, FeedMoves DEF trainerVars
  <1>2. CASE RollouterDoes(ProcessorNext)
    <2>0. UNCHANGED <<queue, got, getter, fed, fate, batch>>
      BY <1>2, ProcessorFrame DEF mqVars, trainerVars
    <2>1. CASE TopContinue
      BY <2>0, <2>1, ContinueMoves
    <2>2. CASE TopTake
      <3>1. CASE pending_queue = <<>>
        BY <2>0, <2>2, <3>1, PlaceFrame DEF TopTake, taskVars, placeVars
      <3>2. CASE pending_queue # <<>>
        BY <2>0, <2>2, <3>2, TakeMoves DEF TopTake, taskVars
      <3> QED
        BY <3>1, <3>2
    <2>3. CASE GetPending
      BY <2>0, <2>3, TakeMoves DEF GetPending, taskVars
    <2>4. CASE DrainLeave
      <3>1. UNCHANGED <<pending_queue, cancel_queue, task>>
        BY <2>4 DEF DrainLeave, feedVars, taskVars
      <3>2. CASE drain_site = "done"
        <4>1. rollout_sample \notin Samples /\ rollout_sample' \notin Samples
          BY <2>4, <3>2, PlaceTypes DEF DrainLeave, HandInv, NoSample
        <4>2. ASSUME NEW s \in Samples, NEW p \in Places, At(s, p)
              PROVE  At(s, p)'
          BY <2>0, <3>1, <4>1, <4>2 DEF At
        <4>3. \A s \in Samples : \E p \in Places : At(s, p)'
          BY <4>2, Elsewhere
        <4> QED
          BY <2>0, <3>1, <4>3 DEF PlaceInv
      <3>3. CASE drain_site # "done"
        BY <2>0, <2>4, <3>1, <3>3, PlaceFrame DEF DrainLeave, placeVars
      <3> QED
        BY <3>2, <3>3
    <2>5. CASE Submit
      BY <2>0, <2>5, SubmitMoves
    <2>6. CASE \/ TopPause \/ SignalPause \/ DrainAwait \/ DrainEmptied \/ DrainReap
               \/ Rest \/ SubmitWait \/ ProcessorQueues
      <3>1. UNCHANGED <<pending_queue, rollout_sample, cancel_queue, task>>
        BY <2>6 DEF TopPause, SignalPause, DrainAwait, DrainEmptied, DrainReap, Rest,
           SubmitWait, ProcessorQueues, feedVars, taskVars
      <3> QED
        BY <2>0, <3>1, PlaceFrame DEF placeVars
    <2> QED
      BY <1>2, <2>1, <2>2, <2>3, <2>4, <2>5, <2>6 DEF ProcessorNext
  <1>3. ASSUME NEW x \in Samples, RollouterDoes(TaskNext(x))
        PROVE  PlaceInv'
    <2>0. UNCHANGED <<fed, pending_queue, rollout_sample, batch>>
      BY <1>3, TaskFrame DEF feedVars, procVars, trainerVars
    <2>1. ASSUME Interrupt(x), task[x] # "none", UNCHANGED <<mqVars, fate>>
          PROVE  PlaceInv'
      BY <2>0, <2>1, InterruptMoves DEF mqVars
    <2>2. ASSUME NEW v, v # "none", task[x] # "none", task' = [task EXCEPT ![x] = v],
                 UNCHANGED <<mqVars, cancel_queue, fate>>
          PROVE  PlaceInv'
      <3>1. \A s \in Samples : task'[s] # "none" <=> task[s] # "none"
        BY <2>2, PlaceTypes
      <3>2. ASSUME NEW s \in Samples, NEW p \in Places, At(s, p)
            PROVE  At(s, p)'
        BY <2>0, <2>2, <3>1, <3>2 DEF At, mqVars
      <3>3. \A s \in Samples : \E p \in Places : At(s, p)'
        BY <3>2, Elsewhere
      <3> QED
        BY <2>0, <2>2, <3>3 DEF PlaceInv, mqVars
    <2>3. CASE TaskStart(x)
      BY <2>1, <2>2, <2>3 DEF TaskStart
    <2>4. CASE TaskInterrupted(x)
      BY <2>1, <2>4 DEF TaskInterrupted
    <2>5. CASE TaskGenerated(x)
      BY <2>2, <2>5 DEF TaskGenerated
    <2>6. CASE TaskFails(x)
      BY <2>0, <2>6, FailMoves
    <2>7. CASE TaskPut(x)
      BY <2>0, <2>7, PutMoves
    <2> QED
      BY <1>3, <2>3, <2>4, <2>5, <2>6, <2>7 DEF TaskNext
  <1>4. CASE RollouterDoes(MainNext)
    <2>1. CASE FinishStream
      BY <1>4, <2>1, FinishMoves DEF trainerVars
    <2>2. CASE StopRunning \/ MainQueues
      <3>1. UNCHANGED placeVars
        BY <1>4, <2>2 DEF StopRunning, MainQueues, mqVars, feedVars, taskVars, procVars,
           trainerVars, placeVars
      <3> QED
        BY <3>1, PlaceFrame
    <2> QED
      BY <1>4, <2>1, <2>2 DEF MainNext
  <1>5. CASE RollouterDoes(MonitorNext) \/ RollouterDoes(CallNext)
    <2>1. UNCHANGED placeVars
      BY <1>5, MonitorFrame, CallFrame
      DEF mqVars, feedVars, taskVars, procVars, trainerVars, placeVars
    <2> QED
      BY <2>1, PlaceFrame
  <1>6. CASE TrainerDoes(TrainerNext)
    <2>1. CASE RequestSample
      BY <2>1, GetMoves
    <2>2. CASE CollectSample
      BY <2>2, CollectMoves
    <2>3. CASE CollectEnd \/ UpdateActor
      BY <2>3, BatchMoves
    <2>4. CASE SyncPause \/ SyncWeights \/ LogValidation \/ FinishFit
      <3>1. UNCHANGED placeVars
        BY <2>4 DEF SyncPause, SyncWeights, LogValidation, FinishFit, GetValidate,
           UpdateMQParamVersion, mqVars, rollouterInner, rollouterVars, placeVars
      <3> QED
        BY <3>1, PlaceFrame
    <2> QED
      BY <1>6, <2>1, <2>2, <2>3, <2>4 DEF TrainerNext
  <1>7. CASE UNCHANGED vars
    <2>1. UNCHANGED placeVars
      BY <1>7 DEF vars, mqVars, rollouterVars, trainerVars, placeVars
    <2> QED
      BY <2>1, PlaceFrame
  <1> QED
    BY <1>1, <1>2, <1>3, <1>4, <1>5, <1>6, <1>7
    DEF Next, RollouterNext, DriverEnds, Ended

LEMMA PlaceInit == Init => PlaceInv
  <1> SUFFICES ASSUME Init
               PROVE  PlaceInv
    OBVIOUS
  <1>1. /\ fed = 0 /\ pending_queue = <<>> /\ cancel_queue = <<>> /\ queue = <<>>
        /\ rollout_sample = 0 /\ batch = {} /\ got["trainer"] = Nothing
        /\ \A s \in Samples : task[s] = "none" /\ fate[s] = "none"
    BY TrainerAssumption DEF Init, MQInit, RollouterInit, TrainerInit, NoSample
  <1>2. \A s \in Samples : s > 0 /\ s # 0 /\ s # Nothing
    BY RollouterAssumption DEF Samples, Nothing
  <1>3. ASSUME NEW s \in Samples
        PROVE  At(s, "feeder")
    BY <1>1, <1>2, OnceEmpty DEF At
  <1>4. "feeder" \in Places
    BY DEF Places
  <1> QED
    BY <1>1, <1>3, <1>4, OnceEmpty DEF PlaceInv

LEMMA PlaceInvariant == Spec => [](TypeOK /\ HandInv /\ (driver = "waiting" => PlaceInv))
  <1>1. Init => (driver = "waiting" => PlaceInv)
    BY PlaceInit
  <1>2. TypeOK /\ HandInv /\ (driver = "waiting" => PlaceInv) /\ [Next]_vars
          => (driver = "waiting" => PlaceInv)'
    BY PlaceStep
  <1> QED
    BY <1>1, <1>2, CountInvariant, PTL DEF Spec

-----------------------------------------------------------------------------
(* The places of the invariant are those of OnePlace: its three queues in  *)
(* a row, and the six holders.                                             *)
LEMMA QueuedOnce ==
    ASSUME TypeOK, PlaceInv
    PROVE  /\ Once(Queued)
           /\ \A x : x \in Range(Queued) <=> \/ x \in Range(pending_queue)
                                             \/ x \in Range(cancel_queue)
                                             \/ x \in Range(queue)
  <1>1. /\ pending_queue \in Seq(Nat) /\ Once(pending_queue)
        /\ cancel_queue \in Seq(Nat) /\ Once(cancel_queue)
        /\ queue \in Seq(Nat) /\ Once(queue)
    BY PlaceTypes DEF PlaceInv
  <1>2. \A s \in Samples : ~(s \in Range(pending_queue) /\ s \in Range(cancel_queue))
    BY Elsewhere DEF At
  <1>3. \A s \in Samples : ~(s \in Range(pending_queue) /\ s \in Range(queue))
    BY Elsewhere DEF At
  <1>4. \A s \in Samples : ~(s \in Range(cancel_queue) /\ s \in Range(queue))
    BY Elsewhere DEF At
  <1> DEFINE both == pending_queue \o cancel_queue
  <1>5. /\ both \in Seq(Nat)
        /\ Once(both)
        /\ \A x : x \in Range(both) <=> x \in Range(pending_queue) \/ x \in Range(cancel_queue)
    BY <1>1, <1>2, OnceConcat
  <1>6. Queued = both \o queue
    BY DEF Queued
  <1> HIDE DEF both
  <1>7. /\ Once(both \o queue)
        /\ \A x : x \in Range(both \o queue) <=> x \in Range(both) \/ x \in Range(queue)
    BY <1>1, <1>3, <1>4, <1>5, OnceConcat
  <1> QED
    BY <1>5, <1>6, <1>7

(* The place that holder i stands for.                                     *)
Held(i, p) ==
    \/ i = 1 /\ p \in {"pending", "cancelled", "queue"}
    \/ i = 2 /\ p = "hand"
    \/ i = 3 /\ p = "task"
    \/ i = 4 /\ p = "got"
    \/ i = 5 /\ p = "batch"
    \/ i = 6 /\ p = "gone"

LEMMA HoldersAt ==
    ASSUME TypeOK, PlaceInv, NEW s \in Samples, NEW p \in Places, At(s, p)
    PROVE  /\ DOMAIN Holders = 1..6
           /\ \A i \in 1..6 : s \in Holders[i] <=> Held(i, p)
  <1>1. /\ s \in Holders[1] <=> s \in Range(Queued)
        /\ s \in Holders[2] <=> s = rollout_sample
        /\ s \in Holders[3] <=> task[s] # "none"
        /\ s \in Holders[4] <=> s = got["trainer"]
        /\ s \in Holders[5] <=> s \in batch
        /\ s \in Holders[6] <=> fate[s] # "none"
    BY DEF Holders, Unfinished
  <1>2. DOMAIN Holders = 1..6
    BY DEF Holders
  <1>3. \A i \in 1..6 : i \in {1, 2, 3, 4, 5, 6}
    OBVIOUS
  <1>4. s \in Holders[1] <=> Held(1, p)
    BY <1>1, QueuedOnce DEF At, Held
  <1>5. s \in Holders[2] <=> Held(2, p)
    BY <1>1 DEF At, Held
  <1>6. s \in Holders[3] <=> Held(3, p)
    BY <1>1 DEF At, Held
  <1>7. s \in Holders[4] <=> Held(4, p)
    BY <1>1 DEF At, Held
  <1>8. s \in Holders[5] <=> Held(5, p)
    BY <1>1 DEF At, Held
  <1>9. s \in Holders[6] <=> Held(6, p)
    BY <1>1 DEF At, Held
  <1> QED
    BY <1>2, <1>3, <1>4, <1>5, <1>6, <1>7, <1>8, <1>9

LEMMA HoldersTypes ==
    ASSUME TypeOK
    PROVE  /\ DOMAIN Holders = 1..6
           /\ \A i \in 1..6 : Holders[i] \subseteq Samples
  <1>1. /\ Holders[1] \subseteq Samples /\ Holders[2] \subseteq Samples
        /\ Holders[3] \subseteq Samples /\ Holders[4] \subseteq Samples
        /\ Holders[5] \subseteq Samples /\ Holders[6] \subseteq Samples
    BY DEF Holders, Unfinished, TypeOK, TrainerTypeOK
  <1>2. \A i \in 1..6 : i \in {1, 2, 3, 4, 5, 6}
    OBVIOUS
  <1>3. DOMAIN Holders = 1..6
    BY DEF Holders
  <1> QED
    BY <1>1, <1>2, <1>3

(* Every sample the feeder has put is in one place, whatever interruption, *)
(* drop, failure or crash meets it, until the driver ends the run.         *)
THEOREM SamplesInOnePlace == Spec => []OnePlace
  <1>1. TypeOK /\ (driver = "waiting" => PlaceInv) => OnePlace
    <2> SUFFICES ASSUME TypeOK, driver = "waiting", PlaceInv
                 PROVE  OnePlace
      BY DEF OnePlace
    <2>1. \A i, j \in DOMAIN Queued :
             i # j /\ Queued[i] = Queued[j] => Queued[i] \notin Samples
      BY QueuedOnce DEF Once
    <2>2. ASSUME NEW i \in DOMAIN Holders, NEW j \in DOMAIN Holders, i # j
          PROVE  Holders[i] \cap Holders[j] = {}
      <3> SUFFICES ASSUME NEW s \in Samples, s \in Holders[i], s \in Holders[j]
                   PROVE  FALSE
        BY HoldersTypes
      <3>1. PICK p \in Places : At(s, p)
        BY Elsewhere
      <3>2. i \in 1..6 /\ j \in 1..6 /\ Held(i, p) /\ Held(j, p)
        BY <3>1, HoldersAt
      <3> QED
        BY <2>2, <3>2 DEF Held
    <2>3. ASSUME NEW s \in Samples
          PROVE  s <= fed <=> \E i \in 1..6 : s \in Holders[i]
      <3>1. PICK p \in Places : At(s, p)
        BY Elsewhere
      <3>2. s <= fed <=> ~(s > fed)
        BY PlaceTypes
      <3>3. s <= fed <=> p # "feeder"
        BY <3>1, <3>2 DEF At
      <3>4. p # "feeder" <=> \E i \in 1..6 : Held(i, p)
        <4>1. 1 \in 1..6 /\ 2 \in 1..6 /\ 3 \in 1..6 /\ 4 \in 1..6 /\ 5 \in 1..6 /\ 6 \in 1..6
          OBVIOUS
        <4> QED
          BY <4>1 DEF Held, Places
      <3> QED
        BY <3>1, <3>3, <3>4, HoldersAt
    <2>4. UNION Range(Holders) = {s \in Samples : s <= fed}
      <3>1. \A s : s \in UNION Range(Holders) <=> \E i \in 1..6 : s \in Holders[i]
        BY HoldersTypes DEF Range
      <3> QED
        BY <2>3, <3>1, HoldersTypes
    <2> QED
      BY <2>1, <2>2, <2>4 DEF OnePlace
  <1> QED
    BY <1>1, PlaceInvariant, PTL

-----------------------------------------------------------------------------
(* Arithmetic                                                              *)

LEMMA Product == ASSUME NEW a \in Nat, NEW b \in Nat PROVE a * b \in Nat
  OBVIOUS

LEMMA Grows ==
    ASSUME NEW a \in Nat, NEW b \in Nat, NEW c \in Nat, a <= b
    PROVE  a * c <= b * c
  <1>1. b = a + (b - a) /\ b - a \in Nat
    OBVIOUS
  <1>2. (a + (b - a)) * c = a * c + (b - a) * c
    OBVIOUS
  <1>3. (b - a) * c \in Nat /\ a * c \in Nat
    BY <1>1, Product
  <1> QED
    BY <1>1, <1>2, <1>3

LEMMA OneMore == ASSUME NEW a \in Nat, NEW c \in Nat PROVE (a + 1) * c = a * c + c
  OBVIOUS

LEMMA Quotient ==
    ASSUME NEW a \in Nat, NEW b \in Nat \ {0}
    PROVE  a \div b \in Nat /\ a < (a \div b + 1) * b
  OBVIOUS

LEMMA LagArith ==
    ASSUME NEW t \in Nat, NEW v \in Nat, NEW b \in Nat \ {0}, NEW m \in Nat \ {0},
           t * b + 1 <= v * b + m
    PROVE  t <= v + (m - 1) \div b
  <1> DEFINE q == (m - 1) \div b
  <1>1. q \in Nat /\ m - 1 < (q + 1) * b /\ m - 1 \in Nat
    BY Quotient
  <1> HIDE DEF q
  <1>2. SUFFICES ASSUME t >= v + q + 1
                 PROVE  FALSE
    BY <1>1 DEF q
  <1>3. (v + q + 1) * b <= t * b
    BY <1>1, <1>2, Grows
  <1>4. (v + q + 1) * b = v * b + (q + 1) * b
    BY <1>1
  <1>5. v * b \in Nat /\ t * b \in Nat /\ (q + 1) * b \in Nat /\ (v + q + 1) * b \in Nat
    BY <1>1, Product
  <1> QED
    BY <1>1, <1>3, <1>4, <1>5

-----------------------------------------------------------------------------
(* The trainer's own count: how full its batch is where.                   *)
BatchInv ==
    /\ trainer = "collect" => Cardinality(batch) < RequiredSamples
    /\ trainer = "train" => Cardinality(batch) = RequiredSamples
    /\ trainer \notin {"collect", "train"} => batch = {}
    /\ got["trainer"] \in Samples => trainer = "collect"
    /\ trainer \in {"wait", "syncing"} => local_trigger_step = 1

LEMMA BatchTypes ==
    ASSUME TypeOK
    PROVE  /\ IsFiniteSet(batch)
           /\ Cardinality(batch) \in Nat
           /\ Cardinality({}) = 0
           /\ \A s \in Samples : s \notin batch =>
                Cardinality(batch \cup {s}) = Cardinality(batch) + 1
  <1>1. IsFiniteSet(Samples)
    BY RollouterAssumption, FS_Interval DEF Samples
  <1>2. IsFiniteSet(batch)
    BY <1>1, FS_Subset DEF TypeOK, TrainerTypeOK
  <1> QED
    BY <1>2, FS_CardinalityType, FS_EmptySet, FS_AddElement

LEMMA BatchStep ==
    ASSUME TypeOK, driver = "waiting" => PlaceInv, BatchInv, [Next]_vars
    PROVE  BatchInv'
  <1> USE DEF RollouterDoes, TrainerDoes
  <1> DEFINE seen == <<trainer, batch, got, local_trigger_step>>
  <1>0. CASE UNCHANGED seen
    BY <1>0 DEF BatchInv
  <1>1. CASE TrainerDoes(TrainerNext)
    <2>0. PlaceInv
      BY <1>1
    <2>1. CASE RequestSample
      BY <2>1 DEF RequestSample, trainerVars, BatchInv
    <2>2. CASE CollectSample
      <3>1. /\ got["trainer"] \in Samples
            /\ batch' = batch \cup {got["trainer"]}
            /\ got'["trainer"] = Nothing
            /\ local_trigger_step' = local_trigger_step
            /\ trainer = "collect"
            /\ trainer' = IF Cardinality(batch) + 1 < RequiredSamples THEN "collect" ELSE "train"
        BY <2>2, PlaceTypes DEF CollectSample, Receive, syncVars
      <3>2. got["trainer"] \notin batch
        BY <2>0, <3>1, Elsewhere DEF At
      <3>3. Cardinality(batch') = Cardinality(batch) + 1
        BY <3>1, <3>2, BatchTypes
      <3>4. Nothing \notin Samples
        BY PlaceTypes DEF Nothing
      <3>5. Cardinality(batch) \in Nat /\ RequiredSamples \in Nat
        BY BatchTypes, RollouterAssumption
      <3> QED
        BY <3>1, <3>3, <3>4, <3>5 DEF BatchInv
    <2>3. CASE CollectEnd
      <3>1. /\ batch' = {} /\ trainer' = "stopping" /\ got'["trainer"] = Nothing
        BY <2>3, PlaceTypes DEF CollectEnd, Receive
      <3>2. Nothing \notin Samples
        BY PlaceTypes DEF Nothing
      <3> QED
        BY <3>1, <3>2 DEF BatchInv
    <2>4. CASE UpdateActor
      <3>1. /\ batch' = {} /\ got' = got /\ trainer = "train"
            /\ \/ trainer' = "wait" /\ local_trigger_step' = 1
               \/ trainer' = "log"
        BY <2>4 DEF UpdateActor, mqVars
      <3> QED
        BY <3>1 DEF BatchInv
    <2>5. CASE SyncPause \/ SyncWeights
      <3>1. /\ UNCHANGED <<batch, local_trigger_step, got>>
            /\ trainer \in {"wait", "syncing"} /\ trainer' \in {"syncing", "log"}
        BY <2>5 DEF SyncPause, SyncWeights, UpdateMQParamVersion, mqVars, syncVars
      <3> QED
        BY <3>1 DEF BatchInv
    <2>6. CASE LogValidation \/ FinishFit
      <3>1. /\ UNCHANGED <<batch, local_trigger_step, got>>
            /\ trainer \in {"log", "stopping"}
            /\ trainer' \in {"collect", "failed", "returned"}
        BY <2>6 DEF LogValidation, FinishFit, GetValidate, syncVars
      <3> QED
        BY <3>1, BatchTypes, RollouterAssumption DEF BatchInv
    <2> QED
      BY <1>1, <2>1, <2>2, <2>3, <2>4, <2>5, <2>6 DEF TrainerNext
  <1>2. ASSUME \/ RollouterDoes(FeedSamples) \/ RollouterDoes(ProcessorNext)
               \/ RollouterDoes(MainNext) \/ RollouterDoes(MonitorNext)
               \/ RollouterDoes(CallNext)
        PROVE  UNCHANGED seen
    BY <1>2, ProcessorFrame, MonitorFrame, CallFrame
    DEF FeedSamples, MainNext, FinishStream, StopRunning, MainQueues, PutSample,
        mqVars, trainerVars
  <1>3. ASSUME NEW s \in Samples, RollouterDoes(TaskNext(s))
        PROVE  UNCHANGED seen
    BY <1>3 DEF TaskNext, TaskStart, TaskInterrupted, TaskGenerated, TaskFails, TaskPut,
       PutSample, mqVars, trainerVars
  <1>4. ASSUME DriverEnds \/ UNCHANGED vars
        PROVE  UNCHANGED seen
    BY <1>4 DEF DriverEnds, ClearQueue, vars, mqVars, trainerVars
  <1> HIDE DEF seen
  <1> QED
    BY <1>0, <1>1, <1>2, <1>3, <1>4 DEF Next, RollouterNext, Ended

(* The queue never holds more than max_required_samples.                   *)
LEMMA RoomStep ==
    ASSUME TypeOK, Len(queue) <= max_required_samples, [Next]_vars
    PROVE  Len(queue') <= max_required_samples
  <1> USE DEF RollouterDoes, TrainerDoes
  <1>0. /\ max_required_samples \in Nat \ {0}
        /\ MaxQueueSize = max_required_samples
        /\ queue \in Seq(Nat)
        /\ Len(queue) \in Nat
    BY QueueSizeAssumption, MaxQueueSizeAssumption, PlaceTypes, LenProperties
  <1>1. CASE UNCHANGED queue
    BY <1>1
  <1>2. ASSUME NEW e, PutSample(e)
        PROVE  Len(queue') <= max_required_samples
    <2>1. Kept \in Seq(Nat) /\ Len(Kept) < max_required_samples /\ Len(Kept) \in Nat
      BY <1>0, HeadTailProperties, EmptySeq DEF Kept, IsFull
    <2>2. queue' = Append(Kept, e)
      BY <1>2 DEF PutSample
    <2>3. Len(queue') = Len(Kept) + 1
      BY <2>1, <2>2
    <2> QED
      BY <1>0, <2>1, <2>3
  <1>3. CASE GetTake("trainer")
    <2>1. queue # <<>> /\ queue' = Tail(queue)
      BY <1>3 DEF GetTake
    <2>2. Len(queue') = Len(queue) - 1
      BY <1>0, <2>1, HeadTailProperties
    <2> QED
      BY <1>0, <2>2
  <1>4. CASE DriverEnds
    BY <1>0, <1>4, EmptySeq DEF DriverEnds, ClearQueue
  <1>5. CASE TrainerDoes(TrainerNext)
    BY <1>1, <1>3, <1>5 DEF TrainerNext, RequestSample, CollectSample, CollectEnd, UpdateActor,
       SyncPause, SyncWeights, LogValidation, FinishFit, GetSample, GetWait, GetClosed,
       Receive, UpdateMQParamVersion, GetValidate, mqVars
  <1>6. CASE RollouterDoes(RollouterNext)
    <2>1. CASE FeedSamples \/ ProcessorNext \/ MonitorNext \/ CallNext
      BY <1>1, <2>1, ProcessorFrame, MonitorFrame, CallFrame DEF FeedSamples, mqVars
    <2>2. CASE MainNext
      BY <1>1, <1>2, <2>2 DEF MainNext, FinishStream, StopRunning, MainQueues, mqVars
    <2>3. ASSUME NEW s \in Samples, TaskNext(s)
          PROVE  Len(queue') <= max_required_samples
      BY <1>1, <1>2, <2>3 DEF TaskNext, TaskStart, TaskInterrupted, TaskGenerated,
         TaskFails, TaskPut, mqVars
    <2> QED
      BY <1>6, <2>1, <2>2, <2>3 DEF RollouterNext
  <1> QED
    BY <1>1, <1>4, <1>5, <1>6 DEF Next, Ended, vars, mqVars

-----------------------------------------------------------------------------
(* By how much the version stamped on a sample may be behind the one the   *)
(* queue knows when the sample is put.  Partial rollout lets no task run   *)
(* from the return of pause to the new version; without it a task may be   *)
(* submitted and end there, with the old version.                          *)
Late == IF PartialRollout THEN 1 ELSE 2

PausedInv ==
    /\ resume_call = "resuming" => update_call = "none"
    /\ PartialRollout /\ pause_call \in {"gathering", "returned"} => servers_paused
    /\ PartialRollout /\ update_call = "called" => servers_paused
    /\ PartialRollout /\ (pause_call = "returned" \/ update_call = "called") =>
         \A s \in Samples : task[s] \notin {"generating", "putting"}

StampInv ==
    \A s \in Samples : task[s] = "putting" =>
        /\ mq_param_version < sample_version[s] + Late
        /\ pause_call = "returned" => mq_param_version <= sample_version[s]

LEMMA NoActive ==
    ASSUME TypeOK, ActiveCount = 0
    PROVE  Unfinished = {}
  <1>1. IsFiniteSet(Samples)
    BY RollouterAssumption, FS_Interval DEF Samples
  <1>2. IsFiniteSet(Unfinished)
    BY <1>1, FS_Subset DEF Unfinished
  <1>3. Cardinality(Unfinished) \in Nat /\ finished \in Nat /\ failed \in Nat
    BY <1>2, FS_CardinalityType DEF TypeOK, TaskTypeOK
  <1>4. Cardinality(Unfinished) = 0
    BY <1>3 DEF ActiveCount
  <1> QED
    BY <1>2, <1>4, FS_EmptySet

callSeen == <<pause_call, update_call, resume_call, servers_paused>>
stampSeen == <<task, sample_version, mq_param_version, pause_call>>

LEMMA PausedStep ==
    ASSUME TypeOK, SyncInv, PausedInv, [Next]_vars
    PROVE  PausedInv'
  <1> USE DEF RollouterDoes, TrainerDoes
  <1>0. task \in [Samples -> TaskStates]
    BY PlaceTypes
  <1>1. CASE UNCHANGED callSeen /\ task' = task
    BY <1>1 DEF PausedInv, callSeen
  <1>2. CASE RollouterDoes(CallNext)
    <2>0. task' = task
      BY <1>2, CallFrame
    <2>1. CASE CallQueues
      BY <1>1, <2>0, <2>1 DEF CallQueues, callSeen, callVars, flagVars
    <2>2. CASE PauseBegin
      <3>1. /\ UNCHANGED <<update_call, resume_call, servers_paused>>
            /\ \/ PartialRollout /\ pause_call' = "cancelling"
               \/ ~PartialRollout
        BY <2>2, RollouterAssumption DEF PauseBegin
      <3> QED
        BY <2>0, <3>1 DEF PausedInv
    <2>3. CASE PauseCancel
      BY <2>0, <2>3 DEF PauseCancel, PausedInv
    <2>4. CASE PauseEnd
      BY <2>0, <2>4 DEF PauseEnd, ForgetTasks, PausedInv, Unfinished
    <2>5. CASE UpdateBegin \/ UpdateSize \/ UpdateEnd
      <3>1. /\ UNCHANGED <<pause_call, resume_call, servers_paused>>
            /\ update_call # "none" /\ update_call' # "called"
        BY <2>5 DEF UpdateBegin, UpdateSize, UpdateEnd, flagVars
      <3> QED
        BY <2>0, <3>1 DEF PausedInv
    <2>6. CASE ResumeBegin \/ ResumeEnd
      <3>1. /\ UNCHANGED <<pause_call, update_call>>
            /\ update_call = "none" /\ resume_call # "none"
        BY <2>6 DEF ResumeBegin, ResumeEnd, Reopen, PausedInv
      <3>2. pause_call = "none"
        BY <3>1 DEF SyncInv
      <3> QED
        BY <2>0, <3>1, <3>2 DEF PausedInv
    <2> QED
      BY <1>2, <2>1, <2>2, <2>3, <2>4, <2>5, <2>6 DEF CallNext
  <1>3. CASE TrainerDoes(TrainerNext)
    <2>0. UNCHANGED <<task, servers_paused>>
      BY <1>3, TrainerFrame DEF rollouterInner
    <2>1. CASE SyncPause
      BY <2>0, <2>1 DEF SyncPause, PausedInv
    <2>2. CASE SyncWeights
      <3>1. /\ pause_call = "returned" /\ pause_call' = "none"
            /\ update_call' = "called" /\ resume_call' = "called"
        BY <2>2 DEF SyncWeights
      <3> QED
        BY <2>0, <3>1 DEF PausedInv
    <2>3. CASE \/ RequestSample \/ CollectSample \/ CollectEnd \/ UpdateActor
               \/ LogValidation \/ FinishFit
      BY <1>1, <2>0, <2>3 DEF RequestSample, CollectSample, CollectEnd, UpdateActor,
         LogValidation, FinishFit, rollouterVars, callSeen
    <2> QED
      BY <1>3, <2>1, <2>2, <2>3 DEF TrainerNext
  <1>4. CASE RollouterDoes(ProcessorNext)
    <2>1. UNCHANGED callSeen
      BY <1>4, ProcessorFrame DEF callVars, callSeen
    <2>2. \/ task' = task
          \/ task' = [task EXCEPT ![rollout_sample] = "created"]
      BY <1>4 DEF ProcessorNext, TopPause, TopContinue, TopTake, GetPending, SignalPause,
         DrainLeave, DrainAwait, DrainEmptied, DrainReap, Rest, SubmitWait, Submit,
         ProcessorQueues, taskVars
    <2>3. \A s \in Samples : task'[s] = task[s] \/ task'[s] = "created"
      BY <1>0, <2>2
    <2> QED
      BY <2>1, <2>3 DEF PausedInv, callSeen
  <1>5. ASSUME NEW s \in Samples, RollouterDoes(TaskNext(s))
        PROVE  PausedInv'
    <2>1. UNCHANGED callSeen
      BY <1>5, TaskFrame DEF flagVars, callVars, callSeen
    <2>2. \/ task' = [task EXCEPT ![s] = "none"]
          \/ ~servers_paused /\ task' = [task EXCEPT ![s] = "generating"]
          \/ task[s] = "generating" /\ task' = [task EXCEPT ![s] = "putting"]
      BY <1>5 DEF TaskNext, TaskStart, TaskInterrupted, TaskGenerated, TaskFails, TaskPut,
         Interrupt
    <2>3. PartialRollout /\ (pause_call = "returned" \/ update_call = "called") =>
            /\ servers_paused
            /\ \A r \in Samples : task[r] \notin {"generating", "putting"}
      BY DEF PausedInv
    <2>4. PartialRollout /\ (pause_call = "returned" \/ update_call = "called") =>
            \A r \in Samples : task'[r] \notin {"generating", "putting"}
      BY <1>0, <2>2, <2>3
    <2> QED
      BY <2>1, <2>4 DEF PausedInv, callSeen
  <1>6. ASSUME \/ RollouterDoes(FeedSamples) \/ RollouterDoes(MainNext)
               \/ RollouterDoes(MonitorNext) \/ DriverEnds \/ UNCHANGED vars
        PROVE  UNCHANGED callSeen /\ task' = task
    BY <1>6, MainFrame, MonitorFrame
    DEF FeedSamples, DriverEnds, vars, rollouterVars, taskVars, flagVars, callVars, callSeen
  <1> QED
    BY <1>1, <1>2, <1>3, <1>4, <1>5, <1>6 DEF Next, RollouterNext, Ended

LEMMA StampKeeps ==
    ASSUME TypeOK, SyncInv, PausedInv, StampInv, [Next]_vars
    PROVE  StampInv'
  <1> USE DEF RollouterDoes, TrainerDoes
  <1>0. /\ task \in [Samples -> TaskStates]
        /\ sample_version \in [Samples -> Nat]
        /\ mq_param_version \in Nat
        /\ current_param_version \in Nat
        /\ trainer_version \in Nat
        /\ Late \in {1, 2}
        /\ PartialRollout <=> Late = 1
        /\ Late = 2 <=> ~PartialRollout
    BY PlaceTypes DEF TypeOK, TaskTypeOK, QueueTypeOK, FlagTypeOK, TrainerTypeOK, Late
  <1>1. CASE UNCHANGED stampSeen
    BY <1>1 DEF StampInv, stampSeen
  <1>2. CASE RollouterDoes(CallNext)
    <2>0. UNCHANGED <<task, sample_version, mq_param_version>>
      BY <1>2, CallFrame
    <2>1. CASE pause_call' # "returned" \/ pause_call' = pause_call
      BY <2>0, <2>1 DEF StampInv
    <2>2. CASE pause_call' = "returned" /\ pause_call' # pause_call
      <3>1. (PauseBegin /\ ActiveCount = 0) \/ PauseEnd
        BY <1>2, <2>2 DEF CallNext, CallQueues, PauseBegin, PauseCancel, PauseEnd,
           UpdateBegin, UpdateSize, UpdateEnd, ResumeBegin, ResumeEnd, Reopen, callVars
      <3>2. Unfinished = {}
        BY <3>1, NoActive DEF PauseEnd
      <3>3. \A s \in Samples : task[s] = "none"
        BY <3>2 DEF Unfinished
      <3> QED
        BY <2>0, <3>3 DEF StampInv
    <2> QED
      BY <2>1, <2>2
  <1>3. CASE TrainerDoes(TrainerNext)
    <2>0. UNCHANGED <<task, sample_version>>
      BY <1>3, TrainerFrame DEF rollouterInner
    <2>1. CASE SyncPause
      BY <2>0, <2>1 DEF SyncPause, mqVars, StampInv
    <2>2. CASE SyncWeights
      <3>1. /\ pause_call = "returned" /\ pause_call' = "none"
            /\ mq_param_version' = mq_param_version + 1
        BY <1>0, <2>2 DEF SyncWeights, UpdateMQParamVersion, SyncInv
      <3>2. CASE PartialRollout
        BY <2>0, <3>1, <3>2 DEF PausedInv, StampInv
      <3>3. CASE ~PartialRollout
        <4> SUFFICES ASSUME NEW s \in Samples, task[s] = "putting"
                     PROVE  mq_param_version + 1 < sample_version[s] + Late
          BY <2>0, <3>1 DEF StampInv
        <4>1. mq_param_version <= sample_version[s] /\ sample_version[s] \in Nat /\ Late = 2
          BY <1>0, <3>1, <3>3 DEF StampInv
        <4> QED
          BY <1>0, <4>1
      <3> QED
        BY <3>2, <3>3
    <2>3. CASE \/ RequestSample \/ CollectSample \/ CollectEnd \/ UpdateActor
               \/ LogValidation \/ FinishFit
      <3>1. UNCHANGED <<pause_call, mq_param_version>>
        BY <2>3 DEF RequestSample, CollectSample, CollectEnd, UpdateActor,
           LogValidation, FinishFit, rollouterVars, GetSample, GetWait, GetClosed, GetTake,
           Receive, GetValidate, mqVars
      <3> QED
        BY <1>1, <2>0, <3>1 DEF stampSeen
    <2> QED
      BY <1>3, <2>1, <2>2, <2>3 DEF TrainerNext
  <1>4. CASE RollouterDoes(ProcessorNext)
    <2>1. UNCHANGED <<sample_version, mq_param_version, pause_call>>
      BY <1>4, ProcessorFrame DEF callVars, mqVars
    <2>2. \/ task' = task
          \/ task' = [task EXCEPT ![rollout_sample] = "created"]
      BY <1>4 DEF ProcessorNext, TopPause, TopContinue, TopTake, GetPending, SignalPause,
         DrainLeave, DrainAwait, DrainEmptied, DrainReap, Rest, SubmitWait, Submit,
         ProcessorQueues, taskVars
    <2>3. \A s \in Samples : task'[s] = task[s] \/ task'[s] = "created"
      BY <1>0, <2>2
    <2> QED
      BY <2>1, <2>3 DEF StampInv
  <1>5. ASSUME NEW s \in Samples, RollouterDoes(TaskNext(s))
        PROVE  StampInv'
    <2>1. UNCHANGED <<mq_param_version, pause_call>>
      BY <1>5, TaskFrame DEF callVars
    <2>2. CASE TaskGenerated(s)
      <3>1. /\ task[s] = "generating"
            /\ task' = [task EXCEPT ![s] = "putting"]
            /\ sample_version' = [sample_version EXCEPT ![s] = current_param_version]
        BY <2>2 DEF TaskGenerated
      <3>2. mq_param_version < current_param_version + Late
        <4>1. CASE PartialRollout
          <5>1. update_call # "called"
            BY <3>1, <4>1 DEF PausedInv
          <5>2. mq_param_version = current_param_version
            BY <5>1 DEF SyncInv
          <5> QED
            BY <1>0, <5>2
        <4>2. CASE ~PartialRollout
          <5>1. mq_param_version <= current_param_version + 1
            BY <1>0 DEF SyncInv
          <5> QED
            BY <1>0, <4>2, <5>1
        <4> QED
          BY <4>1, <4>2
      <3>3. pause_call = "returned" => mq_param_version <= current_param_version
        <4>1. pause_call = "returned" => update_call = "none"
          BY DEF SyncInv
        <4> QED
          BY <1>0, <4>1 DEF SyncInv
      <3>4. ASSUME NEW r \in Samples, task'[r] = "putting"
            PROVE  /\ mq_param_version' < sample_version'[r] + Late
                   /\ pause_call' = "returned" => mq_param_version' <= sample_version'[r]
        <4>1. CASE r = s
          BY <1>0, <2>1, <3>1, <3>2, <3>3, <4>1
        <4>2. CASE r # s
          <5>1. task[r] = "putting" /\ sample_version'[r] = sample_version[r]
            BY <1>0, <3>1, <3>4, <4>2
          <5> QED
            BY <2>1, <5>1 DEF StampInv
        <4> QED
          BY <4>1, <4>2
      <3> QED
        BY <3>4 DEF StampInv
    <2>3. CASE TaskStart(s) \/ TaskInterrupted(s) \/ TaskFails(s) \/ TaskPut(s)
      <3>1. /\ sample_version' = sample_version
            /\ \/ task' = [task EXCEPT ![s] = "none"]
               \/ task' = [task EXCEPT ![s] = "generating"]
        BY <2>3 DEF TaskStart, TaskInterrupted, TaskFails, TaskPut, Interrupt
      <3>2. \A r \in Samples : task'[r] = "putting" => task[r] = "putting"
        BY <1>0, <3>1
      <3> QED
        BY <2>1, <3>1, <3>2 DEF StampInv
    <2> QED
      BY <1>5, <2>2, <2>3 DEF TaskNext
  <1>6. ASSUME \/ RollouterDoes(FeedSamples) \/ RollouterDoes(MainNext)
               \/ RollouterDoes(MonitorNext) \/ DriverEnds \/ UNCHANGED vars
        PROVE  UNCHANGED stampSeen
    BY <1>6, MainFrame, MonitorFrame
    DEF FeedSamples, DriverEnds, ClearQueue, vars, rollouterVars, taskVars, callVars, mqVars,
        stampSeen
  <1> QED
    BY <1>1, <1>2, <1>3, <1>4, <1>5, <1>6 DEF Next, RollouterNext, Ended

-----------------------------------------------------------------------------
(* What the trainer has taken from the queue, counted in samples since the *)
(* start as if every version had taken as many, against the room that the  *)
(* version on a sample leaves it.  Whoever waits in the queue at index i   *)
(* is trained on after i more samples were taken.                          *)
PerVersion == RequiredSamples * TriggerStep

InTransit == IF got["trainer"] \in Samples THEN 1 ELSE 0

Taken ==
    trainer_version * PerVersion + (local_trigger_step - 1) * RequiredSamples
       + Cardinality(batch) + InTransit

Room(s) == (sample_version[s] + Late) * PerVersion + max_required_samples

LagInv ==
    /\ \A i \in DOMAIN queue : queue[i] \in Samples => Taken + i <= Room(queue[i])
    /\ got["trainer"] \in Samples => Taken <= Room(got["trainer"])

LEMMA LagTypes ==
    ASSUME TypeOK
    PROVE  /\ PerVersion \in Nat \ {0}
           /\ InTransit \in {0, 1}
           /\ Late \in {1, 2}
           /\ max_required_samples \in Nat \ {0}
           /\ Taken \in Nat
           /\ trainer_version * PerVersion + Cardinality(batch) <= Taken
           /\ \A s \in Samples : Room(s) \in Nat
  <1>0. /\ RequiredSamples \in Nat \ {0} /\ TriggerStep \in Nat \ {0}
        /\ trainer_version \in Nat /\ local_trigger_step \in 1..TriggerStep
        /\ sample_version \in [Samples -> Nat]
    BY RollouterAssumption DEF TypeOK, TrainerTypeOK, TaskTypeOK
  <1>1. PerVersion \in Nat \ {0}
    BY <1>0 DEF PerVersion
  <1>2. InTransit \in {0, 1} /\ Late \in {1, 2}
    BY DEF InTransit, Late
  <1>3. max_required_samples \in Nat \ {0}
    BY QueueSizeAssumption, MaxQueueSizeAssumption
  <1>4. trainer_version * PerVersion \in Nat
    BY <1>0, <1>1, Product
  <1>5. local_trigger_step - 1 \in Nat
    BY <1>0
  <1>6. (local_trigger_step - 1) * RequiredSamples \in Nat
    BY <1>0, <1>5, Product
  <1>7. Cardinality(batch) \in Nat
    BY BatchTypes
  <1>8. Taken \in Nat /\ trainer_version * PerVersion + Cardinality(batch) <= Taken
    BY <1>2, <1>4, <1>6, <1>7 DEF Taken
  <1>9. ASSUME NEW s \in Samples
        PROVE  Room(s) \in Nat
    <2>1. sample_version[s] + Late \in Nat
      BY <1>0, <1>2
    <2>2. (sample_version[s] + Late) * PerVersion \in Nat
      BY <1>1, <2>1, Product
    <2> QED
      BY <1>3, <2>2 DEF Room
  <1> QED
    BY <1>1, <1>2, <1>3, <1>8, <1>9

LEMMA TakenArith ==
    ASSUME NEW v \in Nat, NEW r \in Nat \ {0}, NEW t \in Nat \ {0}, NEW l \in 1..t,
           NEW c \in Nat, c <= r
    PROVE  v * (r * t) + (l - 1) * r + c <= (v + 1) * (r * t)
  <1>1. l - 1 \in Nat /\ t - 1 \in Nat /\ l - 1 <= t - 1
    OBVIOUS
  <1>2. (l - 1) * r <= (t - 1) * r
    BY <1>1, Grows
  <1>3. (t - 1) * r = r * t - r
    OBVIOUS
  <1>4. r * t \in Nat /\ (l - 1) * r \in Nat /\ (t - 1) * r \in Nat
    BY <1>1, Product
  <1>5. v * (r * t) \in Nat /\ (v + 1) * (r * t) = v * (r * t) + r * t
    BY <1>4, Product, OneMore
  <1> QED
    BY <1>2, <1>3, <1>4, <1>5

(* The trainer is never more than one version ahead of the queue.          *)
LEMMA TakenBound ==
    ASSUME TypeOK, SyncInv, BatchInv
    PROVE  Taken <= (mq_param_version + 1) * PerVersion
  <1>0. /\ RequiredSamples \in Nat \ {0} /\ TriggerStep \in Nat \ {0}
        /\ mq_param_version \in Nat /\ local_trigger_step \in 1..TriggerStep
        /\ Cardinality(batch) \in Nat /\ Cardinality({}) = 0
        /\ trainer \in {"collect", "train", "wait", "syncing", "log", "stopping",
                        "failed", "returned"}
    BY RollouterAssumption, BatchTypes DEF TypeOK, TrainerTypeOK, QueueTypeOK
  <1>1. PerVersion \in Nat
    BY LagTypes
  <1>2. CASE trainer \in {"wait", "syncing"}
    <2>1. /\ trainer_version = mq_param_version + 1
          /\ local_trigger_step = 1
          /\ Cardinality(batch) = 0
          /\ InTransit = 0
      BY <1>0, <1>2 DEF SyncInv, BatchInv, InTransit
    <2>2. (local_trigger_step - 1) * RequiredSamples = 0
      BY <1>0, <2>1
    <2>3. (mq_param_version + 1) * PerVersion \in Nat
      BY <1>0, <1>1, Product
    <2> QED
      BY <2>1, <2>2, <2>3 DEF Taken
  <1>3. CASE trainer \notin {"wait", "syncing"}
    <2>1. trainer_version = mq_param_version
      BY <1>3 DEF SyncInv
    <2> DEFINE c == Cardinality(batch) + InTransit
    <2>2. c \in Nat /\ c <= RequiredSamples
      <3>1. CASE trainer = "collect"
        <4>1. Cardinality(batch) < RequiredSamples /\ InTransit \in {0, 1}
          BY <3>1 DEF BatchInv, InTransit
        <4> QED
          BY <1>0, <4>1
      <3>2. CASE trainer # "collect"
        <4>1. InTransit = 0 /\ (Cardinality(batch) = RequiredSamples \/ batch = {})
          BY <3>2 DEF BatchInv, InTransit
        <4> QED
          BY <1>0, <4>1
      <3> QED
        BY <3>1, <3>2
    <2>3. mq_param_version * PerVersion + (local_trigger_step - 1) * RequiredSamples + c
            <= (mq_param_version + 1) * PerVersion
      <3> HIDE DEF c
      <3> QED
        BY <1>0, <2>2, TakenArith DEF PerVersion
    <2>4. Taken = mq_param_version * PerVersion
                    + (local_trigger_step - 1) * RequiredSamples + c
      <3>1. local_trigger_step - 1 \in Nat
        BY <1>0
      <3>2. /\ (local_trigger_step - 1) * RequiredSamples \in Nat
            /\ mq_param_version * PerVersion \in Nat
            /\ InTransit \in Nat
        BY <1>0, <1>1, <3>1, Product DEF InTransit
      <3> QED
        BY <1>0, <2>1, <3>2 DEF Taken
    <2> QED
      BY <2>3, <2>4
  <1> QED
    BY <1>2, <1>3

(* No more taken, nothing new in the queue or on its way.                  *)
LEMMA LagKeeps ==
    ASSUME TypeOK, LagInv, queue' = queue, Taken' \in Nat, Taken' <= Taken,
           got'["trainer"] \in Samples => got'["trainer"] = got["trainer"],
           \A s \in Samples : s \in Range(queue) \/ s = got["trainer"]
                                => sample_version'[s] = sample_version[s]
    PROVE  LagInv'
  <1>0. Taken \in Nat /\ Taken' \in Nat /\ \A s \in Samples : Room(s) \in Nat
    BY LagTypes
  <1>1. DOMAIN queue = 1..Len(queue) /\ Len(queue) \in Nat
    BY PlaceTypes, LenProperties
  <1>2. ASSUME NEW i \in DOMAIN queue, queue[i] \in Samples
        PROVE  Taken' + i <= Room(queue[i])'
    <2>1. queue[i] \in Range(queue)
      BY DEF Range
    <2>2. Room(queue[i])' = Room(queue[i])
      BY <1>2, <2>1 DEF Room
    <2>3. Taken + i <= Room(queue[i]) /\ i \in Nat
      BY <1>1, <1>2 DEF LagInv
    <2> QED
      BY <1>0, <1>2, <2>2, <2>3
  <1>3. ASSUME got'["trainer"] \in Samples
        PROVE  Taken' <= Room(got["trainer"])'
    <2>1. Room(got["trainer"])' = Room(got["trainer"])
      BY <1>3 DEF Room
    <2>2. Taken <= Room(got["trainer"])
      BY <1>3 DEF LagInv
    <2> QED
      BY <1>0, <1>3, <2>1, <2>2
  <1> QED
    BY <1>2, <1>3 DEF LagInv

LEMMA TakenSame ==
    ASSUME UNCHANGED <<trainer_version, local_trigger_step, batch, got>>
    PROVE  Taken' = Taken
  BY DEF Taken, InTransit

(* Whatever is put: the samples before it move up or stay.                 *)
LEMMA LagPut ==
    ASSUME TypeOK, LagInv, NEW e \in Nat, PutSample(e),
           UNCHANGED <<trainer_version, local_trigger_step, batch, sample_version>>,
           Len(queue') <= max_required_samples,
           e \in Samples => Taken + max_required_samples <= Room(e)
    PROVE  LagInv'
  <1>0. /\ Taken \in Nat /\ max_required_samples \in Nat
        /\ \A s \in Samples : Room(s) \in Nat
        /\ queue \in Seq(Nat)
    BY LagTypes, PlaceTypes
  <1>1. got' = got /\ queue' = Append(Kept, e)
    BY DEF PutSample
  <1>2. Taken' = Taken
    BY <1>1, TakenSame
  <1>3. \A s \in Samples : Room(s)' = Room(s)
    BY DEF Room
  <1>4. /\ Kept \in Seq(Nat)
        /\ \A i \in DOMAIN Kept : i \in Nat /\
             (Kept[i] \in Samples => Taken + i <= Room(Kept[i]))
    <2>1. CASE ~IsFull
      <3>1. Kept = queue /\ DOMAIN queue = 1..Len(queue) /\ Len(queue) \in Nat
        BY <1>0, <2>1, LenProperties DEF Kept
      <3> QED
        BY <1>0, <3>1 DEF LagInv
    <2>2. CASE IsFull
      <3>1. queue # <<>>
        BY <2>2, MaxQueueSizeAssumption DEF IsFull
      <3>2. /\ Kept = Tail(queue) /\ Tail(queue) \in Seq(Nat)
            /\ DOMAIN Tail(queue) = 1..Len(queue) - 1
            /\ DOMAIN queue = 1..Len(queue) /\ Len(queue) \in Nat
            /\ \A i \in 1..Len(queue) - 1 : Tail(queue)[i] = queue[i + 1]
        BY <1>0, <2>2, <3>1, HeadTailProperties, LenProperties DEF Kept
      <3>3. ASSUME NEW i \in 1..Len(queue) - 1, Tail(queue)[i] \in Samples
            PROVE  Taken + i <= Room(Tail(queue)[i])
        <4>1. i + 1 \in DOMAIN queue /\ Tail(queue)[i] = queue[i + 1]
          BY <3>2
        <4>2. Taken + (i + 1) <= Room(queue[i + 1])
          BY <3>3, <4>1 DEF LagInv
        <4>3. Room(queue[i + 1]) \in Nat
          BY <1>0, <3>3, <4>1
        <4> QED
          BY <1>0, <4>1, <4>2, <4>3
      <3> QED
        BY <3>2, <3>3
    <2> QED
      BY <2>1, <2>2
  <1> HIDE DEF Kept
  <1>5. /\ DOMAIN Kept = 1..Len(Kept) /\ Len(Kept) \in Nat
        /\ DOMAIN queue' = 1..Len(Kept) + 1
        /\ Len(queue') = Len(Kept) + 1
        /\ \A i \in 1..Len(Kept) : queue'[i] = Kept[i]
        /\ queue'[Len(Kept) + 1] = e
    BY <1>1, <1>4, AppendProperties, LenProperties
  <1>6. ASSUME NEW i \in 1..Len(Kept) + 1, queue'[i] \in Samples
        PROVE  Taken + i <= Room(queue'[i])
    <2>1. CASE i \in 1..Len(Kept)
      BY <1>4, <1>5, <1>6, <2>1
    <2>2. CASE i = Len(Kept) + 1
      <3>1. queue'[i] = e /\ i <= max_required_samples /\ i \in Nat
        BY <1>5, <2>2
      <3>2. Taken + max_required_samples <= Room(e) /\ Room(e) \in Nat
        BY <1>0, <1>6, <3>1
      <3>3. Taken + i <= Room(e)
        BY <1>0, <3>1, <3>2
      <3> QED
        BY <3>1, <3>3
    <2> QED
      BY <1>5, <2>1, <2>2
  <1> QED
    BY <1>1, <1>2, <1>3, <1>5, <1>6 DEF LagInv

(* A task puts a sample that is late enough to be counted.                 *)
LEMMA PutRoom ==
    ASSUME TypeOK, SyncInv, BatchInv, StampInv, NEW s \in Samples, task[s] = "putting"
    PROVE  Taken + max_required_samples <= Room(s)
  <1>1. /\ mq_param_version \in Nat /\ sample_version[s] \in Nat
        /\ Late \in {1, 2} /\ PerVersion \in Nat /\ Taken \in Nat
        /\ max_required_samples \in Nat
    BY LagTypes DEF TypeOK, TaskTypeOK, QueueTypeOK
  <1>2. mq_param_version + 1 <= sample_version[s] + Late
    BY <1>1 DEF StampInv
  <1>3. mq_param_version + 1 \in Nat /\ sample_version[s] + Late \in Nat
    BY <1>1
  <1>4. (mq_param_version + 1) * PerVersion <= (sample_version[s] + Late) * PerVersion
    BY <1>1, <1>2, <1>3, Grows
  <1>5. /\ (mq_param_version + 1) * PerVersion \in Nat
        /\ (sample_version[s] + Late) * PerVersion \in Nat
    BY <1>1, <1>3, Product
  <1>6. Taken <= (mq_param_version + 1) * PerVersion
    BY TakenBound
  <1> QED
    BY <1>1, <1>4, <1>5, <1>6 DEF Room

-----------------------------------------------------------------------------
(* The steps of the trainer.                                               *)

LEMMA LagTake ==
    ASSUME TypeOK, PlaceInv, LagInv, RequestSample, GetTake("trainer")
    PROVE  LagInv'
  <1> DEFINE x == Head(queue)
  <1>0. /\ Taken \in Nat
        /\ \A s \in Samples : Room(s) \in Nat
        /\ queue \in Seq(Nat)
    BY LagTypes, PlaceTypes
  <1>1. /\ queue # <<>>
        /\ queue' = Tail(queue)
        /\ got'["trainer"] = x
        /\ UNCHANGED <<sample_version, trainer_version, local_trigger_step, batch>>
        /\ got["trainer"] = Nothing
    BY PlaceTypes DEF RequestSample, GetSample, GetTake, PlaceInv, rollouterVars, trainerVars
  <1>2. /\ Tail(queue) \in Seq(Nat)
        /\ DOMAIN Tail(queue) = 1..Len(queue) - 1
        /\ DOMAIN queue = 1..Len(queue) /\ Len(queue) \in Nat \ {0}
        /\ \A i \in 1..Len(queue) - 1 : Tail(queue)[i] = queue[i + 1]
        /\ x = queue[1]
    BY <1>0, <1>1, HeadTailProperties, LenProperties
  <1>3. \A s \in Samples : Room(s)' = Room(s)
    BY <1>1 DEF Room
  <1>4. Taken' \in Nat /\ Taken' <= Taken + 1 /\ Nothing \notin Samples
    <2>1. InTransit = 0 /\ Nothing \notin Samples
      BY <1>1, PlaceTypes DEF InTransit, Nothing
    <2>2. InTransit' \in {0, 1}
      BY DEF InTransit
    <2> DEFINE rest == trainer_version * PerVersion
                         + (local_trigger_step - 1) * RequiredSamples + Cardinality(batch)
    <2>3. Taken = rest + InTransit /\ Taken' = rest + InTransit'
      BY <1>1 DEF Taken
    <2>4. rest \in Nat
      <3>1. /\ trainer_version \in Nat /\ local_trigger_step \in 1..TriggerStep
            /\ RequiredSamples \in Nat /\ TriggerStep \in Nat
        BY RollouterAssumption DEF TypeOK, TrainerTypeOK
      <3>2. PerVersion \in Nat /\ Cardinality(batch) \in Nat
        BY BatchTypes, LagTypes
      <3>3. local_trigger_step - 1 \in Nat
        BY <3>1
      <3>4. /\ trainer_version * PerVersion \in Nat
            /\ (local_trigger_step - 1) * RequiredSamples \in Nat
        BY <3>1, <3>2, <3>3, Product
      <3> QED
        BY <3>2, <3>4
    <2> HIDE DEF rest
    <2>5. InTransit' = 0 \/ InTransit' = 1
      BY <2>2
    <2>6. Taken' \in Nat /\ Taken' <= Taken + 1
      <3>1. Taken = rest
        BY <2>1, <2>3, <2>4
      <3>2. Taken' = rest \/ Taken' = rest + 1
        BY <2>3, <2>4, <2>5
      <3> QED
        BY <2>4, <3>1, <3>2
    <2> QED
      BY <2>1, <2>6
  <1> HIDE DEF x
  <1>5. ASSUME NEW i \in 1..Len(queue) - 1, Tail(queue)[i] \in Samples
        PROVE  Taken' + i <= Room(Tail(queue)[i])
    <2>1. i + 1 \in DOMAIN queue /\ Tail(queue)[i] = queue[i + 1] /\ i \in Nat
      BY <1>2
    <2>2. Taken + (i + 1) <= Room(queue[i + 1])
      BY <1>5, <2>1 DEF LagInv
    <2>3. Room(queue[i + 1]) \in Nat
      BY <1>0, <1>5, <2>1
    <2> QED
      BY <1>0, <1>4, <2>1, <2>2, <2>3
  <1>6. ASSUME x \in Samples
        PROVE  Taken' <= Room(x)
    <2>1. 1 \in DOMAIN queue
      BY <1>2
    <2>2. Taken + 1 <= Room(x)
      BY <1>2, <1>6, <2>1 DEF LagInv
    <2> QED
      BY <1>0, <1>4, <1>6, <2>2
  <1> QED
    BY <1>1, <1>2, <1>3, <1>5, <1>6 DEF LagInv

LEMMA LagTrainer ==
    ASSUME TypeOK, PlaceInv, BatchInv, LagInv, TrainerNext
    PROVE  LagInv'
  <1>0. /\ Taken \in Nat
        /\ sample_version' = sample_version
        /\ Nothing \notin Samples
        /\ RequiredSamples \in Nat \ {0} /\ TriggerStep \in Nat \ {0}
        /\ trainer_version \in Nat /\ local_trigger_step \in 1..TriggerStep
        /\ Cardinality(batch) \in Nat /\ Cardinality({}) = 0
    BY LagTypes, BatchTypes, TrainerFrame, PlaceTypes, RollouterAssumption
    DEF rollouterInner, TypeOK, TrainerTypeOK, Nothing
  <1>1. CASE RequestSample
    <2>1. CASE GetTake("trainer")
      BY <1>1, <2>1, LagTake
    <2>2. CASE GetWait("trainer") \/ GetClosed("trainer")
      <3>1. /\ queue' = queue
            /\ got["trainer"] = Nothing
            /\ got'["trainer"] \in {Nothing, Closed}
            /\ UNCHANGED <<trainer_version, local_trigger_step, batch>>
        BY <1>1, <2>2, PlaceTypes
        DEF RequestSample, GetSample, GetWait, GetClosed, PlaceInv, trainerVars
      <3>2. Closed \notin Samples
        BY PlaceTypes DEF Closed
      <3>3. Taken' = Taken
        BY <1>0, <3>1, <3>2 DEF Taken, InTransit
      <3> QED
        BY <1>0, <3>1, <3>2, <3>3, LagKeeps
    <2> QED
      BY <1>1, <2>1, <2>2 DEF RequestSample, GetSample
  <1>2. CASE CollectSample
    <2>1. /\ got["trainer"] \in Samples
          /\ batch' = batch \cup {got["trainer"]}
          /\ got'["trainer"] = Nothing
          /\ queue' = queue
          /\ UNCHANGED <<trainer_version, local_trigger_step>>
      BY <1>2, PlaceTypes DEF CollectSample, Receive, syncVars
    <2>2. got["trainer"] \notin batch
      BY <2>1, Elsewhere DEF At
    <2>3. Cardinality(batch') = Cardinality(batch) + 1
      BY <2>1, <2>2, BatchTypes
    <2>4. Taken' = Taken
      <3> DEFINE base == trainer_version * PerVersion + (local_trigger_step - 1) * RequiredSamples
      <3>1. base \in Nat
        <4>1. local_trigger_step - 1 \in Nat /\ PerVersion \in Nat
          BY <1>0, LagTypes
        <4>2. /\ trainer_version * PerVersion \in Nat
              /\ (local_trigger_step - 1) * RequiredSamples \in Nat
          BY <1>0, <4>1, Product
        <4> QED
          BY <4>2
      <3>2. Taken = base + Cardinality(batch) + 1
        BY <2>1 DEF Taken, InTransit
      <3>3. Taken' = base + Cardinality(batch') + 0
        BY <1>0, <2>1 DEF Taken, InTransit
      <3> HIDE DEF base
      <3> QED
        BY <1>0, <2>3, <3>1, <3>2, <3>3
    <2> QED
      BY <1>0, <2>1, <2>4, LagKeeps
  <1>3. CASE CollectEnd
    <2>1. /\ batch' = {}
          /\ got'["trainer"] = Nothing
          /\ got["trainer"] \notin Samples
          /\ queue' = queue
          /\ UNCHANGED <<trainer_version, local_trigger_step>>
      BY <1>3, PlaceTypes DEF CollectEnd, Receive, syncVars, EndMark
    <2>2. Taken' \in Nat /\ Taken' <= Taken
      <3> DEFINE base == trainer_version * PerVersion + (local_trigger_step - 1) * RequiredSamples
      <3>1. base \in Nat
        <4>1. local_trigger_step - 1 \in Nat /\ PerVersion \in Nat
          BY <1>0, LagTypes
        <4>2. /\ trainer_version * PerVersion \in Nat
              /\ (local_trigger_step - 1) * RequiredSamples \in Nat
          BY <1>0, <4>1, Product
        <4> QED
          BY <4>2
      <3>2. Taken = base + Cardinality(batch) + 0
        BY <2>1 DEF Taken, InTransit
      <3>3. Taken' = base + 0 + 0
        BY <1>0, <2>1 DEF Taken, InTransit
      <3> HIDE DEF base
      <3> QED
        BY <1>0, <3>1, <3>2, <3>3
    <2> QED
      BY <1>0, <2>1, <2>2, LagKeeps
  <1>4. CASE UpdateActor
    <2>1. /\ batch' = {}
          /\ UNCHANGED <<queue, got>>
          /\ Cardinality(batch) = RequiredSamples
          /\ got["trainer"] \notin Samples
          /\ \/ /\ local_trigger_step = TriggerStep
                /\ local_trigger_step' = 1
                /\ trainer_version' = trainer_version + 1
             \/ /\ local_trigger_step' = local_trigger_step + 1
                /\ trainer_version' = trainer_version
      BY <1>0, <1>4 DEF UpdateActor, SyncDue, mqVars, BatchInv
    <2>2. Taken = trainer_version * PerVersion + local_trigger_step * RequiredSamples
      <3>1. Taken = trainer_version * PerVersion
                      + (local_trigger_step - 1) * RequiredSamples + RequiredSamples + 0
        BY <2>1 DEF Taken, InTransit
      <3>2. (local_trigger_step - 1) * RequiredSamples + RequiredSamples
              = local_trigger_step * RequiredSamples
        BY <1>0
      <3>3. /\ trainer_version * PerVersion \in Nat
            /\ local_trigger_step * RequiredSamples \in Nat
        BY <1>0, LagTypes, Product
      <3>4. (local_trigger_step - 1) * RequiredSamples \in Int
        BY <1>0
      <3> QED
        BY <1>0, <3>1, <3>2, <3>3, <3>4
    <2>3. Taken' = trainer_version' * PerVersion + (local_trigger_step' - 1) * RequiredSamples
      <3>1. Taken' = trainer_version' * PerVersion
                      + (local_trigger_step' - 1) * RequiredSamples + 0 + 0
        BY <1>0, <2>1 DEF Taken, InTransit
      <3>2. /\ trainer_version' * PerVersion \in Int
            /\ (local_trigger_step' - 1) * RequiredSamples \in Int
        BY <1>0, <2>1, LagTypes
      <3> QED
        BY <3>1, <3>2
    <2>4. Taken' = Taken
      <3>1. CASE /\ local_trigger_step = TriggerStep
                 /\ local_trigger_step' = 1
                 /\ trainer_version' = trainer_version + 1
        <4>1. (local_trigger_step' - 1) * RequiredSamples = 0
          BY <1>0, <3>1
        <4>2. /\ trainer_version' * PerVersion = trainer_version * PerVersion + PerVersion
              /\ trainer_version * PerVersion \in Nat
          BY <1>0, <3>1, LagTypes, OneMore, Product
        <4>3. local_trigger_step * RequiredSamples = PerVersion
          BY <1>0, <3>1 DEF PerVersion
        <4> QED
          BY <2>2, <2>3, <4>1, <4>2, <4>3, LagTypes
      <3>2. CASE /\ local_trigger_step' = local_trigger_step + 1
                 /\ trainer_version' = trainer_version
        <4>1. local_trigger_step' - 1 = local_trigger_step
          BY <1>0, <3>2
        <4> QED
          BY <2>2, <2>3, <3>2, <4>1
      <3> QED
        BY <2>1, <3>1, <3>2
    <2> QED
      BY <1>0, <2>1, <2>4, LagKeeps
  <1>5. CASE SyncPause \/ SyncWeights \/ LogValidation \/ FinishFit
    <2>1. UNCHANGED <<queue, got, batch, trainer_version, local_trigger_step>>
      BY <1>5 DEF SyncPause, SyncWeights, LogValidation, FinishFit, UpdateMQParamVersion,
         GetValidate, mqVars, syncVars
    <2>2. Taken' = Taken
      BY <2>1, TakenSame
    <2> QED
      BY <1>0, <2>1, <2>2, LagKeeps
  <1> QED
    BY <1>1, <1>2, <1>3, <1>4, <1>5 DEF TrainerNext

-----------------------------------------------------------------------------
(* A sample that is in no task keeps the version it was finished with.     *)
LEMMA VersionStays ==
    ASSUME TypeOK, PlaceInv, NEW x \in Samples, TaskNext(x)
    PROVE  \A s \in Samples : s \in Range(queue) \/ s = got["trainer"] \/ s \in batch
                                => sample_version'[s] = sample_version[s]
  <1>1. task[x] # "none"
    BY DEF TaskNext, TaskStart, TaskInterrupted, TaskGenerated, TaskFails, TaskPut
  <1>2. \A s \in Samples : s # x => sample_version'[s] = sample_version[s]
    BY DEF TypeOK, TaskTypeOK, TaskNext, TaskStart, TaskInterrupted, TaskGenerated,
       TaskFails, TaskPut
  <1>3. x \notin Range(queue) /\ x # got["trainer"] /\ x \notin batch
    BY <1>1, Elsewhere DEF At
  <1> QED
    BY <1>2, <1>3

LEMMA LagStep ==
    ASSUME TypeOK, SyncInv, BatchInv, StampInv, Len(queue') <= max_required_samples,
           driver = "waiting" => PlaceInv, driver = "waiting" => LagInv, [Next]_vars
    PROVE  driver' = "waiting" => LagInv'
  <1> SUFFICES ASSUME driver = "waiting", driver' = "waiting", PlaceInv, LagInv
               PROVE  LagInv'
    BY DEF Next, RollouterDoes, TrainerDoes, DriverEnds, Ended, vars
  <1> USE DEF RollouterDoes, TrainerDoes
  <1>0. Taken \in Nat
    BY LagTypes
  <1>1. ASSUME UNCHANGED <<queue, got, sample_version, trainerVars>>
        PROVE  LagInv'
    BY <1>0, <1>1, TakenSame, LagKeeps DEF trainerVars
  <1>2. CASE TrainerDoes(TrainerNext)
    BY <1>2, LagTrainer
  <1>3. CASE \/ RollouterDoes(FeedSamples) \/ RollouterDoes(ProcessorNext)
             \/ RollouterDoes(MonitorNext) \/ RollouterDoes(CallNext)
    BY <1>1, <1>3, ProcessorFrame, MonitorFrame, CallFrame DEF FeedSamples, mqVars, taskVars
  <1>4. CASE RollouterDoes(MainNext)
    <2>1. CASE FinishStream
      <3>1. EndMark \in Nat /\ EndMark \notin Samples
        BY PlaceTypes DEF EndMark
      <3>2. /\ PutSample(EndMark)
            /\ UNCHANGED <<trainer_version, local_trigger_step, batch, sample_version>>
        BY <1>4, <2>1 DEF FinishStream, trainerVars
      <3> QED
        BY <3>1, <3>2, LagPut
    <2>2. CASE StopRunning \/ MainQueues
      BY <1>1, <1>4, <2>2 DEF StopRunning, MainQueues, mqVars, taskVars
    <2> QED
      BY <1>4, <2>1, <2>2 DEF MainNext
  <1>5. ASSUME NEW x \in Samples, RollouterDoes(TaskNext(x))
        PROVE  LagInv'
    <2>1. CASE TaskPut(x)
      <3>1. /\ PutSample(x)
            /\ task[x] = "putting"
            /\ UNCHANGED <<trainer_version, local_trigger_step, batch, sample_version>>
        BY <1>5, <2>1 DEF TaskPut, trainerVars
      <3>2. Taken + max_required_samples <= Room(x)
        BY <3>1, PutRoom
      <3>3. x \in Nat
        BY PlaceTypes
      <3> QED
        BY <3>1, <3>2, <3>3, LagPut
    <2>2. CASE TaskStart(x) \/ TaskInterrupted(x) \/ TaskGenerated(x) \/ TaskFails(x)
      <3>1. UNCHANGED <<queue, got, trainer_version, local_trigger_step, batch>>
        BY <1>5, <2>2 DEF TaskStart, TaskInterrupted, TaskGenerated, TaskFails, mqVars,
           trainerVars
      <3> QED
        BY <1>0, <1>5, <3>1, VersionStays, TakenSame, LagKeeps
    <2> QED
      BY <1>5, <2>1, <2>2 DEF TaskNext
  <1>6. CASE UNCHANGED vars
    BY <1>1, <1>6 DEF vars, mqVars, rollouterVars
  <1> QED
    BY <1>2, <1>3, <1>4, <1>5, <1>6 DEF Next, RollouterNext, DriverEnds, Ended

(* The trainer takes a sample into its batch only in time.                 *)
LEMMA LagOfNew ==
    ASSUME TypeOK, LagInv, got["trainer"] \in Samples
    PROVE  trainer_version <= sample_version[got["trainer"]] + MaxLag
  <1> DEFINE s == got["trainer"]
  <1>1. /\ trainer_version \in Nat /\ sample_version[s] \in Nat
        /\ Late \in {1, 2} /\ PerVersion \in Nat \ {0} /\ max_required_samples \in Nat \ {0}
        /\ Taken \in Nat
    BY LagTypes DEF TypeOK, TrainerTypeOK, TaskTypeOK
  <1>2. trainer_version * PerVersion + 1 <= Taken
    <2>1. /\ RequiredSamples \in Nat /\ local_trigger_step \in 1..TriggerStep
          /\ TriggerStep \in Nat /\ Cardinality(batch) \in Nat
      BY BatchTypes, RollouterAssumption DEF TypeOK, TrainerTypeOK
    <2>2. local_trigger_step - 1 \in Nat
      BY <2>1
    <2>3. /\ (local_trigger_step - 1) * RequiredSamples \in Nat
          /\ trainer_version * PerVersion \in Nat
      BY <1>1, <2>1, <2>2, Product
    <2>4. Taken = trainer_version * PerVersion
                    + (local_trigger_step - 1) * RequiredSamples + Cardinality(batch) + 1
      BY DEF Taken, InTransit
    <2> QED
      BY <2>1, <2>3, <2>4
  <1>3. Taken <= (sample_version[s] + Late) * PerVersion + max_required_samples
    BY DEF LagInv, Room
  <1> DEFINE v == sample_version[s] + Late
  <1>4. v \in Nat
    BY <1>1
  <1>5. v * PerVersion \in Nat /\ trainer_version * PerVersion \in Nat
    BY <1>1, <1>4, Product
  <1>6. trainer_version * PerVersion + 1 <= v * PerVersion + max_required_samples
    BY <1>1, <1>2, <1>3, <1>5
  <1>7. trainer_version <= v + (max_required_samples - 1) \div PerVersion
    <2> HIDE DEF v
    <2> QED
      BY <1>1, <1>4, <1>6, LagArith
  <1>8. MaxLag = (max_required_samples - 1) \div PerVersion + Late
    BY DEF MaxLag, PerVersion, Late
  <1>9. (max_required_samples - 1) \div PerVersion \in Nat
    BY <1>1, Quotient
  <1> HIDE DEF s
  <1> QED
    BY <1>1, <1>7, <1>8, <1>9 DEF s

LEMMA BatchLagStep ==
    ASSUME TypeOK, driver = "waiting" => PlaceInv, driver = "waiting" => LagInv,
           VersionLag, [Next]_vars
    PROVE  VersionLag'
  <1> USE DEF RollouterDoes, TrainerDoes
  <1>0. MaxLag' = MaxLag /\ batch \subseteq Samples
    BY DEF MaxLag, max_required_samples, TypeOK, TrainerTypeOK
  <1>1. ASSUME UNCHANGED <<trainer_version, batch, sample_version>>
        PROVE  VersionLag'
    BY <1>0, <1>1 DEF VersionLag
  <1>2. CASE TrainerDoes(TrainerNext)
    <2>1. sample_version' = sample_version
      BY <1>2, TrainerFrame DEF rollouterInner
    <2>2. CASE CollectSample
      <3>1. /\ got["trainer"] \in Samples
            /\ batch' = batch \cup {got["trainer"]}
            /\ trainer_version' = trainer_version
        BY <2>2 DEF CollectSample, syncVars
      <3>2. trainer_version <= sample_version[got["trainer"]] + MaxLag
        BY <1>2, <3>1, LagOfNew
      <3> HIDE DEF MaxLag
      <3> QED
        BY <1>0, <2>1, <3>1, <3>2 DEF VersionLag
    <2>3. CASE CollectEnd \/ UpdateActor
      BY <2>3 DEF CollectEnd, UpdateActor, VersionLag
    <2>4. CASE \/ RequestSample \/ SyncPause \/ SyncWeights \/ LogValidation \/ FinishFit
      BY <1>1, <2>1, <2>4 DEF RequestSample, SyncPause, SyncWeights, LogValidation,
         FinishFit, trainerVars, syncVars
    <2> QED
      BY <1>2, <2>2, <2>3, <2>4 DEF TrainerNext
  <1>3. ASSUME NEW x \in Samples, RollouterDoes(TaskNext(x))
        PROVE  VersionLag'
    <2>1. UNCHANGED <<trainer_version, batch>>
      BY <1>3 DEF trainerVars
    <2>2. \A s \in batch : sample_version'[s] = sample_version[s]
      BY <1>0, <1>3, VersionStays
    <2> QED
      BY <1>0, <2>1, <2>2 DEF VersionLag
  <1>4. ASSUME \/ RollouterDoes(FeedSamples) \/ RollouterDoes(ProcessorNext)
               \/ RollouterDoes(MainNext) \/ RollouterDoes(MonitorNext)
               \/ RollouterDoes(CallNext) \/ DriverEnds \/ UNCHANGED vars
        PROVE  UNCHANGED <<trainer_version, batch, sample_version>>
    BY <1>4, ProcessorFrame, MainFrame, MonitorFrame, CallFrame
    DEF FeedSamples, DriverEnds, vars, taskVars, trainerVars, rollouterVars
  <1> QED
    BY <1>1, <1>2, <1>3, <1>4 DEF Next, RollouterNext, Ended

(* No sample is trained on more than MaxLag versions after the one it was  *)
(* finished with: the queue's size and the trainer's pace bound the lag,   *)
(* whatever the threshold, the tasks and the calls do.                     *)
THEOREM LagIsBounded == Spec => []VersionLag
  <1> DEFINE J == /\ SyncInv /\ BatchInv /\ PausedInv /\ StampInv
                  /\ Len(queue) <= max_required_samples
                  /\ driver = "waiting" => LagInv
                  /\ VersionLag
  <1>1. Init => J
    <2> SUFFICES ASSUME Init PROVE J
      OBVIOUS
    <2>0. /\ RequiredSamples \in Nat \ {0} /\ max_required_samples \in Nat
          /\ Nothing \notin Samples
          /\ Cardinality({}) = 0
      BY RollouterAssumption, MaxIsNat, FS_EmptySet DEF Samples, Nothing
    <2>1. SyncInv /\ PausedInv
      BY DEF Init, MQInit, RollouterInit, TrainerInit, SyncInv, PausedInv
    <2>2. /\ queue = <<>> /\ got["trainer"] = Nothing /\ batch = {} /\ trainer = "collect"
          /\ \A s \in Samples : task[s] = "none"
      BY TrainerAssumption DEF Init, MQInit, RollouterInit, TrainerInit
    <2>3. BatchInv /\ StampInv /\ VersionLag
      BY <2>0, <2>2 DEF BatchInv, StampInv, VersionLag
    <2>4. Len(queue) <= max_required_samples
      BY <2>0, <2>2, EmptySeq
    <2>5. LagInv
      BY <2>0, <2>2 DEF LagInv
    <2> QED
      BY <2>1, <2>3, <2>4, <2>5
  <1>2. /\ TypeOK /\ (driver = "waiting" => PlaceInv)
        /\ J
        /\ [Next]_vars
        => J'
    <2> SUFFICES ASSUME TypeOK, driver = "waiting" => PlaceInv, J, [Next]_vars
                 PROVE  J'
      OBVIOUS
    <2>1. SyncInv' /\ BatchInv' /\ PausedInv' /\ StampInv'
      BY SyncStep, BatchStep, PausedStep, StampKeeps
    <2>2. (Len(queue) <= max_required_samples)'
      BY RoomStep DEF max_required_samples
    <2>3. (driver = "waiting" => LagInv)'
      BY <2>2, LagStep DEF max_required_samples
    <2>4. VersionLag'
      BY BatchLagStep
    <2> QED
      BY <2>1, <2>2, <2>3, <2>4
  <1> QED
    BY <1>1, <1>2, PlaceInvariant, PTL DEF Spec
=============================================================================
