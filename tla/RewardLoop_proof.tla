-------------------------- MODULE RewardLoop_proof --------------------------
(***************************************************************************)
(* Proofs about the rewards, for every number of requests and workers,     *)
(* every size of the buckets and of the requests.                          *)
(***************************************************************************)
EXTENDS RewardLoop, FiniteSetTheorems, WellFoundedInduction, SequenceTheorems, TLAPS

PCs == {"acquire", "sleep", "debt", "semaphore", "call", "done"}

(* Types, and that nobody sleeps past his time.                            *)
TypeInv ==
    /\ is_async_reward_score \in BOOLEAN
    /\ need \in [Limiters -> Nat \ {0}]
    /\ now \in Nat
    /\ tokens \in [Limiters -> Int]
    /\ last_update \in [Limiters -> Int]
    /\ grants \in [Limiters -> Seq(Nat)]
    /\ pc \in [Requests -> PCs]
    /\ layer \in [Requests -> Limiters]
    /\ due \in [Requests -> Int]

OnTime == \A r \in Requests : Waits(r) => due[r] >= now

(* The semaphore holds the requests that wait for their call, and an       *)
(* asynchronous call runs only while its request waits.                    *)
CallInv ==
    /\ semaphore = {r \in Requests : pc[r] = "call"}
    /\ Cardinality(semaphore) <= MaxConcurrent
    /\ running \subseteq Requests
    /\ is_async_reward_score => running \subseteq semaphore

(* The router's counts and routes.                                         *)
RouteInv ==
    /\ request_counts \in [Urls -> Nat]
    /\ route \in [Requests -> [url : Urls \cup {0}, attempt : Int]]

-----------------------------------------------------------------------------
(* The buckets                                                             *)

DebtAt(k)  == {r \in Requests : pc[r] = "debt" /\ layer[r] = k}
PaidOff(k) == last_update[k] - tokens[k]
Count(k)   == Len(grants[k])

(* A bucket nobody looked at has let nobody through.                       *)
Unused(k) ==
    /\ tokens[k] <= Second
    /\ last_update[k] <= now
    /\ last_update[k] = Never => Count(k) = 0 /\ DebtAt(k) = {}

(* Requests that fit: what was taken since a grant and what is left are    *)
(* covered by a full bucket and what was refilled since.                   *)
SmallInv(k) == need[k] <= Second =>
    /\ tokens[k] >= 0
    /\ DebtAt(k) = {}
    /\ \A i \in 1..Count(k) :
          tokens[k] + (Count(k) - i + 1) * need[k] <= Second + last_update[k] - grants[k][i]

(* Requests that do not fit: the ends of their sleeps are at least what    *)
(* one of them needs apart, and the last is when the bucket is at zero.    *)
LargeInv(k) == need[k] > Second =>
    /\ Count(k) > 0 => grants[k][Count(k)] <= PaidOff(k)
    /\ \A r \in DebtAt(k) :
          /\ due[r] <= PaidOff(k)
          /\ Count(k) > 0 => due[r] >= grants[k][Count(k)] + need[k]
    /\ \A r, q \in DebtAt(k) :
          r # q => due[r] >= due[q] + need[k] \/ due[q] >= due[r] + need[k]

RateAt(k) == \A i, j \in 1..Count(k) :
    i <= j => (j - i + 1) * need[k] <= Burst(k) + grants[k][j] - grants[k][i]

BucketInv(k) == Unused(k) /\ SmallInv(k) /\ LargeInv(k) /\ RateAt(k)

RateInv == TypeInv /\ OnTime /\ \A k \in Limiters : BucketInv(k)

-----------------------------------------------------------------------------
(* Arithmetic of the steps                                                 *)

(* One more of size d is taken out of r, which is no more than t and what  *)
(* was refilled.                                                           *)
LEMMA TakeOne ==
    ASSUME NEW n \in Nat, NEW i \in 1..n, NEW d \in Nat, NEW t \in Int, NEW full \in Int,
           NEW old \in Int, NEW new \in Int, NEW g \in Int, NEW r \in Int,
           t + (n - i + 1) * d <= full + old - g,
           r <= t + new - old
    PROVE  /\ (r - d) + ((n + 1) - i + 1) * d <= full + new - g
           /\ r + (n - i + 1) * d <= full + new - g
  <1>1. ((n + 1) - i + 1) * d = (n - i + 1) * d + d
    OBVIOUS
  <1> DEFINE cost == (n - i + 1) * d
  <1>2. cost \in Int
    OBVIOUS
  <1>3. t + cost <= full + old - g /\ ((n + 1) - i + 1) * d = cost + d
    BY <1>1
  <1> HIDE DEF cost
  <1>4. (r - d) + (cost + d) <= full + new - g /\ r + cost <= full + new - g
    BY <1>2, <1>3
  <1> QED
    BY <1>3, <1>4 DEF cost

(* A grant that is d later than the last one keeps the rate.               *)
LEMMA PayOne ==
    ASSUME NEW n \in Nat, NEW i \in 1..n, NEW d \in Nat, NEW g \in Int, NEW last \in Int,
           NEW new \in Int,
           (n - i + 1) * d <= d + last - g,
           last + d <= new
    PROVE  ((n + 1) - i + 1) * d <= d + new - g
  <1>1. ((n + 1) - i + 1) * d = (n - i + 1) * d + d
    OBVIOUS
  <1> DEFINE cost == (n - i + 1) * d
  <1>2. cost \in Int
    OBVIOUS
  <1>3. cost <= d + last - g /\ ((n + 1) - i + 1) * d = cost + d
    BY <1>1
  <1> HIDE DEF cost
  <1> QED
    BY <1>2, <1>3

(* What a bucket holds after a look at it.                                 *)
LEMMA RefilledBound ==
    ASSUME TypeInv, NEW k \in Limiters, Unused(k)
    PROVE  /\ Refilled(k) \in Int /\ Refilled(k) <= Second
           /\ tokens[k] >= 0 => Refilled(k) >= 0
           /\ last_update[k] # Never => Refilled(k) <= tokens[k] + now - last_update[k]
  BY RewardAssumption DEF TypeInv, Unused, Refilled, Elapsed, Least, Never

(* A bucket nobody touches.                                                *)
LEMMA BucketFrame ==
    ASSUME NEW k \in Limiters, BucketInv(k), now \in Nat, now' \in Nat, now' >= now,
           last_update[k] \in Int,
           need' = need, tokens'[k] = tokens[k], last_update'[k] = last_update[k],
           grants'[k] = grants[k], DebtAt(k)' = DebtAt(k),
           \A r \in DebtAt(k) : due'[r] = due[r]
    PROVE  BucketInv(k)'
  <1>1. Unused(k)'
    BY DEF BucketInv, Unused, Count
  <1>2. SmallInv(k)'
    BY DEF BucketInv, SmallInv, Count
  <1>3. LargeInv(k)'
    BY DEF BucketInv, LargeInv, Count, PaidOff
  <1>4. RateAt(k)'
    BY DEF BucketInv, RateAt, Count, Burst
  <1> QED
    BY <1>1, <1>2, <1>3, <1>4 DEF BucketInv

-----------------------------------------------------------------------------
(* The steps that touch a bucket                                           *)

LEMMA LargeStep ==
    ASSUME TypeInv, OnTime, NEW k \in Limiters, NEW r \in Requests, BucketInv(k),
           AcquireLarge(r, k)
    PROVE  BucketInv(k)'
  <1> DEFINE n == Count(k)
             new == now + need[k] - Refilled(k)
  <1>0. /\ Refilled(k) \in Int /\ Refilled(k) <= Second
        /\ last_update[k] # Never => Refilled(k) <= tokens[k] + now - last_update[k]
    BY RefilledBound DEF BucketInv
  <1>a. /\ need[k] > Second /\ need[k] \in Nat
        /\ need' = need /\ grants' = grants /\ now' = now
        /\ tokens'[k] = Refilled(k) - need[k] /\ last_update'[k] = now
        /\ due' = [due EXCEPT ![r] = new]
    BY DEF AcquireLarge, Set, Sleep, Debt, TypeInv, config
  <1>b. DebtAt(k)' = DebtAt(k) \cup {r} /\ r \notin DebtAt(k)
    BY DEF AcquireLarge, Sleep, DebtAt, TypeInv
  <1>1. /\ need[k] > Second /\ need[k] \in Nat /\ Refilled(k) \in Int /\ Refilled(k) <= Second
        /\ need' = need /\ grants' = grants /\ now' = now
        /\ tokens'[k] = Refilled(k) - need[k] /\ last_update'[k] = now
        /\ due' = [due EXCEPT ![r] = new]
        /\ DebtAt(k)' = DebtAt(k) \cup {r} /\ r \notin DebtAt(k)
    BY <1>0, <1>a, <1>b
  <1>2. /\ new \in Int /\ due'[r] = new /\ PaidOff(k)' = new
        /\ \A q \in DebtAt(k) : due'[q] = due[q] /\ due[q] \in Int
    BY <1>1 DEF TypeInv, DebtAt, PaidOff
  <1>3. last_update[k] # Never => new >= PaidOff(k) + need[k]
    <2>1. now \in Int /\ tokens[k] \in Int /\ last_update[k] \in Int /\ need[k] \in Int
      BY <1>1 DEF TypeInv
    <2> DEFINE r0 == Refilled(k)
    <2>2. r0 \in Int /\ (last_update[k] # Never => r0 <= tokens[k] + now - last_update[k])
      BY <1>0
    <2> HIDE DEF r0
    <2>3. last_update[k] # Never => now + need[k] - r0 >= last_update[k] - tokens[k] + need[k]
      BY <2>1, <2>2
    <2> QED
      BY <2>3 DEF PaidOff, r0
  <1>4. last_update[k] = Never => n = 0 /\ DebtAt(k) = {}
    BY DEF BucketInv, Unused
  <1>5. PaidOff(k) \in Int /\ n \in Nat /\ (n > 0 => grants[k][n] \in Int)
    BY DEF PaidOff, TypeInv, Count
  <1>6. Unused(k)'
    BY <1>1, RewardAssumption DEF Unused, Never, TypeInv
  <1>7. SmallInv(k)'
    BY <1>1, RewardAssumption DEF SmallInv
  <1>8. LargeInv(k)'
    <2>1. Count(k)' = n /\ grants'[k] = grants[k]
      BY <1>1 DEF Count
    <2>2. (n > 0 => grants[k][n] <= new)
      BY <1>1, <1>2, <1>3, <1>4, <1>5 DEF BucketInv, LargeInv
    <2>3. ASSUME NEW q \in DebtAt(k)'
          PROVE  due'[q] <= new /\ (n > 0 => due'[q] >= grants[k][n] + need[k])
      <3>1. CASE q = r
        BY <3>1, <1>1, <1>2, <1>3, <1>4, <1>5 DEF BucketInv, LargeInv
      <3>2. CASE q # r
        BY <2>3, <3>2, <1>1, <1>2, <1>3, <1>4, <1>5 DEF BucketInv, LargeInv
      <3> QED
        BY <3>1, <3>2
    <2>4. ASSUME NEW p \in DebtAt(k)', NEW q \in DebtAt(k)', p # q
          PROVE  due'[p] >= due'[q] + need[k] \/ due'[q] >= due'[p] + need[k]
      <3>1. CASE p # r /\ q # r
        BY <2>4, <3>1, <1>1, <1>2 DEF BucketInv, LargeInv
      <3>2. ASSUME NEW x \in DebtAt(k)
            PROVE  due'[r] >= due'[x] + need[k]
        BY <1>1, <1>2, <1>3, <1>4, <1>5 DEF BucketInv, LargeInv
      <3> QED
        BY <2>4, <3>1, <3>2, <1>1
    <2> QED
      BY <2>1, <2>2, <2>3, <2>4, <1>1, <1>2 DEF LargeInv
  <1>9. RateAt(k)'
    BY <1>1 DEF BucketInv, RateAt, Count, Burst
  <1> QED
    BY <1>6, <1>7, <1>8, <1>9 DEF BucketInv

LEMMA TakeStep ==
    ASSUME TypeInv, OnTime, NEW k \in Limiters, NEW r \in Requests, BucketInv(k),
           AcquireTake(r, k)
    PROVE  BucketInv(k)'
  <1> DEFINE n == Count(k)
             r0 == Refilled(k)
             d == need[k]
  <1>1. /\ r0 \in Int /\ r0 <= Second /\ r0 >= d /\ d <= Second /\ d \in Nat
        /\ last_update[k] # Never => r0 <= tokens[k] + now - last_update[k]
    BY RefilledBound DEF BucketInv, AcquireTake, TypeInv
  <1>2. /\ need' = need /\ now' = now
        /\ tokens'[k] = r0 - d /\ last_update'[k] = now
        /\ grants'[k] = Append(grants[k], now)
    BY DEF AcquireTake, Set, Through, TypeInv, config
  <1>3. DebtAt(k)' = DebtAt(k) /\ DebtAt(k) = {}
    <2>1. pc[r] = "acquire" /\ pc'[r] # "debt" /\ pc' = [pc EXCEPT ![r] = pc'[r]]
          /\ \A q \in Requests : q # r => layer'[q] = layer[q]
      BY DEF AcquireTake, Through, TypeInv
    <2>2. DebtAt(k) = {}
      BY <1>1 DEF BucketInv, SmallInv
    <2> QED
      BY <2>1, <2>2 DEF DebtAt, TypeInv
  <1>4. /\ n \in Nat /\ Count(k)' = n + 1 /\ grants'[k][n + 1] = now
        /\ \A i \in 1..n : grants'[k][i] = grants[k][i] /\ grants[k][i] \in Int
        /\ now \in Nat /\ last_update[k] \in Int /\ tokens[k] \in Int
    BY <1>2, AppendProperties DEF Count, TypeInv
  <1>5. n > 0 => last_update[k] # Never
    BY DEF BucketInv, Unused
  <1>6. \A i \in 1..n + 1 :
           (r0 - d) + ((n + 1) - i + 1) * d <= Second + now - grants'[k][i]
    <2>1. ASSUME NEW i \in 1..n
          PROVE  (r0 - d) + ((n + 1) - i + 1) * d <= Second + now - grants[k][i]
      <3>1. tokens[k] + (n - i + 1) * d <= Second + last_update[k] - grants[k][i]
        BY <1>1 DEF BucketInv, SmallInv
      <3>2. r0 <= tokens[k] + now - last_update[k]
        BY <1>1, <1>4, <1>5
      <3> HIDE DEF n, r0, d
      <3> QED
        BY <3>1, <3>2, <1>1, <1>4, TakeOne, RewardAssumption
    <2>2. ((n + 1) - (n + 1) + 1) * d = d
      BY <1>1, <1>4
    <2> HIDE DEF n, r0, d
    <2>3. ASSUME NEW i \in 1..n + 1
          PROVE  (r0 - d) + ((n + 1) - i + 1) * d <= Second + now - grants'[k][i]
      <3>1. CASE i \in 1..n
        BY <3>1, <2>1, <1>4
      <3>2. CASE i = n + 1
        BY <3>2, <2>2, <1>1, <1>4, RewardAssumption
      <3> QED
        BY <3>1, <3>2, <1>4
    <2> QED
      BY <2>3
  <1>7. Unused(k)'
    BY <1>1, <1>2, <1>4, RewardAssumption DEF Unused, Never
  <1>8. SmallInv(k)'
    <2>1. Count(k)' = n + 1 /\ need'[k] = d /\ r0 - d >= 0
      BY <1>1, <1>2, <1>4
    <2> HIDE DEF n, r0, d
    <2>2. \A i \in 1..Count(k)' :
             tokens'[k] + (Count(k)' - i + 1) * need'[k] <= Second + last_update'[k] - grants'[k][i]
      BY <1>2, <1>6, <2>1
    <2> QED
      BY <2>1, <2>2, <1>2, <1>3 DEF SmallInv
  <1>9. LargeInv(k)'
    BY <1>1, <1>2, RewardAssumption DEF LargeInv
  <1>10. RateAt(k)'
    <2>1. Burst(k)' = Second /\ Burst(k) = Second
      BY <1>1, <1>2, RewardAssumption DEF Burst
    <2>2. ASSUME NEW i \in 1..n + 1, NEW j \in 1..n + 1, i <= j
          PROVE  (j - i + 1) * d <= Second + grants'[k][j] - grants'[k][i]
      <3>1. CASE j \in 1..n
        <4>1. (j - i + 1) * d <= Burst(k) + grants[k][j] - grants[k][i]
          BY <2>2, <3>1, <1>4 DEF BucketInv, RateAt
        <4> QED
          BY <2>1, <2>2, <3>1, <4>1, <1>4
      <3>2. CASE j = n + 1
        <4>1. (j - i + 1) * d \in Int
          BY <1>1, <1>4
        <4> HIDE DEF n, r0, d
        <4>2. (r0 - d) + (j - i + 1) * d <= Second + grants'[k][j] - grants'[k][i]
          BY <3>2, <1>4, <1>6
        <4>3. grants'[k][j] \in Int /\ grants'[k][i] \in Int
          BY <3>2, <1>4
        <4> DEFINE c == (j - i + 1) * d
        <4> HIDE DEF c
        <4>4. c \in Int /\ (r0 - d) + c <= Second + grants'[k][j] - grants'[k][i]
          BY <4>1, <4>2 DEF c
        <4>5. c <= Second + grants'[k][j] - grants'[k][i]
          BY <4>3, <4>4, <1>1, RewardAssumption
        <4> QED
          BY <4>5 DEF c
      <3> QED
        BY <3>1, <3>2, <1>4
    <2> QED
      BY <2>1, <2>2, <1>2, <1>4 DEF RateAt
  <1> QED
    BY <1>7, <1>8, <1>9, <1>10 DEF BucketInv

LEMMA WaitStep ==
    ASSUME TypeInv, OnTime, NEW k \in Limiters, NEW r \in Requests, BucketInv(k),
           AcquireWait(r, k)
    PROVE  BucketInv(k)'
  <1> DEFINE n == Count(k)
             r0 == Refilled(k)
             d == need[k]
  <1>1. /\ r0 \in Int /\ r0 <= Second /\ d <= Second /\ d \in Nat /\ (tokens[k] >= 0 => r0 >= 0)
        /\ last_update[k] # Never => r0 <= tokens[k] + now - last_update[k]
    BY RefilledBound DEF BucketInv, AcquireWait, TypeInv
  <1>2. /\ need' = need /\ now' = now /\ grants' = grants
        /\ tokens'[k] = r0 /\ last_update'[k] = now
    BY DEF AcquireWait, Set, Sleep, TypeInv, config
  <1>3. DebtAt(k)' = DebtAt(k) /\ DebtAt(k) = {} /\ tokens[k] >= 0
    <2>1. pc[r] = "acquire" /\ pc' = [pc EXCEPT ![r] = "sleep"] /\ layer' = layer
      BY DEF AcquireWait, Sleep
    <2>2. DebtAt(k) = {} /\ tokens[k] >= 0
      BY <1>1 DEF BucketInv, SmallInv
    <2> QED
      BY <2>1, <2>2 DEF DebtAt, TypeInv
  <1>4. /\ n \in Nat /\ Count(k)' = n /\ \A i \in 1..n : grants[k][i] \in Int
        /\ now \in Nat /\ last_update[k] \in Int /\ tokens[k] \in Int
    BY <1>2 DEF Count, TypeInv
  <1>5. n > 0 => last_update[k] # Never
    BY DEF BucketInv, Unused
  <1>6. ASSUME NEW i \in 1..n
        PROVE  r0 + (n - i + 1) * d <= Second + now - grants[k][i]
    <2>1. tokens[k] + (n - i + 1) * d <= Second + last_update[k] - grants[k][i]
      BY <1>1 DEF BucketInv, SmallInv
    <2>2. r0 <= tokens[k] + now - last_update[k]
      BY <1>1, <1>4, <1>5
    <2> HIDE DEF n, r0, d
    <2> QED
      BY <2>1, <2>2, <1>1, <1>4, TakeOne, RewardAssumption
  <1>7. Unused(k)'
    BY <1>1, <1>2, <1>4, RewardAssumption DEF Unused, Never
  <1>8. SmallInv(k)'
    BY <1>1, <1>2, <1>3, <1>4, <1>6 DEF SmallInv
  <1>9. LargeInv(k)'
    BY <1>1, <1>2, RewardAssumption DEF LargeInv
  <1>10. RateAt(k)'
    BY <1>2 DEF BucketInv, RateAt, Count, Burst
  <1> QED
    BY <1>7, <1>8, <1>9, <1>10 DEF BucketInv

LEMMA PaidStep ==
    ASSUME TypeInv, OnTime, NEW k \in Limiters, NEW r \in Requests, BucketInv(k),
           layer[r] = k, DebtPaid(r)
    PROVE  BucketInv(k)'
  <1> DEFINE n == Count(k)
             d == need[k]
  <1>1. /\ r \in DebtAt(k) /\ d \in Nat /\ d > Second /\ d > 0
        /\ last_update[k] # Never
    BY RewardAssumption DEF DebtPaid, DebtAt, BucketInv, SmallInv, Unused, TypeInv
  <1>2. /\ need' = need /\ now' = now /\ tokens' = tokens /\ last_update' = last_update
        /\ due' = due /\ grants'[k] = Append(grants[k], now)
    BY DEF DebtPaid, Through, TypeInv, config
  <1>3. due[r] = now
    BY DEF DebtPaid, OnTime, Waits, TypeInv
  <1>4. DebtAt(k)' = DebtAt(k) \ {r}
    <2>1. pc'[r] # "debt" /\ \A q \in Requests : q # r => pc'[q] = pc[q] /\ layer'[q] = layer[q]
      BY DEF DebtPaid, Through, TypeInv
    <2> QED
      BY <2>1 DEF DebtAt
  <1>5. /\ n \in Nat /\ Count(k)' = n + 1 /\ grants'[k][n + 1] = now
        /\ \A i \in 1..n : grants'[k][i] = grants[k][i] /\ grants[k][i] \in Int
        /\ now \in Nat /\ last_update[k] \in Int /\ tokens[k] \in Int
        /\ \A q \in Requests : due[q] \in Int
    BY <1>2, AppendProperties DEF Count, TypeInv
  <1>6. n > 0 => grants[k][n] + d <= now
    BY <1>1, <1>3 DEF BucketInv, LargeInv
  <1>7. ASSUME NEW q \in DebtAt(k), q # r
        PROVE  due[q] >= now + d
    <2>1. due[r] >= due[q] + d \/ due[q] >= due[r] + d
      BY <1>1, <1>7 DEF BucketInv, LargeInv
    <2>2. due[q] >= now
      BY DEF OnTime, DebtAt, Waits
    <2> QED
      BY <2>1, <2>2, <1>1, <1>3, <1>5 DEF DebtAt
  <1>8. Unused(k)'
    BY <1>1, <1>2 DEF BucketInv, Unused
  <1>9. SmallInv(k)'
    BY <1>1, <1>2, RewardAssumption DEF SmallInv
  <1>10. LargeInv(k)'
    <2>1. PaidOff(k)' = PaidOff(k)
      BY <1>2 DEF PaidOff
    <2>2. now <= PaidOff(k)
      BY <1>1, <1>3 DEF BucketInv, LargeInv
    <2>3. \A p, q \in DebtAt(k) :
             /\ due[p] <= PaidOff(k)
             /\ p # q => due[p] >= due[q] + d \/ due[q] >= due[p] + d
      BY <1>1 DEF BucketInv, LargeInv
    <2> QED
      BY <2>1, <2>2, <2>3, <1>1, <1>2, <1>4, <1>5, <1>7 DEF LargeInv
  <1>11. RateAt(k)'
    <2>1. Burst(k)' = d /\ Burst(k) = d
      BY <1>1, <1>2 DEF Burst
    <2>2. ASSUME NEW i \in 1..n + 1, NEW j \in 1..n + 1, i <= j
          PROVE  (j - i + 1) * d <= d + grants'[k][j] - grants'[k][i]
      <3>1. CASE j \in 1..n
        <4>1. (j - i + 1) * d <= Burst(k) + grants[k][j] - grants[k][i]
          BY <2>2, <3>1, <1>5 DEF BucketInv, RateAt
        <4> QED
          BY <2>1, <2>2, <3>1, <4>1, <1>5
      <3>2. CASE j = n + 1 /\ i \in 1..n
        <4>1. (n - i + 1) * d <= d + grants[k][n] - grants[k][i]
          BY <2>1, <3>2, <1>5 DEF BucketInv, RateAt
        <4> HIDE DEF n, d
        <4>2. ((n + 1) - i + 1) * d <= d + now - grants[k][i]
          BY <3>2, <4>1, <1>1, <1>5, <1>6, PayOne
        <4> QED
          BY <3>2, <4>2, <1>5
      <3>3. CASE j = n + 1 /\ i = n + 1
        <4>0. j - i + 1 = 1
          BY <3>3, <1>5
        <4>1. (j - i + 1) * d = d
          BY <4>0, <1>1
        <4> QED
          BY <3>3, <4>1, <1>1, <1>5
      <3> QED
        BY <3>1, <3>2, <3>3, <2>2, <1>5
    <2> QED
      BY <2>1, <2>2, <1>2, <1>5 DEF RateAt
  <1> QED
    BY <1>8, <1>9, <1>10, <1>11 DEF BucketInv

-----------------------------------------------------------------------------
(* The invariants                                                          *)

LEMMA RefilledType ==
    ASSUME TypeInv, NEW k \in Limiters
    PROVE  Refilled(k) \in Int /\ Refilled(k) <= Second
  BY RewardAssumption DEF TypeInv, Refilled, Elapsed, Least

LEMMA TypeStep ==
    ASSUME TypeInv, OnTime, [Next]_vars
    PROVE  TypeInv' /\ OnTime'
  <1> USE RewardAssumption DEF TypeInv, OnTime, Waits, PCs
  <1>1. ASSUME NEW r \in Requests, NEW k \in Limiters, AcquireLarge(r, k)
        PROVE  TypeInv' /\ OnTime'
    <2> DEFINE r0 == Refilled(k)
    <2>1. r0 \in Int /\ r0 <= Second
      BY RefilledType
    <2>2. /\ need[k] > Second /\ need[k] \in Nat
          /\ tokens' = [tokens EXCEPT ![k] = r0 - need[k]]
          /\ last_update' = [last_update EXCEPT ![k] = now]
          /\ pc' = [pc EXCEPT ![r] = "debt"]
          /\ due' = [due EXCEPT ![r] = now + (need[k] - r0)]
          /\ UNCHANGED <<is_async_reward_score, need, now, grants, layer>>
      BY <1>1 DEF AcquireLarge, Set, Sleep, Debt, config
    <2> DEFINE left == r0 - need[k]
               end  == now + (need[k] - r0)
    <2> HIDE DEF r0
    <2>a. left \in Int /\ end \in Int /\ end >= now
      BY <2>1, <2>2
    <2> HIDE DEF left, end
    <2>b. tokens' = [tokens EXCEPT ![k] = left] /\ due' = [due EXCEPT ![r] = end]
      BY <2>2 DEF left, end
    <2>3. TypeInv'
      BY <2>a, <2>b, <2>2
    <2>4. OnTime'
      BY <2>a, <2>b, <2>2
    <2> QED
      BY <2>3, <2>4
  <1>2. ASSUME NEW r \in Requests, NEW k \in Limiters, AcquireTake(r, k)
        PROVE  TypeInv' /\ OnTime'
    <2>1. Refilled(k) \in Int
      BY RefilledType
    <2>2. Append(grants[k], now) \in Seq(Nat)
      BY AppendProperties
    <2>3. /\ tokens' \in [Limiters -> Int] /\ last_update' \in [Limiters -> Int]
          /\ UNCHANGED <<is_async_reward_score, need, now, due>>
      BY <1>2, <2>1 DEF AcquireTake, Set, config
    <2>4. grants' \in [Limiters -> Seq(Nat)]
      BY <1>2, <2>2 DEF AcquireTake, Through
    <2>5. /\ pc' \in [Requests -> PCs] /\ layer' \in [Requests -> Limiters]
          /\ \A q \in Requests : pc'[q] = pc[q] \/ ~Waits(q)'
      BY <1>2 DEF AcquireTake, Through, Limiters
    <2>6. OnTime'
      BY <2>3, <2>5
    <2> QED
      BY <2>3, <2>4, <2>5, <2>6
  <1>3. ASSUME NEW r \in Requests, NEW k \in Limiters, AcquireWait(r, k)
        PROVE  TypeInv' /\ OnTime'
    <2>1. Refilled(k) \in Int
      BY RefilledType
    <2> QED
      BY <1>3, <2>1 DEF AcquireWait, Set, Sleep, config
  <1>4. ASSUME NEW r \in Requests, Wake(r)
        PROVE  TypeInv' /\ OnTime'
    BY <1>4 DEF Wake, config, bucketVars
  <1>5. ASSUME NEW r \in Requests, DebtPaid(r)
        PROVE  TypeInv' /\ OnTime'
    <2>1. layer[r] \in Limiters /\ Append(grants[layer[r]], now) \in Seq(Nat)
      BY AppendProperties
    <2> QED
      BY <1>5, <2>1 DEF DebtPaid, Through, config, Limiters
  <1>6. ASSUME NEW r \in Requests, Enter(r)
        PROVE  TypeInv' /\ OnTime'
    BY <1>6 DEF Enter, Sleep, config, bucketVars
  <1>7. ASSUME NEW r \in Requests, TimesOut(r)
        PROVE  TypeInv' /\ OnTime'
    BY <1>7 DEF TimesOut, Leave, config, bucketVars
  <1>8. ASSUME NEW r \in Requests, RouterNext(r)
        PROVE  TypeInv' /\ OnTime'
    BY <1>8 DEF RouterNext, SelectWorker, RouterAnswers, RouterRetries, RouterRaises,
                Answer, Leave, config, bucketVars, flowVars
  <1>9. CASE Tick
    BY <1>9 DEF Tick, config, bucketVars, flowVars
  <1>10. CASE UNCHANGED vars
    BY <1>10 DEF vars, config, bucketVars, flowVars
  <1> QED
    BY <1>1, <1>2, <1>3, <1>4, <1>5, <1>6, <1>7, <1>8, <1>9, <1>10
    DEF Next, BucketNext, ManagerNext

(* Steps that neither take from a bucket nor pay a debt.                   *)
LEMMA BucketsLeft ==
    ASSUME TypeInv, TypeInv', now' >= now, NEW k \in Limiters, BucketInv(k),
           need' = need, UNCHANGED bucketVars, layer' = layer,
           \A r \in Requests : (pc[r] = "debt") = (pc'[r] = "debt"),
           \A r \in Requests : pc[r] = "debt" => due'[r] = due[r]
    PROVE  BucketInv(k)'
  <1>1. DebtAt(k)' = DebtAt(k)
    BY DEF DebtAt
  <1> QED
    BY <1>1, BucketFrame DEF TypeInv, bucketVars, DebtAt

LEMMA BucketStep ==
    ASSUME TypeInv, OnTime, TypeInv', NEW k \in Limiters, BucketInv(k), [Next]_vars
    PROVE  BucketInv(k)'
  <1>1. ASSUME NEW r \in Requests, NEW j \in Limiters,
               AcquireLarge(r, j) \/ AcquireTake(r, j) \/ AcquireWait(r, j)
        PROVE  BucketInv(k)'
    <2>1. CASE j = k
      BY <1>1, <2>1, LargeStep, TakeStep, WaitStep
    <2>2. CASE j # k
      <3>1. /\ tokens'[k] = tokens[k] /\ last_update'[k] = last_update[k]
            /\ grants'[k] = grants[k] /\ need' = need /\ now' = now
        <4>1. /\ need' = need /\ now' = now /\ grants'[k] = grants[k]
          BY <1>1, <2>2 DEF AcquireLarge, AcquireTake, AcquireWait, Through, config, TypeInv
        <4>2. \E n : Set(j, n)
          BY <1>1 DEF AcquireLarge, AcquireTake, AcquireWait
        <4> QED
          BY <4>1, <4>2, <2>2 DEF Set, TypeInv
      <3>2. DebtAt(k)' = DebtAt(k)
        <4>1. layer[r] # k /\ (layer'[r] = k => pc'[r] # "debt")
          <5>1. CASE AcquireTake(r, j)
            BY <5>1, <2>2 DEF AcquireTake, Through, TypeInv
          <5>2. CASE AcquireLarge(r, j) \/ AcquireWait(r, j)
            BY <5>2, <2>2 DEF AcquireLarge, AcquireWait, TypeInv
          <5> QED
            BY <1>1, <5>1, <5>2
        <4>2. \A q \in Requests : q # r => pc'[q] = pc[q] /\ layer'[q] = layer[q]
          <5>1. CASE AcquireTake(r, j)
            BY <5>1 DEF AcquireTake, Through, TypeInv
          <5>2. CASE AcquireLarge(r, j) \/ AcquireWait(r, j)
            BY <5>2 DEF AcquireLarge, AcquireWait, Sleep, TypeInv
          <5> QED
            BY <1>1, <5>1, <5>2
        <4> QED
          BY <4>1, <4>2 DEF DebtAt
      <3>3. \A q \in DebtAt(k) : due'[q] = due[q]
        BY <1>1, <2>2 DEF AcquireLarge, AcquireTake, AcquireWait, Sleep, DebtAt, TypeInv
      <3> QED
        BY <3>1, <3>2, <3>3, BucketFrame DEF TypeInv
    <2> QED
      BY <2>1, <2>2
  <1>2. ASSUME NEW r \in Requests, DebtPaid(r)
        PROVE  BucketInv(k)'
    <2>1. CASE layer[r] = k
      BY <1>2, <2>1, PaidStep
    <2>2. CASE layer[r] # k
      <3>1. /\ tokens' = tokens /\ last_update' = last_update /\ due' = due
            /\ grants'[k] = grants[k] /\ need' = need /\ now' = now
        BY <1>2, <2>2 DEF DebtPaid, Through, config, TypeInv
      <3>2. DebtAt(k)' = DebtAt(k)
        <4>1. pc'[r] # "debt"
              /\ \A q \in Requests : q # r => pc'[q] = pc[q] /\ layer'[q] = layer[q]
          BY <1>2 DEF DebtPaid, Through, TypeInv
        <4> QED
          BY <4>1, <2>2 DEF DebtAt
      <3> QED
        BY <3>1, <3>2, BucketFrame DEF TypeInv
    <2> QED
      BY <2>1, <2>2
  <1>3. ASSUME NEW r \in Requests, Wake(r) \/ Enter(r) \/ TimesOut(r) \/ RouterNext(r)
        PROVE  BucketInv(k)'
    <2>1. /\ now' = now /\ need' = need /\ UNCHANGED bucketVars /\ layer' = layer
          /\ \A q \in Requests : (pc[q] = "debt") = (pc'[q] = "debt")
          /\ \A q \in Requests : pc[q] = "debt" => due'[q] = due[q]
      BY <1>3 DEF Wake, Enter, TimesOut, RouterNext, SelectWorker, RouterAnswers, RouterRetries,
                  RouterRaises, Answer, Leave, Sleep, config, flowVars, TypeInv
    <2>2. now' >= now
      BY <2>1 DEF TypeInv
    <2> QED
      BY <2>1, <2>2, BucketsLeft
  <1>4. CASE Tick
    <2>1. /\ now' >= now /\ need' = need /\ UNCHANGED bucketVars /\ layer' = layer
          /\ pc' = pc /\ due' = due
      BY <1>4 DEF Tick, config, flowVars, TypeInv
    <2> QED
      BY <2>1, BucketsLeft
  <1>5. CASE UNCHANGED vars
    <2>1. /\ now' >= now /\ need' = need /\ UNCHANGED bucketVars /\ layer' = layer
          /\ pc' = pc /\ due' = due
      BY <1>5 DEF vars, config, flowVars, TypeInv
    <2> QED
      BY <2>1, BucketsLeft
  <1> QED
    BY <1>1, <1>2, <1>3, <1>4, <1>5 DEF Next, BucketNext, ManagerNext

LEMMA InitialTypes ==
    ASSUME Init
    PROVE  TypeInv /\ OnTime
  <1>1. need \in [Limiters -> Nat \ {0}]
    BY RewardAssumption DEF Init
  <1> QED
    BY <1>1, RewardAssumption DEF Init, TypeInv, OnTime, Waits, PCs, Limiters, Never

(* Whatever the requests need, and however they sleep and come back, a     *)
(* bucket never lets more through in any span of time than it holds and    *)
(* what is refilled in the span (AsyncTokenBucket.acquire).                *)
THEOREM RateIsBounded == Spec => []RateHolds
  <1>1. Init => RateInv
    <2> SUFFICES ASSUME Init PROVE RateInv
      OBVIOUS
    <2>1. TypeInv /\ OnTime
      BY InitialTypes
    <2>2. ASSUME NEW k \in Limiters
          PROVE  BucketInv(k)
      <3>1. /\ tokens[k] = Second /\ last_update[k] = -1 /\ now = 0 /\ Count(k) = 0
            /\ DebtAt(k) = {}
        BY DEF Init, Count, DebtAt, Never
      <3> QED
        BY <3>1, RewardAssumption DEF BucketInv, Unused, SmallInv, LargeInv, RateAt
    <2> QED
      BY <2>1, <2>2 DEF RateInv
  <1>2. RateInv /\ [Next]_vars => RateInv'
    BY TypeStep, BucketStep DEF RateInv
  <1>3. RateInv => RateHolds
    BY DEF RateInv, BucketInv, RateAt, RateHolds, Count
  <1> QED
    BY <1>1, <1>2, <1>3, PTL DEF Spec

-----------------------------------------------------------------------------
(* Calls                                                                   *)

LEMMA RequestsFinite ==
    ASSUME NEW T \in SUBSET Requests
    PROVE  IsFiniteSet(T) /\ Cardinality(T) \in Nat
  BY RewardAssumption, FS_Subset, FS_CardinalityType

LEMMA CallStep ==
    ASSUME TypeInv, CallInv, [Next]_vars
    PROVE  CallInv'
  <1> USE DEF CallInv
  <1>0. IsFiniteSet(semaphore) /\ Cardinality(semaphore) \in Nat
    BY RequestsFinite
  <1>1. ASSUME NEW r \in Requests, Enter(r)
        PROVE  CallInv'
    <2>0. r \notin semaphore /\ semaphore' = semaphore \cup {r}
          /\ Cardinality(semaphore) < MaxConcurrent
      BY <1>1 DEF Enter
    <2>1. Cardinality(semaphore \cup {r}) = Cardinality(semaphore) + 1
      BY <1>0, <2>0, FS_AddElement
    <2>2. Cardinality(semaphore') <= MaxConcurrent
      BY <1>0, <2>0, <2>1, RewardAssumption
    <2>3. semaphore' = {q \in Requests : pc'[q] = "call"}
      BY <1>1 DEF Enter, Sleep, TypeInv
    <2> QED
      BY <1>1, <2>2, <2>3 DEF Enter, config
  <1>2. ASSUME NEW r \in Requests, TimesOut(r)
        PROVE  CallInv'
    <2>1. Cardinality(semaphore \ {r}) <= Cardinality(semaphore)
      BY <1>0, FS_RemoveElement
    <2>2. Cardinality(semaphore') <= MaxConcurrent
      BY <1>0, <1>2, <2>1, RequestsFinite, RewardAssumption DEF TimesOut, Exit
    <2>3. semaphore' = {q \in Requests : pc'[q] = "call"}
      BY <1>2 DEF TimesOut, Exit, Leave, TypeInv
    <2> QED
      BY <1>2, <2>2, <2>3 DEF TimesOut, Exit, Cancel, config
  <1>3. ASSUME NEW r \in Requests, NEW what, Answer(r, what), UNCHANGED config
        PROVE  CallInv'
    <2>1. CASE pc[r] = "call"
      <3>1. semaphore' = semaphore \ {r} /\ running' = running \ {r}
        BY <1>3, <2>1 DEF Answer
      <3>2. Cardinality(semaphore') <= MaxConcurrent
        <4>1. Cardinality(semaphore \ {r}) <= Cardinality(semaphore)
          BY <1>0, FS_RemoveElement
        <4> QED
          BY <1>0, <3>1, <4>1, RequestsFinite, RewardAssumption
      <3>3. semaphore' = {q \in Requests : pc'[q] = "call"}
        BY <1>3, <2>1, <3>1 DEF Answer, Leave, TypeInv
      <3> QED
        BY <1>3, <3>1, <3>2, <3>3 DEF config
    <2>2. CASE pc[r] # "call"
      BY <1>3, <2>2 DEF Answer, config
    <2> QED
      BY <2>1, <2>2
  <1>4. ASSUME NEW r \in Requests, RouterAnswers(r) \/ RouterRaises(r)
        PROVE  CallInv'
    BY <1>3, <1>4 DEF RouterAnswers, RouterRaises, config
  <1>5. ASSUME UNCHANGED <<config, semaphore, running>>,
               \A q \in Requests : (pc[q] = "call") = (pc'[q] = "call")
        PROVE  CallInv'
    BY <1>5 DEF config
  <1>6. ASSUME NEW r \in Requests, BucketNext(r)
        PROVE  CallInv'
    <2>1. UNCHANGED <<config, semaphore, running>>
      BY <1>6 DEF BucketNext, AcquireLarge, AcquireTake, AcquireWait, Wake, DebtPaid
    <2>2. /\ pc[r] # "call" /\ pc'[r] # "call"
          /\ \A q \in Requests : q # r => pc'[q] = pc[q]
      BY <1>6 DEF BucketNext, AcquireLarge, AcquireTake, AcquireWait, Wake, DebtPaid, Through,
                  Sleep, TypeInv
    <2> QED
      BY <1>5, <2>1, <2>2
  <1>7. ASSUME NEW r \in Requests, SelectWorker(r) \/ RouterRetries(r)
        PROVE  CallInv'
    BY <1>5, <1>7 DEF SelectWorker, RouterRetries, flowVars
  <1>8. CASE Tick \/ UNCHANGED vars
    BY <1>5, <1>8 DEF Tick, vars, flowVars
  <1> QED
    BY <1>1, <1>2, <1>4, <1>6, <1>7, <1>8 DEF Next, ManagerNext, RouterNext

(* No more than max_concurrent asynchronous calls run at a time, whatever  *)
(* times out and whenever the router answers                               *)
(* (RateLimitedRewardManager.run_single).                                  *)
THEOREM CallsAreBounded == Spec => []CallsBounded
  <1>1. Init => TypeInv /\ OnTime /\ CallInv
    <2> SUFFICES ASSUME Init PROVE TypeInv /\ OnTime /\ CallInv
      OBVIOUS
    <2>1. TypeInv /\ OnTime
      BY InitialTypes
    <2>2. CallInv
      BY FS_EmptySet, RewardAssumption DEF Init, CallInv
    <2> QED
      BY <2>1, <2>2
  <1>2. TypeInv /\ OnTime /\ CallInv /\ [Next]_vars => (TypeInv /\ OnTime /\ CallInv)'
    BY TypeStep, CallStep
  <1>3. CallInv => CallsBounded
    <2> SUFFICES ASSUME CallInv, is_async_reward_score
                 PROVE  Cardinality(running) <= MaxConcurrent
      BY DEF CallsBounded
    <2>1. IsFiniteSet(semaphore) /\ Cardinality(semaphore) \in Nat /\ Cardinality(running) \in Nat
      BY RequestsFinite DEF CallInv
    <2>2. Cardinality(running) <= Cardinality(semaphore)
      BY <2>1, FS_Subset DEF CallInv
    <2> QED
      BY <2>1, <2>2, RewardAssumption DEF CallInv
  <1> QED
    BY <1>1, <1>2, <1>3, PTL DEF Spec

-----------------------------------------------------------------------------
(* The router                                                              *)

(* A set of numbers that is not empty has a smallest one.                  *)
LEMMA SmallestExists ==
    ASSUME NEW T \in SUBSET Nat, T # {}
    PROVE  \E x \in T : \A y \in T : x <= y
  <1>1. PICK t \in T : TRUE
    OBVIOUS
  <1> DEFINE S == 0..t
             U == {0..x : x \in {z \in T : z <= t}}
  <1>2. IsFiniteSet(S)
    BY FS_Interval, <1>1
  <1>3. IsWellFoundedOn(StrictSubsetOrdering(S), FiniteSubsetsOf(S))
    BY FS_StrictSubsetOrderingWellFounded
  <1>4. U \subseteq FiniteSubsetsOf(S) /\ U # {}
    BY <1>1, <1>2, FS_Subset DEF FiniteSubsetsOf
  <1>5. PICK m \in U : \A y \in U : <<y, m>> \notin StrictSubsetOrdering(S)
    BY <1>3, <1>4, WFMin
  <1>6. PICK x \in T : x <= t /\ m = 0..x
    BY <1>5
  <1>7. ASSUME NEW y \in T, y < x
        PROVE  FALSE
    <2>1. 0..y \in U
      BY <1>1, <1>6, <1>7
    <2>2. 0..y \subseteq 0..x /\ 0..y # 0..x
      <3>1. x \in 0..x /\ x \notin 0..y
        BY <1>7
      <3> QED
        BY <1>7, <3>1
    <2>3. 0..y \in SUBSET S /\ 0..x \in SUBSET S
      BY <1>1, <1>6, <1>7
    <2> QED
      BY <1>5, <1>6, <2>1, <2>2, <2>3 DEF StrictSubsetOrdering
  <1> QED
    BY <1>1, <1>7

(* There is a least loaded worker.                                         *)
LEMMA LeastLoadedExists ==
    ASSUME RouteInv
    PROVE  LeastLoaded \in Urls
  <1> DEFINE counts == {request_counts[u] : u \in Urls}
  <1>1. counts \in SUBSET Nat /\ counts # {} /\ 1 \in Urls /\ Urls \subseteq Nat
    BY RewardAssumption DEF RouteInv, Urls
  <1>2. PICK c \in counts : \A d \in counts : c <= d
    BY <1>1, SmallestExists
  <1> DEFINE least == {u \in Urls : request_counts[u] = c}
  <1>3. PICK u \in least : \A v \in least : u <= v
    BY <1>1, SmallestExists
  <1>4. \A v \in Urls : /\ request_counts[u] <= request_counts[v]
                        /\ v < u => request_counts[u] < request_counts[v]
    <2> SUFFICES ASSUME NEW v \in Urls
                 PROVE  /\ request_counts[u] <= request_counts[v]
                        /\ v < u => request_counts[u] < request_counts[v]
      OBVIOUS
    <2>1. c <= request_counts[v] /\ request_counts[u] = c /\ c \in Nat /\ request_counts[v] \in Nat
      BY <1>1, <1>2, <1>3
    <2>2. request_counts[v] = c => u <= v
      BY <1>3
    <2>3. u \in Nat /\ v \in Nat
      BY <1>1, <1>3
    <2> QED
      BY <2>1, <2>2, <2>3
  <1> QED
    BY <1>3, <1>4 DEF LeastLoaded

BusyAt(u) == {r \in Requests : AtWorker(r) /\ route[r].url = u}

LEMMA CountStep ==
    ASSUME RouteInv, CountsCover, [Next]_vars
    PROVE  RouteInv' /\ CountsCover'
  <1> USE DEF RouteInv
  <1>0. \A u \in Urls : Busy(u) = Cardinality(BusyAt(u)) /\ Busy(u) \in Nat
                        /\ IsFiniteSet(BusyAt(u))
    BY RequestsFinite DEF Busy, BusyAt
  <1>a. \A u \in Urls : Busy(u)' = Cardinality(BusyAt(u)')
    BY DEF Busy, BusyAt
  <1>1. ASSUME NEW r \in Requests, SelectWorker(r)
        PROVE  RouteInv' /\ CountsCover'
    <2> DEFINE w == LeastLoaded
    <2>1. /\ w \in Urls /\ ~AtWorker(r)
          /\ route' = [route EXCEPT ![r] = [url |-> w, attempt |-> 1]]
          /\ request_counts' = [request_counts EXCEPT ![w] = @ + 1]
      BY <1>1, LeastLoadedExists DEF SelectWorker, AtWorker, NoRoute
    <2> HIDE DEF w
    <2>2. RouteInv'
      BY <2>1
    <2>3. ASSUME NEW u \in Urls
          PROVE  request_counts'[u] >= Busy(u)'
      <3>1. CASE u = w
        <4>1. BusyAt(u)' = BusyAt(u) \cup {r} /\ r \notin BusyAt(u)
          BY <2>1, <3>1 DEF BusyAt, AtWorker
        <4>2. Cardinality(BusyAt(u)') = Cardinality(BusyAt(u)) + 1
          BY <1>0, <4>1, FS_AddElement
        <4>3. request_counts'[u] = request_counts[u] + 1 /\ request_counts[u] \in Nat
          BY <2>1, <3>1
        <4>4. request_counts[u] >= Cardinality(BusyAt(u)) /\ Cardinality(BusyAt(u)) \in Nat
          BY <1>0 DEF CountsCover
        <4> QED
          BY <1>a, <4>2, <4>3, <4>4
      <3>2. CASE u # w
        <4>1. BusyAt(u)' = BusyAt(u)
          BY <2>1, <3>2 DEF BusyAt, AtWorker
        <4> QED
          BY <1>0, <1>a, <2>1, <3>2, <4>1 DEF CountsCover
      <3> QED
        BY <3>1, <3>2
    <2> QED
      BY <2>2, <2>3 DEF CountsCover
  <1>2. ASSUME NEW r \in Requests, RouterAnswers(r)
        PROVE  RouteInv' /\ CountsCover'
    <2> DEFINE w == route[r].url
    <2>1. /\ AtWorker(r) /\ route' = [route EXCEPT ![r].attempt = -1]
          /\ request_counts' = [request_counts EXCEPT ![w] = IF @ > 0 THEN @ - 1 ELSE 0]
      BY <1>2 DEF RouterAnswers, EndRoute, Release
    <2>2. RouteInv'
      <3>1. route' \in [Requests -> [url : Urls \cup {0}, attempt : Int]]
        BY <2>1
      <3>2. request_counts' \in [Urls -> Nat]
        <4>1. CASE w \in Urls
          <5>1. (IF request_counts[w] > 0 THEN request_counts[w] - 1 ELSE 0) \in Nat
            BY <4>1
          <5> QED
            BY <2>1, <5>1
        <4>2. CASE w \notin Urls
          BY <2>1, <4>2
        <4> QED
          BY <4>1, <4>2
      <3> QED
        BY <3>1, <3>2
    <2>3. ASSUME NEW u \in Urls
          PROVE  request_counts'[u] >= Busy(u)'
      <3>1. CASE u = w
        <4>1. BusyAt(u)' = BusyAt(u) \ {r} /\ r \in BusyAt(u)
          BY <2>1, <3>1 DEF BusyAt, AtWorker
        <4>2. Cardinality(BusyAt(u)') = Cardinality(BusyAt(u)) - 1
          BY <1>0, <4>1, FS_RemoveElement
        <4>3. /\ request_counts[u] \in Nat
              /\ request_counts'[u] = IF request_counts[u] > 0 THEN request_counts[u] - 1 ELSE 0
          BY <2>1, <3>1
        <4>4. request_counts[u] >= Cardinality(BusyAt(u)) /\ Cardinality(BusyAt(u)) \in Nat
          BY <1>0 DEF CountsCover
        <4> QED
          BY <1>a, <4>2, <4>3, <4>4
      <3>2. CASE u # w
        <4>1. BusyAt(u)' = BusyAt(u)
          BY <2>1, <3>2 DEF BusyAt, AtWorker
        <4> QED
          BY <1>0, <1>a, <2>1, <3>2, <4>1 DEF CountsCover
      <3> QED
        BY <3>1, <3>2
    <2> QED
      BY <2>2, <2>3 DEF CountsCover
  <1>3. ASSUME NEW r \in Requests, RouterRetries(r)
        PROVE  RouteInv' /\ CountsCover'
    <2>1. /\ AtWorker(r) /\ request_counts' = request_counts
          /\ route' = [route EXCEPT ![r].attempt = @ + 1]
      BY <1>3 DEF RouterRetries, AttemptFails
    <2>2. RouteInv'
      BY <2>1
    <2>3. \A u \in Urls : BusyAt(u)' = BusyAt(u)
      BY <2>1 DEF BusyAt, AtWorker
    <2> QED
      BY <1>0, <1>a, <2>1, <2>2, <2>3 DEF CountsCover
  <1>4. ASSUME NEW r \in Requests, RouterRaises(r)
        PROVE  RouteInv' /\ CountsCover'
    <2>1. /\ AtWorker(r) /\ request_counts' = request_counts
          /\ route' = [route EXCEPT ![r].attempt = -1]
      BY <1>4 DEF RouterRaises, EndRoute
    <2>2. RouteInv'
      BY <2>1
    <2>3. ASSUME NEW u \in Urls
          PROVE  request_counts'[u] >= Busy(u)'
      <3>1. BusyAt(u)' \subseteq BusyAt(u)
        BY <2>1 DEF BusyAt, AtWorker
      <3>2. Cardinality(BusyAt(u)') <= Cardinality(BusyAt(u)) /\ Cardinality(BusyAt(u)') \in Nat
        BY <1>0, <3>1, FS_Subset, FS_CardinalityType
      <3>3. request_counts[u] >= Cardinality(BusyAt(u)) /\ Cardinality(BusyAt(u)) \in Nat
            /\ request_counts[u] \in Nat
        BY <1>0 DEF CountsCover
      <3> QED
        BY <1>a, <2>1, <3>2, <3>3
    <2> QED
      BY <2>2, <2>3 DEF CountsCover
  <1>5. ASSUME UNCHANGED routerVars
        PROVE  RouteInv' /\ CountsCover'
    BY <1>5 DEF routerVars, CountsCover, Busy, AtWorker
  <1>6. ASSUME NEW r \in Requests, BucketNext(r) \/ ManagerNext(r)
        PROVE  UNCHANGED routerVars
    BY <1>6 DEF BucketNext, ManagerNext, AcquireLarge, AcquireTake, AcquireWait, Wake, DebtPaid,
                Enter, TimesOut
  <1>7. CASE Tick \/ UNCHANGED vars
    BY <1>5, <1>7 DEF Tick, vars
  <1> QED
    BY <1>1, <1>2, <1>3, <1>4, <1>5, <1>6, <1>7 DEF Next, RouterNext

(* A worker is never taken for less busy than it is: the counts are        *)
(* released late or never, not early (NaiveRouter._make_async_request).    *)
THEOREM CountsAreSafe == Spec => []CountsCover
  <1>1. Init => RouteInv /\ CountsCover
    <2> SUFFICES ASSUME Init PROVE RouteInv /\ CountsCover
      OBVIOUS
    <2>1. RouteInv
      BY DEF Init, RouteInv, NoRoute
    <2>2. ASSUME NEW u \in Urls
          PROVE  Busy(u) = 0 /\ request_counts[u] = 0
      <3>1. {r \in Requests : AtWorker(r) /\ route[r].url = u} = {}
        BY DEF Init, AtWorker, NoRoute
      <3> QED
        BY <3>1, FS_EmptySet DEF Init, Busy
    <2> QED
      BY <2>1, <2>2 DEF CountsCover
  <1>2. RouteInv /\ CountsCover /\ [Next]_vars => (RouteInv /\ CountsCover)'
    BY CountStep
  <1> QED
    BY <1>1, <1>2, PTL DEF Spec
=============================================================================
