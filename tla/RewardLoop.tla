----------------------------- MODULE RewardLoop -----------------------------
(***************************************************************************)
(* The rewards of a batch: every response is scored by a request that      *)
(* passes two token buckets and a semaphore, calls the reward model        *)
(* through a router with several workers, and may time out.                *)
(*                                                                         *)
(* A bucket holds what is refilled in a second. Its tokens are counted in  *)
(* what one tick refills, so both buckets hold Second of them.             *)
(***************************************************************************)
EXTENDS Integers, Sequences, FiniteSets

CONSTANTS
    Requests,
    NumUrls,            (* workers behind the router                        *)
    Second,             (* ticks of a second                                *)
    Needs,              (* tokens a request may need, one is chosen for     *)
                        (* each bucket                                      *)
    MaxConcurrent,
    Timeout,            (* ticks                                            *)
    MaxAttempts

ASSUME RewardAssumption ==
    /\ IsFiniteSet(Requests) /\ NumUrls \in Nat \ {0}
    /\ Second \in Nat \ {0} /\ Needs \subseteq Nat \ {0}
    /\ MaxConcurrent \in Nat \ {0} /\ Timeout \in Nat \ {0} /\ MaxAttempts \in Nat \ {0}

Limiters == {"rpm", "tpm"}
Urls     == 1..NumUrls
Never    == -1

VARIABLES
    is_async_reward_score,
    need,               (* need[k]: tokens of a request in bucket k         *)
    now,
    tokens,             (* tokens[k]: negative while a debt is paid off     *)
    last_update,
    pc, layer,          (* where a request is, and at which bucket          *)
    due,                (* when its sleep or its call is over               *)
    semaphore,          (* requests inside the semaphore                    *)
    running,            (* calls of compute_score that have not ended       *)
    request_counts,     (* the router's count of each worker                *)
    route,              (* route[r]: the worker and the attempt             *)
    result,
    grants              (* history: when bucket k let a request through     *)

config     == <<is_async_reward_score, need>>
bucketVars == <<tokens, last_update, grants>>
flowVars   == <<pc, layer, due>>
routerVars == <<request_counts, route>>
vars == <<config, now, bucketVars, flowVars, semaphore, running, routerVars, result>>

NoRoute == [url |-> 0, attempt |-> 0]

Init ==
    /\ is_async_reward_score \in BOOLEAN
    /\ need \in [Limiters -> Needs]
    /\ now = 0
    /\ tokens = [k \in Limiters |-> Second]
    /\ last_update = [k \in Limiters |-> Never]
    /\ grants = [k \in Limiters |-> <<>>]
    /\ pc = [r \in Requests |-> "acquire"] /\ layer = [r \in Requests |-> "rpm"]
    /\ due = [r \in Requests |-> 0]
    /\ semaphore = {} /\ running = {}
    /\ request_counts = [u \in Urls |-> 0]
    /\ route = [r \in Requests |-> NoRoute]
    /\ result = [r \in Requests |-> "none"]

-----------------------------------------------------------------------------
(* AsyncTokenBucket                                                        *)

Least(a, b) == IF a < b THEN a ELSE b

(* The tokens of bucket k with those refilled since it was last looked at. *)
Elapsed(k)  == IF last_update[k] = Never THEN 0 ELSE now - last_update[k]
Refilled(k) == Least(Second, tokens[k] + Elapsed(k))

Set(k, n) ==
    /\ tokens' = [tokens EXCEPT ![k] = n]
    /\ last_update' = [last_update EXCEPT ![k] = now]

(* r is through bucket k.                                                  *)
Through(r, k) ==
    /\ grants' = [grants EXCEPT ![k] = Append(@, now)]
    /\ IF k = "rpm" THEN /\ layer' = [layer EXCEPT ![r] = "tpm"]
                         /\ pc' = [pc EXCEPT ![r] = "acquire"]
                    ELSE /\ pc' = [pc EXCEPT ![r] = "semaphore"]
                         /\ UNCHANGED layer

Sleep(r, label, ticks) ==
    /\ pc' = [pc EXCEPT ![r] = label]
    /\ due' = [due EXCEPT ![r] = now + ticks]

(* More than a bucket holds is taken at once, as a debt to be waited for.  *)
(* Mutant of Debt: nothing is taken.                                       *)
NoDebt(k) == Refilled(k)
Debt(k)   == Refilled(k) - need[k]

AcquireLarge(r, k) ==
    /\ pc[r] = "acquire" /\ layer[r] = k /\ need[k] > Second
    /\ Set(k, Debt(k))
    /\ Sleep(r, "debt", need[k] - Refilled(k))
    /\ UNCHANGED <<config, now, grants, layer, semaphore, running, routerVars, result>>

AcquireTake(r, k) ==
    /\ pc[r] = "acquire" /\ layer[r] = k /\ need[k] <= Second
    /\ Refilled(k) >= need[k]
    /\ Set(k, Refilled(k) - need[k])
    /\ Through(r, k)
    /\ UNCHANGED <<config, now, due, semaphore, running, routerVars, result>>

AcquireWait(r, k) ==
    /\ pc[r] = "acquire" /\ layer[r] = k /\ need[k] <= Second
    /\ Refilled(k) < need[k]
    /\ Set(k, Refilled(k))
    /\ Sleep(r, "sleep", need[k] - Refilled(k))
    /\ UNCHANGED <<config, now, grants, layer, semaphore, running, routerVars, result>>

(* After a sleep the request tries again, unless it was a debt.            *)
Wake(r) ==
    /\ pc[r] = "sleep" /\ now >= due[r]
    /\ pc' = [pc EXCEPT ![r] = "acquire"]
    /\ UNCHANGED <<config, now, bucketVars, layer, due, semaphore, running, routerVars, result>>

DebtPaid(r) ==
    /\ pc[r] = "debt" /\ now >= due[r]
    /\ Through(r, layer[r])
    /\ UNCHANGED <<config, now, tokens, last_update, due, semaphore, running, routerVars, result>>

-----------------------------------------------------------------------------
(* RateLimitedRewardManager.run_single behind the buckets                  *)

Enter(r) ==
    /\ pc[r] = "semaphore" /\ Cardinality(semaphore) < MaxConcurrent
    /\ semaphore' = semaphore \cup {r}
    /\ running' = running \cup {r}
    /\ Sleep(r, "call", Timeout)
    /\ UNCHANGED <<config, now, bucketVars, layer, routerVars, result>>

Leave(r, what) ==
    /\ pc' = [pc EXCEPT ![r] = "done"]
    /\ result' = [result EXCEPT ![r] = what]

(* wait_for cancels a coroutine; a function in the executor goes on.       *)
(* Mutant of Cancel: a coroutine goes on too.                              *)
CancelNot(r) == running
Cancel(r)    == IF is_async_reward_score THEN running \ {r} ELSE running

(* Mutant of Exit: a request that times out keeps its place.               *)
ExitNot(r) == semaphore
Exit(r)    == semaphore \ {r}

TimesOut(r) ==
    /\ pc[r] = "call" /\ now >= due[r]
    /\ Leave(r, "timeout")
    /\ semaphore' = Exit(r)
    /\ running' = Cancel(r)
    /\ UNCHANGED <<config, now, bucketVars, layer, due, routerVars>>

(* The call ends; its answer counts if somebody still waits for it.        *)
Answer(r, what) ==
    /\ running' = running \ {r}
    /\ IF pc[r] = "call"
         THEN Leave(r, what) /\ semaphore' = semaphore \ {r}
         ELSE UNCHANGED <<pc, result, semaphore>>

-----------------------------------------------------------------------------
(* NaiveRouter: a request stays at its worker through all its attempts, and*)
(* goes on when the caller has gone.                                       *)

(* The first of the workers with the smallest count.                       *)
LeastLoaded == CHOOSE u \in Urls : \A v \in Urls :
    /\ request_counts[u] <= request_counts[v]
    /\ v < u => request_counts[u] < request_counts[v]

SelectWorker(r) ==
    /\ r \in running /\ route[r] = NoRoute
    /\ route' = [route EXCEPT ![r] = [url |-> LeastLoaded, attempt |-> 1]]
    /\ request_counts' = [request_counts EXCEPT ![LeastLoaded] = @ + 1]
    /\ UNCHANGED <<config, now, bucketVars, flowVars, semaphore, running, result>>

AtWorker(r) == route[r].attempt > 0
EndRoute(r) == route' = [route EXCEPT ![r].attempt = -1]

Release(u) ==
    request_counts' = [request_counts EXCEPT ![u] = IF @ > 0 THEN @ - 1 ELSE 0]

RouterAnswers(r) ==
    /\ AtWorker(r)
    /\ Release(route[r].url)
    /\ EndRoute(r)
    /\ Answer(r, "score")
    /\ UNCHANGED <<config, now, bucketVars, layer, due>>

(* Mutant of AttemptFails: the worker is released with every attempt.      *)
AttemptReleases(r) == Release(route[r].url)
AttemptFails(r)    == UNCHANGED request_counts

RouterRetries(r) ==
    /\ AtWorker(r) /\ route[r].attempt < MaxAttempts
    /\ route' = [route EXCEPT ![r].attempt = @ + 1]
    /\ AttemptFails(r)
    /\ UNCHANGED <<config, now, bucketVars, flowVars, semaphore, running, result>>

(* An HTTP error at any attempt, or the last attempt fails.                *)
RouterRaises(r) ==
    /\ AtWorker(r)
    /\ EndRoute(r)
    /\ Answer(r, "error")
    /\ UNCHANGED <<config, now, bucketVars, layer, due, request_counts>>

-----------------------------------------------------------------------------
(* Time passes when nothing is due and somebody waits for it: a sleep ends *)
(* on time, since what the event loop runs in between is short (decoding   *)
(* and synchronous reward functions are sent to an executor).              *)
Waits(r) == pc[r] \in {"sleep", "debt", "call"}
Tick ==
    /\ \A r \in Requests : pc[r] # "acquire" /\ (Waits(r) => due[r] > now)
    /\ \E r \in Requests : Waits(r)
    /\ now' = now + 1
    /\ UNCHANGED <<config, bucketVars, flowVars, semaphore, running, routerVars, result>>

BucketNext(r) ==
    \/ \E k \in Limiters : AcquireLarge(r, k) \/ AcquireTake(r, k) \/ AcquireWait(r, k)
    \/ Wake(r) \/ DebtPaid(r)
ManagerNext(r) == Enter(r) \/ TimesOut(r)
RouterNext(r)  == SelectWorker(r) \/ RouterAnswers(r) \/ RouterRetries(r) \/ RouterRaises(r)

Next == Tick \/ \E r \in Requests : BucketNext(r) \/ ManagerNext(r) \/ RouterNext(r)

Spec == Init /\ [][Next]_vars

(* Time passes and the event loop runs what is ready; whether the router   *)
(* or a worker ever answers is not assumed.                                *)
FairSpec ==
    /\ Spec /\ WF_vars(Tick)
    /\ \A r \in Requests : WF_vars(BucketNext(r) \/ ManagerNext(r))

-----------------------------------------------------------------------------
(* In any span of time a bucket lets no more through than it holds, or one *)
(* request that is larger, and what is refilled in the span; whatever      *)
(* requests come, sleep and come back in between.                          *)
Burst(k) == IF need[k] > Second THEN need[k] ELSE Second
RateHolds == \A k \in Limiters : \A i, j \in 1..Len(grants[k]) :
    i <= j => (j - i + 1) * need[k] <= Burst(k) + grants[k][j] - grants[k][i]

(* No more than max_concurrent calls of an asynchronous reward function    *)
(* run at a time, also when calls time out.                                *)
CallsBounded == is_async_reward_score => Cardinality(running) <= MaxConcurrent

(* The router never takes a worker for less busy than it is.               *)
Busy(u) == Cardinality({r \in Requests : AtWorker(r) /\ route[r].url = u})
CountsCover == \A u \in Urls : request_counts[u] >= Busy(u)

(* Every request gets a reward, though no worker may ever answer.          *)
Rewarded == <>(\A r \in Requests : pc[r] = "done")
=============================================================================
