# A TLA+ project for SDPG's asynchronous training

SDPG is built on verl, a library for reinforcement learning of language models.
Most of the repository is sequential numerical code. The parts whose correctness
depends on the order of events are the fully asynchronous trainer
(`src/verl/experimental/fully_async_policy`), the interrupted generation below it,
the engine that streams weights to the rollout replicas, checkpoints that must
survive a crash, and the rate-limited reward loop. This project models those parts,
checks them with TLC and proves their main invariants with TLAPS.

File names without a directory are in `src/verl/experimental/fully_async_policy`.

## 1. Inventory

### 1.1 What is modelled

| Component | State | Operations | Must hold |
|---|---|---|---|
| `MessageQueue` (`message_queue.py`) | deque with a maximum, `val_queue`, `running`, counters, version; one asyncio lock and a condition | `put_sample`, `get_sample`, `update_param_version`, `clear_queue`, `shutdown`, `put_validate`, `get_validate` | order is kept, only the oldest sample is dropped, a waiting caller is always woken |
| `FullyAsyncRollouter` (`fully_async_rollouter.py`) | `pending_queue`, `active_tasks`, `cancel_queue`, `paused`, `monitor_loop_trigger`, `staleness_samples`, `current_param_version`; one lock and a condition | five kinds of coroutines (feeder, processor, a task per sample, main, monitor) and the calls `pause`, `update_param_version`, `resume` | no sample lost or doubled, bounded staleness, pause waits for everything, no lost wake-up, the run ends |
| `FullyAsyncTrainer` (`fully_async_trainer.py`) | `local_trigger_step`, `current_param_version`, `global_steps`, the batch | `fit`, `fit_step`, `_get_samples_from_queue`, `_trigger_parameter_sync_after_step` | a synchronisation every `trigger_parameter_sync_step` updates, bounded version lag |
| `ParameterSynchronizer` (`param_sync.py`) | futures of the last update and resume | `sync_weights`, `wait_last_valid` | versions follow one another |
| `FullyAsyncTaskRunner` (`fully_async_main.py`) | the actors and their futures | `_run_training_loop` | ends when both components end or one fails |
| Interrupted generation (`vllm_rollout/vllm_async_server.py`, `agent_loop/*.py`) | per server `paused`, per request an event and an output; per worker a cancellation event; per response its tokens, mask, tool state and versions | `generate_for_partial`, `cancel`, `resume`, the single-turn and the tool loop, the gathering of a sample | a response only grows, nothing is generated between pause and resume, no token is of a version before its response's first label or more than one after its last, mask and tokens agree |
| Checkpoint engine (`src/verl/checkpoint_engine/base.py`, `nccl_*`, `nixl_*`) | list of replicas, process groups; per rank two buffers, a metadata inbox and one operation | `update_weights`, `add_replicas`, `remove_replicas`, `send_weights`, `receive_weights` | every rank yields every tensor whole and in order; requests go on after all have the weights |
| Checkpoints (`src/verl/utils/checkpoint`, save and load of trainer and rollouter) | saved paths per role, shard files, `data.pt`, the tracker file | save, retention, resume | what is resumed is one model; a crash leaves a checkpoint (where one is kept, not after the next is registered); no sample is trained on twice; what is lost is made up for while there is data |
| Reward loop (`src/verl/experimental/reward_loop`) | two token buckets, a semaphore, request counts of the router | `AsyncTokenBucket.acquire`, `run_single`, `_make_async_request` | rate and concurrency limits hold, every request gets a reward |

How they interact. The feeder fills `pending_queue`; the processor takes an
interrupted sample from `cancel_queue` or a new one from `pending_queue`, waits
for room among the active tasks and starts a task; the task generates and puts the
sample into the message queue, or, interrupted, into `cancel_queue`. To generate,
the task hands the sample to an agent loop worker, which runs a loop per response;
each loop sends requests to servers, which `pause` tells to stop. The trainer
blocks in `get_sample`, trains, and every few steps calls `sync_weights`, which
calls `pause`, tells the queue the version, and sends `update_param_version` and
`resume` without waiting; the next synchronisation waits for those two. After a step
the trainer may save a checkpoint, in which the rollouter takes part. At the end
the feeder puts `"DONE"`, the main coroutine puts `None` into the message queue,
and the trainer leaves its loop.

What is hard: eight coroutines of one event loop over one lock; flags read before
the lock is taken and used after; a counter recomputed from collections that
change during an await; an end marker behind samples that are still on their way;
interrupts that race with the end of a response, of a tool call, of the run; two
buffers that a thread sends from while they are filled; ranks that write at their
own pace and a crash between any two files; timeouts that race with answers.
`PROJECT.json` lists these hazards, each at its line, with the properties that
watch it.

### 1.2 The rest of the repository

| Part | Why it is not modelled |
|---|---|
| PPO loop, SDPG loss, actors and critics (`src/verl/trainer/ppo`, `src/verl/workers`) | a sequential driver over tensor computations; right or wrong is a matter of real arithmetic |
| Models, kernels, Megatron and FSDP utilities, VLA and diffusion code | the same, through external libraries |
| Data protocol, single controller | splitting and joining of tensor batches over worker groups |
| Weight synchronisation workers of the asynchronous trainer | collectives over tensors; `sync_weights` has its call of them commented out (param_sync.py:133-141) |
| One-step-off trainer | two futures taken in turn by one coroutine, without shared state |
| Batch balancing (`src/verl/utils/seqlen_balancing.py`) | pure heuristics over lists, with unit tests beside them |
| Transfer queue trainer | the queue is a library outside the repository |
| Datasets, tools, interactions, metrics, profiling, HDFS | I/O and formatting |

That is most of the repository's lines. The models cover the files with
interleavings, faults and protocols nearly whole, and nothing of the others.

## 2. Modules

    SlidingWindow              what the queue promises
       ^ implemented by
    MessageQueue  <- MCMessageQueue
       ^ extended by
    Rollouter                  the rollouter's event loop and remote calls
       ^ extended by
    Trainer                    trainer and synchronizer
       ^ extended by
    FullyAsync                 all of them, Spec, FairSpec, the properties

    Responses                  what interrupted generation promises
       ^ implemented by
    PartialRollout             servers, agent loops, pause and resume by tokens

    WeightTransfer             manager, sender and receivers of the engine
    Checkpoint <- MCCheckpoint saving, crash and resume
    RewardLoop                 buckets, semaphore, timeout, router

    MessageQueue_proof, FullyAsync_proof, Staleness_proof, Samples_proof,
    PartialRollout_proof, WeightTransfer_proof, Checkpoint_proof, RewardLoop_proof

The two halves of asynchronous training meet at a generation: in `Rollouter` it is
one step that ends, raises or is interrupted; `PartialRollout` opens that step up
into requests and tokens, and keeps of the rollouter only what decides when
samples run (`Submit`, `Gather`, the stages of a synchronisation, and the monitor
that may undo a pause).

Each `Mutant of X` definition is a plausible mistake in the code behind `X`; it is
used only to see that a property notices it.

### 2.1 MessageQueue

Every method runs under the actor's lock and only `Condition.wait` suspends it, so
a method is one action, and `get_sample` is one action up to its wait and one
after each wake-up. `getter[c]` says where the call of consumer `c` is
(`idle`, `waiting` on the condition, `woken`, `returned`), `got[c]` what is on its
way back. A sample is a number. On its own the module numbers the samples as they
are put and lets several consumers compete, and shows that it implements
`SlidingWindow`: the deque is the window `lo+1..hi` of the numbers not yet
handed out or lost.

### 2.2 Rollouter

A step is what one coroutine does between two suspensions. asyncio switches
coroutines only at a suspension, and an await that finds its lock free or its queue
non-empty does not suspend; so the processor's stretches keep `on_loop` TRUE,
which excludes every other coroutine of this actor (each has the guard
`~on_loop`), while the queue actor, the trainer and the generation servers go on.
`_should_pause_generation` uses a blocking `ray.get`, so it never suspends.

| Model | Code |
|---|---|
| `processor` | program counter of `_processor_worker`: `top`, `get` (waits for the feeder), `signal` (sets `paused`), `drain`/`await` (one of its three drain loops, told apart by `drain_site`), `rest`/`rest_idle` (the wait after the drain), `submit`/`submit_idle` (the wait before a task is created), `returned`, `crashed` |
| `done_tasks_bound` | whether its local `done_tasks` was assigned |
| `task`, `finished`, `failed` | `active_tasks`: the unfinished ones by sample, and how many ended (by return or exception) that are still in the set |
| `lock` | holder and waiters of `self.lock`, first come first served as asyncio.Lock is |
| `pause_call`, `update_call`, `resume_call` | where the remote calls are |
| `update_base` | the part of the sum in `update_param_version` evaluated before its await |
| `sample_version`, `fate` | history: the version stamped on a sample, how it left |

The drain loops test `active_tasks` outside the lock (`DrainMore`) and again
inside (`DrainAwait`, `DrainEmptied`). `DrainEmptied` is the branch in which
`pause` emptied the set meanwhile: the code then reads `done_tasks` of an earlier
round, or an unassigned local. `TaskPut` has no guard on `on_loop`: the append
happens in the queue's actor.

Abstracted: the monitor's sleep of ten seconds is any delay; its stop test is
taken when the lock is free; a generation is one step that ends, raises or is
interrupted; `cancel` reaches all servers in one step; a validation run inside
`update_param_version` takes no state and only its result is put. Tokens, prompts,
metrics and log output are left out. The threshold is a percentage, so that
`max_required_samples` rounds down like `int(...)` in the code.

### 2.3 Trainer and FullyAsync

The trainer and the synchronizer block in `ray.get`, so they are one sequential
process with the program counter `trainer`. The transfer of the weights in
`sync_weights` is commented out (param_sync.py:133-141), so a synchronisation
moves versions only and the model has no weights.
`FinishFit` fails when a final synchronisation is due, because that call passes
an argument its signature does not have. `FullyAsync` adds the task runner, which
ends the process when the trainer failed or both components are done. Init is the
state after `_initialize_components`: version 0 was synchronised and its
validation result read.

### 2.4 PartialRollout

A response is written by a loop `l = <<sample, i>>`, `i` of the `N` responses of a
sample. A token is its kind and the version of the weights it was generated with;
the kinds are what the loops tell apart: `text`, the `open`ing and `close` of a
tool call, the end of text `eos`, and `tool` for the answer of a tool. A turn ends
with `close` or `eos`, and a generation when the context is full.

| Model | Code |
|---|---|
| `sync`, `told` | `run`, `cancel` (`pause` has begun), `synchronise` (it has returned), `updated` (the version is new), `resume`; which servers and workers the present call has reached |
| `submission` | the rollouter's own `paused`, negated: cleared by `pause`, set by `resume` and by the monitor |
| `paused[s]` | `self.paused` of a server; the lock around it and around the two tables makes `CancelServer`, `Refuse` and `Accept` one step each |
| `cancel_event[l]`, `req_output[l]`, `generating` | `cancel_event[request_id]`, `req_output[request_id]`, the requests whose generation is neither done nor cancelled |
| `cancellation_event[w]` | the event a worker shares with its loops |
| `pc[l]` | `begin`, `call` (request on its way), `wait` (`asyncio.wait` on the generation and the event), `reply`, `turn` and `tools` (the tool loop between two states, and in its tools), `returned` |
| `out[l]` | the `AgentLoopOutput` or `AgentData` that a loop keeps between its runs: tokens, mask, state, tools run, `param_version_start` and `_end`, whether it is complete |

`Submit` is guarded as the processor is: by the rollouter's `paused`, and by the lock,
which `pause` and `resume` keep while they tell the servers and workers (`Locked`). So
samples may start between the two once the monitor, which had decided to go on before
`pause` switched it off, has cleared `paused` (`MonitorRecovers`; module `Rollouter`
has the monitor with all its steps, and `doc_pause` is its trace). Their loops run, are
refused by servers that still pause, ask again, and reach a server after the resume with
the version label of before. The version of a token is the rollouter's version when it is
generated.

`Stop` is the cancellation of the generation's task, which the code does not await: the
engine may go on for a moment, but what it still makes is collected by nobody, so that
`generating` is about the requests whose tokens can get into a response.

`FinishCall` may happen once the generation has ended or the event is set, and
decides as line 130 of the server does: what came in is an interrupted response
unless the engine had finished. `Token` may still add to a response whose event is
set, until `FinishCall`. `Choose` sends a request to any server, so that the load
balancer's heap and cache need no model. The tool loop looks at the worker's event
between two states only; a request refused by a paused server comes back empty and
cancelled, and the loop, whose event may not be set yet, asks again.
`HasCall` looks at the tokens of the last reply, as the code does.

The prompt counts one token towards `MaxModelLen`. What a tool answers is
`ToolLength` tokens; log-probabilities follow the tokens and are left out.

### 2.5 WeightTransfer

A tensor is a number and its data that number in each of its cells; a buffer is
`BucketSize` cells, so that a buffer filled too early shows as cells of another
tensor. The manager's `stage` follows `update_weights`: abort, build the groups,
transfer, finalise, resume. `Pack`, `Ship` and `ShipLast` are the loop of
`send_weights`; `send[r]` tells the buffers apart (`1 - send[r]` is the other).
`Post` puts the metadata in the inboxes of those that read the data, `got` tells
who has read it, and `Complete` is the wait for the operation.

With `backend = "nccl"` rank 0 broadcasts: `AllJoined` starts the data once every
receiver is in the collective. With `"nixl"` each rank reads from the one before it
and offers what it read to the next, and awaits the next metadata before it yields.
A receiver's coroutine (`pc`) and its operation in the background (`op`) are
separate, as the thread and the asyncio task are in the code.

`TopologyFits` and `GroupFits` are the two assertions of the set-up. NIXL's
`[-(n-1):]` is the whole list for a single replica, so that the lists differ in
length and the assertion fails; the model stops there (`topology_failed`).
A group kept with `rebuild_group = FALSE` stops it when the replicas
have changed (`GroupFits`, `group_failed`): the old members meet an assertion when the
number is another one, and when a replica has been replaced by a new one, the newcomer,
which has no group, waits in its own initialisation for ranks that go past it to the
barrier (nccl_checkpoint_engine.py:205-217). Both stops are the code's; hence
`CHECK_DEADLOCK FALSE`, which the bounded number of updates needs as well.

### 2.6 Checkpoint

A model is the set of samples it was trained on, a shard file the model it was
written from: `missing`, `torn` (opened and not closed) or `whole`. `data[v]` is
the dataloader position of a version's `data.pt`, `tracker` the number in
`latest_checkpointed_iteration.txt`, which `open(..., "w")` empties before it is
written.

A save goes through `room` (`ensure_checkpoint_capacity`), `shards` (each rank
opens and closes its own), the registration by rank 0, the next role, the
rollouter's `data`, and `track`. `esi` is the early save that `should_save_ckpt_esi`
asks for near the end of a reservation, at any step. `RoomFor` and
`RegisterCheckpoint` keep what the checkpoint manager keeps; `previous_saved_paths`
is in memory, so that a restarted run removes nothing an earlier life left.
`Crash` may come at any moment, between the opening and the closing of a file too.
What is in flight at a crash is lost; the rollouter's step is computed from the
version, so that as many samples are asked for in its place.

They come from a dataloader that ends. `left` is what `_create_continuous_iterator`
still yields: `DatasetSize * TotalEpochs` samples in a new run; in a resumed one the rest
of the epoch that `data.pt` was written in and `TotalEpochs - 1` more, since the loop
over epochs starts again (`LoadCheckpoint`). A position right at the end of an epoch is
restored as its end or as the start of another, whichever the dataloader does. `FeedEnd`
is the end of the data before the count is reached. The code computes the total from
`trainer.total_epochs` and iterates over `rollout.total_epochs`; the model relates
`TotalRolloutSteps` to neither. A sample of a second epoch is another sample than that of
the first.

`FinishFit` fails when a last synchronisation is due: in the middle of a version, or with
a version that is not a multiple of `TestFreq`.

`FitStep` trains on any `RequiredSamples` of the samples in flight: the queue and
the rollouter between feeder and trainer are module `FullyAsync`'s business.

Most properties are stated for `InStep`, a synchronisation for each update. With
more, several saves go to one folder, and `doc_checkpoint` in section 3.2 is what happens
then. `CrashKeepsOne` has one exception, `Overtaken`: with `max_ckpt_to_keep = 1` the
registration of the new actor removes the actor folder that the tracker names, and until
the tracker follows there is nothing that a restart could load (`doc_keep_one`).
`TrainsTotal` bounds what a run may fall short of: if fewer updates were made than asked
for, the data is used up, and what is missing is less than a batch and, for each crash,
the `Lead` samples that can be on their way.

### 2.7 RewardLoop

Time is counted in ticks, a second is `Second` of them, and a bucket's tokens are
counted in what one tick refills, so that a bucket holds `Second` and all sums stay
whole. A request passes the buckets `rpm` and `tpm` (`layer`), the semaphore, and
waits for its call until it ends or times out. `AcquireLarge` is the branch for
requests larger than the bucket: it takes a debt and sleeps outside the lock.
`AcquireTake` and `AcquireWait` are the loop of the others. A timeout cancels a
coroutine; a synchronous reward function goes on in the executor (`Cancel`).
The router's count of a worker goes up with `SelectWorker` and down with an
answer; a retry stays at its worker, and a caller that was cancelled leaves the
router's own request running.

`Tick` lets time pass when nothing is due: a sleep ends on time. The code computes
its refill from the clock when it wakes, so a late wake-up only finds more tokens,
but a debt that is paid late lets its request through late and thereby nearer to
the next one; the event loop runs only short steps in between (decoding and
synchronous functions are in an executor), and the model takes that as given.

## 3. Runs

### 3.1 What the code keeps

| Run | Instance | Shows |
|---|---|---|
| `message_queue` | capacity 2, two consumers, up to 4 samples and one version | order and drops (`QueueIsNewest`), no caller stranded (`NoLostWakeup`, `ShutdownReleases`), the refinement `WindowSafety` |
| `streaming` | 6 samples, one per step, a synchronisation per step, threshold 100 % (a limit and a queue of two), two at a time | types, version order, the lock, in-flight bound, the staleness count, `VersionLag`, the end mark, frozen pause, termination |
| `partial` | 7 samples, two per step, a synchronisation every two steps, threshold 25 % (a limit and a queue of five), partial rollout, up to one generation that raises | `OnePlace`, `SleepsOnlyPaused`, `Terminates` |
| `interruption` | one server, two workers, a sample of two responses of up to 4 tokens, context 6, tool answers of 1, up to two synchronisations, one of which the monitor may undo; single turn and tools | `SyncQuiet`, `VersionsBracket`, `MaskMatches`, `EndsStay`, `CallsRunOnce`, the refinement `KeepsResponses`, and under fairness `PauseDrains`, `Completes` |
| `weight_transfer` | up to 3 replicas, 3 tensors of any sizes in buckets of 2 cells, two updates, up to two elastic changes, both backends, with and without rebuilding | `InOrderAndIntact`, `ResumesWithAll`, `TransferEnds` |
| `checkpoint` | actor and critic on two ranks, 3 samples, an epoch of as many, 1 or 2 steps to a version, 1 or 2 checkpoints kept, a save every second version or early, up to two samples on their way, up to two crashes | `ResumesWhole`, `CrashKeepsOne`, `RetentionBound`, `NoRepeat`, `TrainsTotal`, `CountsUpdates` |
| `reward_loop` | 3 requests, 2 workers, a second of 2 ticks, requests of 1 or 3 tokens, one concurrent call, timeout 1, 2 attempts | `RateHolds`, `CallsBounded`, `CountsCover`, `Rewarded` |

The bounds, and why they are enough:

- `MaxProduced`, `MaxVersion` (`MCMessageQueue`) stop the producer after twice the
  capacity, so that drops, a drained queue and shutdown with waiting callers occur.
- `TotalRolloutSteps` of 6 with a limit of two gives several synchronisations and a
  queue that drops, and lets the trainer run ahead of a sample by as many versions as
  `MaxLag` allows; 7 with a limit of five gives a batch left over at the end,
  interrupted samples that fill the limit and a processor in each of its waits.
  `MaxFailures` bounds the generations that raise: one crashes the processor already.
- `MaxSyncs`: a pause begins only while `param_version` and the number of open
  responses are at most `MaxSyncs` together, which keeps the tokens of both
  responses from being interrupted in all combinations. With two, either response
  is interrupted twice, once before the other is complete and once after it, and
  three versions meet in it. `MaxRacing` bounds in the same way the pauses that the
  monitor undoes: with one, a last open response is run between pause and update, once, and
  may be interrupted again after it.
  Four tokens are room for text, a call, an answer and a rest.
- `MaxUpdates`, `MaxChanges`: two updates with two changes between them reach the
  kept group of the first update, a replica that comes or goes, and one that takes the
  place of another. Three tensors in
  buckets of two give up to three buckets, one more than there are buffers.
- `Lead` stands for the bounded queues between feeder and trainer; `MaxCrashes` of
  two lets a run crash that was itself resumed. The data is one epoch of as many samples
  as the run has steps, which is what the code makes of `total_epochs = 1`: a run that is
  resumed past a lost sample runs out of data before its total. The ranks are symmetric, all
  properties are invariants.
- Requests of 3 tokens are larger than the bucket, those of 1 are not; three
  requests and one place make one wait behind another that times out.

Each property has a mutant of the code that violates it under the same bounds, and
together the runs fire every action. Deadlock is checked except in `weight_transfer`
(see 2.5), `reward_loop` (when all requests are done there is nothing to do) and
`doc_recovery` (the stop is the finding).

### 3.2 Where the code disagrees with its documents

Each of these runs checks one statement of a document or comment and finds a
behaviour of the code that violates it.

| Run | Statement | What happens |
|---|---|---|
| `doc_pause` | README.md:240: "it will wait for the tasks to complete and not add new tasks" | the monitor read its trigger before `pause` and clears `paused` after it; the processor starts a task during the synchronisation |
| `doc_recovery` | fully_async_rollouter.py:697: "Trigger rollout recovery", README.md:145: "rollout continues to generate and trainer continues to consume" | interrupted samples use up the limit that decides whether they may go on, and nothing unpauses the processor |
| `doc_tool_call` | `src/docs/advance/fully_async.md:531`: "Resuming execution from the saved state after parameter synchronization is complete, rather than starting over" | a call interrupted between its two halves is looked for in the second half only, and the response ends without the tool |
| `doc_checkpoint` | `src/verl/utils/checkpoint/checkpoint_manager.py:161`: "Register a successfully saved checkpoint", 163: removes "excess old" ones | two saves of one version are registered as two paths to one folder, and the older is removed: the folder just written |
| `doc_keep_one` | `src/verl/utils/checkpoint/checkpoint_manager.py:148`: "With max_ckpt_to_keep=1, this does nothing - we keep the existing checkpoint until the new save completes successfully" | the new actor is registered and the old one removed before the critic, `data.pt` and the tracker are written; a crash then leaves a tracker that names a checkpoint that is gone |

Some more behaviours of the code are in the models without a run of their own. The
drain loop reads `done_tasks` unassigned when `pause` emptied `active_tasks`
first (fully_async_rollouter.py:514; the processor becomes `crashed`). The final
synchronisation, of a run that ends between two versions or with a version that is
not a multiple of `test_freq`, passes an argument that its method does not take
(fully_async_trainer.py:367-368; `FinishFit` fails). The in-flight bound is one more
than the `rollout_num` of README.md:141, for the sample in the processor's hand.
The tracker is emptied before it is rewritten (fully_async_trainer.py:558), and a
crash in between leaves a file that no restart can read (`LoadFails`).

Once the processor has taken `"DONE"` it only waits for its active tasks
(fully_async_rollouter.py:531-543): a task that a pause interrupts after that stays in
`cancel_queue` when the run ends, although README.md:249 says "The interrupted samples
will continue to be generated after synchronization". In `FullyAsync` this is a final
state with `cancel_queue` not empty; `OnePlace` still accounts for the sample.

A sample that the monitor lets start between `pause` and the new version is labelled
with the old version (fully_async_rollouter.py:575) and generated with the new one:
its tokens are one version past `param_version_end`, and `VersionsBracket` allows for
that. And a run whose crash lost samples in its last epoch ends with fewer updates than
it was asked for, without an error; `TrainsTotal` says by how many.

## 4. Fairness

Each condition is on a set of steps of one process. All are weak but one.

- `FullyAsync`: each coroutine of the rollouter (the event loop runs every coroutine
  that is ready), each task's start, end and put (a generation ends, by itself or
  interrupted), the trainer and the task runner. Nothing is asked of the order of
  generations or of failures. The remote calls have strong fairness: a call that Ray
  has delivered is ready whenever the event loop is not in the processor's stretch,
  which it enters again and again, and asyncio's ready queue is first come first
  served, so the call is not passed over for ever.
  `Terminates` is claimed where interrupted samples, which stay counted while
  generation is paused, cannot use up the whole limit. Where they can, the rollouter
  waits for itself; `doc_recovery` shows it.
- The queue's own run: a woken caller of `get_sample` gets the lock, which
  asyncio's first-come lock gives.
- `PartialRollout`: each loop together with its server side (one of the two has the
  next step; an engine adds tokens until the context is full), the submission and
  gathering of each sample, and the manager once a pause has begun. That a pause begins,
  or that the monitor undoes one, is not assumed.
- `WeightTransfer`: the manager, rank 0 and each receiver. Elastic changes happen or
  not.
- `RewardLoop`: time passes and the event loop runs a request that is ready. Nothing
  is assumed of the router: `Rewarded` holds though no worker ever answers.
- `Checkpoint` has no liveness property: a run may crash in the end.

## 5. Proofs

`tlapm` proves the following for every value of the constants that satisfies the
modules' named assumptions: `MaxQueueSizeAssumption`, `RollouterAssumption`,
`QueueSizeAssumption` and `TrainerAssumption` (positive sizes; the queue as large as
`max_required_samples`, as `_initialize_components` makes it; the trainer is a
consumer), `PartialAssumption`, `TransferAssumption`, `CheckpointAssumption` and
`RewardAssumption` (finite sets, positive sizes, a context longer than a response, server
names that are no worker numbers). No theorem
assumes fairness.

| Theorem | States | Argument |
|---|---|---|
| `MQTypeCorrect` | `MQSpec => []MQTypeOK` | inductive by itself |
| `NoWakeupIsLost` | `[]NoLostWakeup` | inductive by itself: every change that ends the reason to wait notifies all |
| `NewestStay` | `[]QueueIsNewest` | with the type invariant; `KeptSuffix` says what a drop leaves |
| `QueueIsWindow` | `MQSpec => WindowSafety` | each method is a step of the window or a stutter, from `QueueIsNewest`; `AnsweredHolds` says a call that has not returned holds no answer |
| `TypeCorrect` | `Spec => []TypeOK` | one lemma per coroutine, frame lemmas for what each leaves alone |
| `LockExclusive` | `[]LockHeld` | the head of `lock` changes only when its owner leaves |
| `SleepIsPaused` | `[]SleepsOnlyPaused` | clearing `paused` and waking are one step |
| `PauseIsFrozen` | `Spec => PauseFreezesTasks` | `Submit` needs the lock that `LockHeld` says pause has |
| `VersionsInOrder` | `[]VersionsFollow` | from `SyncInv`, which ties the version copies to where trainer and calls are |
| `StalenessCounts`, `FlightIsBounded` | `[]StalenessCovers`, `[]InFlightBounded` | see 5.1 |
| `MarkIsLast` | `[]EndMarkLast` | `IdleInv`: no task is left once the processor has returned; `MarkInv`: no mark is put before the main coroutine has seen the processor end, and nothing is put after it |
| `SamplesInOnePlace` | `[]OnePlace` | see 5.5 |
| `LagIsBounded` | `[]VersionLag` | see 5.5 |
| `SyncIsQuiet` | `[]SyncQuiet` | `QuietInv`: a request in the engine has a loop that waits for it, and a loop that runs has an active sample; `RefuseInv`: every server refuses when `pause` returns, no loop is left from before, and one that starts then waits for no server and has at most an empty reply |
| `LabelsBracket` | `[]VersionsBracket` | see 5.2 |
| `MasksMatch` | `[]MaskMatches` | with `RequestOf`: what comes from an engine holds no tool token; lemmas on concatenation and `Clip` |
| `ResponsesImplemented` | `Spec => KeepsResponses` | each step of a loop appends to its own response, completes it or stutters, and the final cut leaves a prefix; from the type invariant, `StatusInv` and `MaskInv` |
| `EndsAreKept`, `CallsRunAtMostOnce` | `[]EndsStay`, `[]CallsRunOnce` | see 5.6 |
| `BucketsArriveIntact`, `ResumeHasAll` | `[]InOrderAndIntact`, `[]ResumesWithAll` | see 5.7 |
| `ResumeIsWhole`, `NothingRepeats`, `StepsCount` | `[]ResumesWhole`, `[]NoRepeat`, `[]CountsUpdates` | see 5.3 |
| `CrashFindsOne` | `[]CrashKeepsOne` | see 5.3 |
| `DiskIsBounded` | `[]RetentionBound` | see 5.3 |
| `TotalIsTrained` | `[]TrainsTotal` | see 5.3 |
| `RateIsBounded` | `[]RateHolds` | see 5.4 |
| `CallsAreBounded` | `[]CallsBounded` | `CallInv`: the requests in the semaphore are those in a call, and a running coroutine is one of them |
| `CountsAreSafe` | `[]CountsCover` | a count goes up before its request is at the worker and down only with it, at most once each; `SmallestExists` gives `LeastLoaded` its witness |

### 5.1 Staleness

The staleness bound is not inductive. `Staleness_proof` strengthens it by
`HandInv` (where the processor can hold a sample, so that it never holds one when
it takes another) and `CountInv`: besides the bound itself, the number in flight
is at most `max_required_samples + 1` with the hand and at most
`max_required_samples` while the processor waits for the feeder (it decided to
take with a counter that may be reset before it takes), and, while
`update_param_version` awaits the queue size, the part it already summed covers
what is in the rollouter. The last needs `LockHeld`: the only step that moves a
sample from the hand to the active tasks takes the lock, which
`update_param_version` holds. A sample that moves to the queue between the two
readings is counted twice, never missed. Steps that add nothing to what is under
way are handled together by `Quiet`.

### 5.2 Versions of a response

That a complete response is labelled rightly says nothing about one that is
still being written. `VersionInv` says it at every stage: what an engine has generated
and what a reply holds are of the present version alone, because the version changes
only while no loop waits for a server and every reply is empty (`RefuseInv`); the label
of a run is the present version or the one before it, the latter for a run that started
between `pause` and update; and a response that is not complete lies between its first
label and the present version. `StatusInv` says that a loop that runs is not
complete and one that has not run is empty. Each step then appends a reply of the
present version to a response below it, and completing it fixes the upper label, which
is at most one behind.

### 5.3 Resuming

What is resumed is read from many files, so the invariant is about the disk: the
tracker's shards that are whole are of one model (`TrackedAgree`); when the folder
being written is the tracker's own, or the tracker is about to point to it, they are
of the model in memory (`TrackedCurrent`, `WrittenCurrent`). `PositionInv` adds that
the `data.pt` beside them is past every sample of their models, `SizeInv` that each
model has as many samples as its version says, `StepInv` what the counters are in
each stage. The property needs `InStep`: with several updates to a version, shards of
two models lie in one folder, and a crash between two of them resumes a mixture.
Nothing is assumed of how many checkpoints are kept: a folder that was removed in
part does not load.

That a crash finds a checkpoint is about what the retention may remove. `PathInv` says
that a role's registered paths are of growing versions and that none is past the
tracker's but that of the save in progress; the retention drops a beginning of them and
keeps one before a save and two after it (`Asked`), so what it drops is older than what
the tracker names (`RetentionSpares`). Only where one is kept may it drop the tracked one,
and then a newer path is registered (`Overtaken`, which stays until the tracker follows:
`OvertakenStays`). `KeptInv` is what that keeps: the tracked version is whole or overtaken,
what is being written is another one, and the files of the save in progress that count
as written are.

`RetentionBound` needs no `InStep`. A restarted run forgets the paths, so the invariant
(`DiskInv`) splits what is on disk into what earlier lives left, at most `PerLife` for
each crash, what this life has registered, and the folder it is writing. At a crash the
last two become part of the first.

For `TrainsTotal` the invariant (`RunInv`) relates the rollouter's counter to what is
trained or in flight: they agree while the feeder goes on, also after a restart
that generates anew what was lost, and when it has stopped the total was reached or
nothing is left. A run resumed where the total was reached puts one
more sample before it looks, hence the one for each crash. `DataInv` says what is lost
when nothing is left: the dataloader's position and the rest make up at least
`AllData`, and the position is past what is trained or in flight by no more than
`Lead` for each crash, in memory and in every `data.pt`.

### 5.4 The rate of a bucket

The history of a bucket is a sequence of times. `RateHolds` compares any two of them;
the invariant compares each with the bucket as it is now. For requests that fit
(`SmallInv`): those let through since a grant need no more than the bucket held
then and refilled since, less what is left. For larger ones (`LargeInv`): the debts
taken are paid one after another, each when the one before has been refilled, so
grants are `need` ticks apart. Both need `OnTime`, that no sleep is overslept
(section 2.7).

### 5.5 Samples and versions

`OnePlace` counts six places that overlap in the code's variables only by mistake.
`PlaceInv` gives every sample one of nine places and says that it is in no other:
what the feeder has not put, the processor's hand, an answer on its way to the trainer
are places too, and each step moves a sample from one to another (a drop moves two).
It needs that no sequence holds a sample twice (`Once`), and from 5.1 that the
processor's hand is empty when it takes a sample. The invariant ends with the run: the
task runner clears the queue then.

`VersionLag` is not what `staleness_threshold` suggests. A version older than the
threshold allows can be trained on, because the limit is on samples under way, and what
waits in a full queue waits for as many versions as the queue has batches for. The
invariant counts samples instead of versions: `Taken` is how many the trainer has taken,
as if every version had taken its full share, and `Room(s)` how many it may have taken
when it comes to `s`. `LagInv` says for a sample at index `i` of the queue that `Taken + i`
is within `Room`; a drop only moves samples forward, and each one the trainer takes adds
one to `Taken` and takes one off the index of the others. It starts from `StampInv`: when
a sample is put, the version the queue knows is less than `Late` ahead of its stamp, one
with partial rollout, where no task runs from the return of `pause` to the new version
(`PausedInv`), and two without. `BatchInv` ties the batch to where the trainer is. The
bound is tight: with the instance of `streaming`, and with partial rollout and eight samples
there, TLC finds behaviours that reach it.

### 5.6 Turns

`EndsStay` is about the text of a response; what could break it is in the server and in
the state an interruption leaves. `TurnInv` says that the text, with what the engine has
generated or the reply holds behind it, is properly ended at each point (`Proper`); that a
loop in a state that generates has a text whose turn goes on (`Goes`), and a request still
in the engine too; that an interrupted reply leaves such a text; and that a loop whose
tools are due has a text that did not end (`Unended`). `RanInv` counts: the calls that ran,
and one more while a call is due, are calls of the response as it will be cut. A call in
a reply is the reply's last token (`CallEnds`), since an engine generates nothing behind
it and no tool's answer is in a reply, so a loop that becomes due has one call more than
before, and a prefix that grows loses none (`CallsGrow`).

### 5.7 Buckets

What a server is given depends on two buffers at each rank, on what is on its way to it
and on the two at the rank before it. The invariant counts tensors: `Announced(p)` is how
many are in what `p` broadcast or offered so far, `Yielding(r)` how many `r` has handed
on or is handing on, `Expecting(r)` how many with those its receive operation brings.
`PackInv` says that the bucket being packed holds the tensors up to `pos`, each in cells of
its own, in the buffer that is not being sent; `PostOf(p)` that the buffer `p` posted holds
the last of what it announced; `RankOf(r)` that the buffer `r` yields from holds the
tensors after those it loaded, and the other one those after them once they have been
received. `FlowOf(r)` ties a receiver to its source: what the source announced is in
`r`'s inbox, is being received, or was received, one of the three, and there is nothing
else on its way. So whoever waits for `Complete` finds that every reader has `Expecting`
equal to `Announced`, and may fill the buffer (`PostFlow`). One invariant serves both
backends, since only `Source` differs. The last bucket announces all tensors, and a
receiver ends with it, which gives `ResumesWithAll`.

Between two updates there is nothing in any rank (`Blank`), so that the invariant holds
for whichever replicas the next transfer has (`BlankParts`). That no rank works
then (`Working`), and that every receiver has a rank, are proved with it; the second needs
that the list holds no replica twice, however replicas come and go (`ListStep`).

### 5.8 What is only model-checked

Every safety invariant and every action property of the runs that pass is a theorem.
Everything under fairness (`Terminates`, `ShutdownReleases`, `PauseDrains`, `Completes`,
`TransferEnds`, `Rewarded`) is out of the prover's reach, as `ENABLED` is.

## 6. Not modelled

Of the modelled components:

- parallel validation and validation by the trainer (off by default); their calls
  hold the hazards listed at fully_async_rollouter.py:280 and param_sync.py:152;
- the sglang variant of the partial server, whose control differs from the vLLM
  one in the limit on a request's length and in the tables it clears when nothing came;
- the `INTERACTING` state of the tool loop and its limits on turns (none by default);
- the colocated (`naive`) backend of the engine, which moves nothing between
  processes, and the loss of metadata published before a subscription has arrived,
  which is the network library's matter;
- Megatron's checkpoints with their asynchronous save, and the Hugging Face export;
- the other reward managers, and what a score is;
- failures of whole actors: Ray is not asked to restart them here, and the task
  runner ends the process. A crash of the whole job is in `Checkpoint`.

Of the rest of the repository: section 1.2.

## 7. Plan

What is left is parallel validation and validation by the trainer in the composed system
(section 6).
