# PagedServe in TLA+

TLA+ modules, TLC runs and TLAPS proofs for the PagedServe inference engine
(`src/engine`) and the benchmark client beside it (`src/bench/run_bench.py`). Definitions keep the names of the code; PROJECT.json maps each
one to the lines it stands for. Paths below are relative to the repository.

## 1. Inventory

PagedServe serves an LLM with a paged KV cache and continuous batching. One
process and one thread: an asyncio event loop runs the HTTP handlers and, as one
more task, the engine loop, whose `step()` never awaits.

| Part | State | Operations | Talks to |
|---|---|---|---|
| KV block manager, `engine/core/block_manager.py` | `free_blocks` (deque), `evictable` (LRU), `ref_counts`, the two maps of the prefix cache, `cpu_free`; per sequence `block_table`, `cpu_block_table`, `block_hashes`, `num_registered_blocks` | `can_allocate`/`allocate`, `can_append`/`append_slots`, `cached_prefix`, `cache_full_blocks`, `free`, `can_swap_*`/`swap_out`/`swap_in`, `free_cpu` | called by the scheduler only |
| Scheduler, `engine/core/scheduler.py` | `seqs`, `waiting` (heap), `preempted`, `running`, `swapped`, `_outputs` | `add`, `abort`, `schedule` in two modes, `_preempt`, `_fail`, `_swap_in`, `_admit`, `update` | block manager; hands a batch to the runner |
| Step loop, `engine/core/engine.py` | id counter, statistics | `add_request`, `abort`, `step`, `validate`, `generate` | scheduler, runner, sampler |
| Sequence, `engine/core/sequence.py` | status, token ids, computed count, tables, output text | properties, `SamplingParams` checks | everybody |
| Model runner, `engine/core/model_runner.py` | `kv_cache`, `cpu_cache` | `execute`: swap out, swap in, forward | writes pages through the tables |
| Attention, `engine/model/attention.py` | a view of the cache | slot mapping, naive gather, FlashInfer page index | runner |
| CUDA graphs, `engine/core/cuda_graphs.py` | one graph per bucket | `can_run`, padded replay | runner |
| Sampler and detokenizer, `engine/core/sampler.py` | offsets of the detokenizer, `output_text`, `num_emitted_chars` | `append_token`, `flush`, `_find_stop` | `Scheduler.update` |
| Async bridge and HTTP, `engine/api/server.py` | `output_queues`, `has_new_work` | `run_loop`, `generate`, `abort_request`, `_fail_all`, disconnect paths, `completions` | engine; clients |
| Schemas, `engine/api/protocol.py` | none | `unsupported`, `stop_strings` | `completions` |
| Configuration, `engine/config.py` | none | `resolve` | everybody, at start |
| Start-up, `engine/core/engine.py`, `profile_num_blocks` of the runner | none | `LLMEngine.__init__`: resolve, load, size both caches | allocator, scheduler |
| Qwen3 model and loader, `engine/model/` | weights | `load_config`, `load_model`, forward pass | runner |
| Benchmark, `bench/run_bench.py` | one server process, one record per request | `sweep`, `_wait_healthy`, `run_rate`, `_send` | starts servers, reads their streams |
| Workloads, plots, scripts | none | random prompts, statistics, drawings | the benchmark |

What is hard here:

- **Bookkeeping over long histories.** A block moves between three pools, two
  maps and several tables; a request between a set and four queues. Failure,
  abort, preemption by two methods and completion all edit both.
- **Decisions made in the middle of edits.** `schedule()` plans the budget first
  and then preempts, fails, swaps and admits while walking `running`; what it
  planned or already put in the batch must stay valid.
- **Freed pages that are still being read.** `swap_out` returns GPU blocks that
  the same step may hand out again; only the order of the copies and the forward
  pass in `execute` keeps their content.
- **Steps that raise**, in the middle of `execute` or of `update`, and leave
  half of the sequences advanced. The bridge then aborts everything.
- **Handlers, the loop and disconnects** interleave at every `await`; a
  cancellation may not get through for a long time.
- **Streams and processes.** The byte stream of an answer is cut anywhere and may
  end anywhere; a server process of the benchmark may never start, die under its
  requests or ignore SIGINT, and the next one uses the same port.
- **Progress**: watermark, token budget, full host pool and pinned cache hits
  can each refuse admission; somebody must always be able to go on.

What makes each part correct: no block leaks or is lent twice, reference counts
are the holders, a cache hit is the K/V of that very prefix (block manager); the
queues agree with the statuses, batches fit budget and slots, order is kept,
nobody starves, only requests larger than the pool fail (scheduler); the kernels
read each sequence's own context (runner, layout); the streamed text is the full
decode cut at the first stop string (sampler); every client that stays gets one
whole answer, and nothing is decoded for one that left (server); a record tells
what really arrived and no server outlives its configuration (benchmark); what
starts satisfies what the parts assume of each other (start-up).

## 2. Modules

| Module | Models | State and actions |
|---|---|---|
| `BlockPool` | what the allocator promises: pools as sets, contents as links of hash chains | one action per public method |
| `BlockPool_proofs` | its invariants, proved | |
| `BlockManager` | the allocator as coded: order of both lists, token counts, hash map; a block's hash is its token prefix | operators for the tests, actions for the changes; no `Next` of its own |
| `BlockManager_proofs` | lists, counts and operators of `BlockManager`, as lemmas | |
| `BlockManagerClient` | any client that keeps the allocator's contract; refinement of `BlockPool` | `ImplementsPool` |
| `BlockManagerClient_proofs` | its invariants and the refinement, proved | |
| `WaitingQueue` | the heap of waiting requests: policies, keys, lazy deletion | operators for `peek`, actions for `push`, `pop`, `remove` |
| `Lifecycle` | what is promised for each request: the states of `sequence.py`, tokens, computed context | one action per transition; `Scheduler` implements it (`ImplementsLifecycle`) |
| `Scheduler` | scheduler and step loop on top of `BlockManager` and `WaitingQueue` | `pc` says which loop of the step runs; **one iteration of a loop is one action** |
| `Scheduler_proofs` | order of the waiting queue, agreement of queues, statuses and batch, the refinement of `Lifecycle`, the contract with the block manager and what follows from it, proved | |
| `BatchLayout` | slots, page index, buckets and padding, as operators | none |
| `Engine` | `Scheduler` with the contents of GPU and host slots | `RunBatch`, `RunFails`; all else is bookkeeping |
| `Engine_proofs` | slot arithmetic and page index for every block size; what every page holds, proved | |
| `Server` | loop, handlers, disconnects, with the engine reduced to its live requests and their outputs | code between two awaits is one action |
| `Server_proofs` | the answers for any number of requests, proved | |
| `AppendToken` | one request's tokens through detokenizer and stop strings | one action, `AppendToken` |
| `Stream` | one streamed answer from `_stream` to the client's `_send` and its record | `Yield` sends an event, `Read` takes any part of what arrived |
| `Sweep` | `sweep` over `Stream`: server processes, rates, the `finally` that ends them | one action per step of `sweep`; `Serve`, `Die` are the processes |
| `Sweep_proofs` | one server at a time, proved | |
| `Startup` | `LLMEngine.__init__`, the profile, parameters and loading | none |
| `EngineConfig` | `resolve` and its refusals | none |
| `Requests` | what `completions` accepts | none |
| `Configuration_proofs` | what `Startup`, `EngineConfig` and `Requests` guarantee to the other parts, proved | |
| `MC*` | small instances for TLC | |

How the code's state appears:

- `BlockManager` keeps `free_blocks`, `evictable` and `cpu_free` as sequences in
  the code's order. `seq.block_hashes` is not a variable: the SHA-256 chain is
  taken as collision free, so the hash of block *n* is the first *n* ·
  `block_size` tokens. Both maps of the prefix cache are variables,
  each changed where the code changes it; that they stay inverse is a property.
- `WaitingQueue.heap` is the set of entries in `_heap`, dead ones included, and
  `waiting` is `_live`. A binary heap of tuples is a set with a least element;
  `stale` are the entries `peek` drops from its top. `arrival` counts `add` calls
  and stands for `arrival_time` and for the push counter that breaks ties, so
  `AgingRate` is priority points per arrival; floats are integers here. The server
  stamps `arrival_time` when it makes the sequence and pushes it at least one task
  switch later; "earlier" means pushed earlier here.
- `Lifecycle` reads the diagram of `sequence.py` with two more things the code
  keeps beside it: how many tokens there are and how many of them are computed.
- In `Stream` a symbol of the wire is an event's line or one of the two line ends
  behind it; `Read` takes any number of symbols, as `iter_any` does.
- Local variables that live across iterations (`batch`, `plan`, `budget`, the
  index `i`) are variables, so properties see every point of a step.
- Sampling is a free choice of token; `append_token` may answer "stop" after any
  token, because any token can be an end token or complete a stop string.
- A raising step is `ExecuteFails` or `UpdateFails`, then one `abort` per
  live sequence, as `_fail_all` does.
- In `Engine` the content of a slot is the token list whose K/V it holds. A
  row of a batch, the CSR index and the padding come from `BatchLayout`.
- In `Server`, `AtStep` is the head of `run_loop`, `Register` the start of
  `generate` up to its first `await`, `Leave` its `finally`. `Kinds` are the
  three ways a client is watched; one deployment has one ASGI version, and the
  model lets all kinds meet, which only adds behaviours.
- In `Sweep` a process is `starting`, `serving`, `stopping` (after SIGINT) or
  `dead`; `Die` may happen to any of them. `raising` is an exception on its way
  through the `finally` of `sweep`.
- `Startup` and `EngineConfig` are operators over records of options; what the
  profile measures, and the shapes of a checkpoint, are parameters.

Definitions whose comment begins with "Mutant:" are deliberate faults. No
specification uses them; putting one in the place of the definition that follows
it makes TLC report the property that PROJECT.json names for it.

## 3. Runs

All runs are exhaustive within their constants.

| Run | Instance | Question |
|---|---|---|
| `block_pool` | 3 sequences, 4 blocks, 2 host blocks, 2 hashes, chains up to 2 | the allocator's invariants, those that are proved for all sizes |
| `block_manager` | 2 sequences, 3 blocks of 2 tokens, 2 host blocks | does the coded allocator implement `BlockPool` under any legal client, without leaking |
| `sched_prefill` | 3 requests, one with a prompt as large as the pool of 3 blocks, 3 host blocks, prefix caching, aging priorities | prefill-priority: who may fail; who may overtake whom; the watchdog never fires; everybody ends |
| `sched_chunked_swap` | 3 requests, 3 blocks, 1 host block, budget 3, shortest prompt first | chunked steps, swap and recompute victims mixed: queues, accounting, batch and budget, every running sequence advances, termination; does it implement `Lifecycle` |
| `sched_prefix` | 4 requests, 3 that share prefixes, 1 that can never fit, 3 blocks, watermark 1, arrival order, `update()` may raise | prefill-priority with recompute: order of the queues, the heap, the watermark never blocks the last request |
| `engine_swap` | 3 requests, two of them sharing a block, 4 blocks, 2 host blocks, padded graphs | contents of the pages; writes are private |
| `server_answers` | 2 requests of any kind, 2 outputs each | answers, leftovers, nobody stranded |
| `append_token` | every series of 4 tokens of a small vocabulary | the streamed text, and where a stop string may remain in it |
| `sweep` | 2 configurations, 2 rates, 2 requests of 1 and 2 tokens | records under streams cut anywhere and dying servers; one server at a time; the sweep ends |
| `sched_budget`, `engine_failed_update`, `server_early` | | the disagreements of section 6 |

Bounds, and why they suffice:

- *Blocks.* Three or four blocks for requests that need up to four or more make
  every refusal happen: out of blocks with others running (preemption), alone
  (failure), at admission, at swap-in. A block of two tokens has a full, a
  partial and an empty state; prompts and limits are odd and even, so that
  chunks, ends and preemptions meet block boundaries and the middle of blocks.
- *Host blocks.* None, fewer than a victim may need (one: it falls back to
  recomputation), and enough for a victim with two blocks or with all three.
- *Requests.* Three make a victim, a beneficiary and a bystander; a fourth in
  `sched_prefix` is larger than the pool.
- *Tokens.* Two token ids where prefixes matter (equal and different
  continuations), one where they do not. `MaxTokens` bounds every sequence, as
  in the code, so no other bound is needed; in the chunked runs `MaxBatchTokens`
  is below the sum of what could run, so it binds.
- *Failures.* `FailPoints` says where a step may raise. `sched_prefill`,
  `sched_chunked_swap` and `engine_swap` let `execute` raise, `sched_prefix` lets
  `update()` raise. They are apart because of section 6, item 2: after a failed
  `update()` a finished sequence may stay in `running`, and then `QueuesAgree`,
  `BlocksAccounted`, `ImplementsLifecycle` and what `Engine` says of contents are
  false of the code. The properties of `sched_prefix` hold nevertheless.
- *Server.* Two requests: one can fail, leave or arrive while the loop serves
  the other. `MaxOutputs = 2` gives a first, a last and a queued output.
  A live request is `_fail_all`'s business whichever it is, so more requests
  repeat the two.
- *Text.* A vocabulary with a character split over two tokens, an invalid byte,
  a special token without text and tokens of several characters; stop strings
  that overlap tokens and each other; four tokens let a two-token character and
  a two-token stop string meet in any order.
- *Sweep.* Two configurations and two rates give a first and a next of each; one
  and two tokens give a stream with one event of text and one with several.
- `block_pool` has one `CONSTRAINT`, `Bound`, on the length of chains and tables
  (`MaxChain`, and one partial block more); the counters of the other models are
  bounded by their constants.

`CHECK_DEADLOCK FALSE` is set where the system may really stop: all requests have
ended and no more come. `block_pool` checks for deadlock.

`FirstComeFirstServed` is checked in arrival order under recomputation only
(`sched_prefix`). With swapping and a host pool too small for a victim it does not
hold and the code does not mean it to: swapped victims return before recomputed
ones. `FailsOnlyIfTooLarge` and `NeverStuck` need a request that only just fits the pool.
In `sched_prefill` its prompt alone is three blocks, one of them shared; evicted
by a decode of the sequence it shares with, it holds the whole pool's worth of
host memory and needs a fourth block when it comes back, which must fail it. That
needs a watermark of 0: above one, what is admitted beside another sequence never
grows to the whole pool. `sched_prefix` has the watermark, with victims and cached
prefixes that fit only without it.

### Fairness

- `Scheduler!FairSpec`: weak fairness of `Step`. `run_loop` and
  `LLMEngine.generate` call `step()` as long as `has_work()`, and a step is
  synchronous: once begun it runs to its end. There is no fairness on requests
  or aborts: nobody has to send or give up a request.
- `Server!FairSpec`: weak fairness of the loop's step and of each handler's
  next stretch of code, because the event loop runs every ready task.
  `CancelStream` is weakly fair: anyio retries a cancellation, but it gets
  through only while the handler waits with an empty queue, and if that is never
  continuously so, it may never happen. Strong fairness says that a request
  which stays live gets outputs; the scheduler proper shows it
  (`EveryRequestEnds`), since `Server` does not contain it. There is no fairness on
  `StepRaises`, `Disconnect` or `Accept`.

- `Sweep!FairSpec`: weak fairness of the benchmark's own steps, whose waits all
  have a limit, and of a living server's answers. No server has to start, to
  stay alive or to obey SIGINT, and a chunk may be read whenever it comes.

`EveryRequestEnds` in `sched_prefill` and `sched_chunked_swap` needs no
assumption on the number of failures or preemptions: the only fairness is `Step`.

## 4. Proofs

All are checked by tlapm, to the last leaf, for every value of the constants.

**`BlockPool_proofs`.** The invariants of `block_pool` need one another.
A release returns the blocks with `ref_counts = 1`; that keeps `OnePool` only if
the count is the number of holders (`RefCountsAreHolders`). A hit is acquired
without looking at its content; that keeps `RightContent` only if the two maps are
inverse (`CacheConsistent`), and the table stays free of repetitions only if the
hashes of a chain are distinct. A block taken for writing is private
(`SharedIsPublished`) only because free and evictable blocks have no holder
(`OnePool`). So the inductive invariant `IInv` is the conjunction of all of them
with `TypeOK`, `HostPool` and `DistinctHashes` (a chain names no prefix twice).
The proof has one lemma for each of the changes that actions share (`AcquireInv`,
`PublishFacts`, `ReturnFacts`, `UpdateInv`, `ReleaseCpuInv`, `SwapOutHostInv`), one step
per conjunct in each, and `NextInv` puts them together, one step per action.
Assumptions: finitely many
sequences; hash chains without repetition (a hash names a whole prefix); `None`
is no hash and no block. Theorems: `Invariance` (`Spec => []IInv`), then one for
each invariant of the run `block_pool`, `TypeCorrect`, `PoolAccounting`
(`RefCountsAreHolders`), `NoBlockLostOrLentTwice` (`OnePool`),
`HostBlocksAccounted` (`HostPool`), `CacheMapsAgree` (`CacheConsistent`),
`SharingIsReadOnly` (`SharedIsPublished`), `PrefixCacheSound` (`RightContent`), and
the action property `HeldBlocksStayPublished`.

**`BlockManagerClient_proofs`.** For every client that keeps the allocator's
contract: the coded allocator keeps its lists and its counts in step
(`ListsAccountForPool`), publishes only computed blocks (`OnlyComputedIsPublished`),
and implements `BlockPool` (`Refinement`). The invariant `IInv` has two halves.
`P!IInv` is the invariant of `BlockPool` under the refinement mapping; it says which
blocks have which holders and what the cache names. `ListInv` is what the mapping
forgets: no list repeats a block and every listed block has count 0 (`ListsOK`),
a table has slots for its computed tokens at least (`SlotsOK`), and published blocks
of a table are computed. Neither is inductive alone: that a
released block is not in a list already needs the holders of `BlockPool`, and that
`can_allocate`'s arithmetic leaves enough blocks needs the lists. Each action has one
lemma, which gives the step of `BlockPool` and `ListInv'`; `P!IInv'` then follows
from the proofs of `BlockPool`, used through the same INSTANCE. What all actions
share is in `BlockManager_proofs`: what `Filter`, `SubSeq`, `Reverse` and `\o` do to
lists without repetition, when a prefix fits a number of blocks, what
`_take_free_block` takes, k times over (`AcquireTakes`), what `free` returns
(`ReleaseReturns`), and the longest cached prefix (`CachedPrefix`). `Filter` is
`SelectSeq` by a closed formula, since recursion is out of the prover's reach.
Assumptions, beside those of `BlockManager`: finitely many sequences; `None` is no
digest and no block.

**`Scheduler_proofs`.** First the waiting queue, about any state that satisfies
`QueueOK` (the heap is finite, live entries are in it, arrivals differ). For every
policy, rate and priority the entries are in a strict total order
(`EntriesAreOrdered`), because no two have the same arrival; so a finite heap has a
least entry (`TopExists`: the one before most of the others, by counting, since
induction over finite sets is out of reach). An entry that `peek` drops is ahead of
every live one and dead, so live entries stay in the heap (`LiveEntriesStay`) and what
`peek` returns is live and first (`PeekReturnsTheFirst`). The fixed key orders two
requests exactly as their aged priorities do at any moment, so nothing has to be
re-sorted (`AgingNeedsNoResort`, the claim of `engine/core/scheduler.py:76-81`, over
integers; with floats two keys may collapse into one).

Then the scheduler. `IInv` is `QInv`, about queues and batch, and `ArrivalsOK`, that
requests are numbered as they arrive, which is what `QueueOK` needs. `QueuesAgree` and
`BatchHasSlots` are not inductive, not even together:

- An eviction takes the last of `running` while the batch is half built. That it never
  takes somebody the batch holds needs `WalkOK`: the batch holds only sequences before
  index `i`, and the victim is at `i` or behind it.
- A sequence put in the batch must still end its step with a token to compute, so what
  was planned for it before the evictions must fit it (`WalkOK`, from `PlanFacts` about
  `running_plan`).
- `update()` walks the batch while `running` still has the sequences that finished;
  `Placed` allows for them exactly as long as the batch names them, and `BatchOK` speaks
  of the entries that are still pending (`Pending`).
- How many blocks a table has follows from the computed tokens only for those
  without a pending entry (`Counted`); the others have the slots of their entry.

The invariant has one lemma per action; what several actions share is above them: the
lists (`FilterQueue`, `WithoutFacts`, `AppendFacts`, `PrependFacts`, `TailFacts`),
`Frame`, `BatchFrame` and `ControlFrame` for what an action leaves alone, `AbortEffect`
and `FailEffect` for what `abort` and `_fail` do wherever they are called.
`QueuesAlwaysAgree`, `BatchAlwaysHasSlots` and `PeekIsAlwaysFirst` follow from it.

`OvertakingIsAlwaysEarned` carries the order of the heap through a whole run: who has been
served, and perhaps preempted or ended since, came earlier than everybody who still waits
or was ahead by the policy, whatever was aborted or failed between. For priorities
that age it speaks of `effective_priority`, the fixed key does not occur in it. From it
follows how far aging bounds overtaking (`AgingBoundsOvertaking`): if `AgingRate` points for
each of `span` arrivals outweigh the largest difference of priorities, nobody who comes
`span` arrivals after a request is served while it waits. An `AgingRate` of 0, which the
configuration allows, has no such span unless all priorities are the same; then overtaking
is earned but unbounded, as under shortest-job-first.

`LifecycleIsKept` is the refinement of `Lifecycle`: each action is one of its
transitions for the request it moves, or leaves all of them alone; `IInv` gives the
guards of the transition, for instance that who is admitted waits or was preempted
with nothing computed.

`FirstComeIsFirstServed` adds `InOrder` to the invariant: nothing is ever swapped out,
and running, preempted and waiting requests stand in order of arrival. A victim is the
last of `running` and goes to the head of `preempted`; it comes back before anybody
waiting does. The theorem is about arrival-order admission without swapping, where alone
the order is meant to hold (section 3).

The pool under the scheduler needs no invariant of its own: it is proved that the
scheduler keeps the contract under which `BlockManagerClient` was proved
(`ContractIsKept`). `C` is that module with the scheduler's variables in the place of
its own, and every step of the scheduler is either a step of that most general client
or changes nothing the client sees; so `C!IInv`, with the reference counts, the lists
and the prefix cache, holds of the scheduler without being proved again. Each action
has its lemma (`AdmitIsClient`, `EvictIsClient`, ...), and `IInv` is what they
need: that a table is empty when `allocate` is called, that `can_append` was asked
for the number of tokens then appended, that only tokens with slots are counted as
computed. From `IInv` and `C!IInv` together follow `WritesAreAlwaysPrivate` (a new
token lies behind the published blocks of its table, and a block that nobody
publishes has one holder), `BlocksAreAccounted` (a block with a holder is in the table
of a live request, by `Placed`) and `OnlyTooLargeFail`: two of the three ways to fail
test the size of the pool themselves, and in the third, alone and out of blocks, nobody
else holds a block, by counting the free ones. With the
copies and entries of a batch typed as well (`ReportOK`), `SchedulerTypesHold` is the
type invariant.

What bounds one step needs the numbers of the step. `BudgetOK` has four parts on top
of `IInv`. `OneLeft`: of those running whom the entries made so far leave with more than
a token to compute (`LeftOver`) there is one at most, the newest, and while victims come
back or requests are admitted there is none unless the budget is used up; so whoever
joins behind it cannot exist. `Planned` and `Shares`: the plan gives everybody a token,
everybody but the newest needs no more than that, and the newest gets what it needs or
the whole rest. `Covered`: who has an entry already. `Tally`: at every point of
the step the tokens in the batch and the budget left are `max_batch_tokens`. An eviction
takes the newest away, so the one in mid-prefill is the first to go and the walk goes on
among decodes. From this follow `OneIsMidPrefill`, `NobodyIsLeftOut` and
`BatchFitsBudget`. The last needs `Chunked \/ MaxNumSeqs <= MaxBatchTokens`: `resolve`
demands it only of chunked configurations, and item 1 of section 6 is the failure
without it.

`StepsAreNeverStuck` needs `ProgressOK` besides: if nothing is in the batch and nobody
failed, nobody runs once the walk is over, nothing is swapped out once `_swap_in` is, and
nobody waits once `_admit` is. Its two central lemmas say that with nobody running the
oldest victim comes back or is given up (`AloneComesBack`), and that the candidate is
larger than the pool or fits (`AloneIsAdmitted`): by `C!IInv` all blocks are free then, a
cached prefix pins no more blocks than it spares, and the whole budget is there.

These theorems, but for those about the waiting queue alone, have one hypothesis,
`"update" \notin FailPoints`: `update()` does not
raise. It is necessary: section 6, item 2 is a failure of `QueuesAgree` when
`update()` raises. Failing executions are included. Beside the assumptions of
`BlockManager` and `Scheduler` on the constants there is none; that the set of
requests is finite and `None` no finish reason is said there, and
`NoneAssumption` says that `None`, Python's absence of a value, is no block and no digest.

**`Engine_proofs`.** First the layout. Two positions have the same
slot exactly if page and offset are the same (`SlotsAreDistinct`), so rows with
private pages never overwrite each other; padding stays outside the pool for any
pool size (`PaddingLeavesThePool`); the page count and the length of the last page
describe exactly the positions of the row (`IndexCoversRow`). For any number of rows
FlashInfer reads through the CSR index what the naive backend gathers
(`BackendsReadTheSameSlots`): `indptr` are the running sums of the page counts, and the
pages of a row stand in the concatenation where its sum says. Both are recursive
functions over the rows, and their existence and their values are proved by taking
the largest number of rows for which the claim holds (`ReachesEnd`), which needs no
induction theorem with an operator parameter.

Then the contents. `ReadsOwnContext` speaks of one moment, while a batch runs;
`PagesInv` says of every point of a step where the K/V of a sequence are:

- While a batch is put together, its copies are still to come, and blocks change
  hands meanwhile: a victim's pages are given to the next sequence although nobody has
  copied them yet. So the tables are read against the caches as the forward pass
  *will* find them, `gpu` and `host`, which are the caches after the queued copies
  (`SwappedIn`, `SwappedOut`); a step that queues a copy changes `gpu` or `host` only
  in the blocks it leads to (`CopiedElsewhere`, `CopiedThere`).
- That is right only if no two copies lead to one block and no block is target of a
  copy in one direction and source in the other (`CopiesOK`): swapping out and in never
  happen in the same step, because victims close the way to `_swap_in`.
- A cache hit gives a sequence pages that it did not compute; what they hold is
  `PublishedIsContent`, which is therefore a conjunct of the invariant and not only its
  consequence. No copy and no write may change a published block: the target of a
  swap-in is never published (`CopiesOK`), and a row writes private pages only
  (`WritesArePrivate`).
- The forward pass writes tokens that `update()` has yet to count; `ComputedNow`
  has them until then.

The step lemmas are one per action (`EvictPages`, `SwapInPages`, `AdmitPages`,
`RunBatchPages`, `RunFailsPages`, `UpdatePages`, ...), `QuietStep` for those that touch
no page. `PagesAlwaysHold` is the invariant; `SequencesReadTheirOwnContext`,
`PublishedBlocksHoldTheirPrefix` and `HostPoolKeepsContexts` are the three properties of the runs.
A failed `execute` is included, with the copies done or not and the pages half
written: then every table is dropped before the next step, and only what
is published has to survive. The hypothesis on `update()` is the same as above.

**`Server_proofs`.** That every live request has a client who waits
(`EngineWorksForSomebody`) and that an answer is whole (`AnswersAreWhole`) for any
number of requests and outputs. The invariant ties four views of a request together:
the engine's (`live`, `made`), the queue between, the handler's stage, and the
client's (`received`, `ended`); the central part is that what was made is what was
received followed by what is in the queue, while nothing ended.

**`Sweep_proofs`.** No server is left over when the next starts, and none when the
sweep ends or raises (`OneServerAtATime`), for any number of configurations, rates
and requests: `OneServer` is inductive with the range of `config`, because `finally`
runs on every way out. And a record claims what arrived (`EveryRecordIsTrue`), for any
number of tokens and any cuts: the bytes that were sent but not read are a stretch of
the one long stream of the answer (symbol *j* is an event or one of its two line ends,
by *j* modulo 3), what `_send` keeps in its buffer is the unfinished event before that
stretch, and the record counts the events before the buffer.

**`Configuration_proofs`** is about the operators of `EngineConfig`, `Requests` and
`Startup`. `resolve` is idempotent; an accepted configuration fulfils
`Scheduler`'s `ConfigAssumption` on the budget; without chunking every prefill an
accepted request can ever need, generated tokens included, fits the budget, so a
victim of recomputation is never too large to come back (`EveryPrefillFits`).
Whatever `completions` answers with 200 fulfils what `Scheduler`
assumes of prompts and limits and `AppendToken` of stop strings; in particular
the second `validate`, in `add_request`, cannot raise where `generate` has
already registered the queue outside of its `try`. What a body leaves out gets the
default of its field (`with_defaults`): a prompt without `max_tokens` is served for 16
tokens or refused, and only an explicit `null` asks for all the room there is, which a
prompt that fills the context does not leave (`LimitsThatAreNotGiven`).
An engine that starts fulfils `BlockManager`'s `PoolAssumption`
whether its blocks are given or profiled (`StartedEngineFitsBlockManager`): the
profile refuses a pool without blocks, and a watermark below 1 rounds down to less
than the pool. The profiled pool is the largest that fits the memory budget, and
since `KVCache` adds a scratch block, the cache itself is past the budget by at
most one block (`CacheTakesTheBudget`). The dummy batch is the whole token budget,
without an empty part (`DummyBatchIsFull`). A checkpoint that loads has every tensor
in a parameter and every parameter filled, for any number of layers and with or
without a tied head (`LoadingIsStrict`); for that the names the loader builds are
those of the modules (`NamesAgree`). Utilization and watermark are fractions of a
`Unit` instead of floats.

Only model-checked: all of `AppendToken`. Out of the prover's reach: the liveness properties (`EveryRequestEnds`, `NobodyStranded`,
`SweepEnds`) and what a RECURSIVE operator computes for every input, the decoder `Text`.

## 5. Not modelled

- Numbers: attention, sampling from logits, the forward pass of Qwen3, graph
  capture. Only *which* slots are read and written is modelled, and the names
  and shapes of the weights.
- Statistics, timestamps, `num_cached_tokens`, the step log, `/health`, `/stats`,
  `/v1/models`, the text of responses, command lines, resolving a model id,
  parsing `config.json`.
- The memo in `seq.block_hashes` and the prefix-cache hit counters.
- pydantic's type checks, and NaN for a float field.
- In `Server`: shutdown, and the finished sequence that a failed `update` leaves
  in `running` (section 6, item 2, is about it in `Engine`).
- In `Sweep`: a foreign server that already holds the port, which `_wait_healthy`
  takes for its own; a server that lives and never answers, for which the client
  waits without a limit (`ClientTimeout(total=None)`); an exception out of `run_all`
  itself, as from writing the results, which takes the same way through `finally` as
  a server that does not come up. Arrival times, percentiles, `bench/workload.py` and `bench/plot.py`:
  random numbers and statistics of finished results, which promise nothing to be
  checked beyond the formulas themselves.

## 6. Where code and documentation disagree

1. `sched_budget`: prefill-priority decodes every running sequence whatever
   `max_batch_tokens` is (`engine/core/scheduler.py:242`); `resolve` demands
   `max_batch_tokens >= max_num_seqs` only with chunking. `engine/config.py:35`
   calls the value the "token budget per iteration" and the memory profile is
   made for it. With `max_num_seqs` 4 and a budget of 3 a batch has 4 tokens.
2. `engine_failed_update`: if `append_token` raises in `update()` after an earlier
   sequence of the batch finished, `running` is not filtered
   (`engine/core/scheduler.py:370`). The finished sequence is no longer in `seqs`,
   so `_fail_all` does not remove it; the next step schedules it again on fresh
   blocks with its old computed count and then publishes blocks that nobody
   computed. It also keeps `has_work()` true until a later `update()` finishes some
   sequence; if that is another one, it leaves `running` with its blocks still
   held, for good.
3. `server_early`: a disconnect handled before `generate()` has registered the
   request aborts nothing, and the engine then works for nobody until a
   cancellation gets through, although the class comment
   (`engine/api/server.py:104-110`) promises not to depend on that.

Read from the code and covered by no run of their own:

- Text that `flush()` adds when a request ends by length or at an end token is not
  searched for stop strings (`engine/core/sampler.py:140-141`), while
  `docs/DESIGN.md:246-248` describes the search without that exception.
  `StopOnlyInTail` bounds it: a stop string can remain only where it ends in that
  text.
- The diagram in `engine/core/sequence.py:5-12` lacks the way from WAITING or
  PREEMPTED to FINISHED that `_fail` takes; `Lifecycle` has it.
- The dummy batch of the profile (`engine/core/model_runner.py:189-193`) gives its
  longest sequence positions beyond the RoPE table if `max_batch_tokens` divided
  by `min(max_num_seqs, 16)` is above the model's context length, and nothing
  refuses such a configuration.
- `load_model` compares the shape of a fused tensor only, so q, k and v with the
  right sum of rows but other parts pass; and of a tensor stored in two files one
  copy is ignored without a word (`engine/model/loader.py:61`), although the module
  says that "every tensor in the checkpoint must be consumed".

## 7. Plan

The order of the modules follows the weight of what can go wrong.

1. `BlockPool`, its proofs, `BlockManager` with the refinement. Done.
2. `Scheduler` over `BlockManager`, both modes and both kinds of preemption. Done.
3. `Engine`: page contents, layout, padding. Done.
4. `Server`, `AppendToken`, `EngineConfig`, `Requests`. Done.
5. `WaitingQueue`, as a part of `Scheduler`. Done.
6. `Lifecycle`, which `Scheduler` implements. Done.
7. `AppendToken` with the text of `flush` set against the stop strings. Done.
8. `Stream` and `Sweep`; `Startup` with loading and the profile. Done.
9. Proofs: `BlockManager` and its refinement, `Server`, `Sweep`, the queues and the
   batch of `Scheduler`, its refinement of `Lifecycle`, the pool under it, the
   page contents of `Engine`, the budget and the progress of a step. Done.
10. The nucleus of the sampler (top-p) as a pure operator against its definition.

Composition: `Engine` extends `Scheduler`, which extends `BlockManager` and `WaitingQueue`; `Sweep`
extends `Stream`, and `Startup` and `Requests` `EngineConfig`; `Server`
stands beside them and uses `EveryRequestEnds` as its assumption on the engine.
