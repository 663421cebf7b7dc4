----------------------------- MODULE Scheduler ------------------------------
(***************************************************************************)
(* engine/core/scheduler.py with the step loop of engine/core/engine.py:   *)
(* which sequences run in each iteration, how many tokens each computes,   *)
(* who is preempted when blocks run out and when victims come back.        *)
(*                                                                         *)
(* LLMEngine.step is synchronous: requests are added and aborted only      *)
(* between steps (pc = "idle"), and a step runs to its end through the     *)
(* loops of schedule(), the forward pass and update().  One iteration of a *)
(* loop is one action, so every state the code passes through is a state   *)
(* here; pc and the loop variables say where the code is.                  *)
(*                                                                         *)
(* The waiting requests are in module WaitingQueue.                        *)
(***************************************************************************)
EXTENDS BlockManager, WaitingQueue

CONSTANTS Chunked,        \* enable_chunked_prefill
          SwapMode,       \* preemption_mode = "swap"
          MaxNumSeqs,     \* max_num_seqs
          MaxBatchTokens, \* max_batch_tokens, as resolved
          MaxModelLen,    \* max_model_len
          Tokens,         \* token ids the model may sample
          MaxTokens,      \* sequence -> sampling_params.max_tokens
          FailPoints      \* where step may raise: "execute", "update"

\* EngineConfig.resolve and LLMEngine.validate.
ASSUME ConfigAssumption ==
  /\ Chunked \in BOOLEAN /\ SwapMode \in BOOLEAN
  /\ IsFiniteSet(Seqs)
  /\ MaxNumSeqs \in Nat \ {0} /\ MaxModelLen \in Nat /\ MaxBatchTokens \in Nat
  /\ MaxBatchTokens >= IF Chunked THEN MaxNumSeqs ELSE MaxModelLen
  /\ SwapMode \/ NumCpuBlocks = 0
  /\ None \notin {"stop", "length", "error"}
  /\ FailPoints \subseteq {"execute", "update"}
  /\ Prompt \in [Seqs -> Seq(Tokens) \ {<<>>}] /\ MaxTokens \in [Seqs -> Nat \ {0}]
  /\ \A s \in Seqs : Len(Prompt[s]) + MaxTokens[s] <= MaxModelLen

\* Python's None is no block and no digest.
ASSUME NoneAssumption ==
  None \notin Blocks /\ \A len \in 1..MaxModelLen : None \notin [1..len -> Tokens]

VARIABLES status,         \* SequenceStatus, "NEW" before the request arrives
          finish_reason,
          seqs,           \* every live sequence
          preempted, running, swapped,
          outputs,        \* _outputs: failures to report with the next step
          \* local to a step
          pc,             \* "idle", the loop the step is in, "fail_all" or "stuck"
          batch,          \* ScheduledBatch
          plan,           \* what _plan_running_tokens returned
          budget,         \* token budget left to _swap_in and _admit
          i               \* index into running, then into batch.seqs

waitingVars == <<heap, waiting>>
queueVars == <<seqs, waitingVars, preempted, running, swapped>>
poolVars == <<gpuVars, cpuVars, num_registered_blocks>>
seqVars == <<status, finish_reason, arrival, token_ids, num_computed_tokens>>
stepVars == <<pc, batch, plan, budget, i>>
vars == <<poolVars, seqVars, queueVars, outputs, stepVars>>

NoPlan == [s \in Seqs |-> 0]
EmptyBatch == [seqs |-> <<>>, swap_out |-> <<>>, swap_in |-> <<>>, num_preempted |-> 0]

Init ==
  /\ BlockManagerInit
  /\ token_ids = Prompt
  /\ status = [s \in Seqs |-> "NEW"]
  /\ finish_reason = [s \in Seqs |-> None]
  /\ arrival = [s \in Seqs |-> 0]
  /\ QueueInit
  /\ seqs = {} /\ preempted = <<>> /\ running = <<>> /\ swapped = <<>>
  /\ outputs = {}
  /\ pc = "idle" /\ batch = EmptyBatch /\ plan = NoPlan /\ budget = 0 /\ i = 1

has_work == running # <<>> \/ swapped # <<>> \/ preempted # <<>> \/ waiting # {}

SetStatus(s, new) == status' = [status EXCEPT ![s] = new]

\* A queue without s.
Without(queue, s) == Filter(queue, Seqs \ {s})

\* The sum of the values of f, as a count of pairs.
Total(f) == Cardinality(UNION {{x} \X (1..f[x]) : x \in DOMAIN f})

-----------------------------------------------------------------------------
\* Requests, between steps.

add(s) ==
  /\ pc = "idle" /\ status[s] = "NEW"
  /\ SetStatus(s, "WAITING")
  /\ arrival' = [arrival EXCEPT ![s] = Cardinality({r \in Seqs : status[r] # "NEW"})]
  /\ seqs' = seqs \cup {s}
  /\ push(s)
  /\ UNCHANGED <<poolVars, finish_reason, token_ids, num_computed_tokens,
                 preempted, running, swapped, outputs, stepVars>>

abort(s) ==
  /\ s \in seqs
  /\ seqs' = seqs \ {s}
  /\ SetStatus(s, "ABORTED")
  /\ \/ /\ status[s] = "RUNNING"
        /\ running' = Without(running, s)
        /\ free(s)
        /\ UNCHANGED <<cpuVars, waitingVars, preempted, swapped>>
     \/ /\ status[s] # "RUNNING" /\ cpu_block_table[s] # <<>>
        /\ swapped' = Without(swapped, s)
        /\ free_cpu(s)
        /\ UNCHANGED <<gpuVars, num_registered_blocks, waitingVars, preempted, running>>
     \/ /\ status[s] = "PREEMPTED" /\ cpu_block_table[s] = <<>>
        /\ preempted' = Without(preempted, s)
        /\ UNCHANGED <<poolVars, waitingVars, running, swapped>>
     \/ /\ status[s] = "WAITING" /\ cpu_block_table[s] = <<>>
        /\ remove(s)
        /\ UNCHANGED <<poolVars, preempted, running, swapped>>
  /\ UNCHANGED <<finish_reason, arrival, token_ids, num_computed_tokens, outputs, stepVars>>

\* A client gives its request up.
AbortRequest(s) == pc = "idle" /\ abort(s)

-----------------------------------------------------------------------------
\* schedule()

\* _plan_running_tokens: what each running sequence may compute in this step.
\* Decodes get their token first; prefills share what is left, oldest first.
running_plan ==
  LET decodes == {s \in Range(running) : num_uncomputed_tokens(s) = 1}
      prefills(k) == {running[j] : j \in 1..k} \ decodes
      left(k) == MaxBatchTokens - Cardinality(decodes)
                   - Total([s \in prefills(k) |-> num_uncomputed_tokens(s)])
      position(s) == CHOOSE k \in DOMAIN running : running[k] = s
  IN [s \in Seqs |-> IF s \notin Range(running) THEN 0
                     ELSE IF ~Chunked \/ s \in decodes THEN 1
                     ELSE Max({0, Min({num_uncomputed_tokens(s), left(position(s) - 1)})})]

BeginRunning == pc' = "running" /\ i' = 1 /\ plan' = running_plan

\* step() enters schedule(): the prefill-priority mode tries admission first,
\* unless something is swapped out.
BeginStep ==
  /\ pc = "idle" /\ has_work
  /\ batch' = EmptyBatch /\ budget' = MaxBatchTokens
  /\ IF ~Chunked /\ swapped = <<>> THEN pc' = "admit" /\ UNCHANGED <<plan, i>>
                                   ELSE BeginRunning
  /\ UNCHANGED <<poolVars, seqVars, queueVars, outputs>>

\* Mutant: every sequence of a batch samples.
BatchAddSampling(s, n, computed) == Append(batch.seqs, [seq |-> s, n |-> n, sample |-> TRUE])

\* ScheduledBatch.add
BatchAdd(s, n, computed) ==
  Append(batch.seqs, [seq |-> s, n |-> n, sample |-> computed + n = num_tokens(s)])

\* _fail, whichever queue the caller took s from.
Fail(s) ==
  /\ IF block_table[s] # <<>> THEN free(s)
                              ELSE UNCHANGED <<gpuVars, num_registered_blocks>>
  /\ IF cpu_block_table[s] # <<>> THEN free_cpu(s) ELSE UNCHANGED cpuVars
  /\ SetStatus(s, "FINISHED")
  /\ finish_reason' = [finish_reason EXCEPT ![s] = "error"]
  /\ seqs' = seqs \ {s}
  /\ outputs' = outputs \cup {s}
  /\ UNCHANGED <<arrival, token_ids, num_computed_tokens>>

\* _preempt: swap the victim out, or drop its blocks and redo its prefill.
Preempt(s) ==
  LET swap == SwapMode /\ can_swap_out(s) IN
  /\ SetStatus(s, "PREEMPTED")
  /\ IF swap
     THEN /\ swap_out(s)
          /\ swapped' = <<s>> \o swapped
          /\ UNCHANGED <<preempted, num_computed_tokens>>
     ELSE /\ free(s)
          /\ num_computed_tokens' = [num_computed_tokens EXCEPT ![s] = 0]
          /\ preempted' = <<s>> \o preempted
          /\ UNCHANGED <<cpuVars, swapped>>
  /\ batch' = [batch EXCEPT !.num_preempted = @ + 1,
                            !.swap_out = @ \o IF swap THEN SwapOutPairs(s) ELSE <<>>]
  /\ UNCHANGED <<seqs, waitingVars, finish_reason, arrival, token_ids, outputs>>

\* The sequence _schedule_running is at.
current == running[i]
Scheduling == pc = "running" /\ i <= Len(running)

\* With n = 0 it has nothing to do in this step.
ScheduleRunning ==
  /\ Scheduling
  /\ LET n == plan[current] IN
     IF n = 0 THEN UNCHANGED <<gpuVars, batch>>
     ELSE /\ can_append(current, n)
          /\ append_slots(current, n)
          /\ batch' = [batch EXCEPT !.seqs = BatchAdd(current, n, num_computed_tokens[current])]
  /\ i' = i + 1
  /\ UNCHANGED <<cpuVars, num_registered_blocks, seqVars, queueVars, outputs, pc, plan, budget>>

OutOfBlocks == Scheduling /\ plan[current] > 0 /\ ~can_append(current, plan[current])

\* Mutant: the oldest running sequence makes room.
oldest == Head(running)

\* The newest running sequence makes room, be it the current one.
victim == Last(running)

Evict ==
  /\ OutOfBlocks /\ Len(running) > 1
  /\ Preempt(victim)
  /\ running' = Without(running, victim)
  /\ UNCHANGED <<pc, plan, budget, i>>

\* Alone and out of blocks: nobody can make room.
FailAlone ==
  /\ OutOfBlocks /\ Len(running) = 1
  /\ Fail(current)
  /\ running' = <<>>
  /\ UNCHANGED <<waitingVars, preempted, swapped, stepVars>>

batch_tokens == Total([k \in DOMAIN batch.seqs |-> batch.seqs[k].n])

\* Mutant: what the running sequences use is not taken off the budget.
whole_budget == MaxBatchTokens

budget_left == MaxBatchTokens - batch_tokens

EndRunning ==
  /\ pc = "running" /\ i > Len(running)
  /\ pc' = IF batch.num_preempted = 0 THEN "swap_in" ELSE "execute"
  /\ budget' = IF Chunked /\ batch.num_preempted = 0 THEN budget_left ELSE 0
  /\ plan' = NoPlan /\ i' = 1
  /\ UNCHANGED <<poolVars, seqVars, queueVars, outputs, batch>>

-----------------------------------------------------------------------------
\* _swap_in: the oldest victim in host memory.
SwappingIn == pc = "swap_in" /\ swapped # <<>> /\ Len(running) < MaxNumSeqs

\* Mutant: a decode has nothing to compute when it comes back.
swap_in_prefill_tokens ==
  LET n == num_uncomputed_tokens(Head(swapped)) - 1 IN
  IF Chunked THEN Min({n, budget}) ELSE n

swap_in_tokens ==
  LET n == num_uncomputed_tokens(Head(swapped)) IN
  IF Chunked THEN Min({n, budget}) ELSE n

SwapInFits == can_swap_in(Head(swapped), swap_in_tokens, running # <<>>)

\* Mutant: a victim that does not fit waits, even if nobody else runs.
never_hopeless == FALSE

\* Nobody will make room for the victim.
hopeless == ~SwapInFits /\ running = <<>>

SwapIn ==
  LET s == Head(swapped)
      n == swap_in_tokens
  IN
  /\ SwappingIn /\ n > 0 /\ SwapInFits
  /\ swap_in(s, n)
  /\ swapped' = Tail(swapped)
  /\ running' = Append(running, s)
  /\ SetStatus(s, "RUNNING")
  /\ batch' = [batch EXCEPT !.seqs = BatchAdd(s, n, num_computed_tokens[s]),
                            !.swap_in = @ \o SwapInPairs(s)]
  /\ budget' = IF Chunked THEN budget - n ELSE budget
  /\ UNCHANGED <<finish_reason, arrival, token_ids, num_computed_tokens, seqs, waitingVars,
                 preempted, outputs, pc, plan, i>>

FailSwapIn ==
  /\ SwappingIn /\ swap_in_tokens > 0 /\ hopeless
  /\ Fail(Head(swapped))
  /\ swapped' = Tail(swapped)
  /\ UNCHANGED <<waitingVars, preempted, running, stepVars>>

EndSwapIn ==
  /\ pc = "swap_in"
  /\ SwappingIn => swap_in_tokens <= 0 \/ (~SwapInFits /\ ~hopeless)
  /\ IF Chunked /\ swapped = <<>> THEN pc' = "admit" /\ UNCHANGED budget
                                 ELSE pc' = "execute" /\ budget' = 0
  /\ UNCHANGED <<poolVars, seqVars, queueVars, outputs, batch, plan, i>>

-----------------------------------------------------------------------------
\* _admit: recompute victims first, then the waiting queue.
Admitting ==
  /\ pc = "admit" /\ budget > 0 /\ Len(running) < MaxNumSeqs
  /\ preempted # <<>> \/ waiting # {}

candidate == IF preempted # <<>> THEN Head(preempted) ELSE peek
\* Mutant: a request that needs the whole pool is refused.
oversized_at_pool == blocks_for(num_tokens(candidate)) >= NumBlocks

oversized == blocks_for(num_tokens(candidate)) > NumBlocks

\* Mutant: chunks of a block at a time, for several prompts.
admit_block(cached) ==
  LET remaining == num_tokens(candidate) - Len(cached) * BlockSize IN
  IF Chunked THEN Min({remaining, budget, BlockSize}) ELSE remaining

\* How many tokens the candidate would compute behind its cached prefix.
admit_tokens(cached) ==
  LET remaining == num_tokens(candidate) - Len(cached) * BlockSize IN
  IF Chunked THEN Min({remaining, budget}) ELSE remaining

\* Mutant: the watermark is kept back even when nothing runs.
AdmitFitsAboveWatermark ==
  LET cached == cached_prefix(candidate) IN
  /\ admit_tokens(cached) <= budget
  /\ can_allocate(candidate, admit_tokens(cached), cached, TRUE)

AdmitFits ==
  LET cached == cached_prefix(candidate) IN
  /\ admit_tokens(cached) <= budget
  /\ can_allocate(candidate, admit_tokens(cached), cached, running # <<>>)

\* Mutant: a readmitted victim stays in its queue.
PopWaitingOnly == remove(candidate) /\ UNCHANGED preempted

PopWaiting ==
  IF preempted # <<>> THEN preempted' = Tail(preempted) /\ UNCHANGED waitingVars
                      ELSE pop /\ UNCHANGED preempted

Admit ==
  LET s == candidate
      cached == cached_prefix(s)
      n == admit_tokens(cached)
  IN
  /\ Admitting /\ ~oversized /\ AdmitFits
  /\ PopWaiting
  /\ allocate(s, n, cached)
  /\ running' = Append(running, s)
  /\ SetStatus(s, "RUNNING")
  /\ batch' = [batch EXCEPT !.seqs = BatchAdd(s, n, Len(cached) * BlockSize)]
  /\ budget' = budget - n
  /\ UNCHANGED <<cpuVars, finish_reason, arrival, token_ids, seqs, swapped, outputs, pc,
                 plan, i>>

FailAdmit ==
  /\ Admitting /\ oversized
  /\ PopWaiting
  /\ Fail(candidate)
  /\ UNCHANGED <<running, swapped, stepVars>>

\* Prefill-priority returns a batch of prefills or goes on to the decodes.  The
\* loop may have looked at the waiting queue before it gave up.
EndAdmit ==
  /\ pc = "admit"
  /\ Admitting => ~oversized /\ ~AdmitFits
  /\ IF budget > 0 /\ Len(running) < MaxNumSeqs /\ preempted = <<>>
     THEN heap' = heap_peeked /\ UNCHANGED waiting ELSE UNCHANGED waitingVars
  /\ IF Chunked \/ batch.seqs # <<>> THEN pc' = "execute" /\ UNCHANGED <<plan, i>>
                                     ELSE BeginRunning
  /\ budget' = 0
  /\ UNCHANGED <<poolVars, seqVars, seqs, preempted, running, swapped, outputs, batch>>

-----------------------------------------------------------------------------
batch_is_empty == batch.seqs = <<>> /\ batch.swap_out = <<>> /\ batch.swap_in = <<>>

\* A step without a batch reports the failures, or raises if nothing happened
\* with work pending.
EmptyStep ==
  /\ pc = "execute" /\ batch_is_empty
  /\ pc' = IF outputs = {} /\ has_work THEN "stuck" ELSE "idle"
  /\ outputs' = {}
  /\ batch' = EmptyBatch
  /\ UNCHANGED <<poolVars, seqVars, queueVars, plan, budget, i>>

\* The forward pass; update() starts by taking the pending outputs.
Execute ==
  /\ pc = "execute" /\ ~batch_is_empty
  /\ IF batch.seqs = <<>> THEN pc' = "idle" /\ batch' = EmptyBatch
                          ELSE pc' = "update" /\ UNCHANGED batch
  /\ outputs' = {}
  /\ UNCHANGED <<poolVars, seqVars, queueVars, plan, budget, i>>

\* What append_token may return for the next token of s: any token can be an
\* end-of-sequence token or complete a stop string.
finish_choices(s) ==
  LET len == num_tokens(s) + 1 IN
  IF len - Len(Prompt[s]) >= MaxTokens[s] \/ len >= MaxModelLen THEN {"stop", "length"}
                                                                  ELSE {"stop", None}

\* Some sequence of the batch gave its blocks back by the end of this action.
any_finished == \E e \in Range(batch.seqs) : block_table'[e.seq] = <<>>

\* update() for one sequence of the batch; the last one ends the step, and if
\* any finished, the finished sequences leave `running`.
Update ==
  LET e == batch.seqs[i]
      s == e.seq
      computed == num_computed_tokens[s] + e.n
      last == i = Len(batch.seqs)
  IN
  /\ pc = "update"
  /\ num_computed_tokens' = [num_computed_tokens EXCEPT ![s] = computed]
  /\ cache_full_blocks(s, computed)
  /\ \/ /\ ~e.sample
        /\ num_registered_blocks' = [num_registered_blocks EXCEPT ![s] = Registered(s, computed)]
        /\ UNCHANGED <<free_blocks, evictable, ref_counts, block_table, status,
                       finish_reason, seqs, token_ids>>
     \/ /\ e.sample
        /\ \E t \in Tokens : token_ids' = [token_ids EXCEPT ![s] = Append(@, t)]
        /\ \E finish \in finish_choices(s) :
             IF finish = None
             THEN /\ num_registered_blocks' = [num_registered_blocks EXCEPT ![s] = Registered(s, computed)]
                  /\ UNCHANGED <<free_blocks, evictable, ref_counts, block_table, status,
                                 finish_reason, seqs>>
             ELSE /\ SetStatus(s, "FINISHED")
                  /\ finish_reason' = [finish_reason EXCEPT ![s] = finish]
                  /\ seqs' = seqs \ {s}
                  /\ Release(s) /\ Unregister(s)
  /\ IF last THEN /\ running' = IF any_finished THEN Filter(running, {r \in Seqs : status'[r] = "RUNNING"})
                                                  ELSE running
                  /\ pc' = "idle" /\ batch' = EmptyBatch /\ i' = 1
             ELSE /\ i' = i + 1
                  /\ UNCHANGED <<running, pc, batch>>
  /\ UNCHANGED <<cpuVars, arrival, waitingVars, preempted, swapped, outputs, plan, budget>>

-----------------------------------------------------------------------------
\* A step that raises: the batch is lost, run_loop catches the exception and
\* _fail_all aborts every request before it goes on.

\* The GPU fails, before or in the middle of the copies and the forward pass.
ExecuteFails ==
  /\ pc = "execute" /\ ~batch_is_empty /\ "execute" \in FailPoints
  /\ pc' = "fail_all" /\ batch' = EmptyBatch
  /\ UNCHANGED <<poolVars, seqVars, queueVars, outputs, plan, budget, i>>

\* append_token of one sequence raises in the detokenizer, after earlier
\* sequences of the batch were updated.
UpdateFails ==
  LET e == batch.seqs[i]
      s == e.seq
      computed == num_computed_tokens[s] + e.n
  IN
  /\ pc = "update" /\ e.sample /\ "update" \in FailPoints
  /\ num_computed_tokens' = [num_computed_tokens EXCEPT ![s] = computed]
  /\ cache_full_blocks(s, computed)
  /\ num_registered_blocks' = [num_registered_blocks EXCEPT ![s] = Registered(s, computed)]
  /\ \E t \in Tokens : token_ids' = [token_ids EXCEPT ![s] = Append(@, t)]
  /\ pc' = "fail_all" /\ batch' = EmptyBatch /\ i' = 1
  /\ UNCHANGED <<free_blocks, evictable, ref_counts, block_table, cpuVars, status,
                 finish_reason, arrival, queueVars, outputs, plan, budget>>

FailOne(s) == pc = "fail_all" /\ abort(s)

EndFailAll ==
  /\ pc = "fail_all" /\ seqs = {}
  /\ pc' = "idle"
  /\ UNCHANGED <<poolVars, seqVars, queueVars, outputs, batch, plan, budget, i>>

-----------------------------------------------------------------------------
\* What a step does outside of the model runner.
Bookkeep ==
  \/ BeginStep
  \/ ScheduleRunning \/ Evict \/ FailAlone \/ EndRunning
  \/ SwapIn \/ FailSwapIn \/ EndSwapIn
  \/ Admit \/ FailAdmit \/ EndAdmit
  \/ EmptyStep \/ Update
  \/ UpdateFails \/ (\E s \in Seqs : FailOne(s)) \/ EndFailAll

Step == Bookkeep \/ Execute \/ ExecuteFails

Request == \E s \in Seqs : add(s) \/ AbortRequest(s)

Next == Step \/ Request

Spec == Init /\ [][Next]_vars

\* AsyncEngine.run_loop and LLMEngine.generate call step as long as has_work,
\* and a step runs to its end; nobody has to send or abort requests.
FairSpec == Spec /\ WF_vars(Step)

-----------------------------------------------------------------------------
TypeOK ==
  /\ BlockManagerTypeOK
  /\ status \in [Seqs -> {"NEW", "WAITING", "RUNNING", "PREEMPTED", "FINISHED", "ABORTED"}]
  /\ finish_reason \in [Seqs -> {None, "stop", "length", "error"}]
  /\ arrival \in [Seqs -> Nat]
  /\ token_ids \in [Seqs -> Seq(Tokens)]
  /\ seqs \subseteq Seqs /\ waiting \subseteq heap /\ heap \subseteq Seqs
  /\ preempted \in Seq(Seqs) /\ running \in Seq(Seqs) /\ swapped \in Seq(Seqs)
  /\ outputs \subseteq Seqs
  /\ pc \in {"idle", "running", "swap_in", "admit", "execute", "update", "fail_all", "stuck"}
  /\ batch \in [seqs : Seq([seq : Seqs, n : Nat, sample : BOOLEAN]),
                swap_out : Seq(Blocks \X CpuBlocks), swap_in : Seq(CpuBlocks \X Blocks),
                num_preempted : Nat]
  /\ plan \in [Seqs -> Nat] /\ budget \in Int /\ i \in Nat

\* Scheduler.check_invariants at every point of a step, not only at its end:
\* each live sequence is in exactly one queue, the one of its status, with the
\* blocks that queue implies, and sequences in no queue hold none.
QueuesAgree ==
  LET queue == running \o swapped \o preempted IN
  /\ IsInjective(queue) /\ waiting \cap Range(queue) = {}
  /\ Len(running) <= MaxNumSeqs
  /\ \A s \in Seqs :
       /\ s \in seqs <=> status[s] \in {"WAITING", "RUNNING", "PREEMPTED"}
       /\ s \in waiting <=> status[s] = "WAITING"
       /\ s \in Range(swapped \o preempted) <=> status[s] = "PREEMPTED"
       /\ status[s] = "RUNNING" => s \in Range(running)
       /\ cpu_block_table[s] # <<>> <=> s \in Range(swapped)
       /\ block_table[s] # <<>> <=> status[s] = "RUNNING"
       /\ s \in waiting \cup Range(preempted) => num_computed_tokens[s] = 0
       /\ pc # "update" /\ s \in Range(running) => status[s] = "RUNNING" /\ num_uncomputed_tokens(s) >= 1

\* Between steps a running sequence holds exactly the blocks of its computed
\* tokens, a swapped one has all of them in host memory, and the pool has the
\* rest: nothing leaks over any series of failures, aborts and preemptions.
BlocksAccounted == pc = "idle" =>
  /\ \A s \in Range(running) : Len(block_table[s]) = blocks_for(num_computed_tokens[s])
  /\ \A s \in Range(swapped) : Len(cpu_block_table[s]) = blocks_for(num_computed_tokens[s])
  /\ num_free_blocks + Cardinality(UNION {Range(block_table[s]) : s \in Seqs}) = NumBlocks
  /\ Len(cpu_free) + Total([s \in Seqs |-> Len(cpu_block_table[s])]) = NumCpuBlocks

\* Whatever is preempted or failed while the batch is put together, the batch
\* holds running sequences only, each once, with slots for its tokens.
BatchHasSlots == pc # "update" =>
  \A k \in DOMAIN batch.seqs :
    LET s == batch.seqs[k].seq IN
    /\ status[s] = "RUNNING"
    /\ \A j \in DOMAIN batch.seqs : batch.seqs[j].seq = s => j = k
    /\ Len(block_table[s]) = blocks_for(num_computed_tokens[s] + batch.seqs[k].n)

\* The forward pass writes K/V only into blocks that one sequence holds and the
\* prefix cache does not know.
WritesArePrivate == pc = "execute" =>
  \A k \in DOMAIN batch.seqs :
    LET s == batch.seqs[k].seq
        computed == num_computed_tokens[s]
    IN \A p \in computed .. computed + batch.seqs[k].n - 1 :
         LET b == block_table[s][p \div BlockSize + 1] IN
         ref_counts[b] = 1 /\ block_hash[b] = None

\* A request fails only if the whole pool could not hold its tokens: never
\* because others hold blocks, nor because of when it was preempted.
FailsOnlyIfTooLarge == \A s \in Seqs :
  finish_reason[s] = "error" => blocks_for(num_tokens(s)) > NumBlocks

\* The watchdog of step() never fires: with work pending a step does something.
NeverStuck == pc # "stuck"

\* With arrival-order admission, no request ever gets ahead of an older one:
\* running, then the victims, then waiting is by arrival, through any series of
\* preemptions.  (Not so if full host memory makes swapping fall back to
\* recomputation: swapped victims come back before recomputed ones.)
FirstComeFirstServed ==
  LET queue == running \o swapped \o preempted IN
  /\ \A j, k \in DOMAIN queue : j < k => arrival[queue[j]] < arrival[queue[k]]
  /\ \A j \in DOMAIN queue : \A s \in waiting : arrival[queue[j]] < arrival[s]

\* Who left the waiting queue to be run.
Served == {s \in Seqs : status[s] \in {"RUNNING", "PREEMPTED", "FINISHED"}}

\* Nobody is served before a request that came earlier and still waits, unless
\* the policy means it: a heap whose keys are never updated gives the order of
\* priorities that age (scheduler.py, WaitingQueue), whatever was aborted,
\* failed or preempted since.
OvertakingIsEarned == \A s \in waiting : \A r \in Served :
  arrival[r] > arrival[s] => may_overtake(r, s)

\* "At most one sequence is ever mid-prefill and it is always the newest"
\* (docs/DESIGN.md): chunks are not spread over several prompts.
OnePrefill == pc = "idle" =>
  \A k \in DOMAIN running : num_uncomputed_tokens(running[k]) > 1 => k = Len(running)

\* Chunked steps leave no running sequence out, whatever is preempted or
\* admitted beside it: "the decodes always fit", and the budget they leave is
\* never used up before the one sequence that is mid-prefill.
EveryRunningAdvances == Chunked /\ pc = "execute" =>
  Range(running) = {batch.seqs[k].seq : k \in DOMAIN batch.seqs}

\* "token budget per iteration" (config.py): a batch fits max_batch_tokens, the
\* size the runner's buffers and memory profile are made for.
WithinBudget == pc = "execute" => batch_tokens <= MaxBatchTokens

\* Every request ends: it finishes, fails or is aborted, however often it is
\* preempted on the way.
EveryRequestEnds == \A s \in Seqs :
  status[s] = "WAITING" ~> status[s] \in {"FINISHED", "ABORTED"}

\* Whatever is scheduled, chunked, preempted, swapped, failed or aborted, each
\* request goes through the states of sequence.py: its tokens grow one at a time
\* behind a complete context, nothing sampled is lost, and its end is final.
Promise == INSTANCE Lifecycle WITH
  PromptLen <- [s \in Seqs |-> Len(Prompt[s])],
  MaxLen <- [s \in Seqs |-> Min({Len(Prompt[s]) + MaxTokens[s], MaxModelLen})],
  tokens <- [s \in Seqs |-> num_tokens(s)],
  computed <- num_computed_tokens

ImplementsLifecycle == Promise!Spec
=============================================================================
