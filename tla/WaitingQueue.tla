----------------------------- MODULE WaitingQueue -----------------------------
(***************************************************************************)
(* WaitingQueue of engine/core/scheduler.py: new requests in the order of  *)
(* the admission policy.                                                   *)
(*                                                                         *)
(* The heap keeps the entries of aborted requests until they come to its   *)
(* top; `_live`, here `waiting`, says which entries still count.  heapq is *)
(* a set with a least element: a sequence id is pushed once and never used *)
(* again, so an entry is its sequence.                                     *)
(*                                                                         *)
(* arrival is the number push takes from the counter, and stands for       *)
(* arrival_time too.  The server stamps arrival_time when it makes the     *)
(* sequence and pushes it a task switch or more later, so two requests     *)
(* made close together may be pushed in the other order: here the one      *)
(* pushed first has arrived first.                                         *)
(***************************************************************************)
EXTENDS Integers, Sequences

CONSTANTS Policy,    \* admission_policy
          AgingRate, \* aging_rate, priority points per arrival
          Prompt,    \* sequence -> prompt_token_ids
          Priority   \* priority of the sequences that were given one

ASSUME PolicyAssumption ==
  /\ Policy \in {"fcfs", "sjf", "priority"} /\ AgingRate \in Nat
  /\ \A s \in DOMAIN Priority : Priority[s] \in Int

VARIABLES arrival, \* arrival_time
          heap,    \* _heap
          waiting  \* _live

priority_key(s) == IF s \in DOMAIN Priority THEN Priority[s] ELSE Len(Prompt[s])

\* Mutant: nobody gains by waiting.
key_unaged(s) == CASE Policy = "fcfs" -> arrival[s]
                   [] Policy = "sjf" -> Len(Prompt[s])
                   [] Policy = "priority" -> priority_key(s)

\* _key without the arrival that breaks its ties.
key(s) == CASE Policy = "fcfs" -> arrival[s]
            [] Policy = "sjf" -> Len(Prompt[s])
            [] Policy = "priority" -> priority_key(s) + AgingRate * arrival[s]

\* Mutant: a heap with its greatest entry on top.
After(s, r) == key(s) > key(r) \/ (key(s) = key(r) /\ arrival[s] > arrival[r])

\* The order of the heap's tuples.
Before(s, r) == key(s) < key(r) \/ (key(s) = key(r) /\ arrival[s] < arrival[r])

Top(entries) == CHOOSE s \in entries : \A r \in entries \ {s} : Before(s, r)

\* Mutant: peek trusts the top of the heap.
no_stale == {}

\* The entries peek drops: dead, and ahead of every live one.
stale == {s \in heap \ waiting : \A r \in waiting : Before(s, r)}

peek == Top(heap \ stale)

\* `_heap` after peek, and after pop.
heap_peeked == heap \ stale
heap_popped == heap \ (stale \cup {peek})

QueueInit == heap = {} /\ waiting = {}

push(s) == heap' = heap \cup {s} /\ waiting' = waiting \cup {s}

pop == heap' = heap_popped /\ waiting' = waiting \ {peek}

\* Only `_live` forgets the request.
remove(s) == waiting' = waiting \ {s} /\ UNCHANGED heap

\* What the policy means by priority: a request gains AgingRate points for
\* every arrival it has waited since.
effective_priority(s, now) == priority_key(s) - AgingRate * (now - arrival[s])

\* What lets r get ahead of s, which waited before r came: a shorter prompt, or
\* a priority better than the one s had gained by then.
may_overtake(r, s) ==
  \/ Policy = "sjf" /\ Len(Prompt[r]) < Len(Prompt[s])
  \/ Policy = "priority" /\ effective_priority(r, arrival[r]) < effective_priority(s, arrival[r])

\* Lazy deletion is never seen: peek returns the request that the policy puts
\* first among those that still wait, whatever was aborted before it.
PeekIsFirst == waiting # {} =>
  peek \in waiting /\ \A r \in waiting \ {peek} : Before(peek, r)
=============================================================================
