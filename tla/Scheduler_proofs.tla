-------------------------- MODULE Scheduler_proofs ---------------------------
(***************************************************************************)
(* Scheduler, for any requests, pool, policy and mode: the order of the    *)
(* waiting queue; the agreement of queues, statuses, blocks and batch at   *)
(* every point of a step; the promise of Lifecycle.  Then the pool: the    *)
(* scheduler is a client that keeps the block manager's contract, so       *)
(* BlockManagerClient's invariants are the scheduler's; from these, that   *)
(* writes are private, blocks are accounted for, only what the pool can    *)
(* never hold fails, and every variable keeps its type.  Last, the budget  *)
(* of a step, and that a step with work pending does something.            *)
(***************************************************************************)
EXTENDS Scheduler, BlockManager_proofs, FunctionTheorems

-----------------------------------------------------------------------------
\* The waiting queue: why a heap with keys fixed at arrival, from which aborted
\* entries are removed late, is the queue that the policies describe.

\* What the scheduler keeps true of the queue: every live request has its
\* entry, and no two requests arrive at once.
QueueOK ==
  /\ IsFiniteSet(heap) /\ waiting \subseteq heap
  /\ \A s \in heap : arrival[s] \in Nat /\ Len(Prompt[s]) \in Nat
  /\ \A s, r \in heap : arrival[s] = arrival[r] => s = r

LEMMA KeyIsInt ==
  ASSUME QueueOK, NEW s \in heap
  PROVE  key(s) \in Int /\ priority_key(s) \in Int /\ arrival[s] \in Int
<1>1. Len(Prompt[s]) \in Int /\ arrival[s] \in Int
  BY DEF QueueOK
<1>2. priority_key(s) \in Int
  BY <1>1, PolicyAssumption DEF priority_key
<1>3. AgingRate * arrival[s] \in Int
  BY <1>1, PolicyAssumption
<1>4. CASE Policy = "fcfs"
  BY <1>1, <1>2, <1>4 DEF key
<1>5. CASE Policy = "sjf"
  BY <1>1, <1>2, <1>5 DEF key
<1>6. CASE Policy = "priority"
  BY <1>1, <1>2, <1>3, <1>6 DEF key
<1> QED BY <1>4, <1>5, <1>6, PolicyAssumption

\* The tuples of the heap are totally ordered, so the order in which requests
\* leave does not depend on how the heap is laid out.
THEOREM EntriesAreOrdered ==
  ASSUME QueueOK
  PROVE  /\ \A s \in heap : ~Before(s, s)
         /\ \A s, r \in heap : s # r => Before(s, r) \/ Before(r, s)
         /\ \A s, r, t \in heap : Before(s, r) /\ Before(r, t) => Before(s, t)
<1>1. \A s \in heap : key(s) \in Int /\ arrival[s] \in Int
  BY KeyIsInt
<1>2. \A s \in heap : ~Before(s, s)
  BY <1>1 DEF Before
<1>3. ASSUME NEW s \in heap, NEW r \in heap, s # r
      PROVE  Before(s, r) \/ Before(r, s)
  <2>1. arrival[s] # arrival[r]
    BY <1>3 DEF QueueOK
  <2> QED BY <1>1, <2>1 DEF Before
<1>4. ASSUME NEW s \in heap, NEW r \in heap, NEW t \in heap, Before(s, r), Before(r, t)
      PROVE  Before(s, t)
  BY <1>1, <1>4 DEF Before
<1> QED BY <1>2, <1>3, <1>4

\* heapq has a least entry as long as it has entries: the one that most of the
\* others come after.
LEMMA TopExists ==
  ASSUME QueueOK, NEW entries \in SUBSET heap, entries # {}
  PROVE  Top(entries) \in entries /\ \A r \in entries \ {Top(entries)} : Before(Top(entries), r)
<1> DEFINE after(s) == {r \in entries : Before(s, r)}
           counts == {Cardinality(after(s)) : s \in entries}
<1>1. IsFiniteSet(entries) /\ Cardinality(entries) \in Nat
  BY FS_Subset, FS_CardinalityType DEF QueueOK
<1>2. \A s \in entries : /\ IsFiniteSet(after(s)) /\ Cardinality(after(s)) \in 0..Cardinality(entries)
                         /\ Cardinality(after(s)) \in Nat
  <2> SUFFICES ASSUME NEW s \in entries
               PROVE  /\ IsFiniteSet(after(s)) /\ Cardinality(after(s)) \in 0..Cardinality(entries)
                      /\ Cardinality(after(s)) \in Nat
    OBVIOUS
  <2>1. after(s) \in SUBSET entries
    OBVIOUS
  <2>2. IsFiniteSet(after(s)) /\ Cardinality(after(s)) <= Cardinality(entries)
    BY <1>1, <2>1, FS_Subset
  <2>3. Cardinality(after(s)) \in Nat
    BY <2>2, FS_CardinalityType
  <2> QED BY <1>1, <2>2, <2>3
<1>3. counts \in SUBSET (0..Cardinality(entries)) /\ counts # {}
  BY <1>2
<1>4. Max(counts) \in counts /\ \A x \in counts : x <= Max(counts)
  BY <1>1, <1>3, MaxExists
<1>5. PICK s \in entries : Cardinality(after(s)) = Max(counts)
  BY <1>4
<1>6. \A r \in entries : Cardinality(after(r)) <= Cardinality(after(s))
  BY <1>4, <1>5
<1>7. ASSUME NEW r \in entries \ {s}
      PROVE  Before(s, r)
  <2> SUFFICES ASSUME ~Before(s, r) PROVE FALSE
    OBVIOUS
  <2>1. Before(r, s)
    BY EntriesAreOrdered
  <2>2. after(s) \cup {s} \in SUBSET after(r)
    BY <2>1, EntriesAreOrdered
  <2>3. s \notin after(s)
    BY EntriesAreOrdered
  <2>4. Cardinality(after(s) \cup {s}) = Cardinality(after(s)) + 1
    BY <1>2, <2>3, FS_AddElement
  <2>5. Cardinality(after(s) \cup {s}) <= Cardinality(after(r))
    BY <1>2, <2>2, FS_Subset
  <2>6. Cardinality(after(r)) \in Nat /\ Cardinality(after(s)) \in Nat
    BY <1>2
  <2>7. Cardinality(after(r)) <= Cardinality(after(s))
    BY <1>6
  <2> HIDE DEF after
  <2> QED BY <2>4, <2>5, <2>6, <2>7
<1>8. \E t \in entries : \A r \in entries \ {t} : Before(t, r)
  BY <1>7
<1> QED BY <1>8 DEF Top

\* peek drops dead entries only: no request that waits is lost with them.
LEMMA LiveEntriesStay ==
  ASSUME QueueOK
  PROVE  waiting \subseteq heap_peeked
BY DEF QueueOK, heap_peeked, stale

\* Lazy deletion is never seen: whatever was aborted before, peek returns the
\* request the policy puts first among those that wait.
LEMMA PeekReturnsTheFirst ==
  ASSUME QueueOK
  PROVE  PeekIsFirst
<1> DEFINE entries == heap \ stale
<1> SUFFICES ASSUME waiting # {}
             PROVE  peek \in waiting /\ \A r \in waiting \ {peek} : Before(peek, r)
  BY DEF PeekIsFirst
<1>1. waiting \subseteq entries
  BY LiveEntriesStay DEF heap_peeked
<1>2. peek \in entries /\ \A r \in entries \ {peek} : Before(peek, r)
  BY <1>1, TopExists DEF peek
<1>3. SUFFICES ASSUME peek \notin waiting PROVE FALSE
  BY <1>1, <1>2
<1>4. \A r \in waiting : Before(peek, r)
  BY <1>1, <1>2, <1>3
<1>5. peek \in stale
  BY <1>2, <1>3, <1>4 DEF stale
<1> QED BY <1>2, <1>5

\* A key fixed at arrival orders requests by the priority they have now,
\* whenever that is: aging needs no re-sorting of the heap.
THEOREM AgingNeedsNoResort ==
  ASSUME QueueOK, Policy = "priority", NEW s \in heap, NEW r \in heap, NEW now \in Nat
  PROVE  key(s) < key(r) <=> effective_priority(s, now) < effective_priority(r, now)
<1>1. /\ priority_key(s) \in Int /\ priority_key(r) \in Int
      /\ arrival[s] \in Int /\ arrival[r] \in Int /\ AgingRate \in Int
  BY KeyIsInt, PolicyAssumption
<1>2. ASSUME NEW a \in Int
      PROVE  AgingRate * (now - a) = AgingRate * now - AgingRate * a
  BY <1>1
<1>3. /\ AgingRate * now \in Int
      /\ AgingRate * arrival[s] \in Int /\ AgingRate * arrival[r] \in Int
  BY <1>1
<1>4. /\ effective_priority(s, now) = priority_key(s) - (AgingRate * now - AgingRate * arrival[s])
      /\ effective_priority(r, now) = priority_key(r) - (AgingRate * now - AgingRate * arrival[r])
  BY <1>1, <1>2 DEF effective_priority
<1>5. /\ key(s) = priority_key(s) + AgingRate * arrival[s]
      /\ key(r) = priority_key(r) + AgingRate * arrival[r]
  BY DEF key
<1> QED BY <1>1, <1>3, <1>4, <1>5

\* What the heap puts before an older entry is what the policy lets get ahead.
LEMMA OrderIsEarned ==
  ASSUME QueueOK, NEW s \in heap, NEW r \in heap, Before(r, s), arrival[r] > arrival[s]
  PROVE  may_overtake(r, s)
<1>1. /\ Len(Prompt[s]) \in Int /\ Len(Prompt[r]) \in Int
      /\ arrival[s] \in Nat /\ arrival[r] \in Nat
      /\ key(s) \in Int /\ key(r) \in Int
  BY KeyIsInt DEF QueueOK
<1>2. key(r) < key(s)
  BY <1>1 DEF Before
<1>3. Policy # "fcfs"
  BY <1>1, <1>2 DEF key
<1>4. CASE Policy = "sjf"
  BY <1>2, <1>4 DEF key, may_overtake
<1>5. CASE Policy = "priority"
  <2>1. effective_priority(r, arrival[r]) < effective_priority(s, arrival[r])
    BY <1>1, <1>2, <1>5, AgingNeedsNoResort
  <2> QED BY <1>5, <2>1 DEF may_overtake
<1> QED BY <1>3, <1>4, <1>5, PolicyAssumption

\* push, pop and remove keep every live request in the heap, and pop takes out
\* exactly the request that peek shows.
LEMMA QueueStepsKeepLiveEntries ==
  ASSUME QueueOK
  PROVE  /\ \A s : push(s) => waiting' \subseteq heap'
         /\ pop /\ waiting # {} => waiting' \subseteq heap' /\ waiting = waiting' \cup {peek}
         /\ \A s : remove(s) => waiting' \subseteq heap'
<1>1. \A s : push(s) => waiting' \subseteq heap'
  BY DEF push, QueueOK
<1>2. pop /\ waiting # {} => waiting' \subseteq heap' /\ waiting = waiting' \cup {peek}
  BY LiveEntriesStay, PeekReturnsTheFirst DEF pop, heap_popped, heap_peeked, PeekIsFirst
<1>3. \A s : remove(s) => waiting' \subseteq heap'
  BY DEF remove, QueueOK
<1> QED BY <1>1, <1>2, <1>3

-----------------------------------------------------------------------------
\* Queues and tables as lists.

IsList(l) == l \in Seq(Range(l))

LEMMA ListIsList ==
  ASSUME NEW S, NEW l \in Seq(S)
  PROVE  IsList(l)
<1>1. Len(l) \in Nat /\ DOMAIN l = 1..Len(l) /\ l = [j \in 1..Len(l) |-> l[j]]
  OBVIOUS
<1>2. \A j \in 1..Len(l) : l[j] \in Range(l)
  BY <1>1 DEF Range
<1> QED BY <1>1, <1>2 DEF IsList

LEMMA EmptyIsList == IsList(<<>>)
<1>1. Range(<<>>) = {}
  BY DEF Range
<1> QED BY <1>1 DEF IsList

LEMMA FilterQueue ==
  ASSUME NEW q \in Seq(Seqs), IsInjective(q), NEW T
  PROVE  /\ Filter(q, T) \in Seq(Seqs) /\ IsInjective(Filter(q, T))
         /\ Range(Filter(q, T)) = Range(q) \cap T
         /\ Len(Filter(q, T)) <= Len(q)
<1>1. /\ Filter(q, T) \in Seq(Seqs) /\ IsInjective(Filter(q, T))
      /\ Range(Filter(q, T)) = Range(q) \cap T
  BY FilterFacts
<1>2. /\ Len(Filter(q, T)) = Cardinality(Range(Filter(q, T)))
      /\ Len(q) = Cardinality(Range(q)) /\ IsFiniteSet(Range(q))
  BY <1>1, ListLength
<1>3. Cardinality(Range(Filter(q, T))) <= Cardinality(Range(q))
  BY <1>1, <1>2, FS_Subset
<1> QED BY <1>1, <1>2, <1>3

\* A queue that s leaves has the others.
LEMMA WithoutFacts ==
  ASSUME NEW q \in Seq(Seqs), IsInjective(q), NEW s
  PROVE  /\ Without(q, s) \in Seq(Seqs) /\ IsInjective(Without(q, s))
         /\ Range(Without(q, s)) = Range(q) \ {s}
         /\ Len(Without(q, s)) <= Len(q)
<1>1. Range(q) \subseteq Seqs
  BY ListLength
<1> QED BY <1>1, FilterQueue DEF Without

LEMMA CountUpTo ==
  ASSUME NEW n \in Nat
  PROVE  Cardinality(1..n) = n
<1>1. Cardinality(1..n) = IF 1 > n THEN 0 ELSE n - 1 + 1
  BY FS_Interval
<1> QED BY <1>1

\* When its last member leaves, the others keep their places.
LEMMA WithoutLast ==
  ASSUME NEW q \in Seq(Seqs), IsInjective(q), q # <<>>
  PROVE  /\ Last(q) \in Range(q) /\ Last(q) = q[Len(q)] /\ Len(q) \in Nat \ {0}
         /\ Len(Without(q, Last(q))) = Len(q) - 1
         /\ \A j \in 1 .. Len(q) - 1 : Without(q, Last(q))[j] = q[j]
<1> DEFINE n == Len(q) - 1
           kept == {j \in DOMAIN q : q[j] \in Seqs \ {Last(q)}}
           rank(j) == Cardinality({m \in kept : m <= j})
<1>1. Len(q) \in Nat \ {0} /\ DOMAIN q = 1..Len(q) /\ n \in Nat /\ Last(q) = q[Len(q)]
  BY DEF Last
<1>2. kept = 1..n
  BY <1>1 DEF IsInjective
<1>3. \A j \in kept : rank(j) = j
  <2> SUFFICES ASSUME NEW j \in 1..n PROVE Cardinality({m \in kept : m <= j}) = j
    BY <1>2
  <2>1. {m \in kept : m <= j} = 1..j
    BY <1>1, <1>2
  <2>2. Cardinality(1..j) = j
    BY <1>1, CountUpTo
  <2> HIDE DEF kept
  <2> QED BY <2>1, <2>2
<1>4. Cardinality(kept) = n
  BY <1>1, <1>2, CountUpTo
<1>5. Without(q, Last(q)) = [k \in 1..Cardinality(kept) |-> q[CHOOSE j \in kept : rank(j) = k]]
  BY DEF Without, Filter
<1>6. \A k \in 1..n : (CHOOSE j \in kept : rank(j) = k) = k
  <2> HIDE DEF rank
  <2> QED BY <1>2, <1>3
<1>7. Without(q, Last(q)) = [k \in 1..n |-> q[k]]
  <2> HIDE DEF rank, n
  <2> QED BY <1>4, <1>5, <1>6
<1> QED BY <1>1, <1>7 DEF Range

LEMMA TailFacts ==
  ASSUME NEW S, NEW q \in Seq(S), IsInjective(q), q # <<>>
  PROVE  /\ Head(q) \in Range(q) /\ Head(q) \in S
         /\ Tail(q) \in Seq(S) /\ IsInjective(Tail(q)) /\ Range(Tail(q)) = Range(q) \ {Head(q)}
<1>1. Len(q) \in Nat \ {0} /\ DOMAIN q = 1..Len(q) /\ Head(q) = q[1] /\ Tail(q) \in Seq(S)
  OBVIOUS
<1>2. Len(Tail(q)) = Len(q) - 1 /\ DOMAIN Tail(q) = 1 .. Len(q) - 1 /\ \A j \in 1 .. Len(q) - 1 : Tail(q)[j] = q[j + 1]
  OBVIOUS
<1>3. Range(Tail(q)) \subseteq Range(q) \ {Head(q)}
  BY <1>1, <1>2 DEF Range, IsInjective
<1>4. ASSUME NEW x \in Range(q), x # Head(q)
      PROVE  x \in Range(Tail(q))
  <2>1. PICK j \in 1..Len(q) : q[j] = x
    BY <1>1 DEF Range
  <2>2. j - 1 \in 1 .. Len(q) - 1 /\ Tail(q)[j - 1] = x
    BY <1>1, <1>2, <1>4, <2>1
  <2> QED BY <1>1, <1>2, <2>2 DEF Range
<1>5. IsInjective(Tail(q))
  <2> SUFFICES ASSUME NEW j \in 1 .. Len(q) - 1, NEW k \in 1 .. Len(q) - 1, Tail(q)[j] = Tail(q)[k]
               PROVE  j = k
    BY <1>2 DEF IsInjective
  <2>1. j + 1 \in 1..Len(q) /\ k + 1 \in 1..Len(q) /\ q[j + 1] = q[k + 1]
    BY <1>1, <1>2
  <2>2. j + 1 = k + 1
    BY <1>1, <2>1 DEF IsInjective
  <2> QED BY <1>1, <2>2
<1>6. Head(q) \in Range(q) /\ Head(q) \in S
  BY <1>1 DEF Range
<1> QED BY <1>1, <1>3, <1>4, <1>5, <1>6

LEMMA AppendFacts ==
  ASSUME NEW S, NEW q \in Seq(S), NEW x \in S
  PROVE  /\ Append(q, x) \in Seq(S) /\ Len(Append(q, x)) = Len(q) + 1
         /\ Range(Append(q, x)) = Range(q) \cup {x}
         /\ DOMAIN Append(q, x) = DOMAIN q \cup {Len(q) + 1} /\ Len(q) + 1 \notin DOMAIN q
         /\ Append(q, x)[Len(q) + 1] = x /\ \A j \in DOMAIN q : Append(q, x)[j] = q[j]
         /\ IsInjective(q) /\ x \notin Range(q) => IsInjective(Append(q, x))
<1>1. /\ Append(q, x) \in Seq(S) /\ Len(Append(q, x)) = Len(q) + 1 /\ Len(q) \in Nat
      /\ Append(q, x)[Len(q) + 1] = x /\ \A j \in 1..Len(q) : Append(q, x)[j] = q[j]
      /\ DOMAIN q = 1..Len(q) /\ DOMAIN Append(q, x) = 1 .. Len(q) + 1
  OBVIOUS
<1>2. DOMAIN Append(q, x) = DOMAIN q \cup {Len(q) + 1} /\ Len(q) + 1 \notin DOMAIN q
  BY <1>1
<1>3. Range(Append(q, x)) = Range(q) \cup {x}
  BY <1>1, <1>2 DEF Range
<1>4. ASSUME IsInjective(q), x \notin Range(q)
      PROVE  IsInjective(Append(q, x))
  BY <1>1, <1>2, <1>4 DEF IsInjective, Range
<1> QED BY <1>1, <1>2, <1>3, <1>4

LEMMA PrependFacts ==
  ASSUME NEW S, NEW q \in Seq(S), NEW x \in S, IsInjective(q), x \notin Range(q)
  PROVE  /\ <<x>> \o q \in Seq(S) /\ IsInjective(<<x>> \o q)
         /\ Range(<<x>> \o q) = Range(q) \cup {x}
<1> DEFINE w == <<x>>
<1>1. w \in Seq(S) /\ Range(w) = {x} /\ IsInjective(w)
  BY DEF Range, IsInjective
<1> HIDE DEF w
<1>2. Range(w) \cap Range(q) = {}
  BY <1>1
<1>3. w \o q \in Seq(S) /\ Range(w \o q) = {x} \cup Range(q) /\ IsInjective(w \o q)
  BY <1>1, <1>2, JoinLists
<1> QED BY <1>3 DEF w

\* Whatever the lists of the allocator hold, a table grows by what was asked for.
LEMMA AcquireTable ==
  ASSUME NEW s \in Seqs, DOMAIN block_table = Seqs, \A t \in Seqs : IsList(block_table[t]),
         NEW cached, IsList(cached), NEW k \in Nat, Acquire(s, cached, k)
  PROVE  /\ DOMAIN (block_table') = Seqs /\ \A t \in Seqs : IsList(block_table'[t])
         /\ \A t \in Seqs \ {s} : block_table'[t] = block_table[t]
         /\ Len(block_table'[s]) = Len(block_table[s]) + Len(cached) + k
<1> DEFINE taken(l) == SubSeq(l, 1, k)
           lru == Filter(evictable, Blocks \ Range(cached))
<1>1. ASSUME NEW l
      PROVE  IsList(taken(l)) /\ Len(taken(l)) = k
  <2>1. Len(taken(l)) = k /\ taken(l) \in Seq({l[j] : j \in 1..k})
    OBVIOUS
  <2> QED BY <2>1, ListIsList
<1>2. ASSUME NEW p, NEW q, IsList(p), IsList(q)
      PROVE  IsList(p \o q) /\ Len(p \o q) = Len(p) + Len(q)
  <2>1. p \in Seq(Range(p) \cup Range(q)) /\ q \in Seq(Range(p) \cup Range(q))
    BY <1>2 DEF IsList
  <2> QED BY <2>1, JoinLists, ListIsList
<1>3. block_table' = [block_table EXCEPT ![s] = @ \o cached \o taken(free_blocks \o lru)]
  BY DEF Acquire
<1> HIDE DEF taken
<1> DEFINE table == block_table[s] \o cached
<1>4. IsList(table) /\ Len(table) = Len(block_table[s]) + Len(cached)
  BY <1>2
<1>5. IsList(table \o taken(free_blocks \o lru)) /\ Len(table \o taken(free_blocks \o lru)) = Len(table) + k
  BY <1>1, <1>2, <1>4
<1> QED BY <1>3, <1>4, <1>5

-----------------------------------------------------------------------------
Live == {"WAITING", "RUNNING", "PREEMPTED"}

\* The entries of the batch that update() has still to apply, and their sequences.
Pending == {k \in DOMAIN batch.seqs : pc = "update" => k >= i}
Awaiting == {batch.seqs[k].seq : k \in Pending}

\* Types, as far as the queues depend on them.
Types ==
  /\ status \in [Seqs -> {"NEW", "WAITING", "RUNNING", "PREEMPTED", "FINISHED", "ABORTED"}]
  /\ finish_reason \in [Seqs -> {None, "stop", "length", "error"}]
  /\ token_ids \in [Seqs -> Seq(Tokens)]
  /\ num_computed_tokens \in [Seqs -> Nat]
  /\ seqs \subseteq Seqs /\ waiting \subseteq Seqs
  /\ \A queue \in {running, swapped, preempted} : queue \in Seq(Seqs) /\ IsInjective(queue)
  /\ Len(running) <= MaxNumSeqs
  /\ pc \in {"idle", "running", "swap_in", "admit", "execute", "update", "fail_all", "stuck"}
  /\ plan \in [Seqs -> Nat] /\ budget \in Int /\ i \in Nat \ {0}
  /\ DOMAIN batch = {"seqs", "swap_out", "swap_in", "num_preempted"}
  /\ batch.seqs \in Seq([seq : Seqs, n : Nat \ {0}, sample : BOOLEAN])
  /\ DOMAIN block_table = Seqs /\ DOMAIN cpu_block_table = Seqs
  /\ \A s \in Seqs : IsList(block_table[s]) /\ IsList(cpu_block_table[s])

\* A request is where its status says, with the blocks that go with it.
Placed(s) ==
  /\ s \in seqs <=> status[s] \in Live
  /\ s \in waiting <=> status[s] = "WAITING"
  /\ s \in Range(swapped) <=> status[s] = "PREEMPTED" /\ cpu_block_table[s] # <<>>
  /\ s \in Range(preempted) <=> status[s] = "PREEMPTED" /\ cpu_block_table[s] = <<>>
  /\ status[s] = "RUNNING" => s \in Range(running)
  /\ s \in Range(running) =>
       \/ status[s] = "RUNNING"
       \/ pc = "update" /\ status[s] = "FINISHED" /\ \E k \in DOMAIN batch.seqs : batch.seqs[k].seq = s
  /\ cpu_block_table[s] # <<>> => status[s] = "PREEMPTED"
  /\ block_table[s] # <<>> <=> status[s] = "RUNNING"

\* Its tokens, those computed, and the blocks for them.
Counted(s) ==
  /\ status[s] \in {"NEW"} \cup Live =>
       num_computed_tokens[s] < num_tokens(s) /\ num_tokens(s) < Len(Prompt[s]) + MaxTokens[s]
  /\ status[s] \in {"NEW", "WAITING"} \/ s \in Range(preempted) => num_computed_tokens[s] = 0
  /\ s \in Range(swapped) => Len(cpu_block_table[s]) = blocks_for(num_computed_tokens[s])
  /\ status[s] = "RUNNING" /\ s \notin Awaiting /\ pc # "fail_all" =>
       Len(block_table[s]) = blocks_for(num_computed_tokens[s])

\* A pending entry is of a running sequence with slots for its tokens.
Schedulable(e) ==
  /\ status[e.seq] = "RUNNING"
  /\ Len(block_table[e.seq]) = blocks_for(num_computed_tokens[e.seq] + e.n)
  /\ num_computed_tokens[e.seq] + e.n <= num_tokens(e.seq)
  /\ e.sample <=> num_computed_tokens[e.seq] + e.n = num_tokens(e.seq)

BatchOK ==
  /\ \A k \in Pending : Schedulable(batch.seqs[k])
  /\ \A j, k \in DOMAIN batch.seqs : batch.seqs[j].seq = batch.seqs[k].seq => j = k
  /\ pc \in {"idle", "fail_all", "stuck"} => batch.seqs = <<>>
  /\ pc = "update" => i \in DOMAIN batch.seqs

\* While schedule() walks through `running`, the batch has sequences it has
\* passed, and what is planned for the others is not more than they need.
WalkOK ==
  /\ pc \notin {"running", "update"} => i = 1
  /\ pc = "running" =>
       /\ i <= Len(running) + 1
       /\ \A k \in DOMAIN batch.seqs : \E j \in 1 .. i - 1 : running[j] = batch.seqs[k].seq
       /\ \A j \in i .. Len(running) : plan[running[j]] <= num_uncomputed_tokens(running[j])

QInv ==
  /\ Types
  /\ \A s \in Seqs : Placed(s) /\ Counted(s)
  /\ BatchOK /\ WalkOK

-----------------------------------------------------------------------------
LEMMA InitQueues == Init => QInv
<1> SUFFICES ASSUME Init PROVE QInv
  OBVIOUS
<1>1. /\ status = [s \in Seqs |-> "NEW"] /\ finish_reason = [s \in Seqs |-> None]
      /\ token_ids = Prompt /\ num_computed_tokens = [s \in Seqs |-> 0]
      /\ seqs = {} /\ waiting = {} /\ running = <<>> /\ swapped = <<>> /\ preempted = <<>>
      /\ pc = "idle" /\ batch = EmptyBatch /\ plan = NoPlan /\ budget = 0 /\ i = 1
      /\ block_table = [s \in Seqs |-> <<>>] /\ cpu_block_table = [s \in Seqs |-> <<>>]
  BY DEF Init, BlockManagerInit, QueueInit
<1>2. Range(<<>>) = {} /\ IsInjective(<<>>)
  BY DEF Range, IsInjective
<1>3. IsList(<<>>)
  BY <1>2 DEF IsList
<1>4. \A s \in Seqs : Prompt[s] \in Seq(Tokens) /\ Len(Prompt[s]) \in Nat \ {0} /\ MaxTokens[s] \in Nat \ {0}
  BY ConfigAssumption
<1>5. Prompt \in [Seqs -> Seq(Tokens)] 
  BY ConfigAssumption
<1>6. Types
  <2>1. batch.seqs = <<>> /\ DOMAIN batch = {"seqs", "swap_out", "swap_in", "num_preempted"}
    BY <1>1 DEF EmptyBatch
  <2>2. Len(running) <= MaxNumSeqs
    BY <1>1, ConfigAssumption
  <2> QED BY <1>1, <1>2, <1>3, <1>5, <2>1, <2>2 DEF Types, NoPlan
<1>7. \A s \in Seqs : Placed(s)
  BY <1>1, <1>2 DEF Placed, Live
<1>8. \A s \in Seqs : Counted(s)
  BY <1>1, <1>2, <1>4 DEF Counted, num_tokens, Live
<1>9. BatchOK /\ WalkOK
  BY <1>1 DEF BatchOK, WalkOK, Pending, EmptyBatch
<1> QED BY <1>6, <1>7, <1>8, <1>9 DEF QInv

\* What a step leaves of a request that it is not about.
LEMMA Frame ==
  ASSUME NEW t \in Seqs, Placed(t), Counted(t), pc # "update",
         status'[t] = status[t], token_ids'[t] = token_ids[t],
         num_computed_tokens'[t] = num_computed_tokens[t],
         block_table'[t] = block_table[t], cpu_block_table'[t] = cpu_block_table[t],
         t \in seqs' <=> t \in seqs, t \in waiting' <=> t \in waiting,
         t \in Range(running)' <=> t \in Range(running),
         t \in Range(swapped)' <=> t \in Range(swapped),
         t \in Range(preempted)' <=> t \in Range(preempted),
         pc' # "fail_all" => pc # "fail_all" /\ (t \in Awaiting => t \in Awaiting')
  PROVE  Placed(t)' /\ Counted(t)'
<1>1. Placed(t)'
  BY DEF Placed
<1>2. num_tokens(t)' = num_tokens(t)
  BY DEF num_tokens
<1>3. Counted(t)'
  BY <1>2 DEF Counted, blocks_for
<1> QED BY <1>1, <1>3

\* Outside of update() every entry is pending.
LEMMA PendingAll ==
  ASSUME pc # "update"
  PROVE  Pending = DOMAIN batch.seqs /\ Awaiting = {batch.seqs[k].seq : k \in DOMAIN batch.seqs}
BY DEF Pending, Awaiting

\* The entry that update() is at, and what it does after the last one.
LEMMA UpdateEntry ==
  ASSUME Types, BatchOK, Update
  PROVE  pc = "update" /\ i \in DOMAIN batch.seqs /\ i \in Nat \ {0} /\ i \in Pending
<1>1. pc = "update"
  BY DEF Update
<1>2. i \in DOMAIN batch.seqs
  BY <1>1 DEF BatchOK
<1>3. i \in Nat \ {0}
  BY DEF Types
<1>4. i \in Pending
  BY <1>2, <1>3 DEF Pending
<1> QED BY <1>1, <1>2, <1>3, <1>4

LEMMA UpdateEnds ==
  ASSUME Update
  PROVE  IF i = Len(batch.seqs)
         THEN /\ running' = IF any_finished THEN Filter(running, {r \in Seqs : status'[r] = "RUNNING"}) ELSE running
              /\ pc' = "idle" /\ batch' = EmptyBatch /\ i' = 1
         ELSE i' = i + 1 /\ UNCHANGED <<running, pc, batch>>
BY Zenon DEF Update

LEMMA EntryType ==
  ASSUME Types, NEW k \in DOMAIN batch.seqs
  PROVE  /\ batch.seqs[k] \in [seq : Seqs, n : Nat \ {0}, sample : BOOLEAN]
         /\ batch.seqs[k].seq \in Seqs /\ batch.seqs[k].n \in Nat \ {0}
         /\ batch.seqs[k].sample \in BOOLEAN
<1> DEFINE E == [seq : Seqs, n : Nat \ {0}, sample : BOOLEAN]
<1>1. batch.seqs \in Seq(E)
  BY DEF Types
<1> HIDE DEF E
<1>2. batch.seqs[k] \in E
  BY <1>1
<1> QED BY <1>2 DEF E

\* Entries stay good while the step is about a sequence without one.
LEMMA BatchFrame ==
  ASSUME BatchOK, Types, NEW s, s \notin Awaiting, pc # "update", pc' # "update",
         batch'.seqs = batch.seqs,
         \A t \in Seqs \ {s} : /\ status'[t] = status[t] /\ token_ids'[t] = token_ids[t]
                               /\ num_computed_tokens'[t] = num_computed_tokens[t]
                               /\ block_table'[t] = block_table[t],
         pc' \in {"idle", "fail_all", "stuck"} => batch.seqs = <<>>
  PROVE  BatchOK'
<1>1. Pending = DOMAIN batch.seqs /\ Pending' = DOMAIN batch.seqs
  BY DEF Pending
<1>2. ASSUME NEW k \in DOMAIN batch.seqs
      PROVE  Schedulable(batch.seqs[k])'
  <2>1. batch.seqs[k].seq \in Seqs \ {s}
    <3>1. batch.seqs[k] \in [seq : Seqs, n : Nat \ {0}, sample : BOOLEAN]
      BY EntryType
    <3> QED BY <1>1, <3>1 DEF Awaiting
  <2>2. Schedulable(batch.seqs[k])
    BY <1>1 DEF BatchOK
  <2> QED BY <2>1, <2>2 DEF Schedulable, num_tokens, blocks_for
<1> QED BY <1>1, <1>2 DEF BatchOK

\* add: a request that arrives waits.
LEMMA AddStep ==
  ASSUME QInv, NEW s \in Seqs, add(s)
  PROVE  QInv'
<1>1. /\ pc = "idle" /\ status[s] = "NEW" /\ status' = [status EXCEPT ![s] = "WAITING"]
      /\ seqs' = seqs \cup {s} /\ waiting' = waiting \cup {s}
      /\ UNCHANGED <<block_table, cpu_block_table, finish_reason, token_ids, num_computed_tokens,
                     preempted, running, swapped, pc, batch, plan, budget, i>>
  BY DEF add, SetStatus, push, poolVars, gpuVars, cpuVars, stepVars
<1>2. Types /\ BatchOK /\ WalkOK /\ \A t \in Seqs : Placed(t) /\ Counted(t)
  BY DEF QInv
<1>3. status \in [Seqs -> {"NEW", "WAITING", "RUNNING", "PREEMPTED", "FINISHED", "ABORTED"}]
  BY <1>2 DEF Types
<1>4. Types'
  BY <1>1, <1>2, <1>3 DEF Types
<1>5. ASSUME NEW t \in Seqs
      PROVE  Placed(t)' /\ Counted(t)'
  <2>1. CASE t # s
    BY <1>1, <1>2, <1>3, <2>1, Frame DEF Awaiting, Pending
  <2>2. CASE t = s
    <3>1. status'[s] = "WAITING"
      BY <1>1, <1>3
    <3>2. Placed(s) /\ Counted(s)
      BY <1>2
    <3>3. Placed(s)'
      BY <1>1, <3>1, <3>2 DEF Placed, Live
    <3>4. Counted(s)'
      BY <1>1, <3>1, <3>2 DEF Placed, Counted, Live, num_tokens, blocks_for
    <3> QED BY <2>2, <3>3, <3>4
  <2> QED BY <2>1, <2>2
<1>6. BatchOK'
  <2>1. s \notin Awaiting
    BY <1>1, <1>2 DEF Awaiting, Pending, BatchOK
  <2> QED BY <1>1, <1>2, <1>3, <2>1, BatchFrame DEF BatchOK
<1>7. WalkOK'
  BY <1>1, <1>2 DEF WalkOK
<1> QED BY <1>4, <1>5, <1>6, <1>7 DEF QInv

\* A request ends: it leaves every queue and gives its blocks back.
Ends(s, final) ==
  /\ seqs' = seqs \ {s} /\ status' = [status EXCEPT ![s] = final]
  /\ DOMAIN (block_table') = Seqs /\ DOMAIN (cpu_block_table') = Seqs
  /\ block_table'[s] = <<>> /\ cpu_block_table'[s] = <<>>
  /\ \A t \in Seqs \ {s} : block_table'[t] = block_table[t] /\ cpu_block_table'[t] = cpu_block_table[t]
  /\ waiting' = waiting \ {s}
  /\ running' \in Seq(Seqs) /\ IsInjective(running') /\ Range(running)' = Range(running) \ {s}
  /\ Len(running') <= Len(running)
  /\ swapped' \in Seq(Seqs) /\ IsInjective(swapped') /\ Range(swapped)' = Range(swapped) \ {s}
  /\ preempted' \in Seq(Seqs) /\ IsInjective(preempted') /\ Range(preempted)' = Range(preempted) \ {s}
  /\ UNCHANGED <<token_ids, num_computed_tokens, pc, batch, plan, budget, i>>

LEMMA EndsKeeps ==
  ASSUME QInv, NEW s \in Seqs, NEW final \in {"FINISHED", "ABORTED"}, Ends(s, final),
         pc # "update", s \notin Awaiting, WalkOK',
         finish_reason' \in [Seqs -> {None, "stop", "length", "error"}]
  PROVE  QInv'
<1>1. Types /\ BatchOK /\ WalkOK /\ \A t \in Seqs : Placed(t) /\ Counted(t)
  BY DEF QInv
<1>2. status \in [Seqs -> {"NEW", "WAITING", "RUNNING", "PREEMPTED", "FINISHED", "ABORTED"}]
  BY <1>1 DEF Types
<1>3. Types'
  <2>1. Len(running') <= MaxNumSeqs
    BY <1>1, ConfigAssumption DEF Types, Ends
  <2>2. \A t \in Seqs : IsList(block_table[t])' /\ IsList(cpu_block_table[t])'
    <3>1. IsList(<<>>)
      BY EmptyIsList
    <3> QED BY <1>1, <3>1 DEF Types, Ends, IsList
  <2>3. status' \in [Seqs -> {"NEW", "WAITING", "RUNNING", "PREEMPTED", "FINISHED", "ABORTED"}]
    BY <1>2 DEF Ends
  <2> QED BY <1>1, <2>1, <2>2, <2>3 DEF Types, Ends
<1>4. ASSUME NEW t \in Seqs
      PROVE  Placed(t)' /\ Counted(t)'
  <2>1. CASE t # s
    BY <1>1, <1>2, <2>1, Frame DEF Awaiting, Pending, Ends
  <2>2. CASE t = s
    <3>1. status'[s] = final
      BY <1>2 DEF Ends
    <3>2. Placed(s)'
      BY <3>1 DEF Placed, Live, Ends
    <3>3. Counted(s)'
      BY <3>1 DEF Counted, Live, Ends
    <3> QED BY <2>2, <3>2, <3>3
  <2> QED BY <2>1, <2>2
<1>5. BatchOK'
  BY <1>1, <1>2, BatchFrame DEF Ends, BatchOK
<1> QED BY <1>3, <1>4, <1>5 DEF QInv

\* abort, whichever queue the request is in.
LEMMA AbortEffect ==
  ASSUME QInv, NEW s \in Seqs, abort(s)
  PROVE  s \in seqs /\ Ends(s, "ABORTED") /\ finish_reason' = finish_reason
<1>1. /\ s \in seqs /\ seqs' = seqs \ {s} /\ status' = [status EXCEPT ![s] = "ABORTED"]
      /\ UNCHANGED <<finish_reason, token_ids, num_computed_tokens, pc, batch, plan, budget, i>>
  BY DEF abort, SetStatus, stepVars
<1>2. Types /\ Placed(s)
  BY DEF QInv
<1>3. /\ DOMAIN block_table = Seqs /\ DOMAIN cpu_block_table = Seqs
      /\ running \in Seq(Seqs) /\ IsInjective(running)
      /\ swapped \in Seq(Seqs) /\ IsInjective(swapped)
      /\ preempted \in Seq(Seqs) /\ IsInjective(preempted)
      /\ Len(running) \in Nat
  BY <1>2 DEF Types
<1>4. CASE status[s] = "RUNNING"
  <2>1. /\ running' = Without(running, s) /\ block_table' = [block_table EXCEPT ![s] = <<>>]
        /\ UNCHANGED <<cpu_block_table, waiting, preempted, swapped>>
    BY <1>4 DEF abort, free, Release, cpuVars, waitingVars
  <2>2. cpu_block_table[s] = <<>> /\ s \notin waiting /\ s \notin Range(swapped) /\ s \notin Range(preempted)
    BY <1>2, <1>4 DEF Placed
  <2>3. waiting' = waiting \ {s} /\ Range(swapped') = Range(swapped) \ {s} /\ Range(preempted') = Range(preempted) \ {s}
    BY <2>1, <2>2
  <2> QED BY <1>1, <1>3, <2>1, <2>2, <2>3, WithoutFacts DEF Ends
<1>5. CASE status[s] # "RUNNING" /\ cpu_block_table[s] # <<>>
  <2>1. /\ swapped' = Without(swapped, s) /\ cpu_block_table' = [cpu_block_table EXCEPT ![s] = <<>>]
        /\ UNCHANGED <<block_table, waiting, preempted, running>>
    BY <1>5 DEF abort, free_cpu, gpuVars, waitingVars
  <2>2. block_table[s] = <<>> /\ s \notin waiting /\ s \notin Range(running) /\ s \notin Range(preempted)
    BY <1>2, <1>5 DEF Placed
  <2>3. waiting' = waiting \ {s} /\ Range(running') = Range(running) \ {s} /\ Range(preempted') = Range(preempted) \ {s}
    BY <2>1, <2>2
  <2> QED BY <1>1, <1>3, <2>1, <2>2, <2>3, WithoutFacts DEF Ends
<1>6. CASE status[s] = "PREEMPTED" /\ cpu_block_table[s] = <<>>
  <2>1. /\ preempted' = Without(preempted, s)
        /\ UNCHANGED <<block_table, cpu_block_table, waiting, swapped, running>>
    BY <1>6 DEF abort, poolVars, gpuVars, cpuVars, waitingVars
  <2>2. block_table[s] = <<>> /\ s \notin waiting /\ s \notin Range(running) /\ s \notin Range(swapped)
    BY <1>2, <1>6 DEF Placed
  <2>3. waiting' = waiting \ {s} /\ Range(running') = Range(running) \ {s} /\ Range(swapped') = Range(swapped) \ {s}
    BY <2>1, <2>2
  <2> QED BY <1>1, <1>3, <1>6, <2>1, <2>2, <2>3, WithoutFacts DEF Ends
<1>7. CASE status[s] = "WAITING" /\ cpu_block_table[s] = <<>>
  <2>1. /\ waiting' = waiting \ {s}
        /\ UNCHANGED <<block_table, cpu_block_table, preempted, swapped, running>>
    BY <1>7 DEF abort, remove, poolVars, gpuVars, cpuVars
  <2>2. block_table[s] = <<>> /\ s \notin Range(running) /\ s \notin Range(swapped) /\ s \notin Range(preempted)
    BY <1>2, <1>7 DEF Placed
  <2>3. /\ Range(running') = Range(running) \ {s} /\ Range(swapped') = Range(swapped) \ {s}
        /\ Range(preempted') = Range(preempted) \ {s}
    BY <2>1, <2>2
  <2> QED BY <1>1, <1>3, <1>7, <2>1, <2>2, <2>3 DEF Ends
<1> QED BY <1>4, <1>5, <1>6, <1>7 DEF abort

LEMMA AbortStep ==
  ASSUME QInv, NEW s \in Seqs, abort(s), pc \in {"idle", "fail_all"}
  PROVE  QInv'
<1>1. Ends(s, "ABORTED") /\ finish_reason' = finish_reason
  BY AbortEffect
<1>2. s \notin Awaiting
  BY DEF QInv, BatchOK, Awaiting, Pending
<1>3. WalkOK'
  BY <1>1 DEF Ends, WalkOK, QInv
<1>4. finish_reason \in [Seqs -> {None, "stop", "length", "error"}]
  BY DEF QInv, Types
<1> QED BY <1>1, <1>2, <1>3, <1>4, EndsKeeps

\* _fail, of a request that its caller took from its queue.
LEMMA FailEffect ==
  ASSUME QInv, NEW s \in Seqs, Fail(s),
         waiting' = waiting \ {s}, 
         running' \in Seq(Seqs), IsInjective(running'), Range(running)' = Range(running) \ {s},
         Len(running') <= Len(running),
         swapped' \in Seq(Seqs), IsInjective(swapped'), Range(swapped)' = Range(swapped) \ {s},
         preempted' \in Seq(Seqs), IsInjective(preempted'), Range(preempted)' = Range(preempted) \ {s},
         UNCHANGED stepVars
  PROVE  /\ Ends(s, "FINISHED")
         /\ finish_reason' = [finish_reason EXCEPT ![s] = "error"]
         /\ finish_reason' \in [Seqs -> {None, "stop", "length", "error"}]
<1>1. DOMAIN block_table = Seqs /\ DOMAIN cpu_block_table = Seqs
  BY DEF QInv, Types
<1>2. /\ DOMAIN (block_table') = Seqs /\ block_table'[s] = <<>>
      /\ \A t \in Seqs \ {s} : block_table'[t] = block_table[t]
  <2>1. CASE block_table[s] = <<>>
    BY <1>1, <2>1 DEF Fail, gpuVars
  <2>2. CASE block_table[s] # <<>>
    BY <1>1, <2>2 DEF Fail, free, Release
  <2> QED BY <2>1, <2>2
<1>3. /\ DOMAIN (cpu_block_table') = Seqs /\ cpu_block_table'[s] = <<>>
      /\ \A t \in Seqs \ {s} : cpu_block_table'[t] = cpu_block_table[t]
  <2>1. CASE cpu_block_table[s] = <<>>
    BY <1>1, <2>1 DEF Fail, cpuVars
  <2>2. CASE cpu_block_table[s] # <<>>
    BY <1>1, <2>2 DEF Fail, free_cpu
  <2> QED BY <2>1, <2>2
<1>4. /\ seqs' = seqs \ {s} /\ status' = [status EXCEPT ![s] = "FINISHED"]
      /\ finish_reason' = [finish_reason EXCEPT ![s] = "error"]
      /\ UNCHANGED <<token_ids, num_computed_tokens>>
  BY DEF Fail, SetStatus
<1>5. finish_reason \in [Seqs -> {None, "stop", "length", "error"}]
  BY DEF QInv, Types
<1>6. finish_reason' \in [Seqs -> {None, "stop", "length", "error"}]
  BY <1>4, <1>5
<1>7. UNCHANGED <<pc, batch, plan, budget, i>>
  BY DEF stepVars
<1>8. Ends(s, "FINISHED")
  BY <1>1, <1>2, <1>3, <1>4, <1>7 DEF Ends
<1> QED BY <1>4, <1>6, <1>8

LEMMA AwaitingRun ==
  ASSUME QInv, NEW s \in Awaiting
  PROVE  status[s] = "RUNNING"
BY DEF QInv, BatchOK, Awaiting, Schedulable

\* Alone and out of blocks, the current sequence ends.
LEMMA FailAloneStep ==
  ASSUME QInv, FailAlone
  PROVE  QInv'
<1> DEFINE s == current
<1>1. /\ pc = "running" /\ i <= Len(running) /\ Len(running) = 1 /\ Fail(s) /\ running' = <<>>
      /\ UNCHANGED <<waiting, preempted, swapped, stepVars>>
  BY DEF FailAlone, OutOfBlocks, Scheduling, waitingVars
<1>2. Types /\ WalkOK
  BY DEF QInv
<1>3. i = 1 /\ running \in Seq(Seqs) /\ s = running[1]
  BY <1>1, <1>2 DEF Types, current
<1>4. s \in Seqs /\ Range(running) = {s} /\ s \in Range(running)
  BY <1>1, <1>3 DEF Range
<1>5. Placed(s)
  BY <1>4 DEF QInv
<1>6. s \notin waiting /\ s \notin Range(swapped) /\ s \notin Range(preempted)
  BY <1>1, <1>4, <1>5 DEF Placed
<1>7. running' \in Seq(Seqs) /\ IsInjective(running') /\ Range(running)' = {} /\ Len(running') = 0
  BY <1>1 DEF Range, IsInjective
<1>8. /\ swapped \in Seq(Seqs) /\ IsInjective(swapped)
      /\ preempted \in Seq(Seqs) /\ IsInjective(preempted)
  BY <1>2 DEF Types
<1>9. waiting' = waiting \ {s} /\ Range(running)' = Range(running) \ {s}
  BY <1>1, <1>4, <1>6, <1>7
<1>10. Range(swapped)' = Range(swapped) \ {s} /\ Range(preempted)' = Range(preempted) \ {s}
  BY <1>1, <1>6
<1>11. Len(running') <= Len(running) /\ UNCHANGED stepVars
  BY <1>1, <1>7
<1> HIDE DEF s
<1>12. /\ Ends(s, "FINISHED")
       /\ finish_reason' \in [Seqs -> {None, "stop", "length", "error"}]
  BY <1>1, <1>4, <1>7, <1>8, <1>9, <1>10, <1>11, FailEffect
<1>13. batch.seqs = <<>>
  <2>1. \A k \in DOMAIN batch.seqs : FALSE
    BY <1>1, <1>2, <1>3 DEF WalkOK
  <2>2. batch.seqs \in Seq([seq : Seqs, n : Nat \ {0}, sample : BOOLEAN])
    BY <1>2 DEF Types
  <2> QED BY <2>1, <2>2
<1>14. s \notin Awaiting
  BY <1>13 DEF Awaiting, Pending
<1>15. WalkOK'
  BY <1>1, <1>3, <1>7, <1>13 DEF WalkOK, stepVars
<1> QED BY <1>1, <1>4, <1>12, <1>14, <1>15, EndsKeeps

\* A swapped victim that can never come back ends.
LEMMA FailSwapInStep ==
  ASSUME QInv, FailSwapIn
  PROVE  QInv'
<1> DEFINE s == Head(swapped)
<1>1. /\ pc = "swap_in" /\ swapped # <<>> /\ Fail(s) /\ swapped' = Tail(swapped)
      /\ UNCHANGED <<waiting, preempted, running, stepVars>>
  BY DEF FailSwapIn, SwappingIn, waitingVars
<1>2. /\ swapped \in Seq(Seqs) /\ IsInjective(swapped)
      /\ preempted \in Seq(Seqs) /\ IsInjective(preempted)
      /\ running \in Seq(Seqs) /\ IsInjective(running) /\ Len(running) \in Nat
  BY DEF QInv, Types
<1>3. /\ s \in Range(swapped) /\ s \in Seqs
      /\ swapped' \in Seq(Seqs) /\ IsInjective(swapped') /\ Range(swapped)' = Range(swapped) \ {s}
  BY <1>1, <1>2, TailFacts
<1> HIDE DEF s
<1>4. Placed(s)
  BY <1>3 DEF QInv
<1>5. status[s] = "PREEMPTED" /\ s \notin waiting /\ s \notin Range(running) /\ s \notin Range(preempted)
  BY <1>1, <1>3, <1>4 DEF Placed
<1>6. waiting' = waiting \ {s} /\ Range(running)' = Range(running) \ {s} /\ Range(preempted)' = Range(preempted) \ {s}
  BY <1>1, <1>5
<1>7. /\ Ends(s, "FINISHED")
      /\ finish_reason' \in [Seqs -> {None, "stop", "length", "error"}]
  <2>1. /\ running' \in Seq(Seqs) /\ IsInjective(running') /\ Len(running') <= Len(running)
        /\ preempted' \in Seq(Seqs) /\ IsInjective(preempted') /\ UNCHANGED stepVars
    BY <1>1, <1>2
  <2> QED BY <1>1, <1>3, <1>6, <2>1, FailEffect
<1>8. s \notin Awaiting
  BY <1>5, AwaitingRun
<1>9. WalkOK'
  BY <1>1 DEF WalkOK, QInv, stepVars
<1> QED BY <1>1, <1>3, <1>7, <1>8, <1>9, EndsKeeps

-----------------------------------------------------------------------------
\* Arrivals are numbered in their order, and only requests that arrived have an
\* entry in the heap.
ArrivalsOK ==
  /\ arrival \in [Seqs -> Nat]
  /\ waiting \subseteq heap /\ heap \subseteq {s \in Seqs : status[s] # "NEW"}
  /\ \A s \in Seqs : status[s] # "NEW" => arrival[s] < Cardinality({r \in Seqs : status[r] # "NEW"})
  /\ \A s, r \in Seqs : status[s] # "NEW" /\ status[r] # "NEW" /\ arrival[s] = arrival[r] => s = r

LEMMA QueueIsOK ==
  ASSUME ArrivalsOK
  PROVE  QueueOK
<1>1. IsFiniteSet(heap)
  BY ConfigAssumption, FS_Subset DEF ArrivalsOK
<1>2. \A s \in heap : arrival[s] \in Nat /\ Len(Prompt[s]) \in Nat
  BY ConfigAssumption DEF ArrivalsOK
<1> QED BY <1>1, <1>2 DEF ArrivalsOK, QueueOK

\* The request _admit looks at is a victim or waits, holds nothing, and leaves
\* its queue when it is popped.
LEMMA CandidatePopped ==
  ASSUME QInv, ArrivalsOK, pc = "admit", preempted # <<>> \/ waiting # {}
  PROVE  /\ candidate \in Seqs /\ status[candidate] \in {"WAITING", "PREEMPTED"}
         /\ block_table[candidate] = <<>> /\ cpu_block_table[candidate] = <<>>
         /\ num_computed_tokens[candidate] = 0
         /\ candidate \notin Range(running) /\ candidate \notin Range(swapped) /\ candidate \notin Awaiting
         /\ PopWaiting =>
              /\ waiting' = waiting \ {candidate}
              /\ preempted' \in Seq(Seqs) /\ IsInjective(preempted')
              /\ Range(preempted)' = Range(preempted) \ {candidate}
<1>1. preempted \in Seq(Seqs) /\ IsInjective(preempted) /\ waiting \subseteq Seqs
  BY DEF QInv, Types
<1>2. CASE preempted # <<>>
  <2> DEFINE s == Head(preempted)
  <2>1. candidate = s
    BY <1>2 DEF candidate
  <2>2. /\ s \in Range(preempted) /\ s \in Seqs /\ Tail(preempted) \in Seq(Seqs)
        /\ IsInjective(Tail(preempted)) /\ Range(Tail(preempted)) = Range(preempted) \ {s}
    BY <1>1, <1>2, TailFacts
  <2> HIDE DEF s
  <2>3. Placed(s) /\ Counted(s)
    BY <2>2 DEF QInv
  <2>4. /\ status[s] = "PREEMPTED" /\ block_table[s] = <<>> /\ cpu_block_table[s] = <<>>
        /\ num_computed_tokens[s] = 0 /\ s \notin waiting
        /\ s \notin Range(running) /\ s \notin Range(swapped)
    BY <2>2, <2>3 DEF Placed, Counted
  <2>5. s \notin Awaiting
    BY <2>4, AwaitingRun
  <2>6. PopWaiting => /\ waiting' = waiting \ {s}
                      /\ preempted' \in Seq(Seqs) /\ IsInjective(preempted')
                      /\ Range(preempted)' = Range(preempted) \ {s}
    BY <1>2, <2>2, <2>4 DEF PopWaiting, waitingVars
  <2> QED BY <2>1, <2>2, <2>4, <2>5, <2>6
<1>3. CASE preempted = <<>>
  <2> DEFINE s == peek
  <2>1. candidate = s
    BY <1>3 DEF candidate
  <2>2. s \in waiting /\ s \in Seqs
    BY <1>1, <1>3, QueueIsOK, PeekReturnsTheFirst DEF PeekIsFirst
  <2> HIDE DEF s
  <2>3. Placed(s) /\ Counted(s)
    BY <2>2 DEF QInv
  <2>4. /\ status[s] = "WAITING" /\ block_table[s] = <<>> /\ cpu_block_table[s] = <<>>
        /\ num_computed_tokens[s] = 0 /\ s \notin Range(preempted)
        /\ s \notin Range(running) /\ s \notin Range(swapped)
    BY <2>2, <2>3 DEF Placed, Counted
  <2>5. s \notin Awaiting
    BY <2>4, AwaitingRun
  <2>6. PopWaiting => /\ waiting' = waiting \ {s}
                      /\ preempted' \in Seq(Seqs) /\ IsInjective(preempted')
                      /\ Range(preempted)' = Range(preempted) \ {s}
    BY <1>1, <1>3, <2>4 DEF PopWaiting, pop, s
  <2> QED BY <2>1, <2>2, <2>4, <2>5, <2>6
<1> QED BY <1>2, <1>3

\* A request larger than the pool ends before it starts.
LEMMA FailAdmitStep ==
  ASSUME QInv, ArrivalsOK, FailAdmit
  PROVE  QInv'
<1> DEFINE s == candidate
<1>1. /\ pc = "admit" /\ (preempted # <<>> \/ waiting # {}) /\ PopWaiting /\ Fail(s)
      /\ UNCHANGED <<running, swapped, stepVars>>
  BY DEF FailAdmit, Admitting
<1>2. /\ s \in Seqs /\ s \notin Range(running) /\ s \notin Range(swapped) /\ s \notin Awaiting
      /\ waiting' = waiting \ {s}
      /\ preempted' \in Seq(Seqs) /\ IsInjective(preempted') /\ Range(preempted)' = Range(preempted) \ {s}
  BY <1>1, CandidatePopped
<1> HIDE DEF s
<1>3. /\ swapped \in Seq(Seqs) /\ IsInjective(swapped)
      /\ running \in Seq(Seqs) /\ IsInjective(running) /\ Len(running) \in Nat
  BY DEF QInv, Types
<1>4. /\ running' \in Seq(Seqs) /\ IsInjective(running') /\ Len(running') <= Len(running)
      /\ swapped' \in Seq(Seqs) /\ IsInjective(swapped') /\ UNCHANGED stepVars
      /\ Range(running)' = Range(running) \ {s} /\ Range(swapped)' = Range(swapped) \ {s}
  BY <1>1, <1>2, <1>3
<1>5. /\ Ends(s, "FINISHED")
      /\ finish_reason' \in [Seqs -> {None, "stop", "length", "error"}]
  BY <1>1, <1>2, <1>4, FailEffect
<1>6. WalkOK'
  BY <1>1 DEF WalkOK, QInv, stepVars
<1> QED BY <1>1, <1>2, <1>5, <1>6, EndsKeeps

-----------------------------------------------------------------------------
\* The plan of a step.

LEMMA TotalIsNat ==
  ASSUME NEW f, IsFiniteSet(DOMAIN f), \A x \in DOMAIN f : f[x] \in Nat
  PROVE  Total(f) \in Nat
<1> DEFINE part(x) == {x} \X (1..f[x])
           parts == {part(x) : x \in DOMAIN f}
<1>1. \A p \in parts : IsFiniteSet(p)
  <2> SUFFICES ASSUME NEW x \in DOMAIN f PROVE IsFiniteSet(part(x))
    OBVIOUS
  <2>1. f[x] \in Int /\ 1 \in Int
    OBVIOUS
  <2>2. IsFiniteSet(1..f[x])
    BY <2>1, FS_Interval
  <2>3. IsFiniteSet({x})
    BY FS_Singleton
  <2> QED BY <2>2, <2>3, FS_Product
<1>2. IsFiniteSet(parts)
  <2> HIDE DEF part
  <2>1. parts = {part(x) : x \in DOMAIN f}
    OBVIOUS
  <2> DEFINE g == [x \in DOMAIN f |-> part(x)]
  <2>2. g \in Surjection(DOMAIN f, parts)
    BY DEF Surjection
  <2> QED BY <2>2, FS_Surjection
<1>3. IsFiniteSet(UNION parts)
  <2> HIDE DEF parts
  <2> QED BY <1>1, <1>2, FS_UNION
<1> QED BY <1>3, FS_CardinalityType DEF Total

LEMMA MinOfTwo ==
  ASSUME NEW a \in Int, NEW b \in Int
  PROVE  Min({a, b}) = IF a <= b THEN a ELSE b
<1> DEFINE m == IF a <= b THEN a ELSE b
<1>1. m \in {a, b} /\ \A y \in {a, b} : m <= y
  OBVIOUS
<1>2. \A x \in {a, b} : (\A y \in {a, b} : x <= y) => x = m
  OBVIOUS
<1> QED BY <1>1, <1>2 DEF Min

\* Nobody is planned more tokens than it needs.
LEMMA PlanFacts ==
  ASSUME Types, \A s \in Range(running) : num_uncomputed_tokens(s) \in Nat \ {0}
  PROVE  /\ running_plan \in [Seqs -> Nat]
         /\ \A s \in Range(running) : running_plan[s] <= num_uncomputed_tokens(s)
<1> DEFINE decodes == {s \in Range(running) : num_uncomputed_tokens(s) = 1}
           prefills(k) == {running[j] : j \in 1..k} \ decodes
           left(k) == MaxBatchTokens - Cardinality(decodes)
                        - Total([s \in prefills(k) |-> num_uncomputed_tokens(s)])
           position(s) == CHOOSE k \in DOMAIN running : running[k] = s
           planned(s) == IF s \notin Range(running) THEN 0
                         ELSE IF ~Chunked \/ s \in decodes THEN 1
                         ELSE Max({0, Min({num_uncomputed_tokens(s), left(position(s) - 1)})})
<1>1. running \in Seq(Seqs) /\ DOMAIN running = 1..Len(running) /\ Len(running) \in Nat
  BY DEF Types
<1>2. Range(running) \subseteq Seqs /\ IsFiniteSet(Seqs)
  BY <1>1, ConfigAssumption DEF Range
<1>3. ASSUME NEW k \in 0..Len(running)
      PROVE  left(k) \in Int
  <2>1. IsFiniteSet(decodes)
    BY <1>2, FS_Subset
  <2>2. Cardinality(decodes) \in Nat
    BY <2>1, FS_CardinalityType
  <2>3. prefills(k) \subseteq Range(running)
    BY <1>1 DEF Range
  <2>4. IsFiniteSet(prefills(k))
    BY <1>2, <2>3, FS_Subset
  <2> DEFINE f == [s \in prefills(k) |-> num_uncomputed_tokens(s)]
  <2>5. DOMAIN f = prefills(k) /\ \A s \in DOMAIN f : f[s] \in Nat
    BY <2>3
  <2> HIDE DEF f
  <2>6. Total(f) \in Nat
    BY <2>4, <2>5, TotalIsNat
  <2>7. MaxBatchTokens \in Nat
    BY ConfigAssumption
  <2> QED BY <2>2, <2>6, <2>7 DEF f
<1> HIDE DEF left
<1>4. \A s \in Range(running) : position(s) - 1 \in 0..Len(running)
  BY <1>1 DEF Range
<1> HIDE DEF position
<1>5. ASSUME NEW s \in Range(running)
      PROVE  planned(s) \in Nat /\ planned(s) <= num_uncomputed_tokens(s)
  <2> DEFINE u == num_uncomputed_tokens(s)
             l == left(position(s) - 1)
             m == Min({u, l})
  <2>1. u \in Nat \ {0} /\ l \in Int
    BY <1>3, <1>4
  <2> HIDE DEF u, l
  <2>2. m \in Int /\ m <= u
    BY <2>1, MinOfTwo
  <2> HIDE DEF m
  <2>3. Max({0, m}) \in Nat /\ Max({0, m}) <= u
    BY <2>1, <2>2, MaxOfTwo
  <2> QED BY <2>1, <2>3 DEF m, u, l
<1>6. running_plan = [s \in Seqs |-> planned(s)]
  BY DEF running_plan, left, position
<1> HIDE DEF planned
<1>7. \A s \in Seqs \ Range(running) : planned(s) = 0
  BY DEF planned
<1>8. \A s \in Seqs : planned(s) \in Nat
  BY <1>5, <1>7
<1> QED BY <1>2, <1>5, <1>6, <1>8

\* What a point of a step that only moves on may change.
OnlyControl ==
  UNCHANGED <<block_table, cpu_block_table, status, finish_reason, token_ids, num_computed_tokens,
              seqs, waiting, preempted, running, swapped>>

\* Moving on, with the same entries or without any.
LEMMA ControlFrame ==
  ASSUME QInv, OnlyControl, pc # "update",
         pc' = "update" => i' = 1 /\ batch.seqs # <<>>,
         pc = "fail_all" => pc' = "fail_all" \/ \A s \in Seqs : status[s] # "RUNNING",
         batch'.seqs = batch.seqs,
         DOMAIN (batch') = {"seqs", "swap_out", "swap_in", "num_preempted"},
         pc' \in {"idle", "running", "swap_in", "admit", "execute", "update", "fail_all", "stuck"},
         pc' \in {"idle", "fail_all", "stuck"} => batch.seqs = <<>>,
         plan' \in [Seqs -> Nat], budget' \in Int, i' \in Nat \ {0}, WalkOK'
  PROVE  QInv'
<1>1. Types /\ BatchOK /\ \A t \in Seqs : Placed(t) /\ Counted(t)
  BY DEF QInv
<1>2. /\ Pending = DOMAIN batch.seqs /\ Pending' = DOMAIN batch.seqs
      /\ pc' = "update" => i' \in DOMAIN batch.seqs
  <2>1. batch.seqs \in Seq([seq : Seqs, n : Nat \ {0}, sample : BOOLEAN])
    BY <1>1 DEF Types
  <2>2. /\ DOMAIN batch.seqs = 1..Len(batch.seqs) /\ Len(batch.seqs) \in Nat
        /\ batch.seqs # <<>> => Len(batch.seqs) # 0
    BY <2>1
  <2> QED BY <2>2 DEF Pending
<1>3. Types'
  BY <1>1 DEF Types, OnlyControl, IsList
<1>4. ASSUME NEW t \in Seqs
      PROVE  Placed(t)' /\ Counted(t)'
  <2>1. Placed(t) /\ Counted(t)
    BY <1>1
  <2>2. Pending' = Pending
    BY <1>2 DEF Pending
  <2>3. Placed(t)'
    BY <2>1 DEF Placed, OnlyControl
  <2>4. Counted(t)'
    BY <2>2, <2>1 DEF Counted, OnlyControl, Awaiting, num_tokens, blocks_for
  <2> QED BY <2>3, <2>4
<1>5. BatchOK'
  <2>1. \A k \in DOMAIN batch.seqs : Schedulable(batch.seqs[k])'
    BY <1>2, <1>1 DEF BatchOK, Schedulable, OnlyControl, num_tokens, blocks_for
  <2> QED BY <1>2, <1>1, <2>1 DEF BatchOK
<1> QED BY <1>3, <1>4, <1>5 DEF QInv

\* BeginRunning plans for running sequences that have no entry yet.
LEMMA BeginRunningWalk ==
  ASSUME QInv, OnlyControl, BeginRunning, pc # "update", pc # "fail_all", batch'.seqs = <<>>
  PROVE  WalkOK' /\ plan' \in [Seqs -> Nat] /\ i' \in Nat \ {0}
<1>1. Types /\ \A t \in Seqs : Placed(t) /\ Counted(t)
  BY DEF QInv
<1>2. running \in Seq(Seqs) /\ Len(running) \in Nat /\ \A j \in 1..Len(running) : running[j] \in Range(running) /\ running[j] \in Seqs
  BY <1>1 DEF Types, Range
<1>3. ASSUME NEW s \in Range(running)
      PROVE  num_uncomputed_tokens(s) \in Nat \ {0}
  <2>1. s \in Seqs
    BY <1>2 DEF Range
  <2>2. status[s] = "RUNNING"
    BY <1>1, <1>3, <2>1 DEF Placed
  <2>3. num_computed_tokens[s] < num_tokens(s) /\ num_computed_tokens[s] \in Nat /\ num_tokens(s) \in Nat
    BY <1>1, <2>1, <2>2 DEF Counted, Live, Types, num_tokens
  <2> QED BY <2>3 DEF num_uncomputed_tokens
<1>4. /\ running_plan \in [Seqs -> Nat]
      /\ \A s \in Range(running) : running_plan[s] <= num_uncomputed_tokens(s)
  BY <1>1, <1>3, PlanFacts
<1>5. plan' = running_plan /\ i' = 1
  BY DEF BeginRunning
<1>6. \A s : num_uncomputed_tokens(s)' = num_uncomputed_tokens(s)
  BY DEF OnlyControl, num_uncomputed_tokens, num_tokens
<1>7. WalkOK'
  BY <1>2, <1>4, <1>5, <1>6 DEF WalkOK, OnlyControl
<1> QED BY <1>4, <1>5, <1>7

LEMMA NoPlanType == NoPlan \in [Seqs -> Nat]
BY DEF NoPlan

\* The points of a step where nothing but the control moves.
LEMMA BeginStepStep ==
  ASSUME QInv, BeginStep
  PROVE  QInv'
<1>1. /\ pc = "idle" /\ batch' = EmptyBatch /\ budget' = MaxBatchTokens
      /\ (pc' = "admit" /\ UNCHANGED <<plan, i>>) \/ BeginRunning
      /\ OnlyControl
  BY DEF BeginStep, OnlyControl, poolVars, gpuVars, cpuVars, seqVars, queueVars, waitingVars
<1>2. /\ batch.seqs = <<>> /\ batch'.seqs = <<>>
      /\ DOMAIN (batch') = {"seqs", "swap_out", "swap_in", "num_preempted"}
      /\ budget' \in Int /\ plan \in [Seqs -> Nat] /\ i \in Nat \ {0}
  BY <1>1, ConfigAssumption DEF QInv, BatchOK, EmptyBatch, Types
<1>3. CASE pc' = "admit" /\ UNCHANGED <<plan, i>>
  <2>1. WalkOK'
    BY <1>1, <1>3 DEF WalkOK, QInv
  <2> QED BY <1>1, <1>2, <1>3, <2>1, ControlFrame
<1>4. CASE BeginRunning
  <2>1. WalkOK' /\ plan' \in [Seqs -> Nat] /\ i' \in Nat \ {0}
    BY <1>1, <1>2, <1>4, BeginRunningWalk
  <2>2. pc' = "running"
    BY <1>4 DEF BeginRunning
  <2> QED BY <1>1, <1>2, <2>1, <2>2, ControlFrame
<1> QED BY <1>1, <1>3, <1>4

LEMMA EndRunningStep ==
  ASSUME QInv, EndRunning
  PROVE  QInv'
<1>1. /\ pc = "running" /\ pc' \in {"swap_in", "execute"} /\ plan' = NoPlan /\ i' = 1
      /\ batch' = batch /\ OnlyControl
      /\ budget' = budget_left \/ budget' = 0
  BY DEF EndRunning, OnlyControl, poolVars, gpuVars, cpuVars, seqVars, queueVars, waitingVars
<1>2. DOMAIN batch = {"seqs", "swap_out", "swap_in", "num_preempted"}
  BY DEF QInv, Types
<1>3. budget' \in Int
  <2> DEFINE f == [k \in DOMAIN batch.seqs |-> batch.seqs[k].n]
  <2>1. \A k \in DOMAIN batch.seqs : batch.seqs[k].n \in Nat
    BY EntryType DEF QInv
  <2>2. IsFiniteSet(DOMAIN batch.seqs)
    <3>1. batch.seqs \in Seq([seq : Seqs, n : Nat \ {0}, sample : BOOLEAN])
      BY DEF QInv, Types
    <3>2. DOMAIN batch.seqs = 1..Len(batch.seqs) /\ Len(batch.seqs) \in Int
      BY <3>1
    <3> QED BY <3>2, FS_Interval
  <2>3. DOMAIN f = DOMAIN batch.seqs /\ \A k \in DOMAIN f : f[k] \in Nat
    BY <2>1
  <2> HIDE DEF f
  <2>4. Total(f) \in Nat
    BY <2>2, <2>3, TotalIsNat
  <2> QED BY <1>1, <2>4, ConfigAssumption DEF budget_left, batch_tokens, f
<1>4. WalkOK'
  BY <1>1 DEF WalkOK
<1> QED BY <1>1, <1>2, <1>3, <1>4, NoPlanType, ControlFrame

LEMMA EndSwapInStep ==
  ASSUME QInv, EndSwapIn
  PROVE  QInv'
<1>1. /\ pc = "swap_in" /\ pc' \in {"admit", "execute"} /\ OnlyControl
      /\ budget' \in {budget, 0} /\ UNCHANGED <<batch, plan, i>>
  BY DEF EndSwapIn, OnlyControl, poolVars, gpuVars, cpuVars, seqVars, queueVars, waitingVars
<1>2. /\ DOMAIN batch = {"seqs", "swap_out", "swap_in", "num_preempted"}
      /\ budget \in Int /\ plan \in [Seqs -> Nat] /\ i \in Nat \ {0}
  BY DEF QInv, Types
<1>3. WalkOK'
  BY <1>1 DEF WalkOK, QInv
<1>4. plan' \in [Seqs -> Nat] /\ i' \in Nat \ {0} /\ budget' \in Int
  BY <1>1, <1>2
<1> QED BY <1>1, <1>2, <1>3, <1>4, ControlFrame

LEMMA EndAdmitStep ==
  ASSUME QInv, EndAdmit
  PROVE  QInv'
<1>1. /\ pc = "admit" /\ OnlyControl /\ budget' = 0 /\ batch' = batch
      /\ \/ pc' = "execute" /\ UNCHANGED <<plan, i>>
         \/ batch.seqs = <<>> /\ BeginRunning
  BY DEF EndAdmit, OnlyControl, poolVars, gpuVars, cpuVars, seqVars, waitingVars
<1>2. /\ DOMAIN batch = {"seqs", "swap_out", "swap_in", "num_preempted"}
      /\ budget' \in Int /\ plan \in [Seqs -> Nat] /\ i \in Nat \ {0}
  BY <1>1 DEF QInv, Types
<1>3. CASE pc' = "execute" /\ UNCHANGED <<plan, i>>
  <2>1. WalkOK'
    BY <1>1, <1>3 DEF WalkOK, QInv
  <2> QED BY <1>1, <1>2, <1>3, <2>1, ControlFrame
<1>4. CASE batch.seqs = <<>> /\ BeginRunning
  <2>1. WalkOK' /\ plan' \in [Seqs -> Nat] /\ i' \in Nat \ {0}
    BY <1>1, <1>4, BeginRunningWalk
  <2>2. pc' = "running"
    BY <1>4 DEF BeginRunning
  <2> QED BY <1>1, <1>2, <2>1, <2>2, ControlFrame
<1> QED BY <1>1, <1>3, <1>4

LEMMA EmptyStepStep ==
  ASSUME QInv, EmptyStep
  PROVE  QInv'
<1>1. /\ pc = "execute" /\ batch.seqs = <<>> /\ pc' \in {"stuck", "idle"} /\ batch' = EmptyBatch
      /\ OnlyControl /\ UNCHANGED <<plan, budget, i>>
  BY DEF EmptyStep, batch_is_empty, OnlyControl, poolVars, gpuVars, cpuVars, seqVars, queueVars, waitingVars
<1>2. batch'.seqs = <<>> /\ DOMAIN (batch') = {"seqs", "swap_out", "swap_in", "num_preempted"}
  BY <1>1 DEF EmptyBatch
<1>3. WalkOK'
  BY <1>1 DEF WalkOK, QInv
<1>4. plan' \in [Seqs -> Nat] /\ i' \in Nat \ {0} /\ budget' \in Int
  BY <1>1 DEF QInv, Types
<1> QED BY <1>1, <1>2, <1>3, <1>4, ControlFrame

LEMMA ExecuteStep ==
  ASSUME QInv, Execute
  PROVE  QInv'
<1>1. /\ pc = "execute" /\ OnlyControl /\ UNCHANGED <<plan, budget, i>>
      /\ \/ batch.seqs = <<>> /\ pc' = "idle" /\ batch' = EmptyBatch
         \/ batch.seqs # <<>> /\ pc' = "update" /\ batch' = batch
  BY DEF Execute, OnlyControl, poolVars, gpuVars, cpuVars, seqVars, queueVars, waitingVars
<1>2. batch'.seqs = batch.seqs /\ DOMAIN (batch') = {"seqs", "swap_out", "swap_in", "num_preempted"}
  BY <1>1 DEF EmptyBatch, QInv, Types
<1>3. WalkOK' /\ i = 1
  BY <1>1 DEF WalkOK, QInv
<1>4. plan' \in [Seqs -> Nat] /\ i' \in Nat \ {0} /\ budget' \in Int
  BY <1>1 DEF QInv, Types
<1> QED BY <1>1, <1>2, <1>3, <1>4, ControlFrame

LEMMA EndFailAllStep ==
  ASSUME QInv, EndFailAll
  PROVE  QInv'
<1>1. /\ pc = "fail_all" /\ pc' = "idle" /\ seqs = {} /\ OnlyControl /\ UNCHANGED <<plan, budget, i, batch>>
  BY DEF EndFailAll, OnlyControl, poolVars, gpuVars, cpuVars, seqVars, queueVars, waitingVars
<1>2. /\ DOMAIN (batch') = {"seqs", "swap_out", "swap_in", "num_preempted"}
      /\ batch.seqs = <<>>
  BY <1>1 DEF QInv, BatchOK, Types
<1>3. WalkOK'
  BY <1>1 DEF WalkOK, QInv
<1>4. plan' \in [Seqs -> Nat] /\ i' \in Nat \ {0} /\ budget' \in Int
  BY <1>1 DEF QInv, Types
<1>5. \A s \in Seqs : status[s] # "RUNNING"
  BY <1>1 DEF QInv, Placed, Live
<1> QED BY <1>1, <1>2, <1>3, <1>4, <1>5, ControlFrame

\* A failing forward pass drops the batch; its slots stay with the tables until
\* every request is aborted.
LEMMA ExecuteFailsStep ==
  ASSUME QInv, ExecuteFails
  PROVE  QInv'
<1>1. /\ pc = "execute" /\ pc' = "fail_all" /\ batch' = EmptyBatch
      /\ OnlyControl /\ UNCHANGED <<plan, budget, i>>
  BY DEF ExecuteFails, OnlyControl, poolVars, gpuVars, cpuVars, seqVars, queueVars, waitingVars
<1>2. Types /\ WalkOK /\ \A t \in Seqs : Placed(t) /\ Counted(t)
  BY DEF QInv
<1>3. batch'.seqs = <<>> /\ DOMAIN (batch') = {"seqs", "swap_out", "swap_in", "num_preempted"}
  BY <1>1 DEF EmptyBatch
<1>4. Types'
  BY <1>1, <1>2, <1>3 DEF Types, OnlyControl, IsList
<1>5. ASSUME NEW t \in Seqs
      PROVE  Placed(t)' /\ Counted(t)'
  <2>1. Placed(t) /\ Counted(t)
    BY <1>2
  <2>2. Placed(t)'
    BY <1>1, <2>1 DEF Placed, OnlyControl
  <2>3. Counted(t)'
    BY <1>1, <2>1 DEF Counted, OnlyControl, num_tokens, blocks_for
  <2> QED BY <2>2, <2>3
<1>6. BatchOK' /\ WalkOK'
  BY <1>1, <1>2, <1>3 DEF BatchOK, WalkOK, Pending
<1> QED BY <1>4, <1>5, <1>6 DEF QInv

-----------------------------------------------------------------------------
\* Sequences that get an entry.

\* Schedulable after a step that changes the batch.
Ready(e) ==
  /\ status'[e.seq] = "RUNNING"
  /\ Len(block_table'[e.seq]) = blocks_for(num_computed_tokens'[e.seq] + e.n)
  /\ num_computed_tokens'[e.seq] + e.n <= Len(token_ids'[e.seq])
  /\ e.sample <=> num_computed_tokens'[e.seq] + e.n = Len(token_ids'[e.seq])

\* The batch gains an entry of a sequence that had none.
LEMMA BatchGains ==
  ASSUME QInv, NEW s \in Seqs, s \notin Awaiting, pc \in {"running", "swap_in", "admit"}, pc' = pc,
         NEW e \in [seq : Seqs, n : Nat \ {0}, sample : BOOLEAN], e.seq = s,
         batch'.seqs = Append(batch.seqs, e),
         \A t \in Seqs \ {s} : /\ status'[t] = status[t] /\ token_ids'[t] = token_ids[t]
                               /\ num_computed_tokens'[t] = num_computed_tokens[t]
                               /\ block_table'[t] = block_table[t],
         Ready(e)
  PROVE  /\ BatchOK' /\ Awaiting' = Awaiting \cup {s}
         /\ batch'.seqs \in Seq([seq : Seqs, n : Nat \ {0}, sample : BOOLEAN])
<1> DEFINE E == [seq : Seqs, n : Nat \ {0}, sample : BOOLEAN]
           old == batch.seqs
           new == batch'.seqs
<1>1. Types /\ BatchOK
  BY DEF QInv
<1>2. old \in Seq(E) /\ e \in E /\ \A k \in DOMAIN old : old[k].seq \in Seqs
  BY <1>1, EntryType DEF Types
<1>3. /\ new \in Seq(E) /\ DOMAIN new = DOMAIN old \cup {Len(old) + 1} /\ Len(old) + 1 \notin DOMAIN old
      /\ new[Len(old) + 1] = e /\ \A k \in DOMAIN old : new[k] = old[k]
  <2> HIDE DEF E
  <2> QED BY <1>2, AppendFacts
<1>4. Pending = DOMAIN old /\ Pending' = DOMAIN new
  BY DEF Pending
<1>5. \A k \in DOMAIN old : old[k].seq # s
  BY <1>4 DEF Awaiting
<1> HIDE DEF old, new
<1>6. ASSUME NEW k \in DOMAIN new
      PROVE  Ready(new[k])
  <2>1. CASE k = Len(old) + 1
    BY <1>3, <2>1
  <2>2. CASE k \in DOMAIN old
    <3>1. Schedulable(old[k]) /\ old[k].seq \in Seqs \ {s}
      BY <1>1, <1>2, <1>4, <1>5, <2>2 DEF BatchOK, old
    <3>2. Ready(old[k])
      BY <3>1 DEF Schedulable, Ready, num_tokens
    <3> QED BY <1>3, <2>2, <3>2
  <2> QED BY <1>3, <2>1, <2>2
<1>7. \A j, k \in DOMAIN new : new[j].seq = new[k].seq => j = k
  BY <1>1, <1>3, <1>5 DEF BatchOK, old
<1>8. BatchOK'
  BY <1>4, <1>6, <1>7 DEF BatchOK, Schedulable, Ready, num_tokens, blocks_for, new
<1>9. Awaiting' = Awaiting \cup {s}
  BY <1>3, <1>4 DEF Awaiting, old, new
<1> QED BY <1>3, <1>8, <1>9 DEF new, old

LEMMA BlocksForCount ==
  ASSUME NEW n \in Nat
  PROVE  blocks_for(n) \in Nat /\ (n # 0 => blocks_for(n) # 0)
<1>1. BlockSize \in Nat \ {0}
  BY PoolAssumption
<1>2. blocks_for(n) \in Nat
  BY <1>1, BlocksFor
<1>3. n # 0 => blocks_for(n) # 0
  BY <1>1, BlocksForMore
<1> QED BY <1>2, <1>3

\* Room for n tokens more is blocks_needed blocks.
LEMMA RoomFor ==
  ASSUME NEW c \in Nat, NEW n \in Nat, NEW l \in Nat, l <= blocks_for(c)
  PROVE  /\ blocks_for(c + n) - l \in Nat /\ l + (blocks_for(c + n) - l) = blocks_for(c + n)
         /\ blocks_for(c + n) \in Nat /\ blocks_for(c) \in Nat
         /\ c + n # 0 => blocks_for(c + n) # 0
<1>1. BlockSize \in Nat \ {0} /\ c + n \in Nat /\ c <= c + n
  BY PoolAssumption
<1>2. blocks_for(c + n) \in Nat /\ blocks_for(c) \in Nat
  BY <1>1, BlocksFor
<1>3. blocks_for(c) <= blocks_for(c + n) /\ (c + n # 0 => blocks_for(c + n) # 0)
  BY <1>1, BlocksForMore
<1> QED BY <1>2, <1>3

\* The sequences of a walk that are still ahead have no entry.
LEMMA AheadHaveNone ==
  ASSUME QInv, pc = "running", NEW j \in i..Len(running)
  PROVE  running[j] \in Seqs /\ running[j] \in Range(running) /\ running[j] \notin Awaiting
         /\ status[running[j]] = "RUNNING"
<1>1. /\ running \in Seq(Seqs) /\ IsInjective(running) /\ i \in Nat \ {0}
      /\ Len(running) \in Nat /\ DOMAIN running = 1..Len(running)
  BY DEF QInv, Types
<1>2. running[j] \in Seqs /\ running[j] \in Range(running)
  BY <1>1 DEF Range
<1>3. \A k \in DOMAIN batch.seqs : \E m \in 1 .. i - 1 : running[m] = batch.seqs[k].seq
  BY DEF QInv, WalkOK
<1>4. \A k \in DOMAIN batch.seqs : batch.seqs[k].seq # running[j]
  BY <1>1, <1>3 DEF IsInjective
<1>5. status[running[j]] = "RUNNING"
  BY <1>2 DEF QInv, Placed
<1> QED BY <1>2, <1>4, <1>5 DEF Awaiting, Pending

\* A live request gets an entry: it runs, with slots for what it computes.
Gets(s, e) ==
  /\ batch'.seqs = Append(batch.seqs, e)
  /\ DOMAIN (batch') = {"seqs", "swap_out", "swap_in", "num_preempted"}
  /\ status' = [status EXCEPT ![s] = "RUNNING"] /\ s \in seqs
  /\ num_computed_tokens' \in [Seqs -> Nat]
  /\ DOMAIN (block_table') = Seqs /\ DOMAIN (cpu_block_table') = Seqs
  /\ \A t \in Seqs \ {s} : /\ num_computed_tokens'[t] = num_computed_tokens[t]
                           /\ block_table'[t] = block_table[t] /\ cpu_block_table'[t] = cpu_block_table[t]
  /\ IsList(block_table'[s]) /\ cpu_block_table'[s] = <<>>
  /\ Len(block_table'[s]) = blocks_for(num_computed_tokens'[s] + e.n)
  /\ num_computed_tokens'[s] + e.n <= num_tokens(s)
  /\ e.sample <=> num_computed_tokens'[s] + e.n = num_tokens(s)
  /\ waiting' = waiting \ {s}
  /\ running' \in Seq(Seqs) /\ IsInjective(running') /\ Range(running)' = Range(running) \cup {s}
  /\ Len(running') <= MaxNumSeqs
  /\ swapped' \in Seq(Seqs) /\ IsInjective(swapped') /\ Range(swapped)' = Range(swapped) \ {s}
  /\ preempted' \in Seq(Seqs) /\ IsInjective(preempted') /\ Range(preempted)' = Range(preempted) \ {s}
  /\ UNCHANGED <<finish_reason, token_ids, seqs, pc>>

LEMMA GetsKeeps ==
  ASSUME QInv, NEW s \in Seqs, s \notin Awaiting, pc \in {"running", "swap_in", "admit"},
         NEW e \in [seq : Seqs, n : Nat \ {0}, sample : BOOLEAN], e.seq = s, Gets(s, e),
         WalkOK', plan' \in [Seqs -> Nat], budget' \in Int, i' \in Nat \ {0}
  PROVE  QInv'
<1>1. Types /\ BatchOK /\ \A t \in Seqs : Placed(t) /\ Counted(t)
  BY DEF QInv
<1>2. /\ status \in [Seqs -> {"NEW", "WAITING", "RUNNING", "PREEMPTED", "FINISHED", "ABORTED"}]
      /\ token_ids \in [Seqs -> Seq(Tokens)] /\ e.n \in Nat \ {0}
  BY <1>1 DEF Types
<1>3. status'[s] = "RUNNING" /\ \A t \in Seqs \ {s} : status'[t] = status[t]
  BY <1>2 DEF Gets
<1>4. BatchOK' /\ Awaiting' = Awaiting \cup {s}
      /\ batch'.seqs \in Seq([seq : Seqs, n : Nat \ {0}, sample : BOOLEAN])
  <2>1. Ready(e)
    BY <1>3 DEF Gets, Ready, num_tokens
  <2>2. /\ pc' = pc /\ batch'.seqs = Append(batch.seqs, e)
        /\ \A t \in Seqs \ {s} : /\ status'[t] = status[t] /\ token_ids'[t] = token_ids[t]
                                 /\ num_computed_tokens'[t] = num_computed_tokens[t]
                                 /\ block_table'[t] = block_table[t]
    BY <1>3 DEF Gets
  <2> QED BY <2>1, <2>2, BatchGains
<1>5. Types'
  <2>1. \A t \in Seqs : IsList(block_table[t])' /\ IsList(cpu_block_table[t])'
    <3>1. IsList(<<>>)
      BY EmptyIsList
    <3> QED BY <1>1, <3>1 DEF Types, Gets, IsList
  <2>2. status' \in [Seqs -> {"NEW", "WAITING", "RUNNING", "PREEMPTED", "FINISHED", "ABORTED"}]
    BY <1>2 DEF Gets
  <2>3. /\ finish_reason' \in [Seqs -> {None, "stop", "length", "error"}]
        /\ token_ids' \in [Seqs -> Seq(Tokens)] /\ num_computed_tokens' \in [Seqs -> Nat]
        /\ seqs' \subseteq Seqs /\ waiting' \subseteq Seqs /\ pc' = pc
    BY <1>1 DEF Types, Gets
  <2>4. /\ \A queue \in {running', swapped', preempted'} : queue \in Seq(Seqs) /\ IsInjective(queue)
        /\ Len(running') <= MaxNumSeqs
        /\ DOMAIN (batch') = {"seqs", "swap_out", "swap_in", "num_preempted"}
        /\ DOMAIN (block_table') = Seqs /\ DOMAIN (cpu_block_table') = Seqs
    BY DEF Gets
  <2> QED BY <1>4, <2>1, <2>2, <2>3, <2>4 DEF Types
<1>6. ASSUME NEW t \in Seqs
      PROVE  Placed(t)' /\ Counted(t)'
  <2>1. CASE t # s
    BY <1>1, <1>3, <1>4, <2>1, Frame DEF Gets
  <2>2. CASE t = s
    <3>1. num_computed_tokens'[s] \in Nat /\ num_computed_tokens'[s] + e.n \in Nat \ {0}
      <4>1. num_computed_tokens'[s] \in Nat
        BY DEF Gets
      <4> QED BY <1>2, <4>1
    <3>2. block_table'[s] # <<>>
      <4>1. blocks_for(num_computed_tokens'[s] + e.n) # 0
        BY <3>1, BlocksForCount
      <4> QED BY <4>1 DEF Gets
    <3>3. Placed(s)'
      BY <1>3, <3>2 DEF Placed, Live, Gets
    <3>4. num_tokens(s) \in Nat /\ num_tokens(s) < Len(Prompt[s]) + MaxTokens[s]
      BY <1>1, <1>2 DEF Placed, Counted, Gets, num_tokens
    <3>5. num_computed_tokens'[s] < num_tokens(s)
      <4>1. num_computed_tokens'[s] + e.n <= num_tokens(s)
        BY DEF Gets
      <4> QED BY <1>2, <3>1, <3>4, <4>1
    <3>6. s \notin Range(swapped)' /\ s \notin Range(preempted)'
      BY DEF Gets
    <3>7. num_tokens(s)' = num_tokens(s)
      BY DEF Gets, num_tokens
    <3>8. Counted(s)'
      BY <1>3, <1>4, <3>4, <3>5, <3>6, <3>7 DEF Counted
    <3> QED BY <2>2, <3>3, <3>8
  <2> QED BY <2>1, <2>2
<1> QED BY <1>4, <1>5, <1>6 DEF QInv

\* The current sequence gets slots for what is planned, and an entry.
LEMMA ScheduleRunningStep ==
  ASSUME QInv, ScheduleRunning
  PROVE  QInv'
<1> DEFINE E == [seq : Seqs, n : Nat \ {0}, sample : BOOLEAN]
<1>1. /\ pc = "running" /\ i <= Len(running) /\ i' = i + 1
      /\ UNCHANGED <<cpu_block_table, status, finish_reason, token_ids, num_computed_tokens,
                     seqs, waiting, preempted, running, swapped, pc, plan, budget>>
  BY DEF ScheduleRunning, Scheduling, cpuVars, seqVars, queueVars, waitingVars
<1>2. Types /\ BatchOK /\ WalkOK /\ \A t \in Seqs : Placed(t) /\ Counted(t)
  BY DEF QInv
<1>3. /\ i \in Nat \ {0} /\ running \in Seq(Seqs) /\ IsInjective(running) /\ Len(running) \in Nat
      /\ plan \in [Seqs -> Nat] /\ num_computed_tokens \in [Seqs -> Nat]
      /\ status \in [Seqs -> {"NEW", "WAITING", "RUNNING", "PREEMPTED", "FINISHED", "ABORTED"}]
      /\ DOMAIN batch = {"seqs", "swap_out", "swap_in", "num_preempted"}
      /\ DOMAIN block_table = Seqs /\ DOMAIN cpu_block_table = Seqs
      /\ (\A t \in Seqs : IsList(block_table[t])) /\ budget \in Int
  BY <1>2 DEF Types
<1>4. PICK s \in Seqs : s = current /\ s \notin Awaiting /\ s \in Range(running) /\ status[s] = "RUNNING"
  BY <1>1, <1>3, AheadHaveNone DEF current
<1>5. PICK n \in Nat : n = plan[s] /\ n <= num_uncomputed_tokens(s)
  BY <1>1, <1>2, <1>3, <1>4 DEF WalkOK, current
<1>6. CASE n = 0
  <2>1. OnlyControl /\ batch' = batch
    BY <1>1, <1>4, <1>5, <1>6 DEF ScheduleRunning, OnlyControl, gpuVars
  <2>2. WalkOK'
    BY <1>1, <1>2, <1>3, <2>1 DEF WalkOK, num_uncomputed_tokens, num_tokens
  <2>3. i' \in Nat \ {0}
    BY <1>1, <1>3
  <2> QED BY <1>1, <1>3, <2>1, <2>2, <2>3, ControlFrame
<1>7. CASE n # 0
  <2>1. PICK c \in Nat : c = num_computed_tokens[s]
    BY <1>3
  <2>2. PICK e \in E : e = [seq |-> s, n |-> n, sample |-> c + n = num_tokens(s)]
    <3>1. (c + n = num_tokens(s)) \in BOOLEAN /\ n \in Nat \ {0}
      BY <1>7
    <3> QED BY <3>1
  <2>3. /\ Acquire(s, <<>>, blocks_needed(s, n))
        /\ batch' = [batch EXCEPT !.seqs = Append(batch.seqs, e)]
    BY <1>4, <1>5, <1>7, <2>1, <2>2 DEF ScheduleRunning, append_slots, BatchAdd
  <2>4. Placed(s) /\ Counted(s) /\ IsList(block_table[s]) /\ num_tokens(s) \in Nat
    BY <1>2 DEF Types, num_tokens
  <2>5. c < num_tokens(s) /\ Len(block_table[s]) = blocks_for(c) /\ s \in seqs
        /\ cpu_block_table[s] = <<>> /\ s \notin waiting /\ s \notin Range(swapped) /\ s \notin Range(preempted)
    BY <1>1, <1>4, <2>1, <2>4 DEF Counted, Placed, Live
  <2>6. c + n <= num_tokens(s)
    BY <1>5, <2>1, <2>4 DEF num_uncomputed_tokens
  <2>7. Len(block_table[s]) \in Nat /\ blocks_for(c + n) \in Nat
    <3>1. c + n \in Nat
      OBVIOUS
    <3>2. blocks_for(c + n) \in Nat
      BY <3>1, BlocksForCount
    <3> QED BY <2>4, <3>2 DEF IsList
  <2>8. blocks_needed(s, n) \in Nat /\ Len(block_table[s]) + blocks_needed(s, n) = blocks_for(c + n)
    <3>1. blocks_for(c) \in Nat /\ blocks_for(c) <= blocks_for(c)
      BY BlocksForCount
    <3>2. /\ blocks_for(c + n) - blocks_for(c) \in Nat
          /\ blocks_for(c) + (blocks_for(c + n) - blocks_for(c)) = blocks_for(c + n)
      <4> DEFINE l == blocks_for(c)
      <4> HIDE DEF l
      <4>1. l \in Nat /\ l <= blocks_for(c)
        BY <3>1 DEF l
      <4>2. blocks_for(c + n) - l \in Nat /\ l + (blocks_for(c + n) - l) = blocks_for(c + n)
        BY <4>1, RoomFor
      <4> QED BY <4>2 DEF l
    <3> QED BY <2>1, <2>5, <3>2 DEF blocks_needed
  <2>9. /\ DOMAIN (block_table') = Seqs /\ IsList(block_table'[s])
        /\ \A t \in Seqs \ {s} : block_table'[t] = block_table[t]
        /\ Len(block_table'[s]) = blocks_for(c + n)
    <3>1. PICK k \in Nat : k = blocks_needed(s, n)
      BY <2>8
    <3>2. IsList(<<>>) /\ Len(<<>>) = 0 /\ Acquire(s, <<>>, k)
      BY <2>3, <3>1, EmptyIsList
    <3>3. /\ DOMAIN (block_table') = Seqs /\ \A t \in Seqs : IsList(block_table'[t])
          /\ \A t \in Seqs \ {s} : block_table'[t] = block_table[t]
          /\ Len(block_table'[s]) = Len(block_table[s]) + 0 + k
      BY <1>3, <3>2, AcquireTable
    <3> QED BY <2>7, <2>8, <3>1, <3>3
  <2>10. /\ batch'.seqs = Append(batch.seqs, e)
         /\ DOMAIN (batch') = {"seqs", "swap_out", "swap_in", "num_preempted"}
    BY <1>3, <2>3
  <2>11. e.seq = s /\ e.n = n /\ (e.sample <=> c + n = num_tokens(s))
    BY <2>2
  <2>12. status' = [status EXCEPT ![s] = "RUNNING"]
    BY <1>1, <1>3, <1>4
  <2>13. waiting' = waiting \ {s} /\ Range(running)' = Range(running) \cup {s}
         /\ Range(swapped)' = Range(swapped) \ {s} /\ Range(preempted)' = Range(preempted) \ {s}
    BY <1>1, <1>4, <2>5
  <2>14. Gets(s, e)
    BY <1>1, <1>2, <1>3, <2>1, <2>5, <2>6, <2>9, <2>10, <2>11, <2>12, <2>13 DEF Gets, Types
  <2>15. WalkOK'
    <3>1. batch.seqs \in Seq(E)
      BY <1>2 DEF Types
    <3>2. /\ DOMAIN (batch'.seqs) = DOMAIN batch.seqs \cup {Len(batch.seqs) + 1}
          /\ batch'.seqs[Len(batch.seqs) + 1] = e
          /\ \A k \in DOMAIN batch.seqs : batch'.seqs[k] = batch.seqs[k]
      <4> HIDE DEF E
      <4> QED BY <2>10, <3>1, AppendFacts
    <3>3. \A k \in DOMAIN batch.seqs : \E j \in 1 .. i - 1 : running[j] = batch.seqs[k].seq
      BY <1>1, <1>2 DEF WalkOK
    <3>4. i \in 1..i /\ running[i] = e.seq
      BY <1>3, <1>4, <2>11 DEF current
    <3>5. \A k \in DOMAIN (batch'.seqs) : \E j \in 1..i : running[j] = batch'.seqs[k].seq
      <4> SUFFICES ASSUME NEW k \in DOMAIN (batch'.seqs)
                   PROVE  \E j \in 1..i : running[j] = batch'.seqs[k].seq
        OBVIOUS
      <4>1. CASE k = Len(batch.seqs) + 1
        BY <3>2, <3>4, <4>1
      <4>2. CASE k \in DOMAIN batch.seqs
        <5>1. PICK j \in 1 .. i - 1 : running[j] = batch.seqs[k].seq
          BY <3>3, <4>2
        <5>2. j \in 1..i
          BY <1>3
        <5> QED BY <3>2, <4>2, <5>1, <5>2
      <4> QED BY <3>2, <4>1, <4>2
    <3>6. \A j \in i .. Len(running) : plan[running[j]] <= num_uncomputed_tokens(running[j])
      BY <1>1, <1>2 DEF WalkOK
    <3>7. i + 1 .. Len(running) \subseteq i .. Len(running) /\ i + 1 <= Len(running) + 1
      BY <1>1, <1>3
    <3>8. i' - 1 = i
      BY <1>1, <1>3
    <3> QED BY <1>1, <3>5, <3>6, <3>7, <3>8 DEF WalkOK, num_uncomputed_tokens, num_tokens
  <2>16. i' \in Nat \ {0} /\ plan' \in [Seqs -> Nat] /\ budget' \in Int
    BY <1>1, <1>3
  <2> QED BY <1>1, <1>4, <2>11, <2>14, <2>15, <2>16, GetsKeeps
<1> QED BY <1>6, <1>7

\* A victim comes back from host memory with slots for what it computes next.
LEMMA SwapInStep ==
  ASSUME QInv, SwapIn
  PROVE  QInv'
<1> DEFINE E == [seq : Seqs, n : Nat \ {0}, sample : BOOLEAN]
<1>1. /\ pc = "swap_in" /\ swapped # <<>> /\ Len(running) < MaxNumSeqs
      /\ swap_in_tokens > 0 /\ swap_in(Head(swapped), swap_in_tokens)
      /\ swapped' = Tail(swapped) /\ running' = Append(running, Head(swapped))
      /\ status' = [status EXCEPT ![Head(swapped)] = "RUNNING"]
      /\ UNCHANGED <<finish_reason, token_ids, num_computed_tokens, seqs, waiting, preempted, pc, plan, i>>
  BY DEF SwapIn, SwappingIn, SetStatus, waitingVars
<1>2. Types /\ BatchOK /\ WalkOK /\ \A t \in Seqs : Placed(t) /\ Counted(t)
  BY DEF QInv
<1>3. /\ running \in Seq(Seqs) /\ IsInjective(running) /\ Len(running) \in Nat
      /\ swapped \in Seq(Seqs) /\ IsInjective(swapped) /\ preempted \in Seq(Seqs) /\ IsInjective(preempted)
      /\ num_computed_tokens \in [Seqs -> Nat] /\ budget \in Int
      /\ DOMAIN batch = {"seqs", "swap_out", "swap_in", "num_preempted"}
      /\ DOMAIN block_table = Seqs /\ DOMAIN cpu_block_table = Seqs
      /\ \A t \in Seqs : IsList(block_table[t])
      /\ plan \in [Seqs -> Nat] /\ i \in Nat \ {0}
  BY <1>2 DEF Types
<1>4. PICK s \in Seqs : s = Head(swapped) /\ s \in Range(swapped)
  BY <1>1, <1>3, TailFacts
<1>5. /\ status[s] = "PREEMPTED" /\ s \in seqs /\ s \notin waiting /\ s \notin Range(running)
      /\ s \notin Range(preempted) /\ block_table[s] = <<>> /\ num_computed_tokens[s] < num_tokens(s)
      /\ num_tokens(s) \in Nat
  BY <1>2, <1>4 DEF Placed, Counted, Live, Types, num_tokens
<1>6. s \notin Awaiting
  BY <1>5, AwaitingRun
<1>7. PICK c \in Nat : c = num_computed_tokens[s]
  BY <1>3
<1>8. PICK n \in Nat \ {0} : n = swap_in_tokens /\ c + n <= num_tokens(s)
  <2> DEFINE u == num_uncomputed_tokens(s)
  <2>1. u \in Nat /\ c + u = num_tokens(s)
    BY <1>5, <1>7 DEF num_uncomputed_tokens
  <2>2. swap_in_tokens = IF Chunked THEN Min({u, budget}) ELSE u
    BY <1>4 DEF swap_in_tokens
  <2> HIDE DEF u
  <2>3. Min({u, budget}) = IF u <= budget THEN u ELSE budget
    <3>1. u \in Int /\ budget \in Int
      BY <1>3, <2>1
    <3> QED BY <3>1, MinOfTwo
  <2>4. swap_in_tokens \in Int /\ swap_in_tokens <= u
    BY <1>3, <2>1, <2>2, <2>3
  <2> QED BY <1>1, <2>1, <2>4
<1>9. PICK e \in E : e = [seq |-> s, n |-> n, sample |-> c + n = num_tokens(s)]
  <2>1. (c + n = num_tokens(s)) \in BOOLEAN
    OBVIOUS
  <2> QED BY <2>1
<1>10. /\ batch'.seqs = Append(batch.seqs, e)
       /\ DOMAIN (batch') = {"seqs", "swap_out", "swap_in", "num_preempted"}
       /\ budget' \in Int
  <2>1. /\ batch' = [batch EXCEPT !.seqs = BatchAdd(s, n, num_computed_tokens[s]), !.swap_in = @ \o SwapInPairs(s)]
        /\ budget' = IF Chunked THEN budget - n ELSE budget
    BY <1>4, <1>8 DEF SwapIn
  <2>2. BatchAdd(s, n, num_computed_tokens[s]) = Append(batch.seqs, e)
    BY <1>7, <1>9 DEF BatchAdd
  <2>3. batch'.seqs = Append(batch.seqs, e) /\ DOMAIN (batch') = {"seqs", "swap_out", "swap_in", "num_preempted"}
    BY <1>3, <2>1, <2>2
  <2>4. budget' \in Int
    BY <1>3, <2>1
  <2> QED BY <2>3, <2>4
<1>11. PICK k \in Nat : k = blocks_for(c + n) /\ Acquire(s, <<>>, k)
  <2>1. c + n \in Nat
    OBVIOUS
  <2>2. Len(cpu_block_table[s]) = blocks_for(c)
    BY <1>2, <1>4, <1>7 DEF Counted
  <2>3. blocks_for(c) \in Nat /\ blocks_for(c + n) \in Nat
    BY <2>1, BlocksForCount
  <2>4. blocks_for(c) <= blocks_for(c + n)
    <3>1. c <= c + n /\ BlockSize \in Nat \ {0}
      BY PoolAssumption
    <3> QED BY <2>1, <3>1, BlocksForMore
  <2>5. Max({blocks_for(c), blocks_for(c + n)}) = blocks_for(c + n)
    <3>1. Max({blocks_for(c), blocks_for(c + n)})
            = IF blocks_for(c) >= blocks_for(c + n) THEN blocks_for(c) ELSE blocks_for(c + n)
      BY <2>3, MaxOfTwo
    <3> QED BY <2>3, <2>4, <3>1
  <2>6. Acquire(s, <<>>, Max({Len(cpu_block_table[s]), blocks_for(c + n)}))
    BY <1>1, <1>4, <1>7, <1>8 DEF swap_in
  <2> QED BY <2>1, <2>2, <2>3, <2>5, <2>6
<1>12. /\ DOMAIN (block_table') = Seqs /\ IsList(block_table'[s]) /\ Len(block_table'[s]) = blocks_for(c + n)
       /\ \A t \in Seqs \ {s} : block_table'[t] = block_table[t]
  <2>1. IsList(<<>>) /\ Len(<<>>) = 0 /\ Len(block_table[s]) = 0
    BY <1>5, EmptyIsList
  <2>2. /\ DOMAIN (block_table') = Seqs /\ \A t \in Seqs : IsList(block_table'[t])
        /\ \A t \in Seqs \ {s} : block_table'[t] = block_table[t]
        /\ Len(block_table'[s]) = 0 + 0 + k
    BY <1>3, <1>11, <2>1, AcquireTable
  <2> QED BY <1>11, <2>2
<1>13. /\ DOMAIN (cpu_block_table') = Seqs /\ cpu_block_table'[s] = <<>>
       /\ \A t \in Seqs \ {s} : cpu_block_table'[t] = cpu_block_table[t]
  BY <1>1, <1>3, <1>4 DEF swap_in, free_cpu
<1>14. /\ swapped' \in Seq(Seqs) /\ IsInjective(swapped') /\ Range(swapped)' = Range(swapped) \ {s}
  BY <1>1, <1>3, <1>4, TailFacts
<1>15. /\ running' \in Seq(Seqs) /\ IsInjective(running') /\ Range(running)' = Range(running) \cup {s}
       /\ Len(running') <= MaxNumSeqs
  <2>1. /\ running' \in Seq(Seqs) /\ IsInjective(running') /\ Range(running') = Range(running) \cup {s}
        /\ Len(running') = Len(running) + 1
    <3>1. running' = Append(running, s)
      BY <1>1, <1>4
    <3>2. PICK r \in Seq(Seqs) : r = running /\ IsInjective(r) /\ s \notin Range(r)
      BY <1>3, <1>5
    <3>3. /\ Append(r, s) \in Seq(Seqs) /\ IsInjective(Append(r, s)) /\ Range(Append(r, s)) = Range(r) \cup {s}
          /\ Len(Append(r, s)) = Len(r) + 1
      BY <3>2, AppendFacts
    <3> QED BY <3>1, <3>2, <3>3
  <2>2. Len(running) + 1 <= MaxNumSeqs
    BY <1>1, <1>3, ConfigAssumption
  <2> QED BY <2>1, <2>2
<1>16. e.seq = s /\ e.n = n /\ (e.sample <=> c + n = num_tokens(s))
  BY <1>9
<1>17. /\ waiting' = waiting \ {s} /\ preempted' \in Seq(Seqs) /\ IsInjective(preempted')
       /\ Range(preempted)' = Range(preempted) \ {s} /\ num_computed_tokens'[s] = c
       /\ status' = [status EXCEPT ![s] = "RUNNING"]
       /\ num_computed_tokens' \in [Seqs -> Nat]
       /\ \A t \in Seqs \ {s} : num_computed_tokens'[t] = num_computed_tokens[t]
       /\ UNCHANGED <<finish_reason, token_ids, seqs, pc>>
  <2>1. waiting' = waiting \ {s} /\ preempted' = preempted /\ Range(preempted) \ {s} = Range(preempted)
    BY <1>1, <1>5
  <2>2. status' = [status EXCEPT ![s] = "RUNNING"] /\ num_computed_tokens' = num_computed_tokens
        /\ UNCHANGED <<finish_reason, token_ids, seqs, pc>>
    BY <1>1, <1>4
  <2>3. Range(preempted)' = Range(preempted)
    BY <2>1 DEF Range
  <2> QED BY <1>3, <1>7, <2>1, <2>2, <2>3
<1>18. Gets(s, e)
  BY <1>5, <1>8, <1>10, <1>12, <1>13, <1>14, <1>15, <1>16, <1>17 DEF Gets
<1>19. WalkOK'
  BY <1>1, <1>2 DEF WalkOK
<1>20. i' \in Nat \ {0} /\ plan' \in [Seqs -> Nat]
  BY <1>1, <1>3
<1> QED BY <1>1, <1>6, <1>10, <1>16, <1>18, <1>19, <1>20, GetsKeeps

\* A victim or a waiting request starts behind its cached prefix.
LEMMA AdmitStep ==
  ASSUME QInv, ArrivalsOK, Admit
  PROVE  QInv'
<1> DEFINE E == [seq : Seqs, n : Nat \ {0}, sample : BOOLEAN]
<1>1. /\ pc = "admit" /\ budget > 0 /\ Len(running) < MaxNumSeqs /\ (preempted # <<>> \/ waiting # {})
      /\ PopWaiting /\ running' = Append(running, candidate)
      /\ status' = [status EXCEPT ![candidate] = "RUNNING"]
      /\ UNCHANGED <<finish_reason, token_ids, seqs, swapped, pc, plan, i, cpu_block_table>>
  BY DEF Admit, Admitting, SetStatus, cpuVars
<1>2. Types /\ BatchOK /\ WalkOK /\ \A t \in Seqs : Placed(t) /\ Counted(t)
  BY DEF QInv
<1>3. /\ running \in Seq(Seqs) /\ IsInjective(running) /\ Len(running) \in Nat
      /\ swapped \in Seq(Seqs) /\ IsInjective(swapped)
      /\ num_computed_tokens \in [Seqs -> Nat] /\ budget \in Int
      /\ DOMAIN batch = {"seqs", "swap_out", "swap_in", "num_preempted"}
      /\ DOMAIN block_table = Seqs /\ DOMAIN cpu_block_table = Seqs
      /\ \A t \in Seqs : IsList(block_table[t])
      /\ plan \in [Seqs -> Nat] /\ i \in Nat \ {0}
  BY <1>2 DEF Types
<1>4. PICK s \in Seqs :
        /\ s = candidate /\ status[s] \in {"WAITING", "PREEMPTED"}
        /\ block_table[s] = <<>> /\ cpu_block_table[s] = <<>>
        /\ s \notin Range(running) /\ s \notin Range(swapped) /\ s \notin Awaiting
        /\ waiting' = waiting \ {s}
        /\ preempted' \in Seq(Seqs) /\ IsInjective(preempted') /\ Range(preempted)' = Range(preempted) \ {s}
  BY <1>1, CandidatePopped
<1>5. s \in seqs /\ num_tokens(s) \in Nat \ {0}
  <2>1. s \in seqs /\ num_computed_tokens[s] < num_tokens(s) /\ num_tokens(s) \in Nat
    BY <1>2, <1>4 DEF Placed, Counted, Live, Types, num_tokens
  <2> QED BY <1>3, <2>1
<1>6. PICK m \in Nat :
        /\ IsList(cached_prefix(s)) /\ Len(cached_prefix(s)) = m
        /\ m * BlockSize \in Nat /\ m * BlockSize < num_tokens(s)
  <2>1. PICK m \in Nat : /\ cached_prefix(s) = [j \in 1..m |-> hash_to_block[Hash(s, j)]]
                         /\ m * BlockSize < num_tokens(s)
    BY <1>5, CachedPrefix
  <2> DEFINE cached == [j \in 1..m |-> hash_to_block[Hash(s, j)]]
  <2>2. Len(cached) = m /\ cached \in Seq({cached[j] : j \in 1..m})
    OBVIOUS
  <2>3. m * BlockSize \in Nat
    BY PoolAssumption, SMT
  <2> HIDE DEF cached
  <2>4. IsList(cached)
    BY <2>2, ListIsList
  <2> QED BY <2>1, <2>2, <2>3, <2>4 DEF cached
<1> DEFINE cached == cached_prefix(s)
<1>7. PICK c \in Nat : c = m * BlockSize /\ c < num_tokens(s)
  BY <1>6
<1>8. PICK n \in Nat \ {0} : n = admit_tokens(cached) /\ c + n <= num_tokens(s)
  <2> DEFINE u == num_tokens(s) - c
  <2>1. u \in Nat \ {0} /\ c + u = num_tokens(s)
    BY <1>5, <1>7
  <2>2. admit_tokens(cached) = IF Chunked THEN Min({u, budget}) ELSE u
    BY <1>4, <1>6, <1>7 DEF admit_tokens
  <2> HIDE DEF u
  <2>3. Min({u, budget}) = IF u <= budget THEN u ELSE budget
    <3>1. u \in Int /\ budget \in Int
      BY <1>3, <2>1
    <3> QED BY <3>1, MinOfTwo
  <2>4. Min({u, budget}) \in Nat \ {0} /\ Min({u, budget}) <= u
    BY <1>1, <1>3, <2>1, <2>3
  <2> QED BY <2>1, <2>2, <2>4
<1>9. PICK e \in E : e = [seq |-> s, n |-> n, sample |-> c + n = num_tokens(s)]
  <2>1. (c + n = num_tokens(s)) \in BOOLEAN
    OBVIOUS
  <2> QED BY <2>1
<1>10. /\ batch'.seqs = Append(batch.seqs, e)
       /\ DOMAIN (batch') = {"seqs", "swap_out", "swap_in", "num_preempted"}
       /\ budget' \in Int
  <2>1. /\ batch' = [batch EXCEPT !.seqs = BatchAdd(s, n, Len(cached) * BlockSize)]
        /\ budget' = budget - n
    BY <1>4, <1>8 DEF Admit
  <2>2. BatchAdd(s, n, Len(cached) * BlockSize) = Append(batch.seqs, e)
    BY <1>6, <1>7, <1>9 DEF BatchAdd
  <2>3. budget' \in Int
    BY <1>3, <2>1
  <2> QED BY <1>3, <2>1, <2>2, <2>3
<1>11. /\ Acquire(s, cached, blocks_for(c + n) - m)
       /\ num_computed_tokens' = [num_computed_tokens EXCEPT ![s] = c]
  BY <1>4, <1>6, <1>7, <1>8 DEF Admit, allocate
<1>12. PICK k \in Nat : k = blocks_for(c + n) - m /\ m + k = blocks_for(c + n)
  <2>1. c + n \in Nat /\ m * BlockSize <= c + n /\ BlockSize \in Nat \ {0}
    BY <1>6, <1>7, PoolAssumption
  <2>2. blocks_for(c + n) \in Nat
    BY <2>1, BlocksForCount
  <2>3. m <= blocks_for(c + n)
    BY <2>1, BlocksForMore
  <2> QED BY <2>2, <2>3
<1>13. /\ DOMAIN (block_table') = Seqs /\ IsList(block_table'[s]) /\ Len(block_table'[s]) = blocks_for(c + n)
       /\ \A t \in Seqs \ {s} : block_table'[t] = block_table[t]
  <2>1. Acquire(s, cached, k) /\ Len(block_table[s]) = 0
    BY <1>4, <1>11, <1>12
  <2>2. /\ DOMAIN (block_table') = Seqs /\ \A t \in Seqs : IsList(block_table'[t])
        /\ \A t \in Seqs \ {s} : block_table'[t] = block_table[t]
        /\ Len(block_table'[s]) = 0 + m + k
    BY <1>3, <1>6, <2>1, AcquireTable
  <2> QED BY <1>12, <2>2
<1>14. /\ running' \in Seq(Seqs) /\ IsInjective(running') /\ Range(running)' = Range(running) \cup {s}
       /\ Len(running') <= MaxNumSeqs
  <2>1. /\ running' \in Seq(Seqs) /\ IsInjective(running') /\ Range(running') = Range(running) \cup {s}
        /\ Len(running') = Len(running) + 1
    BY <1>1, <1>3, <1>4, AppendFacts
  <2>2. Len(running) + 1 <= MaxNumSeqs
    BY <1>1, <1>3, ConfigAssumption
  <2> QED BY <2>1, <2>2
<1>15. e.seq = s /\ e.n = n /\ (e.sample <=> c + n = num_tokens(s))
  BY <1>9
<1>16. /\ swapped' \in Seq(Seqs) /\ IsInjective(swapped') /\ Range(swapped)' = Range(swapped) \ {s}
       /\ num_computed_tokens'[s] = c /\ num_computed_tokens' \in [Seqs -> Nat]
       /\ \A t \in Seqs \ {s} : num_computed_tokens'[t] = num_computed_tokens[t]
       /\ status' = [status EXCEPT ![s] = "RUNNING"]
       /\ DOMAIN (cpu_block_table') = Seqs /\ cpu_block_table'[s] = <<>>
       /\ \A t \in Seqs \ {s} : cpu_block_table'[t] = cpu_block_table[t]
       /\ UNCHANGED <<finish_reason, token_ids, seqs, pc>>
  BY <1>1, <1>3, <1>4, <1>11
<1>17. Gets(s, e)
  BY <1>4, <1>5, <1>8, <1>10, <1>13, <1>14, <1>15, <1>16 DEF Gets
<1>18. WalkOK'
  BY <1>1, <1>2 DEF WalkOK
<1>19. i' \in Nat \ {0} /\ plan' \in [Seqs -> Nat]
  BY <1>1, <1>3
<1> QED BY <1>1, <1>4, <1>10, <1>15, <1>17, <1>18, <1>19, GetsKeeps

\* The victim leaves the end of `running`, with its blocks copied or dropped.
LEMMA EvictStep ==
  ASSUME QInv, Evict
  PROVE  QInv'
<1>1. /\ pc = "running" /\ i <= Len(running) /\ Preempt(victim) /\ running' = Without(running, victim)
      /\ UNCHANGED <<pc, plan, budget, i, seqs, waiting, finish_reason, token_ids>>
  BY DEF Evict, OutOfBlocks, Scheduling, Preempt, waitingVars
<1>2. Types /\ BatchOK /\ WalkOK /\ \A t \in Seqs : Placed(t) /\ Counted(t)
  BY DEF QInv
<1>3. /\ i \in Nat \ {0} /\ running \in Seq(Seqs) /\ IsInjective(running) /\ Len(running) \in Nat
      /\ swapped \in Seq(Seqs) /\ IsInjective(swapped) /\ preempted \in Seq(Seqs) /\ IsInjective(preempted)
      /\ num_computed_tokens \in [Seqs -> Nat]
      /\ status \in [Seqs -> {"NEW", "WAITING", "RUNNING", "PREEMPTED", "FINISHED", "ABORTED"}]
      /\ DOMAIN batch = {"seqs", "swap_out", "swap_in", "num_preempted"}
      /\ DOMAIN block_table = Seqs /\ DOMAIN cpu_block_table = Seqs
      /\ (\A t \in Seqs : IsList(block_table[t]) /\ IsList(cpu_block_table[t]))
      /\ Len(running) <= MaxNumSeqs
  BY <1>2 DEF Types
<1>4. running # <<>> /\ Len(running) \in i..Len(running)
  BY <1>1, <1>3
<1>5. PICK s \in Seqs : /\ s = victim /\ s = Last(running) /\ s = running[Len(running)]
                        /\ s \in Range(running) /\ s \notin Awaiting /\ status[s] = "RUNNING"
  <2>1. Last(running) = running[Len(running)]
    BY <1>3, <1>4, WithoutLast
  <2> QED BY <1>1, <1>4, <2>1, AheadHaveNone DEF victim
<1>6. /\ Len(running') = Len(running) - 1 /\ \A j \in 1 .. Len(running) - 1 : running'[j] = running[j]
      /\ running' \in Seq(Seqs) /\ IsInjective(running') /\ Range(running') = Range(running) \ {s}
  BY <1>1, <1>3, <1>4, <1>5, WithoutLast, WithoutFacts
<1>7. PICK c \in Nat : c = num_computed_tokens[s] /\ c < num_tokens(s) /\ num_tokens(s) \in Nat
  <2>1. Counted(s) /\ num_tokens(s) \in Nat
    BY <1>2 DEF Types, num_tokens
  <2> QED BY <1>3, <1>5, <2>1 DEF Counted, Live
<1>8. /\ Len(block_table[s]) = blocks_for(c) /\ block_table[s] # <<>> /\ cpu_block_table[s] = <<>>
      /\ s \in seqs /\ s \notin waiting /\ s \notin Range(swapped) /\ s \notin Range(preempted)
      /\ num_tokens(s) < Len(Prompt[s]) + MaxTokens[s]
  BY <1>1, <1>2, <1>5, <1>7 DEF Counted, Placed, Live
<1>9. PICK l \in Nat \ {0} : l = Len(block_table[s]) /\ l = blocks_for(c)
  <2>1. block_table[s] \in Seq(Range(block_table[s]))
    BY <1>3 DEF IsList
  <2> QED BY <1>8, <2>1
<1>10. /\ batch'.seqs = batch.seqs /\ DOMAIN (batch') = {"seqs", "swap_out", "swap_in", "num_preempted"}
       /\ status' = [status EXCEPT ![s] = "PREEMPTED"]
       /\ free(s)
  BY <1>1, <1>3, <1>5 DEF Preempt, SetStatus, swap_out
<1>11. /\ DOMAIN (block_table') = Seqs /\ block_table'[s] = <<>>
       /\ \A t \in Seqs \ {s} : block_table'[t] = block_table[t]
  BY <1>3, <1>10 DEF free, Release
<1>12. \/ /\ num_computed_tokens' = num_computed_tokens /\ preempted' = preempted
          /\ swapped' = <<s>> \o swapped
          /\ cpu_block_table' = [cpu_block_table EXCEPT ![s] = @ \o SubSeq(cpu_free, 1, l)]
       \/ /\ num_computed_tokens' = [num_computed_tokens EXCEPT ![s] = 0] /\ swapped' = swapped
          /\ preempted' = <<s>> \o preempted
          /\ cpu_block_table' = cpu_block_table
  BY <1>1, <1>5, <1>9 DEF Preempt, swap_out, cpuVars
<1>13. /\ num_computed_tokens' \in [Seqs -> Nat]
       /\ num_computed_tokens'[s] \in {c, 0}
       /\ \A t \in Seqs \ {s} : num_computed_tokens'[t] = num_computed_tokens[t]
  BY <1>3, <1>7, <1>12
<1>14. /\ DOMAIN (cpu_block_table') = Seqs /\ IsList(cpu_block_table'[s])
       /\ \A t \in Seqs \ {s} : cpu_block_table'[t] = cpu_block_table[t]
       /\ swapped' \in Seq(Seqs) /\ IsInjective(swapped') /\ preempted' \in Seq(Seqs) /\ IsInjective(preempted')
       /\ \/ /\ Range(swapped') = Range(swapped) \cup {s} /\ Range(preempted') = Range(preempted)
             /\ Len(cpu_block_table'[s]) = blocks_for(c) /\ cpu_block_table'[s] # <<>>
             /\ num_computed_tokens'[s] = c
          \/ /\ Range(swapped') = Range(swapped) /\ Range(preempted') = Range(preempted) \cup {s}
             /\ cpu_block_table'[s] = <<>> /\ num_computed_tokens'[s] = 0
  <2>1. CASE /\ num_computed_tokens' = num_computed_tokens /\ preempted' = preempted
             /\ swapped' = <<s>> \o swapped
             /\ cpu_block_table' = [cpu_block_table EXCEPT ![s] = @ \o SubSeq(cpu_free, 1, l)]
    <3> DEFINE copy == SubSeq(cpu_free, 1, l)
    <3>1. Len(copy) = l /\ copy \in Seq({cpu_free[j] : j \in 1..l})
      OBVIOUS
    <3> HIDE DEF copy
    <3>2. <<>> \o copy = copy
      BY <3>1
    <3>3. IsList(copy) /\ copy # <<>>
      BY <3>1, ListIsList
    <3>4. DOMAIN (cpu_block_table') = Seqs /\ cpu_block_table'[s] = copy
          /\ \A t \in Seqs \ {s} : cpu_block_table'[t] = cpu_block_table[t]
      BY <1>3, <1>8, <2>1, <3>2 DEF copy
    <3>5. /\ swapped' \in Seq(Seqs) /\ IsInjective(swapped') /\ Range(swapped') = Range(swapped) \cup {s}
      BY <1>3, <1>8, <2>1, PrependFacts
    <3> QED BY <1>3, <1>7, <1>9, <2>1, <3>1, <3>3, <3>4, <3>5
  <2>2. CASE /\ num_computed_tokens' = [num_computed_tokens EXCEPT ![s] = 0] /\ swapped' = swapped
             /\ preempted' = <<s>> \o preempted
             /\ cpu_block_table' = cpu_block_table
    <3>1. /\ preempted' \in Seq(Seqs) /\ IsInjective(preempted') /\ Range(preempted') = Range(preempted) \cup {s}
      BY <1>3, <1>8, <2>2, PrependFacts
    <3>2. num_computed_tokens'[s] = 0
      BY <1>3, <2>2
    <3> QED BY <1>3, <1>8, <2>2, <3>1, <3>2
  <2> QED BY <1>12, <2>1, <2>2
<1>15. status'[s] = "PREEMPTED" /\ \A t \in Seqs \ {s} : status'[t] = status[t]
  BY <1>3, <1>10
<1>16. Types'
  <2>1. \A t \in Seqs : IsList(block_table[t])' /\ IsList(cpu_block_table[t])'
    <3>1. IsList(<<>>)
      BY EmptyIsList
    <3> QED BY <1>3, <1>11, <1>14, <3>1 DEF IsList
  <2>2. /\ status' \in [Seqs -> {"NEW", "WAITING", "RUNNING", "PREEMPTED", "FINISHED", "ABORTED"}]
        /\ Len(running') <= MaxNumSeqs
    <3>1. status' \in [Seqs -> {"NEW", "WAITING", "RUNNING", "PREEMPTED", "FINISHED", "ABORTED"}]
      BY <1>3, <1>10
    <3>2. MaxNumSeqs \in Nat
      BY ConfigAssumption
    <3>3. Len(running') <= MaxNumSeqs
      BY <1>3, <1>6, <3>2
    <3> QED BY <3>1, <3>3
  <2> QED BY <1>1, <1>2, <1>6, <1>10, <1>11, <1>13, <1>14, <2>1, <2>2, ZenonT(30) DEF Types
<1>17. ASSUME NEW t \in Seqs
       PROVE  Placed(t)' /\ Counted(t)'
  <2>1. CASE t # s
    <3>1. /\ t \in Range(running)' <=> t \in Range(running)
          /\ t \in Range(swapped)' <=> t \in Range(swapped)
          /\ t \in Range(preempted)' <=> t \in Range(preempted)
      BY <1>6, <1>14, <2>1
    <3>2. t \in Awaiting => t \in Awaiting'
      BY <1>1, <1>10 DEF Awaiting, Pending
    <3>3. /\ status'[t] = status[t] /\ token_ids'[t] = token_ids[t] /\ block_table'[t] = block_table[t]
          /\ cpu_block_table'[t] = cpu_block_table[t] /\ num_computed_tokens'[t] = num_computed_tokens[t]
          /\ seqs' = seqs /\ waiting' = waiting /\ pc # "update" /\ pc' = pc
      BY <1>1, <1>11, <1>13, <1>14, <1>15, <2>1
    <3> QED BY <1>2, <3>1, <3>2, <3>3, Frame
  <2>2. CASE t = s
    <3>1. s \notin Range(running)' /\ seqs' = seqs /\ waiting' = waiting
      BY <1>1, <1>6
    <3>2. Placed(s)'
      BY <1>8, <1>11, <1>14, <1>15, <3>1 DEF Placed, Live
    <3>3. num_tokens(s)' = num_tokens(s)
      BY <1>1 DEF num_tokens
    <3>4. num_computed_tokens'[s] < num_tokens(s)
      BY <1>7, <1>13
    <3>5. s \in Range(swapped)' => Len(cpu_block_table'[s]) = blocks_for(num_computed_tokens'[s])
      BY <1>8, <1>14
    <3>6. s \in Range(preempted)' => num_computed_tokens'[s] = 0
      BY <1>8, <1>14
    <3>7. Counted(s)'
      BY <1>8, <1>15, <3>3, <3>4, <3>5, <3>6 DEF Counted
    <3> QED BY <2>2, <3>2, <3>7
  <2> QED BY <2>1, <2>2
<1>18. BatchOK'
  <2>1. \A t \in Seqs \ {s} : /\ status'[t] = status[t] /\ token_ids'[t] = token_ids[t]
                              /\ num_computed_tokens'[t] = num_computed_tokens[t]
                              /\ block_table'[t] = block_table[t]
    BY <1>1, <1>11, <1>13, <1>15
  <2>2. pc # "update" /\ pc' # "update" /\ ~(pc' \in {"idle", "fail_all", "stuck"})
    BY <1>1
  <2> QED BY <1>2, <1>5, <1>10, <2>1, <2>2, BatchFrame
<1>19. WalkOK'
  <2>1. i <= Len(running') + 1 /\ Len(running') + 1 = Len(running)
    BY <1>1, <1>3, <1>6
  <2>2. ASSUME NEW k \in DOMAIN batch.seqs
        PROVE  \E j \in 1 .. i - 1 : running'[j] = batch.seqs[k].seq
    <3>1. PICK j \in 1 .. i - 1 : running[j] = batch.seqs[k].seq
      BY <1>1, <1>2 DEF WalkOK
    <3>2. j \in 1 .. Len(running) - 1
      BY <1>1, <1>3
    <3>3. running'[j] = running[j]
      BY <1>6, <3>2
    <3> QED BY <3>1, <3>3
  <2>3. ASSUME NEW j \in i .. Len(running')
        PROVE  (plan[running[j]] <= num_uncomputed_tokens(running[j]))'
    <3>1. j \in i .. Len(running) /\ running'[j] = running[j] /\ j # Len(running) /\ j \in 1..Len(running)
      <4>1. PICK len \in Nat : len = Len(running') /\ Len(running) = len + 1 /\ i <= len + 1
        BY <1>3, <1>6, <2>1
      <4>2. j \in i .. len /\ j \in 1 .. len /\ i \in Nat \ {0}
        BY <1>3, <4>1
      <4>3. j \in i .. len + 1 /\ j # len + 1 /\ j \in 1 .. len + 1
        BY <4>1, <4>2
      <4>4. running'[j] = running[j]
        <5>1. Len(running) - 1 = len
          BY <4>1
        <5> QED BY <1>6, <4>2, <5>1
      <4> QED BY <4>1, <4>3, <4>4
    <3>2. PICK r \in Seqs \ {s} : r = running[j]
      BY <1>3, <1>5, <3>1 DEF IsInjective
    <3>3. plan[r] <= num_uncomputed_tokens(r)
      BY <1>1, <1>2, <3>1, <3>2 DEF WalkOK
    <3>4. num_computed_tokens'[r] = num_computed_tokens[r] /\ token_ids' = token_ids /\ plan' = plan
      BY <1>1, <1>13
    <3> QED BY <3>1, <3>2, <3>3, <3>4 DEF num_uncomputed_tokens, num_tokens
  <2> QED BY <1>1, <1>10, <2>1, <2>2, <2>3 DEF WalkOK
<1> QED BY <1>16, <1>17, <1>18, <1>19 DEF QInv

-----------------------------------------------------------------------------
\* update()

\* What it does for the entry it is at, whether or not the request finishes.
LEMMA UpdateEffect ==
  ASSUME QInv, Update
  PROVE  /\ i \in DOMAIN batch.seqs /\ batch.seqs[i].seq \in Seqs /\ status[batch.seqs[i].seq] = "RUNNING"
         /\ LET s == batch.seqs[i].seq IN
            /\ status' \in [Seqs -> {"NEW", "WAITING", "RUNNING", "PREEMPTED", "FINISHED", "ABORTED"}]
            /\ finish_reason' \in [Seqs -> {None, "stop", "length", "error"}]
            /\ token_ids' \in [Seqs -> Seq(Tokens)] /\ num_computed_tokens' \in [Seqs -> Nat]
            /\ DOMAIN (block_table') = Seqs
            /\ num_computed_tokens'[s] <= num_tokens(s)
            /\ \A t \in Seqs \ {s} : /\ status'[t] = status[t] /\ token_ids'[t] = token_ids[t]
                                     /\ num_computed_tokens'[t] = num_computed_tokens[t]
                                     /\ block_table'[t] = block_table[t]
            /\ \/ /\ status' = status /\ seqs' = seqs /\ block_table'[s] = block_table[s]
                  /\ Len(block_table[s]) = blocks_for(num_computed_tokens'[s])
                  /\ num_computed_tokens'[s] < Len(token_ids'[s])
                  /\ Len(token_ids'[s]) < Len(Prompt[s]) + MaxTokens[s]
               \/ /\ status'[s] = "FINISHED" /\ seqs' = seqs \ {s} /\ block_table'[s] = <<>>
            /\ UNCHANGED <<cpu_block_table, waiting, preempted, swapped, plan, budget>>
<1>1. Types /\ BatchOK /\ \A t \in Seqs : Placed(t) /\ Counted(t)
  BY DEF QInv
<1>2. pc = "update" /\ i \in DOMAIN batch.seqs /\ i \in Nat \ {0}
  BY <1>1, UpdateEntry
<1>3. /\ status \in [Seqs -> {"NEW", "WAITING", "RUNNING", "PREEMPTED", "FINISHED", "ABORTED"}]
      /\ finish_reason \in [Seqs -> {None, "stop", "length", "error"}]
      /\ token_ids \in [Seqs -> Seq(Tokens)] /\ num_computed_tokens \in [Seqs -> Nat]
      /\ DOMAIN block_table = Seqs
  BY <1>1 DEF Types
<1>4. PICK s \in Seqs : s = batch.seqs[i].seq
  BY <1>1, <1>2, EntryType
<1>5. PICK n \in Nat : n = batch.seqs[i].n
  BY <1>1, <1>2, EntryType
<1>6. PICK c \in Nat : c = num_computed_tokens[s]
  BY <1>3
<1>7. /\ status[s] = "RUNNING" /\ Len(block_table[s]) = blocks_for(c + n) /\ c + n <= num_tokens(s)
      /\ batch.seqs[i].sample <=> c + n = num_tokens(s)
  BY <1>1, <1>2, <1>4, <1>5, <1>6 DEF BatchOK, Pending, Schedulable
<1>8. num_tokens(s) \in Nat /\ num_tokens(s) < Len(Prompt[s]) + MaxTokens[s] /\ token_ids[s] \in Seq(Tokens)
  BY <1>1, <1>3, <1>7 DEF Counted, Live, num_tokens
<1>9. /\ num_computed_tokens' = [num_computed_tokens EXCEPT ![s] = c + n]
      /\ UNCHANGED <<cpu_block_table, waiting, preempted, swapped, plan, budget>>
  BY <1>4, <1>5, <1>6 DEF Update, cpuVars, waitingVars
<1>10. /\ num_computed_tokens' \in [Seqs -> Nat] /\ num_computed_tokens'[s] = c + n
       /\ \A t \in Seqs \ {s} : num_computed_tokens'[t] = num_computed_tokens[t]
  BY <1>3, <1>9
<1>11. CASE ~batch.seqs[i].sample
  <2>1. UNCHANGED <<block_table, status, finish_reason, seqs, token_ids>>
    BY <1>11 DEF Update
  <2>2. c + n < Len(token_ids[s])
    <3>1. PICK k \in Nat : k = num_tokens(s)
      BY <1>8
    <3>2. c + n <= k /\ c + n # k
      BY <1>7, <1>11, <3>1
    <3>3. c + n < k
      BY <3>2
    <3> QED BY <3>1, <3>3 DEF num_tokens
  <2> QED BY <1>2, <1>3, <1>4, <1>7, <1>8, <1>9, <1>10, <2>1, <2>2 DEF num_tokens
<1>12. CASE batch.seqs[i].sample
  <2>1. PICK x \in Tokens : token_ids' = [token_ids EXCEPT ![s] = Append(@, x)]
    BY <1>4, <1>12 DEF Update
  <2>2. /\ token_ids' \in [Seqs -> Seq(Tokens)] /\ Len(token_ids'[s]) = num_tokens(s) + 1
        /\ \A t \in Seqs \ {s} : token_ids'[t] = token_ids[t]
    BY <1>3, <1>8, <2>1 DEF num_tokens
  <2>3. PICK finish \in finish_choices(s) :
          IF finish = None
          THEN UNCHANGED <<block_table, status, finish_reason, seqs>>
          ELSE /\ status' = [status EXCEPT ![s] = "FINISHED"]
               /\ finish_reason' = [finish_reason EXCEPT ![s] = finish]
               /\ seqs' = seqs \ {s}
               /\ block_table' = [block_table EXCEPT ![s] = <<>>]
    BY <1>4, <1>12 DEF Update, SetStatus, Release
  <2>4. CASE finish = None
    <3>1. ~((num_tokens(s) + 1) - Len(Prompt[s]) >= MaxTokens[s])
      <4> SUFFICES ASSUME (num_tokens(s) + 1) - Len(Prompt[s]) >= MaxTokens[s] PROVE FALSE
        OBVIOUS
      <4>1. finish_choices(s) = {"stop", "length"}
        BY DEF finish_choices
      <4>2. None \notin {"stop", "length"}
        BY ConfigAssumption
      <4> QED BY <2>3, <2>4, <4>1, <4>2
    <3>2. Len(Prompt[s]) \in Nat /\ MaxTokens[s] \in Nat
      BY ConfigAssumption
    <3>3. Len(token_ids'[s]) < Len(Prompt[s]) + MaxTokens[s] /\ c + n < Len(token_ids'[s])
      BY <1>7, <1>8, <2>2, <3>1, <3>2
    <3>4. UNCHANGED <<block_table, status, finish_reason, seqs>>
      BY <2>3, <2>4
    <3> QED BY <1>2, <1>3, <1>4, <1>7, <1>9, <1>10, <2>2, <3>3, <3>4
  <2>5. CASE finish # None
    <3>1. /\ status' = [status EXCEPT ![s] = "FINISHED"]
          /\ finish_reason' = [finish_reason EXCEPT ![s] = finish]
          /\ seqs' = seqs \ {s}
          /\ block_table' = [block_table EXCEPT ![s] = <<>>]
      BY <2>3, <2>5
    <3>2. finish \in {None, "stop", "length", "error"}
      BY <2>3 DEF finish_choices
    <3>3. /\ status' \in [Seqs -> {"NEW", "WAITING", "RUNNING", "PREEMPTED", "FINISHED", "ABORTED"}]
          /\ finish_reason' \in [Seqs -> {None, "stop", "length", "error"}]
          /\ DOMAIN (block_table') = Seqs /\ block_table'[s] = <<>> /\ status'[s] = "FINISHED"
          /\ \A t \in Seqs \ {s} : status'[t] = status[t] /\ block_table'[t] = block_table[t]
      BY <1>3, <3>1, <3>2
    <3> QED BY <1>2, <1>3, <1>4, <1>7, <1>9, <1>10, <2>2, <3>1, <3>3
  <2> QED BY <2>4, <2>5
<1> QED BY <1>11, <1>12

LEMMA UpdateStep ==
  ASSUME QInv, Update
  PROVE  QInv'
<1> DEFINE E == [seq : Seqs, n : Nat \ {0}, sample : BOOLEAN]
<1>1. Types /\ BatchOK /\ \A t \in Seqs : Placed(t) /\ Counted(t)
  BY DEF QInv
<1>2. /\ pc = "update" /\ i \in DOMAIN batch.seqs /\ i \in Nat \ {0}
      /\ batch.seqs \in Seq(E) /\ DOMAIN batch.seqs = 1..Len(batch.seqs) /\ Len(batch.seqs) \in Nat
      /\ i \in Pending
  <2>1. batch.seqs \in Seq(E)
    BY <1>1 DEF Types
  <2>2. DOMAIN batch.seqs = 1..Len(batch.seqs) /\ Len(batch.seqs) \in Nat
    BY <2>1
  <2>3. pc = "update" /\ i \in DOMAIN batch.seqs /\ i \in Nat \ {0} /\ i \in Pending
    BY <1>1, UpdateEntry
  <2> QED BY <2>1, <2>2, <2>3
<1>3. /\ running \in Seq(Seqs) /\ IsInjective(running) /\ Len(running) \in Nat
      /\ DOMAIN batch = {"seqs", "swap_out", "swap_in", "num_preempted"}
      /\ \A t \in Seqs : IsList(block_table[t]) /\ IsList(cpu_block_table[t])
      /\ Len(running) <= MaxNumSeqs
  BY <1>1 DEF Types
<1>4. PICK s \in Seqs : s = batch.seqs[i].seq
  BY <1>1, <1>2, EntryType
<1>5. /\ status[s] = "RUNNING"
      /\ status' \in [Seqs -> {"NEW", "WAITING", "RUNNING", "PREEMPTED", "FINISHED", "ABORTED"}]
      /\ finish_reason' \in [Seqs -> {None, "stop", "length", "error"}]
      /\ token_ids' \in [Seqs -> Seq(Tokens)] /\ num_computed_tokens' \in [Seqs -> Nat]
      /\ DOMAIN (block_table') = Seqs
      /\ \A t \in Seqs \ {s} : /\ status'[t] = status[t] /\ token_ids'[t] = token_ids[t]
                               /\ num_computed_tokens'[t] = num_computed_tokens[t]
                               /\ block_table'[t] = block_table[t]
      /\ \/ /\ status' = status /\ seqs' = seqs /\ block_table'[s] = block_table[s]
            /\ Len(block_table[s]) = blocks_for(num_computed_tokens'[s])
            /\ num_computed_tokens'[s] < Len(token_ids'[s])
            /\ Len(token_ids'[s]) < Len(Prompt[s]) + MaxTokens[s]
         \/ /\ status'[s] = "FINISHED" /\ seqs' = seqs \ {s} /\ block_table'[s] = <<>>
      /\ UNCHANGED <<cpu_block_table, waiting, preempted, swapped, plan, budget>>
  BY <1>4, UpdateEffect
<1>6. ASSUME NEW t \in Seqs
      PROVE  /\ t \in seqs' <=> status'[t] \in Live
             /\ block_table'[t] # <<>> <=> status'[t] = "RUNNING"
             /\ t = s => /\ status'[t] \in {"RUNNING", "FINISHED"}
                         /\ t \notin waiting /\ t \notin Range(swapped) /\ t \notin Range(preempted)
                         /\ cpu_block_table[t] = <<>> /\ t \in Range(running)
  <2>1. Placed(t)
    BY <1>1
  <2>2. CASE t # s
    <3>1. status'[t] = status[t] /\ block_table'[t] = block_table[t] /\ (t \in seqs' <=> t \in seqs)
      BY <1>5, <2>2
    <3>2. t \in seqs <=> status[t] \in Live
      BY <2>1 DEF Placed
    <3>3. block_table[t] # <<>> <=> status[t] = "RUNNING"
      BY <2>1 DEF Placed
    <3> QED BY <2>2, <3>1, <3>2, <3>3
  <2>3. CASE t = s
    <3>1. /\ t \notin waiting /\ t \notin Range(swapped) /\ t \notin Range(preempted)
          /\ cpu_block_table[t] = <<>> /\ t \in Range(running)
      BY <1>5, <2>1, <2>3 DEF Placed
    <3>2. status'[t] \in {"RUNNING", "FINISHED"}
      BY <1>5, <2>3
    <3>3. t \in seqs' <=> status'[t] \in Live
      BY <1>5, <2>1, <2>3 DEF Placed, Live
    <3>4. block_table'[t] # <<>> <=> status'[t] = "RUNNING"
      BY <1>5, <2>1, <2>3 DEF Placed
    <3> QED BY <3>1, <3>2, <3>3, <3>4
  <2> QED BY <2>2, <2>3
  \* The entry is the only one of s.
<1>7. \A k \in DOMAIN batch.seqs : batch.seqs[k].seq = s => k = i
  BY <1>1, <1>2, <1>4 DEF BatchOK
<1>8. \/ /\ i # Len(batch.seqs) /\ pc' = "update" /\ batch' = batch /\ i' = i + 1 /\ running' = running
      \/ /\ i = Len(batch.seqs) /\ pc' = "idle" /\ batch'.seqs = <<>> /\ i' = 1
         /\ DOMAIN (batch') = {"seqs", "swap_out", "swap_in", "num_preempted"}
         /\ running' = IF any_finished THEN Filter(running, {r \in Seqs : status'[r] = "RUNNING"}) ELSE running
  <2>1. CASE i = Len(batch.seqs)
    <3>1. /\ running' = IF any_finished THEN Filter(running, {r \in Seqs : status'[r] = "RUNNING"}) ELSE running
          /\ pc' = "idle" /\ batch' = EmptyBatch /\ i' = 1
      BY <2>1, UpdateEnds
    <3>2. batch'.seqs = <<>> /\ DOMAIN (batch') = {"seqs", "swap_out", "swap_in", "num_preempted"}
      BY <3>1 DEF EmptyBatch
    <3> QED BY <2>1, <3>1, <3>2
  <2>2. CASE i # Len(batch.seqs)
    BY <1>2, <2>2, UpdateEnds
  <2> QED BY <2>1, <2>2
<1>9. Pending' = Pending \ {i} /\ Awaiting' = Awaiting \ {s}
  <2>1. CASE i # Len(batch.seqs)
    <3>1. Pending' = Pending \ {i} /\ batch' = batch
      BY <1>2, <1>8, <2>1 DEF Pending
    <3>2. Awaiting' = {batch.seqs[k].seq : k \in Pending \ {i}}
      BY <3>1 DEF Awaiting
    <3>3. Pending \subseteq DOMAIN batch.seqs
      BY DEF Pending
    <3> QED BY <1>2, <1>4, <1>7, <3>1, <3>2, <3>3 DEF Awaiting
  <2>2. CASE i = Len(batch.seqs)
    <3>1. Pending = {i} /\ Pending' = {}
      BY <1>2, <1>8, <2>2 DEF Pending
    <3>2. Awaiting = {s} /\ Awaiting' = {}
      BY <1>4, <3>1 DEF Awaiting
    <3> QED BY <3>1, <3>2
  <2> QED BY <2>1, <2>2
<1>10. /\ running' \in Seq(Seqs) /\ IsInjective(running') /\ Len(running') <= Len(running)
       /\ Range(running') \subseteq Range(running)
       /\ \A t \in Range(running) : status'[t] = "RUNNING" => t \in Range(running')
       /\ pc' = "idle" => \A t \in Range(running') : status'[t] = "RUNNING"
  <2>1. CASE i # Len(batch.seqs)
    BY <1>3, <1>8, <2>1
  <2>2. CASE i = Len(batch.seqs) /\ any_finished
    <3> DEFINE T == {r \in Seqs : status'[r] = "RUNNING"}
    <3>1. running' = Filter(running, T)
      BY <1>8, <2>2
    <3> HIDE DEF T
    <3>2. /\ running' \in Seq(Seqs) /\ IsInjective(running') /\ Len(running') <= Len(running)
          /\ Range(running') = Range(running) \cap T
      BY <1>3, <3>1, FilterQueue
    <3>3. Range(running) \subseteq Seqs
      BY <1>3, ListLength
    <3> QED BY <3>2, <3>3 DEF T
  <2>3. CASE i = Len(batch.seqs) /\ ~any_finished
    <3>1. running' = running
      BY <1>8, <2>3
    <3>2. Range(running) \subseteq Seqs
      BY <1>3, ListLength
    <3>3. ASSUME NEW t \in Range(running)
          PROVE  status'[t] = "RUNNING"
      <4>1. t = s \/ status[t] = "RUNNING" \/ \E k \in DOMAIN batch.seqs : batch.seqs[k].seq = t
        BY <1>1, <3>2 DEF Placed
      <4>2. \A k \in DOMAIN batch.seqs : block_table'[batch.seqs[k].seq] # <<>>
        BY <2>3 DEF any_finished, Range
      <4>3. CASE \E k \in DOMAIN batch.seqs : batch.seqs[k].seq = t
        BY <1>6, <3>2, <4>2, <4>3
      <4>4. CASE t = s
        BY <1>2, <1>4, <1>6, <4>2, <4>4
      <4>5. CASE t # s /\ status[t] = "RUNNING"
        BY <1>5, <3>2, <4>5
      <4> QED BY <4>1, <4>3, <4>4, <4>5
    <3> QED BY <1>3, <3>1, <3>3
  <2> QED BY <2>1, <2>2, <2>3
<1>11. batch'.seqs \in Seq(E) /\ DOMAIN (batch') = {"seqs", "swap_out", "swap_in", "num_preempted"}
  <2> HIDE DEF E
  <2>1. batch'.seqs \in {batch.seqs, <<>>}
    BY <1>8
  <2>2. <<>> \in Seq(E)
    OBVIOUS
  <2> QED BY <1>2, <1>3, <1>8, <2>1, <2>2
<1>12. Types'
  <2>1. \A t \in Seqs : IsList(block_table[t])' /\ IsList(cpu_block_table[t])'
    <3>1. IsList(<<>>)
      BY EmptyIsList
    <3> QED BY <1>3, <1>5, <3>1 DEF IsList
  <2>2. seqs' \subseteq Seqs /\ Len(running') <= MaxNumSeqs /\ i' \in Nat \ {0} /\ pc' \in {"idle", "update"}
    <3>1. seqs' \subseteq Seqs
      BY <1>1, <1>5 DEF Types
    <3>2. i' \in Nat \ {0} /\ pc' \in {"idle", "update"}
      BY <1>2, <1>8
    <3>3. Len(running') <= Len(running) /\ Len(running') \in Nat /\ MaxNumSeqs \in Nat
      BY <1>10, ConfigAssumption
    <3> QED BY <1>3, <3>1, <3>2, <3>3
  <2>3. \A queue \in {running', swapped', preempted'} : queue \in Seq(Seqs) /\ IsInjective(queue)
    BY <1>1, <1>5, <1>10 DEF Types
  <2>4. /\ waiting' \subseteq Seqs /\ plan' \in [Seqs -> Nat] /\ budget' \in Int
        /\ DOMAIN (cpu_block_table') = Seqs
    BY <1>1, <1>5 DEF Types
  <2> QED BY <1>5, <1>11, <2>1, <2>2, <2>3, <2>4 DEF Types
<1>13. ASSUME NEW t \in Seqs
       PROVE  Placed(t)'
  <2>1. Placed(t)
    BY <1>1
  <2>2. status'[t] = "RUNNING" => t \in Range(running')
    BY <1>5, <1>6, <1>10, <2>1 DEF Placed
  <2>3. t \in Range(running') => \/ status'[t] = "RUNNING"
                                 \/ pc' = "update" /\ status'[t] = "FINISHED"
                                    /\ \E k \in DOMAIN (batch'.seqs) : batch'.seqs[k].seq = t
    <3>1. CASE pc' = "idle"
      BY <1>10, <3>1
    <3>2. CASE pc' # "idle" /\ t = s
      BY <1>2, <1>4, <1>5, <1>8, <3>2
    <3>3. CASE pc' # "idle" /\ t # s
      BY <1>5, <1>8, <2>1, <3>3 DEF Placed
    <3> QED BY <3>1, <3>2, <3>3
  <2>4. CASE t = s
    BY <1>5, <1>6, <2>2, <2>3, <2>4 DEF Placed
  <2>5. CASE t # s
    BY <1>5, <1>6, <2>1, <2>2, <2>3, <2>5 DEF Placed
  <2> QED BY <2>4, <2>5
<1>14. ASSUME NEW t \in Seqs
       PROVE  Counted(t)'
  <2>1. Counted(t) /\ Placed(t)
    BY <1>1
  <2>2. CASE t # s
    BY <1>2, <1>5, <1>8, <1>9, <2>1, <2>2 DEF Counted, num_tokens, blocks_for
  <2>3. CASE t = s
    BY <1>5, <1>6, <2>3 DEF Counted, num_tokens, blocks_for, Live
  <2> QED BY <2>2, <2>3
<1>15. BatchOK'
  <2>1. CASE i # Len(batch.seqs)
    <3>1. ASSUME NEW k \in Pending'
          PROVE  Schedulable(batch.seqs[k])'
      <4>1. k \in Pending /\ k \in DOMAIN batch.seqs /\ k # i
        BY <1>9 DEF Pending
      <4>2. batch.seqs[k].seq \in Seqs \ {s}
        BY <1>1, <1>7, <4>1, EntryType
      <4>3. Schedulable(batch.seqs[k])
        BY <1>1, <4>1 DEF BatchOK
      <4>4. batch'.seqs[k] = batch.seqs[k]
        BY <1>8, <2>1
      <4> QED BY <1>5, <4>2, <4>3, <4>4 DEF Schedulable, num_tokens, blocks_for
    <3>2. i + 1 \in DOMAIN batch.seqs
      BY <1>2, <2>1
    <3> QED BY <1>1, <1>8, <2>1, <3>1, <3>2 DEF BatchOK
  <2>2. CASE i = Len(batch.seqs)
    BY <1>8, <2>2 DEF BatchOK, Pending
  <2> QED BY <2>1, <2>2
<1>16. WalkOK'
  BY <1>8 DEF WalkOK
<1> QED BY <1>12, <1>13, <1>14, <1>15, <1>16 DEF QInv

-----------------------------------------------------------------------------
\* Arrivals.

LEMMA ArrivalsKept ==
  ASSUME ArrivalsOK, arrival' = arrival, waiting' \subseteq heap', heap' \subseteq heap,
         \A s \in Seqs : status'[s] # "NEW" <=> status[s] # "NEW"
  PROVE  ArrivalsOK'
<1>1. {s \in Seqs : status[s] # "NEW"}' = {s \in Seqs : status[s] # "NEW"}
  OBVIOUS
<1> QED BY <1>1 DEF ArrivalsOK

\* Whoever is in a queue has arrived.
LEMMA QueuedArrived ==
  ASSUME QInv, NEW s, s \in seqs \cup waiting \cup Range(running) \cup Range(swapped) \cup Range(preempted)
  PROVE  s \in Seqs /\ status[s] # "NEW" /\ status \in [Seqs -> {"NEW", "WAITING", "RUNNING", "PREEMPTED", "FINISHED", "ABORTED"}]
<1>1. /\ seqs \subseteq Seqs /\ waiting \subseteq Seqs
      /\ running \in Seq(Seqs) /\ swapped \in Seq(Seqs) /\ preempted \in Seq(Seqs)
      /\ IsInjective(running) /\ IsInjective(swapped) /\ IsInjective(preempted)
      /\ status \in [Seqs -> {"NEW", "WAITING", "RUNNING", "PREEMPTED", "FINISHED", "ABORTED"}]
  BY DEF QInv, Types
<1>2. Range(running) \subseteq Seqs /\ Range(swapped) \subseteq Seqs /\ Range(preempted) \subseteq Seqs
  BY <1>1, ListLength
<1>3. s \in Seqs
  BY <1>1, <1>2
<1>4. status[s] # "NEW"
  BY <1>3 DEF QInv, Placed, Live
<1> QED BY <1>1, <1>3, <1>4

LEMMA AddArrivals ==
  ASSUME QInv, ArrivalsOK, NEW s \in Seqs, add(s)
  PROVE  ArrivalsOK'
<1> DEFINE arrived == {r \in Seqs : status[r] # "NEW"}
           n == Cardinality(arrived)
<1>1. /\ status[s] = "NEW" /\ status' = [status EXCEPT ![s] = "WAITING"]
      /\ arrival' = [arrival EXCEPT ![s] = n]
      /\ heap' = heap \cup {s} /\ waiting' = waiting \cup {s}
  BY DEF add, SetStatus, push
<1>2. /\ arrival \in [Seqs -> Nat] /\ waiting \subseteq heap /\ heap \subseteq arrived
      /\ \A r \in arrived : arrival[r] < n
      /\ \A r, t \in arrived : arrival[r] = arrival[t] => r = t
  BY DEF ArrivalsOK
<1>3. status \in [Seqs -> {"NEW", "WAITING", "RUNNING", "PREEMPTED", "FINISHED", "ABORTED"}]
  BY DEF QInv, Types
<1>4. {r \in Seqs : status'[r] # "NEW"} = arrived \cup {s}
  BY <1>1, <1>3
<1>5. IsFiniteSet(arrived) /\ s \notin arrived
  BY <1>1, ConfigAssumption, FS_Subset
<1>6. n \in Nat
  BY <1>5, FS_CardinalityType
<1> HIDE DEF arrived
<1>7. Cardinality(arrived \cup {s}) = n + 1
  BY <1>5, FS_AddElement
<1> HIDE DEF n
<1>8. /\ arrival' \in [Seqs -> Nat] /\ arrival'[s] = n
      /\ \A r \in arrived : r \in Seqs /\ arrival'[r] = arrival[r]
  BY <1>1, <1>2, <1>5, <1>6 DEF arrived
<1>9. \A r \in arrived \cup {s} : arrival'[r] < n + 1
  BY <1>2, <1>6, <1>8
<1>10. \A r, t \in arrived \cup {s} : arrival'[r] = arrival'[t] => r = t
  BY <1>2, <1>6, <1>8
<1>11. waiting' \subseteq heap' /\ heap' \subseteq arrived \cup {s}
  BY <1>1, <1>2
<1> QED BY <1>4, <1>7, <1>8, <1>9, <1>10, <1>11 DEF ArrivalsOK

\* What the step may do with the waiting queue.
LEMMA WaitingShrinks ==
  ASSUME ArrivalsOK,
         \/ UNCHANGED waitingVars
         \/ \E s : remove(s)
         \/ pop
         \/ heap' = heap_peeked /\ UNCHANGED waiting
  PROVE  waiting' \subseteq heap' /\ heap' \subseteq heap
<1>1. waiting \subseteq heap /\ stale \subseteq heap \ waiting
  BY DEF ArrivalsOK, stale
<1>2. CASE UNCHANGED waitingVars
  BY <1>1, <1>2 DEF waitingVars
<1>3. CASE \E s : remove(s)
  BY <1>1, <1>3 DEF remove
<1>4. CASE pop
  BY <1>1, <1>4 DEF pop, heap_popped
<1>5. CASE heap' = heap_peeked /\ UNCHANGED waiting
  BY <1>1, <1>5 DEF heap_peeked
<1> QED BY <1>2, <1>3, <1>4, <1>5

LEMMA AbortArrivals ==
  ASSUME QInv, ArrivalsOK, NEW s \in Seqs, abort(s)
  PROVE  ArrivalsOK'
<1>1. /\ s \in seqs /\ status' = [status EXCEPT ![s] = "ABORTED"] /\ arrival' = arrival
      /\ UNCHANGED waitingVars \/ remove(s)
  BY DEF abort, SetStatus
<1>2. status[s] # "NEW" /\ status \in [Seqs -> {"NEW", "WAITING", "RUNNING", "PREEMPTED", "FINISHED", "ABORTED"}]
  BY <1>1, QueuedArrived
<1>3. waiting' \subseteq heap' /\ heap' \subseteq heap
  BY <1>1, WaitingShrinks
<1>4. \A r \in Seqs : status'[r] # "NEW" <=> status[r] # "NEW"
  BY <1>1, <1>2
<1> QED BY <1>1, <1>3, <1>4, ArrivalsKept

\* A step that gives a new status to a request of a queue.
LEMMA MoveArrivals ==
  ASSUME QInv, ArrivalsOK,
         NEW s, s \in seqs \cup waiting \cup Range(running) \cup Range(swapped) \cup Range(preempted),
         NEW new, new # "NEW", status' = [status EXCEPT ![s] = new], arrival' = arrival,
         UNCHANGED waitingVars \/ pop
  PROVE  ArrivalsOK'
<1>1. s \in Seqs /\ status[s] # "NEW" /\ status \in [Seqs -> {"NEW", "WAITING", "RUNNING", "PREEMPTED", "FINISHED", "ABORTED"}]
  BY QueuedArrived
<1>2. waiting' \subseteq heap' /\ heap' \subseteq heap
  BY WaitingShrinks
<1>3. \A r \in Seqs : status'[r] # "NEW" <=> status[r] # "NEW"
  BY <1>1
<1> QED BY <1>2, <1>3, ArrivalsKept

LEMMA CurrentIsQueued ==
  ASSUME QInv
  PROVE  /\ Scheduling => current \in Range(running)
         /\ running # <<>> => victim \in Range(running)
         /\ swapped # <<>> => Head(swapped) \in Range(swapped)
         /\ ArrivalsOK /\ Admitting => candidate \in waiting \cup Range(preempted)
<1>1. /\ running \in Seq(Seqs) /\ IsInjective(running) /\ i \in Nat \ {0}
      /\ swapped \in Seq(Seqs) /\ IsInjective(swapped) /\ preempted \in Seq(Seqs) /\ IsInjective(preempted)
  BY DEF QInv, Types
<1>2. Scheduling => current \in Range(running)
  BY <1>1 DEF Scheduling, current, Range
<1>3. running # <<>> => victim \in Range(running)
  BY <1>1, WithoutLast DEF victim
<1>4. swapped # <<>> => Head(swapped) \in Range(swapped)
  BY <1>1, TailFacts
<1>5. ASSUME ArrivalsOK, Admitting
      PROVE  candidate \in waiting \cup Range(preempted)
  <2>1. CASE preempted # <<>>
    BY <1>1, <2>1, TailFacts DEF candidate
  <2>2. CASE preempted = <<>>
    <3>1. peek \in waiting
      BY <1>5, <2>2, QueueIsOK, PeekReturnsTheFirst DEF PeekIsFirst, Admitting
    <3> QED BY <2>2, <3>1 DEF candidate
  <2> QED BY <2>1, <2>2
<1> QED BY <1>2, <1>3, <1>4, <1>5

LEMMA ArrivalsStep ==
  ASSUME QInv, ArrivalsOK, [Next]_vars
  PROVE  ArrivalsOK'
<1> USE DEF SetStatus
<1>1. ASSUME NEW s \in Seqs, add(s) PROVE ArrivalsOK'
  BY <1>1, AddArrivals
<1>2. ASSUME NEW s \in Seqs, AbortRequest(s) \/ FailOne(s) PROVE ArrivalsOK'
  BY <1>2, AbortArrivals DEF AbortRequest, FailOne
<1>3. CASE BeginStep \/ ScheduleRunning \/ EndRunning \/ EndSwapIn \/ EmptyStep \/ Execute
           \/ ExecuteFails \/ UpdateFails \/ EndFailAll \/ UNCHANGED vars
  <2>1. UNCHANGED <<arrival, status>> /\ UNCHANGED waitingVars
    BY <1>3 DEF BeginStep, ScheduleRunning, EndRunning, EndSwapIn, EmptyStep, Execute, ExecuteFails,
                UpdateFails, EndFailAll, vars, seqVars, queueVars
  <2>2. waiting' \subseteq heap' /\ heap' \subseteq heap
    BY <2>1, WaitingShrinks
  <2> QED BY <2>1, <2>2, ArrivalsKept
<1>4. CASE EndAdmit
  <2>1. /\ UNCHANGED <<arrival, status>>
        /\ UNCHANGED waitingVars \/ (heap' = heap_peeked /\ UNCHANGED waiting)
    BY <1>4 DEF EndAdmit, seqVars
  <2>2. waiting' \subseteq heap' /\ heap' \subseteq heap
    BY <2>1, WaitingShrinks
  <2> QED BY <2>1, <2>2, ArrivalsKept
<1>5. CASE Evict
  <2>1. victim \in Range(running)
    <3>1. running # <<>>
      BY <1>5 DEF Evict
    <3> QED BY <3>1, CurrentIsQueued
  <2>2. /\ status' = [status EXCEPT ![victim] = "PREEMPTED"] /\ arrival' = arrival /\ UNCHANGED waitingVars
    BY <1>5 DEF Evict, Preempt
  <2> QED BY <2>1, <2>2, MoveArrivals
<1>6. CASE FailAlone
  <2>1. current \in Range(running)
    BY <1>6, CurrentIsQueued DEF FailAlone, OutOfBlocks
  <2>2. /\ status' = [status EXCEPT ![current] = "FINISHED"] /\ arrival' = arrival /\ UNCHANGED waitingVars
    BY <1>6 DEF FailAlone, Fail
  <2> QED BY <2>1, <2>2, MoveArrivals
<1>7. CASE SwapIn \/ FailSwapIn
  <2>1. Head(swapped) \in Range(swapped)
    BY <1>7, CurrentIsQueued DEF SwapIn, FailSwapIn, SwappingIn
  <2>2. PICK new \in {"RUNNING", "FINISHED"} :
          status' = [status EXCEPT ![Head(swapped)] = new] /\ arrival' = arrival /\ UNCHANGED waitingVars
    BY <1>7 DEF SwapIn, FailSwapIn, Fail
  <2> QED BY <2>1, <2>2, MoveArrivals
<1>8. CASE Admit \/ FailAdmit
  <2>1. candidate \in waiting \cup Range(preempted)
    BY <1>8, CurrentIsQueued DEF Admit, FailAdmit
  <2>2. PICK new \in {"RUNNING", "FINISHED"} :
          status' = [status EXCEPT ![candidate] = new] /\ arrival' = arrival
    BY <1>8 DEF Admit, FailAdmit, Fail
  <2>3. UNCHANGED waitingVars \/ pop
    BY <1>8 DEF Admit, FailAdmit, PopWaiting
  <2> QED BY <2>1, <2>2, <2>3, MoveArrivals
<1>9. CASE Update
  <2>1. /\ batch.seqs[i].seq \in Seqs /\ status[batch.seqs[i].seq] = "RUNNING"
        /\ \A t \in Seqs \ {batch.seqs[i].seq} : status'[t] = status[t]
        /\ status' = status \/ status'[batch.seqs[i].seq] = "FINISHED"
    BY <1>9, UpdateEffect
  <2>2. arrival' = arrival /\ UNCHANGED waitingVars
    BY <1>9 DEF Update
  <2>3. waiting' \subseteq heap' /\ heap' \subseteq heap
    BY <2>2, WaitingShrinks
  <2>4. \A r \in Seqs : status'[r] # "NEW" <=> status[r] # "NEW"
    BY <2>1
  <2> QED BY <2>2, <2>3, <2>4, ArrivalsKept
<1> QED
  BY <1>1, <1>2, <1>3, <1>4, <1>5, <1>6, <1>7, <1>8, <1>9 DEF Next, Step, Bookkeep, Request

-----------------------------------------------------------------------------
IInv == QInv /\ ArrivalsOK

LEMMA InitInv == Init => IInv
<1> SUFFICES ASSUME Init PROVE IInv
  OBVIOUS
<1>1. ArrivalsOK
  BY DEF Init, QueueInit, ArrivalsOK
<1> QED BY <1>1, InitQueues DEF IInv

LEMMA StutterQueues == QInv /\ UNCHANGED vars => QInv'
<1> SUFFICES ASSUME QInv, UNCHANGED vars PROVE QInv'
  OBVIOUS
<1> USE DEF vars, poolVars, gpuVars, cpuVars, seqVars, queueVars, waitingVars, stepVars
<1>1. Types'
  BY DEF QInv, Types, IsList
<1>2. Awaiting' = Awaiting /\ Pending' = Pending
  BY DEF Awaiting, Pending
<1>3. ASSUME NEW t \in Seqs
      PROVE  Placed(t)' /\ Counted(t)'
  <2>1. Placed(t) /\ Counted(t)
    BY DEF QInv
  <2>2. Placed(t)'
    BY <2>1 DEF Placed
  <2>3. Counted(t)'
    BY <1>2, <2>1 DEF Counted, num_tokens, blocks_for
  <2> QED BY <2>2, <2>3
<1>4. BatchOK'
  BY <1>2 DEF QInv, BatchOK, Schedulable, num_tokens, blocks_for
<1>5. WalkOK'
  BY DEF QInv, WalkOK, num_uncomputed_tokens, num_tokens
<1> QED BY <1>1, <1>3, <1>4, <1>5 DEF QInv

\* As long as update() does not raise in its middle, every step keeps the
\* invariant, one that loses its batch in the forward pass included.
LEMMA NextQueues ==
  ASSUME "update" \notin FailPoints, QInv, ArrivalsOK, [Next]_vars
  PROVE  QInv'
<1>1. ASSUME NEW s \in Seqs, add(s) PROVE QInv'
  BY <1>1, AddStep
<1>2. ASSUME NEW s \in Seqs, AbortRequest(s) PROVE QInv'
  BY <1>2, AbortStep DEF AbortRequest
<1>3. ASSUME NEW s \in Seqs, FailOne(s) PROVE QInv'
  BY <1>3, AbortStep DEF FailOne
<1>4. CASE BeginStep
  BY <1>4, BeginStepStep
<1>5. CASE ScheduleRunning
  BY <1>5, ScheduleRunningStep
<1>6. CASE Evict
  BY <1>6, EvictStep
<1>7. CASE FailAlone
  BY <1>7, FailAloneStep
<1>8. CASE EndRunning
  BY <1>8, EndRunningStep
<1>9. CASE SwapIn
  BY <1>9, SwapInStep
<1>10. CASE FailSwapIn
  BY <1>10, FailSwapInStep
<1>11. CASE EndSwapIn
  BY <1>11, EndSwapInStep
<1>12. CASE Admit
  BY <1>12, AdmitStep
<1>13. CASE FailAdmit
  BY <1>13, FailAdmitStep
<1>14. CASE EndAdmit
  BY <1>14, EndAdmitStep
<1>15. CASE EmptyStep
  BY <1>15, EmptyStepStep
<1>16. CASE Execute
  BY <1>16, ExecuteStep
<1>17. CASE ExecuteFails
  BY <1>17, ExecuteFailsStep
<1>18. CASE Update
  BY <1>18, UpdateStep
<1>19. CASE UpdateFails
  BY <1>19 DEF UpdateFails
<1>20. CASE EndFailAll
  BY <1>20, EndFailAllStep
<1>21. CASE UNCHANGED vars
  BY <1>21, StutterQueues
<1> QED
  BY <1>1, <1>2, <1>3, <1>4, <1>5, <1>6, <1>7, <1>8, <1>9, <1>10, <1>11, <1>12, <1>13, <1>14, <1>15,
     <1>16, <1>17, <1>18, <1>19, <1>20, <1>21 DEF Next, Step, Bookkeep, Request

LEMMA NextInv ==
  ASSUME "update" \notin FailPoints
  PROVE  IInv /\ [Next]_vars => IInv'
BY NextQueues, ArrivalsStep DEF IInv

\* Every state a scheduler can reach satisfies IInv: each sequence is in the
\* one list its status names, holds the blocks and the computed tokens that go
\* with it, and the entries of the batch still to be walked describe it.
THEOREM Invariance ==
  ASSUME "update" \notin FailPoints
  PROVE  Spec => []IInv
<1>1. Init => IInv
  BY InitInv
<1>2. IInv /\ [Next]_vars => IInv'
  BY NextInv
<1> QED BY <1>1, <1>2, PTL DEF Spec

-----------------------------------------------------------------------------
\* Scheduler.check_invariants at every point of a step: each live request is in
\* exactly one queue, the one of its status, with the blocks that go with it.
LEMMA QueuesAgreeInv == IInv => QueuesAgree
<1> SUFFICES ASSUME IInv PROVE QueuesAgree
  OBVIOUS
<1> DEFINE victims == swapped \o preempted
           queue == running \o victims
<1>1. Types /\ \A s \in Seqs : Placed(s) /\ Counted(s)
  BY DEF IInv, QInv
<1>2. /\ running \in Seq(Seqs) /\ IsInjective(running) /\ swapped \in Seq(Seqs) /\ IsInjective(swapped)
      /\ preempted \in Seq(Seqs) /\ IsInjective(preempted) /\ waiting \subseteq Seqs
      /\ Len(running) <= MaxNumSeqs
      /\ num_computed_tokens \in [Seqs -> Nat] /\ token_ids \in [Seqs -> Seq(Tokens)]
  BY <1>1 DEF Types
<1>3. Range(running) \subseteq Seqs /\ Range(swapped) \subseteq Seqs /\ Range(preempted) \subseteq Seqs
  BY <1>2, ListLength
<1>4. Range(swapped) \cap Range(preempted) = {}
  BY <1>1, <1>3 DEF Placed
<1>5. victims \in Seq(Seqs) /\ IsInjective(victims) /\ Range(victims) = Range(swapped) \cup Range(preempted)
  BY <1>2, <1>4, JoinLists
<1>6. Range(running) \cap Range(victims) = {}
  BY <1>1, <1>3, <1>5 DEF Placed
<1> HIDE DEF victims
<1>7. IsInjective(queue) /\ Range(queue) = Range(running) \cup Range(victims)
  BY <1>2, <1>5, <1>6, JoinLists
<1>8. waiting \cap Range(queue) = {}
  BY <1>1, <1>2, <1>3, <1>5, <1>7 DEF Placed
<1>9. ASSUME NEW s \in Seqs
      PROVE  /\ s \in seqs <=> status[s] \in {"WAITING", "RUNNING", "PREEMPTED"}
             /\ s \in waiting <=> status[s] = "WAITING"
             /\ s \in Range(victims) <=> status[s] = "PREEMPTED"
             /\ status[s] = "RUNNING" => s \in Range(running)
             /\ cpu_block_table[s] # <<>> <=> s \in Range(swapped)
             /\ block_table[s] # <<>> <=> status[s] = "RUNNING"
             /\ s \in waiting \cup Range(preempted) => num_computed_tokens[s] = 0
             /\ pc # "update" /\ s \in Range(running) => status[s] = "RUNNING" /\ num_uncomputed_tokens(s) >= 1
  <2>1. Placed(s) /\ Counted(s)
    BY <1>1
  <2>2. pc # "update" /\ s \in Range(running) => status[s] = "RUNNING" /\ num_uncomputed_tokens(s) >= 1
    <3> SUFFICES ASSUME pc # "update", s \in Range(running)
                 PROVE  status[s] = "RUNNING" /\ num_uncomputed_tokens(s) >= 1
      OBVIOUS
    <3>1. status[s] = "RUNNING"
      BY <2>1 DEF Placed
    <3>2. num_computed_tokens[s] < num_tokens(s) /\ num_computed_tokens[s] \in Nat /\ num_tokens(s) \in Nat
      BY <1>2, <2>1, <3>1 DEF Counted, Live, num_tokens
    <3> QED BY <3>1, <3>2 DEF num_uncomputed_tokens
  <2>3. s \in waiting \cup Range(preempted) => num_computed_tokens[s] = 0
    BY <2>1 DEF Placed, Counted
  <2> QED BY <1>5, <2>1, <2>2, <2>3 DEF Placed, Live
<1>10. running \o swapped \o preempted = queue
  <2>1. PICK p \in Seq(Seqs), q \in Seq(Seqs), w \in Seq(Seqs) : p = running /\ q = swapped /\ w = preempted
    BY <1>2
  <2>2. (p \o q) \o w = p \o (q \o w)
    OBVIOUS
  <2> QED BY <2>1, <2>2 DEF victims
<1> QED BY <1>2, <1>7, <1>8, <1>9, <1>10 DEF QueuesAgree, victims

\* After any history of additions, aborts, failed steps, preemptions and swaps,
\* a status and the queues agree: no request is in two of them, or in none.
THEOREM QueuesAlwaysAgree ==
  ASSUME "update" \notin FailPoints
  PROVE  Spec => []QueuesAgree
BY Invariance, QueuesAgreeInv, PTL

\* A batch being put together holds running sequences only, each once, with
\* slots for its tokens.
LEMMA BatchHasSlotsInv == IInv => BatchHasSlots
<1> SUFFICES ASSUME IInv, pc # "update", NEW k \in DOMAIN batch.seqs
             PROVE  LET s == batch.seqs[k].seq IN
                    /\ status[s] = "RUNNING"
                    /\ \A j \in DOMAIN batch.seqs : batch.seqs[j].seq = s => j = k
                    /\ Len(block_table[s]) = blocks_for(num_computed_tokens[s] + batch.seqs[k].n)
  BY DEF BatchHasSlots
<1>1. BatchOK /\ k \in Pending
  BY DEF IInv, QInv, Pending
<1> QED BY <1>1 DEF BatchOK, Schedulable

\* Nobody that a batch already holds loses its blocks before the batch runs: an
\* eviction never picks a victim the walk has passed.
THEOREM BatchAlwaysHasSlots ==
  ASSUME "update" \notin FailPoints
  PROVE  Spec => []BatchHasSlots
BY Invariance, BatchHasSlotsInv, PTL

\* Lazy deletion is never seen: what peek returns waits, and the policy puts it
\* before every other request that waits.
THEOREM PeekIsAlwaysFirst ==
  ASSUME "update" \notin FailPoints
  PROVE  Spec => []PeekIsFirst
<1>1. IInv => PeekIsFirst
  BY QueueIsOK, PeekReturnsTheFirst DEF IInv
<1> QED BY <1>1, Invariance, PTL

-----------------------------------------------------------------------------
\* Overtaking.

\* The step serves nobody new, or only aborts.
LEMMA NobodyServed ==
  ASSUME OvertakingIsEarned, arrival' = arrival, waiting' \subseteq waiting, Served' \subseteq Served
  PROVE  OvertakingIsEarned'
<1> SUFFICES ASSUME NEW s \in waiting', NEW r \in Served', arrival'[r] > arrival'[s]
             PROVE  may_overtake(r, s)'
  BY DEF OvertakingIsEarned
<1>1. s \in waiting /\ r \in Served /\ arrival[r] > arrival[s]
  OBVIOUS
<1>2. may_overtake(r, s)
  BY <1>1 DEF OvertakingIsEarned
<1> QED BY <1>2 DEF may_overtake, effective_priority, priority_key

\* One request changes its status.
LEMMA ServedGains ==
  ASSUME QInv, NEW s, NEW new, status' = [status EXCEPT ![s] = new]
  PROVE  /\ Served' \subseteq Served \cup {s}
         /\ new = "ABORTED" => Served' \subseteq Served
<1>1. DOMAIN status = Seqs
  BY DEF QInv, Types
<1>2. \A r \in Seqs : r # s => status'[r] = status[r]
  BY <1>1
<1>3. new = "ABORTED" => s \notin Served'
  BY <1>1 DEF Served
<1> QED BY <1>2, <1>3 DEF Served

\* A newcomer waits behind everybody.
LEMMA AddEarned ==
  ASSUME QInv, ArrivalsOK, OvertakingIsEarned, NEW s \in Seqs, add(s)
  PROVE  OvertakingIsEarned'
<1> DEFINE n == Cardinality({r \in Seqs : status[r] # "NEW"})
<1>1. /\ status[s] = "NEW" /\ status' = [status EXCEPT ![s] = "WAITING"]
      /\ arrival' = [arrival EXCEPT ![s] = n] /\ waiting' = waiting \cup {s}
  BY DEF add, SetStatus, push
<1>2. /\ arrival \in [Seqs -> Nat]
      /\ \A r \in Seqs : status[r] # "NEW" => arrival[r] < n
      /\ \A r \in waiting : r \in Seqs /\ status[r] # "NEW"
  BY DEF ArrivalsOK
<1>3. n \in Nat
  <2>1. IsFiniteSet({r \in Seqs : status[r] # "NEW"})
    BY ConfigAssumption, FS_Subset
  <2> QED BY <2>1, FS_CardinalityType
<1> HIDE DEF n
<1>4. status \in [Seqs -> {"NEW", "WAITING", "RUNNING", "PREEMPTED", "FINISHED", "ABORTED"}]
  BY DEF QInv, Types
<1>5. ASSUME NEW r \in Served'
      PROVE  r \in Seqs \ {s} /\ r \in Served /\ arrival'[r] = arrival[r] /\ arrival[r] < n /\ arrival[r] \in Nat
  <2>1. r \in Seqs /\ status'[r] \in {"RUNNING", "PREEMPTED", "FINISHED"}
    BY DEF Served
  <2>2. r # s /\ status'[r] = status[r]
    BY <1>1, <1>4, <2>1
  <2> QED BY <1>1, <1>2, <2>1, <2>2 DEF Served
<1> SUFFICES ASSUME NEW t \in waiting', NEW r \in Served', arrival'[r] > arrival'[t]
             PROVE  may_overtake(r, t)'
  BY DEF OvertakingIsEarned
<1>6. t # s
  <2>1. arrival'[s] = n
    BY <1>1, <1>2
  <2>2. arrival'[r] < n /\ arrival'[r] \in Nat
    BY <1>5
  <2> QED BY <1>3, <2>1, <2>2
<1>7. t \in waiting /\ arrival'[t] = arrival[t]
  BY <1>1, <1>2, <1>6
<1>8. may_overtake(r, t)
  BY <1>5, <1>7 DEF OvertakingIsEarned
<1> QED BY <1>5, <1>7, <1>8 DEF may_overtake, effective_priority, priority_key

\* The one that _admit takes is a victim, served before, or the first of those
\* that wait.
LEMMA PopEarned ==
  ASSUME QInv, ArrivalsOK, OvertakingIsEarned, Admitting, PopWaiting, arrival' = arrival,
         NEW new, status' = [status EXCEPT ![candidate] = new]
  PROVE  OvertakingIsEarned'
<1>1. /\ candidate \in Seqs /\ status[candidate] \in {"WAITING", "PREEMPTED"}
      /\ waiting' = waiting \ {candidate}
  BY CandidatePopped DEF Admitting
<1>2. Served' \subseteq Served \cup {candidate}
  BY ServedGains
<1>3. CASE candidate \in Served
  BY <1>1, <1>2, <1>3, NobodyServed
<1>4. CASE candidate \notin Served
  <2>1. status[candidate] = "WAITING"
    BY <1>1, <1>4 DEF Served
  <2>2. preempted = <<>>
    <3> SUFFICES ASSUME preempted # <<>> PROVE FALSE
      OBVIOUS
    <3>1. preempted \in Seq(Seqs) /\ IsInjective(preempted) /\ Placed(candidate)
      BY <1>1 DEF QInv, Types
    <3>2. candidate \in Range(preempted)
      BY <3>1, TailFacts DEF candidate
    <3> QED BY <2>1, <3>1, <3>2 DEF Placed
  <2>3. candidate = peek /\ waiting # {}
    BY <2>2 DEF candidate, Admitting
  <2>4. QueueOK /\ waiting \subseteq heap
    BY QueueIsOK DEF QueueOK
  <2>5. candidate \in waiting /\ \A s \in waiting \ {candidate} : Before(candidate, s)
    BY <2>3, <2>4, PeekReturnsTheFirst DEF PeekIsFirst
  <2> SUFFICES ASSUME NEW s \in waiting', NEW r \in Served', arrival'[r] > arrival'[s]
               PROVE  may_overtake(r, s)'
    BY DEF OvertakingIsEarned
  <2>6. s \in waiting \ {candidate} /\ s \in heap /\ candidate \in heap /\ arrival[r] > arrival[s]
    BY <1>1, <2>4, <2>5
  <2>7. ASSUME r = candidate PROVE may_overtake(r, s)
    BY <2>4, <2>5, <2>6, <2>7, OrderIsEarned
  <2>8. ASSUME r \in Served PROVE may_overtake(r, s)
    BY <2>6, <2>8 DEF OvertakingIsEarned
  <2>9. may_overtake(r, s)
    BY <1>2, <2>7, <2>8
  <2> QED BY <2>9 DEF may_overtake, effective_priority, priority_key
<1> QED BY <1>3, <1>4

LEMMA EarnedStep ==
  ASSUME IInv, OvertakingIsEarned, [Next]_vars
  PROVE  OvertakingIsEarned'
<1>1. QInv /\ ArrivalsOK
  BY DEF IInv
<1>2. ASSUME NEW s \in Seqs, add(s) PROVE OvertakingIsEarned'
  BY <1>1, <1>2, AddEarned
<1>3. ASSUME NEW s \in Seqs, AbortRequest(s) \/ FailOne(s) PROVE OvertakingIsEarned'
  <2>1. status' = [status EXCEPT ![s] = "ABORTED"] /\ arrival' = arrival /\ waiting' \subseteq waiting
    BY <1>3 DEF AbortRequest, FailOne, abort, SetStatus, remove, waitingVars
  <2>2. Served' \subseteq Served
    BY <1>1, <2>1, ServedGains
  <2> QED BY <2>1, <2>2, NobodyServed
<1>4. CASE BeginStep \/ ScheduleRunning \/ EndRunning \/ EndSwapIn \/ EmptyStep \/ Execute \/ EndAdmit
           \/ ExecuteFails \/ UpdateFails \/ EndFailAll \/ UNCHANGED vars
  <2>1. UNCHANGED <<arrival, status, waiting>>
    <3>1. CASE BeginStep \/ ScheduleRunning \/ EndRunning \/ EndSwapIn
      BY <3>1 DEF BeginStep, ScheduleRunning, EndRunning, EndSwapIn, seqVars, queueVars, waitingVars
    <3>2. CASE EmptyStep \/ Execute \/ EndAdmit
      BY <3>2 DEF EmptyStep, Execute, EndAdmit, seqVars, queueVars, waitingVars
    <3>3. CASE ExecuteFails \/ UpdateFails
      BY <3>3 DEF ExecuteFails, UpdateFails, seqVars, queueVars, waitingVars
    <3>4. CASE EndFailAll
      BY <3>4 DEF EndFailAll, seqVars, queueVars, waitingVars
    <3>5. CASE UNCHANGED vars
      BY <3>5 DEF vars, seqVars, queueVars, waitingVars
    <3> QED BY <1>4, <3>1, <3>2, <3>3, <3>4, <3>5
  <2> QED BY <2>1, NobodyServed DEF Served
<1>5. ASSUME NEW s \in Range(running) \cup Range(swapped), NEW new,
             status' = [status EXCEPT ![s] = new], UNCHANGED <<arrival, waiting>>
      PROVE  OvertakingIsEarned'
  <2>1. s \in Served
    <3>1. s \in Seqs
      BY <1>1, <1>5, QueuedArrived
    <3>2. Placed(s)
      BY <1>1, <3>1 DEF QInv
    <3> QED BY <1>5, <3>1, <3>2 DEF Placed, Served
  <2>2. Served' \subseteq Served
    BY <1>1, <1>5, <2>1, ServedGains
  <2> QED BY <1>5, <2>2, NobodyServed
<1>6. CASE Evict
  <2>1. victim \in Range(running)
    BY <1>1, <1>6, CurrentIsQueued DEF Evict, OutOfBlocks, Scheduling
  <2>2. status' = [status EXCEPT ![victim] = "PREEMPTED"] /\ UNCHANGED <<arrival, waiting>>
    BY <1>6 DEF Evict, Preempt, SetStatus, waitingVars
  <2> QED BY <1>5, <2>1, <2>2
<1>7. CASE FailAlone
  <2>1. current \in Range(running)
    BY <1>1, <1>7, CurrentIsQueued DEF FailAlone, OutOfBlocks
  <2>2. status' = [status EXCEPT ![current] = "FINISHED"] /\ UNCHANGED <<arrival, waiting>>
    BY <1>7 DEF FailAlone, Fail, SetStatus, waitingVars
  <2> QED BY <1>5, <2>1, <2>2
<1>8. CASE SwapIn \/ FailSwapIn
  <2>1. Head(swapped) \in Range(swapped)
    BY <1>1, <1>8, CurrentIsQueued DEF SwapIn, FailSwapIn, SwappingIn
  <2>2. PICK new \in {"RUNNING", "FINISHED"} :
          status' = [status EXCEPT ![Head(swapped)] = new] /\ UNCHANGED <<arrival, waiting>>
    BY <1>8 DEF SwapIn, FailSwapIn, Fail, SetStatus, waitingVars
  <2> QED BY <1>5, <2>1, <2>2
<1>9. CASE Admit \/ FailAdmit
  <2>1. Admitting /\ PopWaiting
    BY <1>9 DEF Admit, FailAdmit
  <2>2. PICK new \in {"RUNNING", "FINISHED"} :
          status' = [status EXCEPT ![candidate] = new] /\ arrival' = arrival
    BY <1>9 DEF Admit, FailAdmit, Fail, SetStatus
  <2> QED BY <1>1, <2>1, <2>2, PopEarned
<1>10. CASE Update
  <2>1. /\ batch.seqs[i].seq \in Seqs /\ status[batch.seqs[i].seq] = "RUNNING"
        /\ \A t \in Seqs \ {batch.seqs[i].seq} : status'[t] = status[t]
    BY <1>1, <1>10, UpdateEffect
  <2>2. Served' \subseteq Served
    BY <2>1 DEF Served
  <2>3. UNCHANGED <<waitingVars, arrival>>
    BY <1>10, Zenon DEF Update
  <2>4. arrival' = arrival /\ waiting' = waiting
    BY <2>3 DEF waitingVars
  <2> QED BY <2>2, <2>4, NobodyServed
<1> QED
  BY <1>2, <1>3, <1>4, <1>6, <1>7, <1>8, <1>9, <1>10 DEF Next, Step, Bookkeep, Request

\* Nobody is served before a request that came earlier and still waits, unless
\* the policy means it: the fixed keys of the heap give the order of the aging
\* priorities through any series of aborts, failures and preemptions.
THEOREM OvertakingIsAlwaysEarned ==
  ASSUME "update" \notin FailPoints
  PROVE  Spec => []OvertakingIsEarned
<1>1. Init => OvertakingIsEarned
  BY DEF Init, QueueInit, OvertakingIsEarned
<1>2. IInv /\ OvertakingIsEarned /\ [Next]_vars => OvertakingIsEarned'
  BY EarnedStep
<1> QED BY <1>1, <1>2, Invariance, PTL DEF Spec

\* Aging bounds overtaking: if AgingRate points for each of `span` arrivals make
\* up for the largest difference of priorities, nobody who comes `span` arrivals
\* after a request is served while it waits, so fewer than `span` later requests
\* ever are.  (With AgingRate = 0 there is no such span unless all priorities are
\* the same: then nothing bounds it, as with shortest-job-first.)
OvertakersAreRecent(span) ==
  \A s \in waiting : \A r \in Served : arrival[r] > arrival[s] => arrival[r] < arrival[s] + span

THEOREM AgingBoundsOvertaking ==
  ASSUME "update" \notin FailPoints, Policy = "priority", NEW span \in Nat,
         \A s, r \in Seqs : priority_key(s) - priority_key(r) <= AgingRate * span
  PROVE  Spec => []OvertakersAreRecent(span)
<1>1. ASSUME IInv, OvertakingIsEarned PROVE OvertakersAreRecent(span)
  <2> SUFFICES ASSUME NEW s \in waiting, NEW r \in Served, arrival[r] > arrival[s],
                      ~(arrival[r] < arrival[s] + span)
               PROVE  FALSE
    BY DEF OvertakersAreRecent
  <2>1. s \in Seqs /\ r \in Seqs /\ arrival[s] \in Nat /\ arrival[r] \in Nat
    BY <1>1 DEF IInv, ArrivalsOK, Served
  <2>2. PICK e \in Nat : arrival[r] - arrival[s] = span + e
    <3>1. PICK a \in Nat, b \in Nat : a = arrival[s] /\ b = arrival[r]
      BY <2>1
    <3>2. b - a = span + (b - a - span) /\ b - a - span \in Nat
      BY <3>1
    <3> QED BY <3>1, <3>2
  <2>3. PICK p \in Int, q \in Int : p = priority_key(s) /\ q = priority_key(r)
    <3>1. \A t \in Seqs : Len(Prompt[t]) \in Int
      BY ConfigAssumption
    <3> QED BY <2>1, <3>1, PolicyAssumption DEF priority_key
  <2>4. effective_priority(r, arrival[r]) < effective_priority(s, arrival[r])
    BY <1>1 DEF OvertakingIsEarned, may_overtake
  <2>5. q - AgingRate * 0 < p - AgingRate * (span + e)
    BY <2>1, <2>2, <2>3, <2>4 DEF effective_priority
  <2>6. p - q <= AgingRate * span
    BY <2>1, <2>3
  <2>7. /\ AgingRate * (span + e) = AgingRate * span + AgingRate * e
        /\ AgingRate * span \in Nat /\ AgingRate * e \in Nat /\ AgingRate * 0 = 0
    BY PolicyAssumption
  <2>8. PICK x \in Nat, y \in Nat : x = AgingRate * span /\ y = AgingRate * e
    BY <2>7
  <2>9. q < p - (x + y) /\ p - q <= x
    BY <2>3, <2>5, <2>6, <2>7, <2>8
  <2> QED BY <2>9
<1>2. IInv /\ OvertakingIsEarned => OvertakersAreRecent(span)
  BY <1>1
<1> QED BY <1>2, Invariance, OvertakingIsAlwaysEarned, PTL

-----------------------------------------------------------------------------
\* What a client may rely on (module Lifecycle).

token_counts == [s \in Seqs |-> num_tokens(s)]
length_limit == [s \in Seqs |-> Min({Len(Prompt[s]) + MaxTokens[s], MaxModelLen})]

\* The numbers of a request, as Lifecycle sees them.
LEMMA RequestNumbers ==
  ASSUME QInv, NEW s \in Seqs
  PROVE  /\ num_tokens(s) \in Nat /\ num_computed_tokens[s] \in Nat
         /\ num_computed_tokens = [num_computed_tokens EXCEPT ![s] = num_computed_tokens[s]]
         /\ length_limit[s] = Len(Prompt[s]) + MaxTokens[s] /\ length_limit[s] \in Nat
         /\ length_limit[s] <= MaxModelLen
         /\ status[s] \in {"NEW"} \cup Live =>
              num_computed_tokens[s] < num_tokens(s) /\ num_tokens(s) < length_limit[s]
<1>1. /\ token_ids \in [Seqs -> Seq(Tokens)] /\ num_computed_tokens \in [Seqs -> Nat]
      /\ Counted(s)
  BY DEF QInv, Types
<1>2. /\ Len(Prompt[s]) + MaxTokens[s] \in Nat /\ MaxModelLen \in Nat
      /\ Len(Prompt[s]) + MaxTokens[s] <= MaxModelLen
  BY ConfigAssumption
<1>3. length_limit[s] = Len(Prompt[s]) + MaxTokens[s]
  <2> DEFINE m == Len(Prompt[s]) + MaxTokens[s]
  <2>1. m \in Int /\ MaxModelLen \in Int
    BY <1>2
  <2> HIDE DEF m
  <2>2. Min({m, MaxModelLen}) = IF m <= MaxModelLen THEN m ELSE MaxModelLen
    BY <2>1, MinOfTwo
  <2> QED BY <1>2, <2>2 DEF m, length_limit
<1> QED BY <1>1, <1>2, <1>3 DEF Counted, num_tokens

LEMMA StatusIsFunction ==
  ASSUME QInv
  PROVE  /\ status \in [Seqs -> {"NEW", "WAITING", "RUNNING", "PREEMPTED", "FINISHED", "ABORTED"}]
         /\ num_computed_tokens \in [Seqs -> Nat] /\ token_ids \in [Seqs -> Seq(Tokens)]
BY DEF QInv, Types

LEMMA InitLifecycle == Init => Promise!Init
<1> SUFFICES ASSUME Init PROVE Promise!Init
  OBVIOUS
<1>1. /\ status = [s \in Seqs |-> "NEW"] /\ finish_reason = [s \in Seqs |-> None]
      /\ token_ids = Prompt /\ num_computed_tokens = [s \in Seqs |-> 0]
  BY DEF Init, BlockManagerInit
<1>2. [s \in Seqs |-> num_tokens(s)] = [s \in Seqs |-> Len(Prompt[s])]
  BY <1>1 DEF num_tokens
<1> QED BY <1>1, <1>2 DEF Promise!Init

\* Steps that neither move a request nor touch its tokens.
LEMMA KeepsLifecycle ==
  ASSUME UNCHANGED <<status, finish_reason, token_ids, num_computed_tokens>>
  PROVE  UNCHANGED Promise!lifecycleVars
BY DEF Promise!lifecycleVars, num_tokens

LEMMA FailIsFail ==
  ASSUME QInv, NEW s \in Seqs, status[s] \in Live, Fail(s)
  PROVE  Promise!Fail(s)
<1>1. token_counts' = token_counts
  BY DEF Fail, token_counts, num_tokens
<1> QED BY <1>1 DEF Fail, SetStatus, Promise!Fail, Promise!Become, Promise!Live, Live, token_counts

LEMMA AbortIsAbort ==
  ASSUME QInv, NEW s \in Seqs, abort(s)
  PROVE  Promise!Abort(s)
<1>1. token_counts' = token_counts
  BY DEF abort, token_counts, num_tokens
<1>2. status[s] \in Live
  BY DEF abort, QInv, Placed
<1> QED BY <1>1, <1>2 DEF abort, SetStatus, Promise!Abort, Promise!Become, Promise!Live, Live, token_counts

LEMMA AddIsArrive ==
  ASSUME NEW s \in Seqs, add(s)
  PROVE  Promise!Arrive(s)
<1>1. token_counts' = token_counts
  BY DEF add, token_counts, num_tokens
<1> QED BY <1>1 DEF add, SetStatus, Promise!Arrive, Promise!Become, token_counts

LEMMA EvictIsSuspend ==
  ASSUME QInv, Evict
  PROVE  \E s \in Seqs : Promise!Suspend(s)
<1>1. /\ running \in Seq(Seqs) /\ IsInjective(running) /\ Len(running) \in Nat /\ i \in Nat \ {0}
  BY DEF QInv, Types
<1>2. pc = "running" /\ running # <<>> /\ Len(running) \in i..Len(running) /\ Preempt(victim)
  BY <1>1 DEF Evict, OutOfBlocks, Scheduling
<1>3. PICK s \in Seqs : s = victim /\ status[s] = "RUNNING"
  <2>1. Last(running) = running[Len(running)]
    BY <1>1, <1>2, WithoutLast
  <2> QED BY <1>2, <2>1, AheadHaveNone DEF victim
<1>4. token_counts' = token_counts
  BY <1>2 DEF Preempt, token_counts, num_tokens
<1>5. \/ num_computed_tokens' = num_computed_tokens
      \/ num_computed_tokens' = [num_computed_tokens EXCEPT ![s] = 0]
  BY <1>2, <1>3 DEF Preempt, swap_out
<1>6. \E n \in {0, num_computed_tokens[s]} : num_computed_tokens' = [num_computed_tokens EXCEPT ![s] = n]
  BY <1>5, RequestNumbers
<1>7. status' = [status EXCEPT ![s] = "PREEMPTED"] /\ finish_reason' = finish_reason
  BY <1>2, <1>3 DEF Preempt, SetStatus
<1> QED BY <1>3, <1>4, <1>6, <1>7 DEF Promise!Suspend, Promise!Become, token_counts

LEMMA SwapInIsStart ==
  ASSUME QInv, SwapIn
  PROVE  \E s \in Seqs : Promise!Start(s)
<1>1. swapped # <<>> /\ swapped \in Seq(Seqs) /\ IsInjective(swapped)
  BY DEF SwapIn, SwappingIn, QInv, Types
<1>2. PICK s \in Seqs : s = Head(swapped) /\ s \in Range(swapped)
  BY <1>1, TailFacts
<1>3. status[s] = "PREEMPTED"
  BY <1>2 DEF QInv, Placed
<1>4. /\ status' = [status EXCEPT ![s] = "RUNNING"]
      /\ UNCHANGED <<finish_reason, token_ids, num_computed_tokens>>
  BY <1>2 DEF SwapIn, SetStatus
<1>5. token_counts' = token_counts /\ token_counts[s] = num_tokens(s)
  BY <1>4 DEF token_counts, num_tokens
<1>6. num_computed_tokens[s] \in num_computed_tokens[s] .. num_tokens(s) - 1
  BY <1>3, RequestNumbers DEF Live
<1>7. num_computed_tokens' = [num_computed_tokens EXCEPT ![s] = num_computed_tokens[s]]
  BY <1>4, RequestNumbers
<1> QED BY <1>3, <1>4, <1>5, <1>6, <1>7 DEF Promise!Start, Promise!Become, token_counts

LEMMA AdmitIsStart ==
  ASSUME QInv, ArrivalsOK, Admit
  PROVE  \E s \in Seqs : Promise!Start(s)
<1>1. pc = "admit" /\ (preempted # <<>> \/ waiting # {})
  BY DEF Admit, Admitting
<1>2. PICK s \in Seqs : /\ s = candidate /\ status[s] \in {"WAITING", "PREEMPTED"}
                        /\ num_computed_tokens[s] = 0
  BY <1>1, CandidatePopped
<1>3. num_tokens(s) \in Nat \ {0}
  BY <1>2, RequestNumbers DEF Live
<1>4. PICK m \in Nat : Len(cached_prefix(s)) = m /\ m * BlockSize < num_tokens(s)
  <2>1. PICK m \in Nat : /\ cached_prefix(s) = [j \in 1..m |-> hash_to_block[Hash(s, j)]]
                         /\ m * BlockSize < num_tokens(s)
    BY <1>3, CachedPrefix
  <2> DEFINE cached == [j \in 1..m |-> hash_to_block[Hash(s, j)]]
  <2>2. Len(cached) = m
    OBVIOUS
  <2> QED BY <2>1, <2>2
<1>5. PICK n \in Nat : n = m * BlockSize /\ n < num_tokens(s)
  <2>1. m * BlockSize \in Nat
    BY PoolAssumption, SMT
  <2> QED BY <1>4, <2>1
<1>6. /\ status' = [status EXCEPT ![s] = "RUNNING"]
      /\ UNCHANGED <<finish_reason, token_ids>>
      /\ num_computed_tokens' = [num_computed_tokens EXCEPT ![s] = n]
  BY <1>2, <1>4, <1>5 DEF Admit, allocate, SetStatus
<1>7. token_counts' = token_counts /\ token_counts[s] = num_tokens(s)
  BY <1>6 DEF token_counts, num_tokens
<1>8. n \in num_computed_tokens[s] .. num_tokens(s) - 1
  BY <1>2, <1>3, <1>5
<1> QED BY <1>2, <1>6, <1>7, <1>8 DEF Promise!Start, Promise!Become, token_counts

LEMMA UpdateIsPrefillOrSample ==
  ASSUME QInv, Update
  PROVE  \E s \in Seqs : Promise!Prefill(s) \/ Promise!Sample(s)
<1>1. Types /\ BatchOK
  BY DEF QInv
<1>2. pc = "update" /\ i \in DOMAIN batch.seqs /\ i \in Nat \ {0}
  BY <1>1, UpdateEntry
<1>3. PICK s \in Seqs : s = batch.seqs[i].seq
  BY <1>1, <1>2, EntryType
<1>4. PICK n \in Nat \ {0} : n = batch.seqs[i].n
  BY <1>1, <1>2, EntryType
<1>5. PICK c \in Nat : c = num_computed_tokens[s]
  BY <1>1 DEF Types
<1>6. /\ status[s] = "RUNNING" /\ c + n <= num_tokens(s)
      /\ batch.seqs[i].sample <=> c + n = num_tokens(s)
  BY <1>1, <1>2, <1>3, <1>4, <1>5 DEF BatchOK, Pending, Schedulable
<1>7. /\ num_tokens(s) \in Nat /\ num_tokens(s) < length_limit[s]
      /\ length_limit[s] = Len(Prompt[s]) + MaxTokens[s] /\ length_limit[s] \in Nat
      /\ length_limit[s] <= MaxModelLen /\ MaxModelLen \in Nat
  BY <1>6, RequestNumbers, ConfigAssumption DEF Live
<1>8. num_computed_tokens' = [num_computed_tokens EXCEPT ![s] = c + n]
  BY <1>3, <1>4, <1>5 DEF Update
<1>9. token_counts[s] = num_tokens(s) /\ token_counts \in [Seqs -> Nat]
  BY StatusIsFunction DEF token_counts, num_tokens
<1>10. CASE ~batch.seqs[i].sample
  <2>1. UNCHANGED <<status, finish_reason, token_ids>>
    BY <1>10 DEF Update
  <2>2. token_counts' = token_counts
    BY <2>1 DEF token_counts, num_tokens
  <2>3. c + n \in c + 1 .. num_tokens(s) - 1
    BY <1>6, <1>7, <1>10
  <2>4. Promise!Prefill(s)
    BY <1>5, <1>6, <1>8, <1>9, <2>1, <2>2, <2>3 DEF Promise!Prefill, token_counts
  <2> QED BY <2>4
<1>11. CASE batch.seqs[i].sample
  <2>1. PICK x \in Tokens : token_ids' = [token_ids EXCEPT ![s] = Append(@, x)]
    BY <1>3, <1>11 DEF Update
  <2>2. token_ids \in [Seqs -> Seq(Tokens)]
    BY StatusIsFunction
  <2>3. Len(token_ids'[s]) = num_tokens(s) + 1 /\ \A t \in Seqs \ {s} : token_ids'[t] = token_ids[t]
    BY <2>1, <2>2 DEF num_tokens
  <2>4. token_counts' = [token_counts EXCEPT ![s] = num_tokens(s) + 1]
    BY <1>9, <2>3 DEF token_counts, num_tokens
  <2>5. PICK finish \in finish_choices(s) :
          IF finish = None
          THEN UNCHANGED <<status, finish_reason>>
          ELSE /\ status' = [status EXCEPT ![s] = "FINISHED"]
               /\ finish_reason' = [finish_reason EXCEPT ![s] = finish]
    BY <1>3, <1>11 DEF Update, SetStatus
  <2>6. \/ /\ num_tokens(s) + 1 < length_limit[s] /\ UNCHANGED <<status, finish_reason>>
        \/ /\ status' = [status EXCEPT ![s] = "FINISHED"]
           /\ finish_reason' = [finish_reason EXCEPT ![s] = finish]
           /\ finish = "stop" \/ (finish = "length" /\ num_tokens(s) + 1 = length_limit[s])
    <3>1. Len(Prompt[s]) \in Nat /\ MaxTokens[s] \in Nat
      BY ConfigAssumption
    <3>2. CASE num_tokens(s) + 1 < length_limit[s]
      <4>1. ~((num_tokens(s) + 1) - Len(Prompt[s]) >= MaxTokens[s]) /\ ~(num_tokens(s) + 1 >= MaxModelLen)
        BY <1>7, <3>1, <3>2
      <4>2. finish_choices(s) = {"stop", None}
        BY <4>1 DEF finish_choices
      <4> QED BY <2>5, <3>2, <4>2
    <3>3. CASE num_tokens(s) + 1 = length_limit[s]
      <4>1. (num_tokens(s) + 1) - Len(Prompt[s]) >= MaxTokens[s]
        BY <1>7, <3>1, <3>3
      <4>2. finish_choices(s) = {"stop", "length"}
        BY <4>1 DEF finish_choices
      <4>3. None \notin {"stop", "length"}
        BY ConfigAssumption
      <4> QED BY <2>5, <3>3, <4>2, <4>3
    <3> QED BY <1>7, <3>2, <3>3
  <2>7. token_counts'[s] = num_tokens(s) + 1
    BY <1>9, <2>4
  <2>8. num_computed_tokens' = [num_computed_tokens EXCEPT ![s] = token_counts[s]]
    BY <1>6, <1>8, <1>9, <1>11
  <2>9. token_counts' = [token_counts EXCEPT ![s] = @ + 1] /\ token_counts[s] < length_limit[s]
    BY <1>7, <1>9, <2>4
  <2>10. \/ token_counts'[s] < length_limit[s] /\ UNCHANGED <<status, finish_reason>>
         \/ /\ status[s] = "RUNNING" /\ status' = [status EXCEPT ![s] = "FINISHED"]
            /\ \E reason \in {"stop"} \cup (IF token_counts'[s] = length_limit[s] THEN {"length"} ELSE {}) :
                 finish_reason' = [finish_reason EXCEPT ![s] = reason]
    BY <1>6, <2>6, <2>7
  <2>11. Promise!Sample(s)
    BY <1>6, <2>8, <2>9, <2>10 DEF Promise!Sample, Promise!Become, token_counts, length_limit
  <2> QED BY <2>11
<1> QED BY <1>10, <1>11

LEMMA NextLifecycle ==
  ASSUME IInv, [Next]_vars, "update" \notin FailPoints
  PROVE  [Promise!Next]_Promise!lifecycleVars
<1>0. QInv /\ ArrivalsOK
  BY DEF IInv
<1>1. ASSUME NEW s \in Seqs, add(s) PROVE Promise!Next
  BY <1>1, AddIsArrive DEF Promise!Next
<1>2. ASSUME NEW s \in Seqs, AbortRequest(s) \/ FailOne(s) PROVE Promise!Next
  BY <1>0, <1>2, AbortIsAbort DEF AbortRequest, FailOne, Promise!Next
<1>3. CASE BeginStep \/ ScheduleRunning \/ EndRunning \/ EndSwapIn \/ EndAdmit \/ EmptyStep \/ Execute
           \/ ExecuteFails \/ EndFailAll \/ UNCHANGED vars
  <2>1. UNCHANGED <<status, finish_reason, token_ids, num_computed_tokens>>
    BY <1>3 DEF BeginStep, ScheduleRunning, EndRunning, EndSwapIn, EndAdmit, EmptyStep, Execute,
                ExecuteFails, EndFailAll, vars, seqVars
  <2> QED BY <2>1, KeepsLifecycle
<1>4. ASSUME Evict PROVE Promise!Next
  BY <1>0, <1>4, EvictIsSuspend DEF Promise!Next
<1>5. ASSUME SwapIn PROVE Promise!Next
  BY <1>0, <1>5, SwapInIsStart DEF Promise!Next
<1>6. ASSUME Admit PROVE Promise!Next
  BY <1>0, <1>6, AdmitIsStart DEF Promise!Next
<1>7. ASSUME Update PROVE Promise!Next
  BY <1>0, <1>7, UpdateIsPrefillOrSample DEF Promise!Next
<1>8. ASSUME NEW s, Fail(s), s \in seqs PROVE Promise!Next
  <2>1. s \in Seqs /\ status[s] \in Live
    BY <1>0, <1>8 DEF QInv, Types, Placed
  <2> QED BY <1>0, <1>8, <2>1, FailIsFail DEF Promise!Next
<1>9. ASSUME FailAlone \/ FailSwapIn \/ FailAdmit PROVE Promise!Next
  <2>1. PICK s : Fail(s) /\ s \in waiting \cup Range(running) \cup Range(swapped) \cup Range(preempted)
                 /\ pc # "update"
    BY <1>0, <1>9, CurrentIsQueued DEF FailAlone, OutOfBlocks, Scheduling, FailSwapIn, SwappingIn, FailAdmit, Admitting
  <2>2. s \in Seqs
    BY <1>0, <2>1, QueuedArrived
  <2>3. s \in seqs
    BY <1>0, <2>1, <2>2 DEF QInv, Placed, Live
  <2> QED BY <1>8, <2>1, <2>3
<1>10. ~UpdateFails
  BY DEF UpdateFails
<1> QED
  BY <1>1, <1>2, <1>3, <1>4, <1>5, <1>6, <1>7, <1>9, <1>10 DEF Next, Step, Bookkeep, Request

\* Whatever is scheduled, chunked, preempted, swapped, failed or aborted, every
\* request goes through the states that sequence.py promises.
THEOREM LifecycleIsKept ==
  ASSUME "update" \notin FailPoints
  PROVE  Spec => ImplementsLifecycle
<1>1. Init => Promise!Init
  BY InitLifecycle
<1>2. IInv /\ [Next]_vars => [Promise!Next]_Promise!lifecycleVars
  BY NextLifecycle
<1>3. Spec => []IInv
  BY Invariance
<1> QED BY <1>1, <1>2, <1>3, PTL DEF Spec, ImplementsLifecycle, Promise!Spec

-----------------------------------------------------------------------------
\* First come, first served.

\* Oldest first.
Sorted(q) == \A j, k \in DOMAIN q : j < k => arrival[q[j]] < arrival[q[k]]

\* The queues one behind the other, oldest first: who runs, who was preempted
\* for recomputation, who waits.
InOrder ==
  /\ swapped = <<>> /\ Sorted(running) /\ Sorted(preempted)
  /\ \A r \in Range(running) : \A p \in Range(preempted) : arrival[r] < arrival[p]
  /\ \A r \in Range(running) \cup Range(preempted) : \A w \in waiting : arrival[r] < arrival[w]

\* Whoever leaves a queue leaves the others in their order: each one that stays
\* had a place in the old queue, and the places grow.
LEMMA FilterPlaces ==
  ASSUME NEW q \in Seq(Seqs), NEW T
  PROVE  \E place \in [DOMAIN Filter(q, T) -> DOMAIN q] :
           /\ \A j \in DOMAIN Filter(q, T) : Filter(q, T)[j] = q[place[j]]
           /\ \A j, k \in DOMAIN Filter(q, T) : j < k => place[j] < place[k]
<1> DEFINE kept == {j \in DOMAIN q : q[j] \in T}
           upto(j) == {m \in kept : m <= j}
           rank(j) == Cardinality(upto(j))
           pos(k) == CHOOSE j \in kept : rank(j) = k
           f == Filter(q, T)
<1>1. kept \in SUBSET (1..Len(q)) /\ Len(q) \in Nat
  OBVIOUS
<1>2. \A j \in kept : j \in DOMAIN q
  OBVIOUS
<1>3. f = [k \in 1..Cardinality(kept) |-> q[pos(k)]]
  BY DEF Filter
<1> HIDE DEF kept, f
<1>4. /\ IsFiniteSet(kept) /\ Cardinality(kept) \in Nat
      /\ \A k \in 1..Cardinality(kept) : \E j \in kept : rank(j) = k
  BY <1>1, RankIsBijective
<1>5. DOMAIN f = 1..Cardinality(kept)
  BY <1>3
<1> HIDE DEF rank
<1>6. \A k \in DOMAIN f : pos(k) \in kept /\ rank(pos(k)) = k /\ f[k] = q[pos(k)]
  BY <1>3, <1>4, <1>5
<1> HIDE DEF pos
<1>7. ASSUME NEW j \in kept, NEW k \in kept, k <= j
      PROVE  rank(k) <= rank(j)
  <2>1. upto(k) \in SUBSET upto(j)
    <3>1. \A m \in kept : m \in Int /\ (m <= k => m <= j)
      BY <1>1, <1>7
    <3> QED BY <3>1
  <2>2. upto(j) \in SUBSET kept
    OBVIOUS
  <2> HIDE DEF upto
  <2>3. IsFiniteSet(upto(j))
    BY <1>4, <2>2, FS_Subset
  <2>4. Cardinality(upto(k)) <= Cardinality(upto(j))
    BY <2>1, <2>3, FS_Subset
  <2> QED BY <2>4 DEF rank
<1>8. ASSUME NEW j \in DOMAIN f, NEW k \in DOMAIN f, j < k
      PROVE  pos(j) < pos(k)
  <2>1. pos(j) \in Int /\ pos(k) \in Int
    <3>1. pos(j) \in kept /\ pos(k) \in kept
      BY <1>6
    <3>2. \A m \in kept : m \in Int
      BY <1>1
    <3> QED BY <3>1, <3>2
  <2> SUFFICES ASSUME pos(k) <= pos(j) PROVE FALSE
    BY <2>1
  <2>2. rank(pos(k)) <= rank(pos(j))
    BY <1>6, <1>7
  <2>3. k <= j
    BY <1>6, <2>2
  <2> QED BY <1>4, <1>5, <1>8, <2>3
<1>9. PICK place \in [DOMAIN f -> DOMAIN q] : place = [j \in DOMAIN f |-> pos(j)]
  BY <1>2, <1>6
<1>10. \A j \in DOMAIN f : place[j] = pos(j)
  BY <1>9
<1> QED BY <1>6, <1>8, <1>10 DEF f

LEMMA FilterKeepsOrder ==
  ASSUME NEW q \in Seq(Seqs), NEW T, Sorted(q)
  PROVE  \A j, k \in DOMAIN Filter(q, T) : j < k => arrival[Filter(q, T)[j]] < arrival[Filter(q, T)[k]]
<1> DEFINE f == Filter(q, T)
<1>1. PICK place \in [DOMAIN f -> DOMAIN q] :
        /\ \A j \in DOMAIN f : f[j] = q[place[j]]
        /\ \A j, k \in DOMAIN f : j < k => place[j] < place[k]
  BY FilterPlaces
<1> HIDE DEF f
<1> SUFFICES ASSUME NEW j \in DOMAIN f, NEW k \in DOMAIN f, j < k
             PROVE  arrival[f[j]] < arrival[f[k]]
  BY DEF f
<1>2. place[j] \in DOMAIN q /\ place[k] \in DOMAIN q /\ place[j] < place[k]
  BY <1>1
<1> QED BY <1>1, <1>2 DEF Sorted

\* A prefix is in order, and so is a queue that somebody younger joins at its end
\* or somebody older at its head.
LEMMA JoinKeepsOrder ==
  ASSUME NEW q \in Seq(Seqs), Sorted(q), NEW x \in Seqs
  PROVE  /\ (\A y \in Range(q) : arrival[y] < arrival[x]) => Sorted(Append(q, x))
         /\ (\A y \in Range(q) : arrival[x] < arrival[y]) => Sorted(<<x>> \o q)
         /\ q # <<>> => Sorted(Tail(q)) /\ \A y \in Range(Tail(q)) : arrival[Head(q)] < arrival[y]
<1>1. /\ Len(q) \in Nat /\ DOMAIN q = 1..Len(q)
      /\ \A j \in DOMAIN q : q[j] \in Range(q)
  BY DEF Range
<1>2. ASSUME \A y \in Range(q) : arrival[y] < arrival[x]
      PROVE  Sorted(Append(q, x))
  <2> DEFINE l == Append(q, x)
  <2>1. /\ DOMAIN l = 1 .. Len(q) + 1 /\ l[Len(q) + 1] = x
        /\ \A j \in 1..Len(q) : l[j] = q[j]
    BY <1>1
  <2> HIDE DEF l
  <2> SUFFICES ASSUME NEW j \in 1 .. Len(q) + 1, NEW k \in 1 .. Len(q) + 1, j < k
               PROVE  arrival[l[j]] < arrival[l[k]]
    BY <2>1 DEF Sorted, l
  <2>2. j \in DOMAIN q /\ l[j] = q[j]
    BY <1>1, <2>1
  <2>3. CASE k = Len(q) + 1
    BY <1>1, <1>2, <2>1, <2>2, <2>3
  <2>4. CASE k # Len(q) + 1
    <3>1. k \in DOMAIN q /\ l[k] = q[k]
      BY <1>1, <2>1, <2>4
    <3> QED BY <2>2, <3>1 DEF Sorted
  <2> QED BY <2>3, <2>4
<1>3. ASSUME \A y \in Range(q) : arrival[x] < arrival[y]
      PROVE  Sorted(<<x>> \o q)
  <2> DEFINE l == <<x>> \o q
  <2>1. /\ DOMAIN l = 1 .. Len(q) + 1 /\ l[1] = x
        /\ \A j \in 2 .. Len(q) + 1 : l[j] = q[j - 1] /\ j - 1 \in 1..Len(q)
    BY <1>1
  <2> HIDE DEF l
  <2> SUFFICES ASSUME NEW j \in 1 .. Len(q) + 1, NEW k \in 1 .. Len(q) + 1, j < k
               PROVE  arrival[l[j]] < arrival[l[k]]
    BY <2>1 DEF Sorted, l
  <2>2. k \in 2 .. Len(q) + 1
    BY <1>1
  <2>3. l[k] = q[k - 1] /\ k - 1 \in DOMAIN q
    BY <1>1, <2>1, <2>2
  <2>4. CASE j = 1
    BY <1>1, <1>3, <2>1, <2>3, <2>4
  <2>5. CASE j # 1
    <3>1. j \in 2 .. Len(q) + 1 /\ j - 1 < k - 1
      BY <1>1, <2>5
    <3>2. j - 1 \in DOMAIN q /\ l[j] = q[j - 1]
      BY <1>1, <2>1, <3>1
    <3> QED BY <2>3, <3>1, <3>2 DEF Sorted
  <2> QED BY <2>4, <2>5
<1>4. ASSUME q # <<>>
      PROVE  Sorted(Tail(q)) /\ \A y \in Range(Tail(q)) : arrival[Head(q)] < arrival[y]
  <2>1. /\ DOMAIN Tail(q) = 1 .. Len(q) - 1 /\ Head(q) = q[1] /\ 1 \in DOMAIN q
        /\ \A j \in 1 .. Len(q) - 1 : Tail(q)[j] = q[j + 1] /\ j + 1 \in DOMAIN q /\ 1 < j + 1
    BY <1>1, <1>4
  <2>2. \A j, k \in 1 .. Len(q) - 1 : j < k => j + 1 < k + 1
    OBVIOUS
  <2>3. Sorted(Tail(q))
    <3> SUFFICES ASSUME NEW j \in 1 .. Len(q) - 1, NEW k \in 1 .. Len(q) - 1, j < k
                 PROVE  arrival[Tail(q)[j]] < arrival[Tail(q)[k]]
      BY <2>1 DEF Sorted
    <3> QED BY <2>1, <2>2 DEF Sorted
  <2>4. \A y \in Range(Tail(q)) : arrival[Head(q)] < arrival[y]
    <3> SUFFICES ASSUME NEW j \in 1 .. Len(q) - 1
                 PROVE  arrival[q[1]] < arrival[Tail(q)[j]]
      BY <2>1 DEF Range
    <3> QED BY <2>1 DEF Sorted
  <2> QED BY <2>3, <2>4
<1> QED BY <1>2, <1>3, <1>4

\* The youngest of a queue is its last.
LEMMA LastIsYoungest ==
  ASSUME NEW q \in Seq(Seqs), IsInjective(q), q # <<>>, Sorted(q)
  PROVE  \A y \in Range(q) \ {Last(q)} : arrival[y] < arrival[Last(q)]
<1>1. /\ Len(q) \in Nat \ {0} /\ Last(q) = q[Len(q)] /\ DOMAIN q = 1..Len(q)
  BY WithoutLast
<1> SUFFICES ASSUME NEW j \in DOMAIN q, q[j] # q[Len(q)]
             PROVE  arrival[q[j]] < arrival[q[Len(q)]]
  BY <1>1 DEF Range
<1>2. j < Len(q) /\ Len(q) \in DOMAIN q
  BY <1>1
<1> QED BY <1>2 DEF Sorted

\* Requests only leave.
LEMMA LeavingKeepsOrder ==
  ASSUME QInv, ArrivalsOK, InOrder, arrival' = arrival, swapped' = <<>>, waiting' \subseteq waiting,
         NEW T, running' \in {running, Filter(running, T), <<>>},
         NEW U, \/ preempted' \in {preempted, Filter(preempted, U)}
                \/ preempted # <<>> /\ preempted' = Tail(preempted)
  PROVE  InOrder'
<1>1. /\ running \in Seq(Seqs) /\ IsInjective(running)
      /\ preempted \in Seq(Seqs) /\ IsInjective(preempted)
      /\ \A s \in Seqs : arrival[s] \in Nat
  BY DEF QInv, Types, ArrivalsOK
<1>2. /\ Sorted(running) /\ Sorted(preempted)
      /\ \A r \in Range(running) : \A p \in Range(preempted) : arrival[r] < arrival[p]
      /\ \A r \in Range(running) \cup Range(preempted) : \A w \in waiting : arrival[r] < arrival[w]
  BY DEF InOrder
<1>3. Range(running') \subseteq Range(running)
  <2>1. Range(<<>>) = {}
    BY DEF Range
  <2>2. Range(Filter(running, T)) \subseteq Range(running)
    BY <1>1, FilterQueue
  <2> QED BY <2>1, <2>2
<1>4. Range(preempted') \subseteq Range(preempted)
  <2>1. Range(Filter(preempted, U)) \subseteq Range(preempted)
    BY <1>1, FilterQueue
  <2>2. preempted # <<>> => Range(Tail(preempted)) \subseteq Range(preempted)
    BY <1>1, TailFacts
  <2> QED BY <2>1, <2>2
<1>5. \A j, k \in DOMAIN running' : j < k => arrival[running'[j]] < arrival[running'[k]]
  <2>1. CASE running' = running
    BY <1>2, <2>1 DEF Sorted
  <2>2. CASE running' = Filter(running, T)
    BY <1>1, <1>2, <2>2, FilterKeepsOrder
  <2>3. CASE running' = <<>>
    BY <2>3
  <2> QED BY <2>1, <2>2, <2>3
<1>6. \A j, k \in DOMAIN preempted' : j < k => arrival[preempted'[j]] < arrival[preempted'[k]]
  <2>1. CASE preempted' = preempted
    BY <1>2, <2>1 DEF Sorted
  <2>2. CASE preempted' = Filter(preempted, U)
    BY <1>1, <1>2, <2>2, FilterKeepsOrder
  <2>3. CASE preempted # <<>> /\ preempted' = Tail(preempted)
    <3>1. Head(preempted) \in Seqs
      BY <1>1, <2>3, TailFacts
    <3>2. Sorted(Tail(preempted))
      BY <1>1, <1>2, <2>3, <3>1, JoinKeepsOrder
    <3> QED BY <2>3, <3>2 DEF Sorted
  <2> QED BY <2>1, <2>2, <2>3
<1>7. Sorted(running)' /\ Sorted(preempted)'
  BY <1>5, <1>6 DEF Sorted
<1> QED BY <1>2, <1>3, <1>4, <1>7 DEF InOrder

\* A request that arrives is the youngest.
LEMMA AddKeepsOrder ==
  ASSUME QInv, ArrivalsOK, InOrder, NEW s \in Seqs, add(s)
  PROVE  InOrder'
<1> DEFINE n == Cardinality({r \in Seqs : status[r] # "NEW"})
           queued == Range(running) \cup Range(preempted)
<1>1. /\ status[s] = "NEW" /\ arrival' = [arrival EXCEPT ![s] = n]
      /\ waiting' = waiting \cup {s} /\ UNCHANGED <<running, preempted, swapped>>
  BY DEF add, push
<1>2. /\ running \in Seq(Seqs) /\ preempted \in Seq(Seqs)
      /\ arrival \in [Seqs -> Nat]
      /\ \A r \in Seqs : status[r] # "NEW" => arrival[r] < n
  BY DEF QInv, Types, ArrivalsOK
<1> HIDE DEF n
<1>3. \A r \in queued \cup waiting : r \in Seqs /\ status[r] # "NEW"
  BY QueuedArrived
<1>4. \A r \in queued \cup waiting : arrival'[r] = arrival[r]
  BY <1>1, <1>2, <1>3
<1>5. \A r \in queued : arrival'[r] < arrival'[s]
  BY <1>1, <1>2, <1>3, <1>4
<1>6. ASSUME NEW q \in {running, preempted}
      PROVE  \A j, k \in DOMAIN q : j < k => arrival'[q[j]] < arrival'[q[k]]
  <2>1. Sorted(q) /\ \A j \in DOMAIN q : q[j] \in queued
    BY DEF InOrder, Range
  <2> QED BY <1>4, <2>1 DEF Sorted
<1>7. Sorted(running)' /\ Sorted(preempted)'
  BY <1>1, <1>6 DEF Sorted
<1> QED BY <1>1, <1>4, <1>5, <1>7 DEF InOrder

\* The victim is the youngest that runs and older than those preempted before.
LEMMA EvictKeepsOrder ==
  ASSUME QInv, ArrivalsOK, InOrder, ~SwapMode, Evict
  PROVE  InOrder'
<1> DEFINE v == Last(running)
           rest == Filter(running, Seqs \ {v})
<1>1. /\ running' = rest /\ preempted' = <<v>> \o preempted /\ running # <<>>
      /\ UNCHANGED <<arrival, waiting, swapped>>
  BY DEF Evict, Preempt, victim, Without, waitingVars
<1>2. /\ running \in Seq(Seqs) /\ IsInjective(running)
      /\ preempted \in Seq(Seqs) /\ IsInjective(preempted)
      /\ arrival \in [Seqs -> Nat]
  BY DEF QInv, Types, ArrivalsOK
<1>3. /\ Sorted(running) /\ Sorted(preempted) /\ swapped = <<>>
      /\ \A r \in Range(running) : \A p \in Range(preempted) : arrival[r] < arrival[p]
      /\ \A r \in Range(running) \cup Range(preempted) : \A w \in waiting : arrival[r] < arrival[w]
  BY DEF InOrder
<1>4. v \in Range(running) /\ v \in Seqs
  <2>1. Range(running) \subseteq Seqs
    BY <1>2, ListLength
  <2> QED BY <1>1, <1>2, <2>1, WithoutLast
<1>5. \A y \in Range(running) \ {v} : arrival[y] < arrival[v]
  BY <1>1, <1>2, <1>3, LastIsYoungest
<1>6. Range(rest) = Range(running) \ {v}
  BY <1>1, <1>2, WithoutFacts DEF Without
<1>7. \A j, k \in DOMAIN rest : j < k => arrival[rest[j]] < arrival[rest[k]]
  BY <1>2, <1>3, FilterKeepsOrder
<1> HIDE DEF rest, v
<1>8. \A y \in Range(preempted) : arrival[v] < arrival[y]
  BY <1>3, <1>4
<1>9. Sorted(<<v>> \o preempted)
  BY <1>2, <1>3, <1>4, <1>8, JoinKeepsOrder
<1>10. Range(<<v>> \o preempted) = Range(preempted) \cup {v}
  <2> DEFINE w == <<v>>
  <2>1. w \in Seq(Seqs) /\ Range(w) = {v}
    BY <1>4 DEF Range
  <2> HIDE DEF w
  <2>2. Range(w \o preempted) = Range(w) \cup Range(preempted)
    BY <1>2, <2>1, JoinLists
  <2> QED BY <2>1, <2>2 DEF w
<1>11. Range(running') = Range(running) \ {v} /\ Range(preempted') = Range(preempted) \cup {v}
  BY <1>1, <1>6, <1>10
<1>12. Sorted(running)' /\ Sorted(preempted)'
  BY <1>1, <1>7, <1>9 DEF Sorted
<1> QED BY <1>1, <1>3, <1>4, <1>5, <1>11, <1>12 DEF InOrder

\* Who is admitted was the oldest that did not run.
LEMMA AdmitKeepsOrder ==
  ASSUME QInv, ArrivalsOK, InOrder, Policy = "fcfs", Admit
  PROVE  InOrder'
<1> DEFINE c == candidate
<1>1. /\ running' = Append(running, c) /\ PopWaiting /\ UNCHANGED <<arrival, swapped>>
      /\ pc = "admit" /\ (preempted # <<>> \/ waiting # {})
  BY DEF Admit, Admitting
<1>2. /\ running \in Seq(Seqs) /\ IsInjective(running)
      /\ preempted \in Seq(Seqs) /\ IsInjective(preempted)
      /\ arrival \in [Seqs -> Nat]
  BY DEF QInv, Types, ArrivalsOK
<1>3. /\ Sorted(running) /\ Sorted(preempted) /\ swapped = <<>>
      /\ \A r \in Range(running) : \A p \in Range(preempted) : arrival[r] < arrival[p]
      /\ \A r \in Range(running) \cup Range(preempted) : \A w \in waiting : arrival[r] < arrival[w]
  BY DEF InOrder
<1>4. /\ c \in Seqs /\ waiting' = waiting \ {c} /\ Range(preempted)' = Range(preempted) \ {c}
  BY <1>1, CandidatePopped
<1>5. CASE preempted # <<>>
  <2>1. c = Head(preempted) /\ preempted' = Tail(preempted)
    BY <1>1, <1>5 DEF candidate, PopWaiting
  <2>2. c \in Range(preempted)
    BY <1>2, <1>5, <2>1, TailFacts
  <2>3. Sorted(Tail(preempted)) /\ \A y \in Range(Tail(preempted)) : arrival[c] < arrival[y]
    BY <1>2, <1>3, <1>4, <1>5, <2>1, JoinKeepsOrder
  <2>4. \A y \in Range(running) : arrival[y] < arrival[c]
    BY <1>3, <2>2
  <2> HIDE DEF c
  <2>9. Range(Append(running, c)) = Range(running) \cup {c}
    BY <1>2, <1>4, AppendFacts
  <2>10. Sorted(Append(running, c))
    BY <1>2, <1>3, <1>4, <2>4, JoinKeepsOrder
  <2>5. Sorted(Append(running, c)) /\ Range(Append(running, c)) = Range(running) \cup {c}
    BY <2>9, <2>10
  <2>6. Sorted(running)' /\ Sorted(preempted)'
    BY <1>1, <2>1, <2>3, <2>5 DEF Sorted
  <2>7. Range(running)' = Range(running) \cup {c}
    BY <1>1, <2>5
  <2>8. \A y \in Range(preempted)' : y \in Range(preempted) /\ arrival[c] < arrival[y]
    BY <1>4, <2>1, <2>3
  <2> QED BY <1>1, <1>3, <1>4, <2>2, <2>6, <2>7, <2>8 DEF InOrder
<1>6. CASE preempted = <<>>
  <2>1. c = peek /\ preempted' = <<>>
    BY <1>1, <1>6 DEF candidate, PopWaiting
  <2>2. peek \in waiting /\ \A r \in waiting \ {peek} : Before(peek, r)
    BY <1>1, <1>6, QueueIsOK, PeekReturnsTheFirst DEF PeekIsFirst
  <2>3. \A r \in waiting \ {peek} : arrival[peek] < arrival[r]
    BY <2>2 DEF Before, key
  <2>4. c \in waiting /\ \A r \in waiting \ {c} : arrival[c] < arrival[r]
    BY <2>1, <2>2, <2>3
  <2> HIDE DEF c
  <2>5. \A y \in Range(running) : arrival[y] < arrival[c]
    BY <1>3, <2>4
  <2>9. Range(Append(running, c)) = Range(running) \cup {c}
    BY <1>2, <1>4, AppendFacts
  <2>10. Sorted(Append(running, c))
    BY <1>2, <1>3, <1>4, <2>5, JoinKeepsOrder
  <2>6. Sorted(Append(running, c)) /\ Range(Append(running, c)) = Range(running) \cup {c}
    BY <2>9, <2>10
  <2>7. Sorted(running)' /\ Sorted(preempted)'
    BY <1>1, <2>1, <2>6 DEF Sorted
  <2>8. Range(running)' = Range(running) \cup {c} /\ Range(preempted)' = {}
    BY <1>1, <2>1, <2>6 DEF Range
  <2> QED BY <1>1, <1>3, <1>4, <2>4, <2>7, <2>8 DEF InOrder
<1> QED BY <1>5, <1>6

LEMMA NextKeepsOrder ==
  ASSUME "update" \notin FailPoints, ~SwapMode, Policy = "fcfs", QInv, ArrivalsOK, InOrder, [Next]_vars
  PROVE  InOrder'
<1>1. /\ swapped = <<>> /\ waiting \subseteq Seqs
      /\ \A s \in Seqs : Placed(s)
  BY DEF InOrder, QInv, Types
<1>2. Range(swapped) = {}
  BY <1>1 DEF Range
<1>3. ASSUME NEW s \in Seqs, add(s) PROVE InOrder'
  BY <1>3, AddKeepsOrder
<1>4. ASSUME NEW s \in Seqs, AbortRequest(s) \/ FailOne(s) PROVE InOrder'
  <2>1. abort(s)
    BY <1>4 DEF AbortRequest, FailOne
  <2>2. cpu_block_table[s] = <<>>
    BY <1>1, <1>2 DEF Placed
  <2> DEFINE T == Seqs \ {s}
  <2>3. /\ arrival' = arrival /\ swapped' = <<>> /\ waiting' \subseteq waiting
        /\ running' \in {running, Filter(running, T)}
        /\ preempted' \in {preempted, Filter(preempted, T)}
    BY <1>1, <2>1, <2>2 DEF abort, remove, Without, waitingVars
  <2> HIDE DEF T
  <2> QED BY <2>3, LeavingKeepsOrder
<1>5. CASE BeginStep \/ ScheduleRunning \/ EndRunning \/ EndSwapIn \/ EndAdmit \/ EmptyStep \/ Execute
           \/ ExecuteFails \/ EndFailAll \/ UNCHANGED vars
  <2>1. UNCHANGED <<arrival, running, preempted, swapped, waiting>>
    BY <1>5 DEF BeginStep, ScheduleRunning, EndRunning, EndSwapIn, EndAdmit, EmptyStep, Execute,
                ExecuteFails, EndFailAll, vars, seqVars, queueVars, waitingVars
  <2> QED BY <1>1, <2>1, LeavingKeepsOrder
<1>6. ASSUME Evict PROVE InOrder'
  BY <1>6, EvictKeepsOrder
<1>7. ~SwapIn /\ ~FailSwapIn
  BY <1>1 DEF SwapIn, FailSwapIn, SwappingIn
<1>8. ASSUME Admit PROVE InOrder'
  BY <1>8, AdmitKeepsOrder
<1>9. ASSUME FailAdmit PROVE InOrder'
  <2>1. /\ PopWaiting /\ UNCHANGED <<arrival, running, swapped>>
    BY <1>9 DEF FailAdmit, Fail
  <2>2. waiting' \subseteq waiting
    BY <2>1 DEF PopWaiting, pop, remove, waitingVars
  <2>3. preempted' = preempted \/ (preempted # <<>> /\ preempted' = Tail(preempted))
    BY <2>1 DEF PopWaiting
  <2> QED BY <1>1, <2>1, <2>2, <2>3, LeavingKeepsOrder
<1>10. ASSUME FailAlone PROVE InOrder'
  <2>1. running' = <<>> /\ UNCHANGED <<arrival, waiting, preempted, swapped>>
    BY <1>10 DEF FailAlone, Fail, waitingVars
  <2> QED BY <1>1, <2>1, LeavingKeepsOrder
<1>11. ASSUME Update PROVE InOrder'
  <2> DEFINE T == {r \in Seqs : status'[r] = "RUNNING"}
  <2>1. running' \in {running, Filter(running, T)} /\ UNCHANGED <<arrival, waiting, preempted, swapped>>
    BY <1>11 DEF Update, waitingVars
  <2> HIDE DEF T
  <2> QED BY <1>1, <2>1, LeavingKeepsOrder
<1>12. ~UpdateFails
  BY DEF UpdateFails
<1> QED
  BY <1>3, <1>4, <1>5, <1>6, <1>7, <1>8, <1>9, <1>10, <1>11, <1>12 DEF Next, Step, Bookkeep, Request

LEMMA InitOrder == Init => InOrder
<1> SUFFICES ASSUME Init PROVE InOrder
  OBVIOUS
<1>1. running = <<>> /\ preempted = <<>> /\ swapped = <<>> /\ waiting = {}
  BY DEF Init, QueueInit
<1>2. Sorted(<<>>) /\ Range(<<>>) = {}
  BY DEF Sorted, Range
<1> QED BY <1>1, <1>2 DEF InOrder

LEMMA InOrderServes == QInv /\ InOrder => FirstComeFirstServed
<1> SUFFICES ASSUME QInv, InOrder PROVE FirstComeFirstServed
  OBVIOUS
<1> DEFINE queue == running \o swapped \o preempted
<1>1. /\ running \in Seq(Seqs) /\ preempted \in Seq(Seqs) /\ swapped = <<>>
      /\ Sorted(running) /\ Sorted(preempted)
      /\ \A r \in Range(running) : \A p \in Range(preempted) : arrival[r] < arrival[p]
      /\ \A r \in Range(running) \cup Range(preempted) : \A w \in waiting : arrival[r] < arrival[w]
  BY DEF QInv, Types, InOrder
<1>2. Len(running) \in Nat /\ Len(preempted) \in Nat
  BY <1>1
<1>3. DOMAIN running = 1 .. Len(running) /\ DOMAIN preempted = 1 .. Len(preempted)
  BY <1>1
<1>4. queue = running \o preempted
  <2>1. running \o swapped = running
    BY <1>1
  <2> QED BY <2>1
<1>5. /\ DOMAIN queue = 1 .. Len(running) + Len(preempted)
      /\ \A j \in 1 .. Len(running) : queue[j] = running[j]
      /\ \A j \in Len(running) + 1 .. Len(running) + Len(preempted) :
           queue[j] = preempted[j - Len(running)] /\ j - Len(running) \in 1 .. Len(preempted)
  BY <1>1, <1>2, <1>4
<1> HIDE DEF queue
<1>6. \A j \in DOMAIN queue : \/ j \in DOMAIN running /\ queue[j] = running[j] /\ queue[j] \in Range(running)
                              \/ /\ j \notin DOMAIN running /\ queue[j] \in Range(preempted)
                                 /\ j - Len(running) \in DOMAIN preempted
                                 /\ queue[j] = preempted[j - Len(running)]
  <2> SUFFICES ASSUME NEW j \in DOMAIN queue
               PROVE  \/ j \in DOMAIN running /\ queue[j] = running[j] /\ queue[j] \in Range(running)
                      \/ /\ j \notin DOMAIN running /\ queue[j] \in Range(preempted)
                         /\ j - Len(running) \in DOMAIN preempted
                         /\ queue[j] = preempted[j - Len(running)]
    OBVIOUS
  <2>1. j \in 1 .. Len(running) \/ j \in Len(running) + 1 .. Len(running) + Len(preempted)
    BY <1>2, <1>5
  <2>2. j \in Len(running) + 1 .. Len(running) + Len(preempted) => j \notin 1 .. Len(running)
    BY <1>2
  <2> QED BY <1>3, <1>5, <2>1, <2>2 DEF Range
<1>7. ASSUME NEW j \in DOMAIN queue, NEW k \in DOMAIN queue, j < k
      PROVE  arrival[queue[j]] < arrival[queue[k]]
  <2>1. j \in Int /\ k \in Int
    BY <1>2, <1>5
  <2>2. CASE j \in DOMAIN running /\ k \in DOMAIN running
    BY <1>1, <1>5, <1>3, <1>7, <2>2 DEF Sorted
  <2>3. CASE j \in DOMAIN running /\ k \notin DOMAIN running
    BY <1>1, <1>6, <2>3
  <2>4. CASE j \notin DOMAIN running /\ k \notin DOMAIN running
    <3>1. j - Len(running) < k - Len(running)
      BY <1>2, <1>7, <2>1
    <3> QED BY <1>1, <1>6, <2>4, <3>1 DEF Sorted
  <2>5. k \in DOMAIN running => j \in DOMAIN running
    BY <1>2, <1>3, <1>5, <1>7, <2>1
  <2> QED BY <2>2, <2>3, <2>4, <2>5
<1>8. \A j \in DOMAIN queue : \A w \in waiting : arrival[queue[j]] < arrival[w]
  BY <1>1, <1>6
<1> QED BY <1>7, <1>8 DEF FirstComeFirstServed, queue

\* With arrival-order admission and preemption by recomputation, no request ever
\* gets ahead of an older one: the running ones, the victims and the waiting ones
\* behind each other are in order of arrival, through any series of admissions,
\* preemptions, failures and aborts (_admit, _preempt and the waiting queue).
THEOREM FirstComeIsFirstServed ==
  ASSUME "update" \notin FailPoints, ~SwapMode, Policy = "fcfs"
  PROVE  Spec => []FirstComeFirstServed
<1>1. Init => IInv /\ InOrder
  BY InitInv, InitOrder
<1>2. IInv /\ InOrder /\ [Next]_vars => IInv' /\ InOrder'
  BY NextInv, NextKeepsOrder DEF IInv
<1>3. IInv /\ InOrder => FirstComeFirstServed
  BY InOrderServes DEF IInv
<1> QED BY <1>1, <1>2, <1>3, PTL DEF Spec
-----------------------------------------------------------------------------
\* The scheduler as a client of the block manager.
C == INSTANCE BlockManagerClient_proofs WITH Prompts <- Range(Prompt), MaxTokens <- MaxModelLen

LEMMA SameLibrary ==
  /\ \A S : C!Cardinality(S) = Cardinality(S) /\ (C!IsFiniteSet(S) <=> IsFiniteSet(S))
  /\ \A f : C!Range(f) = Range(f)
  /\ \A l : C!Reverse(l) = Reverse(l)
  /\ \A S : C!Max(S) = Max(S)
  /\ \A f, S : C!Restrict(f, S) = Restrict(f, S)
<1>1. \A S : C!Cardinality(S) = Cardinality(S)
  BY DEF C!Cardinality, Cardinality
<1>2. \A S : C!IsFiniteSet(S) <=> IsFiniteSet(S)
  BY DEF C!IsFiniteSet, IsFiniteSet
<1>3. \A f : C!Range(f) = Range(f)
  BY DEF C!Range, Range
<1>4. \A l : C!Reverse(l) = Reverse(l)
  BY DEF C!Reverse, Reverse
<1>5. \A S : C!Max(S) = Max(S)
  BY DEF C!Max, Max
<1>6. \A f, S : C!Restrict(f, S) = Restrict(f, S)
  BY DEF C!Restrict, Restrict
<1> QED BY <1>1, <1>2, <1>3, <1>4, <1>5, <1>6

LEMMA SameCounts ==
  /\ C!Blocks = Blocks /\ C!CpuBlocks = CpuBlocks
  /\ \A n : C!blocks_for(n) = blocks_for(n)
  /\ \A s : /\ C!num_tokens(s) = num_tokens(s)
            /\ C!num_uncomputed_tokens(s) = num_uncomputed_tokens(s)
  /\ \A s, n : C!blocks_needed(s, n) = blocks_needed(s, n)
  /\ C!num_free_blocks = num_free_blocks
<1>1. C!Blocks = Blocks /\ C!CpuBlocks = CpuBlocks /\ C!num_free_blocks = num_free_blocks
  BY DEF C!Blocks, Blocks, C!CpuBlocks, CpuBlocks, C!num_free_blocks, num_free_blocks
<1>2. \A n : C!blocks_for(n) = blocks_for(n)
  BY DEF C!blocks_for, blocks_for
<1>3. \A s : /\ C!num_tokens(s) = num_tokens(s)
             /\ C!num_uncomputed_tokens(s) = num_uncomputed_tokens(s)
  BY DEF C!num_tokens, num_tokens, C!num_uncomputed_tokens, num_uncomputed_tokens
<1>4. \A s, n : C!blocks_needed(s, n) = blocks_needed(s, n)
  BY <1>2 DEF C!blocks_needed, blocks_needed
<1> QED BY <1>1, <1>2, <1>3, <1>4

LEMMA SameFilter == \A l, T : C!Filter(l, T) = Filter(l, T)
BY DEF C!Filter, Filter, C!Cardinality, Cardinality

LEMMA SameAcquire == \A s, cached, k : C!Acquire(s, cached, k) <=> Acquire(s, cached, k)
BY DEF C!Acquire, Acquire, C!Drop, Drop, C!counted, counted, C!Filter, Filter, C!Cardinality, Cardinality,
       C!Blocks, Blocks, C!Range, Range, C!Restrict, Restrict

LEMMA SameFree == \A s : (C!Release(s) <=> Release(s)) /\ (C!Unregister(s) <=> Unregister(s))
                         /\ (C!free(s) <=> free(s))
<1>1. \A s : C!Release(s) <=> Release(s)
  BY SameLibrary, SameFilter, SameCounts DEF C!Release, Release, C!published, published, C!unpublished, unpublished
<1>2. \A s : C!Unregister(s) <=> Unregister(s)
  BY DEF C!Unregister, Unregister
<1> QED BY <1>1, <1>2 DEF C!free, free

LEMMA SameHost ==
  \A s, n : /\ C!swap_out(s) <=> swap_out(s)
            /\ C!swap_in(s, n) <=> swap_in(s, n)
            /\ C!free_cpu(s) <=> free_cpu(s)
<1>1. \A s : C!free_cpu(s) <=> free_cpu(s)
  BY DEF C!free_cpu, free_cpu
<1>2. \A s : C!swap_out(s) <=> swap_out(s)
  BY SameFree DEF C!swap_out, swap_out, C!Drop, Drop
<1>3. \A s, n : C!swap_in(s, n) <=> swap_in(s, n)
  BY <1>1, SameAcquire, SameFree, SameCounts, SameLibrary DEF C!swap_in, swap_in
<1> QED BY <1>1, <1>2, <1>3

LEMMA SamePrefix ==
  \A s, n, cached : /\ C!cached_prefix(s) = cached_prefix(s)
                    /\ C!allocate(s, n, cached) <=> allocate(s, n, cached)
                    /\ C!can_allocate(s, n, cached, FALSE) <=> can_allocate(s, n, cached, FALSE)
<1>1. \A s, j : C!Hash(s, j) = Hash(s, j)
  BY DEF C!Hash, Hash
<1>2. \A s : C!cached_prefix(s) = cached_prefix(s)
  BY <1>1, SameCounts, SameLibrary DEF C!cached_prefix, cached_prefix
<1>3. \A s, n, cached : C!allocate(s, n, cached) <=> allocate(s, n, cached)
  BY SameAcquire, SameCounts DEF C!allocate, allocate
<1>4. \A s, n, cached : C!can_allocate(s, n, cached, FALSE) <=> can_allocate(s, n, cached, FALSE)
  BY SameLibrary, SameCounts DEF C!can_allocate, can_allocate, C!Available, Available
<1> QED BY <1>2, <1>3, <1>4

LEMMA SamePublish ==
  \A s, n : /\ C!cache_full_blocks(s, n) <=> cache_full_blocks(s, n)
            /\ C!Registered(s, n) = Registered(s, n)
<1>1. \A s, j : C!Hash(s, j) = Hash(s, j)
  BY DEF C!Hash, Hash
<1>2. \A s, n : C!NewlyFull(s, n) = NewlyFull(s, n)
  BY <1>1 DEF C!NewlyFull, NewlyFull
<1>3. \A s, n : C!cache_full_blocks(s, n) <=> cache_full_blocks(s, n)
  BY <1>1, <1>2, SameCounts DEF C!cache_full_blocks, cache_full_blocks
<1>4. \A s, n : C!Registered(s, n) = Registered(s, n)
  BY SameLibrary DEF C!Registered, Registered
<1> QED BY <1>3, <1>4

\* The assumptions of BlockManagerClient hold of the scheduler's constants.
LEMMA ClientAssumptionsHold ==
  /\ C!IsFiniteSet(Seqs) /\ MaxModelLen \in Nat
  /\ \A p \in Range(Prompt) : p \in Seq(Tokens) /\ Len(p) \in 1..MaxModelLen
  /\ None \notin C!Digests /\ None \notin C!Blocks
<1>1. C!IsFiniteSet(Seqs) /\ MaxModelLen \in Nat
  BY ConfigAssumption, SameLibrary
<1>2. ASSUME NEW p \in Range(Prompt)
      PROVE  p \in Seq(Tokens) /\ Len(p) \in 1..MaxModelLen
  <2>1. PICK s \in Seqs : p = Prompt[s]
    BY ConfigAssumption DEF Range
  <2>2. /\ p \in Seq(Tokens) /\ p # <<>> /\ MaxTokens[s] \in Nat \ {0}
        /\ Len(p) + MaxTokens[s] <= MaxModelLen
    BY <2>1, ConfigAssumption
  <2>3. Len(p) \in Nat \ {0}
    BY <2>2
  <2> QED BY <1>1, <2>2, <2>3
<1>3. None \notin C!Digests
  <2> SUFFICES ASSUME NEW j \in 1 .. MaxModelLen \div BlockSize
               PROVE  None \notin [1 .. j * BlockSize -> Tokens]
    BY DEF C!Digests
  <2>1. BlockSize \in Nat \ {0} /\ MaxModelLen \in Nat
    BY <1>1, PoolAssumption
  <2>2. j * BlockSize \in 1..MaxModelLen
    <3>1. MaxModelLen \div BlockSize \in Nat
      BY <2>1, Division
    <3>2. j \in Nat \ {0} /\ j * BlockSize \in Nat \ {0}
      BY <2>1, SMT
    <3>3. j * BlockSize <= MaxModelLen
      BY <2>1, <3>1, <3>2, SMTT(30)
    <3> QED BY <3>2, <3>3
  <2> QED BY <2>2, NoneAssumption
<1>4. None \notin C!Blocks
  BY NoneAssumption, SameCounts
<1> QED BY <1>1, <1>2, <1>3, <1>4

\* The block manager under any client keeps its invariant.
LEMMA ClientSteps ==
  /\ C!Init => C!IInv
  /\ C!IInv /\ [C!Next]_(C!vars) => C!IInv'
<1>1. C!Init => C!IInv
  BY ClientAssumptionsHold, PoolAssumption, C!ClientInit
<1>2. C!IInv /\ [C!Next]_(C!vars) => C!IInv'
  BY ClientAssumptionsHold, PoolAssumption, C!ClientStep
<1> QED BY <1>1, <1>2

LEMMA ControlIsNothing ==
  ASSUME UNCHANGED <<poolVars, token_ids, num_computed_tokens>>
  PROVE  UNCHANGED C!vars
BY DEF poolVars, gpuVars, cpuVars, C!vars, C!gpuVars, C!cpuVars

\* A sequence gives its table up.
LEMMA FreeIsDropTable ==
  ASSUME NEW s \in Seqs, block_table[s] # <<>>, free(s),
         \/ UNCHANGED num_computed_tokens
         \/ num_computed_tokens' = [num_computed_tokens EXCEPT ![s] = 0],
         UNCHANGED <<cpuVars, token_ids>>
  PROVE  C!Next
<1>1. C!DropTable(s)
  BY SameFree DEF C!DropTable, C!cpuVars, cpuVars
<1> QED BY <1>1 DEF C!Next

LEMMA FreeCpuIsDropSwapped ==
  ASSUME NEW s \in Seqs, cpu_block_table[s] # <<>>, free_cpu(s),
         UNCHANGED <<gpuVars, num_registered_blocks, token_ids, num_computed_tokens>>
  PROVE  C!Next
<1>1. C!DropSwapped(s)
  BY SameHost DEF C!DropSwapped, C!gpuVars, gpuVars
<1> QED BY <1>1 DEF C!Next

LEMMA AbortIsClient ==
  ASSUME QInv, NEW s \in Seqs, abort(s)
  PROVE  [C!Next]_(C!vars)
<1>1. UNCHANGED <<token_ids, num_computed_tokens>>
  BY DEF abort
<1>2. Placed(s)
  BY DEF QInv
<1>3. CASE status[s] = "RUNNING" /\ free(s) /\ UNCHANGED cpuVars
  BY <1>1, <1>2, <1>3, FreeIsDropTable DEF Placed
<1>4. CASE /\ cpu_block_table[s] # <<>> /\ free_cpu(s)
           /\ UNCHANGED <<gpuVars, num_registered_blocks>>
  BY <1>1, <1>4, FreeCpuIsDropSwapped
<1>5. CASE UNCHANGED poolVars
  BY <1>1, <1>5, ControlIsNothing
<1> QED BY <1>3, <1>4, <1>5 DEF abort

LEMMA FailIsClient ==
  ASSUME QInv, NEW s \in Seqs, Fail(s)
  PROVE  [C!Next]_(C!vars)
<1>1. UNCHANGED <<token_ids, num_computed_tokens>>
  BY DEF Fail
<1>2. Placed(s)
  BY DEF QInv
<1>3. CASE block_table[s] # <<>>
  <2>1. cpu_block_table[s] = <<>>
    BY <1>2, <1>3 DEF Placed
  <2>2. free(s) /\ UNCHANGED cpuVars
    BY <1>3, <2>1 DEF Fail
  <2> QED BY <1>1, <1>3, <2>2, FreeIsDropTable
<1>4. CASE block_table[s] = <<>> /\ cpu_block_table[s] # <<>>
  BY <1>1, <1>4, FreeCpuIsDropSwapped DEF Fail
<1>5. CASE block_table[s] = <<>> /\ cpu_block_table[s] = <<>>
  BY <1>1, <1>5, ControlIsNothing DEF Fail, poolVars
<1> QED BY <1>3, <1>4, <1>5

LEMMA EvictIsClient ==
  ASSUME QInv, Evict
  PROVE  C!Next
<1>1. pc = "running" /\ i <= Len(running) /\ Preempt(victim)
  BY DEF Evict, OutOfBlocks, Scheduling
<1>2. Types
  BY DEF QInv
<1>3. /\ i \in Nat \ {0} /\ running \in Seq(Seqs) /\ Len(running) \in Nat
      /\ num_computed_tokens \in [Seqs -> Nat]
  BY <1>2 DEF Types
<1>4. Len(running) \in i..Len(running) /\ victim = running[Len(running)]
  BY <1>1, <1>3 DEF victim, Last
<1>5. PICK s \in Seqs : s = victim /\ s \notin Awaiting /\ status[s] = "RUNNING"
  BY <1>1, <1>4, AheadHaveNone
<1>6. Placed(s) /\ Counted(s)
  BY DEF QInv
<1>7. /\ block_table[s] # <<>> /\ Len(block_table[s]) = blocks_for(num_computed_tokens[s])
  BY <1>1, <1>5, <1>6 DEF Placed, Counted
<1>8. UNCHANGED token_ids
  BY <1>1 DEF Preempt
<1>9. CASE SwapMode /\ can_swap_out(s)
  <2>1. swap_out(s) /\ UNCHANGED num_computed_tokens
    BY <1>1, <1>5, <1>9 DEF Preempt
  <2>2. blocks_needed(s, 0) = 0
    <3>1. num_computed_tokens[s] + 0 = num_computed_tokens[s]
      BY <1>3
    <3>2. blocks_for(num_computed_tokens[s]) \in Nat
      BY <1>3, BlocksForCount
    <3> QED BY <1>7, <3>1, <3>2 DEF blocks_needed
  <2>3. C!SwapOut(s)
    BY <1>7, <1>8, <1>9, <2>1, <2>2, SameHost, SameCounts DEF C!SwapOut, C!can_swap_out, can_swap_out
  <2> QED BY <2>3 DEF C!Next
<1>10. CASE ~(SwapMode /\ can_swap_out(s))
  <2>1. /\ free(s) /\ num_computed_tokens' = [num_computed_tokens EXCEPT ![s] = 0]
        /\ UNCHANGED cpuVars
    BY <1>1, <1>5, <1>10 DEF Preempt
  <2> QED BY <1>7, <1>8, <2>1, FreeIsDropTable
<1> QED BY <1>9, <1>10

LEMMA ScheduleRunningIsClient ==
  ASSUME QInv, ScheduleRunning
  PROVE  [C!Next]_(C!vars)
<1>1. /\ pc = "running" /\ i <= Len(running)
      /\ UNCHANGED <<cpuVars, num_registered_blocks, token_ids, num_computed_tokens>>
  BY DEF ScheduleRunning, Scheduling, seqVars
<1>2. Types /\ WalkOK /\ \A t \in Seqs : Placed(t) /\ Counted(t)
  BY DEF QInv
<1>3. /\ i \in Nat \ {0} /\ running \in Seq(Seqs) /\ Len(running) \in Nat
      /\ plan \in [Seqs -> Nat] /\ num_computed_tokens \in [Seqs -> Nat]
  BY <1>2 DEF Types
<1>4. PICK s \in Seqs : s = current /\ s \notin Awaiting /\ status[s] = "RUNNING"
  BY <1>1, <1>3, AheadHaveNone DEF current
<1>5. PICK n \in Nat : n = plan[s] /\ n <= num_uncomputed_tokens(s)
  BY <1>1, <1>2, <1>3, <1>4 DEF WalkOK, current
<1>6. CASE n = 0
  BY <1>1, <1>4, <1>5, <1>6, ControlIsNothing DEF ScheduleRunning, poolVars
<1>7. CASE n # 0
  <2>1. can_append(s, n) /\ append_slots(s, n)
    BY <1>4, <1>5, <1>7 DEF ScheduleRunning
  <2>2. /\ block_table[s] # <<>> /\ Len(block_table[s]) = blocks_for(num_computed_tokens[s])
        /\ num_tokens(s) \in Nat
    BY <1>1, <1>2, <1>4 DEF Placed, Counted, Types, num_tokens
  <2>3. n \in 1..num_uncomputed_tokens(s)
    <3>1. num_uncomputed_tokens(s) \in Int
      BY <1>3, <2>2 DEF num_uncomputed_tokens
    <3> QED BY <1>5, <1>7, <3>1
  <2>4. blocks_needed(s, n) >= 0
    <3>1. num_computed_tokens[s] \in Nat /\ Len(block_table[s]) \in Nat
      BY <1>2, <1>3 DEF Types, IsList
    <3>2. Len(block_table[s]) <= blocks_for(num_computed_tokens[s])
      BY <2>2, <3>1
    <3>3. blocks_for(num_computed_tokens[s] + n) - Len(block_table[s]) \in Nat
      BY <3>1, <3>2, RoomFor
    <3> QED BY <3>3 DEF blocks_needed
  <2>5. C!can_append(s, n) /\ C!append_slots(s, n)
    BY <2>1, SameAcquire, SameCounts DEF C!can_append, can_append, C!append_slots, append_slots
  <2>6. C!Extend(s)
    BY <1>1, <2>2, <2>3, <2>4, <2>5, SameCounts DEF C!Extend, C!cpuVars, cpuVars
  <2> QED BY <2>6 DEF C!Next
<1> QED BY <1>6, <1>7

\* What fits above the watermark fits.
LEMMA AvailableIsMore ==
  ASSUME C!IInv, NEW use_watermark \in BOOLEAN
  PROVE  /\ Available(FALSE) \in Nat /\ Available(use_watermark) \in Int
         /\ Available(use_watermark) <= Available(FALSE)
         /\ Available(FALSE) = num_free_blocks
<1>1. free_blocks \in Seq(C!Blocks) /\ evictable \in Seq(C!Blocks)
  BY DEF C!IInv, C!ListInv, C!TypeOK, C!BlockManagerTypeOK
<1>2. num_free_blocks \in Nat
  BY <1>1 DEF num_free_blocks
<1>3. WatermarkBlocks \in Nat
  BY PoolAssumption
<1> QED BY <1>2, <1>3 DEF Available

LEMMA SwapInIsClient ==
  ASSUME QInv, C!IInv, SwapIn
  PROVE  Head(swapped) \in Seqs /\ C!SwapIn(Head(swapped))
<1>1. /\ swapped # <<>> /\ swap_in_tokens > 0 /\ SwapInFits
      /\ swap_in(Head(swapped), swap_in_tokens)
      /\ UNCHANGED <<token_ids, num_computed_tokens>>
  BY DEF SwapIn, SwappingIn
<1>2. Types /\ \A t \in Seqs : Placed(t) /\ Counted(t)
  BY DEF QInv
<1>3. /\ swapped \in Seq(Seqs) /\ IsInjective(swapped)
      /\ num_computed_tokens \in [Seqs -> Nat] /\ budget \in Int
  BY <1>2 DEF Types
<1>4. PICK s \in Seqs : s = Head(swapped) /\ s \in Range(swapped)
  BY <1>1, <1>3, TailFacts
<1>5. /\ block_table[s] = <<>> /\ cpu_block_table[s] # <<>> /\ num_computed_tokens[s] < num_tokens(s)
      /\ num_tokens(s) \in Nat
  BY <1>2, <1>4 DEF Placed, Counted, Live, Types, num_tokens
<1>6. PICK n \in 1..num_uncomputed_tokens(s) : n = swap_in_tokens
  <2> DEFINE u == num_uncomputed_tokens(s)
  <2>1. u \in Nat
    BY <1>3, <1>5 DEF num_uncomputed_tokens
  <2>2. swap_in_tokens = IF Chunked THEN Min({u, budget}) ELSE u
    BY <1>4 DEF swap_in_tokens
  <2> HIDE DEF u
  <2>3. Min({u, budget}) = IF u <= budget THEN u ELSE budget
    <3>1. u \in Int /\ budget \in Int
      BY <1>3, <2>1
    <3> QED BY <3>1, MinOfTwo
  <2>4. swap_in_tokens \in 1..u
    BY <1>1, <1>3, <2>1, <2>2, <2>3
  <2> QED BY <2>4 DEF u
<1>7. swap_in(s, n) /\ can_swap_in(s, n, running # <<>>)
  BY <1>1, <1>4, <1>6 DEF SwapInFits
<1>8. can_swap_in(s, n, FALSE)
  <2>1. num_uncomputed_tokens(s) \in Int
    BY <1>3, <1>5 DEF num_uncomputed_tokens
  <2>2. num_computed_tokens[s] + n \in Nat
    BY <1>3, <2>1
  <2>3. blocks_for(num_computed_tokens[s] + n) \in Nat
    BY <2>2, BlocksForCount
  <2>4. (running # <<>>) \in BOOLEAN
    OBVIOUS
  <2>5. PICK some, all \in Int : /\ some = Available(running # <<>>) /\ all = Available(FALSE)
                                 /\ some <= all
    BY <2>4, AvailableIsMore
  <2>6. blocks_for(num_computed_tokens[s] + n) <= some
    BY <1>7, <2>5 DEF can_swap_in
  <2>7. some <= all
    BY <2>5
  <2>8. blocks_for(num_computed_tokens[s] + n) <= all
    BY <2>3, <2>6, <2>7
  <2> QED BY <2>5, <2>8 DEF can_swap_in
<1>9. C!can_swap_in(s, n, FALSE)
  BY <1>8, SameCounts DEF C!can_swap_in, can_swap_in, C!Available, Available
<1>10. C!SwapIn(s)
  BY <1>1, <1>5, <1>7, <1>9, SameHost, SameCounts DEF C!SwapIn
<1> QED BY <1>4, <1>10

LEMMA AdmitIsClient ==
  ASSUME QInv, ArrivalsOK, C!IInv, Admit
  PROVE  C!Next
<1>1. /\ pc = "admit" /\ budget > 0 /\ (preempted # <<>> \/ waiting # {}) /\ AdmitFits
      /\ UNCHANGED <<token_ids, cpuVars>>
  BY DEF Admit, Admitting
<1>2. Types /\ \A t \in Seqs : Placed(t) /\ Counted(t)
  BY DEF QInv
<1>3. num_computed_tokens \in [Seqs -> Nat] /\ budget \in Int
  BY <1>2 DEF Types
<1>4. PICK s \in Seqs :
        /\ s = candidate /\ status[s] \in {"WAITING", "PREEMPTED"}
        /\ block_table[s] = <<>> /\ cpu_block_table[s] = <<>>
  BY <1>1, CandidatePopped
<1>5. num_tokens(s) \in Nat \ {0}
  <2>1. num_computed_tokens[s] < num_tokens(s) /\ num_tokens(s) \in Nat
    BY <1>2, <1>4 DEF Counted, Live, Types, num_tokens
  <2> QED BY <1>3, <2>1
<1> DEFINE cached == cached_prefix(s)
<1>6. PICK m \in Nat :
        /\ Len(cached) = m /\ m * BlockSize \in Nat /\ m * BlockSize < num_tokens(s)
        /\ IsFiniteSet(Range(cached))
  <2>1. PICK m \in Nat : /\ cached = [j \in 1..m |-> hash_to_block[Hash(s, j)]]
                         /\ m * BlockSize < num_tokens(s)
    BY <1>5, CachedPrefix
  <2> HIDE DEF cached
  <2>2. Len(cached) = m /\ DOMAIN cached = 1..m
    BY <2>1
  <2>3. m * BlockSize \in Nat
    BY PoolAssumption, SMT
  <2>4. IsFiniteSet(DOMAIN cached)
    <3>1. m \in Int /\ 1 \in Int
      OBVIOUS
    <3>2. IsFiniteSet(1..m)
      BY <3>1, FS_Interval
    <3> QED BY <2>2, <3>2
  <2>5. cached \in Surjection(DOMAIN cached, Range(cached))
    BY <2>1 DEF Surjection, Range
  <2>6. IsFiniteSet(Range(cached))
    BY <2>4, <2>5, FS_Surjection
  <2> QED BY <2>1, <2>2, <2>3, <2>6
<1>7. PICK n \in 1 .. num_tokens(s) - Len(cached) * BlockSize : n = admit_tokens(cached)
  <2> DEFINE u == num_tokens(s) - m * BlockSize
  <2>1. u \in Nat \ {0}
    BY <1>5, <1>6
  <2>2. admit_tokens(cached) = IF Chunked THEN Min({u, budget}) ELSE u
    BY <1>4, <1>6 DEF admit_tokens
  <2> HIDE DEF u
  <2>3. Min({u, budget}) = IF u <= budget THEN u ELSE budget
    <3>1. u \in Int /\ budget \in Int
      BY <1>3, <2>1
    <3> QED BY <3>1, MinOfTwo
  <2>4. admit_tokens(cached) \in 1..u
    BY <1>1, <1>3, <2>1, <2>2, <2>3
  <2> QED BY <1>6, <2>4 DEF u
<1> HIDE DEF cached
<1>8. allocate(s, n, cached) /\ can_allocate(s, n, cached, running # <<>>)
  BY <1>1, <1>4, <1>7 DEF Admit, AdmitFits, cached
<1>9. can_allocate(s, n, cached, FALSE)
  <2> DEFINE pinned == Cardinality({b \in Range(cached) : ref_counts[b] = 0})
             needed == blocks_for(Len(cached) * BlockSize + n) - Len(cached)
  <2>1. pinned \in Nat
    BY <1>6, FS_Subset, FS_CardinalityType
  <2>2. needed \in Int
    <3>1. m * BlockSize + n \in Nat
      BY <1>5, <1>6
    <3>2. blocks_for(m * BlockSize + n) \in Nat
      BY <3>1, BlocksForCount
    <3> QED BY <1>6, <3>2
  <2>3. (running # <<>>) \in BOOLEAN
    OBVIOUS
  <2>4. PICK some, all \in Int : /\ some = Available(running # <<>>) /\ all = Available(FALSE)
                                 /\ some <= all
    BY <2>3, AvailableIsMore
  <2>5. needed <= some - pinned
    BY <1>8, <2>4 DEF can_allocate
  <2> HIDE DEF pinned, needed
  <2>6. some <= all
    BY <2>4
  <2>7. needed <= all - pinned
    BY <2>1, <2>2, <2>5, <2>6
  <2> QED BY <2>4, <2>7 DEF can_allocate, pinned, needed
<1>10. C!Start(s)
  <2>1. C!cached_prefix(s) = cached
    BY SamePrefix DEF cached
  <2>2. C!allocate(s, n, cached) /\ C!can_allocate(s, n, cached, FALSE)
    BY <1>8, <1>9, SamePrefix
  <2> QED BY <1>1, <1>4, <1>7, <2>1, <2>2, SameCounts DEF C!Start, C!cpuVars, cpuVars
<1> QED BY <1>10 DEF C!Next

LEMMA UpdateIsClient ==
  ASSUME QInv, Update
  PROVE  C!Next
<1>1. Types /\ BatchOK /\ \A t \in Seqs : Placed(t) /\ Counted(t)
  BY DEF QInv
<1>2. pc = "update" /\ i \in DOMAIN batch.seqs /\ i \in Pending /\ i \in Nat
  <2>1. i \in Nat
    BY <1>1, UpdateEntry
  <2> QED BY <1>1, <2>1, UpdateEntry
<1>3. PICK s \in Seqs, n \in Nat \ {0} : s = batch.seqs[i].seq /\ n = batch.seqs[i].n
  BY <1>1, <1>2, EntryType
<1>4. Schedulable(batch.seqs[i])
  BY <1>1, <1>2 DEF BatchOK
<1>5. /\ status[s] = "RUNNING"
      /\ Len(block_table[s]) = blocks_for(num_computed_tokens[s] + n)
      /\ num_computed_tokens[s] + n <= num_tokens(s)
      /\ batch.seqs[i].sample <=> num_computed_tokens[s] + n = num_tokens(s)
  BY <1>3, <1>4 DEF Schedulable
<1>6. num_computed_tokens[s] \in Nat /\ num_tokens(s) \in Nat
  BY <1>1 DEF Types, num_tokens
<1>7. num_tokens(s) < MaxModelLen
  <2>1. num_tokens(s) < Len(Prompt[s]) + MaxTokens[s]
    BY <1>1, <1>5 DEF Counted, Live
  <2>2. /\ Len(Prompt[s]) \in Nat /\ MaxTokens[s] \in Nat /\ MaxModelLen \in Nat
        /\ Len(Prompt[s]) + MaxTokens[s] <= MaxModelLen
    BY ConfigAssumption
  <2> QED BY <1>6, <2>1, <2>2
<1>8. n \in 1..num_uncomputed_tokens(s)
  BY <1>5, <1>6 DEF num_uncomputed_tokens
<1> DEFINE computed == num_computed_tokens[s] + n
<1>9. blocks_for(computed) <= Len(block_table[s])
  <2>1. computed \in Nat
    BY <1>6
  <2>2. blocks_for(computed) \in Nat
    BY <2>1, BlocksForCount
  <2> QED BY <1>5, <2>2
<1>10. /\ num_computed_tokens' = [num_computed_tokens EXCEPT ![s] = computed]
       /\ cache_full_blocks(s, computed)
       /\ UNCHANGED cpuVars
  BY <1>3 DEF Update
<1>11. \/ /\ ~batch.seqs[i].sample
          /\ num_registered_blocks' = [num_registered_blocks EXCEPT ![s] = Registered(s, computed)]
          /\ UNCHANGED <<free_blocks, evictable, ref_counts, block_table, token_ids>>
       \/ /\ batch.seqs[i].sample
          /\ \E t \in Tokens : token_ids' = [token_ids EXCEPT ![s] = Append(@, t)]
          /\ \/ /\ num_registered_blocks' = [num_registered_blocks EXCEPT ![s] = Registered(s, computed)]
                /\ UNCHANGED <<free_blocks, evictable, ref_counts, block_table>>
             \/ Release(s) /\ Unregister(s)
  BY <1>3 DEF Update
<1> HIDE DEF computed
<1>12. batch.seqs[i].sample <=> computed = num_tokens(s)
  BY <1>5 DEF computed
<1>13. C!Sample(s) <=> \E t \in Tokens : token_ids' = [token_ids EXCEPT ![s] = Append(@, t)]
  BY <1>7, SameCounts DEF C!Sample
<1> DEFINE Choice ==
             \/ /\ num_registered_blocks' = [num_registered_blocks EXCEPT ![s] = C!Registered(s, computed)]
                /\ UNCHANGED <<free_blocks, evictable, ref_counts, block_table>>
             \/ /\ computed = C!num_tokens(s)
                /\ C!Release(s) /\ C!Unregister(s)
<1>14. /\ IF computed = C!num_tokens(s) THEN C!Sample(s) ELSE UNCHANGED token_ids
       /\ Choice
  BY <1>11, <1>12, <1>13, SameCounts, SamePublish, SameFree
<1>15. /\ C!blocks_for(computed) <= Len(block_table[s])
       /\ C!cache_full_blocks(s, computed) /\ UNCHANGED C!cpuVars
       /\ n \in 1..C!num_uncomputed_tokens(s)
  BY <1>8, <1>9, <1>10, SameCounts, SamePublish DEF C!cpuVars, cpuVars
<1>16. C!Update(s)
  BY <1>10, <1>14, <1>15 DEF C!Update, computed
<1> QED BY <1>16 DEF C!Next

\* Every step of the scheduler is a call that the contract allows, or none.
LEMMA NextIsClient ==
  ASSUME "update" \notin FailPoints, IInv, C!IInv, [Next]_vars
  PROVE  [C!Next]_(C!vars)
<1>1. QInv /\ ArrivalsOK
  BY DEF IInv
<1>2. CASE UNCHANGED <<poolVars, token_ids, num_computed_tokens>>
  BY <1>2, ControlIsNothing
<1>3. CASE BeginStep \/ EndRunning \/ EndSwapIn \/ EndAdmit
  BY <1>2, <1>3 DEF BeginStep, EndRunning, EndSwapIn, EndAdmit, seqVars
<1>4. CASE EmptyStep \/ Execute \/ ExecuteFails \/ EndFailAll
  BY <1>2, <1>4 DEF EmptyStep, Execute, ExecuteFails, EndFailAll, seqVars
<1>5. ASSUME NEW s \in Seqs, add(s) PROVE [C!Next]_(C!vars)
  BY <1>2, <1>5 DEF add
<1>6. ASSUME NEW s \in Seqs, AbortRequest(s) \/ FailOne(s) PROVE [C!Next]_(C!vars)
  BY <1>1, <1>6, AbortIsClient DEF AbortRequest, FailOne
<1>7. CASE ScheduleRunning
  BY <1>1, <1>7, ScheduleRunningIsClient
<1>8. CASE Evict
  BY <1>1, <1>8, EvictIsClient
<1>9. CASE FailAlone
  <2>1. /\ pc = "running" /\ i <= Len(running) /\ Fail(current)
    BY <1>9 DEF FailAlone, OutOfBlocks, Scheduling
  <2>2. i \in Nat \ {0} /\ Len(running) \in Nat
    BY <1>1 DEF QInv, Types
  <2>3. i \in i..Len(running)
    BY <2>1, <2>2
  <2>4. current \in Seqs
    BY <1>1, <2>1, <2>3, AheadHaveNone DEF current
  <2> QED BY <1>1, <2>1, <2>4, FailIsClient
<1>10. CASE SwapIn
  BY <1>1, <1>10, SwapInIsClient DEF C!Next
<1>11. CASE FailSwapIn
  <2>1. swapped # <<>> /\ Fail(Head(swapped))
    BY <1>11 DEF FailSwapIn, SwappingIn
  <2>2. swapped \in Seq(Seqs)
    BY <1>1 DEF QInv, Types
  <2>3. Head(swapped) \in Seqs
    BY <2>1, <2>2
  <2> QED BY <1>1, <2>1, <2>3, FailIsClient
<1>12. CASE Admit
  BY <1>1, <1>12, AdmitIsClient
<1>13. CASE FailAdmit
  <2>1. pc = "admit" /\ (preempted # <<>> \/ waiting # {}) /\ Fail(candidate)
    BY <1>13 DEF FailAdmit, Admitting
  <2>2. candidate \in Seqs
    BY <1>1, <2>1, CandidatePopped
  <2> QED BY <1>1, <2>1, <2>2, FailIsClient
<1>14. CASE Update
  BY <1>1, <1>14, UpdateIsClient
<1>15. CASE UpdateFails
  BY <1>15 DEF UpdateFails
<1>16. CASE UNCHANGED vars
  BY <1>2, <1>16 DEF vars, seqVars
<1> QED
  BY <1>3, <1>4, <1>5, <1>6, <1>7, <1>8, <1>9, <1>10, <1>11, <1>12, <1>13, <1>14, <1>15, <1>16
     DEF Next, Step, Bookkeep, Request

LEMMA InitIsClient == Init => C!Init
<1> SUFFICES ASSUME Init PROVE C!Init
  OBVIOUS
<1>1. C!BlockManagerInit
  BY SameCounts DEF Init, BlockManagerInit, C!BlockManagerInit
<1>2. token_ids \in [Seqs -> Range(Prompt)]
  BY ConfigAssumption DEF Init, Range
<1> QED BY <1>1, <1>2 DEF C!Init

\* The scheduler keeps the contract of the block manager's methods: it asks
\* before it takes, starts and swaps in only sequences without a table, and
\* computes only tokens that have slots.
THEOREM ContractIsKept ==
  ASSUME "update" \notin FailPoints
  PROVE  Spec => C!Spec /\ [](IInv /\ C!IInv)
<1>1. Init => IInv /\ C!Init /\ C!IInv
  BY InitInv, InitIsClient, ClientSteps
<1>2. IInv /\ C!IInv /\ [Next]_vars => [C!Next]_(C!vars) /\ IInv' /\ C!IInv'
  BY NextInv, NextIsClient, ClientSteps
<1> QED BY <1>1, <1>2, PTL DEF Spec, C!Spec

\* What the block manager promises the scheduler.
LEMMA PoolServes ==
  ASSUME C!IInv
  PROVE  /\ BlockManagerTypeOK
         /\ num_free_blocks \in Nat
         /\ num_free_blocks + Cardinality({b \in Blocks : ref_counts[b] > 0}) = NumBlocks
         /\ IsInjective(cpu_free)
         /\ \A s \in Seqs : \A j \in DOMAIN block_table[s] :
              block_hash[block_table[s][j]] # None => j * BlockSize <= num_computed_tokens[s]
         /\ \A b \in Blocks :
              /\ ref_counts[b] = Cardinality({s \in Seqs : b \in Range(block_table[s])})
              /\ ref_counts[b] > 0 <=> \E s \in Seqs : b \in Range(block_table[s])
         /\ \A s, t \in Seqs : \A b \in Range(block_table[s]) \cap Range(block_table[t]) :
              s # t => block_hash[b] # None
         /\ \A s \in Seqs : IsInjective(block_table[s]) /\ IsInjective(cpu_block_table[s])
         /\ \A c \in CpuBlocks : c \in Range(cpu_free) <=> \A s \in Seqs : c \notin Range(cpu_block_table[s])
         /\ \A s, t \in Seqs : \A c \in Range(cpu_block_table[s]) \cap Range(cpu_block_table[t]) : s = t
<1>1. /\ C!BlockManagerTypeOK /\ C!NoLeak /\ C!PublishedIsComputed
      /\ \A b \in Blocks :
           /\ ref_counts[b] = Cardinality({s \in Seqs : b \in Range(block_table[s])})
           /\ ref_counts[b] > 0 <=> \E s \in Seqs : b \in Range(block_table[s])
      /\ \A s, t \in Seqs : \A b \in Range(block_table[s]) \cap Range(block_table[t]) :
           s # t => block_hash[b] # None
      /\ \A s \in Seqs : C!IsInjective(cpu_block_table[s])
      /\ \A c \in CpuBlocks : c \in Range(cpu_free) <=> \A s \in Seqs : c \notin Range(cpu_block_table[s])
      /\ \A s, t \in Seqs : \A c \in Range(cpu_block_table[s]) \cap Range(cpu_block_table[t]) : s = t
  BY ClientAssumptionsHold, PoolAssumption, SameLibrary, SameCounts, C!PoolPromises, ZenonT(30)
<1>2. \A f : C!IsInjective(f) <=> IsInjective(f)
  BY DEF C!IsInjective, IsInjective
<1>3. BlockManagerTypeOK
  BY <1>1, SameLibrary, SameCounts DEF C!BlockManagerTypeOK, BlockManagerTypeOK
<1>4. /\ num_free_blocks + Cardinality({b \in Blocks : ref_counts[b] > 0}) = NumBlocks
      /\ IsInjective(cpu_free)
  BY <1>1, <1>2, SameLibrary, SameCounts DEF C!NoLeak
<1>5. \A s \in Seqs : \A j \in DOMAIN block_table[s] :
        block_hash[block_table[s][j]] # None => j * BlockSize <= num_computed_tokens[s]
  BY <1>1 DEF C!PublishedIsComputed
<1>6. \A s \in Seqs : IsInjective(block_table[s])
  BY <1>2, ClientAssumptionsHold, PoolAssumption, C!PoolFacts
<1>7. num_free_blocks \in Nat
  BY <1>3 DEF BlockManagerTypeOK, num_free_blocks
<1> QED BY <1>1, <1>2, <1>3, <1>4, <1>5, <1>6, <1>7

LEMMA WritesArePrivateInv == IInv /\ C!IInv => WritesArePrivate
<1> SUFFICES ASSUME IInv, C!IInv, pc = "execute", NEW k \in DOMAIN batch.seqs,
                    NEW p \in num_computed_tokens[batch.seqs[k].seq] ..
                                num_computed_tokens[batch.seqs[k].seq] + batch.seqs[k].n - 1
             PROVE  LET b == block_table[batch.seqs[k].seq][p \div BlockSize + 1] IN
                    ref_counts[b] = 1 /\ block_hash[b] = None
  BY DEF WritesArePrivate
<1>1. Types /\ BatchOK
  BY DEF IInv, QInv
<1>2. PICK s \in Seqs, n \in Nat \ {0} : s = batch.seqs[k].seq /\ n = batch.seqs[k].n
  BY <1>1, EntryType
<1>3. Schedulable(batch.seqs[k])
  BY <1>1 DEF BatchOK, Pending
<1>4. PICK c \in Nat : c = num_computed_tokens[s]
  BY <1>1 DEF Types
<1>5. Len(block_table[s]) = blocks_for(c + n)
  BY <1>2, <1>3, <1>4 DEF Schedulable
<1>6. p \in Nat /\ c <= p /\ p < c + n /\ c + n \in Nat
  BY <1>2, <1>4
<1>7. PICK q \in Nat : q = p \div BlockSize
  BY <1>6, PoolAssumption, Division
<1>8. BlockSize \in Nat \ {0} /\ q * BlockSize \in Nat /\ (q + 1) * BlockSize = q * BlockSize + BlockSize
  BY PoolAssumption, SMT
<1>9. q * BlockSize <= p /\ p < (q + 1) * BlockSize
  <2>1. q <= p \div BlockSize <=> q * BlockSize <= p
    BY <1>6, <1>8, Quotient
  <2>2. p < (q + 1) * BlockSize <=> p \div BlockSize < q + 1
    <3>1. q + 1 \in Nat
      OBVIOUS
    <3> QED BY <1>6, <1>8, <3>1, Quotient
  <2> QED BY <1>7, <2>1, <2>2
<1>10. blocks_for(c + n) \in Nat /\ q + 1 <= blocks_for(c + n)
  <2>1. blocks_for(c + n) \in Nat /\ (c + n <= q * BlockSize <=> blocks_for(c + n) <= q)
    BY <1>6, <1>8, BlocksFor
  <2>2. ~(c + n <= q * BlockSize)
    BY <1>6, <1>8, <1>9
  <2> QED BY <2>1, <2>2
<1>11. block_table[s] \in Seq(Blocks) /\ q + 1 \in DOMAIN block_table[s]
  <2>1. block_table[s] \in Seq(Blocks)
    BY PoolServes DEF BlockManagerTypeOK
  <2> QED BY <1>5, <1>10, <2>1
<1>12. PICK b \in Blocks : b = block_table[s][q + 1] /\ b \in Range(block_table[s])
  BY <1>11 DEF Range
<1>13. block_hash[b] = None
  <2> SUFFICES ASSUME block_hash[b] # None PROVE FALSE
    OBVIOUS
  <2>1. (q + 1) * BlockSize <= c
    BY <1>4, <1>11, <1>12, PoolServes
  <2> QED BY <1>6, <1>8, <1>9, <2>1
<1>14. {t \in Seqs : b \in Range(block_table[t])} = {s}
  BY <1>12, <1>13, PoolServes
<1>15. ref_counts[b] = 1
  <2>1. ref_counts[b] = Cardinality({s})
    BY <1>14, PoolServes
  <2> QED BY <2>1, FS_Singleton
<1> QED BY <1>2, <1>7, <1>12, <1>13, <1>15

\* The runner writes K/V only into blocks that no other sequence reads and that
\* the prefix cache does not offer, whatever was cached, preempted or swapped.
THEOREM WritesAreAlwaysPrivate ==
  ASSUME "update" \notin FailPoints
  PROVE  Spec => []WritesArePrivate
BY WritesArePrivateInv, ContractIsKept, PTL

\* The host blocks that are not free are in the tables of swapped sequences.
LEMMA HostAccounts ==
  ASSUME C!IInv
  PROVE  Len(cpu_free) + Total([s \in Seqs |-> Len(cpu_block_table[s])]) = NumCpuBlocks
<1> DEFINE f == [s \in Seqs |-> Len(cpu_block_table[s])]
           slots == UNION {{x} \X (1..f[x]) : x \in Seqs}
           used == CpuBlocks \ Range(cpu_free)
           block == [p \in slots |-> cpu_block_table[p[1]][p[2]]]
<1>1. cpu_free \in Seq(CpuBlocks) /\ IsInjective(cpu_free)
  BY PoolServes DEF BlockManagerTypeOK
<1>2. \A s \in Seqs : cpu_block_table[s] \in Seq(CpuBlocks) /\ IsInjective(cpu_block_table[s])
  BY PoolServes DEF BlockManagerTypeOK
<1>3. IsFiniteSet(CpuBlocks) /\ Cardinality(CpuBlocks) = NumCpuBlocks /\ NumCpuBlocks \in Nat
  BY PoolAssumption, FS_Interval DEF CpuBlocks
<1>4. \A p \in slots : p[1] \in Seqs /\ p[2] \in DOMAIN cpu_block_table[p[1]] /\ p = <<p[1], p[2]>>
  BY <1>2
<1>5. \A s \in Seqs : \A j \in DOMAIN cpu_block_table[s] : <<s, j>> \in slots
  BY <1>2
<1> HIDE DEF slots
<1>6. block \in [slots -> used]
  <2> SUFFICES ASSUME NEW p \in slots PROVE cpu_block_table[p[1]][p[2]] \in used
    OBVIOUS
  <2>1. cpu_block_table[p[1]][p[2]] \in CpuBlocks
    BY <1>2, <1>4
  <2>2. cpu_block_table[p[1]][p[2]] \in Range(cpu_block_table[p[1]])
    BY <1>4 DEF Range
  <2>3. cpu_block_table[p[1]][p[2]] \notin Range(cpu_free)
    BY <1>4, <2>1, <2>2, PoolServes
  <2> QED BY <2>1, <2>3
<1>7. ASSUME NEW p \in slots, NEW q \in slots, block[p] = block[q]
      PROVE  p = q
  <2>1. /\ cpu_block_table[p[1]][p[2]] \in Range(cpu_block_table[p[1]])
        /\ cpu_block_table[q[1]][q[2]] \in Range(cpu_block_table[q[1]])
    BY <1>4 DEF Range
  <2>2. cpu_block_table[p[1]][p[2]] = cpu_block_table[q[1]][q[2]]
    BY <1>7
  <2>3. p[1] = q[1]
    BY <1>4, <2>1, <2>2, PoolServes
  <2>4. p[2] = q[2]
    BY <1>2, <1>4, <2>2, <2>3 DEF IsInjective
  <2> QED BY <1>4, <2>3, <2>4
<1>8. ASSUME NEW c \in used
      PROVE  \E p \in slots : block[p] = c
  <2>1. PICK s \in Seqs : c \in Range(cpu_block_table[s])
    BY PoolServes
  <2>2. PICK j \in DOMAIN cpu_block_table[s] : c = cpu_block_table[s][j]
    BY <2>1 DEF Range
  <2>3. <<s, j>> \in slots /\ block[<<s, j>>] = c
    BY <1>5, <2>2
  <2> QED BY <2>3
<1>9. block \in Bijection(slots, used)
  <2> HIDE DEF block, used
  <2>1. DOMAIN block = slots
    BY <1>6
  <2> QED BY <1>6, <1>7, <1>8, <2>1 DEF Bijection, Injection, Surjection, IsInjective
<1> HIDE DEF block
<1>10. ExistsBijection(slots, used)
  BY <1>9 DEF ExistsBijection
<1>11. IsFiniteSet(used)
  BY <1>3, FS_Subset
<1>12. Cardinality(slots) = Cardinality(used)
  <2>1. ExistsBijection(used, slots)
    BY <1>10, Fun_ExistsBijSymmetric
  <2> QED BY <1>11, <2>1, FS_Bijection
<1>13. /\ Range(cpu_free) \subseteq CpuBlocks /\ Len(cpu_free) = Cardinality(Range(cpu_free))
  BY <1>1, ListLength
<1>14. Cardinality(used) = NumCpuBlocks - Len(cpu_free)
  <2>1. CpuBlocks \cap Range(cpu_free) = Range(cpu_free)
    BY <1>13
  <2>2. IsFiniteSet(Range(cpu_free))
    BY <1>3, <1>13, FS_Subset
  <2>3. Cardinality(used) = Cardinality(CpuBlocks) - Cardinality(CpuBlocks \cap Range(cpu_free))
    BY <1>3, <2>2, FS_Difference
  <2> QED BY <1>3, <1>13, <2>1, <2>3
<1>15. Total(f) = Cardinality(slots)
  BY DEF Total, slots
<1>16. Len(cpu_free) \in Nat
  BY <1>1
<1> QED BY <1>3, <1>12, <1>14, <1>15, <1>16

LEMMA BlocksAccountedInv == IInv /\ C!IInv => BlocksAccounted
<1> SUFFICES ASSUME IInv, C!IInv, pc = "idle"
             PROVE  /\ \A s \in Range(running) : Len(block_table[s]) = blocks_for(num_computed_tokens[s])
                    /\ \A s \in Range(swapped) : Len(cpu_block_table[s]) = blocks_for(num_computed_tokens[s])
                    /\ num_free_blocks + Cardinality(UNION {Range(block_table[s]) : s \in Seqs}) = NumBlocks
                    /\ Len(cpu_free) + Total([s \in Seqs |-> Len(cpu_block_table[s])]) = NumCpuBlocks
  BY DEF BlocksAccounted
<1>1. Types /\ BatchOK /\ \A s \in Seqs : Placed(s) /\ Counted(s)
  BY DEF IInv, QInv
<1>2. Range(running) \subseteq Seqs /\ Range(swapped) \subseteq Seqs
  BY <1>1 DEF Types, Range
<1>3. Awaiting = {}
  BY <1>1 DEF BatchOK, Awaiting, Pending
<1>4. \A s \in Range(running) : Len(block_table[s]) = blocks_for(num_computed_tokens[s])
  BY <1>1, <1>2, <1>3 DEF Placed, Counted
<1>5. \A s \in Range(swapped) : Len(cpu_block_table[s]) = blocks_for(num_computed_tokens[s])
  BY <1>1, <1>2 DEF Counted
<1>6. UNION {Range(block_table[s]) : s \in Seqs} = {b \in Blocks : ref_counts[b] > 0}
  <2>1. \A s \in Seqs : Range(block_table[s]) \subseteq Blocks
    BY PoolServes DEF BlockManagerTypeOK, Range
  <2> QED BY <2>1, PoolServes, ZenonT(30)
<1> QED BY <1>4, <1>5, <1>6, HostAccounts, PoolServes

\* Between steps no block is lost and none is held beyond need, on either side
\* of the bus, after any series of failures, aborts and preemptions.
THEOREM BlocksAreAccounted ==
  ASSUME "update" \notin FailPoints
  PROVE  Spec => []BlocksAccounted
BY BlocksAccountedInv, ContractIsKept, PTL

-----------------------------------------------------------------------------
\* Who fails.

\* Requests that failed are gone, and the pool could not hold their tokens.
ErrorsOK == \A s \in Seqs :
  finish_reason[s] = "error" => status[s] = "FINISHED" /\ blocks_for(num_tokens(s)) > NumBlocks

\* The end of a request is final, and so are its tokens then.
LEMMA ErrorIsFinal ==
  ASSUME QInv, [Promise!Next]_Promise!lifecycleVars, NEW t \in Seqs, finish_reason'[t] = "error",
         finish_reason[t] = "error" => status[t] = "FINISHED"
  PROVE  status'[t] = "FINISHED" /\ num_tokens(t)' = num_tokens(t)
<1>1. /\ status \in [Seqs -> {"NEW", "WAITING", "RUNNING", "PREEMPTED", "FINISHED", "ABORTED"}]
      /\ finish_reason \in [Seqs -> {None, "stop", "length", "error"}]
  BY DEF QInv, Types
<1>2. token_counts[t] = num_tokens(t) /\ token_counts'[t] = num_tokens(t)'
  BY DEF token_counts
<1>3. CASE UNCHANGED Promise!lifecycleVars
  BY <1>2, <1>3 DEF Promise!lifecycleVars, token_counts
<1>4. CASE Promise!Next
  <2>1. PICK s \in Seqs : \/ Promise!Arrive(s) \/ Promise!Start(s) \/ Promise!Suspend(s) \/ Promise!Prefill(s)
                          \/ Promise!Sample(s) \/ Promise!Fail(s) \/ Promise!Abort(s)
    BY <1>4 DEF Promise!Next
  <2>2. token_counts \in [Seqs -> Nat]
    BY StatusIsFunction DEF token_counts, num_tokens
  <2>3. CASE Promise!Arrive(s)
    BY <1>1, <1>2, <2>3 DEF Promise!Arrive, Promise!Become, token_counts
  <2>4. CASE Promise!Start(s)
    BY <1>1, <1>2, <2>4 DEF Promise!Start, Promise!Become, token_counts
  <2>5. CASE Promise!Suspend(s)
    BY <1>1, <1>2, <2>5 DEF Promise!Suspend, Promise!Become, token_counts
  <2>6. CASE Promise!Prefill(s)
    BY <1>1, <1>2, <2>6 DEF Promise!Prefill, Promise!Become, token_counts
  <2>7. CASE Promise!Sample(s)
    <3>1. status[s] = "RUNNING" /\ token_counts' = [token_counts EXCEPT ![s] = @ + 1]
      BY <2>7 DEF Promise!Sample, token_counts
    <3>2. \/ UNCHANGED <<status, finish_reason>>
          \/ /\ status' = [status EXCEPT ![s] = "FINISHED"]
             /\ \E reason \in {"stop", "length"} : finish_reason' = [finish_reason EXCEPT ![s] = reason]
      BY <2>7 DEF Promise!Sample, Promise!Become
    <3>3. t # s
      BY <1>1, <3>1, <3>2
    <3> QED BY <1>1, <1>2, <2>2, <3>1, <3>2, <3>3
  <2>8. CASE Promise!Fail(s)
    BY <1>1, <1>2, <2>8 DEF Promise!Fail, Promise!Become, Promise!Live, token_counts
  <2>9. CASE Promise!Abort(s)
    BY <1>1, <1>2, <2>9 DEF Promise!Abort, Promise!Become, Promise!Live, token_counts
  <2> QED BY <2>1, <2>3, <2>4, <2>5, <2>6, <2>7, <2>8, <2>9
<1> QED BY <1>3, <1>4

\* A sequence that runs alone, or comes back to an empty GPU, may have the
\* whole pool.
LEMMA AloneHoldsTheRest ==
  ASSUME IInv, C!IInv, NEW s \in Seqs, Range(running) \subseteq {s}
  PROVE  Len(block_table[s]) \in Nat /\ num_free_blocks + Len(block_table[s]) = NumBlocks
<1>1. \A t \in Seqs \ {s} : block_table[t] = <<>>
  BY DEF IInv, QInv, Placed
<1>2. block_table[s] \in Seq(Blocks) /\ IsInjective(block_table[s])
  BY PoolServes DEF BlockManagerTypeOK
<1>3. Len(block_table[s]) = Cardinality(Range(block_table[s])) /\ Range(block_table[s]) \subseteq Blocks
  BY <1>2, ListLength
<1>4. {b \in Blocks : ref_counts[b] > 0} = Range(block_table[s])
  <2>1. \A t \in Seqs \ {s} : Range(block_table[t]) = {}
    BY <1>1 DEF Range
  <2> QED BY <1>3, <2>1, PoolServes
<1>5. Len(block_table[s]) \in Nat
  BY <1>2
<1> QED BY <1>3, <1>4, <1>5, PoolServes

\* Tokens that do not fit by themselves leave no room for more.
LEMMA TooLarge ==
  ASSUME NEW m \in Nat, NEW n \in Nat, m <= n, blocks_for(m) > NumBlocks
  PROVE  blocks_for(n) > NumBlocks
<1>1. BlockSize \in Nat \ {0} /\ NumBlocks \in Nat
  BY PoolAssumption
<1>2. blocks_for(m) \in Nat /\ blocks_for(n) \in Nat
  BY BlocksForCount
<1>3. blocks_for(m) <= blocks_for(n)
  BY <1>1, BlocksForMore
<1> QED BY <1>1, <1>2, <1>3

LEMMA FailAloneIsTooLarge ==
  ASSUME IInv, C!IInv, FailAlone
  PROVE  /\ current \in Seqs /\ finish_reason' = [finish_reason EXCEPT ![current] = "error"]
         /\ blocks_for(num_tokens(current)) > NumBlocks
<1>1. /\ pc = "running" /\ i <= Len(running) /\ Len(running) = 1
      /\ plan[current] > 0 /\ ~can_append(current, plan[current])
      /\ finish_reason' = [finish_reason EXCEPT ![current] = "error"]
  BY DEF FailAlone, OutOfBlocks, Scheduling, Fail
<1>2. QInv /\ Types /\ WalkOK
  BY DEF IInv, QInv
<1>3. /\ i \in Nat \ {0} /\ running \in Seq(Seqs)
      /\ plan \in [Seqs -> Nat] /\ num_computed_tokens \in [Seqs -> Nat]
  BY <1>2 DEF Types
<1>4. i = 1 /\ i \in i..Len(running)
  BY <1>1, <1>3
<1>5. PICK s \in Seqs : s = current /\ Range(running) \subseteq {s}
  <2>1. DOMAIN running = {1} /\ running[1] \in Seqs
    <3>1. Len(running) = 1 /\ running \in Seq(Seqs)
      BY <1>1, <1>3
    <3>2. DOMAIN running = 1..1 /\ 1 \in DOMAIN running
      BY <3>1
    <3>3. 1..1 = {1}
      OBVIOUS
    <3> QED BY <3>1, <3>2, <3>3
  <2>2. current = running[1]
    BY <1>4 DEF current
  <2> QED BY <2>1, <2>2 DEF Range
<1>6. PICK n \in Nat : n = plan[s] /\ n <= num_uncomputed_tokens(s)
  BY <1>1, <1>2, <1>3, <1>4, <1>5 DEF WalkOK, current
<1>7. PICK c \in Nat : c = num_computed_tokens[s]
  BY <1>3
<1>8. num_tokens(s) \in Nat /\ c + n <= num_tokens(s) /\ c + n \in Nat
  <2>1. num_tokens(s) \in Nat
    BY <1>2 DEF Types, num_tokens
  <2> QED BY <1>6, <1>7, <2>1 DEF num_uncomputed_tokens
<1>9. blocks_for(c + n) \in Nat
  BY <1>8, BlocksForCount
<1>10. Len(block_table[s]) \in Nat /\ num_free_blocks + Len(block_table[s]) = NumBlocks /\ num_free_blocks \in Nat
  BY <1>5, AloneHoldsTheRest, PoolServes
<1>11. ~(blocks_for(c + n) - Len(block_table[s]) <= num_free_blocks)
  BY <1>1, <1>5, <1>6, <1>7 DEF can_append, blocks_needed
<1>12. blocks_for(c + n) > NumBlocks
  BY <1>9, <1>10, <1>11
<1> QED BY <1>1, <1>5, <1>8, <1>12, TooLarge

LEMMA FailSwapInIsTooLarge ==
  ASSUME IInv, C!IInv, FailSwapIn
  PROVE  /\ Head(swapped) \in Seqs /\ finish_reason' = [finish_reason EXCEPT ![Head(swapped)] = "error"]
         /\ blocks_for(num_tokens(Head(swapped))) > NumBlocks
<1>1. /\ swapped # <<>> /\ swap_in_tokens > 0 /\ ~SwapInFits /\ running = <<>>
      /\ finish_reason' = [finish_reason EXCEPT ![Head(swapped)] = "error"]
  BY DEF FailSwapIn, SwappingIn, hopeless, Fail
<1>2. Types /\ \A t \in Seqs : Placed(t) /\ Counted(t)
  BY DEF IInv, QInv
<1>3. /\ swapped \in Seq(Seqs) /\ IsInjective(swapped)
      /\ num_computed_tokens \in [Seqs -> Nat] /\ budget \in Int
  BY <1>2 DEF Types
<1>4. PICK s \in Seqs : s = Head(swapped) /\ s \in Range(swapped)
  BY <1>1, <1>3, TailFacts
<1>5. block_table[s] = <<>> /\ num_computed_tokens[s] < num_tokens(s) /\ num_tokens(s) \in Nat
  BY <1>2, <1>4 DEF Placed, Counted, Live, Types, num_tokens
<1>6. PICK c \in Nat : c = num_computed_tokens[s]
  BY <1>3
<1>7. PICK n \in Nat : n = swap_in_tokens /\ c + n <= num_tokens(s)
  <2> DEFINE u == num_uncomputed_tokens(s)
  <2>1. u \in Nat /\ c + u = num_tokens(s)
    BY <1>5, <1>6 DEF num_uncomputed_tokens
  <2>2. swap_in_tokens = IF Chunked THEN Min({u, budget}) ELSE u
    BY <1>4 DEF swap_in_tokens
  <2> HIDE DEF u
  <2>3. Min({u, budget}) = IF u <= budget THEN u ELSE budget
    <3>1. u \in Int /\ budget \in Int
      BY <1>3, <2>1
    <3> QED BY <3>1, MinOfTwo
  <2>4. swap_in_tokens \in Nat /\ swap_in_tokens <= u
    BY <1>1, <1>3, <2>1, <2>2, <2>3
  <2> QED BY <2>1, <2>4
<1>8. c + n \in Nat /\ blocks_for(c + n) \in Nat
  BY BlocksForCount
<1>9. num_free_blocks = NumBlocks /\ num_free_blocks \in Nat
  <2>1. Range(running) \subseteq {s}
    BY <1>1 DEF Range
  <2>2. num_free_blocks + Len(block_table[s]) = NumBlocks /\ Len(block_table[s]) = 0
    BY <1>5, <2>1, AloneHoldsTheRest
  <2> QED BY <2>2, PoolServes
<1>10. ~(blocks_for(c + n) <= num_free_blocks)
  <2>1. ~(blocks_for(c + n) <= Available(FALSE))
    <3>1. (running # <<>>) = FALSE
      BY <1>1
    <3> QED BY <1>1, <1>4, <1>6, <1>7, <3>1 DEF SwapInFits, can_swap_in
  <2>2. Available(FALSE) = num_free_blocks
    BY AvailableIsMore
  <2> QED BY <2>1, <2>2
<1>11. blocks_for(c + n) > NumBlocks
  BY <1>8, <1>9, <1>10
<1> QED BY <1>1, <1>4, <1>5, <1>7, <1>8, <1>11, TooLarge

LEMMA ErrorsStep ==
  ASSUME "update" \notin FailPoints, IInv, C!IInv, ErrorsOK, [Next]_vars
  PROVE  ErrorsOK'
<1>1. QInv /\ ArrivalsOK
  BY DEF IInv
<1>2. finish_reason \in [Seqs -> {None, "stop", "length", "error"}]
  BY <1>1 DEF QInv, Types
<1> DEFINE New(t) == finish_reason'[t] = "error" /\ finish_reason[t] # "error"
<1>3. ASSUME NEW t \in Seqs, New(t)
      PROVE  blocks_for(num_tokens(t)) > NumBlocks
  <2>1. CASE UNCHANGED finish_reason
    BY <1>3, <2>1
  <2>2. CASE FailAlone
    BY <1>2, <1>3, <2>2, FailAloneIsTooLarge
  <2>3. CASE FailSwapIn
    BY <1>2, <1>3, <2>3, FailSwapInIsTooLarge
  <2>4. CASE FailAdmit
    <3>1. oversized /\ finish_reason' = [finish_reason EXCEPT ![candidate] = "error"]
      BY <2>4 DEF FailAdmit, Fail
    <3>2. t = candidate
      BY <1>2, <1>3, <3>1
    <3> QED BY <3>1, <3>2 DEF oversized
  <2>5. CASE Update
    <3>1. PICK s, finish : finish \in {"stop", "length"} /\ finish_reason' = [finish_reason EXCEPT ![s] = finish]
      <4>1. batch.seqs[i].sample
        BY <1>3, <2>5 DEF Update
      <4>2. PICK finish \in finish_choices(batch.seqs[i].seq) :
              finish # None /\ finish_reason' = [finish_reason EXCEPT ![batch.seqs[i].seq] = finish]
        BY <1>3, <2>5, <4>1 DEF Update
      <4>3. finish \in {"stop", "length"}
        BY <4>2 DEF finish_choices
      <4> QED BY <4>2, <4>3
    <3> QED BY <1>2, <1>3, <3>1
  <2>6. CASE BeginStep \/ ScheduleRunning \/ Evict \/ EndRunning \/ SwapIn \/ EndSwapIn \/ Admit \/ EndAdmit
    BY <2>1, <2>6 DEF BeginStep, ScheduleRunning, Evict, Preempt, EndRunning, SwapIn, EndSwapIn,
                      Admit, EndAdmit, seqVars
  <2>7. CASE EmptyStep \/ Execute \/ ExecuteFails \/ EndFailAll \/ UNCHANGED vars
    BY <2>1, <2>7 DEF EmptyStep, Execute, ExecuteFails, EndFailAll, vars, seqVars
  <2>8. CASE \E s \in Seqs : add(s) \/ AbortRequest(s) \/ FailOne(s)
    BY <2>1, <2>8 DEF add, AbortRequest, FailOne, abort
  <2>9. ~UpdateFails
    BY DEF UpdateFails
  <2> QED BY <2>2, <2>3, <2>4, <2>5, <2>6, <2>7, <2>8, <2>9 DEF Next, Step, Bookkeep, Request
<1>4. ASSUME NEW t \in Seqs, finish_reason'[t] = "error"
      PROVE  status'[t] = "FINISHED" /\ num_tokens(t)' = num_tokens(t)
  BY <1>1, <1>4, NextLifecycle, ErrorIsFinal DEF ErrorsOK
<1>5. \A t \in Seqs : finish_reason'[t] = "error" => blocks_for(num_tokens(t)) > NumBlocks
  BY <1>3 DEF ErrorsOK
<1> QED BY <1>4, <1>5 DEF ErrorsOK, blocks_for

\* A request fails only if the whole pool could not hold its tokens: never
\* because others hold blocks, nor because of when it was preempted.
THEOREM OnlyTooLargeFail ==
  ASSUME "update" \notin FailPoints
  PROVE  Spec => []FailsOnlyIfTooLarge
<1>1. Init => ErrorsOK
  BY ConfigAssumption DEF Init, ErrorsOK
<1>2. IInv /\ C!IInv /\ ErrorsOK /\ [Next]_vars => ErrorsOK'
  BY ErrorsStep
<1>3. ErrorsOK => FailsOnlyIfTooLarge
  BY DEF ErrorsOK, FailsOnlyIfTooLarge
<1> QED BY <1>1, <1>2, <1>3, ContractIsKept, PTL DEF Spec

-----------------------------------------------------------------------------
\* Types: what a step reports is typed as the model runner and the server read it.

EntryRecord == [seq : Seqs, n : Nat \ {0}, sample : BOOLEAN]
BatchRecord == [seqs : Seq(EntryRecord), swap_out : Seq(Blocks \X CpuBlocks),
                swap_in : Seq(CpuBlocks \X Blocks), num_preempted : Nat]

ReportOK == outputs \subseteq Seqs /\ batch \in BatchRecord

LEMMA EmptyBatchType == EmptyBatch \in BatchRecord
BY DEF EmptyBatch, BatchRecord

\* A victim's copies are from its blocks to free host blocks.
LEMMA EvictReports ==
  ASSUME IInv, C!IInv, ReportOK, Evict
  PROVE  batch' \in BatchRecord
<1>1. pc = "running" /\ i <= Len(running) /\ Preempt(victim)
  BY DEF Evict, OutOfBlocks, Scheduling
<1>2. i \in Nat \ {0} /\ running \in Seq(Seqs) /\ Len(running) \in Nat
  BY DEF IInv, QInv, Types
<1>3. PICK s \in Seqs : s = victim
  <2>1. Len(running) \in i..Len(running) /\ victim = running[Len(running)]
    BY <1>1, <1>2 DEF victim, Last
  <2> QED BY <1>2, <2>1
<1>4. PICK pairs : /\ batch' = [batch EXCEPT !.num_preempted = @ + 1, !.swap_out = @ \o pairs]
                   /\ pairs = <<>> \/ (can_swap_out(s) /\ pairs = SwapOutPairs(s))
  BY <1>1, <1>3 DEF Preempt
<1>5. pairs \in Seq(Blocks \X CpuBlocks)
  <2>1. CASE pairs = <<>>
    BY <2>1
  <2>2. CASE can_swap_out(s) /\ pairs = SwapOutPairs(s)
    <3>1. block_table[s] \in Seq(Blocks) /\ cpu_free \in Seq(CpuBlocks)
      BY PoolServes DEF BlockManagerTypeOK
    <3>2. Len(block_table[s]) <= Len(cpu_free)
      BY <2>2 DEF can_swap_out
    <3>3. \A k \in 1..Len(block_table[s]) : block_table[s][k] \in Blocks /\ cpu_free[k] \in CpuBlocks
      BY <3>1, <3>2
    <3>4. pairs = [k \in 1..Len(block_table[s]) |-> <<block_table[s][k], cpu_free[k]>>]
      BY <2>2, <3>1 DEF SwapOutPairs
    <3>5. Len(block_table[s]) \in Nat
      BY <3>1
    <3> QED BY <3>3, <3>4, <3>5
  <2> QED BY <1>4, <2>1, <2>2
<1>6. batch.swap_out \in Seq(Blocks \X CpuBlocks)
  BY DEF ReportOK, BatchRecord
<1>7. batch.swap_out \o pairs \in Seq(Blocks \X CpuBlocks)
  <2> DEFINE E == Blocks \X CpuBlocks
  <2> HIDE DEF E
  <2>1. batch.swap_out \in Seq(E) /\ pairs \in Seq(E)
    BY <1>5, <1>6 DEF E
  <2>2. batch.swap_out \o pairs \in Seq(E)
    BY <2>1
  <2> QED BY <2>2 DEF E
<1> DEFINE out == batch.swap_out \o pairs
<1>8. batch' = [batch EXCEPT !.num_preempted = @ + 1, !.swap_out = out]
  BY <1>4
<1> HIDE DEF out
<1>9. out \in Seq(Blocks \X CpuBlocks)
  BY <1>7 DEF out
<1>10. batch \in BatchRecord
  BY DEF ReportOK
<1>11. PICK count \in Nat : count = batch.num_preempted + 1
  <2>1. batch.num_preempted \in Nat
    BY <1>10 DEF BatchRecord
  <2> QED BY <2>1
<1>12. batch' = [batch EXCEPT !.num_preempted = count, !.swap_out = out]
  BY <1>8, <1>11
<1> QED BY <1>9, <1>10, <1>12 DEF BatchRecord

\* The copies of a victim that comes back are from its host blocks to the
\* blocks it just got.
LEMMA SwapInReports ==
  ASSUME IInv, IInv', C!IInv, C!IInv', ReportOK, SwapIn
  PROVE  batch' \in BatchRecord
<1>1. /\ swapped # <<>> /\ swapped \in Seq(Seqs) /\ IsInjective(swapped)
      /\ status' = [status EXCEPT ![Head(swapped)] = "RUNNING"]
      /\ UNCHANGED num_computed_tokens
  BY DEF SwapIn, SwappingIn, SetStatus, IInv, QInv, Types
<1>2. PICK s \in Seqs : s = Head(swapped) /\ s \in Range(swapped)
  BY <1>1, TailFacts
<1>3. PICK entries, pairs : /\ batch' = [batch EXCEPT !.seqs = entries, !.swap_in = @ \o pairs]
                            /\ pairs = SwapInPairs(s)
  BY <1>2 DEF SwapIn
<1>4. pairs \in Seq(CpuBlocks \X Blocks)
  <2>1. cpu_block_table[s] \in Seq(CpuBlocks) /\ block_table'[s] \in Seq(Blocks)
    <3>1. cpu_block_table[s] \in Seq(CpuBlocks)
      BY PoolServes DEF BlockManagerTypeOK
    <3>2. C!TypeOK'
      BY DEF C!IInv, C!ListInv
    <3>3. block_table'[s] \in Seq(C!Blocks)
      BY <3>2 DEF C!TypeOK, C!BlockManagerTypeOK
    <3> QED BY <3>1, <3>3 DEF C!Blocks, Blocks
  <2>2. Len(cpu_block_table[s]) <= Len(block_table'[s])
    <3>1. Counted(s) /\ Placed(s)'
      BY DEF IInv, QInv
    <3>2. Len(cpu_block_table[s]) = blocks_for(num_computed_tokens[s])
      BY <1>2, <3>1 DEF Counted
    <3>3. status'[s] = "RUNNING"
      BY <1>1, <1>2 DEF IInv, QInv, Types
    <3>4. block_table'[s] # <<>>
      BY <3>1, <3>3 DEF Placed
    <3>5. C!SlotsOK'
      BY DEF C!IInv, C!ListInv
    <3>6. C!blocks_for(num_computed_tokens'[s]) <= Len(block_table'[s])
      BY <3>4, <3>5 DEF C!SlotsOK, C!blocks_for
    <3> QED BY <1>1, <3>2, <3>6, SameCounts
  <2>3. \A k \in 1..Len(cpu_block_table[s]) : cpu_block_table[s][k] \in CpuBlocks /\ block_table'[s][k] \in Blocks
    BY <2>1, <2>2
  <2>4. pairs = [k \in 1..Len(cpu_block_table[s]) |-> <<cpu_block_table[s][k], block_table'[s][k]>>]
    BY <1>3, <2>1 DEF SwapInPairs
  <2>5. Len(cpu_block_table[s]) \in Nat
    BY <2>1
  <2> QED BY <2>3, <2>4, <2>5
<1>5. batch.swap_in \o pairs \in Seq(CpuBlocks \X Blocks)
  <2> DEFINE E == CpuBlocks \X Blocks
  <2> HIDE DEF E
  <2>1. batch.swap_in \in Seq(E) /\ pairs \in Seq(E)
    BY <1>4 DEF E, ReportOK, BatchRecord
  <2>2. batch.swap_in \o pairs \in Seq(E)
    BY <2>1
  <2> QED BY <2>2 DEF E
<1> DEFINE in == batch.swap_in \o pairs
<1>6. batch' = [batch EXCEPT !.seqs = entries, !.swap_in = in]
  BY <1>3
<1> HIDE DEF in
<1>7. in \in Seq(CpuBlocks \X Blocks)
  BY <1>5 DEF in
<1>8. batch'.seqs = entries /\ batch'.seqs \in Seq(EntryRecord)
  BY <1>6 DEF IInv, QInv, Types, EntryRecord, ReportOK, BatchRecord
<1> QED BY <1>6, <1>7, <1>8 DEF ReportOK, BatchRecord

LEMMA ReportsStep ==
  ASSUME "update" \notin FailPoints, IInv, IInv', C!IInv, C!IInv', ReportOK, [Next]_vars
  PROVE  ReportOK'
<1>1. QInv /\ ArrivalsOK /\ batch'.seqs \in Seq(EntryRecord)
  BY DEF IInv, QInv, Types, EntryRecord
<1>2. outputs \subseteq Seqs /\ batch \in BatchRecord
  BY DEF ReportOK
<1>3. CASE UNCHANGED <<outputs, batch>>
  BY <1>2, <1>3 DEF ReportOK, BatchRecord
<1>4. CASE outputs' \subseteq Seqs /\ (batch' = batch \/ batch' = EmptyBatch)
  BY <1>2, <1>4, EmptyBatchType DEF ReportOK, BatchRecord
<1>5. CASE UNCHANGED outputs /\ \E entries : batch' = [batch EXCEPT !.seqs = entries]
  <2>1. PICK entries : batch' = [batch EXCEPT !.seqs = entries]
    BY <1>5
  <2>2. entries \in Seq(EntryRecord)
    BY <1>1, <1>2, <2>1 DEF BatchRecord
  <2>3. batch' \in BatchRecord
    BY <1>2, <2>1, <2>2 DEF BatchRecord
  <2> QED BY <1>2, <1>5, <2>3 DEF ReportOK, BatchRecord
<1>6. ASSUME NEW s, s \in Seqs, Fail(s), UNCHANGED batch PROVE ReportOK'
  BY <1>2, <1>4, <1>6 DEF Fail
<1>7. CASE BeginStep \/ EndRunning \/ EndSwapIn \/ EndAdmit
  BY <1>2, <1>4, <1>7 DEF BeginStep, EndRunning, EndSwapIn, EndAdmit
<1>8. CASE EmptyStep \/ Execute \/ ExecuteFails \/ EndFailAll \/ Update
  BY <1>2, <1>4, <1>8 DEF EmptyStep, Execute, ExecuteFails, EndFailAll, Update, queueVars
<1>9. CASE ScheduleRunning
  BY <1>3, <1>5, <1>9 DEF ScheduleRunning
<1>10. CASE Admit
  BY <1>5, <1>10 DEF Admit
<1>11. CASE Evict
  <2>1. outputs' = outputs
    BY <1>11 DEF Evict, Preempt
  <2> QED BY <1>2, <1>11, <2>1, EvictReports DEF ReportOK, BatchRecord
<1>12. CASE SwapIn
  <2>1. outputs' = outputs
    BY <1>12 DEF SwapIn
  <2> QED BY <1>2, <1>12, <2>1, SwapInReports DEF ReportOK, BatchRecord
<1>13. ASSUME FailAlone \/ FailSwapIn \/ FailAdmit PROVE ReportOK'
  <2>1. PICK s : Fail(s) /\ s \in waiting \cup Range(running) \cup Range(swapped) \cup Range(preempted)
                 /\ UNCHANGED batch
    BY <1>1, <1>13, CurrentIsQueued DEF FailAlone, OutOfBlocks, FailSwapIn, SwappingIn, FailAdmit, stepVars
  <2>2. s \in Seqs
    BY <1>1, <2>1, QueuedArrived
  <2> QED BY <1>6, <2>1, <2>2
<1>14. CASE \E s \in Seqs : add(s) \/ AbortRequest(s) \/ FailOne(s)
  BY <1>3, <1>14 DEF add, AbortRequest, FailOne, abort, stepVars
<1>15. CASE UNCHANGED vars
  BY <1>3, <1>15 DEF vars, stepVars
<1>16. ~UpdateFails
  BY DEF UpdateFails
<1> QED
  BY <1>7, <1>8, <1>9, <1>10, <1>11, <1>12, <1>13, <1>14, <1>15, <1>16 DEF Next, Step, Bookkeep, Request

LEMMA TypeOKInv == IInv /\ C!IInv /\ ReportOK => TypeOK
<1> SUFFICES ASSUME IInv, C!IInv, ReportOK PROVE TypeOK
  OBVIOUS
<1>1. Types /\ ArrivalsOK /\ BlockManagerTypeOK
  BY PoolServes DEF IInv, QInv
<1>2. batch \in [seqs : Seq([seq : Seqs, n : Nat, sample : BOOLEAN]),
                 swap_out : Seq(Blocks \X CpuBlocks), swap_in : Seq(CpuBlocks \X Blocks),
                 num_preempted : Nat]
  <2> DEFINE E == [seq : Seqs, n : Nat, sample : BOOLEAN]
  <2>1. \A e \in EntryRecord : e \in E
    BY DEF EntryRecord
  <2>2. batch.seqs \in Seq(EntryRecord)
    BY DEF ReportOK, BatchRecord
  <2> HIDE DEF E
  <2>3. batch.seqs \in Seq(E)
    BY <2>1, <2>2
  <2> QED BY <2>3 DEF E, ReportOK, BatchRecord
<1>3. running \in Seq(Seqs) /\ swapped \in Seq(Seqs) /\ preempted \in Seq(Seqs)
  BY <1>1 DEF Types
<1>4. heap \subseteq Seqs
  BY <1>1 DEF ArrivalsOK
<1> QED BY <1>1, <1>2, <1>3, <1>4 DEF TypeOK, Types, ArrivalsOK, ReportOK

\* Every variable of the scheduler keeps its type, the copies and the entries
\* of a batch included.
THEOREM SchedulerTypesHold ==
  ASSUME "update" \notin FailPoints
  PROVE  Spec => []TypeOK
<1>1. Init => ReportOK
  BY EmptyBatchType DEF Init, ReportOK
<1>2. IInv /\ C!IInv /\ (IInv /\ C!IInv)' /\ ReportOK /\ [Next]_vars => ReportOK'
  BY ReportsStep
<1>3. IInv /\ C!IInv /\ ReportOK => TypeOK
  BY TypeOKInv
<1> QED BY <1>1, <1>2, <1>3, ContractIsKept, PTL DEF Spec

-----------------------------------------------------------------------------
\* The budget of a step.

LEMMA NothingTotals ==
  ASSUME NEW f, DOMAIN f = {}
  PROVE  Total(f) = 0
<1>1. UNION {{x} \X (1..f[x]) : x \in DOMAIN f} = {}
  OBVIOUS
<1> QED BY <1>1, FS_EmptySet DEF Total

\* One member more adds its value.
LEMMA TotalGains ==
  ASSUME NEW f, NEW g, NEW x, IsFiniteSet(DOMAIN f), x \notin DOMAIN f,
         DOMAIN g = DOMAIN f \cup {x}, \A y \in DOMAIN f : g[y] = f[y] /\ f[y] \in Nat, g[x] \in Nat
  PROVE  Total(g) = Total(f) + g[x]
<1> DEFINE part(h, y) == {y} \X (1..h[y])
           parts(h) == {part(h, y) : y \in DOMAIN h}
           old == UNION parts(f)
           more == {x} \X (1..g[x])
<1>1. UNION parts(g) = old \cup more
  OBVIOUS
<1>2. old \cap more = {}
  OBVIOUS
<1>3. IsFiniteSet(more) /\ Cardinality(more) = g[x]
  <2>1. g[x] \in Int /\ 1 \in Int
    OBVIOUS
  <2>2. IsFiniteSet(1..g[x]) /\ Cardinality(1..g[x]) = g[x]
    BY <2>1, FS_Interval, CountUpTo
  <2>3. IsFiniteSet({x}) /\ Cardinality({x}) = 1
    BY FS_Singleton
  <2>4. IsFiniteSet(more) /\ Cardinality(more) = Cardinality({x}) * Cardinality(1..g[x])
    BY <2>2, <2>3, FS_Product
  <2> QED BY <2>2, <2>3, <2>4
<1>4. \A p \in parts(f) : IsFiniteSet(p)
  <2> SUFFICES ASSUME NEW y \in DOMAIN f PROVE IsFiniteSet(part(f, y))
    OBVIOUS
  <2>1. f[y] \in Int /\ 1 \in Int
    OBVIOUS
  <2>2. IsFiniteSet(1..f[y])
    BY <2>1, FS_Interval
  <2>3. IsFiniteSet({y})
    BY FS_Singleton
  <2> QED BY <2>2, <2>3, FS_Product
<1>5. IsFiniteSet(parts(f))
  <2> HIDE DEF part
  <2> DEFINE h == [y \in DOMAIN f |-> part(f, y)]
  <2>1. h \in Surjection(DOMAIN f, parts(f))
    BY DEF Surjection
  <2> QED BY <2>1, FS_Surjection
<1>6. IsFiniteSet(old)
  <2> HIDE DEF parts
  <2> QED BY <1>4, <1>5, FS_UNION
<1>7. Cardinality(old \cup more) = Cardinality(old) + Cardinality(more)
  <2> HIDE DEF old, more
  <2>1. Cardinality(old \cup more) = Cardinality(old) + Cardinality(more) - Cardinality(old \cap more)
    BY <1>3, <1>6, FS_Union
  <2>2. Cardinality(old) \in Nat /\ Cardinality(more) \in Nat
    BY <1>3, <1>6, FS_CardinalityType
  <2>3. Cardinality(old \cap more) = 0
    <3>1. old \cap more = {}
      BY <1>2 DEF old, more
    <3> QED BY <3>1, FS_EmptySet
  <2> QED BY <2>1, <2>2, <2>3
<1>8. Total(f) = Cardinality(old) /\ Total(g) = Cardinality(UNION parts(g))
  BY DEF Total
<1> QED BY <1>1, <1>3, <1>7, <1>8

\* What a list of entries takes of the budget.
tally(l) == Total([k \in DOMAIN l |-> l[k].n])

LEMMA ListTally ==
  ASSUME NEW l \in Seq([seq : Seqs, n : Nat \ {0}, sample : BOOLEAN]),
         NEW e \in [seq : Seqs, n : Nat \ {0}, sample : BOOLEAN]
  PROVE  tally(l) \in Nat /\ tally(Append(l, e)) = tally(l) + e.n
<1> DEFINE E == [seq : Seqs, n : Nat \ {0}, sample : BOOLEAN]
           m == Append(l, e)
           f == [k \in DOMAIN l |-> l[k].n]
           g == [k \in DOMAIN m |-> m[k].n]
           x == Len(l) + 1
<1>1. /\ DOMAIN l = 1..Len(l) /\ Len(l) \in Nat /\ DOMAIN m = DOMAIN l \cup {x} /\ x \notin DOMAIN l
      /\ m[x] = e /\ \A k \in DOMAIN l : m[k] = l[k]
  <2> HIDE DEF E
  <2>1. DOMAIN l = 1..Len(l) /\ Len(l) \in Nat /\ DOMAIN m = 1 .. Len(l) + 1 /\ m[x] = e
        /\ \A k \in 1..Len(l) : m[k] = l[k]
    OBVIOUS
  <2>2. \A a \in Nat : 1 .. a + 1 = (1..a) \cup {a + 1} /\ a + 1 \notin 1..a
    OBVIOUS
  <2> HIDE DEF m
  <2> QED BY <2>1, <2>2
<1>2. \A k \in DOMAIN l : l[k] \in E /\ l[k].n \in Nat
  <2>1. \A r \in E : r.n \in Nat
    OBVIOUS
  <2>2. l \in Seq(E)
    OBVIOUS
  <2> HIDE DEF E
  <2> QED BY <2>1, <2>2
<1>3. IsFiniteSet(DOMAIN f)
  <2>1. Len(l) \in Int /\ 1 \in Int
    BY <1>1
  <2> QED BY <1>1, <2>1, FS_Interval
<1>4. e.n \in Nat
  OBVIOUS
<1> HIDE DEF m, x, E
<1>5. /\ DOMAIN f = DOMAIN l /\ DOMAIN g = DOMAIN f \cup {x} /\ x \notin DOMAIN f
      /\ g[x] = e.n /\ \A k \in DOMAIN f : g[k] = f[k] /\ f[k] \in Nat
  BY <1>1, <1>2
<1> HIDE DEF f, g
<1>6. Total(g) = Total(f) + g[x]
  BY <1>3, <1>4, <1>5, TotalGains
<1>7. Total(f) \in Nat
  BY <1>3, <1>5, TotalIsNat
<1> QED BY <1>5, <1>6, <1>7 DEF tally, f, g, m

LEMMA TallyGains ==
  ASSUME Types, NEW e \in [seq : Seqs, n : Nat \ {0}, sample : BOOLEAN],
         batch'.seqs = Append(batch.seqs, e)
  PROVE  batch_tokens \in Nat /\ batch_tokens' = batch_tokens + e.n
<1>1. PICK l \in Seq([seq : Seqs, n : Nat \ {0}, sample : BOOLEAN]) : l = batch.seqs
  BY DEF Types
<1>2. batch_tokens = tally(l) /\ batch_tokens' = tally(Append(l, e))
  BY <1>1 DEF batch_tokens, tally
<1> QED BY <1>2, ListTally

\* Where a step is, in numbers.
LEMMA StepNumbers ==
  ASSUME QInv
  PROVE  /\ running \in Seq(Seqs) /\ IsInjective(running) /\ Len(running) \in Nat
         /\ DOMAIN running = 1..Len(running) /\ (running # <<>> <=> Len(running) # 0)
         /\ \A j \in DOMAIN running : running[j] \in Seqs /\ running[j] \in Range(running)
         /\ i \in Nat \ {0} /\ budget \in Int /\ plan \in [Seqs -> Nat] /\ batch_tokens \in Nat
         /\ MaxBatchTokens \in Nat /\ MaxNumSeqs \in Nat \ {0} /\ Len(running) <= MaxNumSeqs
         /\ (Chunked => MaxNumSeqs <= MaxBatchTokens)
         /\ num_computed_tokens \in [Seqs -> Nat] /\ \A s \in Seqs : num_tokens(s) \in Nat
<1>1. Types
  BY DEF QInv
<1>2. batch_tokens \in Nat
  <2>1. PICK l \in Seq([seq : Seqs, n : Nat \ {0}, sample : BOOLEAN]) : l = batch.seqs
    BY <1>1 DEF Types
  <2> DEFINE f == [k \in DOMAIN l |-> l[k].n]
  <2>2. DOMAIN f = 1..Len(l) /\ Len(l) \in Int /\ 1 \in Int
    OBVIOUS
  <2>3. \A k \in DOMAIN f : f[k] \in Nat
    BY <1>1, <2>1, EntryType
  <2>4. batch_tokens = Total(f)
    BY <2>1 DEF batch_tokens
  <2> HIDE DEF f
  <2>5. IsFiniteSet(DOMAIN f)
    BY <2>2, FS_Interval
  <2> QED BY <2>3, <2>4, <2>5, TotalIsNat
<1>3. /\ running \in Seq(Seqs) /\ IsInjective(running) /\ Len(running) <= MaxNumSeqs
      /\ i \in Nat \ {0} /\ budget \in Int /\ plan \in [Seqs -> Nat]
      /\ num_computed_tokens \in [Seqs -> Nat] /\ token_ids \in [Seqs -> Seq(Tokens)]
  BY <1>1 DEF Types
<1>4. /\ MaxBatchTokens \in Nat /\ MaxNumSeqs \in Nat \ {0}
      /\ (Chunked => MaxNumSeqs <= MaxBatchTokens)
  BY ConfigAssumption
<1>5. \A s \in Seqs : num_tokens(s) \in Nat
  BY <1>3 DEF num_tokens
<1>6. /\ Len(running) \in Nat /\ DOMAIN running = 1..Len(running) /\ (running # <<>> <=> Len(running) # 0)
      /\ \A j \in DOMAIN running : running[j] \in Seqs
  BY <1>3
<1>7. \A j \in DOMAIN running : running[j] \in Range(running)
  BY DEF Range
<1> QED BY <1>2, <1>3, <1>4, <1>5, <1>6, <1>7

\* Who runs needs a token at least.
LEMMA RunningNeeds ==
  ASSUME QInv, pc # "update", NEW s \in Range(running)
  PROVE  s \in Seqs /\ status[s] = "RUNNING" /\ num_uncomputed_tokens(s) \in Nat \ {0}
<1>1. Types /\ \A t \in Seqs : Placed(t) /\ Counted(t)
  BY DEF QInv
<1>2. s \in Seqs
  BY StepNumbers DEF Range
<1>3. status[s] = "RUNNING"
  BY <1>1, <1>2 DEF Placed
<1>4. num_computed_tokens[s] < num_tokens(s) /\ num_computed_tokens[s] \in Nat /\ num_tokens(s) \in Nat
  BY <1>1, <1>2, <1>3, StepNumbers DEF Counted, Live
<1> QED BY <1>2, <1>3, <1>4 DEF num_uncomputed_tokens

\* A plan gives everybody in `running` a token at least.  Only the newest gets
\* more, and if it gets less than it needs it has all that the others leave.
Shares(p) ==
  /\ \A j \in DOMAIN running :
       /\ p[running[j]] \in Nat \ {0}
       /\ j < Len(running) \/ ~Chunked => p[running[j]] = 1 /\ num_uncomputed_tokens(running[j]) = 1
  /\ Chunked /\ running # <<>> =>
       LET n == p[running[Len(running)]] IN
       /\ Len(running) - 1 + n <= MaxBatchTokens
       /\ n = num_uncomputed_tokens(running[Len(running)]) \/ Len(running) - 1 + n = MaxBatchTokens

\* So it is planned, if only the newest needs more than a token.
LEMMA PlanShares ==
  ASSUME QInv, pc # "update",
         \A j \in DOMAIN running : num_uncomputed_tokens(running[j]) > 1 => j = Len(running) /\ Chunked
  PROVE  Shares(running_plan)
<1> DEFINE decodes == {s \in Range(running) : num_uncomputed_tokens(s) = 1}
           prefills(k) == {running[j] : j \in 1..k} \ decodes
           left(k) == MaxBatchTokens - Cardinality(decodes)
                        - Total([s \in prefills(k) |-> num_uncomputed_tokens(s)])
           position(s) == CHOOSE k \in DOMAIN running : running[k] = s
           planned(s) == IF s \notin Range(running) THEN 0
                         ELSE IF ~Chunked \/ s \in decodes THEN 1
                         ELSE Max({0, Min({num_uncomputed_tokens(s), left(position(s) - 1)})})
<1>0. PICK len \in Nat : len = Len(running)
  BY StepNumbers
<1>1. /\ running \in Seq(Seqs) /\ IsInjective(running) /\ DOMAIN running = 1..len
      /\ (running # <<>> <=> len # 0)
      /\ MaxBatchTokens \in Nat /\ MaxNumSeqs \in Nat /\ len <= MaxNumSeqs
      /\ (Chunked => MaxNumSeqs <= MaxBatchTokens)
  BY <1>0, StepNumbers
<1>2. \A j \in DOMAIN running :
        /\ running[j] \in Seqs /\ running[j] \in Range(running)
        /\ num_uncomputed_tokens(running[j]) \in Nat \ {0}
  BY StepNumbers, RunningNeeds
<1>3. \A s \in Seqs : running_plan[s] = planned(s)
  BY DEF running_plan
<1>4. \A j \in DOMAIN running : num_uncomputed_tokens(running[j]) = 1 => planned(running[j]) = 1
  BY <1>2
<1>5. \A j \in DOMAIN running : j < len \/ ~Chunked => num_uncomputed_tokens(running[j]) = 1
  <2> SUFFICES ASSUME NEW j \in DOMAIN running, j < len \/ ~Chunked
               PROVE  num_uncomputed_tokens(running[j]) = 1
    OBVIOUS
  <2>1. ~(num_uncomputed_tokens(running[j]) > 1)
    BY <1>0, <1>1
  <2>2. num_uncomputed_tokens(running[j]) \in Nat \ {0}
    BY <1>2
  <2> QED BY <2>1, <2>2
<1>6. ASSUME running # <<>>, NEW x, x = running[len], NEW u \in Nat \ {0}, u = num_uncomputed_tokens(x), u > 1
      PROVE  /\ Chunked /\ planned(x) \in Nat \ {0} /\ len - 1 + planned(x) <= MaxBatchTokens
             /\ planned(x) = u \/ len - 1 + planned(x) = MaxBatchTokens
  <2>1. len \in DOMAIN running /\ len # 0
    BY <1>1, <1>6
  <2>2. Chunked
    BY <1>6, <2>1
  <2>3. x \in Range(running) /\ x \notin decodes
    BY <1>2, <1>6, <2>1
  <2>4. decodes = Range(running) \ {x}
    <3> SUFFICES ASSUME NEW s \in Range(running), s # x PROVE num_uncomputed_tokens(s) = 1
      BY <2>3
    <3>1. PICK j \in DOMAIN running : running[j] = s
      BY DEF Range
    <3>2. j < len
      BY <1>1, <1>6, <3>1
    <3> QED BY <1>5, <3>1, <3>2
  <2>5. Cardinality(decodes) = len - 1
    <3>1. Len(running) = Cardinality(Range(running)) /\ IsFiniteSet(Range(running))
      BY <1>1, ListLength
    <3>2. Cardinality(Range(running) \ {x}) = Cardinality(Range(running)) - 1
      BY <2>3, <3>1, FS_RemoveElement
    <3> QED BY <1>0, <2>4, <3>1, <3>2
  <2>6. position(x) = len
    BY <1>1, <1>6, <2>1 DEF IsInjective
  <2>7. prefills(len - 1) = {}
    <3> SUFFICES ASSUME NEW j \in 1 .. len - 1 PROVE running[j] \in decodes
      OBVIOUS
    <3>1. j \in DOMAIN running /\ j < len
      BY <1>1
    <3> QED BY <1>2, <1>5, <3>1
  <2>8. Total([s \in prefills(len - 1) |-> num_uncomputed_tokens(s)]) = 0
    <3> DEFINE f == [s \in prefills(len - 1) |-> num_uncomputed_tokens(s)]
    <3>1. DOMAIN f = {}
      BY <2>7
    <3> HIDE DEF f
    <3>2. Total(f) = 0
      BY <3>1, NothingTotals
    <3> QED BY <3>2 DEF f
  <2>9. PICK l \in Nat \ {0} : l = left(len - 1) /\ len - 1 + l = MaxBatchTokens
    <3>1. left(len - 1) = MaxBatchTokens - (len - 1) - 0
      BY <2>5, <2>8
    <3>2. len <= MaxBatchTokens
      BY <1>1, <2>2
    <3> HIDE DEF left
    <3>3. \A a, b \in Nat : a <= b => b - (a - 1) - 0 \in Nat \ {0} /\ a - 1 + (b - (a - 1) - 0) = b
      OBVIOUS
    <3> QED BY <1>1, <3>1, <3>2, <3>3
  <2> HIDE DEF decodes, left, position
  <2>10. planned(x) = Max({0, Min({u, l})})
    BY <1>6, <2>2, <2>3, <2>6, <2>9
  <2>11. Min({u, l}) = IF u <= l THEN u ELSE l
    <3>1. u \in Int /\ l \in Int
      OBVIOUS
    <3> QED BY <3>1, MinOfTwo
  <2>12. PICK m \in Nat \ {0} : m = Min({u, l}) /\ m <= l /\ (m = u \/ m = l)
    BY <2>11
  <2>13. Max({0, m}) = m
    <3>1. 0 \in Int /\ m \in Int /\ m > 0
      OBVIOUS
    <3>2. Max({0, m}) = IF 0 >= m THEN 0 ELSE m
      BY <3>1, MaxOfTwo
    <3> QED BY <3>1, <3>2
  <2>14. planned(x) = m
    BY <2>10, <2>12, <2>13
  <2> HIDE DEF planned
  <2> QED BY <2>2, <2>9, <2>12, <2>14
<1> HIDE DEF planned
<1>7. ASSUME NEW j \in DOMAIN running
      PROVE  running_plan[running[j]] = planned(running[j]) /\ planned(running[j]) \in Nat \ {0}
  <2>1. running_plan[running[j]] = planned(running[j])
    BY <1>2, <1>3
  <2>2. CASE num_uncomputed_tokens(running[j]) = 1
    BY <1>4, <2>1, <2>2
  <2>3. CASE num_uncomputed_tokens(running[j]) # 1
    <3>1. PICK u \in Nat \ {0} : u = num_uncomputed_tokens(running[j]) /\ u > 1
      BY <1>2, <2>3
    <3>2. j = len /\ running # <<>>
      BY <1>0, <1>1, <3>1
    <3> QED BY <1>6, <2>1, <3>1, <3>2
  <2> QED BY <2>2, <2>3
<1>8. ASSUME Chunked, running # <<>>, NEW n, n = running_plan[running[len]]
      PROVE  /\ len - 1 + n <= MaxBatchTokens
             /\ n = num_uncomputed_tokens(running[len]) \/ len - 1 + n = MaxBatchTokens
  <2>1. len \in DOMAIN running
    BY <1>1, <1>8
  <2>2. n = planned(running[len])
    BY <1>7, <1>8, <2>1
  <2>3. CASE num_uncomputed_tokens(running[len]) = 1
    <3>1. n = 1
      BY <1>4, <2>1, <2>2, <2>3
    <3> QED BY <1>1, <1>8, <2>3, <3>1
  <2>4. CASE num_uncomputed_tokens(running[len]) # 1
    <3>1. PICK u \in Nat \ {0} : u = num_uncomputed_tokens(running[len]) /\ u > 1
      BY <1>2, <2>1, <2>4
    <3> QED BY <1>6, <1>8, <2>2, <3>1
  <2> QED BY <2>3, <2>4
<1>9. \A j \in DOMAIN running :
        /\ running_plan[running[j]] \in Nat \ {0}
        /\ j < len \/ ~Chunked => running_plan[running[j]] = 1 /\ num_uncomputed_tokens(running[j]) = 1
  BY <1>4, <1>5, <1>7
<1> QED BY <1>0, <1>8, <1>9 DEF Shares

\* The step leaves s, which runs, with more than a token to compute: s needs
\* more than one, and no entry to come completes them.
Sampling(s) == \E k \in Pending : batch.seqs[k].seq = s /\ batch.seqs[k].sample
LeftOver(s) == status[s] = "RUNNING" /\ num_uncomputed_tokens(s) > 1 /\ ~Sampling(s)

\* There is one at most, the newest one, and it got what the others had left.
OneLeft == pc # "fail_all" =>
  \A j \in DOMAIN running : LeftOver(running[j]) =>
    /\ j = Len(running) /\ Chunked
    /\ pc \in {"swap_in", "admit"} => budget <= 0

\* Whoever was swapped out had one token to compute, unless prompts are chunked.
VictimsDecode == ~Chunked => \A s \in Range(swapped) : num_uncomputed_tokens(s) = 1

\* The plan, and the entries made by it.
Planned == pc = "running" => Shares(plan) /\ \A k \in DOMAIN batch.seqs : batch.seqs[k].n = plan[batch.seqs[k].seq]

\* Who has an entry.
Covered ==
  /\ Chunked /\ pc \in {"swap_in", "admit", "execute"} => Range(running) \subseteq Awaiting
  /\ pc = "running" => \A j \in DOMAIN running : j < i => running[j] \in Awaiting

\* What the entries take of the budget.
Tally ==
  /\ pc = "running" /\ (running = <<>> \/ i <= Len(running)) => batch_tokens = i - 1
  /\ pc = "running" /\ running # <<>> /\ i > Len(running) =>
       batch_tokens = Len(running) - 1 + plan[running[Len(running)]]
  /\ pc = "admit" \/ (pc = "swap_in" /\ Chunked) => budget >= 0 /\ batch_tokens + budget = MaxBatchTokens
  /\ pc = "swap_in" /\ ~Chunked => batch_tokens = Len(running)
  /\ pc = "execute" => batch_tokens <= MaxBatchTokens \/ (~Chunked /\ batch_tokens <= MaxNumSeqs)

BudgetOK == OneLeft /\ VictimsDecode /\ Planned /\ Covered /\ Tally

\* Nothing happened in the step yet; nobody waits for the GPU.
Nothing == batch.seqs = <<>> /\ outputs = {}
NobodyWaits == swapped = <<>> /\ preempted = <<>> /\ waiting = {}

\* A step in which nothing happens finds nobody to work for.
ProgressOK ==
  /\ pc \in {"swap_in", "admit"} => batch.num_preempted = 0
  /\ pc = "running" /\ Nothing /\ running = <<>> =>
       batch.num_preempted = 0 /\ (Chunked \/ swapped # <<>> \/ NobodyWaits)
  /\ pc = "swap_in" /\ Nothing => running = <<>> /\ (Chunked \/ swapped # <<>> \/ NobodyWaits)
  /\ pc = "admit" => swapped = <<>> /\ (Chunked /\ Nothing => running = <<>>)
  /\ pc = "execute" /\ Nothing => ~has_work
  /\ pc # "stuck"

LEMMA EmptyTally == tally(<<>>) = 0 /\ batch_tokens = tally(batch.seqs) /\ batch_tokens' = tally(batch'.seqs)
<1>1. DOMAIN [k \in DOMAIN <<>> |-> <<>>[k].n] = {}
  OBVIOUS
<1> QED BY <1>1, NothingTotals DEF batch_tokens, tally

\* Nobody else's share of a step changes.
Same(t) ==
  /\ status'[t] = "RUNNING" => status[t] = "RUNNING"
  /\ num_tokens(t)' = num_tokens(t) /\ num_computed_tokens'[t] = num_computed_tokens[t]

LEMMA LeftStays ==
  ASSUME NEW t \in Seqs, Same(t), LeftOver(t)',
         \A k \in Pending : batch.seqs[k].seq = t => k \in Pending' /\ batch'.seqs[k] = batch.seqs[k]
  PROVE  LeftOver(t)
<1>1. Sampling(t) => Sampling(t)'
  BY DEF Sampling
<1>2. num_uncomputed_tokens(t)' = num_uncomputed_tokens(t)
  BY DEF Same, num_uncomputed_tokens
<1> QED BY <1>1, <1>2 DEF LeftOver, Same

\* The entries of a step that only moves on, or that loses a member.
LEMMA EntriesStay ==
  ASSUME Types, pc # "update", pc' = "update" => i' = 1, batch'.seqs = batch.seqs
  PROVE  Pending' = Pending /\ Awaiting' = Awaiting /\ batch_tokens' = batch_tokens
<1>1. batch.seqs \in Seq([seq : Seqs, n : Nat \ {0}, sample : BOOLEAN])
  BY DEF Types
<1>2. DOMAIN batch.seqs = 1..Len(batch.seqs) /\ Len(batch.seqs) \in Nat
  BY <1>1
<1>3. Pending' = Pending
  BY <1>2 DEF Pending
<1> QED BY <1>3 DEF Awaiting, batch_tokens

\* The step and its numbers stay as they are for everybody in `running`.
LEMMA LeftKept ==
  ASSUME QInv, OneLeft, pc # "update", pc # "fail_all", pc' = "update" => i' = 1, batch'.seqs = batch.seqs,
         running' = running, \A t \in Range(running) : Same(t),
         \A j \in DOMAIN running : LeftOver(running[j]) => (pc' \in {"swap_in", "admit"} => budget' <= 0)
  PROVE  OneLeft'
<1>1. Pending' = Pending
  BY EntriesStay DEF QInv
<1>2. \A j \in DOMAIN running : running[j] \in Seqs /\ running[j] \in Range(running)
  BY StepNumbers
<1> SUFFICES ASSUME NEW j \in DOMAIN running, LeftOver(running[j])'
             PROVE  j = Len(running) /\ Chunked /\ (pc' \in {"swap_in", "admit"} => budget' <= 0)
  BY DEF OneLeft
<1>3. LeftOver(running[j])
  <2>1. PICK t \in Seqs : t = running[j] /\ Same(t)
    BY <1>2
  <2>2. LeftOver(t)'
    BY <2>1 DEF LeftOver, Sampling, num_uncomputed_tokens, num_tokens
  <2>3. LeftOver(t)
    BY <1>1, <2>1, <2>2, LeftStays
  <2> QED BY <2>1, <2>3
<1> QED BY <1>3 DEF OneLeft

LEMMA ControlSame ==
  ASSUME OnlyControl
  PROVE  /\ running' = running /\ swapped' = swapped
         /\ \A t : Same(t) /\ num_uncomputed_tokens(t)' = num_uncomputed_tokens(t)
BY DEF OnlyControl, Same, num_uncomputed_tokens, num_tokens

LEMMA VictimsKept ==
  ASSUME VictimsDecode, \A t \in Range(swapped)' : t \in Range(swapped) /\ Same(t)
  PROVE  VictimsDecode'
<1>1. \A t \in Range(swapped)' : num_uncomputed_tokens(t)' = num_uncomputed_tokens(t)
  BY DEF Same, num_uncomputed_tokens
<1> QED BY <1>1 DEF VictimsDecode

-----------------------------------------------------------------------------
\* The steps that only move on.

LEMMA BeginRunningBudget ==
  ASSUME QInv, OneLeft, VictimsDecode, OnlyControl, BeginRunning, pc # "update", pc # "fail_all",
         batch.seqs = <<>>, batch'.seqs = <<>>
  PROVE  BudgetOK'
<1>1. pc' = "running" /\ i' = 1 /\ plan' = running_plan
  BY DEF BeginRunning
<1>2. /\ running' = running /\ swapped' = swapped
      /\ \A t : Same(t) /\ num_uncomputed_tokens(t)' = num_uncomputed_tokens(t)
  BY ControlSame
<1>3. /\ \A j \in DOMAIN running : running[j] \in Range(running)
      /\ DOMAIN running = 1..Len(running) /\ Len(running) \in Nat
  BY StepNumbers
<1>4. \A j \in DOMAIN running : num_uncomputed_tokens(running[j]) > 1 => j = Len(running) /\ Chunked
  <2> SUFFICES ASSUME NEW j \in DOMAIN running, num_uncomputed_tokens(running[j]) > 1
               PROVE  j = Len(running) /\ Chunked
    OBVIOUS
  <2>1. status[running[j]] = "RUNNING"
    BY <1>3, RunningNeeds
  <2>2. ~Sampling(running[j])
    BY DEF Sampling, Pending
  <2>3. LeftOver(running[j])
    BY <2>1, <2>2 DEF LeftOver
  <2> QED BY <2>3 DEF OneLeft
<1>5. Planned'
  <2>1. Shares(running_plan)
    BY <1>4, PlanShares
  <2>2. Shares(plan)'
    BY <1>1, <1>2, <2>1 DEF Shares
  <2> QED BY <2>2 DEF Planned
<1>6. OneLeft'
  BY <1>1, <1>2, LeftKept
<1>7. VictimsDecode'
  BY <1>2, VictimsKept
<1>8. Covered'
  BY <1>1, <1>2, <1>3 DEF Covered
<1>9. Tally'
  <2>1. batch_tokens' = 0
    BY EmptyTally
  <2> QED BY <1>1, <1>2, <1>3, <2>1 DEF Tally
<1> QED BY <1>5, <1>6, <1>7, <1>8, <1>9 DEF BudgetOK

LEMMA BeginStepBudget ==
  ASSUME QInv, BudgetOK, BeginStep
  PROVE  BudgetOK'
<1>1. /\ pc = "idle" /\ batch' = EmptyBatch /\ budget' = MaxBatchTokens
      /\ (~Chunked /\ pc' = "admit") \/ BeginRunning
      /\ OnlyControl
  BY DEF BeginStep, OnlyControl, poolVars, gpuVars, cpuVars, seqVars, queueVars, waitingVars
<1>2. batch.seqs = <<>> /\ batch'.seqs = <<>>
  BY <1>1 DEF QInv, BatchOK, EmptyBatch
<1>3. OneLeft /\ VictimsDecode
  BY DEF BudgetOK
<1>4. CASE BeginRunning
  BY <1>1, <1>2, <1>3, <1>4, BeginRunningBudget
<1>5. CASE ~Chunked /\ pc' = "admit"
  <2>1. OneLeft'
    BY <1>1, <1>2, <1>3, <1>5, ControlSame, LeftKept DEF OneLeft
  <2>2. VictimsDecode'
    BY <1>1, <1>3, ControlSame, VictimsKept
  <2>3. Tally'
    <3>1. batch_tokens' = 0 /\ MaxBatchTokens \in Nat
      BY <1>2, EmptyTally, StepNumbers
    <3> QED BY <1>1, <1>5, <3>1 DEF Tally
  <2> QED BY <1>5, <2>1, <2>2, <2>3 DEF BudgetOK, Covered, Planned
<1> QED BY <1>1, <1>4, <1>5

\* The last of the walk got what it needs, or the whole budget is used.
LEMMA EndRunningBudget ==
  ASSUME QInv, BudgetOK, EndRunning
  PROVE  BudgetOK'
<1>1. /\ pc = "running" /\ i > Len(running) /\ pc' \in {"swap_in", "execute"}
      /\ batch' = batch /\ i' = 1 /\ OnlyControl
      /\ budget' = IF Chunked /\ pc' = "swap_in" THEN budget_left ELSE 0
  BY DEF EndRunning, OnlyControl, poolVars, gpuVars, cpuVars, seqVars, queueVars, waitingVars
<1>2. OneLeft /\ VictimsDecode /\ Shares(plan) /\ Covered /\ Tally
      /\ \A k \in DOMAIN batch.seqs : batch.seqs[k].n = plan[batch.seqs[k].seq]
  BY <1>1 DEF BudgetOK, Planned
<1>3. /\ DOMAIN running = 1..Len(running) /\ Len(running) \in Nat /\ i \in Nat \ {0}
      /\ (running # <<>> <=> Len(running) # 0) /\ i <= Len(running) + 1
      /\ MaxBatchTokens \in Nat /\ batch_tokens \in Nat /\ Len(running) <= MaxNumSeqs
  BY <1>1, StepNumbers DEF QInv, WalkOK
<1>4. Types /\ Awaiting' = Awaiting /\ batch_tokens' = batch_tokens /\ running' = running
  BY <1>1, EntriesStay, ControlSame DEF QInv
<1>5. Range(running) \subseteq Awaiting
  <2>1. \A j \in DOMAIN running : j < i
    BY <1>1, <1>3
  <2> QED BY <1>1, <1>2, <2>1 DEF Covered, Range
<1>6. /\ running = <<>> => batch_tokens = 0
      /\ Chunked => batch_tokens <= MaxBatchTokens
      /\ ~Chunked => batch_tokens = Len(running)
  <2>1. CASE running = <<>>
    <3>1. i = 1 /\ Len(running) = 0
      BY <1>1, <1>3, <2>1
    <3>2. batch_tokens = 0
      BY <1>1, <1>2, <2>1, <3>1 DEF Tally
    <3> QED BY <1>3, <3>1, <3>2
  <2>2. CASE running # <<>>
    <3>1. batch_tokens = Len(running) - 1 + plan[running[Len(running)]] /\ Len(running) \in DOMAIN running
      BY <1>1, <1>2, <1>3, <2>2 DEF Tally
    <3>2. Chunked => Len(running) - 1 + plan[running[Len(running)]] <= MaxBatchTokens
      BY <1>2, <2>2 DEF Shares
    <3>3. ~Chunked => plan[running[Len(running)]] = 1
      BY <1>2, <3>1 DEF Shares
    <3> QED BY <1>3, <2>2, <3>1, <3>2, <3>3
  <2> QED BY <2>1, <2>2
<1>7. OneLeft'
  <2> SUFFICES ASSUME NEW j \in DOMAIN running, LeftOver(running[j]), pc' = "swap_in"
               PROVE  budget' <= 0
    BY <1>1, <1>2, ControlSame, LeftKept
  <2>1. j = Len(running) /\ Chunked /\ running # <<>>
    BY <1>1, <1>2, <1>3 DEF OneLeft
  <2> DEFINE s == running[j]
  <2>2. PICK k \in DOMAIN batch.seqs : batch.seqs[k].seq = s
    BY <1>1, <1>5, PendingAll DEF Range
  <2>3. ~batch.seqs[k].sample /\ k \in Pending
    BY <1>1, <2>2, PendingAll DEF LeftOver, Sampling
  <2>4. PICK n \in Nat \ {0} : n = batch.seqs[k].n /\ n = plan[s]
    BY <1>2, <1>4, <2>2, EntryType
  <2>5. num_uncomputed_tokens(s) # n
    <3>1. num_computed_tokens[s] + n # num_tokens(s)
      BY <2>2, <2>3, <2>4 DEF QInv, BatchOK, Schedulable
    <3>2. num_computed_tokens[s] \in Nat /\ num_tokens(s) \in Nat
      BY StepNumbers
    <3> QED BY <3>1, <3>2 DEF num_uncomputed_tokens
  <2>6. Len(running) - 1 + n = MaxBatchTokens
    BY <1>2, <2>1, <2>4, <2>5 DEF Shares
  <2>7. batch_tokens = Len(running) - 1 + n
    BY <1>1, <1>2, <2>1, <2>4 DEF Tally
  <2> QED BY <1>1, <1>3, <2>1, <2>6, <2>7 DEF budget_left
<1>8. VictimsDecode'
  BY <1>1, <1>2, ControlSame, VictimsKept
<1>9. Covered'
  BY <1>1, <1>4, <1>5 DEF Covered
<1>10. Tally'
  <2>1. CASE Chunked
    <3>1. pc' = "swap_in" => budget' \in Int /\ budget' = MaxBatchTokens - batch_tokens
      BY <1>1, <1>3, <2>1 DEF budget_left
    <3> QED BY <1>1, <1>3, <1>4, <1>6, <2>1, <3>1 DEF Tally
  <2>2. CASE ~Chunked
    BY <1>1, <1>3, <1>4, <1>6, <2>2 DEF Tally
  <2> QED BY <2>1, <2>2
<1>11. Planned'
  BY <1>1 DEF Planned
<1> QED BY <1>7, <1>8, <1>9, <1>10, <1>11 DEF BudgetOK

LEMMA EndSwapInBudget ==
  ASSUME QInv, BudgetOK, EndSwapIn
  PROVE  BudgetOK'
<1>1. /\ pc = "swap_in" /\ OnlyControl /\ UNCHANGED <<batch, plan, i>>
      /\ (Chunked /\ pc' = "admit" /\ budget' = budget) \/ pc' = "execute"
  BY DEF EndSwapIn, OnlyControl, poolVars, gpuVars, cpuVars, seqVars, queueVars, waitingVars
<1>2. OneLeft /\ VictimsDecode /\ Covered /\ Tally
  BY DEF BudgetOK
<1>3. Types /\ Awaiting' = Awaiting /\ batch_tokens' = batch_tokens /\ running' = running
  BY <1>1, EntriesStay, ControlSame DEF QInv
<1>4. OneLeft'
  BY <1>1, <1>2, ControlSame, LeftKept DEF OneLeft
<1>5. VictimsDecode'
  BY <1>1, <1>2, ControlSame, VictimsKept
<1>6. Covered'
  BY <1>1, <1>2, <1>3 DEF Covered
<1>7. Tally'
  <2>1. /\ budget \in Int /\ batch_tokens \in Nat /\ MaxBatchTokens \in Nat
        /\ Len(running) \in Nat /\ Len(running) <= MaxNumSeqs /\ MaxNumSeqs \in Nat
    BY StepNumbers
  <2>2. CASE Chunked
    <3>1. budget >= 0 /\ batch_tokens + budget = MaxBatchTokens
      BY <1>1, <1>2, <2>2 DEF Tally
    <3>2. batch_tokens <= MaxBatchTokens
      BY <2>1, <3>1
    <3> QED BY <1>1, <1>3, <2>2, <3>1, <3>2 DEF Tally
  <2>3. CASE ~Chunked
    <3>1. batch_tokens = Len(running)
      BY <1>1, <1>2, <2>3 DEF Tally
    <3> QED BY <1>1, <1>3, <2>1, <2>3, <3>1 DEF Tally
  <2> QED BY <2>2, <2>3
<1>8. Planned'
  BY <1>1 DEF Planned
<1> QED BY <1>4, <1>5, <1>6, <1>7, <1>8 DEF BudgetOK

LEMMA EndAdmitBudget ==
  ASSUME QInv, BudgetOK, EndAdmit
  PROVE  BudgetOK'
<1>1. /\ pc = "admit" /\ OnlyControl /\ batch' = batch /\ budget' = 0
      /\ \/ pc' = "execute" /\ UNCHANGED <<plan, i>>
         \/ ~Chunked /\ batch.seqs = <<>> /\ BeginRunning
  BY DEF EndAdmit, OnlyControl, poolVars, gpuVars, cpuVars, seqVars, queueVars, waitingVars
<1>2. OneLeft /\ VictimsDecode /\ Covered /\ Tally
  BY DEF BudgetOK
<1>3. CASE BeginRunning /\ batch.seqs = <<>>
  BY <1>1, <1>2, <1>3, BeginRunningBudget
<1>4. CASE pc' = "execute"
  <2>1. Types /\ Awaiting' = Awaiting /\ batch_tokens' = batch_tokens /\ running' = running
    BY <1>1, <1>4, EntriesStay, ControlSame DEF QInv
  <2>2. OneLeft'
    BY <1>1, <1>2, <1>4, ControlSame, LeftKept
  <2>3. VictimsDecode'
    BY <1>1, <1>2, ControlSame, VictimsKept
  <2>4. Covered'
    BY <1>1, <1>2, <1>4, <2>1 DEF Covered
  <2>5. Tally'
    <3>1. budget \in Int /\ batch_tokens \in Nat /\ MaxBatchTokens \in Nat
      BY StepNumbers
    <3>2. budget >= 0 /\ batch_tokens + budget = MaxBatchTokens
      BY <1>1, <1>2 DEF Tally
    <3>3. batch_tokens <= MaxBatchTokens
      BY <3>1, <3>2
    <3> QED BY <1>4, <2>1, <3>3 DEF Tally
  <2> QED BY <1>4, <2>2, <2>3, <2>4, <2>5 DEF BudgetOK, Planned
<1> QED BY <1>1, <1>3, <1>4

LEMMA ExecuteBudget ==
  ASSUME QInv, BudgetOK, EmptyStep \/ Execute
  PROVE  BudgetOK'
<1>1. /\ pc = "execute" /\ OnlyControl /\ i' = i /\ pc' \in {"idle", "stuck", "update"}
      /\ batch'.seqs = batch.seqs
  <2>1. CASE EmptyStep
    BY <2>1 DEF EmptyStep, batch_is_empty, EmptyBatch, OnlyControl, poolVars, gpuVars, cpuVars, seqVars,
                queueVars, waitingVars
  <2>2. CASE Execute
    BY <2>2 DEF Execute, EmptyBatch, OnlyControl, poolVars, gpuVars, cpuVars, seqVars, queueVars, waitingVars
  <2> QED BY <2>1, <2>2
<1>2. OneLeft /\ VictimsDecode /\ i = 1
  BY <1>1 DEF BudgetOK, QInv, WalkOK
<1>3. OneLeft'
  BY <1>1, <1>2, ControlSame, LeftKept
<1>4. VictimsDecode'
  BY <1>1, <1>2, ControlSame, VictimsKept
<1> QED BY <1>1, <1>3, <1>4 DEF BudgetOK, Planned, Covered, Tally

\* A step that lost its batch: everybody is aborted before the next one begins.
LEMMA ExecuteFailsBudget ==
  ASSUME BudgetOK, ExecuteFails
  PROVE  BudgetOK'
<1>1. pc' = "fail_all" /\ OnlyControl
  BY DEF ExecuteFails, OnlyControl, poolVars, gpuVars, cpuVars, seqVars, queueVars, waitingVars
<1>2. VictimsDecode'
  BY <1>1, ControlSame, VictimsKept DEF BudgetOK
<1> QED BY <1>1, <1>2 DEF BudgetOK, OneLeft, Planned, Covered, Tally

LEMMA EndFailAllBudget ==
  ASSUME QInv, BudgetOK, EndFailAll
  PROVE  BudgetOK'
<1>1. pc = "fail_all" /\ pc' = "idle" /\ seqs = {} /\ OnlyControl
  BY DEF EndFailAll, OnlyControl, poolVars, gpuVars, cpuVars, seqVars, queueVars, waitingVars
<1>2. VictimsDecode'
  BY <1>1, ControlSame, VictimsKept DEF BudgetOK
<1>3. OneLeft'
  <2>1. \A j \in DOMAIN running : FALSE
    <3> SUFFICES ASSUME NEW j \in DOMAIN running PROVE FALSE
      OBVIOUS
    <3>1. running[j] \in Seqs /\ running[j] \in Range(running)
      BY StepNumbers
    <3>2. status[running[j]] = "RUNNING"
      BY <1>1, <3>1, RunningNeeds
    <3> QED BY <1>1, <3>1, <3>2 DEF QInv, Placed, Live
  <2> QED BY <1>1, <2>1, ControlSame DEF OneLeft
<1> QED BY <1>1, <1>2, <1>3 DEF BudgetOK, Planned, Covered, Tally

-----------------------------------------------------------------------------
\* The steps that give somebody an entry.

LEMMA EntryJoins ==
  ASSUME Types, pc # "update", pc' # "update", NEW e \in [seq : Seqs, n : Nat \ {0}, sample : BOOLEAN],
         batch'.seqs = Append(batch.seqs, e)
  PROVE  /\ \A k \in Pending : k \in Pending' /\ batch'.seqs[k] = batch.seqs[k]
         /\ \A k \in DOMAIN batch'.seqs : batch'.seqs[k] = e \/ (k \in DOMAIN batch.seqs /\ batch'.seqs[k] = batch.seqs[k])
         /\ \E k \in Pending' : batch'.seqs[k] = e
         /\ Awaiting' = Awaiting \cup {e.seq}
         /\ batch_tokens \in Nat /\ batch_tokens' = batch_tokens + e.n
<1> DEFINE E == [seq : Seqs, n : Nat \ {0}, sample : BOOLEAN]
<1>1. PICK l \in Seq(E) : l = batch.seqs /\ batch'.seqs = Append(l, e)
  BY DEF Types
<1>2. PICK x \in Nat : x = Len(l) + 1
  BY <1>1
<1> HIDE DEF E
<1>3. /\ DOMAIN Append(l, e) = DOMAIN l \cup {x} /\ Append(l, e)[x] = e
      /\ \A k \in DOMAIN l : Append(l, e)[k] = l[k]
  <2>1. Len(l) \in Nat /\ DOMAIN l = 1..Len(l) /\ DOMAIN Append(l, e) = 1 .. Len(l) + 1
    BY <1>1 DEF E
  <2>2. \A a \in Nat : 1 .. a + 1 = (1..a) \cup {a + 1}
    OBVIOUS
  <2>3. Append(l, e)[x] = e /\ \A k \in 1..Len(l) : Append(l, e)[k] = l[k]
    BY <1>1, <1>2 DEF E
  <2> QED BY <1>2, <2>1, <2>2, <2>3
<1>4. Pending = DOMAIN l /\ Pending' = DOMAIN l \cup {x}
  BY <1>1, <1>3 DEF Pending
<1>5. Awaiting' = Awaiting \cup {e.seq}
  BY <1>1, <1>3, <1>4 DEF Awaiting
<1>6. batch_tokens \in Nat /\ batch_tokens' = batch_tokens + e.n
  BY TallyGains
<1> QED BY <1>1, <1>3, <1>4, <1>5, <1>6

LEMMA ScheduleRunningBudget ==
  ASSUME QInv, BudgetOK, ScheduleRunning
  PROVE  BudgetOK'
<1> DEFINE E == [seq : Seqs, n : Nat \ {0}, sample : BOOLEAN]
<1>1. /\ pc = "running" /\ i <= Len(running) /\ i' = i + 1
      /\ UNCHANGED <<status, token_ids, num_computed_tokens, running, swapped, pc, plan, budget>>
  BY DEF ScheduleRunning, Scheduling, seqVars, queueVars
<1>2. /\ OneLeft /\ VictimsDecode /\ Shares(plan) /\ Covered /\ Tally /\ Types
      /\ \A k \in DOMAIN batch.seqs : batch.seqs[k].n = plan[batch.seqs[k].seq]
  BY <1>1 DEF BudgetOK, Planned, QInv
<1>3. /\ DOMAIN running = 1..Len(running) /\ Len(running) \in Nat /\ i \in Nat \ {0}
      /\ \A j \in DOMAIN running : running[j] \in Seqs /\ running[j] \in Range(running)
      /\ num_computed_tokens \in [Seqs -> Nat] /\ \A t \in Seqs : num_tokens(t) \in Nat
  BY StepNumbers
<1>4. i \in DOMAIN running /\ running # <<>>
  BY <1>1, <1>3
<1>5. PICK s \in Seqs : s = current /\ s = running[i]
  BY <1>3, <1>4 DEF current
<1>6. PICK n \in Nat \ {0} : n = plan[s] /\ (i < Len(running) => n = 1)
  BY <1>2, <1>4, <1>5 DEF Shares
<1>7. PICK e \in E : e.seq = s /\ e.n = n /\ batch'.seqs = Append(batch.seqs, e)
  <2>1. batch'.seqs = Append(batch.seqs, [seq |-> s, n |-> n, sample |-> num_computed_tokens[s] + n = num_tokens(s)])
    <3>1. DOMAIN batch = {"seqs", "swap_out", "swap_in", "num_preempted"}
      BY <1>2 DEF Types
    <3> QED BY <1>5, <1>6, <3>1 DEF ScheduleRunning, BatchAdd
  <2>2. PICK b \in BOOLEAN : b = (num_computed_tokens[s] + n = num_tokens(s))
    OBVIOUS
  <2>3. [seq |-> s, n |-> n, sample |-> b] \in E
    OBVIOUS
  <2> QED BY <2>1, <2>2, <2>3
<1>8. /\ \A k \in Pending : k \in Pending' /\ batch'.seqs[k] = batch.seqs[k]
      /\ \A k \in DOMAIN batch'.seqs : batch'.seqs[k] = e \/ (k \in DOMAIN batch.seqs /\ batch'.seqs[k] = batch.seqs[k])
      /\ Awaiting' = Awaiting \cup {e.seq}
      /\ batch_tokens \in Nat /\ batch_tokens' = batch_tokens + e.n
  BY <1>1, <1>2, <1>7, EntryJoins
<1>9. \A t \in Seqs : Same(t) /\ num_uncomputed_tokens(t)' = num_uncomputed_tokens(t)
  BY <1>1 DEF Same, num_uncomputed_tokens, num_tokens
<1>10. OneLeft'
  <2> SUFFICES ASSUME NEW j \in DOMAIN running, LeftOver(running[j])'
               PROVE  j = Len(running) /\ Chunked
    BY <1>1 DEF OneLeft
  <2>1. PICK t \in Seqs : t = running[j]
    BY <1>3
  <2>2. LeftOver(t)'
    BY <1>1, <2>1 DEF LeftOver, Sampling, num_uncomputed_tokens, num_tokens
  <2>3. LeftOver(t)
    BY <1>8, <1>9, <2>2, LeftStays
  <2> QED BY <1>1, <1>2, <2>1, <2>3 DEF OneLeft
<1>11. VictimsDecode'
  <2>1. swapped \in Seq(Seqs)
    BY <1>2 DEF Types
  <2>2. Range(swapped) \subseteq Seqs
    BY <2>1 DEF Range
  <2> QED BY <1>1, <1>2, <1>9, <2>2, VictimsKept
<1>12. Planned'
  <2>1. Shares(plan)'
    BY <1>1, <1>2, <1>3, <1>9 DEF Shares, num_uncomputed_tokens, num_tokens
  <2>2. \A k \in DOMAIN batch'.seqs : batch'.seqs[k].n = plan[batch'.seqs[k].seq]
    BY <1>2, <1>6, <1>7, <1>8
  <2> QED BY <1>1, <2>1, <2>2 DEF Planned
<1>13. Covered'
  <2>1. ASSUME NEW j \in DOMAIN running, j < i + 1
        PROVE  running[j] \in Awaiting'
    <3>1. CASE j = i
      BY <1>5, <1>7, <1>8, <3>1
    <3>2. CASE j # i
      <4>1. j < i
        BY <1>3, <2>1, <3>2
      <4> QED BY <1>1, <1>2, <1>8, <4>1 DEF Covered
    <3> QED BY <3>1, <3>2
  <2> QED BY <1>1, <2>1 DEF Covered
<1>14. Tally'
  <2>1. batch_tokens = i - 1
    BY <1>1, <1>2 DEF Tally
  <2>2. PICK len \in Nat : len = Len(running)
    <3>1. Len(running) \in Nat
      BY <1>3
    <3> QED BY <3>1
  <2>3. i + 1 <= len => batch_tokens' = i + 1 - 1
    BY <1>3, <1>6, <1>7, <1>8, <2>1, <2>2
  <2>4. i + 1 > len => batch_tokens' = len - 1 + plan[running[len]]
    <3>1. i + 1 > len => i = len
      <4>1. \A a, b \in Nat : a <= b /\ a + 1 > b => a = b
        OBVIOUS
      <4>2. i \in Nat /\ i <= len
        BY <1>1, <1>3, <2>2
      <4> QED BY <4>1, <4>2
    <3>2. i = len => plan[running[len]] = n
      BY <1>5, <1>6
    <3> QED BY <1>6, <1>7, <1>8, <2>1, <2>2, <3>1, <3>2
  <2> QED BY <1>1, <1>4, <2>2, <2>3, <2>4 DEF Tally
<1> QED BY <1>10, <1>11, <1>12, <1>13, <1>14 DEF BudgetOK

\* Somebody joins `running` behind the others, with an entry that takes the rest
\* of the budget if it leaves tokens to compute.
LEMMA JoinBudget ==
  ASSUME QInv, BudgetOK, pc \in {"swap_in", "admit"}, pc' = pc,
         NEW s \in Seqs, s \notin Range(running), running' = Append(running, s),
         NEW e \in [seq : Seqs, n : Nat \ {0}, sample : BOOLEAN],
         e.seq = s, batch'.seqs = Append(batch.seqs, e), ~e.sample => Chunked /\ budget' = 0,
         budget' \in Int,
         pc = "admit" \/ Chunked => budget' = budget - e.n /\ e.n <= budget,
         pc = "swap_in" /\ ~Chunked => e.n = 1,
         \A t \in Seqs \ {s} : Same(t),
         \A t \in Range(swapped)' : t \in Range(swapped) \ {s}
  PROVE  BudgetOK'
<1>1. OneLeft /\ VictimsDecode /\ Covered /\ Tally /\ Types
  BY DEF BudgetOK, QInv
<1>2. /\ running \in Seq(Seqs) /\ DOMAIN running = 1..Len(running) /\ Len(running) \in Nat
      /\ \A j \in DOMAIN running : running[j] \in Seqs /\ running[j] \in Range(running)
      /\ budget \in Int /\ MaxBatchTokens \in Nat
  BY StepNumbers
<1>3. /\ \A k \in Pending : k \in Pending' /\ batch'.seqs[k] = batch.seqs[k]
      /\ \E k \in Pending' : batch'.seqs[k] = e
      /\ Awaiting' = Awaiting \cup {e.seq}
      /\ batch_tokens \in Nat /\ batch_tokens' = batch_tokens + e.n
  BY <1>1, EntryJoins
<1>4. PICK len \in Nat : len = Len(running) /\ Len(running') = len + 1 /\ DOMAIN running' = 1 .. len + 1
  <2>1. PICK q \in Seq(Seqs) : q = running /\ Len(q) \in Nat
    BY <1>2
  <2>2. Append(q, s) \in Seq(Seqs) /\ Len(Append(q, s)) = Len(q) + 1
    OBVIOUS
  <2>3. DOMAIN Append(q, s) = 1 .. Len(Append(q, s))
    BY <2>2
  <2> QED BY <2>1, <2>2, <2>3
<1>5. running'[len + 1] = s /\ \A j \in 1..len : running'[j] = running[j] /\ j \in DOMAIN running
  BY <1>2, <1>4
<1>6. PICK n \in Nat \ {0} : n = e.n
  OBVIOUS
<1>7. OneLeft'
  <2> SUFFICES ASSUME NEW j \in 1 .. len + 1, LeftOver(running[j])'
               PROVE  j = len + 1 /\ Chunked /\ budget' <= 0
    BY <1>4 DEF OneLeft
  <2>1. CASE j = len + 1
    <3>1. ~Sampling(s)'
      BY <1>5, <2>1 DEF LeftOver, Sampling
    <3>2. ~e.sample
      BY <1>3, <3>1 DEF Sampling
    <3> QED BY <2>1, <3>2
  <2>2. CASE j # len + 1
    <3>1. j \in 1..len
      BY <2>2
    <3>2. PICK t \in Seqs \ {s} : t = running[j] /\ t = running'[j]
      BY <1>2, <1>5, <3>1
    <3>3. LeftOver(t)'
      BY <3>2 DEF LeftOver, Sampling, num_uncomputed_tokens, num_tokens
    <3>4. LeftOver(t)
      BY <1>3, <3>3, LeftStays
    <3>5. Chunked /\ budget <= 0
      BY <1>1, <1>5, <3>1, <3>2, <3>4 DEF OneLeft
    <3>6. n <= budget
      BY <1>6, <3>5
    <3> QED BY <1>2, <1>6, <3>5, <3>6
  <2> QED BY <2>1, <2>2
<1>8. VictimsDecode'
  <2>1. swapped \in Seq(Seqs)
    BY <1>1 DEF Types
  <2>2. Range(swapped) \subseteq Seqs
    BY <2>1 DEF Range
  <2>3. \A t \in Range(swapped)' : t \in Range(swapped) /\ Same(t)
    BY <2>2
  <2> QED BY <1>1, <2>3, VictimsKept
<1>9. Covered'
  <2>1. Range(running') = Range(running) \cup {s}
    BY <1>2, AppendFacts
  <2> QED BY <1>1, <1>3, <2>1 DEF Covered
<1>10. Tally'
  <2>1. CASE pc = "admit" \/ Chunked
    <3>1. budget >= 0 /\ batch_tokens + budget = MaxBatchTokens
      BY <1>1, <2>1 DEF Tally
    <3>2. budget' = budget - n /\ n <= budget
      BY <1>6, <2>1
    <3>3. PICK b \in Int, total \in Nat : b = budget /\ total = batch_tokens
      BY <1>2, <1>3
    <3>4. budget' = b - n /\ batch_tokens' = total + n
      BY <1>3, <1>6, <3>2, <3>3
    <3>5. n <= b /\ total + b = MaxBatchTokens
      BY <3>1, <3>2, <3>3
    <3>6. b - n >= 0 /\ (total + n) + (b - n) = total + b
      BY <3>5
    <3>7. budget' >= 0 /\ batch_tokens' + budget' = MaxBatchTokens
      BY <3>4, <3>5, <3>6
    <3> QED BY <2>1, <3>7 DEF Tally
  <2>2. CASE pc = "swap_in" /\ ~Chunked
    <3>1. batch_tokens' = Len(running')
      BY <1>1, <1>3, <1>4, <2>2 DEF Tally
    <3> QED BY <2>2, <3>1 DEF Tally
  <2> QED BY <2>1, <2>2
<1> QED BY <1>7, <1>8, <1>9, <1>10 DEF BudgetOK, Planned

\* A victim comes back.
LEMMA SwapInBudget ==
  ASSUME QInv, BudgetOK, SwapIn
  PROVE  BudgetOK'
<1> DEFINE E == [seq : Seqs, n : Nat \ {0}, sample : BOOLEAN]
<1>1. /\ pc = "swap_in" /\ swapped # <<>> /\ swap_in_tokens > 0
      /\ swapped' = Tail(swapped) /\ running' = Append(running, Head(swapped))
      /\ status' = [status EXCEPT ![Head(swapped)] = "RUNNING"]
      /\ budget' = IF Chunked THEN budget - swap_in_tokens ELSE budget
      /\ UNCHANGED <<token_ids, num_computed_tokens, pc>>
  BY DEF SwapIn, SwappingIn, SetStatus
<1>2. Types /\ \A t \in Seqs : Placed(t) /\ Counted(t)
  BY DEF QInv
<1>3. /\ swapped \in Seq(Seqs) /\ IsInjective(swapped)
      /\ num_computed_tokens \in [Seqs -> Nat] /\ budget \in Int
      /\ status \in [Seqs -> {"NEW", "WAITING", "RUNNING", "PREEMPTED", "FINISHED", "ABORTED"}]
      /\ DOMAIN batch = {"seqs", "swap_out", "swap_in", "num_preempted"}
  BY <1>2 DEF Types
<1>4. PICK s \in Seqs : s = Head(swapped) /\ s \in Range(swapped) /\ Range(Tail(swapped)) = Range(swapped) \ {s}
  BY <1>1, <1>3, TailFacts
<1>5. s \notin Range(running) /\ num_computed_tokens[s] < num_tokens(s) /\ num_tokens(s) \in Nat
  BY <1>2, <1>4, StepNumbers DEF Placed, Counted, Live
<1>6. PICK c \in Nat, u \in Nat \ {0} : c = num_computed_tokens[s] /\ u = num_uncomputed_tokens(s) /\ c + u = num_tokens(s)
  <2>1. PICK c \in Nat : c = num_computed_tokens[s]
    BY <1>3
  <2>2. num_tokens(s) - c \in Nat \ {0} /\ c + (num_tokens(s) - c) = num_tokens(s)
    BY <1>5, <2>1
  <2> QED BY <2>1, <2>2 DEF num_uncomputed_tokens
<1>7. PICK n \in Nat \ {0} : /\ n = swap_in_tokens
                             /\ Chunked => n <= budget /\ (n = u \/ n = budget)
                             /\ ~Chunked => n = u
  <2>1. swap_in_tokens = IF Chunked THEN Min({u, budget}) ELSE u
    BY <1>4, <1>6 DEF swap_in_tokens
  <2>2. Min({u, budget}) = IF u <= budget THEN u ELSE budget
    <3>1. u \in Int
      OBVIOUS
    <3> QED BY <1>3, <3>1, MinOfTwo
  <2>3. swap_in_tokens \in Int
    BY <1>3, <2>1, <2>2
  <2> QED BY <1>1, <1>3, <2>1, <2>2, <2>3
<1>8. PICK e \in E : e = [seq |-> s, n |-> n, sample |-> c + n = num_tokens(s)]
  <2>1. (c + n = num_tokens(s)) \in BOOLEAN
    OBVIOUS
  <2> QED BY <2>1
<1>9. batch'.seqs = Append(batch.seqs, e)
  BY <1>3, <1>4, <1>6, <1>7, <1>8 DEF SwapIn, BatchAdd
<1>10. e.seq = s /\ e.n = n /\ (~e.sample => n # u)
  BY <1>6, <1>8
<1>11. ~e.sample => Chunked /\ budget' = 0
  BY <1>1, <1>3, <1>7, <1>10
<1>12. ~Chunked => e.n = 1
  BY <1>4, <1>6, <1>7, <1>10 DEF BudgetOK, VictimsDecode
<1>13. budget' \in Int /\ (Chunked => budget' = budget - e.n /\ e.n <= budget)
  BY <1>1, <1>3, <1>7, <1>10
<1>14. \A t \in Seqs \ {s} : Same(t)
  BY <1>1, <1>3, <1>4 DEF Same, num_tokens
<1>15. \A t \in Range(swapped)' : t \in Range(swapped) \ {s}
  BY <1>1, <1>4
<1>16. running' = Append(running, s) /\ pc' = pc /\ pc \in {"swap_in", "admit"} /\ pc # "admit"
  BY <1>1, <1>4
<1> QED BY <1>5, <1>9, <1>10, <1>11, <1>12, <1>13, <1>14, <1>15, <1>16, JoinBudget

\* What a candidate would compute, behind its cached prefix.
LEMMA AdmitShare ==
  ASSUME QInv, ArrivalsOK, pc = "admit", budget > 0, preempted # <<>> \/ waiting # {}
  PROVE  \E s \in Seqs, m \in Nat, n \in Nat \ {0} :
           /\ s = candidate /\ status[s] \in {"WAITING", "PREEMPTED"}
           /\ s \notin Range(running) /\ s \notin Range(swapped)
           /\ m = Len(cached_prefix(s)) /\ m * BlockSize \in Nat /\ num_tokens(s) \in Nat
           /\ IsFiniteSet(Range(cached_prefix(s))) /\ Cardinality(Range(cached_prefix(s))) <= m
           /\ n = admit_tokens(cached_prefix(s)) /\ m * BlockSize + n <= num_tokens(s)
           /\ n # num_tokens(s) - m * BlockSize => Chunked /\ n = budget
           /\ Chunked => n <= budget
<1>1. PICK s \in Seqs : /\ s = candidate /\ status[s] \in {"WAITING", "PREEMPTED"}
                        /\ s \notin Range(running) /\ s \notin Range(swapped)
  BY CandidatePopped
<1>2. PICK t \in Nat \ {0} : t = num_tokens(s)
  <2>1. Counted(s) /\ num_computed_tokens[s] \in Nat /\ num_tokens(s) \in Nat
    BY StepNumbers DEF QInv
  <2>2. num_computed_tokens[s] < num_tokens(s)
    BY <1>1, <2>1 DEF Counted, Live
  <2> QED BY <2>1, <2>2
<1>3. PICK m \in Nat : /\ cached_prefix(s) = [j \in 1..m |-> hash_to_block[Hash(s, j)]]
                       /\ m * BlockSize < t
  BY <1>2, CachedPrefix
<1> DEFINE cached == [j \in 1..m |-> hash_to_block[Hash(s, j)]]
<1>4. Len(cached) = m /\ cached \in Surjection(1..m, Range(cached))
  <2> DEFINE at(j) == hash_to_block[Hash(s, j)]
  <2>1. cached = [j \in 1..m |-> at(j)]
    OBVIOUS
  <2> HIDE DEF at
  <2>2. DOMAIN cached = 1..m /\ Len(cached) = m
    BY <2>1
  <2>3. cached \in [1..m -> Range(cached)] /\ \A y \in Range(cached) : \E j \in 1..m : cached[j] = y
    BY <2>1, <2>2 DEF Range
  <2> QED BY <2>2, <2>3 DEF Surjection
<1> HIDE DEF cached
<1>5. IsFiniteSet(Range(cached)) /\ Cardinality(Range(cached)) <= m
  <2>1. IsFiniteSet(1..m) /\ Cardinality(1..m) = m
    BY FS_Interval, CountUpTo
  <2> QED BY <1>4, <2>1, FS_Surjection
<1>6. cached_prefix(s) = cached
  BY <1>3 DEF cached
<1>7. PICK c \in Nat : c = m * BlockSize /\ c < t
  <2>1. m * BlockSize \in Nat
    BY PoolAssumption, SMT
  <2> QED BY <1>3, <2>1
<1>8. PICK u \in Nat \ {0} : u = t - c /\ c + u = t
  BY <1>7
<1>9. admit_tokens(cached) = IF Chunked THEN Min({u, budget}) ELSE u
  BY <1>1, <1>2, <1>4, <1>7, <1>8 DEF admit_tokens
<1>10. budget \in Int /\ Min({u, budget}) = IF u <= budget THEN u ELSE budget
  <2>1. u \in Int /\ budget \in Int
    BY StepNumbers
  <2> QED BY <2>1, MinOfTwo
<1>11. PICK n \in Nat \ {0} : n = admit_tokens(cached) /\ n <= u /\ (n # u => Chunked /\ n = budget) /\ (Chunked => n <= budget)
  BY <1>9, <1>10
<1>12. c + n <= t
  BY <1>8, <1>11
<1> QED BY <1>1, <1>2, <1>4, <1>5, <1>6, <1>7, <1>8, <1>11, <1>12

\* A victim or a waiting request starts.
LEMMA AdmitBudget ==
  ASSUME QInv, ArrivalsOK, BudgetOK, Admit
  PROVE  BudgetOK'
<1> DEFINE E == [seq : Seqs, n : Nat \ {0}, sample : BOOLEAN]
<1>1. /\ pc = "admit" /\ budget > 0 /\ (preempted # <<>> \/ waiting # {}) /\ AdmitFits
      /\ running' = Append(running, candidate)
      /\ status' = [status EXCEPT ![candidate] = "RUNNING"]
      /\ UNCHANGED <<token_ids, swapped, pc>>
      /\ allocate(candidate, admit_tokens(cached_prefix(candidate)), cached_prefix(candidate))
  BY DEF Admit, Admitting, SetStatus
<1>2. Types
  BY DEF QInv
<1>3. /\ swapped \in Seq(Seqs)
      /\ num_computed_tokens \in [Seqs -> Nat] /\ budget \in Int
      /\ status \in [Seqs -> {"NEW", "WAITING", "RUNNING", "PREEMPTED", "FINISHED", "ABORTED"}]
      /\ DOMAIN batch = {"seqs", "swap_out", "swap_in", "num_preempted"}
  BY <1>2 DEF Types
<1>4. PICK s \in Seqs, m \in Nat, n \in Nat \ {0} :
        /\ s = candidate /\ s \notin Range(running) /\ s \notin Range(swapped)
        /\ m = Len(cached_prefix(s)) /\ m * BlockSize \in Nat /\ num_tokens(s) \in Nat
        /\ n = admit_tokens(cached_prefix(s)) /\ m * BlockSize + n <= num_tokens(s)
        /\ n # num_tokens(s) - m * BlockSize => Chunked /\ n = budget
  BY <1>1, AdmitShare
<1>5. n <= budget
  BY <1>1, <1>4 DEF AdmitFits
<1>6. PICK c \in Nat : c = m * BlockSize
  BY <1>4
<1>7. PICK e \in E : e = [seq |-> s, n |-> n, sample |-> c + n = num_tokens(s)]
  <2>1. (c + n = num_tokens(s)) \in BOOLEAN
    OBVIOUS
  <2> QED BY <2>1
<1>8. batch'.seqs = Append(batch.seqs, e) /\ budget' = budget - n
  BY <1>3, <1>4, <1>6, <1>7 DEF Admit, BatchAdd
<1>9. e.seq = s /\ e.n = n /\ (~e.sample => n # num_tokens(s) - c)
  <2>1. \A t \in Nat : c + n # t => n # t - c
    OBVIOUS
  <2>2. e.seq = s /\ e.n = n /\ (~e.sample => c + n # num_tokens(s))
    BY <1>7
  <2> QED BY <1>4, <2>1, <2>2
<1>10. ~e.sample => Chunked /\ budget' = 0
  BY <1>3, <1>4, <1>6, <1>8, <1>9
<1>11. budget' \in Int /\ budget' = budget - e.n /\ e.n <= budget
  BY <1>3, <1>5, <1>8, <1>9
<1>12. \A t \in Seqs \ {s} : Same(t)
  <2>1. num_computed_tokens' = [num_computed_tokens EXCEPT ![s] = Len(cached_prefix(s)) * BlockSize]
    BY <1>1, <1>4 DEF allocate
  <2> QED BY <1>1, <1>3, <1>4, <2>1 DEF Same, num_tokens
<1>13. \A t \in Range(swapped)' : t \in Range(swapped) \ {s}
  BY <1>1, <1>4
<1>14. running' = Append(running, s) /\ pc' = pc /\ pc \in {"swap_in", "admit"} /\ pc # "swap_in"
  BY <1>1, <1>4
<1> QED BY <1>4, <1>8, <1>9, <1>10, <1>11, <1>12, <1>13, <1>14, JoinBudget

-----------------------------------------------------------------------------
\* The steps that take somebody out of `running`, or fail a request.

LEMMA FailBudget ==
  ASSUME QInv, BudgetOK, NEW s \in Seqs, s \notin Range(running), pc \in {"swap_in", "admit"},
         running' = running, UNCHANGED stepVars, Fail(s), \A t \in Range(swapped)' : t \in Range(swapped)
  PROVE  BudgetOK'
<1>1. /\ UNCHANGED <<pc, batch, plan, budget, i, token_ids, num_computed_tokens>>
      /\ status' = [status EXCEPT ![s] = "FINISHED"]
  BY DEF stepVars, Fail, SetStatus
<1>2. OneLeft /\ VictimsDecode /\ Covered /\ Tally /\ Types
  BY DEF BudgetOK, QInv
<1>3. status \in [Seqs -> {"NEW", "WAITING", "RUNNING", "PREEMPTED", "FINISHED", "ABORTED"}] /\ swapped \in Seq(Seqs)
  BY <1>2 DEF Types
<1>4. \A t \in Seqs : Same(t)
  BY <1>1, <1>3 DEF Same, num_tokens
<1>5. Range(running) \subseteq Seqs /\ Range(swapped) \subseteq Seqs
  <2>1. running \in Seq(Seqs)
    BY StepNumbers
  <2> QED BY <1>3, <2>1 DEF Range
<1>6. OneLeft'
  BY <1>1, <1>2, <1>4, <1>5, LeftKept DEF OneLeft
<1>7. VictimsDecode'
  BY <1>2, <1>4, <1>5, VictimsKept
<1>8. Awaiting' = Awaiting /\ batch_tokens' = batch_tokens
  BY <1>1, <1>2, EntriesStay
<1>9. Covered' /\ Tally'
  BY <1>1, <1>2, <1>8 DEF Covered, Tally
<1> QED BY <1>1, <1>6, <1>7, <1>9 DEF BudgetOK, Planned

LEMMA FailSwapInBudget ==
  ASSUME QInv, BudgetOK, FailSwapIn
  PROVE  BudgetOK'
<1>1. /\ pc = "swap_in" /\ swapped # <<>> /\ Fail(Head(swapped)) /\ swapped' = Tail(swapped)
      /\ running' = running /\ UNCHANGED stepVars
  BY DEF FailSwapIn, SwappingIn
<1>2. swapped \in Seq(Seqs) /\ IsInjective(swapped)
  BY DEF QInv, Types
<1>3. PICK s \in Seqs : s = Head(swapped) /\ s \in Range(swapped) /\ Range(Tail(swapped)) = Range(swapped) \ {s}
  BY <1>1, <1>2, TailFacts
<1>4. s \notin Range(running)
  BY <1>1, <1>3 DEF QInv, Placed
<1>5. \A t \in Range(swapped)' : t \in Range(swapped)
  BY <1>1, <1>3
<1> QED BY <1>1, <1>3, <1>4, <1>5, FailBudget

LEMMA FailAdmitBudget ==
  ASSUME QInv, ArrivalsOK, BudgetOK, FailAdmit
  PROVE  BudgetOK'
<1>1. /\ pc = "admit" /\ (preempted # <<>> \/ waiting # {}) /\ Fail(candidate)
      /\ running' = running /\ swapped' = swapped /\ UNCHANGED stepVars
  BY DEF FailAdmit, Admitting
<1>2. PICK s \in Seqs : s = candidate /\ s \notin Range(running)
  BY <1>1, CandidatePopped
<1> QED BY <1>1, <1>2, FailBudget

LEMMA FailAloneBudget ==
  ASSUME QInv, BudgetOK, FailAlone
  PROVE  BudgetOK'
<1>1. /\ pc = "running" /\ i <= Len(running) /\ Fail(current) /\ running' = <<>> /\ swapped' = swapped
      /\ UNCHANGED <<pc, batch, plan, budget, i, token_ids, num_computed_tokens>>
  BY DEF FailAlone, OutOfBlocks, Scheduling, stepVars, Fail
<1>2. OneLeft /\ VictimsDecode /\ Planned /\ Tally /\ Types
  BY DEF BudgetOK, QInv
<1>3. VictimsDecode'
  BY <1>1, <1>2 DEF VictimsDecode, num_uncomputed_tokens, num_tokens
<1>4. batch_tokens = i - 1 /\ batch_tokens' = batch_tokens
  <2>1. batch_tokens' = batch_tokens
    BY <1>1, <1>2, EntriesStay
  <2> QED BY <1>1, <1>2, <2>1 DEF Tally
<1>5. DOMAIN running' = {} /\ Range(running') = {}
  BY <1>1 DEF Range
<1>6. Planned'
  <2>1. Shares(plan)'
    BY <1>1, <1>5 DEF Shares
  <2> QED BY <1>1, <1>2, <2>1 DEF Planned
<1>7. OneLeft' /\ Covered'
  BY <1>1, <1>5 DEF OneLeft, Covered
<1>8. Tally'
  BY <1>1, <1>4 DEF Tally
<1> QED BY <1>3, <1>6, <1>7, <1>8 DEF BudgetOK

\* The newest makes room.  If one was mid-prefill, it was that one.
LEMMA EvictBudget ==
  ASSUME QInv, BudgetOK, Evict
  PROVE  BudgetOK'
<1>1. /\ pc = "running" /\ i <= Len(running) /\ Preempt(victim) /\ running' = Without(running, victim)
      /\ UNCHANGED <<pc, plan, budget, i, token_ids>>
  BY DEF Evict, OutOfBlocks, Scheduling, Preempt
<1>2. /\ OneLeft /\ VictimsDecode /\ Shares(plan) /\ Covered /\ Tally /\ Types
      /\ \A k \in DOMAIN batch.seqs : batch.seqs[k].n = plan[batch.seqs[k].seq]
  BY <1>1 DEF BudgetOK, Planned, QInv
<1>3. /\ running \in Seq(Seqs) /\ IsInjective(running) /\ swapped \in Seq(Seqs) /\ IsInjective(swapped)
      /\ num_computed_tokens \in [Seqs -> Nat]
      /\ status \in [Seqs -> {"NEW", "WAITING", "RUNNING", "PREEMPTED", "FINISHED", "ABORTED"}]
      /\ DOMAIN batch = {"seqs", "swap_out", "swap_in", "num_preempted"}
  BY <1>2 DEF Types
<1>4. PICK len \in Nat \ {0} : len = Len(running)
  <2>1. i \in Nat \ {0} /\ Len(running) \in Nat
    BY StepNumbers
  <2>2. Len(running) \in Nat \ {0}
    BY <1>1, <2>1
  <2> QED BY <2>2
<1>5. running # <<>> /\ DOMAIN running = 1..len /\ i \in 1..len
      /\ Len(running) <= MaxNumSeqs /\ (Chunked => MaxNumSeqs <= MaxBatchTokens)
      /\ MaxNumSeqs \in Nat /\ MaxBatchTokens \in Nat
  BY <1>1, <1>4, StepNumbers
<1>6. PICK v \in Seqs : v = victim /\ v = running[len] /\ v \in Range(running)
  <2>1. Last(running) \in Range(running) /\ Last(running) = running[len]
    BY <1>3, <1>4, <1>5, WithoutLast
  <2> QED BY <1>3, <2>1, ListLength DEF victim
<1>7. PICK rest \in Seq(Seqs) :
        /\ rest = running' /\ Len(rest) = len - 1 /\ DOMAIN rest = 1 .. len - 1
        /\ \A j \in 1 .. len - 1 : rest[j] = running[j]
  <2>1. Without(running, v) \in Seq(Seqs)
    BY <1>3, WithoutFacts
  <2>2. v = Last(running)
    BY <1>6 DEF victim
  <2>3. Len(Without(running, v)) = len - 1 /\ \A j \in 1 .. len - 1 : Without(running, v)[j] = running[j]
    BY <1>3, <1>4, <1>5, <2>2, WithoutLast
  <2>4. DOMAIN Without(running, v) = 1 .. len - 1
    BY <2>1, <2>3
  <2> QED BY <1>1, <1>6, <2>1, <2>3, <2>4
<1>8. /\ batch'.seqs = batch.seqs
      /\ \A t \in Seqs \ {v} : Same(t) /\ num_uncomputed_tokens(t)' = num_uncomputed_tokens(t)
      /\ \/ swapped' = <<v>> \o swapped /\ num_computed_tokens' = num_computed_tokens
         \/ swapped' = swapped
  BY <1>1, <1>3, <1>6 DEF Preempt, SetStatus, swap_out, Same, num_uncomputed_tokens, num_tokens
<1>9. ASSUME NEW j \in 1 .. len - 1
      PROVE  /\ rest[j] = running[j] /\ rest[j] \in Seqs \ {v} /\ j \in DOMAIN running /\ j < len
             /\ plan[rest[j]] = 1 /\ num_uncomputed_tokens(rest[j]) = 1
             /\ num_uncomputed_tokens(rest[j])' = 1
  <2>1. j \in DOMAIN running /\ j < len /\ len \in DOMAIN running /\ rest[j] = running[j]
    BY <1>5, <1>7
  <2>2. running[j] # v
    BY <1>3, <1>6, <2>1 DEF IsInjective
  <2>3. PICK t \in Seqs \ {v} : t = running[j]
    BY <1>3, <2>1, <2>2
  <2>4. plan[t] = 1 /\ num_uncomputed_tokens(t) = 1
    BY <1>2, <1>4, <2>1, <2>3 DEF Shares
  <2>5. num_uncomputed_tokens(t)' = 1
    BY <1>8, <2>3, <2>4
  <2> QED BY <1>7, <2>1, <2>3, <2>4, <2>5 DEF num_uncomputed_tokens, num_tokens
<1>10. OneLeft'
  <2> SUFFICES ASSUME NEW j \in 1 .. len - 1, LeftOver(running[j])' PROVE FALSE
    BY <1>7 DEF OneLeft
  <2>1. PICK t \in Seqs : t = rest[j] /\ num_uncomputed_tokens(t)' = 1
    BY <1>9 DEF num_uncomputed_tokens, num_tokens
  <2>2. LeftOver(t)'
    BY <1>7, <2>1 DEF LeftOver, Sampling, num_uncomputed_tokens, num_tokens
  <2> QED BY <2>1, <2>2 DEF LeftOver
<1>11. VictimsDecode'
  <2> SUFFICES ASSUME ~Chunked, NEW t \in Range(swapped)' PROVE num_uncomputed_tokens(t)' = 1
    BY DEF VictimsDecode
  <2>1. v \notin Range(swapped) /\ status[v] = "RUNNING"
    BY <1>1, <1>6, RunningNeeds DEF QInv, Placed
  <2>2. Range(swapped) \subseteq Seqs
    BY <1>3 DEF Range
  <2>3. CASE swapped' = swapped
    BY <1>2, <1>8, <2>1, <2>2, <2>3 DEF VictimsDecode
  <2>4. CASE swapped' = <<v>> \o swapped /\ num_computed_tokens' = num_computed_tokens
    <3>1. Range(swapped') = Range(swapped) \cup {v}
      BY <1>3, <2>1, <2>4, PrependFacts
    <3>2. num_uncomputed_tokens(v) = 1
      BY <1>2, <1>4, <1>5, <1>6 DEF Shares
    <3>3. num_uncomputed_tokens(t)' = num_uncomputed_tokens(t)
      BY <1>1, <2>4 DEF num_uncomputed_tokens, num_tokens
    <3> QED BY <1>2, <3>1, <3>2, <3>3 DEF VictimsDecode
  <2> QED BY <1>8, <2>3, <2>4
<1>12. Planned'
  <2>1. Shares(plan)'
    <3>1. \A j \in 1 .. len - 1 : /\ plan'[rest[j]] = 1 /\ num_uncomputed_tokens(rest[j])' = 1
      BY <1>1, <1>9
    <3>2. ASSUME Chunked, rest # <<>> PROVE len - 1 \in 1 .. len - 1 /\ len - 1 - 1 + 1 <= MaxBatchTokens
      BY <1>4, <1>5, <1>7, <3>2
    <3> QED BY <1>7, <3>1, <3>2 DEF Shares, num_uncomputed_tokens, num_tokens
  <2> QED BY <1>1, <1>2, <1>8, <2>1 DEF Planned
<1>13. Awaiting' = Awaiting /\ batch_tokens' = batch_tokens
  BY <1>1, <1>2, <1>8, EntriesStay
<1>14. Covered'
  BY <1>1, <1>2, <1>7, <1>9, <1>13 DEF Covered
<1>15. Tally'
  <2>1. batch_tokens = i - 1
    BY <1>1, <1>2 DEF Tally
  <2>2. ASSUME rest # <<>>, i > len - 1 PROVE i - 1 = len - 1 - 1 + plan[rest[len - 1]]
    <3>1. len - 1 \in 1 .. len - 1
      BY <1>7, <2>2
    <3>2. plan[rest[len - 1]] = 1
      BY <1>9, <3>1
    <3>3. \A a, b \in Nat : a <= b /\ a > b - 1 => a - 1 = b - 1 - 1 + 1
      OBVIOUS
    <3>4. i \in Nat /\ i <= len
      BY <1>5
    <3> QED BY <2>2, <3>2, <3>3, <3>4
  <2> QED BY <1>1, <1>7, <1>13, <2>1, <2>2 DEF Tally
<1> QED BY <1>10, <1>11, <1>12, <1>14, <1>15 DEF BudgetOK

LEMMA LastStaysLast ==
  ASSUME NEW q \in Seq(Seqs), IsInjective(q), NEW T, NEW j \in DOMAIN Filter(q, T)
  PROVE  \E m \in DOMAIN q : Filter(q, T)[j] = q[m] /\ (m = Len(q) => j = Len(Filter(q, T)))
<1>1. PICK f \in Seq(Seqs) : f = Filter(q, T)
  BY FilterFacts
<1>2. PICK place \in [DOMAIN f -> DOMAIN q] :
        /\ \A k \in DOMAIN f : f[k] = q[place[k]]
        /\ \A k, l \in DOMAIN f : k < l => place[k] < place[l]
  BY <1>1, FilterPlaces
<1>3. j \in DOMAIN f /\ DOMAIN f = 1..Len(f) /\ Len(f) \in Nat /\ DOMAIN q = 1..Len(q) /\ Len(q) \in Nat
  BY <1>1
<1>4. PICK m \in DOMAIN q : m = place[j]
  BY <1>2, <1>3
<1>5. m = Len(q) => j = Len(f)
  <2> SUFFICES ASSUME m = Len(q), j # Len(f) PROVE FALSE
    OBVIOUS
  <2>1. Len(f) \in DOMAIN f /\ j < Len(f)
    BY <1>3
  <2>2. place[j] < place[Len(f)]
    BY <1>2, <1>3, <2>1
  <2>3. place[Len(f)] \in 1..Len(q)
    BY <1>2, <1>3, <2>1
  <2> QED BY <1>3, <1>4, <2>2, <2>3
<1> QED BY <1>1, <1>2, <1>3, <1>4, <1>5

\* Whoever stays the last of those that stay was the last of all.
LEMMA LeaversKeep ==
  ASSUME QInv, OneLeft, pc # "fail_all", pc' \notin {"swap_in", "admit"},
         running' = running \/ \E T : running' = Filter(running, T),
         \A t \in Seqs : LeftOver(t)' => LeftOver(t)
  PROVE  OneLeft'
<1>1. /\ running \in Seq(Seqs) /\ IsInjective(running)
      /\ \A m \in DOMAIN running : running[m] \in Seqs
  BY StepNumbers
<1> SUFFICES ASSUME NEW j \in DOMAIN running', LeftOver(running[j])'
             PROVE  j = Len(running') /\ Chunked
  BY DEF OneLeft
<1>2. PICK m \in DOMAIN running : running'[j] = running[m] /\ (m = Len(running) => j = Len(running'))
  <2>1. CASE running' = running
    BY <2>1
  <2>2. CASE \E T : running' = Filter(running, T)
    <3>1. PICK T : running' = Filter(running, T)
      BY <2>2
    <3> QED BY <1>1, <3>1, LastStaysLast
  <2> QED BY <2>1, <2>2
<1>3. PICK t \in Seqs : t = running[m] /\ t = running'[j]
  BY <1>1, <1>2
<1>4. LeftOver(t)'
  BY <1>3 DEF LeftOver, Sampling, num_uncomputed_tokens, num_tokens
<1>5. LeftOver(running[m])
  BY <1>3, <1>4
<1> QED BY <1>2, <1>5 DEF OneLeft

LEMMA AddBudget ==
  ASSUME QInv, BudgetOK, NEW s \in Seqs, add(s)
  PROVE  BudgetOK'
<1>1. /\ pc = "idle" /\ status' = [status EXCEPT ![s] = "WAITING"]
      /\ UNCHANGED <<token_ids, num_computed_tokens, running, swapped, pc, batch, plan, budget, i>>
  BY DEF add, SetStatus, stepVars
<1>2. OneLeft /\ VictimsDecode /\ Types
  BY DEF BudgetOK, QInv
<1>3. /\ status \in [Seqs -> {"NEW", "WAITING", "RUNNING", "PREEMPTED", "FINISHED", "ABORTED"}]
      /\ swapped \in Seq(Seqs)
  BY <1>2 DEF Types
<1>4. \A t \in Seqs : Same(t)
  BY <1>1, <1>3 DEF Same, num_tokens
<1>5. Range(swapped) \subseteq Seqs /\ \A j \in DOMAIN running : running[j] \in Seqs
  <2>1. Range(swapped) \subseteq Seqs
    BY <1>3 DEF Range
  <2>2. \A j \in DOMAIN running : running[j] \in Seqs
    BY StepNumbers
  <2> QED BY <2>1, <2>2
<1>6. OneLeft'
  <2>1. \A t \in Range(running) : Same(t)
    BY <1>4, <1>5 DEF Range
  <2> QED BY <1>1, <1>2, <2>1, LeftKept
<1>7. VictimsDecode'
  BY <1>1, <1>2, <1>4, <1>5, VictimsKept
<1> QED BY <1>1, <1>6, <1>7 DEF BudgetOK, Planned, Covered, Tally

LEMMA AbortBudget ==
  ASSUME QInv, BudgetOK, NEW s \in Seqs, abort(s), pc \in {"idle", "fail_all"}
  PROVE  BudgetOK'
<1>1. Ends(s, "ABORTED")
  BY AbortEffect
<1>2. /\ UNCHANGED <<token_ids, num_computed_tokens, pc, batch, plan, budget, i>>
      /\ status' = [status EXCEPT ![s] = "ABORTED"] /\ Range(swapped)' = Range(swapped) \ {s}
  BY <1>1 DEF Ends
<1>3. OneLeft /\ VictimsDecode /\ Types
  BY DEF BudgetOK, QInv
<1>4. /\ status \in [Seqs -> {"NEW", "WAITING", "RUNNING", "PREEMPTED", "FINISHED", "ABORTED"}]
      /\ swapped \in Seq(Seqs)
  BY <1>3 DEF Types
<1>5. \A t \in Seqs : Same(t)
  BY <1>2, <1>4 DEF Same, num_tokens
<1>6. OneLeft'
  <2>1. CASE pc = "fail_all"
    BY <1>2, <2>1 DEF OneLeft
  <2>2. CASE pc = "idle"
    <3>1. running' = running \/ running' = Filter(running, Seqs \ {s})
      BY DEF abort, Without
    <3>2. Pending' = Pending
      BY <1>2 DEF Pending
    <3>3. ASSUME NEW t \in Seqs, LeftOver(t)' PROVE LeftOver(t)
      BY <1>2, <1>5, <3>2, <3>3, LeftStays
    <3> QED BY <1>2, <1>3, <2>2, <3>1, <3>3, LeaversKeep
  <2> QED BY <2>1, <2>2
<1>7. VictimsDecode'
  <2>1. Range(swapped) \subseteq Seqs
    BY <1>4 DEF Range
  <2> QED BY <1>2, <1>3, <1>5, <2>1, VictimsKept
<1> QED BY <1>2, <1>6, <1>7 DEF BudgetOK, Planned, Covered, Tally

\* An entry that samples leaves one token to compute, the new one; one that
\* does not leaves less than before.
LEMMA UpdateBudget ==
  ASSUME QInv, BudgetOK, Update
  PROVE  BudgetOK'
<1>1. Types /\ BatchOK /\ OneLeft /\ VictimsDecode /\ \A t \in Seqs : Placed(t)
  BY DEF QInv, BudgetOK
<1>2. /\ pc = "update" /\ i \in DOMAIN batch.seqs
      /\ IF i = Len(batch.seqs)
         THEN /\ running' = IF any_finished THEN Filter(running, {r \in Seqs : status'[r] = "RUNNING"}) ELSE running
              /\ pc' = "idle"
         ELSE i' = i + 1 /\ UNCHANGED <<running, pc, batch>>
  BY <1>1, UpdateEntry, UpdateEnds
<1>3. PICK s \in Seqs, n \in Nat \ {0} :
        /\ s = batch.seqs[i].seq /\ n = batch.seqs[i].n /\ batch.seqs[i].sample \in BOOLEAN
  BY <1>1, <1>2, EntryType
<1>4. /\ status[s] = "RUNNING"
      /\ batch.seqs[i].sample <=> num_computed_tokens[s] + n = num_tokens(s)
  <2>1. i \in Pending
    BY <1>1, UpdateEntry
  <2>2. Schedulable(batch.seqs[i])
    BY <1>1, <2>1 DEF BatchOK
  <2> QED BY <1>3, <2>2 DEF Schedulable
<1>5. PICK c \in Nat, t \in Nat : c = num_computed_tokens[s] /\ t = num_tokens(s) /\ token_ids[s] \in Seq(Tokens)
  BY <1>1, StepNumbers DEF Types
<1>6. num_computed_tokens' = [num_computed_tokens EXCEPT ![s] = c + n]
  BY <1>3, <1>5 DEF Update
<1>7. swapped' = swapped /\ status'[s] \in {status[s], "FINISHED"}
      /\ \A r \in Seqs \ {s} : status'[r] = status[r] /\ token_ids'[r] = token_ids[r]
                               /\ num_computed_tokens'[r] = num_computed_tokens[r]
  BY <1>3, UpdateEffect
<1>8. ASSUME NEW r \in Seqs, r # s
      PROVE  Same(r)
  BY <1>7, <1>8 DEF Same, num_tokens
<1>9. \A k \in Pending : k # i => k \in Pending' /\ batch'.seqs[k] = batch.seqs[k]
  <2>1. PICK l \in Seq([seq : Seqs, n : Nat \ {0}, sample : BOOLEAN]) : l = batch.seqs
    BY <1>1 DEF Types
  <2>2. i \in Nat /\ i \in 1..Len(l)
    BY <1>2, <2>1
  <2> SUFFICES ASSUME NEW k \in DOMAIN l, k > i
               PROVE  k \in Pending' /\ batch'.seqs[k] = batch.seqs[k]
    BY <1>2, <2>1, <2>2 DEF Pending
  <2>3. k \in 1..Len(l) /\ i # Len(l) /\ k >= i + 1
    BY <2>1, <2>2
  <2> QED BY <1>2, <2>1, <2>3 DEF Pending
<1>10. ASSUME NEW r \in Seqs, LeftOver(r)'
       PROVE  LeftOver(r)
  <2>1. CASE r # s
    BY <1>3, <1>8, <1>9, <1>10, <2>1, LeftStays
  <2>2. CASE r = s
    <3>1. num_uncomputed_tokens(s)' > 1
      BY <1>10, <2>2 DEF LeftOver
    <3>2. DOMAIN num_computed_tokens = Seqs /\ DOMAIN token_ids = Seqs
      BY <1>1 DEF Types
    <3>3. num_computed_tokens'[s] = c + n
      BY <1>6, <3>2
    <3>4. ~batch.seqs[i].sample
      <4> SUFFICES ASSUME batch.seqs[i].sample PROVE FALSE
        OBVIOUS
      <4>1. PICK x \in Tokens : token_ids' = [token_ids EXCEPT ![s] = Append(@, x)]
        BY <1>3 DEF Update
      <4>2. Len(token_ids'[s]) = t + 1
        BY <1>5, <3>2, <4>1 DEF num_tokens
      <4>3. num_uncomputed_tokens(s)' = t + 1 - (c + n) /\ c + n = t
        BY <1>4, <1>5, <3>3, <4>2 DEF num_uncomputed_tokens, num_tokens
      <4> QED BY <1>5, <3>1, <4>3
    <3>5. token_ids' = token_ids
      BY <1>2, <3>4 DEF Update
    <3>6. num_uncomputed_tokens(s)' = t - (c + n) /\ num_uncomputed_tokens(s) = t - c
      BY <1>5, <3>3, <3>5 DEF num_uncomputed_tokens, num_tokens
    <3>7. num_uncomputed_tokens(s) > 1
      BY <1>5, <3>1, <3>6
    <3>8. ~Sampling(s)
      BY <1>1, <1>2, <1>3, <3>4 DEF Sampling, BatchOK, Pending
    <3> QED BY <1>4, <2>2, <3>7, <3>8 DEF LeftOver
  <2> QED BY <2>1, <2>2
<1>11. pc' \in {"idle", "update"} /\ (running' = running \/ \E T : running' = Filter(running, T))
  BY <1>2
<1>12. OneLeft'
  BY <1>1, <1>2, <1>10, <1>11, LeaversKeep
<1>13. VictimsDecode'
  <2>1. swapped \in Seq(Seqs)
    BY <1>1 DEF Types
  <2>2. \A r \in Range(swapped) : r \in Seqs /\ r # s
    BY <1>1, <1>4, <2>1 DEF Placed, Range
  <2> QED BY <1>1, <1>7, <1>8, <2>2, VictimsKept
<1> QED BY <1>11, <1>12, <1>13 DEF BudgetOK, Planned, Covered, Tally

LEMMA StutterBudget == BudgetOK /\ UNCHANGED vars => BudgetOK'
BY DEF BudgetOK, OneLeft, LeftOver, Sampling, Pending, VictimsDecode, Planned, Shares, Covered, Awaiting, Tally,
       batch_tokens, num_uncomputed_tokens, num_tokens,
       vars, poolVars, gpuVars, cpuVars, seqVars, queueVars, waitingVars, stepVars

LEMMA InitBudget == Init => BudgetOK
<1> SUFFICES ASSUME Init PROVE BudgetOK
  OBVIOUS
<1>1. pc = "idle" /\ running = <<>> /\ swapped = <<>>
  BY DEF Init
<1>2. DOMAIN running = {} /\ Range(swapped) = {}
  BY <1>1 DEF Range
<1> QED BY <1>1, <1>2 DEF BudgetOK, OneLeft, VictimsDecode, Planned, Covered, Tally

LEMMA NextBudget ==
  ASSUME "update" \notin FailPoints, IInv, BudgetOK, [Next]_vars
  PROVE  BudgetOK'
<1> QInv /\ ArrivalsOK
  BY DEF IInv
<1>1. ASSUME NEW s \in Seqs, add(s) PROVE BudgetOK'
  BY <1>1, AddBudget
<1>2. ASSUME NEW s \in Seqs, AbortRequest(s) PROVE BudgetOK'
  BY <1>2, AbortBudget DEF AbortRequest
<1>3. ASSUME NEW s \in Seqs, FailOne(s) PROVE BudgetOK'
  BY <1>3, AbortBudget DEF FailOne
<1>4. CASE BeginStep
  BY <1>4, BeginStepBudget
<1>5. CASE ScheduleRunning
  BY <1>5, ScheduleRunningBudget
<1>6. CASE Evict
  BY <1>6, EvictBudget
<1>7. CASE FailAlone
  BY <1>7, FailAloneBudget
<1>8. CASE EndRunning
  BY <1>8, EndRunningBudget
<1>9. CASE SwapIn
  BY <1>9, SwapInBudget
<1>10. CASE FailSwapIn
  BY <1>10, FailSwapInBudget
<1>11. CASE EndSwapIn
  BY <1>11, EndSwapInBudget
<1>12. CASE Admit
  BY <1>12, AdmitBudget
<1>13. CASE FailAdmit
  BY <1>13, FailAdmitBudget
<1>14. CASE EndAdmit
  BY <1>14, EndAdmitBudget
<1>15. CASE EmptyStep \/ Execute
  BY <1>15, ExecuteBudget
<1>16. CASE ExecuteFails
  BY <1>16, ExecuteFailsBudget
<1>17. CASE Update
  BY <1>17, UpdateBudget
<1>18. CASE UpdateFails
  BY <1>18 DEF UpdateFails
<1>19. CASE EndFailAll
  BY <1>19, EndFailAllBudget
<1>20. CASE UNCHANGED vars
  BY <1>20, StutterBudget
<1> QED
  BY <1>1, <1>2, <1>3, <1>4, <1>5, <1>6, <1>7, <1>8, <1>9, <1>10, <1>11, <1>12, <1>13, <1>14, <1>15,
     <1>16, <1>17, <1>18, <1>19, <1>20 DEF Next, Step, Bookkeep, Request

LEMMA BudgetKept ==
  ASSUME "update" \notin FailPoints
  PROVE  Spec => [](IInv /\ BudgetOK)
<1>1. Init => IInv /\ BudgetOK
  BY InitInv, InitBudget
<1>2. IInv /\ BudgetOK /\ [Next]_vars => IInv' /\ BudgetOK'
  BY NextInv, NextBudget
<1> QED BY <1>1, <1>2, PTL DEF Spec

LEMMA OnePrefillInv == IInv /\ BudgetOK => OnePrefill
<1> SUFFICES ASSUME IInv, BudgetOK, pc = "idle", NEW k \in DOMAIN running, num_uncomputed_tokens(running[k]) > 1
             PROVE  k = Len(running)
  BY DEF OnePrefill
<1>1. QInv
  BY DEF IInv
<1>2. status[running[k]] = "RUNNING"
  BY <1>1, StepNumbers, RunningNeeds
<1>3. ~Sampling(running[k])
  BY <1>1 DEF Sampling, Pending, QInv, BatchOK
<1> QED BY <1>2, <1>3 DEF BudgetOK, OneLeft, LeftOver

\* "At most one sequence is ever mid-prefill and it is always the newest"
\* (docs/DESIGN.md): between steps only the last of `running` needs more than a
\* token, whatever was chunked, preempted, swapped, failed or aborted before.
THEOREM OneIsMidPrefill ==
  ASSUME "update" \notin FailPoints
  PROVE  Spec => []OnePrefill
BY BudgetKept, OnePrefillInv, PTL

LEMMA EveryRunningAdvancesInv == IInv /\ BudgetOK => EveryRunningAdvances
<1> SUFFICES ASSUME IInv, BudgetOK, Chunked, pc = "execute"
             PROVE  Range(running) = {batch.seqs[k].seq : k \in DOMAIN batch.seqs}
  BY DEF EveryRunningAdvances
<1>1. QInv /\ Types /\ \A s \in Seqs : Placed(s)
  BY DEF IInv, QInv
<1>2. Awaiting = {batch.seqs[k].seq : k \in DOMAIN batch.seqs}
  BY PendingAll
<1>3. Range(running) \subseteq Awaiting
  BY DEF BudgetOK, Covered
<1>4. Awaiting \subseteq Range(running)
  <2> SUFFICES ASSUME NEW k \in DOMAIN batch.seqs
               PROVE  batch.seqs[k].seq \in Range(running)
    BY <1>2
  <2>1. PICK s \in Seqs : s = batch.seqs[k].seq
    BY <1>1, EntryType
  <2>2. s \in Awaiting
    BY <1>2, <2>1
  <2>3. status[s] = "RUNNING"
    BY <1>1, <2>2, AwaitingRun
  <2> QED BY <1>1, <2>1, <2>3 DEF Placed
<1> QED BY <1>2, <1>3, <1>4

\* A chunked step leaves no running sequence out: the decodes always fit, and
\* whatever is preempted or admitted beside it, the one sequence that is
\* mid-prefill always finds a token of budget left.
THEOREM NobodyIsLeftOut ==
  ASSUME "update" \notin FailPoints
  PROVE  Spec => []EveryRunningAdvances
BY BudgetKept, EveryRunningAdvancesInv, PTL

LEMMA WithinBudgetInv ==
  ASSUME Chunked \/ MaxNumSeqs <= MaxBatchTokens
  PROVE  IInv /\ BudgetOK => WithinBudget
<1> SUFFICES ASSUME IInv, BudgetOK, pc = "execute" PROVE batch_tokens <= MaxBatchTokens
  BY DEF WithinBudget
<1>1. batch_tokens \in Nat /\ MaxBatchTokens \in Nat /\ MaxNumSeqs \in Nat /\ (Chunked => MaxNumSeqs <= MaxBatchTokens)
  BY StepNumbers DEF IInv
<1>2. batch_tokens <= MaxBatchTokens \/ (~Chunked /\ batch_tokens <= MaxNumSeqs)
  BY DEF BudgetOK, Tally
<1> QED BY <1>1, <1>2

\* The batch of a step fits max_batch_tokens, the size the buffers of the runner
\* and its memory profile are made for: the planned tokens, the victims that come
\* back and the admitted requests together.  EngineConfig.resolve demands room
\* for a token of each running sequence of chunked steps only; without that room
\* a batch of decodes is larger, as the run SchedBudget shows.
THEOREM BatchFitsBudget ==
  ASSUME "update" \notin FailPoints, Chunked \/ MaxNumSeqs <= MaxBatchTokens
  PROVE  Spec => []WithinBudget
BY BudgetKept, WithinBudgetInv, PTL

-----------------------------------------------------------------------------
\* A step that did nothing found nobody to work for.

\* With nobody running and nothing in the batch, whoever waits first starts or
\* is refused.
LEMMA AloneIsAdmitted ==
  ASSUME IInv, C!IInv, BudgetOK, pc = "admit", batch.seqs = <<>>, running = <<>>,
         preempted # <<>> \/ waiting # {}
  PROVE  Admitting /\ (oversized \/ AdmitFits)
<1>1. QInv /\ ArrivalsOK /\ \A t \in Seqs : Counted(t)
  BY DEF IInv, QInv
<1>2. /\ budget \in Int /\ MaxBatchTokens \in Nat /\ MaxNumSeqs \in Nat \ {0}
      /\ (Chunked => MaxNumSeqs <= MaxBatchTokens)
  BY <1>1, StepNumbers
<1>3. budget = MaxBatchTokens
  <2>1. batch_tokens = 0
    BY EmptyTally
  <2>2. batch_tokens + budget = MaxBatchTokens
    BY DEF BudgetOK, Tally
  <2> QED BY <1>2, <2>1, <2>2
<1>4. ~Chunked => \A s \in Seqs : status[s] \in {"WAITING", "PREEMPTED"} => num_tokens(s) <= MaxBatchTokens /\ 0 < MaxBatchTokens
  <2> SUFFICES ASSUME ~Chunked, NEW s \in Seqs, status[s] \in {"WAITING", "PREEMPTED"}
               PROVE  num_tokens(s) <= MaxBatchTokens /\ 0 < MaxBatchTokens
    OBVIOUS
  <2>1. PICK t \in Nat, p \in Nat, m \in Nat, c \in Nat :
          /\ t = num_tokens(s) /\ p = Len(Prompt[s]) /\ m = MaxTokens[s] /\ c = num_computed_tokens[s]
    BY <1>1, StepNumbers, ConfigAssumption
  <2>2. c < t /\ t < p + m
    BY <1>1, <2>1 DEF Counted, Live
  <2>3. p + m <= MaxModelLen /\ MaxModelLen <= MaxBatchTokens /\ MaxModelLen \in Nat
    BY <2>1, ConfigAssumption
  <2> QED BY <1>2, <2>1, <2>2, <2>3
<1>5. budget > 0
  <2>1. CASE Chunked
    BY <1>2, <1>3, <2>1
  <2>2. CASE ~Chunked
    <3>1. candidate \in Seqs /\ status[candidate] \in {"WAITING", "PREEMPTED"}
      BY <1>1, CandidatePopped
    <3> QED BY <1>2, <1>3, <1>4, <2>2, <3>1
  <2> QED BY <2>1, <2>2
<1>6. Admitting
  <2>1. Len(running) = 0
    OBVIOUS
  <2> QED BY <1>2, <1>5, <2>1 DEF Admitting
<1>7. PICK s \in Seqs, m \in Nat, n \in Nat \ {0} :
        /\ s = candidate /\ status[s] \in {"WAITING", "PREEMPTED"}
        /\ m = Len(cached_prefix(s)) /\ m * BlockSize \in Nat /\ num_tokens(s) \in Nat
        /\ IsFiniteSet(Range(cached_prefix(s))) /\ Cardinality(Range(cached_prefix(s))) <= m
        /\ n = admit_tokens(cached_prefix(s)) /\ m * BlockSize + n <= num_tokens(s)
        /\ Chunked => n <= budget
  BY <1>1, <1>5, AdmitShare
<1>8. PICK c \in Nat, t \in Nat : c = m * BlockSize /\ t = num_tokens(s)
  BY <1>7
<1>9. n <= budget
  <2>1. CASE Chunked
    BY <1>7, <2>1
  <2>2. CASE ~Chunked
    <3>1. t <= budget /\ c + n <= t
      BY <1>3, <1>4, <1>7, <1>8, <2>2
    <3> QED BY <1>2, <1>8, <3>1
  <2> QED BY <2>1, <2>2
<1>10. num_free_blocks = NumBlocks /\ num_free_blocks \in Nat /\ NumBlocks \in Nat
  <2>1. Range(running) \subseteq {s}
    BY DEF Range
  <2>2. Len(block_table[s]) \in Nat /\ num_free_blocks + Len(block_table[s]) = NumBlocks
    BY <2>1, AloneHoldsTheRest
  <2>3. block_table[s] = <<>>
    BY <1>1, CandidatePopped, <1>7
  <2>4. num_free_blocks \in Nat
    BY PoolServes
  <2> QED BY <2>2, <2>3, <2>4
<1>11. ASSUME ~oversized PROVE AdmitFits
  <2>1. ~(blocks_for(t) > NumBlocks)
    BY <1>7, <1>8, <1>11 DEF oversized
  <2>2. c + n \in Nat /\ c + n <= t
    BY <1>7, <1>8
  <2>3. PICK f \in Nat : f = blocks_for(c + n)
    BY <2>2, BlocksForCount
  <2>4. f <= NumBlocks
    <3>1. ~(f > NumBlocks)
      BY <2>1, <2>2, <2>3, TooLarge
    <3> QED BY <1>10, <3>1
  <2> DEFINE pins == {b \in Range(cached_prefix(s)) : ref_counts[b] = 0}
  <2>5. PICK p \in Nat : p = Cardinality(pins) /\ p <= m
    <3>1. pins \in SUBSET Range(cached_prefix(s))
      OBVIOUS
    <3> HIDE DEF pins
    <3>2. IsFiniteSet(pins) /\ Cardinality(pins) <= Cardinality(Range(cached_prefix(s)))
      BY <1>7, <3>1, FS_Subset
    <3>3. Cardinality(pins) \in Nat /\ Cardinality(Range(cached_prefix(s))) \in Nat
      BY <1>7, <3>2, FS_CardinalityType
    <3> QED BY <1>7, <3>2, <3>3
  <2>6. f - m <= num_free_blocks - p
    <3>1. \A a, b, x, y \in Nat : a <= b /\ y <= x => a - x <= b - y
      OBVIOUS
    <3> QED BY <1>10, <2>4, <2>5, <3>1
  <2>7. Available(FALSE) = num_free_blocks
    BY AvailableIsMore
  <2>8. can_allocate(s, n, cached_prefix(s), FALSE)
    BY <1>7, <1>8, <2>3, <2>5, <2>6, <2>7 DEF can_allocate
  <2>9. (running # <<>>) = FALSE
    OBVIOUS
  <2> QED BY <1>7, <1>9, <2>8, <2>9 DEF AdmitFits
<1> QED BY <1>6, <1>11

\* With nobody running and nothing in the batch, the oldest victim comes back
\* or is given up.
LEMMA AloneComesBack ==
  ASSUME QInv, BudgetOK, pc = "swap_in", batch.seqs = <<>>, running = <<>>, swapped # <<>>
  PROVE  SwappingIn /\ swap_in_tokens > 0 /\ (SwapInFits \/ hopeless)
<1>1. /\ budget \in Int /\ MaxBatchTokens \in Nat /\ MaxNumSeqs \in Nat \ {0}
      /\ (Chunked => MaxNumSeqs <= MaxBatchTokens)
  BY StepNumbers
<1>2. Chunked => budget > 0
  <2> SUFFICES ASSUME Chunked PROVE budget > 0
    OBVIOUS
  <2>1. batch_tokens = 0
    BY EmptyTally
  <2>2. batch_tokens + budget = MaxBatchTokens
    BY DEF BudgetOK, Tally
  <2> QED BY <1>1, <2>1, <2>2
<1>3. SwappingIn
  <2>1. Len(running) = 0
    OBVIOUS
  <2> QED BY <1>1, <2>1 DEF SwappingIn
<1>4. PICK s \in Seqs : s = Head(swapped) /\ s \in Range(swapped)
  <2>1. swapped \in Seq(Seqs) /\ IsInjective(swapped)
    BY DEF QInv, Types
  <2> QED BY <2>1, TailFacts
<1>5. PICK u \in Nat \ {0} : u = num_uncomputed_tokens(s)
  <2>1. Placed(s) /\ Counted(s)
    BY DEF QInv
  <2>2. num_computed_tokens[s] < num_tokens(s) /\ num_computed_tokens[s] \in Nat /\ num_tokens(s) \in Nat
    BY <1>4, <2>1, StepNumbers DEF Placed, Counted, Live
  <2> QED BY <2>2 DEF num_uncomputed_tokens
<1>6. swap_in_tokens = IF Chunked THEN Min({u, budget}) ELSE u
  BY <1>4, <1>5 DEF swap_in_tokens
<1>7. Min({u, budget}) = IF u <= budget THEN u ELSE budget
  <2>1. u \in Int
    OBVIOUS
  <2> QED BY <1>1, <2>1, MinOfTwo
<1>8. swap_in_tokens > 0
  BY <1>1, <1>2, <1>6, <1>7
<1> QED BY <1>3, <1>8 DEF hopeless

\* Whoever the walk passed has an entry.
LEMMA WalkMakesEntries ==
  ASSUME QInv, BudgetOK, pc = "running", i > Len(running), batch.seqs = <<>>
  PROVE  running = <<>>
<1> SUFFICES ASSUME running # <<>> PROVE FALSE
  OBVIOUS
<1>1. PICK len \in Nat \ {0} : len = Len(running) /\ len \in DOMAIN running
  <2>1. Len(running) \in Nat /\ Len(running) # 0 /\ DOMAIN running = 1..Len(running)
    BY StepNumbers
  <2>2. Len(running) \in Nat \ {0} /\ Len(running) \in DOMAIN running
    BY <2>1
  <2> QED BY <2>2
<1>2. batch_tokens = len - 1 + plan[running[len]]
  BY <1>1 DEF BudgetOK, Tally
<1>3. plan[running[len]] \in Nat \ {0}
  BY <1>1 DEF BudgetOK, Planned, Shares
<1>4. batch_tokens = 0
  BY EmptyTally
<1> QED BY <1>1, <1>2, <1>3, <1>4

LEMMA BeginStepProgress ==
  ASSUME BeginStep
  PROVE  ProgressOK'
<1>1. /\ batch' = EmptyBatch /\ UNCHANGED <<running, swapped>>
      /\ \/ ~Chunked /\ swapped = <<>> /\ pc' = "admit"
         \/ (Chunked \/ swapped # <<>>) /\ pc' = "running"
  BY DEF BeginStep, BeginRunning, queueVars
<1>2. batch'.num_preempted = 0
  BY <1>1 DEF EmptyBatch
<1> QED BY <1>1, <1>2 DEF ProgressOK

LEMMA EndRunningProgress ==
  ASSUME QInv, BudgetOK, ProgressOK, EndRunning
  PROVE  ProgressOK'
<1>1. /\ pc = "running" /\ i > Len(running)
      /\ pc' = IF batch.num_preempted = 0 THEN "swap_in" ELSE "execute"
      /\ UNCHANGED <<batch, outputs, running, swapped, preempted, waiting>>
  BY DEF EndRunning, queueVars, waitingVars
<1>2. Nothing => running = <<>>
  BY <1>1, WalkMakesEntries DEF Nothing
<1>3. Nothing => batch.num_preempted = 0 /\ (Chunked \/ swapped # <<>> \/ NobodyWaits)
  BY <1>1, <1>2 DEF ProgressOK
<1>4. (Nothing' <=> Nothing) /\ (NobodyWaits' <=> NobodyWaits)
  BY <1>1 DEF Nothing, NobodyWaits
<1> QED BY <1>1, <1>2, <1>3, <1>4 DEF ProgressOK

LEMMA EndSwapInProgress ==
  ASSUME QInv, BudgetOK, ProgressOK, EndSwapIn
  PROVE  ProgressOK'
<1>1. /\ pc = "swap_in" /\ (SwappingIn => swap_in_tokens <= 0 \/ (~SwapInFits /\ ~hopeless))
      /\ pc' = IF Chunked /\ swapped = <<>> THEN "admit" ELSE "execute"
      /\ UNCHANGED <<batch, outputs, running, swapped, preempted, waiting>>
  BY DEF EndSwapIn, queueVars, waitingVars
<1>2. Nothing => running = <<>> /\ (Chunked \/ swapped # <<>> \/ NobodyWaits)
  BY <1>1 DEF ProgressOK
<1>3. Nothing => swapped = <<>>
  <2> SUFFICES ASSUME Nothing, swapped # <<>> PROVE FALSE
    OBVIOUS
  <2>1. SwappingIn /\ swap_in_tokens > 0 /\ (SwapInFits \/ hopeless)
    BY <1>1, <1>2, AloneComesBack DEF Nothing
  <2>2. swap_in_tokens \in Int
    <3>1. PICK u \in Int : u = num_uncomputed_tokens(Head(swapped))
      <4>1. swapped \in Seq(Seqs)
        BY DEF QInv, Types
      <4>2. Head(swapped) \in Seqs
        BY <4>1
      <4>3. num_computed_tokens[Head(swapped)] \in Nat /\ num_tokens(Head(swapped)) \in Nat
        BY <4>2, StepNumbers
      <4> QED BY <4>3 DEF num_uncomputed_tokens
    <3>2. budget \in Int
      BY StepNumbers
    <3>3. Min({u, budget}) \in Int
      BY <3>2, MinOfTwo
    <3> QED BY <3>1, <3>3 DEF swap_in_tokens
  <2> QED BY <1>1, <2>1, <2>2
<1>4. Nothing' <=> Nothing
  BY <1>1 DEF Nothing
<1>5. Nothing /\ pc' = "execute" => ~has_work'
  BY <1>1, <1>2, <1>3 DEF NobodyWaits, has_work
<1>6. batch.num_preempted = 0
  BY <1>1 DEF ProgressOK
<1> QED BY <1>1, <1>2, <1>4, <1>5, <1>6 DEF ProgressOK

LEMMA EndAdmitProgress ==
  ASSUME IInv, C!IInv, BudgetOK, ProgressOK, EndAdmit
  PROVE  ProgressOK'
<1>1. /\ pc = "admit" /\ (Admitting => ~oversized /\ ~AdmitFits)
      /\ pc' = IF Chunked \/ batch.seqs # <<>> THEN "execute" ELSE "running"
      /\ UNCHANGED <<batch, outputs, running, swapped, preempted, waiting>>
  BY DEF EndAdmit, BeginRunning, waitingVars
<1>2. batch.num_preempted = 0 /\ swapped = <<>> /\ (Chunked /\ Nothing => running = <<>>)
  BY <1>1 DEF ProgressOK
<1>3. Nothing /\ running = <<>> => preempted = <<>> /\ waiting = {}
  BY <1>1, AloneIsAdmitted DEF Nothing
<1>4. (Nothing' <=> Nothing) /\ (NobodyWaits' <=> NobodyWaits) /\ (has_work' <=> has_work)
  BY <1>1 DEF Nothing, NobodyWaits, has_work
<1>5. CASE Chunked \/ batch.seqs # <<>>
  <2>1. Nothing => ~has_work
    BY <1>2, <1>3, <1>5 DEF Nothing, has_work
  <2> QED BY <1>1, <1>4, <1>5, <2>1 DEF ProgressOK
<1>6. CASE ~(Chunked \/ batch.seqs # <<>>)
  <2>1. Nothing /\ running = <<>> => NobodyWaits
    BY <1>2, <1>3 DEF NobodyWaits
  <2> QED BY <1>1, <1>2, <1>4, <1>6, <2>1 DEF ProgressOK
<1> QED BY <1>5, <1>6

\* A step that schedules or fails somebody did something.
LEMMA SomethingIsProgress ==
  ASSUME ProgressOK, Types, pc \in {"running", "swap_in", "admit"}, pc' = pc,
         \/ \E e \in [seq : Seqs, n : Nat \ {0}, sample : BOOLEAN] : batch'.seqs = Append(batch.seqs, e)
         \/ \E s : s \in outputs',
         pc # "running" => batch'.num_preempted = batch.num_preempted,
         pc = "admit" => swapped' = swapped
  PROVE  ProgressOK'
<1>1. ~Nothing'
  <2>1. ASSUME NEW e \in [seq : Seqs, n : Nat \ {0}, sample : BOOLEAN], batch'.seqs = Append(batch.seqs, e)
        PROVE  ~Nothing'
    <3>1. PICK l \in Seq([seq : Seqs, n : Nat \ {0}, sample : BOOLEAN]) : l = batch.seqs
      BY DEF Types
    <3>2. Append(l, e) # <<>>
      OBVIOUS
    <3> QED BY <2>1, <3>1, <3>2 DEF Nothing
  <2>2. ASSUME NEW s, s \in outputs' PROVE ~Nothing'
    BY <2>2 DEF Nothing
  <2> QED BY <2>1, <2>2
<1> QED BY <1>1 DEF ProgressOK

LEMMA EntryProgress ==
  ASSUME QInv, ArrivalsOK, BudgetOK, ProgressOK, ScheduleRunning \/ SwapIn \/ Admit
  PROVE  ProgressOK'
<1> DEFINE E == [seq : Seqs, n : Nat \ {0}, sample : BOOLEAN]
<1>1. /\ pc \in {"running", "swap_in", "admit"} /\ pc' = pc
      /\ pc = "admit" => swapped' = swapped
  BY DEF ScheduleRunning, Scheduling, SwapIn, SwappingIn, Admit, Admitting, queueVars
<1>2. Types /\ DOMAIN batch = {"seqs", "swap_out", "swap_in", "num_preempted"}
  BY DEF QInv, Types
<1>3. ASSUME NEW s \in Seqs, NEW n \in Nat \ {0}, NEW c, batch'.seqs = BatchAdd(s, n, c)
      PROVE  \E e \in E : batch'.seqs = Append(batch.seqs, e)
  <2>1. PICK b \in BOOLEAN : b = (c + n = num_tokens(s))
    OBVIOUS
  <2>2. [seq |-> s, n |-> n, sample |-> b] \in E
    OBVIOUS
  <2> QED BY <1>3, <2>1, <2>2 DEF BatchAdd
<1>4. CASE ScheduleRunning
  <2>1. /\ pc = "running" /\ i <= Len(running)
        /\ plan[current] # 0 => batch'.seqs = BatchAdd(current, plan[current], num_computed_tokens[current])
    BY <1>2, <1>4 DEF ScheduleRunning, Scheduling
  <2>2. i \in DOMAIN running
    <3>1. i \in Nat \ {0} /\ Len(running) \in Nat /\ DOMAIN running = 1..Len(running)
      BY StepNumbers
    <3> QED BY <2>1, <3>1
  <2>3. current \in Seqs /\ plan[current] \in Nat \ {0}
    BY <2>1, <2>2, StepNumbers DEF current, BudgetOK, Planned, Shares
  <2>4. \E e \in E : batch'.seqs = Append(batch.seqs, e)
    BY <1>3, <2>1, <2>3
  <2> QED BY <1>1, <1>2, <2>1, <2>4, SomethingIsProgress
<1>5. CASE SwapIn
  <2>1. /\ swap_in_tokens > 0 /\ swapped # <<>> /\ pc = "swap_in"
        /\ batch'.seqs = BatchAdd(Head(swapped), swap_in_tokens, num_computed_tokens[Head(swapped)])
        /\ batch'.num_preempted = batch.num_preempted
    BY <1>2, <1>5 DEF SwapIn, SwappingIn
  <2>2. Head(swapped) \in Seqs
    <3>1. swapped \in Seq(Seqs)
      BY <1>2 DEF Types
    <3> QED BY <2>1, <3>1
  <2>3. swap_in_tokens \in Nat \ {0}
    <3>1. PICK u \in Int : u = num_uncomputed_tokens(Head(swapped))
      <4>1. num_computed_tokens[Head(swapped)] \in Nat /\ num_tokens(Head(swapped)) \in Nat
        BY <2>2, StepNumbers
      <4> QED BY <4>1 DEF num_uncomputed_tokens
    <3>2. budget \in Int
      BY StepNumbers
    <3>3. Min({u, budget}) \in Int
      BY <3>2, MinOfTwo
    <3>4. swap_in_tokens \in Int
      BY <3>1, <3>3 DEF swap_in_tokens
    <3> QED BY <2>1, <3>4
  <2>4. \E e \in E : batch'.seqs = Append(batch.seqs, e)
    BY <1>3, <2>1, <2>2, <2>3
  <2> QED BY <1>1, <1>2, <2>1, <2>4, SomethingIsProgress
<1>6. CASE Admit
  <2>1. /\ pc = "admit" /\ budget > 0 /\ (preempted # <<>> \/ waiting # {})
        /\ batch'.seqs = BatchAdd(candidate, admit_tokens(cached_prefix(candidate)), Len(cached_prefix(candidate)) * BlockSize)
        /\ batch'.num_preempted = batch.num_preempted
    BY <1>2, <1>6 DEF Admit, Admitting
  <2>2. candidate \in Seqs /\ admit_tokens(cached_prefix(candidate)) \in Nat \ {0}
    BY <2>1, AdmitShare
  <2>3. \E e \in E : batch'.seqs = Append(batch.seqs, e)
    BY <1>3, <2>1, <2>2
  <2> QED BY <1>1, <1>2, <2>1, <2>3, SomethingIsProgress
<1> QED BY <1>4, <1>5, <1>6

LEMMA FailProgress ==
  ASSUME ProgressOK, Types, FailAlone \/ FailSwapIn \/ FailAdmit
  PROVE  ProgressOK'
<1>1. /\ pc \in {"running", "swap_in", "admit"} /\ UNCHANGED <<pc, batch>>
      /\ pc = "admit" => swapped' = swapped
  BY DEF FailAlone, OutOfBlocks, Scheduling, FailSwapIn, SwappingIn, FailAdmit, Admitting, stepVars
<1>2. \E s : s \in outputs'
  BY DEF FailAlone, FailSwapIn, FailAdmit, Fail
<1> QED BY <1>1, <1>2, SomethingIsProgress

\* One that makes room keeps somebody running.
LEMMA EvictProgress ==
  ASSUME QInv, ProgressOK, Evict
  PROVE  ProgressOK'
<1>1. pc = "running" /\ pc' = pc /\ Len(running) > 1 /\ running' = Without(running, victim)
  BY DEF Evict, OutOfBlocks, Scheduling
<1>2. running \in Seq(Seqs) /\ IsInjective(running) /\ Len(running) \in Nat
  BY StepNumbers
<1>3. running # <<>> /\ Len(running') = Len(running) - 1
  <2>1. running # <<>>
    BY <1>1, <1>2
  <2> QED BY <1>1, <1>2, <2>1, WithoutLast DEF victim
<1>4. running' # <<>>
  <2>1. PICK len \in Nat : len = Len(running) /\ len > 1 /\ Len(running') = len - 1
    BY <1>1, <1>2, <1>3
  <2>2. len - 1 # 0
    BY <2>1
  <2>3. Len(<<>>) = 0
    OBVIOUS
  <2> QED BY <2>1, <2>2, <2>3
<1> QED BY <1>1, <1>4 DEF ProgressOK

\* The watchdog finds work pending only if something happened.
LEMMA RestProgress ==
  ASSUME ProgressOK, EmptyStep \/ Execute \/ ExecuteFails \/ Update \/ EndFailAll
  PROVE  ProgressOK'
<1>1. pc' \in {"idle", "update", "fail_all", "stuck"}
  BY DEF EmptyStep, Execute, ExecuteFails, Update, EndFailAll
<1>2. pc' # "stuck"
  <2> SUFFICES ASSUME pc' = "stuck" PROVE FALSE
    OBVIOUS
  <2>1. EmptyStep
    BY DEF Execute, ExecuteFails, Update, EndFailAll
  <2>2. pc = "execute" /\ Nothing /\ has_work
    BY <2>1 DEF EmptyStep, batch_is_empty, Nothing
  <2> QED BY <2>2 DEF ProgressOK
<1> QED BY <1>1, <1>2 DEF ProgressOK

LEMMA NextProgress ==
  ASSUME "update" \notin FailPoints, IInv, C!IInv, BudgetOK, ProgressOK, [Next]_vars
  PROVE  ProgressOK'
<1> QInv /\ ArrivalsOK /\ Types
  BY DEF IInv, QInv
<1>1. CASE \E s \in Seqs : add(s) \/ AbortRequest(s) \/ FailOne(s)
  <2>1. pc \in {"idle", "fail_all"} /\ pc' = pc
    BY <1>1 DEF add, AbortRequest, FailOne, abort, stepVars
  <2> QED BY <2>1 DEF ProgressOK
<1>2. CASE BeginStep
  BY <1>2, BeginStepProgress
<1>3. CASE ScheduleRunning \/ SwapIn \/ Admit
  BY <1>3, EntryProgress
<1>4. CASE FailAlone \/ FailSwapIn \/ FailAdmit
  BY <1>4, FailProgress
<1>5. CASE Evict
  BY <1>5, EvictProgress
<1>6. CASE EndRunning
  BY <1>6, EndRunningProgress
<1>7. CASE EndSwapIn
  BY <1>7, EndSwapInProgress
<1>8. CASE EndAdmit
  BY <1>8, EndAdmitProgress
<1>9. CASE EmptyStep \/ Execute \/ ExecuteFails \/ Update \/ EndFailAll
  BY <1>9, RestProgress
<1>10. CASE UpdateFails
  BY <1>10 DEF UpdateFails
<1>11. CASE UNCHANGED vars
  BY <1>11 DEF ProgressOK, Nothing, NobodyWaits, has_work, vars, queueVars, waitingVars, stepVars
<1> QED
  BY <1>1, <1>2, <1>3, <1>4, <1>5, <1>6, <1>7, <1>8, <1>9, <1>10, <1>11 DEF Next, Step, Bookkeep, Request

\* The watchdog of step() never fires: with work pending, a step schedules,
\* preempts or fails somebody.  The first of whoever waits fits once nobody
\* runs, or is larger than the pool and ends, and the oldest victim comes back
\* or is given up.
THEOREM StepsAreNeverStuck ==
  ASSUME "update" \notin FailPoints
  PROVE  Spec => []NeverStuck
<1>1. Init => ProgressOK
  BY DEF Init, ProgressOK
<1>2. IInv /\ C!IInv /\ BudgetOK /\ ProgressOK /\ [Next]_vars => ProgressOK'
  BY NextProgress
<1>3. ProgressOK => NeverStuck
  BY DEF ProgressOK, NeverStuck
<1> QED BY <1>1, <1>2, <1>3, BudgetKept, ContractIsKept, PTL DEF Spec
=============================================================================
