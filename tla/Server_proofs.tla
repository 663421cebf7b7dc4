---------------------------- MODULE Server_proofs ----------------------------
(***************************************************************************)
(* The safety properties of Server, for any requests and any bound on      *)
(* their outputs.                                                          *)
(***************************************************************************)
EXTENDS Server, TLAPS

TypeOK ==
  /\ live \subseteq Requests /\ made \in [Requests -> Nat]
  /\ output_queues \in [Requests -> Seq(Outputs) \cup {None}]
  /\ has_new_work \in BOOLEAN /\ loop \in {"ready", "waiting"}
  /\ handler \in [Requests -> {"new", "accepted", "getting", "sending", "dropped", "done"}]
  /\ kind \in [Requests -> Kinds \cup {None}]
  /\ connected \in [Requests -> BOOLEAN]
  /\ signal \in [Requests -> {"no", "yes", "early"}]
  /\ received \in [Requests -> Nat]
  /\ ended \in [Requests -> (Outputs \cup {None}) \ {"token"}]

\* A request has a queue from the first step of generate() to its finally.
QueueWhileHandled == \A r \in Requests :
  r \in Registered <=> handler[r] \in {"getting", "sending", "dropped"}

\* Before generate() nothing was made or passed on, and no disconnect took hold.
NothingBefore == \A r \in Requests : handler[r] \in {"new", "accepted"} =>
  made[r] = 0 /\ received[r] = 0 /\ ended[r] = None /\ signal[r] # "yes"

\* Only for a client that left: the signal, an abort in its queue, and a
\* generator that nobody reads.
OnlyAfterLeaving == \A r \in Requests : connected[r] =>
  /\ signal[r] = "no" /\ handler[r] # "dropped" /\ ended[r] # "abort"
  /\ r \in Registered => \A k \in DOMAIN output_queues[r] : output_queues[r][k] # "abort"

\* The first n entries of the queue q are what the engine made, the rest is from
\* the bridge; a request that is still live has tokens only.
Split(r, q, n) ==
  /\ n \in 0..Len(q) /\ received[r] + n = made[r]
  /\ \A k \in 1..Len(q) : q[k] \in {"token", "last"} <=> k <= n
  /\ \A k \in 1 .. n - 1 : q[k] = "token"
  /\ r \in live => n = Len(q) /\ \A k \in 1..n : q[k] = "token"

\* While no end was passed on, what was received and what is queued are together
\* what was made, in order; after a last token nothing is missing.
NothingLost == \A r \in Requests :
  /\ ended[r] = None /\ r \in Registered => \E n \in Nat : Split(r, output_queues[r], n)
  /\ ended[r] = "last" => received[r] = made[r]

\* A handler waits for outputs until an end was passed on; it is through only
\* with an end to tell, or without a client.
EndsWithAnEnd == \A r \in Requests :
  /\ handler[r] = "getting" => ended[r] = None
  /\ handler[r] = "done" /\ connected[r] => ended[r] # None

IInv ==
  /\ TypeOK /\ QueueWhileHandled /\ NothingBefore /\ OnlyAfterLeaving
  /\ NothingLost /\ EndsWithAnEnd /\ WorksForSomebody

\* Everything but NothingLost, which is about queues in detail.
Basics == TypeOK /\ QueueWhileHandled /\ NothingBefore /\ OnlyAfterLeaving /\ EndsWithAnEnd /\ WorksForSomebody

-----------------------------------------------------------------------------
LEMMA InitInv == Init => IInv
<1> SUFFICES ASSUME Init PROVE IInv
  OBVIOUS
<1> USE ServerAssumption DEF Init, Registered
<1>1. TypeOK
  BY DEF TypeOK, Outputs
<1>2. QueueWhileHandled /\ NothingBefore /\ OnlyAfterLeaving /\ EndsWithAnEnd /\ WorksForSomebody
  BY DEF QueueWhileHandled, NothingBefore, OnlyAfterLeaving, EndsWithAnEnd, WorksForSomebody, Outputs
<1>3. NothingLost
  BY DEF NothingLost, Outputs
<1> QED
  BY <1>1, <1>2, <1>3 DEF IInv

\* A request whose queue, counts and end do not change, and that does not become
\* live, loses nothing.
LEMMA SplitKept ==
  ASSUME NEW r \in Requests, NEW q, NEW n, Split(r, q, n),
         received'[r] = received[r], made'[r] = made[r], r \in live' => r \in live
  PROVE  Split(r, q, n)'
BY DEF Split

\* Queues of outputs are not None, and stay queues of outputs.
LEMMA Put ==
  ASSUME NEW q \in Seq(Outputs), NEW x \in Outputs
  PROVE  /\ q # None /\ Append(q, x) \in Seq(Outputs) /\ Append(q, x) # None
         /\ \A k \in DOMAIN Append(q, x) :
              (k \in DOMAIN q /\ Append(q, x)[k] = q[k]) \/ Append(q, x)[k] = x
<1>1. Append(q, x) \in Seq(Outputs)
  OBVIOUS
<1>2. q # None /\ Append(q, x) # None
  BY <1>1, ServerAssumption
<1>3. \A k \in DOMAIN Append(q, x) :
        (k \in DOMAIN q /\ Append(q, x)[k] = q[k]) \/ Append(q, x)[k] = x
  OBVIOUS
<1> QED
  BY <1>1, <1>2, <1>3

LEMMA Get ==
  ASSUME NEW q \in Seq(Outputs), q # <<>>
  PROVE  /\ 1 \in DOMAIN q /\ Head(q) = q[1] /\ Head(q) \in Outputs
         /\ Tail(q) \in Seq(Outputs) /\ Tail(q) # None /\ Len(Tail(q)) = Len(q) - 1
         /\ \A k \in DOMAIN Tail(q) : k + 1 \in DOMAIN q /\ Tail(q)[k] = q[k + 1]
<1>1. Tail(q) \in Seq(Outputs)
  OBVIOUS
<1>2. Tail(q) # None
  BY <1>1, ServerAssumption
<1> QED
  BY <1>1, <1>2

\* What a step returns is about live requests, a token or an end for each.
LEMMA StepOutputsType ==
  ASSUME NEW outputs \in StepOutputs
  PROVE  /\ DOMAIN outputs \subseteq live
         /\ \A r \in DOMAIN outputs : outputs[r] \in {"token", "last", "error"}
<1>1. PICK T \in SUBSET live : outputs \in [T -> {"token", "last", "error"}]
  BY DEF StepOutputs
<1> QED
  BY <1>1

\* The queues after a put of x[r] into those of the requests of R that have one.
LEMMA PutAll ==
  ASSUME TypeOK, NEW R, NEW x, \A r \in R : x[r] \in Outputs \ {"abort"},
         output_queues' = [r \in Requests |-> IF r \in R \cap Registered
                                              THEN Append(output_queues[r], x[r])
                                              ELSE output_queues[r]]
  PROVE  /\ output_queues' \in [Requests -> Seq(Outputs) \cup {None}]
         /\ Registered' = Registered
         /\ \A r \in Registered : \A k \in DOMAIN output_queues'[r] :
              output_queues'[r][k] = "abort" =>
                k \in DOMAIN output_queues[r] /\ output_queues[r][k] = "abort"
<1>1. ASSUME NEW r \in Requests
      PROVE  /\ output_queues'[r] \in Seq(Outputs) \cup {None}
             /\ output_queues'[r] # None <=> output_queues[r] # None
             /\ r \in Registered => \A k \in DOMAIN output_queues'[r] :
                  output_queues'[r][k] = "abort" =>
                    k \in DOMAIN output_queues[r] /\ output_queues[r][k] = "abort"
  <2>1. CASE r \in R \cap Registered
    <3>1. output_queues[r] \in Seq(Outputs) /\ x[r] \in Outputs /\ x[r] # "abort"
      BY <2>1 DEF TypeOK, Registered
    <3>2. output_queues[r] # None
      BY <3>1, Put
    <3>3. Append(output_queues[r], x[r]) \in Seq(Outputs)
      BY <3>1, Put
    <3>4. Append(output_queues[r], x[r]) # None
      BY <3>1, Put
    <3>5. \A k \in DOMAIN Append(output_queues[r], x[r]) :
              (k \in DOMAIN output_queues[r] /\ Append(output_queues[r], x[r])[k] = output_queues[r][k])
                \/ Append(output_queues[r], x[r])[k] = x[r]
      BY <3>1, Put
    <3> QED
      BY <2>1, <3>1, <3>2, <3>3, <3>4, <3>5
  <2>2. CASE r \notin R \cap Registered
    BY <2>2 DEF TypeOK
  <2> QED
    BY <2>1, <2>2
<1> QED
  BY <1>1 DEF Registered

-----------------------------------------------------------------------------
LEMMA StepReturnsBasics ==
  ASSUME IInv, NEW outputs \in StepOutputs, StepReturns(outputs)
  PROVE  Basics'
<1>1. Basics
  BY DEF IInv, Basics
<1>2. output_queues' = [r \in Requests |-> IF r \in DOMAIN outputs \cap Registered
                                           THEN Append(output_queues[r], outputs[r])
                                           ELSE output_queues[r]]
  BY DEF StepReturns, put_outputs
<1>3. \A r \in DOMAIN outputs : outputs[r] \in Outputs \ {"abort"}
  BY StepOutputsType DEF Outputs
<1>4. /\ output_queues' \in [Requests -> Seq(Outputs) \cup {None}]
      /\ Registered' = Registered
      /\ \A r \in Registered : \A k \in DOMAIN output_queues'[r] :
           output_queues'[r][k] = "abort" =>
             k \in DOMAIN output_queues[r] /\ output_queues[r][k] = "abort"
  <2>1. TypeOK
    BY <1>1 DEF Basics
  <2> QED BY <1>2, <1>3, <2>1, PutAll
<1>5. live' \subseteq live /\ \A r \in Requests \ live : made'[r] = made[r]
  BY <1>1, StepOutputsType DEF StepReturns, Basics, TypeOK
<1>6. UNCHANGED <<handler, connected, signal, kind, received, ended>>
  BY DEF StepReturns, clientVars
<1>7. TypeOK'
  <2>1. has_new_work' \in BOOLEAN
    BY <1>1 DEF StepReturns, AtStep, Basics, TypeOK
  <2>2. made' \in [Requests -> Nat]
    BY <1>1 DEF StepReturns, Basics, TypeOK
  <2>3. loop' = "ready"
    BY DEF StepReturns
  <2> QED BY <1>1, <1>4, <1>5, <1>6, <2>1, <2>2, <2>3 DEF Basics, TypeOK
<1>8. QueueWhileHandled' /\ EndsWithAnEnd' /\ WorksForSomebody'
  BY <1>1, <1>4, <1>5, <1>6 DEF Basics, QueueWhileHandled, EndsWithAnEnd, WorksForSomebody
<1>9. NothingBefore'
  BY <1>1, <1>5, <1>6 DEF Basics, NothingBefore, WorksForSomebody, TypeOK
<1>10. OnlyAfterLeaving'
  BY <1>1, <1>4, <1>6 DEF Basics, OnlyAfterLeaving
<1> QED
  BY <1>7, <1>8, <1>9, <1>10 DEF Basics

LEMMA StepRaisesBasics == IInv /\ StepRaises => Basics'
<1> SUFFICES ASSUME IInv, StepRaises PROVE Basics'
  OBVIOUS
<1> DEFINE error == [r \in Requests |-> "error"]
<1>1. Basics
  BY DEF IInv, Basics
<1>2. output_queues' = [r \in Requests |-> IF r \in Requests \cap Registered
                                           THEN Append(output_queues[r], error[r])
                                           ELSE output_queues[r]]
  BY DEF StepRaises, fail_all, Registered
<1>3. /\ output_queues' \in [Requests -> Seq(Outputs) \cup {None}]
      /\ Registered' = Registered
      /\ \A r \in Registered : \A k \in DOMAIN output_queues'[r] :
           output_queues'[r][k] = "abort" =>
             k \in DOMAIN output_queues[r] /\ output_queues[r][k] = "abort"
  <2>1. TypeOK
    BY <1>1 DEF Basics
  <2>2. \A r \in Requests : error[r] \in Outputs \ {"abort"}
    BY DEF Outputs
  <2> HIDE DEF error
  <2> QED BY <1>2, <2>1, <2>2, PutAll
<1>4. live' \subseteq live /\ made' = made /\ loop' \in {"ready", "waiting"} /\ has_new_work' \in BOOLEAN
  BY DEF StepRaises
<1>5. UNCHANGED <<handler, connected, signal, kind, received, ended>>
  BY DEF StepRaises, clientVars
<1>6. TypeOK'
  BY <1>1, <1>3, <1>4, <1>5 DEF Basics, TypeOK
<1>7. QueueWhileHandled' /\ EndsWithAnEnd' /\ WorksForSomebody' /\ NothingBefore'
  BY <1>1, <1>3, <1>4, <1>5
  DEF Basics, QueueWhileHandled, EndsWithAnEnd, WorksForSomebody, NothingBefore
<1>8. OnlyAfterLeaving'
  BY <1>1, <1>3, <1>5 DEF Basics, OnlyAfterLeaving
<1> QED
  BY <1>6, <1>7, <1>8 DEF Basics

LEMMA ReceiveBasics ==
  ASSUME IInv, NEW r \in Requests, Receive(r)
  PROVE  Basics'
<1>1. Basics
  BY DEF IInv, Basics
<1>2. r \in Registered /\ output_queues[r] \in Seq(Outputs) /\ output_queues[r] # <<>>
  BY <1>1 DEF Receive, Basics, QueueWhileHandled, TypeOK, Registered
<1> DEFINE q == output_queues[r]
<1>3. /\ 1 \in DOMAIN q /\ Head(q) = q[1] /\ Head(q) \in Outputs
      /\ Tail(q) \in Seq(Outputs) /\ Tail(q) # None
      /\ \A k \in DOMAIN Tail(q) : k + 1 \in DOMAIN q /\ Tail(q)[k] = q[k + 1]
  BY <1>2, Get
<1>4. /\ output_queues' = [output_queues EXCEPT ![r] = Tail(q)]
      /\ handler[r] = "getting" /\ handler' = [handler EXCEPT ![r] = "sending"]
      /\ ended' = [ended EXCEPT ![r] = IF Head(q) = "token" THEN None ELSE Head(q)]
      /\ received' = [received EXCEPT ![r] = IF Head(q) \in {"token", "last"} THEN @ + 1 ELSE @]
      /\ UNCHANGED <<live, made, has_new_work, loop, kind, connected, signal>>
  BY DEF Receive, Goto, engineVars
<1> HIDE DEF q
<1>5. TypeOK' /\ Registered' = Registered
  <2>1. TypeOK /\ None \notin Seq(Outputs)
    BY <1>1, ServerAssumption DEF Basics
  <2>2. received' \in [Requests -> Nat]
    <3>1. received \in [Requests -> Nat]
      BY <2>1 DEF TypeOK
    <3> QED BY <1>4, <3>1
  <2>3. ended' \in [Requests -> (Outputs \cup {None}) \ {"token"}]
    <3>1. ended \in [Requests -> (Outputs \cup {None}) \ {"token"}]
      BY <2>1 DEF TypeOK
    <3>2. PICK v \in (Outputs \cup {None}) \ {"token"} : v = IF Head(q) = "token" THEN None ELSE Head(q)
      BY <1>3, ServerAssumption DEF Outputs
    <3>3. ended' = [ended EXCEPT ![r] = v]
      BY <1>4, <3>2
    <3> QED BY <3>1, <3>3
  <2>4. output_queues' \in [Requests -> Seq(Outputs) \cup {None}]
    <3>1. output_queues \in [Requests -> Seq(Outputs) \cup {None}]
      BY <2>1 DEF TypeOK
    <3> QED BY <1>3, <1>4, <3>1
  <2>5. handler' \in [Requests -> {"new", "accepted", "getting", "sending", "dropped", "done"}]
    <3>1. handler \in [Requests -> {"new", "accepted", "getting", "sending", "dropped", "done"}]
      BY <2>1 DEF TypeOK
    <3> QED BY <1>4, <3>1
  <2>6. TypeOK'
    BY <1>4, <2>1, <2>2, <2>3, <2>4, <2>5 DEF TypeOK
  <2>7. Registered' = Registered
    <3>1. output_queues \in [Requests -> Seq(Outputs) \cup {None}]
      BY <2>1 DEF TypeOK
    <3>2. ASSUME NEW a \in Requests PROVE output_queues'[a] = None <=> output_queues[a] = None
      BY <1>2, <1>3, <1>4, <2>1, <3>1
    <3> QED BY <3>2 DEF Registered
  <2> QED BY <2>6, <2>7
<1>6. QueueWhileHandled' /\ NothingBefore' /\ EndsWithAnEnd'
  BY <1>1, <1>2, <1>4, <1>5 DEF Basics, QueueWhileHandled, NothingBefore, EndsWithAnEnd, TypeOK
<1>7. WorksForSomebody'
  <2>1. r \in live => Head(q) = "token"
    <3>1. r \in live => \E n \in Nat : Split(r, q, n)
      BY <1>2 DEF IInv, NothingLost, WorksForSomebody, q
    <3> QED BY <1>3, <3>1 DEF Split
  <2> QED BY <1>1, <1>4, <1>5, <2>1 DEF Basics, WorksForSomebody, TypeOK
<1>8. OnlyAfterLeaving'
  <2>1. ASSUME connected[r]
        PROVE  /\ signal'[r] = "no" /\ handler'[r] # "dropped" /\ ended'[r] # "abort"
               /\ \A k \in DOMAIN output_queues'[r] : output_queues'[r][k] # "abort"
    <3>1. signal[r] = "no" /\ \A k \in DOMAIN q : q[k] # "abort"
      BY <1>1, <1>2, <2>1 DEF Basics, OnlyAfterLeaving, q
    <3> QED BY <1>1, <1>3, <1>4, <3>1, ServerAssumption DEF Basics, TypeOK, Outputs
  <2>2. ASSUME NEW p \in Requests, p # r
        PROVE  /\ output_queues'[p] = output_queues[p] /\ handler'[p] = handler[p]
               /\ ended'[p] = ended[p]
    BY <1>1, <1>4, <2>2 DEF Basics, TypeOK
  <2> QED BY <1>1, <1>4, <1>5, <2>1, <2>2 DEF Basics, OnlyAfterLeaving
<1> QED
  BY <1>5, <1>6, <1>7, <1>8 DEF Basics

LEMMA AbortBasics ==
  ASSUME IInv, NEW r \in Requests, abort_request(r), ~connected[r], handler[r] # "new",
         \/ UNCHANGED handler
         \/ r \in Registered /\ handler' = [handler EXCEPT ![r] = "dropped"]
  PROVE  Basics'
<1>1. Basics
  BY DEF IInv, Basics
<1>2. r \in Registered => /\ output_queues[r] # None
                          /\ Append(output_queues[r], "abort") \in Seq(Outputs)
                          /\ Append(output_queues[r], "abort") # None
  <2>1. r \in Registered => output_queues[r] \in Seq(Outputs) /\ "abort" \in Outputs
    BY <1>1 DEF Basics, TypeOK, Registered, Outputs
  <2> QED BY <2>1, Put
<1>3. /\ live' = live \ {r}
      /\ output_queues' = IF r \in Registered
                          THEN [output_queues EXCEPT ![r] = Append(@, "abort")] ELSE output_queues
      /\ signal' = [signal EXCEPT ![r] = IF r \in Registered THEN "yes" ELSE "early"]
      /\ UNCHANGED <<made, has_new_work, loop, connected, kind, received, ended>>
  BY DEF abort_request, aborted, clientVars
<1>4. TypeOK' /\ Registered' = Registered
  BY <1>1, <1>2, <1>3 DEF Basics, TypeOK, Registered
<1>5. QueueWhileHandled'
  BY <1>1, <1>4 DEF Basics, QueueWhileHandled, TypeOK
<1>6. EndsWithAnEnd'
  BY <1>1, <1>3 DEF Basics, EndsWithAnEnd, TypeOK
<1>7. NothingBefore'
  <2>1. \A p \in Requests : handler'[p] \in {"new", "accepted"} => handler[p] \in {"new", "accepted"}
    BY <1>1 DEF Basics, TypeOK
  <2>2. handler'[r] \in {"new", "accepted"} => r \notin Registered
    BY <1>1, <2>1 DEF Basics, QueueWhileHandled
  <2>3. \A p \in Requests : handler'[p] \in {"new", "accepted"} => signal'[p] # "yes"
    BY <1>1, <1>3, <2>1, <2>2 DEF Basics, NothingBefore, TypeOK
  <2> QED BY <1>1, <1>3, <2>1, <2>3 DEF Basics, NothingBefore
<1>8. WorksForSomebody' /\ OnlyAfterLeaving'
  BY <1>1, <1>3, <1>4 DEF Basics, WorksForSomebody, OnlyAfterLeaving, TypeOK
<1> QED
  BY <1>4, <1>5, <1>6, <1>7, <1>8 DEF Basics

LEMMA LeaveBasics ==
  ASSUME IInv, NEW r \in Requests, Leave(r), handler[r] # "new", connected[r] => ended[r] # None
  PROVE  Basics'
BY ServerAssumption
DEF IInv, Basics, TypeOK, QueueWhileHandled, NothingBefore, OnlyAfterLeaving, EndsWithAnEnd,
    WorksForSomebody, Registered, Leave, Goto, aborted, clientVars

LEMMA RegisterBasics ==
  ASSUME IInv, NEW r \in Requests, Register(r)
  PROVE  Basics'
<1>1. Basics
  BY DEF IInv, Basics
<1>2. <<>> \in Seq(Outputs) /\ <<>> # None
  <2>1. <<>> \in Seq(Outputs)
    OBVIOUS
  <2> QED BY <2>1, ServerAssumption
<1>3. /\ handler[r] = "accepted" /\ handler' = [handler EXCEPT ![r] = "getting"]
      /\ output_queues' = [output_queues EXCEPT ![r] = <<>>]
      /\ live' = live \cup {r} /\ has_new_work' = TRUE
      /\ UNCHANGED <<made, loop, connected, signal, kind, received, ended>>
  BY DEF Register, Goto, clientVars
<1>4. TypeOK' /\ Registered' = Registered \cup {r}
  BY <1>1, <1>2, <1>3 DEF Basics, TypeOK, Registered
<1>5. QueueWhileHandled' /\ NothingBefore' /\ EndsWithAnEnd' /\ WorksForSomebody'
  BY <1>1, <1>3, <1>4
  DEF Basics, QueueWhileHandled, NothingBefore, EndsWithAnEnd, WorksForSomebody, TypeOK
<1>6. OnlyAfterLeaving'
  BY <1>1, <1>3, <1>4 DEF Basics, OnlyAfterLeaving, TypeOK
<1> QED
  BY <1>4, <1>5, <1>6 DEF Basics

\* Everything but what queues hold.
LEMMA BasicsInv == IInv /\ [Next]_vars => Basics'
<1> SUFFICES ASSUME IInv, [Next]_vars PROVE Basics'
  OBVIOUS
<1>0. Basics
  BY DEF IInv, Basics
<1>1. CASE UNCHANGED vars \/ Sleep
  BY <1>0, <1>1
  DEF vars, engineVars, clientVars, Sleep, Basics, TypeOK, QueueWhileHandled, NothingBefore,
      OnlyAfterLeaving, EndsWithAnEnd, WorksForSomebody, Registered
<1>2. CASE Step \/ StepRaises
  BY <1>2, StepReturnsBasics, StepRaisesBasics DEF Step
<1>3. ASSUME NEW r \in Requests, Accept(r) \/ Continue(r) \/ Disconnect(r) PROVE Basics'
  <2>1. CASE Accept(r)
    BY <1>0, <2>1
    DEF Accept, Goto, Kinds, engineVars, clientVars, Basics, TypeOK,
        QueueWhileHandled, NothingBefore, OnlyAfterLeaving, EndsWithAnEnd, WorksForSomebody, Registered
  <2>2. CASE Continue(r)
    BY <1>0, <2>2
    DEF Continue, Goto, Kinds, engineVars, clientVars, Basics, TypeOK,
        QueueWhileHandled, NothingBefore, OnlyAfterLeaving, EndsWithAnEnd, WorksForSomebody, Registered
  <2>3. CASE Disconnect(r)
    BY <1>0, <2>3
    DEF Disconnect, Goto, Kinds, engineVars, clientVars, Basics, TypeOK,
        QueueWhileHandled, NothingBefore, OnlyAfterLeaving, EndsWithAnEnd, WorksForSomebody, Registered
  <2> QED BY <1>3, <2>1, <2>2, <2>3
<1>4. ASSUME NEW r \in Requests, Register(r) \/ Receive(r) PROVE Basics'
  BY <1>4, RegisterBasics, ReceiveBasics
<1>5. ASSUME NEW r \in Requests, Listener(r) \/ SendFails(r) \/ Watch(r) PROVE Basics'
  <2>1. abort_request(r) /\ ~connected[r] /\ handler[r] # "new"
    BY <1>5 DEF Listener, SendFails, Watch
  <2>2. \/ UNCHANGED handler
        \/ r \in Registered /\ handler' = [handler EXCEPT ![r] = "dropped"]
    BY <1>0, <1>5 DEF Listener, SendFails, Watch, Goto, Basics, QueueWhileHandled
  <2> QED BY <2>1, <2>2, AbortBasics
<1>6. ASSUME NEW r \in Requests, Finish(r) \/ CancelStream(r) \/ Close(r) PROVE Basics'
  <2>1. Leave(r) /\ handler[r] # "new"
    BY <1>6 DEF Finish, CancelStream, Close
  <2>2. connected[r] => ended[r] # None
    BY <1>0, <1>6 DEF Finish, CancelStream, Close, Basics, OnlyAfterLeaving
  <2> QED BY <2>1, <2>2, LeaveBasics
<1> QED
  BY <1>1, <1>2, <1>3, <1>4, <1>5, <1>6 DEF Next, HandlerStep

-----------------------------------------------------------------------------
\* NothingLost for one request, and that it holds on when nothing about the
\* request changes, but that it may stop to be live.
Lossless(r) ==
  /\ ended[r] = None /\ r \in Registered => \E n \in Nat : Split(r, output_queues[r], n)
  /\ ended[r] = "last" => received[r] = made[r]

LEMMA LosslessKept ==
  ASSUME IInv, NEW r \in Requests, output_queues'[r] = output_queues[r],
         received'[r] = received[r], made'[r] = made[r], ended'[r] = ended[r],
         r \in live' => r \in live
  PROVE  Lossless(r)'
<1>1. Lossless(r)
  BY DEF IInv, NothingLost, Lossless
<1>2. r \in Registered' <=> r \in Registered
  BY DEF Registered
<1>3. ASSUME NEW n \in Nat, Split(r, output_queues[r], n)
      PROVE  Split(r, output_queues[r], n)'
  BY <1>3 DEF Split
<1> QED
  BY <1>1, <1>2, <1>3 DEF Lossless

\* An entry of the bridge in the queue of a request that stops to be live.
LEMMA BridgeEntry ==
  ASSUME IInv, NEW r \in Requests, NEW x \in {"error", "abort"}, r \in Registered,
         output_queues'[r] = Append(output_queues[r], x), r \notin live',
         received'[r] = received[r], made'[r] = made[r], ended'[r] = ended[r]
  PROVE  Lossless(r)'
<1> DEFINE q == output_queues[r]
           t == Append(q, x)
<1>1. q \in Seq(Outputs)
  BY DEF IInv, TypeOK, Registered
<1>2. Lossless(r)
  BY DEF IInv, NothingLost, Lossless
<1>3. ASSUME NEW n \in Nat, Split(r, q, n)
      PROVE  Split(r, q, n)'
  <2>1. n \in 0..Len(q) /\ received[r] + n = made[r]
    BY <1>3 DEF Split
  <2>2. /\ \A k \in 1..Len(q) : q[k] \in {"token", "last"} <=> k <= n
        /\ \A k \in 1 .. n - 1 : q[k] = "token"
    BY <1>3 DEF Split
  <2>3. /\ Len(t) = Len(q) + 1 /\ t[Len(q) + 1] = x
        /\ \A k \in 1..Len(q) : t[k] = q[k]
    BY <1>1
  <2>4. n \in 0..Len(t) /\ received'[r] + n = made'[r]
    BY <1>1, <2>1, <2>3
  <2>5. \A k \in 1..Len(t) : t[k] \in {"token", "last"} <=> k <= n
    BY <1>1, <2>1, <2>2, <2>3
  <2>6. \A k \in 1 .. n - 1 : t[k] = "token"
    BY <1>1, <2>1, <2>2, <2>3
  <2> QED BY <2>4, <2>5, <2>6 DEF Split
<1> QED
  BY <1>2, <1>3 DEF Lossless, Registered

\* An output of the engine for a live request.
LEMMA EngineEntry ==
  ASSUME IInv, NEW r \in Requests, NEW x \in {"token", "last"}, r \in live,
         output_queues'[r] = Append(output_queues[r], x), r \in live' => x = "token",
         received'[r] = received[r], made'[r] = made[r] + 1, ended'[r] = ended[r]
  PROVE  Lossless(r)'
<1> DEFINE q == output_queues[r]
           t == Append(q, x)
<1>1. r \in Registered /\ ended[r] = None
  BY DEF IInv, WorksForSomebody
<1>2. q \in Seq(Outputs) /\ received[r] \in Nat /\ made[r] \in Nat
  BY <1>1 DEF IInv, TypeOK, Registered
<1> PICK n \in Nat : n = Len(q)
  BY <1>2
<1>3. \E m \in Nat : Split(r, q, m)
  BY <1>1 DEF IInv, NothingLost
<1>4. received[r] + n = made[r] /\ \A k \in 1..n : q[k] = "token"
  BY <1>2, <1>3 DEF Split
<1>5. /\ Len(t) = n + 1 /\ t[n + 1] = x
      /\ \A k \in 1..n : t[k] = q[k]
  BY <1>2
<1>6. \A k \in 1 .. n + 1 : t[k] \in {"token", "last"} /\ (k <= n => t[k] = "token")
  BY <1>2, <1>4, <1>5
<1>7. Split(r, q, n + 1)'
  <2>0. PICK a \in Nat, b \in Nat : a = received[r] /\ b = made[r]
    BY <1>2
  <2>1. q' = t /\ n + 1 \in 0..Len(t) /\ received'[r] + (n + 1) = made'[r]
    <3>1. q' = t /\ n + 1 \in 0..Len(t)
      BY <1>5
    <3>2. a + n = b /\ received'[r] = a /\ made'[r] = b + 1
      BY <1>4, <2>0
    <3>3. a + (n + 1) = b + 1
      BY <3>2
    <3> QED BY <3>1, <3>2, <3>3
  <2>2. \A k \in 1..Len(t) : t[k] \in {"token", "last"} <=> k <= n + 1
    BY <1>5, <1>6
  <2>3. \A k \in 1 .. n + 1 - 1 : t[k] = "token"
    BY <1>6
  <2>4. r \in live' => n + 1 = Len(t) /\ \A k \in 1 .. n + 1 : t[k] = "token"
    BY <1>5, <1>6
  <2> HIDE DEF t
  <2> QED BY <2>1, <2>2, <2>3, <2>4 DEF Split
<1>8. ended'[r] # "last"
  BY <1>1, ServerAssumption DEF Outputs
<1> QED
  BY <1>1, <1>2, <1>7, <1>8 DEF Lossless, Registered

\* The head of the queue goes to the client: one output less is missing, and if
\* it is a last token, nothing is.
LEMMA ReceiveLossless ==
  ASSUME IInv, NEW r \in Requests, Receive(r)
  PROVE  Lossless(r)'
<1> DEFINE q == output_queues[r]
           t == Tail(q)
           out == Head(q)
<1>0. TypeOK
  BY DEF IInv
<1>1. r \in Registered /\ q \in Seq(Outputs) /\ q # <<>>
  BY DEF IInv, QueueWhileHandled, TypeOK, Registered, Receive
<1>2. /\ 1 \in DOMAIN q /\ out = q[1] /\ out \in Outputs
      /\ t \in Seq(Outputs) /\ Len(t) = Len(q) - 1
      /\ \A k \in 1..Len(t) : t[k] = q[k + 1]
  BY <1>1, Get
<1>3. /\ output_queues'[r] = t
      /\ ended'[r] = IF out = "token" THEN None ELSE out
      /\ received'[r] = IF out \in {"token", "last"} THEN received[r] + 1 ELSE received[r]
      /\ live' = live /\ made' = made
  BY <1>0 DEF Receive, engineVars, TypeOK
<1>4. received[r] \in Nat /\ made[r] \in Nat
  BY <1>0 DEF TypeOK
<1>5. CASE ended[r] = None
  <2>1. PICK n \in Nat : Split(r, q, n)
    BY <1>1, <1>5 DEF IInv, NothingLost
  <2>2. n \in 0..Len(q) /\ received[r] + n = made[r]
    BY <2>1 DEF Split
  <2>3. \A k \in 1..Len(q) : q[k] \in {"token", "last"} <=> k <= n
    BY <2>1 DEF Split
  <2>4. \A k \in 1 .. n - 1 : q[k] = "token"
    BY <2>1 DEF Split
  <2>5. r \in live => n = Len(q) /\ \A k \in 1..n : q[k] = "token"
    BY <2>1 DEF Split
  <2>6. CASE out = "token"
    <3>1. n >= 1
      BY <1>1, <1>2, <2>2, <2>3, <2>6
    <3>2. received'[r] + (n - 1) = made'[r] /\ n - 1 \in 0..Len(t)
      BY <1>1, <1>2, <1>3, <1>4, <2>2, <2>6, <3>1
    <3>3. \A k \in 1..Len(t) : t[k] \in {"token", "last"} <=> k <= n - 1
      BY <1>1, <1>2, <2>2, <2>3, <3>1
    <3>4. \A k \in 1 .. n - 1 - 1 : t[k] = "token"
      BY <1>1, <1>2, <2>2, <2>4, <3>1
    <3>5. r \in live => n - 1 = Len(t) /\ \A k \in 1 .. n - 1 : t[k] = "token"
      BY <1>1, <1>2, <2>2, <2>5, <3>1
    <3>6. Split(r, q, n - 1)'
      BY <1>3, <3>2, <3>3, <3>4, <3>5 DEF Split
    <3>7. ended'[r] # "last"
      BY <1>3, <2>6, ServerAssumption DEF Outputs
    <3> QED BY <3>1, <3>6, <3>7 DEF Lossless
  <2>7. CASE out = "last"
    <3>1. n = 1
      BY <1>1, <1>2, <2>2, <2>3, <2>4, <2>7
    <3> QED BY <1>2, <1>3, <1>4, <2>2, <2>7, <3>1, ServerAssumption DEF Lossless, Outputs
  <2>8. CASE out \notin {"token", "last"}
    BY <1>2, <1>3, <2>8, ServerAssumption DEF Lossless, Outputs
  <2> QED BY <2>6, <2>7, <2>8
<1>6. ended[r] = None
  BY DEF IInv, EndsWithAnEnd, Receive
<1> QED
  BY <1>5, <1>6
\* What is queued and what was passed on, for every request.
LEMMA NothingLostInv == IInv /\ [Next]_vars => NothingLost'
<1> SUFFICES ASSUME IInv, [Next]_vars, NEW p \in Requests PROVE Lossless(p)'
  BY DEF NothingLost, Lossless
<1>0. TypeOK
  BY DEF IInv
<1>1. CASE UNCHANGED vars \/ Sleep
  BY <1>1, LosslessKept DEF vars, Sleep, engineVars, clientVars
<1>2. ASSUME NEW outputs \in StepOutputs, StepReturns(outputs) PROVE Lossless(p)'
  <2>1. /\ received' = received /\ ended' = ended
        /\ made'[p] = IF p \in DOMAIN outputs /\ outputs[p] # "error" THEN made[p] + 1 ELSE made[p]
        /\ live' = live \ {r \in DOMAIN outputs : outputs[r] # "token"}
        /\ output_queues'[p] = IF p \in DOMAIN outputs \cap Registered
                               THEN Append(output_queues[p], outputs[p]) ELSE output_queues[p]
    BY <1>2 DEF StepReturns, put_outputs, clientVars
  <2>2. CASE p \notin DOMAIN outputs
    BY <2>1, <2>2, LosslessKept
  <2>3. CASE p \in DOMAIN outputs
    <3>1. p \in live /\ outputs[p] \in {"token", "last", "error"}
      BY <1>2, <2>3, StepOutputsType
    <3>2. p \in Registered
      BY <3>1 DEF IInv, WorksForSomebody
    <3>3. CASE outputs[p] = "error"
      BY <2>1, <2>3, <3>2, <3>3, BridgeEntry
    <3>4. CASE outputs[p] # "error"
      BY <2>1, <2>3, <3>1, <3>2, <3>4, EngineEntry
    <3> QED BY <3>3, <3>4
  <2> QED BY <2>2, <2>3
<1>3. CASE StepRaises
  <2>1. /\ received' = received /\ ended' = ended /\ made' = made /\ live' = live \ Registered
        /\ output_queues'[p] = IF p \in Registered THEN Append(output_queues[p], "error") ELSE None
    BY <1>3 DEF StepRaises, fail_all, clientVars
  <2>2. CASE p \in Registered
    BY <2>1, <2>2, BridgeEntry
  <2>3. CASE p \notin Registered
    BY <2>1, <2>3, LosslessKept DEF Registered
  <2> QED BY <2>2, <2>3
<1>4. ASSUME NEW r \in Requests, Accept(r) \/ Continue(r) \/ Disconnect(r) PROVE Lossless(p)'
  BY <1>4, LosslessKept DEF Accept, Continue, Disconnect, engineVars, clientVars
<1>5. ASSUME NEW r \in Requests, Register(r) PROVE Lossless(p)'
  <2>1. /\ received' = received /\ ended' = ended /\ made' = made /\ live' = live \cup {r}
        /\ output_queues' = [output_queues EXCEPT ![r] = <<>>]
    BY <1>5 DEF Register, clientVars
  <2>2. CASE p = r
    <3>1. made[r] = 0 /\ received[r] = 0 /\ ended[r] = None
      BY <1>5 DEF Register, IInv, NothingBefore
    <3>2. output_queues'[r] = <<>>
      BY <1>0, <2>1 DEF TypeOK
    <3>3. Split(r, output_queues[r], 0)'
      BY <2>1, <3>1, <3>2 DEF Split
    <3>4. ended'[r] # "last"
      BY <2>1, <3>1, ServerAssumption DEF Outputs
    <3> QED BY <2>2, <3>3, <3>4 DEF Lossless
  <2>3. CASE p # r
    BY <1>0, <2>1, <2>3, LosslessKept DEF TypeOK
  <2> QED BY <2>2, <2>3
<1>6. ASSUME NEW r \in Requests, Receive(r) PROVE Lossless(p)'
  <2>1. /\ output_queues' = [output_queues EXCEPT ![r] = Tail(output_queues[r])]
        /\ handler[r] = "getting" /\ output_queues[r] # <<>>
        /\ ended' = [ended EXCEPT ![r] = IF Head(output_queues[r]) = "token" THEN None ELSE Head(output_queues[r])]
        /\ received' = [received EXCEPT ![r] = IF Head(output_queues[r]) \in {"token", "last"} THEN @ + 1 ELSE @]
        /\ live' = live /\ made' = made
    BY <1>6 DEF Receive, engineVars
  <2>2. CASE p = r
    BY <1>6, <2>2, ReceiveLossless
  <2>3. CASE p # r
    BY <1>0, <2>1, <2>3, LosslessKept DEF TypeOK
  <2> QED BY <2>2, <2>3
<1>7. ASSUME NEW r \in Requests, Listener(r) \/ SendFails(r) \/ Watch(r) PROVE Lossless(p)'
  <2>1. abort_request(r)
    BY <1>7 DEF Listener, SendFails, Watch
  <2>2. /\ live' = live \ {r} /\ UNCHANGED <<made, received, ended>>
        /\ output_queues' = IF r \in Registered
                            THEN [output_queues EXCEPT ![r] = Append(output_queues[r], "abort")]
                            ELSE output_queues
    BY <2>1 DEF abort_request, aborted, clientVars
  <2>3. CASE p = r /\ r \in Registered
    <3>1. output_queues'[r] = Append(output_queues[r], "abort") /\ r \notin live'
      BY <1>0, <2>2, <2>3 DEF TypeOK
    <3> QED BY <2>2, <2>3, <3>1, BridgeEntry
  <2>4. CASE p # r \/ r \notin Registered
    BY <1>0, <2>2, <2>4, LosslessKept DEF TypeOK
  <2> QED BY <2>3, <2>4
<1>8. ASSUME NEW r \in Requests, Finish(r) \/ CancelStream(r) \/ Close(r) PROVE Lossless(p)'
  <2>1. Leave(r)
    BY <1>8 DEF Finish, CancelStream, Close
  <2>2. /\ live' = live \ {r} /\ UNCHANGED <<made, received, ended>>
        /\ output_queues' = [output_queues EXCEPT ![r] = None]
    BY <2>1 DEF Leave, aborted, clientVars
  <2>3. CASE p = r
    BY <1>0, <2>2, <2>3 DEF Lossless, IInv, NothingLost, Registered, TypeOK
  <2>4. CASE p # r
    BY <1>0, <2>2, <2>4, LosslessKept DEF TypeOK
  <2> QED BY <2>3, <2>4
<1> QED
  BY <1>1, <1>2, <1>3, <1>4, <1>5, <1>6, <1>7, <1>8 DEF Next, Step, HandlerStep

-----------------------------------------------------------------------------
\* The states of the server satisfy the whole invariant; each part of it needs
\* the others in some step.
THEOREM Invariance == Spec => []IInv
<1>1. IInv /\ [Next]_vars => IInv'
  BY BasicsInv, NothingLostInv DEF IInv, Basics
<1> QED
  BY InitInv, <1>1, PTL DEF Spec

\* The engine works for nobody who is gone: whatever steps return or raise, and
\* however disconnects fall between them, a live request has its queue and a
\* handler that waits for the answer.
THEOREM EngineWorksForSomebody == Spec => []WorksForSomebody
BY Invariance, PTL DEF IInv

\* A client that stays gets the whole answer, in order, and one end, and only
\* those who left are told of an abort.
THEOREM AnswersAreWhole == Spec => []WholeAnswer
<1>1. IInv => WholeAnswer
  <2> SUFFICES ASSUME IInv, NEW r \in Requests
               PROVE  /\ ended[r] = "last" => received[r] = made[r]
                      /\ ended[r] = "abort" => ~connected[r]
                      /\ handler[r] = "done" /\ connected[r] => ended[r] \in {"last", "error"}
    BY DEF WholeAnswer
  <2>1. ended[r] \in {"last", "error", "abort", None}
    BY DEF IInv, TypeOK, Outputs
  <2> QED
    BY <2>1 DEF IInv, NothingLost, OnlyAfterLeaving, EndsWithAnEnd
<1> QED
  BY Invariance, <1>1, PTL
==============================================================================
