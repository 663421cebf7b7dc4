-------------------------------- MODULE Server --------------------------------
(***************************************************************************)
(* engine/api/server.py: one asyncio thread runs the engine loop and, for  *)
(* every request, a handler and a watch on its client.  Code between two   *)
(* awaits is atomic; every await lets any other task run, and an await     *)
(* that would not suspend is modelled as one that may.                     *)
(*                                                                         *)
(* The engine is what the bridge sees of it: the requests the scheduler    *)
(* still has (live) and the outputs of each step.  Scheduler shows that a  *)
(* live request ends (EveryRequestEnds).  Request bodies, SSE framing and  *)
(* requests refused before they get a handler are left out.                *)
(***************************************************************************)
EXTENDS Integers, Sequences, FiniteSets

CONSTANTS Requests,
          MaxOutputs,  \* bound on the outputs of a request
          None

\* What a queue may carry: outputs of the engine, and what the bridge adds.
Outputs == {"token", "last", "error", "abort"}

ASSUME ServerAssumption ==
  /\ MaxOutputs \in Nat \ {0}
  /\ None \notin Outputs /\ None \notin Seq(Outputs)

\* How the client of a request is watched: a streamed answer under an ASGI
\* server that reports a disconnect as a message, or (spec 2.4) as a failed
\* send, and an answer in one piece.
Kinds == {"stream", "stream_2_4", "collect"}

VARIABLES live,           \* requests in scheduler.seqs
          made,           \* request -> outputs the engine has made for it
          output_queues,  \* request -> its queue, None if not registered
          has_new_work,   \* the event
          loop,           \* run_loop: "ready" after a yield, or "waiting" for the event
          handler,        \* where the handler of each request is
          kind,           \* what the request asked for, None before it arrives
          connected,      \* the client is still there
          signal,         \* its disconnect was handled: "no", "yes", or "early" if unregistered
          received,       \* outputs passed on to the client
          ended           \* the terminal output passed on, or None

engineVars == <<live, made>>
clientVars == <<kind, received, ended>>
vars == <<live, made, output_queues, has_new_work, loop, handler, kind, connected,
          signal, received, ended>>

Registered == {r \in Requests : output_queues[r] # None}

Init ==
  /\ live = {} /\ made = [r \in Requests |-> 0]
  /\ output_queues = [r \in Requests |-> None]
  /\ has_new_work = FALSE /\ loop = "ready"
  /\ handler = [r \in Requests |-> "new"] /\ kind = [r \in Requests |-> None]
  /\ connected = [r \in Requests |-> TRUE]
  /\ signal = [r \in Requests |-> "no"]
  /\ received = [r \in Requests |-> 0] /\ ended = [r \in Requests |-> None]

Goto(r, place) == handler' = [handler EXCEPT ![r] = place]

-----------------------------------------------------------------------------
\* run_loop

\* The loop gets to a step: there is work, or the event was set.
AtStep ==
  \/ loop = "ready" /\ live # {} /\ UNCHANGED has_new_work
  \/ (loop = "waiting" \/ live = {}) /\ has_new_work /\ has_new_work' = FALSE

Sleep ==
  /\ loop = "ready" /\ live = {} /\ ~has_new_work
  /\ loop' = "waiting"
  /\ UNCHANGED <<engineVars, output_queues, has_new_work, handler, connected, signal, clientVars>>

\* What a step may return: a token, a last token or a failure for some of the
\* live requests, and nothing for the others.
StepOutputs ==
  UNION {{out \in [T -> {"token", "last", "error"}] :
            \A r \in T : out[r] = "token" => made[r] + 1 < MaxOutputs} : T \in SUBSET live}

\* Mutant: a queue holds only the latest output.
latest_output(outputs) == [r \in Requests |->
  IF r \in DOMAIN outputs \cap Registered THEN <<outputs[r]>> ELSE output_queues[r]]

\* The step's outputs go to the queues of their requests.
put_outputs(outputs) == [r \in Requests |->
  IF r \in DOMAIN outputs \cap Registered THEN Append(output_queues[r], outputs[r]) ELSE output_queues[r]]

StepReturns(outputs) ==
  /\ AtStep
  /\ made' = [r \in Requests |-> IF r \in DOMAIN outputs /\ outputs[r] # "error"
                                 THEN made[r] + 1 ELSE made[r]]
  /\ live' = live \ {r \in DOMAIN outputs : outputs[r] # "token"}
  /\ output_queues' = put_outputs(outputs)
  /\ loop' = "ready"
  /\ UNCHANGED <<handler, connected, signal, clientVars>>

Step == \E outputs \in StepOutputs : StepReturns(outputs)

\* Mutant: nobody is told.
fail_silently == output_queues

\* What _fail_all puts into the queues.
fail_all == [r \in Requests |-> IF r \in Registered THEN Append(output_queues[r], "error") ELSE None]

\* A step raises: _fail_all, and on without a yield, into an empty step if the
\* event is set and to sleep otherwise.
StepRaises ==
  /\ loop = "ready" /\ live # {}
  /\ live' = live \ Registered
  /\ output_queues' = fail_all
  /\ has_new_work' = FALSE
  /\ loop' = IF has_new_work THEN "ready" ELSE "waiting"
  /\ UNCHANGED <<made, handler, connected, signal, clientVars>>

-----------------------------------------------------------------------------
\* The handler of a request.

Accept(r) ==
  /\ handler[r] = "new" /\ Goto(r, "accepted")
  /\ \E k \in Kinds : kind' = [kind EXCEPT ![r] = k]
  /\ UNCHANGED <<engineVars, output_queues, has_new_work, loop, connected, signal, received, ended>>

\* generate() starts.
Register(r) ==
  /\ handler[r] = "accepted" /\ Goto(r, "getting")
  /\ output_queues' = [output_queues EXCEPT ![r] = <<>>]
  /\ live' = live \cup {r}
  /\ has_new_work' = TRUE
  /\ UNCHANGED <<made, loop, connected, signal, clientVars>>

\* queue.get() returns, and the output goes to the client.
Receive(r) ==
  /\ handler[r] = "getting" /\ output_queues[r] # <<>> /\ Goto(r, "sending")
  /\ LET out == Head(output_queues[r]) IN
     /\ received' = [received EXCEPT ![r] = IF out \in {"token", "last"} THEN @ + 1 ELSE @]
     /\ ended' = [ended EXCEPT ![r] = IF out = "token" THEN None ELSE out]
  /\ output_queues' = [output_queues EXCEPT ![r] = Tail(@)]
  /\ UNCHANGED <<engineVars, has_new_work, loop, kind, connected, signal>>

\* Mutant: the engine goes on with it.
still_live(r) == live

\* engine.abort
aborted(r) == live \ {r}

\* The finally of generate().
Leave(r) ==
  /\ Goto(r, "done")
  /\ live' = aborted(r)
  /\ output_queues' = [output_queues EXCEPT ![r] = None]
  /\ UNCHANGED <<made, has_new_work, loop, connected, signal, clientVars>>

Continue(r) ==
  /\ handler[r] = "sending" /\ ended[r] = None /\ Goto(r, "getting")
  /\ UNCHANGED <<engineVars, output_queues, has_new_work, loop, connected, signal, clientVars>>

Finish(r) == handler[r] = "sending" /\ ended[r] # None /\ Leave(r)

-----------------------------------------------------------------------------
\* Disconnects.

Disconnect(r) ==
  /\ handler[r] \notin {"new", "done"} /\ connected[r]
  /\ connected' = [connected EXCEPT ![r] = FALSE]
  /\ UNCHANGED <<engineVars, output_queues, has_new_work, loop, handler, signal, clientVars>>

\* Abort in the engine, and a terminal output for the generator.
abort_request(r) ==
  /\ live' = aborted(r)
  /\ output_queues' = IF r \in Registered THEN [output_queues EXCEPT ![r] = Append(@, "abort")]
                                        ELSE output_queues
  /\ signal' = [signal EXCEPT ![r] = IF r \in Registered THEN "yes" ELSE "early"]
  /\ UNCHANGED <<made, has_new_work, loop, connected, clientVars>>

\* The listener of a stream; it runs beside the streaming task from the start.
Listener(r) ==
  /\ kind[r] = "stream" /\ handler[r] \in {"accepted", "getting", "sending"}
  /\ ~connected[r] /\ signal[r] = "no"
  /\ abort_request(r)
  /\ UNCHANGED handler

\* Starlette's cancellation of the stream gets through only while the handler
\* waits for an output.
CancelStream(r) ==
  /\ kind[r] = "stream" /\ signal[r] # "no"
  /\ handler[r] = "getting" /\ output_queues[r] = <<>>
  /\ Leave(r)

\* A failed send is the signal; the generator is left to the garbage collector.
SendFails(r) ==
  /\ kind[r] = "stream_2_4" /\ handler[r] = "sending" /\ ~connected[r]
  /\ abort_request(r)
  /\ Goto(r, "dropped")

\* _unless_disconnected: the watch starts after the handler has registered, and
\* cancels it.
Watch(r) ==
  /\ kind[r] = "collect" /\ handler[r] = "getting" /\ ~connected[r]
  /\ abort_request(r)
  /\ Goto(r, "dropped")

\* The dropped or cancelled generator is closed.
Close(r) == handler[r] = "dropped" /\ Leave(r)

-----------------------------------------------------------------------------
HandlerStep(r) ==
  Register(r) \/ Receive(r) \/ Continue(r) \/ Finish(r) \/ SendFails(r) \/ Close(r)

Next ==
  \/ Sleep \/ Step \/ StepRaises
  \/ \E r \in Requests :
       \/ Accept(r) \/ HandlerStep(r) \/ Disconnect(r)
       \/ Listener(r) \/ CancelStream(r) \/ Watch(r)

Spec == Init /\ [][Next]_vars

\* The event loop runs every ready task, and the engine ends every request it
\* has (Scheduler!EveryRequestEnds); a cancellation is retried in every turn of
\* the event loop but only gets through while the handler waits.
FairSpec ==
  /\ Spec
  /\ WF_vars(Step)
  /\ \A r \in Requests :
       /\ SF_vars(\E outputs \in StepOutputs : r \in DOMAIN outputs /\ StepReturns(outputs))
       /\ WF_vars(HandlerStep(r))
       /\ WF_vars(Listener(r)) /\ WF_vars(CancelStream(r)) /\ WF_vars(Watch(r))

-----------------------------------------------------------------------------
\* The engine works only for handlers that still wait for the answer: every
\* live request has its queue, so that _fail_all reaches it, and none outlives
\* its handler or comes back after a disconnect aborted it.
WorksForSomebody == \A r \in live :
  r \in Registered /\ handler[r] \in {"getting", "sending"} /\ ended[r] = None /\ signal[r] # "yes"

\* A client that stays gets the whole answer: all the engine made, in order, and
\* one end; an abort is for those who left.
WholeAnswer == \A r \in Requests :
  /\ ended[r] = "last" => received[r] = made[r]
  /\ ended[r] = "abort" => ~connected[r]
  /\ handler[r] = "done" /\ connected[r] => ended[r] \in {"last", "error"}

\* "A failed step must not strand every waiting client": every accepted request
\* ends, whatever fails, leaves or arrives while the loop goes to sleep.
NobodyStranded == \A r \in Requests : handler[r] = "accepted" ~> handler[r] = "done"

\* Once the signal of a disconnect was handled nothing is decoded for the
\* client: "Aborting straight from the disconnect signal does not depend on
\* that timing".
NothingDecodedForNobody == \A r \in Requests : signal[r] # "no" => r \notin live
===============================================================================
