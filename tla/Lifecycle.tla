------------------------------ MODULE Lifecycle ------------------------------
(***************************************************************************)
(* What a client may rely on for each request, whatever the scheduler does *)
(* with it: the state machine at the top of engine/core/sequence.py, with  *)
(* the tokens of the sequence and those whose K/V are in the cache.  The   *)
(* scheduler may run, preempt and resume a request as it likes, but tokens *)
(* are sampled one at a time, each behind a complete context, nothing once *)
(* sampled is lost, and the end is final and told with its true reason.    *)
(***************************************************************************)
EXTENDS Integers

CONSTANTS Seqs,
          None,
          PromptLen, \* sequence -> num_prompt_tokens
          MaxLen     \* sequence -> tokens it may have at most

VARIABLES status, finish_reason,
          tokens,  \* num_tokens
          computed \* num_computed_tokens

lifecycleVars == <<status, finish_reason, tokens, computed>>

Live == {"WAITING", "RUNNING", "PREEMPTED"}

Init ==
  /\ status = [s \in Seqs |-> "NEW"]
  /\ finish_reason = [s \in Seqs |-> None]
  /\ tokens = PromptLen
  /\ computed = [s \in Seqs |-> 0]

Become(s, from, to) == status[s] \in from /\ status' = [status EXCEPT ![s] = to]

Arrive(s) == Become(s, {"NEW"}, "WAITING") /\ UNCHANGED <<finish_reason, tokens, computed>>

\* A cached prefix may be computed already, but never the whole sequence.
Start(s) ==
  /\ Become(s, {"WAITING", "PREEMPTED"}, "RUNNING")
  /\ \E n \in computed[s] .. tokens[s] - 1 : computed' = [computed EXCEPT ![s] = n]
  /\ UNCHANGED <<finish_reason, tokens>>

\* A victim keeps all of its K/V, or none.
Suspend(s) ==
  /\ Become(s, {"RUNNING"}, "PREEMPTED")
  /\ \E n \in {0, computed[s]} : computed' = [computed EXCEPT ![s] = n]
  /\ UNCHANGED <<finish_reason, tokens>>

\* A chunk of a prefill.
Prefill(s) ==
  /\ status[s] = "RUNNING"
  /\ \E n \in computed[s] + 1 .. tokens[s] - 1 : computed' = [computed EXCEPT ![s] = n]
  /\ UNCHANGED <<status, finish_reason, tokens>>

\* The next token: all before it are computed, and the last one allowed ends
\* the request.
Sample(s) ==
  /\ status[s] = "RUNNING" /\ tokens[s] < MaxLen[s]
  /\ computed' = [computed EXCEPT ![s] = tokens[s]]
  /\ tokens' = [tokens EXCEPT ![s] = @ + 1]
  /\ \/ tokens'[s] < MaxLen[s] /\ UNCHANGED <<status, finish_reason>>
     \/ /\ Become(s, {"RUNNING"}, "FINISHED")
        /\ \E reason \in {"stop"} \cup (IF tokens'[s] = MaxLen[s] THEN {"length"} ELSE {}) :
             finish_reason' = [finish_reason EXCEPT ![s] = reason]

Fail(s) ==
  /\ Become(s, Live, "FINISHED")
  /\ finish_reason' = [finish_reason EXCEPT ![s] = "error"]
  /\ UNCHANGED <<tokens, computed>>

Abort(s) == Become(s, Live, "ABORTED") /\ UNCHANGED <<finish_reason, tokens, computed>>

Next == \E s \in Seqs :
  Arrive(s) \/ Start(s) \/ Suspend(s) \/ Prefill(s) \/ Sample(s) \/ Fail(s) \/ Abort(s)

Spec == Init /\ [][Next]_lifecycleVars
=============================================================================
