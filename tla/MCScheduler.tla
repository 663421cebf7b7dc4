---------------------------- MODULE MCScheduler -----------------------------
(* Small instances of Scheduler for TLC. *)
EXTENDS Scheduler

CONSTANTS s1, s2, s3, s4

\* Three requests for three blocks of two tokens: s1 and s3 may outgrow the
\* pool, s2 always fits.
MCPrompt == (s1 :> <<0, 0>>) @@ (s2 :> <<0, 0>>) @@ (s3 :> <<0>>)
MCMaxTokens == (s1 :> 6) @@ (s2 :> 3) @@ (s3 :> 7)

\* The same, but s1 has a prompt as large as the pool.
LongPrompt == (s1 :> <<0, 0, 0, 0, 0, 0>>) @@ (s2 :> <<0, 0>>) @@ (s3 :> <<0>>)
LongMaxTokens == (s1 :> 2) @@ (s2 :> 3) @@ (s3 :> 7)

\* Each prompt a prefix of the one before, from half a block past one block to
\* two blocks, and, if s4 takes part, one prompt larger than three blocks.
SharedPrompt ==
  Restrict((s1 :> <<0, 0, 1, 0>>) @@ (s2 :> <<0, 0, 1>>) @@ (s3 :> <<0, 0>>)
             @@ (s4 :> <<0, 0, 1, 0, 0, 0, 1>>), Seqs)
SharedMaxTokens == Restrict((s1 :> 2) @@ (s2 :> 3) @@ (s3 :> 2) @@ (s4 :> 1), Seqs)

\* Two requests that share a block and a short one: three decodes together fill
\* four blocks, and the next one needs a fifth.
PairPrompt == (s1 :> <<0, 0>>) @@ (s2 :> <<0, 0, 1>>) @@ (s3 :> <<0>>)
PairMaxTokens == (s1 :> 3) @@ (s2 :> 3) @@ (s3 :> 3)

\* The same request from everybody.
TinyPrompt == [s \in Seqs |-> <<0>>]
TwoTokens == [s \in Seqs |-> 2]

\* Nobody, or s3 alone, asks for a priority of its own.
NoPriority == <<>>
UrgentPriority == s3 :> 0
=============================================================================
