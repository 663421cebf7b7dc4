------------------------------- MODULE Stream -------------------------------
(***************************************************************************)
(* One streamed completion from end to end: the events of _stream in       *)
(* engine/api/server.py and the client of bench/run_bench.py, whose _send  *)
(* times the tokens and decides what counts as a success.  The connection  *)
(* cuts the byte stream anywhere; a symbol is an event's line or one of    *)
(* the two line ends behind it.                                            *)
(***************************************************************************)
EXTENDS Integers, Sequences, FiniteSetsExt, Functions

CONSTANTS NumRequests,
          OutputLen   \* request -> output_len; with ignore_eos it gets that many tokens

Requests == 1..NumRequests

ASSUME StreamAssumption == NumRequests \in Nat /\ OutputLen \in [Requests -> Nat \ {0}]

VARIABLES answer,  \* where _stream is: "none", "tokens", "usage", "last", then "complete";
                   \* "refused" for a status other than 200, "lost" with the connection
          made,    \* num_output
          wire,    \* symbols sent and not yet read
          buffer,  \* _send's buffer
          rec      \* _send's record; `at` is "new", "open" or "done"

streamVars == <<answer, made, wire, buffer, rec>>

NewRecord == [at |-> "new", token_times |-> 0, output_tokens |-> 0, error |-> FALSE]

StreamInit ==
  /\ answer = [r \in Requests |-> "none"] /\ made = [r \in Requests |-> 0]
  /\ wire = [r \in Requests |-> <<>>] /\ buffer = [r \in Requests |-> <<>>]
  /\ rec = [r \in Requests |-> NewRecord]

\* The next rate starts with new records.
StreamReset ==
  /\ answer' = [r \in Requests |-> "none"] /\ made' = [r \in Requests |-> 0]
  /\ wire' = [r \in Requests |-> <<>>] /\ buffer' = [r \in Requests |-> <<>>]
  /\ rec' = [r \in Requests |-> NewRecord]

-----------------------------------------------------------------------------
\* _stream

Line(kind, n) == [kind |-> kind, n |-> n]
NewLine == Line("nl", 0)
sse(line) == <<line, NewLine, NewLine>>

\* The events that may come next, each with where it leads.
next_events(r) ==
  CASE answer[r] = "tokens" ->
         {<<Line("choices", 1), IF made[r] + 1 = OutputLen[r] THEN "usage" ELSE "tokens">>,
          <<Line("error", 0), "usage">>}
    [] answer[r] = "usage" -> {<<Line("usage", made[r]), "last">>}
    [] answer[r] = "last" -> {<<Line("[DONE]", 0), "complete">>}
    [] OTHER -> {}

Yield(r) == \E e \in next_events(r) :
  /\ wire' = [wire EXCEPT ![r] = @ \o sse(e[1])]
  /\ answer' = [answer EXCEPT ![r] = e[2]]
  /\ made' = [made EXCEPT ![r] = IF e[1].kind = "choices" THEN @ + 1 ELSE @]
  /\ UNCHANGED <<buffer, rec>>

\* The server is gone: its open answers end in the middle.
LoseAnswers ==
  /\ answer' = [r \in Requests |-> IF answer[r] \in {"tokens", "usage", "last"} THEN "lost" ELSE answer[r]]
  /\ UNCHANGED <<made, wire, buffer, rec>>

-----------------------------------------------------------------------------
\* _send

Post(r, replies) ==
  /\ rec[r].at = "new"
  /\ rec' = [rec EXCEPT ![r].at = "open"]
  /\ \E reply \in replies : answer' = [answer EXCEPT ![r] = reply]
  /\ UNCHANGED <<made, wire, buffer>>

\* Mutant: every chunk is parsed by itself.
only_chunk(r, chunk) == chunk

unparsed(r, chunk) == buffer[r] \o chunk

\* The length of what ends with the last blank line of `symbols`.
whole_events(symbols) == Max({0} \cup {k \in 2..Len(symbols) : symbols[k - 1] = NewLine /\ symbols[k] = NewLine})

\* What the lines leave in the record.
Parsed(record, lines) ==
  [record EXCEPT
     !.token_times = @ + Cardinality({j \in DOMAIN lines : lines[j].kind = "choices"}),
     !.output_tokens = Max({@} \cup {l.n : l \in {x \in Range(lines) : x.kind = "usage"}}),
     !.error = @ \/ \E l \in Range(lines) : l.kind = "error"]

\* iter_any: a chunk is any part of what has arrived.
Read(r) ==
  /\ rec[r].at = "open" /\ wire[r] # <<>>
  /\ \E n \in 1..Len(wire[r]) :
       LET symbols == unparsed(r, SubSeq(wire[r], 1, n))
           k == whole_events(symbols)
       IN /\ wire' = [wire EXCEPT ![r] = SubSeq(@, n + 1, Len(@))]
          /\ buffer' = [buffer EXCEPT ![r] = SubSeq(symbols, k + 1, Len(symbols))]
          /\ rec' = [rec EXCEPT ![r] = Parsed(@, SubSeq(symbols, 1, k))]
  /\ UNCHANGED <<answer, made>>

success(record) == record.token_times > 0 /\ ~record.error

Closed(record) ==
  [record EXCEPT !.at = "done",
                 !.output_tokens = IF success(record) /\ @ = 0 THEN record.token_times ELSE @]

\* A refusal, or the exception of a broken connection or a closed port.
is_failure(r) == answer[r] \in {"refused", "lost"}

\* The body is over, or the client learns that it never will be.
EndSend(r) ==
  /\ rec[r].at = "open"
  /\ (answer[r] = "complete" /\ wire[r] = <<>>) \/ is_failure(r)
  /\ rec' = [rec EXCEPT ![r] = Closed([rec[r] EXCEPT !.error = @ \/ is_failure(r)])]
  /\ UNCHANGED <<answer, made, wire, buffer>>

-----------------------------------------------------------------------------
\* A request counts as a success exactly if its whole answer was made and
\* arrived, every token timed and counted once, however the stream was cut; an
\* answer that breaks off or turns into an error never counts.
RecordsAreTrue == \A r \in Requests : rec[r].at = "done" =>
  LET whole == answer[r] = "complete" /\ made[r] = OutputLen[r] IN
  /\ success(rec[r]) <=> whole
  /\ whole => rec[r].token_times = OutputLen[r] /\ rec[r].output_tokens = OutputLen[r]
=============================================================================
