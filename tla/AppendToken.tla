----------------------------- MODULE AppendToken -----------------------------
(***************************************************************************)
(* engine/core/sampler.py: append_token with the incremental detokenizer   *)
(* and the search for stop strings, for the tokens one request samples.    *)
(*                                                                         *)
(* Text is a sequence of characters and a token a sequence of bytes.  Two  *)
(* bytes, "lead" and "cont", make the character "e" together, as in UTF-8; *)
(* every other byte is a character.  A special token has no bytes          *)
(* (skip_special_tokens).                                                  *)
(***************************************************************************)
EXTENDS Integers, FiniteSetsExt, SequencesExt

CONSTANTS Vocab,      \* token id -> its bytes
          EosIds,     \* eos_token_ids
          StopLists,  \* values of params.stop
          MaxTokens,  \* max_tokens, or what max_model_len leaves
          None        \* Python's None

ASSUME VocabAssumption == EosIds \subseteq DOMAIN Vocab /\ MaxTokens \in Nat \ {0}
ASSUME StopAssumption == \A s \in UNION StopLists : s # <<>>

VARIABLES stop,               \* params.stop
          ignore_eos,
          ids, prefix_offset, read_offset,   \* IncrementalDetokenizer
          output_text, num_emitted_chars,    \* Sequence
          finish,             \* finish_reason, "eos" for a "stop" without stop string
          sent                \* all the text returned so far

vars == <<stop, ignore_eos, ids, prefix_offset, read_offset, output_text,
          num_emitted_chars, finish, sent>>

Replacement == "\\ufffd"

\* The text of `bytes`: whatever is no character becomes a replacement one.
Text(bytes) ==
  LET text[k \in 0..Len(bytes)] ==
        IF k = 0 THEN <<>>
        ELSE IF k > 1 /\ bytes[k] = "cont" /\ bytes[k - 1] = "lead"
             THEN Append(Front(text[k - 1]), "e")
             ELSE Append(text[k - 1], IF bytes[k] \in {"lead", "cont"} THEN Replacement ELSE bytes[k])
  IN text[Len(bytes)]

\* _decode(tokens[lo:hi])
Decode(tokens, lo, hi) == Text(FlattenSeq([k \in 1 .. hi - lo |-> Vocab[tokens[lo + k]]]))

Init ==
  /\ stop \in StopLists /\ ignore_eos \in BOOLEAN
  /\ ids = <<>> /\ prefix_offset = 0 /\ read_offset = 0
  /\ output_text = <<>> /\ num_emitted_chars = 0
  /\ finish = None /\ sent = <<>>

-----------------------------------------------------------------------------
\* What the window of the detokenizer shows beyond what was already read.
Unread(tokens) ==
  LET prefix_text == Decode(tokens, prefix_offset, read_offset)
      new_text    == Decode(tokens, prefix_offset, Len(tokens))
  IN SubSeq(new_text, Len(prefix_text) + 1, Len(new_text))

\* The window ends in a whole character.
Complete(tokens) ==
  LET new_text == Decode(tokens, prefix_offset, Len(tokens)) IN
  Unread(tokens) # <<>> /\ Last(new_text) # Replacement

\* Mutant: a trailing incomplete character is dropped.
flush_nothing(tokens) == <<>>

\* flush: the rest of the window, after add left it as it was or moved it.
flush(tokens) == IF Complete(tokens) THEN <<>> ELSE Unread(tokens)

Occurs(s, text, at) == at + Len(s) <= Len(text) /\ SubSeq(text, at + 1, at + Len(s)) = s

\* Mutant: only the new text is searched.
FindStopInNew(text, prev_len) ==
  {at \in 0..Len(text) : \E s \in stop : at >= prev_len /\ Occurs(s, text, at)}

\* _find_stop: where stop strings that end behind prev_len begin.
FindStop(text, prev_len) ==
  {at \in 0..Len(text) : \E s \in stop : at >= prev_len - Len(s) + 1 /\ Occurs(s, text, at)}

holdback == IF stop = {} THEN 0 ELSE Max({Len(s) : s \in stop}) - 1

\* append_token
AppendToken(token) ==
  LET tokens  == Append(ids, token)
      text    == output_text \o IF Complete(tokens) THEN Unread(tokens) ELSE <<>>
      found   == FindStop(text, Len(output_text))
      reason  == IF found # {} THEN "stop"
                 ELSE IF token \in EosIds /\ ~ignore_eos THEN "eos"
                 ELSE IF Len(tokens) >= MaxTokens THEN "length" ELSE None
      final   == CASE reason = "stop" -> SubSeq(text, 1, Min(found))
                   [] reason \in {"eos", "length"} -> text \o flush(tokens)
                   [] OTHER -> text
      end     == Max({num_emitted_chars, Len(final) - IF reason = None THEN holdback ELSE 0})
  IN
  /\ finish = None
  /\ ids' = tokens
  /\ IF reason \in {"eos", "length"} THEN prefix_offset' = Len(tokens) /\ read_offset' = Len(tokens)
     ELSE IF Complete(tokens) THEN prefix_offset' = read_offset /\ read_offset' = Len(tokens)
     ELSE UNCHANGED <<prefix_offset, read_offset>>
  /\ output_text' = final
  /\ finish' = reason
  /\ sent' = sent \o SubSeq(final, num_emitted_chars + 1, end)
  /\ num_emitted_chars' = end
  /\ UNCHANGED <<stop, ignore_eos>>

Next == \E token \in DOMAIN Vocab : AppendToken(token)

Spec == Init /\ [][Next]_vars

-----------------------------------------------------------------------------
\* Everything the tokens say, decoded at once.
FullText == Decode(ids, 0, Len(ids))

\* "The concatenated stream [is checked] against a full decode": without a stop
\* string, the pieces sent are the full text, split and invalid characters
\* included, and at any time the text so far is the beginning of it.
StreamIsFullText ==
  /\ finish \in {"eos", "length"} => sent = FullText
  /\ IsPrefix(sent, FullText)

\* With a stop string, the client gets the text up to its first occurrence: no
\* part of it was sent before it was complete, however the tokens split it.
CutAtFirstStop == finish = "stop" =>
  LET first == Min({at \in 0..Len(FullText) : \E s \in stop : Occurs(s, FullText, at)})
  IN sent = SubSeq(FullText, 1, first)

\* The text up to the last token that ended in a whole character.
SettledText ==
  LET whole == {k \in 1..Len(ids) : Decode(ids, 0, k) # <<>> /\ Last(Decode(ids, 0, k)) # Replacement}
  IN IF whole = {} THEN <<>> ELSE Decode(ids, 0, Max(whole))

\* A stop string gets to the client at most through the incomplete character
\* that flush() adds at the end of a request, which is not searched any more.
\* ("The stop string itself is never returned" leaves this case out.)
StopOnlyInTail == \A s \in stop : \A at \in 0..Len(sent) : Occurs(s, sent, at) =>
  finish \in {"eos", "length"} /\ at + Len(s) > Len(SettledText)
=============================================================================
