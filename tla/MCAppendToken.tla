---------------------------- MODULE MCAppendToken ----------------------------
(* A small vocabulary for AppendToken. *)
EXTENDS AppendToken, TLC

\* Characters, halves of a character, tokens that end or begin with a half, and
\* an end-of-sequence token.
SmallVocab ==
  ("a" :> <<"a">>) @@ ("b" :> <<"b">>) @@ ("ab" :> <<"a", "b">>) @@ ("lead" :> <<"lead">>)
    @@ ("cont" :> <<"cont">>) @@ ("b-lead" :> <<"b", "lead">>) @@ ("cont-a" :> <<"cont", "a">>)
    @@ ("eos" :> <<>>)

\* None, one, a long and a short one that overlap, and one with a split character.
SmallStops == {{}, {<<"a", "b">>}, {<<"b", "a", "b">>, <<"a", "a">>}, {<<"e", "a">>}}
=============================================================================
