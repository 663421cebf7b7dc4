------------------------------- MODULE Requests -------------------------------
(***************************************************************************)
(* How POST /v1/completions turns a request body into a sequence of the    *)
(* engine or refuses it (engine/api/protocol.py, engine/api/server.py,     *)
(* SamplingParams, LLMEngine.validate).                                    *)
(***************************************************************************)
EXTENDS EngineConfig, Sequences

CONSTANTS Text,             \* the strings a client may send
          EmptyText,        \* ""
          tokenizer,        \* the token ids of a string
          served_names,     \* the model names this server answers to
          max_model_len,    \* config.max_model_len after resolve
          vocab_size

TokenIds == Seq(Int)

\* The four forms of `prompt`; an empty list is read as a list of ids.
Prompts == [kind : {"text"}, value : Text] \cup [kind : {"ids"}, value : TokenIds]
             \cup [kind : {"texts"}, value : Seq(Text) \ {<<>>}]
             \cup [kind : {"lists"}, value : Seq(TokenIds) \ {<<>>}]

\* The body once the schema has accepted it. `stop` is one string or several.
CompletionRequest ==
  [model : Text, prompt : Prompts, max_tokens : Int \cup {None},
   temperature : Int, top_p : Int, ignore_eos : BOOLEAN,
   stop : {None} \cup [one : Text] \cup [many : Seq(Text)],
   n : Int, logprobs : Int \cup {None}, echo : BOOLEAN, seed : Int \cup {None},
   top_k : Int \cup {None}, presence_penalty : Int \cup {None},
   frequency_penalty : Int \cup {None}, repetition_penalty : Int \cup {None}]

\* What the schema gives to the fields a body leaves out.  `model` and `prompt`
\* have no default, and "field": null is a value, not an omission.
Defaults ==
  [max_tokens |-> 16, temperature |-> Unit, top_p |-> Unit, ignore_eos |-> FALSE, stop |-> None,
   n |-> 1, logprobs |-> None, echo |-> FALSE, seed |-> None, top_k |-> None,
   presence_penalty |-> 0, frequency_penalty |-> 0, repetition_penalty |-> Unit]

with_defaults(body) ==
  [field \in DOMAIN body \cup DOMAIN Defaults |->
     IF field \in DOMAIN body THEN body[field] ELSE Defaults[field]]

unsupported(req) ==
  \/ req.n # 1
  \/ req.logprobs # None
  \/ req.echo
  \/ req.seed # None
  \/ req.top_k \notin {None, 0, -1}
  \/ req.presence_penalty \notin {None, 0}
  \/ req.frequency_penalty \notin {None, 0}
  \/ req.repetition_penalty \notin {None, Unit}

stop_strings(req) ==
  IF req.stop = None THEN <<>>
  ELSE IF DOMAIN req.stop = {"one"} THEN <<req.stop.one>> ELSE req.stop.many

\* _prompt_ids returns instead of raising: the body holds one prompt ...
single(p) == p.kind \in {"text", "ids"} \/ Len(p.value) = 1

\* ... and what it returns then.
prompt_ids(p) ==
  CASE p.kind = "text"  -> tokenizer[p.value]
    [] p.kind = "texts" -> tokenizer[p.value[1]]
    [] p.kind = "lists" -> p.value[1]
    [] p.kind = "ids"   -> p.value

\* A limit of null is all the room the prompt leaves; a limit left out is not null.
max_tokens(req) ==
  IF req.max_tokens # None THEN req.max_tokens ELSE max_model_len - Len(prompt_ids(req.prompt))

\* SamplingParams.__post_init__ does not raise.
params_valid(req) ==
  /\ req.temperature >= 0
  /\ 0 < req.top_p /\ req.top_p <= Unit
  /\ max_tokens(req) >= 1
  /\ \A i \in DOMAIN stop_strings(req) : stop_strings(req)[i] # EmptyText

\* LLMEngine.validate does not raise, in completions and again in add_request.
validate(ids, limit) ==
  /\ Len(ids) # 0
  /\ Len(ids) + limit <= max_model_len
  /\ \A i \in DOMAIN ids : 0 <= ids[i] /\ ids[i] < vocab_size

\* The status of the response; 200 means that the request reaches the engine.
status(req) ==
  IF unsupported(req) THEN 400
  ELSE IF req.model \notin served_names THEN 404
  ELSE IF /\ single(req.prompt)
          /\ params_valid(req)
          /\ validate(prompt_ids(req.prompt), max_tokens(req)) THEN 200
  ELSE 400
==============================================================================
