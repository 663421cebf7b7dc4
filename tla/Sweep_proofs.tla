----------------------------- MODULE Sweep_proofs -----------------------------
(***************************************************************************)
(* The servers of a sweep and the records of its requests, for any number  *)
(* of configurations, rates, requests and tokens.                          *)
(***************************************************************************)
EXTENDS Sweep, FiniteSetTheorems, TLAPS

Benches == {"launch", "wait", "rate", "stop", "reap", "done", "raised"}

SweepTypeOK ==
  /\ proc \in [Configs -> {"none", "starting", "serving", "stopping", "dead"}]
  /\ config \in Configs /\ bench \in Benches

IInv == SweepTypeOK /\ OneServer

LEMMA SweepInit == Init => IInv
BY SweepAssumption DEF Init, IInv, SweepTypeOK, OneServer, alive, Configs, Benches

\* No step starts a server beside another or leaves one behind: only Launch
\* starts one, and EndConfig goes on from a dead one only.
LEMMA SweepNext == IInv /\ [Next]_vars => IInv'
<1> SUFFICES ASSUME IInv, [Next]_vars PROVE IInv'
  OBVIOUS
<1>1. CASE Launch
  BY <1>1 DEF Launch, IInv, SweepTypeOK, OneServer, alive, Configs, Benches
<1>2. CASE Healthy \/ NotHealthy
  BY <1>2 DEF Healthy, NotHealthy, IInv, SweepTypeOK, OneServer, alive, Benches
<1>3. CASE EndRate
  BY <1>3 DEF EndRate, IInv, SweepTypeOK, OneServer, alive, Benches
<1>4. CASE Interrupt
  <2>1. /\ bench = "stop" /\ bench' = "reap" /\ config' = config
        /\ \A c \in Configs \ {config} : proc'[c] = proc[c]
        /\ proc'[config] \in {"dead", "stopping"}
    BY <1>4 DEF Interrupt, IInv, SweepTypeOK
  <2>2. SweepTypeOK'
    BY <1>4, <2>1 DEF Interrupt, IInv, SweepTypeOK, Benches
  <2>3. proc[config] # "none"
    BY <2>1 DEF IInv, SweepTypeOK, OneServer, Configs
  <2> QED BY <2>1, <2>2, <2>3 DEF IInv, SweepTypeOK, OneServer, alive
<1>5. CASE Kill
  BY <1>5 DEF Kill, timed_out, sweepVars, IInv, SweepTypeOK, OneServer, alive
<1>6. CASE EndConfig
  BY <1>6, SweepAssumption
  DEF EndConfig, reaped, IInv, SweepTypeOK, OneServer, alive, Configs, Benches
<1>7. ASSUME NEW c \in Configs, Serve(c) \/ Die(c) PROVE IInv'
  BY <1>7 DEF Serve, Die, sweepVars, IInv, SweepTypeOK, OneServer, alive
<1>8. CASE \/ Answers \/ UNCHANGED vars
           \/ \E r \in Requests : Send(r) \/ Client(r)
  <2>1. UNCHANGED <<proc, sweepVars>>
    BY <1>8 DEF Answers, Answer, vars, Send, Client
  <2> QED BY <2>1 DEF sweepVars, IInv, SweepTypeOK, OneServer, alive
<1> QED
  BY <1>1, <1>2, <1>3, <1>4, <1>5, <1>6, <1>7, <1>8 DEF Next, SweepStep

\* Whenever servers start, crash, hang or ignore SIGINT, at most one uses the
\* port, it is the one that is measured, and none is left when the sweep ends
\* or raises.
THEOREM OneServerAtATime == FairSpec => []OneServer
<1>1. IInv => OneServer
  BY DEF IInv
<1> QED
  BY SweepInit, SweepNext, <1>1, PTL DEF FairSpec
-----------------------------------------------------------------------------
(***************************************************************************)
(* The records are true because the stream has one content only, however   *)
(* it is cut: m chunks, E = 1 error or none, the usage and [DONE].  What   *)
(* the client holds and what is on the wire are the symbols behind its     *)
(* first `read` events, and its record is what those events say.           *)
(***************************************************************************)

\* Event e of a stream.
Event(e, m, E) ==
  IF e <= m THEN Line("choices", 1)
  ELSE IF e <= m + E THEN Line("error", 0)
  ELSE IF e = m + E + 1 THEN Line("usage", m) ELSE Line("[DONE]", 0)

\* Symbol j of a stream: an event has three.
Symbol(j, m, E) == IF j % 3 = 1 THEN Event((j + 2) \div 3, m, E) ELSE NewLine

\* s holds the symbols behind the first k.
Behind(s, k, m, E) == \A j \in 1..Len(s) : s[j] = Symbol(k + j, m, E)

\* What the first `read` events leave in a record.
Timed(read, m, E) ==
  [at |-> "open",
   token_times |-> IF read <= m THEN read ELSE m,
   output_tokens |-> IF read > m + E THEN m ELSE 0,
   error |-> E = 1 /\ read > m]

\* T events are sent, and the client has read `read` of them.
Sent(m, w, b, c, read, E, T) ==
  /\ Len(b) < 3 /\ Len(b) + Len(w) = 3 * (T - read)
  /\ Behind(b, 3 * read, m, E) /\ Behind(w, 3 * read + Len(b), m, E)
  /\ c = Timed(read, m, E)

Told == {"usage", "last", "complete"}

\* An answer has an error exactly if it lacks a token.
Stage(a, m, out, E, T) ==
  /\ m <= out
  /\ a = "tokens" => m < out /\ E = 0 /\ T = m
  /\ a \in Told => (E = 1 <=> m < out)
  /\ a = "usage" => T = m + E
  /\ a = "last" => T = m + E + 1
  /\ a = "complete" => T = m + E + 2

Fresh(a, m, w, b, c) == a = "none" /\ m = 0 /\ w = <<>> /\ b = <<>> /\ c = NewRecord

Open(a, m, w, b, c, out) ==
  a # "none" /\ \E read, T \in Nat, E \in {0, 1} : Sent(m, w, b, c, read, E, T) /\ Stage(a, m, out, E, T)

\* The record says the truth about a request of `out` tokens.
IsTrue(a, m, c, out) ==
  LET whole == a = "complete" /\ m = out
  IN /\ success(c) <=> whole
     /\ whole => c.token_times = out /\ c.output_tokens = out

Over(a, m, c, out) == c.at = "done" /\ a \in {"complete", "refused", "lost"} /\ IsTrue(a, m, c, out)

RequestOK(a, m, w, b, c, out) == Fresh(a, m, w, b, c) \/ Open(a, m, w, b, c, out) \/ Over(a, m, c, out)

Kinds == {"choices", "error", "usage", "[DONE]", "nl"}
Symbols == [kind : Kinds, n : Nat]

AnswerStates == {"none", "tokens", "refused", "lost"} \cup Told

StreamTypes ==
  /\ answer \in [Requests -> AnswerStates]
  /\ made \in [Requests -> Nat]
  /\ wire \in [Requests -> Seq(Symbols)] /\ buffer \in [Requests -> Seq(Symbols)]
  /\ rec = [r \in Requests |-> rec[r]]

StreamInv ==
  /\ StreamTypes
  /\ \A r \in Requests : RequestOK(answer[r], made[r], wire[r], buffer[r], rec[r], OutputLen[r])

LEMMA Triples ==
  ASSUME NEW m \in Nat, NEW E \in {0, 1}, NEW i \in Nat
  PROVE  /\ Symbol(3 * i + 1, m, E) = Event(i + 1, m, E)
         /\ Symbol(3 * i + 2, m, E) = NewLine /\ Symbol(3 * i + 3, m, E) = NewLine
<1>1. (3 * i + 1) % 3 = 1 /\ (3 * i + 2) % 3 = 2 /\ (3 * i + 3) % 3 = 0
  OBVIOUS
<1>2. (3 * i + 1 + 2) \div 3 = i + 1
  OBVIOUS
<1> QED BY <1>1, <1>2 DEF Symbol

LEMMA ThreeEach ==
  ASSUME NEW j \in Nat \ {0}
  PROVE  \E i \in Nat : j = 3 * i + 1 \/ j = 3 * i + 2 \/ j = 3 * i + 3
<1>1. PICK i \in Nat : i = (j - 1) \div 3
  OBVIOUS
<1> QED BY <1>1

LEMMA EventIsALine ==
  ASSUME NEW m \in Nat, NEW E \in {0, 1}, NEW e \in Nat
  PROVE  /\ Event(e, m, E) \in Symbols /\ Event(e, m, E) # NewLine
         /\ Event(e, m, E).kind = "choices" <=> e <= m
         /\ Event(e, m, E).kind = "error" <=> (e > m /\ e <= m + E)
         /\ Event(e, m, E).kind = "usage" <=> e = m + E + 1
         /\ Event(e, m, E).kind = "usage" => Event(e, m, E).n = m
BY DEF Event, Line, NewLine, Symbols, Kinds

\* Only the first symbol of an event is not a line end.
LEMMA Blank ==
  ASSUME NEW m \in Nat, NEW E \in {0, 1}, NEW j \in Nat \ {0}
  PROVE  Symbol(j, m, E) = NewLine <=> j % 3 # 1
<1>1. (j + 2) \div 3 \in Nat
  OBVIOUS
<1> QED BY <1>1, EventIsALine DEF Symbol

-----------------------------------------------------------------------------
\* _stream sends the next event.

\* What is sent stays what it was if the events are the same.
SameEvents(m, E, m2, E2, T) == \A e \in 1..T : Event(e, m, E) = Event(e, m2, E2)

LEMMA SameSymbols ==
  ASSUME NEW m \in Nat, NEW E \in {0, 1}, NEW m2 \in Nat, NEW E2 \in {0, 1}, NEW T \in Nat,
         SameEvents(m, E, m2, E2, T)
  PROVE  \A j \in 1..3 * T : Symbol(j, m, E) = Symbol(j, m2, E2)
<1> SUFFICES ASSUME NEW j \in 1..3 * T PROVE Symbol(j, m, E) = Symbol(j, m2, E2)
  OBVIOUS
<1>1. CASE j % 3 = 1
  <2>1. (j + 2) \div 3 \in 1..T
    OBVIOUS
  <2> QED BY <1>1, <2>1 DEF Symbol, SameEvents
<1>2. CASE j % 3 # 1
  BY <1>2 DEF Symbol
<1> QED BY <1>1, <1>2

IsThreeMore(x, w, p, q) == x = w \o <<p, q, q>>
HasThreeMore(x, w, p, q) ==
  /\ Len(x) = Len(w) + 3
  /\ \A j \in 1..Len(w) : x[j] = w[j]
  /\ x[Len(w) + 1] = p /\ x[Len(w) + 2] = q /\ x[Len(w) + 3] = q

LEMMA ThreeMore ==
  ASSUME NEW S, NEW w \in Seq(S), NEW p \in S, NEW q \in S, NEW x, IsThreeMore(x, w, p, q)
  PROVE  x \in Seq(S) /\ HasThreeMore(x, w, p, q)
<1> DEFINE t == <<p, q, q>>
<1>1. t \in Seq(S) /\ Len(t) = 3 /\ t[1] = p /\ t[2] = q /\ t[3] = q
  OBVIOUS
<1>2. x = w \o t
  BY DEF IsThreeMore
<1> HIDE DEF t
<1>3. PICK u \in Seq(S) : u = t /\ Len(u) = 3
  BY <1>1
<1>4. /\ w \o u \in Seq(S) /\ Len(w \o u) = Len(w) + Len(u)
      /\ \A j \in 1..Len(w) : (w \o u)[j] = w[j]
      /\ \A j \in 1..Len(u) : (w \o u)[Len(w) + j] = u[j]
  OBVIOUS
<1>5. x[Len(w) + 1] = t[1] /\ x[Len(w) + 2] = t[2] /\ x[Len(w) + 3] = t[3]
  <2>1. 1 \in 1..Len(u) /\ 2 \in 1..Len(u) /\ 3 \in 1..Len(u)
    BY <1>3
  <2> QED BY <1>2, <1>3, <1>4, <2>1
<1> QED BY <1>1, <1>2, <1>3, <1>4, <1>5 DEF HasThreeMore

LEMMA OneMore ==
  ASSUME NEW m \in Nat, NEW E \in {0, 1}, NEW m2 \in Nat, NEW E2 \in {0, 1},
         NEW w \in Seq(Symbols), NEW b \in Seq(Symbols), NEW c,
         NEW read \in Nat, NEW T \in Nat, Sent(m, w, b, c, read, E, T),
         NEW line \in Symbols, line = Event(T + 1, m2, E2),
         SameEvents(m, E, m2, E2, T),
         read <= T => Timed(read, m, E) = Timed(read, m2, E2)
  PROVE  /\ w \o sse(line) \in Seq(Symbols)
         /\ Sent(m2, w \o sse(line), b, c, read, E2, T + 1)
<1> DEFINE x == w \o sse(line)
           o == 3 * read + Len(b)
<1>1. Len(w) \in Nat /\ Len(b) \in Nat /\ Len(b) + Len(w) = 3 * (T - read) /\ o \in Nat
  <2>1. Len(w) \in Nat /\ Len(b) \in Nat
    OBVIOUS
  <2>2. Len(b) + Len(w) = 3 * (T - read)
    BY DEF Sent
  <2>3. o \in Nat
    BY <2>1
  <2> QED BY <2>1, <2>2, <2>3
<1>2. read <= T /\ o + Len(w) = 3 * T
  <2>1. PICK lb \in Nat, lw \in Nat : lb = Len(b) /\ lw = Len(w)
    BY <1>1
  <2>2. lb + lw = 3 * (T - read)
    BY <1>1, <2>1
  <2>3. read <= T /\ 3 * read + lb + lw = 3 * T
    BY <2>2
  <2> QED BY <2>1, <2>3
<1>3. sse(line) = <<line, NewLine, NewLine>> /\ NewLine \in Symbols
  BY DEF sse, NewLine, Line, Symbols, Kinds
<1>4. /\ x \in Seq(Symbols) /\ Len(x) = Len(w) + 3
      /\ \A j \in 1..Len(w) : x[j] = w[j]
      /\ x[Len(w) + 1] = line /\ x[Len(w) + 2] = NewLine /\ x[Len(w) + 3] = NewLine
  <2>1. IsThreeMore(x, w, line, NewLine)
    BY <1>3 DEF IsThreeMore
  <2> HIDE DEF x
  <2>2. x \in Seq(Symbols) /\ HasThreeMore(x, w, line, NewLine)
    BY <1>3, <2>1, ThreeMore
  <2> QED BY <2>2 DEF HasThreeMore
<1>5. \A j \in 1..3 * T : Symbol(j, m, E) = Symbol(j, m2, E2)
  BY SameSymbols
<1>6. Behind(b, 3 * read, m2, E2)
  <2> SUFFICES ASSUME NEW j \in 1..Len(b) PROVE b[j] = Symbol(3 * read + j, m2, E2)
    BY DEF Behind
  <2>1. b[j] = Symbol(3 * read + j, m, E)
    BY DEF Sent, Behind
  <2>2. 3 * read + j \in 1..3 * T
    <3>1. 3 * read \in Nat
      OBVIOUS
    <3>2. PICK d \in Nat, v \in Nat, a \in Nat : d = Len(b) /\ v = Len(w) /\ a = 3 * read
      BY <1>1, <3>1
    <3>3. (a + d) + v = 3 * T /\ j \in 1..d
      BY <1>2, <3>2
    <3>4. a + j \in 1..3 * T
      BY <3>3
    <3> QED BY <3>2, <3>4
  <2> QED BY <1>5, <2>1, <2>2
<1> HIDE DEF x, o
<1>7. Behind(x, o, m2, E2)
  <2> SUFFICES ASSUME NEW j \in 1..Len(x) PROVE x[j] = Symbol(o + j, m2, E2)
    BY DEF Behind
  <2>1. CASE j <= Len(w)
    <3>1. j \in 1..Len(w)
      BY <1>1, <1>4, <2>1
    <3>2. w[j] = Symbol(o + j, m, E)
      BY <3>1 DEF Sent, Behind, o
    <3>3. o + j \in 1..3 * T
      <4>1. PICK d \in Nat, a \in Nat, t \in Nat : d = Len(w) /\ a = o /\ t = 3 * T
        BY <1>1
      <4>2. a + d = t /\ j \in 1..d
        BY <1>2, <3>1, <4>1
      <4>3. a + j \in 1..t
        BY <4>2
      <4> QED BY <4>1, <4>3
    <3> QED BY <1>4, <1>5, <3>1, <3>2, <3>3
  <2>2. CASE j > Len(w)
    <3>1. j = Len(w) + 1 \/ j = Len(w) + 2 \/ j = Len(w) + 3
      <4>1. \A a \in Nat : \A d \in 1..a + 3 : d > a => d = a + 1 \/ d = a + 2 \/ d = a + 3
        OBVIOUS
      <4>2. j \in 1..Len(w) + 3
        BY <1>4
      <4> QED BY <1>1, <2>2, <4>1, <4>2
    <3>2. o + (Len(w) + 1) = 3 * T + 1 /\ o + (Len(w) + 2) = 3 * T + 2 /\ o + (Len(w) + 3) = 3 * T + 3
      <4>1. PICK d \in Nat, a \in Nat, t \in Nat : d = Len(w) /\ a = o /\ t = 3 * T
        BY <1>1
      <4>2. a + d = t
        BY <1>2, <4>1
      <4>3. a + (d + 1) = t + 1 /\ a + (d + 2) = t + 2 /\ a + (d + 3) = t + 3
        BY <4>2
      <4> QED BY <4>1, <4>3
    <3>3. /\ Symbol(3 * T + 1, m2, E2) = line
          /\ Symbol(3 * T + 2, m2, E2) = NewLine /\ Symbol(3 * T + 3, m2, E2) = NewLine
      <4>1. Symbol(3 * T + 1, m2, E2) = Event(T + 1, m2, E2)
        BY Triples, Zenon
      <4>2. Symbol(3 * T + 2, m2, E2) = NewLine /\ Symbol(3 * T + 3, m2, E2) = NewLine
        BY Triples, Zenon
      <4> QED BY <4>1, <4>2
    <3> QED BY <1>4, <3>1, <3>2, <3>3
  <2> QED BY <1>1, <1>4, <2>1, <2>2
<1>8. Len(b) < 3 /\ Len(b) + Len(x) = 3 * (T + 1 - read)
  <2>1. PICK lb \in Nat, lw \in Nat : lb = Len(b) /\ lw = Len(w)
    BY <1>1
  <2>2. lb + lw = 3 * (T - read) /\ Len(x) = lw + 3
    BY <1>1, <1>4, <2>1
  <2>3. lb + (lw + 3) = 3 * (T + 1 - read)
    BY <2>2
  <2>4. Len(b) < 3
    BY DEF Sent
  <2> QED BY <2>1, <2>2, <2>3, <2>4
<1>9. c = Timed(read, m2, E2)
  BY <1>2 DEF Sent
<1> QED BY <1>4, <1>6, <1>7, <1>8, <1>9 DEF Sent, x, o

-----------------------------------------------------------------------------
\* _send cuts the stream where it likes.

LEMMA GreatestIs ==
  ASSUME NEW S \in SUBSET Int, NEW x \in S, \A y \in S : y <= x
  PROVE  Max(S) = x
<1>1. \A y \in S : x >= y
  OBVIOUS
<1>2. \A z \in S : (\A y \in S : z >= y) => z = x
  OBVIOUS
<1> QED BY <1>1, <1>2 DEF Max

\* Parts of sequences.
IsLatter(t, s, n) == n \in 0..Len(s) /\ t = SubSeq(s, n + 1, Len(s))
IsFormer(t, s, n) == n \in 0..Len(s) /\ t = SubSeq(s, 1, n)
IsJoin(x, s, t) == x = s \o t
IsPart(t, n, k, m, E) == t \in Seq(Symbols) /\ Len(t) = n /\ Behind(t, k, m, E)

LEMMA Latter ==
  ASSUME NEW m \in Nat, NEW E \in {0, 1}, NEW s \in Seq(Symbols), NEW k \in Nat,
         Behind(s, k, m, E), NEW n, NEW t, IsLatter(t, s, n)
  PROVE  n \in Nat /\ IsPart(t, Len(s) - n, k + n, m, E)
<1>0. PICK i \in 0..Len(s) : i = n /\ t = SubSeq(s, i + 1, Len(s))
  BY DEF IsLatter
<1>1. t \in Seq(Symbols) /\ Len(t) = Len(s) - i /\ \A j \in 1..Len(s) - i : t[j] = s[i + j]
  BY <1>0
<1>2. ASSUME NEW j \in 1..Len(t) PROVE t[j] = Symbol(k + i + j, m, E)
  <2>1. i + j \in 1..Len(s) /\ k + (i + j) = k + i + j /\ t[j] = s[i + j]
    BY <1>1
  <2>2. s[i + j] = Symbol(k + (i + j), m, E)
    BY <2>1 DEF Behind
  <2> QED BY <2>1, <2>2
<1>3. Behind(t, k + i, m, E)
  BY <1>2 DEF Behind
<1> QED BY <1>0, <1>1, <1>3 DEF IsPart

LEMMA Former ==
  ASSUME NEW m \in Nat, NEW E \in {0, 1}, NEW s \in Seq(Symbols), NEW k \in Nat,
         Behind(s, k, m, E), NEW n, NEW t, IsFormer(t, s, n)
  PROVE  n \in Nat /\ IsPart(t, n, k, m, E)
<1>0. PICK i \in 0..Len(s) : i = n /\ t = SubSeq(s, 1, i)
  BY DEF IsFormer
<1>1. t \in Seq(Symbols) /\ Len(t) = i /\ \A j \in 1..i : t[j] = s[j]
  BY <1>0
<1>2. Behind(t, k, m, E)
  BY <1>1 DEF Behind
<1> QED BY <1>0, <1>1, <1>2 DEF IsPart

LEMMA Joined ==
  ASSUME NEW m \in Nat, NEW E \in {0, 1}, NEW s \in Seq(Symbols), NEW t \in Seq(Symbols), NEW k \in Nat,
         Behind(s, k, m, E), Behind(t, k + Len(s), m, E), NEW x, IsJoin(x, s, t)
  PROVE  x \in Seq(Symbols) /\ Len(x) = Len(s) + Len(t) /\ Behind(x, k, m, E)
<1>1. /\ x \in Seq(Symbols) /\ Len(x) = Len(s) + Len(t)
      /\ \A j \in 1..Len(s) : x[j] = s[j]
      /\ \A j \in 1..Len(t) : x[Len(s) + j] = t[j]
  BY DEF IsJoin
<1>2. ASSUME NEW j \in 1..Len(x) PROVE x[j] = Symbol(k + j, m, E)
  <2>1. CASE j <= Len(s)
    <3>1. j \in 1..Len(s)
      BY <2>1
    <3> QED BY <1>1, <3>1 DEF Behind
  <2>2. CASE j > Len(s)
    <3>1. PICK i \in 1..Len(t) : i = j - Len(s) /\ j = Len(s) + i
      <4>1. \A a, d \in Nat : \A z \in 1..a + d : z > a => z - a \in 1..d /\ z = a + (z - a)
        OBVIOUS
      <4>2. Len(s) \in Nat /\ Len(t) \in Nat /\ j \in 1..Len(s) + Len(t)
        BY <1>1
      <4> QED BY <2>2, <4>1, <4>2
    <3>2. t[i] = Symbol(k + Len(s) + i, m, E)
      BY <3>1 DEF Behind
    <3>3. k + Len(s) + i = k + j
      <4>1. PICK a \in Nat : a = Len(s)
        OBVIOUS
      <4>2. j = a + i /\ k + a + i = k + (a + i)
        BY <3>1, <4>1
      <4> QED BY <4>1, <4>2
    <3> QED BY <1>1, <3>1, <3>2, <3>3
  <2> QED BY <2>1, <2>2
<1>3. Behind(x, k, m, E)
  BY <1>2 DEF Behind
<1> QED BY <1>1, <1>3

\* The first k symbols of s are its q whole events.
Whole(s, k, q) == k = 3 * q /\ k \in 0..Len(s) /\ Len(s) < 3 * q + 3

\* What ends with the last blank line are the whole events.
LEMMA WholeEvents ==
  ASSUME NEW m \in Nat, NEW E \in {0, 1}, NEW read \in Nat, NEW o \in Nat, o = 3 * read,
         NEW s \in Seq(Symbols), Behind(s, o, m, E)
  PROVE  \E q \in Nat : Whole(s, whole_events(s), q)
<1> DEFINE K == {k \in 2..Len(s) : s[k - 1] = NewLine /\ s[k] = NewLine}
<1>1. PICK q \in Nat : 3 * q <= Len(s) /\ Len(s) < 3 * q + 3
  <2>1. Len(s) \in Nat
    OBVIOUS
  <2>2. PICK q \in Nat : q = Len(s) \div 3
    BY <2>1
  <2> QED BY <2>1, <2>2
<1>2. ASSUME NEW j \in 1..Len(s) PROVE s[j] = NewLine <=> j % 3 # 1
  <2>1. s[j] = Symbol(3 * read + j, m, E) /\ 3 * read + j \in Nat \ {0}
    BY DEF Behind
  <2>2. (3 * read + j) % 3 = j % 3
    OBVIOUS
  <2> QED BY <2>1, <2>2, Blank
<1>3. ASSUME NEW k \in K PROVE k <= 3 * q
  <2>1. k \in 2..Len(s) /\ k - 1 \in 1..Len(s) /\ s[k - 1] = NewLine /\ s[k] = NewLine
    OBVIOUS
  <2>2. k % 3 # 1 /\ (k - 1) % 3 # 1
    BY <1>2, <2>1
  <2>3. k % 3 = 0
    BY <2>1, <2>2
  <2>4. PICK len \in Nat, j \in Nat : len = Len(s) /\ j = k
    BY <2>1
  <2>5. j <= len /\ j % 3 = 0 /\ len < 3 * q + 3
    BY <1>1, <2>1, <2>3, <2>4
  <2>6. j <= 3 * q
    BY <2>5
  <2> QED BY <2>4, <2>6
<1>4. q > 0 => 3 * q \in K
  <2> SUFFICES ASSUME q > 0 PROVE 3 * q \in K
    OBVIOUS
  <2>1. 3 * q \in 2..Len(s) /\ 3 * q - 1 \in 1..Len(s) /\ 3 * q \in 1..Len(s)
    BY <1>1
  <2>2. (3 * q) % 3 = 0 /\ (3 * q - 1) % 3 = 2
    OBVIOUS
  <2>3. s[3 * q] = NewLine /\ s[3 * q - 1] = NewLine
    BY <1>2, <2>1, <2>2
  <2> QED BY <2>1, <2>3
<1>5. K \in SUBSET Nat
  OBVIOUS
<1>6. whole_events(s) = Max({0} \cup K)
  BY DEF whole_events
<1> HIDE DEF K
<1>7. 3 * q \in {0} \cup K /\ \A y \in {0} \cup K : y <= 3 * q
  BY <1>3, <1>4
<1>8. {0} \cup K \in SUBSET Int
  BY <1>5
<1>9. Max({0} \cup K) = 3 * q
  BY <1>7, <1>8, GreatestIs
<1> QED BY <1>1, <1>6, <1>9 DEF Whole

Lines(s, read, q, m, E) == Len(s) = 3 * q /\ Behind(s, 3 * read, m, E)

\* Every third symbol of s is a line, and none besides.
ThirdsOnly(s, q) == \A j \in DOMAIN s : s[j] # NewLine => \E i \in 1..q : j = 3 * i - 2

\* Its lines are the events, in order.
LEMMA LinesAreEvents ==
  ASSUME NEW m \in Nat, NEW E \in {0, 1}, NEW read \in Nat, NEW q \in Nat,
         NEW s \in Seq(Symbols), Lines(s, read, q, m, E)
  PROVE  \A i \in 1..q : 3 * i - 2 \in DOMAIN s /\ s[3 * i - 2] = Event(read + i, m, E)
<1>0. Len(s) = 3 * q /\ Behind(s, 3 * read, m, E)
  BY DEF Lines
<1>1. ASSUME NEW i \in 1..q
      PROVE  3 * i - 2 \in DOMAIN s /\ s[3 * i - 2] = Event(read + i, m, E)
  <2>1. 3 * i - 2 \in 1..Len(s)
    BY <1>0
  <2>2. s[3 * i - 2] = Symbol(3 * read + (3 * i - 2), m, E)
    BY <1>0, <2>1 DEF Behind
  <2>3. PICK e \in Nat : e = read + i - 1
    OBVIOUS
  <2>4. 3 * read + (3 * i - 2) = 3 * e + 1 /\ e + 1 = read + i
    BY <2>3
  <2>5. Symbol(3 * e + 1, m, E) = Event(e + 1, m, E)
    BY Triples
  <2>6. s[3 * i - 2] = Symbol(3 * e + 1, m, E)
    BY <2>2, <2>4, Zenon
  <2>7. s[3 * i - 2] = Event(read + i, m, E)
    BY <2>4, <2>5, <2>6, Zenon
  <2>8. 3 * i - 2 \in DOMAIN s
    BY <2>1
  <2> QED BY <2>7, <2>8
<1> QED BY <1>1

LEMMA LinesAreThirds ==
  ASSUME NEW m \in Nat, NEW E \in {0, 1}, NEW read \in Nat, NEW q \in Nat,
         NEW s \in Seq(Symbols), Lines(s, read, q, m, E)
  PROVE  ThirdsOnly(s, q)
<1>1. Len(s) = 3 * q /\ Behind(s, 3 * read, m, E)
  BY DEF Lines
<1>2. ASSUME NEW j \in DOMAIN s, s[j] # NewLine PROVE \E i \in 1..q : j = 3 * i - 2
  <2>1. j \in 1..3 * q /\ j \in Nat \ {0} /\ j \in 1..Len(s)
    BY <1>1
  <2>2. CASE j % 3 = 1
    <3>1. PICK i \in Nat : i = (j + 2) \div 3
      BY <2>1
    <3>2. \A z \in Nat : z % 3 = 1 => 3 * ((z + 2) \div 3) - 2 = z
      OBVIOUS
    <3>3. j = 3 * i - 2
      BY <2>1, <2>2, <3>1, <3>2
    <3>4. i \in 1..q
      BY <2>1, <3>3
    <3> QED BY <3>3, <3>4
  <2>3. CASE j % 3 # 1
    <3>1. 3 * read + j \in Nat \ {0}
      BY <2>1
    <3>2. (3 * read + j) % 3 = j % 3
      BY <2>1
    <3>3. s[j] = Symbol(3 * read + j, m, E)
      BY <1>1, <2>1, Zenon DEF Behind
    <3> QED BY <1>2, <2>3, <3>1, <3>2, <3>3, Blank
  <2> QED BY <2>2, <2>3
<1> QED BY <1>2 DEF ThirdsOnly

Chunks(s) == Cardinality({j \in DOMAIN s : s[j].kind = "choices"})

LEMMA FirstNaturals == ASSUME NEW p \in Nat PROVE IsFiniteSet(1..p) /\ Cardinality(1..p) = p
BY FS_Interval

\* The chunks among events read + 1 to read + q of a stream with m of them.
LEMMA CountChunks ==
  ASSUME NEW m \in Nat, NEW E \in {0, 1}, NEW read \in Nat, NEW q \in Nat,
         NEW s \in Seq(Symbols), Lines(s, read, q, m, E)
  PROVE  Chunks(s) = IF m <= read THEN 0 ELSE IF read + q <= m THEN q ELSE m - read
<1> DEFINE J == {j \in DOMAIN s : s[j].kind = "choices"}
<1>1. PICK p \in Nat : p = IF m <= read THEN 0 ELSE IF read + q <= m THEN q ELSE m - read
  <2>1. \/ m <= read
        \/ m > read /\ read + q <= m
        \/ m > read /\ read + q > m /\ m - read \in Nat
    OBVIOUS
  <2> QED BY <2>1
<1>2. \A i \in 1..q : read + i <= m <=> i <= p
  BY <1>1
<1>3. \A i \in 1..q : 3 * i - 2 \in DOMAIN s /\ (s[3 * i - 2].kind = "choices" <=> i <= p)
  <2> SUFFICES ASSUME NEW i \in 1..q
               PROVE  3 * i - 2 \in DOMAIN s /\ (s[3 * i - 2].kind = "choices" <=> i <= p)
    OBVIOUS
  <2>1. 3 * i - 2 \in DOMAIN s /\ s[3 * i - 2] = Event(read + i, m, E)
    BY LinesAreEvents
  <2>2. Event(read + i, m, E).kind = "choices" <=> read + i <= m
    BY EventIsALine
  <2> QED BY <1>2, <2>1, <2>2
<1>4. p <= q
  BY <1>1
<1> DEFINE f == [i \in 1..p |-> 3 * i - 2]
<1>5. f \in [1..p -> J]
  <2>1. \A i \in 1..p : i \in 1..q /\ i <= p
    BY <1>4
  <2>2. \A i \in 1..p : 3 * i - 2 \in J
    BY <1>3, <2>1
  <2> QED BY <2>2
<1>6. \A i, k \in 1..p : f[i] = f[k] => i = k
  OBVIOUS
<1>7. \A j \in J : \E i \in 1..p : f[i] = j
  <2> SUFFICES ASSUME NEW j \in J PROVE \E i \in 1..p : f[i] = j
    OBVIOUS
  <2>1. j \in DOMAIN s /\ s[j].kind = "choices"
    OBVIOUS
  <2>2. s[j] # NewLine
    BY <2>1 DEF NewLine, Line
  <2>3. PICK i \in 1..q : j = 3 * i - 2
    <3>1. ThirdsOnly(s, q)
      BY LinesAreThirds
    <3> QED BY <2>1, <2>2, <3>1 DEF ThirdsOnly
  <2>4. i \in 1..p
    BY <1>3, <2>1, <2>3
  <2> QED BY <2>3, <2>4
<1>8. IsFiniteSet(1..p) /\ Cardinality(1..p) = p
  BY FirstNaturals
<1> HIDE DEF J, f
<1>9. f \in Bijection(1..p, J)
  BY <1>5, <1>6, <1>7 DEF Bijection, Injection, Surjection, IsInjective
<1>10. Cardinality(J) = p
  BY <1>8, <1>9, FS_Bijection DEF ExistsBijection
<1> QED BY <1>1, <1>10 DEF J, Chunks

Usages(s) == {l.n : l \in {x \in Range(s) : x.kind = "usage"}}
HasError(s) == \E l \in Range(s) : l.kind = "error"

\* Every line of s but the line ends is one of the events.
OnlyEvents(s, read, q, m, E) ==
  \A l \in Range(s) : l # NewLine => \E i \in 1..q : l = Event(read + i, m, E)

\* What a line of the events that are read can be.
LEMMA LinesRead ==
  ASSUME NEW m \in Nat, NEW E \in {0, 1}, NEW read \in Nat, NEW q \in Nat,
         NEW s \in Seq(Symbols), Lines(s, read, q, m, E)
  PROVE  /\ \A i \in 1..q : Event(read + i, m, E) \in Range(s)
         /\ OnlyEvents(s, read, q, m, E)
<1>1. ASSUME NEW i \in 1..q PROVE Event(read + i, m, E) \in Range(s)
  <2>1. 3 * i - 2 \in DOMAIN s /\ s[3 * i - 2] = Event(read + i, m, E)
    BY LinesAreEvents
  <2> QED BY <2>1 DEF Range
<1>2. ASSUME NEW l \in Range(s), l # NewLine PROVE \E i \in 1..q : l = Event(read + i, m, E)
  <2>1. PICK j \in DOMAIN s : l = s[j]
    BY DEF Range
  <2>2. ThirdsOnly(s, q)
    BY LinesAreThirds
  <2>3. PICK i \in 1..q : j = 3 * i - 2
    BY <1>2, <2>1, <2>2 DEF ThirdsOnly
  <2>4. s[3 * i - 2] = Event(read + i, m, E)
    BY LinesAreEvents
  <2> QED BY <2>1, <2>3, <2>4
<1> QED BY <1>1, <1>2 DEF OnlyEvents

LEMMA ErrorRead ==
  ASSUME NEW m \in Nat, NEW E \in {0, 1}, NEW read \in Nat, NEW q \in Nat,
         NEW s \in Seq(Symbols), Lines(s, read, q, m, E)
  PROVE  (E = 1 /\ read > m) \/ HasError(s) <=> E = 1 /\ read + q > m
<1>1. ASSUME NEW l \in Range(s), l.kind = "error" PROVE E = 1 /\ read + q > m
  <2>1. l # NewLine
    BY <1>1 DEF NewLine, Line
  <2>2. PICK i \in 1..q : l = Event(read + i, m, E)
    <3>1. OnlyEvents(s, read, q, m, E)
      BY LinesRead
    <3> QED BY <2>1, <3>1 DEF OnlyEvents
  <2>3. read + i > m /\ read + i <= m + E
    BY <1>1, <2>2, EventIsALine
  <2> QED BY <2>3
<1>2. ASSUME E = 1, read + q > m, ~ (read > m) PROVE \E l \in Range(s) : l.kind = "error"
  <2>1. PICK i \in 1..q : i = m + 1 - read /\ read + i = m + 1
    BY <1>2
  <2>2. Event(read + i, m, E) \in Range(s)
    BY LinesRead
  <2>3. Event(read + i, m, E).kind = "error"
    BY <1>2, <2>1, EventIsALine
  <2> QED BY <2>2, <2>3
<1>3. read > m => read + q > m
  OBVIOUS
<1> QED BY <1>1, <1>2, <1>3 DEF HasError

LEMMA UsageRead ==
  ASSUME NEW m \in Nat, NEW E \in {0, 1}, NEW read \in Nat, NEW q \in Nat,
         NEW s \in Seq(Symbols), Lines(s, read, q, m, E),
         NEW o, o = IF read > m + E THEN m ELSE 0
  PROVE  Max({o} \cup Usages(s)) = IF read + q > m + E THEN m ELSE 0
<1> DEFINE U == Usages(s)
<1>1. ASSUME NEW u \in U PROVE u = m /\ read < m + E + 1 /\ read + q > m + E
  <2>1. PICK l \in Range(s) : l.kind = "usage" /\ u = l.n
    BY DEF Usages
  <2>2. l # NewLine
    BY <2>1 DEF NewLine, Line
  <2>3. PICK i \in 1..q : l = Event(read + i, m, E)
    <3>1. OnlyEvents(s, read, q, m, E)
      BY LinesRead
    <3> QED BY <2>2, <3>1 DEF OnlyEvents
  <2>4. read + i = m + E + 1 /\ l.n = m
    BY <2>1, <2>3, EventIsALine
  <2> QED BY <2>1, <2>4
<1>2. ASSUME read <= m + E, read + q > m + E PROVE m \in U
  <2>1. PICK i \in 1..q : i = m + E + 1 - read /\ read + i = m + E + 1
    BY <1>2
  <2>2. Event(read + i, m, E) \in Range(s)
    BY LinesRead
  <2>3. Event(read + i, m, E).kind = "usage" /\ Event(read + i, m, E).n = m
    BY <2>1, EventIsALine
  <2> QED BY <2>2, <2>3 DEF Usages
<1> HIDE DEF U
<1>3. o \in Nat
  OBVIOUS
<1>4. {o} \cup U \in SUBSET Int
  BY <1>1, <1>3
<1>5. CASE read + q > m + E
  <2>1. m \in {o} \cup U
    BY <1>2, <1>5
  <2>2. \A y \in {o} \cup U : y <= m
    BY <1>1
  <2>3. Max({o} \cup U) = m
    BY <1>4, <2>1, <2>2, GreatestIs
  <2> QED BY <1>5, <2>3 DEF U
<1>6. CASE ~ (read + q > m + E)
  <2>1. U = {}
    BY <1>1, <1>6
  <2>2. o = 0
    BY <1>6
  <2>3. 0 \in {o} \cup U /\ \A y \in {o} \cup U : y <= 0
    BY <2>1, <2>2
  <2>4. Max({o} \cup U) = 0
    BY <1>4, <2>3, GreatestIs
  <2> QED BY <1>6, <2>4 DEF U
<1> QED BY <1>5, <1>6

\* A record with some values, and what the lines leave in it.
Opened(t, o, e) == [at |-> "open", token_times |-> t, output_tokens |-> o, error |-> e]

LEMMA ParsedFields ==
  ASSUME NEW t, NEW o, NEW e, NEW s
  PROVE  Parsed(Opened(t, o, e), s) = Opened(t + Chunks(s), Max({o} \cup Usages(s)), e \/ HasError(s))
<1> DEFINE c == Opened(t, o, e)
<1>1. ASSUME NEW d
      PROVE  Parsed(d, s) = [d EXCEPT !.token_times = @ + Chunks(s), !.output_tokens = Max({@} \cup Usages(s)),
                                      !.error = @ \/ HasError(s)]
  BY Zenon DEF Parsed, Chunks, Usages, HasError
<1>2. Parsed(c, s) = [c EXCEPT !.token_times = @ + Chunks(s), !.output_tokens = Max({@} \cup Usages(s)),
                               !.error = @ \/ HasError(s)]
  BY <1>1
<1> QED BY <1>2 DEF Opened

LEMMA ParsedIsTimed ==
  ASSUME NEW m \in Nat, NEW E \in {0, 1}, NEW read \in Nat, NEW q \in Nat,
         NEW s \in Seq(Symbols), Lines(s, read, q, m, E)
  PROVE  Parsed(Timed(read, m, E), s) = Timed(read + q, m, E)
<1> DEFINE t == IF read <= m THEN read ELSE m
           o == IF read > m + E THEN m ELSE 0
           e == E = 1 /\ read > m
<1>1. t + Chunks(s) = IF read + q <= m THEN read + q ELSE m
  <2>1. Chunks(s) = IF m <= read THEN 0 ELSE IF read + q <= m THEN q ELSE m - read
    BY CountChunks
  <2>2. CASE m <= read
    BY <2>1, <2>2
  <2>3. CASE m > read /\ read + q <= m
    BY <2>1, <2>3
  <2>4. CASE m > read /\ read + q > m
    BY <2>1, <2>4
  <2> QED BY <2>2, <2>3, <2>4
<1>2. Max({o} \cup Usages(s)) = IF read + q > m + E THEN m ELSE 0
  BY UsageRead
<1>3. e \/ HasError(s) <=> E = 1 /\ read + q > m
  BY ErrorRead
<1>4. Timed(read, m, E) = Opened(t, o, e)
  BY DEF Timed, Opened
<1>5. Timed(read + q, m, E)
        = Opened(IF read + q <= m THEN read + q ELSE m, IF read + q > m + E THEN m ELSE 0,
                E = 1 /\ read + q > m)
  BY DEF Timed, Opened
<1> HIDE DEF t, o, e
<1>6. Parsed(Opened(t, o, e), s) = Opened(t + Chunks(s), Max({o} \cup Usages(s)), e \/ HasError(s))
  BY ParsedFields
<1>7. (e \/ HasError(s)) = (E = 1 /\ read + q > m)
  BY <1>3
<1> QED BY <1>1, <1>2, <1>4, <1>5, <1>6, <1>7

\* s has arrived and v has not.
Cut(s, v, o, m, E, read, T) ==
  /\ o = 3 * read /\ Len(s) + Len(v) = 3 * (T - read)
  /\ Behind(s, o, m, E) /\ Behind(v, o + Len(s), m, E)

\* Of s, the first k symbols are q whole events, y, and the rest is z.
HasArrived(s, v, o, k, q, y, z, m, E, read, T) ==
  Cut(s, v, o, m, E, read, T) /\ Whole(s, k, q) /\ IsFormer(y, s, k) /\ IsLatter(z, s, k)

IsLeft(y, z, v, m, E, read, q, T) ==
  z \in Seq(Symbols) /\ Sent(m, v, z, Parsed(Timed(read, m, E), y), read + q, E, T)

\* Whatever has arrived, the record follows its whole events.
LEMMA WholeIsParsed ==
  ASSUME NEW m \in Nat, NEW E \in {0, 1}, NEW read \in Nat, NEW T \in Nat, NEW o \in Nat,
         NEW s \in Seq(Symbols), NEW v \in Seq(Symbols), NEW k \in Nat, NEW q \in Nat, NEW y, NEW z,
         HasArrived(s, v, o, k, q, y, z, m, E, read, T)
  PROVE  IsLeft(y, z, v, m, E, read, q, T)
<1>0. IsFormer(y, s, k) /\ IsLatter(z, s, k)
  BY DEF HasArrived
<1>1. /\ k = 3 * q /\ k \in 0..Len(s) /\ Len(s) < 3 * q + 3
      /\ o = 3 * read /\ Len(s) + Len(v) = 3 * (T - read)
      /\ Behind(s, o, m, E) /\ Behind(v, o + Len(s), m, E)
  BY DEF HasArrived, Whole, Cut
<1>2. y \in Seq(Symbols) /\ Len(y) = k /\ Behind(y, o, m, E)
  <2>1. Behind(s, o, m, E)
    BY <1>1
  <2>2. IsPart(y, k, o, m, E)
    BY <1>0, <2>1, Former
  <2> QED BY <2>2 DEF IsPart
<1>3. z \in Seq(Symbols) /\ Len(z) = Len(s) - k /\ Behind(z, o + k, m, E)
  <2>1. Behind(s, o, m, E)
    BY <1>1
  <2>2. IsPart(z, Len(s) - k, o + k, m, E)
    BY <1>0, <2>1, Latter
  <2> QED BY <2>2 DEF IsPart
<1>4. Parsed(Timed(read, m, E), y) = Timed(read + q, m, E)
  <2>1. Lines(y, read, q, m, E)
    BY <1>1, <1>2 DEF Lines
  <2> QED BY <1>2, <2>1, ParsedIsTimed
<1>5. 3 * (read + q) = o + k
  BY <1>1
<1>6. Len(z) < 3 /\ Len(z) + Len(v) = 3 * (T - (read + q)) /\ 3 * (read + q) + Len(z) = o + Len(s)
  <2>1. Len(s) \in Nat /\ Len(v) \in Nat
    OBVIOUS
  <2> QED BY <1>1, <1>3, <1>5, <2>1
<1>7. Sent(m, v, z, Parsed(Timed(read, m, E), y), read + q, E, T)
  BY <1>1, <1>3, <1>4, <1>5, <1>6 DEF Sent
<1> QED BY <1>3, <1>7 DEF IsLeft

\* What a read leaves if s has arrived and v has not: q events are read.
IsRead(s, v, m, E, read, T, q) ==
  /\ SubSeq(s, whole_events(s) + 1, Len(s)) \in Seq(Symbols)
  /\ Sent(m, v, SubSeq(s, whole_events(s) + 1, Len(s)),
          Parsed(Timed(read, m, E), SubSeq(s, 1, whole_events(s))), read + q, E, T)

\* However much is read at once, the rest is sent and the record is true to it.
LEMMA ReadKeeps ==
  ASSUME NEW m \in Nat, NEW E \in {0, 1}, NEW read \in Nat, NEW T \in Nat,
         NEW w \in Seq(Symbols), NEW b \in Seq(Symbols), Sent(m, w, b, Timed(read, m, E), read, E, T),
         NEW n \in Nat, NEW u \in Seq(Symbols), NEW v \in Seq(Symbols), NEW s \in Seq(Symbols),
         IsFormer(u, w, n), IsLatter(v, w, n), IsJoin(s, b, u)
  PROVE  \E q \in Nat : IsRead(s, v, m, E, read, T, q)
<1>1. /\ Len(b) \in Nat /\ Len(w) \in Nat /\ Len(b) + Len(w) = 3 * (T - read)
      /\ Behind(b, 3 * read, m, E) /\ Behind(w, 3 * read + Len(b), m, E)
  BY DEF Sent
<1>2. PICK o \in Nat : o = 3 * read
  OBVIOUS
<1>3. PICK p \in Nat : p = o + Len(b)
  BY <1>1
<1>4. n \in 0..Len(w)
  BY DEF IsFormer
<1>5. Len(u) = n /\ Behind(u, p, m, E)
  <2>1. Behind(w, p, m, E)
    BY <1>1, <1>2, <1>3
  <2>2. IsPart(u, n, p, m, E)
    BY <2>1, Former
  <2> QED BY <2>2 DEF IsPart
<1>6. Len(v) = Len(w) - n /\ Behind(v, p + n, m, E)
  <2>1. Behind(w, p, m, E)
    BY <1>1, <1>2, <1>3
  <2>2. IsPart(v, Len(w) - n, p + n, m, E)
    BY <2>1, Latter
  <2> QED BY <2>2 DEF IsPart
<1>7. Len(s) = Len(b) + n /\ Behind(s, o, m, E)
  <2>1. Behind(b, o, m, E) /\ Behind(u, o + Len(b), m, E)
    BY <1>1, <1>2, <1>3, <1>5
  <2>2. Len(s) = Len(b) + Len(u) /\ Behind(s, o, m, E)
    BY <2>1, Joined
  <2> QED BY <1>5, <2>2
<1>8. Behind(v, o + Len(s), m, E) /\ Len(s) + Len(v) = 3 * (T - read)
  <2>0. Len(s) \in Nat /\ Len(v) \in Nat
    OBVIOUS
  <2>1. o + Len(s) = p + n /\ Len(s) + Len(v) = Len(b) + Len(w)
    BY <2>0, <1>1, <1>3, <1>4, <1>6, <1>7
  <2> QED BY <1>1, <1>6, <2>1
<1>9. PICK q \in Nat : Whole(s, whole_events(s), q)
  BY <1>2, <1>7, WholeEvents
<1>10. PICK k \in Nat : k = whole_events(s)
  BY <1>9 DEF Whole
<1>11. Whole(s, k, q)
  BY <1>9, <1>10
<1>12. PICK y, z : /\ y = SubSeq(s, 1, k) /\ z = SubSeq(s, k + 1, Len(s))
                   /\ IsFormer(y, s, k) /\ IsLatter(z, s, k)
  BY <1>11 DEF Whole, IsFormer, IsLatter
<1>13. Cut(s, v, o, m, E, read, T)
  BY <1>2, <1>7, <1>8 DEF Cut
<1>14. HasArrived(s, v, o, k, q, y, z, m, E, read, T)
  BY <1>11, <1>12, <1>13 DEF HasArrived
<1>15. IsLeft(y, z, v, m, E, read, q, T)
  BY <1>14, WholeIsParsed
<1> QED BY <1>10, <1>12, <1>15 DEF IsRead, IsLeft

LEMMA ClosedFields ==
  ASSUME NEW t, NEW o, NEW e, NEW f, NEW c, c = Closed([Opened(t, o, e) EXCEPT !.error = @ \/ f])
  PROVE  /\ c.at = "done" /\ c.token_times = t /\ c.error = (e \/ f)
         /\ c.output_tokens = IF (t > 0 /\ ~ (e \/ f)) /\ o = 0 THEN t ELSE o
<1> DEFINE d == [Opened(t, o, e) EXCEPT !.error = @ \/ f]
<1>1. d = Opened(t, o, e \/ f)
  BY DEF Opened
<1>2. d.token_times = t /\ d.error = (e \/ f) /\ d.output_tokens = o
  BY <1>1 DEF Opened
<1>3. c = [Opened(t, o, e \/ f) EXCEPT !.at = "done",
                 !.output_tokens = IF (t > 0 /\ ~ (e \/ f)) /\ @ = 0 THEN t ELSE @]
  BY <1>1, <1>2 DEF Closed, success
<1> QED BY <1>3 DEF Opened

\* The last look at an answer.
LEMMA EndKeeps ==
  ASSUME NEW m \in Nat, NEW E \in {0, 1}, NEW read \in Nat, NEW T \in Nat,
         NEW w \in Seq(Symbols), NEW b \in Seq(Symbols), NEW c, Sent(m, w, b, c, read, E, T),
         NEW out \in Nat \ {0}, NEW a, Stage(a, m, out, E, T),
         NEW f \in BOOLEAN, f <=> a \in {"refused", "lost"}, (a = "complete" /\ w = <<>>) \/ f
  PROVE  Over(a, m, Closed([c EXCEPT !.error = @ \/ f]), out)
<1> DEFINE t == IF read <= m THEN read ELSE m
           o == IF read > m + E THEN m ELSE 0
           e == E = 1 /\ read > m
           d == Closed([c EXCEPT !.error = @ \/ f])
<1>1. c = Opened(t, o, e)
  BY DEF Sent, Timed, Opened
<1> HIDE DEF t, o, e, d
<1>2. d = Closed([Opened(t, o, e) EXCEPT !.error = @ \/ f])
  BY <1>1 DEF d
<1>3. /\ d.at = "done" /\ d.token_times = t /\ d.error = (e \/ f)
      /\ d.output_tokens = IF (t > 0 /\ ~ (e \/ f)) /\ o = 0 THEN t ELSE o
  BY <1>2, ClosedFields
<1>4. CASE f
  <2>1. ~ success(d) /\ a # "complete"
    BY <1>3, <1>4 DEF success
  <2> QED BY <1>3, <1>4, <2>1 DEF Over, IsTrue, d
<1>5. CASE ~f
  <2>1. a = "complete" /\ Len(w) = 0 /\ Len(b) \in Nat
    BY <1>5
  <2>2. Len(b) < 3 /\ Len(b) + Len(w) = 3 * (T - read)
    BY DEF Sent
  <2>3. T = m + E + 2 /\ (E = 1 <=> m < out) /\ m <= out
    BY <2>1 DEF Stage, Told
  <2>4. read = m + E + 2
    BY <2>1, <2>2, <2>3
  <2>5. t = m /\ o = m /\ (e <=> E = 1)
    BY <2>4 DEF t, o, e
  <2>6. success(d) <=> m > 0 /\ E # 1
    BY <1>3, <1>5, <2>5 DEF success
  <2>7. d.token_times = m /\ d.output_tokens = m
    BY <1>3, <2>5
  <2>8. success(d) <=> m = out
    BY <2>3, <2>6
  <2> QED BY <1>3, <2>1, <2>7, <2>8 DEF Over, IsTrue, d
<1> QED BY <1>4, <1>5

-----------------------------------------------------------------------------
\* The steps.

\* What next_events offers: the line, where it leads and the tokens with it.
Moves(a, m, out, line, a2, m2) ==
  \/ /\ a = "tokens" /\ line = Line("choices", 1) /\ m2 = m + 1
     /\ a2 = IF m + 1 = out THEN "usage" ELSE "tokens"
  \/ a = "tokens" /\ line = Line("error", 0) /\ m2 = m /\ a2 = "usage"
  \/ a = "usage" /\ line = Line("usage", m) /\ m2 = m /\ a2 = "last"
  \/ a = "last" /\ line = Line("[DONE]", 0) /\ m2 = m /\ a2 = "complete"

\* One event more, m to m2 tokens and E to E2 errors.
OneEvent(m, E, m2, E2, T, line) ==
  /\ line = Event(T + 1, m2, E2) /\ SameEvents(m, E, m2, E2, T)
  /\ \A read \in 0..T : Timed(read, m, E) = Timed(read, m2, E2)

LEMMA NextEvent ==
  ASSUME NEW out \in Nat \ {0}, NEW m \in Nat, NEW m2, NEW a, NEW a2, NEW line,
         NEW E \in {0, 1}, NEW T \in Nat, Stage(a, m, out, E, T), Moves(a, m, out, line, a2, m2)
  PROVE  /\ m2 \in Nat /\ line \in Symbols /\ a2 \in Told \cup {"tokens"}
         /\ \E E2 \in {0, 1} : OneEvent(m, E, m2, E2, T, line) /\ Stage(a2, m2, out, E2, T + 1)
<1>1. Line("choices", 1) \in Symbols /\ Line("error", 0) \in Symbols /\ Line("[DONE]", 0) \in Symbols
      /\ Line("usage", m) \in Symbols
  BY DEF Line, Symbols, Kinds
<1>2. CASE /\ a = "tokens" /\ line = Line("choices", 1) /\ m2 = m + 1
           /\ a2 = IF m + 1 = out THEN "usage" ELSE "tokens"
  <2>1. m < out /\ E = 0 /\ T = m
    BY <1>2 DEF Stage
  <2>2. line = Event(T + 1, m2, 0)
    BY <1>2, <2>1 DEF Event
  <2>3. SameEvents(m, E, m2, 0, T)
    BY <1>2, <2>1 DEF SameEvents, Event
  <2>4. ASSUME NEW read \in 0..T PROVE Timed(read, m, E) = Timed(read, m2, 0)
    <3>1. read <= m /\ read <= m2 /\ ~ (read > m + E) /\ ~ (read > m2 + 0)
      BY <1>2, <2>1
    <3> QED BY <2>1, <3>1 DEF Timed
  <2>5. Stage(a2, m2, out, 0, T + 1)
    BY <1>2, <2>1 DEF Stage, Told
  <2> QED BY <1>1, <1>2, <2>2, <2>3, <2>4, <2>5 DEF OneEvent, Told
<1>3. CASE a = "tokens" /\ line = Line("error", 0) /\ m2 = m /\ a2 = "usage"
  <2>1. m < out /\ E = 0 /\ T = m
    BY <1>3 DEF Stage
  <2>2. line = Event(T + 1, m2, 1)
    BY <1>3, <2>1 DEF Event
  <2>3. SameEvents(m, E, m2, 1, T)
    BY <1>3, <2>1 DEF SameEvents, Event
  <2>4. ASSUME NEW read \in 0..T PROVE Timed(read, m, E) = Timed(read, m2, 1)
    <3>1. read <= m /\ ~ (read > m + E) /\ ~ (read > m + 1) /\ ~ (read > m)
      BY <2>1
    <3> QED BY <1>3, <2>1, <3>1 DEF Timed
  <2>5. Stage(a2, m2, out, 1, T + 1)
    BY <1>3, <2>1 DEF Stage, Told
  <2> QED BY <1>1, <1>3, <2>2, <2>3, <2>4, <2>5 DEF OneEvent, Told
<1>4. CASE a = "usage" /\ line = Line("usage", m) /\ m2 = m /\ a2 = "last"
  <2>1. m <= out /\ T = m + E /\ (E = 1 <=> m < out)
    BY <1>4 DEF Stage, Told
  <2>2. line = Event(T + 1, m2, E)
    BY <1>4, <2>1 DEF Event
  <2>3. SameEvents(m, E, m2, E, T)
    BY <1>4 DEF SameEvents
  <2>4. Stage(a2, m2, out, E, T + 1)
    BY <1>4, <2>1 DEF Stage, Told
  <2> QED BY <1>1, <1>4, <2>2, <2>3, <2>4 DEF OneEvent, Told
<1>5. CASE a = "last" /\ line = Line("[DONE]", 0) /\ m2 = m /\ a2 = "complete"
  <2>1. m <= out /\ T = m + E + 1 /\ (E = 1 <=> m < out)
    BY <1>5 DEF Stage, Told
  <2>2. line = Event(T + 1, m2, E)
    BY <1>5, <2>1 DEF Event
  <2>3. SameEvents(m, E, m2, E, T)
    BY <1>5 DEF SameEvents
  <2>4. Stage(a2, m2, out, E, T + 1)
    BY <1>5, <2>1 DEF Stage, Told
  <2> QED BY <1>1, <1>5, <2>2, <2>3, <2>4 DEF OneEvent, Told
<1> QED BY <1>2, <1>3, <1>4, <1>5 DEF Moves

LEMMA AnswerKeeps ==
  ASSUME NEW out \in Nat \ {0}, NEW m \in Nat, NEW m2, NEW a, NEW a2, NEW line,
         NEW w \in Seq(Symbols), NEW b \in Seq(Symbols), NEW c,
         RequestOK(a, m, w, b, c, out), Moves(a, m, out, line, a2, m2)
  PROVE  /\ m2 \in Nat /\ a2 \in Told \cup {"tokens"} /\ w \o sse(line) \in Seq(Symbols)
         /\ RequestOK(a2, m2, w \o sse(line), b, c, out)
<1>1. a \in {"tokens", "usage", "last"}
  BY DEF Moves
<1>2. Open(a, m, w, b, c, out)
  BY <1>1 DEF RequestOK, Fresh, Over
<1>3. PICK read \in Nat, T \in Nat, E \in {0, 1} : Sent(m, w, b, c, read, E, T) /\ Stage(a, m, out, E, T)
  BY <1>2 DEF Open
<1>4. PICK E2 \in {0, 1} : OneEvent(m, E, m2, E2, T, line) /\ Stage(a2, m2, out, E2, T + 1)
  BY <1>3, NextEvent
<1>5. m2 \in Nat /\ line \in Symbols /\ a2 \in Told \cup {"tokens"}
  BY <1>3, NextEvent
<1>6. PICK n \in Nat, l \in Symbols : n = m2 /\ l = line
  BY <1>5
<1>7. OneEvent(m, E, n, E2, T, l)
  BY <1>4, <1>6
<1>8. l = Event(T + 1, n, E2) /\ SameEvents(m, E, n, E2, T)
      /\ (read <= T => Timed(read, m, E) = Timed(read, n, E2))
  BY <1>7 DEF OneEvent
<1>9. w \o sse(l) \in Seq(Symbols) /\ Sent(n, w \o sse(l), b, c, read, E2, T + 1)
  BY <1>3, <1>8, OneMore
<1>10. a2 # "none" /\ T + 1 \in Nat
  BY <1>5 DEF Told
<1>11. Open(a2, m2, w \o sse(line), b, c, out)
  BY <1>4, <1>6, <1>9, <1>10 DEF Open
<1> QED BY <1>5, <1>6, <1>9, <1>11 DEF RequestOK

LEMMA PostKeeps ==
  ASSUME NEW out \in Nat \ {0}, NEW a, NEW m, NEW w, NEW b, NEW c, NEW a2 \in {"tokens", "refused", "lost"},
         RequestOK(a, m, w, b, c, out), c.at = "new"
  PROVE  RequestOK(a2, m, w, b, [c EXCEPT !.at = "open"], out)
<1>1. m = 0 /\ w = <<>> /\ b = <<>> /\ c = NewRecord
  <2>1. ~ Over(a, m, c, out)
    BY DEF Over
  <2>2. ~ Open(a, m, w, b, c, out)
    <3> SUFFICES ASSUME Open(a, m, w, b, c, out) PROVE FALSE
      OBVIOUS
    <3>1. PICK read \in Nat, T \in Nat, E \in {0, 1} : Sent(m, w, b, c, read, E, T)
      BY DEF Open
    <3>2. c.at = "open"
      BY <3>1 DEF Sent, Timed
    <3> QED BY <3>2
  <2> QED BY <2>1, <2>2 DEF RequestOK, Fresh
<1>2. [c EXCEPT !.at = "open"] = Timed(0, 0, 0)
  <2>1. ~ (0 > 0) /\ ~ (0 > 0 + 0) /\ 0 <= 0
    OBVIOUS
  <2>2. Timed(0, 0, 0) = [at |-> "open", token_times |-> 0, output_tokens |-> 0, error |-> FALSE]
    BY <2>1 DEF Timed
  <2>3. [NewRecord EXCEPT !.at = "open"]
          = [at |-> "open", token_times |-> 0, output_tokens |-> 0, error |-> FALSE]
    <3>1. ASSUME NEW t, NEW o, NEW e
          PROVE  [[at |-> "new", token_times |-> t, output_tokens |-> o, error |-> e] EXCEPT !.at = "open"]
                   = [at |-> "open", token_times |-> t, output_tokens |-> o, error |-> e]
      OBVIOUS
    <3> QED BY <3>1 DEF NewRecord
  <2> QED BY <1>1, <2>2, <2>3
<1>3. Sent(0, <<>>, <<>>, Timed(0, 0, 0), 0, 0, 0)
  <2>1. Len(<<>>) = 0
    OBVIOUS
  <2> QED BY <2>1 DEF Sent, Behind
<1>4. Stage(a2, 0, out, 0, 0)
  BY DEF Stage, Told
<1>5. Open(a2, 0, <<>>, <<>>, Timed(0, 0, 0), out)
  BY <1>3, <1>4 DEF Open
<1> QED BY <1>1, <1>2, <1>5 DEF RequestOK

LEMMA OpenIsSent ==
  ASSUME NEW a, NEW m, NEW w, NEW b, NEW c, NEW out, RequestOK(a, m, w, b, c, out), c.at = "open"
  PROVE  /\ a # "none"
         /\ \E read \in Nat, T \in Nat, E \in {0, 1} :
              Sent(m, w, b, c, read, E, T) /\ Stage(a, m, out, E, T) /\ c = Timed(read, m, E)
<1>1. ~ Fresh(a, m, w, b, c) /\ ~ Over(a, m, c, out)
  BY DEF Fresh, Over, NewRecord
<1>2. Open(a, m, w, b, c, out)
  BY <1>1 DEF RequestOK
<1>3. PICK read \in Nat, T \in Nat, E \in {0, 1} : Sent(m, w, b, c, read, E, T) /\ Stage(a, m, out, E, T)
  BY <1>2 DEF Open
<1>4. c = Timed(read, m, E)
  BY <1>3 DEF Sent
<1> QED BY <1>2, <1>3, <1>4 DEF Open

\* The first n symbols on the wire join the buffer, and k of them are parsed.
IsChunk(n, w, b, s, k, v, z) ==
  /\ n \in 1..Len(w) /\ s = b \o SubSeq(w, 1, n) /\ k = whole_events(s)
  /\ v = SubSeq(w, n + 1, Len(w)) /\ z = SubSeq(s, k + 1, Len(s))

LEMMA ChunkKeeps ==
  ASSUME NEW a, NEW m \in Nat, NEW w \in Seq(Symbols), NEW b \in Seq(Symbols), NEW c, NEW out,
         RequestOK(a, m, w, b, c, out), c.at = "open",
         NEW n, NEW s, NEW k, NEW v, NEW z, IsChunk(n, w, b, s, k, v, z)
  PROVE  /\ v \in Seq(Symbols) /\ z \in Seq(Symbols)
         /\ RequestOK(a, m, v, z, Parsed(c, SubSeq(s, 1, k)), out)
<1>1. PICK read \in Nat, T \in Nat, E \in {0, 1} :
        Sent(m, w, b, c, read, E, T) /\ Stage(a, m, out, E, T) /\ c = Timed(read, m, E)
  BY OpenIsSent
<1>2. Sent(m, w, b, Timed(read, m, E), read, E, T)
  BY <1>1
<1>3. PICK i \in Nat : i = n /\ i \in 1..Len(w)
  BY DEF IsChunk
<1>4. PICK u \in Seq(Symbols), x \in Seq(Symbols), y \in Seq(Symbols) :
        /\ x = v /\ y = s /\ IsFormer(u, w, i) /\ IsLatter(x, w, i) /\ IsJoin(y, b, u)
  <2>1. /\ SubSeq(w, 1, i) \in Seq(Symbols) /\ SubSeq(w, i + 1, Len(w)) \in Seq(Symbols)
        /\ i \in 0..Len(w)
    BY <1>3
  <2>2. b \o SubSeq(w, 1, i) \in Seq(Symbols)
    BY <2>1
  <2>3. v = SubSeq(w, i + 1, Len(w)) /\ s = b \o SubSeq(w, 1, i)
    BY <1>3 DEF IsChunk
  <2> QED BY <2>1, <2>2, <2>3 DEF IsFormer, IsLatter, IsJoin
<1>5. PICK q \in Nat : IsRead(y, x, m, E, read, T, q)
  BY <1>2, <1>4, ReadKeeps
<1>6. z \in Seq(Symbols) /\ Sent(m, v, z, Parsed(c, SubSeq(s, 1, k)), read + q, E, T)
  BY <1>1, <1>4, <1>5 DEF IsRead, IsChunk
<1>7. read + q \in Nat /\ a # "none"
  BY OpenIsSent
<1>8. Open(a, m, v, z, Parsed(c, SubSeq(s, 1, k)), out)
  BY <1>1, <1>6, <1>7 DEF Open
<1> QED BY <1>4, <1>6, <1>8 DEF RequestOK

\* The client has the whole body, or knows that it never will.
Ended(a, w, f) == (a = "complete" /\ w = <<>>) \/ f

LEMMA EndIsTrue ==
  ASSUME NEW a, NEW m \in Nat, NEW w \in Seq(Symbols), NEW b \in Seq(Symbols), NEW c,
         NEW out \in Nat \ {0}, RequestOK(a, m, w, b, c, out), c.at = "open",
         NEW f \in BOOLEAN, f <=> a \in {"refused", "lost"}, Ended(a, w, f)
  PROVE  RequestOK(a, m, w, b, Closed([c EXCEPT !.error = @ \/ f]), out)
<1>1. PICK read \in Nat, T \in Nat, E \in {0, 1} :
        Sent(m, w, b, c, read, E, T) /\ Stage(a, m, out, E, T)
  BY OpenIsSent
<1>2. Over(a, m, Closed([c EXCEPT !.error = @ \/ f]), out)
  BY <1>1, EndKeeps DEF Ended
<1> QED BY <1>2 DEF RequestOK

LEMMA LostKeeps ==
  ASSUME NEW a \in {"tokens", "usage", "last"}, NEW m, NEW w, NEW b, NEW c, NEW out,
         RequestOK(a, m, w, b, c, out)
  PROVE  RequestOK("lost", m, w, b, c, out)
<1>1. Open(a, m, w, b, c, out)
  BY DEF RequestOK, Fresh, Over
<1>2. PICK read \in Nat, T \in Nat, E \in {0, 1} :
        Sent(m, w, b, c, read, E, T) /\ Stage(a, m, out, E, T)
  BY <1>1 DEF Open
<1>3. Stage("lost", m, out, E, T)
  BY <1>2 DEF Stage, Told
<1>4. Open("lost", m, w, b, c, out)
  BY <1>2, <1>3 DEF Open
<1> QED BY <1>4 DEF RequestOK

OK(r) == RequestOK(answer[r], made[r], wire[r], buffer[r], rec[r], OutputLen[r])

\* A step of one request.
Becomes(r, a, m, w, b, c) ==
  /\ answer' = [answer EXCEPT ![r] = a] /\ made' = [made EXCEPT ![r] = m]
  /\ wire' = [wire EXCEPT ![r] = w] /\ buffer' = [buffer EXCEPT ![r] = b] /\ rec' = [rec EXCEPT ![r] = c]

LEMMA OneRequest ==
  ASSUME StreamInv, NEW r \in Requests, NEW a \in AnswerStates, NEW m \in Nat,
         NEW w \in Seq(Symbols), NEW b \in Seq(Symbols), NEW c, RequestOK(a, m, w, b, c, OutputLen[r]),
         Becomes(r, a, m, w, b, c)
  PROVE  StreamInv'
<1>1. StreamTypes'
  BY DEF StreamInv, StreamTypes, Becomes
<1>2. ASSUME NEW q \in Requests PROVE OK(q)'
  <2>1. CASE q = r
    <3>1. answer'[r] = a /\ made'[r] = m /\ wire'[r] = w /\ buffer'[r] = b /\ rec'[r] = c
      BY DEF StreamInv, StreamTypes, Becomes
    <3> QED BY <2>1, <3>1 DEF OK
  <2>2. CASE q # r
    <3>1. /\ answer'[q] = answer[q] /\ made'[q] = made[q] /\ wire'[q] = wire[q]
          /\ buffer'[q] = buffer[q] /\ rec'[q] = rec[q]
      BY <2>2 DEF StreamInv, StreamTypes, Becomes
    <3>2. OK(q)
      BY DEF StreamInv, OK
    <3> QED BY <3>1, <3>2 DEF OK
  <2> QED BY <2>1, <2>2
<1> QED BY <1>1, <1>2 DEF StreamInv, OK

LEMMA StreamInitial == StreamInit => StreamInv
<1> SUFFICES ASSUME StreamInit PROVE StreamInv
  OBVIOUS
<1>1. StreamTypes
  BY DEF StreamInit, StreamTypes, AnswerStates
<1>2. ASSUME NEW r \in Requests PROVE OK(r)
  BY DEF StreamInit, OK, RequestOK, Fresh
<1> QED BY <1>1, <1>2 DEF StreamInv, OK

LEMMA StreamStarts == StreamReset => StreamInv'
<1> SUFFICES ASSUME StreamReset PROVE StreamInv'
  OBVIOUS
<1>1. StreamTypes'
  BY DEF StreamReset, StreamTypes, AnswerStates
<1>2. ASSUME NEW r \in Requests PROVE OK(r)'
  BY DEF StreamReset, OK, RequestOK, Fresh
<1> QED BY <1>1, <1>2 DEF StreamInv, OK

\* What is known of one request.
IsRequest(r, a, m, w, b, c, out) ==
  /\ answer[r] = a /\ made[r] = m /\ wire[r] = w /\ buffer[r] = b /\ rec[r] = c /\ OutputLen[r] = out
  /\ [answer EXCEPT ![r] = a] = answer /\ [made EXCEPT ![r] = m] = made
  /\ [wire EXCEPT ![r] = w] = wire /\ [buffer EXCEPT ![r] = b] = buffer
  /\ [rec EXCEPT ![r] = c] = rec

LEMMA StreamFacts ==
  ASSUME StreamInv, NEW r \in Requests
  PROVE  \E a \in AnswerStates, m \in Nat, w \in Seq(Symbols), b \in Seq(Symbols), out \in Nat \ {0} :
           IsRequest(r, a, m, w, b, rec[r], out) /\ RequestOK(a, m, w, b, rec[r], out)
<1>1. /\ answer[r] \in AnswerStates /\ made[r] \in Nat
      /\ wire[r] \in Seq(Symbols) /\ buffer[r] \in Seq(Symbols) /\ OutputLen[r] \in Nat \ {0}
  BY StreamAssumption DEF StreamInv, StreamTypes
<1>2. RequestOK(answer[r], made[r], wire[r], buffer[r], rec[r], OutputLen[r])
  BY DEF StreamInv
<1>3. /\ [answer EXCEPT ![r] = answer[r]] = answer /\ [made EXCEPT ![r] = made[r]] = made
      /\ [wire EXCEPT ![r] = wire[r]] = wire /\ [buffer EXCEPT ![r] = buffer[r]] = buffer
      /\ [rec EXCEPT ![r] = rec[r]] = rec
  BY DEF StreamInv, StreamTypes
<1> QED BY <1>1, <1>2, <1>3 DEF IsRequest

LEMMA YieldKeeps ==
  ASSUME StreamInv, NEW r \in Requests, Yield(r)
  PROVE  StreamInv'
<1>0. PICK a \in AnswerStates, m \in Nat, w \in Seq(Symbols), b \in Seq(Symbols), out \in Nat \ {0} :
        IsRequest(r, a, m, w, b, rec[r], out) /\ RequestOK(a, m, w, b, rec[r], out)
  BY StreamFacts
<1>1. PICK e \in next_events(r) :
        /\ wire' = [wire EXCEPT ![r] = @ \o sse(e[1])]
        /\ answer' = [answer EXCEPT ![r] = e[2]]
        /\ made' = [made EXCEPT ![r] = IF e[1].kind = "choices" THEN @ + 1 ELSE @]
        /\ buffer' = buffer /\ rec' = rec
  BY DEF Yield
<1>2. PICK line, a2, m2 : /\ line = e[1] /\ a2 = e[2]
                          /\ m2 = IF e[1].kind = "choices" THEN m + 1 ELSE m
  OBVIOUS
<1>3. Moves(a, m, out, line, a2, m2)
  <2>1. /\ Line("choices", 1).kind = "choices" /\ Line("error", 0).kind = "error"
        /\ Line("usage", m).kind = "usage" /\ Line("[DONE]", 0).kind = "[DONE]"
    BY DEF Line
  <2>2. answer[r] = a /\ made[r] = m /\ OutputLen[r] = out
    BY <1>0 DEF IsRequest
  <2>3. \/ /\ a = "tokens"
           /\ \/ e = <<Line("choices", 1), IF m + 1 = out THEN "usage" ELSE "tokens">>
              \/ e = <<Line("error", 0), "usage">>
        \/ a = "usage" /\ e = <<Line("usage", m), "last">>
        \/ a = "last" /\ e = <<Line("[DONE]", 0), "complete">>
    BY <1>1, <2>2 DEF next_events
  <2> QED BY <1>2, <2>1, <2>3 DEF Moves
<1>4. /\ m2 \in Nat /\ a2 \in Told \cup {"tokens"} /\ w \o sse(line) \in Seq(Symbols)
      /\ RequestOK(a2, m2, w \o sse(line), b, rec[r], out)
  BY <1>0, <1>3, AnswerKeeps
<1>5. Becomes(r, a2, m2, w \o sse(line), b, rec[r])
  BY <1>0, <1>1, <1>2 DEF Becomes, IsRequest
<1>6. a2 \in AnswerStates /\ OutputLen[r] = out
  BY <1>0, <1>4 DEF AnswerStates, IsRequest
<1> QED BY <1>4, <1>5, <1>6, OneRequest

LEMMA PostSafe ==
  ASSUME StreamInv, NEW r \in Requests, NEW replies \in SUBSET {"tokens", "refused", "lost"}, Post(r, replies)
  PROVE  StreamInv'
<1>0. PICK a \in AnswerStates, m \in Nat, w \in Seq(Symbols), b \in Seq(Symbols), out \in Nat \ {0} :
        IsRequest(r, a, m, w, b, rec[r], out) /\ RequestOK(a, m, w, b, rec[r], out)
  BY StreamFacts
<1>1. PICK a2 \in {"tokens", "refused", "lost"} : answer' = [answer EXCEPT ![r] = a2]
  BY DEF Post
<1>2. PICK c : c = rec[r]
  OBVIOUS
<1>3. /\ c.at = "new" /\ rec' = [rec EXCEPT ![r] = [c EXCEPT !.at = "open"]]
      /\ made' = made /\ wire' = wire /\ buffer' = buffer
  BY <1>2 DEF Post
<1>4. RequestOK(a2, m, w, b, [c EXCEPT !.at = "open"], out)
  <2>1. RequestOK(a, m, w, b, c, out)
    BY <1>0, <1>2
  <2> QED BY <1>3, <2>1, PostKeeps
<1>5. Becomes(r, a2, m, w, b, [c EXCEPT !.at = "open"])
  BY <1>0, <1>1, <1>3 DEF Becomes, IsRequest
<1>6. a2 \in AnswerStates /\ OutputLen[r] = out
  BY <1>0 DEF AnswerStates, IsRequest
<1> QED BY <1>4, <1>5, <1>6, OneRequest

LEMMA ReadSafe ==
  ASSUME StreamInv, NEW r \in Requests, Read(r)
  PROVE  StreamInv'
<1>0. PICK a \in AnswerStates, m \in Nat, w \in Seq(Symbols), b \in Seq(Symbols), out \in Nat \ {0} :
        IsRequest(r, a, m, w, b, rec[r], out) /\ RequestOK(a, m, w, b, rec[r], out)
  BY StreamFacts
<1>1. /\ rec[r].at = "open" /\ answer' = answer /\ made' = made
      /\ answer[r] = a /\ made[r] = m /\ wire[r] = w /\ buffer[r] = b /\ OutputLen[r] = out
  BY <1>0 DEF Read, IsRequest
<1>2. PICK n \in 1..Len(w) :
        LET symbols == unparsed(r, SubSeq(w, 1, n))
            j == whole_events(symbols)
        IN /\ wire' = [wire EXCEPT ![r] = SubSeq(@, n + 1, Len(@))]
           /\ buffer' = [buffer EXCEPT ![r] = SubSeq(symbols, j + 1, Len(symbols))]
           /\ rec' = [rec EXCEPT ![r] = Parsed(@, SubSeq(symbols, 1, j))]
  BY <1>1 DEF Read
<1>3. PICK s, k : s = b \o SubSeq(w, 1, n) /\ k = whole_events(s) /\ s = unparsed(r, SubSeq(w, 1, n))
  BY <1>1 DEF unparsed
<1>4. PICK v, z, c : v = SubSeq(w, n + 1, Len(w)) /\ z = SubSeq(s, k + 1, Len(s)) /\ c = rec[r]
  OBVIOUS
<1>5. RequestOK(a, m, w, b, c, out) /\ c.at = "open"
  BY <1>0, <1>1, <1>4
<1>6. /\ v \in Seq(Symbols) /\ z \in Seq(Symbols)
      /\ RequestOK(a, m, v, z, Parsed(c, SubSeq(s, 1, k)), out)
  <2>1. IsChunk(n, w, b, s, k, v, z)
    BY <1>3, <1>4 DEF IsChunk
  <2> QED BY <1>5, <2>1, ChunkKeeps
<1>7. Becomes(r, a, m, v, z, Parsed(c, SubSeq(s, 1, k)))
  BY <1>0, <1>1, <1>2, <1>3, <1>4 DEF Becomes, IsRequest
<1> QED BY <1>1, <1>6, <1>7, OneRequest

LEMMA EndSafe ==
  ASSUME StreamInv, NEW r \in Requests, EndSend(r)
  PROVE  StreamInv'
<1>0. PICK a \in AnswerStates, m \in Nat, w \in Seq(Symbols), b \in Seq(Symbols), out \in Nat \ {0} :
        IsRequest(r, a, m, w, b, rec[r], out) /\ RequestOK(a, m, w, b, rec[r], out)
  BY StreamFacts
<1>1. PICK f \in BOOLEAN : f = is_failure(r) /\ (f <=> a \in {"refused", "lost"})
  <2>1. is_failure(r) \in BOOLEAN /\ (is_failure(r) <=> answer[r] \in {"refused", "lost"})
    BY DEF is_failure
  <2>2. answer[r] = a
    BY <1>0 DEF IsRequest
  <2> QED BY <2>1, <2>2
<1>2. PICK c : c = rec[r]
  OBVIOUS
<1>3. /\ c.at = "open" /\ Ended(a, w, f)
      /\ rec' = [rec EXCEPT ![r] = Closed([c EXCEPT !.error = @ \/ f])]
      /\ answer' = answer /\ made' = made /\ wire' = wire /\ buffer' = buffer
  <2>1. answer[r] = a /\ wire[r] = w
    BY <1>0 DEF IsRequest
  <2>2. rec' = [rec EXCEPT ![r] = Closed([c EXCEPT !.error = @ \/ is_failure(r)])]
    <3>1. rec' = [rec EXCEPT ![r] = Closed([rec[r] EXCEPT !.error = @ \/ is_failure(r)])]
      BY DEF EndSend
    <3> QED BY <1>2, <3>1
  <2>3. /\ c.at = "open" /\ ((a = "complete" /\ w = <<>>) \/ is_failure(r))
        /\ answer' = answer /\ made' = made /\ wire' = wire /\ buffer' = buffer
    BY <1>2, <2>1 DEF EndSend
  <2> QED BY <1>1, <2>2, <2>3 DEF Ended
<1>4. PICK d : d = Closed([c EXCEPT !.error = @ \/ f])
  OBVIOUS
<1>5. RequestOK(a, m, w, b, d, out)
  <2>1. RequestOK(a, m, w, b, c, out)
    BY <1>0, <1>2
  <2>2. Ended(a, w, f)
    BY <1>3
  <2>3. RequestOK(a, m, w, b, Closed([c EXCEPT !.error = @ \/ f]), out)
    BY <1>1, <1>3, <2>1, <2>2, EndIsTrue
  <2> QED BY <1>4, <2>3
<1>6. Becomes(r, a, m, w, b, d)
  BY <1>0, <1>3, <1>4 DEF Becomes, IsRequest
<1>7. OutputLen[r] = out
  BY <1>0 DEF IsRequest
<1> QED BY <1>5, <1>6, <1>7, OneRequest

LEMMA LoseSafe ==
  ASSUME StreamInv, LoseAnswers
  PROVE  StreamInv'
<1>1. /\ answer' = [r \in Requests |-> IF answer[r] \in {"tokens", "usage", "last"} THEN "lost" ELSE answer[r]]
      /\ made' = made /\ wire' = wire /\ buffer' = buffer /\ rec' = rec
  BY DEF LoseAnswers
<1>2. StreamTypes'
  BY <1>1 DEF StreamInv, StreamTypes, AnswerStates
<1>3. ASSUME NEW r \in Requests PROVE OK(r)'
  <2>1. RequestOK(answer[r], made[r], wire[r], buffer[r], rec[r], OutputLen[r])
    BY DEF StreamInv
  <2>2. CASE answer[r] \in {"tokens", "usage", "last"}
    <3>1. answer'[r] = "lost"
      BY <1>1, <2>2
    <3>2. RequestOK("lost", made[r], wire[r], buffer[r], rec[r], OutputLen[r])
      BY <2>1, <2>2, LostKeeps
    <3> QED BY <1>1, <3>1, <3>2 DEF OK
  <2>3. CASE answer[r] \notin {"tokens", "usage", "last"}
    BY <1>1, <2>1, <2>3 DEF OK
  <2> QED BY <2>2, <2>3
<1> QED BY <1>2, <1>3 DEF StreamInv, OK

LEMMA StreamNext == StreamInv /\ [Next]_vars => StreamInv'
<1> SUFFICES ASSUME StreamInv, [Next]_vars PROVE StreamInv'
  OBVIOUS
<1>1. CASE UNCHANGED streamVars
  BY <1>1 DEF streamVars, StreamInv, StreamTypes
<1>2. CASE Launch \/ Healthy \/ NotHealthy \/ Interrupt \/ Kill \/ EndConfig
  <2>1. UNCHANGED streamVars
    BY <1>2 DEF Launch, Healthy, NotHealthy, Interrupt, Kill, EndConfig
  <2> QED BY <1>1, <2>1
<1>3. CASE EndRate
  BY <1>3, StreamStarts DEF EndRate
<1>4. ASSUME NEW r \in Requests, Send(r) PROVE StreamInv'
  <2>1. PICK replies \in SUBSET {"tokens", "refused", "lost"} : Post(r, replies)
    BY <1>4 DEF Send
  <2> QED BY <2>1, PostSafe
<1>5. ASSUME NEW r \in Requests, Client(r) PROVE StreamInv'
  BY <1>5, ReadSafe, EndSafe DEF Client
<1>6. ASSUME NEW r \in Requests, Answer(r) PROVE StreamInv'
  BY <1>6, YieldKeeps DEF Answer
<1>7. ASSUME NEW c \in Configs, Serve(c) PROVE StreamInv'
  BY <1>1, <1>7 DEF Serve
<1>8. ASSUME NEW c \in Configs, Die(c) PROVE StreamInv'
  BY <1>8, LoseSafe DEF Die
<1>9. CASE UNCHANGED vars
  BY <1>1, <1>9 DEF vars
<1> QED
  BY <1>2, <1>3, <1>4, <1>5, <1>6, <1>7, <1>8, <1>9 DEF Next, SweepStep, Answers

\* However the stream of an answer is cut, whatever fails and whenever a server
\* dies: a record counts as a success exactly if the whole answer arrived, and
\* then it has every token once.
THEOREM EveryRecordIsTrue == FairSpec => []RecordsAreTrue
<1>1. StreamInv => RecordsAreTrue
  <2> SUFFICES ASSUME StreamInv, NEW r \in Requests, rec[r].at = "done"
               PROVE  IsTrue(answer[r], made[r], rec[r], OutputLen[r])
    BY DEF RecordsAreTrue, IsTrue
  <2>1. RequestOK(answer[r], made[r], wire[r], buffer[r], rec[r], OutputLen[r])
    BY DEF StreamInv
  <2>2. ~ Fresh(answer[r], made[r], wire[r], buffer[r], rec[r])
    BY DEF Fresh, NewRecord
  <2>3. ~ Open(answer[r], made[r], wire[r], buffer[r], rec[r], OutputLen[r])
    <3> SUFFICES ASSUME Open(answer[r], made[r], wire[r], buffer[r], rec[r], OutputLen[r]) PROVE FALSE
      OBVIOUS
    <3>1. PICK read \in Nat, T \in Nat, E \in {0, 1} :
            Sent(made[r], wire[r], buffer[r], rec[r], read, E, T)
      BY DEF Open
    <3>2. rec[r].at = "open"
      BY <3>1 DEF Sent, Timed
    <3> QED BY <3>2
  <2> QED BY <2>1, <2>2, <2>3 DEF RequestOK, Over
<1>2. Init => StreamInv
  BY StreamInitial DEF Init
<1> QED
  BY <1>1, <1>2, StreamNext, PTL DEF FairSpec
=============================================================================
