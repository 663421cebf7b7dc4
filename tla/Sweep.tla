-------------------------------- MODULE Sweep --------------------------------
(***************************************************************************)
(* sweep of bench/run_bench.py: one server process per configuration, each *)
(* measured at every rate and then stopped.  A process may fail to start,  *)
(* start slowly, die at any time and ignore SIGINT; all use the same port. *)
(***************************************************************************)
EXTENDS Stream

CONSTANTS NumConfigs, NumRates

ASSUME SweepAssumption == NumConfigs \in Nat \ {0} /\ NumRates \in Nat \ {0}

Configs == 1..NumConfigs

VARIABLES proc,    \* config -> "none", "starting", "serving", "stopping" or "dead"
          config, rate,
          bench,   \* "launch", "wait", "rate", "stop", "reap", and at the end "done" or "raised"
          raising  \* an exception is on its way through the finally

sweepVars == <<config, rate, bench, raising>>
vars == <<streamVars, proc, sweepVars>>

Init ==
  /\ StreamInit
  /\ proc = [c \in Configs |-> "none"]
  /\ config = 1 /\ rate = 1 /\ bench = "launch" /\ raising = FALSE

alive(c) == proc[c] \in {"starting", "serving", "stopping"}

-----------------------------------------------------------------------------
\* Server processes.  One comes up: the engine is built, uvicorn listens.
Serve(c) ==
  /\ proc[c] = "starting" /\ proc' = [proc EXCEPT ![c] = "serving"]
  /\ UNCHANGED <<streamVars, sweepVars>>

\* It cannot start, crashes, or ends after SIGINT.
Die(c) ==
  /\ alive(c) /\ proc' = [proc EXCEPT ![c] = "dead"]
  /\ LoseAnswers
  /\ UNCHANGED sweepVars

\* Its _stream sends the next event of an answer.
Answer(r) == Yield(r) /\ UNCHANGED <<proc, sweepVars>>

-----------------------------------------------------------------------------
\* sweep
Launch ==
  /\ bench = "launch" /\ bench' = "wait"
  /\ proc' = [proc EXCEPT ![config] = "starting"]
  /\ UNCHANGED <<streamVars, config, rate, raising>>

\* _wait_healthy returns, or raises because the process is gone or time is up.
Healthy ==
  /\ bench = "wait" /\ proc[config] = "serving" /\ bench' = "rate"
  /\ UNCHANGED <<streamVars, proc, config, rate, raising>>

NotHealthy ==
  /\ bench = "wait" /\ bench' = "stop" /\ raising' = TRUE
  /\ UNCHANGED <<streamVars, proc, config, rate>>

\* run_rate: the requests are posted in turn, whatever became of earlier ones.
Send(r) ==
  /\ bench = "rate" /\ \A q \in 1 .. r - 1 : rec[q].at # "new"
  /\ Post(r, IF \E c \in Configs : proc[c] = "serving" THEN {"tokens", "refused"} ELSE {"lost"})
  /\ UNCHANGED <<proc, sweepVars>>

Client(r) == (Read(r) \/ EndSend(r)) /\ UNCHANGED <<proc, sweepVars>>

\* gather has all records; run_all goes on to the next rate.
EndRate ==
  /\ bench = "rate" /\ \A r \in Requests : rec[r].at = "done"
  /\ IF rate < NumRates THEN rate' = rate + 1 /\ UNCHANGED bench ELSE rate' = 1 /\ bench' = "stop"
  /\ StreamReset
  /\ UNCHANGED <<proc, config, raising>>

\* send_signal does nothing to a process that has ended.
Interrupt ==
  /\ bench = "stop" /\ bench' = "reap"
  /\ proc' = [proc EXCEPT ![config] = IF @ = "dead" THEN @ ELSE "stopping"]
  /\ UNCHANGED <<streamVars, config, rate, raising>>

\* Mutant: the sweep waits for the process without a limit.
wait_only == FALSE

\* The minute after SIGINT is over.
timed_out == proc[config] = "stopping"

Kill ==
  /\ bench = "reap" /\ timed_out
  /\ proc' = [proc EXCEPT ![config] = "dead"]
  /\ UNCHANGED <<streamVars, sweepVars>>

\* Mutant: the sweep goes on after the signal.
signalled == TRUE

reaped == proc[config] = "dead"

EndConfig ==
  /\ bench = "reap" /\ reaped
  /\ IF raising THEN bench' = "raised" /\ UNCHANGED config
     ELSE IF config < NumConfigs THEN bench' = "launch" /\ config' = config + 1
     ELSE bench' = "done" /\ UNCHANGED config
  /\ UNCHANGED <<streamVars, proc, rate, raising>>

-----------------------------------------------------------------------------
SweepStep ==
  \/ Launch \/ Healthy \/ NotHealthy
  \/ \E r \in Requests : Send(r) \/ Client(r)
  \/ EndRate \/ Interrupt \/ Kill \/ EndConfig

Answers == \E r \in Requests : Answer(r)

Next == SweepStep \/ Answers \/ \E c \in Configs : Serve(c) \/ Die(c)

\* The client runs, its timeouts expire, and a server that lives goes on with
\* its answers (Server!NobodyStranded).  No server has to start, or to obey
\* SIGINT.
FairSpec == Init /\ [][Next]_vars /\ WF_vars(SweepStep) /\ WF_vars(Answers)

-----------------------------------------------------------------------------
\* At most one server uses the port, the one of the configuration whose label
\* the results get; none outlives the sweep, however it ends.
OneServer ==
  /\ \A c \in Configs : alive(c) => c = config /\ bench \notin {"launch", "done", "raised"}
  /\ \A c \in Configs : proc[c] = "none" <=> c > config \/ (c = config /\ bench = "launch")

\* The sweep comes to its end, although servers die under their requests, never
\* start or never stop.
SweepEnds == <>(bench \in {"done", "raised"})
=============================================================================
