------------------------------ MODULE ModelCalls ------------------------------
(***************************************************************************)
(* The retry engine of agents/model/openai_api_adapter.py: calls of        *)
(* several agents to one endpoint.  A call rides a streamed or a plain     *)
(* request, pays for its failures out of its own budget, probes the        *)
(* endpoint after a lost connection, and shares two process-wide records   *)
(* with the other calls: the failures of the endpoint and the mark that it *)
(* does not stream.  Both forget after a while, at a time nobody chooses.  *)
(***************************************************************************)
EXTENDS Integers, FiniteSets

CONSTANTS
  Caller,          \* the agents, each with one call at a time
  MaxRetries,      \* ARC_MODEL_MAX_RETRIES
  MaxFailures,     \* ARC_MODEL_MAX_CONSECUTIVE_FAILURES, 0 turns the breaker off
  ProbeRounds,     \* _PROBE_ROUNDS_PER_ATTEMPT
  Modes            \* the settings of ARC_MODEL_STREAM_TRANSPORT considered

ASSUME CallsAssumption ==
  /\ IsFiniteSet(Caller)
  /\ MaxRetries \in Nat /\ MaxFailures \in Nat /\ ProbeRounds \in Nat
  /\ Modes \subseteq {"stream", "retry", "off"} /\ Modes # {}

VARIABLES
  mode,         \* how calls may stream
  configured,   \* whether the endpoint has a base URL of its own to probe
  up,           \* whether the endpoint answers at all
  call,         \* [caller -> its call]
  failures,     \* how many failures of the endpoint are on record
  unsupported,  \* the mark that the endpoint rejects streamed requests
  asked         \* requests sent to the endpoint since it is down

callsVars == <<mode, configured, up, call, failures, unsupported, asked>>

\* "rejected": 400, 404, 405, 415, 422; "refused": credentials or quota;
\* "busy": throttled or a server error; "lost": the connection failed;
\* "empty": a stream without a chunk; "stalled": the watchdog between two
\* chunks; "foreign": no API error, but caused by a lost connection.
Failure == {"rejected", "refused", "busy", "lost", "empty", "stalled", "foreign"}

ConnectionFailure == {"lost", "empty", "foreign"}

Retryable == {"busy", "lost", "empty"}

\* How a call ended: "outage" stops the run, "failed" fails the task.
Verdict == {"none", "answered", "outage", "failed"}

Idle == [pc |-> "idle", streamed |-> FALSE, failed |-> 0, switches |-> 0, rounds |-> 0,
         probe |-> FALSE, sent |-> 0, dead |-> FALSE, verdict |-> "none"]

Call == [pc : {"idle", "asking", "waiting"}, streamed : BOOLEAN, failed : Nat,
         switches : Nat, rounds : Nat, probe : BOOLEAN, sent : Nat, dead : BOOLEAN,
         verdict : Verdict]

TypeOK ==
  /\ mode \in Modes /\ configured \in BOOLEAN /\ up \in BOOLEAN /\ unsupported \in BOOLEAN
  /\ call \in [Caller -> Call]
  /\ failures \in Nat /\ asked \in Nat

CallsInit ==
  /\ mode \in Modes /\ configured \in BOOLEAN /\ up \in BOOLEAN
  /\ call = [c \in Caller |-> Idle]
  /\ failures = 0
  /\ unsupported = FALSE
  /\ asked = 0

HasStreamedLeg == mode # "off"

\* The other transport, when there is one.
Switched(k) == [k EXCEPT !.streamed = IF HasStreamedLeg THEN ~@ ELSE @]

Ended(k, verdict) == [k EXCEPT !.pc = "idle", !.verdict = verdict]

\* A request goes out for the call as it is in k.
Send(c, k) ==
  /\ call' = [call EXCEPT ![c] = [k EXCEPT !.pc = "asking", !.sent = @ + 1]]
  /\ asked' = IF up THEN asked ELSE asked + 1

\* The call goes on as k without a request.
Becomes(c, k) ==
  /\ call' = [call EXCEPT ![c] = k]
  /\ UNCHANGED asked

BudgetSpent == MaxFailures > 0 /\ failures >= MaxFailures

-----------------------------------------------------------------------------
(* A call *)

\* The budget of the endpoint is read once, before the first request, and so is
\* the mark.
Begin(c) ==
  LET new == [Idle EXCEPT !.streamed = mode = "stream" /\ ~unsupported, !.dead = ~up] IN
  /\ call[c].pc = "idle"
  /\ IF BudgetSpent THEN Becomes(c, Ended(new, "outage")) ELSE Send(c, new)
  /\ UNCHANGED <<mode, configured, up, failures, unsupported>>

Answered(c) ==
  /\ up
  /\ Becomes(c, Ended(call[c], "answered"))
  /\ failures' = 0
  /\ UNCHANGED unsupported

\* Variant for testing AttemptsBounded: the call stays on the streamed transport.
StreamRejectedAgain(c) ==
  /\ unsupported' = TRUE
  /\ Send(c, call[c])
  /\ UNCHANGED failures

\* The provider does not stream: mark the endpoint and ask again at once, free.
StreamRejected(c) ==
  /\ unsupported' = TRUE
  /\ Send(c, [call[c] EXCEPT !.streamed = FALSE])
  /\ UNCHANGED failures

\* A watchdog error counts once a stream was involved; the first is free.
Stalled(c) ==
  LET k == [call[c] EXCEPT !.switches = @ + 1]
      paid == IF k.switches = 1 THEN k ELSE [k EXCEPT !.failed = @ + 1]
  IN  /\ failures' = failures + 1
      /\ IF paid.failed > MaxRetries THEN Becomes(c, Ended(paid, "failed"))
         ELSE Send(c, Switched(paid))
      /\ UNCHANGED unsupported

\* Every other failure is paid for.  After a lost connection the call switches
\* transport and, unless the endpoint just answered with an empty stream, waits
\* for it to be reachable.
Failed(c, failure) ==
  LET k == [call[c] EXCEPT !.failed = @ + 1]
      retried == failure \in Retryable /\ k.failed <= MaxRetries
      waiting == [k EXCEPT !.pc = "waiting"]
  IN  /\ failures' = IF failure \in ConnectionFailure THEN failures + 1 ELSE failures
      /\ Becomes(c, IF ~retried THEN Ended(k, "failed")
                    ELSE IF failure \in ConnectionFailure
                    THEN Switched([waiting EXCEPT !.probe = failure # "empty"])
                    ELSE waiting)
      /\ UNCHANGED unsupported

\* What the endpoint does with the request.
Outcome(c, outcome) ==
  LET k == call[c]
      streamOnly == outcome = "empty" => k.streamed
  IN  /\ k.pc = "asking" /\ streamOnly
      /\ up \/ outcome = "lost"
      /\ IF outcome = "answered" THEN Answered(c)
         ELSE IF k.streamed /\ outcome = "rejected" THEN StreamRejected(c)
         ELSE IF outcome = "stalled" /\ (k.streamed \/ k.switches > 0) THEN Stalled(c)
         ELSE Failed(c, outcome)
      /\ UNCHANGED <<mode, configured, up>>

\* The call wakes up and asks again.
Resend(c) ==
  /\ call[c].pc = "waiting" /\ ~call[c].probe
  /\ Send(c, call[c])
  /\ UNCHANGED <<mode, configured, up, failures, unsupported>>

\* What a probe may find: without a base URL it finds the endpoint reachable and
\* asks nobody.
Probes(reachable) == IF configured THEN reachable => up ELSE reachable

\* Variant for testing DeadEndpointSpared: a probe that fails leaves no record.
ProbeUnrecorded(c, reachable) ==
  LET k == [call[c] EXCEPT !.rounds = @ + 1] IN
  /\ call[c].pc = "waiting" /\ call[c].probe
  /\ Probes(reachable)
  /\ IF reachable THEN Send(c, [call[c] EXCEPT !.probe = FALSE, !.rounds = 0])
     ELSE Becomes(c, IF k.rounds > ProbeRounds THEN Ended(k, "outage") ELSE k)
  /\ UNCHANGED <<mode, configured, up, failures, unsupported>>

\* Variant for testing DeadIsOutage: rounds are paid like attempts.
ProbePaid(c, reachable) ==
  LET k == [call[c] EXCEPT !.rounds = @ + 1, !.failed = @ + 1] IN
  /\ call[c].pc = "waiting" /\ call[c].probe
  /\ Probes(reachable)
  /\ IF reachable THEN Send(c, [call[c] EXCEPT !.probe = FALSE, !.rounds = 0])
     ELSE Becomes(c, IF k.failed > MaxRetries THEN Ended(k, "failed") ELSE k)
  /\ failures' = IF reachable THEN failures ELSE failures + 1
  /\ UNCHANGED <<mode, configured, up, unsupported>>

\* One reachability probe: rounds are bounded per attempt and are not paid for,
\* but each one that fails is on the record of the endpoint.
Probe(c, reachable) ==
  LET k == [call[c] EXCEPT !.rounds = @ + 1] IN
  /\ call[c].pc = "waiting" /\ call[c].probe
  /\ Probes(reachable)
  /\ IF reachable THEN Send(c, [call[c] EXCEPT !.probe = FALSE, !.rounds = 0])
     ELSE Becomes(c, IF k.rounds > ProbeRounds THEN Ended(k, "outage") ELSE k)
  /\ failures' = IF reachable THEN failures ELSE failures + 1
  /\ UNCHANGED <<mode, configured, up, unsupported>>

-----------------------------------------------------------------------------
(* Time and the endpoint *)

\* The oldest failures leave the recovery window; what the calls have sent since
\* then counts anew.
ForgetFailures(left) ==
  /\ left < failures
  /\ failures' = left /\ asked' = 0
  /\ UNCHANGED <<mode, configured, up, call, unsupported>>

\* The mark expires (_STREAMING_UNSUPPORTED_TTL_SECONDS).
ForgetMark ==
  /\ unsupported /\ unsupported' = FALSE
  /\ UNCHANGED <<mode, configured, up, call, failures, asked>>

GoDown ==
  /\ up /\ up' = FALSE /\ asked' = 0
  /\ UNCHANGED <<mode, configured, call, failures, unsupported>>

ComeBack ==
  /\ ~up /\ up' = TRUE /\ asked' = 0
  /\ call' = [c \in Caller |-> [call[c] EXCEPT !.dead = FALSE]]
  /\ UNCHANGED <<mode, configured, failures, unsupported>>

Step(c) ==
  \/ Begin(c)
  \/ \E outcome \in Failure \cup {"answered"} : Outcome(c, outcome)
  \/ Resend(c)
  \/ \E reachable \in BOOLEAN : Probe(c, reachable)

CallsNext ==
  \/ \E c \in Caller : Step(c)
  \/ \E left \in 0..(failures - 1) : ForgetFailures(left)
  \/ ForgetMark
  \/ GoDown
  \/ ComeBack

CallsSpec == CallsInit /\ [][CallsNext]_callsVars

-----------------------------------------------------------------------------
(* Properties *)

\* The requests that are free (a rejected stream, a first stall) do not add up:
\* however transports alternate, a call sends at most two per paid attempt.
AttemptsBounded == \A c \in Caller : call[c].sent <= 2 * (MaxRetries + 1)

\* An endpoint with a base URL that is down is left alone: within one recovery
\* window every agent asks it at most twice, once with the call it was in and once
\* with the call whose probes spend the budget for all.
DeadEndpointSpared == configured => asked <= 2 * Cardinality(Caller)

\* A call that found an endpoint with a base URL down from its first request to
\* its end says so: the run pauses and no task fails.
DeadIsOutage ==
  configured =>
    \A c \in Caller : call[c].dead /\ call[c].verdict # "none" => call[c].verdict = "outage"

\* What the comment on the rounds says of a totally-down endpoint: "1 real failure
\* + 3 probe rounds ... before the call raises" (openai_api_adapter.py:61-65).  It
\* does not hold of the default endpoint, which no probe ever finds unreachable.
DeadCostsOneRequest == \A c \in Caller : call[c].dead => call[c].failed <= 1

=============================================================================
