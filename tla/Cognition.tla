------------------------------- MODULE Cognition -------------------------------
(***************************************************************************)
(* The budget of the Butler's calls to a model.  runTask compares the      *)
(* tokens used so far, today's from the table llm_invocations and this     *)
(* process's from a field, plus an estimate with two budgets; then it      *)
(* awaits the gateway, and charges the answer when it has arrived.  Calls  *)
(* under way are charged nowhere, so overlapping calls overrun a budget.   *)
(*                                                                         *)
(* Estimates are one per budget class.  An answer reports at most          *)
(* MaxAnswer tokens, a call that fails reports none.  Which failures there *)
(* are, and what a gateway then says of itself, depends on the gateway:    *)
(* the host's models, OpenAI (stand-alone), or a bridge that returns mere  *)
(* text, for nothing.  What is asked and answered is left out.             *)
(***************************************************************************)
EXTENDS Naturals, FiniteSets

CONSTANTS
    Calls,          \* calls of runTask
    Estimates,      \* TOKEN_ESTIMATES of the budget classes
    Cheapest,       \* the least of them
    MaxAnswer,      \* tokens one answer reports at most
    DailyBudget,    \* cognition.dailyTokenBudget
    SessionBudget,  \* cognition.sessionTokenBudget
    MaxDays         \* bound on the days and restarts of a run

ASSUME CognitionAssumption ==
    /\ IsFiniteSet(Calls) /\ Calls # {}
    /\ Estimates \subseteq Nat /\ Cheapest \in Nat /\ \A e \in Estimates : Cheapest <= e
    /\ MaxAnswer \in Nat /\ Cheapest <= MaxAnswer
    /\ DailyBudget \in Nat /\ SessionBudget \in Nat /\ MaxDays \in Nat

VARIABLES
    gateway,        \* which one the process has: "host", "openai", "bridge"
    asked,          \* the calls whose answer is awaited
    dailyTokens,    \* tokens of today's rows of llm_invocations
    sessionTokens,  \* tokens of the answers this process could read
    readiness,      \* what the gateway says of itself
    spent,          \* tokens that today's answers have reported (not in the code)
    days            \* days and restarts so far (not in the code)

cognitionVars == <<gateway, asked, dailyTokens, sessionTokens, readiness, spent, days>>

CognitionTypeOK ==
    /\ gateway \in {"host", "openai", "bridge"}
    /\ asked \subseteq Calls
    /\ dailyTokens \in Nat /\ sessionTokens \in Nat /\ spent \in Nat
    /\ readiness \in {"untested", "ready", "unavailable"}
    /\ days \in 0..MaxDays

\* A bridge is taken to be ready.
Untested == IF gateway = "bridge" THEN "ready" ELSE "untested"

CognitionInit ==
    /\ gateway \in {"host", "openai", "bridge"}
    /\ asked = {} /\ dailyTokens = 0 /\ sessionTokens = 0 /\ spent = 0
    /\ readiness = Untested /\ days = 0

-----------------------------------------------------------------------------

CanAfford(estimate) ==
    /\ dailyTokens + estimate <= DailyBudget
    /\ sessionTokens + estimate <= SessionBudget

\* A call that is not affordable answers with a fallback and changes nothing.
Ask(c) ==
    /\ c \notin asked
    /\ \E estimate \in Estimates : CanAfford(estimate)
    /\ asked' = asked \cup {c}
    /\ UNCHANGED <<gateway, dailyTokens, sessionTokens, readiness, spent, days>>

\* Mutant of RecordInvocation: only an answer that could be read is recorded.
RecordRead(tokens, read) == dailyTokens' = IF read THEN dailyTokens + tokens ELSE dailyTokens

\* recordInvocation inserts a row whether or not the answer could be read.
RecordInvocation(tokens, read) == dailyTokens' = dailyTokens + tokens

\* The gateway answers; what cannot be parsed is not charged to the session.
Answer(c, tokens, read) ==
    /\ c \in asked
    /\ gateway = "bridge" => tokens = 0
    /\ asked' = asked \ {c}
    /\ RecordInvocation(tokens, read)
    /\ sessionTokens' = IF read THEN sessionTokens + tokens ELSE sessionTokens
    /\ readiness' = "ready"
    /\ spent' = spent + tokens
    /\ UNCHANGED <<gateway, days>>

\* How a call may fail.  Only the host's gateway refuses what is local_only.
Failures ==
    CASE gateway = "host" -> {"local_only", "no_key", "no_model", "unauthorized", "timeout", "error"}
      [] gateway = "openai" -> {"no_key", "unauthorized", "timeout", "error"}
      [] gateway = "bridge" -> {"error"}

\* The host's gateway is unavailable for what concerns its key, OpenAI's for
\* any failure; either is asked again all the same.
ReadinessAfter(failure) ==
    IF \/ gateway = "openai"
       \/ gateway = "host" /\ failure \in {"no_key", "unauthorized"}
    THEN "unavailable" ELSE readiness

\* No answer: a row without tokens is inserted.
Fail(c) ==
    /\ c \in asked
    /\ asked' = asked \ {c}
    /\ \E failure \in Failures : readiness' = ReadinessAfter(failure)
    /\ UNCHANGED <<gateway, dailyTokens, sessionTokens, spent, days>>

NewDay ==
    /\ days < MaxDays
    /\ days' = days + 1
    /\ dailyTokens' = 0 /\ spent' = 0
    /\ UNCHANGED <<gateway, asked, sessionTokens, readiness>>

\* The table survives, the session's count and the calls do not.
RestartCognition ==
    /\ days < MaxDays
    /\ days' = days + 1
    /\ asked' = {} /\ sessionTokens' = 0 /\ readiness' = Untested
    /\ UNCHANGED <<gateway, dailyTokens, spent>>

CognitionNext ==
    \/ \E c \in Calls :
        \/ Ask(c) \/ Fail(c)
        \/ \E tokens \in 0..MaxAnswer, read \in BOOLEAN : Answer(c, tokens, read)
    \/ NewDay \/ RestartCognition

CognitionSpec == CognitionInit /\ [][CognitionNext]_cognitionVars

-----------------------------------------------------------------------------

\* A budget with nothing under way is overrun by less than one answer; every
\* call under way adds at most its own.
Within(used, budget) ==
    used + Cheapest + Cardinality(asked) * MaxAnswer <= budget + Cardinality(Calls) * MaxAnswer

\* What answers have cost today and what the session was charged stay within
\* the budgets but for one answer of each call that can be under way at once,
\* although each is charged long after its budget was checked.
UsageBounded == Within(spent, DailyBudget) /\ Within(sessionTokens, SessionBudget)
=============================================================================
