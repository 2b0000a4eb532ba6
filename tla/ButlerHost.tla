------------------------------ MODULE ButlerHost ------------------------------
(***************************************************************************)
(* The standalone runtime's way to its host: ActionExecutor carries out    *)
(* the steps of a plan under ActionPolicy, ProtocolHostAdapter turns a     *)
(* step into a request to the host, and ProtocolHandler keeps the promise  *)
(* of each request until an answer, its timer or a shutdown settles it.    *)
(*                                                                         *)
(* A request is settled in one handler and its plan goes on in a later     *)
(* one; several plans may run at once.  The ids of requests are fresh, so  *)
(* a late or repeated answer finds none and changes nothing: it is not an  *)
(* action here.  A plan may find its time used up before any step.         *)
(***************************************************************************)
EXTENDS Naturals, Sequences, FiniteSets

CONSTANTS
    Plans,          \* runs of ActionExecutor.execute
    MaxSteps,       \* bound on the steps of a plan
    MaxPerDay,      \* maxActionsPerDay
    MaxPerSession,  \* maxActionsPerSession
    ConfirmTiers,   \* requireConfirmTiers
    MaxResets       \* bound on the days and sessions of a run

ASSUME HostAssumption ==
    /\ IsFiniteSet(Plans) /\ Plans # {}
    /\ MaxSteps \in Nat /\ MaxResets \in Nat
    /\ MaxPerDay \in Nat \ {0} /\ MaxPerSession \in Nat \ {0}
    /\ ConfirmTiers \subseteq {"auto", "confirm"}

VARIABLES
    plan,       \* each plan: the steps left and how far the first of them is
    daily,      \* dailyActionCount
    session,    \* sessionActionCount
    stale,      \* lastResetDate is not today
    running,    \* ButlerRuntime.running
    ticking,    \* the scheduler holds an interval
    resets      \* days and sessions so far (not in the code)

policyVars == <<daily, session, stale>>
runtimeVars == <<running, ticking>>
hostVars == <<plan, policyVars, runtimeVars, resets>>

\* Steps by what they need of the host: an answer of the user, a tool run
\* without or after his confirmation, or nothing (knowledge search, goals).
Steps == {"ask", "tool", "delete", "own"}
Tier(step) == IF step = "delete" THEN "confirm" ELSE "auto"

\* pending: in pendingQuestions or pendingActions; ok, failed: its promise is settled.
Stages == {"new", "next", "pending", "ok", "failed", "over"}

HostTypeOK ==
    /\ plan \in [Plans -> [stage : Stages, todo : Seq(Steps)]]
    /\ \A p \in Plans : Len(plan[p].todo) <= MaxSteps
    /\ daily \in Nat /\ session \in Nat /\ stale \in BOOLEAN
    /\ running \in BOOLEAN /\ ticking \in BOOLEAN
    /\ resets \in 0..MaxResets

HostInit ==
    /\ plan = [p \in Plans |-> [stage |-> "new", todo |-> <<>>]]
    /\ daily = 0 /\ session = 0 /\ stale = TRUE
    /\ running = FALSE /\ ticking = FALSE
    /\ resets = 0

Stands(p, stage) == plan[p].stage = stage
Pending == {p \in Plans : Stands(p, "pending")}
Goes(p, stage) == plan' = [plan EXCEPT ![p].stage = stage]
Step(p) == Head(plan[p].todo)

-----------------------------------------------------------------------------
(***************************************************************************)
(* ActionPolicy                                                            *)
(***************************************************************************)

\* resetDailyIfNeeded; a new day starts a new session as well.
DailyCount == IF stale THEN 0 ELSE daily
SessionCount == IF stale THEN 0 ELSE session

\* Mutant of CanExecute: the comparison with the daily limit is off by one.
CanExecuteOneMore(step) ==
    DailyCount <= MaxPerDay /\ SessionCount < MaxPerSession /\ Tier(step) \notin ConfirmTiers

CanExecute(step) ==
    DailyCount < MaxPerDay /\ SessionCount < MaxPerSession /\ Tier(step) \notin ConfirmTiers

Checked == daily' = DailyCount /\ session' = SessionCount /\ stale' = FALSE
RecordAction == daily' = DailyCount + 1 /\ session' = SessionCount + 1 /\ stale' = FALSE

NewDate ==
    /\ resets < MaxResets /\ resets' = resets + 1
    /\ stale' = TRUE
    /\ UNCHANGED <<plan, daily, session, runtimeVars>>

ResetSession ==
    /\ resets < MaxResets /\ resets' = resets + 1
    /\ session' = 0
    /\ UNCHANGED <<plan, daily, stale, runtimeVars>>

-----------------------------------------------------------------------------
(***************************************************************************)
(* ActionExecutor                                                          *)
(***************************************************************************)

Execute(p, steps) ==
    /\ Stands(p, "new")
    /\ plan' = [plan EXCEPT ![p] = [stage |-> "next", todo |-> steps]]
    /\ UNCHANGED <<policyVars, runtimeVars, resets>>

\* The loop ends when no step is left or the budget is used up.
PlanEnds(p) ==
    /\ Stands(p, "next")
    /\ Goes(p, "over")
    /\ UNCHANGED <<policyVars, runtimeVars, resets>>

\* The next step: refused, asked of the host, or done by the executor itself,
\* which fails when there is no store of goals.
Begin(p) ==
    /\ Stands(p, "next") /\ plan[p].todo # <<>>
    /\ Checked
    /\ IF CanExecute(Step(p))
       THEN \E stage \in IF Step(p) = "own" THEN {"ok", "failed"} ELSE {"pending"} : Goes(p, stage)
       ELSE plan' = [plan EXCEPT ![p].todo = Tail(@)]
    /\ UNCHANGED <<runtimeVars, resets>>

\* Only a step that succeeded counts against the limits.
Continue(p) ==
    /\ Stands(p, "ok") \/ Stands(p, "failed")
    /\ IF Stands(p, "ok") THEN RecordAction ELSE UNCHANGED policyVars
    /\ plan' = [plan EXCEPT ![p] = [stage |-> "next", todo |-> Tail(@.todo)]]
    /\ UNCHANGED <<runtimeVars, resets>>

-----------------------------------------------------------------------------
(***************************************************************************)
(* ProtocolHandler                                                         *)
(***************************************************************************)

\* What a request that nobody answers settles to: no answer is an answer, but
\* no confirmation is a refusal.
Unanswered(step) == IF step = "ask" THEN "ok" ELSE "failed"

HostAnswers(p) ==
    /\ Stands(p, "pending")
    /\ \E stage \in IF Step(p) = "ask" THEN {"ok"} ELSE {"ok", "failed"} : Goes(p, stage)
    /\ UNCHANGED <<policyVars, runtimeVars, resets>>

\* Mutant of TimesOut: the timers of a runtime that was stopped are lost.
TimesOutRunning(p) ==
    /\ Stands(p, "pending") /\ running
    /\ Goes(p, Unanswered(Step(p)))
    /\ UNCHANGED <<policyVars, runtimeVars, resets>>

TimesOut(p) ==
    /\ Stands(p, "pending")
    /\ Goes(p, Unanswered(Step(p)))
    /\ UNCHANGED <<policyVars, runtimeVars, resets>>

\* Every request is settled and its timer cleared.
ClearPending ==
    [p \in Plans |-> IF p \in Pending THEN [plan[p] EXCEPT !.stage = Unanswered(Step(p))] ELSE plan[p]]

\* A timer that runs is not set twice, and one that does not is not cleared.
StartScheduler == ticking' = TRUE
StopScheduler == ticking' = FALSE

\* A shutdown message stops the scheduler and settles what is pending; the
\* transport goes on, and later requests are made and timed as before.
ShutDown ==
    /\ running
    /\ plan' = ClearPending
    /\ StopScheduler
    /\ UNCHANGED <<policyVars, running, resets>>

-----------------------------------------------------------------------------
(***************************************************************************)
(* ButlerRuntime                                                           *)
(***************************************************************************)

\* A runtime that is running is not started again, not even its scheduler
\* after a shutdown message.
StartRuntime ==
    /\ ~running
    /\ running' = TRUE /\ StartScheduler
    /\ UNCHANGED <<plan, policyVars, resets>>

\* Requests are left pending, to their timers.
StopRuntime ==
    /\ running
    /\ running' = FALSE /\ StopScheduler
    /\ UNCHANGED <<plan, policyVars, resets>>

HostNext ==
    \/ \E p \in Plans :
        \/ \E n \in 0..MaxSteps : \E steps \in [1..n -> Steps] : Execute(p, steps)
        \/ PlanEnds(p) \/ Begin(p) \/ Continue(p) \/ HostAnswers(p) \/ TimesOut(p)
    \/ NewDate \/ ResetSession
    \/ ShutDown \/ StartRuntime \/ StopRuntime

HostSpec == HostInit /\ [][HostNext]_hostVars

-----------------------------------------------------------------------------
(***************************************************************************)
(* Properties                                                              *)
(***************************************************************************)

\* Plans whose step was allowed and may still be counted.
Uncounted == {p \in Plans : plan[p].stage \in {"pending", "ok"}}

\* The limits on actions, checked before a step and counted after it, are
\* overrun by less than the number of plans that run at once.
ActionsBounded ==
    /\ DailyCount + Cardinality(Uncounted) < MaxPerDay + Cardinality(Plans)
    /\ SessionCount + Cardinality(Uncounted) < MaxPerSession + Cardinality(Plans)

\* Every plan that has begun ends, whether or not the host answers, and
\* whatever shutdown, stop and start do to the runtime meanwhile.
PlansEnd == \A p \in Plans : plan[p].stage # "new" ~> plan[p].stage = "over"
=============================================================================
