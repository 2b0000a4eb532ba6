------------------------- MODULE ButlerRuntime_proofs -------------------------
(***************************************************************************)
(* Proofs about the Butler at run time: what its calls of models may cost, *)
(* what its plans may do, and what its cycles, which share one row and one *)
(* table of insights, may lose.                                            *)
(***************************************************************************)
EXTENDS ButlerCycle, Cognition, ButlerHost, DataInduction

(***************************************************************************)
(* For any number of calls that overlap, and any budgets, estimates and    *)
(* answers: the budgets are overrun by at most one answer of each call.    *)
(*                                                                         *)
(* A call that is asked found room for an estimate beside what had been    *)
(* charged; it adds at most its own answer to what those asked before it   *)
(* may still add.  A new day needs more: that a call was asked at all      *)
(* shows that the budget holds the cheapest estimate.                      *)
(***************************************************************************)
\* What is charged for today is what today's answers have reported.
Charged == spent = dailyTokens

\* Somebody asks only where the budgets hold the cheapest estimate.
Affordable == asked # {} => Cheapest <= DailyBudget /\ Cheapest <= SessionBudget

BudgetInv == CognitionTypeOK /\ Charged /\ Affordable /\ UsageBounded

USE CognitionAssumption

\* The tokens that k answers may report.
Answers(k) == k * MaxAnswer

LEMMA MoreAnswers ==
  ASSUME NEW k \in Nat
  PROVE  Answers(k) \in Nat /\ Answers(k + 1) = Answers(k) + MaxAnswer
  BY DEF Answers

LEMMA FewerAnswers ==
  ASSUME NEW j \in Nat, NEW k \in Nat, j <= k
  PROVE  Answers(j) <= Answers(k)
  <1>1. PICK d \in Nat : k = j + d
    <2>1. k - j \in Nat /\ k = j + (k - j)
      OBVIOUS
    <2> QED BY <2>1
  <1>2. k * MaxAnswer = j * MaxAnswer + d * MaxAnswer /\ d * MaxAnswer \in Nat /\ j * MaxAnswer \in Nat
    BY <1>1
  <1> QED BY <1>2 DEF Answers

\* The room that a budget with calls under way still has.
BudgetHolds(used, budget, under_way) ==
    used + Cheapest + Answers(Cardinality(under_way)) <= budget + Answers(Cardinality(Calls))

LEMMA WithinBudget == \A used, budget : Within(used, budget) <=> BudgetHolds(used, budget, asked)
  BY DEF Within, BudgetHolds, Answers

LEMMA CallCounts ==
  ASSUME NEW S \in SUBSET Calls
  PROVE  /\ IsFiniteSet(S) /\ Cardinality(S) \in Nat
         /\ Cardinality(S) <= Cardinality(Calls)
         /\ Cardinality(Calls) \in Nat /\ Cardinality(Calls) >= 1
  BY FS_Subset, FS_CardinalityType, FS_EmptySet

\* One call less makes room for one answer more.
LEMMA OneLess ==
  ASSUME NEW S \in SUBSET Calls, NEW c \in S, NEW used \in Nat, NEW tokens \in 0..MaxAnswer,
         NEW budget \in Nat, BudgetHolds(used, budget, S)
  PROVE  BudgetHolds(used + tokens, budget, S \ {c}) /\ BudgetHolds(used, budget, S \ {c})
  <1> DEFINE n == Cardinality(S \ {c})
  <1>1. S \ {c} \in SUBSET Calls
    OBVIOUS
  <1>2. n \in Nat /\ Cardinality(S) = n + 1
    BY <1>1, CallCounts, FS_RemoveElement
  <1>3. Answers(n) \in Nat /\ Answers(Cardinality(S)) = Answers(n) + MaxAnswer
    BY <1>2, MoreAnswers
  <1>4. Answers(Cardinality(Calls)) \in Nat
    BY <1>1, CallCounts, MoreAnswers
  <1> QED BY <1>3, <1>4 DEF BudgetHolds

\* A call that the budget affords fits beside those under way.
LEMMA OneMore ==
  ASSUME NEW S \in SUBSET Calls, NEW c \in Calls \ S, NEW used \in Nat,
         NEW budget \in Nat, used + Cheapest <= budget
  PROVE  BudgetHolds(used, budget, S \cup {c})
  <1>1. S \cup {c} \in SUBSET Calls
    OBVIOUS
  <1>2. Answers(Cardinality(S \cup {c})) <= Answers(Cardinality(Calls))
    BY <1>1, CallCounts, FewerAnswers
  <1>3. Answers(Cardinality(S \cup {c})) \in Nat /\ Answers(Cardinality(Calls)) \in Nat
    BY <1>1, CallCounts, MoreAnswers
  <1> QED BY <1>2, <1>3 DEF BudgetHolds

\* Nothing is used: what is under way fits, if anything was asked for.
LEMMA NothingUsed ==
  ASSUME NEW S \in SUBSET Calls, NEW budget \in Nat, S # {} => Cheapest <= budget
  PROVE  BudgetHolds(0, budget, S)
  <1>1. Cardinality(S) \in Nat /\ Cardinality(Calls) \in Nat
    BY CallCounts
  <1>2. Answers(Cardinality(S)) \in Nat /\ Answers(Cardinality(Calls)) \in Nat
    BY <1>1, MoreAnswers
  <1>3. CASE S = {}
    <2>1. Cardinality(S) = 0 /\ Answers(0) = 0
      BY <1>3, FS_EmptySet DEF Answers
    <2>2. Answers(1) <= Answers(Cardinality(Calls)) /\ Answers(1) = MaxAnswer
      BY CallCounts, FewerAnswers, <1>1 DEF Answers
    <2> QED BY <2>1, <2>2, <1>2 DEF BudgetHolds
  <1>4. CASE S # {}
    <2>1. Answers(Cardinality(S)) <= Answers(Cardinality(Calls))
      BY CallCounts, FewerAnswers
    <2> QED BY <1>2, <1>4, <2>1 DEF BudgetHolds
  <1> QED BY <1>3, <1>4

\* What does not change, or stops being under way, leaves the room there is.
LEMMA Dropped ==
  ASSUME NEW S \in SUBSET Calls, NEW used \in Nat, NEW budget \in Nat, BudgetHolds(used, budget, S)
  PROVE  BudgetHolds(used, budget, {})
  <1>1. Cardinality({}) = 0 /\ Answers(0) = 0
    BY FS_EmptySet DEF Answers
  <1>2. Answers(Cardinality(S)) \in Nat /\ Answers(Cardinality(Calls)) \in Nat
    BY CallCounts, MoreAnswers
  <1> QED BY <1>1, <1>2 DEF BudgetHolds

-----------------------------------------------------------------------------

LEMMA BudgetStart == CognitionInit => BudgetInv
  <1> SUFFICES ASSUME CognitionInit PROVE BudgetInv
    OBVIOUS
  <1>1. CognitionTypeOK
    BY DEF CognitionInit, CognitionTypeOK, Untested
  <1>2. Charged /\ Affordable
    BY DEF CognitionInit, Charged, Affordable
  <1>3. BudgetHolds(0, DailyBudget, {}) /\ BudgetHolds(0, SessionBudget, {})
    BY NothingUsed
  <1>4. UsageBounded
    BY <1>3, WithinBudget DEF CognitionInit, UsageBounded
  <1> QED BY <1>1, <1>2, <1>4 DEF BudgetInv

\* The bound in terms of what is charged.
LEMMA Bound ==
    /\ UsageBounded <=> BudgetHolds(spent, DailyBudget, asked) /\ BudgetHolds(sessionTokens, SessionBudget, asked)
    /\ UsageBounded' <=> BudgetHolds(spent', DailyBudget, asked') /\ BudgetHolds(sessionTokens', SessionBudget, asked')
  BY DEF UsageBounded, Within, BudgetHolds, Answers

LEMMA AskPreserves ==
  ASSUME BudgetInv, NEW c \in Calls, Ask(c)
  PROVE  BudgetInv'
  <1>1. CognitionTypeOK' /\ Charged'
    BY DEF BudgetInv, CognitionTypeOK, Charged, Ask
  <1>2. PICK e \in Estimates : dailyTokens + e <= DailyBudget /\ sessionTokens + e <= SessionBudget
    BY DEF Ask, CanAfford
  <1>3. /\ spent \in Nat /\ sessionTokens \in Nat /\ e \in Nat /\ Cheapest <= e
        /\ spent = dailyTokens /\ asked \in SUBSET Calls
    BY DEF BudgetInv, CognitionTypeOK, Charged
  <1>4. spent + Cheapest <= DailyBudget /\ sessionTokens + Cheapest <= SessionBudget
    BY <1>2, <1>3
  <1>5. Affordable'
    BY <1>3, <1>4 DEF Affordable
  <1>6. asked' = asked \cup {c} /\ c \notin asked /\ spent' = spent /\ sessionTokens' = sessionTokens
    BY DEF Ask
  <1>7. UsageBounded'
    BY <1>3, <1>4, <1>6, OneMore, Bound
  <1> QED BY <1>1, <1>5, <1>7 DEF BudgetInv

LEMMA AnswerPreserves ==
  ASSUME BudgetInv, NEW c \in Calls, NEW tokens \in 0..MaxAnswer, NEW read \in BOOLEAN, Answer(c, tokens, read)
  PROVE  BudgetInv'
  <1>1. /\ spent \in Nat /\ sessionTokens \in Nat /\ dailyTokens \in Nat /\ spent = dailyTokens
        /\ asked \in SUBSET Calls /\ tokens \in Nat
    BY DEF BudgetInv, CognitionTypeOK, Charged
  <1>2. /\ c \in asked /\ asked' = asked \ {c} /\ spent' = spent + tokens
        /\ dailyTokens' = dailyTokens + tokens /\ sessionTokens' \in {sessionTokens, sessionTokens + tokens}
        /\ readiness' = "ready" /\ UNCHANGED <<gateway, days>>
    BY DEF Answer, RecordInvocation
  <1>3. CognitionTypeOK' /\ Charged'
    BY <1>1, <1>2 DEF BudgetInv, CognitionTypeOK, Charged
  <1>4. Affordable'
    BY <1>2 DEF BudgetInv, Affordable
  <1>5. UsageBounded'
    BY ZenonT(30), <1>1, <1>2, OneLess, Bound DEF BudgetInv
  <1> QED BY <1>3, <1>4, <1>5 DEF BudgetInv

LEMMA FailPreserves ==
  ASSUME BudgetInv, NEW c \in Calls, Fail(c)
  PROVE  BudgetInv'
  <1>1. /\ spent \in Nat /\ sessionTokens \in Nat /\ asked \in SUBSET Calls
        /\ c \in asked /\ asked' = asked \ {c} /\ UNCHANGED <<gateway, dailyTokens, sessionTokens, spent, days>>
    BY DEF BudgetInv, CognitionTypeOK, Fail
  <1>2. readiness' \in {"untested", "ready", "unavailable"}
    BY DEF BudgetInv, CognitionTypeOK, Fail, ReadinessAfter
  <1>3. CognitionTypeOK' /\ Charged' /\ Affordable'
    BY <1>1, <1>2 DEF BudgetInv, CognitionTypeOK, Charged, Affordable
  <1>4. 0 \in 0..MaxAnswer
    OBVIOUS
  <1>5. UsageBounded'
    BY <1>1, <1>4, OneLess, Bound DEF BudgetInv
  <1> QED BY <1>3, <1>5 DEF BudgetInv

LEMMA NewDayPreserves == BudgetInv /\ NewDay => BudgetInv'
  <1> SUFFICES ASSUME BudgetInv, NewDay PROVE BudgetInv'
    OBVIOUS
  <1>1. CognitionTypeOK' /\ Charged' /\ Affordable'
    BY DEF BudgetInv, CognitionTypeOK, Charged, Affordable, NewDay
  <1>2. /\ asked \in SUBSET Calls /\ (asked # {} => Cheapest <= DailyBudget)
        /\ spent' = 0 /\ asked' = asked /\ sessionTokens' = sessionTokens
    BY DEF BudgetInv, CognitionTypeOK, Affordable, NewDay
  <1>3. UsageBounded'
    BY <1>2, NothingUsed, Bound DEF BudgetInv
  <1> QED BY <1>1, <1>3 DEF BudgetInv

LEMMA RestartPreserves == BudgetInv /\ RestartCognition => BudgetInv'
  <1> SUFFICES ASSUME BudgetInv, RestartCognition PROVE BudgetInv'
    OBVIOUS
  <1>1. CognitionTypeOK' /\ Charged' /\ Affordable'
    BY DEF BudgetInv, CognitionTypeOK, Charged, Affordable, RestartCognition, Untested
  <1>2. /\ asked \in SUBSET Calls /\ spent \in Nat
        /\ spent' = spent /\ asked' = {} /\ sessionTokens' = 0
    BY DEF BudgetInv, CognitionTypeOK, RestartCognition
  <1>3. UsageBounded'
    BY <1>2, NothingUsed, Dropped, Bound DEF BudgetInv
  <1> QED BY <1>1, <1>3 DEF BudgetInv

LEMMA BudgetStep == BudgetInv /\ [CognitionNext]_cognitionVars => BudgetInv'
  <1> SUFFICES ASSUME BudgetInv, [CognitionNext]_cognitionVars PROVE BudgetInv'
    OBVIOUS
  <1>1. ASSUME NEW c \in Calls, Ask(c) PROVE BudgetInv'
    BY <1>1, AskPreserves
  <1>2. ASSUME NEW c \in Calls, Fail(c) PROVE BudgetInv'
    BY <1>2, FailPreserves
  <1>3. ASSUME NEW c \in Calls, NEW tokens \in 0..MaxAnswer, NEW read \in BOOLEAN, Answer(c, tokens, read)
        PROVE  BudgetInv'
    BY <1>3, AnswerPreserves
  <1>4. CASE NewDay
    BY <1>4, NewDayPreserves
  <1>5. CASE RestartCognition
    BY <1>5, RestartPreserves
  <1>6. CASE UNCHANGED cognitionVars
    BY <1>6 DEF cognitionVars, BudgetInv, CognitionTypeOK, Charged, Affordable, UsageBounded, Within
  <1> QED BY <1>1, <1>2, <1>3, <1>4, <1>5, <1>6 DEF CognitionNext

\* What today's answers have cost, and what the session was charged, exceed
\* the budgets by less than one answer of each call that may overlap, for any
\* number of calls, days and restarts.
THEOREM BudgetsHold == CognitionSpec => []UsageBounded
  <1>1. BudgetInv => UsageBounded
    BY DEF BudgetInv
  <1> QED BY <1>1, BudgetStart, BudgetStep, PTL DEF CognitionSpec

HIDE CognitionAssumption

-----------------------------------------------------------------------------
(***************************************************************************)
(* For any number of plans that run at once, of any steps: the limits on   *)
(* actions are overrun by less than the number of plans.                   *)
(*                                                                         *)
(* A step that is allowed joins the plans whose step is not yet counted,   *)
(* of which there are never more than plans; from then on its plan leaves  *)
(* them either by being counted or by failing.                             *)
(***************************************************************************)
\* A step that is under way is the first of those left.
StepUnderWay == \A p \in Plans : plan[p].stage \in {"pending", "ok", "failed"} => plan[p].todo # <<>>

LimitInv == HostTypeOK /\ StepUnderWay /\ ActionsBounded

\* A limit with these plans uncounted.
LimitHolds(count, limit, uncounted) == count + Cardinality(uncounted) < limit + Cardinality(Plans)

USE HostAssumption

LEMMA PlanCounts ==
  ASSUME NEW S \in SUBSET Plans
  PROVE  /\ IsFiniteSet(S) /\ Cardinality(S) \in Nat
         /\ Cardinality(S) <= Cardinality(Plans)
         /\ Cardinality(Plans) \in Nat /\ Cardinality(Plans) >= 1
  BY FS_Subset, FS_CardinalityType, FS_EmptySet

LEMMA SomeUncounted ==
    /\ Uncounted \in SUBSET Plans /\ Uncounted' \in SUBSET Plans
    /\ ActionsBounded <=> LimitHolds(DailyCount, MaxPerDay, Uncounted) /\ LimitHolds(SessionCount, MaxPerSession, Uncounted)
    /\ ActionsBounded' <=> /\ LimitHolds(DailyCount', MaxPerDay, Uncounted')
                           /\ LimitHolds(SessionCount', MaxPerSession, Uncounted')
  BY DEF Uncounted, ActionsBounded, LimitHolds

LEMMA CountTypes == HostTypeOK => DailyCount \in Nat /\ SessionCount \in Nat
  BY DEF HostTypeOK, DailyCount, SessionCount

\* Below its limit a count admits any plans.
LEMMA BelowLimit ==
  ASSUME NEW count \in Nat, NEW limit \in Nat, count < limit, NEW S \in SUBSET Plans
  PROVE  LimitHolds(count, limit, S)
  BY PlanCounts DEF LimitHolds

\* Plans leave without being counted.
LEMMA SomeLeave ==
  ASSUME NEW count \in Nat, NEW limit \in Nat, NEW S \in SUBSET Plans, NEW R \in SUBSET S, LimitHolds(count, limit, S)
  PROVE  LimitHolds(count, limit, R)
  <1>1. IsFiniteSet(S) /\ R \in SUBSET Plans
    BY PlanCounts
  <1>2. Cardinality(R) <= Cardinality(S)
    BY <1>1, FS_Subset
  <1>3. Cardinality(R) \in Nat /\ Cardinality(S) \in Nat /\ Cardinality(Plans) \in Nat
    BY <1>1, PlanCounts
  <1> QED BY <1>2, <1>3 DEF LimitHolds

\* One leaves and is counted.
LEMMA OneCounted ==
  ASSUME NEW count \in Nat, NEW limit \in Nat, NEW S \in SUBSET Plans, NEW p \in S, LimitHolds(count, limit, S)
  PROVE  LimitHolds(count + 1, limit, S \ {p})
  <1>1. IsFiniteSet(S) /\ Cardinality(S) \in Nat /\ Cardinality(Plans) \in Nat
    BY PlanCounts
  <1>2. Cardinality(S \ {p}) = Cardinality(S) - 1
    BY <1>1, FS_RemoveElement
  <1> QED BY <1>1, <1>2 DEF LimitHolds

\* What a handler that counts nothing keeps.
LEMMA CountsKept ==
  ASSUME HostTypeOK, ActionsBounded, UNCHANGED policyVars, Uncounted' \subseteq Uncounted
  PROVE  ActionsBounded'
  <1>1. DailyCount' = DailyCount /\ SessionCount' = SessionCount
    BY DEF policyVars, DailyCount, SessionCount
  <1> QED BY <1>1, SomeUncounted, CountTypes, SomeLeave

-----------------------------------------------------------------------------

\* A plan as the type describes it.
Plan == [stage : Stages, todo : Seq(Steps)]

LEMMA PlanType ==
  ASSUME HostTypeOK, NEW p \in Plans
  PROVE  /\ plan[p] \in Plan /\ plan[p].stage \in Stages /\ plan[p].todo \in Seq(Steps)
         /\ Len(plan[p].todo) <= MaxSteps
  BY DEF HostTypeOK, Plan

\* A handler that moves one plan and no more.
LEMMA OneMoves ==
  ASSUME HostTypeOK, StepUnderWay, NEW p \in Plans, NEW new \in Plan, Len(new.todo) <= MaxSteps,
         new.stage \in {"pending", "ok", "failed"} => new.todo # <<>>,
         plan' = [plan EXCEPT ![p] = new]
  PROVE  /\ plan' \in [Plans -> Plan] /\ StepUnderWay'
         /\ \A q \in Plans : Len(plan'[q].todo) <= MaxSteps
         /\ Uncounted' = IF new.stage \in {"pending", "ok"} THEN Uncounted \cup {p} ELSE Uncounted \ {p}
  BY DEF HostTypeOK, Plan, Uncounted, StepUnderWay

LEMMA Tails ==
  ASSUME NEW s \in Seq(Steps), Len(s) <= MaxSteps
  PROVE  s # <<>> => Tail(s) \in Seq(Steps) /\ Len(Tail(s)) <= MaxSteps
  <1> SUFFICES ASSUME s # <<>> PROVE Tail(s) \in Seq(Steps) /\ Len(Tail(s)) <= MaxSteps
    OBVIOUS
  <1>1. Tail(s) \in Seq(Steps) /\ Len(Tail(s)) = Len(s) - 1
    BY HeadTailProperties, Zenon
  <1>2. Len(s) \in Nat
    OBVIOUS
  <1> QED BY <1>1, <1>2

LEMMA LimitStart == HostInit => LimitInv
  <1> SUFFICES ASSUME HostInit PROVE LimitInv
    OBVIOUS
  <1>1. HostTypeOK
    <2> DEFINE nothing == [stage |-> "new", todo |-> <<>>]
    <2>1. <<>> \in Seq(Steps) /\ Len(<<>>) = 0
      OBVIOUS
    <2>2. nothing \in [stage : Stages, todo : Seq(Steps)] /\ Len(nothing.todo) <= MaxSteps
      BY <2>1 DEF Stages
    <2>3. plan = [p \in Plans |-> nothing]
      BY DEF HostInit
    <2>4. plan \in [Plans -> [stage : Stages, todo : Seq(Steps)]]
      BY <2>2, <2>3, Zenon
    <2>5. \A p \in Plans : Len(plan[p].todo) <= MaxSteps
      BY <2>2, <2>3
    <2>6. daily = 0 /\ session = 0 /\ resets = 0
      BY DEF HostInit
    <2>7. stale \in BOOLEAN /\ running \in BOOLEAN /\ ticking \in BOOLEAN
      BY Zenon DEF HostInit
    <2>8. daily \in Nat /\ session \in Nat /\ resets \in 0..MaxResets
      BY <2>6, HostAssumption
    <2> QED BY <2>4, <2>5, <2>7, <2>8, Zenon DEF HostTypeOK
  <1>2. DailyCount = 0 /\ SessionCount = 0
    BY DEF HostInit, DailyCount, SessionCount
  <1>3. ActionsBounded
    BY <1>2, SomeUncounted, BelowLimit
  <1>4. StepUnderWay
    BY DEF HostInit, StepUnderWay
  <1> QED BY <1>1, <1>3, <1>4 DEF LimitInv

LEMMA ExecutePreserves ==
  ASSUME LimitInv, NEW p \in Plans, NEW n \in 0..MaxSteps, NEW steps \in [1..n -> Steps], Execute(p, steps)
  PROVE  LimitInv'
  <1> DEFINE new == [stage |-> "next", todo |-> steps]
  <1>1. steps \in Seq(Steps) /\ Len(steps) = n
    OBVIOUS
  <1>2. new \in Plan /\ Len(new.todo) <= MaxSteps /\ new.stage = "next"
    BY <1>1 DEF Plan, Stages
  <1>3. plan' = [plan EXCEPT ![p] = new] /\ UNCHANGED <<policyVars, runtimeVars, resets>>
    BY DEF Execute
  <1>4. HostTypeOK' /\ StepUnderWay'
    BY <1>2, <1>3, OneMoves DEF LimitInv, HostTypeOK, policyVars, runtimeVars, Plan
  <1>5. Uncounted' \subseteq Uncounted
    BY <1>2, <1>3, OneMoves DEF LimitInv
  <1> QED BY <1>3, <1>4, <1>5, CountsKept DEF LimitInv

\* A plan changes its stage, to one that is not counted later unless it was so.
LEMMA StagePreserves ==
  ASSUME LimitInv, NEW p \in Plans, NEW stage \in Stages, Goes(p, stage), plan[p].todo # <<>> \/ stage = "over",
         stage \in {"pending", "ok"} => p \in Uncounted,
         UNCHANGED <<policyVars, runtimeVars, resets>>
  PROVE  LimitInv'
  <1> DEFINE new == [plan[p] EXCEPT !.stage = stage]
  <1>1. new \in Plan /\ Len(new.todo) <= MaxSteps /\ new.stage = stage
    BY PlanType DEF LimitInv, Plan
  <1>2. plan' = [plan EXCEPT ![p] = new]
    BY DEF Goes
  <1>3. HostTypeOK' /\ StepUnderWay'
    BY <1>1, <1>2, OneMoves DEF LimitInv, HostTypeOK, policyVars, runtimeVars, Plan
  <1>4. Uncounted' \subseteq Uncounted
    <2>1. Uncounted' = IF stage \in {"pending", "ok"} THEN Uncounted \cup {p} ELSE Uncounted \ {p}
      <3>1. new.stage \in {"pending", "ok", "failed"} => new.todo # <<>>
        BY <1>1 DEF LimitInv, HostTypeOK
      <3> QED BY <1>1, <1>2, <3>1, OneMoves DEF LimitInv
    <2> QED BY <2>1
  <1> QED BY <1>3, <1>4, CountsKept DEF LimitInv

LEMMA BeginPreserves ==
  ASSUME LimitInv, NEW p \in Plans, Begin(p)
  PROVE  LimitInv'
  <1>1. /\ plan[p].stage = "next" /\ plan[p].todo # <<>> /\ UNCHANGED <<runtimeVars, resets>>
        /\ daily' = DailyCount /\ session' = SessionCount /\ stale' = FALSE
    BY DEF Begin, Stands, Checked
  <1>2. DailyCount' = DailyCount /\ SessionCount' = SessionCount
    BY <1>1 DEF DailyCount, SessionCount
  <1>3. DailyCount \in Nat /\ SessionCount \in Nat
    BY CountTypes DEF LimitInv
  <1>4. CASE CanExecute(Step(p))
    <2>1. PICK stage \in {"pending", "ok", "failed"} : Goes(p, stage)
      BY <1>4 DEF Begin
    <2> DEFINE new == [plan[p] EXCEPT !.stage = stage]
    <2>2. new \in Plan /\ Len(new.todo) <= MaxSteps /\ plan' = [plan EXCEPT ![p] = new]
      BY <2>1, PlanType DEF LimitInv, Plan, Goes, Stages
    <2>3. HostTypeOK' /\ StepUnderWay'
      BY <1>1, <1>3, <2>2, OneMoves DEF LimitInv, HostTypeOK, runtimeVars, Plan
    <2>4. DailyCount < MaxPerDay /\ SessionCount < MaxPerSession
      BY <1>4 DEF CanExecute
    <2>5. ActionsBounded'
      BY <1>2, <1>3, <2>4, SomeUncounted, BelowLimit
    <2> QED BY <2>3, <2>5 DEF LimitInv
  <1>5. CASE ~CanExecute(Step(p))
    <2> DEFINE new == [plan[p] EXCEPT !.todo = Tail(@)]
    <2>1. plan' = [plan EXCEPT ![p] = new]
      BY <1>5 DEF Begin
    <2>2. new \in Plan /\ Len(new.todo) <= MaxSteps /\ new.stage = "next"
      BY <1>1, PlanType, Tails DEF LimitInv, Plan
    <2>3. HostTypeOK' /\ StepUnderWay'
      BY <1>1, <1>3, <2>1, <2>2, OneMoves DEF LimitInv, HostTypeOK, runtimeVars, Plan
    <2>4. Uncounted' \subseteq Uncounted
      BY <2>1, <2>2, OneMoves DEF LimitInv
    <2>5. ActionsBounded'
      BY <1>2, <1>3, <2>4, SomeUncounted, SomeLeave DEF LimitInv
    <2> QED BY <2>3, <2>5 DEF LimitInv
  <1> QED BY <1>4, <1>5

LEMMA ContinuePreserves ==
  ASSUME LimitInv, NEW p \in Plans, Continue(p)
  PROVE  LimitInv'
  <1> DEFINE new == [stage |-> "next", todo |-> Tail(plan[p].todo)]
  <1>1. plan' = [plan EXCEPT ![p] = new] /\ UNCHANGED <<runtimeVars, resets>>
    BY DEF Continue
  <1>2. new \in Plan /\ Len(new.todo) <= MaxSteps /\ new.stage = "next"
    <2>1. plan[p].todo # <<>>
      BY DEF LimitInv, StepUnderWay, Continue, Stands
    <2> QED BY <2>1, PlanType, Tails DEF LimitInv, Plan, Stages
  <1>3. Uncounted' = Uncounted \ {p}
    BY <1>1, <1>2, OneMoves DEF LimitInv
  <1>4. DailyCount \in Nat /\ SessionCount \in Nat
    BY CountTypes DEF LimitInv
  <1>5. CASE plan[p].stage = "ok"
    <2>1. daily' = DailyCount + 1 /\ session' = SessionCount + 1 /\ stale' = FALSE
      BY <1>5 DEF Continue, Stands, RecordAction
    <2> daily' \in Nat /\ session' \in Nat
      BY <1>4, <2>1
    <2>2. HostTypeOK' /\ StepUnderWay'
      BY <1>1, <1>2, <2>1, OneMoves DEF LimitInv, HostTypeOK, runtimeVars, Plan
    <2>3. DailyCount' = DailyCount + 1 /\ SessionCount' = SessionCount + 1
      BY <2>1 DEF DailyCount, SessionCount
    <2>4. p \in Uncounted
      BY <1>5 DEF Uncounted
    <2>5. ActionsBounded'
      BY <1>3, <1>4, <2>3, <2>4, SomeUncounted, OneCounted DEF LimitInv
    <2> QED BY <2>2, <2>5 DEF LimitInv
  <1>6. CASE plan[p].stage # "ok"
    <2>1. UNCHANGED policyVars
      BY <1>6 DEF Continue, Stands
    <2>2. HostTypeOK' /\ StepUnderWay'
      BY <1>1, <1>2, <2>1, OneMoves DEF LimitInv, HostTypeOK, runtimeVars, policyVars, Plan
    <2>3. ActionsBounded'
      BY <1>3, <2>1, CountsKept DEF LimitInv
    <2> QED BY <2>2, <2>3 DEF LimitInv
  <1> QED BY <1>5, <1>6

LEMMA LimitStep == LimitInv /\ [HostNext]_hostVars => LimitInv'
  <1> SUFFICES ASSUME LimitInv, [HostNext]_hostVars PROVE LimitInv'
    OBVIOUS
  <1>1. ASSUME NEW p \in Plans, NEW n \in 0..MaxSteps, NEW steps \in [1..n -> Steps], Execute(p, steps)
        PROVE  LimitInv'
    BY <1>1, ExecutePreserves
  <1>2. ASSUME NEW p \in Plans, PlanEnds(p) PROVE LimitInv'
    BY <1>2, StagePreserves DEF PlanEnds, Stages
  <1>3. ASSUME NEW p \in Plans, Begin(p) PROVE LimitInv'
    BY <1>3, BeginPreserves
  <1>4. ASSUME NEW p \in Plans, Continue(p) PROVE LimitInv'
    BY <1>4, ContinuePreserves
  <1>5. ASSUME NEW p \in Plans, NEW stage \in {"ok", "failed"}, Stands(p, "pending"), Goes(p, stage),
               UNCHANGED <<policyVars, runtimeVars, resets>>
        PROVE  LimitInv'
    <2>1. plan[p].todo # <<>> /\ p \in Uncounted
      BY <1>5 DEF LimitInv, StepUnderWay, Uncounted, Stands
    <2> QED BY <1>5, <2>1, StagePreserves DEF Stages
  <1>6. ASSUME NEW p \in Plans, HostAnswers(p) \/ TimesOut(p) PROVE LimitInv'
    <2>1. \E stage \in {"ok", "failed"} : Goes(p, stage)
      BY <1>6 DEF HostAnswers, TimesOut, Unanswered
    <2> QED BY <1>5, <1>6, <2>1 DEF HostAnswers, TimesOut
  <1>7. CASE NewDate
    <2>1. DailyCount' = 0 /\ SessionCount' = 0 /\ plan' = plan
      BY <1>7 DEF NewDate, DailyCount, SessionCount
    <2>2. HostTypeOK' /\ StepUnderWay'
      BY <1>7 DEF NewDate, LimitInv, HostTypeOK, StepUnderWay, runtimeVars
    <2> QED BY <2>1, <2>2, SomeUncounted, BelowLimit DEF LimitInv
  <1>8. CASE ResetSession
    <2>1. /\ DailyCount' = DailyCount /\ SessionCount' = 0 /\ Uncounted' = Uncounted
      BY <1>8 DEF ResetSession, DailyCount, SessionCount, Uncounted
    <2>2. HostTypeOK' /\ StepUnderWay'
      BY <1>8 DEF ResetSession, LimitInv, HostTypeOK, StepUnderWay, runtimeVars
    <2>3. LimitHolds(DailyCount, MaxPerDay, Uncounted) /\ LimitHolds(0, MaxPerSession, Uncounted)
      BY SomeUncounted, BelowLimit DEF LimitInv
    <2>4. ActionsBounded'
      BY <2>1, <2>3, SomeUncounted
    <2> QED BY <2>2, <2>4 DEF LimitInv
  <1>9. CASE ShutDown
    <2>1. plan' = ClearPending /\ UNCHANGED <<policyVars, running, resets>> /\ ticking' = FALSE
      BY <1>9 DEF ShutDown, StopScheduler
    <2>2. ASSUME NEW p \in Plans
          PROVE  /\ plan'[p] \in Plan /\ plan'[p].todo = plan[p].todo
                 /\ plan'[p].stage \in {"pending", "ok", "failed"} => plan[p].stage \in {"pending", "ok", "failed"}
                 /\ plan'[p].stage \in {"pending", "ok"} => plan[p].stage \in {"pending", "ok"}
      BY <2>1, <2>2, PlanType DEF LimitInv, ClearPending, Pending, Stands, Unanswered, Plan, Stages
    <2>3. plan' \in [Plans -> Plan]
      BY <2>1, <2>2 DEF ClearPending
    <2>4. HostTypeOK' /\ StepUnderWay'
      BY <2>1, <2>2, <2>3 DEF LimitInv, HostTypeOK, StepUnderWay, Plan, policyVars
    <2>5. Uncounted' \subseteq Uncounted
      BY <2>2 DEF Uncounted
    <2> QED BY <2>1, <2>4, <2>5, CountsKept DEF LimitInv
  <1>10. CASE StartRuntime \/ StopRuntime \/ UNCHANGED hostVars
    <2>1. UNCHANGED <<plan, policyVars, resets>> /\ running' \in BOOLEAN /\ ticking' \in BOOLEAN
      BY <1>10 DEF StartRuntime, StopRuntime, StartScheduler, StopScheduler, hostVars, runtimeVars, LimitInv, HostTypeOK
    <2>2. HostTypeOK' /\ StepUnderWay' /\ Uncounted' \subseteq Uncounted
      BY <2>1 DEF LimitInv, HostTypeOK, StepUnderWay, Uncounted, policyVars
    <2> QED BY <2>1, <2>2, CountsKept DEF LimitInv
  <1> QED BY <1>1, <1>2, <1>3, <1>4, <1>6, <1>7, <1>8, <1>9, <1>10 DEF HostNext

\* However many plans run at once, through new days and sessions, answers,
\* timeouts and shutdowns: the actions of a day and of a session exceed their
\* limits by less than the number of plans.
THEOREM LimitsHold == HostSpec => []ActionsBounded
  <1>1. LimitInv => ActionsBounded
    BY DEF LimitInv
  <1> QED BY <1>1, LimitStart, LimitStep, PTL DEF HostSpec

HIDE HostAssumption

-----------------------------------------------------------------------------
(***************************************************************************)
(* What cycles that do not overlap may lose, and what is dismissed, for    *)
(* any number of cycles, sessions, memories, insights and reviews.         *)
(*                                                                         *)
(* First the tables by themselves: an insight whose last review dismissed  *)
(* it has that review as the latest of those about it, for pruning takes   *)
(* away snoozes only; and goals are derived for insights without an active *)
(* one, each once.                                                         *)
(***************************************************************************)
USE InsightsAssumption

\* A dismissal that was the last word is the latest review.
DismissalsLatest ==
    \A i \in 1..MaxInsights : verdict[i] = "dismissed" =>
        \E n \in About(i) : feedback[n].action = "dismissed" /\ \A k \in About(i) : k <= n

InsightsInv == InsightsTypeOK /\ DismissalsLatest /\ OneGoalEach

Table(rows) == rows \in Seq(Row) /\ Len(rows) <= MaxInsights

\* A change of the table that adds no commitment and brings none back.
Quiet(rows) ==
    /\ Table(rows)
    /\ \A i \in DOMAIN rows : rows[i].kind = "commitment" =>
          /\ i \in DOMAIN insight /\ insight[i].kind = "commitment"
          /\ rows[i].about = insight[i].about
          /\ rows[i].life # "deleted" => insight[i].life # "deleted"

\* The memories that have an insight, read or not.
Referred == CommitmentRefs(FindByKind("commitment"))

\* What a step grants to the cycles.
QuietStep ==
    /\ OneInsightEach => OneInsightEach'
    /\ Referred' \subseteq Referred
    /\ AcceptanceStats' = AcceptanceStats

LEMMA QuietRows ==
    ASSUME Quiet(insight'), AcceptanceStats' = AcceptanceStats
    PROVE  QuietStep
  <1>1. \A i \in FindByKind("commitment")' :
          i \in FindByKind("commitment") /\ insight'[i].about = insight[i].about
    BY DEF Quiet, FindByKind, Stored
  <1>2. OneInsightEach => OneInsightEach' BY <1>1 DEF OneInsightEach
  <1>3. Referred' \subseteq Referred BY <1>1 DEF Referred, CommitmentRefs
  <1>4. QED BY <1>2, <1>3 DEF QuietStep

LEMMA TableTyped ==
    ASSUME InsightsInv
    PROVE  /\ insight \in Seq(Row) /\ Len(insight) \in Nat /\ Len(insight) <= MaxInsights
           /\ DOMAIN insight = 1..Len(insight) /\ DOMAIN insight \subseteq 1..MaxInsights
           /\ \A i \in DOMAIN insight : insight[i] \in Row
  <1>1. insight \in Seq(Row) /\ Len(insight) <= MaxInsights
    BY DEF InsightsInv, InsightsTypeOK
  <1>2. Len(insight) \in Nat /\ DOMAIN insight = 1..Len(insight) BY <1>1
  <1>3. \A i \in DOMAIN insight : insight[i] \in Row BY <1>1
  <1>4. QED BY <1>1, <1>2, <1>3

\* Rows that are changed in place, each for itself.
LEMMA RowsInPlace ==
    ASSUME InsightsInv, NEW rows, rows = [i \in DOMAIN insight |-> rows[i]],
           \A i \in DOMAIN insight :
             /\ rows[i] \in Row /\ rows[i].kind = insight[i].kind /\ rows[i].about = insight[i].about
             /\ rows[i].life # "deleted" => insight[i].life # "deleted"
    PROVE  Quiet(rows) /\ Len(rows) = Len(insight)
  <1>1. DOMAIN insight = 1..Len(insight) /\ Len(insight) \in Nat /\ Len(insight) <= MaxInsights
    BY TableTyped
  <1>2. rows \in [1..Len(insight) -> Row] BY <1>1
  <1>3. rows \in Seq(Row) /\ Len(rows) = Len(insight) /\ DOMAIN rows = DOMAIN insight BY <1>1, <1>2
  <1>4. QED BY <1>1, <1>3 DEF Quiet, Table

LEMMA ExpiredDeleted ==
    ASSUME InsightsInv
    PROVE  Quiet(DeleteExpired(insight))
  <1> DEFINE rows == DeleteExpired(insight)
  <1>1. rows = [i \in DOMAIN insight |-> rows[i]] BY DEF DeleteExpired
  <1>2. ASSUME NEW i \in DOMAIN insight
        PROVE  /\ rows[i] \in Row /\ rows[i].kind = insight[i].kind /\ rows[i].about = insight[i].about
               /\ rows[i].life # "deleted" => insight[i].life # "deleted"
    <2>1. insight[i] \in Row BY TableTyped
    <2>2. rows[i] = IF insight[i].life = "expired" THEN [insight[i] EXCEPT !.life = "deleted"] ELSE insight[i]
      BY DEF DeleteExpired
    <2>3. QED BY <2>1, <2>2 DEF Row
  <1> HIDE DEF rows
  <1>3. Quiet(rows) BY <1>1, <1>2, RowsInPlace
  <1>4. QED BY <1>3 DEF rows

LEMMA SurfacedMarked ==
    ASSUME InsightsInv, NEW ids
    PROVE  Quiet(MarkSurfaced(insight, ids)) /\ Len(MarkSurfaced(insight, ids)) = Len(insight)
  <1> DEFINE rows == MarkSurfaced(insight, ids)
  <1>1. rows = [i \in DOMAIN insight |-> rows[i]] BY DEF MarkSurfaced
  <1>2. ASSUME NEW i \in DOMAIN insight
        PROVE  /\ rows[i] \in Row /\ rows[i].kind = insight[i].kind /\ rows[i].about = insight[i].about
               /\ rows[i].life # "deleted" => insight[i].life # "deleted"
    <2>1. insight[i] \in Row BY TableTyped
    <2>2. rows[i] = [insight[i] EXCEPT !.cooling = insight[i].cooling \/ i \in ids]
      BY DEF MarkSurfaced
    <2>3. (insight[i].cooling \/ i \in ids) \in BOOLEAN BY <2>1 DEF Row
    <2>4. QED BY <2>1, <2>2, <2>3 DEF Row
  <1> HIDE DEF rows
  <1>3. Quiet(rows) /\ Len(rows) = Len(insight) BY <1>1, <1>2, RowsInPlace
  <1>4. QED BY <1>3 DEF rows

\* Rows that are no commitments are appended.
LEMMA RowsAppended ==
    ASSUME InsightsInv, NEW rows, Quiet(rows), Len(rows) = Len(insight), NEW more \in Seq(Row), Room(Len(more)),
           \A n \in DOMAIN more : more[n].kind # "commitment"
    PROVE  Quiet(rows \o more)
  <1>1. rows \in Seq(Row) /\ Len(rows) \in Nat /\ Len(more) \in Nat BY DEF Quiet, Table
  <1>2. rows \o more \in Seq(Row) /\ Len(rows \o more) = Len(rows) + Len(more) BY <1>1
  <1>3. ASSUME NEW i \in DOMAIN (rows \o more), (rows \o more)[i].kind = "commitment"
        PROVE  i \in DOMAIN rows /\ (rows \o more)[i] = rows[i]
    <2>1. i \in 1..(Len(rows) + Len(more)) BY <1>2
    <2>2. CASE i <= Len(rows) BY <1>1, <2>1, <2>2
    <2>3. CASE i > Len(rows)
      <3>1. i - Len(rows) \in DOMAIN more /\ (rows \o more)[i] = more[i - Len(rows)]
        BY <1>1, <2>1, <2>3
      <3>2. QED BY <1>3, <3>1
    <2>4. QED BY <1>1, <2>1, <2>2, <2>3
  <1>4. Table(rows \o more) BY <1>2 DEF Table, Room
  <1> HIDE DEF Room
  <1>5. QED BY <1>3, <1>4 DEF Quiet

LEMMA TableStep ==
    ASSUME InsightsInv, Table(insight'), UNCHANGED <<goals, feedback, verdict, shown>>
    PROVE  InsightsInv' /\ AcceptanceStats' = AcceptanceStats
  <1>1. InsightsTypeOK' BY DEF InsightsInv, InsightsTypeOK, Table
  <1>2. DismissalsLatest' BY DEF InsightsInv, DismissalsLatest, About
  <1>3. OneGoalEach' BY DEF InsightsInv, OneGoalEach
  <1>4. AcceptanceStats' = AcceptanceStats BY DEF AcceptanceStats, Count
  <1>5. QED BY <1>1, <1>2, <1>3, <1>4 DEF InsightsInv

LEMMA QuietTableStep ==
    ASSUME InsightsInv, Quiet(insight'), UNCHANGED <<goals, feedback, verdict, shown>>
    PROVE  InsightsInv' /\ QuietStep
  BY TableStep, QuietRows DEF Quiet

LEMMA UnchangedStep ==
    ASSUME InsightsInv, UNCHANGED insightVars
    PROVE  InsightsInv' /\ QuietStep
  <1>1. insight' = insight /\ UNCHANGED <<goals, feedback, verdict, shown>> BY DEF insightVars
  <1>2. insight = [i \in DOMAIN insight |-> insight[i]] BY TableTyped
  <1>3. Quiet(insight) BY <1>2, TableTyped DEF Quiet, Table
  <1>4. Quiet(insight') BY <1>1, <1>3
  <1>5. QED BY <1>1, <1>4, QuietTableStep

\* Only the goals change.
LEMMA GoalsStep ==
    ASSUME InsightsInv, UNCHANGED <<insight, feedback, verdict, shown>>,
           goals' \in Seq(Goal),
           Len(goals') <= MaxGoals, OneGoalEach'
    PROVE  InsightsInv' /\ QuietStep
  <1>1. InsightsTypeOK' BY DEF InsightsInv, InsightsTypeOK
  <1>2. DismissalsLatest' BY DEF InsightsInv, DismissalsLatest, About
  <1>3. QuietStep
    BY DEF QuietStep, OneInsightEach, Referred, CommitmentRefs, FindByKind, Stored, AcceptanceStats, Count
  <1>4. QED BY <1>1, <1>2, <1>3 DEF InsightsInv

LEMMA GoalsTyped ==
    ASSUME InsightsInv
    PROVE  /\ goals \in Seq(Goal)
           /\ Len(goals) \in Nat /\ Len(goals) <= MaxGoals /\ DOMAIN goals = 1..Len(goals)
           /\ \A g \in DOMAIN goals :
                goals[g].from \in 1..MaxInsights /\ goals[g].status \in {"active", "completed"}
  <1>1. goals \in Seq(Goal) /\ Len(goals) <= MaxGoals
    BY DEF InsightsInv, InsightsTypeOK
  <1>2. \A g \in DOMAIN goals : goals[g] \in Goal BY <1>1
  <1>3. \A g \in DOMAIN goals :
          goals[g].from \in 1..MaxInsights /\ goals[g].status \in {"active", "completed"}
    BY <1>2 DEF Goal
  <1>4. Len(goals) \in Nat /\ DOMAIN goals = 1..Len(goals) BY <1>1
  <1>5. QED BY <1>1, <1>3, <1>4

LEMMA DeriveStep ==
    ASSUME InsightsInv, DeriveGoals, UNCHANGED <<insight, feedback, verdict, shown>>
    PROVE  InsightsInv' /\ QuietStep
  <1>0. PICK candidates \in Derivable :
          /\ Len(goals) + Cardinality(candidates) <= MaxGoals
          /\ \E new \in [1..Cardinality(candidates) -> candidates] :
              /\ \A a, b \in DOMAIN new : a < b => new[a] < new[b]
              /\ goals' = goals \o [k \in DOMAIN new |-> NewGoal(new[k])]
    BY DEF DeriveGoals
  <1> DEFINE n == Cardinality(candidates)
  <1>1. PICK new \in [1..n -> candidates] :
          /\ \A a, b \in DOMAIN new : a < b => new[a] < new[b]
          /\ goals' = goals \o [k \in DOMAIN new |-> NewGoal(new[k])]
    BY <1>0
  <1>2. Len(goals) + n <= MaxGoals BY <1>0
  <1>3. candidates \subseteq DOMAIN insight \ Seen BY DEF Derivable, Foremost, FindByKind, Stored
  <1>4. candidates \subseteq 1..MaxInsights BY <1>3, TableTyped
  <1>5. n \in Nat
    <2>1. 1 \in Int /\ MaxInsights \in Int OBVIOUS
    <2>2. IsFiniteSet(1..MaxInsights) BY <2>1, FS_Interval
    <2>3. IsFiniteSet(candidates) BY <1>4, <2>2, FS_Subset
    <2>4. QED BY <2>3, FS_CardinalityType
  <1> HIDE DEF n
  <1> DEFINE more == [k \in DOMAIN new |-> NewGoal(new[k])]
  <1>6. more \in [1..n -> Goal]
    <2>1. \A k \in 1..n : new[k] \in 1..MaxInsights BY <1>4
    <2>2. \A k \in 1..n : NewGoal(new[k]) \in Goal BY <2>1 DEF NewGoal, Goal
    <2>3. QED BY <2>2
  <1>7. more \in Seq(Goal) /\ Len(more) = n /\ DOMAIN more = 1..n BY <1>5, <1>6
  <1>8. \A k \in 1..n : more[k].from = new[k] /\ more[k].status = "active" BY DEF NewGoal
  <1>9. goals' = goals \o more BY <1>1
  <1> HIDE DEF more
  <1>10. goals \in Seq(Goal) /\ Len(goals) \in Nat /\ DOMAIN goals = 1..Len(goals)
    BY GoalsTyped
  <1>11. /\ goals' \in Seq(Goal) /\ Len(goals') = Len(goals) + n
         /\ DOMAIN goals' = 1..(Len(goals) + n)
         /\ \A g \in 1..Len(goals) : goals'[g] = goals[g]
         /\ \A g \in 1..n : goals'[Len(goals) + g] = more[g]
    <2>1. /\ goals \o more \in Seq(Goal) /\ Len(goals \o more) = Len(goals) + Len(more)
          /\ DOMAIN (goals \o more) = 1..Len(goals \o more)
      BY <1>7, <1>10
    <2>2. \A g \in 1..Len(goals) : (goals \o more)[g] = goals[g] BY <1>7, <1>10
    <2>3. \A g \in 1..Len(more) : (goals \o more)[Len(goals) + g] = more[g] BY <1>7, <1>10
    <2>4. QED BY <1>7, <1>9, <2>1, <2>2, <2>3
  <1>12. ASSUME NEW g \in DOMAIN goals'
         PROVE  \/ g \in DOMAIN goals /\ goals'[g] = goals[g]
                \/ g - Len(goals) \in 1..n /\ goals'[g].from = new[g - Len(goals)]
    <2>1. g \in 1..(Len(goals) + n) BY <1>11
    <2>2. CASE g <= Len(goals) BY <1>10, <1>11, <2>1, <2>2
    <2>3. CASE g > Len(goals)
      <3>1. g - Len(goals) \in 1..n /\ g = Len(goals) + (g - Len(goals)) BY <1>5, <1>10, <2>1, <2>3
      <3>2. goals'[g] = more[g - Len(goals)] BY <1>11, <3>1
      <3>3. QED BY <1>8, <3>1, <3>2
    <2>4. QED BY <1>10, <2>1, <2>2, <2>3
  <1>13. \A i, j \in 1..n : new[i] = new[j] => i = j
    <2>1. SUFFICES ASSUME NEW i \in 1..n, NEW j \in 1..n, new[i] = new[j] PROVE i = j
      OBVIOUS
    <2>2. new[i] \in Nat /\ new[j] \in Nat
      <3>1. new[i] \in candidates /\ new[j] \in candidates OBVIOUS
      <3>2. new[i] \in 1..MaxInsights BY Zenon, <1>4, <3>1
      <3>3. new[j] \in 1..MaxInsights BY Zenon, <1>4, <3>1
      <3>4. QED BY <3>2, <3>3
    <2>3. ~(i < j) BY <1>1, <2>1, <2>2
    <2>4. ~(j < i) BY <1>1, <2>1, <2>2
    <2>5. QED BY <1>5, <2>3, <2>4
  <1>14. ASSUME NEW g \in DOMAIN goals, NEW k \in 1..n, goals[g].from = new[k]
         PROVE  goals[g].status = "completed"
    <2>1. new[k] \notin Seen BY <1>3
    <2>2. goals[g].status # "active" BY <1>14, <2>1 DEF Seen, FindActive
    <2>3. QED BY <2>2, GoalsTyped
  <1>15. OneGoalEach'
    <2>1. SUFFICES ASSUME NEW a \in DOMAIN goals', NEW b \in DOMAIN goals', a # b,
                          goals'[a].from = goals'[b].from
                   PROVE  "completed" \in {goals'[a].status, goals'[b].status}
      BY DEF OneGoalEach
    <2>2. CASE a \in DOMAIN goals /\ goals'[a] = goals[a]
      <3>1. CASE b \in DOMAIN goals /\ goals'[b] = goals[b]
        BY <2>1, <2>2, <3>1 DEF InsightsInv, OneGoalEach
      <3>2. CASE b - Len(goals) \in 1..n /\ goals'[b].from = new[b - Len(goals)]
        BY <1>14, <2>1, <2>2, <3>2
      <3>3. QED BY <1>12, <3>1, <3>2
    <2>3. CASE a - Len(goals) \in 1..n /\ goals'[a].from = new[a - Len(goals)]
      <3>1. CASE b \in DOMAIN goals /\ goals'[b] = goals[b]
        BY <1>14, <2>1, <2>3, <3>1
      <3>2. CASE b - Len(goals) \in 1..n /\ goals'[b].from = new[b - Len(goals)]
        <4>1. a - Len(goals) = b - Len(goals) BY <1>13, <2>1, <2>3, <3>2
        <4>2. a \in Nat /\ b \in Nat BY <1>5, <1>10, <1>11
        <4>3. QED BY <1>10, <2>1, <4>1, <4>2
      <3>3. QED BY <1>12, <3>1, <3>2
    <2>4. QED BY <1>12, <2>2, <2>3
  <1>16. Len(goals') <= MaxGoals BY <1>2, <1>11 DEF n
  <1>17. QED BY <1>11, <1>15, <1>16, GoalsStep

LEMMA CompleteStep ==
    ASSUME InsightsInv, NEW g \in DOMAIN goals, CompleteGoal(g)
    PROVE  InsightsInv' /\ QuietStep
  <1>1. goals' = [goals EXCEPT ![g].status = "completed"] /\ UNCHANGED <<insight, feedback, verdict, shown>>
    BY DEF CompleteGoal
  <1>2. goals \in Seq(Goal) /\ Len(goals) <= MaxGoals BY GoalsTyped
  <1>3. [goals[g] EXCEPT !.status = "completed"] \in Goal
    <2>1. goals[g] \in Goal BY <1>2
    <2>2. QED BY <2>1 DEF Goal
  <1>4. goals' \in Seq(Goal) /\ Len(goals') = Len(goals) /\ DOMAIN goals' = DOMAIN goals
    BY <1>1, <1>2, <1>3
  <1>5. \A a \in DOMAIN goals : /\ goals'[a].from = goals[a].from
                                /\ goals'[a].status = goals[a].status \/ goals'[a].status = "completed"
    <2>1. \A a \in DOMAIN goals : goals[a] \in Goal BY <1>2
    <2>2. QED BY <1>1, <2>1 DEF Goal
  <1>6. OneGoalEach' BY <1>4, <1>5 DEF InsightsInv, OneGoalEach
  <1>7. QED BY <1>1, <1>2, <1>4, <1>6, GoalsStep

-----------------------------------------------------------------------------
(***************************************************************************)
(* Reviews.                                                                *)
(***************************************************************************)
LEMMA FeedbackTyped ==
    ASSUME InsightsInv
    PROVE  /\ feedback \in Seq(Feedback) /\ Len(feedback) \in Nat /\ Len(feedback) <= MaxFeedback
           /\ DOMAIN feedback = 1..Len(feedback)
           /\ \A n \in DOMAIN feedback : feedback[n] \in Feedback
           /\ verdict \in [1..MaxInsights -> Reviews \cup {"none"}] /\ shown \subseteq 1..MaxInsights
  <1>1. feedback \in Seq(Feedback) /\ Len(feedback) <= MaxFeedback
    BY DEF InsightsInv, InsightsTypeOK
  <1>2. \A n \in DOMAIN feedback : feedback[n] \in Feedback BY <1>1
  <1>3. Len(feedback) \in Nat /\ DOMAIN feedback = 1..Len(feedback) BY <1>1
  <1>4. QED BY <1>1, <1>2, <1>3 DEF InsightsInv, InsightsTypeOK

\* The table of reviews with some of them pruned or run out.
Thinned(rows) ==
    /\ rows \in Seq(Feedback) /\ Len(rows) = Len(feedback) /\ DOMAIN rows = DOMAIN feedback
    /\ \A n \in DOMAIN feedback :
         /\ rows[n].on = feedback[n].on
         /\ \/ rows[n].action = feedback[n].action
            \/ (feedback[n].action = "snoozed" /\ rows[n].action = "pruned")

LEMMA RowsThinned ==
    ASSUME InsightsInv, NEW rows, rows = [n \in DOMAIN feedback |-> rows[n]],
           \A n \in DOMAIN feedback :
             /\ rows[n] \in Feedback /\ rows[n].on = feedback[n].on
             /\ \/ rows[n].action = feedback[n].action
                \/ (feedback[n].action = "snoozed" /\ rows[n].action = "pruned")
    PROVE  Thinned(rows)
  <1>1. DOMAIN feedback = 1..Len(feedback) /\ Len(feedback) \in Nat BY FeedbackTyped
  <1>2. rows \in [1..Len(feedback) -> Feedback] BY <1>1
  <1>3. QED BY <1>1, <1>2 DEF Thinned

LEMMA PruneThins == ASSUME InsightsInv PROVE Thinned(PruneExpired)
  <1> DEFINE rows == PruneExpired
  <1>1. rows = [n \in DOMAIN feedback |-> rows[n]] BY DEF PruneExpired
  <1>2. ASSUME NEW n \in DOMAIN feedback
        PROVE  /\ rows[n] \in Feedback /\ rows[n].on = feedback[n].on
               /\ \/ rows[n].action = feedback[n].action
                  \/ (feedback[n].action = "snoozed" /\ rows[n].action = "pruned")
    <2>1. feedback[n] \in Feedback BY FeedbackTyped
    <2>2. rows[n] = IF feedback[n].action = "snoozed" /\ ~feedback[n].running
                    THEN [feedback[n] EXCEPT !.action = "pruned"] ELSE feedback[n]
      BY DEF PruneExpired
    <2>3. QED BY <2>1, <2>2 DEF Feedback
  <1> HIDE DEF rows
  <1>3. Thinned(rows) BY <1>1, <1>2, RowsThinned
  <1>4. QED BY <1>3 DEF rows

LEMMA SnoozeThins ==
    ASSUME InsightsInv, NEW n \in DOMAIN feedback, SnoozeEnds(n)
    PROVE  Thinned(feedback')
  <1>1. feedback' = [feedback EXCEPT ![n].running = FALSE] BY DEF SnoozeEnds
  <1>2. \A k \in DOMAIN feedback : feedback[k] \in Feedback BY FeedbackTyped
  <1>3. feedback' = [k \in DOMAIN feedback |-> feedback'[k]] BY <1>1
  <1>4. ASSUME NEW k \in DOMAIN feedback
        PROVE  /\ feedback'[k] \in Feedback /\ feedback'[k].on = feedback[k].on
               /\ feedback'[k].action = feedback[k].action
    <2>1. feedback'[k] = IF k = n THEN [feedback[k] EXCEPT !.running = FALSE] ELSE feedback[k]
      BY <1>1
    <2>2. QED BY <1>2, <2>1 DEF Feedback
  <1>5. QED BY <1>3, <1>4, RowsThinned

LEMMA ThinnedStep ==
    ASSUME InsightsInv, Thinned(feedback'), UNCHANGED <<insight, goals, verdict, shown>>
    PROVE  InsightsInv' /\ QuietStep
  <1>1. InsightsTypeOK' BY DEF InsightsInv, InsightsTypeOK, Thinned
  <1>2. ASSUME NEW i \in 1..MaxInsights, verdict'[i] = "dismissed"
        PROVE  \E n \in About(i)' : feedback'[n].action = "dismissed" /\ \A k \in About(i)' : k <= n
    <2>1. PICK n \in About(i) : feedback[n].action = "dismissed" /\ \A k \in About(i) : k <= n
      BY <1>2 DEF InsightsInv, DismissalsLatest
    <2>2. About(i)' \subseteq About(i) BY DEF About, Thinned
    <2>3. feedback'[n].action = "dismissed" /\ n \in About(i)' BY <2>1 DEF About, Thinned
    <2>4. QED BY <2>1, <2>2, <2>3
  <1>3. DismissalsLatest' BY <1>2 DEF DismissalsLatest
  <1>4. OneGoalEach' BY DEF InsightsInv, OneGoalEach
  <1>5. \A action \in {"accepted", "rejected"} :
          {n \in DOMAIN feedback : feedback'[n].action = action}
            = {n \in DOMAIN feedback : feedback[n].action = action}
    BY DEF Thinned
  <1>6. AcceptanceStats' = AcceptanceStats BY <1>5 DEF AcceptanceStats, Count, Thinned
  <1>7. QuietStep BY <1>6 DEF QuietStep, OneInsightEach, Referred, CommitmentRefs, FindByKind, Stored
  <1>8. QED BY <1>1, <1>3, <1>4, <1>7 DEF InsightsInv

LEMMA ReviewStep ==
    ASSUME InsightsInv, NEW i \in DOMAIN insight, NEW action \in Reviews, ReviewInsight(i, action)
    PROVE  /\ InsightsInv'
           /\ OneInsightEach => OneInsightEach'
           /\ Referred' = Referred
           /\ action \notin {"accepted", "rejected"} => AcceptanceStats' = AcceptanceStats
  <1> DEFINE said == [on |-> i, action |-> action, running |-> action = "snoozed"]
             rows == PruneExpired
             last == Len(feedback) + 1
  <1>1. /\ feedback' = Append(rows, said) /\ verdict' = [verdict EXCEPT ![i] = action]
        /\ UNCHANGED <<insight, goals, shown>> /\ Len(feedback) < MaxFeedback
    BY DEF ReviewInsight
  <1>2. i \in 1..MaxInsights BY TableTyped
  <1>3. said \in Feedback BY <1>2 DEF Feedback
  <1>4. Thinned(rows) BY PruneThins
  <1>5. said.on = i /\ said.action = action OBVIOUS
  <1> HIDE DEF rows, said
  <1>6. /\ feedback \in Seq(Feedback) /\ Len(feedback) \in Nat /\ DOMAIN feedback = 1..Len(feedback)
        /\ verdict \in [1..MaxInsights -> Reviews \cup {"none"}]
    BY FeedbackTyped
  <1>7. rows \in Seq(Feedback) /\ Len(rows) = Len(feedback) /\ DOMAIN rows = DOMAIN feedback
    BY <1>4 DEF Thinned
  <1>8. /\ feedback' \in Seq(Feedback) /\ Len(feedback') = last /\ DOMAIN feedback' = 1..last
        /\ \A n \in DOMAIN feedback : feedback'[n] = rows[n]
        /\ feedback'[last] = said
    BY <1>1, <1>3, <1>6, <1>7
  <1>9. DOMAIN feedback' = DOMAIN feedback \cup {last} /\ last \notin DOMAIN feedback
    BY <1>6, <1>8
  <1>10. \A n \in DOMAIN feedback :
          /\ feedback'[n].on = feedback[n].on
          /\ \/ feedback'[n].action = feedback[n].action
             \/ (feedback[n].action = "snoozed" /\ feedback'[n].action = "pruned")
    BY <1>4, <1>8 DEF Thinned
  <1>11. \A j \in 1..MaxInsights : verdict'[j] = IF j = i THEN action ELSE verdict[j]
    BY <1>1, <1>6
  <1>12. InsightsTypeOK'
    <2>1. verdict' \in [1..MaxInsights -> Reviews \cup {"none"}] BY <1>1, <1>6
    <2>2. last <= MaxFeedback BY <1>1, <1>6
    <2>3. QED BY <1>1, <1>8, <2>1, <2>2 DEF InsightsInv, InsightsTypeOK
  <1>13. ASSUME NEW j \in 1..MaxInsights, verdict'[j] = "dismissed"
         PROVE  \E n \in About(j)' : feedback'[n].action = "dismissed" /\ \A k \in About(j)' : k <= n
    <2>1. CASE j = i
      <3>1. action = "dismissed" BY <1>11, <1>13, <2>1
      <3>2. last \in About(j)' /\ feedback'[last].action = "dismissed"
        BY <1>5, <1>8, <1>9, <2>1, <3>1 DEF About
      <3>3. \A k \in About(j)' : k <= last BY <1>6, <1>8 DEF About
      <3>4. QED BY <3>2, <3>3
    <2>2. CASE j # i
      <3>1. verdict[j] = "dismissed" BY <1>11, <1>13, <2>2
      <3>2. PICK n \in About(j) : feedback[n].action = "dismissed" /\ \A k \in About(j) : k <= n
        BY <3>1 DEF InsightsInv, DismissalsLatest
      <3>3. About(j)' \subseteq About(j)
        BY <1>5, <1>8, <1>9, <1>10, <2>2 DEF About
      <3>4. n \in About(j)' /\ feedback'[n].action = "dismissed"
        BY <1>9, <1>10, <3>2 DEF About
      <3>5. QED BY <3>2, <3>3, <3>4
    <2>3. QED BY <2>1, <2>2
  <1>14. DismissalsLatest' BY <1>13 DEF DismissalsLatest
  <1>15. OneGoalEach' BY <1>1 DEF InsightsInv, OneGoalEach
  <1>16. (OneInsightEach => OneInsightEach') /\ Referred' = Referred
    BY <1>1 DEF OneInsightEach, Referred, CommitmentRefs, FindByKind, Stored
  <1>17. ASSUME action \notin {"accepted", "rejected"} PROVE AcceptanceStats' = AcceptanceStats
    <2>1. \A a \in {"accepted", "rejected"} :
            {n \in DOMAIN feedback' : feedback'[n].action = a}
              = {n \in DOMAIN feedback : feedback[n].action = a}
      BY <1>5, <1>8, <1>9, <1>10, <1>17
    <2>2. QED BY <2>1 DEF AcceptanceStats, Count
  <1>18. QED BY <1>12, <1>14, <1>15, <1>16, <1>17 DEF InsightsInv

LEMMA PresentStep ==
    ASSUME InsightsInv, Present
    PROVE  /\ InsightsInv' /\ QuietStep
           /\ \A i \in shown' : verdict[i] # "dismissed"
  <1>1. shown' = CriticalInsights /\ UNCHANGED <<insight, goals, feedback, verdict>> BY DEF Present
  <1>2. \A i \in CriticalInsights : i \in DOMAIN insight /\ ~IsDismissed(i)
    BY DEF CriticalInsights, TopInsights, ShouldForceSurface, ShouldSurface, IsBlocked, FindFresh
  <1>3. shown' \subseteq 1..MaxInsights BY <1>1, <1>2, TableTyped
  <1>4. InsightsTypeOK' BY <1>1, <1>3 DEF InsightsInv, InsightsTypeOK
  <1>5. DismissalsLatest' BY <1>1 DEF InsightsInv, DismissalsLatest, About
  <1>6. OneGoalEach' BY <1>1 DEF InsightsInv, OneGoalEach
  <1>7. QuietStep
    BY <1>1 DEF QuietStep, OneInsightEach, Referred, CommitmentRefs, FindByKind, Stored, AcceptanceStats, Count
  <1>8. ASSUME NEW i \in shown', verdict[i] = "dismissed" PROVE FALSE
    <2>1. PICK n \in About(i) : feedback[n].action = "dismissed" /\ \A k \in About(i) : k <= n
      BY <1>3, <1>8 DEF InsightsInv, DismissalsLatest
    <2>2. \A k \in About(i) : k \in Nat BY FeedbackTyped DEF About
    <2>3. Max(About(i)) \in About(i) /\ \A k \in About(i) : k <= Max(About(i))
      BY <2>1, <2>2 DEF Max
    <2>4. Max(About(i)) = n BY <2>1, <2>2, <2>3
    <2>5. Latest(i) = feedback[n] BY <2>1, <2>4 DEF Latest
    <2>6. IsDismissed(i) BY <2>1, <2>5 DEF IsDismissed
    <2>7. QED BY <1>1, <1>2, <2>6
  <1>9. QED BY <1>4, <1>5, <1>6, <1>7, <1>8 DEF InsightsInv

LEMMA TimeStep ==
    ASSUME InsightsInv, TimePasses
    PROVE  InsightsInv' /\ QuietStep
  <1>1. ASSUME NEW i \in DOMAIN insight, Expires(i) \/ CoolsDown(i)
        PROVE  InsightsInv' /\ QuietStep
    <2>1. \A j \in DOMAIN insight : insight[j] \in Row BY TableTyped
    <2>2. \/ (insight[i].life = "fresh" /\ insight' = [insight EXCEPT ![i].life = "expired"])
          \/ insight' = [insight EXCEPT ![i].cooling = FALSE]
      BY <1>1 DEF Expires, CoolsDown
    <2>3. insight' = [j \in DOMAIN insight |-> insight'[j]] BY <2>2
    <2>4. ASSUME NEW j \in DOMAIN insight
          PROVE  /\ insight'[j] \in Row /\ insight'[j].kind = insight[j].kind
                 /\ insight'[j].about = insight[j].about
                 /\ insight'[j].life # "deleted" => insight[j].life # "deleted"
      <3>1. insight[j] \in Row BY <2>1
      <3>2. \/ (insight[j].life = "fresh" /\ insight'[j] = [insight[j] EXCEPT !.life = "expired"])
            \/ insight'[j] = [insight[j] EXCEPT !.cooling = FALSE]
            \/ insight'[j] = insight[j]
        BY <2>2
      <3>3. QED BY <3>1, <3>2 DEF Row
    <2>5. Quiet(insight') BY <2>3, <2>4, RowsInPlace
    <2>6. UNCHANGED <<goals, feedback, verdict, shown>> BY <1>1 DEF Expires, CoolsDown
    <2>7. QED BY <2>5, <2>6, QuietTableStep
  <1>2. ASSUME NEW n \in DOMAIN feedback, SnoozeEnds(n) PROVE InsightsInv' /\ QuietStep
    BY <1>2, SnoozeThins, ThinnedStep DEF SnoozeEnds
  <1>3. QED BY <1>1, <1>2 DEF TimePasses

LEMMA ListStep ==
    ASSUME InsightsInv, ListInsights
    PROVE  InsightsInv' /\ QuietStep
  <1>1. feedback' = PruneExpired /\ UNCHANGED <<insight, goals, verdict, shown>> BY DEF ListInsights
  <1>2. Thinned(feedback') BY <1>1, PruneThins
  <1>3. QED BY <1>1, <1>2, ThinnedStep

-----------------------------------------------------------------------------
(***************************************************************************)
(* The row of the state and the cycles that read and write it.  As long as *)
(* nothing overlapped there is one cycle at most under way, what it has    *)
(* loaded agrees with the row, and what it has left to scan has no insight *)
(* yet, unless a scan left some unread: this is what Finish and            *)
(* InsertCommitment need.                                                  *)
(***************************************************************************)
HIDE InsightsAssumption

\* What the row says is what was last written into each of its parts.
Agrees(state) == state.mode = lastMode /\ state.version = saved /\ state.rate = AcceptanceStats

Remembers(state) == state \in State /\ Cardinality(state.memory) <= MaxEntries

\* A brief only scans, and a scan of a cycle is one of its tasks.
Fits(cycle) ==
    /\ Remembers(cycle.state)
    /\ cycle.trigger = "brief" => cycle.stage \in {"scan", "over"}
    /\ cycle.stage = "scan" /\ cycle.trigger # "brief" => cycle.todo # <<>>

Single == \A c, d \in UnderWay : c = d

ScansApart == \A c \in DOMAIN cycles : cycles[c].stage = "scan" => cycles[c].left \cap Referred = {}

\* What holds of cycles and scans that did not overlap.
Calm ==
    /\ Single /\ (~unread => OneInsightEach /\ ScansApart)
    /\ Agrees(Load)
    /\ \A c \in UnderWay : cycles[c].trigger # "brief" => Agrees(cycles[c].state)

CyclesInv ==
    /\ InsightsInv /\ CyclesTypeOK
    /\ \A c \in DOMAIN cycles : Fits(cycles[c])
    /\ ~overlapped => Calm

LEMMA LastEntriesFew ==
    ASSUME NEW memory \in SUBSET (1..MaxCycles)
    PROVE  LastEntries(memory) \subseteq memory /\ Cardinality(LastEntries(memory)) <= MaxEntries
  <1> DEFINE last == LastEntries(memory)
             After(c) == {later \in memory : later > c}
  <1>1. last = {c \in memory : Cardinality(After(c)) < MaxEntries} BY DEF LastEntries
  <1> HIDE DEF last
  <1>2. memory \subseteq Nat /\ last \subseteq memory BY <1>1
  <1>3. IsFiniteSet(memory)
    <2>1. 1 \in Int /\ MaxCycles \in Int BY CycleAssumption
    <2>2. IsFiniteSet(1..MaxCycles) BY <2>1, FS_Interval
    <2>3. QED BY <2>2, FS_Subset
  <1>4. MaxEntries \in Nat BY CycleAssumption
  <1>5. CASE last = {}
    <2>1. Cardinality(last) = 0 BY <1>5, FS_EmptySet
    <2>2. QED BY <1>2, <1>4, <2>1 DEF last
  <1>6. CASE last # {}
    <2>1. last \subseteq Nat BY <1>2
    <2>2. PICK first \in last : \A c \in last : first <= c BY <1>6, <2>1, LeastNatural
    <2>3. last \ {first} \subseteq After(first) BY <1>2, <2>1, <2>2
    <2>4. After(first) \subseteq memory OBVIOUS
    <2>5. IsFiniteSet(last) BY <1>2, <1>3, FS_Subset
    <2>6. IsFiniteSet(After(first)) BY <1>3, <2>4, FS_Subset
    <2>7. Cardinality(last \ {first}) <= Cardinality(After(first)) BY <2>3, <2>6, FS_Subset
    <2>8. Cardinality(After(first)) < MaxEntries BY <1>1, <2>2
    <2>9. Cardinality(last \ {first}) = Cardinality(last) - 1 BY <2>2, <2>5, FS_RemoveElement
    <2>10. Cardinality(last) \in Nat BY <2>5, FS_CardinalityType
    <2>11. Cardinality(After(first)) \in Nat BY <2>6, FS_CardinalityType
    <2> HIDE DEF After
    <2>12. Cardinality(last) <= MaxEntries BY <1>4, <2>7, <2>8, <2>9, <2>10, <2>11
    <2>13. QED BY <1>2, <2>12 DEF last
  <1>7. QED BY <1>5, <1>6

LEMMA StatsTyped ==
    ASSUME InsightsInv' PROVE AcceptanceStats' \in [accepted : Nat, rejected : Nat]
  <1>1. feedback' \in Seq(Feedback) BY DEF InsightsInv, InsightsTypeOK
  <1>2. DOMAIN feedback' = 1..Len(feedback') /\ Len(feedback') \in Nat BY <1>1
  <1>3. ASSUME NEW action PROVE Count(action)' \in Nat
    <2>1. 1 \in Int /\ Len(feedback') \in Int BY <1>2
    <2>2. IsFiniteSet(1..Len(feedback')) BY <2>1, FS_Interval
    <2> DEFINE those == {n \in DOMAIN feedback' : feedback'[n].action = action}
    <2>3. those \subseteq 1..Len(feedback') BY <1>2
    <2>4. Count(action)' = Cardinality(those) BY DEF Count
    <2> HIDE DEF those
    <2>5. IsFiniteSet(those) BY <2>2, <2>3, FS_Subset
    <2>6. Cardinality(those) \in Nat BY <2>5, FS_CardinalityType
    <2>7. QED BY <2>4, <2>6
  <1>4. Count("accepted")' \in Nat /\ Count("rejected")' \in Nat BY <1>3
  <1>5. QED BY <1>4 DEF AcceptanceStats

LEMMA Defaults == Remembers(NoState) /\ Remembers(DefaultState) /\ DefaultState # NoState
  <1>1. MaxEntries \in Nat BY CycleAssumption
  <1>2. Cardinality({}) = 0 BY FS_EmptySet
  <1>3. QED BY <1>1, <1>2 DEF Remembers, NoState, DefaultState, State

LEMMA LoadRemembers ==
    ASSUME CyclesTypeOK
    PROVE  Remembers(Load) /\ Load # NoState
  BY Defaults DEF CyclesTypeOK, Load, Remembers

LEMMA PrunedRemembers ==
    ASSUME NEW state, Remembers(state)
    PROVE  /\ Remembers(Pruned(state))
           /\ Pruned(state).mode = state.mode /\ Pruned(state).version = state.version
           /\ Pruned(state).rate = state.rate
  <1>1. Pruned(state) = [state EXCEPT !.memory = state.memory \ lapsed] BY DEF Pruned
  <1>2. state.memory \subseteq 1..MaxCycles BY DEF Remembers, State
  <1>3. IsFiniteSet(state.memory)
    <2>1. 1 \in Int /\ MaxCycles \in Int BY CycleAssumption
    <2>2. IsFiniteSet(1..MaxCycles) BY <2>1, FS_Interval
    <2>3. QED BY <1>2, <2>2, FS_Subset
  <1>4. Cardinality(state.memory \ lapsed) <= Cardinality(state.memory) /\ IsFiniteSet(state.memory \ lapsed)
    BY <1>3, FS_Subset
  <1>5. Cardinality(state.memory) \in Nat BY <1>3, FS_CardinalityType
  <1>6. Cardinality(state.memory \ lapsed) \in Nat BY <1>4, FS_CardinalityType
  <1>7. MaxEntries \in Nat BY CycleAssumption
  <1>8. Pruned(state).memory = state.memory \ lapsed BY <1>1 DEF Remembers, State
  <1>9. Pruned(state) \in State BY <1>1, <1>2 DEF Remembers, State
  <1>10. Cardinality(Pruned(state).memory) <= MaxEntries
    <2>1. Cardinality(state.memory) <= MaxEntries BY DEF Remembers
    <2>2. QED BY <1>4, <1>5, <1>6, <1>7, <1>8, <2>1
  <1>11. QED BY <1>1, <1>9, <1>10 DEF Remembers, State

LEMMA EntryRemembered ==
    ASSUME NEW state, Remembers(state), NEW c \in 1..MaxCycles
    PROVE  /\ Remembers(WithEntry(state, c))
           /\ WithEntry(state, c).mode = state.mode /\ WithEntry(state, c).version = state.version
           /\ WithEntry(state, c).rate = state.rate
  <1> DEFINE entries == Pruned(state).memory \cup {c}
  <1>1. WithEntry(state, c) = [Pruned(state) EXCEPT !.memory = LastEntries(entries)] BY DEF WithEntry
  <1>2. Pruned(state) \in State BY PrunedRemembers DEF Remembers
  <1>3. entries \in SUBSET (1..MaxCycles) BY <1>2 DEF State
  <1> HIDE DEF entries
  <1>4. LastEntries(entries) \subseteq entries /\ Cardinality(LastEntries(entries)) <= MaxEntries
    BY <1>3, LastEntriesFew
  <1> DEFINE last == LastEntries(entries)
  <1>5. last \in SUBSET (1..MaxCycles) BY <1>3, <1>4
  <1>6. Cardinality(last) <= MaxEntries BY <1>4
  <1>7. WithEntry(state, c) = [Pruned(state) EXCEPT !.memory = last] BY <1>1
  <1> HIDE DEF last
  <1>8. WithEntry(state, c) \in State /\ WithEntry(state, c).memory = last BY <1>2, <1>5, <1>7 DEF State
  <1>9. Remembers(WithEntry(state, c)) BY <1>6, <1>8 DEF Remembers
  <1>10. /\ WithEntry(state, c).mode = Pruned(state).mode
         /\ WithEntry(state, c).version = Pruned(state).version
         /\ WithEntry(state, c).rate = Pruned(state).rate
    BY <1>2, <1>7 DEF State
  <1>11. QED BY <1>9, <1>10, PrunedRemembers

LEMMA CyclesTyped ==
    ASSUME CyclesTypeOK
    PROVE  /\ cycles \in Seq(Cycle) /\ Len(cycles) \in Nat /\ Len(cycles) <= MaxCycles
           /\ DOMAIN cycles = 1..Len(cycles)
           /\ \A c \in DOMAIN cycles : cycles[c] \in Cycle
  <1>1. cycles \in Seq(Cycle) /\ Len(cycles) <= MaxCycles BY DEF CyclesTypeOK
  <1>2. Len(cycles) \in Nat /\ DOMAIN cycles = 1..Len(cycles) BY <1>1
  <1>3. \A c \in DOMAIN cycles : cycles[c] \in Cycle BY <1>1
  <1>4. QED BY <1>1, <1>2, <1>3

\* A scan that reads all commitments has only those left that have none.
LEMMA ScansFit ==
    ASSUME InsightsInv, LeavesUnread, NEW left \in ScansFor
    PROVE  left \subseteq Memories /\ (~unread' => left \cap Referred = {})
  <1> DEFINE rows == FindByKind("commitment")
  <1>1. PICK found \in SUBSET Memories, read \in Foremost(rows, ExistingLimit) :
          left = found \ CommitmentRefs(read)
    BY DEF ScansFor
  <1>2. read \subseteq rows /\ Cardinality(read) = Min({ExistingLimit, Cardinality(rows)})
    BY <1>1 DEF Foremost
  <1>3. IsFiniteSet(rows)
    <2>1. 1 \in Int /\ MaxInsights \in Int BY InsightsAssumption
    <2>2. IsFiniteSet(1..MaxInsights) BY <2>1, FS_Interval
    <2>3. rows \subseteq 1..MaxInsights BY TableTyped, InsightsAssumption DEF FindByKind, Stored
    <2>4. QED BY <2>2, <2>3, FS_Subset
  <1>4. ~unread' => ~(Cardinality(rows) > ExistingLimit) BY Zenon DEF LeavesUnread
  <1>5. Referred = CommitmentRefs(rows) BY DEF Referred
  <1> HIDE DEF rows
  <1>6. Cardinality(rows) \in Nat /\ ExistingLimit \in Nat
    BY <1>3, FS_CardinalityType, InsightsAssumption
  <1>7. ASSUME ~unread' PROVE read = rows
    <2>1. Cardinality(rows) <= ExistingLimit BY <1>4, <1>6, <1>7
    <2>2. Min({ExistingLimit, Cardinality(rows)}) = Cardinality(rows)
      <3> DEFINE n == Cardinality(rows)
                 S == {ExistingLimit, n}
      <3>1. n \in Nat /\ n <= ExistingLimit BY <1>6, <2>1
      <3> HIDE DEF n
      <3>2. n \in S /\ \A k \in S : n <= k BY <3>1
      <3>3. S \subseteq Nat BY <1>6, <3>1
      <3> HIDE DEF S
      <3>4. Min(S) \in S /\ \A k \in S : Min(S) <= k BY Zenon, <3>2 DEF Min
      <3> DEFINE least == Min(S)
      <3>5. least \in Nat /\ least <= n /\ n <= least BY <3>2, <3>3, <3>4
      <3> HIDE DEF least
      <3>6. least = n BY <3>1, <3>5
      <3>7. QED BY <3>6 DEF S, n, least
    <2>3. QED BY <1>2, <1>3, <2>2, FS_Subset
  <1>8. QED BY <1>1, <1>5, <1>7

\* A cycle goes on to what it does next.
LEMMA CycleMoves ==
    ASSUME CyclesInv, NEW c \in UnderWay, NEW record \in Cycle, Moves(c, record),
           Fits(record), record.trigger = cycles[c].trigger, record.state = cycles[c].state,
           ~overlapped /\ ~unread' => OneInsightEach',
           ~overlapped /\ ~unread' /\ record.stage = "scan" => record.left \cap Referred' = {},
           RowUnchanged, unread' \in BOOLEAN, unread => unread', InsightsInv',
           AcceptanceStats' = AcceptanceStats
    PROVE  CyclesInv'
  <1>1. /\ cycles \in Seq(Cycle) /\ Len(cycles) <= MaxCycles
        /\ c \in DOMAIN cycles /\ cycles[c].stage # "over"
    BY CyclesTyped DEF CyclesInv, UnderWay
  <1>2. cycles' = [cycles EXCEPT ![c] = record] BY DEF Moves
  <1>3. cycles' \in Seq(Cycle) /\ Len(cycles') = Len(cycles) /\ DOMAIN cycles' = DOMAIN cycles
    BY <1>1, <1>2
  <1>4. \A d \in DOMAIN cycles : cycles'[d] = IF d = c THEN record ELSE cycles[d] BY <1>2
  <1>5. CyclesTypeOK' BY <1>1, <1>3 DEF CyclesInv, CyclesTypeOK, RowUnchanged
  <1>6. \A d \in DOMAIN cycles' : Fits(cycles'[d]) BY <1>3, <1>4 DEF CyclesInv
  <1>7. (\A d \in DOMAIN cycles : Fits(cycles[d]))' BY <1>6 DEF Fits, Remembers
  <1>8. ASSUME ~overlapped' PROVE Calm'
    <2>1. ~overlapped /\ Calm BY <1>8 DEF RowUnchanged, CyclesInv
    <2>2. \A d \in UnderWay : d = c BY <2>1 DEF Calm, Single
    <2>3. \A d \in UnderWay' : d = c BY <1>3, <1>4, <2>2 DEF UnderWay
    <2>4. Single' BY <2>3 DEF Single
    <2>5. ASSUME ~unread' PROVE OneInsightEach' /\ ScansApart'
      <3>1. \A d \in DOMAIN cycles' : cycles'[d].stage = "scan" => d = c BY <2>3 DEF UnderWay
      <3>2. QED BY <1>1, <1>4, <2>1, <2>5, <3>1 DEF ScansApart
    <2>6. Load' = Load BY DEF Load, RowUnchanged
    <2>7. \A state : Agrees(state) => state.mode = lastMode' /\ state.version = saved' /\ state.rate = AcceptanceStats'
      BY DEF Agrees, RowUnchanged
    <2>8. Agrees(Load)' BY <2>1, <2>6, <2>7 DEF Agrees, Calm
    <2>9. ASSUME NEW d \in UnderWay', cycles'[d].trigger # "brief" PROVE Agrees(cycles[d].state)'
      <3>1. d = c /\ cycles'[d] = record BY <1>1, <1>4, <2>3
      <3>2. Agrees(cycles[c].state) BY <2>1, <2>9, <3>1 DEF Calm
      <3>3. QED BY <2>7, <3>1, <3>2 DEF Agrees
    <2>10. QED BY <2>4, <2>5, <2>8, <2>9 DEF Calm
  <1>9. QED BY <1>5, <1>7, <1>8 DEF CyclesInv

\* A cycle or a brief begins.
LEMMA CycleBegins ==
    ASSUME CyclesInv, Len(cycles) < MaxCycles, NEW record \in Cycle,
           cycles' = Append(cycles, record), Overlapping, Fits(record),
           record.trigger # "brief" =>
              /\ record.state.mode = Load.mode /\ record.state.version = Load.version
              /\ record.state.rate = Load.rate,
           ~unread' /\ record.stage = "scan" => record.left \cap Referred' = {},
           unread' \in BOOLEAN, unread => unread',
           stored' \in {stored, Load}, cache' \in State, queue' \in Seq(Tasks), ended' \subseteq Sessions,
           UNCHANGED <<probed, lapsed, lastMode, saved, restarts>>, InsightsInv', QuietStep
    PROVE  CyclesInv'
  <1> DEFINE new == Len(cycles) + 1
  <1>1. cycles \in Seq(Cycle) /\ Len(cycles) \in Nat /\ DOMAIN cycles = 1..Len(cycles)
    BY CyclesTyped DEF CyclesInv
  <1>2. /\ cycles' \in Seq(Cycle) /\ Len(cycles') = new /\ DOMAIN cycles' = 1..new
        /\ \A d \in DOMAIN cycles : cycles'[d] = cycles[d]
        /\ cycles'[new] = record
    BY <1>1
  <1>3. DOMAIN cycles' = DOMAIN cycles \cup {new} BY <1>1, <1>2
  <1>4. Remembers(stored') /\ Load' = Load
    <2>1. Remembers(stored) /\ Remembers(Load) /\ Load # NoState
      BY LoadRemembers DEF CyclesInv, CyclesTypeOK, Remembers
    <2>2. QED BY <2>1 DEF Load
  <1>5. CyclesTypeOK'
    <2>1. new <= MaxCycles BY <1>1, CycleAssumption
    <2>2. Cardinality(stored'.memory) <= MaxEntries /\ stored' \in State /\ cache' \in State
      BY <1>4 DEF Remembers
    <2>3. overlapped' \in BOOLEAN BY DEF Overlapping, CyclesInv, CyclesTypeOK
    <2> HIDE DEF new
    <2>4. QED BY <1>2, <2>1, <2>2, <2>3 DEF CyclesInv, CyclesTypeOK
  <1>6. \A d \in DOMAIN cycles' : Fits(cycles'[d]) BY <1>2, <1>3 DEF CyclesInv
  <1>7. (\A d \in DOMAIN cycles : Fits(cycles[d]))' BY <1>6 DEF Fits, Remembers
  <1>8. ASSUME ~overlapped' PROVE Calm'
    <2>1. ~overlapped /\ UnderWay = {} /\ Calm BY <1>8 DEF Overlapping, CyclesInv
    <2>2. \A d \in UnderWay' : d = new
      <3>1. \A d \in DOMAIN cycles : cycles[d].stage = "over" BY <2>1 DEF UnderWay
      <3>2. QED BY <1>2, <1>3, <3>1 DEF UnderWay
    <2>3. Single' BY <2>2 DEF Single
    <2>4. ASSUME ~unread' PROVE ScansApart'
      <3>1. \A d \in DOMAIN cycles' : cycles'[d].stage = "scan" => d = new BY <2>2 DEF UnderWay
      <3>2. QED BY <1>2, <2>4, <3>1 DEF ScansApart
    <2>5. ~unread' => OneInsightEach' BY <2>1 DEF Calm, QuietStep
    <2>6. \A state : Agrees(state) => state.mode = lastMode' /\ state.version = saved' /\ state.rate = AcceptanceStats'
      BY DEF Agrees, QuietStep
    <2>7. Agrees(Load)' BY <1>4, <2>1, <2>6 DEF Agrees, Calm
    <2>8. ASSUME NEW d \in UnderWay', cycles'[d].trigger # "brief" PROVE Agrees(cycles[d].state)'
      <3>1. cycles'[d] = record BY <1>2, <2>2
      <3>2. QED BY <1>4, <2>7, <2>8, <3>1 DEF Agrees
    <2>9. QED BY <2>3, <2>4, <2>5, <2>7, <2>8 DEF Calm
  <1>9. QED BY <1>5, <1>7, <1>8 DEF CyclesInv

\* The row is written by a tool or the probe.
LEMMA RowWritten ==
    ASSUME CyclesInv, UNCHANGED <<cache, queue, ended, cycles, lapsed, unread, saved, restarts>>, Overlapping,
           Remembers(stored'), probed' \in BOOLEAN, lastMode' \in {"reduced", "steward"},
           InsightsInv', OneInsightEach => OneInsightEach',
           Agrees(Load) => Agrees(stored)' /\ stored' # NoState
    PROVE  CyclesInv'
  <1>1. CyclesTypeOK'
    <2>1. Cardinality(stored'.memory) <= MaxEntries /\ stored' \in State BY DEF Remembers
    <2>2. overlapped' \in BOOLEAN BY DEF Overlapping, CyclesInv, CyclesTypeOK
    <2>3. QED BY <2>1, <2>2 DEF CyclesInv, CyclesTypeOK
  <1>2. (\A d \in DOMAIN cycles : Fits(cycles[d]))' BY DEF CyclesInv, Fits, Remembers
  <1>3. ASSUME ~overlapped' PROVE Calm'
    <2>1. ~overlapped /\ UnderWay = {} /\ Calm BY <1>3 DEF Overlapping, CyclesInv
    <2>2. UnderWay' = {} BY <2>1 DEF UnderWay
    <2>3. Single' /\ ScansApart' BY <2>2 DEF Single, ScansApart, UnderWay
    <2>4. Load' = stored' /\ Agrees(stored)' BY <2>1 DEF Load, Calm
    <2>5. Agrees(Load)' BY <2>4 DEF Agrees
    <2>6. ~unread' => OneInsightEach' BY <2>1 DEF Calm
    <2>7. QED BY <2>2, <2>3, <2>5, <2>6 DEF Calm
  <1>4. QED BY <1>1, <1>2, <1>3 DEF CyclesInv

\* The row and the cycles are left alone.
LEMMA CyclesUntouched ==
    ASSUME CyclesInv, UNCHANGED <<stored, cache, probed, queue, ended, cycles, overlapped, lastMode, unread, saved, restarts>>,
           lapsed' \subseteq 1..MaxCycles, InsightsInv', QuietStep
    PROVE  CyclesInv'
  <1>1. CyclesTypeOK' BY DEF CyclesInv, CyclesTypeOK
  <1>2. (\A d \in DOMAIN cycles : Fits(cycles[d]))' BY DEF CyclesInv, Fits, Remembers
  <1>3. ASSUME ~overlapped' PROVE Calm'
    <2>1. Calm BY <1>3 DEF CyclesInv
    <2>2. UnderWay' = UnderWay /\ Load' = Load BY DEF UnderWay, Load
    <2>3. Single' BY <2>1, <2>2 DEF Single, Calm
    <2>4. ~unread' => OneInsightEach' /\ ScansApart' BY <2>1 DEF ScansApart, Calm, QuietStep
    <2>5. \A state : Agrees(state) => state.mode = lastMode' /\ state.version = saved' /\ state.rate = AcceptanceStats'
      BY DEF Agrees, QuietStep
    <2>6. Agrees(Load)' BY <2>1, <2>2, <2>5 DEF Agrees, Calm
    <2>7. ASSUME NEW d \in UnderWay', cycles'[d].trigger # "brief" PROVE Agrees(cycles[d].state)'
      <3>1. Agrees(cycles[d].state) BY <2>1, <2>2, <2>7 DEF Calm
      <3>2. QED BY <2>5, <3>1 DEF Agrees
    <2>8. QED BY <2>3, <2>4, <2>6, <2>7 DEF Calm
  <1>4. QED BY <1>1, <1>2, <1>3 DEF CyclesInv

LEMMA CyclesStart == InsightsInit /\ CyclesInit => CyclesInv
  <1> SUFFICES ASSUME InsightsInit, CyclesInit PROVE CyclesInv
    OBVIOUS
  <1>1. /\ insight = <<>> /\ goals = <<>> /\ feedback = <<>> /\ shown = {}
        /\ verdict = [i \in 1..MaxInsights |-> "none"]
    BY DEF InsightsInit
  <1>2. InsightsTypeOK
    <2>1. insight \in Seq(Row) /\ goals \in Seq(Goal) /\ feedback \in Seq(Feedback) BY <1>1
    <2>2. Len(insight) = 0 /\ Len(goals) = 0 /\ Len(feedback) = 0 BY <1>1
    <2>3. QED BY <1>1, <2>1, <2>2, InsightsAssumption DEF InsightsTypeOK
  <1>3. DismissalsLatest BY <1>1 DEF DismissalsLatest
  <1>4. OneGoalEach BY <1>1 DEF OneGoalEach
  <1>5. InsightsInv BY <1>2, <1>3, <1>4 DEF InsightsInv
  <1>6. CyclesTypeOK /\ cycles = <<>> /\ stored = NoState /\ lastMode = "reduced" /\ saved = 0
    <2>1. cycles \in Seq(Cycle) /\ queue \in Seq(Tasks) /\ Len(cycles) = 0 BY DEF CyclesInit
    <2>2. NoState \in State /\ Cardinality(NoState.memory) <= MaxEntries BY Defaults DEF Remembers
    <2>3. stored \in State /\ cache \in State /\ Cardinality(stored.memory) <= MaxEntries
      BY <2>2 DEF CyclesInit
    <2>4. Len(cycles) <= MaxCycles /\ restarts \in 0..MaxRestarts BY <2>1, CycleAssumption DEF CyclesInit
    <2>5. QED BY <2>1, <2>3, <2>4 DEF CyclesInit, CyclesTypeOK
  <1>7. UnderWay = {} /\ DOMAIN cycles = {} BY <1>6 DEF UnderWay
  <1>8. AcceptanceStats = [accepted |-> 0, rejected |-> 0]
    <2>1. \A action : {n \in DOMAIN feedback : feedback[n].action = action} = {} BY <1>1
    <2>2. \A action : Count(action) = 0 BY <2>1, FS_EmptySet DEF Count
    <2>3. QED BY <2>2 DEF AcceptanceStats
  <1>9. Agrees(Load) BY <1>6, <1>8 DEF Agrees, Load, DefaultState, NoState
  <1>10. OneInsightEach BY <1>1 DEF OneInsightEach, FindByKind, Stored
  <1>11. Calm BY <1>7, <1>9, <1>10 DEF Calm, Single, ScansApart
  <1>12. QED BY <1>5, <1>6, <1>7, <1>11 DEF CyclesInv

LEMMA ObserverBegins ==
    ASSUME CyclesInv, NEW trigger \in Triggers \ {"brief"}, NEW stage \in {"tasks", "finish"},
           NEW todo \in Seq(Tasks), Begun(trigger, stage, todo),
           queue' \in Seq(Tasks), ended' \subseteq Sessions, InsightsInv', QuietStep
    PROVE  CyclesInv'
  <1> DEFINE new == Len(cycles) + 1
             record == [trigger |-> trigger, stage |-> stage, state |-> WithEntry(Load, new),
                        todo |-> todo, left |-> {}]
  <1>1. /\ Len(cycles) < MaxCycles /\ cycles' = Append(cycles, record)
        /\ stored' \in {stored, Load} /\ cache' = Pruned(Load) /\ Overlapping
        /\ UNCHANGED <<probed, lapsed, lastMode, unread, saved, restarts>>
    BY DEF Begun, Load
  <1>2. new \in 1..MaxCycles BY <1>1, CyclesTyped, CycleAssumption DEF CyclesInv
  <1> DEFINE state == WithEntry(Load, new)
  <1>3. Remembers(Load) BY LoadRemembers DEF CyclesInv
  <1>4. /\ Remembers(state)
        /\ state.mode = Load.mode /\ state.version = Load.version /\ state.rate = Load.rate
    BY <1>2, <1>3, EntryRemembered
  <1>5. cache' \in State BY <1>1, <1>3, PrunedRemembers DEF Remembers
  <1>6. /\ record.trigger = trigger /\ record.stage = stage /\ record.state = state
        /\ record = [trigger |-> trigger, stage |-> stage, state |-> state, todo |-> todo, left |-> {}]
    OBVIOUS
  <1> HIDE DEF record, state, new
  <1>7. record \in Cycle BY <1>4, <1>6 DEF Cycle, Remembers
  <1>8. Fits(record) BY <1>4, <1>6 DEF Fits
  <1>9. unread' \in BOOLEAN BY <1>1 DEF CyclesInv, CyclesTypeOK
  <1>10. QED BY <1>1, <1>4, <1>5, <1>6, <1>7, <1>8, <1>9, CycleBegins

LEMMA SessionStartedKeeps == ASSUME CyclesInv, SessionStarted PROVE CyclesInv'
  <1>1. insight' = DeleteExpired(insight) /\ UNCHANGED <<goals, feedback, verdict, shown, ended>>
    BY DEF SessionStarted
  <1>2. InsightsInv' /\ QuietStep
    BY <1>1, ExpiredDeleted, QuietTableStep, InsightsAssumption DEF CyclesInv
  <1>3. queue \in Seq(Tasks) /\ ended' \subseteq Sessions BY <1>1 DEF CyclesInv, CyclesTypeOK
  <1>4. CASE Begun("session_started", "finish", <<>>) /\ UNCHANGED queue
    <2>1. "session_started" \in Triggers \ {"brief"} /\ <<>> \in Seq(Tasks) BY DEF Triggers
    <2>2. queue' \in Seq(Tasks) BY <1>3, <1>4
    <2>3. QED BY <1>2, <1>3, <1>4, <2>1, <2>2, ObserverBegins
  <1> DEFINE n == IF Len(queue) < MaxDrained THEN Len(queue) ELSE MaxDrained
  <1>5. CASE /\ Begun("session_started", "tasks", SubSeq(queue, 1, n))
             /\ queue' = SubSeq(queue, n + 1, Len(queue))
    <2>1. Len(queue) \in Nat /\ n \in 0..Len(queue) BY <1>3, CycleAssumption
    <2>2. \A q \in 1..Len(queue) : queue[q] \in Tasks BY <1>3
    <2> HIDE DEF n
    <2>3. SubSeq(queue, 1, n) \in Seq(Tasks)
      <3>1. 1 \in Int /\ n \in Int /\ \A q \in 1..n : queue[q] \in Tasks BY <2>1, <2>2
      <3>2. QED BY <3>1, SubSeqProperties
    <2>4. SubSeq(queue, n + 1, Len(queue)) \in Seq(Tasks)
      <3>1. n + 1 \in Int /\ Len(queue) \in Int /\ \A q \in (n + 1)..Len(queue) : queue[q] \in Tasks
        BY <2>1, <2>2
      <3>2. QED BY <3>1, SubSeqProperties
    <2>5. queue' \in Seq(Tasks) BY <1>5, <2>4
    <2>6. Begun("session_started", "tasks", SubSeq(queue, 1, n)) BY <1>5
    <2>7. "session_started" \in Triggers \ {"brief"} BY DEF Triggers
    <2>8. QED BY <1>2, <1>3, <2>3, <2>5, <2>6, <2>7, ObserverBegins
  <1>6. QED BY <1>4, <1>5 DEF SessionStarted

LEMMA SessionEndedKeeps ==
    ASSUME CyclesInv, NEW s \in Sessions, SessionEnded(s) PROVE CyclesInv'
  <1>1. InsightsInv' /\ QuietStep BY UnchangedStep, InsightsAssumption DEF SessionEnded, CyclesInv
  <1>2. queue \in Seq(Tasks) /\ ended \subseteq Sessions BY DEF CyclesInv, CyclesTypeOK
  <1>3. EnqueuedAtEnd \in Seq(Tasks) BY DEF EnqueuedAtEnd, Tasks
  <1>4. queue' \in Seq(Tasks) BY <1>2, <1>3 DEF SessionEnded
  <1>5. ended' \subseteq Sessions BY <1>2 DEF SessionEnded
  <1>6. Begun("session_ended", "finish", <<>>) BY DEF SessionEnded
  <1>7. "session_ended" \in Triggers \ {"brief"} /\ <<>> \in Seq(Tasks) BY DEF Triggers
  <1>8. QED BY <1>1, <1>4, <1>5, <1>6, <1>7, ObserverBegins

LEMMA ObservedKeeps == ASSUME CyclesInv, Observed PROVE CyclesInv'
  <1>1. InsightsInv' /\ QuietStep BY UnchangedStep, InsightsAssumption DEF Observed, CyclesInv
  <1>2. queue' \in Seq(Tasks) /\ ended' \subseteq Sessions BY DEF Observed, CyclesInv, CyclesTypeOK
  <1>3. Begun("message_received", "finish", <<>>) BY DEF Observed
  <1>4. "message_received" \in Triggers \ {"brief"} /\ <<>> \in Seq(Tasks) BY DEF Triggers
  <1>5. QED BY <1>1, <1>2, <1>3, <1>4, ObserverBegins

LEMMA BriefKeeps == ASSUME CyclesInv, Brief PROVE CyclesInv'
  <1>0. PICK left \in ScansFor :
          cycles' = Append(cycles, [trigger |-> "brief", stage |-> "scan", state |-> NoState,
                                   todo |-> <<>>, left |-> left])
    BY DEF Brief
  <1> DEFINE record == [trigger |-> "brief", stage |-> "scan", state |-> NoState, todo |-> <<>>, left |-> left]
  <1>1. /\ Len(cycles) < MaxCycles /\ cycles' = Append(cycles, record) /\ LeavesUnread /\ Overlapping
        /\ UNCHANGED <<stored, cache, probed, queue, ended, lapsed, lastMode, saved, restarts, insightVars>>
    BY <1>0 DEF Brief
  <1>2. InsightsInv' /\ QuietStep BY <1>1, UnchangedStep, InsightsAssumption DEF CyclesInv
  <1>3. NoState \in State /\ Remembers(NoState) BY Defaults DEF Remembers
  <1>4. left \subseteq Memories /\ (~unread' => left \cap Referred = {})
    BY <1>1, ScansFit DEF CyclesInv
  <1>5. ~unread' => record.left \cap Referred' = {} BY <1>2, <1>4 DEF QuietStep
  <1>6. record \in Cycle BY <1>3, <1>4 DEF Cycle, Triggers
  <1>7. Fits(record) BY <1>3 DEF Fits
  <1>8. record.trigger = "brief" OBVIOUS
  <1> HIDE DEF record
  <1>9. cache' \in State BY <1>1 DEF CyclesInv, CyclesTypeOK
  <1>10. queue' \in Seq(Tasks) /\ ended' \subseteq Sessions BY <1>1 DEF CyclesInv, CyclesTypeOK
  <1>11. unread' \in BOOLEAN /\ (unread => unread')
    BY <1>1 DEF LeavesUnread, CyclesInv, CyclesTypeOK
  <1>12. QED BY <1>1, <1>2, <1>5, <1>6, <1>7, <1>8, <1>9, <1>10, <1>11, CycleBegins

LEMMA SetModeKeeps ==
    ASSUME CyclesInv, NEW mode \in {"reduced", "steward"}, SetMode(mode), probed' \in BOOLEAN
    PROVE  CyclesInv'
  <1>1. /\ stored' = [Load EXCEPT !.mode = mode] /\ lastMode' = mode /\ Overlapping
        /\ UNCHANGED <<cache, queue, ended, cycles, lapsed, unread, saved, restarts, insightVars>>
    BY DEF SetMode
  <1>2. InsightsInv' /\ QuietStep BY <1>1, UnchangedStep, InsightsAssumption DEF CyclesInv
  <1>3. Remembers(Load) BY LoadRemembers DEF CyclesInv
  <1>4. /\ Remembers(stored') /\ stored'.mode = mode
        /\ stored'.version = Load.version /\ stored'.rate = Load.rate
    BY <1>1, <1>3 DEF Remembers, State
  <1>5. stored' # NoState BY <1>4 DEF NoState
  <1>6. Agrees(Load) => Agrees(stored)' /\ stored' # NoState BY <1>1, <1>2, <1>4, <1>5 DEF Agrees, QuietStep
  <1>7. OneInsightEach => OneInsightEach' BY <1>2 DEF QuietStep
  <1>8. QED BY <1>1, <1>2, <1>4, <1>6, <1>7, RowWritten

LEMMA ReviewKeeps ==
    ASSUME CyclesInv, NEW i \in DOMAIN insight, NEW action \in Reviews, Review(i, action)
    PROVE  CyclesInv'
  <1>1. ReviewInsight(i, action) /\ UNCHANGED <<cache, probed, queue, ended, cycles, lapsed, lastMode, unread, saved, restarts>>
    BY DEF Review
  <1>2. /\ InsightsInv'
        /\ OneInsightEach => OneInsightEach'
        /\ Referred' = Referred
        /\ action \notin {"accepted", "rejected"} => AcceptanceStats' = AcceptanceStats
    BY <1>1, ReviewStep, InsightsAssumption DEF CyclesInv
  <1>3. CyclesTypeOK BY DEF CyclesInv
  <1>4. CASE action \in {"accepted", "rejected"}
    <2>1. stored' = [Load EXCEPT !.rate = AcceptanceStats'] /\ Overlapping BY <1>4 DEF Review
    <2>2. AcceptanceStats' \in [accepted : Nat, rejected : Nat] BY <1>2, StatsTyped
    <2>3. Remembers(Load) /\ Load # NoState BY <1>3, LoadRemembers
    <2>4. /\ Remembers(stored') /\ stored'.rate = AcceptanceStats'
          /\ stored'.version = Load.version /\ stored'.mode = Load.mode
      BY <2>1, <2>2, <2>3 DEF Remembers, State
    <2>5. Agrees(Load) => stored'.mode # "none" BY <1>3, <2>4 DEF Agrees, CyclesTypeOK
    <2>6. Agrees(Load) => Agrees(stored)' /\ stored' # NoState BY <1>1, <2>4, <2>5 DEF Agrees, NoState
    <2>7. probed' \in BOOLEAN /\ lastMode' \in {"reduced", "steward"} BY <1>1, <1>3 DEF CyclesTypeOK
    <2>8. OneInsightEach => OneInsightEach' BY <1>2
    <2>9. InsightsInv' BY <1>2
    <2>10. QED BY <1>1, <2>1, <2>4, <2>6, <2>7, <2>8, <2>9, RowWritten
  <1>5. CASE action \notin {"accepted", "rejected"}
    <2>1. UNCHANGED <<stored, overlapped>> BY <1>5 DEF Review
    <2>2. QuietStep BY <1>2, <1>5 DEF QuietStep
    <2>3. lapsed' \subseteq 1..MaxCycles BY <1>1, <1>3 DEF CyclesTypeOK
    <2>4. InsightsInv' BY <1>2
    <2>5. QED BY <1>1, <2>1, <2>2, <2>3, <2>4, CyclesUntouched
  <1>6. QED BY <1>4, <1>5

LEMMA RestartKeeps == ASSUME CyclesInv, Restart PROVE CyclesInv'
  <1>1. /\ restarts < MaxRestarts /\ restarts' = restarts + 1
        /\ cycles' = [c \in DOMAIN cycles |-> [cycles[c] EXCEPT !.stage = "over"]]
        /\ cache' = NoState /\ probed' = FALSE
        /\ stored' = [Load EXCEPT !.mode = "reduced"] /\ lastMode' = "reduced"
        /\ UNCHANGED <<queue, ended, lapsed, overlapped, unread, saved, insightVars>>
    BY DEF Restart
  <1>2. InsightsInv' /\ QuietStep BY <1>1, UnchangedStep, InsightsAssumption DEF CyclesInv
  <1>3. /\ cycles \in Seq(Cycle) /\ Len(cycles) <= MaxCycles /\ Len(cycles) \in Nat
        /\ DOMAIN cycles = 1..Len(cycles) /\ \A c \in DOMAIN cycles : cycles[c] \in Cycle
    BY CyclesTyped DEF CyclesInv
  <1>4. \A c \in DOMAIN cycles : cycles'[c] = [cycles[c] EXCEPT !.stage = "over"] BY <1>1
  <1>5. \A c \in DOMAIN cycles :
          /\ cycles'[c] \in Cycle /\ cycles'[c].stage = "over" /\ cycles'[c].state = cycles[c].state
    BY <1>3, <1>4 DEF Cycle
  <1>6. cycles' \in Seq(Cycle) /\ Len(cycles') = Len(cycles) /\ DOMAIN cycles' = DOMAIN cycles
    <2>1. cycles' \in [1..Len(cycles) -> Cycle] BY <1>1, <1>3, <1>5
    <2>2. QED BY <1>3, <2>1
  <1>7. Remembers(Load) BY LoadRemembers DEF CyclesInv
  <1>8. /\ Remembers(stored') /\ stored'.mode = "reduced"
        /\ stored'.version = Load.version /\ stored'.rate = Load.rate
    BY <1>1, <1>7 DEF Remembers, State
  <1>9. stored' # NoState /\ NoState \in State BY <1>8, Defaults DEF NoState, Remembers
  <1>10. CyclesTypeOK'
    <2>1. Cardinality(stored'.memory) <= MaxEntries /\ stored' \in State BY <1>8 DEF Remembers
    <2>2. restarts' \in 0..MaxRestarts BY <1>1, CycleAssumption DEF CyclesInv, CyclesTypeOK
    <2>3. QED BY <1>1, <1>3, <1>6, <1>9, <2>1, <2>2 DEF CyclesInv, CyclesTypeOK
  <1>11. (\A c \in DOMAIN cycles : Fits(cycles[c]))'
    BY <1>5, <1>6 DEF CyclesInv, Fits, Remembers
  <1>12. ASSUME ~overlapped' PROVE Calm'
    <2>1. ~overlapped /\ Calm BY <1>1, <1>12 DEF CyclesInv
    <2>2. UnderWay' = {} BY <1>5, <1>6 DEF UnderWay
    <2>3. Single' BY <2>2 DEF Single
    <2>4. ScansApart' BY <1>5, <1>6 DEF ScansApart
    <2>5. Load' = stored' BY <1>9 DEF Load
    <2>6. Agrees(Load)' BY <1>1, <1>2, <1>8, <2>1, <2>5 DEF Agrees, Calm, QuietStep
    <2>7. ~unread' => OneInsightEach' BY <1>1, <1>2, <2>1 DEF QuietStep, Calm
    <2>8. QED BY <2>2, <2>3, <2>4, <2>6, <2>7 DEF Calm
  <1>13. QED BY <1>2, <1>10, <1>11, <1>12 DEF CyclesInv

LEMMA LapsesKeeps == ASSUME CyclesInv, NEW c \in DOMAIN cycles, Lapses(c) PROVE CyclesInv'
  <1>1. /\ lapsed' = lapsed \cup {c} /\ UNCHANGED insightVars
        /\ UNCHANGED <<stored, cache, probed, queue, ended, cycles, overlapped, lastMode, unread, saved, restarts>>
    BY DEF Lapses
  <1>2. InsightsInv' /\ QuietStep BY <1>1, UnchangedStep, InsightsAssumption DEF CyclesInv
  <1>3. c \in 1..MaxCycles BY CyclesTyped, CycleAssumption DEF CyclesInv
  <1>4. lapsed' \subseteq 1..MaxCycles BY <1>1, <1>3 DEF CyclesInv, CyclesTypeOK
  <1>5. QED BY <1>1, <1>2, <1>4, CyclesUntouched

LEMMA UnderWayTyped ==
    ASSUME CyclesInv, NEW c \in DOMAIN cycles, cycles[c].stage # "over"
    PROVE  c \in UnderWay /\ cycles[c] \in Cycle /\ Fits(cycles[c])
  BY CyclesTyped DEF CyclesInv, UnderWay

\* A task is done only by a cycle, and leaves the rest of its list.
LEMMA TaskEnds ==
    ASSUME CyclesInv, NEW c \in DOMAIN cycles, NEW task, Doing(c, task), Done(c), RestUnchanged,
           InsightsInv', QuietStep
    PROVE  CyclesInv'
  <1> DEFINE record == [cycles[c] EXCEPT !.todo = Tail(cycles[c].todo)]
  <1>1. Moves(c, record) BY DEF Done
  <1>2. cycles[c].stage = "tasks" /\ cycles[c].todo # <<>> BY DEF Doing, At
  <1>3. c \in UnderWay /\ cycles[c] \in Cycle /\ Fits(cycles[c]) BY <1>2, UnderWayTyped
  <1>4. Tail(cycles[c].todo) \in Seq(Tasks)
    <2>1. cycles[c].todo \in Seq(Tasks) BY <1>3 DEF Cycle
    <2>2. QED BY <1>2, <2>1, HeadTailProperties
  <1>5. /\ record \in Cycle /\ record.trigger = cycles[c].trigger
        /\ record.state = cycles[c].state /\ record.stage = "tasks"
    BY <1>2, <1>3, <1>4 DEF Cycle
  <1> HIDE DEF record
  <1>6. Fits(record) BY <1>2, <1>3, <1>5 DEF Fits
  <1>7. ~overlapped /\ ~unread' => OneInsightEach'
    BY DEF CyclesInv, Calm, QuietStep, RestUnchanged
  <1>8. AcceptanceStats' = AcceptanceStats BY DEF QuietStep
  <1>9. unread' \in BOOLEAN /\ unread' = unread /\ RowUnchanged BY DEF RestUnchanged, CyclesInv, CyclesTypeOK
  <1>10. QED BY <1>1, <1>3, <1>5, <1>6, <1>7, <1>8, <1>9, CycleMoves

LEMMA BeginScanKeeps == ASSUME CyclesInv, NEW c \in DOMAIN cycles, BeginScan(c) PROVE CyclesInv'
  <1>0. PICK left \in ScansFor : Moves(c, [cycles[c] EXCEPT !.stage = "scan", !.left = left])
    BY DEF BeginScan
  <1> DEFINE record == [cycles[c] EXCEPT !.stage = "scan", !.left = left]
  <1>1. Moves(c, record) /\ LeavesUnread /\ RowUnchanged /\ UNCHANGED insightVars
    BY <1>0 DEF BeginScan
  <1>2. cycles[c].stage = "tasks" /\ cycles[c].todo # <<>> BY DEF BeginScan, Doing, At
  <1>3. c \in UnderWay /\ cycles[c] \in Cycle /\ Fits(cycles[c]) BY <1>2, UnderWayTyped
  <1>4. InsightsInv' /\ QuietStep BY <1>1, UnchangedStep, InsightsAssumption DEF CyclesInv
  <1>5. left \subseteq Memories /\ (~unread' => left \cap Referred = {})
    BY <1>1, ScansFit DEF CyclesInv
  <1>6. /\ record \in Cycle /\ record.trigger = cycles[c].trigger /\ record.stage = "scan"
        /\ record.state = cycles[c].state /\ record.todo = cycles[c].todo /\ record.left = left
    BY <1>3, <1>5 DEF Cycle
  <1> HIDE DEF record
  <1>7. Fits(record) BY <1>2, <1>3, <1>6 DEF Fits
  <1>8. ~unread' => record.left \cap Referred' = {} BY <1>4, <1>5, <1>6 DEF QuietStep
  <1>9. ~overlapped /\ ~unread' => OneInsightEach'
    BY <1>1, <1>4 DEF LeavesUnread, CyclesInv, Calm, QuietStep
  <1>10. AcceptanceStats' = AcceptanceStats BY <1>4 DEF QuietStep
  <1>11. unread' \in BOOLEAN /\ (unread => unread') BY <1>1 DEF LeavesUnread, CyclesInv, CyclesTypeOK
  <1>12. QED BY <1>1, <1>3, <1>4, <1>6, <1>7, <1>8, <1>9, <1>10, <1>11, CycleMoves

LEMMA ScanEndsKeeps == ASSUME CyclesInv, NEW c \in DOMAIN cycles, ScanEnds(c) PROVE CyclesInv'
  <1>1. RestUnchanged /\ UNCHANGED insightVars /\ cycles[c].stage = "scan" BY DEF ScanEnds, At
  <1>2. c \in UnderWay /\ cycles[c] \in Cycle /\ Fits(cycles[c]) BY <1>1, UnderWayTyped
  <1>3. InsightsInv' /\ QuietStep BY <1>1, UnchangedStep, InsightsAssumption DEF CyclesInv
  <1>4. /\ ~overlapped /\ ~unread' => OneInsightEach'
        /\ unread' \in BOOLEAN /\ unread' = unread /\ RowUnchanged
    BY <1>1, <1>3 DEF CyclesInv, CyclesTypeOK, Calm, QuietStep, RestUnchanged
  <1>5. AcceptanceStats' = AcceptanceStats BY <1>3 DEF QuietStep
  <1>6. CASE cycles[c].trigger = "brief"
    <2> DEFINE record == [cycles[c] EXCEPT !.stage = "over"]
    <2>1. Moves(c, record) BY <1>6 DEF ScanEnds
    <2>2. /\ record \in Cycle /\ record.trigger = cycles[c].trigger /\ record.stage = "over"
          /\ record.state = cycles[c].state
      BY <1>2 DEF Cycle
    <2> HIDE DEF record
    <2>3. Fits(record) BY <1>2, <2>2 DEF Fits
    <2>4. QED BY <1>1, <1>2, <1>3, <1>4, <1>5, <2>1, <2>2, <2>3, CycleMoves
  <1>7. CASE cycles[c].trigger # "brief"
    <2> DEFINE record == [cycles[c] EXCEPT !.stage = "tasks", !.todo = Tail(cycles[c].todo)]
    <2>1. Moves(c, record) BY <1>7 DEF ScanEnds
    <2>2. Tail(cycles[c].todo) \in Seq(Tasks)
      <3>1. cycles[c].todo \in Seq(Tasks) /\ cycles[c].todo # <<>> BY <1>1, <1>2, <1>7 DEF Cycle, Fits
      <3>2. QED BY <3>1, HeadTailProperties
    <2>3. /\ record \in Cycle /\ record.trigger = cycles[c].trigger /\ record.stage = "tasks"
          /\ record.state = cycles[c].state
      BY <1>2, <2>2 DEF Cycle
    <2> HIDE DEF record
    <2>4. Fits(record) BY <1>2, <1>7, <2>3 DEF Fits
    <2>5. QED BY <1>1, <1>2, <1>3, <1>4, <1>5, <2>1, <2>3, <2>4, CycleMoves
  <1>8. QED BY <1>6, <1>7

LEMMA DeriveKeeps == ASSUME CyclesInv, NEW c \in DOMAIN cycles, Derive(c) PROVE CyclesInv'
  <1>1. /\ Doing(c, "goal_derivation") /\ DeriveGoals /\ Done(c)
        /\ RestUnchanged /\ UNCHANGED <<insight, feedback, verdict, shown>>
    BY DEF Derive
  <1>2. InsightsInv' /\ QuietStep BY <1>1, DeriveStep, InsightsAssumption DEF CyclesInv
  <1>3. QED BY <1>1, <1>2, TaskEnds

LEMMA Unchanging == ASSUME InsightsInv PROVE Quiet(insight)
  <1>1. insight = [i \in DOMAIN insight |-> insight[i]] BY TableTyped, InsightsAssumption
  <1>2. QED BY <1>1, TableTyped, InsightsAssumption DEF Quiet, Table

LEMMA ScanGapsKeeps == ASSUME CyclesInv, NEW c \in DOMAIN cycles, ScanGaps(c) PROVE CyclesInv'
  <1>1. /\ Doing(c, "knowledge_gap_scan") /\ Done(c)
        /\ RestUnchanged /\ UNCHANGED <<goals, feedback, verdict, shown>>
    BY DEF ScanGaps
  <1>2. PICK kinds \in {<<>>, <<"open_loop">>, <<"anomaly">>} :
          /\ Room(Len(kinds))
          /\ insight' = insight \o [n \in DOMAIN kinds |-> Gap(kinds[n])]
    BY DEF ScanGaps
  <1>3. kinds \in Seq({"open_loop", "anomaly"})
    <2>1. CASE kinds = <<>> BY <2>1
    <2>2. CASE kinds = <<"open_loop">> BY <2>2
    <2>3. CASE kinds = <<"anomaly">> BY <2>3
    <2>4. QED BY <2>1, <2>2, <2>3
  <1> DEFINE more == [n \in DOMAIN kinds |-> Gap(kinds[n])]
  <1>4. DOMAIN kinds = 1..Len(kinds) /\ Len(kinds) \in Nat
        /\ \A n \in DOMAIN kinds : kinds[n] \in {"open_loop", "anomaly"}
    BY <1>3
  <1>5. \A kind \in {"open_loop", "anomaly"} : Gap(kind) \in Row /\ Gap(kind).kind = kind
    BY DEF Gap, NewInsight, Row
  <1>6. more \in [1..Len(kinds) -> Row] BY <1>4, <1>5
  <1>7. more \in Seq(Row) /\ Len(more) = Len(kinds) /\ DOMAIN more = DOMAIN kinds BY <1>4, <1>6
  <1>8. \A n \in DOMAIN more : more[n].kind # "commitment" BY <1>4, <1>5
  <1>9. insight' = insight \o more /\ Room(Len(more)) BY <1>2, <1>7
  <1> HIDE DEF more
  <1>10. Quiet(insight) BY Unchanging DEF CyclesInv
  <1>11. Quiet(insight') BY <1>7, <1>8, <1>9, <1>10, RowsAppended, InsightsAssumption DEF CyclesInv
  <1>12. InsightsInv' /\ QuietStep BY <1>1, <1>11, QuietTableStep, InsightsAssumption DEF CyclesInv
  <1>13. QED BY <1>1, <1>12, TaskEnds

LEMMA TasksEndKeeps == ASSUME CyclesInv, NEW c \in DOMAIN cycles, TasksEnd(c) PROVE CyclesInv'
  <1> DEFINE record == [cycles[c] EXCEPT !.stage = "finish"]
  <1>1. /\ Moves(c, record) /\ cycles[c].stage = "tasks"
        /\ RestUnchanged /\ UNCHANGED <<goals, feedback, verdict, shown>>
    BY DEF TasksEnd, At
  <1>2. c \in UnderWay /\ cycles[c] \in Cycle /\ Fits(cycles[c]) BY <1>1, UnderWayTyped
  <1>3. PICK produced \in {<<>>, <<NewInsight("anomaly", NoMemory, "fresh")>>} :
          Room(Len(produced)) /\ insight' = MarkSurfaced(insight, FindFresh) \o produced
    BY DEF TasksEnd
  <1> DEFINE found == NewInsight("anomaly", NoMemory, "fresh")
  <1>4. found \in Row /\ found.kind # "commitment" BY DEF NewInsight, Row
  <1>5. produced = <<>> \/ produced = <<found>> OBVIOUS
  <1> HIDE DEF found
  <1>6. produced \in Seq(Row) /\ \A n \in DOMAIN produced : produced[n].kind # "commitment"
    <2>1. CASE produced = <<>> BY <2>1
    <2>2. CASE produced = <<found>> BY <1>4, <2>2
    <2>3. QED BY <1>5, <2>1, <2>2
  <1>7. Quiet(MarkSurfaced(insight, FindFresh)) /\ Len(MarkSurfaced(insight, FindFresh)) = Len(insight)
    BY SurfacedMarked, InsightsAssumption DEF CyclesInv
  <1>8. Quiet(insight') BY <1>3, <1>6, <1>7, RowsAppended, InsightsAssumption DEF CyclesInv
  <1>9. InsightsInv' /\ QuietStep BY <1>1, <1>8, QuietTableStep, InsightsAssumption DEF CyclesInv
  <1>10. /\ record \in Cycle /\ record.trigger = cycles[c].trigger /\ record.stage = "finish"
         /\ record.state = cycles[c].state
    BY <1>2 DEF Cycle
  <1>11. cycles[c].trigger # "brief" BY <1>1, <1>2 DEF Fits
  <1> HIDE DEF record
  <1>12. Fits(record) BY <1>2, <1>10, <1>11 DEF Fits
  <1>13. /\ ~overlapped /\ ~unread' => OneInsightEach'
         /\ unread' \in BOOLEAN /\ unread' = unread /\ RowUnchanged
    BY <1>1, <1>9 DEF CyclesInv, CyclesTypeOK, Calm, QuietStep, RestUnchanged
  <1>14. AcceptanceStats' = AcceptanceStats BY <1>9 DEF QuietStep
  <1>15. QED BY <1>1, <1>2, <1>9, <1>10, <1>12, <1>13, <1>14, CycleMoves

LEMMA InsertCommitmentKeeps ==
    ASSUME CyclesInv, NEW c \in DOMAIN cycles, NEW m \in Memories, InsertCommitment(c, m)
    PROVE  CyclesInv'
  <1> DEFINE record == [cycles[c] EXCEPT !.left = cycles[c].left \ {m}]
  <1>1. /\ Moves(c, record) /\ cycles[c].stage = "scan" /\ m \in cycles[c].left /\ Room(1)
        /\ insight' = Append(insight, Commitment(m))
        /\ RestUnchanged /\ UNCHANGED <<goals, feedback, verdict, shown>>
    BY DEF InsertCommitment, At
  <1>2. c \in UnderWay /\ cycles[c] \in Cycle /\ Fits(cycles[c]) BY <1>1, UnderWayTyped
  <1>3. /\ record \in Cycle /\ record.trigger = cycles[c].trigger /\ record.stage = "scan"
        /\ record.state = cycles[c].state /\ record.todo = cycles[c].todo
        /\ record.left = cycles[c].left \ {m}
    BY <1>1, <1>2 DEF Cycle
  <1> HIDE DEF record
  <1>4. Fits(record) BY <1>1, <1>2, <1>3 DEF Fits
  <1>5. /\ Commitment(m) \in Row /\ Commitment(m).kind = "commitment" /\ Commitment(m).about = m
        /\ Commitment(m).life = "fresh"
    BY DEF Commitment, NewInsight, Row
  <1> DEFINE last == Len(insight) + 1
  <1>6. insight \in Seq(Row) /\ Len(insight) \in Nat /\ DOMAIN insight = 1..Len(insight)
    BY TableTyped, InsightsAssumption DEF CyclesInv
  <1>7. /\ insight' \in Seq(Row) /\ Len(insight') = last /\ DOMAIN insight' = 1..last
        /\ \A i \in DOMAIN insight : insight'[i] = insight[i]
        /\ insight'[last] = Commitment(m)
    BY <1>1, <1>5, <1>6
  <1>8. DOMAIN insight' = DOMAIN insight \cup {last} BY <1>6, <1>7
  <1>9. Table(insight') BY <1>1, <1>7 DEF Table, Room
  <1>10. InsightsInv' /\ AcceptanceStats' = AcceptanceStats
    BY <1>1, <1>9, TableStep, InsightsAssumption DEF CyclesInv
  <1>11. /\ \A i \in FindByKind("commitment")' : i \in FindByKind("commitment") \/ i = last
         /\ \A i \in FindByKind("commitment") : insight'[i] = insight[i]
         /\ insight'[last].about = m
    <2>1. ASSUME NEW i \in FindByKind("commitment")', i # last PROVE i \in FindByKind("commitment")
      <3>1. i \in DOMAIN insight /\ insight'[i] = insight[i] BY <1>7, <1>8, <2>1 DEF FindByKind, Stored
      <3>2. QED BY <2>1, <3>1 DEF FindByKind, Stored
    <2>2. \A i \in FindByKind("commitment") : insight'[i] = insight[i] BY <1>7 DEF FindByKind, Stored
    <2>3. QED BY <1>5, <1>7, <2>1, <2>2
  <1> HIDE DEF last
  <1>12. ASSUME ~overlapped, ~unread PROVE OneInsightEach' /\ record.left \cap Referred' = {}
    <2>1. OneInsightEach /\ ScansApart BY <1>12 DEF CyclesInv, Calm
    <2>2. cycles[c].left \cap Referred = {} BY <1>1, <2>1 DEF ScansApart
    <2>3. \A i \in FindByKind("commitment") : insight[i].about \in Referred BY DEF Referred, CommitmentRefs
    <2>4. \A i \in FindByKind("commitment") : insight'[i].about # m BY <1>1, <1>11, <2>2, <2>3
    <2>5. OneInsightEach' BY <1>11, <2>1, <2>4 DEF OneInsightEach
    <2>6. \A x \in Referred' : x \in Referred \/ x = m BY <1>11 DEF Referred, CommitmentRefs
    <2>7. QED BY <1>3, <2>2, <2>5, <2>6
  <1>13. unread' \in BOOLEAN /\ unread' = unread /\ RowUnchanged
    BY <1>1 DEF RestUnchanged, CyclesInv, CyclesTypeOK
  <1>14. QED BY <1>1, <1>2, <1>3, <1>4, <1>10, <1>12, <1>13, CycleMoves

LEMMA FinishKeeps == ASSUME CyclesInv, NEW c \in DOMAIN cycles, Finish(c) PROVE CyclesInv'
  <1> DEFINE finished == [cycles[c].state EXCEPT !.version = cycles[c].state.version + 1]
             record == [cycles[c] EXCEPT !.stage = "over"]
  <1>1. /\ cycles[c].stage = "finish" /\ stored' = finished /\ cache' = finished /\ saved' = saved + 1
        /\ cycles' = [cycles EXCEPT ![c] = record]
        /\ UNCHANGED <<probed, queue, ended, lapsed, overlapped, lastMode, unread, restarts, insightVars>>
    BY DEF Finish, At, Moves
  <1>2. c \in UnderWay /\ cycles[c] \in Cycle /\ Fits(cycles[c]) BY <1>1, UnderWayTyped
  <1>3. InsightsInv' /\ QuietStep BY <1>1, UnchangedStep, InsightsAssumption DEF CyclesInv
  <1> DEFINE state == cycles[c].state
  <1>4. Remembers(state) BY <1>2 DEF Fits
  <1>5. finished = [state EXCEPT !.version = state.version + 1] OBVIOUS
  <1>6. record \in Cycle /\ record.stage = "over" /\ record.state = state BY <1>2 DEF Cycle
  <1> HIDE DEF finished, record, state
  <1>7. /\ Remembers(finished) /\ finished.version = state.version + 1
        /\ finished.mode = state.mode /\ finished.rate = state.rate
    BY <1>4, <1>5 DEF Remembers, State
  <1>8. cycles \in Seq(Cycle) /\ Len(cycles) <= MaxCycles BY CyclesTyped DEF CyclesInv
  <1>9. /\ cycles' \in Seq(Cycle) /\ Len(cycles') = Len(cycles) /\ DOMAIN cycles' = DOMAIN cycles
        /\ \A d \in DOMAIN cycles : cycles'[d] = IF d = c THEN record ELSE cycles[d]
    BY <1>1, <1>6, <1>8
  <1>10. CyclesTypeOK'
    <2>1. Cardinality(stored'.memory) <= MaxEntries /\ stored' \in State /\ cache' \in State
      BY <1>1, <1>7 DEF Remembers
    <2>2. saved' \in Nat BY <1>1 DEF CyclesInv, CyclesTypeOK
    <2>3. QED BY <1>1, <1>8, <1>9, <2>1, <2>2 DEF CyclesInv, CyclesTypeOK
  <1>11. (\A d \in DOMAIN cycles : Fits(cycles[d]))'
    <2>1. Fits(record) BY <1>4, <1>6 DEF Fits
    <2>2. \A d \in DOMAIN cycles' : Fits(cycles'[d]) BY <1>9, <2>1 DEF CyclesInv
    <2>3. QED BY <2>2 DEF Fits, Remembers
  <1>12. ASSUME ~overlapped' PROVE Calm'
    <2>1. ~overlapped /\ Calm BY <1>1, <1>12 DEF CyclesInv
    <2>2. \A d \in UnderWay : d = c BY <1>2, <2>1 DEF Calm, Single
    <2>3. UnderWay' = {} BY <1>6, <1>9, <2>2 DEF UnderWay
    <2>4. Single' BY <2>3 DEF Single
    <2>5. ScansApart' BY <2>3 DEF ScansApart, UnderWay
    <2>6. cycles[c].trigger # "brief" BY <1>1, <1>2 DEF Fits
    <2>7. Agrees(state) BY <1>2, <2>1, <2>6 DEF Calm, state
    <2>8. Agrees(stored)' BY <1>1, <1>3, <1>7, <2>7 DEF Agrees, QuietStep
    <2>9. stored'.mode # "none" BY <1>1, <1>7, <2>7 DEF Agrees, CyclesInv, CyclesTypeOK
    <2>10. Load' = stored' BY <2>9 DEF Load, NoState
    <2>11. Agrees(Load)' BY <2>8, <2>10 DEF Agrees
    <2>12. ~unread' => OneInsightEach' BY <1>1, <1>3, <2>1 DEF QuietStep, Calm
    <2>13. QED BY <2>3, <2>4, <2>5, <2>11, <2>12 DEF Calm
  <1>13. QED BY <1>3, <1>10, <1>11, <1>12 DEF CyclesInv

LEMMA InsightsMove ==
    ASSUME CyclesInv, UNCHANGED stateVars,
           \/ Present \/ ListInsights \/ TimePasses
           \/ \E g \in DOMAIN goals : CompleteGoal(g)
    PROVE  CyclesInv'
  <1>1. InsightsInv' /\ QuietStep
    BY PresentStep, ListStep, TimeStep, CompleteStep, InsightsAssumption DEF CyclesInv
  <1>2. /\ UNCHANGED <<stored, cache, probed, queue, ended, cycles, overlapped, lastMode, unread, saved, restarts>>
        /\ lapsed' = lapsed
    BY DEF stateVars
  <1>3. lapsed' \subseteq 1..MaxCycles BY <1>2 DEF CyclesInv, CyclesTypeOK
  <1>4. QED BY <1>1, <1>2, <1>3, CyclesUntouched

LEMMA CyclesStep == CyclesInv /\ [CycleNext]_cycleVars => CyclesInv'
  <1> SUFFICES ASSUME CyclesInv, [CycleNext]_cycleVars PROVE CyclesInv'
    OBVIOUS
  <1>1. CASE Observed \/ Tick BY <1>1, ObservedKeeps DEF Tick
  <1>2. CASE SessionStarted BY <1>2, SessionStartedKeeps
  <1>3. CASE Brief BY <1>3, BriefKeeps
  <1>4. CASE \E s \in Sessions : SessionEnded(s) BY <1>4, SessionEndedKeeps
  <1>5. CASE Tune \/ ProbeSucceeds
    <2>1. probed' \in BOOLEAN BY <1>5 DEF Tune, ProbeSucceeds, CyclesInv, CyclesTypeOK
    <2>2. QED BY <1>5, <2>1, SetModeKeeps DEF Tune, ProbeSucceeds
  <1>6. CASE Restart BY <1>6, RestartKeeps
  <1>7. ASSUME NEW c \in DOMAIN cycles,
               \/ BeginScan(c) \/ ScanEnds(c) \/ Derive(c) \/ ScanGaps(c) \/ TasksEnd(c)
               \/ Finish(c) \/ Lapses(c)
               \/ \E m \in Memories : InsertCommitment(c, m)
        PROVE  CyclesInv'
    BY <1>7, BeginScanKeeps, ScanEndsKeeps, DeriveKeeps, ScanGapsKeeps, TasksEndKeeps, FinishKeeps,
       LapsesKeeps, InsertCommitmentKeeps
  <1>8. CASE \E i \in DOMAIN insight, action \in Reviews : Review(i, action) BY <1>8, ReviewKeeps
  <1>9. CASE UNCHANGED stateVars /\ \/ Present \/ ListInsights \/ TimePasses
                                    \/ \E g \in DOMAIN goals : CompleteGoal(g)
    BY <1>9, InsightsMove
  <1>10. CASE UNCHANGED cycleVars
    <2>1. UNCHANGED insightVars /\ UNCHANGED stateVars BY <1>10 DEF cycleVars
    <2>2. InsightsInv' /\ QuietStep BY <2>1, UnchangedStep, InsightsAssumption DEF CyclesInv
    <2>3. /\ UNCHANGED <<stored, cache, probed, queue, ended, cycles, overlapped, lastMode, unread, saved, restarts>>
          /\ lapsed' \subseteq 1..MaxCycles
      BY <2>1 DEF stateVars, CyclesInv, CyclesTypeOK
    <2>4. QED BY <2>2, <2>3, CyclesUntouched
  <1>11. QED BY <1>1, <1>2, <1>3, <1>4, <1>5, <1>6, <1>7, <1>8, <1>9, <1>10 DEF CycleNext

\* For any number of cycles, sessions, insights and reviews: the tables, the row
\* and the cycles keep their types, and the row that is stored never remembers
\* more than MAX_WORKING_MEMORY_ENTRIES cycles (ButlerStateManager).
THEOREM CyclesTypeCorrect == CycleSpec => [](InsightsTypeOK /\ CyclesTypeOK)
  <1>1. CyclesInv => InsightsTypeOK /\ CyclesTypeOK BY DEF CyclesInv, InsightsInv
  <1>2. QED BY <1>1, CyclesStart, CyclesStep, PTL DEF CycleSpec

\* As long as cycles, scans and tools did not overlap, none of their effects is
\* lost and none happens twice, through restarts and whatever expires; and no
\* insight ever gets two active goals (ButlerAgent.runCycle, CommitmentWatcher).
THEOREM LossesNeedOverlap == CycleSpec => []OnlyOverlapLoses
  <1>1. CyclesInv => OnlyOverlapLoses
    BY DEF CyclesInv, InsightsInv, OnlyOverlapLoses, RowUpToDate, Calm, Agrees, Load
  <1>2. QED BY <1>1, CyclesStart, CyclesStep, PTL DEF CycleSpec

\* Whatever is reviewed, pruned, surfaced and run out in between, an insight
\* whose last review dismissed it is not shown (AttentionService).
THEOREM DismissalsLast == CycleSpec => DismissedStaysAway
  <1>1. CyclesInv /\ [CycleNext]_cycleVars =>
          [Present => \A i \in shown' : verdict[i] # "dismissed"]_insightVars
    BY PresentStep, InsightsAssumption DEF CyclesInv
  <1>2. QED BY <1>1, CyclesStart, CyclesStep, PTL DEF CycleSpec, DismissedStaysAway
=============================================================================
