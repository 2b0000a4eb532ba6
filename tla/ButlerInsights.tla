---------------------------- MODULE ButlerInsights ----------------------------
(***************************************************************************)
(* What the Butler knows beside the memory: the tables butler_insights,    *)
(* butler_goals and butler_feedback, who writes them (the commitment       *)
(* watcher, the producers, the gap detector, the goal service, the review  *)
(* tool) and what the attention service shows of them.                     *)
(*                                                                         *)
(* Every operation here runs without an await; the scans of the watcher,   *)
(* which do await, are in ButlerCycle.  An insight is named by its place   *)
(* in the table, and a deleted one keeps its place, as does a review that  *)
(* is pruned: ids are never used twice.  Time is the moment at which a row *)
(* stops being fresh, a cooldown ends or a snooze ends, in any order.      *)
(*                                                                         *)
(* Scores are reduced to what selects an insight: those about a memory of  *)
(* Critical have importance 0.9 or more, those about one of Vague less     *)
(* confidence than attention.minConfidence.  Of the limits of the queries  *)
(* those of findByKind are kept; no instance has more fresh insights than  *)
(* those of findFresh and of the attention service.                        *)
(***************************************************************************)
EXTENDS Naturals, Sequences, FiniteSetsExt

CONSTANTS
    Memories,       \* memories that read like a commitment
    Critical,       \* those of high importance
    Vague,          \* those of little confidence
    ExistingLimit,  \* EXISTING_LIMIT of the watcher (200)
    DeriveLimit,    \* commitments the goal service reads (20)
    MaxInsights,    \* bound on the insights of a run
    MaxGoals,       \* bound on its goals
    MaxFeedback     \* bound on its reviews

ASSUME InsightsAssumption ==
    /\ Critical \subseteq Memories /\ Vague \subseteq Memories
    /\ ExistingLimit \in Nat /\ DeriveLimit \in Nat
    /\ MaxInsights \in Nat /\ MaxGoals \in Nat /\ MaxFeedback \in Nat

VARIABLES
    insight,    \* butler_insights
    goals,      \* butler_goals
    feedback,   \* butler_feedback, in order of creation
    verdict,    \* the last review of each insight (not in the code)
    shown       \* the insights put before the user last (not in the code)

insightVars == <<insight, goals, feedback, verdict, shown>>

NoMemory == "no memory"
Row == [kind : {"commitment", "open_loop", "anomaly"}, about : Memories \cup {NoMemory},
        life : {"fresh", "expired", "endless", "deleted"}, cooling : BOOLEAN]
Goal == [from : 1..MaxInsights, status : {"active", "completed"}]
Reviews == {"accepted", "rejected", "snoozed", "dismissed"}
Feedback == [on : 1..MaxInsights, action : Reviews \cup {"pruned"}, running : BOOLEAN]

InsightsTypeOK ==
    /\ insight \in Seq(Row) /\ Len(insight) <= MaxInsights
    /\ goals \in Seq(Goal) /\ Len(goals) <= MaxGoals
    /\ feedback \in Seq(Feedback) /\ Len(feedback) <= MaxFeedback
    /\ verdict \in [1..MaxInsights -> Reviews \cup {"none"}]
    /\ shown \subseteq 1..MaxInsights

InsightsInit ==
    /\ insight = <<>> /\ goals = <<>> /\ feedback = <<>>
    /\ verdict = [i \in 1..MaxInsights |-> "none"] /\ shown = {}

-----------------------------------------------------------------------------
(***************************************************************************)
(* The table of insights                                                   *)
(***************************************************************************)

Stored == {i \in DOMAIN insight : insight[i].life # "deleted"}
FindFresh == {i \in DOMAIN insight : insight[i].life = "fresh"}
FindByKind(kind) == {i \in Stored : insight[i].kind = kind}

\* What a query may return that orders these rows by importance and stops at
\* its limit.
Foremost(rows, limit) ==
    {read \in SUBSET rows :
        /\ Cardinality(read) = Min({limit, Cardinality(rows)})
        /\ \A i \in read, j \in rows \ read : insight[j].about \in Critical => insight[i].about \in Critical}

\* An anomaly inserted without a time to expire is never fresh and never deleted.
NewInsight(kind, about, life) == [kind |-> kind, about |-> about, life |-> life, cooling |-> FALSE]
Commitment(m) == NewInsight("commitment", m, "fresh")
Gap(kind) == NewInsight(kind, NoMemory, IF kind = "anomaly" THEN "endless" ELSE "fresh")
Room(n) == Len(insight) + n <= MaxInsights

DeleteExpired(rows) ==
    [i \in DOMAIN rows |-> IF rows[i].life = "expired" THEN [rows[i] EXCEPT !.life = "deleted"] ELSE rows[i]]
MarkSurfaced(rows, ids) == [i \in DOMAIN rows |-> [rows[i] EXCEPT !.cooling = @ \/ i \in ids]]

\* The memories that have an insight among those read, expired or not.
CommitmentRefs(read) == {insight[i].about : i \in read}

-----------------------------------------------------------------------------
(***************************************************************************)
(* Goals                                                                   *)
(***************************************************************************)

FindActive == {g \in DOMAIN goals : goals[g].status = "active"}
NewGoal(i) == [from |-> i, status |-> "active"]

Seen == {goals[g].from : g \in FindActive}
Derivable == {read \ Seen : read \in Foremost(FindByKind("commitment"), DeriveLimit)}

\* deriveGoalsFromInsights, one goal per candidate.
DeriveGoals == \E candidates \in Derivable :
    /\ Len(goals) + Cardinality(candidates) <= MaxGoals
    /\ \E new \in [1..Cardinality(candidates) -> candidates] :
        /\ \A a, b \in DOMAIN new : a < b => new[a] < new[b]
        /\ goals' = goals \o [n \in DOMAIN new |-> NewGoal(new[n])]

CompleteGoal(g) ==
    /\ g \in FindActive
    /\ goals' = [goals EXCEPT ![g].status = "completed"]
    /\ UNCHANGED <<insight, feedback, verdict, shown>>

-----------------------------------------------------------------------------
(***************************************************************************)
(* Feedback and attention                                                  *)
(***************************************************************************)

About(i) == {n \in DOMAIN feedback : feedback[n].on = i /\ feedback[n].action # "pruned"}

NoReview == [on |-> 0, action |-> "none", running |-> FALSE]

\* Mutant of Latest: the first review of an insight decides.
Oldest(i) == IF About(i) = {} THEN NoReview ELSE feedback[Min(About(i))]

\* getLatestFeedback
Latest(i) == IF About(i) = {} THEN NoReview ELSE feedback[Max(About(i))]

IsDismissed(i) == Latest(i).action = "dismissed"
IsSnoozed(i) == Latest(i).action = "snoozed" /\ Latest(i).running
IsBlocked(i) == IsSnoozed(i) \/ IsDismissed(i)

\* pruneExpired: a snooze that has ended is forgotten, and an older review decides again.
PruneExpired ==
    [n \in DOMAIN feedback |->
        IF feedback[n].action = "snoozed" /\ ~feedback[n].running
        THEN [feedback[n] EXCEPT !.action = "pruned"] ELSE feedback[n]]

ShouldForceSurface(i) == insight[i].about \in Critical /\ ~IsBlocked(i)
ShouldSurface(i) == insight[i].about \notin Vague /\ ~IsBlocked(i) /\ ~insight[i].cooling
TopInsights == {i \in FindFresh : ShouldSurface(i)}
CriticalInsights == {i \in FindFresh : ShouldForceSurface(i)} \cup TopInsights

\* The watchlist and the overlay that a message brings up.  Nothing is marked
\* as surfaced by it.
Present ==
    /\ shown' = CriticalInsights
    /\ UNCHANGED <<insight, goals, feedback, verdict>>

\* butlerReview: list, or the review of an insight.  What has ended is pruned
\* even when the insight is no longer there and the call fails.
ListInsights ==
    /\ feedback' = PruneExpired
    /\ UNCHANGED <<insight, goals, verdict, shown>>

ReviewInsight(i, action) ==
    /\ Len(feedback) < MaxFeedback
    /\ i \in Stored
    /\ feedback' = Append(PruneExpired, [on |-> i, action |-> action, running |-> action = "snoozed"])
    /\ verdict' = [verdict EXCEPT ![i] = action]
    /\ UNCHANGED <<insight, goals, shown>>

\* getAcceptanceStats
Count(action) == Cardinality({n \in DOMAIN feedback : feedback[n].action = action})
AcceptanceStats == [accepted |-> Count("accepted"), rejected |-> Count("rejected")]

-----------------------------------------------------------------------------
(***************************************************************************)
(* Time                                                                    *)
(***************************************************************************)

Expires(i) ==
    /\ insight[i].life = "fresh"
    /\ insight' = [insight EXCEPT ![i].life = "expired"]
    /\ UNCHANGED <<goals, feedback, verdict, shown>>

CoolsDown(i) ==
    /\ insight[i].cooling
    /\ insight' = [insight EXCEPT ![i].cooling = FALSE]
    /\ UNCHANGED <<goals, feedback, verdict, shown>>

SnoozeEnds(n) ==
    /\ feedback[n].running
    /\ feedback' = [feedback EXCEPT ![n].running = FALSE]
    /\ UNCHANGED <<insight, goals, verdict, shown>>

TimePasses ==
    \/ \E i \in DOMAIN insight : Expires(i) \/ CoolsDown(i)
    \/ \E n \in DOMAIN feedback : SnoozeEnds(n)

-----------------------------------------------------------------------------
(***************************************************************************)
(* Properties                                                              *)
(***************************************************************************)

\* What the user dismissed is not put before him again until he reviews it
\* anew: pruning ended snoozes, the cooldown and the importance of the
\* insight never bring it back.
DismissedStaysAway ==
    [][Present => \A i \in shown' : verdict[i] # "dismissed"]_insightVars

\* An insight has at most one active goal, however often goals are derived
\* and completed.
OneGoalEach ==
    \A a, b \in DOMAIN goals :
        a # b /\ goals[a].from = goals[b].from => "completed" \in {goals[a].status, goals[b].status}
=============================================================================
