---------------------------- MODULE AutoCapture ----------------------------
(***************************************************************************)
(* What a turn is remembered by when a session ends                        *)
(* (core/memory/autoCaptureEval.ts): at most one memory of each kind.      *)
(*                                                                         *)
(* A turn has three texts, what was asked, done and reached, each known by *)
(* the families of patterns found in it ("words" for a text in which none  *)
(* is, the empty set for no text); the type of the intent and the signals  *)
(* of the intent and the experience (hints); whether its scope names a     *)
(* project; and the recommendation of the reflection, a text like the      *)
(* others.  Texts are taken to be long enough to be worth keeping.         *)
(***************************************************************************)
EXTENDS Sequences, SequencesExt, FiniteSets

Kinds == <<"project_state", "decision", "explicit_constraint",
           "user_preference", "next_step", "project_summary">>

Texts == {"input", "action", "outcome"}

Spoken(turn) == {t \in Texts : turn[t] # {}}

Combined(turn) == UNION {turn[t] : t \in Texts}

ProjectLike(turn) ==
    turn.project \/ "project" \in Combined(turn) \/ turn.intent \in {"planning", "status_update"}

CorrectionHint(turn) ==
    turn.intent = "correction" \/ "correction" \in turn.input \/ "corrected" \in turn.hints

ConstraintHint(turn) ==
    CorrectionHint(turn) \/ "constraint" \in Combined(turn) \/ turn.recommendation # {}

PreferenceHint(turn) ==
    turn.intent = "preference" \/ "preference" \in turn.hints \/ "preference" \in Combined(turn)

DecisionHint(turn) == "decision" \in Combined(turn)

\* deriveNextStep finds something.
NextStep(turn) == turn.recommendation # {} \/ "next_step" \in Combined(turn)

TellingOutcome(turn) == turn.outcome # {} /\ "generic" \notin turn.outcome

RecentDecision(turn) ==
    IF DecisionHint(turn) THEN turn.action # {} \/ turn.input # {} ELSE TellingOutcome(turn)

ProjectSigns == {"status", "compact"}

ProjectStatus(turn) == ProjectSigns \cap (turn.input \cup turn.action) # {} \/ TellingOutcome(turn)

\* The fields of a summary that have something to say.
SummaryFields(turn) ==
    {f \in {"status", "constraint", "decision", "next_step"} :
        CASE f = "status" -> ProjectStatus(turn)
          [] f = "constraint" -> ConstraintHint(turn)
          [] f = "decision" -> RecentDecision(turn)
          [] f = "next_step" -> NextStep(turn)}

CompactProject(turn) ==
    /\ turn.project /\ turn.input # {} /\ turn.action # {}
    /\ ProjectSigns \cap (turn.input \cup turn.action) # {}

\* buildAutoMemoryCandidates: which kinds of memory the turn calls for.
Called(turn) ==
    {k \in ToSet(Kinds) :
        CASE k = "project_state" -> ProjectLike(turn)
          [] k = "decision" -> DecisionHint(turn) /\ turn.action # {}
          [] k = "explicit_constraint" -> ConstraintHint(turn)
          [] k = "user_preference" -> PreferenceHint(turn) /\ turn.input # {}
          [] k = "next_step" -> NextStep(turn)
          [] k = "project_summary" ->
                /\ ProjectLike(turn) /\ ProjectStatus(turn)
                /\ Cardinality(SummaryFields(turn)) >= 2 \/ CompactProject(turn)}

\* evaluateCandidateQuality of what is written, the label of its kind
\* included: those of decisions and next steps have what is looked for, and a
\* constraint that is only in what was done or reached is not written.
GoodEnough(turn, k) ==
    CASE k = "project_state" -> Cardinality(Spoken(turn)) >= 2
      [] k = "explicit_constraint" -> "constraint" \in turn.recommendation \cup turn.input
      [] k = "user_preference" -> "preference" \in turn.input
      [] k = "project_summary" -> Cardinality(SummaryFields(turn)) >= 3
      [] OTHER -> TRUE

\* The kinds kept, in the order in which they are stored.
Captured(turn) ==
    IF Spoken(turn) = {} \/ "test_noise" \in Combined(turn) THEN <<>>
    ELSE SelectSeq(Kinds, LAMBDA k : k \in Called(turn) /\ GoodEnough(turn, k))

\* The type, the lifecycle and the source that each kind is stored with.
CapturedAs(k) ==
    [type |-> CASE k = "project_state" -> "project" [] k = "decision" -> "decision"
                [] k = "explicit_constraint" -> "constraint" [] k = "user_preference" -> "preference"
                [] k = "next_step" -> "commitment" [] k = "project_summary" -> "summary",
     lifecycle |-> IF k = "project_state" THEN "episodic" ELSE "semantic",
     explicitness |-> "none",
     source |-> CASE k = "user_preference" -> "runtime_user"
                  [] k = "explicit_constraint" -> "reflection_derived"
                  [] OTHER -> "runtime_project"]
=============================================================================
