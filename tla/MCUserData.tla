------------------------------- MODULE MCUserData -------------------------------
(***************************************************************************)
(* Instances, for TLC, of what the engine keeps of its users besides the   *)
(* memories.  A behaviour has one of six focuses: "memories" (what changes *)
(* a profile), "hints" (onboarding and rules), "transfer" (imports),       *)
(* "migrations", "feedback" and "evolution"; the rest stays as it is.      *)
(***************************************************************************)
EXTENDS DataTransfer, Migrations, RetrievalFeedback, Evolution

VARIABLE focus

Row(u, value, source) == [user |-> u, key |-> "k", value |-> value, source |-> source, live |-> TRUE]

Text(value, left, signs, wrapped) ==
    [key |-> "k", value |-> value, left |-> left, signs |-> signs, wrapped |-> wrapped]
Given(type, explicitness, source) ==
    [type |-> type, lifecycle |-> "none", explicitness |-> explicitness, source |-> source]

\* What becomes of texts that are accepted, and of some that are not.
Inputs ==
    Submitted("a", Text("x", "fit", {"preference"}, FALSE), Given("none", "none", "message"))
    \cup Submitted("a", Text("y", "fit", {}, FALSE), Given("preference", "none", "inference"))
    \cup Submitted("b", Text("x", "fit", {"identity"}, FALSE), Given("none", "high", "tool"))
    \cup UNION {Submitted("b", Text("y", left, signs, left = "fit"), Given("none", score, "message")) :
                   left \in {"nothing", "short", "fit", "long"}, signs \in {{}, {"low_value"}},
                   score \in {"none", "invalid"}}

\* Turns that end the session of a user: one states a preference, one makes a
\* test, one is only done.
Turn(input, action, outcome) ==
    [input |-> input, action |-> action, outcome |-> outcome, recommendation |-> {},
     intent |-> "statement", hints |-> {}, project |-> FALSE]

Captures(u, value) ==
    UNION {CapturedRows(u, turn, Text(value, "fit", {}, FALSE)) :
               turn \in {Turn({"preference"}, {"decision"}, {"words"}),
                         Turn({"test_noise", "preference"}, {"words"}, {}),
                         Turn({}, {"constraint"}, {"generic"})}}

ProfileOnly == UNCHANGED <<migrationVars, feedbackVars, evolutionVars>>

MemoriesNext ==
    /\ ProfileOnly
    /\ \/ \E m \in Places, input \in Inputs : Store(m, input)
       \/ \E m \in Places, input \in Captures("a", "x") \cup Captures("b", "y") : Capture(m, input)
       \/ \E m \in Places, input \in Captures("a", "y") : InsertOnly(m, input)
       \/ \E ms \in SUBSET Places : Restore(ms) \/ RestoreFails(ms)
       \/ \E m \in Places : ArchivedElsewhere(m) \/ Update(m, "y")
       \/ \E u \in Users : Read(u) \/ CaptureEnds(u) \/ CaptureFails(u) \/ SessionEnds(u)
       \/ Restart

\* One user's rules change, the user is asked the questions of the onboarding.
HintsNext ==
    /\ ProfileOnly
    /\ \/ \E u \in Users, ms \in SUBSET Places \ {{}} :
            Cardinality(ms) <= 2 /\ \E answers \in [ms -> Inputs] : Onboard(u, answers)
       \/ \E m \in Places : ArchivedElsewhere(m)
       \/ \E u \in Users : Read(u) \/ OnboardWithoutAnswers(u)
       \/ \E statements \in BoundedSeq(Statements, MaxRules) : RulesChange("a", statements)

\* Files of up to two items: what an export holds now, and items of another
\* installation, of which one is of a test and one is invalid.
Foreign == {[id |-> 1, row |-> Row("b", "y", "stated"), flaws |-> {}],
            [id |-> 2, row |-> Row("a", "x", "test"), flaws |-> {}],
            [id |-> 2, row |-> Row("a", "y", "inferred"), flaws |-> {"invalid_tags", "invalid_scores"}]}

\* One file is longer than an import takes.
Files == BoundedSeq(Exported(TRUE) \cup Exported(FALSE) \cup Foreign, 2)
         \cup {SetToSeq(Foreign) \o SetToSeq(Exported(FALSE))}

TransferNext ==
    /\ ProfileOnly
    /\ \/ \E m \in Places, input \in Inputs : Store(m, input)
       \/ \E m \in Places : ArchivedElsewhere(m)
       \/ \E u \in Users : Read(u)
       \/ \E mode \in {"review", "apply"}, approved \in {"unsaid", "no", "yes"},
            file \in Files, overwrite \in BOOLEAN, override \in {None, "b"} :
            /\ Applies(mode, approved)
            /\ \/ ImportSnapshot(file, overwrite, override)
               \/ ImportSnapshotFails(file, overwrite, override)
       \/ \E approved \in {"unsaid", "no"}, u \in Users, m \in Places :
            NotesApply(approved) /\ ImportNote(u, [key |-> "k", value |-> "y"], m)

\* Rows are left behind for one memory at a time, and what is tuned is tuned
\* between two sessions.
OneOrphan == Cardinality(orphans') <= 1

BetweenSessions == \A s \in Sessions : Pending(s) = {}

RetrievalNext ==
    /\ UNCHANGED <<profileVars, migrationVars, evolutionVars>>
    /\ FeedbackNext /\ OneOrphan
    /\ weights' \notin {weights, "none"} \/ overrides' # overrides => BetweenSessions

\* Phase 1 makes memory_items, which all the others work on.
MCNeeds == [n \in 1..Latest |-> IF n = 1 THEN {} ELSE {1}]

\* The cooldown takes more steps to its end than the other parameters.
MCTop == [k \in Parameters |-> IF k = "cooldown" THEN 2 ELSE 1]

FreshFile == version = 0 /\ \A k \in Rowids : row[k] = Absent

MCInit ==
    /\ ProfileInit /\ MigrationsInit /\ FeedbackInit /\ EvolutionInit
    /\ focus \in {"memories", "hints", "transfer", "migrations", "feedback", "evolution"}
    /\ focus # "migrations" => FreshFile

MCNext ==
    /\ UNCHANGED focus
    /\ \/ focus = "memories" /\ MemoriesNext
       \/ focus = "hints" /\ HintsNext
       \/ focus = "transfer" /\ TransferNext
       \/ focus = "migrations" /\ MigrationsNext /\ UNCHANGED <<profileVars, feedbackVars, evolutionVars>>
       \/ focus = "feedback" /\ RetrievalNext
       \/ focus = "evolution" /\ EvolutionNext /\ UNCHANGED <<profileVars, migrationVars, feedbackVars>>

MCSpec == MCInit /\ [][MCNext]_<<profileVars, migrationVars, feedbackVars, evolutionVars, focus>>
=============================================================================
