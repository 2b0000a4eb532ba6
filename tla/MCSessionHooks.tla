---------------------------- MODULE MCSessionHooks ----------------------------
(***************************************************************************)
(* Instances of SessionHooks for TLC.  A behaviour has one of two focuses: *)
(* "rules", the rules by themselves, or "hooks", the sessions with the     *)
(* rules they use, disturbed at most once by a tool call for another user  *)
(* or a start that fails.                                                  *)
(***************************************************************************)
EXTENDS SessionHooks

CONSTANT Focuses    \* what a run looks at: "rules", "hooks"
VARIABLES focus, disturbed

mcVars == <<sessionVars, focus, disturbed>>

ContradictingPair == {<<"confirm", "skip">>, <<"skip", "confirm">>}
RecurrenceOf == [s \in Statements |-> IF s = "skip" THEN 2 ELSE 1]
OneUse == [s \in Statements |-> 1]
TwoProposals ==
    {[candidates |-> <<"confirm">>, recurrence |-> 1, confident |-> TRUE, strong |-> FALSE],
     [candidates |-> <<"skip", "confirm">>, recurrence |-> 2, confident |-> TRUE, strong |-> TRUE]}

NoProposals == {}

MCInit == SessionsInit /\ focus \in Focuses /\ disturbed = FALSE

\* One user and everybody: users see nothing of each other's rules.  Two
\* reflections are followed on one day, one over all days.
RulesOnly ==
    /\ focus = "rules"
    /\ RulesStep({"ann", Everybody})
    /\ Len(reflections') = 2 => today' = 0
    /\ UNCHANGED hookVars

ToolReflects == (\E p \in Proposals : Reflect(p)) /\ UNCHANGED hookVars
HooksOnly == focus = "hooks" /\ (HookNext \/ ToolReflects)

\* Once in a run, while no end of a turn is under way.
DisturbedOnce ==
    /\ focus = "hooks" /\ ~disturbed /\ disturbed' = TRUE
    /\ \A e \in Ends : ends[e].at = "free"
    /\ Disturbance

MCNext ==
    /\ UNCHANGED focus
    /\ DisturbedOnce \/ ((RulesOnly \/ HooksOnly) /\ UNCHANGED disturbed)

MCSpec == MCInit /\ [][MCNext]_mcVars

TypeOK == RulesTypeOK /\ HooksTypeOK
=============================================================================
