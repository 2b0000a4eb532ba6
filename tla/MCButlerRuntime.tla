---------------------------- MODULE MCButlerRuntime ----------------------------
(***************************************************************************)
(* Instances of the parts of the Butler's runtime for TLC.  A behaviour    *)
(* has one of five focuses: "row" (cycles and tools that write the row of  *)
(* butler_state), "tasks" (cycles and scans that write insights and goals),*)
(* "insights" (three insights and what is done with them after a session), *)
(* "cognition" and "host"; the rest stays as it is.                        *)
(***************************************************************************)
EXTENDS ButlerCycle, Cognition, ButlerHost

VARIABLE focus

TypeOK == InsightsTypeOK /\ CyclesTypeOK /\ CognitionTypeOK /\ HostTypeOK

\* Three fresh insights: about a critical commitment, a vague one and neither.
\* The start of the session has marked the last one.
ThreeInsights ==
    /\ insight = MarkSurfaced(<<Commitment("c"), Commitment("v"), Gap("open_loop")>>, {3})
    /\ goals = <<>> /\ feedback = <<>> /\ shown = {}
    /\ verdict = [i \in 1..MaxInsights |-> "none"]

MCInit ==
    /\ CyclesInit /\ CognitionInit /\ HostInit
    /\ \/ focus \in {"row", "insights"} /\ ThreeInsights
       \/ focus \in {"tasks", "cognition", "host"} /\ InsightsInit
    /\ focus # "cognition" => gateway = "host"

AgentOnly == UNCHANGED <<cognitionVars, hostVars>>

\* No more than two cycles overlap, and one insight is reviewed.
RowNext ==
    /\ AgentOnly
    /\ \/ Observed \/ Tune \/ ProbeSucceeds \/ Restart
       \/ \E c \in DOMAIN cycles : Lapses(c) \/ Finish(c)
       \/ \E action \in {"accepted", "rejected"} : feedback = <<>> /\ Review(1, action)
    /\ Cardinality(UnderWay') <= 2

\* The first insights expire and goals are completed at any time.
TasksNext ==
    /\ AgentOnly
    /\ \/ SessionStarted \/ Tick \/ Brief \/ Restart \/ \E s \in Sessions : SessionEnded(s)
       \/ \E c \in DOMAIN cycles :
           \/ BeginScan(c) \/ ScanEnds(c) \/ Derive(c) \/ ScanGaps(c) \/ TasksEnd(c) \/ Finish(c)
           \/ \E m \in Memories : InsertCommitment(c, m)
       \/ \E i \in DOMAIN insight : i <= 2 /\ Expires(i) /\ UNCHANGED stateVars
       \/ \E g \in DOMAIN goals : CompleteGoal(g) /\ UNCHANGED stateVars
    /\ Cardinality(UnderWay') <= 2

InsightsNext ==
    /\ AgentOnly
    /\ \/ (Present \/ ListInsights \/ TimePasses) /\ UNCHANGED stateVars
       \/ \E i \in DOMAIN insight, action \in Reviews : Review(i, action)

MCNext ==
    /\ UNCHANGED focus
    /\ \/ focus = "row" /\ RowNext
       \/ focus = "tasks" /\ TasksNext
       \/ focus = "insights" /\ InsightsNext
       \/ focus = "cognition" /\ CognitionNext /\ UNCHANGED <<cycleVars, hostVars>>
       \/ focus = "host" /\ HostNext /\ UNCHANGED <<cycleVars, cognitionVars>>

mcVars == <<cycleVars, cognitionVars, hostVars, focus>>

\* Timers fire and the event loop goes on with what has been settled.
OnlyHost == UNCHANGED <<cycleVars, cognitionVars, focus>>
GoesOn(p) == Begin(p) \/ PlanEnds(p) \/ Continue(p)
MCSpec ==
    /\ MCInit /\ [][MCNext]_mcVars
    /\ \A p \in Plans : WF_mcVars(TimesOut(p) /\ OnlyHost) /\ WF_mcVars(GoesOn(p) /\ OnlyHost)
=============================================================================
