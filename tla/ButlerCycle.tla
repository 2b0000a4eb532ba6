----------------------------- MODULE ButlerCycle -----------------------------
(***************************************************************************)
(* The Butler's cycles and the one row of butler_state they read and write.*)
(* runCycle loads the row, observes the trigger, acts, and saves what it   *)
(* has made of the row it loaded.  It awaits its actions in between, and   *)
(* nothing keeps a second cycle, the tune and review tools or the probe of *)
(* the model away from the row meanwhile: the hooks do not wait for the    *)
(* cycles they start.                                                      *)
(*                                                                         *)
(* A cycle of session_started runs the tasks a session_ended has enqueued; *)
(* between two memories of its scan for commitments it awaits again.  The  *)
(* brief tool runs the same scan outside a cycle.  The lease protocol of   *)
(* the task table is ButlerTasks; here the queue is a sequence.  Narrative *)
(* threads, and tasks that only tests enqueue, are left out.               *)
(***************************************************************************)
EXTENDS ButlerInsights

CONSTANTS
    MaxCycles,      \* bound on the cycles and scans of a run
    Sessions,       \* sessions that end
    MaxEntries,     \* MAX_WORKING_MEMORY_ENTRIES
    MaxDrained,     \* tasks a cycle drains (3)
    MaxRestarts     \* bound on the restarts of the process

ASSUME CycleAssumption ==
    MaxCycles \in Nat /\ MaxEntries \in Nat \ {0} /\ MaxDrained \in Nat \ {0} /\ MaxRestarts \in Nat

VARIABLES
    stored,     \* the row of butler_state, or NoState
    cache,      \* agent.currentState, or NoState
    probed,     \* the probe of the model has succeeded
    queue,      \* tasks enqueued and not leased
    ended,      \* sessions whose tasks have been enqueued: their keys exist
    cycles,     \* the cycles and scans so far, in order of their start
    lapsed,     \* cycles whose entry in working memory has expired
    overlapped, \* two of them, or one and a tool, touched the row at once (not in the code)
    lastMode,   \* the mode set last (not in the code)
    unread,     \* a scan left commitments that have an insight unread (not in the code)
    saved,      \* cycles that have saved (not in the code)
    restarts    \* restarts so far (not in the code)

stateVars ==
    <<stored, cache, probed, queue, ended, cycles, lapsed, overlapped, lastMode, unread, saved, restarts>>
cycleVars == <<insightVars, stateVars>>

NoState == [mode |-> "none", version |-> 0, rate |-> [accepted |-> 0, rejected |-> 0], memory |-> {}]
DefaultState == [NoState EXCEPT !.mode = "reduced"]

Triggers == {"session_started", "session_ended", "message_received", "brief"}
Tasks == {"commitment_scan", "insight_refresh", "goal_derivation", "knowledge_gap_scan"}
EnqueuedAtEnd == <<"commitment_scan", "insight_refresh", "goal_derivation", "knowledge_gap_scan">>

\* The entries in working memory are known by the cycles that wrote them.
State == [mode : {"none", "reduced", "steward"}, version : Nat,
          rate : [accepted : Nat, rejected : Nat], memory : SUBSET (1..MaxCycles)]
Cycle == [trigger : Triggers, stage : {"tasks", "scan", "finish", "over"}, state : State,
          todo : Seq(Tasks), left : SUBSET Memories]

CyclesTypeOK ==
    /\ stored \in State /\ cache \in State
    /\ Cardinality(stored.memory) <= MaxEntries
    /\ probed \in BOOLEAN /\ overlapped \in BOOLEAN /\ unread \in BOOLEAN
    /\ queue \in Seq(Tasks) /\ ended \subseteq Sessions
    /\ cycles \in Seq(Cycle) /\ Len(cycles) <= MaxCycles
    /\ lapsed \subseteq 1..MaxCycles
    /\ lastMode \in {"reduced", "steward"}
    /\ saved \in Nat /\ restarts \in 0..MaxRestarts

CyclesInit ==
    /\ stored = NoState /\ cache = NoState /\ probed = FALSE
    /\ queue = <<>> /\ ended = {} /\ cycles = <<>> /\ lapsed = {}
    /\ overlapped = FALSE /\ unread = FALSE /\ lastMode = "reduced" /\ saved = 0 /\ restarts = 0

UnderWay == {c \in DOMAIN cycles : cycles[c].stage # "over"}
Overlapping == overlapped' = (overlapped \/ UnderWay # {})
At(c, stage) == c \in DOMAIN cycles /\ cycles[c].stage = stage
Moves(c, record) == cycles' = [cycles EXCEPT ![c] = record]

-----------------------------------------------------------------------------
(***************************************************************************)
(* The state manager                                                       *)
(***************************************************************************)

\* Mutant of Load: what the agent already holds is not read again.
LoadCached == IF cache # NoState THEN cache ELSE IF stored = NoState THEN DefaultState ELSE stored

\* load; a row that is not there yet is created with its default.
Load == IF stored = NoState THEN DefaultState ELSE stored

Pruned(state) == [state EXCEPT !.memory = @ \ lapsed]

\* slice(-MAX_WORKING_MEMORY_ENTRIES): a cycle appends its entry to those of
\* earlier ones.
LastEntries(memory) == {c \in memory : Cardinality({later \in memory : later > c}) < MaxEntries}
WithEntry(state, c) == [Pruned(state) EXCEPT !.memory = LastEntries(@ \cup {c})]

\* The tune tool sets reduced; the probe, once it has reached a model, steward.
SetMode(mode) ==
    /\ stored' = [Load EXCEPT !.mode = mode]
    /\ lastMode' = mode
    /\ Overlapping
    /\ UNCHANGED <<cache, queue, ended, cycles, lapsed, unread, saved, restarts, insightVars>>

Tune == SetMode("reduced") /\ probed' = probed
ProbeSucceeds == ~probed /\ SetMode("steward") /\ probed' = TRUE

\* The review tool; accepting and rejecting write the rate into the row.
Review(i, action) ==
    /\ ReviewInsight(i, action)
    /\ IF action \in {"accepted", "rejected"}
       THEN stored' = [Load EXCEPT !.rate = AcceptanceStats'] /\ Overlapping
       ELSE UNCHANGED <<stored, overlapped>>
    /\ UNCHANGED <<cache, probed, queue, ended, cycles, lapsed, lastMode, unread, saved, restarts>>

-----------------------------------------------------------------------------
(***************************************************************************)
(* Cycles                                                                  *)
(***************************************************************************)

Begun(trigger, stage, todo) ==
    LET c == Len(cycles) + 1 IN
    /\ Len(cycles) < MaxCycles
    /\ cycles' = Append(cycles, [trigger |-> trigger, stage |-> stage, state |-> WithEntry(Load, c),
                                 todo |-> todo, left |-> {}])
    /\ stored' = IF stored = NoState THEN DefaultState ELSE stored
    /\ cache' = Pruned(Load)
    /\ Overlapping
    /\ UNCHANGED <<probed, lapsed, lastMode, unread, saved, restarts>>

\* observe and orient; a cycle with no time left drains nothing.
SessionStarted ==
    /\ insight' = DeleteExpired(insight)
    /\ UNCHANGED <<goals, feedback, verdict, shown, ended>>
    /\ \/ Begun("session_started", "finish", <<>>) /\ UNCHANGED queue
       \/ LET n == IF Len(queue) < MaxDrained THEN Len(queue) ELSE MaxDrained IN
          /\ Begun("session_started", "tasks", SubSeq(queue, 1, n))
          /\ queue' = SubSeq(queue, n + 1, Len(queue))

SessionEnded(session) ==
    /\ Begun("session_ended", "finish", <<>>)
    /\ queue' = IF session \in ended THEN queue ELSE queue \o EnqueuedAtEnd
    /\ ended' = ended \cup {session}
    /\ UNCHANGED insightVars

\* message_received, agent_ended, service_started and autonomous_tick only observe.
Observed == Begun("message_received", "finish", <<>>) /\ UNCHANGED <<queue, ended, insightVars>>

\* evaluateTriggers: tasks are due, or no insight is fresh.  Goals that the
\* Butler derives have no deadline.
WakeUps ==
    (IF queue # <<>> THEN {"task_due"} ELSE {}) \cup
    (IF FindFresh = {} THEN {"insight_expired"} ELSE {}) \cup {"periodic_housekeeping"}

\* The last of them has low priority and is no reason for a cycle.
ShouldRunCycle == WakeUps # {"periodic_housekeeping"}

\* The scheduler's timer, or the hook before a message.  The cycle runs none of
\* the tasks that are due: that is left to the next start of a session.
Tick == ShouldRunCycle /\ Observed

\* finishState and save: the whole row is written.
Finish(c) ==
    LET finished == [cycles[c].state EXCEPT !.version = @ + 1] IN
    /\ At(c, "finish")
    /\ stored' = finished /\ cache' = finished /\ saved' = saved + 1
    /\ Moves(c, [cycles[c] EXCEPT !.stage = "over"])
    /\ UNCHANGED <<probed, queue, ended, lapsed, overlapped, lastMode, unread, restarts, insightVars>>

-----------------------------------------------------------------------------
(***************************************************************************)
(* Tasks                                                                   *)
(***************************************************************************)

Doing(c, task) == At(c, "tasks") /\ cycles[c].todo # <<>> /\ Head(cycles[c].todo) = task
Done(c) == Moves(c, [cycles[c] EXCEPT !.todo = Tail(@)])
RowUnchanged == UNCHANGED <<stored, cache, probed, queue, ended, lapsed, overlapped, lastMode, saved, restarts>>
RestUnchanged == RowUnchanged /\ unread' = unread

\* scanCommitments reads the memories and the references once.  Memories are
\* written and retired between scans, and a scan finds the latest of them.
ScansFor ==
    {found \ CommitmentRefs(read) :
        found \in SUBSET Memories, read \in Foremost(FindByKind("commitment"), ExistingLimit)}

LeavesUnread == unread' = (unread \/ Cardinality(FindByKind("commitment")) > ExistingLimit)

BeginScan(c) ==
    /\ Doing(c, "commitment_scan") \/ Doing(c, "insight_refresh")
    /\ \E left \in ScansFor : Moves(c, [cycles[c] EXCEPT !.stage = "scan", !.left = left])
    /\ LeavesUnread /\ RowUnchanged /\ UNCHANGED insightVars

Brief ==
    /\ cache # NoState /\ Len(cycles) < MaxCycles
    /\ \E left \in ScansFor :
        cycles' = Append(cycles, [trigger |-> "brief", stage |-> "scan", state |-> NoState,
                                 todo |-> <<>>, left |-> left])
    /\ LeavesUnread /\ Overlapping
    /\ UNCHANGED <<stored, cache, probed, queue, ended, lapsed, lastMode, saved, restarts, insightVars>>

\* The insight about m, built meanwhile, is inserted.
InsertCommitment(c, m) ==
    /\ At(c, "scan") /\ m \in cycles[c].left /\ Room(1)
    /\ insight' = Append(insight, Commitment(m))
    /\ Moves(c, [cycles[c] EXCEPT !.left = @ \ {m}])
    /\ RestUnchanged /\ UNCHANGED <<goals, feedback, verdict, shown>>

ScanEnds(c) ==
    /\ At(c, "scan") /\ cycles[c].left = {}
    /\ IF cycles[c].trigger = "brief"
       THEN Moves(c, [cycles[c] EXCEPT !.stage = "over"])
       ELSE Moves(c, [cycles[c] EXCEPT !.stage = "tasks", !.todo = Tail(@)])
    /\ RestUnchanged /\ UNCHANGED insightVars

Derive(c) ==
    /\ Doing(c, "goal_derivation") /\ DeriveGoals /\ Done(c)
    /\ RestUnchanged /\ UNCHANGED <<insight, feedback, verdict, shown>>

\* Gaps are inserted whether or not they were found before.
ScanGaps(c) ==
    /\ Doing(c, "knowledge_gap_scan")
    /\ \E kinds \in {<<>>, <<"open_loop">>, <<"anomaly">>} :
        /\ Room(Len(kinds))
        /\ insight' = insight \o [n \in DOMAIN kinds |-> Gap(kinds[n])]
    /\ Done(c)
    /\ RestUnchanged /\ UNCHANGED <<goals, feedback, verdict, shown>>

\* Fresh insights are marked as surfaced whatever was said of them, and the
\* producers insert what they find.
TasksEnd(c) ==
    /\ At(c, "tasks") /\ cycles[c].todo = <<>>
    /\ \E produced \in {<<>>, <<NewInsight("anomaly", NoMemory, "fresh")>>} :
        /\ Room(Len(produced))
        /\ insight' = MarkSurfaced(insight, FindFresh) \o produced
    /\ Moves(c, [cycles[c] EXCEPT !.stage = "finish"])
    /\ RestUnchanged /\ UNCHANGED <<goals, feedback, verdict, shown>>

-----------------------------------------------------------------------------
(***************************************************************************)
(* Restarts and time                                                       *)
(***************************************************************************)

\* The process ends with what it has under way; registration resets the mode.
Restart ==
    /\ restarts < MaxRestarts
    /\ restarts' = restarts + 1
    /\ cycles' = [c \in DOMAIN cycles |-> [cycles[c] EXCEPT !.stage = "over"]]
    /\ cache' = NoState /\ probed' = FALSE
    /\ stored' = [Load EXCEPT !.mode = "reduced"] /\ lastMode' = "reduced"
    /\ UNCHANGED <<queue, ended, lapsed, overlapped, unread, saved, insightVars>>

Lapses(c) ==
    /\ c \in DOMAIN cycles /\ c \notin lapsed
    /\ lapsed' = lapsed \cup {c}
    /\ UNCHANGED <<stored, cache, probed, queue, ended, cycles, overlapped, lastMode, unread, saved, restarts,
                   insightVars>>

-----------------------------------------------------------------------------
CycleNext ==
    \/ Observed \/ Tick \/ SessionStarted \/ Brief \/ \E session \in Sessions : SessionEnded(session)
    \/ Tune \/ ProbeSucceeds \/ Restart
    \/ \E c \in DOMAIN cycles :
        \/ BeginScan(c) \/ ScanEnds(c) \/ Derive(c) \/ ScanGaps(c) \/ TasksEnd(c) \/ Finish(c) \/ Lapses(c)
        \/ \E m \in Memories : InsertCommitment(c, m)
    \/ \E i \in DOMAIN insight, action \in Reviews : Review(i, action)
    \/ /\ UNCHANGED stateVars
       /\ \/ Present \/ ListInsights \/ TimePasses
          \/ \E g \in DOMAIN goals : CompleteGoal(g)

CycleSpec == InsightsInit /\ CyclesInit /\ [][CycleNext]_cycleVars

-----------------------------------------------------------------------------
(***************************************************************************)
(* Properties                                                              *)
(***************************************************************************)

\* Between cycles the row holds what was last written into each of its parts,
\* by whichever of the cycles, the tune and review tools and the probe.
RowUpToDate ==
    UnderWay = {} /\ stored # NoState =>
        /\ stored.version = saved
        /\ stored.mode = lastMode
        /\ stored.rate = AcceptanceStats

\* No commitment has two insights.
OneInsightEach ==
    \A i, j \in FindByKind("commitment") : insight[i].about = insight[j].about => i = j

\* As long as cycles, scans and tools did not overlap, none of their writes to
\* the row is lost, and no commitment is inserted twice unless a scan found
\* more commitments in the table than it reads (EXISTING_LIMIT), whatever
\* expires, is completed or is cut short by a restart in between; and no
\* insight ever gets two active goals.
\* (Overlapping cycles do lose one another's entries, modes and rates, and
\* overlapping scans insert a commitment twice.)
OnlyOverlapLoses ==
    OneGoalEach /\ (~overlapped => RowUpToDate /\ (~unread => OneInsightEach))
=============================================================================
