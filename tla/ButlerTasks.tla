---------------------------- MODULE ButlerTasks ----------------------------
(***************************************************************************)
(* The Butler's deferred tasks: the table butler_tasks, the queue service  *)
(* over it, and the agent's cycles, which enqueue tasks when a session     *)
(* ends and lease and run them when a session starts.                      *)
(*                                                                         *)
(* Cycles are asynchronous and several run at once: the hooks start them   *)
(* without waiting for one another, and more than one process may have the *)
(* database open (the plugin and the standalone runtime, or two of         *)
(* either).  Every statement, and the transaction of leaseTasks, is        *)
(* atomic; a cycle may be overtaken between any two of its steps, and its  *)
(* process may die there.  Every task of the agent has an idempotency key, *)
(* which the table keeps UNIQUE, so a row is named by its key.             *)
(*                                                                         *)
(* Not modelled: what a task does to insights, goals and narratives;       *)
(* cycles of the other triggers, which touch no task; scheduled_at, which  *)
(* the agent never sets.                                                   *)
(***************************************************************************)
EXTENDS Naturals, Sequences

CONSTANTS
    Cycles,         \* invocations of runCycle that may be under way at once
    Keys,           \* idempotency keys
    Sessions,       \* the keys that the end of each session enqueues, in order
    Priority,       \* of each key; the lowest number is leased first
    MaxTasks,       \* tasks a cycle leases (3)
    MaxCrashes      \* bound on the crashes of a run

ASSUME SessionsAssumption == Sessions \subseteq Seq(Keys)
ASSUME PriorityAssumption == Priority \in [Keys -> Nat]
ASSUME BoundsAssumption == MaxTasks \in Nat \ {0} /\ MaxCrashes \in Nat

VARIABLES
    status,     \* butler_tasks.status of each key's row, "none" before INSERT
    stage,      \* where each cycle is
    held,       \* keys it has still to enqueue, or tasks it has leased and not finished
    started,    \* how often each task was begun (not in the code)
    lost,       \* tasks whose process died with them (not in the code)
    crashes     \* crashes so far (not in the code)

vars == <<status, stage, held, started, lost, crashes>>

\* A cycle that leases or has leased tasks.
Working(c) == stage[c] \in {"drain", "begin", "finish"}
Holds(c) == {held[c][n] : n \in 1..Len(held[c])}

TypeOK ==
    /\ status \in [Keys -> {"none", "queued", "running", "completed", "failed"}]
    /\ stage \in [Cycles -> {"idle", "enqueue", "insert", "drain", "begin", "finish"}]
    /\ held \in [Cycles -> Seq(Keys)]
    /\ started \in [Keys -> Nat]
    /\ lost \subseteq Keys
    /\ crashes \in 0..MaxCrashes
    /\ \A c \in Cycles : Working(c) => Len(held[c]) <= MaxTasks

Leasable == {k \in Keys : status[k] = "queued"}
First(S) == {k \in S : \A l \in S : Priority[k] <= Priority[l]}

Idle(c) == stage' = [stage EXCEPT ![c] = "idle"] /\ held' = [held EXCEPT ![c] = <<>>]

-----------------------------------------------------------------------------
(***************************************************************************)
(* A session ends: its tasks are enqueued                                  *)
(***************************************************************************)

SessionEnded(c, session) ==
    /\ stage[c] = "idle"
    /\ stage' = [stage EXCEPT ![c] = "enqueue"]
    /\ held' = [held EXCEPT ![c] = session]
    /\ UNCHANGED <<status, started, lost, crashes>>

\* enqueue looks for the key: a task in whatever status is as good as a new one.
FindExisting(c) ==
    /\ stage[c] = "enqueue" /\ held[c] # <<>>
    /\ IF status[Head(held[c])] # "none"
       THEN held' = [held EXCEPT ![c] = Tail(@)] /\ stage' = stage
       ELSE stage' = [stage EXCEPT ![c] = "insert"] /\ held' = held
    /\ UNCHANGED <<status, started, lost, crashes>>

\* Mutant of Insert: a row that is there already is replaced.
InsertOrReplace(c) ==
    /\ stage[c] = "insert"
    /\ status' = [status EXCEPT ![Head(held[c])] = "queued"]
    /\ stage' = [stage EXCEPT ![c] = "enqueue"]
    /\ held' = [held EXCEPT ![c] = Tail(@)]
    /\ UNCHANGED <<started, lost, crashes>>

\* addTask, or, when another cycle was faster and the key is no longer free,
\* the row that cycle inserted.
Insert(c) ==
    LET k == Head(held[c]) IN
    /\ stage[c] = "insert"
    /\ status' = IF status[k] = "none" THEN [status EXCEPT ![k] = "queued"] ELSE status
    /\ stage' = [stage EXCEPT ![c] = "enqueue"]
    /\ held' = [held EXCEPT ![c] = Tail(@)]
    /\ UNCHANGED <<started, lost, crashes>>

EnqueueEnd(c) ==
    /\ stage[c] = "enqueue" /\ held[c] = <<>>
    /\ Idle(c)
    /\ UNCHANGED <<status, started, lost, crashes>>

-----------------------------------------------------------------------------
(***************************************************************************)
(* A session starts: tasks are leased, then run one after the other        *)
(***************************************************************************)

SessionStarted(c) ==
    /\ stage[c] = "idle"
    /\ stage' = [stage EXCEPT ![c] = "drain"]
    /\ UNCHANGED <<status, held, started, lost, crashes>>

\* Mutant of Lease: one task more than the budget allows.
LeaseOneMore(c) ==
    /\ stage[c] = "drain" /\ Len(held[c]) <= MaxTasks
    /\ \E k \in First(Leasable) :
        /\ status' = [status EXCEPT ![k] = "running"]
        /\ held' = [held EXCEPT ![c] = Append(@, k)]
    /\ UNCHANGED <<stage, started, lost, crashes>>

\* Mutant of Lease: the row is returned and not marked.
LeaseUnmarked(c) ==
    /\ stage[c] = "drain" /\ Len(held[c]) < MaxTasks
    /\ \E k \in First(Leasable) : held' = [held EXCEPT ![c] = Append(@, k)]
    /\ UNCHANGED <<status, stage, started, lost, crashes>>

\* leaseTasks(1) inside drain.
Lease(c) ==
    /\ stage[c] = "drain" /\ Len(held[c]) < MaxTasks
    /\ \E k \in First(Leasable) :
        /\ status' = [status EXCEPT ![k] = "running"]
        /\ held' = [held EXCEPT ![c] = Append(@, k)]
    /\ UNCHANGED <<stage, started, lost, crashes>>

\* Nothing to lease, enough leased, or the time for draining is over.
DrainEnd(c) ==
    /\ stage[c] = "drain"
    /\ stage' = [stage EXCEPT ![c] = "begin"]
    /\ UNCHANGED <<status, held, started, lost, crashes>>

\* runDeferredTask, up to its await.
Begin(c) ==
    /\ stage[c] = "begin" /\ held[c] # <<>>
    /\ started' = [started EXCEPT ![Head(held[c])] = @ + 1]
    /\ stage' = [stage EXCEPT ![c] = "finish"]
    /\ UNCHANGED <<status, held, lost, crashes>>

\* Mutant of Finish: an error ends the whole cycle.
FinishOrThrow(c) ==
    /\ stage[c] = "finish"
    /\ \/ /\ status' = [status EXCEPT ![Head(held[c])] = "completed"]
          /\ stage' = [stage EXCEPT ![c] = "begin"]
          /\ held' = [held EXCEPT ![c] = Tail(@)]
       \/ /\ status' = [status EXCEPT ![Head(held[c])] = "failed"]
          /\ Idle(c)
    /\ UNCHANGED <<started, lost, crashes>>

\* The task is completed or, when it threw, failed; the next one follows.
Finish(c) ==
    /\ stage[c] = "finish"
    /\ \E result \in {"completed", "failed"} :
            status' = [status EXCEPT ![Head(held[c])] = result]
    /\ stage' = [stage EXCEPT ![c] = "begin"]
    /\ held' = [held EXCEPT ![c] = Tail(@)]
    /\ UNCHANGED <<started, lost, crashes>>

CycleEnd(c) ==
    /\ stage[c] = "begin" /\ held[c] = <<>>
    /\ Idle(c)
    /\ UNCHANGED <<status, started, lost, crashes>>

\* The process of the cycle dies; the table stays as it is.
Crash(c) ==
    /\ stage[c] # "idle" /\ crashes < MaxCrashes
    /\ crashes' = crashes + 1
    /\ lost' = IF Working(c) THEN lost \cup Holds(c) ELSE lost
    /\ Idle(c)
    /\ UNCHANGED <<status, started>>

-----------------------------------------------------------------------------
Init ==
    /\ status = [k \in Keys |-> "none"]
    /\ stage = [c \in Cycles |-> "idle"]
    /\ held = [c \in Cycles |-> <<>>]
    /\ started = [k \in Keys |-> 0]
    /\ lost = {}
    /\ crashes = 0

\* What a cycle does once it is under way.
Step(c) ==
    \/ FindExisting(c) \/ Insert(c) \/ EnqueueEnd(c)
    \/ Lease(c) \/ DrainEnd(c) \/ Begin(c) \/ Finish(c) \/ CycleEnd(c)

Next ==
    \E c \in Cycles :
        \/ \E session \in Sessions : SessionEnded(c, session)
        \/ SessionStarted(c)
        \/ Step(c)
        \/ Crash(c)

Spec == Init /\ [][Next]_vars

\* A cycle that is under way goes on: none of its awaits waits for anything
\* but its own tasks.  Each time it is idle again, a session starts some time.
FairSpec ==
    /\ Spec
    /\ \A c \in Cycles : WF_vars(Step(c)) /\ WF_vars(SessionStarted(c))

-----------------------------------------------------------------------------
(***************************************************************************)
(* Properties                                                              *)
(***************************************************************************)

\* A task is run once: by one cycle, never again after it completed or failed
\* or after its session ended a second time, whichever cycles overtake which.
RunOnce == \A k \in Keys : started[k] <= 1

\* Leased tasks belong to one cycle each, and what a cycle holds is running:
\* completing or failing it never touches a row that was finished or requeued.
OneOwner ==
    \A c \in Cycles : Working(c) =>
        /\ \A n \in 1..Len(held[c]) : status[held[c][n]] = "running"
        /\ \A m, n \in 1..Len(held[c]) : held[c][m] = held[c][n] => m = n
        /\ \A d \in Cycles \ {c} : Working(d) => Holds(c) \cap Holds(d) = {}

\* A leased task is finished, whatever happens to the tasks before it, unless
\* the process of its cycle dies.
LeasedFinishes ==
    \A k \in Keys : (status[k] = "running") ~>
        (status[k] \in {"completed", "failed"} \/ k \in lost)

\* docs/CHANGELOG.md: "lease-based execution": a lease (five minutes) ends,
\* and a task whose process died is run by somebody else.
LeaseEnds == \A k \in Keys : (status[k] = "running") ~> (status[k] # "running")
=============================================================================
