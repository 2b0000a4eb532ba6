----------------------------- MODULE WorkerPool -----------------------------
(***************************************************************************)
(* WorkerThreadPool (core/butler/worker/pool.ts): calls are handed to at   *)
(* most MaxWorkers threads, wait in a bounded queue, and are failed when   *)
(* their thread does not answer in time, throws or exits.                  *)
(*                                                                         *)
(* The pool's code runs in handlers of the main thread's event loop; one   *)
(* handler is one action.  A thread is named after the call it was created *)
(* for: every creation is followed by the assignment of a call, so no call *)
(* creates two.  Task ids are the calls themselves: dispatch is given a    *)
(* fresh id each time.  A timer is armed exactly while its slot is active. *)
(* The thread (worker_threads) is external: it answers what it was posted  *)
(* at most once, may throw, which ends it, or exit, and a thread that was  *)
(* asked to terminate exits.  A payload that cannot be posted is left out. *)
(***************************************************************************)
EXTENDS Integers, FiniteSets, Sequences

CONSTANTS
    Calls,      \* calls of dispatch
    Drains,     \* calls of drain
    None,       \* no active task
    MaxWorkers, MaxQueue

ASSUME CallsAssumption == IsFiniteSet(Calls) /\ None \notin Calls
ASSUME SizesAssumption == MaxWorkers \in Nat \ {0} /\ MaxQueue \in Nat

VARIABLES
    slot,           \* each thread and the pool's WorkerSlot for it
    queue,
    taskResolvers,  \* calls whose resolve and reject the pool still holds
    phase,          \* "open" until terminate is called, "closed" when it is done
    outcome,        \* each call's promise
    drain           \* each drain's promise; those waiting are drainWaiters

vars == <<slot, queue, taskResolvers, phase, outcome, drain>>

\* listed: the slot is in this.workers; owes: posted to it and not answered;
\* asked: who called worker.terminate() and has not resumed yet.
Slot == [thread : {"none", "up", "failed", "exited"}, listed : BOOLEAN,
         active : Calls \cup {None}, owes : Calls \cup {None},
         asked : {"no", "timeout", "terminate"}]

NoSlot == [thread |-> "none", listed |-> FALSE, active |-> None, owes |-> None, asked |-> "no"]

TypeOK ==
    /\ slot \in [Calls -> Slot]
    /\ queue \in Seq(Calls) /\ Len(queue) <= MaxQueue
    /\ taskResolvers \subseteq Calls
    /\ phase \in {"open", "closing", "closed"}
    /\ outcome \in [Calls -> {"new", "pending", "resolved", "rejected"}]
    /\ drain \in [Drains -> {"new", "waiting", "done"}]

Listed(sl) == {s \in Calls : sl[s].listed}
Idle(sl) == {s \in Listed(sl) : sl[s].active = None}
Queued == {queue[n] : n \in 1..Len(queue)}

\* Mutant of IsIdle: calls that are being worked on are forgotten.
IsIdleQueue(q, resolvers) == q = <<>>

IsIdle(q, resolvers) == q = <<>> /\ resolvers = {}

\* resolveDrainWaiters, once the queue is q and the resolvers are these.
DrainWaitersAfter(q, resolvers) ==
    IF IsIdle(q, resolvers)
    THEN [d \in Drains |-> IF drain[d] = "waiting" THEN "done" ELSE drain[d]]
    ELSE drain

\* getIdleWorker() ?? createWorkerIfAvailable(), for call c: any idle slot
\* (the code takes the oldest), or a new thread, or none.
Choices(sl, c) ==
    IF Idle(sl) # {} THEN Idle(sl)
    ELSE IF Cardinality(Listed(sl)) < MaxWorkers THEN {c} ELSE {}

\* assignTask: a slot that is new is up from now on.
Assigned(sl, s, c) ==
    [sl EXCEPT ![s] = [thread |-> IF sl[s].thread = "none" THEN "up" ELSE sl[s].thread,
                       listed |-> TRUE, active |-> c, owes |-> c, asked |-> "no"]]

\* removeWorker and clearWorker.
Removed(row) == [row EXCEPT !.listed = FALSE, !.active = None]

\* completeTask and failTask settle a call the pool still holds, once.
Settled(c, answer) ==
    IF c \in taskResolvers THEN [outcome EXCEPT ![c] = answer] ELSE outcome

-----------------------------------------------------------------------------
\* Mutant of ScheduleNext: nobody tells those who wait for the pool to drain.
ScheduleNextSilent(sl, resolvers) ==
    /\ drain' = drain
    /\ \/ queue = <<>> /\ slot' = sl /\ taskResolvers' = resolvers /\ queue' = queue
       \/ /\ queue # <<>> /\ Choices(sl, Head(queue)) # {}
          /\ \E s \in Choices(sl, Head(queue)) : slot' = Assigned(sl, s, Head(queue))
          /\ taskResolvers' = resolvers \cup {Head(queue)}
          /\ queue' = Tail(queue)
       \/ /\ queue # <<>> /\ Choices(sl, Head(queue)) = {}
          /\ slot' = sl /\ taskResolvers' = resolvers /\ queue' = queue

\* Mutant of ScheduleNext: a call that finds no worker is not put back.
ScheduleNextDrops(sl, resolvers) ==
    \/ /\ queue = <<>>
       /\ drain' = DrainWaitersAfter(queue, resolvers)
       /\ slot' = sl /\ taskResolvers' = resolvers /\ queue' = queue
    \/ /\ queue # <<>> /\ queue' = Tail(queue) /\ drain' = drain
       /\ IF Choices(sl, Head(queue)) # {}
          THEN /\ \E s \in Choices(sl, Head(queue)) : slot' = Assigned(sl, s, Head(queue))
               /\ taskResolvers' = resolvers \cup {Head(queue)}
          ELSE slot' = sl /\ taskResolvers' = resolvers

\* The end of every handler, which has left the slots and resolvers like this:
\* the head of the queue is assigned, or kept when there is no worker for it.
\* (After terminate it would be dropped.)
ScheduleNext(sl, resolvers) ==
    \/ /\ queue = <<>>
       /\ drain' = DrainWaitersAfter(queue, resolvers)
       /\ slot' = sl /\ taskResolvers' = resolvers /\ queue' = queue
    \/ /\ queue # <<>> /\ phase = "open"
       /\ \E s \in Choices(sl, Head(queue)) : slot' = Assigned(sl, s, Head(queue))
       /\ taskResolvers' = resolvers \cup {Head(queue)}
       /\ queue' = Tail(queue) /\ drain' = drain
    \/ /\ queue # <<>> /\ (phase = "open" => Choices(sl, Head(queue)) = {})
       /\ queue' = IF phase = "open" THEN queue ELSE Tail(queue)
       /\ slot' = sl /\ taskResolvers' = resolvers /\ drain' = drain

-----------------------------------------------------------------------------
(***************************************************************************)
(* Calls of the pool                                                       *)
(***************************************************************************)

\* Mutant of Dispatch: a queue of exactly MaxQueue calls still takes one.
DispatchOverfull(c) ==
    /\ outcome[c] = "new" /\ phase = "open"
    /\ outcome' = [outcome EXCEPT ![c] = "pending"]
    /\ \/ /\ \E s \in Choices(slot, c) : slot' = Assigned(slot, s, c)
          /\ taskResolvers' = taskResolvers \cup {c} /\ queue' = queue
       \/ /\ Choices(slot, c) = {} /\ Len(queue) <= MaxQueue
          /\ queue' = Append(queue, c) /\ UNCHANGED <<slot, taskResolvers>>
    /\ UNCHANGED <<phase, drain>>

Dispatch(c) ==
    /\ outcome[c] = "new"
    /\ \/ /\ phase # "open" \/ (Choices(slot, c) = {} /\ Len(queue) >= MaxQueue)
          /\ outcome' = [outcome EXCEPT ![c] = "rejected"]
          /\ UNCHANGED <<slot, queue, taskResolvers>>
       \/ /\ phase = "open"
          /\ \E s \in Choices(slot, c) : slot' = Assigned(slot, s, c)
          /\ taskResolvers' = taskResolvers \cup {c}
          /\ outcome' = [outcome EXCEPT ![c] = "pending"]
          /\ queue' = queue
       \/ /\ phase = "open" /\ Choices(slot, c) = {} /\ Len(queue) < MaxQueue
          /\ outcome' = [outcome EXCEPT ![c] = "pending"]
          /\ queue' = Append(queue, c)
          /\ UNCHANGED <<slot, taskResolvers>>
    /\ UNCHANGED <<phase, drain>>

Drain(d) ==
    /\ drain[d] = "new"
    /\ drain' = [drain EXCEPT ![d] = IF IsIdle(queue, taskResolvers) THEN "done" ELSE "waiting"]
    /\ UNCHANGED <<slot, queue, taskResolvers, phase, outcome>>

\* terminate, up to its await: everything outstanding is rejected.
Terminate ==
    LET stopped == {slot[s].active : s \in Listed(slot)} \cap taskResolvers IN
    /\ phase = "open" /\ phase' = "closing"
    /\ queue' = <<>>
    /\ outcome' = [c \in Calls |-> IF c \in Queued \cup stopped THEN "rejected" ELSE outcome[c]]
    /\ taskResolvers' = taskResolvers \ stopped
    /\ slot' = [s \in Calls |-> IF slot[s].listed
                                THEN [slot[s] EXCEPT !.active = None, !.asked = "terminate"]
                                ELSE slot[s]]
    /\ drain' = drain

\* terminate resumes when every thread it asked to stop has exited.
TerminateEnd ==
    /\ phase = "closing" /\ phase' = "closed"
    /\ \A s \in Calls : slot[s].asked = "terminate" => slot[s].thread = "exited"
    /\ slot' = [s \in Calls |-> IF slot[s].asked = "terminate"
                                THEN [slot[s] EXCEPT !.listed = FALSE, !.asked = "no"]
                                ELSE slot[s]]
    /\ drain' = DrainWaitersAfter(queue, taskResolvers)
    /\ UNCHANGED <<queue, taskResolvers, outcome>>

-----------------------------------------------------------------------------
(***************************************************************************)
(* Events of the threads                                                   *)
(***************************************************************************)

\* handleMessage.  An answer that is no longer awaited is ignored.
Message(s) ==
    LET c == slot[s].owes IN
    /\ slot[s].thread = "up" /\ c # None
    /\ IF slot[s].active = c
       THEN \E answer \in {"resolved", "rejected"} :
            /\ outcome' = Settled(c, answer)
            /\ ScheduleNext([slot EXCEPT ![s].owes = None, ![s].active = None],
                            taskResolvers \ {c})
       ELSE /\ slot' = [slot EXCEPT ![s].owes = None]
            /\ UNCHANGED <<queue, taskResolvers, outcome, drain>>
    /\ phase' = phase

\* Mutant of WorkerFailure: no other call takes the place of the failed one.
WorkerFailureUnscheduled(s) ==
    /\ slot[s].thread = "up"
    /\ outcome' = Settled(slot[s].active, "rejected")
    /\ slot' = [slot EXCEPT ![s] = [Removed(@) EXCEPT !.thread = "failed", !.owes = None]]
    /\ taskResolvers' = taskResolvers \ {slot[s].active}
    /\ UNCHANGED <<queue, phase, drain>>

\* handleWorkerFailure: the thread threw; its exit follows.
WorkerFailure(s) ==
    /\ slot[s].thread = "up"
    /\ outcome' = Settled(slot[s].active, "rejected")
    /\ ScheduleNext([slot EXCEPT ![s] = [Removed(@) EXCEPT !.thread = "failed", !.owes = None]],
                    taskResolvers \ {slot[s].active})
    /\ phase' = phase

\* handleWorkerExit.
WorkerExit(s) ==
    LET failing == IF slot[s].listed /\ phase = "open" THEN slot[s].active ELSE None IN
    /\ slot[s].thread \in {"up", "failed"}
    /\ outcome' = Settled(failing, "rejected")
    /\ ScheduleNext([slot EXCEPT ![s] = [Removed(@) EXCEPT !.thread = "exited", !.owes = None]],
                    taskResolvers \ {failing})
    /\ phase' = phase

\* Mutant of TaskTimeout: the thread is dropped and never stopped.
TaskTimeoutLeaks(s) ==
    /\ slot[s].active # None
    /\ outcome' = Settled(slot[s].active, "rejected")
    /\ ScheduleNext([slot EXCEPT ![s] = Removed(@)], taskResolvers \ {slot[s].active})
    /\ phase' = phase

\* handleTaskTimeout, up to its await: the call is failed, the worker's place
\* is free at once, and the next call is not scheduled yet.
TaskTimeout(s) ==
    /\ slot[s].active # None
    /\ outcome' = Settled(slot[s].active, "rejected")
    /\ slot' = [slot EXCEPT ![s] = [Removed(@) EXCEPT !.asked = "timeout"]]
    /\ taskResolvers' = taskResolvers \ {slot[s].active}
    /\ UNCHANGED <<queue, phase, drain>>

\* handleTaskTimeout resumes when the thread has exited.
TaskTimeoutEnd(s) ==
    /\ slot[s].asked = "timeout" /\ slot[s].thread = "exited"
    /\ ScheduleNext([slot EXCEPT ![s].asked = "no"], taskResolvers)
    /\ UNCHANGED <<phase, outcome>>

-----------------------------------------------------------------------------
Init ==
    /\ slot = [s \in Calls |-> NoSlot]
    /\ queue = <<>> /\ taskResolvers = {}
    /\ phase = "open"
    /\ outcome = [c \in Calls |-> "new"]
    /\ drain = [d \in Drains |-> "new"]

Next ==
    \/ \E c \in Calls : Dispatch(c)
    \/ \E d \in Drains : Drain(d)
    \/ Terminate \/ TerminateEnd
    \/ \E s \in Calls :
        \/ Message(s) \/ WorkerFailure(s) \/ WorkerExit(s)
        \/ TaskTimeout(s) \/ TaskTimeoutEnd(s)

Spec == Init /\ [][Next]_vars

\* The exit of a thread that threw or was asked to stop.
ExitDue(s) ==
    /\ slot[s].thread = "failed" \/ slot[s].asked # "no"
    /\ WorkerExit(s)

\* Timers fire, threads that must stop do, and a handler that awaits the stop
\* of a thread resumes.  That a thread answers is not assumed.
FairSpec ==
    /\ Spec
    /\ WF_vars(TerminateEnd)
    /\ \A s \in Calls :
        WF_vars(TaskTimeout(s)) /\ WF_vars(TaskTimeoutEnd(s)) /\ WF_vars(ExitDue(s))

-----------------------------------------------------------------------------
(***************************************************************************)
(* Properties                                                              *)
(***************************************************************************)

\* Threads that still have to be replaced: timed out, not resumed yet.
Leaving == {s \in Calls : slot[s].asked = "timeout"}

\* No worker idles while a call waits in the queue, and the pool is short of
\* workers only by those whose timeout handler has yet to schedule a call:
\* no order of answers, errors, exits and timeouts loses a wake-up.
WorkConserving ==
    (phase = "open" /\ queue # <<>>) =>
        /\ Idle(slot) = {}
        /\ Cardinality(Listed(slot) \cup Leaving) >= MaxWorkers

\* A call that is not settled is in exactly one place, from which it will be
\* settled: once in the queue, or active on one listed worker.
Accounted ==
    /\ \A c \in Calls : outcome[c] = "pending" <=> c \in Queued \cup taskResolvers
    /\ Queued \cap taskResolvers = {}
    /\ \A m, n \in 1..Len(queue) : queue[m] = queue[n] => m = n
    /\ \A c \in taskResolvers : \E s \in Listed(slot) : slot[s].active = c
    /\ \A s, t \in Calls : slot[s].active # None =>
        /\ slot[s].active \in taskResolvers /\ slot[s].listed
        /\ slot[s].active = slot[t].active => s = t

\* A thread that runs and is not about to stop is a worker of the pool, and
\* there are at most MaxWorkers of those: no timeout, error or exit leaks one.
NoThreadLeaks ==
    /\ \A s \in Calls : (slot[s].thread = "up" /\ slot[s].asked = "no") => slot[s].listed
    /\ Cardinality(Listed(slot)) <= MaxWorkers

\* The pool keeps the promise of TaskSettlement, with its fairness.
Settlement == INSTANCE TaskSettlement WITH closed <- phase # "open"
Implements == Settlement!FairSpec

\* Whoever waits for the pool to drain is told in the end, whatever happens
\* to the workers: terminate and the timeouts included.
DrainEnds == \A d \in Drains : (drain[d] = "waiting") ~> (drain[d] = "done")
=============================================================================
