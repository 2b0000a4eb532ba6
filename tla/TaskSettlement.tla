--------------------------- MODULE TaskSettlement ---------------------------
(***************************************************************************)
(* What a pool of workers promises its callers, whatever happens to the    *)
(* workers: every dispatched call settles exactly once, closing the pool   *)
(* settles everything at once, and a drain ends only at an instant where   *)
(* nothing is outstanding.                                                 *)
(***************************************************************************)

CONSTANTS
    Calls,      \* calls of dispatch, each with its own promise
    Drains      \* calls of drain, each with its own promise

VARIABLES outcome, closed, drain

vars == <<outcome, closed, drain>>

Pending(out) == {c \in Calls : out[c] = "pending"}

Released == [d \in Drains |-> IF drain[d] = "waiting" THEN "done" ELSE drain[d]]

Init ==
    /\ outcome = [c \in Calls |-> "new"]
    /\ closed = FALSE
    /\ drain = [d \in Drains |-> "new"]

\* A call is accepted, or refused on the spot; a closed pool accepts nothing.
Dispatch(c) ==
    /\ outcome[c] = "new"
    /\ \/ ~closed /\ outcome' = [outcome EXCEPT ![c] = "pending"]
       \/ outcome' = [outcome EXCEPT ![c] = "rejected"]
    /\ UNCHANGED <<closed, drain>>

\* When the last call settles, those who wait may be told in the same step.
Settle(c) ==
    /\ outcome[c] = "pending"
    /\ \E answer \in {"resolved", "rejected"} : outcome' = [outcome EXCEPT ![c] = answer]
    /\ \/ drain' = drain
       \/ Pending(outcome') = {} /\ drain' = Released
    /\ closed' = closed

Close ==
    /\ ~closed /\ closed' = TRUE
    /\ outcome' = [c \in Calls |-> IF outcome[c] = "pending" THEN "rejected" ELSE outcome[c]]
    /\ drain' = drain

Drain(d) ==
    /\ drain[d] = "new"
    /\ drain' = [drain EXCEPT ![d] = IF Pending(outcome) = {} THEN "done" ELSE "waiting"]
    /\ UNCHANGED <<outcome, closed>>

Release ==
    /\ Pending(outcome) = {}
    /\ drain' = Released
    /\ UNCHANGED <<outcome, closed>>

Next ==
    \/ \E c \in Calls : Dispatch(c) \/ Settle(c)
    \/ Close
    \/ \E d \in Drains : Drain(d)
    \/ Release

Spec == Init /\ [][Next]_vars

FairSpec ==
    /\ Spec
    /\ \A c \in Calls : WF_vars(Settle(c))
    /\ WF_vars(Release)
=============================================================================
