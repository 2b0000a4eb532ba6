------------------------ MODULE ButlerTasks_proofs ------------------------
(***************************************************************************)
(* Theorems about ButlerTasks, for any number of cycles, keys and crashes, *)
(* every set of sessions and every budget.                                 *)
(***************************************************************************)
EXTENDS ButlerTasks, TLAPS

\* Where a cycle has something to do it holds something to do it with.
Positioned ==
    \A c \in Cycles :
        /\ stage[c] \in {"insert", "finish"} => held[c] # <<>>
        /\ stage[c] = "idle" => held[c] = <<>>

\* No task was begun before it was leased.
Unstarted == \A k \in Keys : status[k] \in {"none", "queued"} => started[k] = 0

\* A leased task is running, and its cycle has begun the first one at most.
Leased ==
    \A c \in Cycles : Working(c) => \A n \in 1..Len(held[c]) :
        /\ status[held[c][n]] = "running"
        /\ (n > 1 \/ stage[c] # "finish") => started[held[c][n]] = 0

\* A task is leased by one cycle, once.
Apart ==
    \A c, d \in Cycles : Working(c) /\ Working(d) =>
        \A m \in 1..Len(held[c]), n \in 1..Len(held[d]) :
            held[c][m] = held[d][n] => c = d /\ m = n

IInv == TypeOK /\ Positioned /\ Unstarted /\ RunOnce /\ Leased /\ Apart

-----------------------------------------------------------------------------
\* What taking the first task of a list leaves.
LEMMA TailFacts ==
    ASSUME NEW s \in Seq(Keys), s # <<>>
    PROVE  /\ Head(s) \in Keys /\ Head(s) = s[1] /\ 1 \in 1..Len(s)
           /\ Tail(s) \in Seq(Keys) /\ Len(Tail(s)) = Len(s) - 1
           /\ \A n \in 1..Len(Tail(s)) : n + 1 \in 2..Len(s) /\ Tail(s)[n] = s[n + 1]
OBVIOUS

\* What leasing one more leaves.
LEMMA AppendFacts ==
    ASSUME NEW s \in Seq(Keys), NEW k \in Keys
    PROVE  /\ Append(s, k) \in Seq(Keys) /\ Len(Append(s, k)) = Len(s) + 1
           /\ \A n \in 1..Len(s) : Append(s, k)[n] = s[n]
           /\ Append(s, k)[Len(s) + 1] = k
OBVIOUS

\* What a cycle holds are keys.
LEMMA HeldKeys ==
    ASSUME TypeOK, NEW c \in Cycles, NEW n \in 1..Len(held[c]) PROVE held[c][n] \in Keys
BY DEF TypeOK

\* The initial state.
LEMMA InitIInv == Init => IInv
BY BoundsAssumption
   DEF Init, IInv, TypeOK, Positioned, Unstarted, RunOnce, Leased, Apart, Working

\* Every step keeps the types.
LEMMA TypeStep ==
    ASSUME TypeOK, Positioned, [Next]_vars PROVE TypeOK' /\ Positioned'
<1> USE DEF TypeOK, Positioned, Working
<1>1. ASSUME NEW c \in Cycles, NEW session \in Sessions, SessionEnded(c, session)
      PROVE  TypeOK' /\ Positioned'
  BY <1>1, SessionsAssumption DEF SessionEnded
<1>2. ASSUME NEW c \in Cycles, SessionStarted(c) PROVE TypeOK' /\ Positioned'
  BY <1>2, BoundsAssumption DEF SessionStarted
<1>3. ASSUME NEW c \in Cycles, FindExisting(c) PROVE TypeOK' /\ Positioned'
  <2>1. Tail(held[c]) \in Seq(Keys)
    BY <1>3, TailFacts DEF FindExisting
  <2> QED BY <1>3, <2>1 DEF FindExisting
<1>4. ASSUME NEW c \in Cycles, Insert(c) PROVE TypeOK' /\ Positioned'
  <2>1. Head(held[c]) \in Keys /\ Tail(held[c]) \in Seq(Keys)
    BY <1>4, TailFacts DEF Insert
  <2> QED BY <1>4, <2>1 DEF Insert
<1>5. ASSUME NEW c \in Cycles, EnqueueEnd(c) PROVE TypeOK' /\ Positioned'
  BY <1>5 DEF EnqueueEnd, Idle
<1>6. ASSUME NEW c \in Cycles, Lease(c) PROVE TypeOK' /\ Positioned'
  <2>1. PICK k \in Keys : /\ status' = [status EXCEPT ![k] = "running"]
                          /\ held' = [held EXCEPT ![c] = Append(held[c], k)]
    BY <1>6 DEF Lease, First, Leasable
  <2>2. Append(held[c], k) \in Seq(Keys) /\ Len(Append(held[c], k)) <= MaxTasks
    BY <1>6, AppendFacts, BoundsAssumption DEF Lease
  <2> QED BY <1>6, <2>1, <2>2 DEF Lease
<1>7. ASSUME NEW c \in Cycles, DrainEnd(c) PROVE TypeOK' /\ Positioned'
  BY <1>7 DEF DrainEnd
<1>8. ASSUME NEW c \in Cycles, Begin(c) PROVE TypeOK' /\ Positioned'
  BY <1>8, TailFacts DEF Begin
<1>9. ASSUME NEW c \in Cycles, Finish(c) PROVE TypeOK' /\ Positioned'
  <2>1. /\ Head(held[c]) \in Keys /\ Tail(held[c]) \in Seq(Keys)
        /\ Len(Tail(held[c])) <= MaxTasks
    BY <1>9, TailFacts, BoundsAssumption DEF Finish
  <2> QED BY <1>9, <2>1 DEF Finish
<1>10. ASSUME NEW c \in Cycles, CycleEnd(c) PROVE TypeOK' /\ Positioned'
  BY <1>10 DEF CycleEnd, Idle
<1>11. ASSUME NEW c \in Cycles, Crash(c) PROVE TypeOK' /\ Positioned'
  <2>1. lost' \subseteq Keys
    BY <1>11, HeldKeys DEF Crash, Holds
  <2> QED BY <1>11, <2>1, BoundsAssumption DEF Crash, Idle
<1>12. CASE UNCHANGED vars
  BY <1>12 DEF vars
<1> QED BY <1>1, <1>2, <1>3, <1>4, <1>5, <1>6, <1>7, <1>8, <1>9, <1>10, <1>11, <1>12
        DEF Next, Step

-----------------------------------------------------------------------------
\* A step in which no working cycle takes anything up and no row changes keeps
\* the owners apart.
LEMMA Quiet ==
    ASSUME IInv, TypeOK', UNCHANGED <<status, started>>,
           \A d \in Cycles : Working(d)' =>
                \/ held'[d] = <<>>
                \/ /\ Working(d) /\ held'[d] = held[d]
                   /\ stage[d] = "finish" => stage'[d] = "finish"
    PROVE  Unstarted' /\ RunOnce' /\ Leased' /\ Apart'
<1>1. Unstarted' /\ RunOnce'
  BY DEF IInv, Unstarted, RunOnce
<1>2. \A d \in Cycles : Working(d)' => \A n \in 1..Len(held'[d]) :
          Working(d) /\ held'[d] = held[d] /\ (stage[d] = "finish" => stage'[d] = "finish")
  OBVIOUS
<1>3. Leased'
  BY <1>2 DEF IInv, Leased
<1>4. Apart'
  BY <1>2 DEF IInv, Apart
<1> QED BY <1>1, <1>3, <1>4

\* Enqueueing gives no cycle a task.
LEMMA InsertStep ==
    ASSUME IInv, TypeOK', NEW c \in Cycles, Insert(c)
    PROVE  Unstarted' /\ RunOnce' /\ Leased' /\ Apart'
<1> USE DEF IInv
<1>1. \A d \in Cycles : Working(d)' => Working(d) /\ held'[d] = held[d] /\ stage'[d] = stage[d]
  BY DEF Insert, Working, TypeOK
<1>2. \A k \in Keys : \/ status'[k] = status[k]
                      \/ status[k] = "none" /\ status'[k] = "queued"
  BY TailFacts DEF Insert, TypeOK, Positioned
<1>3. started' = started
  BY DEF Insert
<1>4. Unstarted' /\ RunOnce'
  BY <1>2, <1>3 DEF Unstarted, RunOnce
<1>5. Leased'
  BY <1>1, <1>2, <1>3, HeldKeys DEF Leased
<1>6. Apart'
  BY <1>1 DEF Apart
<1> QED BY <1>4, <1>5, <1>6

\* The task that is leased was nobody's and was never begun.
LEMMA LeaseStep ==
    ASSUME IInv, TypeOK', NEW c \in Cycles, Lease(c)
    PROVE  Unstarted' /\ RunOnce' /\ Leased' /\ Apart'
<1> USE DEF IInv
<1>1. PICK k \in Keys : /\ status[k] = "queued"
                        /\ status' = [status EXCEPT ![k] = "running"]
                        /\ held' = [held EXCEPT ![c] = Append(held[c], k)]
  BY DEF Lease, First, Leasable
<1>2. stage[c] = "drain" /\ stage' = stage /\ started' = started
  BY DEF Lease
<1>3. Unstarted' /\ RunOnce' /\ started[k] = 0
  BY <1>1, <1>2 DEF Unstarted, RunOnce, TypeOK
<1>4. \A d \in Cycles : Working(d)' = Working(d)
  BY <1>2 DEF Working
<1>5. \A d \in Cycles : Working(d) => \A n \in 1..Len(held[d]) :
          held[d][n] \in Keys /\ held[d][n] # k
  BY <1>1, HeldKeys DEF Leased
<1>6. \A d \in Cycles : \A n \in 1..Len(held'[d]) :
          \/ n \in 1..Len(held[d]) /\ held'[d][n] = held[d][n]
          \/ d = c /\ n = Len(held[c]) + 1 /\ held'[d][n] = k
  BY <1>1, AppendFacts DEF TypeOK
<1>7. Leased'
  <2> SUFFICES ASSUME NEW d \in Cycles, Working(d), NEW n \in 1..Len(held'[d])
               PROVE  /\ status'[held'[d][n]] = "running"
                      /\ (n > 1 \/ stage[d] # "finish") => started[held'[d][n]] = 0
    BY <1>2, <1>4 DEF Leased
  <2>1. CASE n \in 1..Len(held[d]) /\ held'[d][n] = held[d][n]
    BY <2>1, <1>1, <1>5 DEF Leased, TypeOK
  <2>2. CASE held'[d][n] = k
    BY <2>2, <1>1, <1>3 DEF TypeOK
  <2> QED BY <2>1, <2>2, <1>6
<1>8. Apart'
  <2> SUFFICES ASSUME NEW d \in Cycles, NEW e \in Cycles, Working(d), Working(e),
                      NEW m \in 1..Len(held'[d]), NEW n \in 1..Len(held'[e]),
                      held'[d][m] = held'[e][n]
               PROVE  d = e /\ m = n
    BY <1>4 DEF Apart
  <2> QED BY <1>5, <1>6 DEF Apart
<1> QED BY <1>3, <1>7, <1>8

\* The task that is begun is begun for the first time, and is no one else's.
LEMMA BeginStep ==
    ASSUME IInv, TypeOK', NEW c \in Cycles, Begin(c)
    PROVE  Unstarted' /\ RunOnce' /\ Leased' /\ Apart'
<1> USE DEF IInv
<1> DEFINE k == held[c][1]
<1>1. /\ k \in Keys /\ 1 \in 1..Len(held[c]) /\ Working(c)
      /\ stage[c] = "begin" /\ stage' = [stage EXCEPT ![c] = "finish"]
      /\ started' = [started EXCEPT ![k] = started[k] + 1]
      /\ UNCHANGED <<status, held>>
  BY TailFacts DEF Begin, TypeOK, Working
<1>2. status[k] = "running" /\ started[k] = 0
  BY <1>1 DEF Leased
<1>3. \A l \in Keys : started'[l] = started[l] \/ (l = k /\ started'[l] = 1)
  BY <1>1, <1>2 DEF TypeOK
<1>4. Unstarted' /\ RunOnce'
  <2>1. \A l \in Keys : status'[l] \in {"none", "queued"} => l # k /\ started'[l] = 0
    BY <1>1, <1>2, <1>3 DEF Unstarted
  <2>2. \A l \in Keys : started'[l] <= 1
    BY <1>3 DEF RunOnce
  <2> QED BY <2>1, <2>2 DEF Unstarted, RunOnce
<1>5. \A d \in Cycles : Working(d)' = Working(d)
  BY <1>1 DEF Working, TypeOK
<1>6. Leased'
  <2> SUFFICES ASSUME NEW d \in Cycles, Working(d), NEW n \in 1..Len(held[d])
               PROVE  /\ status[held[d][n]] = "running"
                      /\ (n > 1 \/ stage'[d] # "finish") => started'[held[d][n]] = 0
    BY <1>1, <1>5 DEF Leased
  <2>1. status[held[d][n]] = "running" /\ held[d][n] \in Keys
    BY HeldKeys DEF Leased
  <2>2. ASSUME n > 1 \/ stage'[d] # "finish" PROVE started'[held[d][n]] = 0
    <3>1. d # c \/ n # 1
      BY <1>1, <2>2 DEF TypeOK
    <3>2. held[d][n] # k
      BY <1>1, <3>1 DEF Apart
    <3>3. n > 1 \/ stage[d] # "finish"
      BY <1>1, <2>2 DEF TypeOK
    <3> QED BY <1>3, <2>1, <3>2, <3>3 DEF Leased
  <2> QED BY <2>1, <2>2
<1>7. Apart'
  BY <1>1, <1>5 DEF Apart
<1> QED BY <1>4, <1>6, <1>7

\* Finishing a task takes nothing from the others.
LEMMA FinishStep ==
    ASSUME IInv, TypeOK', NEW c \in Cycles, Finish(c)
    PROVE  Unstarted' /\ RunOnce' /\ Leased' /\ Apart'
<1> USE DEF IInv
<1> DEFINE k == held[c][1]
<1>1. held[c] \in Seq(Keys) /\ held[c] # <<>>
  BY DEF Finish, TypeOK, Positioned
<1>2. PICK result \in {"completed", "failed"} : status' = [status EXCEPT ![k] = result]
  BY <1>1, TailFacts DEF Finish
<1>3. /\ k \in Keys /\ 1 \in 1..Len(held[c]) /\ Working(c)
      /\ stage[c] = "finish" /\ stage' = [stage EXCEPT ![c] = "begin"]
      /\ held' = [held EXCEPT ![c] = Tail(held[c])]
      /\ started' = started
  BY <1>1, TailFacts DEF Finish, Working
<1>4. Unstarted' /\ RunOnce'
  BY <1>2, <1>3 DEF Unstarted, RunOnce, TypeOK
<1>5. \A d \in Cycles : Working(d)' = Working(d)
  BY <1>3 DEF Working, TypeOK
<1>6. \A d \in Cycles : \A n \in 1..Len(held'[d]) :
          \/ d # c /\ stage'[d] = stage[d] /\ held'[d] = held[d]
          \/ d = c /\ n + 1 \in 2..Len(held[c]) /\ held'[d][n] = held[c][n + 1]
  BY <1>1, <1>3, TailFacts DEF TypeOK
<1>7. Leased'
  <2> SUFFICES ASSUME NEW d \in Cycles, Working(d), NEW n \in 1..Len(held'[d])
               PROVE  /\ status'[held'[d][n]] = "running"
                      /\ (n > 1 \/ stage'[d] # "finish") => started[held'[d][n]] = 0
    BY <1>3, <1>5 DEF Leased
  <2>1. CASE d # c /\ stage'[d] = stage[d] /\ held'[d] = held[d]
    <3>1. held[d][n] \in Keys /\ held[d][n] # k
      BY <1>3, <2>1, HeldKeys DEF Apart
    <3> QED BY <1>2, <2>1, <3>1 DEF Leased, TypeOK
  <2>2. CASE d = c /\ n + 1 \in 2..Len(held[c]) /\ held'[d][n] = held[c][n + 1]
    <3>1. n + 1 \in 1..Len(held[c]) /\ n + 1 > 1 /\ n + 1 # 1
      BY <2>2
    <3>2. held[c][n + 1] \in Keys /\ held[c][n + 1] # k
      BY <1>3, <3>1, HeldKeys DEF Apart
    <3>3. status[held[c][n + 1]] = "running" /\ started[held[c][n + 1]] = 0
      BY <1>3, <3>1 DEF Leased
    <3> QED BY <1>2, <2>2, <3>2, <3>3 DEF TypeOK
  <2> QED BY <2>1, <2>2, <1>6
<1>8. Apart'
  <2> SUFFICES ASSUME NEW d \in Cycles, NEW e \in Cycles, Working(d), Working(e),
                      NEW m \in 1..Len(held'[d]), NEW n \in 1..Len(held'[e]),
                      held'[d][m] = held'[e][n]
               PROVE  d = e /\ m = n
    BY <1>5 DEF Apart
  <2>1. PICK i \in 1..Len(held[d]) :
            held'[d][m] = held[d][i] /\ i = (IF d = c THEN m + 1 ELSE m)
    BY <1>6
  <2>2. PICK j \in 1..Len(held[e]) :
            held'[e][n] = held[e][j] /\ j = (IF e = c THEN n + 1 ELSE n)
    BY <1>6
  <2>3. held[d][i] = held[e][j]
    BY <2>1, <2>2
  <2>4. d = e /\ i = j
    BY <2>3 DEF Apart
  <2> QED BY <2>1, <2>2, <2>4
<1> QED BY <1>4, <1>7, <1>8

-----------------------------------------------------------------------------
\* Every step keeps the inductive invariant.
LEMMA IInvStep == ASSUME IInv, [Next]_vars PROVE IInv'
<1>1. TypeOK' /\ Positioned'
  BY TypeStep DEF IInv
<1> SUFFICES Unstarted' /\ RunOnce' /\ Leased' /\ Apart'
  BY <1>1 DEF IInv
<1>2. CASE UNCHANGED vars
  BY <1>1, <1>2, Quiet DEF vars, Working
<1>3. ASSUME NEW c \in Cycles,
             \/ \E session \in Sessions : SessionEnded(c, session)
             \/ SessionStarted(c) \/ FindExisting(c) \/ EnqueueEnd(c)
             \/ DrainEnd(c) \/ CycleEnd(c) \/ Crash(c)
      PROVE  Unstarted' /\ RunOnce' /\ Leased' /\ Apart'
  <2>1. UNCHANGED <<status, started>>
    BY <1>3 DEF SessionEnded, SessionStarted, FindExisting, EnqueueEnd, DrainEnd, CycleEnd, Crash
  <2>2. ASSUME NEW d \in Cycles, Working(d)'
        PROVE  \/ held'[d] = <<>>
               \/ /\ Working(d) /\ held'[d] = held[d]
                  /\ stage[d] = "finish" => stage'[d] = "finish"
    BY <1>3, <2>2
       DEF IInv, TypeOK, Positioned, Working, SessionEnded, SessionStarted, FindExisting,
           EnqueueEnd, DrainEnd, CycleEnd, Crash, Idle
  <2> QED BY <1>1, <2>1, <2>2, Quiet
<1> QED BY <1>1, <1>2, <1>3, InsertStep, LeaseStep, BeginStep, FinishStep DEF Next, Step

\* The inductive invariant holds throughout.
LEMMA IInvInvariance == Spec => []IInv
<1>1. IInv /\ [Next]_vars => IInv'
  BY IInvStep
<1> QED BY InitIInv, <1>1, PTL DEF Spec

\* Every state of the task queue has its type, and no cycle leases more than its budget.
THEOREM TypeCorrect == Spec => []TypeOK
<1>1. IInv => TypeOK
  BY DEF IInv
<1> QED BY IInvInvariance, <1>1, PTL

\* No task is run twice: the key is looked up, inserted and leased atomically
\* each, and nothing returns a row to the queue.
THEOREM RunAtMostOnce == Spec => []RunOnce
<1>1. IInv => RunOnce
  BY DEF IInv
<1> QED BY IInvInvariance, <1>1, PTL

\* What two cycles hold is disjoint, and running.
THEOREM LeasesExclusive == Spec => []OneOwner
<1>1. IInv => OneOwner
  BY DEF IInv, Leased, Apart, OneOwner, Holds
<1> QED BY IInvInvariance, <1>1, PTL
=============================================================================
