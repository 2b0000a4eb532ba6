-------------------------- MODULE WorkerPool_proofs --------------------------
(***************************************************************************)
(* Proofs about WorkerPool, for every set of calls and every size.         *)
(*                                                                         *)
(* The inductive invariant is written over values rather than variables:   *)
(* most handlers first change the slots, the resolvers and the promises    *)
(* and then schedule, so what a handler establishes is the same formula    *)
(* over the intermediate values that ScheduleNext is given.                *)
(***************************************************************************)
EXTENDS WorkerPool, FiniteSetTheorems, TLAPS

Members(q) == {q[n] : n \in 1..Len(q)}
Workforce(sl) == {s \in Calls : sl[s].listed \/ sl[s].asked = "timeout"}

Typed(sl, q, res, out) ==
    /\ sl \in [Calls -> Slot]
    /\ q \in Seq(Calls) /\ Len(q) <= MaxQueue
    /\ res \subseteq Calls
    /\ out \in [Calls -> {"new", "pending", "resolved", "rejected"}]

\* A listed slot has a live thread nobody has timed out; a thread nobody asked
\* to stop is listed; a thread that does not exist has left no trace.
SlotsSound(sl, ph) ==
    \A s \in Calls :
        /\ sl[s].thread = "none" => sl[s] = NoSlot
        /\ sl[s].listed => sl[s].thread = "up" /\ sl[s].asked # "timeout"
        /\ sl[s].active # None => sl[s].listed
        /\ (sl[s].thread = "up" /\ sl[s].asked = "no") => sl[s].listed
        /\ ph = "open" => sl[s].asked # "terminate"

QueueSound(sl, q, res, out) ==
    /\ \A m, n \in 1..Len(q) : q[m] = q[n] => m = n
    /\ Members(q) \cap res = {}
    /\ \A c \in Calls : out[c] = "pending" <=> c \in Members(q) \cup res
    /\ \A c \in Calls : (out[c] = "new" \/ c \in Members(q)) => sl[c].thread = "none"

ActiveSound(sl, res) ==
    /\ \A c \in res : \E s \in Calls : sl[s].active = c
    /\ \A s \in Calls : sl[s].active # None => sl[s].active \in res
    /\ \A s, t \in Calls : (sl[s].active # None /\ sl[s].active = sl[t].active) => s = t

ClosedSound(q, res, ph) == ph # "open" => q = <<>> /\ res = {}

Limited(sl) == Cardinality(Listed(sl)) <= MaxWorkers

Sound(sl, q, res, ph, out) ==
    /\ Typed(sl, q, res, out) /\ SlotsSound(sl, ph) /\ QueueSound(sl, q, res, out)
    /\ ActiveSound(sl, res) /\ ClosedSound(q, res, ph) /\ Limited(sl)

Conserving(sl, q, ph) ==
    (ph = "open" /\ q # <<>>) =>
        Idle(sl) = {} /\ Cardinality(Workforce(sl)) >= MaxWorkers

\* What a handler leaves to ScheduleNext: one worker short, or one idle.
NearlyConserving(sl, q, ph) ==
    (ph = "open" /\ q # <<>>) =>
        \/ Idle(sl) = {} /\ Cardinality(Workforce(sl)) + 1 >= MaxWorkers
        \/ /\ \E s \in Calls : Idle(sl) = {s}
           /\ Cardinality(Workforce(sl)) >= MaxWorkers

IInv ==
    /\ Sound(slot, queue, taskResolvers, phase, outcome)
    /\ Conserving(slot, queue, phase)
    /\ phase \in {"open", "closing", "closed"}
    /\ drain \in [Drains -> {"new", "waiting", "done"}]

-----------------------------------------------------------------------------
\* Taking the head off a queue without repetitions takes it out of the queue.
LEMMA TailFacts ==
    ASSUME NEW q \in Seq(Calls), q # <<>>,
           \A m, n \in 1..Len(q) : q[m] = q[n] => m = n
    PROVE  /\ Tail(q) \in Seq(Calls) /\ Len(Tail(q)) = Len(q) - 1
           /\ Head(q) \in Calls /\ Head(q) \in Members(q)
           /\ Members(Tail(q)) = Members(q) \ {Head(q)}
           /\ \A m, n \in 1..Len(Tail(q)) : Tail(q)[m] = Tail(q)[n] => m = n
<1>1. Len(q) \in Nat /\ Len(q) >= 1 /\ Head(q) = q[1] /\ 1 \in 1..Len(q)
    OBVIOUS
<1>2. Tail(q) \in Seq(Calls) /\ Len(Tail(q)) = Len(q) - 1
    OBVIOUS
<1>3. \A n \in 1..Len(Tail(q)) : Tail(q)[n] = q[n + 1] /\ n + 1 \in 1..Len(q)
    BY <1>1, <1>2
<1>4. Head(q) \in Calls /\ Head(q) \in Members(q)
    BY <1>1 DEF Members
<1>5. Members(Tail(q)) \subseteq Members(q) \ {Head(q)}
    <2>1. ASSUME NEW n \in 1..Len(Tail(q)) PROVE q[n + 1] # q[1]
        BY <1>1, <1>3
    <2> QED BY <2>1, <1>1, <1>3 DEF Members
<1>6. Members(q) \ {Head(q)} \subseteq Members(Tail(q))
    <2>1. ASSUME NEW n \in 1..Len(q), n # 1
          PROVE  n - 1 \in 1..Len(Tail(q)) /\ Tail(q)[n - 1] = q[n]
        BY <2>1, <1>1, <1>2, <1>3
    <2> QED BY <2>1, <1>1 DEF Members
<1>7. \A m, n \in 1..Len(Tail(q)) : Tail(q)[m] = Tail(q)[n] => m = n
    BY <1>1, <1>2, <1>3
<1> QED BY <1>2, <1>4, <1>5, <1>6, <1>7

\* Adding a call that is not in a queue leaves it without repetitions.
LEMMA AppendFacts ==
    ASSUME NEW q \in Seq(Calls), NEW c \in Calls, c \notin Members(q),
           \A m, n \in 1..Len(q) : q[m] = q[n] => m = n
    PROVE  /\ Append(q, c) \in Seq(Calls) /\ Len(Append(q, c)) = Len(q) + 1
           /\ Append(q, c) # <<>>
           /\ Members(Append(q, c)) = Members(q) \cup {c}
           /\ \A m, n \in 1..Len(Append(q, c)) : Append(q, c)[m] = Append(q, c)[n] => m = n
<1>1. Len(q) \in Nat /\ Append(q, c) \in Seq(Calls) /\ Len(Append(q, c)) = Len(q) + 1
    OBVIOUS
<1>2. \A n \in 1..Len(q) : Append(q, c)[n] = q[n] /\ q[n] \in Members(q)
    BY DEF Members
<1>3. Append(q, c)[Len(q) + 1] = c
    OBVIOUS
<1>4. \A n \in 1..Len(q) + 1 : n \in 1..Len(q) \/ n = Len(q) + 1
    BY <1>1
<1>5. Members(Append(q, c)) \subseteq Members(q) \cup {c}
    BY <1>1, <1>2, <1>3, <1>4 DEF Members
<1>6. Members(q) \cup {c} \subseteq Members(Append(q, c))
    <2>1. \A n \in 1..Len(q) : n \in 1..Len(Append(q, c))
        BY <1>1
    <2>2. Len(q) + 1 \in 1..Len(Append(q, c))
        BY <1>1
    <2> QED BY <1>2, <1>3, <2>1, <2>2 DEF Members
<1>7. \A m, n \in 1..Len(q) + 1 : Append(q, c)[m] = Append(q, c)[n] => m = n
    BY <1>2, <1>3, <1>4
<1> QED BY <1>1, <1>5, <1>6, <1>7

\* Sets of slots are finite, and Cardinality grows with the set.
LEMMA Sizes ==
    ASSUME NEW A, NEW B, A \subseteq B, B \subseteq Calls
    PROVE  /\ IsFiniteSet(A) /\ Cardinality(A) \in Nat /\ Cardinality(B) \in Nat
           /\ Cardinality(A) <= Cardinality(B)
           /\ \A s \in Calls \ A : Cardinality(A \cup {s}) = Cardinality(A) + 1
           /\ \A s \in A : Cardinality(A \ {s}) = Cardinality(A) - 1
<1>1. IsFiniteSet(B) /\ IsFiniteSet(A)
    BY FS_Subset, CallsAssumption
<1> QED BY <1>1, FS_Subset, FS_CardinalityType, FS_AddElement, FS_RemoveElement

-----------------------------------------------------------------------------
\* Handing a call that is in no slot and has no thread to a chosen worker:
\* the limit holds, the worker is no longer idle, and nothing else changes.
LEMMA Assigning ==
    ASSUME NEW sl \in [Calls -> Slot], SlotsSound(sl, phase), Limited(sl),
           NEW c \in Calls, sl[c].thread = "none", NEW s \in Choices(sl, c),
           phase = "open"
    PROVE  /\ s \in Calls
           /\ Assigned(sl, s, c) \in [Calls -> Slot]
           /\ SlotsSound(Assigned(sl, s, c), phase)
           /\ Limited(Assigned(sl, s, c))
           /\ Assigned(sl, s, c)[s].active = c /\ sl[s].active = None
           /\ \A t \in Calls \ {s} : Assigned(sl, s, c)[t] = sl[t]
           /\ s # c => sl[s].thread = "up"
           /\ Idle(Assigned(sl, s, c)) = Idle(sl) \ {s}
           /\ s \in Idle(sl) => Workforce(Assigned(sl, s, c)) = Workforce(sl)
           /\ s \notin Idle(sl) =>
                /\ s = c /\ Idle(sl) = {}
                /\ Cardinality(Workforce(Assigned(sl, s, c))) = Cardinality(Workforce(sl)) + 1
<1> DEFINE new == Assigned(sl, s, c)
<1>1. s \in Calls /\ (s \in Idle(sl) \/ (s = c /\ Idle(sl) = {}
                                        /\ Cardinality(Listed(sl)) < MaxWorkers))
    BY DEF Choices, Idle, Listed
<1>2. sl[s] \in Slot /\ sl[c] = NoSlot
    BY <1>1 DEF SlotsSound
<1>3. s \in Idle(sl) => sl[s].listed /\ sl[s].thread = "up" /\ sl[s].active = None
                        /\ sl[s].asked = "no"
    BY <1>1, <1>2 DEF Idle, Listed, SlotsSound, Slot
<1>4. sl[s].active = None /\ (s # c => sl[s].thread = "up")
    BY <1>1, <1>2, <1>3 DEF NoSlot
<1>5. new[s] = [thread |-> "up", listed |-> TRUE, active |-> c, owes |-> c, asked |-> "no"]
    BY <1>1, <1>2, <1>3 DEF Assigned, NoSlot
<1>6. \A t \in Calls \ {s} : new[t] = sl[t]
    BY DEF Assigned
<1>7. new \in [Calls -> Slot]
    <2>1. [thread |-> IF sl[s].thread = "none" THEN "up" ELSE sl[s].thread,
           listed |-> TRUE, active |-> c, owes |-> c, asked |-> "no"] \in Slot
        BY <1>2 DEF Slot
    <2> QED BY <2>1 DEF Assigned
<1>8. SlotsSound(new, phase)
    BY <1>1, <1>5, <1>6 DEF SlotsSound
<1>9. Listed(new) = Listed(sl) \cup {s}
    BY <1>1, <1>5, <1>6 DEF Listed
<1>10. Limited(new)
    <2>1. CASE s \in Idle(sl)
        <3>1. Listed(new) = Listed(sl)
            BY <2>1, <1>9 DEF Idle
        <3> QED BY <3>1 DEF Limited
    <2>2. CASE s \notin Idle(sl)
        <3>1. s \notin Listed(sl) /\ Listed(sl) \subseteq Calls
            BY <2>2, <1>1, <1>2 DEF Listed, NoSlot
        <3>2. Cardinality(Listed(new)) = Cardinality(Listed(sl)) + 1
            BY <3>1, <1>1, <1>9, Sizes
        <3> QED BY <3>1, <3>2, <2>2, <1>1, Sizes, SizesAssumption DEF Limited
    <2> QED BY <2>1, <2>2
<1>11. Idle(new) = Idle(sl) \ {s}
    <2>1. new[s].active # None
        BY <1>5, CallsAssumption
    <2> QED BY <2>1, <1>1, <1>5, <1>6, <1>9 DEF Idle, Listed
<1>12. Workforce(new) = Workforce(sl) \cup {s}
    BY <1>1, <1>5, <1>6 DEF Workforce
<1>13. s \in Idle(sl) => Workforce(new) = Workforce(sl)
    BY <1>12, <1>3, <1>1 DEF Workforce
<1>14. ASSUME s \notin Idle(sl)
       PROVE  s = c /\ Idle(sl) = {} /\ Cardinality(Workforce(new)) = Cardinality(Workforce(sl)) + 1
    <2>1. s \notin Workforce(sl) /\ Workforce(sl) \subseteq Calls
        BY <1>14, <1>1, <1>2 DEF Workforce, NoSlot
    <2> QED BY <2>1, <1>1, <1>12, <1>14, Sizes
<1>15. new[s].active = c
    BY <1>5
<1> QED BY <1>1, <1>4, <1>6, <1>7, <1>8, <1>10, <1>11, <1>13, <1>14, <1>15

-----------------------------------------------------------------------------
\* Assigning a call that is in no queue and not yet held keeps the invariant.
LEMMA AssigningSound ==
    ASSUME NEW sl, NEW q, NEW res, NEW out,
           Typed(sl, q, res, out), SlotsSound(sl, phase), Limited(sl), ActiveSound(sl, res),
           \A m, n \in 1..Len(q) : q[m] = q[n] => m = n,
           NEW c \in Calls, c \notin Members(q), c \notin res, Members(q) \cap res = {},
           \A d \in Calls : out[d] = "pending" <=> d \in Members(q) \cup res \cup {c},
           \A d \in Calls : (out[d] = "new" \/ d \in Members(q) \cup {c}) => sl[d].thread = "none",
           phase = "open", NEW s \in Choices(sl, c)
    PROVE  Sound(Assigned(sl, s, c), q, res \cup {c}, phase, out)
<1> DEFINE new == Assigned(sl, s, c)
<1> HIDE DEF new
<1>1. sl \in [Calls -> Slot] /\ sl[c].thread = "none"
    BY DEF Typed
<1>2. /\ s \in Calls /\ new \in [Calls -> Slot] /\ SlotsSound(new, phase) /\ Limited(new)
      /\ new[s].active = c /\ sl[s].active = None
      /\ \A t \in Calls \ {s} : new[t] = sl[t]
      /\ s # c => sl[s].thread = "up"
    BY <1>1, Assigning DEF new
<1>3. Typed(new, q, res \cup {c}, out)
    BY <1>2 DEF Typed
<1>4. QueueSound(new, q, res \cup {c}, out)
    <2>1. ASSUME NEW d \in Calls, out[d] = "new" \/ d \in Members(q)
          PROVE  new[d].thread = "none"
        <3>1. sl[d].thread = "none"
            BY <2>1
        <3>2. d # c
            BY <2>1
        <3>3. d # s
            BY <1>2, <3>1, <3>2
        <3> QED BY <1>2, <3>1, <3>3
    <2> QED BY <2>1 DEF QueueSound
<1>5. ActiveSound(new, res \cup {c})
    <2>1. \A d \in res : \E t \in Calls : new[t].active = d
        <3>1. \A d \in res : d # None
            BY CallsAssumption DEF Typed
        <3>2. \A d \in res : \E t \in Calls : t # s /\ sl[t].active = d
            BY <3>1, <1>2 DEF ActiveSound
        <3> QED BY <3>2, <1>2
    <2>2. \A t \in Calls : new[t].active # None => new[t].active \in res \cup {c}
        BY <1>2 DEF ActiveSound
    <2>3. \A t \in Calls \ {s} : new[t].active # c
        BY <1>2, CallsAssumption DEF ActiveSound
    <2>4. \A t, u \in Calls : (new[t].active # None /\ new[t].active = new[u].active) => t = u
        BY <1>2, <2>3 DEF ActiveSound
    <2> QED BY <1>2, <2>1, <2>2, <2>4 DEF ActiveSound
<1>6. ClosedSound(q, res \cup {c}, phase)
    BY DEF ClosedSound
<1> QED BY <1>2, <1>3, <1>4, <1>5, <1>6 DEF Sound, new

\* Whatever a handler leaves to ScheduleNext, sound but for the call it has
\* still to schedule, is sound and work-conserving after it.
LEMMA Scheduling ==
    ASSUME NEW sl, NEW res, NEW out,
           Sound(sl, queue, res, phase, out), NearlyConserving(sl, queue, phase),
           drain \in [Drains -> {"new", "waiting", "done"}],
           ScheduleNext(sl, res)
    PROVE  /\ Sound(slot', queue', taskResolvers', phase, out)
           /\ Conserving(slot', queue', phase)
           /\ drain' \in [Drains -> {"new", "waiting", "done"}]
           /\ \/ drain' = drain
              \/ /\ queue' = <<>> /\ taskResolvers' = {}
                 /\ drain' = [d \in Drains |-> IF drain[d] = "waiting" THEN "done" ELSE drain[d]]
<1>1. queue \in Seq(Calls) /\ \A m, n \in 1..Len(queue) : queue[m] = queue[n] => m = n
    BY DEF Sound, Typed, QueueSound
<1>2. CASE queue = <<>>
    <2>1. /\ slot' = sl /\ taskResolvers' = res /\ queue' = queue
          /\ drain' = DrainWaitersAfter(queue, res)
        BY <1>2 DEF ScheduleNext
    <2>2. Conserving(slot', queue', phase)
        BY <1>2, <2>1 DEF Conserving
    <2>3. CASE res = {}
        <3>1. drain' = [d \in Drains |-> IF drain[d] = "waiting" THEN "done" ELSE drain[d]]
            BY <1>2, <2>1, <2>3 DEF DrainWaitersAfter, IsIdle
        <3>2. drain' \in [Drains -> {"new", "waiting", "done"}]
            BY <3>1
        <3> QED BY <1>2, <2>1, <2>2, <2>3, <3>1, <3>2
    <2>4. CASE res # {}
        <3>1. drain' = drain
            BY <2>1, <2>4 DEF DrainWaitersAfter, IsIdle
        <3> QED BY <2>1, <2>2, <3>1
    <2> QED BY <2>3, <2>4
<1>3. CASE /\ queue # <<>> /\ phase = "open"
           /\ \E s \in Choices(sl, Head(queue)) : slot' = Assigned(sl, s, Head(queue))
           /\ taskResolvers' = res \cup {Head(queue)}
           /\ queue' = Tail(queue) /\ drain' = drain
    <2> DEFINE c == Head(queue)
    <2>1. PICK s \in Choices(sl, c) : slot' = Assigned(sl, s, c)
        BY <1>3
    <2>2. /\ queue' \in Seq(Calls) /\ Len(queue') = Len(queue) - 1
          /\ c \in Calls /\ c \in Members(queue)
          /\ Members(queue') = Members(queue) \ {c}
          /\ \A m, n \in 1..Len(queue') : queue'[m] = queue'[n] => m = n
        BY <1>1, <1>3, TailFacts
    <2> HIDE DEF c
    <2>3. sl \in [Calls -> Slot] /\ SlotsSound(sl, phase) /\ Limited(sl) /\ sl[c].thread = "none"
        BY <2>2 DEF Sound, Typed, QueueSound
    <2>4. Sound(slot', queue', taskResolvers', phase, out)
        <3>1. Typed(sl, queue', res, out)
            <4>1. Len(queue) \in Nat /\ Len(queue) <= MaxQueue
                BY DEF Sound, Typed
            <4>2. Len(queue') <= MaxQueue
                BY <4>1, <2>2, SizesAssumption
            <4> QED BY <4>2, <2>2 DEF Sound, Typed
        <3>2. c \notin res /\ c \notin Members(queue') /\ Members(queue') \cap res = {}
            BY <2>2 DEF Sound, QueueSound
        <3>3. \A d \in Calls : out[d] = "pending" <=> d \in Members(queue') \cup res \cup {c}
            BY <2>2 DEF Sound, QueueSound
        <3>4. \A d \in Calls : (out[d] = "new" \/ d \in Members(queue') \cup {c})
                                    => sl[d].thread = "none"
            BY <2>2 DEF Sound, QueueSound
        <3>5. ActiveSound(sl, res)
            BY DEF Sound
        <3>6. Sound(Assigned(sl, s, c), queue', res \cup {c}, phase, out)
            BY <1>3, <2>1, <2>2, <2>3, <3>1, <3>2, <3>3, <3>4, <3>5, AssigningSound
        <3> QED BY <3>6, <1>3, <2>1 DEF c
    <2>5. Idle(slot') = {} /\ Cardinality(Workforce(slot')) >= MaxWorkers
        <3>1. /\ Idle(slot') = Idle(sl) \ {s}
              /\ s \in Idle(sl) => Workforce(slot') = Workforce(sl)
              /\ s \notin Idle(sl) =>
                    /\ Idle(sl) = {}
                    /\ Cardinality(Workforce(slot')) = Cardinality(Workforce(sl)) + 1
            BY <1>3, <2>1, <2>2, <2>3, Assigning
        <3>2. CASE s \in Idle(sl)
            BY <3>1, <3>2, <1>3 DEF NearlyConserving
        <3>3. CASE s \notin Idle(sl)
            <4>1. Idle(sl) = {} /\ Cardinality(Workforce(sl)) \in Nat
                BY <3>1, <3>3, Sizes DEF Workforce
            <4>2. Cardinality(Workforce(sl)) + 1 >= MaxWorkers
                BY <1>3, <4>1, SizesAssumption DEF NearlyConserving
            <4> QED BY <3>1, <3>3, <4>1, <4>2
        <3> QED BY <3>2, <3>3
    <2> QED BY <1>3, <2>4, <2>5 DEF Conserving
<1>4. CASE /\ queue # <<>> /\ phase # "open"
    BY <1>4 DEF Sound, ClosedSound
<1>5. CASE /\ queue # <<>> /\ phase = "open" /\ Choices(sl, Head(queue)) = {}
           /\ queue' = queue /\ slot' = sl /\ taskResolvers' = res /\ drain' = drain
    <2>1. Idle(sl) = {} /\ ~(Cardinality(Listed(sl)) < MaxWorkers)
        BY <1>5 DEF Choices
    <2>2. /\ Cardinality(Listed(sl)) \in Nat /\ Cardinality(Workforce(sl)) \in Nat
          /\ Cardinality(Listed(sl)) <= Cardinality(Workforce(sl))
        <3>1. Listed(sl) \subseteq Workforce(sl) /\ Workforce(sl) \subseteq Calls
            BY DEF Listed, Workforce
        <3> QED BY <3>1, Sizes
    <2>3. Cardinality(Workforce(sl)) >= MaxWorkers
        BY <2>1, <2>2, SizesAssumption
    <2> QED BY <1>5, <2>1, <2>3 DEF Conserving
<1> QED BY <1>2, <1>3, <1>4, <1>5 DEF ScheduleNext

-----------------------------------------------------------------------------
(***************************************************************************)
(* A handler that ends what a slot was doing                               *)
(***************************************************************************)

\* Settling the call of a slot and giving the slot a sound row with no call.
LEMMA Freeing ==
    ASSUME Sound(slot, queue, taskResolvers, phase, outcome),
           NEW s \in Calls, NEW row \in Slot, NEW answer \in {"resolved", "rejected"},
           slot[s].thread # "none", row.thread # "none", row.active = None,
           row.listed => slot[s].listed /\ row.thread = "up" /\ row.asked # "timeout",
           (row.thread = "up" /\ row.asked = "no") => row.listed,
           phase = "open" => row.asked # "terminate"
    PROVE  Sound([slot EXCEPT ![s] = row], queue, taskResolvers \ {slot[s].active},
                 phase, Settled(slot[s].active, answer))
<1> DEFINE new == [slot EXCEPT ![s] = row]
           c == slot[s].active
           res == taskResolvers \ {c}
           out == Settled(c, answer)
<1>1. /\ slot \in [Calls -> Slot] /\ taskResolvers \subseteq Calls
      /\ outcome \in [Calls -> {"new", "pending", "resolved", "rejected"}]
      /\ queue \in Seq(Calls) /\ Len(queue) <= MaxQueue
    BY DEF Sound, Typed
<1>2. new[s] = row /\ \A t \in Calls \ {s} : new[t] = slot[t]
    BY <1>1
<1>3. c \in taskResolvers \/ (c = None /\ c \notin taskResolvers)
    BY <1>1, CallsAssumption DEF Sound, ActiveSound
<1>4. /\ \A d \in Calls : out[d] = IF d = c /\ c \in taskResolvers THEN answer ELSE outcome[d]
      /\ out \in [Calls -> {"new", "pending", "resolved", "rejected"}]
    BY <1>1 DEF Settled
<1>5. Typed(new, queue, res, out)
    BY <1>1, <1>4 DEF Typed
<1> HIDE DEF new, out
<1>6. SlotsSound(new, phase)
    BY <1>1, <1>2 DEF Sound, SlotsSound
<1>7. QueueSound(new, queue, res, out)
    <2>1. ASSUME NEW d \in Calls, out[d] = "new" \/ d \in Members(queue)
          PROVE  new[d].thread = "none"
        <3>1. outcome[d] = "new" \/ d \in Members(queue)
            BY <2>1, <1>4
        <3>2. slot[d].thread = "none"
            BY <3>1 DEF Sound, QueueSound
        <3> QED BY <3>2, <1>2
    <2>2. \A d \in Calls : out[d] = "pending" <=> d \in Members(queue) \cup res
        BY <1>3, <1>4 DEF Sound, QueueSound
    <2> QED BY <2>1, <2>2 DEF Sound, QueueSound
<1>8. ActiveSound(new, res)
    <2>1. ASSUME NEW d \in res PROVE \E t \in Calls : new[t].active = d
        <3>1. PICK t \in Calls : slot[t].active = d
            BY DEF Sound, ActiveSound
        <3> QED BY <3>1, <1>2
    <2>2. ASSUME NEW t \in Calls, new[t].active # None PROVE new[t].active \in res /\ t # s
        BY <2>2, <1>2 DEF Sound, ActiveSound
    <2>3. \A t, u \in Calls : (new[t].active # None /\ new[t].active = new[u].active) => t = u
        BY <2>2, <1>2 DEF Sound, ActiveSound
    <2> QED BY <2>1, <2>2, <2>3 DEF ActiveSound
<1>9. ClosedSound(queue, res, phase)
    BY DEF Sound, ClosedSound
<1>10. Limited(new)
    <2>1. Listed(new) \subseteq Listed(slot) /\ Listed(slot) \subseteq Calls
        BY <1>2 DEF Listed
    <2>2. /\ Cardinality(Listed(new)) \in Nat /\ Cardinality(Listed(slot)) \in Nat
          /\ Cardinality(Listed(new)) <= Cardinality(Listed(slot))
        BY <2>1, Sizes
    <2> QED BY <2>2, SizesAssumption DEF Sound, Limited
<1> QED BY <1>5, <1>6, <1>7, <1>8, <1>9, <1>10 DEF Sound, new, out

\* Taking one slot out of the workforce leaves it at most one short.
LEMMA Shrinking ==
    ASSUME slot \in [Calls -> Slot], Conserving(slot, queue, phase),
           NEW s \in Calls, NEW row \in Slot, ~row.listed
    PROVE  NearlyConserving([slot EXCEPT ![s] = row], queue, phase)
<1> DEFINE new == [slot EXCEPT ![s] = row]
<1>1. new[s] = row /\ \A t \in Calls \ {s} : new[t] = slot[t]
    OBVIOUS
<1> HIDE DEF new
<1>2. Idle(new) \subseteq Idle(slot)
    BY <1>1 DEF Idle, Listed
<1>3. Workforce(slot) \subseteq Calls /\ Workforce(new) \subseteq Calls
    BY DEF Workforce
<1>4. Workforce(slot) \ {s} \subseteq Workforce(new)
    BY <1>1 DEF Workforce
<1>5. /\ Cardinality(Workforce(slot)) \in Nat /\ Cardinality(Workforce(new)) \in Nat
      /\ Cardinality(Workforce(new)) + 1 >= Cardinality(Workforce(slot))
    <2>1. /\ Cardinality(Workforce(slot) \ {s}) \in Nat
          /\ Cardinality(Workforce(slot) \ {s}) + 1 >= Cardinality(Workforce(slot))
        <3>1. CASE s \in Workforce(slot)
            BY <3>1, <1>3, Sizes
        <3>2. CASE s \notin Workforce(slot)
            <4>1. Workforce(slot) \ {s} = Workforce(slot)
                BY <3>2
            <4> QED BY <4>1, <1>3, Sizes
        <3> QED BY <3>1, <3>2
    <2>2. Cardinality(Workforce(slot) \ {s}) <= Cardinality(Workforce(new))
        BY <1>3, <1>4, Sizes
    <2> QED BY <2>1, <2>2, <1>3, Sizes
<1>6. ASSUME phase = "open", queue # <<>>
      PROVE  Idle(new) = {} /\ Cardinality(Workforce(new)) + 1 >= MaxWorkers
    <2>1. Idle(slot) = {} /\ Cardinality(Workforce(slot)) >= MaxWorkers
        BY <1>6 DEF Conserving
    <2> QED BY <2>1, <1>2, <1>5, SizesAssumption
<1> QED BY <1>6 DEF NearlyConserving, new

\* The message handler frees its slot for the next call.
LEMMA MessageStep ==
    ASSUME IInv, NEW s \in Calls, Message(s)
    PROVE  IInv'
<1> DEFINE c == slot[s].owes
           new == [slot EXCEPT ![s].owes = None, ![s].active = None]
           row == [slot[s] EXCEPT !.owes = None, !.active = None]
<1>1. /\ slot \in [Calls -> Slot] /\ slot[s] \in Slot /\ slot[s].thread = "up" /\ c # None
      /\ phase' = phase
    BY DEF IInv, Sound, Typed, Message
<1>2. CASE slot[s].active = c
    <2>1. PICK answer \in {"resolved", "rejected"} :
            outcome' = Settled(c, answer) /\ ScheduleNext(new, taskResolvers \ {c})
        BY <1>2 DEF Message
    <2>2. new = [slot EXCEPT ![s] = row] /\ row \in Slot
        BY <1>1 DEF Slot
    <2>3. /\ row.thread = "up" /\ row.active = None /\ row.listed = slot[s].listed
          /\ row.asked = slot[s].asked
        BY <1>1 DEF Slot
    <2>4. /\ slot[s].listed /\ slot[s].asked # "timeout"
          /\ phase = "open" => slot[s].asked # "terminate"
        BY <1>1, <1>2 DEF IInv, Sound, SlotsSound
    <2> HIDE DEF row
    <2>5. Sound(new, queue, taskResolvers \ {c}, phase, outcome')
        <3>1. Sound(slot, queue, taskResolvers, phase, outcome)
            BY DEF IInv
        <3>2. /\ slot[s].thread # "none" /\ row.thread # "none" /\ row.active = None
              /\ row.listed => slot[s].listed /\ row.thread = "up" /\ row.asked # "timeout"
              /\ (row.thread = "up" /\ row.asked = "no") => row.listed
              /\ phase = "open" => row.asked # "terminate"
            BY <1>1, <2>3, <2>4
        <3>3. Sound([slot EXCEPT ![s] = row], queue, taskResolvers \ {slot[s].active},
                    phase, Settled(slot[s].active, answer))
            BY <2>2, <3>1, <3>2, Freeing
        <3> QED BY <3>3, <1>2, <2>1, <2>2
    <2>6. NearlyConserving(new, queue, phase)
        <3>1. new[s] = row /\ \A t \in Calls \ {s} : new[t] = slot[t]
            BY <1>1, <2>2
        <3> HIDE DEF new
        <3>2. Idle(new) = Idle(slot) \cup {s} /\ Workforce(new) = Workforce(slot)
            BY <3>1, <2>3, <2>4 DEF Idle, Listed, Workforce
        <3>3. ASSUME phase = "open", queue # <<>>
              PROVE  Idle(new) = {s} /\ Cardinality(Workforce(new)) >= MaxWorkers
            BY <3>2, <3>3 DEF IInv, Conserving
        <3> QED BY <3>3 DEF NearlyConserving
    <2> HIDE DEF new, c
    <2>7. /\ Sound(slot', queue', taskResolvers', phase, outcome')
          /\ Conserving(slot', queue', phase)
          /\ drain' \in [Drains -> {"new", "waiting", "done"}]
        BY <2>1, <2>5, <2>6, Scheduling DEF IInv
    <2> QED BY <2>7, <1>1 DEF IInv
<1>3. CASE slot[s].active # c
    <2> DEFINE kept == [slot[s] EXCEPT !.owes = None]
    <2>1. /\ slot' = [slot EXCEPT ![s].owes = None]
          /\ UNCHANGED <<queue, taskResolvers, outcome, drain>>
        BY <1>3 DEF Message
    <2>2. kept \in Slot /\ slot' = [slot EXCEPT ![s] = kept]
        BY <1>1, <2>1 DEF Slot
    <2>3. slot' \in [Calls -> Slot]
        BY <1>1, <2>2
    <2>4. \A t \in Calls : /\ slot'[t].thread = slot[t].thread /\ slot'[t].listed = slot[t].listed
                           /\ slot'[t].active = slot[t].active /\ slot'[t].asked = slot[t].asked
                           /\ slot'[t] # slot[t] => slot[t].thread = "up"
        BY <1>1, <2>2 DEF Slot
    <2>5. Listed(slot') = Listed(slot) /\ Idle(slot') = Idle(slot)
          /\ Workforce(slot') = Workforce(slot)
        BY <2>4 DEF Listed, Idle, Workforce
    <2>6. SlotsSound(slot', phase)
        BY <2>4 DEF IInv, Sound, SlotsSound
    <2>7. QueueSound(slot', queue, taskResolvers, outcome) /\ ActiveSound(slot', taskResolvers)
        BY <2>4 DEF IInv, Sound, QueueSound, ActiveSound
    <2>8. Typed(slot', queue, taskResolvers, outcome) /\ Limited(slot')
        BY <2>3, <2>5 DEF IInv, Sound, Typed, Limited
    <2>9. Conserving(slot', queue, phase)
        BY <2>5 DEF IInv, Conserving
    <2> QED BY <1>1, <2>1, <2>6, <2>7, <2>8, <2>9 DEF IInv, Sound
<1> QED BY <1>2, <1>3

\* A slot leaves the pool, its call fails, and the next call is scheduled.
LEMMA LeavingStep ==
    ASSUME IInv, NEW s \in Calls, NEW row \in Slot,
           slot[s].thread # "none", row.thread # "none", row.active = None, ~row.listed,
           row.thread = "up" => row.asked # "no",
           phase = "open" => row.asked # "terminate",
           outcome' = Settled(slot[s].active, "rejected"),
           ScheduleNext([slot EXCEPT ![s] = row], taskResolvers \ {slot[s].active}),
           phase' = phase
    PROVE  IInv'
<1> DEFINE new == [slot EXCEPT ![s] = row]
           res == taskResolvers \ {slot[s].active}
<1>1. Sound(new, queue, res, phase, outcome')
    <2>1. Sound(slot, queue, taskResolvers, phase, outcome)
        BY DEF IInv
    <2>2. Sound(new, queue, res, phase, Settled(slot[s].active, "rejected"))
        BY <2>1, Freeing
    <2> QED BY <2>2
<1>2. NearlyConserving(new, queue, phase)
    BY Shrinking DEF IInv, Sound, Typed
<1> HIDE DEF new, res
<1>3. ScheduleNext(new, res)
    BY DEF new, res
<1>4. /\ Sound(slot', queue', taskResolvers', phase, outcome')
      /\ Conserving(slot', queue', phase)
      /\ drain' \in [Drains -> {"new", "waiting", "done"}]
    BY <1>1, <1>2, <1>3, Scheduling DEF IInv
<1> QED BY <1>4 DEF IInv

\* The error handler: the thread that threw leaves the pool.
LEMMA WorkerFailureStep ==
    ASSUME IInv, NEW s \in Calls, WorkerFailure(s)
    PROVE  IInv'
<1> DEFINE row == [Removed(slot[s]) EXCEPT !.thread = "failed", !.owes = None]
<1>1. slot \in [Calls -> Slot] /\ slot[s] \in Slot /\ slot[s].thread = "up"
    BY DEF IInv, Sound, Typed, WorkerFailure
<1>2. /\ row \in Slot /\ row.thread = "failed" /\ row.active = None /\ ~row.listed
      /\ row.asked = slot[s].asked
    BY <1>1 DEF Slot, Removed
<1>3. phase = "open" => slot[s].asked # "terminate"
    BY DEF IInv, Sound, SlotsSound
<1>4. /\ outcome' = Settled(slot[s].active, "rejected") /\ phase' = phase
      /\ ScheduleNext([slot EXCEPT ![s] = row], taskResolvers \ {slot[s].active})
    BY <1>1 DEF WorkerFailure
<1> HIDE DEF row
<1> QED BY <1>1, <1>2, <1>3, <1>4, LeavingStep

\* Only a listed slot of an open pool has a call that its exit can fail.
LEMMA ExitFails ==
    ASSUME IInv, NEW s \in Calls
    PROVE  slot[s].active = IF slot[s].listed /\ phase = "open" THEN slot[s].active ELSE None
BY DEF IInv, Sound, SlotsSound, ActiveSound, ClosedSound

\* The exit handler: a thread that is still listed leaves the pool.
LEMMA WorkerExitStep ==
    ASSUME IInv, NEW s \in Calls, WorkerExit(s)
    PROVE  IInv'
<1> DEFINE row == [Removed(slot[s]) EXCEPT !.thread = "exited", !.owes = None]
<1>1. slot \in [Calls -> Slot] /\ slot[s] \in Slot /\ slot[s].thread # "none"
    BY DEF IInv, Sound, Typed, WorkerExit
<1>2. /\ row \in Slot /\ row.thread = "exited" /\ row.active = None /\ ~row.listed
      /\ row.asked = slot[s].asked
    BY <1>1 DEF Slot, Removed
<1>3. phase = "open" => slot[s].asked # "terminate"
    BY DEF IInv, Sound, SlotsSound
<1>4. /\ outcome' = Settled(slot[s].active, "rejected") /\ phase' = phase
      /\ ScheduleNext([slot EXCEPT ![s] = row], taskResolvers \ {slot[s].active})
    BY <1>1, ExitFails DEF WorkerExit
<1> HIDE DEF row
<1> QED BY <1>1, <1>2, <1>3, <1>4, LeavingStep

\* The timeout handler resumes: its slot had left the pool without a call.
LEMMA TaskTimeoutEndStep ==
    ASSUME IInv, NEW s \in Calls, TaskTimeoutEnd(s)
    PROVE  IInv' /\ outcome' = Settled(slot[s].active, "rejected")
<1> DEFINE row == [slot[s] EXCEPT !.asked = "no"]
<1>1. /\ slot \in [Calls -> Slot] /\ slot[s] \in Slot /\ slot[s].thread = "exited"
      /\ slot[s].asked = "timeout" /\ phase' = phase /\ outcome' = outcome
    BY DEF IInv, Sound, Typed, TaskTimeoutEnd
<1>2. slot[s].active = None /\ ~slot[s].listed
    BY <1>1 DEF IInv, Sound, SlotsSound
<1>3. /\ row \in Slot /\ row.thread = "exited" /\ row.active = None /\ ~row.listed
      /\ row.asked = "no"
    BY <1>1, <1>2 DEF Slot
<1>4. None \notin taskResolvers
    BY CallsAssumption DEF IInv, Sound, Typed
<1>5. outcome' = Settled(slot[s].active, "rejected")
    BY <1>1, <1>2, <1>4 DEF Settled
<1>6. ScheduleNext([slot EXCEPT ![s] = row], taskResolvers \ {slot[s].active})
    <2>1. taskResolvers \ {slot[s].active} = taskResolvers
        BY <1>2, <1>4
    <2>2. [slot EXCEPT ![s].asked = "no"] = [slot EXCEPT ![s] = row]
        BY <1>1
    <2> QED BY <2>1, <2>2 DEF TaskTimeoutEnd
<1> HIDE DEF row
<1> QED BY <1>1, <1>3, <1>5, <1>6, LeavingStep

\* A timeout moves its slot from the listed ones to those about to leave.
LEMMA TaskTimeoutStep ==
    ASSUME IInv, NEW s \in Calls, TaskTimeout(s)
    PROVE  IInv'
<1> DEFINE row == [Removed(slot[s]) EXCEPT !.asked = "timeout"]
<1>1. slot \in [Calls -> Slot] /\ slot[s] \in Slot /\ slot[s].active # None
    BY DEF IInv, Sound, Typed, TaskTimeout
<1>2. slot[s].listed /\ slot[s].thread = "up"
    BY <1>1 DEF IInv, Sound, SlotsSound
<1>3. /\ row \in Slot /\ row.thread = "up" /\ row.active = None /\ ~row.listed
      /\ row.asked = "timeout"
    BY <1>1, <1>2 DEF Slot, Removed
<1>4. /\ outcome' = Settled(slot[s].active, "rejected")
      /\ slot' = [slot EXCEPT ![s] = row]
      /\ taskResolvers' = taskResolvers \ {slot[s].active}
      /\ UNCHANGED <<queue, phase, drain>>
    BY <1>1 DEF TaskTimeout
<1> HIDE DEF row
<1>5. Sound(slot', queue', taskResolvers', phase', outcome')
    <2>1. Sound(slot, queue, taskResolvers, phase, outcome)
        BY DEF IInv
    <2>2. Sound([slot EXCEPT ![s] = row], queue, taskResolvers \ {slot[s].active}, phase,
                Settled(slot[s].active, "rejected"))
        BY <1>2, <1>3, <2>1, Freeing
    <2> QED BY <1>4, <2>2
<1>6. Conserving(slot', queue', phase')
    <2>1. slot'[s] = row /\ \A t \in Calls \ {s} : slot'[t] = slot[t]
        BY <1>1, <1>4
    <2>2. Idle(slot') \subseteq Idle(slot) /\ Workforce(slot') = Workforce(slot)
        BY <2>1, <1>2, <1>3 DEF Idle, Listed, Workforce
    <2> QED BY <2>2, <1>4 DEF IInv, Conserving
<1> QED BY <1>4, <1>5, <1>6 DEF IInv

-----------------------------------------------------------------------------
(***************************************************************************)
(* Calls of the pool                                                       *)
(***************************************************************************)

\* A call is refused, assigned at once, or queued when every worker is busy.
LEMMA DispatchStep ==
    ASSUME IInv, NEW c \in Calls, Dispatch(c)
    PROVE  IInv'
<1>1. /\ outcome[c] = "new" /\ phase' = phase /\ drain' = drain
      /\ Sound(slot, queue, taskResolvers, phase, outcome)
      /\ Conserving(slot, queue, phase)
    BY DEF Dispatch, IInv
<1>2. /\ slot \in [Calls -> Slot] /\ queue \in Seq(Calls) /\ Len(queue) <= MaxQueue
      /\ taskResolvers \subseteq Calls
      /\ outcome \in [Calls -> {"new", "pending", "resolved", "rejected"}]
    BY <1>1 DEF Sound, Typed
<1>3. c \notin Members(queue) /\ c \notin taskResolvers /\ slot[c].thread = "none"
    BY <1>1 DEF Sound, QueueSound
<1>4. CASE /\ outcome' = [outcome EXCEPT ![c] = "rejected"]
           /\ UNCHANGED <<slot, queue, taskResolvers>>
    <2>1. Typed(slot, queue, taskResolvers, outcome')
        BY <1>2, <1>4 DEF Typed
    <2>2. QueueSound(slot, queue, taskResolvers, outcome')
        BY <1>1, <1>2, <1>3, <1>4 DEF Sound, QueueSound
    <2> QED BY <1>1, <1>4, <2>1, <2>2 DEF IInv, Sound
<1> DEFINE out == [outcome EXCEPT ![c] = "pending"]
<1>5. /\ out \in [Calls -> {"new", "pending", "resolved", "rejected"}]
      /\ \A d \in Calls : out[d] = IF d = c THEN "pending" ELSE outcome[d]
    BY <1>2
<1> HIDE DEF out
<1>6. CASE /\ phase = "open"
           /\ \E s \in Choices(slot, c) : slot' = Assigned(slot, s, c)
           /\ taskResolvers' = taskResolvers \cup {c}
           /\ outcome' = out /\ queue' = queue
    <2>1. PICK s \in Choices(slot, c) : slot' = Assigned(slot, s, c)
        BY <1>6
    <2>2. Typed(slot, queue, taskResolvers, out)
        BY <1>2, <1>5 DEF Typed
    <2>3. /\ SlotsSound(slot, phase) /\ Limited(slot) /\ ActiveSound(slot, taskResolvers)
          /\ \A m, n \in 1..Len(queue) : queue[m] = queue[n] => m = n
          /\ Members(queue) \cap taskResolvers = {}
        BY <1>1 DEF Sound, QueueSound
    <2>4. \A d \in Calls : out[d] = "pending" <=> d \in Members(queue) \cup taskResolvers \cup {c}
        BY <1>1, <1>5 DEF Sound, QueueSound
    <2>5. \A d \in Calls : (out[d] = "new" \/ d \in Members(queue) \cup {c})
                                => slot[d].thread = "none"
        BY <1>1, <1>3, <1>5 DEF Sound, QueueSound
    <2>6. Sound(slot', queue', taskResolvers', phase', outcome')
        <3>1. Sound(Assigned(slot, s, c), queue, taskResolvers \cup {c}, phase, out)
            BY <1>3, <1>6, <2>2, <2>3, <2>4, <2>5, AssigningSound
        <3> QED BY <1>1, <1>6, <2>1, <3>1
    <2>7. Conserving(slot', queue', phase')
        <3>1. /\ Idle(slot') = Idle(slot) \ {s}
              /\ s \in Idle(slot) => Workforce(slot') = Workforce(slot)
              /\ s \notin Idle(slot) =>
                    Cardinality(Workforce(slot')) = Cardinality(Workforce(slot)) + 1
            BY <1>2, <1>3, <1>6, <2>1, <2>3, Assigning
        <3>2. ASSUME queue # <<>>
              PROVE  Idle(slot') = {} /\ Cardinality(Workforce(slot')) >= MaxWorkers
            <4>1. Idle(slot) = {} /\ Cardinality(Workforce(slot)) >= MaxWorkers
                BY <1>1, <1>6, <3>2 DEF Conserving
            <4>2. Cardinality(Workforce(slot)) \in Nat
                BY Sizes DEF Workforce
            <4> QED BY <3>1, <4>1, <4>2, SizesAssumption
        <3> QED BY <1>6, <3>2 DEF Conserving
    <2> QED BY <1>1, <2>6, <2>7 DEF IInv
<1>7. CASE /\ phase = "open" /\ Choices(slot, c) = {} /\ Len(queue) < MaxQueue
           /\ outcome' = out /\ queue' = Append(queue, c)
           /\ UNCHANGED <<slot, taskResolvers>>
    <2>1. /\ queue' \in Seq(Calls) /\ Len(queue') = Len(queue) + 1
          /\ Members(queue') = Members(queue) \cup {c}
          /\ \A m, n \in 1..Len(queue') : queue'[m] = queue'[n] => m = n
        BY <1>1, <1>2, <1>3, <1>7, AppendFacts DEF Sound, QueueSound
    <2>2. Typed(slot, queue', taskResolvers, out)
        BY <1>2, <1>5, <1>7, <2>1, SizesAssumption DEF Typed
    <2>3. QueueSound(slot, queue', taskResolvers, out)
        BY <1>1, <1>3, <1>5, <2>1 DEF Sound, QueueSound
    <2>4. Sound(slot', queue', taskResolvers', phase', outcome')
        BY <1>1, <1>7, <2>2, <2>3 DEF Sound, ClosedSound
    <2>5. Idle(slot) = {} /\ ~(Cardinality(Listed(slot)) < MaxWorkers)
        BY <1>7 DEF Choices
    <2>6. /\ Cardinality(Listed(slot)) \in Nat /\ Cardinality(Workforce(slot)) \in Nat
          /\ Cardinality(Listed(slot)) <= Cardinality(Workforce(slot))
        <3>1. Listed(slot) \subseteq Workforce(slot) /\ Workforce(slot) \subseteq Calls
            BY DEF Listed, Workforce
        <3> QED BY <3>1, Sizes
    <2>7. Conserving(slot', queue', phase')
        BY <1>7, <2>5, <2>6, SizesAssumption DEF Conserving
    <2> QED BY <1>1, <2>4, <2>7 DEF IInv
<1> QED BY <1>4, <1>6, <1>7 DEF Dispatch, out

\* Every call whose resolver is held is active on a listed slot, so terminate
\* rejects everything that is outstanding.
LEMMA AllStopped ==
    ASSUME IInv
    PROVE  /\ {slot[s].active : s \in Listed(slot)} \cap taskResolvers = taskResolvers
           /\ Queued = Members(queue)
<1>1. \A c \in taskResolvers : \E s \in Calls : slot[s].active = c /\ c # None
    BY CallsAssumption DEF IInv, Sound, Typed, ActiveSound
<1>2. \A c \in taskResolvers : \E s \in Listed(slot) : slot[s].active = c
    BY <1>1 DEF IInv, Sound, SlotsSound, Listed
<1> QED BY <1>2 DEF Queued, Members

\* Terminating leaves nothing queued, held or active.
LEMMA TerminateStep ==
    ASSUME IInv, Terminate
    PROVE  /\ IInv'
           /\ outcome' = [c \in Calls |-> IF outcome[c] = "pending" THEN "rejected" ELSE outcome[c]]
<1>1. /\ phase = "open" /\ phase' = "closing" /\ queue' = <<>> /\ drain' = drain
      /\ outcome' = [c \in Calls |-> IF c \in Members(queue) \cup taskResolvers
                                     THEN "rejected" ELSE outcome[c]]
      /\ taskResolvers' = {}
      /\ slot' = [s \in Calls |-> IF slot[s].listed
                                  THEN [slot[s] EXCEPT !.active = None, !.asked = "terminate"]
                                  ELSE slot[s]]
    BY AllStopped DEF Terminate
<1>2. /\ slot \in [Calls -> Slot]
      /\ outcome \in [Calls -> {"new", "pending", "resolved", "rejected"}]
      /\ \A c \in Calls : outcome[c] = "pending" <=> c \in Members(queue) \cup taskResolvers
    BY DEF IInv, Sound, Typed, QueueSound
<1>3. /\ outcome' \in [Calls -> {"new", "pending", "resolved", "rejected"}]
      /\ \A c \in Calls : outcome'[c] # "pending" /\ (outcome'[c] = "new" => outcome[c] = "new")
      /\ outcome' = [c \in Calls |-> IF outcome[c] = "pending" THEN "rejected" ELSE outcome[c]]
    BY <1>1, <1>2
<1>4. \A s \in Calls :
        /\ slot'[s] \in Slot
        /\ slot'[s].thread = slot[s].thread /\ slot'[s].listed = slot[s].listed
        /\ slot[s].listed => slot'[s].active = None /\ slot'[s].asked = "terminate"
        /\ ~slot[s].listed => slot'[s] = slot[s]
    BY <1>1, <1>2 DEF Slot
<1>5. slot' \in [Calls -> Slot]
    BY <1>1, <1>4
<1>6. SlotsSound(slot', phase')
    BY ZenonT(30), <1>1, <1>4 DEF IInv, Sound, SlotsSound, NoSlot
<1>7. \A s \in Calls : slot'[s].active = None
    BY <1>4 DEF IInv, Sound, SlotsSound
<1>8. queue' \in Seq(Calls) /\ Len(queue') = 0 /\ 1..Len(queue') = {} /\ Members(queue') = {}
    <2>1. <<>> \in Seq(Calls) /\ Len(<<>>) = 0 /\ 1..0 = {}
        OBVIOUS
    <2> QED BY <1>1, <2>1 DEF Members
<1>9. QueueSound(slot', queue', taskResolvers', outcome')
    <2>1. \A c \in Calls : outcome'[c] = "new" => slot'[c].thread = "none"
        BY <1>3, <1>4 DEF IInv, Sound, QueueSound
    <2>2. \A m, n \in 1..Len(queue') : queue'[m] = queue'[n] => m = n
        BY <1>8
    <2>3. \A c \in Calls : outcome'[c] = "pending" <=> c \in Members(queue') \cup taskResolvers'
        BY <1>1, <1>3, <1>8
    <2> QED BY <1>1, <1>8, <2>1, <2>2, <2>3 DEF QueueSound
<1>10. ActiveSound(slot', taskResolvers')
    BY <1>1, <1>7 DEF ActiveSound
<1>11. Limited(slot')
    <2>1. Listed(slot') = Listed(slot)
        BY <1>4 DEF Listed
    <2> QED BY <2>1 DEF IInv, Sound, Limited
<1>12. Typed(slot', queue', taskResolvers', outcome')
    <2>1. Len(queue') <= MaxQueue
        BY <1>8, SizesAssumption
    <2>2. taskResolvers' \subseteq Calls
        BY <1>1
    <2> QED BY <1>3, <1>5, <1>8, <2>1, <2>2 DEF Typed
<1> QED BY <1>1, <1>3, <1>6, <1>9, <1>10, <1>11, <1>12
        DEF IInv, Sound, ClosedSound, Conserving

\* The end of terminate drops slots whose threads have exited.
LEMMA TerminateEndStep ==
    ASSUME IInv, TerminateEnd
    PROVE  IInv'
<1>1. /\ phase = "closing" /\ phase' = "closed" /\ UNCHANGED <<queue, taskResolvers, outcome>>
      /\ \A s \in Calls : slot[s].asked = "terminate" => slot[s].thread = "exited"
      /\ slot' = [s \in Calls |-> IF slot[s].asked = "terminate"
                                  THEN [slot[s] EXCEPT !.listed = FALSE, !.asked = "no"]
                                  ELSE slot[s]]
      /\ drain' = DrainWaitersAfter(queue, taskResolvers)
    BY DEF TerminateEnd
<1>2. slot \in [Calls -> Slot]
    BY DEF IInv, Sound, Typed
<1>3. \A s \in Calls :
        /\ slot'[s] \in Slot
        /\ slot'[s].thread = slot[s].thread /\ slot'[s].active = slot[s].active
        /\ slot'[s].listed => slot[s].listed /\ slot'[s] = slot[s]
        /\ slot[s].asked # "terminate" => slot'[s] = slot[s]
    BY <1>1, <1>2 DEF Slot
<1>4. slot' \in [Calls -> Slot]
    BY <1>1, <1>3
<1>5. \A s \in Calls : slot'[s] # slot[s] =>
        slot[s].thread = "exited" /\ ~slot[s].listed /\ slot[s].active = None
    BY <1>1, <1>3 DEF IInv, Sound, SlotsSound
<1>6. SlotsSound(slot', phase')
    BY ZenonT(30), <1>1, <1>3, <1>5 DEF IInv, Sound, SlotsSound
<1>7. QueueSound(slot', queue', taskResolvers', outcome') /\ ActiveSound(slot', taskResolvers')
    <2>1. \A s \in Calls : slot'[s].thread = slot[s].thread /\ slot'[s].active = slot[s].active
        BY <1>3
    <2>2. QueueSound(slot', queue, taskResolvers, outcome)
        BY <2>1 DEF IInv, Sound, QueueSound
    <2>3. ActiveSound(slot', taskResolvers)
        BY <2>1 DEF IInv, Sound, ActiveSound
    <2> QED BY <1>1, <2>2, <2>3
<1>8. Limited(slot')
    <2>1. Listed(slot') = Listed(slot)
        BY <1>3, <1>5 DEF Listed
    <2> QED BY <2>1 DEF IInv, Sound, Limited
<1>9. drain' \in [Drains -> {"new", "waiting", "done"}]
    BY <1>1 DEF IInv, DrainWaitersAfter
<1>10. Typed(slot', queue', taskResolvers', outcome') /\ ClosedSound(queue', taskResolvers', phase')
    BY <1>1, <1>4 DEF IInv, Sound, Typed, ClosedSound
<1> QED BY <1>1, <1>6, <1>7, <1>8, <1>9, <1>10 DEF IInv, Sound, Conserving

\* A pool that has created no thread is sound.
LEMMA InitSound == Init => IInv
<1> SUFFICES ASSUME Init PROVE IInv
    OBVIOUS
<1>1. /\ slot = [s \in Calls |-> NoSlot] /\ queue = <<>> /\ taskResolvers = {} /\ phase = "open"
      /\ outcome = [c \in Calls |-> "new"] /\ drain = [d \in Drains |-> "new"]
    BY DEF Init
<1>2. NoSlot \in Slot /\ NoSlot.active = None /\ ~NoSlot.listed /\ NoSlot.thread = "none"
      /\ NoSlot.asked = "no"
    BY DEF NoSlot, Slot
<1>3. Typed(slot, queue, taskResolvers, outcome)
    BY <1>1, <1>2, SizesAssumption DEF Typed
<1>4. SlotsSound(slot, phase) /\ ActiveSound(slot, taskResolvers)
    BY <1>1, <1>2 DEF SlotsSound, ActiveSound
<1>5. QueueSound(slot, queue, taskResolvers, outcome)
    <2>1. Members(queue) = {} /\ Len(queue) = 0
        BY <1>1 DEF Members
    <2> QED BY <1>1, <1>2, <2>1 DEF QueueSound
<1>6. Limited(slot)
    <2>1. Listed(slot) = {}
        BY <1>1, <1>2 DEF Listed
    <2> QED BY <2>1, FS_EmptySet, SizesAssumption DEF Limited
<1> QED BY <1>1, <1>3, <1>4, <1>5, <1>6 DEF IInv, Sound, ClosedSound, Conserving

\* Every step of the pool, of a thread or of a caller keeps the invariant.
LEMMA StepSound == IInv /\ [Next]_vars => IInv'
<1> SUFFICES ASSUME IInv, [Next]_vars PROVE IInv'
    OBVIOUS
<1>1. ASSUME NEW c \in Calls, Dispatch(c) PROVE IInv'
    BY <1>1, DispatchStep
<1>2. ASSUME NEW d \in Drains, Drain(d) PROVE IInv'
    <2>1. UNCHANGED <<slot, queue, taskResolvers, phase, outcome>>
          /\ drain' \in [Drains -> {"new", "waiting", "done"}]
        BY <1>2 DEF Drain, IInv
    <2> QED BY <2>1 DEF IInv
<1>3. ASSUME Terminate PROVE IInv'
    BY <1>3, TerminateStep
<1>4. ASSUME TerminateEnd PROVE IInv'
    BY <1>4, TerminateEndStep
<1>5. ASSUME NEW s \in Calls, Message(s) PROVE IInv'
    BY <1>5, MessageStep
<1>6. ASSUME NEW s \in Calls, WorkerFailure(s) PROVE IInv'
    BY <1>6, WorkerFailureStep
<1>7. ASSUME NEW s \in Calls, WorkerExit(s) PROVE IInv'
    BY <1>7, WorkerExitStep
<1>8. ASSUME NEW s \in Calls, TaskTimeout(s) PROVE IInv'
    BY <1>8, TaskTimeoutStep
<1>9. ASSUME NEW s \in Calls, TaskTimeoutEnd(s) PROVE IInv'
    BY <1>9, TaskTimeoutEndStep
<1>10. CASE UNCHANGED vars
    BY <1>10 DEF vars, IInv
<1> QED BY <1>1, <1>2, <1>3, <1>4, <1>5, <1>6, <1>7, <1>8, <1>9, <1>10 DEF Next

\* The inductive invariant holds in every reachable state.
LEMMA Invariance == Spec => []IInv
<1> QED BY InitSound, StepSound, PTL DEF Spec

\* For every number of calls, workers and places, the state of the pool stays
\* within its types and the queue within its bound.
THEOREM TypeCorrect == Spec => []TypeOK
<1>1. IInv => TypeOK
    BY DEF IInv, Sound, Typed, TypeOK
<1> QED BY <1>1, Invariance, PTL

\* No wake-up is lost: while a call waits, no worker idles and the pool lacks
\* only the workers whose timeout handler has not resumed.
THEOREM NoLostWakeup == Spec => []WorkConserving
<1>1. IInv => WorkConserving
    <2>1. Listed(slot) \cup Leaving = Workforce(slot)
        BY DEF Listed, Leaving, Workforce
    <2> QED BY <2>1 DEF IInv, Conserving, WorkConserving
<1> QED BY <1>1, Invariance, PTL

\* Every unsettled call is in exactly one place, the queue or one listed slot.
THEOREM CallsAccounted == Spec => []Accounted
<1>1. ASSUME IInv PROVE Accounted
    <2>1. Queued = Members(queue)
        BY DEF Queued, Members
    <2>2. /\ \A c \in Calls : outcome[c] = "pending" <=> c \in Queued \cup taskResolvers
          /\ Queued \cap taskResolvers = {}
          /\ \A m, n \in 1..Len(queue) : queue[m] = queue[n] => m = n
        BY <1>1, <2>1 DEF IInv, Sound, QueueSound
    <2>3. \A c \in taskResolvers : \E s \in Listed(slot) : slot[s].active = c
        BY <1>1, AllStopped
    <2>4. \A s, t \in Calls : slot[s].active # None =>
            /\ slot[s].active \in taskResolvers /\ slot[s].listed
            /\ slot[s].active = slot[t].active => s = t
        BY <1>1 DEF IInv, Sound, SlotsSound, ActiveSound
    <2> QED BY <2>2, <2>3, <2>4 DEF Accounted
<1> QED BY <1>1, Invariance, PTL

\* No thread runs outside the pool's list unless it was asked to stop, and the
\* list is never longer than MaxWorkers.
THEOREM ThreadsAccounted == Spec => []NoThreadLeaks
<1>1. IInv => NoThreadLeaks
    BY DEF IInv, Sound, SlotsSound, Limited, NoThreadLeaks
<1> QED BY <1>1, Invariance, PTL

-----------------------------------------------------------------------------
(***************************************************************************)
(* The pool implements TaskSettlement                                      *)
(***************************************************************************)

\* The pool is idle exactly when no promise of dispatch is outstanding.
LEMMA IdleMeansSettled ==
    ASSUME NEW sl, NEW q, NEW res, NEW ph, NEW out, Sound(sl, q, res, ph, out)
    PROVE  Settlement!Pending(out) = {} <=> IsIdle(q, res)
<1>1. /\ q \in Seq(Calls) /\ res \subseteq Calls
      /\ \A c \in Calls : out[c] = "pending" <=> c \in Members(q) \cup res
    BY DEF Sound, Typed, QueueSound
<1>2. ASSUME q = <<>> PROVE Members(q) = {}
    BY <1>2 DEF Members
<1>3. ASSUME q # <<>> PROVE Head(q) \in Calls /\ Head(q) \in Members(q)
    BY <1>1, <1>3 DEF Members
<1> QED BY <1>1, <1>2, <1>3 DEF Settlement!Pending, IsIdle

\* Those who wait are told by ScheduleNext only when the pool is idle after it.
LEMMA WaitersTold ==
    ASSUME NEW sl, NEW res, ScheduleNext(sl, res)
    PROVE  \/ drain' = drain
           \/ IsIdle(queue', taskResolvers') /\ drain' = Settlement!Released
BY DEF ScheduleNext, DrainWaitersAfter, IsIdle, Settlement!Released

\* A handler settles the call of its slot, if it has one, and may release
\* those who wait.
LEMMA HandlerRefines ==
    ASSUME IInv, IInv', NEW s \in Calls, NEW answer \in {"resolved", "rejected"},
           outcome' = Settled(slot[s].active, answer), phase' = phase,
           \/ drain' = drain
           \/ IsIdle(queue', taskResolvers') /\ drain' = Settlement!Released
    PROVE  [Settlement!Next]_(Settlement!vars)
<1>1. drain' = drain \/ (Settlement!Pending(outcome') = {} /\ drain' = Settlement!Released)
    <2>1. Settlement!Pending(outcome') = {} <=> IsIdle(queue', taskResolvers')
        BY IdleMeansSettled DEF IInv
    <2> QED BY <2>1
<1>2. CASE slot[s].active \in taskResolvers
    <2> DEFINE c == slot[s].active
    <2>1. c \in Calls /\ outcome[c] = "pending"
        BY <1>2 DEF IInv, Sound, Typed, QueueSound
    <2>2. outcome' = [outcome EXCEPT ![c] = answer]
        BY <1>2 DEF Settled
    <2>3. Settlement!Settle(c)
        BY <1>1, <2>1, <2>2 DEF Settlement!Settle
    <2> QED BY <2>1, <2>3 DEF Settlement!Next
<1>3. CASE slot[s].active \notin taskResolvers
    <2>1. outcome' = outcome
        BY <1>3 DEF Settled
    <2> QED BY <1>1, <2>1 DEF Settlement!Next, Settlement!vars, Settlement!Release
<1> QED BY <1>2, <1>3

\* Every step of the pool is a step of TaskSettlement or changes nothing there.
LEMMA StepRefines == IInv /\ IInv' /\ [Next]_vars => [Settlement!Next]_(Settlement!vars)
<1> SUFFICES ASSUME IInv, IInv', [Next]_vars PROVE [Settlement!Next]_(Settlement!vars)
    OBVIOUS
<1> USE DEF Settlement!Next, Settlement!vars
<1>1. ASSUME NEW c \in Calls, Dispatch(c) PROVE Settlement!Dispatch(c)
    BY <1>1 DEF Dispatch, Settlement!Dispatch
<1>2. ASSUME NEW d \in Drains, Drain(d) PROVE Settlement!Drain(d)
    BY <1>2, IdleMeansSettled DEF IInv, Drain, Settlement!Drain
<1>3. ASSUME Terminate PROVE Settlement!Close
    <2>1. outcome' = [c \in Calls |-> IF outcome[c] = "pending" THEN "rejected" ELSE outcome[c]]
        BY <1>3, TerminateStep
    <2> QED BY <1>3, <2>1 DEF Terminate, Settlement!Close
<1>4. ASSUME TerminateEnd PROVE [Settlement!Next]_(Settlement!vars)
    <2>1. /\ outcome' = outcome /\ (phase' # "open") = (phase # "open")
          /\ drain' = drain \/ (IsIdle(queue, taskResolvers) /\ drain' = Settlement!Released)
        BY <1>4 DEF TerminateEnd, DrainWaitersAfter, Settlement!Released
    <2>2. drain' = drain \/ Settlement!Release
        BY <2>1, IdleMeansSettled DEF IInv, Settlement!Release
    <2> QED BY <2>1, <2>2
<1>5. ASSUME NEW s \in Calls, Message(s) PROVE [Settlement!Next]_(Settlement!vars)
    <2>1. CASE slot[s].active = slot[s].owes
        <3>1. PICK answer \in {"resolved", "rejected"} :
                /\ outcome' = Settled(slot[s].active, answer)
                /\ ScheduleNext([slot EXCEPT ![s].owes = None, ![s].active = None],
                                taskResolvers \ {slot[s].owes})
            BY <1>5, <2>1 DEF Message
        <3>2. phase' = phase
            BY <1>5 DEF Message
        <3> QED BY <3>1, <3>2, WaitersTold, HandlerRefines
    <2>2. CASE slot[s].active # slot[s].owes
        BY <1>5, <2>2 DEF Message
    <2> QED BY <2>1, <2>2
<1>6. ASSUME NEW s \in Calls, WorkerFailure(s) PROVE [Settlement!Next]_(Settlement!vars)
    BY <1>6, WaitersTold, HandlerRefines DEF WorkerFailure
<1>7. ASSUME NEW s \in Calls, WorkerExit(s) PROVE [Settlement!Next]_(Settlement!vars)
    <2>1. outcome' = Settled(slot[s].active, "rejected") /\ phase' = phase
        BY <1>7, ExitFails DEF WorkerExit
    <2>2. drain' = drain \/ (IsIdle(queue', taskResolvers') /\ drain' = Settlement!Released)
        BY <1>7, WaitersTold DEF WorkerExit
    <2> QED BY <2>1, <2>2, HandlerRefines
<1>8. ASSUME NEW s \in Calls, TaskTimeout(s) PROVE [Settlement!Next]_(Settlement!vars)
    BY <1>8, HandlerRefines DEF TaskTimeout
<1>9. ASSUME NEW s \in Calls, TaskTimeoutEnd(s) PROVE [Settlement!Next]_(Settlement!vars)
    <2>1. outcome' = Settled(slot[s].active, "rejected") /\ phase' = phase
        BY <1>9, TaskTimeoutEndStep DEF TaskTimeoutEnd
    <2>2. drain' = drain \/ (IsIdle(queue', taskResolvers') /\ drain' = Settlement!Released)
        BY <1>9, WaitersTold DEF TaskTimeoutEnd
    <2> QED BY <2>1, <2>2, HandlerRefines
<1>10. CASE UNCHANGED vars
    BY <1>10 DEF vars
<1> QED BY <1>1, <1>2, <1>3, <1>4, <1>5, <1>6, <1>7, <1>8, <1>9, <1>10 DEF Next

\* Whatever the threads do, the pool behaves towards its callers as
\* TaskSettlement: every call settles at most once, terminate rejects all that
\* is outstanding, and a drain ends only when nothing is.
THEOREM SettlementSafety == Spec => Settlement!Spec
<1>1. Init => Settlement!Init
    BY DEF Init, Settlement!Init
<1> QED BY <1>1, Invariance, StepRefines, PTL DEF Spec, Settlement!Spec
=============================================================================
