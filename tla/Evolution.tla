------------------------------- MODULE Evolution -------------------------------
(***************************************************************************)
(* Tuning the Butler's parameters (core/butler/evolution, storage/         *)
(* butlerEvolutionRepo).  At most once a day, after a cycle of the         *)
(* scheduler, a parameter whose metric is bad is moved one step towards    *)
(* its limit, in memory, and the step is logged; a process that starts     *)
(* reads the newest entries of the log back.                               *)
(*                                                                         *)
(* A step multiplies and rounds, so that the values of a parameter form a  *)
(* finite chain: a value is known by its place in it, and Top is where the *)
(* limit, or a step that rounds to nothing, ends the chain.                *)
(***************************************************************************)
EXTENDS Sequences, SequencesExt, FiniteSetsExt, Naturals

CONSTANTS
    Parameters,     \* the parameters that some metric moves
    Top,            \* Top[k]: the steps from the base value to the end
    Window,         \* entries read at the start: 100
    MaxReverts      \* bound: entries reverted by revert

\* In the code: 32 steps of the cooldown, 4 of the overlay's threshold and 24
\* of the drain budget.  Without reverts the window holds them all.
ASSUME WindowAssumption ==
    /\ IsFiniteSet(Parameters) /\ Top \in [Parameters -> Nat]
    /\ Window \in Nat /\ MaxReverts \in Nat
    /\ MapThenSumSet(LAMBDA k : Top[k], Parameters) + MaxReverts <= Window

VARIABLES
    param,          \* param[k]: the value in memory
    log,            \* butler_evolution_log, the oldest first
    unlogged,       \* parameters whose last step is not in the log
    due             \* a day has passed since the last evolution

evolutionVars == <<param, log, unlogged, due>>

Entry == [key : Parameters, level : Nat, active : BOOLEAN]

EvolutionTypeOK ==
    /\ param \in [Parameters -> Nat] /\ \A k \in Parameters : param[k] <= Top[k]
    /\ log \in Seq(Entry)
    /\ unlogged \subseteq Parameters
    /\ due \in BOOLEAN

\* The first start.
EvolutionInit ==
    /\ param = [k \in Parameters |-> 0]
    /\ log = <<>> /\ unlogged = {} /\ due = TRUE

-----------------------------------------------------------------------------
\* findRecent: the places of the newest entries.
Recent(entries) == {i \in DOMAIN entries : i > Len(entries) - Window}

\* Mutant of NewestOf: the oldest entry wins.
OldestOf(entries, mine) == IF mine = {} THEN 0 ELSE entries[Min(mine)].level

\* The newest entry of a parameter wins; without one it has its base value.
NewestOf(entries, mine) == IF mine = {} THEN 0 ELSE entries[Max(mine)].level

InForce(entries, k) == {i \in DOMAIN entries : entries[i].active /\ entries[i].key = k}

\* restoreFromEntries.
Restored(entries) ==
    [k \in Parameters |-> NewestOf(entries, InForce(entries, k) \cap Recent(entries))]

-----------------------------------------------------------------------------
Moved(bad) == {k \in bad : param[k] < Top[k]}

Stepped(ks) == [k \in Parameters |-> IF k \in ks THEN param[k] + 1 ELSE param[k]]

Steps(order) ==
    [i \in DOMAIN order |-> [key |-> order[i], level |-> param[order[i]] + 1, active |-> TRUE]]

Logged(ks) == log \o Steps(SetToSeq(ks))

Reverted(entries) == {i \in DOMAIN entries : ~entries[i].active}

\* evolve, after a cycle that did not fail: the parameters with a bad metric
\* move.  Writing the log may fail at any entry (written is what was written),
\* and the values in memory stay moved.
Evolve(bad, written) ==
    LET moved == Moved(bad) IN
    /\ due /\ due' = FALSE
    /\ written \subseteq moved
    /\ param' = Stepped(moved)
    /\ log' = Logged(written)
    /\ unlogged' = (unlogged \cup moved) \ written

DayPasses ==
    /\ ~due /\ due' = TRUE
    /\ UNCHANGED <<param, log, unlogged>>

\* The process ends, during an evolution or not, and another one starts.
RestoreFromLog ==
    /\ param' = Restored(log)
    /\ unlogged' = {} /\ due' = TRUE
    /\ UNCHANGED log

\* revert, an operation no part of the repository calls but tests: the entry
\* is marked and all parameters are read back.
Revert(i) ==
    /\ log[i].active
    /\ Cardinality(Reverted(log)) < MaxReverts
    /\ log' = [log EXCEPT ![i].active = FALSE]
    /\ param' = Restored(log')
    /\ unlogged' = {}
    /\ UNCHANGED due

EvolutionNext ==
    \/ \E bad \in SUBSET Parameters : \E written \in SUBSET bad : Evolve(bad, written)
    \/ DayPasses
    \/ RestoreFromLog
    \/ \E i \in DOMAIN log : Revert(i)

EvolutionSpec == EvolutionInit /\ [][EvolutionNext]_evolutionVars

-----------------------------------------------------------------------------
\* What the Butler has tuned is what it finds in its log when it is started
\* again, whatever entries were reverted, unless the log could not be written.
ParametersSurvive == \A k \in Parameters \ unlogged : param[k] = Restored(log)[k]
=============================================================================
