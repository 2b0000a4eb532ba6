--------------------------- MODULE RetrievalFeedback ---------------------------
(***************************************************************************)
(* What becomes of recalled memories (core/memory/microReflection,         *)
(* storage/feedbackRepo), and what is tuned by it: the weights of hybrid   *)
(* search (retrieval/adaptiveWeights) and the multipliers of the decay     *)
(* (core/memory/selfTuningDecay).                                          *)
(*                                                                         *)
(* A recall leaves a row with the signal "unknown" in retrieval_feedback   *)
(* and an entry in the session's history, which only the process knows.    *)
(* A later store or edit marks the entry used, the end of the session      *)
(* marks what is left ignored.  Each of these writes row by row, and any   *)
(* of its statements may fail and leave the rest undone.                   *)
(***************************************************************************)
EXTENDS Naturals, Functions

CONSTANTS
    Sessions, Memories, Strategies,
    MaxRows,        \* bound: rows of a session, a memory and a strategy
    MinSamples,     \* MIN_SAMPLES_PER_GROUP
    MinWeighed,     \* MIN_FEEDBACK_SAMPLES
    Interval        \* RECOMPUTE_SESSION_INTERVAL

ASSUME FeedbackAssumption == MaxRows \in Nat /\ Interval \in Nat \ {0}

VARIABLES
    history,        \* history[s][m]: the entry of the session, "none" if there is none
    signals,        \* signals[s][m][strategy]: how many rows have each signal
    orphans,        \* rows whose entry was lost or closed without them (not in the code)
    weights,        \* cached hybrid weights: what they favour, or "none"
    since,          \* sessionsSinceLastCompute
    overrides       \* tuning_overrides, by strategy

feedbackVars == <<history, signals, orphans, weights, since, overrides>>

Entries == {"none", "pending", "used"}
Signals == {"unknown", "used", "ignored"}

FeedbackTypeOK ==
    /\ history \in [Sessions -> [Memories -> Entries]]
    /\ signals \in [Sessions -> [Memories -> [Strategies -> [Signals -> 0..MaxRows]]]]
    /\ orphans \subseteq Sessions \X Memories
    /\ weights \in {"none", "keyword", "semantic", "even"}
    /\ since \in 0..Interval
    /\ overrides \in [Strategies -> {"none", "boost", "cut"}]

FeedbackInit ==
    /\ history = [s \in Sessions |-> [m \in Memories |-> "none"]]
    /\ signals = [s \in Sessions |-> [m \in Memories |-> [t \in Strategies |->
                    [x \in Signals |-> 0]]]]
    /\ orphans = {}
    /\ weights = "none"
    /\ since = Interval - 1
    /\ overrides = [t \in Strategies |-> "none"]

-----------------------------------------------------------------------------
\* The memories of a result that the session has not recalled yet.
Fresh(s, items) == {m \in items : history[s][m] = "none"}

\* One more row of this strategy, with its signal unknown.
Opened(rows, strategy) == [rows EXCEPT ![strategy]["unknown"] = @ + 1]

RowsOpened(s, ms, strategy) ==
    /\ \A m \in ms : signals[s][m][strategy]["unknown"] < MaxRows
    /\ signals' = [signals EXCEPT ![s] =
                    [m \in Memories |-> IF m \in ms THEN Opened(@[m], strategy) ELSE @[m]]]

\* The entries of these memories are now this.
Entered(s, ms, entry) ==
    history' = [history EXCEPT ![s] = [m \in Memories |-> IF m \in ms THEN entry ELSE @[m]]]

\* recordRecall: one row and one entry for each of them; a memory recalled
\* again keeps its row and what is known of its use.
RecordRecall(s, items, strategy) ==
    /\ RowsOpened(s, Fresh(s, items), strategy)
    /\ Entered(s, Fresh(s, items), "pending")
    /\ UNCHANGED <<orphans, weights, since, overrides>>

\* The INSERT for m throws, whose entry is there already.  The entries of a
\* session's first recall are not kept then.
RecordFails(s, items, strategy) == \E m \in Fresh(s, items), before \in SUBSET Fresh(s, items) :
    /\ m \notin before
    /\ RowsOpened(s, before, strategy)
    /\ \/ Entered(s, before \cup {m}, "pending") /\ UNCHANGED orphans
       \/ /\ \A n \in Memories : history[s][n] = "none"
          /\ orphans' = orphans \cup ({s} \X before) /\ UNCHANGED history
    /\ UNCHANGED <<weights, since, overrides>>

\* Mutant of Marked: one row gets the signal, as if there were never more of a
\* memory than that of this process.
MarkedOnce(rows, signal) ==
    LET t == CHOOSE t \in Strategies : \/ rows[t]["unknown"] > 0
                                       \/ \A k \in Strategies : rows[k]["unknown"] = 0
    IN [rows EXCEPT ![t]["unknown"] = 0, ![t][signal] = @ + rows[t]["unknown"]]

\* The rows whose signal was unknown get this one.
Marked(rows, signal) ==
    [t \in Strategies |-> [rows[t] EXCEPT !["unknown"] = 0, ![signal] = @ + rows[t]["unknown"]]]

\* updateSignalBySessionMemory: every row of the session and the memory whose
\* signal is unknown, those of a process before included.
Signalled(s, ms, signal) ==
    [signals EXCEPT ![s] = [m \in Memories |-> IF m \in ms THEN Marked(@[m], signal) ELSE @[m]]]

Pending(s) == {m \in Memories : history[s][m] = "pending"}

FitsRows(s, ms, signal) ==
    \A m \in ms, t \in Strategies :
        signals[s][m][t][signal] + signals[s][m][t]["unknown"] <= MaxRows

\* checkStoreReference marks the entries whose content shares words with what
\* was stored; checkEditReference is the case of one memory, the edited one.
Reference(s, ms) ==
    /\ ms # {} /\ ms \subseteq Pending(s) /\ FitsRows(s, ms, "used")
    /\ Entered(s, ms, "used")
    /\ signals' = Signalled(s, ms, "used")
    /\ orphans' = orphans \ ({s} \X ms)
    /\ UNCHANGED <<weights, since, overrides>>

\* The UPDATE for m throws, whose entry is marked already.
ReferenceFails(s, ms) == \E m \in Pending(s) \ ms :
    /\ ms \subseteq Pending(s) /\ FitsRows(s, ms, "used")
    /\ Entered(s, ms \cup {m}, "used")
    /\ signals' = Signalled(s, ms, "used")
    /\ orphans' = (orphans \ ({s} \X ms)) \cup {<<s, m>>}
    /\ UNCHANGED <<weights, since, overrides>>

FinalizeSession(s) ==
    /\ FitsRows(s, Pending(s), "ignored")
    /\ signals' = Signalled(s, Pending(s), "ignored")
    /\ orphans' = orphans \ ({s} \X Pending(s))
    /\ history' = [history EXCEPT ![s] = [m \in Memories |-> "none"]]
    /\ UNCHANGED <<weights, since, overrides>>

\* An UPDATE throws: the session keeps its entries, for whoever ends it again.
FinalizeFails(s) == \E ms \in SUBSET Pending(s) :
    /\ ms # Pending(s) /\ FitsRows(s, ms, "ignored")
    /\ signals' = Signalled(s, ms, "ignored")
    /\ orphans' = orphans \ ({s} \X ms)
    /\ UNCHANGED <<history, weights, since, overrides>>

\* The rows stay, the histories and the cache of weights do not; overrides are
\* read back, and the next session that ends recomputes them.
ProcessRestarts ==
    /\ orphans' = orphans \cup
            {sm \in Sessions \X Memories : history[sm[1]][sm[2]] = "pending"}
    /\ history' = [s \in Sessions |-> [m \in Memories |-> "none"]]
    /\ weights' = "none" /\ since' = Interval - 1
    /\ UNCHANGED <<signals, overrides>>

-----------------------------------------------------------------------------
(***************************************************************************)
(* Tuning by the signals of a month (a month of the model does not end)    *)
(***************************************************************************)
\* aggregateByStrategy.
Total(t, signal) ==
    FoldFunction(+, 0, [sm \in Sessions \X Memories |-> signals[sm[1]][sm[2]][t][signal]])

Samples(t) == Total(t, "used") + Total(t, "ignored")

\* The effectiveness in percent, a half without samples.
Effectiveness(t) == IF Samples(t) = 0 THEN 50 ELSE (100 * Total(t, "used")) \div Samples(t)

Weighed == Samples("hybrid") + Samples("keyword") >= MinWeighed

\* computeAdaptedWeights.
Adapted ==
    CASE ~Weighed -> "even"
      [] Effectiveness("hybrid") > Effectiveness("keyword") + 15 -> "semantic"
      [] Effectiveness("keyword") > Effectiveness("hybrid") + 15 -> "keyword"
      [] OTHER -> "even"

\* getAdaptedWeights, from the cache while it is less than an hour old.
AdaptedWeights ==
    /\ weights' = IF weights = "none" THEN Adapted ELSE weights
    /\ UNCHANGED <<history, signals, orphans, since, overrides>>

\* An hour passes, or clearCache.
CacheExpires ==
    /\ weights # "none" /\ weights' = "none"
    /\ UNCHANGED <<history, signals, orphans, since, overrides>>

\* The multiplier is left alone within one percent of 1, above 60% and below
\* 30%, and an override is never taken back.
Override(t) ==
    CASE Samples(t) < MinSamples -> overrides[t]
      [] Effectiveness(t) > 60 -> "boost"
      [] Effectiveness(t) < 29 -> "cut"
      [] OTHER -> overrides[t]

\* The end of a session: shouldRecompute counts it, recompute starts anew.
TuneDecay ==
    /\ since' = IF since + 1 >= Interval THEN 0 ELSE since + 1
    /\ overrides' = IF since + 1 >= Interval THEN [t \in Strategies |-> Override(t)] ELSE overrides
    /\ UNCHANGED <<history, signals, orphans, weights>>

-----------------------------------------------------------------------------
FeedbackNext ==
    \/ \E s \in Sessions :
        \/ \E items \in SUBSET Memories \ {{}}, t \in Strategies :
            RecordRecall(s, items, t) \/ RecordFails(s, items, t)
        \/ \E ms \in SUBSET Memories : Reference(s, ms) \/ ReferenceFails(s, ms)
        \/ FinalizeSession(s) \/ FinalizeFails(s)
    \/ ProcessRestarts
    \/ AdaptedWeights \/ CacheExpires
    \/ TuneDecay

FeedbackSpec == FeedbackInit /\ [][FeedbackNext]_feedbackVars

-----------------------------------------------------------------------------
\* The signal of a recalled memory is open only while its session may still
\* use it or end without: it leaves no row behind that would never count,
\* except where the process ended, or a statement failed, in between.  A
\* session that could not be ended may be ended again.
FeedbackSettles ==
    \A s \in Sessions, m \in Memories :
        (\E t \in Strategies : signals[s][m][t]["unknown"] > 0)
            => (history[s][m] = "pending" \/ <<s, m>> \in orphans)
=============================================================================
