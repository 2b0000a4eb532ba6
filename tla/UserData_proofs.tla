--------------------------- MODULE UserData_proofs ---------------------------
(***************************************************************************)
(* The data a user's sessions leave behind: theorems about the migrations  *)
(* of the database, about profiles and imports, the feedback on recalls    *)
(* and the tuned parameters, for each from an inductive invariant of its   *)
(* own, since they share no variable.                                      *)
(***************************************************************************)
EXTENDS DataTransfer, Migrations, RetrievalFeedback, Evolution, DataInduction

(***************************************************************************)
(* Whatever the phases, however many processes open the database at the    *)
(* same time: whoever has opened it has the complete schema, and the       *)
(* full-text table agrees with the rows.                                   *)
(***************************************************************************)

\* All phases up to n have been applied.
UpTo(n) == \A m \in Phases : m <= n => m \in applied

\* The schema holds every phase that the file or a process has counted, and
\* the full-text table is empty until its phase has run.
Counted ==
    /\ UpTo(version)
    /\ \A p \in Processes : UpTo(opener[p].at)
    /\ \A p \in Processes : opener[p].stage = "open" => opener[p].at = Latest

Indexed ==
    index = IF SearchPhase \in applied THEN row ELSE [k \in Rowids |-> Absent]

IInv == MigrationsTypeOK /\ Counted /\ Indexed

USE PhasesAssumption, ContentsAssumption DEF Phases

LEMMA InitEstablishes == MigrationsInit => IInv
  <1> SUFFICES ASSUME MigrationsInit PROVE IInv
    OBVIOUS
  <1>1. MigrationsTypeOK
    BY DEF MigrationsInit, MigrationsTypeOK, Opener, Closed
  <1>2. Counted
    BY <1>1 DEF MigrationsInit, MigrationsTypeOK, Counted, UpTo, Closed
  <1>3. Indexed
    BY DEF MigrationsInit, Indexed
  <1> QED BY <1>1, <1>2, <1>3 DEF IInv

\* What a process is said to have reached is a stage of an opener.
LEMMA ReachedType == \A n \in 0..Latest : Reached(n) \in Opener
  BY DEF Reached, Opener

LEMMA OpenPreserves ==
  ASSUME IInv, NEW p \in Processes, Open(p)
  PROVE  IInv'
  <1>1. version \in 0..Latest /\ Reached(version) \in Opener
    BY ReachedType DEF IInv, MigrationsTypeOK
  <1>2. opener' = [opener EXCEPT ![p] = Reached(version)] /\ UNCHANGED <<version, applied, row, index>>
    BY DEF Open
  <1>3. MigrationsTypeOK'
    BY <1>1, <1>2 DEF IInv, MigrationsTypeOK
  <1>4. Counted'
    <2>1. UpTo(version)' /\ UpTo(version)
      BY <1>2 DEF IInv, Counted, UpTo
    <2>2. ASSUME NEW q \in Processes
          PROVE  UpTo(opener[q].at)' /\ (opener'[q].stage = "open" => opener'[q].at = Latest)
      <3>1. CASE q = p
        <4>1. opener'[q] = Reached(version)
          BY <1>2, <3>1 DEF IInv, MigrationsTypeOK
        <4>2. opener'[q].at = version /\ (opener'[q].stage = "open" => version = Latest)
          BY <4>1 DEF Reached
        <4> QED BY <4>2, <2>1, <1>2 DEF UpTo
      <3>2. CASE q # p
        <4>1. opener'[q] = opener[q]
          BY <1>2, <3>2 DEF IInv, MigrationsTypeOK
        <4> QED BY <4>1, <1>2 DEF IInv, Counted, UpTo
      <3> QED BY <3>1, <3>2
    <2> QED BY <2>1, <2>2 DEF Counted
  <1>5. Indexed'
    BY <1>2 DEF IInv, Indexed
  <1> QED BY <1>3, <1>4, <1>5 DEF IInv

\* The phase a process runs finds the tables it needs, whoever made them.
LEMMA RunPhasePreserves ==
  ASSUME IInv, NEW p \in Processes, RunPhase(p)
  PROVE  IInv'
  <1> PICK n \in Phases : n = NextPhase(p)
    BY DEF RunPhase, MayRun, Made
  <1>1. opener[p].at \in 0..Latest /\ n \in Phases /\ n = opener[p].at + 1
    BY DEF IInv, MigrationsTypeOK, Opener, RunPhase, Made, NextPhase
  <1>2. Needs[n] \subseteq applied
    <2>1. Needs[n] \subseteq 1..(n - 1)
      BY <1>1
    <2>2. \A m \in 1..(n - 1) : m \in applied
      BY <1>1 DEF IInv, Counted, UpTo
    <2> QED BY <2>1, <2>2
  <1>3. /\ applied' = applied \cup {n} /\ version' = n
        /\ opener' = [opener EXCEPT ![p] = Reached(n)]
        /\ row' = IF n \in Cleaning THEN Cleaned ELSE row
        /\ index' = IF n = SearchPhase THEN Filled ELSE Followed(row')
    BY <1>2 DEF RunPhase, MayRun, Made
  <1>4. \A m \in Phases : m <= n => m \in applied'
    BY <1>1, <1>3 DEF IInv, Counted, UpTo
  <1>5. row' \in [Rowids -> Contents \cup {Absent}]
    BY <1>3 DEF IInv, MigrationsTypeOK, Cleaned
  <1>6. Indexed'
    <2>1. CASE n = SearchPhase
      <3>1. row' = row /\ index' = Filled /\ SearchPhase \in applied'
        BY <1>3, <2>1
      <3>2. CASE SearchPhase \in applied
        <4>1. index = row
          BY <3>2 DEF IInv, Indexed
        <4>2. Filled = [k \in Rowids |-> row[k]]
          BY <4>1 DEF Filled
        <4> QED BY <3>1, <4>2 DEF IInv, MigrationsTypeOK, Indexed
      <3>3. CASE SearchPhase \notin applied
        <4>1. \A k \in Rowids : index[k] = Absent
          BY <3>3 DEF IInv, Indexed
        <4>2. Filled = [k \in Rowids |-> row[k]]
          BY <4>1 DEF Filled
        <4> QED BY <3>1, <4>2 DEF IInv, MigrationsTypeOK, Indexed
      <3> QED BY <3>2, <3>3
    <2>2. CASE n # SearchPhase
      <3>1. index' = Followed(row') /\ (SearchPhase \in applied' <=> SearchPhase \in applied)
        BY <1>3, <2>2
      <3> QED BY <3>1 DEF Followed, IInv, Indexed
    <2> QED BY <2>1, <2>2
  <1>7. MigrationsTypeOK'
    <2>1. index' \in [Rowids -> Contents \cup {Absent}]
      BY <1>5, <1>6 DEF Indexed
    <2>2. Reached(n) \in Opener /\ n \in 0..Latest
      BY <1>1, ReachedType
    <2> QED BY <1>1, <1>3, <1>5, <2>1, <2>2 DEF IInv, MigrationsTypeOK
  <1>8. Counted'
    <2>1. UpTo(version)'
      BY <1>3, <1>4 DEF UpTo
    <2>2. ASSUME NEW q \in Processes
          PROVE  UpTo(opener[q].at)' /\ (opener'[q].stage = "open" => opener'[q].at = Latest)
      <3>1. CASE q = p
        <4>1. opener'[q] = Reached(n)
          BY <1>3, <3>1 DEF IInv, MigrationsTypeOK
        <4>2. opener'[q].at = n /\ (opener'[q].stage = "open" => n = Latest)
          BY <4>1 DEF Reached
        <4> QED BY <4>2, <1>4 DEF UpTo
      <3>2. CASE q # p
        <4>1. opener'[q] = opener[q]
          BY <1>3, <3>2 DEF IInv, MigrationsTypeOK
        <4> QED BY <4>1, <1>3 DEF IInv, Counted, UpTo
      <3> QED BY <3>1, <3>2
    <2> QED BY <2>1, <2>2 DEF Counted
  <1> QED BY <1>6, <1>7, <1>8 DEF IInv

LEMMA FailPreserves ==
  ASSUME IInv, NEW p \in Processes, Fail(p)
  PROVE  IInv'
  <1>1. opener' = [opener EXCEPT ![p] = Closed] /\ UNCHANGED <<version, applied, row, index>>
    BY DEF Fail
  <1>2. Closed \in Opener
    BY DEF Closed, Opener
  <1>3. MigrationsTypeOK'
    BY <1>1, <1>2 DEF IInv, MigrationsTypeOK
  <1>4. Counted'
    <2>1. ASSUME NEW q \in Processes
          PROVE  UpTo(opener[q].at)' /\ (opener'[q].stage = "open" => opener'[q].at = Latest)
      <3>1. opener'[q] = IF q = p THEN Closed ELSE opener[q]
        BY <1>1 DEF IInv, MigrationsTypeOK
      <3> QED BY <3>1, <1>1 DEF IInv, Counted, UpTo, Closed
    <2> QED BY <2>1, <1>1 DEF IInv, Counted, UpTo
  <1>5. Indexed'
    BY <1>1 DEF IInv, Indexed
  <1> QED BY <1>3, <1>4, <1>5 DEF IInv

LEMMA WritePreserves ==
  ASSUME IInv, NEW p \in Processes, NEW k \in Rowids, NEW content \in Contents, Write(p, k, content)
  PROVE  IInv'
  <1>1. /\ row' = [row EXCEPT ![k] = content] /\ index' = Followed(row')
        /\ UNCHANGED <<version, applied, opener>>
    BY DEF Write
  <1>2. row' \in [Rowids -> Contents \cup {Absent}]
    BY <1>1 DEF IInv, MigrationsTypeOK
  <1>3. Indexed'
    BY <1>1 DEF IInv, Indexed, Followed
  <1>4. MigrationsTypeOK'
    BY <1>1, <1>2, <1>3 DEF IInv, MigrationsTypeOK, Indexed
  <1>5. Counted'
    BY <1>1 DEF IInv, Counted, UpTo
  <1> QED BY <1>3, <1>4, <1>5 DEF IInv

LEMMA StepPreserves == IInv /\ [MigrationsNext]_migrationVars => IInv'
  <1> SUFFICES ASSUME IInv, [MigrationsNext]_migrationVars PROVE IInv'
    OBVIOUS
  <1>1. ASSUME NEW p \in Processes, Open(p) PROVE IInv'
    BY <1>1, OpenPreserves
  <1>2. ASSUME NEW p \in Processes, RunPhase(p) PROVE IInv'
    BY <1>2, RunPhasePreserves
  <1>3. ASSUME NEW p \in Processes, Fail(p) PROVE IInv'
    BY <1>3, FailPreserves
  <1>4. ASSUME NEW p \in Processes, NEW k \in Rowids, NEW content \in Contents, Write(p, k, content)
        PROVE IInv'
    BY <1>4, WritePreserves
  <1>5. CASE UNCHANGED migrationVars
    BY <1>5 DEF migrationVars, IInv, MigrationsTypeOK, Counted, UpTo, Indexed
  <1> QED BY <1>1, <1>2, <1>3, <1>4, <1>5 DEF MigrationsNext

LEMMA InvariantImplies == IInv => UpgradeComplete
  <1> SUFFICES ASSUME IInv, NEW p \in Processes, opener[p].stage = "open"
               PROVE applied = Phases /\ index = row
    BY DEF UpgradeComplete
  <1>1. applied = Phases
    <2>1. opener[p].at = Latest /\ UpTo(opener[p].at)
      BY DEF IInv, Counted
    <2>2. \A m \in Phases : m \in applied
      BY <2>1 DEF UpTo
    <2> QED BY <2>2 DEF IInv, MigrationsTypeOK
  <1> QED BY <1>1 DEF IInv, Indexed

\* Every process that has opened the database (storage/migrations/runner.ts)
\* works on all phases of the schema and on a full-text table that agrees with
\* memory_items, for any number of processes and phases.
THEOREM Upgraded == MigrationsSpec => []UpgradeComplete
  <1>1. MigrationsInit => IInv
    BY InitEstablishes
  <1>2. IInv /\ [MigrationsNext]_migrationVars => IInv'
    BY StepPreserves
  <1>3. IInv => UpgradeComplete
    BY InvariantImplies
  <1> QED BY <1>1, <1>2, <1>3, PTL DEF MigrationsSpec
-----------------------------------------------------------------------------
(***************************************************************************)
(* Feedback on recalls.                                                    *)
(***************************************************************************)
FeedbackInv == FeedbackTypeOK /\ FeedbackSettles

LEMMA FeedbackStarts == FeedbackInit => FeedbackInv
  <1> SUFFICES ASSUME FeedbackInit PROVE FeedbackInv
    OBVIOUS
  <1>1. FeedbackTypeOK
    BY FeedbackAssumption DEF FeedbackInit, FeedbackTypeOK, Entries, Signals
  <1>2. FeedbackSettles
    BY DEF FeedbackInit, FeedbackSettles, Signals
  <1> QED BY <1>1, <1>2 DEF FeedbackInv

\* What each entry of the tables is.
LEMMA FeedbackEntries ==
    ASSUME FeedbackTypeOK, NEW s \in Sessions, NEW m \in Memories
    PROVE  /\ history[s][m] \in Entries
           /\ signals[s][m] \in [Strategies -> [Signals -> 0..MaxRows]]
           /\ \A t \in Strategies : /\ signals[s][m][t] \in [Signals -> 0..MaxRows]
                                    /\ \A x \in Signals : signals[s][m][t][x] \in Nat
  BY FeedbackAssumption DEF FeedbackTypeOK

LEMMA OpenedRows ==
    ASSUME NEW rows \in [Strategies -> [Signals -> 0..MaxRows]], NEW t \in Strategies,
           rows[t]["unknown"] < MaxRows
    PROVE  /\ Opened(rows, t) \in [Strategies -> [Signals -> 0..MaxRows]]
           /\ Opened(rows, t)[t]["unknown"] > 0
  <1>1. rows[t]["unknown"] + 1 \in 0..MaxRows /\ rows[t]["unknown"] \in Nat
    BY FeedbackAssumption DEF Signals
  <1>2. [rows[t] EXCEPT !["unknown"] = @ + 1] \in [Signals -> 0..MaxRows]
    BY <1>1
  <1>3. Opened(rows, t) = [rows EXCEPT ![t] = [rows[t] EXCEPT !["unknown"] = @ + 1]]
    BY DEF Opened
  <1>4. QED BY <1>1, <1>2, <1>3 DEF Signals

LEMMA MarkedRows ==
    ASSUME NEW rows \in [Strategies -> [Signals -> 0..MaxRows]], NEW signal \in {"used", "ignored"},
           \A t \in Strategies : rows[t][signal] + rows[t]["unknown"] <= MaxRows
    PROVE  /\ Marked(rows, signal) \in [Strategies -> [Signals -> 0..MaxRows]]
           /\ \A t \in Strategies : Marked(rows, signal)[t]["unknown"] = 0
  <1>1. ASSUME NEW t \in Strategies
        PROVE  /\ [rows[t] EXCEPT !["unknown"] = 0, ![signal] = @ + rows[t]["unknown"]]
                      \in [Signals -> 0..MaxRows]
               /\ [rows[t] EXCEPT !["unknown"] = 0, ![signal] = @ + rows[t]["unknown"]]["unknown"] = 0
    <2>1. rows[t][signal] \in Nat /\ rows[t]["unknown"] \in Nat
      BY FeedbackAssumption DEF Signals
    <2>2. 0 \in 0..MaxRows /\ rows[t][signal] + rows[t]["unknown"] \in 0..MaxRows
      BY <2>1, FeedbackAssumption
    <2>3. QED BY <2>1, <2>2 DEF Signals
  <1>2. QED BY <1>1 DEF Marked

\* What settles the rows of some memories of a session keeps the type, and
\* leaves the rows of others alone.
LEMMA SignalledRows ==
    ASSUME FeedbackTypeOK, NEW s \in Sessions, NEW ms \in SUBSET Memories,
           NEW signal \in {"used", "ignored"}, FitsRows(s, ms, signal)
    PROVE  /\ Signalled(s, ms, signal)
                \in [Sessions -> [Memories -> [Strategies -> [Signals -> 0..MaxRows]]]]
           /\ \A r \in Sessions, m \in Memories :
                IF r = s /\ m \in ms
                THEN \A t \in Strategies : Signalled(s, ms, signal)[r][m][t]["unknown"] = 0
                ELSE Signalled(s, ms, signal)[r][m] = signals[r][m]
  <1> DEFINE new == [m \in Memories |-> IF m \in ms THEN Marked(signals[s][m], signal) ELSE signals[s][m]]
  <1>1. \A m \in ms : /\ Marked(signals[s][m], signal) \in [Strategies -> [Signals -> 0..MaxRows]]
                      /\ \A t \in Strategies : Marked(signals[s][m], signal)[t]["unknown"] = 0
    BY MarkedRows, FeedbackEntries DEF FitsRows
  <1>2. new \in [Memories -> [Strategies -> [Signals -> 0..MaxRows]]]
    BY <1>1, FeedbackEntries
  <1>3. Signalled(s, ms, signal) = [signals EXCEPT ![s] = new]
    BY DEF Signalled
  <1>4. \A r \in Sessions, m \in Memories :
            Signalled(s, ms, signal)[r][m] = IF r = s /\ m \in ms THEN Marked(signals[s][m], signal)
                                             ELSE signals[r][m]
    BY <1>3 DEF FeedbackTypeOK
  <1>5. Signalled(s, ms, signal) \in [Sessions -> [Memories -> [Strategies -> [Signals -> 0..MaxRows]]]]
    <2> HIDE DEF new
    <2>1. QED BY <1>2, <1>3 DEF FeedbackTypeOK
  <1>6. QED BY <1>1, <1>4, <1>5

\* Entries of some memories of a session are written.
LEMMA EntriesWritten ==
    ASSUME FeedbackTypeOK, NEW s \in Sessions, NEW ms \in SUBSET Memories,
           NEW entry \in {"pending", "used"}, Entered(s, ms, entry)
    PROVE  /\ history' \in [Sessions -> [Memories -> Entries]]
           /\ \A r \in Sessions, m \in Memories :
                history'[r][m] = IF r = s /\ m \in ms THEN entry ELSE history[r][m]
  <1>1. entry \in Entries BY DEF Entries
  <1>2. history \in [Sessions -> [Memories -> Entries]] BY DEF FeedbackTypeOK
  <1> DEFINE new == [m \in Memories |-> IF m \in ms THEN entry ELSE history[s][m]]
  <1>3. history' = [history EXCEPT ![s] = new] BY DEF Entered
  <1>4. new \in [Memories -> Entries] BY <1>1, <1>2
  <1>5. \A m \in Memories : new[m] = IF m \in ms THEN entry ELSE history[s][m] OBVIOUS
  <1> HIDE DEF new
  <1>6. history' \in [Sessions -> [Memories -> Entries]] BY <1>2, <1>3, <1>4
  <1>7. \A r \in Sessions : history'[r] = IF r = s THEN new ELSE history[r] BY <1>2, <1>3
  <1>8. QED BY <1>5, <1>6, <1>7

\* Who may open rows: each of them has an entry or is an orphan from then on.
LEMMA OpeningKeeps ==
    ASSUME FeedbackInv, NEW s \in Sessions, NEW ms \in SUBSET Memories, NEW t \in Strategies,
           RowsOpened(s, ms, t), history' \in [Sessions -> [Memories -> Entries]],
           orphans' \subseteq Sessions \X Memories,
           \A m \in ms : history'[s][m] = "pending" \/ <<s, m>> \in orphans',
           \A r \in Sessions, m \in Memories :
                (history[r][m] = "pending" \/ <<r, m>> \in orphans)
                    => (history'[r][m] = "pending" \/ <<r, m>> \in orphans'),
           UNCHANGED <<weights, since, overrides>>
    PROVE  FeedbackInv'
  <1> DEFINE new == [m \in Memories |-> IF m \in ms THEN Opened(signals[s][m], t) ELSE signals[s][m]]
  <1> USE DEF FeedbackInv
  <1>1. \A m \in ms : Opened(signals[s][m], t) \in [Strategies -> [Signals -> 0..MaxRows]]
    BY OpenedRows, FeedbackEntries DEF RowsOpened
  <1>2. new \in [Memories -> [Strategies -> [Signals -> 0..MaxRows]]]
    BY <1>1, FeedbackEntries
  <1>3. signals' = [signals EXCEPT ![s] = new]
    BY DEF RowsOpened
  <1>4. \A r \in Sessions, m \in Memories : ~(r = s /\ m \in ms) => signals'[r][m] = signals[r][m]
    BY <1>3 DEF FeedbackTypeOK
  <1>5. FeedbackTypeOK'
    <2> HIDE DEF new
    <2>1. QED BY <1>2, <1>3 DEF FeedbackTypeOK
  <1>6. FeedbackSettles' BY <1>4 DEF FeedbackSettles
  <1>7. QED BY <1>5, <1>6

\* A recall opens a row for each memory that the session had no entry of.
LEMMA RecallKeeps ==
    ASSUME FeedbackInv, NEW s \in Sessions, NEW items \in SUBSET Memories, NEW t \in Strategies,
           RecordRecall(s, items, t)
    PROVE  FeedbackInv'
  <1> DEFINE fresh == Fresh(s, items)
  <1>1. /\ RowsOpened(s, fresh, t) /\ Entered(s, fresh, "pending")
        /\ orphans' = orphans /\ UNCHANGED <<weights, since, overrides>>
    BY DEF RecordRecall
  <1>2. fresh \in SUBSET Memories BY DEF Fresh
  <1> HIDE DEF fresh
  <1>3. FeedbackTypeOK BY DEF FeedbackInv
  <1>4. /\ history' \in [Sessions -> [Memories -> Entries]]
        /\ \A r \in Sessions, m \in Memories :
             history'[r][m] = IF r = s /\ m \in fresh THEN "pending" ELSE history[r][m]
    BY <1>1, <1>2, <1>3, EntriesWritten
  <1>5. orphans' \subseteq Sessions \X Memories BY <1>1, <1>3 DEF FeedbackTypeOK
  <1>6. \A m \in fresh : history'[s][m] = "pending" BY <1>2, <1>4
  <1>7. \A r \in Sessions, m \in Memories :
          (history[r][m] = "pending" \/ <<r, m>> \in orphans)
              => (history'[r][m] = "pending" \/ <<r, m>> \in orphans')
    BY <1>1, <1>4
  <1>8. QED BY <1>1, <1>2, <1>4, <1>5, <1>6, <1>7, OpeningKeeps

LEMMA RecallFailureKeeps ==
    ASSUME FeedbackInv, NEW s \in Sessions, NEW items \in SUBSET Memories, NEW t \in Strategies,
           RecordFails(s, items, t)
    PROVE  FeedbackInv'
  <1> DEFINE fresh == Fresh(s, items)
  <1>1. PICK m \in fresh, before \in SUBSET fresh :
          /\ RowsOpened(s, before, t)
          /\ \/ Entered(s, before \cup {m}, "pending") /\ UNCHANGED orphans
             \/ /\ \A n \in Memories : history[s][n] = "none"
                /\ orphans' = orphans \cup ({s} \X before) /\ UNCHANGED history
          /\ UNCHANGED <<weights, since, overrides>>
    BY DEF RecordFails
  <1>2. fresh \subseteq Memories BY DEF Fresh
  <1> HIDE DEF fresh
  <1>3. FeedbackTypeOK BY DEF FeedbackInv
  <1>4. before \in SUBSET Memories BY <1>2
  <1>5. CASE Entered(s, before \cup {m}, "pending") /\ UNCHANGED orphans
    <2>1. before \cup {m} \in SUBSET Memories BY <1>2
    <2>2. /\ history' \in [Sessions -> [Memories -> Entries]]
          /\ \A r \in Sessions, n \in Memories :
               history'[r][n] = IF r = s /\ n \in before \cup {m} THEN "pending" ELSE history[r][n]
      BY <1>3, <1>5, <2>1, EntriesWritten
    <2>3. orphans' \subseteq Sessions \X Memories BY <1>3, <1>5 DEF FeedbackTypeOK
    <2>4. \A n \in before : history'[s][n] = "pending" BY <1>4, <2>2
    <2>5. \A r \in Sessions, n \in Memories :
            (history[r][n] = "pending" \/ <<r, n>> \in orphans)
                => (history'[r][n] = "pending" \/ <<r, n>> \in orphans')
      BY <1>5, <2>2
    <2>6. QED BY <1>1, <1>4, <2>2, <2>3, <2>4, <2>5, OpeningKeeps
  <1>6. CASE orphans' = orphans \cup ({s} \X before) /\ UNCHANGED history
    <2>1. orphans' \subseteq Sessions \X Memories BY <1>3, <1>4, <1>6 DEF FeedbackTypeOK
    <2>2. \A n \in before : <<s, n>> \in orphans' BY <1>6
    <2>3. history' \in [Sessions -> [Memories -> Entries]] BY <1>3, <1>6 DEF FeedbackTypeOK
    <2>4. \A r \in Sessions, n \in Memories :
            (history[r][n] = "pending" \/ <<r, n>> \in orphans)
                => (history'[r][n] = "pending" \/ <<r, n>> \in orphans')
      BY <1>6
    <2>5. QED BY <1>1, <1>4, <2>1, <2>2, <2>3, <2>4, OpeningKeeps
  <1>7. QED BY <1>1, <1>5, <1>6

\* What closes the rows of some memories of a session keeps the entry or the
\* orphan of every other row.
LEMMA SettlingKeeps ==
    ASSUME FeedbackInv, NEW s \in Sessions, NEW ms \in SUBSET Memories,
           NEW signal \in {"used", "ignored"}, FitsRows(s, ms, signal),
           signals' = Signalled(s, ms, signal),
           history' \in [Sessions -> [Memories -> Entries]],
           orphans' \subseteq Sessions \X Memories,
           \A r \in Sessions, m \in Memories :
                ~(r = s /\ m \in ms) /\ (history[r][m] = "pending" \/ <<r, m>> \in orphans)
                    => (history'[r][m] = "pending" \/ <<r, m>> \in orphans'),
           UNCHANGED <<weights, since, overrides>>
    PROVE  FeedbackInv'
  <1> USE DEF FeedbackInv
  <1>1. FeedbackTypeOK'
    <2>1. signals' \in [Sessions -> [Memories -> [Strategies -> [Signals -> 0..MaxRows]]]]
      BY SignalledRows
    <2>2. QED BY <2>1 DEF FeedbackTypeOK
  <1>2. SUFFICES ASSUME NEW r \in Sessions, NEW m \in Memories,
                        \E u \in Strategies : signals'[r][m][u]["unknown"] > 0
                 PROVE  history'[r][m] = "pending" \/ <<r, m>> \in orphans'
    BY <1>1 DEF FeedbackSettles
  <1>3. ~(r = s /\ m \in ms) /\ signals'[r][m] = signals[r][m]
    BY <1>2, SignalledRows
  <1>4. history[r][m] = "pending" \/ <<r, m>> \in orphans
    BY <1>2, <1>3 DEF FeedbackSettles
  <1>5. QED BY <1>3, <1>4

LEMMA ReferenceKeeps ==
    ASSUME FeedbackInv, NEW s \in Sessions, NEW ms \in SUBSET Memories,
           Reference(s, ms) \/ ReferenceFails(s, ms)
    PROVE  FeedbackInv'
  <1>1. FeedbackTypeOK BY DEF FeedbackInv
  <1>2. CASE Reference(s, ms)
    <2>1. /\ FitsRows(s, ms, "used") /\ signals' = Signalled(s, ms, "used")
          /\ orphans' = orphans \ ({s} \X ms) /\ UNCHANGED <<weights, since, overrides>>
          /\ Entered(s, ms, "used")
      BY <1>2 DEF Reference
    <2>2. /\ history' \in [Sessions -> [Memories -> Entries]]
          /\ \A r \in Sessions, m \in Memories :
               history'[r][m] = IF r = s /\ m \in ms THEN "used" ELSE history[r][m]
      BY <1>1, <2>1, EntriesWritten
    <2>3. orphans' \subseteq Sessions \X Memories BY <1>1, <2>1 DEF FeedbackTypeOK
    <2>4. \A r \in Sessions, m \in Memories :
            ~(r = s /\ m \in ms) /\ (history[r][m] = "pending" \/ <<r, m>> \in orphans)
                => (history'[r][m] = "pending" \/ <<r, m>> \in orphans')
      BY <2>1, <2>2
    <2>5. QED BY <2>1, <2>2, <2>3, <2>4, SettlingKeeps
  <1>3. CASE ReferenceFails(s, ms)
    <2>1. PICK failed \in Pending(s) \ ms :
            /\ FitsRows(s, ms, "used") /\ signals' = Signalled(s, ms, "used")
            /\ orphans' = (orphans \ ({s} \X ms)) \cup {<<s, failed>>}
            /\ UNCHANGED <<weights, since, overrides>>
            /\ Entered(s, ms \cup {failed}, "used")
      BY <1>3 DEF ReferenceFails
    <2>2. failed \in Memories BY DEF Pending
    <2>3. ms \cup {failed} \in SUBSET Memories BY <2>2
    <2>4. /\ history' \in [Sessions -> [Memories -> Entries]]
          /\ \A r \in Sessions, m \in Memories :
               history'[r][m] = IF r = s /\ m \in ms \cup {failed} THEN "used" ELSE history[r][m]
      BY <1>1, <2>1, <2>3, EntriesWritten
    <2>5. orphans' \subseteq Sessions \X Memories BY <1>1, <2>1, <2>2 DEF FeedbackTypeOK
    <2>6. \A r \in Sessions, m \in Memories :
            ~(r = s /\ m \in ms) /\ (history[r][m] = "pending" \/ <<r, m>> \in orphans)
                => (history'[r][m] = "pending" \/ <<r, m>> \in orphans')
      BY <2>1, <2>4
    <2>7. QED BY <2>1, <2>4, <2>5, <2>6, SettlingKeeps
  <1>4. QED BY <1>2, <1>3

LEMMA FinalizeKeeps ==
    ASSUME FeedbackInv, NEW s \in Sessions, FinalizeSession(s) \/ FinalizeFails(s)
    PROVE  FeedbackInv'
  <1>1. FeedbackTypeOK BY DEF FeedbackInv
  <1>2. PICK ms \in SUBSET Pending(s) :
          /\ FitsRows(s, ms, "ignored") /\ signals' = Signalled(s, ms, "ignored")
          /\ orphans' = orphans \ ({s} \X ms) /\ UNCHANGED <<weights, since, overrides>>
          /\ \/ history' = history
             \/ /\ ms = Pending(s)
                /\ history' = [history EXCEPT ![s] = [m \in Memories |-> "none"]]
    <2>1. CASE FinalizeSession(s) BY <2>1 DEF FinalizeSession
    <2>2. CASE FinalizeFails(s) BY <2>2 DEF FinalizeFails
    <2>3. QED BY <2>1, <2>2
  <1>3. ms \in SUBSET Memories BY DEF Pending
  <1>4. history' \in [Sessions -> [Memories -> Entries]]
    BY <1>1, <1>2 DEF FeedbackTypeOK, Entries
  <1>5. \A r \in Sessions, m \in Memories :
          ~(r = s /\ m \in ms) /\ history[r][m] = "pending" => history'[r][m] = "pending"
    BY <1>1, <1>2 DEF FeedbackTypeOK, Pending
  <1>6. orphans' \subseteq Sessions \X Memories BY <1>1, <1>2 DEF FeedbackTypeOK
  <1>7. \A r \in Sessions, m \in Memories :
          ~(r = s /\ m \in ms) /\ (history[r][m] = "pending" \/ <<r, m>> \in orphans)
              => (history'[r][m] = "pending" \/ <<r, m>> \in orphans')
    BY <1>2, <1>5
  <1>8. QED BY <1>2, <1>3, <1>4, <1>6, <1>7, SettlingKeeps

\* A restart forgets the entries: what was pending is an orphan from then on.
LEMMA RestartKeeps ==
    ASSUME FeedbackInv, ProcessRestarts
    PROVE  FeedbackInv'
  <1> USE DEF FeedbackInv
  <1>1. FeedbackTypeOK'
    BY FeedbackAssumption DEF ProcessRestarts, FeedbackTypeOK, Entries
  <1>2. SUFFICES ASSUME NEW r \in Sessions, NEW m \in Memories
                 PROVE  (\E u \in Strategies : signals'[r][m][u]["unknown"] > 0)
                          => (history'[r][m] = "pending" \/ <<r, m>> \in orphans')
    BY <1>1 DEF FeedbackSettles
  <1>3. signals' = signals
    BY DEF ProcessRestarts
  <1>4. <<r, m>> \in orphans' <=> <<r, m>> \in orphans \/ history[r][m] = "pending"
    BY DEF ProcessRestarts
  <1>5. QED BY <1>3, <1>4 DEF FeedbackSettles

\* Tuning reads the rows and changes none.
LEMMA TuningKeeps ==
    ASSUME FeedbackInv, AdaptedWeights \/ CacheExpires \/ TuneDecay
    PROVE  FeedbackInv'
  <1> USE DEF FeedbackInv
  <1>1. UNCHANGED <<history, signals, orphans>>
    BY DEF AdaptedWeights, CacheExpires, TuneDecay
  <1>2. weights' \in {"none", "keyword", "semantic", "even"}
    BY DEF AdaptedWeights, CacheExpires, TuneDecay, Adapted, FeedbackTypeOK
  <1>3. since' \in 0..Interval
    BY FeedbackAssumption DEF AdaptedWeights, CacheExpires, TuneDecay, FeedbackTypeOK
  <1>4. overrides' \in [Strategies -> {"none", "boost", "cut"}]
    <2>1. \A t \in Strategies : Override(t) \in {"none", "boost", "cut"}
      BY DEF Override, FeedbackTypeOK
    <2>2. QED BY <2>1 DEF AdaptedWeights, CacheExpires, TuneDecay, FeedbackTypeOK
  <1>5. QED BY <1>1, <1>2, <1>3, <1>4 DEF FeedbackTypeOK, FeedbackSettles

LEMMA FeedbackStep == FeedbackInv /\ [FeedbackNext]_feedbackVars => FeedbackInv'
  <1> SUFFICES ASSUME FeedbackInv, [FeedbackNext]_feedbackVars PROVE FeedbackInv'
    OBVIOUS
  <1>1. ASSUME NEW s \in Sessions, NEW items \in SUBSET Memories \ {{}}, NEW t \in Strategies,
               RecordRecall(s, items, t) \/ RecordFails(s, items, t)
        PROVE  FeedbackInv'
    BY <1>1, RecallKeeps, RecallFailureKeeps
  <1>2. ASSUME NEW s \in Sessions, NEW ms \in SUBSET Memories,
               Reference(s, ms) \/ ReferenceFails(s, ms)
        PROVE  FeedbackInv'
    BY <1>2, ReferenceKeeps
  <1>3. ASSUME NEW s \in Sessions, FinalizeSession(s) \/ FinalizeFails(s) PROVE FeedbackInv'
    BY <1>3, FinalizeKeeps
  <1>4. CASE ProcessRestarts
    BY <1>4, RestartKeeps
  <1>5. CASE AdaptedWeights \/ CacheExpires \/ TuneDecay
    BY <1>5, TuningKeeps
  <1>6. CASE UNCHANGED feedbackVars
    BY <1>6 DEF feedbackVars, FeedbackInv, FeedbackTypeOK, FeedbackSettles
  <1>7. QED BY <1>1, <1>2, <1>3, <1>4, <1>5, <1>6 DEF FeedbackNext

\* Any number of sessions that recall, store, edit, end and lose their process
\* (core/memory/microReflection): a row of retrieval_feedback is open exactly
\* while its session, or a session that died, has the memory pending.
THEOREM FeedbackSettled == FeedbackSpec => []FeedbackSettles
  <1>1. FeedbackInit => FeedbackInv
    BY FeedbackStarts
  <1>2. FeedbackInv /\ [FeedbackNext]_feedbackVars => FeedbackInv'
    BY FeedbackStep
  <1>3. FeedbackInv => FeedbackSettles
    BY DEF FeedbackInv
  <1> QED BY <1>1, <1>2, <1>3, PTL DEF FeedbackSpec
-----------------------------------------------------------------------------
(***************************************************************************)
(* Profiles.                                                               *)
(***************************************************************************)
ProfileInv == ProfileTypeOK /\ ProfileCurrent

\* The rows that are the user's in one of two tables are the same in both.
SameRows(old, new, u) ==
    \A m \in Places : old[m].user = u \/ new[m].user = u => new[m] = old[m]

Tables == [Places -> Memory \cup {NoMemory}]

LEMMA GreatestPlace ==
    ASSUME NEW T \in SUBSET Places, T # {}
    PROVE  Max(T) \in T
  <1>1. IsFiniteSet(T) /\ T \subseteq Nat
    BY ProfileAssumption, FS_Subset
  <1>2. PICK n \in T : \A m \in T : m <= n
    BY <1>1, GreatestNatural
  <1>3. n \in T /\ \A m \in T : n >= m
    BY <1>1, <1>2
  <1>4. QED BY <1>3 DEF Max

LEMMA OwnRows ==
    ASSUME NEW table \in Tables, NEW u \in Users, NEW m \in Of(table, u)
    PROVE  m \in Places /\ table[m] \in Memory /\ table[m].user = u
  <1>1. m \in Places /\ table[m].user = u BY DEF Of
  <1>2. table[m] # NoMemory BY <1>1, ProfileAssumption DEF NoMemory
  <1>3. QED BY <1>1, <1>2 DEF Tables

\* Whose rows are the same has the same profile.
LEMMA ProjectionKept ==
    ASSUME NEW old, NEW new, NEW u \in Users, SameRows(old, new, u)
    PROVE  Projection(new, u) = Projection(old, u)
  <1>1. Of(new, u) = Of(old, u)
    BY DEF SameRows, Of
  <1>2. \A m \in Of(old, u) : m \in Places /\ new[m] = old[m]
    BY DEF SameRows, Of
  <1>3. Eligible(new, u) = Eligible(old, u)
    BY <1>1, <1>2 DEF Eligible
  <1>4. \A m \in Eligible(old, u) : m \in Places /\ new[m] = old[m]
    BY <1>2 DEF Eligible
  <1>5. Explicit(new, u) = Explicit(old, u)
    BY <1>3, <1>4 DEF Explicit
  <1>6. \A m \in Explicit(old, u) : m \in Places /\ new[m] = old[m]
    BY <1>4 DEF Explicit
  <1>7. Stable(new, u) = Stable(old, u)
    <2> DEFINE stated(k) == {m \in Explicit(old, u) : old[m].key = k}
               value(k) == IF stated(k) = {} THEN None ELSE old[Max(stated(k))].value
               valueNew(k) == LET s == {m \in Explicit(new, u) : new[m].key = k}
                              IN IF s = {} THEN None ELSE new[Max(s)].value
    <2>1. ASSUME NEW k \in Keys PROVE valueNew(k) = value(k)
      <3>1. {m \in Explicit(new, u) : new[m].key = k} = stated(k)
        BY <1>5, <1>6
      <3>2. CASE stated(k) = {} BY <3>1, <3>2
      <3>3. CASE stated(k) # {}
        <4>1. stated(k) \in SUBSET Places BY <1>6
        <4>2. Max(stated(k)) \in stated(k)
          <5> HIDE DEF stated
          <5>1. QED BY <3>3, <4>1, GreatestPlace
        <4>3. new[Max(stated(k))] = old[Max(stated(k))] BY <1>6, <4>2
        <4> HIDE DEF stated
        <4>4. QED BY <3>1, <3>3, <4>3
      <3>4. QED BY <3>2, <3>3
    <2>2. Stable(old, u) = [k \in Keys |-> value(k)] BY Zenon DEF Stable
    <2>3. Stable(new, u) = [k \in Keys |-> valueNew(k)] BY Zenon DEF Stable
    <2> HIDE DEF value, valueNew
    <2>4. QED BY <2>1, <2>2, <2>3
  <1>8. Interests(new, u) = Interests(old, u)
    BY <1>3, <1>4, <1>7 DEF Interests
  <1>9. QED BY <1>7, <1>8 DEF Projection

LEMMA ProjectionTyped ==
    ASSUME NEW table \in Tables, NEW u \in Users
    PROVE  Projection(table, u) \in View
  <1>1. \A m \in Eligible(table, u) : m \in Places /\ table[m] \in Memory
    BY OwnRows DEF Eligible
  <1>2. \A m \in Explicit(table, u) : m \in Places /\ table[m] \in Memory
    BY <1>1 DEF Explicit
  <1>3. Stable(table, u) \in [Keys -> Values \cup {None}]
    <2> DEFINE stated(k) == {m \in Explicit(table, u) : table[m].key = k}
               value(k) == IF stated(k) = {} THEN None ELSE table[Max(stated(k))].value
    <2>1. ASSUME NEW k \in Keys PROVE value(k) \in Values \cup {None}
      <3>1. CASE stated(k) = {} BY <3>1
      <3>2. CASE stated(k) # {}
        <4>1. stated(k) \in SUBSET Places BY <1>2
        <4>2. Max(stated(k)) \in stated(k)
          <5> HIDE DEF stated
          <5>1. QED BY <3>2, <4>1, GreatestPlace
        <4>3. table[Max(stated(k))] \in Memory BY <1>2, <4>2
        <4>4. table[Max(stated(k))].value \in Values BY <4>3 DEF Memory
        <4> HIDE DEF stated
        <4>5. QED BY <3>2, <4>4
      <3>3. QED BY <3>1, <3>2
    <2>2. Stable(table, u) = [k \in Keys |-> value(k)] BY Zenon DEF Stable
    <2> HIDE DEF value
    <2>3. QED BY <2>1, <2>2
  <1>4. Interests(table, u) \in SUBSET Values
    BY <1>1 DEF Interests, Memory
  <1>5. QED BY <1>3, <1>4 DEF Projection, View

LEMMA ProfileIsNot ==
    ASSUME NEW p \in Profile
    PROVE  p # NoProfile
  <1>1. "view" \in DOMAIN p BY DEF Profile
  <1>2. "view" \notin DOMAIN NoProfile BY DEF NoProfile
  <1>3. QED BY <1>1, <1>2

LEMMA HintsTyped ==
    ASSUME ProfileTypeOK, NEW u \in Users
    PROVE  /\ Hints(u) \in Seq(Statements \cup {Onboarded})
           /\ Len(Hints(u)) <= MaxHints
           /\ ~NeedsOnboarding(u) => Contains(Hints(u), Onboarded)
  <1> DEFINE all == Reserved(u) \o rules[u]
             n == Min({MaxHints, Len(all)})
  <1>1. rules[u] \in Seq(Statements \cup {Onboarded})
    <2>1. rules[u] \in BoundedSeq(Statements, MaxRules) BY DEF ProfileTypeOK
    <2>2. PICK m \in 0..MaxRules : rules[u] \in [1..m -> Statements]
      BY <2>1 DEF BoundedSeq, SeqOf
    <2>3. QED BY <2>2
  <1>2. Reserved(u) \in Seq(Statements \cup {Onboarded})
    <2>1. <<>> \in Seq(Statements \cup {Onboarded}) /\ <<Onboarded>> \in Seq(Statements \cup {Onboarded})
      OBVIOUS
    <2>2. Reserved(u) = <<>> \/ Reserved(u) = <<Onboarded>>
      BY DEF Reserved
    <2>3. QED BY <2>1, <2>2
  <1>3. all \in Seq(Statements \cup {Onboarded}) /\ Len(all) \in Nat
    BY <1>1, <1>2
  <1>4. ~NeedsOnboarding(u) => Len(all) >= 1 /\ all[1] = Onboarded
    BY <1>1 DEF NeedsOnboarding, Reserved
  <1> HIDE DEF all
  <1>5. n \in Nat /\ n <= MaxHints /\ n <= Len(all) /\ (Len(all) >= 1 => n >= 1)
    <2>1. CASE MaxHints <= Len(all)
      <3>1. n = MaxHints BY <1>3, <2>1, ProfileAssumption DEF Min
      <3>2. QED BY <1>3, <2>1, <3>1, ProfileAssumption
    <2>2. CASE Len(all) <= MaxHints
      <3>1. n = Len(all) BY <1>3, <2>2, ProfileAssumption DEF Min
      <3>2. QED BY <1>3, <2>2, <3>1, ProfileAssumption
    <2>3. QED BY <1>3, <2>1, <2>2, ProfileAssumption
  <1>6. Hints(u) = SubSeq(all, 1, n)
    BY DEF Hints, FirstOf, all
  <1> HIDE DEF n
  <1>7. /\ SubSeq(all, 1, n) \in Seq(Statements \cup {Onboarded})
        /\ Len(SubSeq(all, 1, n)) = n
        /\ \A i \in 1..n : SubSeq(all, 1, n)[i] = all[i]
    BY <1>3, <1>5
  <1>8. ~NeedsOnboarding(u) => Contains(Hints(u), Onboarded)
    <2>1. SUFFICES ASSUME ~NeedsOnboarding(u) PROVE Contains(Hints(u), Onboarded)
      OBVIOUS
    <2>2. 1 \in 1..n BY <1>4, <1>5, <2>1
    <2>3. SubSeq(all, 1, n)[1] = Onboarded BY <1>4, <1>7, <2>1, <2>2
    <2>4. QED BY <1>6, <1>7, <2>2, <2>3 DEF Contains
  <1>9. QED BY <1>5, <1>6, <1>7, <1>8

LEMMA FewHints ==
    ASSUME NEW hints \in Seq(Statements \cup {Onboarded}), Len(hints) <= MaxHints
    PROVE  FitHints(hints)
  <1>1. Len(hints) \in Nat OBVIOUS
  <1>2. QED BY <1>1, ProfileAssumption DEF FitHints

\* A step that projects some users: their profiles are what the new table says.
LEMMA RecomputeTyped ==
    ASSUME ProfileTypeOK, NEW users, NEW table \in Tables, NEW new, new = Recompute(users, table)
    PROVE  /\ new \in [Users -> Profile \cup {NoProfile}]
           /\ \A u \in Users : FitHints(new[u].hints)
           /\ \A u \in users \cap Users : new[u] \in Profile /\ new[u].view = Projection(table, u)
           /\ \A u \in Users \ users : new[u] = profile[u]
           /\ \A u \in Users : ~NeedsOnboarding(u) => Contains(new[u].hints, Onboarded)
  <1>1. \A u \in Users : new[u] = IF u \in users THEN [view |-> Projection(table, u), hints |-> Hints(u)]
                                  ELSE profile[u]
    BY DEF Recompute
  <1>2. ASSUME NEW u \in Users, u \in users
        PROVE  /\ new[u] \in Profile
               /\ new[u].view = Projection(table, u)
               /\ FitHints(new[u].hints)
               /\ ~NeedsOnboarding(u) => Contains(new[u].hints, Onboarded)
    <2>1. Projection(table, u) \in View BY ProjectionTyped
    <2>2. /\ Hints(u) \in Seq(Statements \cup {Onboarded})
          /\ Len(Hints(u)) <= MaxHints
          /\ ~NeedsOnboarding(u) => Contains(Hints(u), Onboarded)
      BY HintsTyped
    <2>3. new[u] = [view |-> Projection(table, u), hints |-> Hints(u)] BY <1>1, <1>2
    <2>4. FitHints(Hints(u)) BY <2>2, FewHints
    <2>5. new[u] \in Profile BY <2>1, <2>2, <2>3 DEF Profile
    <2>6. QED BY <2>2, <2>3, <2>4, <2>5
  <1>3. ASSUME NEW u \in Users, u \notin users
        PROVE  /\ new[u] = profile[u]
               /\ new[u] \in Profile \cup {NoProfile}
               /\ FitHints(new[u].hints)
               /\ ~NeedsOnboarding(u) => Contains(new[u].hints, Onboarded)
    BY <1>1, <1>3 DEF ProfileTypeOK, NeedsOnboarding
  <1>4. new \in [Users -> Profile \cup {NoProfile}]
    <2>1. DOMAIN new = Users /\ new = [u \in Users |-> new[u]] BY DEF Recompute
    <2>2. QED BY <1>2, <1>3, <2>1
  <1>5. QED BY <1>2, <1>3, <1>4

\* What a user's profile may be after a step: projected, out of date, or as it
\* was while the user's rows are as they were.
Explained(u) ==
    \/ profile'[u] \in Profile /\ profile'[u].view = Projection(memory', u)
    \/ u \in behind'
    \/ /\ u \notin behind /\ SameRows(memory, memory', u)
       /\ \/ profile'[u] = profile[u]
          \/ profile[u] \in Profile /\ profile'[u] \in Profile /\ profile'[u].view = profile[u].view

LEMMA CurrentKept ==
    ASSUME ProfileInv, \A u \in Users : Explained(u)
    PROVE  ProfileCurrent'
  <1>1. SUFFICES ASSUME NEW u \in Users, u \notin behind'
                 PROVE  IF profile'[u] = NoProfile THEN \A m \in Places : memory'[m].user # u
                        ELSE profile'[u].view = Projection(memory', u)
    BY DEF ProfileCurrent
  <1>2. CASE profile'[u] \in Profile /\ profile'[u].view = Projection(memory', u)
    BY <1>2, ProfileIsNot
  <1>3. CASE u \notin behind /\ SameRows(memory, memory', u) /\ profile'[u] = profile[u]
    <2>1. IF profile[u] = NoProfile THEN \A m \in Places : memory[m].user # u
          ELSE profile[u].view = Projection(memory, u)
      BY <1>3 DEF ProfileInv, ProfileCurrent
    <2>2. Projection(memory', u) = Projection(memory, u) BY <1>3, ProjectionKept
    <2>3. \A m \in Places : memory[m].user # u => memory'[m].user # u
      BY <1>3 DEF SameRows
    <2>4. QED BY <1>3, <2>1, <2>2, <2>3
  <1>4. CASE /\ u \notin behind /\ SameRows(memory, memory', u)
             /\ profile[u] \in Profile /\ profile'[u] \in Profile /\ profile'[u].view = profile[u].view
    <2>1. profile[u] # NoProfile /\ profile'[u] # NoProfile BY <1>4, ProfileIsNot
    <2>2. profile[u].view = Projection(memory, u)
      BY <1>4, <2>1 DEF ProfileInv, ProfileCurrent
    <2>3. Projection(memory', u) = Projection(memory, u) BY <1>4, ProjectionKept
    <2>4. QED BY <1>4, <2>1, <2>2, <2>3
  <1>5. QED BY <1>1, <1>2, <1>3, <1>4 DEF Explained

LEMMA SameRowsFurther ==
    ASSUME NEW first, NEW second, NEW third, NEW u,
           SameRows(first, second, u), SameRows(second, third, u)
    PROVE  SameRows(first, third, u)
  BY DEF SameRows

LEMMA ArchivedRows ==
    ASSUME NEW table \in Tables, NEW user \in Users, NEW gone \in SUBSET Of(table, user)
    PROVE  /\ Archived(table, gone) \in Tables
           /\ \A u \in Users \ {user} : SameRows(table, Archived(table, gone), u)
  <1>1. \A m \in gone : m \in Places /\ table[m] \in Memory /\ table[m].user = user
    BY OwnRows
  <1>2. ASSUME NEW m \in gone
        PROVE  /\ [table[m] EXCEPT !.live = FALSE] \in Memory
               /\ [table[m] EXCEPT !.live = FALSE].user = user
    BY <1>1 DEF Memory
  <1>3. Archived(table, gone) \in Tables
    BY <1>2 DEF Archived, Tables
  <1>4. \A u \in Users \ {user} : SameRows(table, Archived(table, gone), u)
    BY <1>1, <1>2 DEF SameRows, Archived
  <1>5. QED BY <1>3, <1>4

LEMMA InsertKeeps ==
    ASSUME ProfileTypeOK, NEW m \in Places, NEW item \in NewRows, Insert(m, item)
    PROVE  /\ memory' \in Tables
           /\ \A u \in Users \ {item.user} : SameRows(memory, memory', u)
  <1> DEFINE table == Inserted(m, item)
  <1>1. item \in Memory /\ item.user \in Users BY DEF NewRows, Memory
  <1>2. table \in Tables BY <1>1 DEF Inserted, Tables, ProfileTypeOK
  <1>3. \A u \in Users \ {item.user} : SameRows(memory, table, u)
    BY <1>1, ProfileAssumption DEF SameRows, Inserted, Insert, NoMemory, ProfileTypeOK
  <1>4. PICK gone \in SUBSET Of(table, item.user) : memory' = Archived(table, gone)
    BY DEF Insert
  <1> HIDE DEF table
  <1>5. /\ Archived(table, gone) \in Tables
        /\ \A u \in Users \ {item.user} : SameRows(table, Archived(table, gone), u)
    BY <1>1, <1>2, ArchivedRows
  <1>6. QED BY <1>3, <1>4, <1>5, SameRowsFurther

\* A step that projects the users whose rows it writes.
LEMMA ProjectedKeeps ==
    ASSUME ProfileInv, NEW users, memory' \in Tables, Projected(users),
           \A u \in Users \ users : SameRows(memory, memory', u)
    PROVE  /\ ProfileCurrent'
           /\ profile' \in [Users -> Profile \cup {NoProfile}]
           /\ \A u \in Users : FitHints(profile'[u].hints)
           /\ \A u \in Users : ~NeedsOnboarding(u) => Contains(profile'[u].hints, Onboarded)
  <1>1. ProfileTypeOK /\ profile' = Recompute(users, memory') /\ behind' = behind \ users
    BY DEF ProfileInv, Projected
  <1>2. /\ profile' \in [Users -> Profile \cup {NoProfile}]
        /\ \A u \in Users : FitHints(profile'[u].hints)
        /\ \A u \in users \cap Users : profile'[u] \in Profile /\ profile'[u].view = Projection(memory', u)
        /\ \A u \in Users \ users : profile'[u] = profile[u]
        /\ \A u \in Users : ~NeedsOnboarding(u) => Contains(profile'[u].hints, Onboarded)
    BY <1>1, RecomputeTyped
  <1>3. ASSUME NEW u \in Users PROVE Explained(u)
    BY <1>1, <1>2 DEF Explained
  <1>4. ProfileCurrent' BY <1>3, CurrentKept
  <1>5. QED BY <1>2, <1>4

\* No step forgets that a user was asked.
Remembers == \A u \in Users : ~NeedsOnboarding(u) => ~NeedsOnboarding(u)'

ProfileStep == ProfileInv' /\ Remembers

\* What a writer that projects has to show.
LEMMA ProjectingStep ==
    ASSUME ProfileInv, NEW users, memory' \in Tables, Projected(users),
           \A u \in Users \ users : SameRows(memory, memory', u),
           rules' = rules, drifts' \subseteq Users \X Keys, capturing' \subseteq Users
    PROVE  ProfileStep
  <1>1. /\ ProfileCurrent'
        /\ profile' \in [Users -> Profile \cup {NoProfile}]
        /\ \A u \in Users : FitHints(profile'[u].hints)
        /\ \A u \in Users : ~NeedsOnboarding(u) => Contains(profile'[u].hints, Onboarded)
    BY ProjectedKeeps
  <1>2. behind' \subseteq Users BY DEF Projected, ProfileInv, ProfileTypeOK
  <1>3. rules' \in [Users -> BoundedSeq(Statements, MaxRules)] BY DEF ProfileInv, ProfileTypeOK
  <1>4. ProfileTypeOK'
    BY <1>1, <1>2, <1>3 DEF ProfileTypeOK, Tables
  <1>5. Remembers
    BY <1>1 DEF Remembers, NeedsOnboarding
  <1>6. QED BY <1>1, <1>4, <1>5 DEF ProfileStep, ProfileInv

\* What a writer that leaves profiles as they are has to show.
LEMMA OtherStep ==
    ASSUME ProfileInv, memory' \in Tables, profile' = profile,
           behind \subseteq behind', behind' \subseteq Users,
           \A u \in Users \ behind' : SameRows(memory, memory', u),
           rules' \in [Users -> BoundedSeq(Statements, MaxRules)],
           drifts' \subseteq Users \X Keys, capturing' \subseteq Users
    PROVE  ProfileStep
  <1>1. ASSUME NEW u \in Users PROVE Explained(u)
    BY DEF Explained
  <1>2. ProfileCurrent' BY <1>1, CurrentKept
  <1>3. ProfileTypeOK'
    BY DEF ProfileInv, ProfileTypeOK, Tables
  <1>4. Remembers
    BY DEF Remembers, NeedsOnboarding
  <1>5. QED BY <1>2, <1>3, <1>4 DEF ProfileStep, ProfileInv

\* Rows that stay are the same rows.
LEMMA RowsStay ==
    ASSUME memory' = memory
    PROVE  \A u : SameRows(memory, memory', u)
  BY DEF SameRows

LEMMA StoreKeeps ==
    ASSUME ProfileInv, NEW m \in Places, NEW item \in NewRows, Store(m, item)
    PROVE  ProfileStep
  <1>1. ProfileTypeOK /\ Insert(m, item) /\ Projected({item.user})
    BY DEF ProfileInv, Store
  <1>2. /\ memory' \in Tables
        /\ \A u \in Users \ {item.user} : SameRows(memory, memory', u)
    BY <1>1, InsertKeeps
  <1>3. rules' = rules /\ drifts' \subseteq Users \X Keys /\ capturing' \subseteq Users
    BY <1>1 DEF Store, ProfileTypeOK
  <1>4. QED BY <1>1, <1>2, <1>3, ProjectingStep

LEMMA CaptureKeeps ==
    ASSUME ProfileInv, NEW m \in Places, NEW item \in NewRows,
           Capture(m, item) \/ InsertOnly(m, item)
    PROVE  ProfileStep
  <1>1. ProfileTypeOK /\ Insert(m, item) /\ item.user \in Users
    BY DEF ProfileInv, Capture, InsertOnly, NewRows, Memory
  <1>2. /\ memory' \in Tables
        /\ \A u \in Users \ {item.user} : SameRows(memory, memory', u)
    BY <1>1, InsertKeeps
  <1>3. /\ profile' = profile
        /\ behind' = behind \cup {item.user}
        /\ drifts' \subseteq Users \X Keys
        /\ capturing' \subseteq Users
        /\ rules' \in [Users -> BoundedSeq(Statements, MaxRules)]
    BY <1>1 DEF Capture, InsertOnly, ProfileTypeOK
  <1>4. behind' \subseteq Users /\ behind \subseteq behind' BY <1>1, <1>3 DEF ProfileTypeOK
  <1>5. \A u \in Users \ behind' : SameRows(memory, memory', u) BY <1>2, <1>3
  <1>6. QED BY <1>2, <1>3, <1>4, <1>5, OtherStep

LEMMA RestoreKeeps ==
    ASSUME ProfileInv, NEW ms \in SUBSET Places, Restore(ms) \/ RestoreFails(ms)
    PROVE  ProfileStep
  <1> DEFINE users == {memory[m].user : m \in ms}
  <1>1. ProfileTypeOK
    BY DEF ProfileInv
  <1>2. /\ \A m \in ms : memory[m] \in Memory
        /\ memory' = [m \in Places |-> IF m \in ms THEN [memory[m] EXCEPT !.live = TRUE] ELSE memory[m]]
    BY <1>1 DEF Restore, RestoreFails, ProfileTypeOK
  <1>3. ASSUME NEW m \in ms
        PROVE  /\ [memory[m] EXCEPT !.live = TRUE] \in Memory
               /\ [memory[m] EXCEPT !.live = TRUE].user = memory[m].user
    BY <1>2 DEF Memory
  <1>4. memory' \in Tables
    BY <1>1, <1>2, <1>3 DEF Tables, ProfileTypeOK
  <1>5. ASSUME NEW u \in Users \ users PROVE SameRows(memory, memory', u)
    BY <1>2, <1>3 DEF SameRows
  <1>6. rules' = rules /\ drifts' \subseteq Users \X Keys /\ capturing' \subseteq Users
    BY <1>1 DEF Restore, RestoreFails, ProfileTypeOK
  <1>7. users \subseteq Users BY <1>2 DEF Memory
  <1>8. \/ Projected(users)
        \/ behind' = behind \cup users /\ profile' = profile
    BY DEF Restore, RestoreFails
  <1> HIDE DEF users
  <1>9. CASE Projected(users) BY <1>1, <1>4, <1>5, <1>6, <1>9, ProjectingStep
  <1>10. CASE behind' = behind \cup users /\ profile' = profile
    <2>1. behind \subseteq behind' /\ behind' \subseteq Users BY <1>1, <1>7, <1>10 DEF ProfileTypeOK
    <2>2. \A u \in Users \ behind' : SameRows(memory, memory', u) BY <1>5, <1>10
    <2>3. rules' \in [Users -> BoundedSeq(Statements, MaxRules)] BY <1>1, <1>6 DEF ProfileTypeOK
    <2>4. QED BY <1>4, <1>6, <1>10, <2>1, <2>2, <2>3, OtherStep
  <1>11. QED BY <1>8, <1>9, <1>10

LEMMA ReadKeeps ==
    ASSUME ProfileInv, NEW u \in Users, Read(u) \/ CaptureEnds(u) \/ SessionEnds(u)
    PROVE  ProfileStep
  <1>1. ProfileTypeOK /\ memory' = memory /\ Projected({u}) /\ rules' = rules
    BY DEF ProfileInv, Read, CaptureEnds, SessionEnds
  <1>2. memory' \in Tables BY <1>1 DEF ProfileTypeOK, Tables
  <1>3. \A user \in Users \ {u} : SameRows(memory, memory', user) BY <1>1, RowsStay
  <1>4. drifts' \subseteq Users \X Keys
    BY <1>1 DEF Read, CaptureEnds, SessionEnds, Drifted, ProfileTypeOK
  <1>5. capturing' \subseteq Users
    BY <1>1 DEF Read, CaptureEnds, SessionEnds, ProfileTypeOK
  <1>6. QED BY <1>1, <1>2, <1>3, <1>4, <1>5, ProjectingStep

LEMMA QuietKeeps ==
    ASSUME ProfileInv, NEW u \in Users,
           \/ CaptureFails(u)
           \/ \E statements \in BoundedSeq(Statements, MaxRules) : RulesChange(u, statements)
    PROVE  ProfileStep
  <1>1. ProfileTypeOK /\ memory' = memory /\ profile' = profile /\ behind' = behind
    BY DEF ProfileInv, CaptureFails, RulesChange
  <1>2. memory' \in Tables BY <1>1 DEF ProfileTypeOK, Tables
  <1>3. \A user \in Users \ behind' : SameRows(memory, memory', user) BY <1>1, RowsStay
  <1>4. rules' \in [Users -> BoundedSeq(Statements, MaxRules)]
    BY <1>1 DEF CaptureFails, RulesChange, ProfileTypeOK
  <1>5. drifts' \subseteq Users \X Keys /\ capturing' \subseteq Users
    BY <1>1 DEF CaptureFails, RulesChange, ProfileTypeOK
  <1>6. behind \subseteq behind' /\ behind' \subseteq Users BY <1>1 DEF ProfileTypeOK
  <1>7. QED BY <1>1, <1>2, <1>3, <1>4, <1>5, <1>6, OtherStep

LEMMA OnboardedHints ==
    ASSUME NEW hints \in Seq(Statements \cup {Onboarded}), FitHints(hints)
    PROVE  /\ WithOnboarded(hints) \in Seq(Statements \cup {Onboarded})
           /\ FitHints(WithOnboarded(hints))
           /\ Contains(WithOnboarded(hints), Onboarded)
  <1>1. CASE Contains(hints, Onboarded)
    BY <1>1 DEF WithOnboarded
  <1>2. CASE ~Contains(hints, Onboarded)
    <2>1. WithOnboarded(hints) = Append(hints, Onboarded) BY <1>2 DEF WithOnboarded
    <2>2. /\ Append(hints, Onboarded) \in Seq(Statements \cup {Onboarded})
          /\ Len(Append(hints, Onboarded)) = Len(hints) + 1
          /\ Append(hints, Onboarded)[Len(hints) + 1] = Onboarded
          /\ Len(hints) \in Nat
      OBVIOUS
    <2>3. Contains(Append(hints, Onboarded), Onboarded)
      <3>1. Len(hints) + 1 \in 1..Len(Append(hints, Onboarded)) BY <2>2
      <3>2. QED BY <2>2, <3>1 DEF Contains
    <2>4. Len(hints) <= MaxHints BY <1>2 DEF FitHints
    <2>5. FitHints(Append(hints, Onboarded))
      BY <2>2, <2>3, <2>4, ProfileAssumption DEF FitHints
    <2>6. QED BY <2>1, <2>2, <2>3, <2>5
  <1>3. QED BY <1>1, <1>2

LEMMA OnboardKeeps ==
    ASSUME ProfileInv, NEW u \in Users, NEW ms \in SUBSET Places, NEW answers \in [ms -> NewRows],
           Onboard(u, answers)
    PROVE  ProfileStep
  <1> DEFINE stored == [m \in Places |-> IF m \in DOMAIN answers THEN answers[m] ELSE memory[m]]
             fresh == Recompute({u}, memory')
  <1>1. ProfileTypeOK /\ memory \in Tables BY DEF ProfileInv, ProfileTypeOK, Tables
  <1>2. \A m \in ms : answers[m] \in Memory /\ answers[m].user = u /\ memory[m] = NoMemory
    BY DEF Onboard, NewRows
  <1>3. stored \in Tables BY <1>1, <1>2 DEF Tables
  <1>4. ASSUME NEW user \in Users \ {u} PROVE SameRows(memory, stored, user)
    <2>1. \A m \in ms : memory[m].user # user /\ stored[m].user # user
      BY <1>2, ProfileAssumption DEF NoMemory
    <2>2. QED BY <2>1 DEF SameRows
  <1>5. PICK gone \in SUBSET Of(stored, u) : memory' = Archived(stored, gone)
    BY DEF Onboard
  <1> HIDE DEF stored
  <1>6. /\ Archived(stored, gone) \in Tables
        /\ \A user \in Users \ {u} : SameRows(stored, Archived(stored, gone), user)
    BY <1>3, ArchivedRows
  <1>7. memory' \in Tables /\ \A user \in Users \ {u} : SameRows(memory, memory', user)
    BY <1>4, <1>5, <1>6, SameRowsFurther
  <1>8. /\ fresh \in [Users -> Profile \cup {NoProfile}]
        /\ \A user \in Users : FitHints(fresh[user].hints)
        /\ \A user \in {u} \cap Users : fresh[user] \in Profile /\ fresh[user].view = Projection(memory', user)
        /\ \A user \in Users \ {u} : fresh[user] = profile[user]
        /\ \A user \in Users : ~NeedsOnboarding(user) => Contains(fresh[user].hints, Onboarded)
    BY <1>1, <1>7, RecomputeTyped
  <1>9. fresh[u].hints = Hints(u)
    BY DEF Recompute
  <1>10. /\ Hints(u) \in Seq(Statements \cup {Onboarded})
         /\ Len(Hints(u)) <= MaxHints
    BY <1>1, HintsTyped
  <1>11. profile' = [fresh EXCEPT ![u].hints = WithOnboarded(Hints(u))]
    <2>1. profile' = [fresh EXCEPT ![u].hints = WithOnboarded(@)] BY DEF Onboard
    <2> HIDE DEF fresh
    <2>2. QED BY <1>9, <2>1
  <1> HIDE DEF fresh
  <1>12. /\ WithOnboarded(Hints(u)) \in Seq(Statements \cup {Onboarded})
         /\ FitHints(WithOnboarded(Hints(u)))
         /\ Contains(WithOnboarded(Hints(u)), Onboarded)
    BY <1>10, FewHints, OnboardedHints
  <1>13. /\ profile'[u] \in Profile
         /\ profile'[u].view = Projection(memory', u)
         /\ profile'[u].hints = WithOnboarded(Hints(u))
    BY <1>8, <1>11, <1>12 DEF Profile
  <1>14. \A user \in Users \ {u} : profile'[user] = profile[user]
    BY <1>8, <1>11
  <1>15. behind' = behind \ {u} /\ UNCHANGED <<rules, drifts, capturing>>
    BY DEF Onboard
  <1>16. ASSUME NEW user \in Users PROVE Explained(user)
    BY <1>7, <1>13, <1>14, <1>15 DEF Explained
  <1>17. ProfileCurrent' BY <1>16, CurrentKept
  <1>18. ProfileTypeOK'
    <2>1. DOMAIN profile' = Users BY <1>8, <1>11
    <2>2. profile' \in [Users -> Profile \cup {NoProfile}]
      BY <1>1, <1>8, <1>11, <1>13, <1>14, <2>1 DEF ProfileTypeOK
    <2>3. \A user \in Users : FitHints(profile'[user].hints)
      BY <1>1, <1>12, <1>13, <1>14 DEF ProfileTypeOK
    <2>4. QED BY <1>1, <1>7, <1>15, <2>2, <2>3 DEF ProfileTypeOK, Tables
  <1>19. Remembers
    BY <1>12, <1>13, <1>14 DEF Remembers, NeedsOnboarding
  <1>20. QED BY <1>17, <1>18, <1>19 DEF ProfileStep, ProfileInv

LEMMA OnboardWithoutAnswersKeeps ==
    ASSUME ProfileInv, NEW u \in Users, OnboardWithoutAnswers(u)
    PROVE  ProfileStep
  <1>1. ProfileTypeOK /\ memory' = memory BY DEF ProfileInv, OnboardWithoutAnswers
  <1> DEFINE hints == WithOnboarded(profile[u].hints)
  <1>2. profile[u] \in Profile /\ FitHints(profile[u].hints)
    BY <1>1 DEF OnboardWithoutAnswers, ProfileTypeOK
  <1>3. profile[u].hints \in Seq(Statements \cup {Onboarded})
    BY <1>2 DEF Profile
  <1>4. /\ hints \in Seq(Statements \cup {Onboarded})
        /\ FitHints(hints)
        /\ Contains(hints, Onboarded)
    BY <1>2, <1>3, OnboardedHints
  <1>5. profile' = [profile EXCEPT ![u].hints = hints]
    BY DEF OnboardWithoutAnswers
  <1> HIDE DEF hints
  <1>6. profile'[u] \in Profile /\ profile'[u].view = profile[u].view /\ profile'[u].hints = hints
    BY <1>1, <1>2, <1>4, <1>5 DEF Profile, ProfileTypeOK
  <1>7. \A user \in Users \ {u} : profile'[user] = profile[user]
    BY <1>1, <1>5 DEF ProfileTypeOK
  <1>8. behind' = behind /\ UNCHANGED <<rules, drifts, capturing>>
    BY DEF OnboardWithoutAnswers
  <1>9. ASSUME NEW user \in Users PROVE Explained(user)
    <2>1. SameRows(memory, memory', user) BY <1>1, RowsStay
    <2>2. QED BY <1>2, <1>6, <1>7, <1>8, <2>1 DEF Explained
  <1>10. ProfileCurrent' BY <1>9, CurrentKept
  <1>11. ProfileTypeOK'
    <2>1. profile' \in [Users -> Profile \cup {NoProfile}]
      BY <1>1, <1>5, <1>6, <1>7 DEF ProfileTypeOK
    <2>2. \A user \in Users : FitHints(profile'[user].hints)
      BY <1>1, <1>4, <1>6, <1>7 DEF ProfileTypeOK
    <2>3. QED BY <1>1, <1>8, <2>1, <2>2 DEF ProfileTypeOK
  <1>12. Remembers
    BY <1>4, <1>6, <1>7 DEF Remembers, NeedsOnboarding
  <1>13. QED BY <1>10, <1>11, <1>12 DEF ProfileStep, ProfileInv

LEMMA EditKeeps ==
    ASSUME ProfileInv, NEW m \in Places, ArchivedElsewhere(m) \/ \E value \in Values : Update(m, value)
    PROVE  ProfileStep
  <1>1. ProfileTypeOK /\ memory[m] \in Memory /\ memory[m].user \in Users
    BY DEF ProfileInv, ArchivedElsewhere, Update, ProfileTypeOK, Memory
  <1>2. /\ profile' = profile
        /\ behind' = behind \cup {memory[m].user}
        /\ UNCHANGED <<rules, drifts, capturing>>
    BY DEF ArchivedElsewhere, Update
  <1>3. PICK new \in Memory : new.user = memory[m].user /\ memory' = [memory EXCEPT ![m] = new]
    <2>1. CASE ArchivedElsewhere(m)
      <3>1. [memory[m] EXCEPT !.live = FALSE] \in Memory
            /\ [memory[m] EXCEPT !.live = FALSE].user = memory[m].user
        BY <1>1 DEF Memory
      <3>2. memory' = [memory EXCEPT ![m] = [memory[m] EXCEPT !.live = FALSE]]
        BY <1>1, <2>1 DEF ArchivedElsewhere, Archived, ProfileTypeOK
      <3>3. QED BY <3>1, <3>2
    <2>2. CASE \E value \in Values : Update(m, value)
      <3>1. PICK value \in Values : memory' = [memory EXCEPT ![m].value = value]
        BY <2>2 DEF Update
      <3>2. /\ [memory[m] EXCEPT !.value = value] \in Memory
            /\ [memory[m] EXCEPT !.value = value].user = memory[m].user
        BY <1>1 DEF Memory
      <3>3. memory' = [memory EXCEPT ![m] = [memory[m] EXCEPT !.value = value]]
        BY <3>1
      <3>4. QED BY <3>2, <3>3
    <2>3. QED BY <2>1, <2>2
  <1>4. memory' \in Tables BY <1>1, <1>3 DEF ProfileTypeOK, Tables
  <1>5. behind \subseteq behind' /\ behind' \subseteq Users BY <1>1, <1>2 DEF ProfileTypeOK
  <1>6. ASSUME NEW u \in Users \ behind' PROVE SameRows(memory, memory', u)
    BY <1>1, <1>2, <1>3 DEF SameRows, ProfileTypeOK
  <1>7. /\ rules' \in [Users -> BoundedSeq(Statements, MaxRules)]
        /\ drifts' \subseteq Users \X Keys /\ capturing' \subseteq Users
    BY <1>1, <1>2 DEF ProfileTypeOK
  <1>8. QED BY <1>2, <1>4, <1>5, <1>6, <1>7, OtherStep

LEMMA NoteKeeps ==
    ASSUME ProfileInv, NEW u \in Users, NEW note \in [key : Keys, value : Values], NEW m \in Places,
           ImportNote(u, note, m)
    PROVE  ProfileStep
  <1> DEFINE new == [user |-> u, key |-> note.key, value |-> note.value, source |-> "stated", live |-> TRUE]
  <1>1. ProfileTypeOK /\ memory[m] = NoMemory BY DEF ProfileInv, ImportNote
  <1>2. new \in Memory /\ new.user = u BY DEF Memory, Sources
  <1>3. /\ memory' = [memory EXCEPT ![m] = new]
        /\ profile' = profile
        /\ behind' = behind \cup {u}
        /\ UNCHANGED <<rules, drifts, capturing>>
    BY DEF ImportNote, Inserted
  <1> HIDE DEF new
  <1>4. memory' \in Tables BY <1>1, <1>2, <1>3 DEF ProfileTypeOK, Tables
  <1>5. behind \subseteq behind' /\ behind' \subseteq Users BY <1>1, <1>3 DEF ProfileTypeOK
  <1>6. ASSUME NEW user \in Users \ behind' PROVE SameRows(memory, memory', user)
    <2>1. user # u /\ NoMemory.user # user BY <1>3, ProfileAssumption DEF NoMemory
    <2>2. QED BY <1>1, <1>2, <1>3, <2>1 DEF SameRows, ProfileTypeOK
  <1>7. /\ rules' \in [Users -> BoundedSeq(Statements, MaxRules)]
        /\ drifts' \subseteq Users \X Keys /\ capturing' \subseteq Users
    BY <1>1, <1>3 DEF ProfileTypeOK
  <1>8. QED BY <1>3, <1>4, <1>5, <1>6, <1>7, OtherStep

LEMMA GreatestIndex ==
    ASSUME NEW T, T \subseteq Nat, T # {}, IsFiniteSet(T)
    PROVE  Max(T) \in T
  <1>1. PICK n \in T : \A m \in T : m <= n
    BY GreatestNatural
  <1>2. n \in T /\ \A m \in T : n >= m
    BY <1>1
  <1>3. QED BY <1>2 DEF Max

\* Writing some items of a file changes rows of the owners before and after.
LEMMA WrittenRows ==
    ASSUME ProfileTypeOK, NEW items \in Seq(Item), NEW chosen \in SUBSET DOMAIN items,
           NEW override \in Users \cup {None}
    PROVE  /\ Written(items, chosen, override) \in Tables
           /\ NewOwners(items, chosen, override) \subseteq Users
           /\ \A u \in Users \ (OldOwners(items, chosen) \cup NewOwners(items, chosen, override)) :
                  SameRows(memory, Written(items, chosen, override), u)
  <1> DEFINE mine(m) == {j \in chosen : items[j].id = m}
             owner(j) == Sanitized(items[j].row, override).user
             new == Written(items, chosen, override)
  <1>1. \A j \in chosen : items[j] \in Item
    OBVIOUS
  <1>2. ASSUME NEW j \in chosen PROVE Sanitized(items[j].row, override) \in Memory
    <2>1. items[j].row \in Memory BY <1>1 DEF Item
    <2>2. CASE override = None BY <2>1, <2>2 DEF Sanitized
    <2>3. CASE override # None
      <3>1. override \in Users BY <2>3
      <3>2. [items[j].row EXCEPT !.user = override] \in Memory BY <2>1, <3>1 DEF Memory
      <3>3. QED BY <2>3, <3>2 DEF Sanitized
    <2>4. QED BY <2>2, <2>3
  <1>3. ASSUME NEW m \in Places, mine(m) # {}
        PROVE  Max(mine(m)) \in chosen /\ items[Max(mine(m))].id = m
    <2>1. mine(m) \subseteq 1..Len(items) /\ 1..Len(items) \subseteq Nat /\ Len(items) \in Nat
      OBVIOUS
    <2>2. IsFiniteSet(1..Len(items)) BY <2>1, FS_Interval
    <2>3. IsFiniteSet(mine(m)) BY <2>1, <2>2, FS_Subset
    <2>4. Max(mine(m)) \in mine(m)
      <3> HIDE DEF mine
      <3>1. QED BY <1>3, <2>1, <2>3, GreatestIndex
    <2>5. QED BY <2>4
  <1>4. \A m \in Places : new[m] = IF mine(m) = {} THEN memory[m]
                                   ELSE Sanitized(items[Max(mine(m))].row, override)
    BY DEF Written
  <1>5. new = [m \in Places |-> new[m]] /\ DOMAIN new = Places BY DEF Written
  <1> HIDE DEF mine, new
  <1>6. ASSUME NEW m \in Places PROVE new[m] \in Memory \cup {NoMemory}
    <2>1. CASE mine(m) = {} BY <1>4, <2>1 DEF ProfileTypeOK
    <2>2. CASE mine(m) # {} BY <1>2, <1>3, <1>4, <2>2
    <2>3. QED BY <2>1, <2>2
  <1>7. new \in Tables BY <1>5, <1>6 DEF Tables
  <1>8. NewOwners(items, chosen, override) \subseteq Users
    BY <1>2 DEF NewOwners, Memory
  <1>9. ASSUME NEW u \in Users, u \notin OldOwners(items, chosen), u \notin NewOwners(items, chosen, override)
        PROVE  SameRows(memory, new, u)
    <2>1. ASSUME NEW m \in Places, memory[m].user = u \/ new[m].user = u PROVE new[m] = memory[m]
      <3>1. CASE mine(m) = {} BY <1>4, <3>1
      <3>2. CASE mine(m) # {}
        <4> DEFINE j == Max(mine(m))
        <4>1. j \in chosen /\ items[j].id = m BY <1>3, <3>2
        <4>2. new[m] = Sanitized(items[j].row, override) BY <1>4, <3>2
        <4> HIDE DEF j
        <4>3. new[m].user # u BY <1>9, <4>1, <4>2 DEF NewOwners
        <4>4. memory[m].user # u BY <1>9, <4>1 DEF OldOwners
        <4>5. QED BY <2>1, <4>3, <4>4
      <3>3. QED BY <3>1, <3>2
    <2>2. QED BY <2>1 DEF SameRows
  <1>10. QED BY <1>7, <1>8, <1>9 DEF new

LEMMA SnapshotKeeps ==
    ASSUME ProfileInv, NEW items \in Seq(Item), NEW overwrite \in BOOLEAN,
           NEW override \in Users \cup {None}, ImportSnapshot(items, overwrite, override)
    PROVE  ProfileStep
  <1> DEFINE chosen == Candidates(items, overwrite)
             owners == NewOwners(items, chosen, override)
  <1>1. ProfileTypeOK BY DEF ProfileInv
  <1>2. chosen \in SUBSET DOMAIN items BY DEF Candidates, Requested
  <1>3. /\ memory' = Written(items, chosen, override)
        /\ profile' = Recompute(owners, memory')
        /\ behind' = (behind \cup OldOwners(items, chosen)) \ owners
        /\ UNCHANGED <<rules, drifts, capturing>>
    BY DEF ImportSnapshot
  <1> HIDE DEF chosen
  <1>4. /\ Written(items, chosen, override) \in Tables
        /\ NewOwners(items, chosen, override) \subseteq Users
        /\ \A u \in Users \ (OldOwners(items, chosen) \cup NewOwners(items, chosen, override)) :
               SameRows(memory, Written(items, chosen, override), u)
    BY <1>1, <1>2, WrittenRows
  <1>5. memory' \in Tables BY <1>3, <1>4
  <1> HIDE DEF owners
  <1>6. /\ profile' \in [Users -> Profile \cup {NoProfile}]
        /\ \A u \in Users : FitHints(profile'[u].hints)
        /\ \A u \in owners \cap Users : profile'[u] \in Profile /\ profile'[u].view = Projection(memory', u)
        /\ \A u \in Users \ owners : profile'[u] = profile[u]
        /\ \A u \in Users : ~NeedsOnboarding(u) => Contains(profile'[u].hints, Onboarded)
    BY <1>1, <1>3, <1>5, RecomputeTyped
  <1>7. ASSUME NEW u \in Users PROVE Explained(u)
    <2>1. CASE u \in owners BY <1>6, <2>1 DEF Explained
    <2>2. CASE u \notin owners /\ u \in OldOwners(items, chosen) BY <1>3, <2>2 DEF Explained
    <2>3. CASE u \notin owners /\ u \notin OldOwners(items, chosen)
      <3>1. SameRows(memory, memory', u) BY <1>3, <1>4, <2>3 DEF owners
      <3>2. profile'[u] = profile[u] BY <1>6, <2>3
      <3>3. u \in behind' \/ u \notin behind BY <1>3, <2>3
      <3>4. QED BY <3>1, <3>2, <3>3 DEF Explained
    <2>4. QED BY <2>1, <2>2, <2>3
  <1>8. ProfileCurrent' BY <1>7, CurrentKept
  <1>9. ProfileTypeOK'
    <2>1. behind' \subseteq Users BY <1>1, <1>3 DEF OldOwners, ProfileTypeOK
    <2>2. QED BY <1>1, <1>3, <1>5, <1>6, <2>1 DEF ProfileTypeOK, Tables
  <1>10. Remembers BY <1>6 DEF Remembers, NeedsOnboarding
  <1>11. QED BY <1>8, <1>9, <1>10 DEF ProfileStep, ProfileInv

LEMMA SnapshotFailureKeeps ==
    ASSUME ProfileInv, NEW items \in Seq(Item), NEW overwrite \in BOOLEAN,
           NEW override \in Users \cup {None}, ImportSnapshotFails(items, overwrite, override)
    PROVE  ProfileStep
  <1> DEFINE clashes == Clashes(items, Candidates(items, overwrite))
             chosen == {j \in Candidates(items, overwrite) : \A i \in clashes : j < i}
  <1>1. ProfileTypeOK BY DEF ProfileInv
  <1>2. chosen \in SUBSET DOMAIN items BY DEF Candidates, Requested
  <1>3. /\ memory' = Written(items, chosen, override)
        /\ profile' = profile
        /\ behind' = behind \cup OldOwners(items, chosen) \cup NewOwners(items, chosen, override)
        /\ UNCHANGED <<rules, drifts, capturing>>
    BY DEF ImportSnapshotFails
  <1> HIDE DEF chosen
  <1>4. /\ Written(items, chosen, override) \in Tables
        /\ NewOwners(items, chosen, override) \subseteq Users
        /\ \A u \in Users \ (OldOwners(items, chosen) \cup NewOwners(items, chosen, override)) :
               SameRows(memory, Written(items, chosen, override), u)
    BY <1>1, <1>2, WrittenRows
  <1>5. memory' \in Tables BY <1>3, <1>4
  <1>6. behind \subseteq behind' /\ behind' \subseteq Users
    BY <1>1, <1>3, <1>4 DEF OldOwners, ProfileTypeOK
  <1>7. \A u \in Users \ behind' : SameRows(memory, memory', u)
    BY <1>3, <1>4
  <1>8. /\ rules' \in [Users -> BoundedSeq(Statements, MaxRules)]
        /\ drifts' \subseteq Users \X Keys /\ capturing' \subseteq Users
    BY <1>1, <1>3 DEF ProfileTypeOK
  <1>9. QED BY <1>3, <1>5, <1>6, <1>7, <1>8, OtherStep

LEMMA ProfileStarts == ProfileInit => ProfileInv
  <1> SUFFICES ASSUME ProfileInit PROVE ProfileInv
    OBVIOUS
  <1>1. ProfileTypeOK
    <2>1. rules \in [Users -> BoundedSeq(Statements, MaxRules)]
      <3>1. <<>> \in [1..0 -> Statements] OBVIOUS
      <3>2. 0 \in 0..MaxRules BY ProfileAssumption
      <3>3. <<>> \in BoundedSeq(Statements, MaxRules) BY <3>1, <3>2 DEF BoundedSeq, SeqOf
      <3>4. QED BY <3>3 DEF ProfileInit
    <2>2. FitHints(NoProfile.hints)
      <3>1. NoProfile.hints = <<>> /\ Len(<<>>) = 0 BY DEF NoProfile
      <3>2. QED BY <3>1, ProfileAssumption DEF FitHints
    <2>3. QED BY <2>1, <2>2 DEF ProfileInit, ProfileTypeOK
  <1>2. ProfileCurrent
    BY ProfileAssumption DEF ProfileInit, ProfileCurrent, NoMemory
  <1>3. QED BY <1>1, <1>2 DEF ProfileInv

LEMMA ProfileStepKeeps == ProfileInv /\ [ProfileNext]_profileVars => ProfileStep
  <1> SUFFICES ASSUME ProfileInv, [ProfileNext]_profileVars PROVE ProfileStep
    OBVIOUS
  <1>1. ASSUME NEW m \in Places, NEW item \in NewRows,
               Store(m, item) \/ Capture(m, item) \/ InsertOnly(m, item)
        PROVE  ProfileStep
    BY <1>1, StoreKeeps, CaptureKeeps
  <1>2. ASSUME NEW ms \in SUBSET Places, Restore(ms) \/ RestoreFails(ms) PROVE ProfileStep
    BY <1>2, RestoreKeeps
  <1>3. ASSUME NEW u \in Users, NEW ms \in SUBSET Places \ {{}}, NEW answers \in [ms -> NewRows],
               Onboard(u, answers)
        PROVE  ProfileStep
    BY <1>3, OnboardKeeps
  <1>4. ASSUME NEW u \in Users,
               Read(u) \/ OnboardWithoutAnswers(u) \/ CaptureEnds(u) \/ CaptureFails(u) \/ SessionEnds(u)
        PROVE  ProfileStep
    BY <1>4, ReadKeeps, OnboardWithoutAnswersKeeps, QuietKeeps
  <1>5. CASE Restart \/ UNCHANGED profileVars
    <2>1. ProfileTypeOK /\ memory' = memory /\ profile' = profile /\ behind' = behind
      BY <1>5 DEF ProfileInv, Restart, profileVars
    <2>2. memory' \in Tables BY <2>1 DEF ProfileTypeOK, Tables
    <2>3. \A user \in Users \ behind' : SameRows(memory, memory', user) BY <2>1, RowsStay
    <2>4. /\ rules' \in [Users -> BoundedSeq(Statements, MaxRules)]
          /\ drifts' \subseteq Users \X Keys /\ capturing' \subseteq Users
      BY <1>5, <2>1 DEF Restart, profileVars, ProfileTypeOK
    <2>5. behind \subseteq behind' /\ behind' \subseteq Users BY <2>1 DEF ProfileTypeOK
    <2>6. QED BY <2>1, <2>2, <2>3, <2>4, <2>5, OtherStep
  <1>6. ASSUME NEW m \in Places, ArchivedElsewhere(m) \/ \E value \in Values : Update(m, value)
        PROVE  ProfileStep
    BY <1>6, EditKeeps
  <1>7. ASSUME NEW u \in Users, NEW statements \in BoundedSeq(Statements, MaxRules),
               RulesChange(u, statements)
        PROVE  ProfileStep
    BY <1>7, QuietKeeps
  <1>8. ASSUME NEW items \in Seq(Item), NEW overwrite \in BOOLEAN, NEW override \in Users \cup {None},
               \/ ImportSnapshot(items, overwrite, override)
               \/ ImportSnapshotFails(items, overwrite, override)
        PROVE  ProfileStep
    BY <1>8, SnapshotKeeps, SnapshotFailureKeeps
  <1>9. ASSUME NEW u \in Users, NEW note \in [key : Keys, value : Values], NEW m \in Places,
               ImportNote(u, note, m)
        PROVE  ProfileStep
    BY <1>9, NoteKeeps
  <1>10. QED
    BY <1>1, <1>2, <1>3, <1>4, <1>5, <1>6, <1>7, <1>8, <1>9, Zenon DEF ProfileNext

LEMMA ProfileInvariant == ProfileSpec => []ProfileInv
  <1>1. ProfileInv /\ [ProfileNext]_profileVars => ProfileInv'
    BY ProfileStepKeeps DEF ProfileStep
  <1> QED BY <1>1, ProfileStarts, PTL DEF ProfileSpec

\* However stores, captures, edits, passes, restores, imports and ends of
\* sessions interleave (core/profile/projection.ts): a user's projected profile
\* says what the user's memories say, unless a writer that does not project, or
\* one that failed before it did, came since.
THEOREM ProfilesCurrent == ProfileSpec => []ProfileCurrent
  <1>1. ProfileInv => ProfileCurrent
    BY DEF ProfileInv
  <1> QED BY <1>1, ProfileInvariant, PTL

\* No writer, and no number of rules competing for the hints, makes the engine
\* ask a user again who has been through the onboarding (core/profile/onboarding.ts).
THEOREM OnboardedForGood == ProfileSpec => OnboardedOnce
  <1>1. ProfileInv /\ [ProfileNext]_profileVars
          => [\A u \in Users : ~NeedsOnboarding(u) => ~NeedsOnboarding(u)']_profileVars
    BY ProfileStepKeeps DEF ProfileStep, Remembers
  <1> QED BY <1>1, ProfileInvariant, PTL DEF ProfileSpec, OnboardedOnce
-----------------------------------------------------------------------------
(***************************************************************************)
(* Tuned parameters.  An entry in force is a rung of its parameter's       *)
(* ladder that no other entry in force stands on, so that there are no     *)
(* more of them than rungs, and the window holds the whole log.            *)
(***************************************************************************)
Rungs(ks) == {p \in ks \X Nat : p[2] # 0 /\ p[2] <= Top[p[1]]}

LEMMA RungsOfOne ==
    ASSUME NEW T \in SUBSET Parameters, NEW k \in T, IsFiniteSet(Rungs(T \ {k}))
    PROVE  /\ IsFiniteSet(Rungs(T))
           /\ Cardinality(Rungs(T)) = Top[k] + Cardinality(Rungs(T \ {k}))
  <1> DEFINE own == {k} \X (1..Top[k])
             rest == Rungs(T \ {k})
  <1>1. k \in Parameters /\ Top[k] \in Nat BY WindowAssumption
  <1>2. IsFiniteSet({k}) /\ Cardinality({k}) = 1 BY FS_Singleton
  <1>3. IsFiniteSet(1..Top[k]) /\ Cardinality(1..Top[k]) = Top[k]
    <2>1. \A n \in Nat : 1 \in Int /\ n \in Int OBVIOUS
    <2>2. \A n \in Nat : IsFiniteSet(1..n) BY <2>1, FS_Interval
    <2>3. \A n \in Nat : Cardinality(1..n) = IF 1 > n THEN 0 ELSE n - 1 + 1 BY <2>1, FS_Interval
    <2>4. \A n \in Nat : Cardinality(1..n) = n BY <2>3
    <2>5. QED BY <1>1, <2>2, <2>4
  <1>4. IsFiniteSet(own) /\ Cardinality(own) = Cardinality({k}) * Cardinality(1..Top[k])
    BY <1>2, <1>3, FS_Product
  <1>5. Cardinality(own) = Top[k] BY <1>1, <1>2, <1>3, <1>4
  <1>6. Rungs(T) = own \cup rest
    BY <1>1 DEF Rungs
  <1>7. own \cap rest = {}
    BY DEF Rungs
  <1> HIDE DEF own, rest
  <1>8. /\ IsFiniteSet(own \cup rest)
        /\ Cardinality(own \cup rest) = Cardinality(own) + Cardinality(rest) - Cardinality(own \cap rest)
    BY <1>4, FS_Union DEF rest
  <1>9. Cardinality(own \cap rest) = 0 BY <1>7, FS_EmptySet
  <1>10. Cardinality(rest) \in Nat BY FS_CardinalityType DEF rest
  <1>11. QED BY <1>1, <1>5, <1>6, <1>8, <1>9, <1>10 DEF rest

\* What the assumption on the window sums up is the number of rungs.
LEMMA RungsCounted ==
    /\ IsFiniteSet(Rungs(Parameters))
    /\ Cardinality(Rungs(Parameters)) + MaxReverts <= Window
  <1> DEFINE total == MapThenSumSet(LAMBDA k : Top[k], Parameters)
             pick(T) == CHOOSE x \in T : TRUE
             Step(T, f) == IF T = {} THEN 0 ELSE Top[pick(T)] + f[T \ {pick(T)}]
             iter == CHOOSE f : f = [T \in SUBSET Parameters |-> Step(T, f)]
             ch == [T \in SUBSET Parameters |-> pick(T)]
             G == [xa \in Parameters \X Nat |-> Top[xa[1]] + xa[2]]
  <1>1. total = iter[Parameters]
    BY Zenon DEF MapThenSumSet, MapThenFoldSet
  <1>2. \A T : T # {} => pick(T) \in T OBVIOUS
  <1>3. IsFiniteSet(Parameters) /\ Top \in [Parameters -> Nat] BY WindowAssumption
  <1> HIDE DEF total, pick
  <1>4. \E f : f = [T \in SUBSET Parameters |-> Step(T, f)]
    <2>1. \A x \in Parameters, a \in Nat : G[<<x, a>>] = Top[x] + a /\ G[<<x, a>>] \in Nat
      BY <1>3
    <2>2. \A T \in SUBSET Parameters : T # {} => ch[T] \in T BY <1>2
    <2>3. \A T \in SUBSET Parameters : ch[T] = pick(T) OBVIOUS
    <2> HIDE DEF ch, G
    <2>4. Foldable(Parameters, Nat, 0, ch, G) BY <1>3, <2>1, <2>2 DEF Foldable
    <2>5. PICK f : FoldedBy(f, Parameters, Nat, 0, ch, G) BY <2>4, FoldExists
    <2>6. ASSUME NEW T \in SUBSET Parameters PROVE f[T] = Step(T, f)
      <3>1. CASE T = {} BY <2>5, <3>1 DEF FoldedBy
      <3>2. CASE T # {}
        <4>1. pick(T) \in Parameters /\ T \ {pick(T)} \in SUBSET Parameters BY <1>2, <3>2
        <4>2. f[T \ {pick(T)}] \in Nat BY <2>5, <4>1 DEF FoldedBy
        <4>3. f[T] = G[<<pick(T), f[T \ {pick(T)}]>>] BY <2>3, <2>5, <3>2 DEF FoldedBy
        <4>4. QED BY <2>1, <3>2, <4>1, <4>2, <4>3
      <3>3. QED BY <3>1, <3>2
    <2> HIDE DEF Step
    <2>7. f = [T \in SUBSET Parameters |-> Step(T, f)] BY <2>5, <2>6 DEF FoldedBy
    <2>8. QED BY <2>7
  <1>5. iter = [T \in SUBSET Parameters |-> Step(T, iter)]
    <2> HIDE DEF Step
    <2>1. QED BY <1>4
  <1> HIDE DEF iter
  <1> DEFINE P == {T \in SUBSET Parameters : IsFiniteSet(Rungs(T)) /\ iter[T] = Cardinality(Rungs(T))}
  <1>6. {} \in P
    <2>1. Rungs({}) = {} BY DEF Rungs
    <2>2. IsFiniteSet({}) /\ Cardinality({}) = 0 BY FS_EmptySet
    <2>3. iter[{}] = 0 BY <1>5
    <2>4. QED BY <2>1, <2>2, <2>3
  <1>7. ASSUME NEW T \in SUBSET Parameters, T # {}, \A x \in T : T \ {x} \in P PROVE T \in P
    <2>1. pick(T) \in T BY <1>2, <1>7
    <2>2. IsFiniteSet(Rungs(T \ {pick(T)})) /\ iter[T \ {pick(T)}] = Cardinality(Rungs(T \ {pick(T)}))
      BY <1>7, <2>1
    <2>3. iter[T] = Top[pick(T)] + iter[T \ {pick(T)}] BY <1>5, <1>7
    <2>4. /\ IsFiniteSet(Rungs(T))
          /\ Cardinality(Rungs(T)) = Top[pick(T)] + Cardinality(Rungs(T \ {pick(T)}))
      BY <2>1, <2>2, RungsOfOne
    <2>5. QED BY <2>2, <2>3, <2>4
  <1> HIDE DEF P
  <1>8. \A T \in SUBSET Parameters : T \in P BY <1>3, <1>6, <1>7, SubsetInduction
  <1>9. IsFiniteSet(Rungs(Parameters)) /\ total = Cardinality(Rungs(Parameters)) BY <1>1, <1>8 DEF P
  <1>10. total + MaxReverts <= Window BY Zenon, WindowAssumption DEF total
  <1>11. QED BY <1>9, <1>10

\* Entries of one parameter that are in force climb its ladder, in the order
\* in which they were written.
Climbing(entries) ==
    \A k \in Parameters : \A i \in InForce(entries, k) : \A j \in InForce(entries, k) :
        i < j => entries[i].level < entries[j].level

OnLadder(entries) ==
    \A k \in Parameters : \A i \in InForce(entries, k) :
        entries[i].level # 0 /\ entries[i].level <= Top[k]

Kept(entries) ==
    /\ entries \in Seq(Entry)
    /\ Climbing(entries)
    /\ OnLadder(entries)
    /\ Cardinality(Reverted(entries)) <= MaxReverts

\* No entry in force is above the value in memory.
NoneAbove == \A k \in Parameters : \A i \in InForce(log, k) : log[i].level <= param[k]

EvolutionInv == EvolutionTypeOK /\ Kept(log) /\ NoneAbove /\ ParametersSurvive

LEMMA EntriesFinite ==
    ASSUME NEW entries \in Seq(Entry)
    PROVE  /\ DOMAIN entries = 1..Len(entries) /\ Len(entries) \in Nat
           /\ IsFiniteSet(DOMAIN entries) /\ Cardinality(DOMAIN entries) = Len(entries)
           /\ \A T \in SUBSET DOMAIN entries : IsFiniteSet(T) /\ Cardinality(T) \in Nat
  <1>1. DOMAIN entries = 1..Len(entries) /\ Len(entries) \in Nat OBVIOUS
  <1>2. \A n \in Nat : 1 \in Int /\ n \in Int OBVIOUS
  <1>3. \A n \in Nat : IsFiniteSet(1..n) BY <1>2, FS_Interval
  <1>4. \A n \in Nat : Cardinality(1..n) = IF 1 > n THEN 0 ELSE n - 1 + 1 BY <1>2, FS_Interval
  <1>5. \A n \in Nat : Cardinality(1..n) = n BY <1>4
  <1>6. IsFiniteSet(DOMAIN entries) /\ Cardinality(DOMAIN entries) = Len(entries)
    BY <1>1, <1>3, <1>5
  <1>7. \A T \in SUBSET DOMAIN entries : IsFiniteSet(T) BY <1>6, FS_Subset
  <1>8. \A T \in SUBSET DOMAIN entries : Cardinality(T) \in Nat BY <1>7, FS_CardinalityType
  <1>9. QED BY <1>1, <1>6, <1>7, <1>8

\* The window holds the log.
LEMMA WindowHolds ==
    ASSUME NEW entries, Kept(entries)
    PROVE  Recent(entries) = DOMAIN entries
  <1> DEFINE active == DOMAIN entries \ Reverted(entries)
             rung == [i \in active |-> <<entries[i].key, entries[i].level>>]
  <1>1. entries \in Seq(Entry) BY DEF Kept
  <1>2. \A i \in DOMAIN entries : entries[i] \in Entry BY <1>1
  <1>3. \A i \in active : entries[i].key \in Parameters /\ i \in InForce(entries, entries[i].key)
    BY <1>2 DEF Entry, InForce, Reverted
  <1>4. \A i \in active : rung[i] \in Rungs(Parameters)
    <2>1. SUFFICES ASSUME NEW i \in active PROVE rung[i] \in Rungs(Parameters) OBVIOUS
    <2>2. entries[i].level # 0 /\ entries[i].level <= Top[entries[i].key]
      BY <1>3, <2>1 DEF Kept, OnLadder
    <2>3. entries[i].key \in Parameters /\ entries[i].level \in Nat BY <1>2, <2>1 DEF Entry
    <2>4. QED BY <2>1, <2>2, <2>3 DEF Rungs
  <1>5. ASSUME NEW i \in active, NEW j \in active, rung[i] = rung[j] PROVE i = j
    <2>1. entries[i].key = entries[j].key /\ entries[i].level = entries[j].level BY <1>5
    <2>2. i \in Nat /\ j \in Nat BY <1>1
    <2>3. \A a \in active, b \in active :
            entries[a].key = entries[b].key /\ a < b => entries[a].level < entries[b].level
      BY <1>3 DEF Kept, Climbing
    <2>4. entries[i].level \in Nat /\ entries[j].level \in Nat BY <1>2 DEF Entry
    <2>5. ~(i < j) BY <1>5, <2>1, <2>3, <2>4
    <2>6. ~(j < i) BY <1>5, <2>1, <2>3, <2>4
    <2>7. QED BY <2>2, <2>5, <2>6
  <1>6. rung \in [active -> Rungs(Parameters)] BY <1>4
  <1>7. rung \in Injection(active, Rungs(Parameters))
    BY <1>5, <1>6 DEF Injection, IsInjective
  <1> HIDE DEF rung
  <1>8. Cardinality(active) <= Cardinality(Rungs(Parameters))
    BY <1>7, RungsCounted, FS_Injection
  <1>9. Reverted(entries) \in SUBSET DOMAIN entries /\ active \in SUBSET DOMAIN entries
    BY DEF Reverted
  <1>10. /\ IsFiniteSet(active) /\ IsFiniteSet(Reverted(entries))
         /\ Cardinality(active) \in Nat /\ Cardinality(Reverted(entries)) \in Nat
    BY <1>1, <1>9, EntriesFinite
  <1>11. active \cup Reverted(entries) = DOMAIN entries /\ active \cap Reverted(entries) = {}
    BY <1>9
  <1> HIDE DEF active
  <1>12. Cardinality(active \cup Reverted(entries))
           = Cardinality(active) + Cardinality(Reverted(entries)) - Cardinality(active \cap Reverted(entries))
    BY <1>10, FS_Union
  <1>13. Cardinality(active \cap Reverted(entries)) = 0 BY <1>11, FS_EmptySet
  <1>14. Cardinality(DOMAIN entries) = Len(entries) /\ Len(entries) \in Nat /\ DOMAIN entries = 1..Len(entries)
    BY <1>1, EntriesFinite
  <1>15. Cardinality(Reverted(entries)) <= MaxReverts BY DEF Kept
  <1>16. Cardinality(Rungs(Parameters)) + MaxReverts <= Window BY RungsCounted
  <1>17. Cardinality(Rungs(Parameters)) \in Nat BY RungsCounted, FS_CardinalityType
  <1>18. MaxReverts \in Nat /\ Window \in Nat BY WindowAssumption
  <1>19. Len(entries) = Cardinality(active) + Cardinality(Reverted(entries))
    <2>1. Cardinality(active \cup Reverted(entries)) = Len(entries) BY <1>11, <1>14
    <2>2. QED BY <1>10, <1>12, <1>13, <2>1
  <1>20. Len(entries) <= Window
    BY <1>8, <1>10, <1>14, <1>15, <1>16, <1>17, <1>18, <1>19
  <1>21. QED BY <1>14, <1>18, <1>20 DEF Recent

\* What is read back of a parameter is its last entry in force.
LEMMA ReadsBack ==
    ASSUME NEW entries, Kept(entries), NEW k \in Parameters
    PROVE  /\ InForce(entries, k) = {} => Restored(entries)[k] = 0
           /\ \A i \in InForce(entries, k) :
                (\A j \in InForce(entries, k) : j <= i) => Restored(entries)[k] = entries[i].level
           /\ InForce(entries, k) # {} =>
                \E i \in InForce(entries, k) : \A j \in InForce(entries, k) : j <= i
  <1> DEFINE mine == InForce(entries, k)
  <1>1. entries \in Seq(Entry) BY DEF Kept
  <1>2. mine \in SUBSET DOMAIN entries BY DEF InForce
  <1>3. IsFiniteSet(mine) BY <1>1, <1>2, EntriesFinite
  <1>4. mine \subseteq Nat BY <1>1, <1>2
  <1>5. mine \cap Recent(entries) = mine BY <1>2, WindowHolds
  <1>6. Restored(entries)[k] = NewestOf(entries, mine) BY <1>5 DEF Restored
  <1> HIDE DEF mine
  <1>7. mine = {} => Restored(entries)[k] = 0 BY <1>6 DEF NewestOf
  <1>8. ASSUME NEW i \in mine, \A j \in mine : j <= i PROVE Restored(entries)[k] = entries[i].level
    <2>1. Max(mine) \in mine /\ \A j \in mine : j <= Max(mine) BY <1>8 DEF Max
    <2>2. i <= Max(mine) /\ Max(mine) <= i /\ i \in Nat /\ Max(mine) \in Nat BY <1>4, <1>8, <2>1
    <2>3. Max(mine) = i BY <2>2
    <2>4. QED BY <1>6, <1>8, <2>3 DEF NewestOf
  <1>9. mine # {} => \E i \in mine : \A j \in mine : j <= i BY <1>3, <1>4, GreatestNatural
  <1>10. QED BY <1>7, <1>8, <1>9 DEF mine

\* A value that is read back is on the ladder, and no entry is above it.
LEMMA ReadBackFits ==
    ASSUME NEW entries, Kept(entries)
    PROVE  /\ Restored(entries) \in [Parameters -> Nat]
           /\ \A k \in Parameters : Restored(entries)[k] <= Top[k]
           /\ \A k \in Parameters : \A i \in InForce(entries, k) :
                entries[i].level <= Restored(entries)[k]
  <1>1. \A k \in Parameters : Top[k] \in Nat BY WindowAssumption
  <1>2. \A k \in Parameters : \A i \in InForce(entries, k) :
          i \in Nat /\ entries[i].level \in Nat
    <2>1. entries \in Seq(Entry) BY DEF Kept
    <2>2. \A i \in DOMAIN entries : i \in Nat /\ entries[i] \in Entry BY <2>1
    <2>3. QED BY <2>2 DEF InForce, Entry
  <1>3. ASSUME NEW k \in Parameters
        PROVE  /\ Restored(entries)[k] \in Nat /\ Restored(entries)[k] <= Top[k]
               /\ \A i \in InForce(entries, k) : entries[i].level <= Restored(entries)[k]
    <2>1. CASE InForce(entries, k) = {}
      <3>1. Restored(entries)[k] = 0 BY <2>1, ReadsBack
      <3>2. QED BY <1>1, <2>1, <3>1
    <2>2. CASE InForce(entries, k) # {}
      <3>1. PICK i \in InForce(entries, k) : \A j \in InForce(entries, k) : j <= i
        BY <2>2, ReadsBack
      <3>2. Restored(entries)[k] = entries[i].level BY <3>1, ReadsBack
      <3>3. entries[i].level <= Top[k] BY DEF Kept, OnLadder
      <3>4. ASSUME NEW j \in InForce(entries, k) PROVE entries[j].level <= entries[i].level
        <4>1. j < i \/ j = i BY <1>2, <3>1
        <4>2. j < i => entries[j].level < entries[i].level BY DEF Kept, Climbing
        <4>3. QED BY <1>2, <4>1, <4>2
      <3>5. QED BY <1>2, <3>2, <3>3, <3>4
    <2>3. QED BY <2>1, <2>2
  <1>4. Restored(entries) \in [Parameters -> Nat] BY <1>3 DEF Restored
  <1>5. QED BY <1>3, <1>4

\* A set of parameters is written out with each of them once.
LEMMA WrittenOut ==
    ASSUME NEW ks \in SUBSET Parameters
    PROVE  LET order == SetToSeq(ks) IN
             /\ order \in Seq(Parameters)
             /\ \A i \in DOMAIN order : order[i] \in ks
             /\ \A i \in DOMAIN order : \A j \in DOMAIN order : order[i] = order[j] => i = j
             /\ \A k \in ks : \E i \in DOMAIN order : order[i] = k
  <1> DEFINE n == Cardinality(ks)
             order == SetToSeq(ks)
  <1>1. IsFiniteSet(ks) BY WindowAssumption, FS_Subset
  <1>2. n \in Nat /\ ExistsBijection(1..n, ks) BY <1>1, FS_CardinalityType
  <1>3. \E f \in [1..n -> ks] : IsInjective(f)
    BY <1>2 DEF ExistsBijection, Bijection, Injection
  <1>4. order = CHOOSE f \in [1..n -> ks] : IsInjective(f)
    BY Zenon DEF SetToSeq
  <1> HIDE DEF order
  <1>5. order \in [1..n -> ks] /\ IsInjective(order) BY Zenon, <1>3, <1>4
  <1>6. order \in Injection(1..n, ks) BY <1>5 DEF Injection
  <1>7. Cardinality(1..n) = n
    <2>1. \A m \in Nat : 1 \in Int /\ m \in Int OBVIOUS
    <2>2. \A m \in Nat : Cardinality(1..m) = IF 1 > m THEN 0 ELSE m - 1 + 1 BY <2>1, FS_Interval
    <2>3. \A m \in Nat : Cardinality(1..m) = m BY <2>2
    <2>4. QED BY <1>2, <2>3
  <1> HIDE DEF n
  <1>8. Cardinality(1..n) = Cardinality(ks) BY <1>7 DEF n
  <1>9. order \in Surjection(1..n, ks) BY <1>1, <1>6, <1>8, FS_Injection
  <1>10. \A k \in ks : \E i \in 1..n : order[i] = k BY <1>9 DEF Surjection
  <1>11. DOMAIN order = 1..n BY <1>5
  <1>12. order \in Seq(Parameters) BY <1>2, <1>5
  <1>13. QED BY <1>5, <1>10, <1>11, <1>12 DEF order, IsInjective

LEMMA EvolutionStarts == EvolutionInit => EvolutionInv
  <1> SUFFICES ASSUME EvolutionInit PROVE EvolutionInv OBVIOUS
  <1>1. log = <<>> /\ param = [k \in Parameters |-> 0] /\ unlogged = {} /\ due = TRUE
    BY DEF EvolutionInit
  <1>2. \A k \in Parameters : Top[k] \in Nat BY WindowAssumption
  <1>3. EvolutionTypeOK BY <1>1, <1>2 DEF EvolutionTypeOK
  <1>4. \A k \in Parameters : InForce(log, k) = {} BY <1>1 DEF InForce
  <1>5. Kept(log)
    <2>1. Reverted(log) = {} BY <1>1 DEF Reverted
    <2>2. Cardinality(Reverted(log)) <= MaxReverts BY <2>1, FS_EmptySet, WindowAssumption
    <2>3. log \in Seq(Entry) BY <1>3 DEF EvolutionTypeOK
    <2>4. QED BY <1>4, <2>2, <2>3 DEF Kept, Climbing, OnLadder
  <1>6. NoneAbove BY <1>4 DEF NoneAbove
  <1>7. ParametersSurvive
    <2>1. \A k \in Parameters : Restored(log)[k] = 0 BY <1>4, <1>5, ReadsBack
    <2>2. QED BY <1>1, <2>1 DEF ParametersSurvive
  <1>8. QED BY <1>3, <1>5, <1>6, <1>7 DEF EvolutionInv

LEMMA ReadBackKeeps ==
    ASSUME EvolutionInv, RestoreFromLog
    PROVE  EvolutionInv'
  <1>1. /\ param' = Restored(log) /\ unlogged' = {} /\ due' = TRUE /\ log' = log
    BY DEF RestoreFromLog
  <1>2. Kept(log) BY DEF EvolutionInv
  <1>3. EvolutionTypeOK'
    <2>1. param' \in [Parameters -> Nat] /\ \A k \in Parameters : param'[k] <= Top[k]
      BY <1>1, <1>2, ReadBackFits
    <2>2. log' \in Seq(Entry) BY <1>1, <1>2 DEF Kept
    <2>3. QED BY <1>1, <2>1, <2>2 DEF EvolutionTypeOK
  <1>4. Kept(log)' BY <1>1, <1>2 DEF Kept, Climbing, OnLadder, Reverted, InForce
  <1>5. NoneAbove' BY <1>1, <1>2, ReadBackFits DEF NoneAbove, InForce
  <1>6. ParametersSurvive'
    <2>1. Restored(log)' = Restored(log) BY <1>1
    <2>2. QED BY <1>1, <2>1 DEF ParametersSurvive
  <1>7. QED BY <1>3, <1>4, <1>5, <1>6 DEF EvolutionInv

LEMMA RevertKeeps ==
    ASSUME EvolutionInv, NEW i \in DOMAIN log, Revert(i)
    PROVE  EvolutionInv'
  <1>1. /\ log' = [log EXCEPT ![i].active = FALSE]
        /\ param' = Restored(log') /\ unlogged' = {} /\ due' = due
        /\ log[i].active /\ Cardinality(Reverted(log)) < MaxReverts
    BY DEF Revert
  <1>2. log \in Seq(Entry) /\ Climbing(log) /\ OnLadder(log) BY DEF EvolutionInv, Kept
  <1>3. \A j \in DOMAIN log : log[j] \in Entry BY <1>2
  <1>4. /\ DOMAIN log' = DOMAIN log
        /\ \A j \in DOMAIN log : log'[j] = IF j = i THEN [log[j] EXCEPT !.active = FALSE] ELSE log[j]
    BY <1>1, <1>2
  <1>5. \A j \in DOMAIN log :
          /\ log'[j].key = log[j].key /\ log'[j].level = log[j].level
          /\ log'[j].active = (log[j].active /\ j # i)
          /\ log'[j] \in Entry
    BY <1>3, <1>4 DEF Entry
  <1>6. \A k \in Parameters : InForce(log', k) \in SUBSET InForce(log, k)
    BY <1>4, <1>5 DEF InForce
  <1>7. \A k \in Parameters : InForce(log, k) \in SUBSET DOMAIN log BY DEF InForce
  <1>8. Kept(log')
    <2>1. log' \in Seq(Entry)
      <3>1. \E n \in Nat : DOMAIN log = 1..n BY <1>2
      <3>2. log' = [j \in DOMAIN log |-> log'[j]] BY <1>1, <1>4
      <3>3. PICK n \in Nat : DOMAIN log = 1..n BY <3>1
      <3>4. log' \in [1..n -> Entry] BY <1>5, <3>2, <3>3
      <3>5. QED BY <3>4
    <2>2. Climbing(log') BY <1>2, <1>5, <1>6, <1>7 DEF Climbing
    <2>3. OnLadder(log') BY <1>2, <1>5, <1>6, <1>7 DEF OnLadder
    <2>4. Reverted(log') = Reverted(log) \cup {i} BY <1>4, <1>5 DEF Reverted
    <2>5. IsFiniteSet(Reverted(log)) /\ Cardinality(Reverted(log)) \in Nat
      BY <1>2, EntriesFinite DEF Reverted
    <2>6. i \notin Reverted(log) BY <1>1 DEF Reverted
    <2>7. Cardinality(Reverted(log) \cup {i}) = Cardinality(Reverted(log)) + 1
      BY <2>5, <2>6, FS_AddElement
    <2>8. Cardinality(Reverted(log')) <= MaxReverts
      <3>1. MaxReverts \in Nat BY WindowAssumption
      <3>2. Cardinality(Reverted(log')) = Cardinality(Reverted(log)) + 1 BY <2>4, <2>7
      <3>3. QED BY <1>1, <2>5, <3>1, <3>2
    <2>9. QED BY <2>1, <2>2, <2>3, <2>8 DEF Kept
  <1>9. EvolutionTypeOK'
    <2>1. param' \in [Parameters -> Nat] /\ \A k \in Parameters : param'[k] <= Top[k]
      BY <1>1, <1>8, ReadBackFits
    <2>2. log' \in Seq(Entry) BY <1>8 DEF Kept
    <2>3. due' \in BOOLEAN BY <1>1 DEF EvolutionInv, EvolutionTypeOK
    <2>4. QED BY <1>1, <2>1, <2>2, <2>3 DEF EvolutionTypeOK
  <1>10. Kept(log)' BY <1>8 DEF Kept, Climbing, OnLadder, Reverted, InForce
  <1>11. NoneAbove' BY <1>1, <1>8, ReadBackFits DEF NoneAbove, InForce
  <1>12. ParametersSurvive'
    <2>1. Restored(log)' = Restored(log') BY DEF Restored, InForce, Recent, NewestOf
    <2>2. QED BY <1>1, <2>1 DEF ParametersSurvive
  <1>13. QED BY <1>9, <1>10, <1>11, <1>12 DEF EvolutionInv

\* An evolution appends, for every parameter whose entry could be written, one
\* entry on the next rung.
LEMMA Appended ==
    ASSUME EvolutionInv, NEW written \in SUBSET Parameters, NEW entries, entries = Logged(written)
    PROVE  /\ entries \in Seq(Entry) /\ Len(log) \in Nat /\ Len(entries) \in Nat
           /\ DOMAIN log \subseteq DOMAIN entries
           /\ \A i \in DOMAIN log : entries[i] = log[i] /\ i <= Len(log)
           /\ \A i \in DOMAIN entries \ DOMAIN log :
                /\ i > Len(log) /\ entries[i].active /\ entries[i].key \in written
                /\ entries[i].level = param[entries[i].key] + 1
           /\ \A i \in DOMAIN entries \ DOMAIN log : \A j \in DOMAIN entries \ DOMAIN log :
                entries[i].key = entries[j].key => i = j
           /\ \A k \in written : \E i \in DOMAIN entries \ DOMAIN log : entries[i].key = k
  <1> DEFINE order == SetToSeq(written)
             new == Steps(order)
  <1>1. order \in Seq(Parameters)
    BY WrittenOut
  <1>2. \A i \in DOMAIN order : order[i] \in written BY WrittenOut
  <1>3. \A i \in DOMAIN order : \A j \in DOMAIN order : order[i] = order[j] => i = j BY WrittenOut
  <1>4. \A k \in written : \E i \in DOMAIN order : order[i] = k BY WrittenOut
  <1>5. entries = log \o new BY DEF Logged
  <1> HIDE DEF order
  <1>6. log \in Seq(Entry) /\ param \in [Parameters -> Nat]
    BY DEF EvolutionInv, EvolutionTypeOK
  <1>7. /\ DOMAIN new = DOMAIN order
        /\ \A i \in DOMAIN order :
             new[i] = [key |-> order[i], level |-> param[order[i]] + 1, active |-> TRUE]
    BY DEF Steps
  <1> HIDE DEF new
  <1>8. ASSUME NEW i \in DOMAIN order PROVE new[i] \in Entry
    <2>1. order[i] \in Parameters BY <1>2
    <2>2. param[order[i]] + 1 \in Nat BY <1>6, <2>1
    <2>3. [key |-> order[i], level |-> param[order[i]] + 1, active |-> TRUE] \in Entry
      BY <2>1, <2>2 DEF Entry
    <2>4. QED BY Zenon, <1>7, <2>3
  <1>9. new \in Seq(Entry) /\ Len(new) = Len(order) /\ Len(order) \in Nat /\ DOMAIN order = 1..Len(order)
    <2>1. Len(order) \in Nat /\ DOMAIN order = 1..Len(order) BY <1>1
    <2>2. new = [i \in DOMAIN order |-> new[i]]
      BY <1>7 DEF new, Steps
    <2>3. new \in [1..Len(order) -> Entry] BY <1>8, <2>1, <2>2
    <2>4. QED BY <2>1, <2>3
  <1>10. /\ entries \in Seq(Entry) /\ Len(log) \in Nat
         /\ DOMAIN log = 1..Len(log)
         /\ DOMAIN entries = 1..(Len(log) + Len(order))
         /\ \A i \in 1..Len(log) : entries[i] = log[i]
         /\ \A i \in 1..Len(order) : entries[Len(log) + i] = new[i]
    <2>1. log \in Seq(Entry) /\ new \in Seq(Entry) BY <1>6, <1>9
    <2>2. /\ log \o new \in Seq(Entry) /\ Len(log) \in Nat /\ Len(new) \in Nat
          /\ Len(log \o new) = Len(log) + Len(new)
          /\ DOMAIN log = 1..Len(log) /\ DOMAIN (log \o new) = 1..Len(log \o new)
      BY <2>1
    <2>3. \A i \in 1..Len(log) : (log \o new)[i] = log[i] BY <2>1
    <2>4. \A i \in 1..Len(new) : (log \o new)[Len(log) + i] = new[i] BY <2>1
    <2>5. Len(new) = Len(order) BY <1>9
    <2>6. QED BY <1>5, <2>2, <2>3, <2>4, <2>5
  <1>11. Len(entries) \in Nat BY <1>10
  <1>12. \A i \in DOMAIN entries \ DOMAIN log :
           /\ i > Len(log) /\ i - Len(log) \in DOMAIN order
           /\ entries[i] = new[i - Len(log)]
    <2>1. SUFFICES ASSUME NEW i \in DOMAIN entries \ DOMAIN log
                   PROVE  /\ i > Len(log) /\ i - Len(log) \in DOMAIN order
                          /\ entries[i] = new[i - Len(log)]
      OBVIOUS
    <2>2. i > Len(log) /\ i - Len(log) \in 1..Len(order) BY <1>9, <1>10
    <2>3. i = Len(log) + (i - Len(log)) BY <1>10
    <2>4. QED BY <1>9, <1>10, <2>2, <2>3
  <1>13. \A i \in DOMAIN entries \ DOMAIN log :
           /\ i > Len(log) /\ entries[i].active /\ entries[i].key \in written
           /\ entries[i].key = order[i - Len(log)]
           /\ entries[i].level = param[entries[i].key] + 1
    BY <1>2, <1>7, <1>12
  <1>14. ASSUME NEW i \in DOMAIN entries \ DOMAIN log, NEW j \in DOMAIN entries \ DOMAIN log,
                entries[i].key = entries[j].key
         PROVE  i = j
    <2>1. i - Len(log) = j - Len(log) BY <1>3, <1>12, <1>13, <1>14
    <2>2. QED BY <1>10, <2>1
  <1>15. ASSUME NEW k \in written
         PROVE  \E i \in DOMAIN entries \ DOMAIN log : entries[i].key = k
    <2>1. PICK i \in DOMAIN order : order[i] = k BY <1>4
    <2>2. Len(log) + i \in DOMAIN entries \ DOMAIN log BY <1>9, <1>10
    <2>3. entries[Len(log) + i].key = k BY <1>7, <1>9, <1>10, <2>1
    <2>4. QED BY <2>2, <2>3
  <1>16. /\ DOMAIN log \subseteq DOMAIN entries
         /\ \A i \in DOMAIN log : entries[i] = log[i] /\ i <= Len(log)
    BY <1>9, <1>10
  <1>17. QED BY <1>10, <1>11, <1>13, <1>14, <1>15, <1>16

LEMMA EvolveKeeps ==
    ASSUME EvolutionInv, NEW bad \in SUBSET Parameters, NEW written \in SUBSET bad, Evolve(bad, written)
    PROVE  EvolutionInv'
  <1> DEFINE moved == Moved(bad)
  <1>1. /\ written \subseteq moved
        /\ due' = FALSE
        /\ param' = Stepped(moved) /\ log' = Logged(written)
        /\ unlogged' = (unlogged \cup moved) \ written
    BY DEF Evolve
  <1>2. moved \subseteq Parameters /\ \A k \in moved : param[k] < Top[k]
    BY DEF Moved
  <1> HIDE DEF moved
  <1>3. /\ log \in Seq(Entry) /\ Climbing(log) /\ OnLadder(log)
        /\ Cardinality(Reverted(log)) <= MaxReverts
    BY DEF EvolutionInv, Kept
  <1>4. /\ param \in [Parameters -> Nat] /\ unlogged \subseteq Parameters
        /\ \A k \in Parameters : param[k] <= Top[k]
    BY DEF EvolutionInv, EvolutionTypeOK
  <1>5. \A k \in Parameters : Top[k] \in Nat BY WindowAssumption
  <1>6. \A k \in Parameters : param'[k] = IF k \in moved THEN param[k] + 1 ELSE param[k]
    BY <1>1 DEF Stepped
  <1>7. /\ log' \in Seq(Entry) /\ Len(log) \in Nat
        /\ DOMAIN log \subseteq DOMAIN log'
        /\ \A i \in DOMAIN log : log'[i] = log[i] /\ i <= Len(log)
    BY <1>1, Appended
  <1>8. \A i \in DOMAIN log' \ DOMAIN log :
          /\ i > Len(log) /\ log'[i].active /\ log'[i].key \in written
          /\ log'[i].level = param[log'[i].key] + 1
    BY <1>1, Appended
  <1>9. \A i \in DOMAIN log' \ DOMAIN log : \A j \in DOMAIN log' \ DOMAIN log :
          log'[i].key = log'[j].key => i = j
    BY <1>1, Appended
  <1>10. \A k \in written : \E i \in DOMAIN log' \ DOMAIN log : log'[i].key = k
    BY <1>1, Appended
  <1>11. /\ \A i \in DOMAIN log' : i \in Nat /\ log'[i].level \in Nat /\ log'[i].key \in Parameters
         /\ \A i \in DOMAIN log : i \in Nat /\ log[i].level \in Nat
    <2>1. \A i \in DOMAIN log' : i \in Nat /\ log'[i] \in Entry BY <1>7
    <2>2. \A i \in DOMAIN log : i \in Nat /\ log[i] \in Entry BY <1>3
    <2>3. QED BY <2>1, <2>2 DEF Entry
  \* The entries of a parameter that are in force are those from before and
  \* the one on the next rung, which is the last.
  <1>12. ASSUME NEW k \in Parameters, NEW i \in InForce(log', k)
         PROVE  \/ i \in InForce(log, k) /\ log'[i] = log[i] /\ i <= Len(log)
                \/ /\ i \in DOMAIN log' \ DOMAIN log /\ i > Len(log)
                   /\ k \in written /\ log'[i].level = param[k] + 1
    BY <1>7, <1>8 DEF InForce
  <1>13. \A k \in Parameters : InForce(log, k) \subseteq InForce(log', k)
    BY <1>7 DEF InForce
  <1>14. \A k \in Parameters : \A i \in InForce(log, k) :
           /\ log[i].level <= param[k] /\ log[i].level # 0 /\ log[i].level <= Top[k]
           /\ i \in DOMAIN log
    BY <1>3 DEF EvolutionInv, NoneAbove, OnLadder, InForce
  <1>15. Climbing(log')
    <2>1. SUFFICES ASSUME NEW k \in Parameters, NEW i \in InForce(log', k), NEW j \in InForce(log', k), i < j
                   PROVE  log'[i].level < log'[j].level
      BY DEF Climbing
    <2>2. CASE i \in InForce(log, k) /\ log'[i] = log[i] /\ i <= Len(log)
      <3>1. CASE j \in InForce(log, k) /\ log'[j] = log[j] /\ j <= Len(log)
        BY <1>3, <2>1, <2>2, <3>1 DEF Climbing
      <3>2. CASE log'[j].level = param[k] + 1
        BY <1>4, <1>11, <1>14, <2>2, <3>2
      <3>3. QED BY <1>12, <3>1, <3>2
    <2>3. CASE i \in DOMAIN log' \ DOMAIN log /\ i > Len(log)
      <3>1. j \in DOMAIN log' \ DOMAIN log
        <4>1. i \in Nat /\ j \in Nat BY <1>11 DEF InForce
        <4>2. ~(j <= Len(log)) BY <1>7, <2>1, <2>3, <4>1
        <4>3. QED BY <1>12, <4>2
      <3>2. log'[i].key = k /\ log'[j].key = k BY DEF InForce
      <3>3. i = j BY <1>9, <2>3, <3>1, <3>2
      <3>4. QED BY <1>11, <2>1, <2>3, <3>3
    <2>4. QED BY <1>12, <2>2, <2>3
  <1>16. OnLadder(log')
    <2>1. SUFFICES ASSUME NEW k \in Parameters, NEW i \in InForce(log', k)
                   PROVE  log'[i].level # 0 /\ log'[i].level <= Top[k]
      BY DEF OnLadder
    <2>2. CASE i \in InForce(log, k) /\ log'[i] = log[i]
      BY <1>14, <2>2
    <2>3. CASE k \in written /\ log'[i].level = param[k] + 1
      BY <1>1, <1>2, <1>4, <1>5, <2>3
    <2>4. QED BY <1>12, <2>2, <2>3
  <1>17. Reverted(log') = Reverted(log) BY <1>7, <1>8 DEF Reverted
  <1>18. Kept(log') BY <1>3, <1>7, <1>15, <1>16, <1>17 DEF Kept
  <1>19. EvolutionTypeOK'
    <2>1. param' \in [Parameters -> Nat] BY <1>1, <1>4 DEF Stepped
    <2>2. \A k \in Parameters : param'[k] <= Top[k] BY <1>2, <1>4, <1>5, <1>6
    <2>3. QED BY <1>1, <1>2, <1>4, <1>7, <2>1, <2>2 DEF EvolutionTypeOK
  <1>20. Kept(log)' BY <1>18 DEF Kept, Climbing, OnLadder, Reverted, InForce
  <1>21. NoneAbove'
    <2>1. SUFFICES ASSUME NEW k \in Parameters, NEW i \in InForce(log', k)
                   PROVE  log'[i].level <= param'[k]
      BY DEF NoneAbove, InForce
    <2>2. param[k] <= param'[k] /\ param[k] \in Nat /\ param'[k] \in Nat BY <1>4, <1>6
    <2>3. CASE i \in InForce(log, k) /\ log'[i] = log[i]
      BY <1>11, <1>14, <2>2, <2>3
    <2>4. CASE k \in written /\ log'[i].level = param[k] + 1
      BY <1>1, <1>4, <1>6, <2>4
    <2>5. QED BY <1>12, <2>3, <2>4
  <1>22. ParametersSurvive'
    <2>1. SUFFICES ASSUME NEW k \in Parameters \ unlogged'
                   PROVE  param'[k] = Restored(log')[k]
      <3>1. Restored(log)' = Restored(log') BY DEF Restored, InForce, Recent, NewestOf
      <3>2. QED BY <3>1 DEF ParametersSurvive
    <2>2. CASE k \in written
      <3>1. PICK i \in DOMAIN log' \ DOMAIN log : log'[i].key = k BY <1>10, <2>2
      <3>2. i \in InForce(log', k) /\ log'[i].level = param'[k]
        BY <1>1, <1>6, <1>8, <2>2, <3>1 DEF InForce
      <3>3. ASSUME NEW j \in InForce(log', k) PROVE j <= i
        <4>1. log'[j].key = k /\ j \in Nat /\ i \in Nat BY <1>11, <3>1 DEF InForce
        <4>2. CASE j <= Len(log) BY <1>7, <1>8, <3>1, <4>1, <4>2
        <4>3. CASE j \in DOMAIN log' \ DOMAIN log BY <1>9, <3>1, <4>1, <4>3
        <4>4. QED BY <1>12, <4>2, <4>3
      <3>4. QED BY <1>18, <3>2, <3>3, ReadsBack
    <2>3. CASE k \notin written
      <3>1. k \notin unlogged /\ k \notin moved BY <1>1, <2>3
      <3>2. param'[k] = Restored(log)[k]
        BY <1>6, <3>1 DEF EvolutionInv, ParametersSurvive
      <3>3. InForce(log', k) = InForce(log, k) BY <1>12, <1>13, <2>3
      <3>4. Kept(log) BY DEF EvolutionInv
      <3>5. CASE InForce(log, k) = {}
        BY <1>18, <3>2, <3>3, <3>4, <3>5, ReadsBack
      <3>6. CASE InForce(log, k) # {}
        <4>1. PICK i \in InForce(log, k) : \A j \in InForce(log, k) : j <= i
          BY <3>4, <3>6, ReadsBack
        <4>2. Restored(log)[k] = log[i].level BY <3>4, <4>1, ReadsBack
        <4>3. Restored(log')[k] = log'[i].level BY <1>18, <3>3, <4>1, ReadsBack
        <4>4. log'[i] = log[i] BY <1>7, <1>14
        <4>5. QED BY <3>2, <4>2, <4>3, <4>4
      <3>7. QED BY <3>5, <3>6
    <2>4. QED BY <2>2, <2>3
  <1>23. QED BY <1>19, <1>20, <1>21, <1>22 DEF EvolutionInv

LEMMA EvolutionStepKeeps == EvolutionInv /\ [EvolutionNext]_evolutionVars => EvolutionInv'
  <1> SUFFICES ASSUME EvolutionInv, [EvolutionNext]_evolutionVars PROVE EvolutionInv' OBVIOUS
  <1>1. ASSUME NEW bad \in SUBSET Parameters, NEW written \in SUBSET bad, Evolve(bad, written)
        PROVE  EvolutionInv'
    BY <1>1, EvolveKeeps
  <1>2. CASE param' = param /\ log' = log /\ unlogged' = unlogged /\ due' \in BOOLEAN
    <2>1. EvolutionTypeOK' BY <1>2 DEF EvolutionInv, EvolutionTypeOK
    <2>2. Kept(log)'
      BY <1>2 DEF EvolutionInv, Kept, Climbing, OnLadder, Reverted, InForce
    <2>3. NoneAbove' BY <1>2 DEF EvolutionInv, NoneAbove, InForce
    <2>4. ParametersSurvive'
      BY <1>2 DEF EvolutionInv, ParametersSurvive, Restored, InForce, Recent, NewestOf
    <2>5. QED BY <2>1, <2>2, <2>3, <2>4 DEF EvolutionInv
  <1>3. CASE DayPasses BY <1>2, <1>3 DEF DayPasses
  <1>4. CASE RestoreFromLog BY <1>4, ReadBackKeeps
  <1>5. ASSUME NEW i \in DOMAIN log, Revert(i) PROVE EvolutionInv'
    BY <1>5, RevertKeeps
  <1>6. CASE UNCHANGED evolutionVars
    BY <1>2, <1>6 DEF evolutionVars, EvolutionInv, EvolutionTypeOK
  <1>7. QED BY <1>1, <1>3, <1>4, <1>5, <1>6 DEF EvolutionNext

\* Whatever was moved, in whatever order the entries were written, reverted and
\* read back, and however often the process ended (core/butler/evolution): a
\* start finds every value whose last step could be logged, because the window
\* it reads holds every entry there can be.
THEOREM TuningSurvives == EvolutionSpec => []ParametersSurvive
  <1>1. EvolutionInv => ParametersSurvive BY DEF EvolutionInv
  <1> QED BY <1>1, EvolutionStarts, EvolutionStepKeeps, PTL DEF EvolutionSpec
=============================================================================
