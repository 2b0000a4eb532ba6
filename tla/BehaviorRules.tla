----------------------------- MODULE BehaviorRules -----------------------------
(***************************************************************************)
(* The behaviour rules: reflections on a session propose statements, which *)
(* are promoted to rules of a user or of everybody, applied, reviewed at   *)
(* every read, frozen, rolled back, demoted and expired.  Each operation   *)
(* is synchronous, so it is one action; a promotion is one transaction     *)
(* that works on rows it read before.                                      *)
(*                                                                         *)
(* A statement stands for its text with what the code derives from it:     *)
(* category (thresholds, priority), duration, what it contradicts.  Left   *)
(* out: channels, intent types and contexts of a rule, which no promotion  *)
(* of the session hooks sets, the decay of priorities by ten a read, the   *)
(* levels, the traces, and the fetch limits of 60, 200 and 20 rows.        *)
(***************************************************************************)
EXTENDS Naturals, Sequences, FiniteSets, SequencesExt

CONSTANTS
    Users,
    Everybody,      \* the user of a rule without one (applies_to_user_id IS NULL)
    Statements,
    Contradicts,    \* pairs <<s, t>>: one asks for the confirmation the other skips
    Unacceptable,   \* statements that are too short, too long or too vague
    Ephemeral,      \* statements about "this time" only
    RecurrenceFor,  \* [Statements -> Nat], what a promotion needs of its evidence
    ValidatedAt,    \* [Statements -> Nat], uses that make the rule validated
    Institutional,  \* uses that make a rule institutionalized
    StaleValidated, \* uses that keep a stale rule validated
    StaleAfter, ExpiredAfter, DemoteAfter, \* days
    RuleLimit,      \* rules one lookup applies
    AutoLimit,      \* rules one session's end promotes by itself
    Proposals,      \* the reflections that may arise, before their review
    MaxRules, MaxReflections, MaxDay       \* bounds of a run

ASSUME RulesAssumption ==
    /\ Everybody \notin Users
    /\ Contradicts \subseteq Statements \X Statements
    /\ \A pair \in Contradicts : <<pair[2], pair[1]>> \in Contradicts /\ pair[1] # pair[2]
    /\ Unacceptable \subseteq Statements /\ Ephemeral \subseteq Statements
    /\ RecurrenceFor \in [Statements -> Nat] /\ ValidatedAt \in [Statements -> Nat \ {0}]
    /\ {Institutional, StaleValidated, RuleLimit, AutoLimit} \subseteq Nat
    /\ StaleAfter \in Nat /\ DemoteAfter \in Nat /\ ExpiredAfter \in Nat
    /\ StaleAfter < ExpiredAfter
    /\ IsFiniteSet(Statements)
    /\ Proposals \subseteq [candidates : Seq(Statements), recurrence : Nat, confident : BOOLEAN, strong : BOOLEAN]
    /\ {MaxRules, MaxReflections, MaxDay} \subseteq Nat

Reasons == {"none", "conflict", "manual", "deprecated", "rollback", "expired", "session_expired"}
MaxUse == CHOOSE n \in {Institutional, StaleValidated} \cup {ValidatedAt[s] : s \in Statements} :
    \A m \in {Institutional, StaleValidated} \cup {ValidatedAt[s] : s \in Statements} : m <= n

VARIABLES
    rules,          \* the table behavior_rules, in the order of insertion
    reflections,    \* the table reflection_records, likewise
    today           \* the day

rulesVars == <<rules, reflections, today>>

Rule == [user : Users \cup {Everybody}, statement : Statements,
         active : BOOLEAN, deprecated : BOOLEAN, frozen : BOOLEAN, reason : Reasons,
         maturity : {"emerging", "validated", "institutionalized", "frozen"},
         uses : 0..MaxUse, created : 0..MaxDay,
         since : 0..MaxDay]     \* its last use, of a rule without one its last write

Reflection == [candidates : Seq(Statements), recurrence : Nat, confident : BOOLEAN, strong : BOOLEAN,
               state : {"pending", "promoted", "rejected"}]

RulesTypeOK ==
    /\ rules \in Seq(Rule) /\ Len(rules) <= MaxRules
    /\ reflections \in Seq(Reflection) /\ Len(reflections) <= MaxReflections
    /\ today \in 0..MaxDay

RulesInit == rules = <<>> /\ reflections = <<>> /\ today = 0

-----------------------------------------------------------------------------
(* The review of a rule that every read performs. *)

DeduceMaturity(uses, statement) ==
    IF uses >= Institutional THEN "institutionalized"
    ELSE IF uses >= ValidatedAt[statement] THEN "validated" ELSE "emerging"

Retired(r, reason) ==
    [r EXCEPT !.active = FALSE, !.deprecated = TRUE, !.reason = reason, !.maturity = "frozen"]

\* Inactivity is measured from the last use, else from the last write, which
\* every review is.
Idle(r) == today - r.since

Written(r) == IF r.uses = 0 THEN [r EXCEPT !.since = today] ELSE r

\* Mutant of Reviewed: a rule that is fresh again is active again.
ReviewedAfresh(r) == [Written(r) EXCEPT !.active = @ \/ Idle(r) < StaleAfter]

Reviewed(r) ==
    LET now == Written(r) IN
    IF r.reason = "conflict" THEN Retired(now, "conflict")
    ELSE IF Idle(r) >= ExpiredAfter
    THEN IF r.uses = 0 THEN Retired(now, IF r.reason = "none" THEN "expired" ELSE r.reason)
         ELSE [now EXCEPT !.maturity = IF r.reason = "rollback" THEN "frozen" ELSE "validated"]
    ELSE IF Idle(r) >= StaleAfter
    THEN [now EXCEPT !.maturity = IF r.reason = "rollback" THEN "frozen"
                                  ELSE IF r.uses >= StaleValidated THEN "validated" ELSE "emerging"]
    ELSE [now EXCEPT !.maturity = IF r.reason # "none" THEN "frozen"
                                  ELSE DeduceMaturity(r.uses, r.statement)]

Applied(r) ==
    LET used == [r EXCEPT !.uses = IF @ < MaxUse THEN @ + 1 ELSE @, !.since = today] IN Reviewed(used)

\* Freezing reviews the rule it has just retired.
Frozen(r, reason) == Reviewed(Retired(Written(r), reason))

Ids == DOMAIN rules
InForce(r) == r.active /\ ~r.deprecated /\ ~r.frozen
Concerns(r, user) == r.user \in {user, Everybody}

\* listActiveCandidates: whoever asks without a user is shown everybody's
\* only; the tool may ask for the rules that are not in force as well.
Shown(r, all) == all \/ InForce(r)
Listed(user, all) == {i \in Ids : Shown(rules[i], all) /\ Concerns(rules[i], user)}
ReadRows(ids) == [i \in Ids |-> IF i \in ids THEN Reviewed(rules[i]) ELSE rules[i]]

-----------------------------------------------------------------------------
(* Promotion of what a reflection proposes, for a user or for everybody. *)

MayContradict(s, t) == <<s, t>> \in Contradicts
Eligible(r) == r.active /\ ~r.deprecated

\* The rules the promotion knows: rows as they were read before it, which it
\* does not read again after freezing one, and what it has promoted itself.
Conflicting(known, s) == {i \in DOMAIN known : Eligible(known[i]) /\ MayContradict(s, known[i].statement)}
Duplicated(known, s) == \E i \in DOMAIN known : Eligible(known[i]) /\ known[i].statement = s

\* The one frozen is the first read; of several rivals the code takes that of
\* the highest priority, here one of them.
Foremost(ids) == CHOOSE i \in ids : \A j \in ids : j <= i

Acceptable(p, s) ==
    /\ s \notin Unacceptable
    /\ p.confident
    /\ p.recurrence >= RecurrenceFor[s]

\* Mutant of Decide: only contradictions are looked for.
DecideAgain(p, s, known) == Acceptable(p, s) /\ Conflicting(known, s) = {}

Decide(p, s, known) ==
    Acceptable(p, s) /\ ~Duplicated(known, s) /\ Conflicting(known, s) = {}

NewRule(s, user, p) ==
    [user |-> user, statement |-> s, active |-> TRUE, deprecated |-> FALSE, frozen |-> FALSE,
     reason |-> "none", maturity |-> IF p.recurrence >= ValidatedAt[s] THEN "validated" ELSE "emerging",
     uses |-> 0, created |-> today, since |-> today]

\* One candidate: a conflicting rule is frozen, in the table only, and the
\* candidate is promoted when nothing known speaks against it.
Consider(acc, s, p, user) ==
    LET known  == [i \in acc.read \cup acc.own |-> acc.seen[i]]
        rivals == Conflicting(known, s)
        i      == Foremost(rivals)
        rows   == IF rivals = {} THEN acc.rows
                  ELSE [acc.rows EXCEPT ![i] = [Frozen(known[i], "conflict") EXCEPT !.frozen = TRUE]]
        new    == NewRule(s, user, p)
    IN IF Decide(p, s, known)
       THEN [acc EXCEPT !.rows = Append(rows, new), !.seen = Append(@, new),
                        !.own = @ \cup {Len(rows) + 1}]
       ELSE [acc EXCEPT !.rows = rows]

\* promoteFromReflection on a table; own are the rules it has inserted.
Promotion(table, p, user) ==
    LET asked == {i \in DOMAIN table : InForce(table[i]) /\ Concerns(table[i], user)}
        rows  == [i \in DOMAIN table |-> IF i \in asked THEN Reviewed(table[i]) ELSE table[i]]
        start == [rows |-> rows, seen |-> rows, read |-> {i \in asked : InForce(rows[i])}, own |-> {}]
    IN FoldLeft(LAMBDA acc, s : Consider(acc, s, p, user), start, p.candidates)

Judged(p, inserted) ==
    [p EXCEPT !.state = IF p.state = "promoted" \/ inserted # {} THEN "promoted" ELSE "rejected"]

Pending(p) == p.state = "pending" /\ p.candidates # <<>>

\* autoPromoteRules: the pending reflections with strong, repeated evidence,
\* newest first, for everybody, until enough rules have been promoted.
AutoPromote(acc, f) ==
    LET p   == acc.reflections[f]
        end == Promotion(acc.rows, p, Everybody)
    IN IF acc.promoted >= AutoLimit \/ ~Pending(p) \/ ~p.strong \/ p.recurrence < 2 THEN acc
       ELSE [rows |-> end.rows, reflections |-> [acc.reflections EXCEPT ![f] = Judged(p, end.own)],
             promoted |-> acc.promoted + Cardinality(end.own)]

NewestFirst(n) == [i \in 1..n |-> n - i + 1]

\* What a session's end does with its reflection (0: it has none), without
\* an await: a promotion for its user, and the automatic ones.
PromoteAtEnd(f, user) ==
    LET p     == reflections[f]
        own   == IF f = 0 THEN [rows |-> rules, own |-> {}] ELSE Promotion(rules, p, user)
        seen  == IF f = 0 THEN reflections ELSE [reflections EXCEPT ![f] = Judged(p, own.own)]
        end   == FoldLeft(AutoPromote, [rows |-> own.rows, reflections |-> seen, promoted |-> 0],
                          NewestFirst(Len(seen)))
    IN /\ f \in {0} \cup DOMAIN reflections
       /\ Len(end.rows) <= MaxRules
       /\ rules' = end.rows
       /\ reflections' = end.reflections
       /\ UNCHANGED today

-----------------------------------------------------------------------------

\* reflect: the evidence is enough, so a reflection is stored for review.
Stores(p) ==
    /\ Len(reflections) < MaxReflections
    /\ reflections' = Append(reflections, [candidates |-> p.candidates, recurrence |-> p.recurrence,
           confident |-> p.confident, strong |-> p.strong, state |-> "pending"])

Reflect(p) == Stores(p) /\ UNCHANGED <<rules, today>>

\* Mutant of Limited: the ranked rules are not cut off.
AllOf(n) == n

Limited(n) == IF n < RuleLimit THEN n ELSE RuleLimit

\* getActiveRules: what is in force after its review counts as used, up to a
\* limit, and so does what a client only looks at; which ones the ranking
\* decides, here any.
Uses(user, all, chosen) ==
    LET read == ReadRows(Listed(user, all))
        left == {i \in Listed(user, all) : Shown(read[i], all)}
    IN /\ chosen \subseteq left
       /\ Cardinality(chosen) = Limited(Cardinality(left))
       /\ rules' = [i \in Ids |-> IF i \in chosen THEN Applied(read[i]) ELSE read[i]]

Lookup(user, all, chosen) == Uses(user, all, chosen) /\ UNCHANGED <<reflections, today>>

\* demoteStaleEmergingRules, of all users: chosen before the review.
Demoted ==
    [i \in Ids |->
        LET r == rules[i] IN
        IF r.maturity = "emerging" /\ r.uses = 0 /\ r.created + DemoteAfter < today /\ Eligible(r)
        THEN [Reviewed(r) EXCEPT !.active = FALSE, !.maturity = "emerging"] ELSE r]

\* freezeRulesByDuration over the demoted rows; without a user it freezes
\* the ephemeral rules of all.
RetireAtEnd(user) ==
    LET table == Demoted
        ends(r) == InForce(r) /\ r.statement \in Ephemeral /\ (user = Everybody \/ Concerns(r, user))
    IN /\ rules' = [i \in Ids |->
              IF ends(table[i]) THEN [Retired(Frozen(table[i], "session_expired"), "session_expired")
                                      EXCEPT !.frozen = TRUE]
              ELSE table[i]]
       /\ UNCHANGED <<reflections, today>>

-----------------------------------------------------------------------------
(* mutateRule: the row is read, and thereby reviewed, even when refused. *)

Freeze(r) ==
    IF r.frozen /\ ~r.deprecated THEN r
    ELSE [Frozen(r, "manual") EXCEPT !.active = FALSE, !.deprecated = FALSE, !.frozen = TRUE, !.reason = "manual"]

Deprecate(r) ==
    IF r.deprecated THEN r
    ELSE [Frozen(r, "deprecated") EXCEPT !.active = FALSE, !.frozen = TRUE, !.reason = "deprecated"]

\* Without a replacement the rule goes back to what it was before promotion.
RollBack(r) == [r EXCEPT !.active = FALSE, !.maturity = "emerging"]

\* With one it is contradicted and retired for good.
Replace(r) == [Frozen(r, "rollback") EXCEPT !.frozen = TRUE, !.maturity = "frozen"]

Mutate(i) ==
    LET read == Reviewed(rules[i]) IN
    /\ i \in Ids
    /\ \E new \in {Freeze(read), Deprecate(read), RollBack(read), Replace(read)} :
          rules' = [rules EXCEPT ![i] = new]
    /\ UNCHANGED <<reflections, today>>

NextDay == today < MaxDay /\ today' = today + 1 /\ UNCHANGED <<rules, reflections>>

RulesStep(owners) ==
    \/ \E p \in Proposals : Reflect(p)
    \/ \E f \in 0..Len(reflections), user \in owners : PromoteAtEnd(f, user)
    \/ \E user \in owners : RetireAtEnd(user)
    \/ \E user \in owners, all \in BOOLEAN, chosen \in SUBSET Ids : Lookup(user, all, chosen)
    \/ \E i \in Ids : Mutate(i)
    \/ NextDay

RulesNext == RulesStep(Users \cup {Everybody})

RulesSpec == RulesInit /\ [][RulesNext]_rulesVars

-----------------------------------------------------------------------------

\* Two rules of one owner that are in force never contradict or repeat each
\* other, and one of everybody and one of a user only when the one of
\* everybody was promoted later: promotions for everybody are compared with
\* the rules of everybody only, although each lookup shows both.
OneVoice ==
    \A i, j \in Ids :
        /\ i < j /\ InForce(rules[i]) /\ InForce(rules[j])
        /\ Concerns(rules[i], rules[j].user)
        => /\ rules[i].statement # rules[j].statement
           /\ ~MayContradict(rules[i].statement, rules[j].statement)

\* Whatever reviews, promotions on rows read before and uses write back, no
\* rule that was retired, rolled back or frozen is in force again.
RetiredStaysRetired ==
    [][\A i \in DOMAIN rules : ~InForce(rules[i]) => ~InForce(rules'[i])]_rules
=============================================================================
