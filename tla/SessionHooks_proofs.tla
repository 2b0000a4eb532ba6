-------------------------- MODULE SessionHooks_proofs --------------------------
(***************************************************************************)
(* Proofs about the behaviour rules and the sessions they are used in.     *)
(***************************************************************************)
EXTENDS SessionHooks, DataInduction

(***************************************************************************)
(* One rule: whatever is done to it keeps its owner and its statement, and *)
(* does not bring it back into force.                                      *)
(***************************************************************************)
Continues(old, new) ==
    /\ new \in Rule
    /\ new.user = old.user /\ new.statement = old.statement
    /\ InForce(new) => InForce(old)

Today == today \in 0..MaxDay

LEMMA ContinuesFurther ==
    ASSUME NEW r, NEW q, NEW p, Continues(r, q), Continues(q, p)
    PROVE  Continues(r, p)
  BY DEF Continues

LEMMA MaxUseIsNatural == MaxUse \in Nat
  <1> DEFINE uses == ({Institutional} \cup {StaleValidated}) \cup {ValidatedAt[s] : s \in Statements}
  <1>1. IsFiniteSet(uses)
    <2>1. IsFiniteSet({ValidatedAt[s] : s \in Statements})
      <3>1. IsFiniteSet(Statements) /\ ValidatedAt \in [Statements -> Nat \ {0}]
        BY RulesAssumption
      <3>2. QED BY <3>1, FiniteImage, Zenon
    <2>2. IsFiniteSet({Institutional} \cup {StaleValidated})
      BY FS_Singleton, FS_AddElement
    <2>3. QED BY <2>1, <2>2, FS_Union
  <1>2. uses \subseteq Nat /\ uses # {}
    BY RulesAssumption
  <1>3. \E n \in uses : \A m \in uses : m <= n
    <2> HIDE DEF uses
    <2>1. QED BY <1>1, <1>2, GreatestNatural
  <1>4. MaxUse \in uses
    <2>1. MaxUse = CHOOSE n \in uses : \A m \in uses : m <= n
      <3>1. {Institutional, StaleValidated} = {Institutional} \cup {StaleValidated} OBVIOUS
      <3>2. QED BY <3>1, Zenon DEF MaxUse
    <2> HIDE DEF uses
    <2>2. QED BY <1>3, <2>1
  <1>5. QED BY <1>2, <1>4

LEMMA RetiredContinues ==
    ASSUME NEW r \in Rule, NEW reason \in Reasons
    PROVE  Continues(r, Retired(r, reason)) /\ ~InForce(Retired(r, reason))
  BY DEF Retired, Continues, Rule, InForce

LEMMA WrittenContinues ==
    ASSUME Today, NEW r \in Rule
    PROVE  Continues(r, Written(r))
  BY DEF Written, Continues, Rule, InForce, Today

LEMMA MatureContinues ==
    ASSUME NEW r \in Rule, NEW m \in {"emerging", "validated", "institutionalized", "frozen"}
    PROVE  Continues(r, [r EXCEPT !.maturity = m])
  BY DEF Continues, Rule, InForce

LEMMA ReviewedContinues ==
    ASSUME Today, NEW r \in Rule
    PROVE  Continues(r, Reviewed(r))
  <1> DEFINE now == Written(r)
  <1>1. now \in Rule /\ Continues(r, now)
    BY WrittenContinues DEF Continues
  <1>2. r.reason \in Reasons
    BY DEF Rule
  <1>3. \A reason \in Reasons : Continues(now, Retired(now, reason))
    BY <1>1, RetiredContinues
  <1>4. \A m \in {"emerging", "validated", "institutionalized", "frozen"} :
            Continues(now, [now EXCEPT !.maturity = m])
    BY <1>1, MatureContinues
  <1>5. Continues(now, Reviewed(r))
    <2>1. CASE r.reason = "conflict"
      <3>1. "conflict" \in Reasons BY DEF Reasons
      <3>2. Reviewed(r) = Retired(now, "conflict") BY <2>1 DEF Reviewed
      <3>3. QED BY <1>3, <3>1, <3>2
    <2>2. CASE r.reason # "conflict" /\ Idle(r) >= ExpiredAfter
      <3>1. "expired" \in Reasons BY DEF Reasons
      <3>2. CASE r.uses = 0
        <4>1. Reviewed(r) = Retired(now, IF r.reason = "none" THEN "expired" ELSE r.reason)
          BY <2>2, <3>2 DEF Reviewed
        <4>2. QED BY <1>2, <1>3, <3>1, <4>1
      <3>3. CASE r.uses # 0
        <4>1. Reviewed(r) = [now EXCEPT !.maturity = IF r.reason = "rollback" THEN "frozen" ELSE "validated"]
          BY <2>2, <3>3 DEF Reviewed
        <4>2. QED BY <1>4, <4>1
      <3>4. QED BY <3>2, <3>3
    <2>3. CASE r.reason # "conflict" /\ ~(Idle(r) >= ExpiredAfter)
      <3>1. DeduceMaturity(r.uses, r.statement) \in {"emerging", "validated", "institutionalized", "frozen"}
        BY DEF DeduceMaturity
      <3>2. CASE Idle(r) >= StaleAfter
        <4>1. Reviewed(r) = [now EXCEPT !.maturity =
                                IF r.reason = "rollback" THEN "frozen"
                                ELSE IF r.uses >= StaleValidated THEN "validated" ELSE "emerging"]
          BY <2>3, <3>2 DEF Reviewed
        <4>2. QED BY <1>4, <4>1
      <3>3. CASE ~(Idle(r) >= StaleAfter)
        <4>1. Reviewed(r) = [now EXCEPT !.maturity = IF r.reason # "none" THEN "frozen"
                                                     ELSE DeduceMaturity(r.uses, r.statement)]
          BY <2>3, <3>3 DEF Reviewed
        <4>2. QED BY <1>4, <3>1, <4>1
      <3>4. QED BY <3>2, <3>3
    <2>4. QED BY <2>1, <2>2, <2>3
  <1>6. QED BY <1>1, <1>5, ContinuesFurther

LEMMA AppliedContinues ==
    ASSUME Today, NEW r \in Rule
    PROVE  Continues(r, Applied(r))
  <1> DEFINE used == [r EXCEPT !.uses = IF @ < MaxUse THEN @ + 1 ELSE @, !.since = today]
  <1>1. used \in Rule
    <2>1. MaxUse \in Nat /\ r.uses \in 0..MaxUse
      BY MaxUseIsNatural DEF Rule
    <2>2. (IF r.uses < MaxUse THEN r.uses + 1 ELSE r.uses) \in 0..MaxUse
      BY <2>1
    <2>3. QED BY <2>2 DEF Rule, Today
  <1>2. Continues(r, used)
    BY <1>1 DEF Continues, InForce, Rule
  <1>3. Continues(used, Reviewed(used))
    BY <1>1, ReviewedContinues
  <1>4. Applied(r) = Reviewed(used)
    BY DEF Applied
  <1> HIDE DEF used
  <1>5. QED BY <1>2, <1>3, <1>4, ContinuesFurther

LEMMA FrozenContinues ==
    ASSUME Today, NEW r \in Rule, NEW reason \in Reasons
    PROVE  Continues(r, Frozen(r, reason)) /\ ~InForce(Frozen(r, reason))
  <1> DEFINE q == Written(r)
             p == Retired(q, reason)
  <1>1. q \in Rule /\ Continues(r, q)
    BY WrittenContinues DEF Continues
  <1>2. p \in Rule /\ Continues(q, p) /\ ~InForce(p)
    BY <1>1, RetiredContinues DEF Continues
  <1>3. Continues(p, Reviewed(p)) /\ ~InForce(Reviewed(p))
    BY <1>2, ReviewedContinues DEF Continues
  <1>4. Frozen(r, reason) = Reviewed(p)
    BY DEF Frozen
  <1> HIDE DEF q, p
  <1>5. QED BY <1>1, <1>2, <1>3, <1>4, ContinuesFurther
-----------------------------------------------------------------------------
(***************************************************************************)
(* The table: rows are appended and changed, never taken away.             *)
(***************************************************************************)
TableContinues(old, new) ==
    \A i \in DOMAIN old : i \in DOMAIN new /\ Continues(old[i], new[i])

\* OneVoice of any table.
VoiceOf(table) ==
    \A i, j \in DOMAIN table :
        /\ i < j /\ InForce(table[i]) /\ InForce(table[j])
        /\ Concerns(table[i], table[j].user)
        => /\ table[i].statement # table[j].statement
           /\ ~MayContradict(table[i].statement, table[j].statement)

LEMMA TableContinuesFurther ==
    ASSUME NEW a, NEW b, NEW c, TableContinues(a, b), TableContinues(b, c)
    PROVE  TableContinues(a, c)
  BY ContinuesFurther DEF TableContinues

LEMMA TableContinuesItself ==
    ASSUME NEW table \in Seq(Rule)
    PROVE  TableContinues(table, table)
  <1>1. \A i \in DOMAIN table : table[i] \in Rule
    BY LenProperties
  <1>2. QED BY <1>1 DEF TableContinues, Continues

LEMMA VoiceContinues ==
    ASSUME NEW a, NEW b, DOMAIN b = DOMAIN a, TableContinues(a, b), VoiceOf(a)
    PROVE  VoiceOf(b)
  <1> SUFFICES ASSUME NEW i \in DOMAIN b, NEW j \in DOMAIN b,
                      i < j, InForce(b[i]), InForce(b[j]), Concerns(b[i], b[j].user)
               PROVE  /\ b[i].statement # b[j].statement
                      /\ ~MayContradict(b[i].statement, b[j].statement)
    BY DEF VoiceOf
  <1>1. /\ a[i].user = b[i].user /\ a[i].statement = b[i].statement /\ InForce(a[i])
        /\ a[j].user = b[j].user /\ a[j].statement = b[j].statement /\ InForce(a[j])
    BY DEF TableContinues, Continues
  <1>2. Concerns(a[i], a[j].user)
    BY <1>1 DEF Concerns
  <1>3. QED BY <1>1, <1>2 DEF VoiceOf

\* A table whose rows are all changed in place.
LEMMA RewrittenTable ==
    ASSUME NEW table \in Seq(Rule), NEW f, DOMAIN f = DOMAIN table, f = [i \in DOMAIN f |-> f[i]],
           \A i \in DOMAIN table : Continues(table[i], f[i])
    PROVE  /\ f \in Seq(Rule) /\ Len(f) = Len(table)
           /\ TableContinues(table, f)
           /\ VoiceOf(table) => VoiceOf(f)
  <1>1. Len(table) \in Nat /\ DOMAIN table = 1..Len(table)
    BY LenProperties
  <1>2. f \in [1..Len(table) -> Rule]
    BY <1>1 DEF Continues
  <1>3. f \in Seq(Rule) /\ Len(f) = Len(table)
    BY <1>1, <1>2, SeqDef
  <1>4. TableContinues(table, f)
    BY DEF TableContinues
  <1>5. QED BY <1>3, <1>4, VoiceContinues
-----------------------------------------------------------------------------
(***************************************************************************)
(* A promotion: what it works on, while it goes through the candidates.    *)
(***************************************************************************)
PromotionStates(table, user) ==
    {acc \in [rows : Seq(Rule), seen : Seq(Rule), read : SUBSET Nat, own : SUBSET Nat] :
        /\ Len(acc.seen) = Len(acc.rows)
        /\ acc.read \cup acc.own \subseteq DOMAIN acc.rows
        /\ \A i \in DOMAIN acc.rows :
              /\ acc.rows[i].user = acc.seen[i].user
              /\ acc.rows[i].statement = acc.seen[i].statement
              /\ InForce(acc.rows[i]) /\ Concerns(acc.rows[i], user)
                 => i \in acc.read \cup acc.own /\ Eligible(acc.seen[i])
        /\ TableContinues(table, acc.rows)
        /\ VoiceOf(acc.rows)}

\* A rival is frozen in the table.
LEMMA FreezingContinues ==
    ASSUME Today, NEW table, NEW user \in Owners, NEW acc \in PromotionStates(table, user),
           NEW i \in DOMAIN acc.rows
    PROVE  [acc EXCEPT !.rows = [acc.rows EXCEPT ![i] = [Frozen(acc.seen[i], "conflict") EXCEPT !.frozen = TRUE]]]
              \in PromotionStates(table, user)
  <1> DEFINE x == [Frozen(acc.seen[i], "conflict") EXCEPT !.frozen = TRUE]
             rows == [acc.rows EXCEPT ![i] = x]
  <1>1. /\ acc \in [rows : Seq(Rule), seen : Seq(Rule), read : SUBSET Nat, own : SUBSET Nat]
        /\ Len(acc.seen) = Len(acc.rows)
        /\ acc.read \cup acc.own \subseteq DOMAIN acc.rows
        /\ \A k \in DOMAIN acc.rows :
              /\ acc.rows[k].user = acc.seen[k].user
              /\ acc.rows[k].statement = acc.seen[k].statement
              /\ InForce(acc.rows[k]) /\ Concerns(acc.rows[k], user)
                 => k \in acc.read \cup acc.own /\ Eligible(acc.seen[k])
        /\ TableContinues(table, acc.rows)
        /\ VoiceOf(acc.rows)
    BY DEF PromotionStates
  <1>2. acc.rows \in Seq(Rule) /\ acc.seen \in Seq(Rule) /\ acc.seen[i] \in Rule
        /\ \A k \in DOMAIN acc.rows : acc.rows[k] \in Rule
    BY <1>1, LenProperties
  <1>3. Continues(acc.seen[i], Frozen(acc.seen[i], "conflict"))
    BY <1>2, FrozenContinues DEF Reasons
  <1>4. x \in Rule /\ x.user = acc.rows[i].user /\ x.statement = acc.rows[i].statement /\ ~InForce(x)
    BY <1>1, <1>3 DEF Continues, Rule, InForce
  <1> HIDE DEF x
  <1>5. \A k \in DOMAIN acc.rows : Continues(acc.rows[k], rows[k])
    BY <1>2, <1>4 DEF Continues
  <1>6. DOMAIN rows = DOMAIN acc.rows /\ rows = [k \in DOMAIN rows |-> rows[k]]
    BY <1>2
  <1> HIDE DEF rows
  <1>7. /\ rows \in Seq(Rule) /\ Len(rows) = Len(acc.rows)
        /\ TableContinues(acc.rows, rows) /\ VoiceOf(rows)
    BY <1>1, <1>2, <1>5, <1>6, RewrittenTable
  <1>8. TableContinues(table, rows)
    BY <1>1, <1>7, TableContinuesFurther
  <1>9. \A k \in DOMAIN rows :
              /\ rows[k].user = acc.seen[k].user
              /\ rows[k].statement = acc.seen[k].statement
              /\ InForce(rows[k]) /\ Concerns(rows[k], user)
                 => k \in acc.read \cup acc.own /\ Eligible(acc.seen[k])
    BY <1>1, <1>5, <1>6 DEF Continues, Concerns
  <1> DEFINE new == [acc EXCEPT !.rows = rows]
  <1>10. /\ new \in [rows : Seq(Rule), seen : Seq(Rule), read : SUBSET Nat, own : SUBSET Nat]
         /\ new.rows = rows /\ new.seen = acc.seen /\ new.read = acc.read /\ new.own = acc.own
    BY <1>1, <1>7
  <1> HIDE DEF new
  <1>11. new \in PromotionStates(table, user)
    BY <1>1, <1>6, <1>7, <1>8, <1>9, <1>10 DEF PromotionStates
  <1>12. QED BY <1>11 DEF new, rows, x

\* A new rule takes effect when nothing in force for its owner speaks against
\* it.
LEMMA AppendingContinues ==
    ASSUME NEW table, NEW user \in Owners, NEW acc \in PromotionStates(table, user),
           NEW new \in Rule, new.user = user,
           \A i \in acc.read \cup acc.own :
                Eligible(acc.seen[i]) => /\ acc.seen[i].statement # new.statement
                                         /\ ~MayContradict(new.statement, acc.seen[i].statement)
    PROVE  [acc EXCEPT !.rows = Append(acc.rows, new), !.seen = Append(acc.seen, new),
                       !.own = acc.own \cup {Len(acc.rows) + 1}] \in PromotionStates(table, user)
  <1> DEFINE n == Len(acc.rows)
             rows == Append(acc.rows, new)
             seen == Append(acc.seen, new)
             own == acc.own \cup {n + 1}
  <1>1. /\ acc \in [rows : Seq(Rule), seen : Seq(Rule), read : SUBSET Nat, own : SUBSET Nat]
        /\ Len(acc.seen) = Len(acc.rows)
        /\ acc.read \cup acc.own \subseteq DOMAIN acc.rows
        /\ \A k \in DOMAIN acc.rows :
              /\ acc.rows[k].user = acc.seen[k].user
              /\ acc.rows[k].statement = acc.seen[k].statement
              /\ InForce(acc.rows[k]) /\ Concerns(acc.rows[k], user)
                 => k \in acc.read \cup acc.own /\ Eligible(acc.seen[k])
        /\ TableContinues(table, acc.rows)
        /\ VoiceOf(acc.rows)
    BY DEF PromotionStates
  <1>2. /\ n \in Nat /\ DOMAIN acc.rows = 1..n /\ DOMAIN acc.seen = 1..n
        /\ \A k \in 1..n : acc.rows[k] \in Rule
    BY <1>1, LenProperties
  <1>3. /\ rows \in Seq(Rule) /\ seen \in Seq(Rule) /\ Len(rows) = n + 1 /\ Len(seen) = n + 1
        /\ DOMAIN rows = 1..(n + 1)
        /\ rows[n + 1] = new /\ seen[n + 1] = new
        /\ \A k \in 1..n : rows[k] = acc.rows[k] /\ seen[k] = acc.seen[k]
    BY <1>1, <1>2
  <1> HIDE DEF rows, seen
  <1>4. TableContinues(acc.rows, rows)
    BY <1>2, <1>3 DEF TableContinues, Continues
  <1>5. TableContinues(table, rows)
    BY <1>1, <1>4, TableContinuesFurther
  <1>6. \A k \in 1..n : InForce(rows[k]) /\ Concerns(rows[k], user)
            => /\ rows[k].statement # new.statement
               /\ ~MayContradict(rows[k].statement, new.statement)
    <2>1. SUFFICES ASSUME NEW k \in 1..n, InForce(rows[k]), Concerns(rows[k], user)
                   PROVE  /\ rows[k].statement # new.statement
                          /\ ~MayContradict(rows[k].statement, new.statement)
      OBVIOUS
    <2>2. k \in acc.read \cup acc.own /\ Eligible(acc.seen[k]) /\ rows[k].statement = acc.seen[k].statement
      BY <1>1, <1>2, <1>3, <2>1
    <2>3. \A a, b : MayContradict(a, b) => MayContradict(b, a)
      BY RulesAssumption DEF MayContradict
    <2>4. QED BY <2>2, <2>3
  <1>7. VoiceOf(rows)
    <2>1. SUFFICES ASSUME NEW i \in 1..(n + 1), NEW j \in 1..(n + 1), i < j, InForce(rows[i]),
                          InForce(rows[j]), Concerns(rows[i], rows[j].user)
                   PROVE  /\ rows[i].statement # rows[j].statement
                          /\ ~MayContradict(rows[i].statement, rows[j].statement)
      BY <1>3 DEF VoiceOf
    <2>2. i \in 1..n BY <1>2, <2>1
    <2>3. CASE j = n + 1
      BY <1>3, <1>6, <2>1, <2>2, <2>3
    <2>4. CASE j # n + 1
      <3>1. j \in 1..n BY <1>2, <2>4
      <3>2. QED BY <1>1, <1>2, <1>3, <2>1, <2>2, <3>1 DEF VoiceOf
    <2>5. QED BY <2>3, <2>4
  <1>8. \A k \in 1..(n + 1) :
              /\ rows[k].user = seen[k].user
              /\ rows[k].statement = seen[k].statement
              /\ InForce(rows[k]) /\ Concerns(rows[k], user)
                 => k \in acc.read \cup own /\ Eligible(seen[k])
    <2>1. SUFFICES ASSUME NEW k \in 1..(n + 1)
                   PROVE  /\ rows[k].user = seen[k].user
                          /\ rows[k].statement = seen[k].statement
                          /\ InForce(rows[k]) /\ Concerns(rows[k], user)
                             => k \in acc.read \cup own /\ Eligible(seen[k])
      OBVIOUS
    <2>2. CASE k = n + 1
      BY <1>3, <2>2 DEF InForce, Eligible
    <2>3. CASE k # n + 1
      <3>1. k \in 1..n BY <1>2, <2>3
      <3>2. QED BY <1>1, <1>2, <1>3, <3>1
    <2>4. QED BY <2>2, <2>3
  <1> DEFINE next == [acc EXCEPT !.rows = rows, !.seen = seen, !.own = own]
  <1>9. own \in SUBSET Nat /\ acc.read \cup own \subseteq 1..(n + 1)
    BY <1>1, <1>2
  <1> HIDE DEF own
  <1>10. /\ next \in [rows : Seq(Rule), seen : Seq(Rule), read : SUBSET Nat, own : SUBSET Nat]
         /\ next.rows = rows /\ next.seen = seen /\ next.read = acc.read /\ next.own = own
    BY <1>1, <1>3, <1>9
  <1> HIDE DEF next
  <1>11. next \in PromotionStates(table, user)
    BY <1>3, <1>5, <1>7, <1>8, <1>9, <1>10 DEF PromotionStates
  <1>12. QED BY <1>11 DEF next, rows, seen, own

LEMMA NewRuleTyped ==
    ASSUME Today, NEW s \in Statements, NEW user \in Owners, NEW p
    PROVE  NewRule(s, user, p) \in Rule /\ NewRule(s, user, p).user = user
           /\ NewRule(s, user, p).statement = s
  <1>1. 0 \in 0..MaxUse
    BY MaxUseIsNatural
  <1>2. QED BY <1>1 DEF NewRule, Rule, Owners, Reasons, Today

LEMMA ConsiderContinues ==
    ASSUME Today, NEW table, NEW user \in Owners, NEW acc \in PromotionStates(table, user),
           NEW s \in Statements, NEW p
    PROVE  Consider(acc, s, p, user) \in PromotionStates(table, user)
  <1> DEFINE known == [i \in acc.read \cup acc.own |-> acc.seen[i]]
             rivals == Conflicting(known, s)
             new == NewRule(s, user, p)
  <1>1. /\ acc.rows \in Seq(Rule) /\ acc.read \cup acc.own \subseteq DOMAIN acc.rows
        /\ acc = [acc EXCEPT !.rows = acc.rows]
    BY DEF PromotionStates
  <1>2. rivals \subseteq DOMAIN acc.rows
    BY <1>1 DEF Conflicting
  <1>3. CASE rivals # {}
    <2>1. Foremost(rivals) \in rivals
      <3>1. IsFiniteSet(rivals) /\ rivals \subseteq Nat
        <4>1. Len(acc.rows) \in Nat /\ DOMAIN acc.rows = 1..Len(acc.rows)
          BY <1>1, LenProperties
        <4>2. IsFiniteSet(DOMAIN acc.rows)
          BY <4>1, FS_Interval
        <4> HIDE DEF rivals
        <4>3. QED BY <1>2, <4>1, <4>2, FS_Subset
      <3> HIDE DEF rivals
      <3>2. \E i \in rivals : \A j \in rivals : j <= i
        BY <1>3, <3>1, GreatestNatural
      <3>3. QED BY <3>2 DEF Foremost
    <2>2. PICK i \in rivals : i = Foremost(rivals)
      BY <2>1
    <2>3. i \in acc.read \cup acc.own /\ i \in DOMAIN acc.rows /\ known[i] = acc.seen[i]
      BY <1>1, <1>2 DEF Conflicting
    <2>4. ~Decide(p, s, known)
      BY <1>3 DEF Decide
    <2>5. Consider(acc, s, p, user)
            = [acc EXCEPT !.rows = [acc.rows EXCEPT ![i] = [Frozen(known[i], "conflict") EXCEPT !.frozen = TRUE]]]
      BY <1>3, <2>2, <2>4, Zenon DEF Consider
    <2> HIDE DEF known
    <2>6. QED BY <2>3, <2>5, FreezingContinues
  <1>4. CASE rivals = {} /\ ~Decide(p, s, known)
    <2>1. Consider(acc, s, p, user) = [acc EXCEPT !.rows = acc.rows]
      BY <1>4, Zenon DEF Consider
    <2>2. QED BY <1>1, <2>1
  <1>5. CASE rivals = {} /\ Decide(p, s, known)
    <2>1. Consider(acc, s, p, user)
            = [acc EXCEPT !.rows = Append(acc.rows, new), !.seen = Append(acc.seen, new),
                          !.own = acc.own \cup {Len(acc.rows) + 1}]
      BY <1>5, Zenon DEF Consider
    <2>2. \A i \in acc.read \cup acc.own :
                Eligible(acc.seen[i]) => /\ acc.seen[i].statement # s
                                         /\ ~MayContradict(s, acc.seen[i].statement)
      BY <1>5 DEF Decide, Duplicated, Conflicting
    <2>3. new \in Rule /\ new.user = user /\ new.statement = s
      BY NewRuleTyped
    <2> HIDE DEF new
    <2>4. \A i \in acc.read \cup acc.own :
                Eligible(acc.seen[i]) => /\ acc.seen[i].statement # new.statement
                                         /\ ~MayContradict(new.statement, acc.seen[i].statement)
      BY <2>2, <2>3
    <2>5. [acc EXCEPT !.rows = Append(acc.rows, new), !.seen = Append(acc.seen, new),
                      !.own = acc.own \cup {Len(acc.rows) + 1}] \in PromotionStates(table, user)
      BY <2>3, <2>4, AppendingContinues
    <2>6. QED BY <2>1, <2>5
  <1>6. QED BY <1>3, <1>4, <1>5

\* What the promotion of a reflection starts from.
LEMMA PromotionStarts ==
    ASSUME Today, NEW table \in Seq(Rule), VoiceOf(table), NEW user \in Owners,
           NEW asked, asked = {i \in DOMAIN table : InForce(table[i]) /\ Concerns(table[i], user)},
           NEW rows, rows = [i \in DOMAIN table |-> IF i \in asked THEN Reviewed(table[i]) ELSE table[i]]
    PROVE  [rows |-> rows, seen |-> rows, read |-> {i \in asked : InForce(rows[i])}, own |-> {}]
              \in PromotionStates(table, user)
  <1>1. /\ Len(table) \in Nat /\ DOMAIN table = 1..Len(table)
        /\ \A i \in DOMAIN table : table[i] \in Rule
    BY LenProperties
  <1>2. \A i \in DOMAIN table : Continues(table[i], rows[i])
    <2>1. SUFFICES ASSUME NEW i \in DOMAIN table PROVE Continues(table[i], rows[i])
      OBVIOUS
    <2>2. Continues(table[i], Reviewed(table[i])) /\ Continues(table[i], table[i])
      BY <1>1, ReviewedContinues DEF Continues
    <2>3. QED BY <2>2
  <1>3. DOMAIN rows = DOMAIN table /\ rows = [i \in DOMAIN rows |-> rows[i]]
    OBVIOUS
  <1>4. rows \in Seq(Rule) /\ Len(rows) = Len(table) /\ TableContinues(table, rows) /\ VoiceOf(rows)
    BY <1>2, <1>3, RewrittenTable
  <1> DEFINE read == {i \in asked : InForce(rows[i])}
             start == [rows |-> rows, seen |-> rows, read |-> read, own |-> {}]
  <1>5. read \in SUBSET Nat /\ read \subseteq DOMAIN rows
    BY <1>1, <1>3
  <1>6. \A i \in DOMAIN rows : InForce(rows[i]) /\ Concerns(rows[i], user)
            => i \in read /\ Eligible(rows[i])
    BY <1>2, <1>3 DEF Continues, Concerns, InForce, Eligible
  <1> HIDE DEF read
  <1>7. /\ start \in [rows : Seq(Rule), seen : Seq(Rule), read : SUBSET Nat, own : SUBSET Nat]
        /\ start.rows = rows /\ start.seen = rows /\ start.read = read /\ start.own = {}
    BY <1>4, <1>5
  <1> HIDE DEF start
  <1>8. start \in PromotionStates(table, user)
    BY <1>4, <1>5, <1>6, <1>7 DEF PromotionStates
  <1>9. QED BY <1>8 DEF start, read

\* A promotion leaves the table in such a state, whatever the candidates.
LEMMA PromotionContinues ==
    ASSUME Today, NEW table \in Seq(Rule), VoiceOf(table), NEW user \in Owners,
           NEW p \in Reflection
    PROVE  Promotion(table, p, user) \in PromotionStates(table, user)
  <1> DEFINE asked == {i \in DOMAIN table : InForce(table[i]) /\ Concerns(table[i], user)}
             rows == [i \in DOMAIN table |-> IF i \in asked THEN Reviewed(table[i]) ELSE table[i]]
             start == [rows |-> rows, seen |-> rows, read |-> {i \in asked : InForce(rows[i])}, own |-> {}]
             seq == p.candidates
             X == DOMAIN seq
             A == PromotionStates(table, user)
             Step(T, f) == IF T = {} THEN start ELSE Consider(f[T \ {Max(T)}], seq[Max(T)], p, user)
             iter == CHOOSE f : f = [T \in SUBSET X |-> Step(T, f)]
  <1>1. start \in A
    BY PromotionStarts
  <1>2. IsFiniteSet(X) /\ X \subseteq Nat /\ \A x \in X : seq[x] \in Statements
    <2>1. seq \in Seq(Statements) BY DEF Reflection
    <2>2. Len(seq) \in Nat /\ X = 1..Len(seq) /\ seq \in [1..Len(seq) -> Statements]
      BY <2>1, LenProperties
    <2> HIDE DEF X
    <2>3. IsFiniteSet(X) BY <2>2, FS_Interval
    <2>4. QED BY <2>2, <2>3
  <1>3. Promotion(table, p, user) = iter[X]
    BY Zenon DEF Promotion, FoldLeft, MapThenFoldSet
  <1> HIDE DEF start, A
  <1>4. \A T \in SUBSET X : T # {} => Max(T) \in T
    <2> HIDE DEF X
    <2>1. SUFFICES ASSUME NEW T \in SUBSET X, T # {} PROVE Max(T) \in T
      OBVIOUS
    <2>2. \E n \in T : \A m \in T : m <= n
      BY <1>2, <2>1, FS_Subset, GreatestNatural
    <2>3. QED BY <1>2, <2>2 DEF Max
  <1>5. \A x \in X, acc \in A : Consider(acc, seq[x], p, user) \in A
    BY <1>2, ConsiderContinues DEF A
  <1>6. \E f : f = [T \in SUBSET X |-> Step(T, f)]
    <2> DEFINE ch == [T \in SUBSET X |-> Max(T)]
               G == [xa \in X \X A |-> Consider(xa[2], seq[xa[1]], p, user)]
    <2>1. \A T \in SUBSET X : T # {} => ch[T] \in T
      BY <1>4
    <2>2. \A x \in X, a \in A : G[<<x, a>>] \in A
      BY <1>5
    <2>3. Foldable(X, A, start, ch, G)
      <3>1. IsFiniteSet(X) BY <1>2
      <3> HIDE DEF ch, G, X
      <3>2. QED BY <1>1, <2>1, <2>2, <3>1 DEF Foldable
    <2>4. PICK f : FoldedBy(f, X, A, start, ch, G)
      BY <2>3, FoldExists
    <2>5. ASSUME NEW T \in SUBSET X PROVE f[T] = Step(T, f)
      <3> USE DEF FoldedBy
      <3>1. CASE T = {} BY <2>4, <3>1
      <3>2. CASE T # {}
        <4>1. Max(T) \in X /\ T \ {Max(T)} \in SUBSET X BY <1>4, <3>2
        <4>2. f[T \ {Max(T)}] \in A BY <2>4, <4>1
        <4>3. G[<<Max(T), f[T \ {Max(T)}]>>] = Consider(f[T \ {Max(T)}], seq[Max(T)], p, user)
          BY <4>1, <4>2
        <4>4. QED BY <2>4, <3>2, <4>3
      <3>3. QED BY <3>1, <3>2
    <2> HIDE DEF Step
    <2>6. f = [T \in SUBSET X |-> Step(T, f)]
      BY <2>4, <2>5 DEF FoldedBy
    <2>7. QED BY <2>6
  <1>7. iter = [T \in SUBSET X |-> Step(T, iter)]
    <2> HIDE DEF X, Step
    <2>1. QED BY <1>6
  <1> HIDE DEF iter
  <1>8. \A T \in SUBSET X : T \in {U \in SUBSET X : iter[U] \in A}
    <2> DEFINE P == {U \in SUBSET X : iter[U] \in A}
    <2>1. {} \in P
      BY <1>1, <1>7
    <2>2. ASSUME NEW T \in SUBSET X, T # {}, \A x \in T : T \ {x} \in P PROVE T \in P
      <3>1. Max(T) \in T /\ Max(T) \in X BY <1>4, <2>2
      <3>2. iter[T \ {Max(T)}] \in A BY <2>2, <3>1
      <3>3. iter[T] = Consider(iter[T \ {Max(T)}], seq[Max(T)], p, user)
        BY <1>7, <2>2
      <3>4. QED BY <1>5, <3>1, <3>2, <3>3
    <2> HIDE DEF P
    <2>3. \A T \in SUBSET X : T \in P
      <3>1. IsFiniteSet(X) BY <1>2
      <3> HIDE DEF X
      <3>2. QED BY <2>1, <2>2, <3>1, SubsetInduction
    <2>4. QED BY <2>3 DEF P
  <1>9. QED BY <1>3, <1>8 DEF A
-----------------------------------------------------------------------------
(***************************************************************************)
(* The end of a session: its own promotion and the automatic ones.         *)
(***************************************************************************)
\* What a table and the reflections become while sessions promote.
EndStates(table, n) ==
    {acc \in [rows : Seq(Rule), reflections : Seq(Reflection), promoted : Nat] :
        /\ Len(acc.reflections) = n
        /\ TableContinues(table, acc.rows)
        /\ VoiceOf(acc.rows)}

LEMMA PromotionStatesGive ==
    ASSUME NEW table, NEW user, NEW acc \in PromotionStates(table, user)
    PROVE  /\ acc.rows \in Seq(Rule) /\ TableContinues(table, acc.rows) /\ VoiceOf(acc.rows)
           /\ Cardinality(acc.own) \in Nat
  <1>1. /\ acc.rows \in Seq(Rule) /\ TableContinues(table, acc.rows) /\ VoiceOf(acc.rows)
        /\ acc.own \subseteq DOMAIN acc.rows
    BY DEF PromotionStates
  <1>2. Len(acc.rows) \in Nat /\ DOMAIN acc.rows = 1..Len(acc.rows)
    BY <1>1, LenProperties
  <1>3. IsFiniteSet(acc.own)
    <2>1. IsFiniteSet(1..Len(acc.rows)) BY <1>2, FS_Interval
    <2>2. QED BY <1>1, <1>2, <2>1, FS_Subset
  <1>4. QED BY <1>1, <1>3, FS_CardinalityType

LEMMA JudgedTyped ==
    ASSUME NEW p \in Reflection, NEW inserted
    PROVE  Judged(p, inserted) \in Reflection
  BY DEF Judged, Reflection

LEMMA AutoPromoteContinues ==
    ASSUME Today, NEW table, NEW n, NEW acc \in EndStates(table, n), NEW f \in 1..n
    PROVE  AutoPromote(acc, f) \in EndStates(table, n)
  <1> DEFINE p == acc.reflections[f]
             end == Promotion(acc.rows, p, Everybody)
             reflected == [acc.reflections EXCEPT ![f] = Judged(p, end.own)]
             next == [rows |-> end.rows, reflections |-> reflected,
                      promoted |-> acc.promoted + Cardinality(end.own)]
  <1>1. /\ acc \in [rows : Seq(Rule), reflections : Seq(Reflection), promoted : Nat]
        /\ Len(acc.reflections) = n /\ TableContinues(table, acc.rows) /\ VoiceOf(acc.rows)
    BY DEF EndStates
  <1>2. p \in Reflection
    BY <1>1, LenProperties
  <1>3. Everybody \in Owners
    BY DEF Owners
  <1>4. end \in PromotionStates(acc.rows, Everybody)
    BY <1>1, <1>2, <1>3, PromotionContinues
  <1> HIDE DEF end, p
  <1>5. end.rows \in Seq(Rule) /\ TableContinues(acc.rows, end.rows) /\ VoiceOf(end.rows)
        /\ Cardinality(end.own) \in Nat
    BY <1>4, PromotionStatesGive
  <1>6. TableContinues(table, end.rows)
    BY <1>1, <1>5, TableContinuesFurther
  <1>7. Judged(p, end.own) \in Reflection
    BY <1>2, JudgedTyped
  <1>8. reflected \in Seq(Reflection) /\ Len(reflected) = n
    BY <1>1, <1>7, ExceptSeq
  <1>9. acc.promoted + Cardinality(end.own) \in Nat
    BY <1>1, <1>5
  <1> HIDE DEF reflected
  <1>10. next \in EndStates(table, n)
    BY <1>5, <1>6, <1>8, <1>9 DEF EndStates
  <1>11. AutoPromote(acc, f) = acc \/ AutoPromote(acc, f) = next
    BY Zenon DEF AutoPromote, p, end, reflected
  <1> HIDE DEF next
  <1>12. QED BY <1>10, <1>11

LEMMA AutoPromotionsContinue ==
    ASSUME Today, NEW table, NEW n \in Nat, NEW start \in EndStates(table, n)
    PROVE  FoldLeft(AutoPromote, start, NewestFirst(n)) \in EndStates(table, n)
  <1> DEFINE seq == NewestFirst(n)
             X == DOMAIN seq
             A == EndStates(table, n)
             Step(T, f) == IF T = {} THEN start ELSE AutoPromote(f[T \ {Max(T)}], seq[Max(T)])
             iter == CHOOSE f : f = [T \in SUBSET X |-> Step(T, f)]
  <1>1. start \in A
    OBVIOUS
  <1>2. X = 1..n /\ IsFiniteSet(X) /\ X \subseteq Nat /\ \A x \in X : seq[x] \in 1..n
    <2>1. X = 1..n BY DEF NewestFirst
    <2>2. \A x \in X : seq[x] \in 1..n BY DEF NewestFirst
    <2>3. IsFiniteSet(1..n) BY FS_Interval
    <2> HIDE DEF X
    <2>4. QED BY <2>1, <2>2, <2>3
  <1>3. FoldLeft(AutoPromote, start, NewestFirst(n)) = iter[X]
    BY Zenon DEF FoldLeft, MapThenFoldSet
  <1> HIDE DEF A
  <1>4. \A T \in SUBSET X : T # {} => Max(T) \in T
    <2> HIDE DEF X
    <2>1. SUFFICES ASSUME NEW T \in SUBSET X, T # {} PROVE Max(T) \in T
      OBVIOUS
    <2>2. \E k \in T : \A m \in T : m <= k
      BY <1>2, <2>1, FS_Subset, GreatestNatural
    <2>3. QED BY <1>2, <2>2 DEF Max
  <1>5. \A x \in X, acc \in A : AutoPromote(acc, seq[x]) \in A
    BY <1>2, AutoPromoteContinues DEF A
  <1>6. \E f : f = [T \in SUBSET X |-> Step(T, f)]
    <2> DEFINE ch == [T \in SUBSET X |-> Max(T)]
               G == [xa \in X \X A |-> AutoPromote(xa[2], seq[xa[1]])]
    <2>1. \A T \in SUBSET X : T # {} => ch[T] \in T
      BY <1>4
    <2>2. \A x \in X, a \in A : G[<<x, a>>] \in A
      BY <1>5
    <2>3. Foldable(X, A, start, ch, G)
      <3>1. IsFiniteSet(X) BY <1>2
      <3> HIDE DEF ch, G, X
      <3>2. QED BY <1>1, <2>1, <2>2, <3>1 DEF Foldable
    <2>4. PICK f : FoldedBy(f, X, A, start, ch, G)
      BY <2>3, FoldExists
    <2>5. ASSUME NEW T \in SUBSET X PROVE f[T] = Step(T, f)
      <3> USE DEF FoldedBy
      <3>1. CASE T = {} BY <2>4, <3>1
      <3>2. CASE T # {}
        <4>1. Max(T) \in X /\ T \ {Max(T)} \in SUBSET X BY <1>4, <3>2
        <4>2. f[T \ {Max(T)}] \in A BY <2>4, <4>1
        <4>3. G[<<Max(T), f[T \ {Max(T)}]>>] = AutoPromote(f[T \ {Max(T)}], seq[Max(T)])
          BY <4>1, <4>2
        <4>4. QED BY <2>4, <3>2, <4>3
      <3>3. QED BY <3>1, <3>2
    <2> HIDE DEF Step
    <2>6. f = [T \in SUBSET X |-> Step(T, f)]
      BY <2>4, <2>5 DEF FoldedBy
    <2>7. QED BY <2>6
  <1>7. iter = [T \in SUBSET X |-> Step(T, iter)]
    <2> HIDE DEF X, Step
    <2>1. QED BY <1>6
  <1> HIDE DEF iter
  <1>8. \A T \in SUBSET X : T \in {U \in SUBSET X : iter[U] \in A}
    <2> DEFINE P == {U \in SUBSET X : iter[U] \in A}
    <2>1. {} \in P
      BY <1>1, <1>7
    <2>2. ASSUME NEW T \in SUBSET X, T # {}, \A x \in T : T \ {x} \in P PROVE T \in P
      <3>1. Max(T) \in T /\ Max(T) \in X BY <1>4, <2>2
      <3>2. iter[T \ {Max(T)}] \in A BY <2>2, <3>1
      <3>3. iter[T] = AutoPromote(iter[T \ {Max(T)}], seq[Max(T)])
        BY <1>7, <2>2
      <3>4. QED BY <1>5, <3>1, <3>2, <3>3
    <2> HIDE DEF P
    <2>3. \A T \in SUBSET X : T \in P
      <3>1. IsFiniteSet(X) BY <1>2
      <3> HIDE DEF X
      <3>2. QED BY <2>1, <2>2, <3>1, SubsetInduction
    <2>4. QED BY <2>3 DEF P
  <1>9. QED BY <1>3, <1>8 DEF A
-----------------------------------------------------------------------------
(***************************************************************************)
(* The operations on the rules, by themselves.                             *)
(***************************************************************************)
RulesInv == RulesTypeOK /\ OneVoice

\* What every step grants: no rule comes back into force or changes its owner,
\* and no reflection goes away.
RulesContinue ==
    /\ TableContinues(rules, rules')
    /\ Len(reflections) <= Len(reflections')

\* A step that works on the rules in place and on nothing else.
LEMMA RewritingKeeps ==
    ASSUME RulesInv, DOMAIN rules' = DOMAIN rules, rules' = [i \in DOMAIN rules' |-> rules'[i]],
           \A i \in Ids : Continues(rules[i], rules'[i]),
           UNCHANGED <<reflections, today>>
    PROVE  RulesInv' /\ RulesContinue
  <1>1. rules \in Seq(Rule) /\ VoiceOf(rules)
    BY DEF RulesInv, RulesTypeOK, OneVoice, VoiceOf, Ids
  <1>2. /\ rules' \in Seq(Rule) /\ Len(rules') = Len(rules)
        /\ TableContinues(rules, rules') /\ VoiceOf(rules')
    BY <1>1, RewrittenTable DEF Ids
  <1>3. RulesTypeOK'
    BY <1>2 DEF RulesInv, RulesTypeOK
  <1>4. Len(reflections) \in Nat
    BY LenProperties DEF RulesInv, RulesTypeOK
  <1>5. QED BY <1>2, <1>3, <1>4 DEF RulesInv, RulesContinue, OneVoice, VoiceOf, Ids

LEMMA RulesTyped ==
    ASSUME RulesInv
    PROVE  /\ Today
           /\ rules \in Seq(Rule) /\ Len(rules) \in Nat /\ Ids = 1..Len(rules)
           /\ \A i \in Ids : rules[i] \in Rule
           /\ VoiceOf(rules)
           /\ reflections \in Seq(Reflection) /\ Len(reflections) \in Nat
           /\ DOMAIN reflections = 1..Len(reflections)
           /\ \A f \in DOMAIN reflections : reflections[f] \in Reflection
  <1>1. Today /\ rules \in Seq(Rule) /\ VoiceOf(rules) /\ reflections \in Seq(Reflection)
    BY DEF RulesInv, RulesTypeOK, Today, OneVoice, VoiceOf, Ids
  <1>2. QED BY <1>1, LenProperties DEF Ids

\* The two tables may change in one step, each for its own reasons.
RowsKept ==
    /\ rules' \in Seq(Rule) /\ Len(rules') = Len(rules)
    /\ TableContinues(rules, rules') /\ VoiceOf(rules')

ReflectionsKept ==
    /\ reflections' \in Seq(Reflection)
    /\ Len(reflections) <= Len(reflections') /\ Len(reflections') <= MaxReflections

LEMMA KeptTogether ==
    ASSUME RulesInv, RowsKept, ReflectionsKept, UNCHANGED today
    PROVE  RulesInv' /\ RulesContinue
  BY DEF RulesInv, RulesTypeOK, RowsKept, ReflectionsKept, RulesContinue, OneVoice, VoiceOf, Ids

LEMMA UnchangedKept ==
    ASSUME RulesInv
    PROVE  (UNCHANGED rules => RowsKept) /\ (UNCHANGED reflections => ReflectionsKept)
  <1>1. rules \in Seq(Rule) /\ VoiceOf(rules) /\ Len(reflections) \in Nat /\ reflections \in Seq(Reflection)
    BY RulesTyped
  <1>2. TableContinues(rules, rules)
    BY <1>1, TableContinuesItself
  <1>3. QED BY <1>1, <1>2 DEF RowsKept, ReflectionsKept, RulesInv, RulesTypeOK

LEMMA PromoteAtEndKeeps ==
    ASSUME RulesInv, NEW f, NEW user \in Owners, PromoteAtEnd(f, user)
    PROVE  RulesInv' /\ RulesContinue
  <1> DEFINE n == Len(reflections)
             p == reflections[f]
             own == IF f = 0 THEN [rows |-> rules, own |-> {}] ELSE Promotion(rules, p, user)
             seen == IF f = 0 THEN reflections ELSE [reflections EXCEPT ![f] = Judged(p, own.own)]
             start == [rows |-> own.rows, reflections |-> seen, promoted |-> 0]
             end == FoldLeft(AutoPromote, start, NewestFirst(Len(seen)))
  <1>1. /\ Today /\ n \in Nat /\ rules \in Seq(Rule) /\ VoiceOf(rules) /\ reflections \in Seq(Reflection)
        /\ DOMAIN reflections = 1..n
        /\ \A g \in DOMAIN reflections : reflections[g] \in Reflection
    BY RulesTyped
  <1>2. /\ f \in {0} \cup DOMAIN reflections
        /\ Len(end.rows) <= MaxRules
        /\ rules' = end.rows /\ reflections' = end.reflections /\ today' = today
    BY DEF PromoteAtEnd
  <1>3. own.rows \in Seq(Rule) /\ TableContinues(rules, own.rows) /\ VoiceOf(own.rows)
    <2>1. CASE f = 0
      BY <1>1, <2>1, TableContinuesItself
    <2>2. CASE f # 0
      <3>1. p \in Reflection BY <1>1, <1>2, <2>2
      <3>2. Promotion(rules, p, user) \in PromotionStates(rules, user)
        BY <1>1, <3>1, PromotionContinues
      <3> HIDE DEF p
      <3>3. QED BY <2>2, <3>2, PromotionStatesGive
    <2>3. QED BY <2>1, <2>2
  <1>4. seen \in Seq(Reflection) /\ Len(seen) = n
    <2>1. CASE f = 0
      BY <1>1, <2>1
    <2>2. CASE f # 0
      <3>1. f \in 1..n /\ p \in Reflection BY <1>1, <1>2, <2>2
      <3>2. Judged(p, own.own) \in Reflection BY <3>1, JudgedTyped
      <3> HIDE DEF p, own
      <3>3. QED BY <1>1, <2>2, <3>1, <3>2, ExceptSeq
    <2>3. QED BY <2>1, <2>2
  <1> HIDE DEF own, seen
  <1>5. start \in EndStates(rules, n)
    BY <1>3, <1>4 DEF EndStates
  <1> HIDE DEF start
  <1>6. end \in EndStates(rules, n)
    BY <1>1, <1>4, <1>5, AutoPromotionsContinue
  <1> HIDE DEF end
  <1>7. /\ rules' \in Seq(Rule) /\ reflections' \in Seq(Reflection) /\ Len(reflections') = n
        /\ TableContinues(rules, rules') /\ VoiceOf(rules')
    BY <1>2, <1>6 DEF EndStates
  <1>8. RulesTypeOK'
    BY <1>1, <1>2, <1>7 DEF RulesInv, RulesTypeOK
  <1>9. QED BY <1>1, <1>7, <1>8 DEF RulesInv, RulesContinue, OneVoice, VoiceOf, Ids

LEMMA StoresKeeps ==
    ASSUME RulesInv, NEW p \in Proposals, Stores(p)
    PROVE  ReflectionsKept /\ Len(reflections') = Len(reflections) + 1
  <1> DEFINE new == [candidates |-> p.candidates, recurrence |-> p.recurrence,
                     confident |-> p.confident, strong |-> p.strong, state |-> "pending"]
  <1>1. new \in Reflection
    BY RulesAssumption DEF Reflection
  <1> HIDE DEF new
  <1>2. reflections' = Append(reflections, new) /\ Len(reflections) < MaxReflections
    BY DEF Stores, new
  <1>3. Len(reflections) \in Nat /\ reflections \in Seq(Reflection)
    BY RulesTyped
  <1>4. reflections' \in Seq(Reflection) /\ Len(reflections') = Len(reflections) + 1
    BY <1>1, <1>2, <1>3
  <1>5. MaxReflections \in Nat
    BY RulesAssumption
  <1>6. QED BY <1>2, <1>3, <1>4, <1>5 DEF ReflectionsKept

\* A read reviews what it lists, and applies some of it.
LEMMA UsesKeeps ==
    ASSUME RulesInv, NEW user, NEW all \in BOOLEAN, NEW chosen, Uses(user, all, chosen)
    PROVE  /\ RowsKept
           /\ chosen \subseteq Ids' /\ \A i \in chosen : Concerns(rules'[i], user)
           /\ Cardinality(chosen) <= RuleLimit
  <1> DEFINE read == ReadRows(Listed(user, all))
             left == {i \in Listed(user, all) : Shown(read[i], all)}
  <1>1. /\ chosen \subseteq left /\ Cardinality(chosen) = Limited(Cardinality(left))
        /\ rules' = [i \in Ids |-> IF i \in chosen THEN Applied(read[i]) ELSE read[i]]
    BY DEF Uses
  <1>2. Today /\ \A i \in Ids : rules[i] \in Rule
    BY RulesTyped
  <1>3. \A i \in Ids : Continues(rules[i], read[i])
    BY <1>2, ReviewedContinues DEF ReadRows, Continues
  <1> HIDE DEF read
  <1>4. \A i \in Ids : Continues(rules[i], Applied(read[i]))
    BY <1>2, <1>3, AppliedContinues, ContinuesFurther DEF Continues
  <1>5. \A i \in Ids : Continues(rules[i], rules'[i])
    BY <1>1, <1>3, <1>4
  <1>6. DOMAIN rules' = DOMAIN rules /\ rules' = [i \in DOMAIN rules' |-> rules'[i]]
    BY <1>1 DEF Ids
  <1>7. RowsKept
    BY <1>5, <1>6, RulesTyped, RewrittenTable DEF RowsKept, Ids
  <1>8. left \subseteq Listed(user, all)
    OBVIOUS
  <1>9. chosen \subseteq Ids' /\ \A i \in chosen : Concerns(rules'[i], user)
    BY <1>1, <1>5, <1>6, <1>8 DEF Listed, Ids, Continues, Concerns
  <1>10. Cardinality(chosen) <= RuleLimit
    <2>1. IsFiniteSet(Ids)
      <3>1. Len(rules) \in Nat /\ Ids = 1..Len(rules) BY RulesTyped
      <3>2. IsFiniteSet(1..Len(rules)) BY <3>1, FS_Interval
      <3>3. QED BY <3>1, <3>2
    <2>2. left \subseteq Ids BY <1>8 DEF Listed
    <2> HIDE DEF left
    <2>3. Cardinality(left) \in Nat BY <2>1, <2>2, FS_Subset, FS_CardinalityType
    <2>4. RuleLimit \in Nat BY RulesAssumption
    <2>5. QED BY <1>1, <2>3, <2>4 DEF Limited
  <1>11. QED BY <1>7, <1>9, <1>10

LEMMA RetireAtEndKeeps ==
    ASSUME RulesInv, NEW user, RetireAtEnd(user)
    PROVE  RulesInv' /\ RulesContinue
  <1> DEFINE table == Demoted
             leaves(r) == InForce(r) /\ r.statement \in Ephemeral /\ (user = Everybody \/ Concerns(r, user))
             gone(r) == [Retired(Frozen(r, "session_expired"), "session_expired") EXCEPT !.frozen = TRUE]
             stale(r) == [Reviewed(r) EXCEPT !.active = FALSE, !.maturity = "emerging"]
  <1>1. Today /\ \A i \in Ids : rules[i] \in Rule
    BY RulesTyped
  <1>2. ASSUME NEW r \in Rule PROVE Continues(r, stale(r))
    <2>1. Continues(r, Reviewed(r)) BY <1>1, ReviewedContinues
    <2>2. QED BY <2>1 DEF Continues, Rule, InForce
  <1>3. ASSUME NEW r \in Rule PROVE Continues(r, gone(r))
    <2>1. "session_expired" \in Reasons BY DEF Reasons
    <2>2. Continues(r, Frozen(r, "session_expired")) BY <1>1, <2>1, FrozenContinues
    <2>3. Continues(Frozen(r, "session_expired"), Retired(Frozen(r, "session_expired"), "session_expired"))
      BY <2>1, <2>2, RetiredContinues DEF Continues
    <2>4. Continues(r, Retired(Frozen(r, "session_expired"), "session_expired"))
      BY <2>2, <2>3, ContinuesFurther
    <2>5. QED BY <2>4 DEF Continues, Rule, InForce
  <1> HIDE DEF stale, gone
  <1>4. ASSUME NEW i \in Ids PROVE Continues(rules[i], table[i])
    <2>1. table[i] = rules[i] \/ table[i] = stale(rules[i])
      BY DEF Demoted, stale
    <2>2. Continues(rules[i], rules[i]) BY <1>1 DEF Continues
    <2>3. QED BY <1>1, <1>2, <2>1, <2>2
  <1> HIDE DEF table
  <1>5. /\ rules' = [i \in Ids |-> IF leaves(table[i]) THEN gone(table[i]) ELSE table[i]]
        /\ UNCHANGED <<reflections, today>>
    BY Zenon DEF RetireAtEnd, table, gone
  <1> HIDE DEF leaves
  <1>6. ASSUME NEW i \in Ids PROVE Continues(rules[i], rules'[i])
    <2>1. table[i] \in Rule BY <1>4 DEF Continues
    <2>2. Continues(table[i], gone(table[i])) BY <1>3, <2>1
    <2>3. Continues(rules[i], gone(table[i])) BY <1>4, <2>2, ContinuesFurther
    <2>4. QED BY <1>4, <1>5, <2>3
  <1>7. DOMAIN rules' = DOMAIN rules /\ rules' = [i \in DOMAIN rules' |-> rules'[i]]
    BY <1>5 DEF Ids
  <1>8. QED BY <1>5, <1>6, <1>7, RewritingKeeps

LEMMA MutateKeeps ==
    ASSUME RulesInv, NEW i, Mutate(i)
    PROVE  RulesInv' /\ RulesContinue
  <1> DEFINE read == Reviewed(rules[i])
  <1>1. i \in Ids /\ Today /\ \A k \in Ids : rules[k] \in Rule
    BY RulesTyped DEF Mutate
  <1>2. read \in Rule /\ Continues(rules[i], read)
    BY <1>1, ReviewedContinues DEF Continues
  <1> HIDE DEF read
  <1>3. \A reason \in Reasons : Continues(read, Frozen(read, reason))
    BY <1>1, <1>2, FrozenContinues
  <1>4. Continues(read, read)
    BY <1>2 DEF Continues
  <1>5. Continues(read, Freeze(read))
    <2>1. Continues(read, Frozen(read, "manual")) BY <1>3 DEF Reasons
    <2>2. QED BY <1>4, <2>1 DEF Freeze, Continues, Rule, InForce, Reasons
  <1>6. Continues(read, Deprecate(read))
    <2>1. Continues(read, Frozen(read, "deprecated")) BY <1>3 DEF Reasons
    <2>2. QED BY <1>4, <2>1 DEF Deprecate, Continues, Rule, InForce, Reasons
  <1>7. Continues(read, RollBack(read))
    BY <1>2 DEF RollBack, Continues, Rule, InForce
  <1>8. Continues(read, Replace(read))
    <2>1. Continues(read, Frozen(read, "rollback")) BY <1>3 DEF Reasons
    <2>2. QED BY <2>1 DEF Replace, Continues, Rule, InForce
  <1>9. PICK new \in {Freeze(read), Deprecate(read), RollBack(read), Replace(read)} :
            rules' = [rules EXCEPT ![i] = new]
    BY DEF Mutate, read
  <1>10. Continues(read, new)
    BY <1>5, <1>6, <1>7, <1>8
  <1>11. Continues(rules[i], new)
    BY <1>2, <1>10, ContinuesFurther
  <1>12. \A k \in Ids : Continues(rules[k], rules'[k])
    BY <1>1, <1>9, <1>11 DEF Continues, Ids
  <1>13. DOMAIN rules' = DOMAIN rules /\ rules' = [k \in DOMAIN rules' |-> rules'[k]]
    BY <1>9
  <1>14. UNCHANGED <<reflections, today>>
    BY DEF Mutate
  <1>15. QED BY <1>12, <1>13, <1>14, RewritingKeeps

LEMMA NextDayKeeps ==
    ASSUME RulesInv, NextDay
    PROVE  RulesInv' /\ RulesContinue
  <1>1. /\ rules \in Seq(Rule) /\ Len(reflections) \in Nat /\ today \in 0..MaxDay
    BY RulesTyped DEF Today
  <1>2. MaxDay \in Nat /\ today' \in 0..MaxDay /\ UNCHANGED <<rules, reflections>>
    BY <1>1, RulesAssumption DEF NextDay
  <1>3. TableContinues(rules, rules')
    BY <1>1, <1>2, TableContinuesItself
  <1>4. RulesInv'
    BY <1>2 DEF RulesInv, RulesTypeOK, OneVoice, Ids
  <1>5. QED BY <1>1, <1>2, <1>3, <1>4 DEF RulesContinue

LEMMA RulesStepKeeps ==
    ASSUME RulesInv, RulesNext
    PROVE  RulesInv' /\ RulesContinue
  <1>1. ASSUME NEW p \in Proposals, Reflect(p) PROVE RulesInv' /\ RulesContinue
    BY <1>1, StoresKeeps, UnchangedKept, KeptTogether DEF Reflect
  <1>2. ASSUME NEW f \in 0..Len(reflections), NEW user \in Owners, PromoteAtEnd(f, user)
        PROVE  RulesInv' /\ RulesContinue
    BY <1>2, PromoteAtEndKeeps
  <1>3. ASSUME NEW user \in Owners, RetireAtEnd(user) PROVE RulesInv' /\ RulesContinue
    BY <1>3, RetireAtEndKeeps
  <1>4. ASSUME NEW user \in Owners, NEW all \in BOOLEAN, NEW chosen \in SUBSET Ids,
               Lookup(user, all, chosen)
        PROVE  RulesInv' /\ RulesContinue
    BY <1>4, UsesKeeps, UnchangedKept, KeptTogether DEF Lookup
  <1>5. ASSUME NEW i \in Ids, Mutate(i) PROVE RulesInv' /\ RulesContinue
    BY <1>5, MutateKeeps
  <1>6. CASE NextDay
    BY <1>6, NextDayKeeps
  <1>7. QED BY <1>1, <1>2, <1>3, <1>4, <1>5, <1>6 DEF RulesNext, RulesStep, Owners

LEMMA RulesStart == RulesInit => RulesInv
  <1> SUFFICES ASSUME RulesInit PROVE RulesInv
    OBVIOUS
  <1>1. {MaxRules, MaxReflections, MaxDay} \subseteq Nat
    BY RulesAssumption
  <1>2. rules \in Seq(Rule) /\ Len(rules) = 0 /\ reflections \in Seq(Reflection) /\ Len(reflections) = 0
    BY EmptySeq DEF RulesInit
  <1>3. Ids = {}
    BY DEF RulesInit, Ids
  <1>4. QED BY <1>1, <1>2, <1>3 DEF RulesInit, RulesInv, RulesTypeOK, OneVoice

LEMMA RulesStandStill ==
    ASSUME RulesInv, UNCHANGED rulesVars
    PROVE  RulesInv' /\ RulesContinue
  <1>1. UNCHANGED <<rules, reflections, today>>
    BY DEF rulesVars
  <1>2. rules \in Seq(Rule) /\ Len(reflections) \in Nat
    BY RulesTyped
  <1>3. QED BY <1>1, <1>2, TableContinuesItself DEF RulesInv, RulesTypeOK, OneVoice, Ids, RulesContinue

LEMMA NeverBack == RulesContinue => \A i \in DOMAIN rules : ~InForce(rules[i]) => ~InForce(rules'[i])
  BY DEF RulesContinue, TableContinues, Continues

\* Any number of users, reflections and tools that work on the rules
\* (core/behavior): two rules of one owner in force never contradict or repeat
\* each other.
THEOREM RulesSpeakWithOneVoice == RulesSpec => []OneVoice
  <1>1. RulesInit => RulesInv
    BY RulesStart
  <1>2. RulesInv /\ [RulesNext]_rulesVars => RulesInv'
    BY RulesStepKeeps, RulesStandStill
  <1>3. RulesInv => OneVoice
    BY DEF RulesInv
  <1> QED BY <1>1, <1>2, <1>3, PTL DEF RulesSpec
-----------------------------------------------------------------------------
(***************************************************************************)
(* The sessions.  Whoever a session is bound to, its snapshot was taken    *)
(* for; a message under way holds what concerns the user it was received   *)
(* from; and owners of rules do not change.                                *)
(***************************************************************************)
\* What the context of a session is, given the rules.
ContextFits(table, context) ==
    /\ context \in [kept : BOOLEAN, user : Owners,
                    snapshot : SUBSET DOMAIN table, applied : SUBSET DOMAIN table]
    /\ Cardinality(context.snapshot) <= RuleLimit
    /\ context.kept => \A i \in context.snapshot \cup context.applied : Concerns(table[i], context.user)

ScopeFits(table, scope, context) ==
    /\ scope \in [user : Owners, bound : Owners \cup {Unbound}]
    /\ scope.bound # Unbound => \A i \in context.snapshot : Concerns(table[i], scope.bound)

Received(turn) == turn.at \in {"recalling", "preloading"}

TurnFits(table, turn, context) ==
    /\ turn \in [at : {"idle", "recalling", "preloading", "running"},
                 user : Owners, held : SUBSET DOMAIN table]
    /\ Received(turn) => \A i \in context.snapshot \cup turn.held : Concerns(table[i], turn.user)

CountsFit(turn, c, m, k) ==
    /\ m \in 0..MaxMessages /\ c \in 0..m /\ k \in 0..m
    /\ Received(turn) => m < MaxMessages

EndFits(n, end) ==
    end \in [at : {"free", "promoting", "retiring", "learning", "relating"},
             session : Sessions, user : Owners, reflection : 0..n]

Shapes ==
    /\ scopes = [s \in Sessions |-> scopes[s]]
    /\ contexts = [s \in Sessions |-> contexts[s]]
    /\ turns = [s \in Sessions |-> turns[s]]
    /\ counted = [s \in Sessions |-> counted[s]]
    /\ messages = [s \in Sessions |-> messages[s]]
    /\ consolidations = [s \in Sessions |-> consolidations[s]]
    /\ ends = [e \in Ends |-> ends[e]]

HooksInv ==
    /\ Shapes
    /\ \A s \in Sessions :
          /\ ContextFits(rules, contexts[s])
          /\ ScopeFits(rules, scopes[s], contexts[s])
          /\ TurnFits(rules, turns[s], contexts[s])
          /\ CountsFit(turns[s], counted[s], messages[s], consolidations[s])
    /\ \A e \in Ends : EndFits(Len(reflections), ends[e])

SessionsInv == RulesInv /\ HooksInv

LEMMA HooksTyped ==
    ASSUME SessionsInv
    PROVE  HooksTypeOK /\ InjectedForUser
  <1> USE DEF SessionsInv, HooksInv
  <1>1. InjectedForUser
    BY DEF InjectedForUser, ContextFits
  <1>2. scopes \in [Sessions -> [user : Owners, bound : Owners \cup {Unbound}]]
    <2>1. \A s \in Sessions : scopes[s] \in [user : Owners, bound : Owners \cup {Unbound}]
      BY DEF ScopeFits
    <2>2. QED BY <2>1 DEF Shapes
  <1>3. contexts \in [Sessions -> [kept : BOOLEAN, user : Owners, snapshot : SUBSET Ids, applied : SUBSET Ids]]
    <2>1. \A s \in Sessions :
             contexts[s] \in [kept : BOOLEAN, user : Owners, snapshot : SUBSET Ids, applied : SUBSET Ids]
      BY DEF ContextFits, Ids
    <2>2. QED BY <2>1 DEF Shapes
  <1>4. \A s \in Sessions : Cardinality(contexts[s].snapshot) <= RuleLimit
    BY DEF ContextFits
  <1>5. turns \in [Sessions -> [at : {"idle", "recalling", "preloading", "running"},
                                user : Owners, held : SUBSET Ids]]
    <2>1. \A s \in Sessions : turns[s] \in [at : {"idle", "recalling", "preloading", "running"},
                                            user : Owners, held : SUBSET Ids]
      BY DEF TurnFits, Ids
    <2>2. QED BY <2>1 DEF Shapes
  <1>6. ends \in [Ends -> [at : {"free", "promoting", "retiring", "learning", "relating"},
                           session : Sessions, user : Owners, reflection : {0} \cup DOMAIN reflections]]
    <2>1. {0} \cup DOMAIN reflections = 0..Len(reflections)
      BY RulesTyped
    <2>2. \A e \in Ends : ends[e] \in [at : {"free", "promoting", "retiring", "learning", "relating"},
                           session : Sessions, user : Owners, reflection : {0} \cup DOMAIN reflections]
      BY <2>1 DEF EndFits
    <2>3. QED BY <2>2 DEF Shapes
  <1>7. /\ counted \in [Sessions -> 0..MaxMessages] /\ messages \in [Sessions -> 0..MaxMessages]
        /\ consolidations \in [Sessions -> 0..MaxMessages]
    <2>1. MaxMessages \in Nat
      BY SessionsAssumption
    <2>2. \A s \in Sessions : /\ counted[s] \in 0..MaxMessages /\ messages[s] \in 0..MaxMessages
                              /\ consolidations[s] \in 0..MaxMessages
      BY <2>1 DEF CountsFit
    <2>3. QED BY <2>2 DEF Shapes
  <1>8. QED BY <1>1, <1>2, <1>3, <1>4, <1>5, <1>6, <1>7 DEF HooksTypeOK

LEMMA SessionsStart == SessionsInit => SessionsInv
  <1> SUFFICES ASSUME SessionsInit PROVE SessionsInv
    OBVIOUS
  <1>1. RulesInv
    BY RulesStart DEF SessionsInit
  <1>2. Shapes
    BY DEF SessionsInit, HooksInit, Shapes
  <1>3. Everybody \in Owners /\ RuleLimit \in Nat /\ MaxMessages \in Nat /\ Cardinality({}) = 0
    BY RulesAssumption, SessionsAssumption, FS_EmptySet DEF Owners
  <1>4. ASSUME NEW s \in Sessions
        PROVE  /\ ContextFits(rules, contexts[s])
               /\ ScopeFits(rules, scopes[s], contexts[s])
               /\ TurnFits(rules, turns[s], contexts[s])
               /\ CountsFit(turns[s], counted[s], messages[s], consolidations[s])
    <2>1. /\ contexts[s] = NoContext /\ scopes[s] = NoScope /\ turns[s] = NoTurn
          /\ counted[s] = 0 /\ messages[s] = 0 /\ consolidations[s] = 0
      BY DEF SessionsInit, HooksInit
    <2>2. ContextFits(rules, contexts[s])
      BY <1>3, <2>1 DEF ContextFits, NoContext
    <2>3. ScopeFits(rules, scopes[s], contexts[s])
      BY <1>3, <2>1 DEF ScopeFits, NoContext, NoScope
    <2>4. TurnFits(rules, turns[s], contexts[s]) /\ ~Received(turns[s])
      BY <1>3, <2>1 DEF TurnFits, NoTurn, Received
    <2>5. QED BY <1>3, <2>1, <2>2, <2>3, <2>4 DEF CountsFit
  <1>5. ASSUME NEW e \in Ends PROVE EndFits(Len(reflections), ends[e])
    <2>1. Len(reflections) \in Nat
      BY <1>1, RulesTyped
    <2>2. (CHOOSE s \in Sessions : TRUE) \in Sessions
      BY SessionsAssumption
    <2>3. ends[e] = NoEnd
      BY DEF SessionsInit, HooksInit
    <2>4. QED BY <1>3, <2>1, <2>2, <2>3 DEF EndFits, NoEnd
  <1>6. QED BY <1>1, <1>2, <1>4, <1>5 DEF SessionsInv, HooksInv

\* What fits the rules still does when the rules only continue.
LEMMA FitsContinue ==
    ASSUME RulesContinue, NEW context, NEW scope, NEW turn
    PROVE  /\ ContextFits(rules, context) => ContextFits(rules', context)
           /\ ContextFits(rules, context) /\ ScopeFits(rules, scope, context)
                => ScopeFits(rules', scope, context)
           /\ ContextFits(rules, context) /\ TurnFits(rules, turn, context)
                => TurnFits(rules', turn, context)
  <1>1. /\ DOMAIN rules \subseteq DOMAIN rules'
        /\ \A i \in DOMAIN rules : \A user : Concerns(rules[i], user) => Concerns(rules'[i], user)
    BY DEF RulesContinue, TableContinues, Continues, Concerns
  <1>2. ContextFits(rules, context) => ContextFits(rules', context)
    BY <1>1 DEF ContextFits
  <1>3. ContextFits(rules, context) /\ ScopeFits(rules, scope, context) => ScopeFits(rules', scope, context)
    BY <1>1 DEF ContextFits, ScopeFits
  <1>4. ContextFits(rules, context) /\ TurnFits(rules, turn, context) => TurnFits(rules', turn, context)
    BY <1>1 DEF ContextFits, TurnFits
  <1>5. QED BY <1>2, <1>3, <1>4

\* A step touches no session but these.
Only(S) ==
    \A r \in Sessions \ S :
        /\ contexts'[r] = contexts[r] /\ scopes'[r] = scopes[r] /\ turns'[r] = turns[r]
        /\ counted'[r] = counted[r] /\ messages'[r] = messages[r]
        /\ consolidations'[r] = consolidations[r]

\* The sessions a step does not touch keep what fits them.
LEMMA OthersContinue ==
    ASSUME SessionsInv, RulesInv', RulesContinue, Shapes', NEW S \in SUBSET Sessions, Only(S),
           \A s \in S :
              /\ ContextFits(rules', contexts'[s])
              /\ ScopeFits(rules', scopes'[s], contexts'[s])
              /\ TurnFits(rules', turns'[s], contexts'[s])
              /\ CountsFit(turns'[s], counted'[s], messages'[s], consolidations'[s]),
           \A e \in Ends : EndFits(Len(reflections'), ends'[e])
    PROVE  SessionsInv'
  <1>1. ASSUME NEW r \in Sessions \ S
        PROVE  /\ ContextFits(rules', contexts'[r])
               /\ ScopeFits(rules', scopes'[r], contexts'[r])
               /\ TurnFits(rules', turns'[r], contexts'[r])
               /\ CountsFit(turns'[r], counted'[r], messages'[r], consolidations'[r])
    <2>1. /\ ContextFits(rules, contexts[r])
          /\ ScopeFits(rules, scopes[r], contexts[r])
          /\ TurnFits(rules, turns[r], contexts[r])
          /\ CountsFit(turns[r], counted[r], messages[r], consolidations[r])
      BY DEF SessionsInv, HooksInv
    <2>2. QED BY <1>1, <2>1, FitsContinue DEF Only
  <1>2. QED BY <1>1 DEF SessionsInv, HooksInv

LEMMA EndsContinue ==
    ASSUME SessionsInv, RulesContinue, RulesInv', NEW e \in Ends, UNCHANGED ends
    PROVE  EndFits(Len(reflections'), ends'[e])
  <1>1. EndFits(Len(reflections), ends[e])
    BY DEF SessionsInv, HooksInv
  <1>2. Len(reflections) \in Nat /\ Len(reflections') \in Nat /\ Len(reflections) <= Len(reflections')
    BY RulesTyped, LenProperties DEF SessionsInv, RulesContinue, RulesInv, RulesTypeOK
  <1>3. 0..Len(reflections) \subseteq 0..Len(reflections')
    BY <1>2
  <1>4. QED BY <1>1, <1>3 DEF EndFits

LEMMA RulesApartKeep ==
    ASSUME SessionsInv, RulesInv', RulesContinue, UNCHANGED hookVars
    PROVE  SessionsInv'
  <1>1. Shapes'
    BY DEF hookVars, Shapes, SessionsInv, HooksInv
  <1>2. \A e \in Ends : EndFits(Len(reflections'), ends'[e])
    BY EndsContinue DEF hookVars
  <1>3. Only({})
    BY DEF hookVars, Only
  <1>4. QED BY <1>1, <1>2, <1>3, OthersContinue

-----------------------------------------------------------------------------
LEMMA MergedOwner ==
    ASSUME NEW user \in Owners, NEW scope \in [user : Owners, bound : Owners \cup {Unbound}]
    PROVE  /\ Merged(scope, user) \in [user : Owners, bound : Owners \cup {Unbound}]
           /\ Merged(scope, user).bound = scope.bound
  BY DEF Merged

LEMMA BindingsAreOwners == Bindings \subseteq Owners
  BY DEF Bindings, Binding

\* A hook that synchronises its session leaves it bound to the user it is of,
\* with a snapshot for that user.
LEMMA SyncFits ==
    ASSUME SessionsInv, NEW s \in Sessions, NEW user \in Owners, Sync(s, user)
    PROVE  /\ RowsKept
           /\ scopes' = [scopes EXCEPT ![s] = scopes'[s]]
           /\ contexts' = [contexts EXCEPT ![s] = contexts'[s]]
           /\ ContextFits(rules', contexts'[s])
           /\ ScopeFits(rules', scopes'[s], contexts'[s])
           /\ scopes'[s].user \in Owners
           /\ \A i \in contexts'[s].snapshot : Concerns(rules'[i], scopes'[s].user)
  <1> DEFINE scope == Merged(scopes[s], user)
             now == [scope EXCEPT !.bound = IF IsBound(scope) THEN scope.bound ELSE scope.user]
  <1>1. /\ Shapes /\ RulesInv
        /\ ContextFits(rules, contexts[s]) /\ ScopeFits(rules, scopes[s], contexts[s])
    BY DEF SessionsInv, HooksInv
  <1>2. scopes[s] \in [user : Owners, bound : Owners \cup {Unbound}]
    BY <1>1 DEF ScopeFits
  <1>3. scope \in [user : Owners, bound : Owners \cup {Unbound}] /\ scope.bound = scopes[s].bound
    BY <1>2, MergedOwner
  <1> HIDE DEF scope
  <1>4. /\ now \in [user : Owners, bound : Owners \cup {Unbound}]
        /\ now.user = scope.user /\ now.bound = scope.user /\ scope.user \in Owners
    BY <1>3 DEF IsBound
  <1> HIDE DEF now
  <1>5. /\ scopes' = [scopes EXCEPT ![s] = now]
        /\ IF IsBound(scope) THEN UNCHANGED <<rules, contexts>> ELSE Start(s, scope.user)
    BY DEF Sync, scope, now
  <1>6. scopes'[s] = now /\ scopes' = [scopes EXCEPT ![s] = scopes'[s]]
    BY <1>1, <1>5 DEF Shapes
  <1>7. CASE IsBound(scope)
    <2>1. contexts'[s] = contexts[s] /\ contexts' = [contexts EXCEPT ![s] = contexts'[s]] /\ rules' = rules
      BY <1>1, <1>5, <1>7 DEF Shapes
    <2>2. RowsKept
      BY <1>1, <2>1, UnchangedKept
    <2>3. scopes[s].bound = scope.user /\ scope.user # Unbound
      BY <1>3, <1>4, <1>7, SessionsAssumption DEF IsBound, Owners
    <2>4. \A i \in contexts'[s].snapshot : Concerns(rules'[i], scope.user)
      BY <1>1, <2>1, <2>3 DEF ScopeFits
    <2>5. ScopeFits(rules', scopes'[s], contexts'[s])
      BY <1>4, <1>6, <2>4 DEF ScopeFits
    <2>6. QED BY <1>1, <1>4, <1>6, <2>1, <2>2, <2>4, <2>5
  <1>8. CASE ~IsBound(scope)
    <2>1. PICK chosen \in SUBSET Ids :
              /\ Uses(scope.user, FALSE, chosen)
              /\ contexts' = [contexts EXCEPT ![s] =
                    [kept |-> TRUE, user |-> scope.user, snapshot |-> chosen, applied |-> {}]]
      BY <1>5, <1>8 DEF Start
    <2>2. /\ RowsKept /\ chosen \subseteq Ids' /\ \A i \in chosen : Concerns(rules'[i], scope.user)
          /\ Cardinality(chosen) <= RuleLimit
      BY <1>1, <2>1, UsesKeeps
    <2>3. /\ contexts'[s] = [kept |-> TRUE, user |-> scope.user, snapshot |-> chosen, applied |-> {}]
          /\ contexts' = [contexts EXCEPT ![s] = contexts'[s]]
      BY <1>1, <2>1 DEF Shapes
    <2>4. ContextFits(rules', contexts'[s])
      BY <1>4, <2>2, <2>3 DEF ContextFits, Ids
    <2>5. ScopeFits(rules', scopes'[s], contexts'[s])
      BY <1>4, <1>6, <2>2, <2>3 DEF ScopeFits
    <2>6. QED BY <1>4, <1>6, <2>2, <2>3, <2>4, <2>5
  <1>9. QED BY <1>7, <1>8

\* Hooks that synchronise a session and do no more with it than begin or end
\* its turn.
LEMMA SynchronizedKeeps ==
    ASSUME SessionsInv, NEW s \in Sessions, NEW user \in Owners, Sync(s, user),
           ReflectionsKept, UNCHANGED <<today, counted, messages, consolidations>>,
           turns' = [turns EXCEPT ![s] = turns'[s]],
           TurnFits(rules', turns'[s], contexts'[s]),
           Received(turns'[s]) => messages[s] < MaxMessages,
           ends' = [e \in Ends |-> ends'[e]],
           RulesInv' => \A e \in Ends : EndFits(Len(reflections'), ends'[e])
    PROVE  SessionsInv'
  <1>1. /\ RowsKept
        /\ scopes' = [scopes EXCEPT ![s] = scopes'[s]]
        /\ contexts' = [contexts EXCEPT ![s] = contexts'[s]]
        /\ ContextFits(rules', contexts'[s])
        /\ ScopeFits(rules', scopes'[s], contexts'[s])
    BY SyncFits
  <1>2. RulesInv' /\ RulesContinue
    BY <1>1, KeptTogether DEF SessionsInv
  <1>3. Shapes
    BY DEF SessionsInv, HooksInv
  <1>4. Shapes'
    BY <1>1, <1>3 DEF Shapes
  <1>5. Only({s})
    BY <1>1, <1>3 DEF Shapes, Only
  <1>6. CountsFit(turns'[s], counted'[s], messages'[s], consolidations'[s])
    <2>1. CountsFit(turns[s], counted[s], messages[s], consolidations[s])
      BY DEF SessionsInv, HooksInv
    <2>2. QED BY <2>1 DEF CountsFit
  <1>7. QED BY <1>1, <1>2, <1>4, <1>5, <1>6, OthersContinue

LEMMA SessionStartKeeps ==
    ASSUME SessionsInv, NEW s \in Sessions, NEW user \in Owners, SessionStart(s, user)
    PROVE  SessionsInv'
  <1>1. /\ Sync(s, user) /\ turns[s].at = "idle"
        /\ UNCHANGED <<reflections, today, turns, ends, counted, messages, consolidations>>
    BY DEF SessionStart
  <1>2. Shapes /\ RulesInv /\ TurnFits(rules, turns[s], contexts[s])
    BY DEF SessionsInv, HooksInv
  <1>3. RowsKept /\ DOMAIN rules' = DOMAIN rules
    BY <1>1, <1>2, SyncFits, RulesTyped, LenProperties DEF RowsKept, Ids
  <1>4. TurnFits(rules', turns'[s], contexts'[s]) /\ ~Received(turns'[s])
    BY <1>1, <1>2, <1>3 DEF TurnFits, Received
  <1>5. turns' = [turns EXCEPT ![s] = turns'[s]] /\ ends' = [e \in Ends |-> ends'[e]]
    BY <1>1, <1>2 DEF Shapes
  <1>6. ReflectionsKept
    BY <1>1, <1>2, UnchangedKept
  <1>7. RulesInv' => \A e \in Ends : EndFits(Len(reflections'), ends'[e])
    BY <1>1 DEF SessionsInv, HooksInv
  <1>8. QED BY <1>1, <1>4, <1>5, <1>6, <1>7, SynchronizedKeeps

LEMMA BeforeAgentStartKeeps ==
    ASSUME SessionsInv, NEW s \in Sessions, NEW user \in Owners, BeforeAgentStart(s, user)
    PROVE  SessionsInv'
  <1> DEFINE turn == [at |-> "recalling", user |-> scopes'[s].user, held |-> {}]
  <1>1. /\ Sync(s, user) /\ messages[s] < MaxMessages
        /\ turns' = [turns EXCEPT ![s] = turn]
        /\ UNCHANGED <<reflections, today, ends, counted, messages, consolidations>>
    BY DEF BeforeAgentStart
  <1>2. Shapes /\ RulesInv
    BY DEF SessionsInv, HooksInv
  <1>3. scopes'[s].user \in Owners /\ \A i \in contexts'[s].snapshot : Concerns(rules'[i], scopes'[s].user)
    BY <1>1, SyncFits
  <1>4. turns'[s] = turn /\ turns' = [turns EXCEPT ![s] = turns'[s]] /\ ends' = [e \in Ends |-> ends'[e]]
    BY <1>1, <1>2 DEF Shapes
  <1>5. TurnFits(rules', turns'[s], contexts'[s])
    BY <1>3, <1>4 DEF TurnFits
  <1>6. ReflectionsKept
    BY <1>1, <1>2, UnchangedKept
  <1>7. RulesInv' => \A e \in Ends : EndFits(Len(reflections'), ends'[e])
    BY <1>1 DEF SessionsInv, HooksInv
  <1> HIDE DEF turn
  <1>8. QED BY <1>1, <1>4, <1>5, <1>6, <1>7, SynchronizedKeeps

LEMMA AgentEndKeeps ==
    ASSUME SessionsInv, NEW s \in Sessions, NEW user \in Owners, NEW e \in Ends, AgentEnd(s, user, e)
    PROVE  SessionsInv'
  <1>1. /\ Sync(s, user) /\ turns' = [turns EXCEPT ![s] = NoTurn]
        /\ UNCHANGED <<today, counted, messages, consolidations>>
    BY DEF AgentEnd
  <1>2. PICK f \in {0, Len(reflections) + 1} :
          /\ IF f = 0 THEN UNCHANGED reflections ELSE \E p \in Proposals : p.recurrence = 1 /\ Stores(p)
          /\ ends' = [ends EXCEPT ![e] = [at |-> "promoting", session |-> s, user |-> scopes'[s].user, reflection |-> f]]
    BY DEF AgentEnd
  <1>3. Shapes /\ RulesInv /\ Len(reflections) \in Nat
    BY RulesTyped DEF SessionsInv, HooksInv
  <1>4. /\ ReflectionsKept /\ Len(reflections') \in Nat /\ f \in 0..Len(reflections')
        /\ Len(reflections) <= Len(reflections')
    <2>1. CASE f = 0
      BY <1>2, <1>3, <2>1, UnchangedKept DEF ReflectionsKept
    <2>2. CASE f # 0
      <3>1. \E p \in Proposals : Stores(p) BY <1>2, <2>2
      <3>2. ReflectionsKept /\ Len(reflections') = Len(reflections) + 1
        BY <1>3, <3>1, StoresKeeps
      <3>3. QED BY <1>2, <1>3, <2>2, <3>2
    <2>3. QED BY <2>1, <2>2
  <1>5. turns'[s] = NoTurn /\ turns' = [turns EXCEPT ![s] = turns'[s]]
    BY <1>1, <1>3 DEF Shapes
  <1>6. TurnFits(rules', turns'[s], contexts'[s]) /\ ~Received(turns'[s])
    BY <1>5 DEF TurnFits, NoTurn, Received, Owners
  <1>7. scopes'[s].user \in Owners
    BY <1>1, SyncFits
  <1>8. \A x \in Ends : EndFits(Len(reflections'), ends'[x])
    <2>1. ASSUME NEW x \in Ends PROVE EndFits(Len(reflections'), ends'[x])
      <3>1. EndFits(Len(reflections), ends[x])
        BY DEF SessionsInv, HooksInv
      <3>2. CASE x = e
        BY <1>2, <1>3, <1>4, <1>7, <3>2 DEF EndFits, Shapes
      <3>3. CASE x # e
        <4>1. ends'[x] = ends[x] BY <1>2, <1>3, <3>3 DEF Shapes
        <4>2. 0..Len(reflections) \subseteq 0..Len(reflections') BY <1>3, <1>4
        <4>3. QED BY <3>1, <4>1, <4>2 DEF EndFits
      <3>4. QED BY <3>2, <3>3
    <2>2. QED BY <2>1
  <1>9. ends' = [x \in Ends |-> ends'[x]]
    BY <1>2, <1>3 DEF Shapes
  <1>10. QED BY <1>1, <1>4, <1>5, <1>6, <1>8, <1>9, SynchronizedKeeps

\* What fits a session before a step.
LEMMA SessionFits ==
    ASSUME SessionsInv, NEW s \in Sessions
    PROVE  /\ Shapes /\ RulesInv
           /\ ContextFits(rules, contexts[s])
           /\ ScopeFits(rules, scopes[s], contexts[s])
           /\ TurnFits(rules, turns[s], contexts[s])
           /\ CountsFit(turns[s], counted[s], messages[s], consolidations[s])
           /\ scopes[s] \in [user : Owners, bound : Owners \cup {Unbound}]
           /\ turns[s] \in [at : {"idle", "recalling", "preloading", "running"},
                            user : Owners, held : SUBSET DOMAIN rules]
  BY DEF SessionsInv, HooksInv, ScopeFits, TurnFits

\* Steps of one session that leave the rules and the ends alone.
LEMMA OneSessionKeeps ==
    ASSUME SessionsInv, NEW s \in Sessions, UNCHANGED rulesVars, UNCHANGED ends,
           Shapes', Only({s}),
           ContextFits(rules, contexts'[s]), ScopeFits(rules, scopes'[s], contexts'[s]),
           TurnFits(rules, turns'[s], contexts'[s]),
           CountsFit(turns'[s], counted'[s], messages'[s], consolidations'[s])
    PROVE  SessionsInv'
  <1>1. RulesInv' /\ RulesContinue
    BY RulesStandStill DEF SessionsInv
  <1>2. rules' = rules
    BY DEF rulesVars
  <1>3. \A e \in Ends : EndFits(Len(reflections'), ends'[e])
    BY <1>1, EndsContinue
  <1>4. QED BY <1>1, <1>2, <1>3, OthersContinue

LEMMA ToolCallKeeps ==
    ASSUME SessionsInv, NEW s \in Sessions, NEW user \in Owners,
           ToolCall(s, user) \/ SessionEnd(s)
    PROVE  SessionsInv'
  <1> DEFINE scope == Merged(scopes[s], user)
  <1>1. /\ scope \in [user : Owners, bound : Owners \cup {Unbound}] /\ scope.bound = scopes[s].bound
        /\ NoScope \in [user : Owners, bound : Owners \cup {Unbound}] /\ NoScope.bound = Unbound
    BY SessionFits, MergedOwner DEF NoScope, Owners
  <1> HIDE DEF scope
  <1>2. PICK new \in {scope, NoScope} : scopes' = [scopes EXCEPT ![s] = new]
    BY DEF ToolCall, SessionEnd, scope
  <1>3. UNCHANGED <<rulesVars, contexts, turns, ends, counted, messages, consolidations>>
    BY DEF ToolCall, SessionEnd
  <1>4. scopes'[s] = new /\ Shapes' /\ Only({s})
    BY <1>2, <1>3, SessionFits DEF Shapes, Only
  <1>5. ScopeFits(rules, new, contexts[s])
    BY <1>1, SessionFits DEF ScopeFits
  <1>6. QED BY <1>3, <1>4, <1>5, SessionFits, OneSessionKeeps

LEMMA StartFailsKeeps ==
    ASSUME SessionsInv, NEW s \in Sessions, NEW user \in Owners, StartFails(s, user)
    PROVE  SessionsInv'
  <1> DEFINE scope == Merged(scopes[s], user)
             turn == [turns[s] EXCEPT !.at = "running"]
  <1>1. /\ scope \in [user : Owners, bound : Owners \cup {Unbound}] /\ scope.bound = scopes[s].bound
    BY SessionFits, MergedOwner
  <1> HIDE DEF scope
  <1>2. /\ scopes' = [scopes EXCEPT ![s] = scope] /\ turns' = [turns EXCEPT ![s] = turn]
        /\ UNCHANGED <<rulesVars, contexts, ends, counted, messages, consolidations>>
    BY DEF StartFails, scope
  <1>3. scopes'[s] = scope /\ turns'[s] = turn /\ Shapes' /\ Only({s})
    BY <1>2, SessionFits DEF Shapes, Only
  <1>4. ScopeFits(rules, scope, contexts[s])
    BY <1>1, SessionFits DEF ScopeFits
  <1>5. TurnFits(rules, turn, contexts[s]) /\ ~Received(turn)
    BY SessionFits DEF TurnFits, Received
  <1> HIDE DEF turn
  <1>6. CountsFit(turn, counted[s], messages[s], consolidations[s])
    BY <1>5, SessionFits DEF CountsFit
  <1>7. QED BY <1>2, <1>3, <1>4, <1>5, <1>6, SessionFits, OneSessionKeeps

LEMMA RecalledKeeps ==
    ASSUME SessionsInv, NEW s \in Sessions, Recalled(s)
    PROVE  SessionsInv'
  <1> DEFINE turn == [turns[s] EXCEPT !.at = "preloading", !.held = contexts[s].snapshot]
  <1>1. /\ turns[s].at = "recalling" /\ turns' = [turns EXCEPT ![s] = turn]
        /\ UNCHANGED <<rulesVars, scopes, contexts, ends, counted, messages, consolidations>>
    BY DEF Recalled
  <1>2. turns'[s] = turn /\ Shapes' /\ Only({s})
    BY <1>1, SessionFits DEF Shapes, Only
  <1>3. contexts[s].snapshot \in SUBSET DOMAIN rules
    BY SessionFits DEF ContextFits
  <1>4. TurnFits(rules, turn, contexts[s])
    BY <1>1, <1>3, SessionFits DEF TurnFits, Received
  <1>5. CountsFit(turn, counted[s], messages[s], consolidations[s])
    BY <1>1, SessionFits DEF CountsFit, Received
  <1> HIDE DEF turn
  <1>6. QED BY <1>1, <1>2, <1>4, <1>5, SessionFits, OneSessionKeeps

LEMMA GoesOnKeeps ==
    ASSUME SessionsInv, NEW s \in Sessions, GoesOn(s)
    PROVE  SessionsInv'
  <1>1. /\ turns' = [turns EXCEPT ![s] = NoTurn]
        /\ UNCHANGED <<rulesVars, scopes, contexts, ends, counted, messages, consolidations>>
    BY DEF GoesOn
  <1>2. turns'[s] = NoTurn /\ Shapes' /\ Only({s})
    BY <1>1, SessionFits DEF Shapes, Only
  <1>3. TurnFits(rules, NoTurn, contexts[s]) /\ ~Received(NoTurn)
    BY DEF TurnFits, NoTurn, Received, Owners
  <1>4. CountsFit(NoTurn, counted[s], messages[s], consolidations[s])
    BY <1>3, SessionFits DEF CountsFit
  <1>5. QED BY <1>1, <1>2, <1>3, <1>4, SessionFits, OneSessionKeeps

\* The answer to a message: rules of its user, and of the snapshot that was
\* held meanwhile.
LEMMA AnswerKeeps ==
    ASSUME SessionsInv, NEW s \in Sessions, NEW fitting, Answer(s, fitting)
    PROVE  SessionsInv'
  <1> DEFINE user == turns[s].user
             turn == [NoTurn EXCEPT !.at = "running"]
  <1>1. PICK chosen \in SUBSET Ids :
          /\ Uses(user, FALSE, chosen)
          /\ contexts' = [contexts EXCEPT ![s] =
                 [contexts[s] EXCEPT !.kept = TRUE, !.user = user, !.applied = chosen \cup fitting]]
    BY DEF Answer
  <1> DEFINE context == [contexts[s] EXCEPT !.kept = TRUE, !.user = user, !.applied = chosen \cup fitting]
  <1>2. /\ turns[s].at = "preloading" /\ fitting \subseteq turns[s].held
        /\ Counts(s)
        /\ turns' = [turns EXCEPT ![s] = turn]
        /\ UNCHANGED <<reflections, today, scopes, ends>>
    BY DEF Answer
  <1>3. /\ RulesInv /\ Shapes
        /\ ContextFits(rules, contexts[s]) /\ ScopeFits(rules, scopes[s], contexts[s])
        /\ TurnFits(rules, turns[s], contexts[s])
        /\ CountsFit(turns[s], counted[s], messages[s], consolidations[s])
    BY SessionFits
  <1>4. /\ RowsKept /\ chosen \subseteq Ids' /\ \A i \in chosen : Concerns(rules'[i], user)
    BY <1>1, <1>3, UsesKeeps
  <1>5. RulesInv' /\ RulesContinue
    BY <1>2, <1>3, <1>4, UnchangedKept, KeptTogether
  <1>6. /\ ContextFits(rules', contexts[s]) /\ ScopeFits(rules', scopes[s], contexts[s])
        /\ TurnFits(rules', turns[s], contexts[s])
    BY <1>3, <1>5, FitsContinue
  <1>7. Received(turns[s])
    BY <1>2 DEF Received
  <1>8. ContextFits(rules', context) /\ context.snapshot = contexts[s].snapshot
    <2>1. /\ contexts[s] \in [kept : BOOLEAN, user : Owners, snapshot : SUBSET DOMAIN rules',
                              applied : SUBSET DOMAIN rules']
          /\ Cardinality(contexts[s].snapshot) <= RuleLimit
      BY <1>6 DEF ContextFits
    <2>2. user \in Owners /\ fitting \subseteq DOMAIN rules'
      BY <1>2, <1>6 DEF TurnFits
    <2>3. chosen \cup fitting \in SUBSET DOMAIN rules'
      BY <1>4, <2>2 DEF Ids
    <2>4. \A i \in contexts[s].snapshot \cup fitting : Concerns(rules'[i], user)
      BY <1>2, <1>6, <1>7 DEF TurnFits
    <2>5. /\ context \in [kept : BOOLEAN, user : Owners, snapshot : SUBSET DOMAIN rules',
                          applied : SUBSET DOMAIN rules']
          /\ context.snapshot = contexts[s].snapshot /\ context.user = user
          /\ context.applied = chosen \cup fitting
      BY <2>1, <2>2, <2>3
    <2> HIDE DEF context
    <2>6. QED BY <1>4, <2>1, <2>4, <2>5 DEF ContextFits
  <1> HIDE DEF context
  <1>9. ScopeFits(rules', scopes[s], context)
    BY <1>6, <1>8 DEF ScopeFits
  <1>10. TurnFits(rules', turn, context) /\ ~Received(turn)
    BY DEF TurnFits, NoTurn, Received, Owners
  <1>11. CountsFit(turn, counted'[s], messages'[s], consolidations'[s])
    <2>1. /\ counted'[s] = counted[s] + 1 /\ messages'[s] = messages[s] + 1
          /\ consolidations'[s] \in {consolidations[s], consolidations[s] + 1}
      <3>1. /\ counted' = [counted EXCEPT ![s] = counted[s] + 1]
            /\ messages' = [messages EXCEPT ![s] = messages[s] + 1]
            /\ \E plenty \in Plenty : consolidations' = [consolidations EXCEPT ![s] =
                   IF (counted[s] + 1) % Interval = 0 /\ plenty THEN consolidations[s] + 1 ELSE consolidations[s]]
        BY <1>2, Zenon DEF Counts
      <3>2. PICK k \in {consolidations[s], consolidations[s] + 1} :
                consolidations' = [consolidations EXCEPT ![s] = k]
        BY <3>1, Zenon
      <3>3. QED BY <1>3, <3>1, <3>2 DEF Shapes
    <2>2. MaxMessages \in Nat BY SessionsAssumption
    <2>3. QED BY <1>3, <1>7, <1>10, <2>1, <2>2 DEF CountsFit
  <1>12. contexts'[s] = context /\ turns'[s] = turn
    BY <1>1, <1>2, <1>3 DEF Shapes, context
  <1>13. Shapes'
    BY <1>1, <1>2, <1>3 DEF Shapes, Counts
  <1>14. Only({s})
    BY <1>1, <1>2, <1>3 DEF Shapes, Only, Counts
  <1>15. \A e \in Ends : EndFits(Len(reflections'), ends'[e])
    BY <1>2, <1>5, EndsContinue
  <1> HIDE DEF turn
  <1>16. scopes' = scopes BY <1>2
  <1>17. QED BY <1>5, <1>8, <1>9, <1>10, <1>11, <1>12, <1>13, <1>14, <1>15, <1>16, OthersContinue

LEMMA EndTyped ==
    ASSUME SessionsInv, NEW e \in Ends
    PROVE  /\ EndFits(Len(reflections), ends[e])
           /\ ends[e] \in [at : {"free", "promoting", "retiring", "learning", "relating"},
                           session : Sessions, user : Owners, reflection : 0..Len(reflections)]
           /\ Len(reflections) \in Nat
  BY RulesTyped DEF SessionsInv, HooksInv, EndFits

\* The steps of the end of a turn, each of which takes its end one step on.
LEMMA EndKeeps ==
    ASSUME SessionsInv, NEW e \in Ends, RulesInv', RulesContinue,
           ends' = [ends EXCEPT ![e] = ends'[e]], EndFits(Len(reflections'), ends'[e]),
           Shapes', NEW s \in Sessions, Only({s}),
           ContextFits(rules', contexts'[s]), ScopeFits(rules', scopes'[s], contexts'[s]),
           TurnFits(rules', turns'[s], contexts'[s]),
           CountsFit(turns'[s], counted'[s], messages'[s], consolidations'[s])
    PROVE  SessionsInv'
  <1>1. ASSUME NEW x \in Ends PROVE EndFits(Len(reflections'), ends'[x])
    <2>1. CASE x = e
      BY <2>1
    <2>2. CASE x # e
      <3>1. ends'[x] = ends[x]
        BY <2>2, SessionFits DEF Shapes
      <3>2. Len(reflections') \in Nat /\ Len(reflections) <= Len(reflections')
        BY LenProperties DEF RulesInv, RulesTypeOK, RulesContinue
      <3>3. 0..Len(reflections) \subseteq 0..Len(reflections')
        BY <3>2, EndTyped
      <3>4. QED BY <3>1, <3>3, EndTyped DEF EndFits
    <2>3. QED BY <2>1, <2>2
  <1>2. QED BY <1>1, OthersContinue

LEMMA EndPromotesKeeps ==
    ASSUME SessionsInv, NEW e \in Ends, EndPromotes(e) \/ EndRetires(e)
    PROVE  SessionsInv'
  <1>1. PICK s \in Sessions : TRUE
    BY SessionsAssumption
  <1>2. UNCHANGED <<scopes, contexts, turns, counted, messages, consolidations>>
    BY DEF EndPromotes, EndRetires
  <1>3. RulesInv' /\ RulesContinue
    <2>1. ends[e].user \in Owners /\ RulesInv
      BY EndTyped, SessionFits, <1>1
    <2>2. QED BY <2>1, PromoteAtEndKeeps, RetireAtEndKeeps DEF EndPromotes, EndRetires
  <1>4. Len(reflections') \in Nat /\ Len(reflections) <= Len(reflections')
    BY <1>3, LenProperties DEF RulesInv, RulesTypeOK, RulesContinue
  <1>5. PICK new \in {[ends[e] EXCEPT !.at = "retiring", !.reflection = 0], [ends[e] EXCEPT !.at = "learning"]} :
            ends' = [ends EXCEPT ![e] = new]
    <2>1. CASE EndPromotes(e)
      <3>1. ends' = [ends EXCEPT ![e] = [ends[e] EXCEPT !.at = "retiring", !.reflection = 0]]
        BY <1>1, <2>1, SessionFits DEF EndPromotes, Shapes
      <3>2. QED BY <3>1
    <2>2. CASE EndRetires(e)
      BY <2>2 DEF EndRetires
    <2>3. QED BY <2>1, <2>2
  <1>6. EndFits(Len(reflections'), new)
    <2>1. 0..Len(reflections) \subseteq 0..Len(reflections') /\ 0 \in 0..Len(reflections')
      BY <1>4, EndTyped
    <2>2. QED BY <2>1, EndTyped DEF EndFits
  <1>7. ends'[e] = new /\ ends' = [ends EXCEPT ![e] = ends'[e]] /\ Shapes'
    BY <1>1, <1>2, <1>5, SessionFits DEF Shapes
  <1>8. Only({s})
    BY <1>2 DEF Only
  <1>9. /\ ContextFits(rules', contexts[s]) /\ ScopeFits(rules', scopes[s], contexts[s])
        /\ TurnFits(rules', turns[s], contexts[s])
        /\ CountsFit(turns[s], counted[s], messages[s], consolidations[s])
    BY <1>3, SessionFits, FitsContinue
  <1>10. QED BY <1>2, <1>3, <1>6, <1>7, <1>8, <1>9, EndKeeps

LEMMA EndResetsKeeps ==
    ASSUME SessionsInv, NEW e \in Ends, EndResets(e) \/ EndClears(e)
    PROVE  SessionsInv'
  <1> DEFINE s == ends[e].session
  <1>1. s \in Sessions
    BY EndTyped
  <1> HIDE DEF s
  <1>2. UNCHANGED <<rulesVars, scopes, turns, messages, consolidations>>
    BY DEF EndResets, EndClears
  <1>3. RulesInv' /\ RulesContinue /\ rules' = rules /\ reflections' = reflections
    BY <1>1, <1>2, SessionFits, RulesStandStill DEF rulesVars
  <1>4. PICK new \in {[ends[e] EXCEPT !.at = "relating"], NoEnd} : ends' = [ends EXCEPT ![e] = new]
    BY DEF EndResets, EndClears
  <1>5. EndFits(Len(reflections'), new)
    <2>1. NoEnd.session \in Sessions /\ Everybody \in Owners
      BY SessionsAssumption DEF NoEnd, Owners
    <2>2. 0 \in 0..Len(reflections)
      BY EndTyped
    <2>3. EndFits(Len(reflections), NoEnd)
      BY <2>1, <2>2 DEF EndFits, NoEnd
    <2>4. EndFits(Len(reflections), [ends[e] EXCEPT !.at = "relating"])
      BY EndTyped DEF EndFits
    <2>5. QED BY <1>3, <2>3, <2>4
  <1>6. PICK context \in {contexts[s], NoContext} : contexts' = [contexts EXCEPT ![s] = context]
    BY <1>1, SessionFits DEF EndResets, EndClears, Shapes, s
  <1>7. PICK c \in {counted[s], 0} : counted' = [counted EXCEPT ![s] = c]
    BY <1>1, SessionFits DEF EndResets, EndClears, Shapes, s
  <1>8. /\ ends'[e] = new /\ ends' = [ends EXCEPT ![e] = ends'[e]] /\ Shapes'
        /\ contexts'[s] = context /\ counted'[s] = c
    BY <1>1, <1>2, <1>4, <1>6, <1>7, SessionFits DEF Shapes
  <1>9. Only({s})
    BY <1>1, <1>2, <1>6, <1>7, SessionFits DEF Only, Shapes
  <1>10. ContextFits(rules, context) /\ ScopeFits(rules, scopes[s], context) /\ TurnFits(rules, turns[s], context)
    <2>1. CASE context = contexts[s]
      BY <1>1, <2>1, SessionFits
    <2>2. CASE context = NoContext
      <3>1. RuleLimit \in Nat /\ Cardinality({}) = 0
        BY RulesAssumption, FS_EmptySet
      <3>2. ContextFits(rules, NoContext)
        BY <3>1 DEF ContextFits, NoContext, Owners
      <3>3. NoContext.snapshot = {}
        BY DEF NoContext
      <3>4. ScopeFits(rules, scopes[s], NoContext)
        BY <1>1, <3>3, SessionFits DEF ScopeFits
      <3>5. TurnFits(rules, turns[s], NoContext)
        BY <1>1, <3>3, SessionFits DEF TurnFits
      <3>6. QED BY <2>2, <3>2, <3>4, <3>5
    <2>3. QED BY <2>1, <2>2
  <1>11. CountsFit(turns[s], c, messages[s], consolidations[s])
    BY <1>1, SessionFits DEF CountsFit
  <1>12. QED BY <1>1, <1>2, <1>3, <1>5, <1>8, <1>9, <1>10, <1>11, EndKeeps

LEMMA SessionsStep == SessionsInv /\ [SessionsNext]_sessionVars => SessionsInv'
  <1> SUFFICES ASSUME SessionsInv, [SessionsNext]_sessionVars PROVE SessionsInv'
    OBVIOUS
  <1> USE BindingsAreOwners
  <1>1. ASSUME NEW s \in Sessions, NEW user \in Bindings, SessionStart(s, user) PROVE SessionsInv'
    BY <1>1, SessionStartKeeps
  <1>2. ASSUME NEW s \in Sessions, NEW user \in Bindings, BeforeAgentStart(s, user) PROVE SessionsInv'
    BY <1>2, BeforeAgentStartKeeps
  <1>3. ASSUME NEW s \in Sessions, SessionEnd(s) PROVE SessionsInv'
    <2>1. Everybody \in Owners BY DEF Owners
    <2>2. QED BY <1>3, <2>1, ToolCallKeeps
  <1>4. ASSUME NEW s \in Sessions, Recalled(s) PROVE SessionsInv'
    BY <1>4, RecalledKeeps
  <1>5. ASSUME NEW s \in Sessions, GoesOn(s) PROVE SessionsInv'
    BY <1>5, GoesOnKeeps
  <1>6. ASSUME NEW s \in Sessions, NEW fitting \in SUBSET Ids, Answer(s, fitting) PROVE SessionsInv'
    BY <1>6, AnswerKeeps
  <1>7. ASSUME NEW s \in Sessions, NEW user \in Bindings, NEW e \in Ends, AgentEnd(s, user, e)
        PROVE  SessionsInv'
    BY <1>7, AgentEndKeeps
  <1>8. ASSUME NEW e \in Ends, EndPromotes(e) \/ EndRetires(e) PROVE SessionsInv'
    BY <1>8, EndPromotesKeeps
  <1>9. ASSUME NEW e \in Ends, EndResets(e) \/ EndClears(e) PROVE SessionsInv'
    BY <1>9, EndResetsKeeps
  <1>10. ASSUME NEW s \in Sessions, NEW user \in Bindings, StartFails(s, user) PROVE SessionsInv'
    BY <1>10, StartFailsKeeps
  <1>11. ASSUME NEW s \in Sessions, NEW user \in Bindings, ToolCall(s, user) PROVE SessionsInv'
    BY <1>11, ToolCallKeeps
  <1>12. CASE RulesNext /\ UNCHANGED hookVars
    BY <1>12, RulesStepKeeps, RulesApartKeep DEF SessionsInv
  <1>13. CASE UNCHANGED sessionVars
    <2>1. RulesInv' /\ RulesContinue /\ UNCHANGED hookVars
      BY <1>13, RulesStandStill DEF sessionVars, SessionsInv
    <2>2. QED BY <2>1, RulesApartKeep
  <1>14. QED BY <1>1, <1>2, <1>3, <1>4, <1>5, <1>6, <1>7, <1>8, <1>9, <1>10, <1>11, <1>12, <1>13
             DEF SessionsNext, HookNext, Disturbance

LEMMA SessionsInvariant == SessionsSpec => []SessionsInv
  <1>1. SessionsInit => SessionsInv
    BY SessionsStart
  <1>2. SessionsInv /\ [SessionsNext]_sessionVars => SessionsInv'
    BY SessionsStep
  <1> QED BY <1>1, <1>2, PTL DEF SessionsSpec

\* The tables, the sessions' scopes and contexts, and the turns and ends under
\* way stay in their types, whatever promotions fold together.
THEOREM SessionsTypeCorrect == SessionsSpec => [](RulesTypeOK /\ HooksTypeOK)
  <1>1. SessionsInv => RulesTypeOK /\ HooksTypeOK
    BY HooksTyped DEF SessionsInv, RulesInv
  <1> QED BY <1>1, SessionsInvariant, PTL

\* With all that sessions, their ends and the tools do to the rules
\* (core/behavior, hooks): two rules of one owner in force never contradict or
\* repeat each other.
THEOREM OneVoiceHolds == SessionsSpec => []OneVoice
  <1>1. SessionsInv => OneVoice
    BY DEF SessionsInv, RulesInv
  <1> QED BY <1>1, SessionsInvariant, PTL

\* A message is answered with rules of the user it comes from, or everybody's
\* (openclaw/shared, hooks), for any number of sessions, users, messages and
\* ends of turns that overlap.
THEOREM RulesInjectedForUser == SessionsSpec => []InjectedForUser
  <1>1. SessionsInv => InjectedForUser
    BY HooksTyped
  <1> QED BY <1>1, SessionsInvariant, PTL

\* Whatever a session, the end of a turn or a tool does, the table of rules
\* continues.
LEMMA RulesContinueInSessions ==
    SessionsInv /\ [SessionsNext]_sessionVars => TableContinues(rules, rules')
  <1> SUFFICES ASSUME SessionsInv, [SessionsNext]_sessionVars PROVE TableContinues(rules, rules')
    OBVIOUS
  <1> USE BindingsAreOwners
  <1>1. RulesInv
    BY DEF SessionsInv
  <1>2. TableContinues(rules, rules)
    BY <1>1, RulesTyped, TableContinuesItself
  <1>3. ASSUME NEW s \in Sessions, NEW user \in Bindings, Sync(s, user) PROVE TableContinues(rules, rules')
    BY <1>3, SyncFits DEF RowsKept
  <1>4. ASSUME NEW s \in Sessions, NEW fitting \in SUBSET Ids, Answer(s, fitting)
        PROVE  TableContinues(rules, rules')
    <2>1. \E chosen : Uses(turns[s].user, FALSE, chosen)
      BY <1>4 DEF Answer
    <2>2. QED BY <1>1, <2>1, UsesKeeps DEF RowsKept
  <1>5. ASSUME NEW e \in Ends, EndPromotes(e) \/ EndRetires(e) PROVE TableContinues(rules, rules')
    <2>1. ends[e].user \in Owners
      BY EndTyped
    <2>2. RulesContinue
      BY <1>1, <1>5, <2>1, PromoteAtEndKeeps, RetireAtEndKeeps DEF EndPromotes, EndRetires
    <2>3. QED BY <2>2 DEF RulesContinue
  <1>6. CASE RulesNext
    BY <1>1, <1>6, RulesStepKeeps DEF RulesContinue
  <1>7. ASSUME NEW s \in Sessions, NEW user \in Bindings,
               SessionStart(s, user) \/ BeforeAgentStart(s, user) \/ \E e \in Ends : AgentEnd(s, user, e)
        PROVE  TableContinues(rules, rules')
    BY <1>3, <1>7 DEF SessionStart, BeforeAgentStart, AgentEnd
  <1>8. ASSUME UNCHANGED rules PROVE TableContinues(rules, rules')
    BY <1>2, <1>8
  <1>9. ASSUME NEW s \in Sessions, SessionEnd(s) \/ Recalled(s) \/ GoesOn(s)
        PROVE  UNCHANGED rules
    BY <1>9 DEF SessionEnd, Recalled, GoesOn, rulesVars
  <1>10. ASSUME NEW e \in Ends, EndResets(e) \/ EndClears(e) PROVE UNCHANGED rules
    BY <1>10 DEF EndResets, EndClears, rulesVars
  <1>11. ASSUME Disturbance PROVE UNCHANGED rules
    BY <1>11 DEF Disturbance, StartFails, ToolCall, rulesVars
  <1>12. ASSUME UNCHANGED sessionVars PROVE UNCHANGED rules
    BY <1>12 DEF sessionVars, rulesVars
  <1>13. QED BY <1>4, <1>5, <1>6, <1>7, <1>8, <1>9, <1>10, <1>11, <1>12 DEF SessionsNext, HookNext

\* A rule that was retired, rolled back or frozen (core/behavior) is never in
\* force again, although promotions work on rows read before, reads review and
\* write back what they list, and sessions, ends of turns and tools overlap.
THEOREM RetiredForGood == SessionsSpec => RetiredStaysRetired
  <1> DEFINE Step == \A i \in DOMAIN rules : ~InForce(rules[i]) => ~InForce(rules'[i])
  <1>1. SessionsInv /\ [SessionsNext]_sessionVars => [Step]_rules
    BY RulesContinueInSessions DEF TableContinues, Continues
  <1> QED BY <1>1, SessionsInvariant, PTL DEF SessionsSpec, RetiredStaysRetired
=============================================================================
