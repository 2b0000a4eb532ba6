------------------------------ MODULE UserProfile ------------------------------
(***************************************************************************)
(* The projected profile of a user (core/profile): a row of                *)
(* projected_profiles computed from the user's memories and behaviour      *)
(* rules, and replaced whenever a writer of memories asks for it.  Some    *)
(* writers do not ask (edits, housekeeping, consolidation, compression,    *)
(* imports of notes, maintenance that reaches other users), and one that   *)
(* throws before its end does not either: `behind' is the set of users     *)
(* written by one of them since their last projection.  One process        *)
(* projects: reading the memories and writing the row is one step.         *)
(*                                                                         *)
(* A memory is known by its place in the order in which the projection     *)
(* considers memories, by weight and then by time: the greatest first.     *)
(* What a submitted text becomes is WritePolicy, and which memories the    *)
(* end of a session captures is AutoCapture.                               *)
(***************************************************************************)
EXTENDS WritePolicy, AutoCapture, FiniteSetsExt

CONSTANTS
    Users,
    Places,         \* numbers: the places of memories in the order of weights
    Keys,           \* keys of preferences
    Values,         \* their values
    Statements,     \* what behaviour rules say
    MaxRules,       \* bound: rules of a user
    MaxHints,       \* PROFILE_MAX_BEHAVIOR_HINTS
    None

\* In the code: at most MaxRules = MaxHints = 8 rules are read for a profile.
ASSUME ProfileAssumption ==
    /\ None \notin Users
    /\ IsFiniteSet(Places) /\ Places \subseteq Nat
    /\ MaxRules \in Nat /\ MaxHints \in Nat \ {0}

VARIABLES
    memory,         \* memory[m]: the row of memory_items, or NoMemory
    rules,          \* rules[u]: the statements of the user's active rules
    profile,        \* profile[u]: the row of projected_profiles, or NoProfile
    drifts,         \* preference_drift_log: users and keys
    capturing,      \* users whose session's memories are being captured
    behind          \* users written since by a writer that does not project

profileVars == <<memory, rules, profile, drifts, capturing, behind>>

Sources == {"stated", "inferred", "test"}

Memory == [user : Users, key : Keys, value : Values, source : Sources, live : BOOLEAN]

NoMemory == [user |-> None]
NoProfile == [hints |-> <<>>]

\* The reserved hint, system:onboarding_completed.
Onboarded == "onboarded"

View == [stable : [Keys -> Values \cup {None}], interests : SUBSET Values]

Profile == [view : View, hints : Seq(Statements \cup {Onboarded})]

\* The hint of the onboarding may be one too many.
FitHints(hints) ==
    Len(hints) <= IF Contains(hints, Onboarded) THEN MaxHints + 1 ELSE MaxHints

ProfileTypeOK ==
    /\ memory \in [Places -> Memory \cup {NoMemory}]
    /\ rules \in [Users -> BoundedSeq(Statements, MaxRules)]
    /\ profile \in [Users -> Profile \cup {NoProfile}]
    /\ \A u \in Users : FitHints(profile[u].hints)
    /\ drifts \subseteq Users \X Keys
    /\ capturing \subseteq Users /\ behind \subseteq Users

ProfileInit ==
    /\ memory = [m \in Places |-> NoMemory]
    /\ rules = [u \in Users |-> <<>>]
    /\ profile = [u \in Users |-> NoProfile]
    /\ drifts = {} /\ capturing = {} /\ behind = {}

-----------------------------------------------------------------------------
(***************************************************************************)
(* The projection                                                          *)
(***************************************************************************)
Of(mem, u) == {m \in Places : mem[m].user = u /\ mem[m].live}

\* Memories with a source of kind "test" are left out.
Eligible(mem, u) == {m \in Of(mem, u) : mem[m].source # "test"}

\* isExplicit: not an inference, and explicitness at the threshold.
Explicit(mem, u) == {m \in Eligible(mem, u) : mem[m].source = "stated"}

Stable(mem, u) ==
    [k \in Keys |->
        LET stated == {m \in Explicit(mem, u) : mem[m].key = k} IN
        IF stated = {} THEN None ELSE mem[Max(stated)].value]

\* collectLikelyInterests: what the memories are about, except what the user
\* stated as a preference.
Interests(mem, u) ==
    {mem[m].value : m \in Eligible(mem, u)} \ {Stable(mem, u)[k] : k \in Keys}

Projection(mem, u) == [stable |-> Stable(mem, u), interests |-> Interests(mem, u)]

\* The hints that no projection drops, without repetition: there is one.
Reserved(u) == IF Contains(profile[u].hints, Onboarded) THEN <<Onboarded>> ELSE <<>>

FirstOf(hints) == SubSeq(hints, 1, Min({MaxHints, Len(hints)}))

\* Mutant of Hints: the statements of the rules come first.
HintsRulesFirst(u) == FirstOf(rules[u] \o Reserved(u))

\* The reserved hints, then what the active rules say, up to the limit.
Hints(u) == FirstOf(Reserved(u) \o rules[u])

\* recomputeForUser, for each of the users.
Recompute(users, mem) ==
    [u \in Users |-> IF u \in users THEN [view |-> Projection(mem, u), hints |-> Hints(u)]
                     ELSE profile[u]]
-----------------------------------------------------------------------------
(***************************************************************************)
(* Writers that project                                                    *)
(***************************************************************************)
\* Maintenance of a new row archives any of its owner's rows (MemoryStore has
\* which), the new one included.
Archived(mem, gone) == [m \in Places |-> IF m \in gone THEN [mem[m] EXCEPT !.live = FALSE] ELSE mem[m]]

Inserted(m, row) == [memory EXCEPT ![m] = row]

\* A row is inserted and maintained; it takes any place in the order.
Insert(m, row) ==
    /\ memory[m] = NoMemory
    /\ \E gone \in SUBSET Of(Inserted(m, row), row.user) :
        memory' = Archived(Inserted(m, row), gone)

\* normalizeMemory: the row that a text of a user becomes, if it is accepted;
\* isExplicit, by what the profile takes for stated.
Submitted(u, text, given) ==
    {[user |-> u, key |-> text.key, value |-> text.value, live |-> TRUE,
      source |-> CASE given.source = "test" -> "test"
                   [] given.source = "inference" \/ decision.explicitness = "low" -> "inferred"
                   [] OTHER -> "stated"] : decision \in Decisions(text, given)}

\* The rows that a turn may leave: what it is captured as passes the policy.
CapturedRows(u, turn, text) ==
    UNION {Submitted(u, text, CapturedAs(k)) : k \in ToSet(Captured(turn))}

Projected(users) ==
    /\ profile' = Recompute(users, memory')
    /\ behind' = behind \ users

\* Mutant of Store: the profile is computed before the maintenance.
StoreProjectsFirst(m, row) ==
    /\ Insert(m, row)
    /\ profile' = Recompute({row.user}, Inserted(m, row))
    /\ behind' = behind \ {row.user}
    /\ UNCHANGED <<rules, drifts, capturing>>

Store(m, row) ==
    /\ Insert(m, row)
    /\ Projected({row.user})
    /\ UNCHANGED <<rules, drifts, capturing>>

\* restoreArchived: the candidates one after the other, then their owners.
Restore(ms) ==
    /\ ms # {} /\ \A m \in ms : memory[m] # NoMemory /\ ~memory[m].live
    /\ memory' = [m \in Places |-> IF m \in ms THEN [memory[m] EXCEPT !.live = TRUE] ELSE memory[m]]
    /\ Projected({memory[m].user : m \in ms})
    /\ UNCHANGED <<rules, drifts, capturing>>

\* getByUserId with recompute.
Read(u) ==
    /\ UNCHANGED memory
    /\ Projected({u})
    /\ UNCHANGED <<rules, drifts, capturing>>

WithOnboarded(hints) == IF Contains(hints, Onboarded) THEN hints ELSE Append(hints, Onboarded)

NeedsOnboarding(u) == ~Contains(profile[u].hints, Onboarded)

\* processResponses: the answers (rows by their places) are stored, and the
\* hint appended to the profile that storing the last one has made, beyond the
\* limit if need be.
Onboard(u, answers) ==
    /\ NeedsOnboarding(u)
    /\ \A m \in DOMAIN answers : memory[m] = NoMemory /\ answers[m].user = u
    /\ LET stored == [m \in Places |-> IF m \in DOMAIN answers THEN answers[m] ELSE memory[m]] IN
        \E gone \in SUBSET Of(stored, u) : memory' = Archived(stored, gone)
    /\ profile' = [Recompute({u}, memory') EXCEPT ![u].hints = WithOnboarded(@)]
    /\ behind' = behind \ {u}
    /\ UNCHANGED <<rules, drifts, capturing>>

\* No answer is accepted: only a profile that exists gets the hint.
OnboardWithoutAnswers(u) ==
    /\ NeedsOnboarding(u) /\ profile[u] # NoProfile
    /\ profile' = [profile EXCEPT ![u].hints = WithOnboarded(@)]
    /\ UNCHANGED <<memory, rules, drifts, capturing, behind>>

-----------------------------------------------------------------------------
(***************************************************************************)
(* The end of a session                                                    *)
(***************************************************************************)
\* Captured memories are stored one by one, with awaits in between, and the
\* profile is left for the end.
Capture(m, row) ==
    /\ Insert(m, row)
    /\ capturing' = capturing \cup {row.user}
    /\ behind' = behind \cup {row.user}
    /\ UNCHANGED <<rules, profile, drifts>>

CaptureEnds(u) ==
    /\ u \in capturing
    /\ capturing' = capturing \ {u}
    /\ UNCHANGED memory
    /\ Projected({u})
    /\ UNCHANGED <<rules, drifts>>

\* Looking for conflicts fails: the users touched are forgotten.
CaptureFails(u) ==
    /\ u \in capturing
    /\ capturing' = capturing \ {u}
    /\ UNCHANGED <<memory, rules, profile, drifts, behind>>

\* detectDrift: the preferences that differ between two profiles.
Drifted(old, new) ==
    {k \in Keys : new.stable[k] # IF old = NoProfile THEN None ELSE old.view.stable[k]}

\* The hook reads the profile, projects it anew and compares the two; captures
\* that timed out may still be going on.
SessionEnds(u) ==
    /\ UNCHANGED memory
    /\ Projected({u})
    /\ drifts' = drifts \cup ({u} \X Drifted(profile[u], Projection(memory, u)))
    /\ UNCHANGED <<rules, capturing>>

\* The process ends: what was being captured stays as it is.
Restart ==
    /\ capturing' = {}
    /\ UNCHANGED <<memory, rules, profile, drifts, behind>>

-----------------------------------------------------------------------------
(***************************************************************************)
(* Writers that do not project                                             *)
(***************************************************************************)
\* A pass over memories, or the maintenance of a row without a user, archives
\* a memory of anybody; so does the user's delete.
ArchivedElsewhere(m) ==
    /\ memory[m] # NoMemory /\ memory[m].live
    /\ memory' = Archived(memory, {m})
    /\ behind' = behind \cup {memory[m].user}
    /\ UNCHANGED <<rules, profile, drifts, capturing>>

\* The edit tool's update.
Update(m, value) ==
    /\ memory[m] # NoMemory
    /\ memory' = [memory EXCEPT ![m].value = value]
    /\ behind' = behind \cup {memory[m].user}
    /\ UNCHANGED <<rules, profile, drifts, capturing>>

\* A store that throws after its INSERT, in its maintenance or the projection;
\* or the summary that a compression inserts, and the owner's rows that it
\* archives for it.
InsertOnly(m, row) ==
    /\ Insert(m, row)
    /\ behind' = behind \cup {row.user}
    /\ UNCHANGED <<rules, profile, drifts, capturing>>

\* restoreArchived throws on the way, or in a projection.
RestoreFails(ms) ==
    /\ ms # {} /\ \A m \in ms : memory[m] # NoMemory /\ ~memory[m].live
    /\ memory' = [m \in Places |-> IF m \in ms THEN [memory[m] EXCEPT !.live = TRUE] ELSE memory[m]]
    /\ behind' = behind \cup {memory[m].user : m \in ms}
    /\ UNCHANGED <<rules, profile, drifts, capturing>>

\* Rules are promoted, frozen and retired (BehaviorRules) without a projection.
RulesChange(u, statements) ==
    /\ rules' = [rules EXCEPT ![u] = statements]
    /\ UNCHANGED <<memory, profile, drifts, capturing, behind>>

-----------------------------------------------------------------------------
\* Unless a writer that does not project, or failed to, wrote the user's
\* memories since, what the profile says is what the memories say.
ProfileCurrent ==
    \A u \in Users \ behind :
        IF profile[u] = NoProfile THEN \A m \in Places : memory[m].user # u
        ELSE profile[u].view = Projection(memory, u)

\* A user who has answered the questions is not asked again, however many
\* rules compete for the hints of the profile.
OnboardedOnce ==
    [][\A u \in Users : ~NeedsOnboarding(u) => ~NeedsOnboarding(u)']_profileVars
=============================================================================
