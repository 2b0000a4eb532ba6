----------------------------- MODULE SessionHooks -----------------------------
(***************************************************************************)
(* The memory engine behind the hooks of the host: a session is bound to a *)
(* user and gets a snapshot of the rules in force; every message is        *)
(* answered with rules of its user and with those of the snapshot that fit *)
(* it; the end of a turn reflects, promotes and retires rules, and clears  *)
(* what was kept for the session.  A message and the end of a turn go      *)
(* through awaits, so the ends of earlier turns overlap later messages.    *)
(*                                                                         *)
(* Of a session's scope only the user is kept; chat, project and channel   *)
(* bind it in the same way.  Left out: memories recalled and captured      *)
(* (MemoryStore, MemoryIndex), the briefing, the cache of predictions and  *)
(* the alerts of contradictions, which nothing reads or raises.            *)
(***************************************************************************)
EXTENDS BehaviorRules

CONSTANTS
    Sessions,
    Ends,           \* slots for the ends of turns that are under way
    Unbound,        \* a session that was not started for a user yet
    EveryTurnEnds,  \* whether the host reports the end of every turn
    Plenty,         \* what may be found: 100 active memories, or fewer
    Interval,       \* messages between two consolidations
    MaxMessages     \* bound of a run

ASSUME SessionsAssumption ==
    /\ Unbound \notin Users \cup {Everybody} /\ Sessions # {}
    /\ EveryTurnEnds \in BOOLEAN /\ Plenty \subseteq BOOLEAN
    /\ Interval \in Nat \ {0} /\ MaxMessages \in Nat

VARIABLES
    scopes,         \* sessionScopes: the user of a session, and for whom it was started
    contexts,       \* sessionContexts: user, snapshot, rules of the last message
    turns,          \* where the session's turn is, and what its message holds
    ends,           \* the calls of sessionEnd under way
    counted,        \* messageCounter of the progressive consolidation
    messages,       \* messages of a session so far
    consolidations  \* light compressions they triggered

hookVars == <<scopes, contexts, turns, ends, counted, messages, consolidations>>
sessionVars == <<rulesVars, hookVars>>

Owners == Users \cup {Everybody}
NoScope == [user |-> Everybody, bound |-> Unbound]
NoContext == [kept |-> FALSE, user |-> Everybody, snapshot |-> {}, applied |-> {}]
NoTurn == [at |-> "idle", user |-> Everybody, held |-> {}]
NoEnd == [at |-> "free", session |-> CHOOSE s \in Sessions : TRUE, user |-> Everybody, reflection |-> 0]

HooksTypeOK ==
    /\ scopes \in [Sessions -> [user : Owners, bound : Owners \cup {Unbound}]]
    /\ contexts \in [Sessions -> [kept : BOOLEAN, user : Owners, snapshot : SUBSET Ids, applied : SUBSET Ids]]
    /\ \A s \in Sessions : Cardinality(contexts[s].snapshot) <= RuleLimit
    /\ turns \in [Sessions -> [at : {"idle", "recalling", "preloading", "running"},
                               user : Owners, held : SUBSET Ids]]
    /\ ends \in [Ends -> [at : {"free", "promoting", "retiring", "learning", "relating"},
                          session : Sessions, user : Owners, reflection : {0} \cup DOMAIN reflections]]
    /\ counted \in [Sessions -> 0..MaxMessages] /\ messages \in [Sessions -> 0..MaxMessages]
    /\ consolidations \in [Sessions -> 0..MaxMessages]

HooksInit ==
    /\ scopes = [s \in Sessions |-> NoScope] /\ contexts = [s \in Sessions |-> NoContext]
    /\ turns = [s \in Sessions |-> NoTurn] /\ ends = [e \in Ends |-> NoEnd]
    /\ counted = [s \in Sessions |-> 0] /\ messages = [s \in Sessions |-> 0]
    /\ consolidations = [s \in Sessions |-> 0]

SessionsInit == RulesInit /\ HooksInit

-----------------------------------------------------------------------------
(* Binding a session to its user. *)

\* resolveHostBinding: what the context of an event names, or else the event
\* (Everybody: neither names a user).
Binding(context, event) == IF context = Everybody THEN event ELSE context
Bindings == {Binding(context, event) : context \in Owners, event \in Owners}

\* What is not named is kept from before.
Merged(scope, user) == IF user = Everybody THEN scope ELSE [scope EXCEPT !.user = user]

\* Mutant of IsBound: a session that was started once stays as it is.
IsStarted(scope) == scope.bound # Unbound

IsBound(scope) == scope.bound = scope.user

\* sessionStart: the rules in force for the user become the snapshot.
Start(s, user) ==
    \E chosen \in SUBSET Ids :
        /\ Uses(user, FALSE, chosen)
        /\ contexts' = [contexts EXCEPT ![s] = [kept |-> TRUE, user |-> user, snapshot |-> chosen, applied |-> {}]]

\* Every hook merges what it knows of the scope, and starts the session again
\* when that binds it to somebody else.
Sync(s, user) ==
    LET scope == Merged(scopes[s], user) IN
    /\ scopes' = [scopes EXCEPT ![s] = [scope EXCEPT !.bound = IF IsBound(scope) THEN scope.bound ELSE scope.user]]
    /\ IF IsBound(scope) THEN UNCHANGED <<rules, contexts>> ELSE Start(s, scope.user)

SessionStart(s, user) ==
    /\ turns[s].at = "idle"
    /\ Sync(s, user)
    /\ UNCHANGED <<reflections, today, turns, ends, counted, messages, consolidations>>

\* resolveToolScope: a call of a tool during a turn may name another user, for
\* whom the session is only started by the next hook.
ToolCall(s, user) ==
    /\ turns[s].at = "running"
    /\ scopes' = [scopes EXCEPT ![s] = Merged(@, user)]
    /\ UNCHANGED <<rulesVars, contexts, turns, ends, counted, messages, consolidations>>

\* The scope is forgotten; the context is left to the end of a turn.
SessionEnd(s) ==
    /\ turns[s].at = "idle"
    /\ scopes' = [scopes EXCEPT ![s] = NoScope]
    /\ UNCHANGED <<rulesVars, contexts, turns, ends, counted, messages, consolidations>>

-----------------------------------------------------------------------------
(* A message: before_agent_start and messageReceived. *)

BeforeAgentStart(s, user) ==
    /\ turns[s].at = "idle" /\ messages[s] < MaxMessages
    /\ Sync(s, user)
    /\ turns' = [turns EXCEPT ![s] = [at |-> "recalling", user |-> scopes'[s].user, held |-> {}]]
    /\ UNCHANGED <<reflections, today, ends, counted, messages, consolidations>>

\* registerHook swallows what a hook throws: the session could not be started,
\* and the message is answered without the memory.
StartFails(s, user) ==
    /\ turns[s].at = "idle" /\ ~IsBound(Merged(scopes[s], user))
    /\ scopes' = [scopes EXCEPT ![s] = Merged(@, user)]
    /\ turns' = [turns EXCEPT ![s].at = "running"]
    /\ UNCHANGED <<rulesVars, contexts, ends, counted, messages, consolidations>>

\* The memories are recalled; the context is read once, before the next await.
Recalled(s) ==
    /\ turns[s].at = "recalling"
    /\ turns' = [turns EXCEPT ![s].at = "preloading", ![s].held = contexts[s].snapshot]
    /\ UNCHANGED <<rulesVars, scopes, contexts, ends, counted, messages, consolidations>>

\* The consolidation counts messages and looks at the size of the store.
Counts(s) ==
    LET now == counted[s] + 1 IN
    /\ counted' = [counted EXCEPT ![s] = now]
    /\ messages' = [messages EXCEPT ![s] = @ + 1]
    /\ \E plenty \in Plenty :
          consolidations' = [consolidations EXCEPT ![s] = IF now % Interval = 0 /\ plenty THEN @ + 1 ELSE @]

\* Rules of the table for the user, and rules of the snapshot that fit the
\* message: as they were when the snapshot was taken.  A context that was
\* cleared meanwhile comes back without a snapshot.
Answer(s, fitting) ==
    /\ turns[s].at = "preloading" /\ fitting \subseteq turns[s].held
    /\ \E chosen \in SUBSET Ids :
          /\ Uses(turns[s].user, FALSE, chosen)
          /\ contexts' = [contexts EXCEPT ![s] =
                 [@ EXCEPT !.kept = TRUE, !.user = turns[s].user, !.applied = chosen \cup fitting]]
    /\ Counts(s)
    /\ turns' = [turns EXCEPT ![s] = [NoTurn EXCEPT !.at = "running"]]
    /\ UNCHANGED <<reflections, today, scopes, ends>>

\* A client of the library goes on without reporting an end.
GoesOn(s) ==
    /\ ~EveryTurnEnds /\ turns[s].at = "running"
    /\ turns' = [turns EXCEPT ![s] = NoTurn]
    /\ UNCHANGED <<rulesVars, scopes, contexts, ends, counted, messages, consolidations>>

-----------------------------------------------------------------------------
(* The end of a turn: agent_end and sessionEnd. *)

\* The experience of the turn is all a reflection has as evidence.
AgentEnd(s, user, e) ==
    /\ turns[s].at = "running" /\ ends[e].at = "free"
    /\ Sync(s, user)
    /\ turns' = [turns EXCEPT ![s] = NoTurn]
    /\ \E f \in {0, Len(reflections) + 1} :
          /\ IF f = 0 THEN UNCHANGED reflections ELSE \E p \in Proposals : p.recurrence = 1 /\ Stores(p)
          /\ ends' = [ends EXCEPT ![e] = [at |-> "promoting", session |-> s, user |-> scopes'[s].user, reflection |-> f]]
    /\ UNCHANGED <<today, counted, messages, consolidations>>

EndPromotes(e) ==
    /\ ends[e].at = "promoting"
    /\ PromoteAtEnd(ends[e].reflection, ends[e].user)
    /\ ends' = [ends EXCEPT ![e].at = "retiring", ![e].reflection = 0]
    /\ UNCHANGED <<scopes, contexts, turns, counted, messages, consolidations>>

EndRetires(e) ==
    /\ ends[e].at = "retiring"
    /\ RetireAtEnd(ends[e].user)
    /\ ends' = [ends EXCEPT ![e].at = "learning"]
    /\ UNCHANGED <<scopes, contexts, turns, counted, messages, consolidations>>

\* Capture, learning, the profile and housekeeping are awaited, each for a
\* limited time, before what is kept for the session is reset.
EndResets(e) ==
    /\ ends[e].at = "learning"
    /\ counted' = [counted EXCEPT ![ends[e].session] = 0]
    /\ ends' = [ends EXCEPT ![e].at = "relating"]
    /\ UNCHANGED <<rulesVars, scopes, contexts, turns, messages, consolidations>>

\* Relations have been detected, or the time for it is up.
EndClears(e) ==
    /\ ends[e].at = "relating"
    /\ contexts' = [contexts EXCEPT ![ends[e].session] = NoContext]
    /\ ends' = [ends EXCEPT ![e] = NoEnd]
    /\ UNCHANGED <<rulesVars, scopes, turns, counted, messages, consolidations>>

HookNext ==
    \/ \E s \in Sessions, user \in Bindings :
          SessionStart(s, user) \/ BeforeAgentStart(s, user)
    \/ \E s \in Sessions : SessionEnd(s) \/ Recalled(s) \/ GoesOn(s)
    \/ \E s \in Sessions, fitting \in SUBSET Ids : Answer(s, fitting)
    \/ \E s \in Sessions, user \in Bindings, e \in Ends : AgentEnd(s, user, e)
    \/ \E e \in Ends : EndPromotes(e) \/ EndRetires(e) \/ EndResets(e) \/ EndClears(e)

\* What happens beside the hooks that succeed.
Disturbance == \E s \in Sessions, user \in Bindings : StartFails(s, user) \/ ToolCall(s, user)

\* The tools and the reflection of other clients work on the same rules.
SessionsNext == HookNext \/ Disturbance \/ (RulesNext /\ UNCHANGED hookVars)

SessionsSpec == SessionsInit /\ [][SessionsNext]_sessionVars

-----------------------------------------------------------------------------

\* Rules kept in a snapshot and applied to a message are those of the user it
\* comes from, or everybody's, although a session may change its user, the
\* snapshot is read before an await, and ends of earlier turns clear contexts
\* and promote rules for users they were started with.
InjectedForUser ==
    \A s \in Sessions : contexts[s].kept =>
        \A i \in contexts[s].snapshot \cup contexts[s].applied : Concerns(rules[i], contexts[s].user)

\* What the changelog promises: every so many messages of a session trigger
\* a light compression, given enough memories.
ConsolidatesRegularly ==
    \A s \in Sessions : consolidations[s] >= messages[s] \div Interval
=============================================================================
