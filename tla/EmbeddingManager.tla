-------------------------- MODULE EmbeddingManager --------------------------
(***************************************************************************)
(* The process-wide embedding manager (src/embedding/manager.ts): a        *)
(* queue of texts that a timer flushes in batches, and the provider that   *)
(* computes their vectors, set up lazily by the first batch that needs it. *)
(* configure and dispose may come at any time, a set-up and the answers of *)
(* earlier batches under way.                                              *)
(*                                                                         *)
(* A handler runs to its next await without interruption.  Only a local    *)
(* model takes time to set up; the other providers are installed by the    *)
(* flush that asks for them.  A vector is the text it was computed from,   *)
(* the kind of provider, which fixes its dimensions, and whether its       *)
(* provider gave none for a text before it in the same batch (after).      *)
(***************************************************************************)
EXTENDS Naturals, Sequences, FiniteSets

CONSTANTS
    MaxCalls,       \* bound: calls of embed under way
    Texts,          \* contents and queries
    Kinds,          \* providers that configure may be given
    QueueLimit,     \* EMBEDDING_QUEUE_LIMIT
    ChunkSize,      \* MAX_OPENAI_BATCH
    MaxDisturbed    \* bound: calls of configure and dispose, and providers that throw

ASSUME EmbeddingAssumption ==
    /\ MaxCalls \in Nat
    /\ Kinds \subseteq {"local", "openai", "none"}
    /\ {QueueLimit, ChunkSize} \subseteq Nat \ {0}
    /\ MaxDisturbed \in Nat

Calls == 1..MaxCalls \* calls of embed, each with its own promise

VARIABLES
    config,         \* _config: the kind of provider asked for
    disturbed,      \* how often the manager was reset or its provider threw
    provider,       \* _provider: a number in objects, or 0 for the no-op provider
    initialized,    \* _initialized
    initializing,   \* _initializing: the object being set up, or 0
    objects,        \* every provider object ever created, in order
    queueTexts,     \* _queueTexts
    queueResolvers, \* _queueResolvers: the calls to settle
    timer,          \* _batchTimer is armed
    batches,        \* flushes that await a set-up or an answer
    call            \* call[c]: the text asked for and the answer

managerVars == <<config, disturbed, provider, initialized, initializing, objects,
                 queueTexts, queueResolvers, timer, batches, call>>

Vector == [of : Texts, kind : {"local", "openai"}, after : BOOLEAN]
Null == [of |-> "null", kind |-> "none"]
Waiting == [of |-> "pending", kind |-> "none"]
Unasked == [of |-> "new", kind |-> "none"]

Object == [kind : {"local", "openai"}, stage : {"loading", "live", "disposed"}]

Batch == [texts : Seq(Texts), resolvers : Seq(Calls), on : Nat, phase : {"setup", "embed"}]

ManagerTypeOK ==
    /\ config \in Kinds \cup {"none"} /\ disturbed \in 0..MaxDisturbed
    /\ objects \in Seq(Object)
    /\ provider \in 0..Len(objects) /\ initializing \in 0..Len(objects)
    /\ initialized \in BOOLEAN /\ timer \in BOOLEAN
    /\ queueTexts \in Seq(Texts) /\ queueResolvers \in Seq(Calls)
    /\ Len(queueTexts) <= QueueLimit /\ Len(queueResolvers) <= QueueLimit
    /\ \A b \in batches : b \in Batch /\ b.on \in 1..Len(objects)
    /\ call \in [Calls -> [text : Texts \cup {"none"}, answer : Vector \cup {Null, Waiting, Unasked}]]

ManagerInit ==
    /\ config = "none" /\ disturbed = 0
    /\ provider = 0 /\ initialized = FALSE /\ initializing = 0 /\ objects = <<>>
    /\ queueTexts = <<>> /\ queueResolvers = <<>> /\ timer = FALSE
    /\ batches = {}
    /\ call = [c \in Calls |-> [text |-> "none", answer |-> Unasked]]

-----------------------------------------------------------------------------
\* A local provider is ready once its pipeline is loaded; one that was disposed
\* of has none.  An OpenAI provider is ready by its key.
Ready(objs, p) == p # 0 /\ (objs[p].kind = "local" => objs[p].stage = "live")

\* Whether callers take the embedding path at all.
IsReady == initialized /\ Ready(objects, provider)

Disposed(objs, p) == IF p = 0 THEN objs ELSE [objs EXCEPT ![p].stage = "disposed"]

\* Gives each of these resolvers the answer at the same index, or null.
Settled(calls, resolvers, answers) ==
    [c \in Calls |->
        IF \E i \in DOMAIN resolvers : resolvers[i] = c
        THEN LET i == CHOOSE j \in DOMAIN resolvers : resolvers[j] = c
             IN [calls[c] EXCEPT !.answer = IF i \in DOMAIN answers THEN answers[i] ELSE Null]
        ELSE calls[c]]

Drop(s, n) == SubSeq(s, n + 1, Len(s))

\* These calls wait from now on.
Asked(asked) ==
    [c \in Calls |-> IF \E i \in DOMAIN asked : asked[i].call = c
                     THEN [text |-> (CHOOSE a \in {asked[i] : i \in DOMAIN asked} : a.call = c).text,
                           answer |-> Waiting]
                     ELSE call[c]]

\* Mutant of TextsWith: a new text goes to the front.
TextsInFront(asked) == [i \in DOMAIN asked |-> asked[i].text] \o queueTexts

TextsWith(asked) == queueTexts \o [i \in DOMAIN asked |-> asked[i].text]
ResolversWith(asked) == queueResolvers \o [i \in DOMAIN asked |-> asked[i].call]
Overflow(asked) ==
    LET n == Len(queueTexts) + Len(asked) IN IF n > QueueLimit THEN n - QueueLimit ELSE 0

\* embed: the requests join the queue; at the limit the oldest are dropped,
\* text and resolver together, and answered null.
Enqueue(asked) ==
    LET dropped == Overflow(asked)
    IN /\ queueTexts' = Drop(TextsWith(asked), dropped)
       /\ queueResolvers' = Drop(ResolversWith(asked), dropped)
       /\ call' = Settled(Asked(asked), SubSeq(ResolversWith(asked), 1, dropped), <<>>)
       /\ timer' = (timer \/ asked # <<>>)
       /\ UNCHANGED <<config, disturbed, provider, initialized, initializing, objects, batches>>

\* Mutant of Reset: the queue is cleared and its callers are not told.
ResetSilent ==
    /\ timer' = FALSE
    /\ queueTexts' = <<>> /\ queueResolvers' = <<>>
    /\ objects' = Disposed(objects, provider)
    /\ provider' = 0 /\ initialized' = FALSE /\ initializing' = 0
    /\ UNCHANGED <<call, batches>>

\* What configure and dispose do with what is queued and installed.  A set-up
\* under way is only forgotten.
Reset ==
    /\ timer' = FALSE
    /\ queueTexts' = <<>> /\ queueResolvers' = <<>>
    /\ call' = Settled(call, queueResolvers, <<>>)
    /\ objects' = Disposed(objects, provider)
    /\ provider' = 0 /\ initialized' = FALSE /\ initializing' = 0
    /\ UNCHANGED batches

Disturb == disturbed < MaxDisturbed /\ disturbed' = disturbed + 1

Configure(kind) == Disturb /\ config' = kind /\ Reset

Dispose == Disturb /\ Reset /\ UNCHANGED config

-----------------------------------------------------------------------------
Taken(p, phase) == [texts |-> queueTexts, resolvers |-> queueResolvers, on |-> p, phase |-> phase]

\* The batch goes to this provider, or is answered null if it is not ready.
HandTo(objs, p) ==
    IF Ready(objs, p)
    THEN batches' = batches \cup {Taken(p, "embed")} /\ call' = call
    ELSE batches' = batches /\ call' = Settled(call, queueResolvers, <<>>)

\* _ensureProvider of a manager that has neither a provider nor a set-up under
\* way.  A local model has to be loaded.
SetUp ==
    LET p == Len(objects) + 1
        created(stage) == Append(objects, [kind |-> config, stage |-> stage])
    IN CASE config = "local" ->
              /\ objects' = created("loading") /\ initializing' = p
              /\ batches' = batches \cup {Taken(p, "setup")}
              /\ UNCHANGED <<provider, initialized, call>>
         [] config = "openai" ->
              /\ objects' = created("live") /\ provider' = p /\ initialized' = TRUE
              /\ HandTo(objects', p)
              /\ UNCHANGED initializing
         [] OTHER ->
              /\ provider' = 0 /\ initialized' = TRUE
              /\ HandTo(objects, 0)
              /\ UNCHANGED <<objects, initializing>>

\* The timer fires: _flushQueue up to its first await.
Flush ==
    /\ timer /\ timer' = FALSE
    /\ queueTexts' = <<>> /\ queueResolvers' = <<>>
    /\ \/ /\ initialized
          /\ HandTo(objects, provider)
          /\ UNCHANGED <<provider, initialized, initializing, objects>>
       \/ /\ ~initialized /\ initializing # 0
          /\ batches' = batches \cup {Taken(initializing, "setup")}
          /\ UNCHANGED <<provider, initialized, initializing, objects, call>>
       \/ ~initialized /\ initializing = 0 /\ SetUp
    /\ UNCHANGED <<config, disturbed>>

Awaiting(p) == {b \in batches : b.on = p /\ b.phase = "setup"}

\* The resolvers of several batches, in some order.
AllResolvers(bs) ==
    LET cs == {c \in Calls : \E b \in bs : \E i \in DOMAIN b.resolvers : b.resolvers[i] = c}
    IN CHOOSE s \in [1..Cardinality(cs) -> cs] : {s[i] : i \in DOMAIN s} = cs

\* A local model is loaded: it is installed, whatever was configured meanwhile,
\* and the batches that awaited it are handed to it.
SetUpSucceeds(p) ==
    /\ objects[p].stage = "loading"
    /\ objects' = [objects EXCEPT ![p].stage = "live"]
    /\ provider' = p /\ initialized' = TRUE /\ initializing' = 0
    /\ batches' = (batches \ Awaiting(p)) \cup {[b EXCEPT !.phase = "embed"] : b \in Awaiting(p)}
    /\ UNCHANGED <<config, disturbed, queueTexts, queueResolvers, timer, call>>

\* Mutant of SetUpFails: the batches that awaited the set-up still do.
SetUpFailsSilent(p) ==
    /\ objects[p].stage = "loading"
    /\ objects' = Disposed(objects, p)
    /\ provider' = 0 /\ initialized' = TRUE /\ initializing' = 0
    /\ UNCHANGED <<config, disturbed, queueTexts, queueResolvers, timer, batches, call>>

\* It fails or takes too long: the no-op provider is installed in its place.
SetUpFails(p) ==
    /\ objects[p].stage = "loading"
    /\ objects' = Disposed(objects, p)
    /\ provider' = 0 /\ initialized' = TRUE /\ initializing' = 0
    /\ batches' = batches \ Awaiting(p)
    /\ call' = Settled(call, AllResolvers(Awaiting(p)), <<>>)
    /\ UNCHANGED <<config, disturbed, queueTexts, queueResolvers, timer>>

\* The texts of a batch that are answered, by their places.  A local model
\* answers all.  OpenAI is asked for one chunk after the other, and of each it
\* answers the first ones, in order; how many is not looked at.
ChunkOf(i) == (i - 1) \div ChunkSize
Given(b) ==
    IF objects[b.on].kind = "local" THEN {DOMAIN b.texts}
    ELSE {given \in SUBSET DOMAIN b.texts :
            \A i \in given, j \in DOMAIN b.texts : j < i /\ ChunkOf(j) = ChunkOf(i) => j \in given}

Nth(S, n) == CHOOSE i \in S : Cardinality({j \in S : j < i}) = n - 1

\* Their vectors, one after the other: behind a short chunk they move up.
Concatenated(b, given) ==
    [n \in 1..Cardinality(given) |->
        LET i == Nth(given, n)
        IN [of |-> b.texts[i], kind |-> objects[b.on].kind, after |-> ~(1..(i - 1) \subseteq given)]]

\* The provider answers; of a short answer the missing vectors are null.
BatchAnswered(b) ==
    /\ b.phase = "embed"
    /\ \E given \in Given(b) : call' = Settled(call, b.resolvers, Concatenated(b, given))
    /\ batches' = batches \ {b}
    /\ UNCHANGED <<config, disturbed, provider, initialized, initializing, objects,
                   queueTexts, queueResolvers, timer>>

\* The provider throws: it is disposed of, and what is installed is given up.
BatchFails(b) ==
    /\ b.phase = "embed" /\ Disturb
    /\ call' = Settled(call, b.resolvers, <<>>)
    /\ batches' = batches \ {b}
    /\ objects' = Disposed(objects, b.on)
    /\ provider' = 0 /\ initialized' = FALSE
    /\ UNCHANGED <<config, initializing, queueTexts, queueResolvers, timer>>

SetUpEnds(p) == SetUpSucceeds(p) \/ SetUpFails(p)
BatchEnds(b) == BatchAnswered(b) \/ BatchFails(b)

ManagerStep ==
    \/ \E kind \in Kinds : Configure(kind)
    \/ Dispose
    \/ Flush
    \/ \E p \in DOMAIN objects : SetUpEnds(p)
    \/ \E b \in batches : BatchEnds(b)

\* What this call waits for happens: a set-up is given up after two minutes, and
\* a model or a server answers or fails.
MovesOn(c) ==
    \E b \in batches :
        /\ \E i \in DOMAIN b.resolvers : b.resolvers[i] = c
        /\ SetUpEnds(b.on) \/ BatchEnds(b)

ManagerFairness == WF_managerVars(Flush) /\ \A c \in Calls : WF_managerVars(MovesOn(c))

-----------------------------------------------------------------------------
\* The calls that a queue or a batch will settle.
InQueue == {queueResolvers[i] : i \in DOMAIN queueResolvers}
InBatch(b) == {b.resolvers[i] : i \in DOMAIN b.resolvers}

\* Every promise that is not settled is in exactly one place that will settle
\* it: the queue, with the timer armed, or one batch.  An overflowing queue, a
\* configure or a dispose in the middle of a set-up, and a provider that throws
\* leave none behind and settle none twice.
EmbedAccounted ==
    /\ {c \in Calls : call[c].answer = Waiting} = InQueue \cup UNION {InBatch(b) : b \in batches}
    /\ Len(queueTexts) = Len(queueResolvers) /\ Cardinality(InQueue) = Len(queueResolvers)
    /\ timer <=> queueResolvers # <<>>
    /\ \A b \in batches :
         /\ Len(b.texts) = Len(b.resolvers) /\ Cardinality(InBatch(b)) = Len(b.resolvers)
         /\ InBatch(b) \cap InQueue = {}
         /\ \A d \in batches \ {b} : InBatch(b) \cap InBatch(d) = {}

\* A call is answered with the vector of another text only if the server gave
\* less than it was asked in an earlier chunk of the same batch, which moves up
\* the vectors of the later ones.  Nothing else does that: the two arrays of the
\* queue stay aligned when the oldest requests are dropped, and a batch that ends
\* short leaves its last calls without a vector.
AnswersMatch ==
    \A c \in Calls : call[c].answer \in Vector =>
        \/ call[c].answer.of = call[c].text
        \/ call[c].answer.kind = "openai" /\ call[c].answer.after

\* Every call of embed is answered, whatever is configured, disposed of or fails
\* meanwhile: no caller waits for ever.
EmbedSettles == \A c \in Calls : call[c].answer = Waiting ~> call[c].answer # Waiting
=============================================================================
