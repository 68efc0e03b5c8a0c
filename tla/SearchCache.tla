---------------------------- MODULE SearchCache ----------------------------
(***************************************************************************)
(* The two-level cache of advancedCacheService.ts, a node-cache in memory  *)
(* over Redis, with its callers: product search, search suggestions, and   *)
(* the owner's and the administrator's ways of clearing it.                *)
(*                                                                         *)
(* A call gives up the event loop at each await.  All commands for Redis   *)
(* go down one connection, in the order they were sent, and nothing else   *)
(* writes these keys; so a command takes effect when it is sent, and its   *)
(* answer is handled later.  Any command may fail.                         *)
(*                                                                         *)
(* Time passes in ticks.  The history fields of an entry say how long it   *)
(* has been kept (rest), whether a newer one of its key was stored since   *)
(* (superseded), and whether a clearing by pattern is to remove it (doomed).*)
(***************************************************************************)
EXTENDS Integers, FiniteSets

CONSTANTS
    Calls,              \* requests that can be in flight at once
    SearchKeys,         \* cache keys search:<query>:<filters>
    SuggestionKeys,     \* cache keys suggestions:<query>
    Marketplaces,       \* what a search asks
    SearchTtl,          \* life of a search result in Redis, in ticks
    SuggestionTtl,      \* life of suggestions in Redis
    MemoryTtl,          \* stdTTL: life of a copy of a Redis entry in memory
    MaxKeys,            \* maxKeys of the memory level
    None                \* no entry, no key

Keys == SearchKeys \cup SuggestionKeys

ASSUME TtlAssumption ==
    /\ SearchTtl \in Nat \ {0}
    /\ SuggestionTtl \in Nat \ {0}
    /\ MemoryTtl \in Nat \ {0}

Entry == [rest : Nat, left : Nat, superseded : BOOLEAN, doomed : BOOLEAN]
Cached == Entry \cup {None}

ASSUME KeysAssumption ==
    /\ IsFiniteSet(Keys)
    /\ MaxKeys \in Nat
    /\ None \notin Keys
    /\ None \notin Entry

Ttl(k) == IF k \in SearchKeys THEN SearchTtl ELSE SuggestionTtl

VARIABLES
    memory,     \* l1Cache; an entry whose time is up stays until it is swept
    store,      \* Redis
    call,       \* each request, from its GET to its last write
    clearing    \* deletePattern between KEYS and DEL

vars == <<memory, store, call, clearing>>

Fresh == [rest |-> 0, left |-> 0, superseded |-> FALSE, doomed |-> FALSE]

\* What a request does next: handle the answer of GET, wait for marketplaces,
\* or wait for the analytics query after which it stores what it holds.
Request == [at : {"idle", "reading", "asking", "storing"},
            key : Keys \cup {None},
            held : Cached,
            pending : SUBSET Marketplaces]

Idle == [at |-> "idle", key |-> None, held |-> None, pending |-> {}]

NoClearing == [pattern |-> {}, listed |-> {}]

TypeOK ==
    /\ memory \in [Keys -> Cached]
    /\ store \in [Keys -> Cached]
    /\ call \in [Calls -> Request]
    /\ clearing \in [pattern : SUBSET Keys, listed : SUBSET Keys]
    /\ \A c \in Calls : /\ call[c].at # "idle" => call[c].key \in Keys
                        /\ call[c].at = "storing" => call[c].held # None

Init ==
    /\ memory = [k \in Keys |-> None]
    /\ store = [k \in Keys |-> None]
    /\ call = [c \in Calls |-> Idle]
    /\ clearing = NoClearing

Live(e) == e # None /\ e.left > 0

\* node-cache refuses every set, of a key it holds too, once it is full.
Full == Cardinality({k \in Keys : memory[k] # None}) >= MaxKeys

\* What a request holds of an entry; its time left stays in Redis.
InHand(e) == IF e = None THEN None ELSE [e EXCEPT !.left = 0]

Reply(c) == call' = [call EXCEPT ![c] = Idle]

(***************************************************************************)
(* A search or a request for suggestions.                                  *)
(***************************************************************************)
\* get() up to its await.  A hit in memory is answered at once and changes
\* nothing; an entry past its time is dropped by the look-up.  GET may fail,
\* which get() takes for a miss.
Read(c, k) ==
    /\ call[c].at = "idle"
    /\ ~Live(memory[k])
    /\ memory' = [memory EXCEPT ![k] = None]
    /\ \E found \in {InHand(store[k]), None} :
           call' = [call EXCEPT ![c] = [Idle EXCEPT !.at = "reading",
                                                    !.key = k, !.held = found]]
    /\ UNCHANGED <<store, clearing>>

\* Mutant of Fill: the copy lives as long as what a search stores.
FillForLong(c) ==
    /\ call[c].at = "reading"
    /\ call[c].held # None
    /\ ~Full
    /\ memory' = [memory EXCEPT ![call[c].key] =
                      [call[c].held EXCEPT !.left = Ttl(call[c].key)]]
    /\ Reply(c)
    /\ UNCHANGED <<store, clearing>>

\* Mutant of Fill: a hit in Redis prolongs the entry there.
FillAndProlong(c) ==
    /\ call[c].at = "reading"
    /\ call[c].held # None
    /\ ~Full
    /\ memory' = [memory EXCEPT ![call[c].key] =
                      [call[c].held EXCEPT !.left = MemoryTtl]]
    /\ store' = [store EXCEPT ![call[c].key] =
                     IF @ = None THEN None ELSE [@ EXCEPT !.left = Ttl(call[c].key)]]
    /\ Reply(c)
    /\ UNCHANGED clearing

\* The rest of get() on a hit in Redis: the answer goes to the memory level.
Fill(c) ==
    /\ call[c].at = "reading"
    /\ call[c].held # None
    /\ ~Full
    /\ memory' = [memory EXCEPT ![call[c].key] =
                      [call[c].held EXCEPT !.left = MemoryTtl]]
    /\ Reply(c)
    /\ UNCHANGED <<store, clearing>>

\* The rest of get() on a miss, or on a hit that a full memory level turns
\* into an exception and so into a miss: a search asks the marketplaces, the
\* suggestions come from one query.
Miss(c) ==
    /\ call[c].at = "reading"
    /\ call[c].held = None \/ Full
    /\ call' = [call EXCEPT ![c] =
                    IF @.key \in SearchKeys
                    THEN [@ EXCEPT !.at = "asking", !.held = None,
                                   !.pending = Marketplaces]
                    ELSE [@ EXCEPT !.at = "storing", !.held = Fresh]]
    /\ UNCHANGED <<memory, store, clearing>>

\* A marketplace answers or fails: Promise.allSettled waits for the others.
Answer(c, m) ==
    /\ m \in call[c].pending
    /\ call' = [call EXCEPT ![c].pending = @ \ {m}]
    /\ UNCHANGED <<memory, store, clearing>>

\* Mutant of TimeOut: the timers start with the first answer.
TimeOutAfterAnswer(c) ==
    /\ call[c].pending \notin {{}, Marketplaces}
    /\ call' = [call EXCEPT ![c].pending = {}]
    /\ UNCHANGED <<memory, store, clearing>>

\* SEARCH_TIMEOUT rejects the races that are still open.
TimeOut(c) ==
    /\ call[c].pending # {}
    /\ call' = [call EXCEPT ![c].pending = {}]
    /\ UNCHANGED <<memory, store, clearing>>

\* All races are settled: the answer is made of what there is, and the
\* popularity of the query is asked for, the last await before the cache.
Collect(c) ==
    /\ call[c].at = "asking"
    /\ call[c].pending = {}
    /\ call' = [call EXCEPT ![c].at = "storing", ![c].held = Fresh]
    /\ UNCHANGED <<memory, store, clearing>>

\* What set() makes of the entries of key k that are about.
Supersede(e) == IF e = None THEN None ELSE [e EXCEPT !.superseded = TRUE]

SupersedeRead(k) ==
    [d \in Calls |-> IF call[d].at = "reading" /\ call[d].key = k
                     THEN [call[d] EXCEPT !.held = Supersede(@)]
                     ELSE call[d]]

\* set(): memory first, then SETEX, which may fail; a full memory level stops
\* it before either.
Set(c) ==
    LET k == call[c].key
        e == [call[c].held EXCEPT !.left = Ttl(k)]
    IN  /\ call[c].at = "storing"
        /\ \/ /\ Full
              /\ Reply(c)
              /\ UNCHANGED <<memory, store>>
           \/ /\ ~Full
              /\ memory' = [memory EXCEPT ![k] = e]
              /\ store' \in {[store EXCEPT ![k] = e],
                             [store EXCEPT ![k] = Supersede(@)]}
              /\ call' = [SupersedeRead(k) EXCEPT ![c] = Idle]
        /\ UNCHANGED clearing

(***************************************************************************)
(* Clearing the cache.                                                     *)
(***************************************************************************)
\* flush(); when FLUSHDB fails the request does, after the memory is empty.
Flush ==
    /\ memory' = [k \in Keys |-> None]
    /\ store' \in {[k \in Keys |-> None], store}
    /\ UNCHANGED <<call, clearing>>

Mark(e, doomed) == IF e = None THEN None ELSE [e EXCEPT !.doomed = doomed]

Doom(level, ks) ==
    [k \in Keys |-> IF k \in ks THEN Mark(level[k], TRUE) ELSE level[k]]

Spare(level) == [k \in Keys |-> Mark(level[k], FALSE)]

SpareHeld == [c \in Calls |-> [call[c] EXCEPT !.held = Mark(@, FALSE)]]

Without(level, ks) == [k \in Keys |-> IF k \in ks THEN None ELSE level[k]]

\* deletePattern() up to KEYS, which knows the keys in Redis only.
ListKeys(pattern) ==
    /\ clearing = NoClearing
    /\ clearing' = [pattern |-> pattern,
                    listed |-> {k \in pattern : store[k] # None}]
    /\ memory' = Doom(memory, pattern)
    /\ store' = Doom(store, pattern)
    /\ UNCHANGED call

\* The rest of it.  A DEL that fails leaves Redis as it is; the request is
\* answered with success all the same.
DeleteListed ==
    /\ clearing.pattern # {}
    /\ memory' = Spare(Without(memory, clearing.listed))
    /\ store' \in {Spare(Without(store, clearing.listed)), Spare(store)}
    /\ call' = SpareHeld
    /\ clearing' = NoClearing

(***************************************************************************)
(* Time, and the end of the process.                                       *)
(***************************************************************************)
Older(e) ==
    IF e = None THEN None
    ELSE [e EXCEPT !.rest = IF e.left > 0 THEN @ + 1 ELSE @,
                   !.left = IF e.left > 0 THEN @ - 1 ELSE 0]

\* One more tick: Redis drops what is due, memory no longer answers with it.
Tick ==
    /\ \E k \in Keys : Live(memory[k]) \/ Live(store[k])
    /\ memory' = [k \in Keys |-> Older(memory[k])]
    /\ store' = [k \in Keys |-> IF Live(Older(store[k])) THEN Older(store[k]) ELSE None]
    /\ UNCHANGED <<call, clearing>>

\* checkperiod: node-cache removes what is past its time.
Sweep ==
    /\ \E k \in Keys : memory[k] # None /\ ~Live(memory[k])
    /\ memory' = [k \in Keys |-> IF Live(memory[k]) THEN memory[k] ELSE None]
    /\ UNCHANGED <<store, call, clearing>>

\* The process ends and starts again with an empty memory level.
Restart ==
    /\ memory' = [k \in Keys |-> None]
    /\ call' = [c \in Calls |-> Idle]
    /\ clearing' = NoClearing
    /\ store' = Spare(store)

CallStep(c) ==
    \/ Fill(c) \/ Miss(c) \/ TimeOut(c) \/ Collect(c) \/ Set(c)

Next ==
    \/ \E c \in Calls : \/ \E k \in Keys : Read(c, k)
                        \/ \E m \in Marketplaces : Answer(c, m)
                        \/ CallStep(c)
    \/ \E pattern \in SUBSET Keys \ {{}} : ListKeys(pattern)
    \/ DeleteListed \/ Flush \/ Tick \/ Sweep \/ Restart

\* Redis answers or the command is rejected, the timers of a search and the
\* time limit of a query run out.  Of the marketplaces nothing is assumed.
Fairness == \A c \in Calls : WF_vars(CallStep(c))

Spec == Init /\ [][Next]_vars /\ Fairness

(***************************************************************************)
(* Properties.                                                             *)
(***************************************************************************)
\* An entry is kept no longer than its life in Redis and one life of a copy
\* in memory, whichever way it went from level to level: copies are made only
\* upwards, and reading prolongs nothing (advancedCacheService.ts:28-71).
Shelf(k) == Ttl(k) + MemoryTtl
StaleBound ==
    \A k \in Keys : /\ memory[k] # None => memory[k].rest + memory[k].left <= Shelf(k)
                    /\ store[k] # None => store[k].rest + store[k].left <= Ttl(k)

\* When a newer entry has been stored, an older one can come back to the memory
\* level - from an answer of Redis that was on its way, or from Redis when it
\* missed the newer one - but only for the short life of a copy
\* (advancedCacheService.ts:38-46, 61-64).
SupersededBriefly ==
    \A k \in Keys : memory[k] # None /\ memory[k].superseded
                        => memory[k].left <= MemoryTtl

\* Every request is answered, whatever marketplaces and clearings do
\* (searchService.ts:33-44).
RequestAnswered == \A c \in Calls : call[c].at # "idle" ~> call[c].at = "idle"

\* "Cache Management - очистка" (owner.ts:466), "Удаление из L1"
\* (advancedCacheService.ts:91): when a clearing by pattern ends, the memory
\* level has lost all entries of the pattern that it had when the clearing began.
ClearClears ==
    [][clearing # NoClearing /\ clearing' = NoClearing =>
           \A k \in Keys : memory[k] # None /\ memory[k].doomed
                               => memory'[k] = None]_vars
=============================================================================
