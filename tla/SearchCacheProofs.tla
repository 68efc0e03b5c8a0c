------------------------- MODULE SearchCacheProofs -------------------------
(***************************************************************************)
(* Proofs about SearchCache, for any requests, keys and marketplaces, any  *)
(* capacity of the memory level and any lives of the entries.              *)
(***************************************************************************)
EXTENDS SearchCache, TLAPS

\* What a request holds: an answer of Redis is as old as entries of Redis may
\* be, an answer to be stored is new.
HeldFresh ==
    \A c \in Calls : call[c].held # None =>
        /\ call[c].at = "reading" => call[c].held.rest <= Ttl(call[c].key)
        /\ call[c].at = "storing" => call[c].held.rest = 0 /\ ~call[c].held.superseded

IInv == TypeOK /\ StaleBound /\ SupersededBriefly /\ HeldFresh

-----------------------------------------------------------------------------
\* The operators on entries.
LEMMA TtlType ==
    \A k \in Keys : /\ Ttl(k) \in Nat \ {0}
                    /\ MemoryTtl \in Nat \ {0}
                    /\ Shelf(k) = Ttl(k) + MemoryTtl
  BY TtlAssumption DEF Ttl, Shelf

LEMMA FreshType ==
    Fresh \in Entry /\ Fresh # None /\ Fresh.rest = 0 /\ ~Fresh.superseded
  <1>1. Fresh \in Entry /\ Fresh.rest = 0
    BY DEF Fresh, Entry
  <1>2. ~Fresh.superseded
    BY Zenon DEF Fresh
  <1> QED BY <1>1, <1>2, KeysAssumption

LEMMA MarkType ==
    ASSUME NEW e \in Cached, NEW b \in BOOLEAN
    PROVE  /\ Mark(e, b) \in Cached
           /\ Mark(e, b) = None <=> e = None
           /\ e # None => /\ Mark(e, b).rest = e.rest
                          /\ Mark(e, b).left = e.left
                          /\ Mark(e, b).superseded = e.superseded
  BY KeysAssumption DEF Mark, Cached, Entry

LEMMA SupersedeType ==
    ASSUME NEW e \in Cached
    PROVE  /\ Supersede(e) \in Cached
           /\ Supersede(e) = None <=> e = None
           /\ e # None => /\ Supersede(e).rest = e.rest
                          /\ Supersede(e).left = e.left
  BY KeysAssumption DEF Supersede, Cached, Entry

LEMMA InHandType ==
    ASSUME NEW e \in Cached
    PROVE  /\ InHand(e) \in Cached
           /\ InHand(e) = None <=> e = None
           /\ e # None => InHand(e).rest = e.rest
  BY KeysAssumption DEF InHand, Cached, Entry

LEMMA OlderType ==
    ASSUME NEW e \in Cached
    PROVE  /\ Older(e) \in Cached
           /\ Older(e) = None <=> e = None
           /\ e # None => /\ Older(e).rest + Older(e).left = e.rest + e.left
                          /\ Older(e).left <= e.left
                          /\ Older(e).superseded = e.superseded
  <1>1. CASE e = None
    BY <1>1 DEF Older, Cached
  <1>2. CASE e # None
    <2>1. e \in Entry
      BY <1>2 DEF Cached
    <2> DEFINE r == IF e.left > 0 THEN e.rest + 1 ELSE e.rest
               l == IF e.left > 0 THEN e.left - 1 ELSE 0
    <2>2. Older(e) = [e EXCEPT !.rest = r, !.left = l]
      BY <1>2 DEF Older
    <2>3. r \in Nat /\ l \in Nat /\ r + l = e.rest + e.left /\ l <= e.left
      BY <2>1 DEF Entry
    <2> HIDE DEF r, l
    <2>4. /\ Older(e) \in Entry
          /\ Older(e).rest = r
          /\ Older(e).left = l
          /\ Older(e).superseded = e.superseded
      BY <2>1, <2>2, <2>3 DEF Entry
    <2> QED BY <1>2, <2>3, <2>4, KeysAssumption DEF Cached
  <1> QED BY <1>1, <1>2

\* An entry put into a level for a time.
LEMMA ForType ==
    ASSUME NEW e \in Entry, NEW t \in Nat
    PROVE  /\ [e EXCEPT !.left = t] \in Entry
           /\ [e EXCEPT !.left = t] # None
           /\ [e EXCEPT !.left = t].rest = e.rest
           /\ [e EXCEPT !.left = t].left = t
           /\ [e EXCEPT !.left = t].superseded = e.superseded
  BY KeysAssumption DEF Entry

LEMMA IdleType ==
    /\ Idle \in Request
    /\ Idle.at = "idle"
    /\ Idle.held = None
  BY DEF Idle, Request, Cached

-----------------------------------------------------------------------------
LEMMA InitInv == Init => IInv
  <1> SUFFICES ASSUME Init PROVE IInv
    OBVIOUS
  <1>1. TypeOK
    BY IdleType DEF Init, TypeOK, Cached, NoClearing
  <1>2. StaleBound /\ SupersededBriefly
    BY DEF Init, StaleBound, SupersededBriefly
  <1>3. HeldFresh
    BY IdleType DEF Init, HeldFresh
  <1> QED BY <1>1, <1>2, <1>3 DEF IInv

\* Every step keeps the types.
LEMMA TypeStep ==
    ASSUME TypeOK, [Next]_vars
    PROVE  TypeOK'
  <1> USE DEF TypeOK
  <1>1. ASSUME NEW c \in Calls, NEW k \in Keys, Read(c, k)
        PROVE  TypeOK'
    <2>1. PICK found \in {InHand(store[k]), None} :
              call' = [call EXCEPT ![c] = [Idle EXCEPT !.at = "reading",
                                                       !.key = k, !.held = found]]
      BY <1>1 DEF Read
    <2>2. found \in Cached
      BY InHandType DEF Cached
    <2>3. [Idle EXCEPT !.at = "reading", !.key = k, !.held = found] \in Request
      BY <2>2 DEF Idle, Request
    <2>4. memory' \in [Keys -> Cached]
      BY <1>1 DEF Read, Cached
    <2> QED BY <1>1, <2>1, <2>3, <2>4 DEF Read, Idle
  <1>2. ASSUME NEW c \in Calls, Fill(c)
        PROVE  TypeOK'
    <2>1. call[c].held \in Entry /\ call[c].key \in Keys
      BY <1>2 DEF Fill, Request, Cached
    <2>2. memory' \in [Keys -> Cached]
      BY <1>2, <2>1, ForType, TtlAssumption DEF Fill, Cached
    <2> QED BY <1>2, <2>2, IdleType DEF Fill, Reply
  <1>3. ASSUME NEW c \in Calls, Miss(c)
        PROVE  TypeOK'
    <2>1. call[c] \in Request /\ call[c].key \in Keys
      BY <1>3 DEF Miss
    <2>2. call'[c] \in Request /\ call'[c].key \in Keys
          /\ (call'[c].at = "storing" => call'[c].held # None)
      BY <1>3, <2>1, FreshType DEF Miss, Request, Cached
    <2> QED BY <1>3, <2>2 DEF Miss
  <1>4. ASSUME NEW c \in Calls, NEW m \in Marketplaces, Answer(c, m)
        PROVE  TypeOK'
    BY <1>4 DEF Answer, Request
  <1>5. ASSUME NEW c \in Calls, TimeOut(c)
        PROVE  TypeOK'
    BY <1>5 DEF TimeOut, Request
  <1>6. ASSUME NEW c \in Calls, Collect(c)
        PROVE  TypeOK'
    <2>1. [call[c] EXCEPT !.at = "storing", !.held = Fresh] \in Request
      BY FreshType DEF Request, Cached
    <2>2. call[c].key \in Keys
      BY <1>6 DEF Collect
    <2>3. call' = [call EXCEPT ![c] = [call[c] EXCEPT !.at = "storing", !.held = Fresh]]
      BY <1>6 DEF Collect
    <2>4. call'[c].held = Fresh /\ call'[c].key = call[c].key
      BY <2>3 DEF Request
    <2> QED BY <1>6, <2>1, <2>2, <2>3, <2>4, FreshType DEF Collect
  <1>7. ASSUME NEW c \in Calls, Set(c)
        PROVE  TypeOK'
    <2> DEFINE k == call[c].key
    <2>1. k \in Keys /\ call[c].held \in Entry
      BY <1>7 DEF Set, Request, Cached
    <2>2. Ttl(k) \in Nat
      BY <2>1, TtlType
    <2>3. [call[c].held EXCEPT !.left = Ttl(k)] \in Cached
      BY <2>1, <2>2, ForType DEF Cached
    <2>4. SupersedeRead(k) \in [Calls -> Request]
      <3>1. ASSUME NEW d \in Calls
            PROVE  [call[d] EXCEPT !.held = Supersede(@)] \in Request
        BY SupersedeType DEF Request
      <3> QED BY <3>1 DEF SupersedeRead
    <2>5. \A d \in Calls : /\ SupersedeRead(k)[d].at = call[d].at
                           /\ SupersedeRead(k)[d].key = call[d].key
                           /\ call[d].at = "storing" => SupersedeRead(k)[d].held = call[d].held
      BY DEF SupersedeRead, Request
    <2>6. CASE Full
      BY <1>7, <2>6, IdleType DEF Set, Reply
    <2>7. CASE ~Full
      <3>1. memory' \in [Keys -> Cached]
        BY <1>7, <2>3, <2>7 DEF Set
      <3>2. Supersede(store[k]) \in Cached
        BY <2>1, SupersedeType
      <3>3. store' \in [Keys -> Cached]
        BY <1>7, <2>3, <2>7, <3>2 DEF Set
      <3>4. call' = [SupersedeRead(k) EXCEPT ![c] = Idle] /\ clearing' = clearing
        BY <1>7, <2>7 DEF Set
      <3>5. call' \in [Calls -> Request]
        BY <3>4, <2>4, IdleType
      <3>6. \A d \in Calls : /\ call'[d].at # "idle" => call'[d].key \in Keys
                             /\ call'[d].at = "storing" => call'[d].held # None
        BY <3>4, <2>4, <2>5, IdleType
      <3> QED BY <3>1, <3>3, <3>4, <3>5, <3>6
    <2> QED BY <2>6, <2>7
  <1>8. ASSUME NEW pattern \in SUBSET Keys, ListKeys(pattern)
        PROVE  TypeOK'
    <2>1. \A k \in Keys : Mark(memory[k], TRUE) \in Cached /\ Mark(store[k], TRUE) \in Cached
      BY MarkType
    <2>2. memory' \in [Keys -> Cached] /\ store' \in [Keys -> Cached]
      BY <1>8, <2>1 DEF ListKeys, Doom
    <2> QED BY <1>8, <2>2 DEF ListKeys
  <1>9. CASE DeleteListed
    <2>1. \A e \in Cached : Mark(e, FALSE) \in Cached
      BY MarkType
    <2>2. \A ks \in SUBSET Keys : /\ Without(memory, ks) \in [Keys -> Cached]
                                  /\ Without(store, ks) \in [Keys -> Cached]
      BY DEF Without, Cached
    <2>3. clearing.listed \in SUBSET Keys
      OBVIOUS
    <2>4. memory' \in [Keys -> Cached] /\ store' \in [Keys -> Cached]
      <3>1. \A level \in [Keys -> Cached] : Spare(level) \in [Keys -> Cached]
        BY <2>1 DEF Spare
      <3> QED BY <1>9, <2>2, <2>3, <3>1 DEF DeleteListed
    <2>5. \A c \in Calls : /\ SpareHeld[c] \in Request
                           /\ SpareHeld[c].at = call[c].at
                           /\ SpareHeld[c].key = call[c].key
                           /\ SpareHeld[c].held = None <=> call[c].held = None
      <3> SUFFICES ASSUME NEW c \in Calls
                   PROVE  /\ SpareHeld[c] \in Request
                          /\ SpareHeld[c].at = call[c].at
                          /\ SpareHeld[c].key = call[c].key
                          /\ SpareHeld[c].held = None <=> call[c].held = None
        OBVIOUS
      <3>1. call[c] \in Request /\ call[c].held \in Cached
        BY DEF Request
      <3>2. Mark(call[c].held, FALSE) \in Cached
            /\ (Mark(call[c].held, FALSE) = None <=> call[c].held = None)
        BY <3>1, MarkType
      <3>3. SpareHeld[c] = [call[c] EXCEPT !.held = Mark(call[c].held, FALSE)]
        BY DEF SpareHeld
      <3> QED BY <3>1, <3>2, <3>3 DEF Request
    <2>6. SpareHeld \in [Calls -> Request]
      BY <2>5 DEF SpareHeld
    <2> QED BY <1>9, <2>4, <2>5, <2>6 DEF DeleteListed, NoClearing
  <1>10. CASE Flush
    BY <1>10 DEF Flush, Cached
  <1>11. CASE Tick
    <2>1. \A e \in Cached : Older(e) \in Cached
      BY OlderType
    <2>2. None \in Cached
      BY DEF Cached
    <2>3. memory' \in [Keys -> Cached]
      BY <1>11, <2>1 DEF Tick
    <2>4. store' \in [Keys -> Cached]
      BY <1>11, <2>1, <2>2 DEF Tick
    <2> QED BY <1>11, <2>3, <2>4 DEF Tick
  <1>12. CASE Sweep
    BY <1>12 DEF Sweep, Cached
  <1>13. CASE Restart
    <2>1. \A k \in Keys : Mark(store[k], FALSE) \in Cached
      BY MarkType
    <2>2. store' \in [Keys -> Cached]
      BY <1>13, <2>1 DEF Restart, Spare
    <2> QED BY <1>13, <2>2, IdleType DEF Restart, NoClearing, Cached
  <1>14. CASE UNCHANGED vars
    BY <1>14 DEF vars
  <1> QED BY <1>1, <1>2, <1>3, <1>4, <1>5, <1>6, <1>7, <1>8, <1>9, <1>10, <1>11,
             <1>12, <1>13, <1>14 DEF Next, CallStep

-----------------------------------------------------------------------------
\* What the other requests hold when c stores an entry of key k.
LEMMA SupersedeReadHeld ==
    ASSUME TypeOK, NEW k \in Keys, NEW d \in Calls
    PROVE  /\ SupersedeRead(k)[d].at = call[d].at
           /\ SupersedeRead(k)[d].key = call[d].key
           /\ SupersedeRead(k)[d].held = None <=> call[d].held = None
           /\ call[d].held # None => SupersedeRead(k)[d].held.rest = call[d].held.rest
           /\ call[d].at = "storing" => SupersedeRead(k)[d].held = call[d].held
  <1>1. call[d] \in Request /\ call[d].held \in Cached
    BY DEF TypeOK, Request
  <1>2. /\ Supersede(call[d].held) = None <=> call[d].held = None
        /\ call[d].held # None => Supersede(call[d].held).rest = call[d].held.rest
    BY <1>1, SupersedeType
  <1>3. SupersedeRead(k)[d] = IF call[d].at = "reading" /\ call[d].key = k
                              THEN [call[d] EXCEPT !.held = Supersede(call[d].held)]
                              ELSE call[d]
    BY DEF SupersedeRead
  <1> QED BY <1>1, <1>2, <1>3 DEF Request

\* The two levels after each action that writes them, as far as the bounds go.
LEMMA LevelsStep ==
    ASSUME IInv, [Next]_vars
    PROVE  StaleBound' /\ SupersededBriefly'
  <1> USE DEF IInv
  <1> DEFINE InMemory(k, e) == e # None => /\ e.rest + e.left <= Shelf(k)
                                           /\ e.superseded => e.left <= MemoryTtl
             InStore(k, e) == e # None => e.rest + e.left <= Ttl(k)
  <1>1. \A k \in Keys : InMemory(k, memory[k]) /\ InStore(k, store[k])
    BY DEF StaleBound, SupersededBriefly
  <1>2. \A k \in Keys : memory[k] \in Cached /\ store[k] \in Cached
    BY DEF TypeOK
  <1>3. \A k \in Keys : InMemory(k, None) /\ InStore(k, None)
    OBVIOUS
  <1>4. SUFFICES \A k \in Keys : InMemory(k, memory'[k]) /\ InStore(k, store'[k])
    BY DEF StaleBound, SupersededBriefly, Shelf, Ttl
  <1>5. ASSUME NEW k \in Keys, NEW b \in BOOLEAN, NEW e \in Cached
        PROVE  /\ InMemory(k, e) => InMemory(k, Mark(e, b))
               /\ InStore(k, e) => InStore(k, Mark(e, b))
    BY MarkType
  <1>6. ASSUME NEW k \in Keys, NEW e \in Cached
        PROVE  /\ InMemory(k, e) => InMemory(k, Older(e))
               /\ InStore(k, e) => InStore(k, Older(e))
    <2>1. CASE e = None
      BY <2>1, OlderType
    <2>2. CASE e # None
      <3>1. e \in Entry /\ Older(e) \in Entry
        BY <2>2, OlderType DEF Cached
      <3>2. /\ e.left \in Nat /\ Older(e).left \in Nat
            /\ Older(e).rest + Older(e).left = e.rest + e.left
            /\ Older(e).left <= e.left
            /\ Older(e).superseded = e.superseded
        BY <2>2, <3>1, OlderType DEF Entry
      <3> QED BY <2>2, <3>2, TtlAssumption
    <2> QED BY <2>1, <2>2
  <1>7. ASSUME NEW c \in Calls, NEW k \in Keys, Read(c, k)
        PROVE  \A j \in Keys : InMemory(j, memory'[j]) /\ InStore(j, store'[j])
    BY <1>1, <1>3, <1>7 DEF Read, TypeOK
  <1>8. ASSUME NEW c \in Calls, Fill(c)
        PROVE  \A j \in Keys : InMemory(j, memory'[j]) /\ InStore(j, store'[j])
    <2> DEFINE e == [call[c].held EXCEPT !.left = MemoryTtl]
    <2>1. call[c].held \in Entry /\ call[c].key \in Keys
      BY <1>8 DEF Fill, TypeOK, Request, Cached
    <2>2. /\ e.rest = call[c].held.rest
          /\ e.left = MemoryTtl
          /\ call[c].held.rest \in Nat
      BY <2>1, ForType, TtlAssumption DEF Entry
    <2>3. call[c].held.rest <= Ttl(call[c].key)
      BY <1>8 DEF Fill, HeldFresh
    <2>4. InMemory(call[c].key, e)
      BY <2>1, <2>2, <2>3, TtlType
    <2>5. memory' = [memory EXCEPT ![call[c].key] = e] /\ store' = store
      BY <1>8 DEF Fill
    <2> HIDE DEF InMemory, InStore, e
    <2> QED BY <1>1, <2>1, <2>4, <2>5 DEF TypeOK
  <1>9. ASSUME NEW c \in Calls, Set(c)
        PROVE  \A j \in Keys : InMemory(j, memory'[j]) /\ InStore(j, store'[j])
    <2> DEFINE k == call[c].key
               e == [call[c].held EXCEPT !.left = Ttl(k)]
    <2>1. k \in Keys /\ call[c].held \in Entry /\ call[c].held # None
      BY <1>9 DEF Set, TypeOK, Request, Cached
    <2>2. call[c].held.rest = 0 /\ ~call[c].held.superseded
      BY <1>9, <2>1 DEF Set, HeldFresh
    <2>3. e.rest = 0 /\ e.left = Ttl(k)
      BY <2>1, <2>2, ForType, TtlType
    <2>4. ~e.superseded
      BY <2>1, <2>2, ForType, TtlType
    <2>5. InMemory(k, e) /\ InStore(k, e)
      BY <2>1, <2>3, <2>4, TtlType
    <2>6. InStore(k, Supersede(store[k]))
      BY <1>1, <1>2, <2>1, SupersedeType
    <2>7. CASE Full
      BY <1>1, <1>9, <2>7 DEF Set
    <2>8. CASE ~Full
      <3>1. memory' = [memory EXCEPT ![k] = e]
            /\ store' \in {[store EXCEPT ![k] = e], [store EXCEPT ![k] = Supersede(store[k])]}
        BY <1>9, <2>8 DEF Set
      <3> HIDE DEF InMemory, InStore, e, k
      <3> QED BY <1>1, <2>1, <2>5, <2>6, <3>1 DEF TypeOK
    <2> QED BY <2>7, <2>8
  <1>10. ASSUME NEW pattern \in SUBSET Keys, ListKeys(pattern)
         PROVE  \A j \in Keys : InMemory(j, memory'[j]) /\ InStore(j, store'[j])
    <2> HIDE DEF InMemory, InStore
    <2> QED BY <1>1, <1>2, <1>5, <1>10 DEF ListKeys, Doom
  <1>11. CASE DeleteListed
    <2> HIDE DEF InMemory, InStore
    <2>1. ASSUME NEW level \in [Keys -> Cached], NEW j \in Keys
          PROVE  /\ Spare(level)[j] = Mark(level[j], FALSE)
                 /\ Without(level, clearing.listed)[j] \in {level[j], None}
                 /\ Without(level, clearing.listed) \in [Keys -> Cached]
      BY DEF Spare, Without, Cached
    <2>2. \A j \in Keys : /\ InMemory(j, Spare(Without(memory, clearing.listed))[j])
                         /\ InStore(j, Spare(Without(store, clearing.listed))[j])
                         /\ InStore(j, Spare(store)[j])
      <3> SUFFICES ASSUME NEW j \in Keys
                   PROVE  /\ InMemory(j, Spare(Without(memory, clearing.listed))[j])
                          /\ InStore(j, Spare(Without(store, clearing.listed))[j])
                          /\ InStore(j, Spare(store)[j])
        OBVIOUS
      <3>1. memory \in [Keys -> Cached] /\ store \in [Keys -> Cached]
        BY DEF TypeOK
      <3>2. /\ Without(memory, clearing.listed) \in [Keys -> Cached]
            /\ Without(store, clearing.listed) \in [Keys -> Cached]
            /\ Without(memory, clearing.listed)[j] \in {memory[j], None}
            /\ Without(store, clearing.listed)[j] \in {store[j], None}
        BY <2>1, <3>1
      <3>3. /\ InMemory(j, Without(memory, clearing.listed)[j])
            /\ InStore(j, Without(store, clearing.listed)[j])
        BY <1>1, <1>3, <3>2
      <3>4. /\ Without(memory, clearing.listed)[j] \in Cached
            /\ Without(store, clearing.listed)[j] \in Cached
        BY <3>2
      <3>5. /\ InMemory(j, Mark(Without(memory, clearing.listed)[j], FALSE))
            /\ InStore(j, Mark(Without(store, clearing.listed)[j], FALSE))
            /\ InStore(j, Mark(store[j], FALSE))
        BY <1>1, <1>2, <1>5, <3>3, <3>4
      <3> QED BY <2>1, <3>1, <3>2, <3>5
    <2> QED BY <1>11, <2>2 DEF DeleteListed
  <1>12. CASE Flush
    BY <1>1, <1>3, <1>12 DEF Flush
  <1>13. CASE Tick
    <2> HIDE DEF InMemory, InStore
    <2> QED BY <1>1, <1>2, <1>3, <1>6, <1>13 DEF Tick
  <1>14. CASE Sweep
    <2> HIDE DEF InMemory, InStore
    <2> QED BY <1>1, <1>3, <1>14 DEF Sweep
  <1>15. CASE Restart
    <2> HIDE DEF InMemory, InStore
    <2> QED BY <1>1, <1>2, <1>3, <1>5, <1>15 DEF Restart, Spare
  <1>16. ASSUME UNCHANGED <<memory, store>>
         PROVE  \A j \in Keys : InMemory(j, memory'[j]) /\ InStore(j, store'[j])
    BY <1>1, <1>16
  <1> QED BY <1>7, <1>8, <1>9, <1>10, <1>11, <1>12, <1>13, <1>14, <1>15, <1>16
          DEF Next, CallStep, Miss, Answer, TimeOut, Collect, vars

-----------------------------------------------------------------------------
\* What the requests hold after each action.
LEMMA HeldStep ==
    ASSUME IInv, [Next]_vars
    PROVE  HeldFresh'
  <1> USE DEF IInv
  <1> DEFINE OK(r) == r.held # None =>
                 /\ r.at = "reading" => r.held.rest <= Ttl(r.key)
                 /\ r.at = "storing" => r.held.rest = 0 /\ ~r.held.superseded
  <1>1. \A c \in Calls : OK(call[c]) /\ call[c] \in Request /\ call[c].held \in Cached
    BY DEF HeldFresh, TypeOK, Request
  <1>2. OK(Idle)
    BY IdleType
  <1>3. SUFFICES \A c \in Calls : OK(call'[c])
    BY DEF HeldFresh, Ttl
  <1>4. ASSUME NEW c \in Calls, NEW k \in Keys, Read(c, k)
        PROVE  \A d \in Calls : OK(call'[d])
    <2>1. PICK found \in {InHand(store[k]), None} :
              call' = [call EXCEPT ![c] = [Idle EXCEPT !.at = "reading",
                                                       !.key = k, !.held = found]]
      BY <1>4 DEF Read
    <2> DEFINE r == [Idle EXCEPT !.at = "reading", !.key = k, !.held = found]
    <2>2. r.at = "reading" /\ r.key = k /\ r.held = found
      BY DEF Idle
    <2>3. store[k] \in Cached
      BY DEF TypeOK
    <2>4. ASSUME found # None
          PROVE  found.rest <= Ttl(k)
      <3>1. found = InHand(store[k]) /\ store[k] # None
        BY <2>3, <2>4, InHandType
      <3>2. store[k] \in Entry
        BY <2>3, <3>1 DEF Cached
      <3>3. store[k].rest + store[k].left <= Ttl(k)
        BY <3>1 DEF StaleBound
      <3> QED BY <2>3, <3>1, <3>2, <3>3, InHandType, TtlType DEF Entry
    <2>5. OK(r)
      BY <2>2, <2>4
    <2>6. call' = [call EXCEPT ![c] = r]
      BY <2>1
    <2> HIDE DEF OK, r
    <2> QED BY <1>1, <2>5, <2>6 DEF TypeOK
  <1>5. ASSUME NEW c \in Calls, call' = [call EXCEPT ![c] = Idle]
        PROVE  \A d \in Calls : OK(call'[d])
    <2> HIDE DEF OK
    <2> QED BY <1>1, <1>2, <1>5 DEF TypeOK
  <1>6. ASSUME NEW c \in Calls, Miss(c)
        PROVE  \A d \in Calls : OK(call'[d])
    <2>1. OK(call'[c])
      BY <1>1, <1>6, FreshType DEF Miss, TypeOK, Request
    <2>2. \A d \in Calls : d # c => call'[d] = call[d]
      BY <1>6 DEF Miss, TypeOK
    <2> HIDE DEF OK
    <2> QED BY <1>1, <2>1, <2>2
  <1>7. ASSUME NEW c \in Calls, NEW m \in SUBSET Marketplaces,
               call' = [call EXCEPT ![c] = [call[c] EXCEPT !.pending = m]]
        PROVE  \A d \in Calls : OK(call'[d])
    <2>1. OK([call[c] EXCEPT !.pending = m])
      BY <1>1 DEF Request
    <2> HIDE DEF OK
    <2> QED BY <1>1, <1>7, <2>1 DEF TypeOK
  <1>8. ASSUME NEW c \in Calls, NEW m \in Marketplaces, Answer(c, m)
        PROVE  \A d \in Calls : OK(call'[d])
    <2>1. call[c].pending \ {m} \in SUBSET Marketplaces
      BY <1>1 DEF Request
    <2> QED BY <1>7, <1>8, <2>1 DEF Answer
  <1>9. ASSUME NEW c \in Calls, TimeOut(c)
        PROVE  \A d \in Calls : OK(call'[d])
    <2>1. {} \in SUBSET Marketplaces
      OBVIOUS
    <2>2. call' = [call EXCEPT ![c] = [call[c] EXCEPT !.pending = {}]]
      BY <1>9 DEF TimeOut
    <2> HIDE DEF OK
    <2> QED BY <1>7, <2>1, <2>2
  <1>10. ASSUME NEW c \in Calls, Collect(c)
         PROVE  \A d \in Calls : OK(call'[d])
    <2> DEFINE r == [call[c] EXCEPT !.at = "storing", !.held = Fresh]
    <2>1. r.at = "storing" /\ r.held = Fresh
      BY <1>1 DEF Request
    <2>2. OK(r)
      BY <2>1, FreshType
    <2>3. call' = [call EXCEPT ![c] = r]
      BY <1>10 DEF Collect
    <2> HIDE DEF OK, r
    <2> QED BY <1>1, <2>2, <2>3 DEF TypeOK
  <1>11. ASSUME NEW c \in Calls, Set(c)
         PROVE  \A d \in Calls : OK(call'[d])
    <2> DEFINE k == call[c].key
    <2>1. k \in Keys
      BY <1>11 DEF Set, TypeOK
    <2>2. CASE Full
      BY <1>5, <1>11, <2>2 DEF Set, Reply
    <2>3. CASE ~Full
      <3>1. call' = [SupersedeRead(k) EXCEPT ![c] = Idle]
        BY <1>11, <2>3 DEF Set
      <3>2. \A d \in Calls : OK(SupersedeRead(k)[d])
        BY <1>1, <2>1, SupersedeReadHeld
      <3>3. \A d \in Calls : call'[d] \in {Idle, SupersedeRead(k)[d]}
        BY <3>1 DEF SupersedeRead
      <3> HIDE DEF OK
      <3> QED BY <1>2, <3>2, <3>3
    <2> QED BY <2>2, <2>3
  <1>12. CASE DeleteListed
    <2>1. call' = SpareHeld
      BY <1>12 DEF DeleteListed
    <2>2. ASSUME NEW d \in Calls
          PROVE  OK(SpareHeld[d])
      <3>1. SpareHeld[d] = [call[d] EXCEPT !.held = Mark(call[d].held, FALSE)]
        BY DEF SpareHeld
      <3>2. /\ SpareHeld[d].at = call[d].at
            /\ SpareHeld[d].key = call[d].key
            /\ SpareHeld[d].held = Mark(call[d].held, FALSE)
        BY <1>1, <3>1 DEF Request
      <3>3. call[d].held \in Cached /\ OK(call[d])
        BY <1>1
      <3>4. /\ Mark(call[d].held, FALSE) = None <=> call[d].held = None
            /\ call[d].held # None =>
                 /\ Mark(call[d].held, FALSE).rest = call[d].held.rest
                 /\ Mark(call[d].held, FALSE).superseded = call[d].held.superseded
        BY <3>3, MarkType
      <3> QED BY <3>2, <3>3, <3>4
    <2> QED BY <2>1, <2>2
  <1>13. CASE Restart
    BY <1>2, <1>13 DEF Restart
  <1>14. ASSUME UNCHANGED call
         PROVE  \A d \in Calls : OK(call'[d])
    BY <1>1, <1>14
  <1> HIDE DEF OK
  <1>15. CASE Next
    BY <1>4, <1>5, <1>6, <1>8, <1>9, <1>10, <1>11, <1>12, <1>13, <1>14, <1>15
       DEF Next, CallStep, Fill, Reply, ListKeys, Flush, Tick, Sweep
  <1> QED BY <1>14, <1>15 DEF vars

-----------------------------------------------------------------------------
LEMMA Invariance == Spec => []IInv
  <1>1. Init => IInv
    BY InitInv
  <1>2. IInv /\ [Next]_vars => IInv'
    BY TypeStep, LevelsStep, HeldStep DEF IInv
  <1> QED BY <1>1, <1>2, PTL DEF Spec

\* The state of the cache and of its callers always has its type; in
\* particular no request stores an answer it does not have.
THEOREM TypeCorrect == Spec => []TypeOK
  <1>1. IInv => TypeOK
    BY DEF IInv
  <1> QED BY <1>1, Invariance, PTL

\* No entry outlives its time in Redis by more than the life of one copy in
\* memory, for any lives, however reads, writes and clearings interleave.
THEOREM StalenessBounded == Spec => []StaleBound
  <1>1. IInv => StaleBound
    BY DEF IInv
  <1> QED BY <1>1, Invariance, PTL

\* An answer that was replaced can be back in memory for the short life of a
\* copy only.
THEOREM SupersededLeave == Spec => []SupersededBriefly
  <1>1. IInv => SupersededBriefly
    BY DEF IInv
  <1> QED BY <1>1, Invariance, PTL
=============================================================================
