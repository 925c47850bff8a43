--------------------------- MODULE HyperDhtProofs ---------------------------
(***************************************************************************)
(* Proofs about HyperDht.tla, for all sets of values, salts and queries    *)
(* and for every capacity of the store.                                    *)
(***************************************************************************)
EXTENDS HyperDht, FiniteSetTheorems, TLAPS

\* SMT has 30 seconds for each step; the steps it is not suited for name Zenon.
USE SMTT(30)

\* The store holds no more than its capacity.
Bounded(s) == IsFiniteSet(Stored(s)) /\ Cardinality(Stored(s)) <= Capacity

\* Each key of the store holds an entry of its kind.
StoreOK(s) ==
  /\ DOMAIN s = StorageKey /\ Bounded(s)
  /\ \A x \in Salt : s[<<"Mutable", x>>] \in {m \in Mutable : m.salt = x} \cup {None}
  /\ \A v \in Value : s[ImmKey(v)] \in {v, None}

\* LruCache::put makes room where it has to.
LEMMA PutBounded ==
  ASSUME NEW s, DOMAIN s = StorageKey, Bounded(s), NEW k \in StorageKey, NEW e, NEW t \in Put(s, k, e)
  PROVE  Bounded(t)
<1> DEFINE S == Stored(s)
<1>1. IsFiniteSet(S) /\ Cardinality(S) \in Nat /\ Cardinality(S) <= Capacity /\ Capacity \in Nat
  BY FS_CardinalityType, StoreAssumption DEF Bounded
<1>2. ASSUME NEW U, IsFiniteSet(U), Cardinality(U) <= Capacity, Stored(t) \subseteq U
      PROVE  Bounded(t)
  <2>1. /\ IsFiniteSet(Stored(t)) /\ Cardinality(Stored(t)) <= Cardinality(U)
        /\ Cardinality(Stored(t)) \in Nat /\ Cardinality(U) \in Nat
    BY <1>2, FS_Subset, FS_CardinalityType
  <2> QED BY <1>1, <1>2, <2>1 DEF Bounded
<1>3. CASE s[k] # None
  <2>1. t = [s EXCEPT ![k] = e]
    BY <1>3 DEF Put
  <2>2. Stored(t) \subseteq S
    BY <1>3, <2>1 DEF Stored
  <2> QED BY <1>1, <1>2, <2>2
<1>4. CASE s[k] = None /\ Cardinality(S) < Capacity
  <2>1. t = [s EXCEPT ![k] = e]
    BY <1>4 DEF Put
  <2>2. Stored(t) \subseteq S \cup {k} /\ k \notin S
    BY <1>4, <2>1 DEF Stored
  <2>3. IsFiniteSet(S \cup {k}) /\ Cardinality(S \cup {k}) = Cardinality(S) + 1
    BY <1>1, <2>2, FS_AddElement, Zenon
  <2> QED BY <1>1, <1>2, <1>4, <2>2, <2>3
<1>5. CASE s[k] = None /\ ~(Cardinality(S) < Capacity)
  <2>1. PICK j \in S : t = [s EXCEPT ![k] = e, ![j] = None]
    BY <1>5 DEF Put
  <2>2. j # k /\ j \in StorageKey /\ k \notin S \ {j}
    BY <1>5 DEF Stored
  <2>3. Stored(t) \subseteq (S \ {j}) \cup {k}
    BY <2>1, <2>2 DEF Stored
  <2>4. IsFiniteSet(S \ {j}) /\ Cardinality(S \ {j}) = Cardinality(S) - 1
    BY <1>1, FS_RemoveElement
  <2> HIDE DEF S
  <2>5. IsFiniteSet((S \ {j}) \cup {k}) /\ Cardinality((S \ {j}) \cup {k}) = Cardinality(S \ {j}) + 1
    BY <2>2, <2>4, FS_AddElement
  <2> QED BY <1>1, <1>2, <2>3, <2>4, <2>5
<1> QED BY <1>3, <1>4, <1>5

\* LruCache::put stores the entry under its key; another key keeps its entry, or
\* loses it.
LEMMA PutEffect ==
  ASSUME NEW s, DOMAIN s = StorageKey, NEW k \in StorageKey, NEW e, NEW t \in Put(s, k, e)
  PROVE  /\ DOMAIN t = StorageKey
         /\ t[k] = e
         /\ \A j \in StorageKey : j # k => t[j] \in {s[j], None}
<1>1. CASE s[k] # None \/ Cardinality(Stored(s)) < Capacity
  <2>1. t = [s EXCEPT ![k] = e]
    BY <1>1 DEF Put
  <2> QED BY <2>1
<1>2. CASE ~(s[k] # None \/ Cardinality(Stored(s)) < Capacity)
  <2>1. PICK j \in Stored(s) : t = [s EXCEPT ![k] = e, ![j] = None]
    BY <1>2 DEF Put
  <2>2. j # k /\ j \in StorageKey
    BY <1>2 DEF Stored
  <2> QED BY <2>1, <2>2
<1> QED BY <1>1, <1>2

LEMMA PutMutableOK ==
  ASSUME NEW s, StoreOK(s), NEW m \in Mutable, NEW t \in Put(s, MutKey(m), m)
  PROVE  /\ StoreOK(t)
         /\ t[<<"Mutable", m.salt>>] = m
         /\ \A x \in Salt : x # m.salt => t[<<"Mutable", x>>] \in {s[<<"Mutable", x>>], None}
<1>1. MutKey(m) \in StorageKey /\ m.salt \in Salt
  BY DEF MutKey, StorageKey, Mutable
<1>2. \A x \in Salt : <<"Mutable", x>> \in StorageKey
  BY DEF StorageKey
<1>3. \A v \in Value : ImmKey(v) \in StorageKey /\ ImmKey(v) # MutKey(m)
  BY DEF StorageKey, ImmKey, MutKey
<1>4. /\ DOMAIN t = StorageKey
      /\ t[MutKey(m)] = m
      /\ \A j \in StorageKey : j # MutKey(m) => t[j] \in {s[j], None}
  BY <1>1, PutEffect DEF StoreOK
<1>5. \A x \in Salt : x # m.salt => t[<<"Mutable", x>>] \in {s[<<"Mutable", x>>], None}
  BY <1>2, <1>4 DEF MutKey
<1>6. Bounded(t)
  BY <1>1, PutBounded DEF StoreOK
<1>7. t[<<"Mutable", m.salt>>] = m
  BY <1>4 DEF MutKey
<1>8. StoreOK(t)
  BY <1>3, <1>4, <1>5, <1>6, <1>7, Zenon DEF StoreOK
<1> QED BY <1>5, <1>7, <1>8

LEMMA PutImmutableOK ==
  ASSUME NEW s, StoreOK(s), NEW v \in Value, NEW t \in Put(s, ImmKey(v), v)
  PROVE  /\ StoreOK(t)
         /\ \A x \in Salt : t[<<"Mutable", x>>] \in {s[<<"Mutable", x>>], None}
<1>1. \A w \in Value : ImmKey(w) \in StorageKey /\ (w # v => ImmKey(w) # ImmKey(v))
  BY DEF StorageKey, ImmKey
<1>2. \A x \in Salt : <<"Mutable", x>> \in StorageKey /\ <<"Mutable", x>> # ImmKey(v)
  BY DEF StorageKey, ImmKey
<1>3. /\ DOMAIN t = StorageKey
      /\ t[ImmKey(v)] = v
      /\ \A j \in StorageKey : j # ImmKey(v) => t[j] \in {s[j], None}
  BY <1>1, PutEffect DEF StoreOK
<1>4. Bounded(t)
  BY <1>1, PutBounded DEF StoreOK
<1> QED BY <1>1, <1>2, <1>3, <1>4 DEF StoreOK

-----------------------------------------------------------------------------
(* The specification. *)

\* The inductive invariant: the types of what the store and the queries hold, and
\* that RpcDht runs the queries of the operations in progress.
Inv ==
  /\ pool \in [QueryId -> Rpc!Cmd \cup {None}]
  /\ queries \in [QueryId -> QueryStreamType \cup {None}]
  /\ StoreOK(store)
  /\ booted \in BOOLEAN /\ task \in {"Idle", "Polling", "Panicked"}
  /\ Tracked

\* A step stores only what verifies, or what the user puts.
Sound ==
  /\ \A s \in Salt : LET m == store'[<<"Mutable", s>>] IN
       m # store[<<"Mutable", s>>] /\ m # None => m.signed \/ UserPuts
  /\ \A v \in Value : store'[ImmKey(v)] \in {v, None}

Forward ==
  \A s \in Salt : LET m == store'[<<"Mutable", s>>]
                      n == store[<<"Mutable", s>>]
  IN  m # None /\ n # None /\ GoesBack(m, n) => UserPuts \/ GetAnswered

\* A step that leaves the entries of the store alone, or drops some
LEMMA KeepsStore ==
  ASSUME StoreOK(store), StoreOK(store'),
         \A s \in Salt : store'[<<"Mutable", s>>] \in {store[<<"Mutable", s>>], None}
  PROVE  Sound /\ Forward
<1>1. Sound
  BY DEF Sound, StoreOK
<1>2. ASSUME NEW m \in Mutable PROVE ~GoesBack(m, m)
  BY StoreAssumption DEF GoesBack, Mutable
<1>3. Forward
  BY <1>2 DEF Forward, StoreOK
<1> QED BY <1>1, <1>3

\* A step that stores m, under the conditions on m that make it sound
LEMMA StoresMutable ==
  ASSUME StoreOK(store), NEW m \in Mutable, store' \in Put(store, MutKey(m), m),
         m.signed \/ UserPuts,
         \/ UserPuts \/ GetAnswered
         \/ store[MutKey(m)] # None => ~GoesBack(m, store[MutKey(m)])
  PROVE  StoreOK(store') /\ Sound /\ Forward
<1>1. /\ StoreOK(store')
      /\ store'[<<"Mutable", m.salt>>] = m
      /\ \A x \in Salt : x # m.salt =>
           store'[<<"Mutable", x>>] \in {store[<<"Mutable", x>>], None}
  BY PutMutableOK
<1>2. Sound
  BY <1>1 DEF Sound, StoreOK
<1>3. ASSUME NEW n \in Mutable PROVE ~GoesBack(n, n)
  BY StoreAssumption DEF GoesBack, Mutable
<1>4. Forward
  BY <1>1, <1>3 DEF Forward, StoreOK, MutKey
<1> QED BY <1>1, <1>2, <1>4

LEMMA StoresImmutable ==
  ASSUME StoreOK(store), NEW v \in Value, store' \in Put(store, ImmKey(v), v)
  PROVE  StoreOK(store') /\ Sound /\ Forward
<1>1. StoreOK(store') /\ \A x \in Salt : store'[<<"Mutable", x>>] \in {store[<<"Mutable", x>>], None}
  BY PutImmutableOK
<1> QED BY <1>1, KeepsStore

\* update_mut: the sequence number grows.
LEMMA NewerOnly ==
  ASSUME NEW m \in Mutable, NEW n \in Mutable, ~SeqError(m, n)
  PROVE  ~GoesBack(m, n)
BY StoreAssumption DEF SeqError, GoesBack, Mutable

\* What starts a query keeps track of it.
LEMMA StartTracks ==
  ASSUME Inv, NEW q \in QueryId, NEW query \in QueryStreamType, Start(q, query)
  PROVE  /\ pool' \in [QueryId -> Rpc!Cmd \cup {None}]
         /\ queries' \in [QueryId -> QueryStreamType \cup {None}]
         /\ Tracked'
         /\ queries[q] = None /\ queries'[q] = query
<1>1. /\ pool[q] = None /\ pool' = [pool EXCEPT ![q] = "Custom"]
      /\ queries' = [queries EXCEPT ![q] = query]
  BY DEF Start, Rpc!Start
<1>2. None # "Custom" /\ None \notin QueryStreamType
  BY HyperAssumption
<1>3. queries[q] = None
  BY <1>1, <1>2 DEF Inv, Tracked
<1>4. "Custom" \in Rpc!Cmd
  BY DEF Rpc!Cmd
<1> QED BY <1>1, <1>2, <1>3, <1>4 DEF Inv, Tracked

LEMMA StoreUpdates ==
  ASSUME Inv, OnStoreUpdate
  PROVE  StoreOK(store') /\ Sound /\ Forward
<1>1. StoreOK(store)
  BY DEF Inv
<1>2. CASE store' = store
  BY <1>1, <1>2, KeepsStore
<1>3. ASSUME NEW m \in Mutable, store' \in UpdateMut(store, m), store' # store
      PROVE  StoreOK(store') /\ Sound /\ Forward
  <2>1. /\ Verify(m) /\ store' \in Put(store, MutKey(m), m)
        /\ store[MutKey(m)] # None => ~SeqError(m, store[MutKey(m)])
    BY <1>3 DEF UpdateMut
  <2>2. store[MutKey(m)] \in Mutable \cup {None}
    BY <1>1 DEF StoreOK, MutKey, Mutable
  <2>3. store[MutKey(m)] # None => ~GoesBack(m, store[MutKey(m)])
    BY <2>1, <2>2, NewerOnly
  <2> QED BY <1>1, <2>1, <2>3, StoresMutable DEF Verify
<1>4. ASSUME NEW target \in Value, NEW v \in Value, store' \in UpdateImm(store, target, v),
             store' # store
      PROVE  StoreOK(store') /\ Sound /\ Forward
  <2>1. store' \in Put(store, ImmKey(v), v)
    BY <1>4 DEF UpdateImm
  <2> QED BY <1>1, <2>1, StoresImmutable
<1> QED BY <1>2, <1>3, <1>4 DEF OnStoreUpdate

LEMMA ResponseStores ==
  ASSUME Inv, NEW q \in QueryId, InjectResponse(q)
  PROVE  /\ queries' \in [QueryId -> QueryStreamType \cup {None}]
         /\ \A r \in QueryId : queries'[r] = None <=> queries[r] = None
         /\ StoreOK(store') /\ Sound /\ Forward
<1>1. StoreOK(store) /\ queries \in [QueryId -> QueryStreamType \cup {None}]
  BY DEF Inv
<1>2. inner' = [kind |-> "Response", query |-> q]
  BY DEF InjectResponse, Rpc!Response, Rpc!Yield
<1>3. CASE UNCHANGED <<store, queries>>
  BY <1>1, <1>3, KeepsStore
<1>4. CASE queries[q] # None /\ InjectPeers(q) /\ queries' # queries
  <2>1. PICK n \in LanBytes : queries' = [queries EXCEPT ![q] = WithPeers(@, n)]
    BY <1>4 DEF InjectPeers
  <2>2. queries[q] \in [ty : {"Topic"}, local_address : BOOLEAN, lan_heard : BOOLEAN, lan : BOOLEAN]
    BY <1>1, <1>4 DEF InjectPeers, QueryStreamType
  <2>3. WithPeers(queries[q], n) \in QueryStreamType
    BY <2>2, Zenon DEF WithPeers, QueryStreamType
  <2>4. None \notin QueryStreamType
    BY HyperAssumption
  <2>5. store' = store
    BY <1>4 DEF InjectPeers
  <2> QED BY <1>1, <1>4, <2>1, <2>3, <2>4, <2>5, KeepsStore, Zenon
<1>5. CASE queries[q] # None /\ InjectImmutable(q)
  <2>1. queries' = queries
    BY <1>5 DEF InjectImmutable
  <2>2. PICK v \in Value : store' \in Put(store, ImmKey(v), v) \/ store' = store
    BY <1>5 DEF InjectImmutable
  <2> QED BY <1>1, <2>1, <2>2, KeepsStore, StoresImmutable
<1>6. CASE queries[q] # None /\ InjectMutable(q)
  <2>1. queries' = queries
    BY <1>6 DEF InjectMutable
  <2>2. GetAnswered
    BY <1>2, <1>6 DEF InjectMutable, GetAnswered
  <2>3. PICK m \in Mutable : (m.signed /\ store' \in Put(store, MutKey(m), m)) \/ store' = store
    BY <1>6 DEF InjectMutable, Verify
  <2> QED BY <1>1, <2>1, <2>2, <2>3, KeepsStore, StoresMutable, Zenon
<1> QED BY <1>3, <1>4, <1>5, <1>6 DEF InjectResponse, InjectPeers

LEMMA InvInit == Init => Inv
<1> SUFFICES ASSUME Init PROVE Inv
  OBVIOUS
<1>1. /\ pool \in [QueryId -> Rpc!Cmd \cup {None}]
      /\ \A q \in QueryId : pool[q] \in {"FindNode", None}
  BY DEF Init, Rpc!Init, Rpc!Cmd
<1>2. queries = [q \in QueryId |-> None] /\ Tracked
  BY <1>1, HyperAssumption DEF Init, Tracked
<1>3. StoreOK(store)
  <2>1. store = [k \in StorageKey |-> None]
    BY DEF Init
  <2>2. \A x \in Salt : <<"Mutable", x>> \in StorageKey
    BY DEF StorageKey
  <2>3. \A v \in Value : ImmKey(v) \in StorageKey
    BY DEF StorageKey, ImmKey
  <2>4. Stored(store) = {}
    BY <2>1 DEF Stored
  <2>5. Bounded(store)
    BY <2>4, FS_EmptySet, StoreAssumption DEF Bounded
  <2> QED BY <2>1, <2>2, <2>3, <2>5 DEF StoreOK
<1>4. booted \in BOOLEAN /\ task \in {"Idle", "Polling", "Panicked"}
  BY Zenon DEF Init, Rpc!Init
<1> QED BY <1>1, <1>2, <1>3, <1>4 DEF Inv

\* Every step keeps the invariant, and stores only what it may.
LEMMA InvNext ==
  ASSUME Inv, [Next]_vars
  PROVE  Inv' /\ Sound /\ Forward
<1>0. booted' \in BOOLEAN /\ task' \in {"Idle", "Polling", "Panicked"}
  BY ZenonT(30) DEF Inv, Next, vars, GetImmutable, PutImmutable, GetMutable, PutMutable, OnTopic,
         Start, InjectResponse, InjectPeers, InjectImmutable, InjectMutable, QueryFinished,
         PollBegins, PollReturns, OnStoreUpdate, OnCustomCommand,
         Bootstrapped, Ignored, Handle, Rpc!Start, Rpc!Response, Rpc!QueryResult, Rpc!Silent,
         Rpc!Other, Rpc!Bootstrapped
<1>1. StoreOK(store)
  BY DEF Inv
<1>2. ASSUME store' = store PROVE StoreOK(store') /\ Sound /\ Forward
  BY <1>1, <1>2, KeepsStore
<1>3. ASSUME NEW q \in QueryId, NEW v \in Value, GetImmutable(q, v)
      PROVE  Inv' /\ Sound /\ Forward
  <2>1. [ty |-> "GetImmutable", key |-> v] \in QueryStreamType
    BY DEF QueryStreamType
  <2> QED BY <1>0, <1>2, <1>3, <2>1, StartTracks DEF GetImmutable, Inv
<1>4. ASSUME NEW q \in QueryId, NEW v \in Value, PutImmutable(q, v)
      PROVE  Inv' /\ Sound /\ Forward
  <2>1. [ty |-> "Put"] \in QueryStreamType
    BY DEF QueryStreamType
  <2> QED BY <1>0, <1>1, <1>4, <2>1, StartTracks, StoresImmutable, Zenon DEF PutImmutable, Inv
<1>5. ASSUME NEW q \in QueryId, NEW seq \in 0..MaxSeq, GetMutable(q, seq)
      PROVE  Inv' /\ Sound /\ Forward
  <2>1. [ty |-> "GetMutable", seq |-> seq] \in QueryStreamType
    BY DEF QueryStreamType
  <2> QED BY <1>0, <1>2, <1>5, <2>1, StartTracks DEF GetMutable, Inv
<1>6. ASSUME NEW q \in QueryId, NEW m \in Mutable, PutMutable(q, m)
      PROVE  Inv' /\ Sound /\ Forward
  <2>1. [ty |-> "Put"] \in QueryStreamType
    BY DEF QueryStreamType
  <2>2. /\ pool' \in [QueryId -> Rpc!Cmd \cup {None}]
        /\ queries' \in [QueryId -> QueryStreamType \cup {None}]
        /\ Tracked'
        /\ queries[q] = None /\ queries'[q] = [ty |-> "Put"]
    BY <1>6, <2>1, StartTracks, Zenon DEF PutMutable
  <2>3. UserPuts
    BY <2>1, <2>2, HyperAssumption DEF UserPuts
  <2> QED BY <1>0, <1>1, <1>6, <2>2, <2>3, StoresMutable, Zenon DEF PutMutable, Inv
<1>7. ASSUME NEW q \in QueryId, NEW local \in LocalAddr, OnTopic(q, local)
      PROVE  Inv' /\ Sound /\ Forward
  <2>1. [ty |-> "Topic", local_address |-> local, lan_heard |-> FALSE, lan |-> FALSE]
          \in QueryStreamType
    BY HyperAssumption DEF QueryStreamType
  <2> QED BY <1>0, <1>2, <1>7, <2>1, StartTracks, Zenon DEF OnTopic, Inv
<1>8. ASSUME NEW q \in QueryId, InjectResponse(q)
      PROVE  Inv' /\ Sound /\ Forward
  <2>1. pool' = pool
    BY <1>8 DEF InjectResponse, Rpc!Response
  <2> QED BY <1>0, <1>8, <2>1, ResponseStores, Zenon DEF Inv, Tracked
<1>9. ASSUME NEW q \in QueryId, QueryFinished(q)
      PROVE  Inv' /\ Sound /\ Forward
  <2>1. /\ pool' = [pool EXCEPT ![q] = None] /\ queries' = [queries EXCEPT ![q] = None]
        /\ store' = store
    BY <1>9 DEF QueryFinished, Rpc!QueryResult, Rpc!End
  <2>2. None # "Custom"
    BY HyperAssumption
  <2> QED BY <1>0, <1>2, <2>1, <2>2, Zenon DEF Inv, Tracked
<1>10. CASE PollBegins \/ PollReturns \/ OnCustomCommand
  <2>1. UNCHANGED <<pool, queries, store>>
    BY <1>10 DEF PollBegins, PollReturns, OnCustomCommand, Rpc!Silent, Rpc!Other
  <2> QED BY <1>0, <1>2, <2>1 DEF Inv, Tracked
<1>11. CASE OnStoreUpdate
  <2>1. UNCHANGED <<pool, queries>>
    BY <1>11 DEF OnStoreUpdate, Rpc!Other
  <2> QED BY <1>0, <1>11, <2>1, StoreUpdates DEF Inv, Tracked
<1>12. CASE Bootstrapped
  <2>1. /\ UNCHANGED <<queries, store>>
        /\ \/ pool' = pool
           \/ \E q \in QueryId : pool[q] = "FindNode" /\ pool' = [pool EXCEPT ![q] = None]
    BY <1>12 DEF Bootstrapped, Rpc!Bootstrapped, Rpc!End
  <2>2. None # "Custom" /\ "FindNode" # "Custom"
    BY HyperAssumption
  <2> QED BY <1>0, <1>2, <2>1, <2>2, Zenon DEF Inv, Tracked
<1>13. CASE Ignored
  <2>1. /\ UNCHANGED <<queries, store>>
        /\ \/ pool' = pool
           \/ \E q \in QueryId : pool[q] = None /\ pool' = [pool EXCEPT ![q] = "FindNode"]
    BY <1>13 DEF Ignored, Rpc!Other, Rpc!Start
  <2>2. None # "Custom" /\ "FindNode" # "Custom" /\ "FindNode" \in Rpc!Cmd
    BY HyperAssumption DEF Rpc!Cmd
  <2> QED BY <1>0, <1>2, <2>1, <2>2 DEF Inv, Tracked
<1>14. CASE UNCHANGED vars
  BY <1>0, <1>2, <1>14 DEF vars, Inv, Tracked
<1> QED BY <1>3, <1>4, <1>5, <1>6, <1>7, <1>8, <1>9, <1>10, <1>11, <1>12, <1>13, <1>14, Zenon DEF Next

\* lib.rs:153-290, 467-512: for any number of operations at a time, the queries in
\* progress are those that RpcDht runs for the user.
THEOREM TrackedAlways == Spec => []Tracked
<1>1. Inv => Tracked
  BY DEF Inv
<1>2. Inv /\ [Next]_vars => Inv'
  BY InvNext, Zenon
<1> QED BY <1>1, <1>2, InvInit, PTL DEF Spec

\* store.rs:106-128: whatever is put, the store holds at most as many entries as its
\* capacity, and a mutable one under the key of its salt.
THEOREM TypeOKAlways == Spec => []TypeOK
<1>1. Inv => TypeOK
  BY HyperAssumption DEF Inv, TypeOK, StoreOK, Bounded
<1>2. Inv /\ [Next]_vars => Inv'
  BY InvNext
<1> QED BY <1>1, <1>2, InvInit, PTL DEF Spec

\* store.rs:142-198, lib.rs:467-505: whatever other nodes send, and whatever the store
\* has room for, only verified values get into it, apart from those the user puts.
THEOREM StoresVerifiedAlways == Spec => StoresVerified
<1>1. Inv /\ [Next]_vars => Inv'
  BY InvNext
<1>2. Inv /\ [Next]_vars => [Sound]_vars
  BY InvNext
<1> QED BY <1>1, <1>2, InvInit, PTL DEF Spec, StoresVerified, Sound

\* store.rs:142-164, 201-212: the updates of other nodes never take a value back.
THEOREM UpdatesNeverGoBackAlways == Spec => UpdatesNeverGoBack
<1>1. Inv /\ [Next]_vars => Inv'
  BY InvNext
<1>2. Inv /\ [Next]_vars => [Forward]_vars
  BY InvNext
<1> QED BY <1>1, <1>2, InvInit, PTL DEF Spec, UpdatesNeverGoBack, Forward

-----------------------------------------------------------------------------
(* HyperDht implements RpcEvents: the queue between the queries and the user. *)

QEvent == {[kind |-> "Request", query |-> None]}
            \cup {[kind |-> "QueryResult", query |-> q] : q \in QueryId}

Of(s) == {s[n].query : n \in 1..Len(s)}

\* No query has two results in the queue.
NoDuplicate(s) ==
  \A i, j \in 1..Len(s) : i # j /\ s[i].query = s[j].query => s[i].query = None

LEMMA AppendEvent ==
  ASSUME NEW s \in Seq(QEvent), NoDuplicate(s), NEW e \in QEvent,
         e.query = None \/ e.query \notin Of(s)
  PROVE  /\ Append(s, e) \in Seq(QEvent) /\ NoDuplicate(Append(s, e))
         /\ Of(Append(s, e)) = Of(s) \cup {e.query}
<1>1. /\ Append(s, e) \in Seq(QEvent) /\ Len(Append(s, e)) = Len(s) + 1 /\ Len(s) \in Nat
      /\ \A i \in 1..Len(s) : Append(s, e)[i] = s[i]
      /\ Append(s, e)[Len(s) + 1] = e
  OBVIOUS
<1> DEFINE t == Append(s, e)
<1> HIDE DEF t
<1>2. Of(t) = Of(s) \cup {e.query}
  <2>1. \A i \in 1..Len(t) : i \in 1..Len(s) \/ i = Len(s) + 1
    BY <1>1 DEF t
  <2>2. \A i \in 1..Len(s) : i \in 1..Len(t)
    BY <1>1 DEF t
  <2>3. Len(s) + 1 \in 1..Len(t)
    BY <1>1 DEF t
  <2> QED BY <1>1, <2>1, <2>2, <2>3 DEF Of, t
<1>3. NoDuplicate(t)
  <2> SUFFICES ASSUME NEW i \in 1..(Len(s) + 1), NEW j \in 1..(Len(s) + 1), i # j,
                      t[i].query = t[j].query
               PROVE  t[i].query = None
    BY <1>1 DEF NoDuplicate, t
  <2>1. CASE i \in 1..Len(s) /\ j \in 1..Len(s)
    BY <1>1, <2>1 DEF NoDuplicate, t
  <2>2. CASE i \in 1..Len(s) /\ j = Len(s) + 1
    BY <1>1, <2>2 DEF Of, t
  <2>3. CASE j \in 1..Len(s) /\ i = Len(s) + 1
    BY <1>1, <2>3 DEF Of, t
  <2> QED BY <2>1, <2>2, <2>3, <1>1
<1> QED BY <1>1, <1>2, <1>3 DEF t

LEMMA TailEvent ==
  ASSUME NEW s \in Seq(QEvent), NoDuplicate(s), s # << >>
  PROVE  /\ Head(s) \in QEvent
         /\ Tail(s) \in Seq(QEvent) /\ NoDuplicate(Tail(s))
         /\ Of(s) = Of(Tail(s)) \cup {Head(s).query}
         /\ Head(s).query # None => Head(s).query \notin Of(Tail(s))
<1>1. /\ Head(s) = s[1] /\ Head(s) \in QEvent
      /\ Tail(s) \in Seq(QEvent) /\ Len(Tail(s)) = Len(s) - 1
      /\ Len(s) \in Nat /\ 1 \in 1..Len(s)
      /\ \A i \in 1..(Len(s) - 1) : Tail(s)[i] = s[i + 1]
  OBVIOUS
<1>2. \A i \in 1..(Len(s) - 1) : i + 1 \in 1..Len(s) /\ i + 1 # 1
  BY <1>1
<1>3. \A i \in 1..Len(s) : i # 1 => i - 1 \in 1..(Len(s) - 1) /\ Tail(s)[i - 1] = s[i]
  BY <1>1
<1> DEFINE t == Tail(s)
<1> HIDE DEF t
<1>4. NoDuplicate(t)
  <2> SUFFICES ASSUME NEW i \in 1..(Len(s) - 1), NEW j \in 1..(Len(s) - 1), i # j,
                      t[i].query = t[j].query
               PROVE  t[i].query = None
    BY <1>1 DEF NoDuplicate, t
  <2>1. i + 1 \in 1..Len(s) /\ j + 1 \in 1..Len(s) /\ i + 1 # j + 1
    BY <1>2
  <2> QED BY <2>1, <1>1 DEF NoDuplicate, t
<1>5. Of(s) = Of(t) \cup {Head(s).query}
  <2>1. ASSUME NEW i \in 1..Len(s) PROVE s[i].query \in Of(t) \cup {Head(s).query}
    BY <1>1, <1>3, Zenon DEF Of, t
  <2>2. ASSUME NEW i \in 1..Len(t) PROVE t[i].query \in Of(s)
    BY <1>1, <1>2 DEF Of, t
  <2>3. Head(s).query \in Of(s)
    BY <1>1 DEF Of
  <2> QED BY <2>1, <2>2, <2>3, Zenon DEF Of
<1>6. ASSUME NEW i \in 1..Len(t), t[i].query = Head(s).query PROVE Head(s).query = None
  <2>1. i \in 1..(Len(s) - 1) /\ t[i] = s[i + 1]
    BY <1>1 DEF t
  <2>2. i + 1 \in 1..Len(s) /\ i + 1 # 1
    BY <1>2, <2>1
  <2> QED BY <1>1, <1>6, <2>1, <2>2 DEF NoDuplicate
<1> QED BY <1>1, <1>4, <1>5, <1>6 DEF Of, t

\* A query whose result is in the queue is no longer in progress.
QInv ==
  /\ queued_events \in Seq(QEvent) /\ NoDuplicate(queued_events)
  /\ \A q \in QueryId : q \in Of(queued_events) => queries[q] = None

PLive == [q \in QueryId |-> IF queries[q] # None \/ q \in Of(queued_events) THEN "Custom" ELSE None]

\* The abstract actions under the refinement mapping
PStart == \E q \in QueryId : /\ PLive[q] = None /\ PLive' = [PLive EXCEPT ![q] = "Custom"]
                             /\ event' = None /\ booted' = booted
PResult == \E q \in QueryId : /\ PLive[q] = "Custom" /\ PLive' = [PLive EXCEPT ![q] = None]
                              /\ event' = [kind |-> "QueryResult", query |-> q] /\ booted' = booted
PRequest == event' = [kind |-> "Request", query |-> None] /\ PLive' = PLive /\ booted' = booted
PSilent == event' = None /\ PLive' = PLive /\ booted' = booted
PBoot == /\ ~booted /\ booted' = TRUE /\ PLive' = PLive
         /\ event' = [kind |-> "Bootstrapped", query |-> None]

LEMMA AbstractSteps ==
  ASSUME PStart \/ PResult \/ PRequest \/ PSilent \/ PBoot
  PROVE  Promise!Next
<1>1. ASSUME PStart PROVE Promise!Next
  <2>1. "Custom" \in Promise!Cmd
    BY DEF Promise!Cmd
  <2> QED BY <1>1, <2>1, Zenon DEF PStart, PLive, Of, Results, Promise!Next, Promise!Start
<1>2. ASSUME PResult PROVE Promise!Next
  BY <1>2, Zenon DEF PResult, PLive, Of, Results, Promise!Next, Promise!QueryResult, Promise!End, Promise!Yield
<1>3. ASSUME PRequest PROVE Promise!Next
  <2>1. "Request" \in Promise!Plain /\ "Request" # "Bootstrapped"
    BY Zenon DEF Promise!Plain
  <2> QED BY <1>3, <2>1 DEF PRequest, PLive, Of, Results, Promise!Next, Promise!Other, Promise!Yield
<1>4. ASSUME PSilent PROVE Promise!Next
  BY <1>4, Zenon DEF PSilent, PLive, Of, Results, Promise!Next, Promise!Silent
<1>5. ASSUME PBoot PROVE Promise!Next
  BY <1>5, ZenonT(30) DEF PBoot, PLive, Of, Results, Promise!Next, Promise!Bootstrapped, Promise!Yield
<1> QED BY <1>1, <1>2, <1>3, <1>4, <1>5

\* What is not in the queue and not in progress, the user may start.
LEMMA StartStep ==
  ASSUME Inv, QInv, NEW q \in QueryId, NEW query \in QueryStreamType, Start(q, query)
  PROVE  QInv' /\ PStart
<1>1. /\ \A n \in 1..Len(queued_events) : queued_events[n].query # q
      /\ queries' = [queries EXCEPT ![q] = query] /\ queued_events' = queued_events
      /\ event' = None /\ booted' = booted
  BY DEF Start, Rpc!Start
<1>2. queries[q] = None /\ query # None
  BY StartTracks, HyperAssumption
<1>3. q \notin Of(queued_events)
  BY <1>1 DEF Of
<1>4. QInv'
  BY <1>1, <1>3 DEF QInv, Inv
<1>5. PLive[q] = None /\ PLive' = [PLive EXCEPT ![q] = "Custom"]
  BY <1>1, <1>2, <1>3, Zenon DEF PLive, Inv
<1> QED BY <1>1, <1>4, <1>5, Zenon DEF PStart

\* The first event of the queue goes to the user.
LEMMA PopStep ==
  ASSUME QInv, queued_events # << >>, event' = Head(queued_events),
         queued_events' = Tail(queued_events), UNCHANGED <<queries, booted>>
  PROVE  QInv' /\ (PResult \/ PRequest)
<1> DEFINE e == Head(queued_events)
           t == Tail(queued_events)
<1>1. /\ e \in QEvent
      /\ t \in Seq(QEvent) /\ NoDuplicate(t)
      /\ Of(queued_events) = Of(t) \cup {e.query}
      /\ e.query # None => e.query \notin Of(t)
  BY TailEvent DEF QInv
<1> HIDE DEF e, t
<1>2. queued_events' = t /\ event' = e
  BY DEF e, t
<1>3. QInv'
  BY <1>1, <1>2, Zenon DEF QInv
<1>4. CASE e = [kind |-> "Request", query |-> None]
  <2>1. \A q \in QueryId : q \in Of(queued_events) <=> q \in Of(t)
    BY <1>1, <1>4, HyperAssumption
  <2>2. PLive' = PLive
    BY <1>2, <2>1, Zenon DEF PLive
  <2> QED BY <1>2, <1>3, <1>4, <2>2, Zenon DEF PRequest
<1>5. ASSUME NEW q \in QueryId, e = [kind |-> "QueryResult", query |-> q]
      PROVE  PResult
  <2>1. e.query = q /\ q # None
    BY <1>5, HyperAssumption
  <2>2. /\ q \in Of(queued_events) /\ q \notin Of(t) /\ queries[q] = None
        /\ \A r \in QueryId : r # q => (r \in Of(queued_events) <=> r \in Of(t))
    BY <1>1, <2>1 DEF QInv
  <2>3. PLive[q] = "Custom" /\ PLive' = [PLive EXCEPT ![q] = None]
    BY <1>2, <2>2, Zenon DEF PLive
  <2> QED BY <1>2, <1>5, <2>3, Zenon DEF PResult
<1> QED BY <1>1, <1>3, <1>4, <1>5, Zenon DEF QEvent

LEMMA RefinementNext ==
  ASSUME Inv, QInv, [Next]_vars
  PROVE  QInv' /\ [Promise!Next]_(Promise!vars)
<1>0. /\ queries \in [QueryId -> QueryStreamType \cup {None}]
      /\ queued_events \in Seq(QEvent) /\ NoDuplicate(queued_events)
  BY DEF Inv, QInv
<1>1. ASSUME queries' = queries, queued_events' = queued_events PROVE QInv' /\ PLive' = PLive
  BY <1>1 DEF QInv, PLive
<1>2. ASSUME NEW q \in QueryId, NEW v \in Value, GetImmutable(q, v) \/ PutImmutable(q, v)
      PROVE  QInv' /\ PStart
  <2>1. /\ [ty |-> "GetImmutable", key |-> v] \in QueryStreamType
        /\ [ty |-> "Put"] \in QueryStreamType
    BY DEF QueryStreamType
  <2> QED BY <1>2, <2>1, StartStep, Zenon DEF GetImmutable, PutImmutable
<1>3. ASSUME NEW q \in QueryId, NEW seq \in 0..MaxSeq, GetMutable(q, seq)
      PROVE  QInv' /\ PStart
  <2>1. [ty |-> "GetMutable", seq |-> seq] \in QueryStreamType
    BY DEF QueryStreamType
  <2> QED BY <1>3, <2>1, StartStep DEF GetMutable
<1>4. ASSUME NEW q \in QueryId, NEW m \in Mutable, PutMutable(q, m)
      PROVE  QInv' /\ PStart
  <2>1. [ty |-> "Put"] \in QueryStreamType
    BY DEF QueryStreamType
  <2> QED BY <1>4, <2>1, StartStep DEF PutMutable
<1>5. ASSUME NEW q \in QueryId, NEW local \in LocalAddr, OnTopic(q, local)
      PROVE  QInv' /\ PStart
  <2>1. [ty |-> "Topic", local_address |-> local, lan_heard |-> FALSE, lan |-> FALSE]
          \in QueryStreamType
    BY HyperAssumption, Zenon DEF QueryStreamType
  <2> QED BY <1>5, <2>1, StartStep DEF OnTopic
<1>6. ASSUME NEW q \in QueryId, InjectResponse(q)
      PROVE  QInv' /\ PSilent
  <2>1. /\ queued_events' = queued_events /\ event' = None /\ booted' = booted
        /\ \A r \in QueryId : queries'[r] = None <=> queries[r] = None
    BY <1>6, ResponseStores DEF InjectResponse, Rpc!Response
  <2> QED BY <2>1, Zenon DEF QInv, PLive, PSilent
<1>7. ASSUME NEW q \in QueryId, QueryFinished(q)
      PROVE  QInv' /\ PSilent
  <2>1. /\ queries' = [queries EXCEPT ![q] = None] /\ event' = None /\ booted' = booted
        /\ queued_events' = IF queries[q] = None THEN queued_events
                            ELSE Append(queued_events, [kind |-> "QueryResult", query |-> q])
    BY <1>7 DEF QueryFinished, Handle, Rpc!QueryResult
  <2>2. CASE queries[q] = None
    <3>1. queries' = queries /\ queued_events' = queued_events
      BY <1>0, <2>1, <2>2, Zenon
    <3> QED BY <1>1, <2>1, <3>1 DEF PSilent
  <2>3. CASE queries[q] # None
    <3> DEFINE e == [kind |-> "QueryResult", query |-> q]
               t == Append(queued_events, e)
    <3>1. e \in QEvent /\ e.query = q /\ q \notin Of(queued_events)
      BY <2>3 DEF QEvent, QInv
    <3>2. t \in Seq(QEvent) /\ NoDuplicate(t) /\ Of(t) = Of(queued_events) \cup {q}
      BY <1>0, <3>1, AppendEvent
    <3>3. queued_events' = t
      BY <2>1, <2>3
    <3> HIDE DEF e, t
    <3>4. QInv'
      BY <1>0, <2>1, <3>2, <3>3, Zenon DEF QInv
    <3>5. PLive' = PLive
      BY <1>0, <2>1, <2>3, <3>2, <3>3, Zenon DEF PLive
    <3> QED BY <2>1, <3>4, <3>5, Zenon DEF PSilent
  <2> QED BY <2>2, <2>3
<1>8. CASE PollBegins \/ PollReturns
  <2>1. queries' = queries /\ booted' = booted
    BY <1>8 DEF PollBegins, PollReturns, Rpc!Silent
  <2>2. CASE queued_events # << >>
    <3>1. event' = Head(queued_events) /\ queued_events' = Tail(queued_events)
      BY <1>8, <2>2 DEF PollBegins, PollReturns
    <3> QED BY <2>1, <2>2, <3>1, PopStep, AbstractSteps, Zenon
  <2>3. CASE queued_events = << >>
    <3>1. event' = None /\ queued_events' = queued_events
      BY <1>8, <2>3 DEF PollBegins, PollReturns
    <3> QED BY <1>1, <2>1, <3>1, AbstractSteps, Zenon DEF PSilent
  <2> QED BY <2>2, <2>3
<1>9. CASE OnStoreUpdate \/ Ignored
  <2>1. queries' = queries /\ queued_events' = queued_events /\ event' = None /\ booted' = booted
    BY <1>9 DEF OnStoreUpdate, Ignored, Handle, Rpc!Other, Rpc!Start
  <2> QED BY <1>1, <2>1, AbstractSteps DEF PSilent
<1>10. CASE OnCustomCommand
  <2> DEFINE e == [kind |-> "Request", query |-> None]
             t == Append(queued_events, e)
  <2>1. e \in QEvent /\ e.query = None
    BY DEF QEvent
  <2>2. t \in Seq(QEvent) /\ NoDuplicate(t) /\ Of(t) = Of(queued_events) \cup {None}
    BY <1>0, <2>1, AppendEvent
  <2>3. /\ queued_events' = t /\ queries' = queries /\ event' = None /\ booted' = booted
    BY <1>10 DEF OnCustomCommand, Handle, Rpc!Other
  <2> HIDE DEF e, t
  <2>4. \A q \in QueryId : q \in Of(t) <=> q \in Of(queued_events)
    BY <2>2, HyperAssumption, Zenon
  <2>5. QInv'
    BY <2>2, <2>3, <2>4 DEF QInv
  <2>6. PLive' = PLive
    BY <2>3, <2>4 DEF PLive
  <2> QED BY <2>3, <2>5, <2>6, AbstractSteps, Zenon DEF PSilent
<1>11. CASE Bootstrapped
  <2>1. /\ queries' = queries /\ queued_events' = queued_events
        /\ ~booted /\ booted' = TRUE
        /\ event' = [kind |-> "Bootstrapped", query |-> None]
    BY <1>11 DEF Bootstrapped, Rpc!Bootstrapped
  <2> QED BY <1>1, <2>1, AbstractSteps DEF PBoot
<1>12. CASE UNCHANGED vars
  <2>1. queries' = queries /\ queued_events' = queued_events /\ event' = event /\ booted' = booted
    BY <1>12 DEF vars
  <2> QED BY <1>1, <2>1 DEF PLive, Of, Results, Promise!vars
<1> QED BY <1>2, <1>3, <1>4, <1>5, <1>6, <1>7, <1>8, <1>9, <1>10, <1>11, <1>12, AbstractSteps, Zenon
        DEF Next

LEMMA RefinementInit == Init => QInv /\ Promise!Init
<1> SUFFICES ASSUME Init PROVE QInv /\ Promise!Init
  OBVIOUS
<1>1. queued_events = << >> /\ queries = [q \in QueryId |-> None] /\ event = None /\ booted = FALSE
  BY DEF Init, Rpc!Init
<1>2. Of(queued_events) = {} /\ queued_events \in Seq(QEvent) /\ NoDuplicate(queued_events)
  BY <1>1 DEF Of, NoDuplicate
<1>3. QInv
  BY <1>2 DEF QInv
<1>4. PLive = [q \in QueryId |-> None]
  BY <1>1, <1>2 DEF PLive
<1>5. \E F \in SUBSET QueryId :
        /\ \A q, r \in F : q = r
        /\ PLive = [q \in QueryId |-> IF q \in F THEN "FindNode" ELSE None]
  <2>1. {} \in SUBSET QueryId /\ \A q, r \in {} : q = r
    OBVIOUS
  <2>2. PLive = [q \in QueryId |-> IF q \in {} THEN "FindNode" ELSE None]
    BY <1>4
  <2> QED BY <2>1, <2>2, Zenon
<1> QED BY <1>1, <1>3, <1>5, Zenon DEF Promise!Init, PLive, Of, Results

\* lib.rs:508-554: however many operations there are at a time, and in whatever order
\* their responses and results come, each has one result and nothing after it: the node
\* keeps the promise of RpcEvents towards its user that RpcDht keeps towards it.
THEOREM OneResultAlways == Spec => OneResult
<1>1. Inv /\ QInv /\ [Next]_vars => Inv' /\ QInv' /\ [Promise!Next]_(Promise!vars)
  BY InvNext, RefinementNext
<1> QED BY <1>1, InvInit, RefinementInit, PTL DEF Spec, OneResult, Promise!Spec
=============================================================================
