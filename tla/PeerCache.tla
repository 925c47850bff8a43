------------------------------ MODULE PeerCache ------------------------------
(***************************************************************************)
(* The LRU cache of announced peers with expiration (lru.rs), and the      *)
(* handler of the requests that use it (HyperDht::on_peers).               *)
(*                                                                         *)
(* An Instant is the time left until it, and Expired (-1) once it passed.  *)
(* on_peers stores an address under a key of its own kind, so both kinds   *)
(* of AddressCache look alike.                                             *)
(***************************************************************************)
EXTENDS Integers, Sequences, Functions, FiniteSets, Vec

CONSTANTS Key, Address,
          capacity,   \* maximum number of addresses
          age,        \* how long an entry is valid
          None

Expired == 0 - 1
Left == Expired..age

\* CacheEntry: the addresses with their expiration, their order, and an
\* expiration of the whole entry.  An address that is not in the map has None.
Entry == [inner : [Address -> Left \cup {None}], list : Seq(Address), expiration : Left]

ASSUME CacheAssumption ==
  /\ capacity \in Nat \ {0}
  /\ age \in Nat
  /\ None \notin Left /\ None \notin Entry /\ None \notin Key

VARIABLES cache,   \* [map, list, cnt]; a key that is not in the map has None
          got      \* the AddressCaches the last request for peers was answered from

vars == <<cache, got>>

NewEntry(a) == [inner |-> [x \in Address |-> IF x = a THEN age ELSE None],
                list |-> <<a>>, expiration |-> age]

Addresses(e) == {a \in Address : e.inner[a] # None}
NumAddresses(e) == Cardinality(Addresses(e))

\* The length of the longest prefix of s whose elements are all in P
PrefixLen(s, P) == CHOOSE n \in 0..Len(s) :
                     /\ \A i \in 1..n : s[i] \in P
                     /\ n < Len(s) => s[n + 1] \notin P

Drain(s, n) == SubSeq(s, n + 1, Len(s))

\* CacheEntry::remove_expired: stops at the first address that is still valid
EntryRemoveExpired(e) ==
  LET n == PrefixLen(e.list, {a \in Addresses(e) : e.inner[a] = Expired})
  IN  [e EXCEPT !.list = Drain(@, n),
                !.inner = [a \in Address |-> IF \E i \in 1..n : e.list[i] = a THEN None ELSE @[a]]]

EntryRemove(e, a) == [e EXCEPT !.inner[a] = None, !.list = VecWithout(@, a)]

\* update_key
MoveLast(s, x) == Append(VecWithout(s, x), x)

\* Mutants: a known address pushed again; an expiration that is not renewed
EntryInsertPushes(e, a) == [inner |-> [e.inner EXCEPT ![a] = age],
                            list |-> Append(e.list, a), expiration |-> age]
EntryInsertNotRenewed(e, a) == [inner |-> [e.inner EXCEPT ![a] = age],
                                list |-> MoveLast(e.list, a), expiration |-> e.expiration]

EntryInsert(e, a) == [inner |-> [e.inner EXCEPT ![a] = age],
                      list |-> MoveLast(e.list, a), expiration |-> age]
-----------------------------------------------------------------------------
Drop(map, K) == [k \in Key |-> IF k \in K THEN None ELSE map[k]]

\* PeerCache::remove_expired: drops the leading keys that are expired, then
\* expired addresses of the first key that is not, and that key if none is left.
RemoveExpired(c) ==
  LET n     == PrefixLen(c.list, {k \in Key : c.map[k] # None /\ c.map[k].expiration = Expired})
      gone  == {c.list[i] : i \in 1..n}
      \* the addresses the dropped keys take with them
      lost  == Cardinality({p \in gone \X Address : c.map[p[1]].inner[p[2]] # None})
  IN  IF n = Len(c.list)
      THEN [map |-> Drop(c.map, gone), list |-> << >>, cnt |-> c.cnt - lost]
      ELSE LET k == c.list[n + 1]
               e == EntryRemoveExpired(c.map[k])
               d == NumAddresses(c.map[k]) - NumAddresses(e)
           IN  IF NumAddresses(e) = 0
               THEN [map |-> Drop(c.map, gone \cup {k}), list |-> Drain(c.list, n + 1),
                     cnt |-> c.cnt - lost - d]
               ELSE [map |-> [Drop(c.map, gone) EXCEPT ![k] = e], list |-> Drain(c.list, n),
                     cnt |-> c.cnt - lost - d]

\* One turn of the loop of PeerCache::remove_lru
RemoveLruTurn(c) ==
  LET k == Head(c.list)
      e == c.map[k]
  IN  IF e.list # << >>
      THEN [c EXCEPT !.map[k] = EntryRemove(e, Head(e.list)), !.cnt = @ - 1]
      ELSE [c EXCEPT !.map[k] = None, !.list = Tail(@)]

\* Mutant: room is made for one address, however full the cache is.
RemoveLruOnce(c) == IF c.cnt >= capacity THEN RemoveLruTurn(c) ELSE c

\* Every turn removes an address or a key, so that there are at most this many.
RemoveLru(c) ==
  LET turns == c.cnt + Len(c.list)
      after[n \in 0..turns] ==
        IF n = 0 THEN c
        ELSE IF after[n - 1].cnt >= capacity THEN RemoveLruTurn(after[n - 1]) ELSE after[n - 1]
  IN  after[turns]

Store(c, k, a) ==
  IF c.map[k] # None
  THEN [map |-> [c.map EXCEPT ![k] = EntryInsert(@, a)],
        list |-> MoveLast(c.list, k),
        cnt |-> IF c.map[k].inner[a] = None THEN c.cnt + 1 ELSE c.cnt]
  ELSE LET r == RemoveLru(c)
       IN  [map |-> [r.map EXCEPT ![k] = NewEntry(a)], list |-> Append(r.list, k), cnt |-> r.cnt + 1]

\* Mutant: the key keeps its place in the order
TouchInPlace(c, k) == [c EXCEPT !.map[k].expiration = age]

Touch(c, k) == [c EXCEPT !.map[k].expiration = age, !.list = MoveLast(@, k)]
-----------------------------------------------------------------------------
Empty == [map |-> [k \in Key |-> None], list |-> << >>, cnt |-> 0]

Init == cache = Empty /\ got = {}

\* PeerCache::insert, get and remove_addr; of no key when there is no local address
Insert(c, k, a) == IF k = None THEN c ELSE Store(RemoveExpired(c), k, a)

Get(c, k) ==
  LET r == RemoveExpired(c)
  IN  IF k = None THEN c ELSE IF r.map[k] = None THEN r ELSE Touch(r, k)

RemoveAddr(c, k, a) ==
  IF k = None \/ c.map[k] = None \/ c.map[k].inner[a] = None THEN c
  ELSE [c EXCEPT !.map[k] = EntryRemove(@, a), !.cnt = @ - 1]

Answer(c, k) == {c.map[l] : l \in {k} \ {None}} \ {None}

\* Mutant: the local address is stored only if there is room left for it
AnnouncedIfRoom(c, r, a, l, b) ==
  LET d == Insert(c, r, a) IN IF d.cnt < capacity THEN Insert(d, l, b) ELSE d

\* on_peers of an announce of address a, and of the local address b if there is one;
\* of an unannounce; of a lookup
Announced(c, r, a, l, b) == Insert(Insert(c, r, a), l, b)

Announce(r, a, l, b) == cache' = Announced(cache, r, a, l, b) /\ got' = {}

Unannounce(r, a, l, b) ==
  cache' = RemoveAddr(RemoveAddr(cache, r, a), l, b) /\ got' = {}

Lookup(r, l) ==
  LET c == Get(cache, l)
  IN  cache' = Get(c, r) /\ got' = Answer(c, l) \cup Answer(cache', r)

RemoveKey(k) ==
  /\ cache.map[k] # None
  /\ cache' = [map |-> [cache.map EXCEPT ![k] = None], list |-> VecWithout(cache.list, k),
               cnt |-> cache.cnt - NumAddresses(cache.map[k])]
  /\ got' = {}

Clear == cache # Empty /\ cache' = Empty /\ got' = {}

Elapse(t) == IF t = None THEN None ELSE IF t = Expired THEN Expired ELSE t - 1

Elapsed(map) ==
  [k \in Key |-> IF map[k] = None THEN None
                 ELSE [map[k] EXCEPT !.inner = [a \in Address |-> Elapse(@[a])],
                                     !.expiration = Elapse(@)]]

Tick ==
  /\ cache' = [cache EXCEPT !.map = Elapsed(@)]
  /\ cache' # cache
  /\ got' = {}

Next ==
  \/ \E r \in Key : \E l \in (Key \ {r}) \cup {None} :
       \/ \E a, b \in Address :
            (l = None => b = a) /\ (Announce(r, a, l, b) \/ Unannounce(r, a, l, b))
       \/ Lookup(r, l)
  \/ \E k \in Key : RemoveKey(k)
  \/ Clear
  \/ Tick

Spec == Init /\ [][Next]_vars
-----------------------------------------------------------------------------
\* Types of the fields of PeerCache and CacheEntry; cnt, a usize, never goes
\* below 0.
TypeOK ==
  /\ cache \in [map : [Key -> Entry \cup {None}], list : Seq(Key), cnt : Nat]
  /\ got \subseteq Entry

Distinct(s) == \A i, j \in 1..Len(s) : s[i] = s[j] => i = j

Total(map) ==
  Cardinality({p \in Key \X Address : map[p[1]] # None /\ map[p[1]].inner[p[2]] # None})

\* lru.rs:317, 243, 369: the order of the keys lists exactly the keys of the
\* map, the order of the addresses exactly the addresses of the entry (the code
\* unwraps and indexes on that), and cnt counts the addresses, so that
\* subtracting from it does not overflow.
Consistent ==
  /\ TypeOK
  /\ Distinct(cache.list) /\ Range(cache.list) = {k \in Key : cache.map[k] # None}
  /\ \A k \in Range(cache.list) :
       Distinct(cache.map[k].list) /\ Range(cache.map[k].list) = Addresses(cache.map[k])
  /\ cache.cnt = Total(cache.map)

\* lru.rs:312-335, 240-254: remove_expired stops at the first key or address that
\* has not expired; both orders are by expiration, and an entry outlives its
\* addresses, so that it misses none of the expired keys and drops no address
\* that is valid.
InOrderOfExpiration ==
  /\ \A i, j \in 1..Len(cache.list) :
       i < j => cache.map[cache.list[i]].expiration <= cache.map[cache.list[j]].expiration
  /\ \A k \in Range(cache.list) :
       LET e == cache.map[k]
       IN  /\ \A i, j \in 1..Len(e.list) : i < j => e.inner[e.list[i]] <= e.inner[e.list[j]]
           /\ \A a \in Addresses(e) : e.inner[a] <= e.expiration

Valid(c, k, a) == c.map[k] # None /\ c.map[k].inner[a] # None /\ c.map[k].inner[a] # Expired

Holds(c, k) == \E a \in Address : Valid(c, k, a)
Lost(k, a) == Valid(cache, k, a) /\ (cache'.map[k] = None \/ cache'.map[k].inner[a] = None)

\* lru.rs:364-398, lib.rs:371-384: an address that has not expired is only lost when it
\* is removed, or to a key that had no valid address and needs room in a cache that is
\* full, or that the other address of the same announce has just filled.
LostOnlyForRoom ==
  [][\A k \in Key, a \in Address : Lost(k, a) =>
       \/ RemoveKey(k) \/ Clear
       \/ \E l \in Key \cup {None}, b \in Address : Unannounce(k, a, l, b)
       \/ RemoveExpired(cache).cnt + 1 >= capacity
            /\ \E l \in Key : ~Holds(RemoveExpired(cache), l) /\ Holds(cache', l)]_vars

\* lib.rs:378-384: an announce stores both of its addresses; the local one does not
\* take the room of the remote one, which was stored just before.
AnnounceStores ==
  \A r, l \in Key, a, b \in Address : r # l =>
    LET c == Announced(cache, r, a, l, b) IN Valid(c, r, a) /\ Valid(c, l, b)

\* lru.rs:293, 364-398: addresses under keys that are known take the cache past its
\* capacity unchecked; however far, the next new key brings it back within.
NewKeyWithinCapacity ==
  \A k \in Key, a \in Address :
    RemoveExpired(cache).map[k] = None => Insert(cache, k, a).cnt <= capacity

\* lru.rs:296-297: "How long an entry is valid": a request is answered with no address
\* whose time has passed.
GetsValid == \A e \in got : \A a \in Addresses(e) : e.inner[a] # Expired
=============================================================================
