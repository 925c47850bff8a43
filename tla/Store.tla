------------------------------- MODULE Store -------------------------------
(***************************************************************************)
(* The values a node keeps for others (store.rs), as functions of the      *)
(* cache they are kept in: [StorageKey -> entry, or None].  All mutable    *)
(* values have one owner.  A value is its own hash.  `signed' is whether   *)
(* the signature of a mutable value verifies for its owner, value, salt    *)
(* and sequence number.                                                    *)
(***************************************************************************)
EXTENDS Naturals, FiniteSets

CONSTANTS Value, Salt,
          MaxSeq,      \* bound: sequence numbers are 0..MaxSeq
          Capacity,    \* of the cache
          None

ASSUME StoreAssumption == MaxSeq \in Nat /\ Capacity \in Nat \ {0} /\ None \notin Value

\* A Mutable message; one without value or signature has no value.
Mutable == [value : Value \cup {None}, seq : 0..MaxSeq, salt : Salt, signed : BOOLEAN]

\* get_mut_key; put_immutable and update take the hash of the value as the key.
MutKey(m) == <<"Mutable", m.salt>>
ImmKey(v) == <<"Immutable", v>>
StorageKey == {<<"Mutable", s>> : s \in Salt} \cup {<<"Immutable", v>> : v \in Value}
StorageEntry == Mutable \cup Value

Stored(s) == {k \in StorageKey : s[k] # None}

\* Mutant: one entry more than the capacity is kept.
PutOverfull(s, k, e) ==
  IF s[k] # None \/ Cardinality(Stored(s)) <= Capacity
  THEN {[s EXCEPT ![k] = e]}
  ELSE {[s EXCEPT ![k] = e, ![j] = None] : j \in Stored(s)}

\* LruCache::put: a full cache loses another entry, the least recently used one,
\* which here is any.
Put(s, k, e) ==
  IF s[k] # None \/ Cardinality(Stored(s)) < Capacity
  THEN {[s EXCEPT ![k] = e]}
  ELSE {[s EXCEPT ![k] = e, ![j] = None] : j \in Stored(s)}

\* Mutant: a signature is not looked at.
Unverified(m) == m.value # None

Verify(m) == m.value # None /\ m.signed

\* Mutant: only another value with the same number is refused.
SeqErrorSameOnly(a, b) == a.seq = b.seq /\ a.value # b.value

\* maybe_seq_error: ERR_INVALID_SEQ or ERR_SEQ_MUST_EXCEED_CURRENT
SeqError(a, b) == (a.seq = b.seq /\ a.value # b.value) \/ a.seq <= b.seq

\* on_command_mut with Type::Update: update_mut
UpdateMut(s, m) ==
  IF ~Verify(m) \/ (s[MutKey(m)] # None /\ SeqError(m, s[MutKey(m)]))
  THEN {s} ELSE Put(s, MutKey(m), m)

\* on_command with Type::Update: the value must hash to the target.
UpdateImm(s, target, v) == IF v # target THEN {s} ELSE Put(s, ImmKey(v), v)
=============================================================================
