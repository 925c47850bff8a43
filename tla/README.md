# A verification project for hyperswarm-dht

TLA+ models of the parts of this crate, TLC runs that check them on small
instances, and TLAPS proofs of their safety properties for every instance.
`PROJECT.json` lists components, runs, theorems, hazards and, for every
definition, the lines of code it stands for.

## The system

One task polls `HyperDht` (`lib.rs`), which polls `RpcDht` (`rpc/mod.rs`), which
polls the I/O handler and the pool of queries. There are no threads and no
persistence; what is concurrent is the network, the remote peers and time.

| Component | State | Operations | What is hard about it |
|---|---|---|---|
| K-bucket (`kbucket/bucket.rs`, `entry.rs`) | an array of nodes, the index of the first connected one, a pending node with a deadline | insert, update, remove of present, pending and absent entries; lazily applied pending node | index kept by hand through moves and evictions; a deadline that races updates |
| Order of buckets (`kbucket/mod.rs`, `key.rs`) | `ClosestBucketsIter`: start, zoom in, zoom out, done | `next` | boundary at bucket 0; order for every distance |
| Routing table (`kbucket/mod.rs`) | a bucket per bit, results of applied pending nodes | `entry`, `iter`, `buckets`, `closest`, `take_applied_pending` | the table changes while it is iterated |
| Query (`rpc/query/`) | phase, `FixedPeersIter`, `QueryTable` | `poll`, `inject_response`, `on_timeout` | late, failed and lost answers; slots; tokens; termination |
| I/O handler (`rpc/io.rs`, `udp.rs`) | queue, message being flushed, requests waiting, two secrets; buffers and futures of the socket | `query`, `update`, `response`, `cancel`, `poll_next` | loss, duplication, reordering; two state machines that must agree |
| Peer cache (`lru.rs`) | a map and an order of keys, a map and an order of addresses per key, a counter | `insert`, `get`, `remove_addr`, `remove`, `clear`, expiration, eviction | five structures in step; expiration that relies on order |
| RPC node (`rpc/mod.rs`, `jobs.rs`) | the above, periodic jobs, event queue | `poll_next`, request and response handlers, bootstrap, ping | order of events; what wakes a task that sleeps |
| Store (`store.rs`) | LRU cache of mutable and immutable values | put, query, update | three ways in, each with checks of its own |
| HyperDht (`lib.rs`) | running queries, store, peer cache, event queue | announce, lookup, get, put, `poll_next` | one result per operation in any order of events |
| Codecs, cryptography (`peers.rs`, `rpc/message.rs`, `rpc/protocol.rs`, `crypto.rs`) | none | encode, decode, sign, verify | pure functions |

`RpcDht` adds to the routing table the nodes it hears from. It starts a query with the
closest nodes of the table. The query asks for messages to be sent, which the I/O
handler queues; the handler matches responses to requests and hands them to
the query. `HyperDht` answers `peers` requests from the peer cache and value
requests from the store.

## Modules

**`Vec`** has removal, insertion and search in vectors, with positions that count from 0.

**`BucketOps`, `KBucket`.** `BucketOps` has the operations of a bucket as functions
of a record with the fields of the struct. `KBucket` has one action for each
operation of the Entry API; each first applies the pending node, as
`KBucketsTable::entry` does. `Visit` stands for the other accesses, `Tick` for time.
An `Instant` is the time left until it. The history `reported` (last status
reported for a key) exists for the properties. Panics of the code (`ArrayVec::push` on a full array, the
`expect` in `apply_pending`, the `unreachable!`s) would be violations of
`WellFormed`, or of the type of `first_connected_pos`.

**`LruBucket`, `KBucketRefinement`.** `LruBucket` is what a bucket promises: a queue
of disconnected and a queue of connected nodes, each by the time of the last
report, and a candidate. The refinement mapping splits the array at
`first_connected_pos`.

**`Keyspace`, `ClosestBuckets`.** A key and a distance are sets of bits; XOR is the
symmetric difference; `Less` compares at the highest bit that differs. The
iterator's functions are relations between states (`IsNextIn`, `IsNextOut`).

**`KBucketsTable`** composes both: a `BucketOps` bucket per bit, and an iterator that
borrows the table, so that between its steps only time passes.
`ClosestNext` takes a bucket at a time: the keys it sorted are yielded one by one
with nothing in between that could change them.

**`FixedPeersIter`, `QueryTable`, `QueryStream`.** The first two have the operators of
the iterator and of the table of peers, the third the query: `Poll` is one call of
`QueryPool::poll`, with the changes of phase that happen inside it; `Answer` is an
error, a response or a timeout; `Lose` is the network. The I/O handler matches a response
by its request id alone and hands on the address the datagram came from, so an answer
comes from any address and under any id, and it counts for that address. A backlog is the
number of times an address is still to come, in no order. Where the code takes the first
match in a hash map, the model takes any. A token is the id of the node it came from.
`RpcDht` would call `on_timeout` for `RequestTimeout`, which the I/O handler never
emits; the model allows it all the same.

**`UdpFramed`, `IoHandler`.** `UdpFramed` has the buffers, futures and the flag of the
socket. `Poll` is one call of `IoHandler::poll_next` over it. `pending_recv`
keeps ids only. The environment
(`Send`, `Answer`, `Receive`, `Lose`) delivers in any order, more than once or never;
`Answer` is a response with any request id from any peer. A token is the pair of secret and address it is a hash of.

**`PeerCache`** has the operations of the cache as functions, and as actions the
requests that use it: `Announce`, `Unannounce` and `Lookup` are `HyperDht::on_peers`
with a remote key and, if the request has a local address, a local one. `RemoveKey` and
`Clear` are the public operations nothing in the crate calls. Times are the time left,
and -1 is past. The two kinds of addresses are alike, because `HyperDht` keeps them
under keys of different kinds.

**`RpcEvents`** is what the RPC node promises to the one who polls it: a query that is
started has responses and then one end, its `QueryResult` or `Bootstrapped`, and
nothing after that; `Bootstrapped` comes at most once.

**`RpcDht`** is the RPC node and the task that polls it. `pc` says where `poll_next`
is: `PollJobs` begins it, `Drain`, `IoSends`, `Read` with the handlers and the pool's
steps are turns of its loops, and `TakePeer` and `QueryFinished` are `query_finished`.
The routing table is a bucket of `BucketOps` for all nodes: what `RpcDht` does to it goes
through one entry at a time. The I/O handler and the queries are reduced to what the
node sees of them: messages to send, a message to read, a query that sends or ends. Each
handler of a request is the set of what it may do (`Outcome`): a reply, the closest nodes
looked up for it, an event. The wakers are explicit. The socket wakes the task once it
was polled to pending. A `Delay` does so once it was polled, which one that a job
has just replaced was not. `coincide` records that both jobs fired in the last poll.

**`Store`** has the store's operations as functions. A value is its own hash, and
`signed` says whether a signature verifies. A full cache loses any other entry, where the
code takes the least recently used one.

**`HyperDht`** is the DHT node. Its state includes that of `RpcEvents` (`Rpc`), so that
it runs over any RPC node that keeps the promise, which `RpcDht` is shown to do. One
action handles one event: a request for the store, a response, a result,
`Bootstrapped`. The user's operations start queries. `task` says whether `poll_next` is
running; it is `Panicked`, and nothing happens any more, after a response whose LAN
peers have a length that `decode_local_peers` slices out of range. `Promise` is `RpcEvents` again, for
the operations of the user: the end of one is the event with its result.

## Runs

| Run | Instance | What it shows |
|---|---|---|
| `kbucket` | 4 keys, 3 slots, timeout 2 | `WellFormed`, `UniqueEntries`, `StatusFaithful`, `EvictsDisconnected`; `ImplementsLru`: refinement; `PendingResolves`: no node is pending for ever |
| `closest_buckets` | 5 bits, every distance | `IncrementallyFurther`, `VisitsAll`, `RepeatsOnlyFirst` |
| `kbuckets_table` | 3 bits, 5 keys, 2 slots | `NearestFirst`, `ClosestComplete` |
| `kbuckets_table_twice` | the same | violation: bucket 0 is yielded twice |
| `query` | 2 remote ids and the own one at 3 addresses, parallelism 2 | `ContactedOnce`, `WaitingMatches`, `NobodyLeftOut`, `TokenOfPeer`; `ExpiredEnds`, `AnsweredFinishes`: it ends |
| `peer_cache` | 3 keys, 2 addresses, capacity 2, age 1 | `Consistent`, `InOrderOfExpiration`, `AnnounceStores`, `NewKeyWithinCapacity`, `LostOnlyForRoom` |
| `peer_cache_stale` | the same | violation: a lookup is answered with an expired address |
| `io_handler` | 2 peers, 3 request ids, 2 of them used | `FlushMatchesSocket`, `Accounted`, `TokenStaysValid` |
| `io_handler_rotation` | 2 request ids | violation: secrets are swapped before the interval has passed |
| `rpc` | 2 nodes, 1 slot, 2 queries | `NothingPending`; `SleepsWhenDone`, `SomethingWakes`; `ImplementsRpcEvents`: refinement; `MessagesAreRead`, `PingsAgain` |
| `hyperdht` | 2 values, 1 salt, 2 sequence numbers, capacity 2, 2 queries, LAN peers of 0 and 5 bytes | `Tracked`; `StoresVerified`, `UpdatesNeverGoBack`; `OneResult`: refinement; `ResultArrives` |
| `hyperdht_lan` | the same, LAN peers of 0, 4 and 8 bytes | violation: a lookup never delivers LAN peers |

Each passing run but `closest_buckets` also checks the type invariant of its module, on its
own or as a conjunct of `WaitingMatches`, `Accounted` and `Consistent`. Every property is broken
by at least one of the mutants kept in the modules.

### Bounds

- Bucket: one key more than slots makes a full bucket with a pending node; three
  slots leave room for a middle node and for every split of statuses.
- Table: three buckets give zooming in, zooming out and the boundary; the farthest
  has more keys than slots. `MaxApplied` bounds the unread results.
- Query: one address has two ids (a node restarted with a new id), one id has two
  addresses (a node that moved, or two that claim one id), one bootstrap node is
  configured twice, and the own node is one that others name. Answers come from all
  three addresses.
- I/O: `RequestIds` is the number of ids before they wrap; two are used, from
  any start, and one that never is can be answered all the same. `MaxQueue` and `MaxInbox` bound what waits, not how often. One
  token handed out is followed. A model that reused ids while requests wait would
  need 2^64 requests in the code, so `MaxRequests` is at most `RequestIds`.
- Cache: capacity 2 with 3 keys of 2 addresses forces evictions, also past the
  capacity.
- RPC node: two nodes and one slot give a table that is empty, full, and one that
  turns a node away; two queries are a bootstrap that races one of the user, or two of
  either. A query is not started when both ids are in use. The bootstrap job acts on an
  empty table only (`BootstrapBelow`; 20 in the code). One address is
  enough to remove a node by its address; the proofs have any number of all of these.
- DHT node: two operations at a time, and ids that are used again once the result was
  returned. A capacity of 2 for three keys forces evictions. `MaxEvents` bounds the
  custom requests queued for the user, `MaxSeq` the sequence numbers.

Symmetry is used in runs without liveness, over keys and addresses that no
definition orders. `closest_buckets`, `query` and `hyperdht` stop: an iterator and a query
end, and a task that panicked does nothing more.

### Fairness

- `KBucket`: time passes, and the bucket is visited: `RpcDht::poll_next` counts the
  whole table each bootstrap interval (`rpc/mod.rs:828-829`).
- `QueryStream`: the pool is polled as long as polling changes something, and an
  answer that is on its way arrives or is lost. `RpcDht::poll_next` polls the pool
  until it is pending. `AnsweredFinishes` is claimed as long as every answer frees a slot:
  one that is lost does not, and neither does one that comes from an address the iterator
  does not wait for, although the I/O handler accepts it. No timer is set for the timeout of a query; that the task is
  polled again after it is what `SomethingWakes` and `PingsAgain` of `RpcDht` say.
- `RpcDht`: the executor polls a task that is woken and `poll_next` goes on
  (`WF(Poll)`); time passes (`SF(Expire)`, because time also passes while the model
  finishes a query in several steps). Nothing is assumed of the network or the user.
  `MessagesAreRead` and `PingsAgain` are claimed as long as the jobs do not fire in the
  same poll: if they do, both of their Delays are new and nobody has polled them, and if
  the socket then drops a message nothing wakes the task. `PingsAgain` is also only
  claimed if `poll_next` returns now and then: its inner loop does not look at
  the jobs, and messages that cause no event keep it going.
- `HyperDht`: the user polls, `RpcDht` is pending now and then (`WF` of the two halves of
  `poll_next`), and its queries end (`SF(QueryFinished)`), which `query` shows.
  `ResultArrives` excepts a task that panicked.

## Proofs

`KBucketProofs` proves, for every set of keys, every capacity above 0 and every
timeout (`ConstantsAssumption`), `TypeOK`, `WellFormed`, `UniqueEntries`,
`StatusFaithful`, `EvictsDisconnected` and the refinement `ImplementsLru`. The
invariants are not inductive one by one: that the index stays in the array needs the
index to be moved for the right nodes, which needs positions to agree with statuses,
which needs keys to be unique. `Inv` is their conjunction, stated for the array and its
index (`NodesGood`) and for the pending node (`PendingGood`): appending, inserting and
removing keep `NodesGood`, and the operations of the bucket are composed of these.
`InvNext` has one step per action. `EvictsDisconnected` follows from `Inv` and lemmas on
which keys each operation can lose.

For `ImplementsLru` the array is cut where the connected nodes begin (`Disc`, `Conn`).
`SplitAppend`, `SplitInsert` and `SplitRemove` say what pushing, inserting at the index and
removing a position do to the two parts: one queue changes at one place and the other
stays. From these each operation of the bucket gets an equation with the operation of the
queues it stands for (`InsertLru`, `UpdateLru`, `RemoveLru`, `ApplyLru`), and `StepLru` has
a step for each action. Removing by key needs `UniqueEntries`, or the key would have to be
dropped from both queues.

`RpcDhtProofs` proves, for any set of nodes, addresses and queries and any capacity
(`ConstantsAssumption`, `RpcAssumption`), `TypeOK`, `NothingPending`, `SleepsWhenDone`,
`SomethingWakes` and the refinement `ImplementsRpcEvents`.

- `NothingPending` needs that all nodes of the table are connected (`Steady`): then the
  bucket's index is 0 unless it is empty, a full bucket has no eldest disconnected node,
  and `Insert` answers `Full` and not `Pending`. `TableInv` adds that keys are unique and
  that exactly the nodes of the table have an address, from which `TypeOK` follows.
- `WakeInv` adds to the two properties of a sleeping task what holds during a poll: a
  watched `Delay` unless both jobs fired.
- `QueueInv` is what the refinement rests on. A queued response belongs to a query in the
  pool, `Bootstrapped` is queued at most once, and only if the node is bootstrapped, and
  while a query is finished only `RoutingUpdated` is queued. This is why the end
  of a query, which is returned past the queue, overtakes none of its responses.
  `EventNext` has a step for each action.

`ClosestBucketsProofs` proves, for every number of buckets, that the iterator visits them
all, in the order of distance, and none but bucket 0 twice. `BeforeIsNearer` reduces distance to an order on bucket
indices (`Before`); `Progress` says what has been yielded in each state, and `Ordered` that
it was yielded in that order.

`KBucketsTableProofs` proves, for any number of buckets and any set of keys, `TypeOK`,
`NearestFirst` and `ClosestComplete`. `Inv` says that every bucket holds keys of its own
distance only (`Home`), that its index and its length are in their bounds and its pending
node is none of its nodes (`Fits`, which each operation of a bucket keeps), and what the
iterator has done so far: `Walk` relates the keys yielded to the buckets visited
(`Visited`). The statuses of the nodes, which `KBucketProofs` is about, play no part in it.
The argument has three parts. What is visited is nearer than what is not, whatever the
distance (`VisitedBefore`), and nearness of buckets carries over to their keys
(`NearerBucket`). A bucket's keys are sorted. Bucket 0, the only one visited twice, has a
single key, and no node pending that could take its place (`ApplyKeepsSingle`).

`QueryStreamProofs` proves, for any peers, addresses and parallelism, and answers from any
address under any id, `WaitingMatches`, `ContactedOnce`, `NobodyLeftOut` and `TokenOfPeer`.
`Inv` has for the running iterator (`QueryOK`) that it counts the peers it waits for, that the
requests in flight are of its phase and no more than these, and that a peer it has not asked
yet was sent nothing in its phase. A request takes a slot and an answer frees at most
one, so an iterator that waits for nobody leaves no request behind (`NoneInFlight`); which
request belongs to which slot plays no part in it, because answers may come from
elsewhere. `KnowledgeInv` is inductive relative to `Inv`: a peer that is still not
contacted is in the backlog or was sent a request (`Covered`), a token is stored with the id
it was handed out under, and an update in flight carries one of an id known at its address
(`TokenKnown`). `HashMap::insert` keeps the key that is there and with it the address, so
an id keeps the address it was first heard of at, and a token that the same id hands out at
another address is sent to the first one: `TokenOfPeer` says no more than the code does.

`IoHandlerProofs` proves, for any number of request ids, peers and datagrams,
`FlushMatchesSocket`, `Accounted` and `TokenStaysValid`. `Inv` counts where each request is:
in the queue, being flushed, waited for or closed, once altogether (`AccountedFor`), which
needs that ids are given out in order (`IdsInOrder`).

`PeerCacheProofs` proves, for any keys, addresses, capacity and age, `Consistent`,
`InOrderOfExpiration` and `NewKeyWithinCapacity`; and `AnnounceStores` and `LostOnlyForRoom` for a capacity above 1
(the code's is 65536). `Inv` is `CacheOK`: each list has exactly the keys of its map, once
and by expiration (`Ordered`), entries outlive their addresses, and `cnt` counts the
addresses. The order is what makes `remove_expired` right (`RemoveExpiredCleans`): it stops
at the first key that has not expired, and drops nothing that is valid. `remove_lru` ends
with room for one address, and keeps the newest one if there is room for two
(`RemoveLruMakes`); this is why the second address of an announce does not evict the first.
With a capacity of 1 it does. `LostOnlyForRoom` was at first stated with the number of
addresses after the step, which is wrong for more keys than the run has: the second
`insert` of an announce may drop expired addresses after the first one has evicted a valid
one.

`HyperDhtProofs` proves, for any set of values, salts and queries, `TypeOK` (the store
stays within its capacity), `Tracked`, `StoresVerified`, `UpdatesNeverGoBack` and the
refinement `OneResult`. `Inv` says that a
stored value is under its own key, which the action properties need, and that the
queries in progress are those of the pool. For the refinement `QInv` adds that a query
whose result is queued is not in progress, and that no result is queued twice. With
`ImplementsRpcEventsAlways` this covers the stack: the only thing `HyperDht` relies on is
what `RpcDht` is proved to do.

Where a proof needs an induction (the turns of `remove_lru`, the length of a list), it
takes the least counterexample (`LeastNatural`), because the library's induction theorems
cannot be applied here.

Only model-checked: the liveness properties (`PendingResolves`, `ExpiredEnds`,
`AnsweredFinishes`, `MessagesAreRead`, `PingsAgain`, `ResultArrives`), which need fairness
and `ENABLED` and are out of the prover's reach. Every invariant, action property and
refinement of the passing runs is proved, two with the capacity named above.

## Findings

1. `kbucket/mod.rs:425`: `closest` yields bucket 0 twice if the distance to the
   target is odd or zero, against "ordered by increasing distance"; the duplicate uses up one of the
   `K_VALUE` nodes a caller takes.
2. `lru.rs:325`: addresses past their `age` are returned by `get` unless their key is
   the least recently used.
3. `rpc/io.rs:533`: the condition of the rotation is inverted. The secrets are
   swapped by nearly every poll, and never again after an interval without one.
   `TokenStaysValid` holds all the same: both secrets are accepted, and a swap makes
   no new one, so that no token ever expires.
4. `peers.rs:128`: `decode_local_peers` returns nothing for every length that is a
   multiple of 4, which is every length that is sent. A lookup never delivers LAN peers.
   For any other length the slice at `peers.rs:136` is out of range and the task panics.

Observed, without a run of its own: an address stored under a known key is not checked
against the "maximum allowed capacity" (`lru.rs:293, 386`), and the cache grows past it
until a new key comes, which brings it back (`NewKeyWithinCapacity`).

Observed, without a statement in the repository to hold it against: a response is taken
from whatever address it comes (`rpc/io.rs:371`), and counts for that address in a query,
so that the slot of the peer that was asked stays taken until the timeout; the second copy of a
response removes its sender from the routing table (`rpc/mod.rs:721`); `add_node` does not
update the address of a node it knows (`rpc/mod.rs:449`); a `find_node` query of the user
that ends before the bootstrap is reported as `Bootstrapped` (`rpc/mod.rs:800`), and its
`QueryResult` never comes; `get_mutable` stores what it is answered with under the salt
of the answer and without comparing sequence numbers (`lib.rs:490-493`); when both jobs
fire in one poll, nothing need wake the task again (`rpc/jobs.rs:25`); a node in
`RpcDht`'s table never becomes pending, so that the code for pending nodes is only
reached by other users of `kbucket` (`NothingPending`).

## Not modelled

- Cryptography: external crates, opaque. A signature verifies or does not.
- Protobuf messages and frames (prost), and the encoding of peers other than
  `decode_local_peers`: pure functions that copy bytes.
- The contents of replies and of results, except LAN peers, and `query` and
  `query_mut` of the store, which only read.
- The settings of `DhtConfig` and accessors; registration of commands: a request is for a
  registered command or not.
- `RequestTimeout` in `RpcDht`: the I/O handler never emits it.
- `count_nodes_between`, `rand_distance`, `reping`, `tally`: unused or unimplemented.
- Statistics other than the counters of a query; logging; the examples.
- A network of several nodes: each module has one node, and its environment may do what
  other nodes do.
