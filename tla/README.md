# Verification of dnspup

dnspup is a recursive DNS resolver in C++ (headers under `src/lib`, `main.cpp`).
This directory holds TLA+ models of its parts, the TLC configurations that check
them on small instances and the TLAPS proofs of their main safety properties.

## 1. The system and its parts

| Part | State | Operations | Talks to |
| --- | --- | --- | --- |
| Server (`main.cpp`) | socket, shutdown flag | receive loop, signal handler, orderly exit | enqueues a task per datagram |
| ThreadPool, WorkQueue | queue, two flags, workers | `enqueue`, `pop`, `shutdown` | runs `handleQueryThreaded` |
| handleQueryThreaded (`Core.hpp`) | one request | parse, rate limit, resolve, reply | RateLimiter, recursiveLookup |
| RateLimiter | a deque of times per client | `allowQuery`, `cleanupOldEntries` | the workers, one mutex |
| recursiveLookup (`Core.hpp`) | call stack, `visited`, current server | cache lookup, root loop, referrals, recursion | caches, lookup |
| lookup, RetryPolicy (`Core.hpp`) | socket, transaction id | send, wait, validate, retry on timeout | TransactionTracker, the network |
| TransactionTracker, SecurityUtils | ids in flight | check, register, remove | the workers, one mutex |
| DnsCache, ThreadSafeCache | three maps, LRU list, statistics | lookup, insert, evict, clean up | workers, cleanup thread |
| Background threads | flag, condition variable | cleanup every 60 s, `StatsLogger` every 120 s | DnsCache |
| Wire format | 512-byte buffer with a cursor | read and write headers, names, records | lookup, the handler |

One thread receives; `hardware_concurrency` workers each run a request from
parsing to reply and share the caches, the tracker and the limiter. What is
hard to test: the interleavings of workers on shared state; replies that are
late, lost or repeated while ports and ids are reused; timeouts and retries;
cycles of referrals; limits of the caches and of the id space; the order of
events at shutdown. `PROJECT.json` lists each such hazard at its line with the
properties that would catch it.

What makes each part correct: the cache keeps its list, iterator map and
content in step, keeps its limits and loses no fresh record without cause; the
limiter never grants too much nor refuses too early; the pool takes every task
once, in order, and can always be shut down; the server stops accepting and ends
when told, and nothing it destroys is still in use; a lookup ends, cleans up what
the code says it cleans up, and takes no reply for another query's; a resolution
ends, waits on no cycle, caches only what it was told about that question and
replies only with that; a packet is read as it was meant, whatever the bytes
reading ends, and what is written is what was read.

## 2. Modules

**DnsCache** (`cache/DnsCache.hpp`, `CacheEntry.hpp`). The variables are the
class's members: `cache`, `negativeCache`, `nsCache`, `lruList`, `lruMap` (its
keys; an iterator designates the node with its key), `currentEntries` (modulo
`SizeMod`, for `size_t`). A bucket is a set of entries with their expiry. `insert`
and `cleanupExpired` hold the unique lock over a loop, modelled one iteration per
step so that the clock may move in between: `insert`, `evictLRU`,
`insertStore`; `cleanupExpired`, `cleanupBucket`, `cleanupSweep`. `lookup`,
`lookupNS`, `insertNS`, `insertNegative` are one step. `lookup` is modelled as
if it had exclusive access; that it writes under a shared lock is SharedCache's
matter. `lastUsed` is history.

**PromptCache** is what those who ask DnsCache may expect: entries vanish exactly
when their time is over, and otherwise only whole answers, while one is being
stored. The refinement shows what `lookup` and `lookupNS` would find now (`Answers`,
`Failures`, `NameServers`); expired entries that are still there, the LRU list, the
cleanup and the statistics are then invisible, and `lookup` and `cleanupExpired`
are stutters.

**SharedCache** (`cache/ThreadSafeCache.hpp`, `lookup`, `lookupNS` and
`updateLRU` of DnsCache). Lookups of several workers at once, one step per
operation on a container; a node of `lruList` has an identity of its own, so
that `lruMap[key] = lruList.begin()` may be seen to keep another key's node.
Insertions take both mutexes exclusively. Both levels take their locks in the
same order, so one mutex stands for the two. Buckets are only live, expired or
emptied: what the operations do one at a time is DnsCache's matter.

**RateLimiter** (`security/RateLimiter.hpp`). `allowQuery` takes the mutex and
reads the clock, `cleanupOldEntries` pops once per step, `limit` and `allow`
return. `granted` is the history of all grants.

**SlidingWindow** is what RateLimiter promises: a query is refused if the window
that ends with it holds as many grants as allowed, else granted. It has no deque;
the refinement maps the requests inside `allowQuery` to the one being decided
(`Asking`), and `cleanupOldEntries` to a stutter.

**WorkPool, ThreadPool** (`ThreadPool.hpp`, `WorkQueue.hpp`). WorkPool is what a
user of the pool may expect: tasks begin in order, at most once, and while the
pool is open every one begins. ThreadPool is the code: each critical section is
a step, notifications follow in a step of their own, `cv.wait` may wake up
spuriously. The refinement maps `pushed`, `Len(taken)` and `running` to
WorkPool's variables.

**Server** (`main.cpp`, `StatsLogger.hpp`, the cleanup thread of
`DnsCache.hpp`). It extends ThreadPool, whose `main` is the same thread: `step`
says where `main()` is, and `receive` and `destroyPool` contain the pool's
actions. `gone` counts the objects destroyed, in the order C++ destroys them:
the socket (closed), limiter, tracker, logger, cache, and then the pool. The two
background threads have the same loop, `bgTest` to `bgWork`; the test of
`wait_for`'s predicate and the blocking are two steps, because the code clears
the flag and notifies without holding the mutex. The destructors' second calls of
`stopCleanup` and `stopLogger` find the flag cleared and do nothing.

**Upstream** (`lookup` of `Core.hpp`, `RetryPolicy.hpp`,
`TransactionTracker.hpp`, `SecurityUtils.hpp`). One action per critical section
or system call, one per way of failing: no port, no id, unwritable name,
malformed or mismatched reply (these leave the socket open and the id
registered), receive error and timeout (socket closed, id still registered),
success (both released). Ports come from a small set and are reused, so that a
late reply can meet a later socket. Of a Transaction only the id is kept: the
rest is never read. `setsockopt` is assumed to succeed.

**Exchange** is what a call of `lookup` with its retries promises
`recursiveLookup`, and all that Resolver assumes of it: at most `MaxRetries` queries
to the one server asked, then one answer or none. The refinement maps the number of
queries sent (`Sent`); sockets, ids, waiting and the tracker are not seen.

**Resolver** (`recursiveLookup`, `handleQueryThreaded`, the queries on
`DnsPacket`). Each worker has the stack of its active calls; a frame holds the
position in the code, the zones still to walk, the current server, the index of
the loop over the roots, `prevNSTimedOut` and the response kept over a
recursion, and as history the cached name server it started from and whom it has
asked. The constant `Internet` gives the packets each server may send about
each question; a question may also time out or throw at any time. Caches are
maps from which entries (or some records of an answer) may vanish at any time,
which covers what PromptCache loses by time and by eviction; and a store may be
without effect, as that of an answer with TTL 0 is, or of a name server in a full
cache. Sections of a packet are sets: "the first" becomes "any", which
contains every order. An exception empties the stack and the handler replies
SERVFAIL. The cache updates for the glue of one packet are one step.

**WireFormat** (`BytePacketBuffer.hpp`, `DnsHeader`, `DnsQuestion`, `DnsRecord`,
`DnsPacket::fromBuffer` and `write`, `QueryType`, `ResultCode`, `splitString`). A
buffer of bytes is read: `readQName` takes a step per turn of its loop (`jump`,
`label`, `endName`, `jumpLimit`, `endOfBuffer`), the fixed fields of an item are
one step, and any throw ends in `threw`. A packet that was read is written
(`write`, with the functions that write as functions to bytes) to a zeroed buffer
of the same size, and read again. Bytes are numbers, a name is the sequence of its
bytes, flags are the set of their names. A name is written by putting the length of
a label in the place of the dot before it (`Labels`), which is what the tokens of
`splitString` come to. `first` is what was read first, or empty until it is written. The buffer's size is a parameter of the
input; reading and writing behave alike at 512 and at the sizes of the run. The
second reading stands for a receiver that reads as this code does. What a message
means does not come from the code: `Said` decodes its bytes by RFC 1035, as a
function of them, without a cursor and without a loop. The names are the least
fixed point of "ends here", "a label and a shorter name" and "a pointer to a
shorter name"; a record's data is as long as its length says, also where the code
never looks at the length. `WellFormed` says that every item the header counts is
there, `ReadAsMeant` that such a message is never refused and is read as `Said`.
It asks no more pointers of `readQName` than the code allows (`maxJumps`). The
assumption `SendersMean` ties the meaning an input of the run was built from to its
bytes; TLC evaluates it.

`MCDnsCache`, `MCResolver` and `MCWireFormat` give constants that a configuration
cannot write; the proofs are in `DnsCacheProofs`, `RateLimiterProofs`,
`ThreadPoolProofs`, `ServerProofs`, `UpstreamProofs`, `ResolverProofs`,
`WireFormatProofs` and `WireRoundTripProofs`.
Operators introduced by "Mutant:" are wrong variants of the definition below
them; no specification uses them. They show that the properties notice.

## 3. What the runs check

| Run | Instance | Shows |
| --- | --- | --- |
| cache_lru | 3 keys, room for 2, clock to 4 | LRU list, map and cache agree, order and capacity hold, the oldest is evicted, both locked loops end |
| cache_ttl | 2 spellings of a name, 2 records, TTLs 0, 1 and too large, 2 domains in room for 1 | nothing outlives its bound, fresh records are not lost, refinement of PromptCache |
| rate_limiter | 2 threads, 2 clients, 2 grants per window of 2, clock to 5 | the window limit, refinement of SlidingWindow |
| server | 2 workers, 3 requests of 2 kinds, both background threads, a signal at any time | refinement of WorkPool with its liveness; orderly end of threads; one request after the signal at most; the server ends; until the signal cleanup and statistics come again and again |
| upstream | 2 threads, 2 servers, 2 ids, 2 ports, 2 attempts, late, lost and repeated replies | sockets and transactions are accounted for, a reply answers its own query, refinement of Exchange, calls return even after exhaustion |
| resolver_graph | 1 worker, 2 root servers, 3 names, 2 types, depth limit 2 | cycles of referrals end; no name waits for itself; nobody gives up before the root servers were tried |
| resolver_shared | 2 workers on shared caches, 2 names | what is cached and replied was heard for that question |
| wire | every name of 4 bytes from 6, chains of up to 7 pointers, 511 flag words, 344 messages in a full and in a roomy buffer | reading ends, finds the items where they are and as they were meant; a rewrite keeps all but what is named |

The bounds: three keys against a capacity of two make evictions choose;
the clock runs past every TTL (and windows past each other) so that expiry meets
each operation; two workers suffice for one to be woken in place of another, and
three requests to leave some in the queue at the end; two ids and two ports
exhaust both, and a second attempt meets the late reply to the first; two root
servers tell "the next" from "all", and three names and a depth limit of two
reach both the visited set and the limit. The names of `wire` hold labels,
terminators and pointers in every position, also into the header and beyond the
end; seven pointers pass the limit of five, of which the code allows one more
than its name says; labels may be longer than the limit, which is one byte there
instead of 63; and a full buffer is one that a message fitted only because it was
compressed. The state graphs are explored completely.

`AnswersOwnQuery` excludes runs in which a datagram was repeated or two threads
registered one id (`doubled`), and both matter: `generateTransactionId` asks the
tracker in one critical section and `registerTxn` registers in another, so that
two threads may use the same id at a time; and a repeated reply may reach a
later lookup that happens to draw the same id on the same port towards the same
server, because `lookup` does not compare the question. What holds for the rest
is worth knowing: it is the transaction left behind by a timeout that keeps a
retry from drawing the old id. Removing it on timeout, an obvious repair of the
leak, breaks the property (that is its mutant). What still holds after a repetition
is part of `ImplementsExchange`: an answer is at least one of the server asked, as
its source is compared. With ids alone to tell replies apart no other property
would notice if that comparison were missing.

`RootsTried` says what the loop over the root servers really promises: after the
timeout of a cached name server the first root server is skipped, for the first
turn of the loop went to the cached one; in every other case all were asked. The
comment at `Core.hpp:209` ("loop and try every possible root server") promises more.
The cached one may itself be a root server: what excuses the first root server is
that a cached server was asked in its place, not that another one was.

`PassedOn` and `LostOnlyIfCompressed` state what a reply loses between the server
it comes from and the client: records of unknown types are not written but
counted, so that the client reads zeros, or past the end, in their place; and as
names are written in full, a compressed reply may not fit again and is not sent.
Names with empty labels or a final dot, which only odd labels produce, are
excluded.

Disagreements between the code and what the repository says of it, each a run
that TLC must find violated:

- **server_stop**: `threadPool` is declared first and destroyed last; a request
  under way at the signal runs on while what it uses is destroyed. With one
  worker and one request.
- **shared_cache**: two lookups of one key erase the same list node, the second
  one through a dangling iterator. With two workers.
- **resolver_glue**: the loop over referrals with glue has no bound; two servers
  that name each other keep a worker for ever (under fairness).
- **resolver_circular**: names are never removed from `visited`; one that was
  resolved earlier in the same request is reported as a circular reference.

Five more are in the models as the code has them, and no run looks for them:

- `DnsCache.hpp:338` adds the size of a moved-from vector to `currentEntries`
  (`CacheStats.hpp:104` prints it as "Current Entries"), so the counter only decreases
  and wraps. DnsCache models the wrap; its `TypeOK` speaks of the range only.
- `Core.hpp:175` turns a cached SERVFAIL into NXDOMAIN (`cacheHit` of Resolver): a
  failure heard once becomes the absence of the name for as long as the entry lives.
- `Core.hpp:209` says "loop and try every possible root server", and the first one may
  be skipped. `RootsTried` states what does hold; that more does not can be seen when
  its `AllTried` asks for all root servers: a nested call starts with the server its
  caller learnt, two timeouts follow, and it gives up without the first.
- A record of an unknown type is counted in the header of a reply and not written
  (`DnsRecord.hpp:191`, `DnsPacket.hpp:120`). `PassedOn` states what arrives, over the
  three sections together: later records slip into the section before theirs.
- `TestSecurityUtils.cpp:15` asserts that two ids drawn one after the other differ; an
  id is kept free only once it is registered, and two workers may draw and use the
  same one (`doubled`). `AnswersOwnQuery` excludes these runs, `ImplementsExchange` not.

### Fairness

Weak fairness, but for one action, of threads that can run: the holder of the cache's unique
lock, a thread inside `allowQuery`, workers, main and the background threads (not
the signal, and not spurious wakeups), the reader of a buffer, a thread inside `lookup` (its wait ends with
`SO_RCVTIMEO`), a worker resolving (a lookup at a server returns, which is
Upstream's `CallsReturn`). Main's wait ends with its timeout of one second and a
background thread's with its interval, which is fixed when `wait_for` is called:
spurious wakeups do not put it off (strong fairness of `bgTimeout`, without which
`BackgroundServes` fails). The interval is what ends `join` when the
notification is lost: `SignalEnds` fails without it (its mutant), and with it may
take 60 or 120 seconds. Server assumes that tasks end; `resolver_glue` shows a
task that does not, and then the pool's destructor does not return either. Both
it and Upstream assume that `setsockopt` succeeds (the code warns and goes on).
Nothing is assumed of servers, clients, the clock or
the network. The operating system's scheduler and unblocked mutexes justify it.

## 4. What is proved

TLAPS proves, for all values of the constants under the named assumptions
(`CacheAssumption`, `NoneAssumption`, `LimiterAssumption`, `PoolAssumption`, `UpstreamAssumption`,
`ResolverAssumption`, `WireAssumption`), which say that limits are natural
numbers, bounds are ordered, special values are distinct, servers send packets,
and buffers hold bytes and at least a header (512 bytes in the code):

- DnsCacheProofs: `TypeCorrect`, `LRUConsistency`, `LRUOrder`, `Capacity`,
  `EvictionOrder`, `NoLoss`, `NsCapacity`, `Staleness`, `ExpiresPromptly`. The inductive invariant
  adds to the properties that no `lastUsed` lies in the future and that buckets
  are finite; order needs absence of duplicates (so that erasing a node removes
  all of a key) and capacity needs that the store step finds the cache not full.
  `Staleness` covers what an insert holds back until it has made room.
  `ExpiresPromptly` is the refinement of PromptCache: a step that only removes what
  has expired changes nothing that can be seen (`Invisible`), and the store step
  finds fewer answers in use than the limit because it finds fewer keys.
- RateLimiterProofs: `TypeCorrect`, `WindowNeverExceeded`, `DequeSufficient`,
  `CountsTheWindow`. The invariant says that the deque is the end of the
  history (`DequeIsRecentHistory`), that the history is sorted and not in the future,
  and that the thread with a request holds the mutex. `CountsTheWindow` is the
  refinement of SlidingWindow: a deque that is pruned is as long as the window is
  full (`PrunedDeque`), and never longer than the limit.
- ThreadPoolProofs: `TypeCorrect`, `QueueFaithful`, `StopBounded`,
  `NobodySleeps`, `PoolRefinesContract`. The invariant ties the two flags to
  main's position: a worker blocks only while the queue is not shut down.
- ServerProofs: `ServerUsesPool` (every step of the server is a step of
  ThreadPool or leaves its variables alone, so that the theorems above hold of
  the server; `RequestsInOrder` is one), `ThreadsServe`, `BackgroundEnds`,
  `IntakeStops`. The invariant ties main's position to the background threads it
  has started and joined, their flags, and the objects it has destroyed. `ThreadsServe`
  is the safety half of `BackgroundServes`: while the server serves no background
  thread ends.
- UpstreamProofs: `TypeCorrect`, `SocketAccount`, `NoTrace`, `OwnQuery`,
  `KeepsContract`. The first three are inductive with the fact that a lookup's locals are set as far as it
  has come (`LocalsSet`). `OwnQuery` needs `ReplyInv`: as long as nothing was
  repeated and no id registered twice, every query sent is that of a lookup that
  waits for it, or was answered, or is abandoned: its id is still in the tracker
  and no lookup uses it. The last case is why a timeout must leave its id there.
  `KeepsContract` is the refinement of Exchange, also when datagrams are repeated.
- ResolverProofs: `TypeCorrect`, `NoCircle`, `NothingInvented`, `RepliesHeard`,
  `RootServersTried`. `TypeInv` says of every frame what its place in the code
  makes of its locals (`SoundFrame`: also whom the loop over the root servers has
  asked) and of every stack that all but its top wait for a recursive call
  (`Stacked`). `Visiting` adds that the active names are visited and differ,
  `Replying` that a response kept over a recursion, or returned by the first call,
  was heard for the question of its frame. The proofs hold for every internet.
- WireFormatProofs: `ReadingBounded`, `CursorAfterName`, `NoneLost`, `MeaningKept`, for a buffer of
  any bytes. `Typed` says that what a turn reads is there and that the section
  being filled is not full; `Within` counts the bytes of a name by the passes over
  the buffer that its jumps began; `Placed` says that until the first jump a name
  ends where the rest of it does; `Fits` says that while no pointer was followed
  the cursor is as far as a writer of what was read would be. The last needs the
  length of every function that writes, item by item. `Understood` ties the first
  reading to the decoder: the sections hold what it says first and the cursor is
  where its next item begins (`Gathered`, `Mark`); within a name, what is ahead of
  `n.pos` is a name of the decoder that completes `n.out` and `n.jumps` to the whole
  one, and the place where reading goes on is the cursor, once a pointer was
  followed, and the end of what is ahead before that (`Spells`). A host needs one
  more fact, that the record will be complete with it, and ends where its data does:
  the code goes on behind the host, the decoder behind the length.
- WireRoundTripProofs: `PassedOnIntact`, `LengthsHold`: reading is the inverse of
  writing, for a packet read from any bytes. The lemmas go from a number to a name
  (a label and a shorter name), a record and the header, each as "what was written,
  if it lies ahead, is what is read". `Proper` says that what a first reading leaves
  can be written without loss (flags and codes in their range, fixed data as long
  as the type wants, sections filled in order). `Tracks` says where the second reading
  is: what it has read and what lies ahead make up what was sent, with nothing but
  zeros behind it, which read as blank records. They need that a label is shorter
  than 64 bytes (the assumption on `maxLabel`, 63 in the code): a length byte must
  not look like a pointer. `LengthsHold` is the same invariant seen at a record's host.

`Behind` and `FlattenSeq` are recursive functions. What is said of them rests on
`Recursion` (a function is determined by its first value and its steps) and
`Induction`, both stated for sets of numbers in place of predicates, and proved
from the well-foundedness of inclusion among finite sets.

Only model-checked:

- liveness and everything under fairness (`LockReleased`, `AllowQueryReturns`,
  `SignalEnds`, `BackgroundServes`, the liveness of WorkPool, `CallsReturn`, `RequestsEnd`,
  `ReadingEnds`), which the prover does not treat, like `ENABLED`;
- the properties of the runs that find a violation.

## 5. Not modelled

- The metrics of the root servers (`hits`, `avgLatency`, `timeoutCounts`), which
  all workers change without a lock and nothing but a log line reads, and the
  counters of CacheStats other than `currentEntries`.
- What overlapping operations do inside one `std::list` or `std::unordered_map`:
  undefined, and SharedCache goes wrong before that.
- Printing and formatting (the stream operators, `ipv4ToString`, `parseIpv4`,
  `ipv6ToString`), the configuration classes and exceptions (plain data), and a
  start of the server that fails.
- `TransactionTracker::cleanup`, `RateLimiter`'s getters: never called.
- The records of `RateLimiter::clients` are never removed (`cleanupClients` is
  empty) and `negativeCache` has no limit: absences with nothing to check.

## 6. Plan

Done: every component of the table in section 1, and for each of them the proof of
its type invariant (the Server's is part of its inductive invariant) and of all safety
properties its passing runs check; and four
refinements, of WorkPool, PromptCache, SlidingWindow and Exchange. Left:

- Resolver states what it takes from PromptCache and Exchange in its own terms:
  `forget` for time passing and room being made, `Internet` with a timeout or a throw
  for a call. That these are their steps is argued in section 2, not checked.
