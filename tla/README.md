# A verification project for multi-party-tss

This directory holds TLA+ models of the concurrent and distributed parts of the
multi-party ECDSA server: TLC checks them on small instances, TLAPS proves the
most important properties for every instance. Sources are quoted relative to
`src/` of the repository; `PROJECT.json` maps every definition to the lines it
stands for.

## 1. The system

One binary plays three roles. The **manager** relays messages between the
parties of a computation: through an in-memory map for GG18, through rooms with
event streams for GG20. A **node** holds key shares in PostgreSQL and runs the
party's part of a computation as a client of the manager. The **gateway** calls
the nodes and joins their answers.

| component | source | state it keeps | operations | what is hard |
|---|---|---|---|---|
| room bus | `state/db.rs`, `gg_2020/management.rs`, `last_event_id.rs` | map of rooms (`RwLock`); per room a log (`RwLock<Vec>`), a `Notify`, two `AtomicU16` | subscribe, issue_idx, broadcast; `Subscription::next`, drop | lookups, counters and locks that interleave; wakeups; rooms replaced when nobody watches; `u16` cursors |
| signup and entry store | `ecdsa/gg_2018/adapter.rs`, `api/.../gg_2018/{adapter,management}.rs` | one `RwLock<HashMap>` | get_party_signup, set_entry, get_entry; the HTTP client's nine attempts | read lock then write lock; answers lost and requests repeated; the map dies with the process |
| GG18 key generation | `gg_2018/keygen.rs`, `common.rs` | local vectors of every round | five rounds of broadcast or p2p writes and polls | parties at different speeds, vectors with and without one's own entry, parties that stop |
| GG18 signing | `gg_2018/sign.rs`, `format.rs` | the same | ten rounds, threshold + 1 signers | the same, and parties beyond the signers |
| GG18 HTTP API | `gg_2018/{centralized,distributed}.rs` | none | gen_keys, signatures, for all parties or one | one failing future of many; the number of keys asked for |
| GG20 room client | `gg_2020/sm_client.rs`, `keygen.rs`, `sign.rs` | the party's index, its stream | join a room, keygen, offline stage, online stage | index issued against index given; late joins; a stream not resumed |
| GG20 node handlers | `api/.../gg_2020/key.rs`, `distributed.rs` | a pooled connection | key_gen_key, key_sign_message | a connection held while waiting for other nodes |
| gateway | `api/.../gg_2020/gateway.rs` | none | keygen and sign fan-out | staggered starts, timeouts, partial success |
| key store | `models/keys.rs` | table `keys` | create_key, find_by_pub_key | conflicts silently ignored |
| connection pool | `connection_pool.rs`, `timed_rw_lock.rs`, `store_builder.rs` | availability flag and condvar, r2d2's pool, permits of the limiter | get, with_conn, query permits, r2d2 callbacks | stale flag, checkout timeouts, permits returned on every path |
| cancellation | `util/futures.rs` | list of cancel senders, shared through an `Arc` | cancelable, guards, handles | senders added while the guard is dropped |
| configuration, startup | `config.rs`, `opt.rs`, `main.rs` | none | load, validate | which options are read before they are validated |
| routing, tokens, errors | `api/mod.rs`, `api/token`, `api/response` | none | stateless glue | nothing for a model checker |

How they interact: the room client opens an event stream (`subscribe`), asks for
an index (`issue_unique_idx`) and posts messages (`broadcast`) to the room bus
over HTTP; a GG18 call writes its messages as map entries and polls for the
others'; handlers of the manager share only the managed `Db` and the
`RwLock<HashMap>`; node handlers share the connection pool.

What makes each component correct: the bus delivers each room's history once
and in order to every stream, never sleeps on something to read, never gives an
index twice and never discards a watched room; the signup gives distinct numbers
under one uuid; a key or a signature is returned only if it is that of all
parties that made it, and is returned if none of them stops; the gateway reports
what the nodes stored; the pool refuses only while the database is down, and
every permit comes back; a cancelled future is cancelled exactly when its guard
goes. `PROJECT.json` lists under "hazards" where each could go wrong.

## 2. Modules

```
RoomFeed  <--implemented by--  RoomDb  <--  MCRoomDb
                                  ^-- RoomDbProofs
PartySignup <-- MCPartySignup
            <-- PartySignupProofs
RoundExchange <-- Gg18Keygen <-- MCGg18Keygen
                             <-- Gg18KeygenProofs
              <-- Gg18Sign   <-- MCGg18Sign
                             <-- Gg18SignProofs
                             <-- Gg18Centralized <-- MCGg18Centralized
Gg20Computation <-- MCGg20Computation
                <-- Gg20ComputationProofs
Gg20Gateway <-- MCGg20Gateway
            <-- Gg20GatewayProofs
Cancel <--instance-- ConnPool <-- MCConnPool
       <-- CancelProofs <--instance-- ConnPoolProofs (extends ConnPool)
```

**RoomDb** — the room bus. A request is a process whose `pc` says where its
handler stands; a room object (`Arc<Room>`) is named by the request whose handler
allocated it. The steps are the points where a handler touches shared state:

| action | code |
|---|---|
| `GetWatched` | the map's read lock in `get_room_or_create_empty`: a watched room is returned |
| `InsertRoom` | the write lock, entry vacant |
| `CheckAgain`, `ReplaceRoom` | the write lock, entry occupied: `is_abandoned` again, then the replacement; the counter is not covered by this lock, so they are two steps with `RoomsLocked` in between |
| `Subscribe`, `IssueIdx`, `Publish` | what each handler does with the room it got |
| `PollHit`, `PollMiss`, `Register`, `Wake` | one turn of `Subscription::next`: an entry is there; none is, and the read guard stays until the `Notified` exists; `notify_waiters` reached it |
| `DropStream` | the client leaves: `Subscription::drop` |

**RoomFeed** — what the bus promises, with locks, counters and wakeups left out:
append-only logs, and readers that read one log from a position in order.

**PartySignup** — `get_party_signup` in two steps (read lock, write lock) behind
the retries of `ApiCommunity::post`. `Spec` is the manager, where tasks meet
between the locks; `SequentialSpec` is the callers that do not, as the futures of
one centralized request cannot.

**RoundExchange** — how a GG18 round is exchanged: the keys of the map, the
broadcast and p2p writes, the polling loop, a party that stops and the manager
that restarts with an empty map. A signup is two steps, under the read lock and
under the write lock (`ReadSignup`, `WriteSignup`), so two callers that meet in
between get one number, under one uuid or two; retries of its request are
PartySignup's. `live` is history: the uuids generated since the map was last lost.

**Gg18Keygen**, **Gg18Sign** — the rounds, with every vector the code keeps and
every verification it makes. A commitment, a share or a proof is named by the
caller it belongs to and what it is for, and a verification succeeds when the
values it compares belong together. `format_vec_from_reads` and
`vec.remove(own)` are `FormatVec` and `Without`: alignment of positions is what
the verifications test.

**Gg18Centralized** — the handler that checks the number of keys and joins the
`sign` futures of one request.

**Gg20Computation** — a GG20 key generation or signature as its parties see it:

| action | code |
|---|---|
| `Subscribe`, `IssueIndex` | the two requests of `join_computation` |
| `Passes` | the filter of its stream, by the index that was issued |
| `Send` | one POST of `outgoing`; a p2p round has one for each other party |
| `Read`, `ReadUnexpected` | the protocol takes the stream up to the message that completes its round, or rejects one |
| `NextRound` | the next round, the online room, or the end |
| `Fail`, `DropStream`, `Break`, `Restart` | what a call does without its stream, and how it loses it |

A request to the manager is atomic here, with the replacement of a room nobody
watches in it (`Found`): the steps inside are RoomDb's. A call sends what its
round has before it reads, and nobody can see how far it has read, so the
messages of a round are read in one step. The protocol driver (round-based,
external) is modelled by what it sends, awaits and rejects.

**Gg20Gateway** — the gateway, the handlers of the nodes, their tables and their
pools. A request has a leg for each node it names, and a leg that is sent has a
task at its node:

| action | code |
|---|---|
| `AskKeygen`, `AskSign` | `gen_keys`, `sign_message`: the entries are numbered, or sorted |
| `Call`, `Receive`, `Timeout`, `Report` | one future of `join_all`: the delay, the answer, the limit; and the answer to the client |
| `Get`, `Checkout`, `CheckoutTimeout` | `ConnectionPool::get` and the pool behind it |
| `Acquire`, `ConnectionError` | r2d2's callbacks, which move the flag |
| `Join`, `Compute`, `Break` | `join_computation`, the rounds, and a computation that breaks off |
| `Store`, `Find` | `create_key`, `find_by_pub_key` |
| `GoDown`, `ComeUp` | the database of a node |

`get` blocks the thread it is called on, so a task moves only while its node has
a thread left (`Awake`). The computation is a room that the parties join, and
that ends when all have (`Assembled`) and each is where the others take it to be
(`InPlace`); what happens inside is Gg20Computation's.

**Cancel** — a guard, the list of cancel senders it owns through an `Arc`, and the
threads that reach the list through handles. `refs` is who keeps a list alive;
whoever lets go last drops the senders one by one, and a sender that is dropped
cancels a future:

| action | code |
|---|---|
| `NewGuard`, `DropGuard`, `GuardGone` | `CancelGuard`, its drop and the end of its drop |
| `NotCanceled`, `CannotUpgrade` | `is_canceled`; a handle that can be upgraded keeps the list alive for a moment |
| `Register`, `Push`, `LetGo`, `LetGone` | `cancelable` with a handle: upgrade, push, drop of the upgraded reference, which may be the last |
| `RegisterCanceled`, `RegisterByGuard` | the same when the guard is gone, and through a guard or a `SharedCancelGuard` |
| `PollCanceled`, `PollReady`, `Forget` | the poll of a `Cancelable`, which asks its receiver first; its drop |

**ConnPool** — `with_conn`, composed with Cancel. Each call has a guard of its own
for its blocking task, and its future is itself made cancelable with a guard of the
application, which may be a `SharedCancelGuard`:

| action | code |
|---|---|
| `Wrap` | `with_conn(..).cancelable(..)`, before its first poll |
| `GetReady`, `Refuse`, `Start` | `get_ready`; the permit that the limiter gives, the guard, `spawn_blocking` |
| `Receive`, `Answer` | the task has ended: the guard is dropped, the result returned or a panic raised, the permit returned |
| `Canceled`, `GiveUp`, `LeaveGuard`, `Leave` | the future is dropped where it waits, by its Cancelable or by `timeout`; its guard, then its permit |
| `Check`, `Checkout`, `CheckoutTimeout` | the task, whether or not anyone still waits for it |
| `Await`, `AwaitCanceled`, `AwaitReady`, `Finish` | the closure, which may make futures cancelable with its handle and wait for them |
| `Borrow`, `BorrowFdw`, ... | `get` and `get_fdw`: connections without a permit, and a second pool with the same flag |

Nothing in the repository calls `with_conn` yet; the closures are what its
documentation allows.

The MC modules give TLC symmetry sets and definite constants.

## 3. Runs

| run | question | result |
|---|---|---|
| `RoomDb` | Do three concurrent requests of any kind on one room keep the log, the counters, the indices and the wakeups right, and implement `RoomFeed`? Is every request answered, and does every accepted message reach the streams that stay? | holds |
| `RoomDbOrphan` | Is the room of a live subscription the one the map holds (db.rs:30)? | violated |
| `SignupSequential` | With lost answers and repeats, are numbers distinct and accounted for, if signups do not interleave? | holds |
| `SignupRace` | And if they do (the assertion of the test, adapter.rs:100-101)? | violated |
| `Gg18Keygen` | Three calls that may disagree on the count, race for a number, stop or meet a restart: do all who return a key return the same one? And unless two have one number, do all its parties count as many, and does what is read verify? | holds |
| `Gg18Sign` | Threshold + 1 of three calls, which may race for a number, with a restart or a party that stops: are signatures joint, are openings late enough? And unless two have one number, do the vectors stay aligned, does a complete set of signers finish? | holds |
| `Gg18Threshold` | Is a centralized request that is not refused answered? | violated |
| `Gg20Computation` | If parties join in turn: does the filter drop only what is for others, is nothing missed between them (in the online room too), does nobody fail or return alone, and do all finish? | holds |
| `Gg20Order` | And if they join in any order: does the filter ignore only "messages addressed to someone else" (sm_client.rs)? | violated |
| `Gg20Gateway` | With a key and two signatures over pools of one connection, a node named twice, a timeout and a fault: is a reported key stored, do places agree, do connections come back, do tasks finish, and do those that hold connections go on although others block threads to wait for them? | holds |
| `Gg20Flag` | Does the availability flag tell whether the database is available (connection_pool.rs)? | violated |
| `ConnPool` | With callers that give up and an application that cancels: do guards cancel all they guard, does the cancellation reach what a closure waits for, do late closures not run, do permits suffice and calls get their answer? | holds |

Bounds, and why they are enough:

- `RoomDb`: three requests are two watchers and a publisher, a watcher, a publisher
  and the request that replaces the room, or a stream and two broadcasts. The theorems
  say the same of the safety properties for any number; liveness is what the run adds.
  One room: rooms share only the map's lock. `LastEventIds` has 0 and the largest value,
  whose successor wraps to 0. `Width` is above the number of requests, which
  `NoWrapAssumption` states: a cursor past 65535 messages is outside of the model.
- `SignupSequential`: two rooms, four callers, two of the nine attempts
  (`MaxAttempts`): one loss and one repeat for each.
- `Gg18Keygen`, `Gg18Sign`: three calls, so that there is a first, a middle and a
  last number for the position arithmetic; `Counts` {1, 2, 3} lets callers disagree (a call for one party sends nothing);
  `MaxRestarts` 1 lets a second computation run over the map while a party of
  the first still polls. In `Gg18Sign`, `Threshold` is 1 and the third caller is
  one signer too many. A call polls without a limit, so no timeout is modelled.
  Three callers are also the least for which two meet in a signup when the entry is
  there and when it is not, with a third that reads what both wrote. `Gg18Sign` has
  its callers come to the signup in the order of their `party_id` (`InOrder`, a
  CONSTRAINT): they differ in nothing else, and `party_id` is only compared for
  equality. The order in which they write, and everything after, is free. One call
  stops or the manager restarts once, not both (`OneDisturbance`, a CONSTRAINT): to the
  others a call that stops is one that is slow from then on, which they meet anyway,
  and `CompleteRunsFinish` excuses runs with a stop or a restart. The safety properties
  are proved for any number of both.
- `Gg20Computation`: three parties, so that a p2p round has an order and the
  filter has messages to others to drop; a key generation with a broadcast and a
  p2p round, a signature with a broadcast round and the online room; one fault (a stream, a node or the manager).
- `Gg20Gateway`: two nodes and two places, so that one node may hold both shares
  of a key; two signatures against pools of one connection, the least with which
  requests starve each other; a node with one thread, all of whose threads a single
  handler blocks, and one with two; one timeout and one fault.
  `Gg20Flag` needs neither.
- `ConnPool`: one connection and one permit; two calls, so that one waits for the permit
  or for the connection of the other, also after that has left; a borrower, so that a
  task with a permit finds no connection. The application's guard is made late, held or
  gone (or a `SharedCancelGuard`, see 6) when a call is wrapped. The theorems are for any numbers. tokio's
  limit of 512 blocking threads is not modelled, and the database stays up.

Fairness. `RoomDb` has weak fairness of every step of a handler after the
request arrived: tokio polls every task that was woken, and its locks are granted
in order. `Arrive` and `DropStream` are the clients' and are not fair. `Gg18Sign` has weak
fairness of `Proceed` of every call, whose task is polled and whose timers fire;
signing up, stopping and restarting are not fair. `CentralizedSpec` has it of the
handler and of every joined future. The `StaggeredSpec` of both GG20 modules has it of
every step of a call or handler that was called, a checkout timeout included (r2d2
gives up after `connection_timeout`, and on this `HoldersGoOn` rests); being
called, faults, the gateway's limits, callbacks of the pool and streams that drop
are not fair. It also restricts who joins when: the gateway sends leg i after
i * `request_delay` (gateway.rs:55-58, 197-200), and the specification assumes
that this delay is long enough for a party to join before the next is called.
Nothing in the code checks it; `Gg20Order` is what happens when it is not. Which
theorems assume it is said in section 5. `ConnPool` has weak fairness of the poll of
a call that can go on (`Poll`), of its task's thread (`Run`), of handles and drops in
progress, and of borrowers, who give back. What a closure waits for
(`AwaitReady`), first polls, cancellations and callers that give up are not fair;
`CallersAnswered` therefore assumes that closures do not wait for ever, and
`CancelCascades` does not.

## 4. Findings

- **An orphaned subscription** (`RoomDbOrphan`). A handler looks a room up and
  subscribes to it in two steps, and only the second is counted. Another that
  found the room abandoned in between replaces it; the subscriber is left on a
  room nobody writes to.
- **One number twice** (`SignupRace`). The number is computed under the read
  lock and inserted under the write lock. Two requests of the manager that meet
  there are both party 1, under different uuids.
- **A request never answered** (`Gg18Threshold`). The handler asks for threshold
  + 1 keys in its error text and compares with threshold; with exactly threshold
  keys every call polls for a party that does not exist.
- **The index issued against the index given** (`Gg20Order`). A key generation
  runs with the index of the request, and its messages are filtered by the index
  the room issued (`gg_2020/keygen.rs:17`, `sm_client.rs:35`). A party that joins in another
  order than its index has messages of the others dropped as somebody else's.
- **A flag that is down while the database is up** (`Gg20Flag`). `key_sign_message`
  keeps its connection while it waits for the other signers; a handler that waits
  for one meanwhile times out, and the timeout is taken for a database that is
  gone. The flag stays down when the connection comes back, and requests are
  refused until the pool opens another one.

## 5. Proofs

### RoomDb

For all finite sets of requests, all sets of rooms and any width of the counters
larger than the number of requests (`RequestsAssumption`, `WidthAssumption`,
`LastEventAssumption`, `NoWrapAssumption` of RoomDb), TLAPS checks:

| theorem | argument |
|---|---|
| `TypeCorrect` | `TypeInv` adds to `TypeOK` that a task past its lookup holds a room, that an occupied map entry is needed to replace one, and that an event is yielded only from the log |
| `WakeupsKept` | `WakeInv`: a task between `PollMiss` and `Register` holds the read guard and has nothing to read, so `Publish` is not enabled until its `Notified` exists; then `Publish` empties the waiters |
| `SubscriptionsCounted` | the counter is the cardinality of the watchers, which stays below the width: neither `Succ` nor `Pred` wraps |
| `WatchedRoomsStay` | follows from the counter: a watched room is not found abandoned |
| `StreamsDeliverHistory` | `HistoryInv`: the stretch yielded so far is part of the room's log and ends at the cursor; logs only grow |
| `IndicesNeverShared` | `IndexInv`: what a room has issued is below `next_idx`, and at most as many as requests that finished, so `next_idx` does not wrap |
| `RoomsAreFeeds` | with `LogInv` (a message is in one log, once) every step maps to a step of `RoomFeed` or a stutter |

These invariants are needed because the properties are not inductive alone: e.g.
`NoLostWakeup` says nothing of a task that found nothing and does not yet wait.

### PartySignup

For any callers, rooms and counts, and any number of attempts
(`CountsAssumption`, `AttemptsAssumption`, `MarksAssumption`):

| theorem | argument |
|---|---|
| `TypeCorrect` (of `Spec`) | `CallInv`: an attempt is made only below the limit, and a call between the locks has a signup to write |
| `NumbersWithinCount` (of `Spec`) | `CountInv`: the candidate between the locks is 1 or within the count, so it does not matter who else writes meanwhile |
| `PartiesDistinct` (of `SequentialSpec`) | `SequentialInv`: one caller is between the locks at most; its candidate follows the entry it replaces; a number under the uuid of the entry is at most the entry's |
| `AllNumbersAccounted` (of `SequentialSpec`) | with it, a lost number stays lost: `AccountedStep` follows the numbers given and lost of one room through every step |

`DistinctParties` is not an invariant of `Spec` (`SignupRace`), which is why the
theorem needs the restriction and where the proof uses it.

### Gg18Keygen

For any finite set of callers, any counts and any number of restarts
(`CallersAssumption`, `CountsAssumption`, `RestartsAssumption` of RoundExchange), with
callers that disagree on the count, race for a number, stop, or meet an empty map. Two
callers that meet between the locks of the signup may have one number. The theorems marked
with a star have as condition that no two of one computation do (`DistinctNumbers`); the
others, and the invariants behind them, hold of the race too:

| theorem | argument |
|---|---|
| `NothingRewritten` * | `StoreInv`: every key in the map is that of a caller that has written it (`Wrote`), with what that caller writes there (`Written`); if numbers are distinct it is the caller that would write it again, which is past that point |
| `CommitmentsFirst` | `PollInv`: what a poll has passed was sent by a party with that number (`Heard`), which stays so whatever it does next; a round ends when the poll has passed all |
| `TypeCorrect` | the map and the answers have the values that `Written` allows, and the vectors those of their rounds |
| `ReadsVerified` * | `AnswersInv`: the j-th answer is what a party with the j-th of the other numbers wrote (`Answer`, from `StoreInv`); `VectorsInv`: the vectors of the rounds that are over have at n the value of a party n. If there is one such party (`OneParty`), the verifications that end a round compare values of one party (`EndsWell`) |
| `KeyAgreement` | see below |
| `NoDeadlock` * | `SentInv`: as long as the map keeps the computation of a caller, it has what this caller wrote. Of the parties that wait, one is in the earliest round (`FirstRound`); the party it waits for is not behind it, so the value is there (`PeerHasWritten`). The parties must count the same: one that counts more waits for a party that may never come |

`KeyAgreed` holds however the signups race, and the argument is one of cryptography.
Number 1 goes only to the caller that made the uuid, so there is one (`FirstInv`). What a
caller encrypts for a number only the party can read whose commitment it read there
(`SealedInv`); so a caller that decrypts what party 1 wrote for its number is the one
that party 1 counts (`FirstCounts`), and of the callers with one number one gets past
round 3 (`OnePasses`). A call that is done has proofs, and so shares and commitments, of
parties that have come as far (`VerifiedInv`, `CountedAt`), which are then the same
for all. That the parties count as many is so only if numbers are distinct
(`SameCount`). If they are not, a caller may return the key of two parties while party 1,
which has asked for three, never returns one: this takes four callers, one more than
the run has. Two that return have counted as many in any case (`CountsAsMany`).

`Moves` reduces the eight steps of a call to writing, reading and ending a round, and
`Frame` a step of the system to one of these of one caller. What `format_vec` and
`remove` do to positions is stated once (`FormatVecIs`, `WithoutIs`, `Places`), and
each round that ends cites it.

`SignupInv` is what the race leaves: the uuid of the entry, and of what is about to be
written there, was generated since the map was last lost, and a uuid is generated once. So
a computation of before a restart and one of after it share no uuid. Numbers under one uuid
are distinct only where signups do not meet, which is `PartiesDistinct` of PartySignup.

### Gg18Sign

For any finite set of callers, any threshold, counts and restarts, and any key shares
of the callers (`ThresholdAssumption`, `PartyIdAssumption`, and those of RoundExchange),
with the same star:

| theorem | argument |
|---|---|
| `TypeCorrect` | as for key generation |
| `ReadsVerified` * | the same invariants for ten rounds (`Filled` says what the vector of a round is), without the caller itself in rounds 2 and 9 (`OthersAligned`); a signer above threshold + 1 panics when it looks for its own place (`MemberInv`), and reads nothing that it verifies |
| `RevealedLast` | `KeptInv`: as long as the map has not lost the computation of a caller, it has what this caller wrote and what it read; a commitment that a caller opens is then in the map for all to see |
| `SignaturesJoint` | a MessageB is made for the signers that its maker counts (`SealedInv`), and a caller that decrypts it checks that it is of the party it counts there and for the same signers; what it reads later it compares with this party (`VerifiedInv`). This does not need the numbers to be distinct |
| `NoDeadlock` * | as for key generation, from `KeptInv` for what is broadcast and `SentInv` for round 2; `Threshold + 1` parties suffice, whatever the others do |

### Gg20Gateway

For any nodes, any finite sets of requests, any number of connections, threads,
timeouts and faults (`RequestsAssumption`, `FinitenessAssumption`,
`SizesAssumption`):

| theorem | argument |
|---|---|
| `ReportsAreKept` | `ChainInv`: a request reported ok has only legs that are ok, such a leg has a task that is done, and a task of a key generation that is done has stored its share; tables only grow (`StoredStays`), and `FreshInv` and `CalledInv` say that nothing of this exists before the request and the call |
| `ConnectionsComeBack` | `HeldInv`: the connections out of a pool are exactly those of the tasks that use one, by the three ways in which a handler can move (`HandlerKinds`); a checkout fails only when all are out, and then the waiting handler is one more at work |
| `TypeCorrect` | `SizeInv`: the entries of a request are those its kind can have, and no step takes a connection that is not there or counts past a limit |
| `PlacesRight` (of `StaggeredSpec`) | `PlaceInv`: the entries of a signature ascend; a leg is called when those before it are in the room or gone; a room has no leg twice. When a room is complete (`Assembled`), two counts, of the places up to p and of the parties that may be there, leave only leg p at place p (`AssembledInOrder`); and what it signs with is the share that `find_by_pub_key` found for it (`ShareInv`) |

Only `PlacesRight` assumes that the delays are long enough.

### Gg20Computation

For any number of parties, any rounds and any number of faults
(`PartiesAssumption`, `RoundsAssumption`, `FaultsAssumption`). The first two are of
`Spec`, in which the parties join in any order; the others of `StaggeredSpec`:

| theorem | argument |
|---|---|
| `AllOrNothing` | A key generation: `FirstInv`, a message carries the index of its author, so one of every other index is one by every other party. A signature: the online stage only counts, but `OnlineInv` (everybody has one message there at most, and has no more to send once it has one; `SendInv`) makes the N - 1 it has heard those of as many authors, none of them itself, and a pigeonhole gives the missing one |
| `TypeCorrect` | `RoomInv`: a room has issued at most as many indices as there are calls that got one from it (`Issuers`), also after it was lost; a call that still asks is one fewer |
| `NoneFails` | `LinkInv`: every call has its streams until it returns, which is to say that none fails. It goes on with the rest of `Calm`: a message that passes the filter is one the protocol expects (`PassesFits`), so `ReadUnexpected` and `Fail` are not enabled (`NoneRejects`), and the senders of a complete round are its authors |
| `FilterRight` | `IndexInv`: the calls that have an index are those below the room's `next_idx`, so a call that joins when all before it have theirs is issued its own |
| `NothingLost` | `There`: what is posted (`Posted`: the messages of the rounds before, and of this round those up to `sent`) is in the log of the first room; `OnlineLogInv` and `OnlineIndexInv` say it of the online room, whose indices are distinct but in any order |
| `RoomsOnlyGrow` | `GrowStep`: the only step of a system without faults that replaces a room finds it unwatched, and by `FoundCalm` its log is empty then. So the rooms are the append-only logs that RoomFeed promises |
| `NoDeadlock` | if all calls that have not returned wait for messages, one is in the earliest round (`LeastNumber`); every other party has posted its message of that round, and the caller has not read past it without hearing it (`CursorInv`), so its round is complete (`FurthestBehind`): by the index of each author in the first room, and in the online room by a count |

`Calm` is what holds while nothing has failed (`CalmStep`). Its core is `FoundCalm`: a
request that finds its room unwatched, and so has it replaced, is the first to join it. This
needs that a call leaves a room only when all have joined it (`PassInv`), which it
knows from the messages that completed its round (`EverybodyIssued`); and that
`Sound` and `Once` make these messages what their authors posted, each once. `NextPlace`
and `PostedStays` say where a message of a p2p round goes, and that nothing more is
posted by going on to the next.

`StageInv` separates the rooms: only a signature past its last offline round is in
the online room. A room that is lost makes its messages fewer, which the invariants of
`AllOrNothing` allow: so a restart of the manager stops a computation, and makes none
return alone.

### Cancel and ConnPool

For any guards, users and handles (`HandlesAssumption` of Cancel, a hypothesis of
the theorem), and any finite sets of callers and borrowers and any number of
connections (`NamesAssumption`, `PoolAssumption` of ConnPool):

| theorem | argument |
|---|---|
| `GuardsCancel` | `RefsInv`: a list is alive exactly while its guard is held or a user is inside a call on its handle; `SendersInv`: the sender of an open future is in the list or its user is inside, and one that was dropped was dropped of a dead list. So an addition that overtakes the drop of the guard ends as the last reference, and drops its own sender |
| `CallsUseGuards` | every step of the pool is a step of Cancel or leaves its variables alone: Cancel's invariant holds in the pool (`SameNext`, `NextIsCancelNext`) |
| `FuturesCanceled`, `TypeCorrect` | from it, and the type of the pool's own state, with `PermitsInv` for the bound on the permits |
| `CallsNeverPanic` | `CallInv`: a call that awaits its task holds its guard, so the list is alive (`HeldIsAlive`) and no task ends as cancelled |
| `PermitsSuffice` | `PermitsInv`: at most as many permits as connections, granted one by one; then a count: if all connections were with holders of permits, the one that waits would be one too many |
| `LateTasksEnd` | the caller has dropped its guard, and only the task itself can keep the list alive (`OnlyItsTask`), which it does not between its calls: the last check cannot upgrade |

### What stays with TLC

Every invariant and every `[][A]_vars` that a passing run checks is a theorem.
Liveness (`RequestsAnswered`, `EventuallyDelivered`, `CompleteRunsFinish`,
`ComputationsFinish`, `NodesFinish`, `HoldersGoOn`, `CancelCascades`, `CallersAnswered`) is out of the
prover's reach, as are the ENABLED conditions that weak fairness is made of. What is
proved of them is their safety core: the three `NoDeadlock` theorems say that
the parties of `ComputationsFinish` and `CompleteRunsFinish`, and those of a key
generation, never all wait for one another; that each does go on, and so returns,
is left to TLC. The
findings of section 4 are counterexamples, which TLC finds.

## 6. Not modelled

Cryptography and its encodings (external crates; a value is named by its maker
and purpose), the decoding of messages and signatures, routing, headers, error
texts and logs, and the components that `PROJECT.json` marks as such: the
configuration is read once, before anything runs.

Of `util/futures.rs` and `connection_pool.rs`, which nothing calls in part, the
models leave out what has no state to explore:

- `DummyCancelGuard` is documented to make `cancelable` a no-op (futures.rs:189-190),
  but sends a value, for which the first poll reaches `unreachable!()` (35, 49)
  although a comment there says it may be ignored (47).
- A cancelled stream that is polled again goes on with what is inside, since its
  receiver is fused (17, 34).
- `query_semaphore`, `check`, and the change of a pool from Created to Ready.

Two more differences from the comments are in the models. `SharedCancelGuard::new`
"creates a guard that initially guards nothing" (futures.rs:154), but its `Option` is
None by default and nothing sets it: it is cancelled from the start (`CancelInit`).
And a handle "has been canceled if and only if the guard is gone" (futures.rs:127) not
while another thread is inside a call on a handle of the guard: `CanUpgrade` says
what the code asks.

## 7. Plan

1. *done* The modules of section 2 and their runs; proofs of every safety property of
   the runs, and that the computations do not deadlock.
2. gen_keys of the GG18 API, as a composition with Gg18Keygen.
3. That what is proved of RoomDb carries over to the parties of Gg20Computation. That
   their rooms only grow is proved (`RoomsOnlyGrow`). A refinement of `RoomFeed` step
   by step it is not as it stands: a party reads all that completes its round in one
   step here, where a reader of RoomFeed reads one message.
