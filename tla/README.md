# Verification of the services of album-api-go

TLA+ models of the services in this repository, model-checked with TLC, and
proofs of the main invariants checked with TLAPS. Paths are relative to the
repository's root.

- [The system](#the-system) — components, state, operations, what is hard
- [The modules](#the-modules) — which module models what, and how
- [The runs](#the-runs) — what each shows, bounds, fairness
- [Where code and documents disagree](#where-code-and-documents-disagree)
- [The proofs](#the-proofs)
- [Not modelled](#not-modelled) and the [plan](#plan)

Run a configuration with `tlc -config X.cfg M` (the module `M` of each is in the
tables below), check the proofs of a module with `tlapm M.tla`: those are the
eight modules named `...Proofs`.

## The system

The repository holds course projects, each a service of its own. They share no
code; what they have in common is Go handlers that run concurrently in front of
shared memory or of AWS services.

| component | state | operations | what is hard |
|---|---|---|---|
| album store API, `FinalMastery/src/{handlers,storage}.go` | DynamoDB tables `albums` (with `next_seq`) and `photos`; nothing in the task | PUT and GET album, upload, GET, LIST and DELETE photo | check-then-write on tables without conditions; eventually consistent reads; SDK retries; several tasks behind a load balancer |
| photo processing, `FinalMastery/src/{photo_processor,s3_client}.go` | the S3 bucket, a goroutine per upload | upload the file, set the photo's status | goroutine that outlives its request and races deletes; panics; a task that dies |
| leader-follower store, `homework10/leader-follower` | a map of value and version at each node, in memory | `/set` with W, `/get` with R, `/internal/replicate`, `/internal/read` | overtaking and lost requests, acknowledgement counting, restarts |
| leaderless store, `homework10/leaderless` | the same, any node coordinates | `/set` (W = N), `/get` (R = 1), `/internal/propagate` | concurrent coordinators, restarts |
| order service, `mid-term/{main,resilience}.go` | circuit breaker, bulkhead, health gate | `POST /orders`: gate, bulkhead, breaker, call of the downstream, results | separate critical sections, late results, sleeping goroutines, time |
| downstream service, `mid-term/downstream` | its mode | `/api/validate`, `/control/mode` | — |
| shopping carts, `homework8/src` | MySQL tables, or one DynamoDB item per cart and a counter in the task | create a cart, add an item, get a cart | read-modify-write of the item, numbering across restarts, timeouts |
| orders, `homework7/order-receiver`, `order-processor` | five payment slots, the SNS topic, the SQS queue, goroutines of the processor | pay while the customer waits; publish, poll, pay, delete | waiting without a bound; at-least-once delivery, visibility timeout, crashes, bounded workers |
| order lambda, `homework7/order-lambda` | none | pay one message | dying half way, being invoked again |
| load tester, `homework10/loadtest` | last version seen per key, shared by the workers | writes and reads, counts stale reads | workers that cross, writes that end during a read |
| MapReduce, `Homework4/part3` | parts, counts and result in S3, under fixed names | split, map, reduce | concurrent jobs, calls that fail half way and are repeated, texts that three does not divide |
| albums in memory, `Homework1`, `Homework2`, `Homework3/part3`, `mid-term/main.go` | a Go slice, in two of them with a mutex for adding | list, get, add | reads without the lock, adds without one |
| products, `Homework5` | a Go map | get, add | unsynchronised access |
| product search, `Homework6` | a table built at start | search | — |
| concurrency exercises, `Homework3/part2` | counters, maps, channels | experiments | what each lock does |

What makes each correct:

- *album store*: a photo's `seq` is unique in its album and grows; a photo is
  decided once; a deleted photo stays deleted, with its file; a `url` leads to a
  file; who polls a photo sees it leave processing.
- *key-value stores*: a version stands for one value; nodes never go back; an
  acknowledged write is on as many nodes as promised and is seen by later reads;
  nodes converge; requests are answered.
- *order service*: slots are given back; only trial calls decide the trial; the gate reopens; the service
  recovers.
- *carts*: a customer keeps the cart that was created, with every item added.
- *orders*: an accepted order is paid, once, and its message goes away; a waiting
  customer gets a payment slot.
- *load tester*: what it reports as stale was stale, and what it misses has a named reason.
- *MapReduce*: the result is the word count of the text.
- *albums in memory*: a list has what was added before it was asked for.

Every hazard we found, at its line, is listed in `PROJECT.json` with the
properties that cover it.

## The modules

Specifications describe one component each. Requests are constants: a request
*is* its parameters (`AlbumOf`, `PhotoOf`, `At`, ...), so a handler is a program
counter indexed by its request, and the interleaving of handlers is that of the
actions. A call to AWS or to another node is one step; what may go wrong with it
is in the constant `Faults` (or `FaultsOf`, `Lossy`, `Restarts`), so that each run
says what it assumes. History variables say whether an excuse of the code applies
(a node that lost its memory, a processor that was late), so that a property can
say what holds without one in a run where everything may happen. Operators whose comment begins with "Mutant" are altered versions of
the action below them. They stand for plausible mistakes, no specification uses
them, and substituting them shows that a property can fail.

| module | models | abstract specification |
|---|---|---|
| `AlbumStore` | `FinalMastery/src` | `PhotoLifecycle`, a photo's life in the table and in a replica |
| `LeaderFollower` | `homework10/leader-follower/main.go` | `VersionedLog`, one log through which nodes move forward |
| `LoadTest`, which extends `LeaderFollower` | `homework10/loadtest/main.go` together with the store | `LeaderFollower` itself: `TestSpec => Spec` |
| `Leaderless` | `homework10/leaderless/main.go` | |
| `Resilience` | `mid-term`, service and downstream together | |
| `ShoppingCarts` | `homework8/src`, either store | `CartStore`, the interface's contract |
| `OrderPipeline` | `homework7` receiver, SNS, SQS, processor and lambda together | |
| `MapReduce` | `Homework4/part3`, the three services and their clients | |
| `SharedSlice` | the albums of `Homework1`, `Homework2`, `Homework3/part3`, `mid-term` | |
| `MC...` | the instances for TLC | |
| `...Proofs` | theorems about the module of that name (`LeaderFollowerProofs`: about `LoadTest` too) | |

**AlbumStore.** `albums` and `photos` are the tables, `oldAlbums` and
`oldPhotos` a replica that lags: `GetItem` is never called with `ConsistentRead`,
so a read returns either (with `"stale"`), and `SyncAlbums`, `SyncPhotos` bring
the replica up to date item by item. `files` are the keys in the bucket.
`PutRead`, `PutWrite` are the two calls of `PutAlbum`; `UploadCheck`,
`UploadDraw` (IncrementSeq), `UploadCreate`, `UploadReply` those of
`UploadPhoto`; `WorkerOpen`, `WorkerUpload`, `WorkerComplete`, `WorkerFail`,
`WorkerPanic` are `ProcessPhoto`; `DeleteRead`, `DropItem`, `DropFile` (its two
goroutines) and `DeleteReply` are `DeletePhoto`. `UpdatePhotoStatus` is an
`UpdateItem` without a condition, which on a deleted photo creates an item
without album: `NoPhoto` has album `None` so that the model does the same. A url
is abstracted to whether there is one, as the file's key is made from album and
photo. `Crash(t)` kills what runs in a task. A call may fail with no effect
(`"error"`), take effect and fail (`"lost"`), or, for calls in `Retried`, take
effect and be made again by the SDK; anything may happen in between.

A GET changes nothing and so is no action. What it answers is `Seen` of the item it
read: in `photos`, or in `oldPhotos`, since `GetPhotoByID` (storage.go:165) does not
ask for a consistent read. A single GET may therefore take a status back, or show a
photo again after the 204 of its delete. `PhotoLifecycle` has both sides: `phase` is
the table, which moves forward only; `shown` is the replica, which shows what the
table had when it last caught up, and nothing else. `PollsEnd` is about the client
that polls.

**LeaderFollower, Leaderless.** Keys are independent, so there is one. A write is
also the value it stores. `Accept` is the critical section of `handleSet`;
`Send` dispatches to one follower in the order of `FOLLOWERS`, `Apply` is
`handleReplicate` after its delay, `Break` an error seen by the sender only,
`Reply` the answer after all results. `ReadLocal` and `Collect` are `handleGet`:
a fetch and its result are one step, as only which results were taken and what
they held matters. `RestartLeader`, `RestartFollower`, `Restart` empty a node's
memory. `before` (what was acknowledged before a read) and `kept` (the nodes that
never restarted) are history variables: what a property says of a memory it says of the nodes in `kept`, and of
version numbers while the leader, which gives them, is in it.

**Resilience.** Each client's order walks through `createOrderWithResilience`:
`Enter` (gate), `Acquire` (bulkhead), `Allow` (breaker), `Return` (the call),
`RecordSuccess` or `RecordFailure`, then `Check` (the second critical section
that reads `Status`), `Trip` (close the gate, start the sleeping goroutine) and
`Release` (the deferred one). `Wake` is a goroutine's end of sleep. Time is
discrete: `age` counts ticks since `lastFailTime` up to `Cooldown + 1`, `left`
those of a call until its client times out, `sleeps[k]` the goroutines with `k`
ticks left. Results are recorded in the tick in which the call ends. `probe` is
a history variable.

**ShoppingCarts.** `db` is the store the task was started with. With
`db = "mysql"`: `InsertCart` and `UpsertItem`, one
statement and one transaction. With `"dynamodb"`: `DrawID` and `PutCart`,
`GetForAdd` and `PutWithItem`, the counter seeded when the task restarts (`NewDynamoStore`). `CheckCart` is
the lookup that `addItem` makes before either. ECS runs one task
(`desired_count = 1`), so there is one counter.

**LoadTest.** The store's actions, with a bound on the requests that are pending
(`Concurrency`, one per worker), and what a worker does with an answer:
`RecordWrite` sets the tracker's version, `CheckStale` compares a read with it,
each one critical section; `ReadNotFound` is a 404, which the tester counts but never
compares (loadtest/main.go:136); `Fail` is no answer, or an error. `known` and
`crossed` are history: the writes recorded before a read began, and those that
were recorded while an older one was pending, which the tracker may then go back
to.

**OrderPipeline.** Each order goes to one endpoint (`route`). Who subscribes to the
topic is one of `Topologies`: the queue, the lambda, or both, as in the repository's
terraform, and then each order reaches both. `Wait`, `TakeSlot`, `Answer` are
`handleSyncOrder`, whose channel of five tokens is `Paying`; `Publish` is
`handleAsyncOrder`, `Deliver` SNS. `Invoke`, `Complete` are the lambda, `CrashLambda`
its death, after which AWS runs it again `LambdaRetries` times (two) and then gives
the order up (`GivenUp`). What the queue keeps for four days is kept for ever in the
model, and copies that SNS or SQS make by themselves are left out. `Receive` and `Dispatch` are the loop of `pollSQS` (a
batch, then a slot of the semaphore for each of its messages), `Pay` and `Delete`
the end of `processMessage`. `timer` and `left` count down payments, `hidden` the
visibility timeout. `fresh` says whether a goroutine's receipt is the last one of
its message: an older receipt may or may not delete it. Time may pass while the
processor has something to do that takes none (`Settled` says that it has not, an
idealisation of the clock and no line of the code); the history variable `late`
remembers that it did, `paidOnly` the orders whose message was not deleted after
the payment because of an error or a crash.

**MapReduce.** A job is a client and its text. `PutSplit` is one put of
`split_and_upload`, `GetSplit` and `PutResult` a mapper's call, `AddResult` and
`PutFinal` the reducer's. Calls of S3 fail before or after they take effect; the
client repeats a failed call or gives up (`GiveUp`). `From`, `To` and `ChunkSize`
are the splitter's arithmetic, `WordCount` the reference the result is compared
with. `overlapped` is history.

**SharedSlice.** A slice is a header of three words, address, length and capacity,
and an array (`arrays` keeps those that were made). Go says nothing of a racing
access beyond words that are loaded and stored whole, so `Load` and `StoreWord` move
one word at a time, in any order: what a request has still to load or store is in
`todo`. `Bind` takes the mutex (where `locked`) and reads the body, `Grow` is
`append`, which finds room by the header's capacity or copies to an array of
`NewCap`, `StoreElement` the store of the album, `Reply` the answer with the deferred
unlock, `Begin` and `Encode` the two ends of a GET, which never loads the capacity.

Without the mutex a header may be torn: one with an old address and a new capacity
promises room that its array does not have, and every later append, even one that
overlaps nothing, stores behind the array. What it hits there is the runtime's
choice: nothing that anybody looks at, or some place of some array, which then holds
`Garbage`. The history variable `astray` says that it happened, and ends what
`ListsAnswered` promises; with the mutex `TypeOK` says that it never does. What lies
behind an array is `Garbage` to a reader too. `overlapped`, `due`, `raced` and
`before` are history.

## The runs

Deadlock is checked where a system never stops by itself (`Resilience`, whose
clients send one order after the other and whose clock ticks on). In the other
modules requests are finite in number, so an end is not an error.

Properties that hold:

| run, module | properties | instance, and why it is enough |
|---|---|---|
| `AlbumPhotos`, `MCAlbumStore` | `TypeOK`, `DeletedPhotoGone`, `DeletedUrlFileGone`, `UrlServesFile`, `NoBareCounter`, `ImplementsLifecycle`, `PollsEnd` | one photo, two concurrent deletes of it, a spooled file, two tasks; every fault, a lagging replica among them; the calls of uploads and deletes retried. Photos do not touch each other but by the counter, whose numbers the theorems are about. A repeated status update is left out: followed by a panic it could turn completed into failed, as could a late retry. |
| `KV`, `MCLeaderFollower` | `TypeOK`, `SameVersionSameValue`, `AckedOnQuorum`, `ReadAfterAck`, `Answered`, `ImplementsLog` | two followers, W = N = 3, R = 2, two writes that overtake each other, reads at the leader and at a follower; connections break, leader and a follower restart |
| `LoadTest`, `MCLoadTest` | `TesterTypeOK`, `FlaggedOverlaps`, `MissesExplained`, `Converges` | W = 1 and R = N = 3 (replication after the answer, the leader's reads collect), two workers, two writes, reads at the leader and at a follower; the leader restarts, and a read that was collecting fails. Two writes are enough to cross, and a read comes before, between or after their records; a follower without the write answers 404. |
| `Leaderless`, `MCLeaderless` | `TypeOK`, `AckedEverywhere`, `CoordinatorConsistent` | three nodes, a write by each of two coordinators; connections break, every node may restart |
| `OrderGuards`, `Resilience` | `TypeOK`, `SlotsHeld`, `GateReopens`, `OnlyProbesDecide`, `Recovers` | three clients for two slots, thresholds of two (code: 10, 5, 3), cooldown of two ticks, timeout of one (10 s, 2 s): several calls are out when the circuit opens and results come back in every state |
| `Carts`, `MCShoppingCarts` | `TypeOK`, `AddsKept`, `ImplementsCartStore` | two carts; three adds to one (one product twice), one to the other. With MySQL all adds are concurrent, calls fail and the task restarts; with DynamoDB calls fail and reads are stale, but clients add to a cart one item at a time (`Serial`) and the task does not restart. |
| `Pipeline`, `OrderPipeline` | `TypeOK`, `AcceptedNotLost`, `PaidOnce`, `AcceptedPaid`, `Drained` | two orders, by either endpoint; one payment slot, so that one customer waits; a batch of two for one worker, so that a message waits for its turn and the poll loop for the semaphore; payments of one tick and a visibility of four, the least that `NeverPaidTwice` asks for (a round that is running, two of the batch); or the lambda. Publishing and receiving fail at will, two crashes or failed deletes (`MaxFailures`); a lambda that died twice is given up. Both subscribers at once are not run: they pay every order twice by construction, which `PaidOnce` names. |
| `MapReduce`, `MCMapReduce` | `TypeOK`, `FinalExact`, `FinalOfWholeParts` | two jobs, texts of four and of five lines: parts of two, two and none, and of two, two and one; any call fails with or without effect, both jobs give up at will |
| `SharedSlice`, `MCSharedSlice` | `TypeOK`, `ListsAnswered`, `ListsExactly` | one album at the start (`Seeds`; the code has three), three adds, one GET, with and without the mutex. From one album the capacity is one, then two, then four, so that the first two adds make new arrays: when they overlap they may leave the address of the smaller with the capacity of the larger, and the third, which overlaps neither, stores behind its array. With the mutex the third makes an array or finds room. |

**Fairness.** `Leaderless`, `ShoppingCarts`, `MapReduce` and `SharedSlice` assume
none: their properties are of safety. Elsewhere weak fairness of handlers' and goroutines' steps: the Go runtime
schedules every goroutine, and the calls they make return (AWS and HTTP clients
time out, a broken connection is an error). No request need arrive, no task need
crash, no replica need be read. In `AlbumStore` replicas catch up
(`SyncAlbums`, `SyncPhotos`), which is DynamoDB's promise of eventual
consistency, and `PollsEnd` relies on it. In `Resilience` sleeps end and time passes, strongly fair because no
handler that comes and goes holds it up; `Recovers` moreover
assumes that clients keep sending whenever the gate is open (`BusySpec`, strong
fairness of `Enter`): without orders no trial call is made and the circuit stays
open, in the code too. In `OrderPipeline` a message that is visible again and
again is received in the end (strong fairness), which is what an SQS queue under
a poll loop gives; the answer of that receive arrives. Its payment slots are weakly fair too: a Go
channel serves blocked senders in turn, and AWS invokes the lambda for what SNS has.

**What the runs exclude.** `SeqUnique` and `SeqIncreases` hold with one PUT of the
album only, which is proved (`SeqIsUnique`, `SeqAlwaysIncreases`); `AlbumSeqReused`
shows what two do. With DynamoDB, `Carts` excludes
restarts for the same reason (`CartsReplaced`), and concurrent adds (below).
CreatePhoto is not repeated in `AlbumPhotos`: the client learns the photo's id with
the 202 that follows it, and so cannot delete the photo while CreatePhoto is
pending.

## Where code and documents disagree

Each of these runs checks one statement of a document or comment, and TLC finds it
violated.

| run | statement | what happens |
|---|---|---|
| `AlbumSeqReused` | `SeqUnique`: FinalMastery/README.md:209, :241, album_store.md:162 | a PUT of an existing album that overlaps an upload writes an old `next_seq` back |
| `CartsReplaced` | `CartKept`: dynamo_store.go:67 | a seed modulo 1000000 meets ids in use |
| `PipelineDefault` | `PaidOnce`: order-processor/main.go:197 | payments of a batch that fill the visibility timeout on one worker: the last message is shown again and paid twice, though nothing fails and nobody is late |

`PipelineDefault` has two payments of one tick and a visibility of two ticks for one
worker. The deployed sizes have the same proportion: one worker (main.go:85,
terraform/variables.tf:33), ten messages in a batch (main.go:159), payments of three
seconds (main.go:222), thirty seconds of visibility
(terraform/modules/messaging/main.tf:46).

Noted while modelling, and the reason for a condition in a property or a run:

- album store: a delete that comes before the photo is completed answers 204 and the
  goroutine stores the file for good (handlers.go:227, against album_store.md:24); a
  GET after a 204 may still find the photo, and one that polls may see a status
  taken back, as reads are eventually consistent (storage.go:165; album_store.md:219
  promises a 404); a PUT that reads
  a lagging replica, or whose read fails, is answered 201 for an album that exists
  (storage.go:59); nobody takes over the photos of a task that died
  (handlers.go:143); a file above the form's memory limit is opened after the
  server has removed it and its photo fails (photo_processor.go:37).
- leader-follower: only the leader knows other nodes, so a read with R > 1 at a
  follower returns the follower's entry (main.go:209, :224), which is why
  `ReadAfterAck` is about the leader, or W = N; after a restart the leader numbers
  from 1 and followers acknowledge what they ignore (main.go:109).
- leaderless: two coordinators give two values one version, both answer 201, and
  the nodes go on disagreeing (main.go:142); `CoordinatorConsistent` is what is
  left of "reading from any node is consistent" (tests/leaderless_test.go:119).
- order service: the half-open circuit admits every request, the bulkhead alone
  limits them (resilience.go:82, against :19); the goroutine of an older failure
  reopens the gate before the cooldown of a later one (mid-term/main.go:198).
- carts: of two concurrent adds to a DynamoDB cart one is lost after its 204
  (dynamo_store.go:224, against :28).
- orders: the terraform subscribes the lambda next to the queue (terraform/main.tf:154,
  "Both the ECS processor and Lambda will receive orders simultaneously", line 147,
  against "just the SQS queue", order-receiver/main.go:212), and then every order is
  paid twice. The synchronous handler pays for a customer who has gone.
- load tester: the tracker holds the version recorded last, which is not "the latest
  known version" (loadtest/main.go:31) when the writes of two workers cross; and a
  follower's 404 after a recorded write is a stale read that is not counted
  (loadtest/main.go:136).
- albums in memory: without the mutex an add that overlaps another may be lost after
  its 201, and the header it leaves may make every later add store behind its array
  (`Homework1` main.go:54, `Homework2` main.go:54); a GET that races an append may show an album that is not yet stored, or
  read behind an array (mid-term/main.go:83); the mutex is held while the body is
  read, so that a slow client holds up every other add (mid-term/main.go:94).
- product search: 2000 products are examined (Homework6/src/main.go:99), where its
  documents say 100.

## The proofs

TLC checks the instances above; the theorems hold for every value of the
constants that satisfies the modules' assumptions.

**AlbumStoreProofs.** For any albums, tasks, requests, faults and retried calls:

- `TypeCorrect`: the type invariant.
- `Invariant`: the inductive invariant `IInv`. The properties are not inductive
  by themselves: that a deleted photo stays deleted depends on where its upload
  and its goroutine are, and that a url leads to a file on what every delete has
  read. `ItemInv` says that an item is created once, after a number was drawn
  (`UnbornEmpty`, `DrawnSeq`), and that only a delete that found it drops it;
  `FileInv` that a url exists only when the file was stored and the goroutine no
  longer writes it; `CounterInv` that an upload that passed the check has an
  album, in the replica too. Each part is kept by every action with the help of
  the parts before it.
- `VisibleSeqHolds`, `DeletedStaysGone` (if CreatePhoto is not retried),
  `DeletedFileStaysGone`, `UrlAlwaysServes`, `NeverBareCounter` follow.
- `SeqIsUnique`, `SeqAlwaysIncreases`: with one PUT per album, not repeated
  (`OnePut`). `SeqInv` adds that no number is above its counter and that the
  counter is zero until the PUT has written.
- `LifecycleHolds`: table and replica implement `PhotoLifecycle`, if CreatePhoto is not
  retried and, where goroutines panic, nor is the status update (`SentOnce`). On
  top of `IInv`, `Undecided` says that the goroutine has its photo's decision to
  itself, `GoneByDelete` that what a lagging read still shows was deleted by
  somebody. `SyncPhotos` is the replica's `CatchUp`; every other action moves the phase of one
  photo forward, or none.

**LeaderFollowerProofs.** For any number of followers, writes and reads, any W
and R, with or without losses and restarts: `TypeCorrect`, `VersionMeansValue`, `AckedOnQuorumHolds`, `ReadsSeeAcked`, `VersionsOnlyGrow`,
from the inductive `IInv`: until the leader restarts versions are distinct and none
is above the leader's (`VersionsAssigned`), every entry is a write under its number
(`EntriesWritten`), an acknowledgement means that a follower that keeps its memory
holds the write or a later one (`CallsHonest`), a 201 counted W of them
(`AcksCounted`), and a read at a node that keeps its memory has seen what was
acknowledged before it (`ReadsFresh`).
`AckersFinite` and `AllAcked` turn the count into a set of
followers. `ImplementsOneLog` is the refinement of `VersionedLog`: with
`NumbersUsed` (every number up to the leader's is some write's) the log is a
sequence, to which `Accept` appends; `Apply` catches up or stutters.

`SettledFollowersAreCopies`: once every accepted write is acknowledged by all
followers (or answered 201 with W = N), those that kept their memory hold what the
leader holds, although a follower acknowledges requests it does not apply; it is the
state that `Converges` reaches.

The module's last part is about the load tester. `DrivesTheStore`, `TestSpec => Spec`:
the tester only uses the store, so that every theorem above holds under test, the
refinement among them (`ImplementsOneLogUnderTest`). `TesterInvariant` adds `Recorded`
(what was recorded was answered 201, the tracker holds one of those versions) and
`InOrder` (until the leader restarts, the tracker is not behind a write recorded
without crossing, and writes still to be recorded are no older); from it
`NothingMissedIsReported` and `MissesAreExplained`, for any number of workers.

**LeaderlessProofs.** For any number of nodes and writes, losses and restarts:
`TypeCorrect`, `CoordinatorKeepsItsWrites`, `AckedIsEverywhere`. Inductive together
with `CallsHonest` (a peer that acknowledged holds that version or a newer one) and
`AllAcked` (a 201 means that all did). With `EntriesWritten` and `OwnNumbers` (a
coordinator numbers its own writes apart) this gives the limits of the disagreement
noted above: `SettledNodesAgree` (when all accepted writes were answered 201,
the nodes that kept their memory have one version), `DisagreementHasTwoCoordinators` (two values under it need
two coordinators, or a restart) and `NothingTakenBack` (an entry gives way only to a
higher version).

**ResilienceProofs.** For any clients, thresholds, slots, cooldown and a timeout that
is no longer than it (`LimitsAssumption`; the code: 2 s and 10 s): `TypeCorrect`,
`SlotsAlwaysHeld`, `GateAlwaysReopens`, `ProbesDecide`. `SlotsCounted` makes the
holders a finite set, `OldCallsEnd` bounds what is left of a call by the age of the
last failure, which is why none survives the cooldown.

**OrderPipelineProofs.** For any orders, subscribers, workers, times and faults:
`TypeCorrect` and `NeverLost` (but for orders AWS gave up) from an invariant that also says that who has paid has
paid (`PaidMeansPaid`). `NeverPaidTwice` needs finitely many orders and
`FitsVisibility`, and one subscriber: the rounds of payments that a batch needs, and one that is
running when it arrives, end before the timeout. Its invariant `OnceInv` places
every order in one of receiver, topic, queue (`Places`), and, while the processor is
not late, gives each goroutine's message more time than its payment (`Holding`), the
waiting batch enough for its rounds (`Budget`), and a paid order nowhere to come back
from (`PaidDone`). The premise is tight: with three orders, a batch of two and one
worker TLC finds a double payment at a visibility of three ticks and none at four. It
fails for `PipelineDefault`, which pays twice. It
holds for batches of ten with the 5, 20 and 100 workers of the experiments, not with one.

**ShoppingCartsProofs.** For any customers, products and adds, with MySQL under every
fault, with DynamoDB if clients add one item at a time and the task is not restarted
(`Careful`): `TypeCorrect` (which needs no condition), `CartsStay`, `ItemsStay` and
the refinement `ImplementsContract`. The invariant says that ids are drawn once
(`CartsNumbered`), that what is stored under an id is its owner's with items that
were added to it (`CartsOwned`), and that the cart a DynamoDB add writes back is
still the one it read (`AddsOrdered`).

**MapReduceProofs.** `PartsPartition`: the three parts are disjoint and cover the
lines, for texts of any length. `Invariant`, for any jobs, texts and faults: objects
are parts of some text or their counts (`Objects`), calls find what they read
(`Ready`), a reducer has added whole parts (`Sums`), a job that none overlapped runs
alone (`Alone`) and sees only its own objects (`Own`). `LoneJobExact` then needs that
the counts of the parts add up (`PartsAddUp`, by cardinalities of disjoint sets), and
`ResultsOfWholeParts` follows from `Sums`.

**SharedSliceProofs.** For any adds, reads and number of seeds, with the mutex and
without, every order of the words' loads and stores, torn capacities included:
`TypeCorrect`, `AnsweredAreListed`, `ExactLists`. That a GET lists an album is not
inductive: its header may be half old, half new, and a later append may write into
the array it reads. `InPlace` fixes the album's position: the shared header, every
header that is being stored, and what a GET that has to list it has loaded so far all
reach it, and appends store behind it; `AnsweredStay` says that every album that was
answered and not overlapped has such a position. That it gets one when it is answered
is `Undisturbed` (an append that none overlaps still has the header it loaded) with
`Stored` (and its element is in its array). These are `Intact`, which the invariant
has until an append stores outside its array (`~astray => Intact`): a capacity that
is too large does not matter before. That it is never too large under the mutex is
`Capped`, from which `TypeOK` has that no append goes astray there. `Steady`
does the same as `InPlace` for a whole list, under the mutex: what a GET that no
append raced has loaded lies before what appends store.

From the same invariant `SliceIsList`, an abstraction of the slice: `List` is what
the header shows, or while an append stores what the header to be shows without its
last place. With the mutex, an answer 201 appends its album to `List`, and no other
step changes it, not the copy to a larger array, nor a header stored in parts; so
answered albums keep their order and none is lost. `UnracedReadsList`: the list that
`ExactLists` speaks of is `List`.

Only model-checked: liveness, that is every property under fairness, since TLAPS 1.4.5
does not reason about `ENABLED` (`PollsEnd`, `Answered`, `Converges`,
`Recovers`, `AcceptedPaid`, `Drained`). Every other property of a run that passes is
a theorem. Theorems on properties no run checks (`SettledNodesAgree`, `NothingTakenBack`,
`SliceIsList` and the like) state them in the module of their proofs.

## Not modelled

- Validation of requests (400), wording of answers, logging, health checks,
  metrics: they change no state.
- `extractKeyFromURL` and the form of urls; paging of ListAlbums and ListPhotos.
- `createOrderDirect` (no state), `fetchFromNode` of the leaderless store (not
  called), the MySQL connection pool.
- Messages that do not parse, second copies made by SNS or SQS, the end of a
  message's retention.
- The words of an album in memory one by one (an album is one word of an array), the
  load tester's latencies, CSV file and summary, how a line is cut into words.
- `Homework5`: what unsynchronised accesses do to a Go map is not in its code (the
  runtime mostly stops the program); `Homework6`: requests share nothing that
  changes; `Homework3/part2`: programs that time a lock and end.
- A DynamoDB call that takes effect after its caller gave up on it.
- Terraform, deployment scripts, load generators, plots: configuration and I/O.
- The components listed as not modelled in `PROJECT.json`; see the plan.

## Plan

What is left, in this order; a new run takes the place of one whose question it
covers.

1. `ListPhotos` through the index, which lags by itself; paging of both lists.
2. Second copies made by SNS and SQS, and the end of a message's retention, in
   `OrderPipeline`.
3. DynamoDB calls that take effect after their caller gave up.
