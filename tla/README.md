# A verification of evering

evering is a user-space analogue of io_uring: a client submits operations to a
server over a pair of lock-free rings, keeps track of them in a driver, and
awaits them on a small single-threaded executor. Client and server are two
threads of one process (`evering-threaded`) or two processes over a shared
memory file (`evering-ipc`, `ipc-benchmark`).

This directory holds TLA+ modules of those parts, TLC configurations that check
them on small instances, and proofs that TLAPS checks. `PROJECT.json` lists the
components, the runs, the mutants each property is tried against, the source
lines of every definition, the findings, the hazards and the theorems.

## 1. Inventory

| Component | Source | State | Operations |
|---|---|---|---|
| ring queue | `evering/src/uring.rs` (`Queue`, `Offsets`, `Drain`) | `head`, `tail` (atomics), the slots, the locals of the two ends | `enqueue`, `enqueue_bulk`, `dequeue`, `dequeue_bulk` and `Drain::next`, `len` |
| uring ownership | `evering/src/uring.rs` (`UringA`, `UringB`, `RawUring`, `Header`) | `rc`, the two queues, the allocation | `send`, `recv`, `is_connected`, `into_raw`, `from_raw`, `dispose_raw`, `Drop` |
| driver and operations | `evering/src/driver.rs`, `op.rs` | a slab of entries `Submitted / Waiting / Completed / Cancelled`; the `Op` handles | `submit`, `try_submit`, `poll`, `complete`, `remove` (drop of an `Op`), drop of the driver |
| executor and tasks | `local-executor/src/*.rs` | the queue of task references; per task its future, its output, its join waker | `block_on`, `spawn`, `yield_now`, wake, and `poll`, `read`, `abort` of a task |
| runtime | `examples/evering-utils/src/runtime.rs` | executor + driver + one end of a uring + `pending_submissions` | `RunOn::poll`, `submit_ext`, `wait_for_ok`, `into_uring`, drop |
| threaded example | `examples/evering-threaded/src` | the runtime of one client, a server loop with a local queue | 32 to 64 pings, then exit |
| ipc example | `examples/evering-ipc/src` | the same in two processes, with buffers lent to the server | also: create, open and unlink the file |
| shared memory | `examples/evering-ipc/src/shm.rs`, `shm/boxed.rs` | the header (`rc`, `allocator_taken`, offsets), the blocks | `create`, `open`, `get_allocator`; `ShmBox` (allocate, `as_shm`, drop), `ShmToken` |
| benchmark of evering | `examples/ipc-benchmark/src/evering.rs` | as ipc; the server keeps one answer it could not send | retry of a failed send |
| other benchmarks, harness, scripts | `examples/ipc-benchmark/src/*`, `scripts/` | none of evering's | not modelled |

How they interact. The client's root future (`RunOn`) drains the answer ring,
wakes one waiting submission per answer and completes the operation in the
driver, which wakes the task that awaits it; then it polls the main future, and
the executor polls the tasks that are queued. A task that submits takes an
entry of the driver, then a place in the request ring; it waits in
`pending_submissions` for either. The server thread shares nothing with the
client but the two rings, the count in their header, and (ipc) the buffers
named in a request until its answer.

What is hard in it, and what would make each part correct:

- *Rings.* Two threads, release/acquire on two wrapped indices, stale loads, a
  batch that loads an index once. Correct: no slot is written and read without
  an order between, the full and empty tests are exact, FIFO, nothing lost.
- *Ownership.* Two halves dropped at once, or taken apart and put together.
  Correct: values received or dropped once, memory freed once and after all
  that the other half did.
- *Driver.* An OpId is an index without a generation; an `Op` may be dropped
  before, after or between its request and its answer. Correct: an entry lives
  exactly as long as it is needed, lent buffers until the answer, each operation
  gets its own answer once.
- *Executor.* Rounds of polls over a queue that the polls change; handles that
  move; aborts; `block_on` in a task. Correct: no wakeup lost, no task starved,
  no join on a task that is gone, no panic of the loop.
- *Runtime.* Back-pressure over three bounded things (driver, two rings) and
  wakes that may come too early. Correct: every submission is served, requests
  and answers always fit, the client ends with nothing left behind.
- *Shared memory.* Processes that come, leave, crash and come again. Correct:
  one owner of the allocator, the last to leave is alone, removes its own file,
  and does remove it.
- *Buffers.* A request names buffers of the client by offsets; the client may
  abort the task, reuse the memory or drop the runtime while the server reads
  and writes them. Correct: what is lent stays allocated and exclusive until
  the answer is taken, a task finds its own response, nothing is lost.

The hazards are listed one by one, with the line where each bites and the
properties that cover it, in `PROJECT.json`.

## 2. Modules

    Channel  <--implements--  SpscQueue  <--EXTENDS-- SpscQueueProofs
       ^--INSTANCE (two)----  Uring      <--EXTENDS-- UringProofs
    Promise  <--implements--  Driver     <--EXTENDS-- DriverProofs
                              Executor   <--EXTENDS-- ExecutorProofs
                              Runtime    <--EXTENDS-- RuntimeProofs
                                 ^--EXTENDS--            ^--EXTENDS--
    Lending  <--implements--  Buffers    <--EXTENDS-- BuffersProofs
                              Shm        <--EXTENDS-- ShmProofs

`Runtime` uses what `SpscQueue`, `Driver` and `Executor` promise; `Shm` what `Uring` and
`Runtime` promise. `Facts` holds the lemmas several proofs need, on indices
modulo the size of a ring and on the elements of a sequence.

Each `MCx` module extends `x` and adds what TLC needs (symmetry); the `.cfg`
files give the constants.

**SpscQueue.** One ring between a producer and a consumer thread. An atomic is
its modification order (`headLog`, `tailLog`); a load returns any entry not
older than the last one seen by that thread, and an acquire load of an entry
stored with release orders its writer's accesses first. `wroteAt` and `readAt`
record the last accesses to a slot, so a data race is a state. Actions:
`Enqueue`/`EnqueueFull`/`EnqueueBulk`/`BulkTake`/`BulkEnd` and
`WriteSlot`, `PublishTail` (slot write and index store of either function);
`Dequeue`/`DequeueEmpty`/`DequeueBulk`/`DrainNext`/`DrainEnd` and `ReadSlot`,
`PublishHead`; `ProducerLen`, `ConsumerLen`. `Channel` is the abstract ring, a
bounded FIFO.

**Uring.** Two halves over two `Channel`s with the count `rc`. `Dispose` is the
`fetch_sub` (its `keep` tells `dispose_raw` from `drop`), then `Fence`, the two
walks that drop what is queued one value at a time, and `Free`. `accesses`,
`released` and `ordered` follow what the release of one half orders before the
fence of the other. `IsConnected` may read an old count.

**Driver.** The slab (`slab[k]`), the handles (`op`, `id`), the request of each
operation at the peer, what the peer was lent (`resource`), and the wakers.
One action per call and outcome: `TrySubmit`, `Submit`, `NewOp`, `PollPending`,
`PollReady`, `PeerAnswers` (external), `CompleteLive`, `CompleteCancelled`,
`DropRemoved`, `DropUnfinished`, `DropCompleted`, `Retire` (what the runtimes do
with their driver). The panicking branches (`PollPanics`, `CompletePanics`,
`DropPanics`) are predicates, not steps. `Hold` says whether a finished `Op`
may be kept. `Promise` is the abstract operation.

**Executor.** `stack` holds the `block_on` frames with the polls left in the
round. The root and the tasks are arbitrary programs made of `Spawn`, `Abort`,
`PassOn` (give a handle away or drop it), `Signal`, `Join`, `Await`,
`YieldNow`, `BlockOnNested`, `Finish`. What can be done with a handle is what
Rust's ownership allows: `abort` and `.await` consume it, and it may move into any
live future, that of its own task included (through a cell that both can reach).
The steps that would borrow the `RefCell` of a task twice (poll, abort or await one
that is being polled, which panics) do not exist: the guards `~Borrowed` stand
for the panic, and nothing is said of the program after it. No property claims that
these panics do not happen, since safe code can cause them.

**Runtime.** The client thread (`RecvBulk`, `Answer`, `PollMain`, `PollTask`,
`NextRound`, and the steps of a polled task: `Submit`, `WaitForEntry`, `Send`,
`WaitForRing`, `StillAwaiting`, `Fetch`, `Join`, `Abort`) and the server thread
(`Receive`, `StartSending`, `Reply`). `Retry` chooses the server of the
benchmark (retries a send that failed) or that of the two examples (collects
answers, expects them to fit). The rings are bounded FIFOs here, and an
operation has its own entry, as the modules above show.

**Buffers.** The same client and server with the buffers that operations carry.
Every action is one of `Runtime` together with what the code does to buffers at
that point: `AllocSubmit`/`AllocWait` (the boxes are made at the first poll of
a task), `SendToken` (`as_shm`), `Complete` (drops the `Cancellation` of a
cancelled entry), `TakeBack` (the boxes come back with the output, and are used
for the next operation as the benchmark does, or dropped as the example does),
`AbortTask` (`Ping::cancel` recycles into the entry what an unanswered `Op`
had; all else is freed), `ReceiveToken`, `Serve` (reads and writes through the
tokens), `SendAll`, `SendAnswer`. `Leave` lets main return without awaiting its
tasks; `RuntimeDrop` and `IntoUring` are the two ends of a `Runtime`. (The programs of the repository
await all their tasks; `AbortTask` and `Leave` are what the crates' interface
allows a client to do, and what `Cancellation` and the leak in `Drop` are for.) `held`,
`kept` and `token` say who owns and who names a block, `contents` what was last
written to it. A token keeps nothing alive, a free block has no contents, and
the allocator may hand out any free block. `PerOp = 0` is the threaded example.
`Lending` is the abstract ownership model of `evering/src/resource.md`:
`Allocate`, `Lend`, `Return`, `Reclaim`.

**Shm.** One server, some clients and the shared memory file. The steps are the
system calls and the accesses to the header. Either program may be started with
`--create` (`Create`, `O_EXCL`; `Grow`; `WriteHeader`) or without it (`Open` by
name, or `Inherit` for a process of `Heirs`, which is given a descriptor; `Map`);
then `Serve` for the server, `Start` for a client (the swap of
`allocator_taken`), `SendExit`, `AnswerExit`, `Leave`, `Dispose`, `Unlink`, and
`Crash` and `Restart` at any point. `StartBlind` is a process that maps a file
which has its size but not yet its header: the code does not prevent it (only
the benchmark waits), and nothing can be said of such a file, so the properties
speak of the others. `rejoined` are the files on which a server was started a
second time: `from_raw` does not count it, so `LastIsAlone` excepts them.

## 3. Runs

| Run | Instance | Properties |
|---|---|---|
| `Spsc` | 4 slots, 2 values, 6 sends: the indices wrap around | `TypeOK`, `NoDataRace`, `FullEmptyExact`, `LenBounds`, `RefinesChannel`, `EverythingArrives` |
| `UringLife` | capacities 2 and 1, 3 sends per half: empty, partly full and full queues at the end | `TypeOK`, `CountExact`, `ExactlyOnce`, `TeardownOrdered`, `FreedOnce`, `DisconnectedIsFinal`, `Reclaimed` |
| `DriverAwait` | 3 operations, capacity 1, at most 2 slots, 2 wakers: slots are reused and the slab grows | `TypeOK`, `NeverPanics`, `EntryExact`, `ResourcesHeld`, `VerdictExact`, `LatestWoken`, `KeepsPromise` |
| `DriverHeld` | the same with `Hold` | `NeverPanics` is violated |
| `ExecutorSafety` | 2 tasks, queue of 3, 2 acts per poll, one nested `block_on` | `TypeOK`, `NoLostWakeup`, `JoinsAlive` |
| `ExecutorFair` | 2 tasks, queue of 3, 1 act per poll, no nesting | `PopSucceeds`, `RootPolled`, `QueuedPolled` |
| `ExecutorNested` | as `ExecutorSafety` | `PopSucceeds` is violated |
| `RuntimeServed` | 6 tasks, one operation each, 4 entries, rings of 3 usable places, server with retry | `CleanEnd`, `ClientEnds` |
| `RuntimeAborts` | 3 tasks, two operations each, aborted at any point or left behind, 2 entries, request ring of 1 and answer ring of 3 usable places, 3 blocks, one per operation | `BTypeOK`, `RequestsKnown`, `NeverOutOfCapacity`, `NobodyForgotten`, `OwnResponse`, `RefinesLending`, `Recycled` |
| `RuntimeCapacity` | 3 tasks, 2 entries, both rings of 1 usable place | `NeverOutOfCapacity` is violated |
| `RuntimeStranded` | 3 tasks, two operations each, 2 entries | `NeverStranded` is violated |
| `ShmSession` | 1 server, 2 clients, one of them given a descriptor, 2 files: a second session beside the remains of the first | `TypeOK`, `OneTaker`, `LastIsAlone`, `UnlinksItsOwn`, `NameFreed` |

The bounds. `MaxSend` is larger than the ring so that every index wraps and
every slot is reused. `MaxKeys` and `Capacity` differ so that the slab grows and
a vacant slot goes to another operation. `MaxQueue` and `Fuel` bound what a task
does in one poll: nothing is woken beyond the bound. `MaxNoops` bounds how many
wakers of the main future wait in `pending_submissions`; the code has no bound
there. `MaxFiles` bounds the files ever created. There are as many `Blocks` as
the tasks need, so that the allocator never panics (an assumption of `Buffers`),
and with two operations per task any block comes to serve several; one buffer per operation
is enough because request and response buffer are always treated alike.
`RuntimeServed` has no blocks (`PerOp = 0`). Two tasks, two clients, two
wakers suffice where the argument is about one actor and another. For the safety
properties and the refinements the proofs below remove the bounds on the number
of tasks, operations, blocks, files, clients, values and slots; the liveness
properties are checked on these instances only.

`CHECK_DEADLOCK FALSE` is set where a program ends (the driver is retired,
`block_on` has returned, all processes have left), or where a task may wait for
an event that never comes; the ring is checked for deadlock.

The fairness. *SpscQueue*: an operation that has begun goes on, and an idle
consumer polls with a load that is not stale for ever; every user of the rings
polls in a loop, and stores become visible in finite time. Strong fairness is
needed for the fresh load, since other loads interrupt it. *Uring*: owners drop
their halves at the end of their scope (a half taken apart is put together again or
disposed of: an assumption on the user), a drop runs to its end. *Executor*: the
thread runs, and every poll returns. *Runtime*, *Buffers*: both threads run (the
server also through `Serve`), and the coin of the server (`fastrand::bool()`)
comes up at some time; nobody has to abort, to leave or to drop the runtime.
*Shm*: a process that has begun goes on, and nobody has to start or restart one.

What `RuntimeAborts` shows. `RefinesLending`: at every step, buffers named by a
request that is in a ring or at the server are allocated, and lent to that
request only; in particular `RuntimeDrop` and aborts never free them. `OwnResponse`
adds the data: an answered task finds what the server wrote for its operation.
`Recycled` says that buffers no task owns are again and again none: it is stated
with `[]<>` since other operations may be cancelled meanwhile, and it excepts
the time after main has returned, when `RuntimeDrop` leaks what is under way.
`NobodyForgotten` is the safety half of "every submission is served": a task
that can go on has a place in a queue, though `RuntimeStranded` shows that
`pending_submissions` may be a queue that nobody serves.

What the runs with liveness show, and where it stops. `ClientEnds` is
checked with the server that retries (those of the examples may panic, finding 3). It
holds with one operation per task and answer rings not larger than the driver, as the
examples ship (32 and 32). It does not hold for all sizes: with 5 tasks,
4 entries and an answer ring of 8, one batch may hold the answers to all four
operations, whose wakes are all spent before an entry is free; and it fails with
two operations per task (`RuntimeStranded`).

## 4. Findings

Four disagreements between the code and what its comments or assertions say,
each with a run whose counterexample shows it:

1. `DriverHeld`: `DriverInner::remove` looks the id of a finished `Op` up again
   when it is dropped. If the `Op` was kept and its slot is used by a new
   operation, the drop panics or takes the new operation's answer.
   `.await` drops a finished `Op` at once and is safe (proved, section 5).
2. `ExecutorNested`: `block_on` in a task empties the queue under the outer
   round, whose `unwrap` fails. The check against nesting is commented out.
3. `RuntimeCapacity`: the servers of the examples collect as many answers as the
   driver has entries (32), but a ring of 32 slots holds 31; `expect("out of
   capacity")` can fail if the client takes no answer meanwhile.
4. `RuntimeStranded`: a waiting submission is woken before the entry it needs is
   given back, waits again at the end of `pending_submissions`, and if that was
   the last answer on its way, nothing wakes it again.

Observations without a run: a task that comes to own its own handle (safe code can
put it into a cell which the future reaches) and aborts or awaits it panics, as its
`RefCell` is borrowed by its poll; so does a task that a nested `block_on`
polls, aborts or awaits while an outer one is polling it; a task aborted while it waits for a place in the
ring leaves its entry in the driver for ever (one at most: with it the ring
cannot fill up any more), after which the runtime is leaked when dropped and
`into_uring` panics; `into_uring` panics likewise when a task was aborted and
the answer to the exit request overtakes that of the cancelled operation, since
the server sends answers in any order and nobody waits for the latter; a server
that is started twice on one file is not refused, as a second client is; a ring of size 1 is accepted by the builder and has
no usable slot; the documentation of `dispose_raw` says that it does nothing if
the other half is alive, though it gives up this half's share of the count; a
server or client that panics with a shared-memory uring on its stack drops it
by `Drop`, which would give shared memory to the global allocator if it is the
last.

## 5. Proofs

The theorems hold for every value of the constants that the named assumptions
allow. Each module has an inductive invariant (`IInv`, in `BuffersProofs`
`BInv`), one lemma per action that says that the action preserves it, and the
theorem `Invariance`; the properties of the runs follow from it. Every invariant
was first checked by TLC on instances like those of section 3. All invariants of the
passing runs are proved, the action property `DisconnectedIsFinal`, and the
three refinements `RefinesChannel`, `KeepsPromise` and `RefinesLending`.

**SpscQueueProofs.** `IInv` relates the two logs: the k-th entry of either is slot `(k-1) % Size`
(`LogInv`); the head is never ahead of the tail and the tail never a full ring
ahead of the head, as each side knows it (`OrderInv`); the locals of each side
agree with the entry it has seen (`ProducerInv`, `ConsumerInv`); `wroteAt` and
`readAt` are the latest accesses a slot can have had (`AccessInv`); and the
slots between head and tail hold what was sent (`DataInv`). `TypeOK` or
`NoDataRace` alone are not inductive: that a slot is free follows from where
both indices are, and from what the acquired entry proves. One lemma per action
gives `Invariance`; from it follow `TypeCorrect`, `RaceFree`, `TestsExact`,
`LenSafe` and the step simulation for `Refinement`: `PublishTail` is the
abstract `Send`, `PublishHead` the abstract `Recv`, all else stutters. A ring of
any size, any values and number of sends.

**DriverProofs.** Under the assumption `~Hold` (every finished `Op` is dropped
at once, as `.await` does), `IInv` adds to `TypeOK` and `EntryExact` that a
finished `Op` has a vacant entry (`ReadyVacant`) and that a dropped driver is
empty (`DroppedEmpty`). `EntryExact` carries the argument: an entry and the
operation that needs it determine each other, so the entry found by an id is
never another operation's. It gives `NoPanic`, `Lending`, `Verdicts`, `Waking`
and `Refinement` (every operation keeps its promise) for any number of
operations, slots and wakers. `DriverHeld` shows that the assumption is needed.

**UringProofs.** Any capacities, any number of values. `OneEnds` says that both
halves are there, or one is and the other is gone, or one is gone and the other
tears down, and which of these is told by the length of the history of `rc`;
`CountsDown` gives the values in it. `CountExact` alone is not inductive: it does not
say that the half which read 1 is the only one to go on. `AllReleased` carries
the ordering: what a half did before its `fetch_sub` is all it ever does, and
the fence of the last one has received it. `EachOnceA` and `EachOnceB` describe
each queue by three sequences of which one continues the other: what was
received, what was dropped in place, and what is left, wherever the walk has got
to. Thence `CountCorrect`, `TeardownInOrder`, `FreedAtMostOnce`,
`NothingLostNorDoubled`, and, with `ToldTrue`, `DisconnectedStays`.

**ExecutorProofs.** Any tasks, programs, length of the queue and depth of
nested `block_on`. `PolledOnce`: one frame at most polls a task, and only a
pending one. `Asked`: whoever awaits a pending task is the one its stored waker
wakes. A task keeps only the waker of its latest `read`, so this is the point of
the proof: it holds since `.await` owns the handle (`JoinsAlive`), hence
nobody else can ask while it waits. With it `Finish` wakes the right task,
and `NoWakeupLost` and `JoinsAreAnswered` follow. `NoEmptyPop`
(`PopSucceeds`) assumes `MaxDepth = 1`, no `block_on` inside a poll: then what is
left of the round is in the queue (`InQueue`), and the `unwrap` of the loop
succeeds. It says nothing of the borrows of a task, which can fail (section 4). No program of the repository nests; that the code does not
prevent it is finding 2.

**RuntimeProofs.** Any number of tasks and operations, rings of any size, either
server. `Once` (a request is under way in one place), `Known` and `Own` (its
owner is at that operation and has its entry), `Bounded` (no more entries than
the driver has), `Batched`, `Roles`, `ExitLast`, `NobodyForgotten`, and the
separate `Joined` (main passes its join last), which is false when main may
leave. `EveryRequestKnown` and `EveryTaskReached` need no further hypothesis.
The others have one, each a choice that the code leaves to its user:
`RoomForEveryAnswer` assumes `SizeA < SizeB`, that the answer ring, of which one
slot stays free, has a place for each entry of the driver (the builder takes the
size of either ring, and the driver has as many entries as the request ring has
slots; with the defaults, 32 and 32, finding 3 shows the failure);
`RetriesSuffice` assumes the server of the benchmark, a main that awaits its
tasks, as all programs of the repository do, and a ring with a place at all;
`EndsClean` assumes a client that aborts nothing.

**BuffersProofs.** `BInv` adds to the `IInv` of the runtime: `Owned` (blocks of
different owners are disjoint and allocated; an entry keeps some only when
cancelled), `Named` (a request under way names exactly what its operation's
owner has) and `Answered` (what the server has written for a request stays
there). `RefinesLending` is not inductive by itself: that a free block is never
named by a request follows from who owns it. `LendingKept` is the step
simulation: the first poll of a task is `Allocate`, the send is `Lend`,
`Complete` is `Return` (which for a cancelled entry also frees), and what a task
drops or the end of a runtime releases is `Reclaim`, of blocks that nobody
borrows. `AnswersFound`, `RequestsStayKnown` and `RoomInAnyCase` hold with
aborts and with a main that leaves. `IsRuntime` says that when main does not
leave, what was proved of `Runtime` holds here; with it `BEndsClean` and
`NeverLeaked` (a client that awaits its tasks never leaks its driver).
`BlocksAssumption`, as many blocks as the tasks need at a time, is inherited
from the model: the allocator does not panic.

**ShmProofs.** Any number of clients, heirs and files, with crashes and
restarts. The count is one of ends, not of processes: `CountCovers` says that
`rc` covers the ends that may still be left, the server's until its exit request
is answered, the client's until the one taker of the allocator has left.
`CreatorAlone`, `StartedRight`, `TakenOnce` and `FirstServer` say when that is,
`LastOne` and `NameStays` what follows. Files mapped by
somebody before their header was written are excepted by `SingleTaker` and
`LastAlone`, the latter excepts also those that a server was started on twice.
`UnlinkedOwn` has no such exception in its formula, but the model does not follow
a process that has found no header (`lost`), which might unlink the name too: it is
no claim about sessions where that has happened.

Model-checked only:

- `EverythingArrives`, `Reclaimed`, `RootPolled`, `QueuedPolled`, `ClientEnds`,
  `Recycled`, `NameFreed`: liveness under fairness is beyond the provers used
  here, which have no rules for `ENABLED`.
- The four violations of section 4: they are counterexamples.
- That `Runtime` takes rings and entries as the modules below it promise is a
  modelling decision, backed by `Refinement` of the ring and of the driver, and
  not itself a theorem.

## 6. Not modelled

- What messages and buffers contain, beyond which operation wrote it, and their
  layout in memory (`align_up`, `Layout`, offsets).
- The `Tlsf` allocator (a library: any free block may be returned), an exhausted
  shared memory (the allocator panics), two servers at one time, the unwinding
  after a panic.
- The command line and the checks of its values.
- `UringEither`, the `Ref` types and `ExecutorRef` / `DriverRef`, which forward.
- The thread-local handles of the runtimes (`enter`, `Revert`): the programs run
  one runtime per thread and use it inside `block_on` only.
- `tokio`'s executor, on which the benchmark runs its client: its tasks are
  polled by `local-executor` here.
- The memory model is C11's release/acquire as the code uses it, per location
  and with the orders between the two threads; there are no compiler effects
  beyond it.
- The other benchmarks (the same load over sockets, `tokio-uring`, `monoio` and
  `shmipc`, with none of this code), the harness and the scripts.
- Tasks of `Runtime` run a fixed program (submit, await, next); `Executor` is
  where arbitrary programs run.

## 7. Plan

Done: rings, ownership, driver, executor, runtime, the buffers lent between
client and server with the ownership model they implement, the session over
shared memory; each with its proofs. The most important behaviour,
operations that travel through rings and driver and come back once, came first.

Next, proofs: what of the driver holds for a finished `Op` that is kept (`Hold`),
with the panics of finding 1 left out; the steps on which the liveness properties
rest, as action properties (a task leaves the queue only by its poll and moves
forward otherwise; the walks of a teardown and the batch of an answer ring only
get shorter).

Next, modelling: two runtimes on one thread, with the thread-local handle; and
liveness of submissions when tasks are aborted.
