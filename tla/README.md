# Channel and executor experiments: specification and proofs

The repository compares channels and executors by building the same structure
with each of them: `lanes` daisy chains of `pipelines` forwarders, a bounded
channel in front of every forwarder, and a concentrator that tells the caller
when every lane has passed on `messages` messages. It also contains a channel
of its own, `async_channel.rs`, which makes a crossbeam channel awaitable.
This directory specifies the channel, the forwarder and the drivers in TLA+,
checks them with TLC and proves the safety of the channel and of the drivers with TLAPS.

## The system

| Part | Source (experiment-lib/src) | State | Operations |
|---|---|---|---|
| async channel | `async_channel.rs` | crossbeam queue, two waker sets, sender count | `send`, `recv`, `try_recv`, drop of a `Sender`, drop of a pending future |
| forwarder | `async_forwarder.rs`, `sync_forwarder.rs` | senders, the counters `received_count`, `send_count`, `notify_count`, `next_seq`, the notify sender | `handle_config`, `validate_sequence`, `handle_action`, `handle_notification`, joined by each driver's `receive` |
| main thread | `setup`, `run`, `teardown` of every driver, called by `src/main.rs` and the benchmarks | heads, notifier, the loops' variables | configuration sends, data sends, the wait for the notification, the drops |
| task drivers | `flume_tokio_driver.rs`, `flume_async_std_driver.rs`, `smol_driver.rs` | a task per element; smol: the executor's threads and their shutdown signal | the main thread makes every send with `block_on`; smol's teardown replaces the signal and then drops the heads |
| crossbeam_async driver | `crossbeam_async_driver.rs` | a task per element on the futures `ThreadPool`, the waker sets of every channel | as the task drivers; the tasks drain with `try_recv` and never end |
| thread driver | `crossbeam_driver.rs` | a thread per pipeline position, selecting over all the lanes | as above, with blocking sends |
| tokio driver | `tokio_driver.rs` | a task per element, a task per configuration send, a feeder task per run | the main thread only spawns and waits |
| d3 driver | `d3_driver.rs` | machines of the external d3 executor | as the task drivers; teardown ends with `stop_server` |
| futures driver | `futures_driver.rs` | unfinished, not run | - |

Elements interact by messages only: `TestData` down a lane, `AddSender` and
`Notify` for configuration (both carry a sender, and a channel lives as long as
somebody holds its sender), `TestData(count)` from the end of a lane to the
concentrator and from there to the notifier on which `run` waits.

What is hard: the races between a failed `try_send` or `try_recv`, the insertion
of a waker and the notification from the other side; wakes that arrive early or
late; backpressure through bounded channels, across lanes where they share a
thread; counters and sequence numbers that live on from one run to the next,
compared for equality; configuration that races data in the tokio driver;
panics of one task, whose dropped channels bring down others; shutdown by
dropping senders, and of smol's executor before that; futures dropped while they
wait. `PROJECT.json` lists each at its line with the properties
that cover it.

What makes the parts correct: the channel is a FIFO queue that loses no
wake-up and never lets both sides sleep; a lane delivers everything, in order,
once; a run leaves no trace for the next one; the caller is notified once per
run and only when all is delivered; each call of the driver returns; teardown
leaves nothing that could run, and strands nothing.

## The modules

| Module | Models | State and actions |
|---|---|---|
| `BlockingChannel` | the promise of a bounded channel | `Put`, `Take`, with fairness |
| `AsyncChannel` | `async_channel.rs` | `queue`, `wakers`, `token`, `pc`, `next`, `sender_count`; an action for each access to shared state in `SendFuture::poll` and `poll_recv` (remove, try, notify, insert, check), the executor's `Poll`, `Drain` (`try_recv`), `DropSender`, `Cancel` (a task is dropped while it waits) |
| `AsyncChannelProofs` | - | the theorems about `AsyncChannel` |
| `Forwarder` | both forwarders | operators on a record of the forwarder's fields |
| `Pipeline` | the elements and their channels | `queue`, `fwd`, `pc`, `todo`, `delivered`; `receive` as `ReceiveConfig`, `ReceiveData`, `SequenceError`, `handle_action` (one turn of its loop, as each turn may wait), `handle_notification`; `Exit` |
| `Driver` | the main thread with blocking sends | `phase`, `iteration`, `lane`, `id`; an action per turn of the loops of `setup`, `run`, `teardown`; the properties of the whole |
| `TaskDriver` | flume (tokio and async-std), smol and d3 | each element is its own task; `signal`, `ended`, `workers` and `StopExecutor`, `EndShutdownTask`, `Leave` for the end of the executor |
| `AsyncLane` | crossbeam_async | `Driver` over channels with waker sets: `sendWakers`, `recvWakers`, `draining`; an action per poll of a future: `Recv`, `TryRecv`, `Act` of an element, `MainSend`, `MainRecv`, `MainLocal` of the main thread |
| `StageDriver` | crossbeam | a position of all lanes is one thread: it serves one element at a time and breaks at the first disconnected receiver |
| `TokioDriver` | tokio | adds `spawned`, the configuration sends under way, and `fed`, the progress of each run's feeder |
| `Experiment` | what `main.rs` expects of an `ExperimentDriver` | `Setup`, `Run`, `Deliver`, `Return`, `Teardown` |
| `MCAsyncChannel` | - | sets of tasks for TLC |
| `DriverInvariant` | - | `DriverInv`, an inductive invariant for every driver built on `Driver` with the configuration sent in `setup` |
| `DriverProofs` | - | the main thread's steps keep `DriverInv` |
| `ElementProofs` | - | so do the elements' steps; `DriverInv` implies the properties of `Driver`; each step is one of `Experiment` |
| `TaskDriverInvariant`, `TaskDriverProofs` | - | `TaskInv`, with the executor's end; the theorems about `TaskDriver` |
| `StageDriverProofs` | - | the theorems about `StageDriver` |
| `AsyncLaneInvariant`, `AsyncLaneProofs` | - | `LaneInv`, with the wakers; the theorems about `AsyncLane` |
| `TokioInvariant`, `TokioProofs`, `TokioElementProofs` | - | `TokioInv`; that the main thread, the feeders and the configuration sends, and the elements keep it; the theorems about `TokioDriver` |

`Pipeline` composes `Forwarder` with channels; the drivers compose `Pipeline`
with their main thread and say who serves which element. Operators whose
comment starts with "A fault" are deliberately wrong variants that the
mutation runs of `PROJECT.json` put in place of the definition after them;
each must make the named property fail.

### Correspondence and abstractions

- *Grain.* crossbeam's `try_send`, `try_recv`, `is_full`, `is_empty` are atomic,
  a waker set is a slab behind a mutex: each is one step of `AsyncChannel`, and
  everything else a task does between two of them is local. A waker set entry is
  named by the task that owns it; `notify` takes the lowest slab key, which may
  belong to any of them, so it takes any.
  In `AsyncLane` a step is a whole poll, so that lanes of several tasks can be
  checked; an entry whose waker was taken is left out there, and so is `token`,
  as a task that is in no waker set is one that will be polled.
- *Cancellation.* A dropped task leaves its entry behind, armed or not, because
  `cancel` is empty. `Cancellers` says which tasks may be dropped; the drivers drop none.
- *Executors.* `token[t]` is a call of the waker not yet followed by a poll. A
  wake before the poll has returned is kept, as the futures `ThreadPool` and
  `block_on` keep it. `LeftoverWake` is a wake that belongs to a future the task
  ran before on another channel.
- *Messages.* `TestData` numbers are kept as they are because sequence checking
  depends on them; in `AsyncChannel` a message is its sender and number.
- *External channels.* flume, smol, tokio and crossbeam channels are FIFO; a
  send waits while the channel is full and fails when the receiver is gone, a
  receive fails when the channel is empty and no sender is left. `Disconnected`
  counts senders in forwarders, in messages under way, and with the main thread.
- *Capacity.* One `Cap` stands for both capacities of the code, 250 and the
  notifier's 10. Capacity matters where it is reached, so the models take it small.
- *`forwarding_multiplier`* is 1 and has no setter; the two forwarders differ
  only in what `handle_action` does with a configuration message, which never
  gets there.
- *smol.* The inner `try_recv` loop of its tasks receives what the outer `recv`
  would, and is not modelled apart. `teardown` only drops the handles of the
  executor's threads; what stops them is that the old `signal` is gone, which ends
  each thread's shutdown task and with it `ex.run`.
- *The end of the executor.* The task drivers differ only in it: never (flume),
  before the heads are dropped (smol), after the notifier is (d3).
  `StopExecutor` may happen at either point or never, so `TaskDriver` has the
  behaviours of all of them.

## The runs

| Run | Instance | What it shows |
|---|---|---|
| `channel_shared` | 2 senders, 2 receivers, 2 slots, 2 messages each; one task of each kind may be dropped | no lost wake-up on either side but those spent on a dropped task, no standoff without such a one, the inductive invariant |
| `channel_live` | 2 senders, 1 receiver, 1 slot | every send returns; the channel implements `BlockingChannel` with its liveness |
| `channel_within` | 2 senders, a receiver that drains with `try_recv`, 4 slots for 4 messages | the way `crossbeam_async_driver.rs` uses the channel works while everything fits |
| `task_driver` | 2 lanes of 3, 2 messages, 1 slot, 2 runs, 2 executor threads | no sequence error, conservation at every position of a lane, quiescence between runs, notification only when done, the inductive invariant, `Experiment` implemented; stopping the executor strands no message, and after teardown every task or every thread has ended |
| `stage_driver` | the same lanes | the same for threads that serve a position of all lanes, each of which ends |
| `async_lane` | 2 lanes of 2, 2 messages, 2 slots, 2 runs | tasks sleep only with a reason, the inductive invariant, conservation and quiescence, `Experiment` implemented, and in the end every task sleeps on an empty channel |
| `tokio_driver` | 2 lanes of 2, 2 messages, 2 slots, 2 runs | what holds when configuration and data race, the inductive invariant, and that `run` returns if they do not overtake each other |
| `channel_cancel` | 2 senders, one of which may be dropped, 1 receiver, 1 slot | a violation: the wake of the dropped sender goes to nobody else |
| `channel_drain` | 1 sender of 3 messages, 1 draining receiver, 1 slot | a violation: the sender sleeps for ever |
| `channel_close` | 2 senders, 1 receiver | a violation: nobody is told that the last `Sender` is gone |
| `tokio_hang` | 1 lane of 2, 2 messages | a violation: `run` never returns |
| `tokio_early` | 1 lane of 2, 3 messages | a violation: `run` returns with messages missing |

### Bounds

`MaxSend` bounds the sends of one task. A channel has interesting states when it
is full, empty, and when several tasks compete for one slot or one message; two
tasks a side and one or two slots give all of these, and the proofs remove the
bounds for safety. In the pipelines, two lanes are the least that makes the
concentrator count and a thread choose; three elements give a lane a first, a
middle and a last one, which treat their counters differently; two runs are
the least in which one inherits counters from another; with a single slot every
send has to wait. The tokio driver has a state for every order of its spawned
sends, which is why it is checked with two elements per lane; a head
that is configured late and a last element that is told late already occur. Its
second run starts only when the first returned, complete or early; for the
feeders to overlap at a head that still runs, a later element has to panic, which takes
an element between the head and the last, and three messages. That case is left to the proofs
(`TokioPanicking`). In
`async_lane` a channel holds just the messages of a run, which is what the tasks'
draining needs (main.rs has 250 slots for 100 messages); the configuration
message in front of them still makes the main thread park on the heads, and the
lanes on the concentrator. One task of each kind that may be dropped is
enough for every kind of spent wake, before and after the notify.
Deadlock checking is off everywhere because each system stops: the program
ends after its last run, and receivers of `async_channel` sleep for good when
nothing more is sent.

### Fairness

Weak fairness of each task, of each thread and of the main thread: a runtime
polls a task that is ready, and the operating system schedules a thread that is.
In `AsyncChannel` a parked task has no step until its waker was called, so
fairness alone wakes nobody, and likewise in `AsyncLane` a task that sits in a
waker set. In `TaskDriver` a task has a step only while the executor has a thread,
and nothing is assumed about whether `StopExecutor` happens. Which armed waker `notify` takes and which ready
receiver a `select` picks are unfair choices. The spawned configuration sends
share one fairness condition: each of them happens once, and there are finitely
many.

## The proofs

`AsyncChannelProofs` proves, for every set of senders and receivers, every
capacity, every number of messages, and whichever tasks may be dropped while
they wait:

| Theorem | Statement |
|---|---|
| `TypeCorrect` | `Safety => []TypeOK` |
| `SleepersAreArmed` | `Safety => []SleeperIsArmed` |
| `RecvWakeups` | `Safety => []NoLostRecvWakeup` |
| `SendWakeups` | `Safety => []NoLostSendWakeup`, if `Drainers = {}` |
| `NeverAllAsleep` | `Safety => []NoStandoff`, if `Drainers = {}` |
| `WakeupInvariant` | `Safety => []WakeupInv`, if `Drainers = {}` |
| `ImplementsQueue` | `Safety` implements `BlockingChannel!Safety` |

They assume `ChannelAssumption`: finite disjoint sets of tasks, at least one
receiver, a positive capacity. `Drainers = {}` is needed, as `channel_drain`
shows.

The inductive invariant is `WakeupInv`. "Nobody sleeps while there is room" is not
inductive, because between a receive and its notification somebody does. What is
inductive is a count: while a sender sleeps, the number of free slots is at most
the number of senders that were reached (they will look at the channel again, or
were dropped with their wake spent) plus the number of receivers that have taken
a message and not yet notified. A receive adds a slot
and a notifier; a notification either turns a sleeper into a sender on its way, or goes to a
dropped one, which counts as reached for good, or finds no armed waker, and then nobody sleeps (`WakersInPlace`); a sender that
looks again takes a slot or finds none. The receive side is the mirror image,
where a sender must not run out of messages with a future under way
(`SendsBounded`). `NeverAllAsleep` follows by arithmetic: if all sleep or idle
and no wake was spent, nobody is trying or notifying, so the channel is full and empty at once. The lemmas
`CardMono`, `CardGain` and `CardLose` bound the change of a count from above by what
happened to one task, `NotifyEffect` says what a notification does to both counts, and
one lemma per side goes through the actions.

### The drivers

Proved for every number of lanes, elements, messages and runs, every capacity
and every number of executor threads, from `PipelineAssumption` (none of the
first three, nor the capacity, is 0), `DriverAssumption` and `WorkersAssumption`
(`Iterations` is a natural number, `Workers` is not empty):

| Statement | `TaskDriver` | `StageDriver` | `AsyncLane` |
|---|---|---|---|
| the inductive invariant | `TaskInvariant` | `StageInvariant` | `LaneInvariant`, `LaneWakers` |
| `Spec => []TypeOK` | `TaskTypes` | part of `DriverInv` | part of `DriverInv` |
| `Spec => []NoSequenceError` | `TaskSequence` | `StageSequence` | `LaneSequence` |
| `Spec => []LaneConservation` | `TaskConservation` | `StageConservation` | `LaneNothingLost` |
| `Spec => []QuiescentBetweenRuns` | `TaskQuiescence` | `StageQuiescence` | `LaneQuiescence` |
| `Spec => []NotifiedOnlyWhenDone` | `TaskNotification` | `StageNotification` | `LaneNotification` |
| `Spec` implements `Experiment!Safety` | `TaskImplementsExperiment` | `StageImplementsExperiment` | `LaneImplementsExperiment` |
| `Spec => []NothingStranded` | `TaskStranding` | - | - |
| a sleeping receiver's channel is empty | - | - | `LaneReceivers` |
| `Spec => []SleepersHaveReason`, if `Messages <= Cap` | - | - | `LaneSleepers` |

None of the properties is inductive. That nobody meets a sequence error depends
on what the channels hold, that on the counters, and those on how a run ends.
`DriverInv` has a conjunct for each link of this chain:

- `Configuration`: an element is new and its channel empty until its
  configuration is sent; that message is then in front of all data, or
  the element knows what it said. `setup` sends it before any data is sent to anyone,
  so an element that acts (`Actions`) is configured.
- `Hops` and `Order`: what was passed to a position of a lane is accepted or in its
  channel (`LaneConservation` with the data counted by position); no element is
  ahead of an earlier one.
- `Numbers`: the data in a channel is numbered consecutively, from the
  number its element expects. The head counts from 0 in each run, the elements after it go on
  counting, because their `next_seq` and the `send_count` before them both do;
  the last element accepts any number. `Count` is this difference, and
  it needs `Hops`: the next number sent is that of the data accepted plus that in the channel.
- `LaneNotices` and `ConcentratorNotices`: a last element has counted what
  arrived in this run, or has notified and starts from 0; the
  concentrator's count plus the notices in its channel is the number of lanes that
  notified, until it tells the notifier, when all have. Here `received_count = notify_count`
  is met exactly once per run.
- `Lifetimes`: nothing ends before teardown. The main thread holds the heads until then, each
  configured element holds the next channel, and a channel under way in an `AddSender`
  is held by the channel it is in (`NoneEndsEarly`).

When `run` returns all lanes have notified, so all of the run is delivered, and by
`Order` and `Hops` no channel or element holds anything (`Drained`). This gives
`QuiescentBetweenRuns` and the return step of `Experiment`; its other
steps are those of the main thread and of the last elements. `DriverProofs` has a lemma
for every step of the main thread, `ElementProofs` one for each way a message is
received and passed on, both for any crew of elements that share a
thread; so the drivers only prove what is their own: which element steps, and how
elements are spawned. `TaskInv` adds that the executor stops only after the last run,
from which `NothingStranded` follows with `Drained`.

`LaneInv` adds the wakers. A task waits to receive only on its own channel
(`Receivers`): every send to an empty channel wakes its one receiver,
so the channel of one that sleeps is still empty. For the senders the matter is `try_recv`,
which wakes none. If a channel holds all the messages of a run, then by `Hops` the channel of
a lane's element is full only while the configuration is in the way;
that one is taken by `recv`, which wakes the only task that sends there. The concentrator never
drains, so its receives wake a sender each: while one sleeps, its free slots are at
most the tasks awake with a send to it to make (`Coming`), as in `WakeupInv` above. Steps of other tasks
keep that bound; there is a lemma for each kind of step (`SendKeeps`, `ReceiveKeeps`, `ParkSendKeeps`,
`ParkRecvKeeps`, `LocalKeeps`). Without `Messages <= Cap` the rest of `LaneInv` still
holds and is proved; `channel_drain` shows what goes wrong on the send side.

### The tokio driver

From `PipelineAssumption` and `DriverAssumption`, for every order in which the
configuration sends, the feeders and the elements run:

| Theorem | Statement |
|---|---|
| `TokioInvariance` | `Safety => []TokioInv` |
| `TokioTyping` | `Safety => []TokioTypeOK` |
| `TokioPanicking` | `Safety => []PanicOnlyAfterSwallow` |
| `TokioConservation` | `Safety => []LiveLaneConservation` |
| `TokioEarlyReturn` | `Safety => []EarlyReturnOnlyAfterPanic` |
| `TokioNotification` | `Safety => []NotifiedOnlyWhenDone` |

`DriverInv` is of no use here: its `Configuration`, `Numbers` and `Lifetimes` are
false. `TokioInv` says what remains of each:

- `TokioConfiguration`: the one configuration message of an element is still to be
  spawned, with its task, anywhere in the element's channel, or handled; `Awaits` tells
  the first three from the last, and an element that awaits it is as it was born,
  but for what it received.
- `TokioHops`: an element passes on all that it accepts, or nothing. One that
  accepted data without a sender has `next_seq = 0`; number 0 was among that data
  (`TokioNumbers`), so once it is configured it panics at whatever comes next (`DroppedNoMore`).
- `TokioNumbers`: the data of a channel is numbered consecutively, a configuration message
  between them not counted; for the heads only while a lane is whole.
- `TokioPanics`, `TokioLifetimes`: an element panics because it dropped data, and elements end
  before teardown only below a panic. `Broken` says that this happened in every lane;
  only then can the concentrator end, and `run` return early (`TokioRuns`).
- `TokioNotices`: as long as a lane is whole the counts are those of `DriverInv`. Once
  all are broken no last element counts anything any more (`PanickedDry`), so that no
  notification comes from a run that is not complete.

These depend on each other: that elements panic for no other reason needs the
numbers, the numbers of the heads are in order until the feeders of two runs overlap, that takes
a run that returned early, and a run returns early only if `Broken`, that is, after a
panic in every lane.

The invariant corrected the property `PanicOnlyAfterSwallow`. It used to say that
only an element that dropped data panics; that is false with a single lane of three elements and three messages. The middle one gets 0
before its `AddSender` and panics at 1, while the feeder still has 2 to send; the last one
and the concentrator end, `run` returns, the next run's feeder sends its 0 to the head, which now
expects 1, and the 2 of the old feeder arrives.

### What is only model-checked

Liveness is outside what the proof system can do: `SendsComplete`, the fairness of
`ImplementsBlockingChannel` and `ImplementsExperiment`, `TeardownStopsElements`, `TeardownEndsTasksOrThreads`,
`CpuGoesQuiet`, `RunReturnsIfConfigured`. The proofs use no fairness; those of
the channel and of the tokio driver are stated for `Safety`, and so hold of `Spec`, too. How the polls of one
channel (`AsyncChannel`) refine the whole polls of `AsyncLane` is stated in
"Correspondence" and not proved: they are specifications of different grain that
share no variables.

## What the code does not do as it says

1. `try_recv` wakes no sender (`async_channel.rs:199`); used as in
   `crossbeam_async_driver.rs:78` with more messages under way than a channel
   holds, sender and receiver sleep for ever (`channel_drain`).
2. `disconnect` is empty (`async_channel.rs:291`), against the comment at line 142
   (`channel_close`).
3. In `tokio_driver.rs` the spawned `Notify` (line 98) may be handled after the last
   message, and `run` hangs (`tokio_hang`).
4. There a late `AddSender` (line 87) makes an element drop a message and panic at the
   next one; `run` then returns as if complete, because it ignores the
   result of `recv` (line 134) (`tokio_early`).
5. "Wake up another task instead" (`async_channel.rs:119`): `cancel` is empty, so a
   sender that is dropped after it was woken takes the wake with it
   (`channel_cancel`). No driver of the repository drops a pending future.

## Not modelled

How d3 schedules its machines (inside an external executor; `TaskDriver` takes it
to be fair), the futures driver (documented as not working and not run),
`channel.rs` (not part of the crate), the parts of `async_channel.rs` that no driver
calls (`Sender::try_send`, which would tell no receiver, the capacity queries,
`unbounded`), what follows from a panic in `AsyncLane` (none happens), runs without
messages, lanes or pipelines (the callers have none), elements with more than one
sender (no driver configures one), timing and printing, and the benchmark harness.

## Plan

1. `TokioDriver`: that `Safety` implements a weaker `Experiment`, in which `run` may return
   early once every lane is broken; and under `[]ConfigBeforeData` the strong one, so that the
   race is shown to be the only thing wrong.
2. Action properties of the drivers: what a lane delivered never decreases, an element
   that ended never acts again, and a run never returns twice.
