# A verification of mco

mco is a library of stackful coroutines: generators with their stacks
(`mco-gen`), a scheduler with worker threads, selector and timer thread,
non-blocking I/O on three systems, and a copy of the blocking primitives, queues
and containers of the standard library for coroutines and threads alike. This
project models these parts, checks them with TLC, and proves the safety
properties of the blocking primitives, of parking and of the channel with TLAPS.

File names below are relative to `src/src/`. `PROJECT.json` lists every part of
the system, the lines that each definition translates, and every hazard with the
line where it bites and the properties that cover it.

## The system and its modules

The blocking primitives all block in the same way: a call creates a
`SyncBlocker`, puts it into a queue and parks; whoever wakes it unparks the
blocker. Below that, a coroutine parks on a `Park`, which hands it to whichever of
an unparker, a canceller and the timer thread takes it first, and so do the I/O
operations with the selector in place of the unparker.

| part | code | modules |
|---|---|---|
| blockers, mutex, poison flag | `std/sync/blocking.rs`, `mutex.rs`, `poison.rs` | `SyncBlocker`, `Mutex`, `AbstractLock`, `MutexProofs` |
| semaphore | `std/sync/semphore.rs` | `Semphore`, `AbstractSemaphore`, `SemphoreContract`, `SemphoreProofs` |
| park, cancel, yield | `park.rs`, `cancel.rs`, `yield_now.rs` | `Park`, `ParkProofs` |
| read-write lock, condition variable, wait group, flag | `std/sync/` | `RwLock`, `Condvar`, `WaitGroup`, `SyncFlag`; `RwLockProofs`, `CondvarProofs`, `SyncFlagProofs` |
| channel; worker pool, ticker, `spawn_blocking` | `std/sync/channel.rs`, `std/pool`, `std/time/tick.rs`, `std/blocking` | `Channel`, `ChannelProofs`; `Pool`, `Ticker`, `Blocking` |
| lazy cells | `std/lazy` | `OnceCell` |
| join, scopes, event queue | `join.rs`, `scoped.rs`, `cqueue.rs` | `Scoped`, `Cqueue` |
| scheduler, timers, sleep | `scheduler.rs`, `io/event_loop.rs`, `timeout_list.rs`, `sleep.rs` | `Scheduler`, `TimerList` |
| I/O | `io/`, `net/`, `os/` | `SocketIo` (epoll, kqueue), `Iocp`, `IoContext` |
| queues | `std/queue` | `SegQueue`, `ArrayQueue`, `MpscList`, `EntryList` |
| containers | `std/sync/sync_hash_map.rs`, `sync_btree_map.rs`, `std/vec` | `SyncHashMap`, `SyncBtreeMap`, `SyncVec` |
| generators, stacks, spawning | `mco-gen/`, `coroutine_impl.rs` | `Generator`, `Stack`, `SpawnStack` |
| time | `std/time` | `Calendar` |

Most modules have one process per *call*: `pc[c]` is the place in the code, and
each action is one atomic operation on shared memory together with the local
code around it. The actions carry the names of the code's functions. An
operation that the code performs without synchronisation although several
threads may perform it (`refs` of a timer node, a push into another thread's
deque) is split into its read and its write, and so is a check that loads a value,
acts on it and stores another (`blocked_io` of a socket).

Cancellation is a panic: a coroutine whose cancel bit is set panics out of the next
place where it waits, and a panic while it unwinds ends the process. The models
follow it where the code waits in the middle of something: in `poll` and in the
drop of an event queue, in the wait for a lazy cell, in the wait of a `DelayDrop`
for its guard, and in every operation of I/O. Each of these has a state of its own
(`escaped`, `canceled`, `panicked`, `aborted`).

**SyncBlocker** is the vocabulary the primitives share: a park token and the two
flags `unparked` and `release`. A waiter that gives up (timeout, cancellation)
and its waker must agree on who returns the unit the waker brought: the waiter
raises `release` and looks at `unparked` again, the waker publishes `unparked`
and then takes `release`. Parking is a contract here: `park` returns Ok by
consuming the token, or an error, and both clear the token.

**Mutex** and **Semphore**: `target` is the blocker a call has popped, `ret` the
place to which `unlock`, `post` or `wakeup_one` returns (they are called by
holders, by first grabbers, by waiters that give up, and by wakers on behalf of a
waiter that gave up). A compare-exchange loop is one step. The queues are atomic
here; `MpscList` and `SegQueue` model them.

**Park** is one coroutine on several `Park` objects. A suspended coroutine is one
object that is moved from owner to owner, and `loc` says where it is: running, in
a frame, in the ready queues, in a `wait_co`, or gone. A *frame* is a call of
`Park::subscribe` on the worker thread the coroutine yielded to. It goes on after
`wait_co.swap(co)`, while other threads may already run the coroutine, and may run
the coroutine nested in itself (`host` and `parent` record the nesting).

**Cqueue.** The owner of the event queue may be a coroutine. Cancelled, it panics in
`park` of `poll` or in the join of `check_panic` (`WaitCanceled`), and goes from
there into the drop of the queue, or out of it. `check_panic` rethrows the panic of a
select coroutine while it holds the lock of `selectors`, which poisons it, unless
the owner is cancelled; the drop that follows then panics at its first line and the
process aborts (`Unwind`).

**Scheduler.** A coroutine is pinned to a thread, the first one in the map of stacks
when it is spawned. A thread that is no worker enters that map when it runs a
coroutine itself (`spawn_local`, the bottom half of an event), so that coroutines may
be pinned to it: no worker takes them out of the global queue, and the timer thread
drops them (`ForeignRuns`, `TimerExpires`).

**SocketIo** has two timer entries, enough for one that a cancelled operation left
armed beside that of the next operation. `dangling` records that a descriptor was
closed with such an entry, whose handle it no longer had.

**IoContext.** A check is three steps, the load of `blocked_io`, the change of the
file's mode and the store, and the checks of two calls interleave. `shared` records
that the file has got a second object, or was taken over with a timeout its object
does not know, or that calls overlap which want different modes; each then undoes
what the other has set, and the model stops there.

**Calendar.** The reference for the conversions is the calendar of the C library
and of Windows, counted in days before a year; `leapyear` and `YTAB` are the code's
own and are not used in it. `offset` is `GLOBAL_OFFSET`, unknown until its first use
and never asked for again, while `zone` may change each day.

### Composition

What is built on a semaphore or a mutex is not composed with the code of
`Semphore` or `Mutex`, which would multiply the states, but with their contract.
`AbstractLock` and `AbstractSemaphore` say what a *call* may do: it waits,
succeeds only when the lock is free or a unit is there, or fails and takes
nothing. `SemphoreContract` says what a *client* can see in its own steps: the
counter, who is registered, the wake-ups that are owed, and the ghosts, blockers
of calls that gave up, whose wake-up is posted again. The code of `Semphore`
implements both: the run `semphore` checks it and `SemphoreProofs` proves it. `Channel` has two instances of the
contract. The mutexes in `RwLock`, `Condvar` and `WaitGroup` are instances with
one unit: the code of `Mutex` is that of a semaphore of one unit, with the
counter's sign turned. `WaitGroup` extends `Condvar` and shares its actions;
`Pool`, `Ticker` and `Blocking` take a channel for a sequence of messages, as
`Channel` justifies; `Cqueue` takes `join` as `Scoped` shows it; `SyncBtreeMap`
extends `SyncHashMap` and restates what differs.

Two assumptions cross module borders. `Condvar` relocks with cancellation
disabled, where the mutex is *not* a lock (run `mutex_ignore_cancel`): `Condvar`
and `WaitGroup` are right only as far as that case does not happen. And every
module but `SpawnStack` takes a coroutine to keep its own stack, which
`coroutine_impl.rs` does not provide (run `spawn_shared_stack`).

## Runs

`MCSync` and `MCData` instantiate many components each. Init picks one of them,
`which`, and only its actions are taken: the state space is the sum of theirs, and
each component's properties are checked on its own reachable states. The
components share the variables `v1`, `v2`, ...; the ones a component does not need
are `Off`. `MCSync` has the components with liveness properties, `MCData` those
whose properties are invariants, and its run takes the two `Peers`, which no
component tells apart, for symmetric.

| run | question | result |
|---|---|---|
| `mutex_cancel` | is the mutex a lock, with cancelled waiters? | holds, 22,218 states |
| `semphore` | are units neither lost nor multiplied, and is the contract kept? | holds, 96,543 states |
| `park` | does a coroutine that is unparked or cancelled run again? | holds, 341,788 states |
| `components_sync` | do the waiting components exclude, notify, enclose, and come back? | holds, 500,512 states |
| `components_data` | is nothing lost, used after it is freed, or delivered twice? | holds, 2,440,029 states |
| `mutex_ignore_cancel` | is the mutex a lock with cancellation disabled? | `MutualExclusion` violated |
| `park_lost_timeout` | does a park with a timeout end? | `TimedParkReturns` violated |
| `park_lost_cancel` | is a cancel also seen on a second Park? | `CancelWakes` violated |
| `channel_disconnect` | does the last sender send all receivers home? | `DisconnectWakesAll` violated |
| `cqueue_drop` | are all coroutines finished when the event queue is gone? | `AllFinished` violated |
| `once_cell_lost_wakeup` | does every call that waits for a cell come back? | `WaitersWake` violated |
| `spawn_shared_stack` | does a coroutine run the closure it was spawned with? | `RunsOwnClosure` violated |

### What `components_sync` checks

| component | bounds | properties |
|---|---|---|
| `RwLock` | 3 calls, 2 cancellable | `Exclusion`: whoever writes is alone. `CallsEnd`: each call ends, unless the drop of a read guard was cancelled, which leaves the reader counted for ever |
| `Condvar` | 2 waits, one of which may fail, 1 notifier | `NoLostNotify`: a notification that meets a wait which gives up is passed on, once |
| `WaitGroup` | 3 references, one may be cancelled | `NoEarlyReturn`, `WaitEnds` |
| `SyncFlag` | 2 waits that may fail, 1 fire | `NoEarlyReturn`: the flag is true exactly when fire has begun. `FireWakesAll` |
| `Scoped` | 2 children; panics, one cancel | `ScopeEncloses`: when the scope is left no child runs, but for one that a cancelled parent was joining. `DropsEnd` |
| `Cqueue` | 2 select coroutines, one may panic; the owner may be cancelled | `ScopeEncloses`: when the drop comes to its end the closures are over; a drop that a closure's panic or the owner's cancellation cuts short promises nothing. `DropsEnd`: every drop ends, in one of these ways or with the process |
| `Scheduler` | 2 workers, a thread that is none, 2 coroutines, one sleeps | `SomeReadyRuns`: while coroutines are ready, one runs again and again, with a wrong parked mask and missed wake-ups, unless two threads pushed into one deque at once; coroutines in the global queue that are pinned to no worker do not count as ready |
| `TimerList` | 2 timers (one deleted) in one or two lists, 2 ticks | `TimersFire` |

Two of each kind of actor, and a third that competes, reach the cases the code is
written for: a wait that gives up between the pop and the unpark of its waker,
with another one to take over; the first and the last reader with a writer between
them; a child that ends at any point of the parent's registration; a timer that is
added when its list has just been taken off the heap.

### What `components_data` checks

| component | bounds | properties |
|---|---|---|
| `Channel` | 2 senders, 2 receivers, limit 1, 5 calls, one of each may fail; clones and drops | `UnitsAreMessages`: a receiver with a unit finds a message; the limit is exceeded by one message per sender at most. `NobodyStuck`: no lost wake-up |
| `Pool`, `Ticker`, `Blocking` | 4 tasks, 2 runs, 1 worker; 2 callers of stop and reset; 3 calls | `ChannelUsersServed` |
| `OnceCell` | 3 calls, one init function may panic, one waiter may be cancelled | `CellFilledOnce`: one init at a time and none after success; the walk over the waiters touches nodes that are there, or those of cancelled waiters |
| `SocketIo` | 1 descriptor on kqueue, selector, worker, canceller, 2 timers | `IoWakesUp`, `IoDataAlive`: a closed descriptor's data outlive the events and timers that name them, but for `dangling` timers |
| `Iocp` | 3 operations on one handle, 2 ports, canceller, timer | `IoWakesUp`, `IoDataAlive`: an operation does not end while subscribe uses it, unless its coroutine is cancelled while it waits for that |
| `IoContext` | 2 objects on one file, 2 callers | `ModeFollowsCaller`, until the file is `shared` |
| `Generator` | 2 threads, 2 coroutines, 2 inner generators | `GeneratorsIntact`: parent pointers are the calls |
| `Stack` | 4 sizes, 2 closures, 3 systems | `GeneratorsIntact`: values aligned and apart, words and stack given back |
| `SegQueue`, `ArrayQueue` | 4 pushes and 3 pops on blocks of 3; 3 and 3 on 2 slots | `QueuesDeliver` |
| `MpscList`, `EntryList` | 3 pushes | `QueuesDeliver`; for `EntryList` the order of the pops always, the life of the nodes while no drop of an entry overlaps the pop of its node |
| `SyncHashMap`, `SyncBtreeMap`, `SyncVec` | 2 callers, 2 keys, 3 values | `CopiesAgree`, but for values replaced in place |
| `Calendar` | 3 years, 2 zones that may change each day, 3 systems | `MomentsKept`, with the exceptions the properties name (day of the year on Windows, name of December, local times after the zone has changed) |

A block of three slots and positions that start near the end of a lap reach the
installation of a new block, its hand-over between slow readers and the wrap of
the stamps. kqueue may report two events of a descriptor in a batch, epoll one, so
that kqueue is the larger case. The years are a leap year, a leap century and a
century that is none, day by day.

Where the code is known to break a property in one case, the property names the
case as an exception or the instance leaves it out (`CanPanic = {}` of `RwLock`),
and the rest is still checked; the hazard list says which. These are the cases where
the code promises less than one might expect:

- A cancelled waiter of a lazy cell leaves its node, which lies on its stack, in the
  queue; the walk of `imp_std.rs:229-241` then reads memory that is gone
  (`WalkFreed`).
- The wait of a `DelayDrop` is a loop of `yield_now`, which panics in a cancelled
  coroutine: the operation goes out of scope under a subscribe that still uses it.
- A cancelled I/O operation does not take its timer back. If the next operation
  stores its own handle, the close of the descriptor removes that one only, and the
  other may fire into data that is gone.
- `CoIo::ctx_check` (`io/sys/unix/co_io.rs:105-108`) forgets the answer of
  `check_nonblocking`. A thread that has called `set_nonblocking(true)` on a unix
  socket (`os/unix/net.rs:227`, `468`, `1025`) makes blocking calls all the same, and
  nothing is claimed of them.
- The drop of an entry of `mpsc_list_v1.rs` together with the pop of its node may
  free the node twice, or never; `mpsc_list_v1.rs:127` forbids it.
- Coroutines pinned to a thread that is no worker stay in the global queue for ever.
- In a map, `insert` on an existing key changes the locked half only; readers keep
  the copy of a value that has been dropped.
- After a change to or from summer time, `Time::local` and `Time::now` show the
  offset of the first use.

### The other bounds

Three calls of the mutex are a holder, a waiter being handed the lock and one that
competes with both. In the semaphore three waits, one of which may fail, and two
posts on no units reach two concurrent poppers, a waiter popped before it counted
itself, and a wait that stays without a unit. The mutex was also checked with four calls
(915,299 states). Two parks on a Park reach the wait for the previous frame and a
stale timer; three were checked as well (1,504,278 states). A second Park only adds
the case of `park_lost_cancel`.

Deadlock is not checked where behaviours end: in `MCSync` and `MCData`, whose
components have bounded numbers of calls, and in the runs that look for a state
in which somebody is left behind.

### Fairness

Every started step of a call, a frame, a waker, a worker, the selector or the timer
thread is weakly fair: they are threads, or coroutines in a ready queue that
workers serve. A holder drops its guard, a child comes to its end, time passes, and
`epoll_wait` returns at its timeout. Nobody is obliged to park, unpark, post, fire
or cancel, and no timeout or cancellation is needed for the liveness properties. In
`MCSync` the steps of a process are fair as a whole, one condition per process of
the chosen component, and liveness has the form "again and again the state is
one where all have ended", which in behaviours that end is the same as "all end".

### What the runs show wrong

- `mutex.rs:100-113`: a waiter whose coroutine has disabled cancellation
  (`Condvar::wait_impl` does this around its `lock`) and which is cancelled
  raises `release` and parks again. Its waker hands it the lock and, seeing
  `release`, unlocks as well. Two calls then hold the lock.
- `park.rs:248-257`: the timer is armed before the coroutine is registered. If
  it fires in between, it finds `wait_co` empty and the timeout is lost.
- `park.rs:257-267`: a subscribe that is slow to reach `cancel.set_co` may
  replace the registration which the coroutine has since made on another Park;
  a later cancel then takes an empty `wait_co`.
- `channel.rs:185-195`: the last sender leaves one unit. Of two receivers that
  found the channel empty before and have not registered yet, one takes it and
  returns `Disconnected` without posting again; the other parks for ever.
- `cqueue.rs:143-147`: an `EventSender` counts itself down before it uses
  `to_wake`; the owner may see zero, finish the drop and free the queue first.
- `imp_std.rs:229-241`: the waiters of a cell are unparked before `signaled` is
  stored. A waiter that looks in between parks again, and nobody unparks it.
- `coroutine_impl.rs:322-345`: all coroutines are created at one place of the
  first worker's stack; one that is spawned before the last has run replaces it.

## Proofs

Seven modules prove safety for every size of the system; `CollectionLemmas` holds
what they share: what a push and a pop do to a queue without repetition, how the
size of a set changes when one element enters or leaves, and what each operation of
`SemphoreContract` does to the units of a semaphore. In each module there is one
lemma per action or group of actions, a lemma `NextInv` that puts them together,
and the theorems follow from the inductive invariant.

| module | theorem | says |
|---|---|---|
| `MutexProofs` | `InvAlways`, `TypeCorrect` | the baton invariant holds, types are kept |
| | `Exclusion`, `SingleConsumer`, `NeverNullBlocker`, `PoisonSafe` | the invariants of `mutex_cancel` |
| | `Refinement` | `Mutex` implements `AbstractLock` |
| `SemphoreProofs` | `InvAlways`, `UnitsBalanced` | the invariants of `semphore` |
| | `SemaphoreRefinement`, `ContractRefinement` | `Semphore` implements `AbstractSemaphore` and `SemphoreContract` |
| `ParkProofs` | `TypeCorrect`, `FrameInvAlways` | types and the handshake |
| | `FramesApartAlways`, `KernelLifetimeAlways`, `OkHasUnparkAlways` | the invariants of `park` |
| `RwLockProofs` | `TypeCorrect`, `ExclusionUnlessPoisoned`, `ExclusionAlways` | a writer is alone, until a writer panics |
| `CondvarProofs` | `NotifyNotLost` | `NoLostNotify` of the condition variable |
| | `WaitReturnsLast` | `WaitsForAll` of the wait group |
| `SyncFlagProofs` | `TypeCorrect`, `FlagIsFireAlways` | the counter fits, and the flag is the fire |
| `ChannelProofs` | `InvAlways`, `TypeCorrect` | units, messages and room balance |
| | `UnitHasMessageAlways`, `LimitBoundAlways`, `NobodyStuckAlways` | the invariants of the channel |

### Assumptions

All sets of calls, handles, Parks and unparkers are finite but of any size, and any
wait may fail unless said otherwise. `Condvar` needs no assumption. Beyond that:

- `MutexProofs`: `Disabled = {}`, since with cancellation disabled exclusion does
  not hold (run `mutex_ignore_cancel`).
- `ParkProofs`: no actor is both an unparker and a canceller, and the names of the
  coroutine's places are not names of Parks. Any number of calls, any nesting.
- `ExclusionAlways` of the RwLock: no holder panics. `ExclusionUnlessPoisoned`
  allows panics and speaks of the states before a writer's panic; after it a call
  whose `try_lock` fails on a lock that is held takes the poison for the lock.
- `SyncFlagProofs`: fewer calls than `isize::MAX`, for each of them may take one
  off the counter which `fire` sets to `isize::MAX`.
- `ChannelProofs`: the two first handles exist, and no handle is both a sender and
  a receiver.
- `RwLockProofs`, `CondvarProofs` and `ChannelProofs` are about clients of
  `SemphoreContract`, as the modules are; `ContractRefinement` is what entitles the
  channel to it, and the mutexes of the others as far as "Composition" says.

### Arguments

**Mutex.** Mutual exclusion is not inductive by itself: between `unlock` and the
moment a waiter returns from `park`, nobody holds the lock and yet it is not free.
`Baton(x)` says that `x` is responsible for the lock: it holds it, is unlocking or
waking someone, or is a waiter that has been unparked, including one that gave up
as long as its `release` flag is up. `Inv` says that there is at most one baton
(`OneBaton`); that `cnt` is the number of counted waiters in the queue plus one for
the baton, except while the baton's unit is owed (`CntOK`); that the queue holds
each waiter once and only before it is unparked (`QueueOK`); that every waiter is
queued, about to be unparked or unparked (`RegisteredOK`); what a waker may assume
of its target (`TargetOK`); and which flags go with which step (`CallOK`). The
refinement adds that a call acquires only when there is no other holder
(`AcquireWhenFree`).

**Semphore.** With several units there are several batons, so the invariant
counts. `UnitCount`: the units there were and those posted are the units taken,
available, being moved by a call, or handed to a waiter that has not returned.
`QueueCount`: the counted waiters in the queue are those the negative counter
counts, those somebody is about to pop, and one for each waiter that was popped
before it counted itself. Two conjuncts beyond the mutex's were found missing by
the proof attempts: a waiter that was handed a unit keeps its token until its park
returns (`TokenOK`), without which a quiet state might hide a unit, and a wait that
gave up before the unpark was published has a waker that will look at its flag
(`ReleaseOK`). They also showed that a wait that gave up stays in `cnt` until a post
finds its blocker, which `UnitsBalance` now says. The refinement of
`AbstractSemaphore` maps the units not taken to its value; that of
`SemphoreContract` maps moved and handed units to the wake-ups owed, and calls that
post again or have `release` up to ghosts.

**Park.** `FrameInv` says where the coroutine is (`Located`), which frames wait for
what is nested in them (`Nested`), and the handshake of the generation bit
(`Handshake`): a call flips it twice, once when the coroutine comes back and once
when the frame ends, in either order, so that the bit says whether the frame of the
last call is still there as long as `wait_kernel` is set. `OkHasUnpark` is an
account: `Credit` adds to the returns with Ok the one the woken coroutine will make,
the tokens that are set and the unparkers that have not woken anybody yet, and this
is at most two for each time a token was set. `Reasons` says why the coroutine is
awake: a wake-up without a result came from an unpark.

**RwLock.** The readers together hold the global lock from the first count to the
last uncount (`ReadersHaveLock`), including read guards whose drop was cancelled,
which stay counted. `rlock` and the global lock have a unit exactly when nobody has
them (`RLockInv`, `LockInv`), and the count does not change while the first reader
waits for the global lock under `rlock` (`CountInv`).

**Condvar and WaitGroup.** `note` follows what becomes of the notification a wait
was given. `ClientInv` says that as long as it is not passed on somebody is about
to: the wait, awake or about to be, or the notifier that will find `release` set;
and that one of the two only does so. For the wait group the count is the number of
references not dropped, and a wait that has seen zero is past all of them.

**SyncFlag.** Before the first `fire` the counter is at most zero and nobody has
been woken; after it the counter is at least `isize::MAX` less one for each call
that may have counted itself late. `fire` may run again in calls that pass a
wake-up on, which resets the counter and keeps the bound.

**Channel.** `Slack` is the units of `wake_recv` in the semaphore, in the hands of
receivers and of senders about to post, less the messages: zero while there is a
sender, never negative while there is a receiver. `Room` is the messages, the units
of `wake_sender`, the receivers about to post one and the senders about to look at
the length or to push: while a sender waits it is at least the limit, so that a free
place is known to somebody. With a semaphore whose waits, less the wake-ups owed,
are what its negative counter counts (`Balanced`), nobody waits beside a unit, and
`NobodyStuck` follows.

The inductive invariants of `Mutex` and `Semphore` are also invariants of their runs;
those of the other components are stated in the proof modules.

## Only model-checked

- All liveness properties: the prover does not reason about fairness. Among them
  are `LockReturns`, `WaitReturns`, `UnparkWakes`, `CancelWakes` and those of
  `components_sync`.
- `ScopeEncloses`, and all of `components_data` but the channel: the lazy cells,
  I/O, generators, stacks, queues and containers. Nothing in them is beyond the
  prover as such; there is no inductive invariant for them yet. The lock-free queues
  need one that relates every block or slot to the calls on it.
- The calendar's loops and the fold over a queue's rest are inductions over data,
  which are out of the prover's reach.

## Not modelled

- Weak memory: all models are sequentially consistent. The queues' orderings are
  those of crossbeam, from which they were taken.
- The data behind a lock, in a message, or in a buffer; formatting and parsing,
  those of times included, which are calls of the `time` crate.
- `Once`: two loads, a store and the call. Two callers may both run the function
  and one may return before it has run, against the doc (`once.rs:18`,
  `once.rs:27`); nothing in the code makes the callers wait for each other, so
  there is no protocol to check.
- A reader of a container that runs during a write: a data race on the whole
  container, without an outcome that could be enumerated.
- Two waiters of one `JoinHandle`; `FastBlocker`; `Scope::defer` with other
  closures; `Condvar::verify`; the start of the scheduler; the drop of a
  channel's buffer and of `mpsc_list`.
- The zero duration that `AtomicDuration` turns into "no timeout"; the wait for a
  frame cut short by a cancel panic (`KernelLifetime` is about coroutines that are
  not cancelled).
- The register switch in assembly; coroutine-local storage, the unused coroutine
  pool, configuration, errors, `defer`, the unsync cells, stream wrappers, and the
  calls of `net` and `os` that only forward to the standard library.
