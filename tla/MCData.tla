------------------------------- MODULE MCData -------------------------------
(***************************************************************************)
(* The components whose properties are about what they hold: the channels, *)
(* cells and containers, the lock-free queues, the I/O of one descriptor   *)
(* on epoll or kqueue and on IOCP, the generators with their stacks, and   *)
(* the calendar.  Init picks one of them, which, and only its actions are  *)
(* taken, so that the state space is the sum of theirs.  The variables of  *)
(* the chosen one live in v1, v2, ...; the others are Off.                 *)
(***************************************************************************)
EXTENDS Integers, TLC

CONSTANTS Senders, Receivers,   \* handles, callers, coroutines, threads or keys
          FirstSender,          \* one of the Senders
          FirstReceiver,        \* one of the Receivers
          Peers,                \* callers or timers that no component tells apart
          Failing,              \* those of all these that may be cancelled or panic
          BufferLimit,          \* buffer_limit of the channel
          MaxCalls,             \* bound: calls of the handles of the channel
          worker_num,           \* worker_num of the pool
          MaxValues,            \* bound: values that a container is given
          Off, Null

VARIABLES which, v1, v2, v3, v4, v5, v6, v7, v8, v9, v10, v11, v12, v13, v14

Givers == Senders \cup (Receivers \ {FirstReceiver})
Takers == Peers \cup {FirstReceiver}

CH == INSTANCE Channel WITH CanFail <- Failing,
    len <- v1, wake_recv <- v2, wake_sender <- v3, sender_num <- v4, receiver_num <- v5,
    pc <- v6, calls <- v7

OC == INSTANCE OnceCell WITH Calls <- Takers, CanPanic <- Failing, Cancelable <- Failing,
    lazy <- v1, kind <- v2, init <- v3, outcome <- v4, state <- v5, pc <- v6, queue <- v7,
    value <- v8, next <- v9, signaled <- v10, token <- v11, cur <- v12, walk <- v13, after <- v14

PL == INSTANCE Pool WITH Tasks <- Senders \cup Receivers, Runs <- Peers, waiter_num <- 2,
    idle <- v1, closed <- v2, task <- v3, closer <- v4, run <- v5, got <- v6, current <- v7, home <- v8

TK == INSTANCE Ticker WITH Calls <- Peers, Tick <- FirstReceiver, MaxTicks <- 2,
    d <- v1, tick <- v2, lock <- v3, ticks <- v4, call <- v5, stopped <- v6

BL == INSTANCE Blocking WITH Calls <- Takers, MaxPanics <- 2,
    hook <- v1, chan <- v2, thread <- v3, outcome <- v4, result <- v5, disturbed <- v6

\* kqueue may report two events of a descriptor at once, epoll one.
IO == INSTANCE SocketIo WITH Sel <- FirstSender, Workers <- Senders \ {FirstSender},
    Canceller <- FirstReceiver, System <- "kqueue", MaxAvail <- 1, Timers <- Peers,
    ev <- v1, armed <- v2, alive <- v3, cancel <- v4, para <- v5, kernel <- v6, op <- v7, pc <- v8,
    dangling <- v9, batch <- v10, th <- v11

\* Handle 4 uses port 1 and timer list 0.
CP == INSTANCE Iocp WITH N <- 2, Handle <- 4, Canceller <- FirstReceiver, MaxOps <- 3,
    ev <- v1, ov <- v2, guard <- v3, armed <- v4, cancel <- v5, para <- v6, op <- v7, pc <- v8,
    host <- v9, th <- v10, wild <- v11

CX == INSTANCE IoContext WITH Objects <- Senders, Callers <- Peers, Durations <- {0, 1},
    os <- v1, kind <- v2, file <- v3, obj <- v4, call <- v5, shared <- v6

GN == INSTANCE Generator WITH Threads <- Senders, Coroutines <- Receivers, Inner <- Peers,
    parent <- v1, f <- v2, ref <- v3, err <- v4, unwinding <- v5, held <- v6, calls <- v7, kept <- v8

\* 4096 words are more than unix allows; the bytes of 131585 words wrap.
ST == INSTANCE Stack WITH PageSize <- 4096, UsizeMax <- 1048575, StackLimit <- 16384,
    Sizes <- {511, 1024, 4096, 131585}, GenLayout <- [size |-> 384, align |-> 128],
    Closures <- {[size |-> 0, align |-> 1], [size |-> 200, align |-> 64]},
    os <- v1, arch <- v2, map <- v3, stack <- v4, offset <- v5, gen <- v6, f <- v7, regs <- v8,
    pattern <- v9, low <- v10, st <- v11, isReset <- v12, lost <- v13

SQ == INSTANCE SegQueue WITH Pushers <- Senders, Each <- 2, Pops <- Takers, LAP <- 4,
    head <- v1, tail <- v2, blocks <- v3, q <- v4

AQ == INSTANCE ArrayQueue WITH Pushes <- Givers, Pops <- Takers, Cap <- 2,
    head <- v1, tail <- v2, buffer <- v3, q <- v4

ML == INSTANCE MpscList WITH Pushes <- Takers, MaxPops <- 4,
    head <- v1, tail <- v2, nodes <- v3, q <- v4, popper <- v5, popped <- v6

EL == INSTANCE EntryList WITH Pushes <- Takers, Stub <- FirstSender,
    node <- v1, freed <- v2, head <- v3, tail <- v4, pc <- v5, my <- v6, cpc <- v7, old <- v8,
    ref <- v9, order <- v10, popped <- v11, removed <- v12, raced <- v13, early <- v14

HM == INSTANCE SyncHashMap WITH Callers <- Peers, Keys <- Receivers,
    read <- v1, dirty <- v2, lock <- v3, poisoned <- v4, call <- v5, pc <- v6, made <- v7,
    dropped <- v8, twice <- v9, changed <- v10

BM == INSTANCE SyncBtreeMap WITH Callers <- Peers, Keys <- Receivers,
    read <- v1, dirty <- v2, lock <- v3, poisoned <- v4, call <- v5, pc <- v6, made <- v7,
    dropped <- v8, twice <- v9, changed <- v10, wild <- v11

VC == INSTANCE SyncVec WITH Callers <- Peers,
    read <- v1, dirty <- v2, lock <- v3, poisoned <- v4, call <- v5, pc <- v6, made <- v7,
    dropped <- v8, shown <- v9

\* A leap year, a leap century and a century that is none.
CA == INSTANCE Calendar WITH Years <- {1972, 2000, 2100}, Zones <- {0, -36000},
    sys <- v1, zone <- v2, ts <- v3, offset <- v4, t <- v5

\* The components are the same for every order of the peers.
PeerSymmetry == Permutations(Peers)

-----------------------------------------------------------------------------
from14 == <<v14>>
from12 == <<v12, v13, from14>>
from11 == <<v11, from12>>
from10 == <<v10, from11>>
from9 == <<v9, from10>>
from8 == <<v8, from9>>
from7 == <<v7, from8>>
from6 == <<v6, from7>>
from5 == <<v5, from6>>
vars == <<which, v1, v2, v3, v4, from5>>

Off14 == v14 = Off
Off12 == v12 = Off /\ v13 = Off /\ Off14
Off11 == v11 = Off /\ Off12
Off10 == v10 = Off /\ Off11
Off9 == v9 = Off /\ Off10
Off8 == v8 = Off /\ Off9
Off7 == v7 = Off /\ Off8
Off6 == v6 = Off /\ Off7
Off5 == v5 = Off /\ Off6

Init ==
    \/ which = "channel" /\ CH!Init /\ Off8
    \/ which = "pool" /\ PL!Init /\ Off9
    \/ which = "ticker" /\ TK!Init /\ Off7
    \/ which = "blocking" /\ BL!Init /\ Off7
    \/ which = "once_cell" /\ OC!Init
    \/ which = "socket_io" /\ IO!Init /\ Off12
    \/ which = "iocp" /\ CP!Init /\ Off12
    \/ which = "io_context" /\ CX!Init /\ Off7
    \/ which = "generator" /\ GN!Init /\ Off9
    \/ which = "stack" /\ ST!Init /\ Off14
    \/ which = "seg_queue" /\ SQ!Init /\ Off5
    \/ which = "array_queue" /\ AQ!Init /\ Off5
    \/ which = "mpsc_list" /\ ML!Init /\ Off7
    \/ which = "entry_list" /\ EL!Init
    \/ which = "hash_map" /\ HM!Init /\ Off11
    \/ which = "btree_map" /\ BM!BtreeInit /\ Off12
    \/ which = "vec" /\ VC!Init /\ Off10
    \/ which = "calendar" /\ CA!Init /\ Off6

Next ==
    /\ UNCHANGED which
    /\ \/ which = "channel" /\ CH!Next /\ UNCHANGED from8
       \/ which = "pool" /\ PL!Next /\ UNCHANGED from9
       \/ which = "ticker" /\ TK!Next /\ UNCHANGED from7
       \/ which = "blocking" /\ BL!Next /\ UNCHANGED from7
       \/ which = "once_cell" /\ OC!Next
       \/ which = "socket_io" /\ IO!Next /\ UNCHANGED from12
       \/ which = "iocp" /\ CP!Next /\ UNCHANGED from12
       \/ which = "io_context" /\ CX!Next /\ UNCHANGED from7
       \/ which = "generator" /\ GN!Next /\ UNCHANGED from9
       \/ which = "stack" /\ ST!Next /\ UNCHANGED from14
       \/ which = "seg_queue" /\ SQ!Next /\ UNCHANGED from5
       \/ which = "array_queue" /\ AQ!Next /\ UNCHANGED from5
       \/ which = "mpsc_list" /\ ML!Next /\ UNCHANGED from7
       \/ which = "entry_list" /\ EL!Next
       \/ which = "hash_map" /\ HM!Next /\ UNCHANGED from11
       \/ which = "btree_map" /\ BM!BtreeNext /\ UNCHANGED from12
       \/ which = "vec" /\ VC!Next /\ UNCHANGED from10
       \/ which = "calendar" /\ CA!Next /\ UNCHANGED from6

Spec == Init /\ [][Next]_vars

-----------------------------------------------------------------------------
\* Every variable of every component keeps to its type.
TypeOK ==
    /\ which = "channel" => CH!TypeOK
    /\ which = "pool" => PL!TypeOK
    /\ which = "ticker" => TK!TypeOK
    /\ which = "blocking" => BL!TypeOK
    /\ which = "once_cell" => OC!TypeOK
    /\ which = "socket_io" => IO!TypeOK
    /\ which = "iocp" => CP!TypeOK
    /\ which = "io_context" => CX!TypeOK
    /\ which = "generator" => GN!TypeOK
    /\ which = "seg_queue" => SQ!TypeOK
    /\ which = "array_queue" => AQ!TypeOK
    /\ which = "mpsc_list" => ML!TypeOK
    /\ which = "entry_list" => EL!TypeOK
    /\ which \in {"hash_map", "btree_map"} => HM!TypeOK
    /\ which = "vec" => VC!TypeOK

\* channel.rs:101-109, 151-157, 172-178.  The units of the semaphore stand for the
\* messages: a receiver with a unit never meets the unreachable! of recv and try_recv,
\* with any number of cancelled and timed-out receivers, and the senders, who look at
\* the length before they push, exceed the limit by one message each at most.
UnitsAreMessages == which = "channel" => CH!UnitHasMessage /\ CH!LimitBound

\* channel.rs:100-109, 142, 153.  No lost wake-up: when nothing is left to run, senders
\* are parked only while the buffer is full or the last receiver has gone, and
\* receivers only while it is empty.
NobodyStuck == which = "channel" => CH!NobodyStuck

\* pool/mod.rs:72-103, tick.rs:41-87, blocking/mod.rs:34-56.  What is built on a channel
\* keeps its word: a pool runs worker_num tasks at a time and no task gives up a place
\* that is not its own, no tick is sent after stop has returned, and spawn_blocking
\* returns what its function came to unless another thread's panic is sent to it.
ChannelUsersServed ==
    /\ which = "pool" => PL!WorkersBounded
    /\ which = "ticker" => TK!NoTickAfterStop
    /\ which = "blocking" => BL!AnswersItself

\* imp_std.rs:57-59, 84-86, 223-241.  One init function runs at a time and none after one
\* has succeeded, whoever is told of a value finds one, and the walk over the waiters
\* touches only nodes whose owner has not left wait, unless a cancel made it leave.
CellFilledOnce == which = "once_cell" => OC!InitializedOnce /\ OC!NodesAlive

\* socket_read.rs:27-85, epoll.rs:121-143, kqueue.rs:105-135, iocp.rs:122-189.  A suspended
\* coroutine that no thread is about to resume has nothing to do: its descriptor is not
\* ready or its request is pending, and it is not cancelled, whichever of readiness,
\* completion, timeout, cancel and the end of subscribe comes first.
IoWakesUp ==
    /\ which = "socket_io" => IO!NoLostWakeup
    /\ which = "iocp" => CP!NoLostCompletion

\* epoll.rs:188-236, mod.rs:62-82, delay_drop.rs:19-50.  What an event, a timer or subscribe
\* points to is still there: the EventData of a closed descriptor is freed between two
\* waits of the selector, when its timer has been taken back, and an operation does not
\* end before subscribe has dropped its guard.  A timer that a cancelled operation left
\* behind, and a coroutine cancelled while it waits for the guard, are the exceptions.
IoDataAlive ==
    /\ which = "socket_io" => IO!EventDataAlive
    /\ which = "iocp" => CP!SubscribeInScope

\* io/mod.rs:51-92, co_io.rs:37-38 ("this type can be used in coroutine context without
\* blocking the thread").  While one object has the file to itself and the calls it serves
\* at one time want one mode, no system call of a coroutine finds a blocking descriptor
\* and none of a thread a nonblocking one unless it asked for it, however the checks of
\* the calls interleave.
ModeFollowsCaller == which = "io_context" => CX!ModeFollowsCaller

\* rt.rs:230-262, stack/mod.rs:39-65, 123-129, 183-192, 422-432.  The parent pointers are
\* the calls, on each thread and inside each suspended generator, whichever context
\* yielded, panicked or was cancelled and whichever thread resumes it.  The values and
\* the first frame on a stack are aligned and apart, above the guard page; a function
\* that ended gives its words back, and the drop of a generator its whole stack.
GeneratorsIntact ==
    /\ which = "generator" => GN!LinksMatchCalls
    /\ which = "stack" => ST!StackLayout /\ ST!DropUnmapsAll

\* seg_queue.rs:96-380, 453-560, array_queue.rs:154-295, 377-472, mpsc_list.rs:46-97,
\* mpsc_list_v1.rs:71-330.  A pop returns the value of the push that claimed the same
\* place, each value is taken or dropped once, and nobody touches a block or node
\* that has been freed, if no Entry is dropped while its node is being popped.
QueuesDeliver ==
    /\ which = "seg_queue" => SQ!PopTakesPush /\ SQ!BlocksAlive /\ SQ!DropsTheRest
    /\ which = "array_queue" => AQ!PopTakesPush /\ AQ!DropsTheRest
    /\ which = "mpsc_list" => ML!PopTakesPush
    /\ which = "entry_list" => EL!NodesOwned /\ EL!PopsInOrder

\* sync_hash_map.rs:38-160, sync_btree_map.rs:82-161, std/vec/mod.rs:58-149.  While nobody
\* holds the lock the copy that readers see agrees with the one that writers change,
\* but for values replaced in place, and each value is dropped once.
CopiesAgree ==
    /\ which = "hash_map" => HM!ReadsAgree /\ HM!DroppedOnce
    /\ which = "btree_map" => BM!BtreeReadsAgree
    /\ which = "vec" => VC!ReadsAgree

\* sys/mod.rs:43-114, sys/stub.rs:13-63, sys/windows.rs:50-145, time.rs:27-50, 259-264.  The
\* calendar fields of the local time lead back to the same moment on every system, and
\* a local Time shows the same date, while the zone is the one of its first use.
MomentsKept == which = "calendar" => CA!LocalTimeRight /\ CA!TimesShowLocalDate
=============================================================================
