----------------------------- MODULE IoContext ------------------------------
(***************************************************************************)
(* The socket objects of net/tcp.rs, net/udp.rs, os/unix/net.rs and CoIo,  *)
(* and io/mod.rs, their blocking mode.  A call from a thread wants a       *)
(* blocking descriptor, one from a coroutine a nonblocking one; blocked_io *)
(* remembers the mode an object has set last.  The mode and SO_RCVTIMEO    *)
(* belong to the open file, which the object made by try_clone shares.     *)
(* Durations are in units of half a millisecond; writing times out as      *)
(* reading does.                                                           *)
(***************************************************************************)
EXTENDS Naturals

CONSTANTS Objects,     \* the objects on one open file
          Callers,
          Durations,   \* what callers pass for Some(Duration)
          Null         \* Option::None

VARIABLES
    os,      \* "unix" or "windows"
    kind,    \* the type of the objects
    file,    \* the open file: nonblock and its receive timeout
    obj,     \* each object: nonblocking, blocked_io, AtomicDuration in ms; or Null
    call,    \* what each caller does, on which object
    shared   \* two objects have used the file, or one that had set a timeout before this
             \* one, or calls that want different modes at once

vars == <<os, kind, file, obj, call, shared>>

Std == {"TcpStream", "TcpListener", "UdpSocket"}
OnCoIo == {"CoIo", "UnixStream", "UnixListener", "UnixDatagram"}
Idle == [at |-> "idle", obj |-> Null, co |-> FALSE, nb |-> FALSE, check |-> "context"]

TypeOK ==
    /\ os \in {"unix", "windows"} /\ kind \in Std \cup OnCoIo
    /\ file \in [nonblock : BOOLEAN, timeout : Nat \cup {Null}]
    /\ obj \in [Objects -> [nonblocking : BOOLEAN, blocked_io : BOOLEAN, timeout : Nat] \cup {Null}]
    /\ call \in [Callers -> [at : {"idle", "load", "set", "store", "thread", "co_direct", "co_io"},
                             obj : Objects \cup {Null}, co : BOOLEAN, nb : BOOLEAN,
                             check : {"nonblocking", "context"}]]
    /\ shared \in BOOLEAN

-----------------------------------------------------------------------------
(* AtomicDuration, in milliseconds; zero is None.                          *)

\* Mutant: part of a millisecond is cut off.
dur_to_ms_down(d) == d \div 2

dur_to_ms(d) == (d + 1) \div 2

Millis(d) == IF d = Null THEN 0 ELSE dur_to_ms(d)
AtomicDurationGet(ms) == IF ms = 0 THEN Null ELSE 2 * ms

-----------------------------------------------------------------------------
(* The constructors.  f is the file; the types of std set the mode before  *)
(* they register the file with the selector, CoIo after it.                *)

NewContext == [nonblocking |-> FALSE, blocked_io |-> TRUE]
Object(ms) == [nonblocking |-> NewContext.nonblocking, blocked_io |-> NewContext.blocked_io, timeout |-> ms]

SetNonblockingTrue(f) == [f EXCEPT !.nonblock = TRUE]

TcpStreamNew(f, registered) == SetNonblockingTrue(f)
TcpListenerNew(f, registered) == SetNonblockingTrue(f)
UdpSocketNew(f, registered) == SetNonblockingTrue(f)
CoIoNew(f, registered) == IF registered THEN SetNonblockingTrue(f) ELSE f
CoIoNewWindows(f, registered) == f      \* an overlapped handle has no such mode

NewFile(f, registered) ==
    CASE kind = "TcpStream" -> TcpStreamNew(f, registered)
      [] kind = "TcpListener" -> TcpListenerNew(f, registered)
      [] kind = "UdpSocket" -> UdpSocketNew(f, registered)
      [] kind \in OnCoIo /\ os = "unix" -> CoIoNew(f, registered)
      [] kind \in OnCoIo /\ os = "windows" -> CoIoNewWindows(f, registered)

\* connect, bind, pair, unbound or accept has made the file.
Init ==
    /\ os \in {"unix", "windows"}
    /\ kind \in IF os = "unix" THEN Std \cup OnCoIo ELSE Std \cup {"CoIo"}
    /\ file = NewFile([nonblock |-> FALSE, timeout |-> Null], TRUE)
    /\ \E h \in Objects : obj = [g \in Objects |-> IF g = h THEN Object(0) ELSE Null]
    /\ call = [c \in Callers |-> Idle]
    /\ shared = FALSE

-----------------------------------------------------------------------------
(* try_clone: what becomes of the file, and the timeout of the new object. *)

\* The clone is told the timeout of the object, which sets it for the file too.
TcpStreamTryClone(f, o) == [f |-> [f EXCEPT !.timeout = AtomicDurationGet(o.timeout)], ms |-> o.timeout]
UdpSocketTryClone(f, o) == [f |-> [f EXCEPT !.timeout = AtomicDurationGet(o.timeout)], ms |-> o.timeout]
TcpStreamTryCloneWindows(f, o) == [f |-> f, ms |-> o.timeout]
UdpSocketTryCloneWindows(f, o) == [f |-> f, ms |-> o.timeout]
TcpListenerTryClone(f, o) == [f |-> f, ms |-> 0]
UnixStreamTryClone(f, o) == [f |-> f, ms |-> 0]
UnixListenerTryClone(f, o) == [f |-> f, ms |-> 0]
UnixDatagramTryClone(f, o) == [f |-> f, ms |-> 0]

Cloned(f, o) ==
    CASE kind = "TcpStream" /\ os = "unix" -> TcpStreamTryClone(f, o)
      [] kind = "TcpStream" /\ os = "windows" -> TcpStreamTryCloneWindows(f, o)
      [] kind = "UdpSocket" /\ os = "unix" -> UdpSocketTryClone(f, o)
      [] kind = "UdpSocket" /\ os = "windows" -> UdpSocketTryCloneWindows(f, o)
      [] kind = "TcpListener" -> TcpListenerTryClone(f, o)
      [] kind = "UnixStream" -> UnixStreamTryClone(f, o)
      [] kind = "UnixListener" -> UnixListenerTryClone(f, o)
      [] kind = "UnixDatagram" -> UnixDatagramTryClone(f, o)

\* Registration may fail; on Windows it does, and that is ignored.
TryClone(h, g) ==
    /\ kind # "CoIo"
    /\ obj[h] # Null /\ obj[g] = Null
    /\ \E registered \in BOOLEAN :
          LET f == NewFile(file, registered) IN
          IF registered \/ os = "windows"
          THEN /\ file' = Cloned(f, obj[h]).f
               /\ obj' = [obj EXCEPT ![g] = Object(Cloned(f, obj[h]).ms)]
          ELSE file' = f /\ UNCHANGED obj
    /\ shared' = TRUE
    /\ UNCHANGED <<os, kind, call>>

\* into_raw_fd and from_raw_fd: the file keeps its timeout, the object does not.
FromRawFd(h) ==
    /\ obj[h] # Null /\ \A c \in Callers : call[c].obj # h
    /\ file' = NewFile(file, TRUE)
    /\ obj' = [obj EXCEPT ![h] = Object(0)]
    /\ shared' = (shared \/ file.timeout # Null)
    /\ UNCHANGED <<os, kind, call>>

-----------------------------------------------------------------------------
(* The options.                                                            *)

SetNonblocking(h) ==
    /\ obj[h] # Null
    /\ obj' = [obj EXCEPT ![h].nonblocking = ~@]
    /\ UNCHANGED <<os, kind, file, call, shared>>

\* The system refuses a zero duration.
SysThenOwn(h, d) ==
    /\ d # 0
    /\ file' = [file EXCEPT !.timeout = d]
    /\ obj' = [obj EXCEPT ![h].timeout = Millis(d)]

TcpStreamSetTimeout(h, d) == SysThenOwn(h, d)
UdpSocketSetTimeout(h, d) == SysThenOwn(h, d)
UnixStreamSetTimeout(h, d) == SysThenOwn(h, d)
UnixDatagramSetTimeout(h, d) == SysThenOwn(h, d)
CoIoSetTimeout(h, d) == obj' = [obj EXCEPT ![h].timeout = Millis(d)] /\ UNCHANGED file

SetTimeout(h, d) ==
    /\ obj[h] # Null
    /\ \/ kind = "TcpStream" /\ TcpStreamSetTimeout(h, d)
       \/ kind = "UdpSocket" /\ UdpSocketSetTimeout(h, d)
       \/ kind = "UnixStream" /\ UnixStreamSetTimeout(h, d)
       \/ kind = "UnixDatagram" /\ UnixDatagramSetTimeout(h, d)
       \/ kind = "CoIo" /\ CoIoSetTimeout(h, d)
    /\ UNCHANGED <<os, kind, call, shared>>

-----------------------------------------------------------------------------
(* A call makes one check or both, then its system calls.  A check loads   *)
(* blocked_io and, when that is not the mode it wants, calls f to set the  *)
(* mode of the file and stores blocked_io; calls interleave in between.    *)

\* The mode that the check of call k wants.
check_nonblocking(k) == TRUE
check_context(k) == k.co
Mode(k) == IF k.check = "nonblocking" THEN check_nonblocking(k) ELSE check_context(k)

\* ctx_check of CoIo makes both checks and forgets the first answer; on Windows it
\* makes only the second, whose f does nothing.
CoIoCtxCheck(k) == [k EXCEPT !.check = "context", !.at = "load"]
ChecksNonblocking == kind \in Std \/ os = "unix"
SetFile(mode) == IF ChecksNonblocking THEN [file EXCEPT !.nonblock = mode] ELSE file

\* Call k once its check is over.  In a coroutine the system call may be the first
\* of several, with the coroutine suspended in between.
Checked(k) ==
    IF k.check = "nonblocking"
    THEN IF kind \in Std THEN [k EXCEPT !.at = IF k.co THEN "co_direct" ELSE "thread"]
         ELSE CoIoCtxCheck(k)
    ELSE [k EXCEPT !.at = IF k.co THEN "co_io" ELSE "thread"]

\* The modes that the checks of call k want.
Modes(k) ==
    IF ~(k.nb /\ ChecksNonblocking) THEN {k.co}
    ELSE IF kind \in Std THEN {TRUE} ELSE {TRUE, k.co}

\* The first check reads the nonblocking option.
Enter(c, h, isCo) ==
    /\ call[c] = Idle /\ obj[h] # Null
    /\ LET nb == obj[h].nonblocking
           k == [at |-> "load", obj |-> h, co |-> isCo, nb |-> nb,
                 check |-> IF nb /\ ChecksNonblocking THEN "nonblocking" ELSE "context"]
       IN  /\ call' = [call EXCEPT ![c] = k]
           /\ shared' = (shared \/ \E d \in Callers :
                             call[d] # Idle /\ BOOLEAN \subseteq Modes(k) \cup Modes(call[d]))
    /\ UNCHANGED <<os, kind, file, obj>>

AfterLoad(c) ==
    call' = [call EXCEPT ![c] =
                IF obj[@.obj].blocked_io = Mode(@) THEN Checked(@) ELSE [@ EXCEPT !.at = "set"]]

\* Mutant: the mode is recorded before it is set.
LoadStores(c) ==
    /\ call[c].at = "load"
    /\ AfterLoad(c)
    /\ obj' = [obj EXCEPT ![call[c].obj].blocked_io = Mode(call[c])]
    /\ UNCHANGED <<os, kind, file, shared>>

Load(c) ==
    /\ call[c].at = "load"
    /\ AfterLoad(c)
    /\ UNCHANGED <<os, kind, file, obj, shared>>

\* f(mode)?
Set(c) ==
    /\ call[c].at = "set"
    /\ \/ file' = SetFile(Mode(call[c])) /\ call' = [call EXCEPT ![c].at = "store"]
       \/ UNCHANGED file /\ call' = [call EXCEPT ![c] = Idle]
    /\ UNCHANGED <<os, kind, obj, shared>>

Store(c) ==
    /\ call[c].at = "store"
    /\ obj' = [obj EXCEPT ![call[c].obj].blocked_io = Mode(call[c])]
    /\ call' = [call EXCEPT ![c] = Checked(@)]
    /\ UNCHANGED <<os, kind, file, shared>>

Return(c) ==
    /\ call[c].at \in {"thread", "co_direct", "co_io"}
    /\ call' = [call EXCEPT ![c] = Idle]
    /\ UNCHANGED <<os, kind, file, obj, shared>>

\* Nothing is claimed of a file that has been shared: the model goes no further.
Next ==
    /\ ~shared
    /\ \/ \E h \in Objects :
             \/ SetNonblocking(h) \/ FromRawFd(h)
             \/ \E d \in Durations \cup {Null} : SetTimeout(h, d)
             \/ \E g \in Objects : TryClone(h, g)
       \/ \E c \in Callers :
             \/ Load(c) \/ Set(c) \/ Store(c) \/ Return(c)
             \/ \E h \in Objects, isCo \in BOOLEAN : Enter(c, h, isCo)

Spec == Init /\ [][Next]_vars

-----------------------------------------------------------------------------
\* io/mod.rs:51-92, co_io.rs:37-38 ("this type can be used in coroutine context without
\* blocking the thread").  While one object has the file to itself, and the calls it
\* serves at one time want one mode, no system call of a coroutine finds a blocking
\* descriptor, none of a thread that asked for nothing finds a nonblocking one, and a
\* thread that asked for a nonblocking call of a type of std gets it, however the
\* checks of the calls interleave.  A coroutine waits for the timeout that the system
\* was told, rounded up.  What a thread asks of a CoIo or a unix socket is not in it:
\* co_io.rs:105-108 makes that call a blocking one.
ModeFollowsCaller ==
    ~shared =>
        /\ \A c \in Callers :
              /\ os = "unix" /\ call[c].at = "co_io" => file.nonblock
              /\ call[c].at = "co_direct" => file.nonblock
              /\ call[c].at = "thread" /\ ChecksNonblocking =>
                    /\ ~call[c].nb => ~file.nonblock
                    /\ call[c].nb /\ kind \in Std => file.nonblock
        /\ kind # "CoIo" => \A h \in Objects : obj[h] # Null =>
              /\ (obj[h].timeout = 0) = (file.timeout = Null)
              /\ file.timeout # Null => 2 * obj[h].timeout >= file.timeout
=============================================================================
