-------------------------------- MODULE Stack -------------------------------
(***************************************************************************)
(* The memory of one generator of mco-gen: the stack it is allocated on    *)
(* (stack/mod.rs, stack/unix.rs, stack/windows.rs), the boxes put at the   *)
(* top of it (StackBox, Func), the first frame (detail/ARCH.rs) and what   *)
(* becomes of them over the life of the generator (gen_impl.rs).           *)
(* Addresses and sizes are bytes, offsets are words as in the code.  What  *)
(* the code of the generator does to its stack is the lowest address that  *)
(* it touches.  Values are left out.                                       *)
(***************************************************************************)
EXTENDS Integers, FiniteSets, TLC

CONSTANTS PageSize,     \* a power of two
          UsizeMax,     \* usize::MAX
          StackLimit,   \* RLIMIT_STACK, or UsizeMax when there is none
          Sizes,        \* stack sizes asked for, in words
          GenLayout,    \* [size, align] of the GeneratorImpl
          Closures,     \* the layouts of the closures
          Null

Word == 8
HeaderBytes == 32                       \* size_of::<StackBoxHeader>
HEADER_SIZE == HeaderBytes \div Word
Systems == {"unix", "windows"}
Archs == {"x86_64", "x86_64_windows", "aarch64", "arm", "loongarch64", "riscv64"}

VARIABLES
    os,        \* the system, and
    arch,      \* the machine
    map,       \* the addresses the system has mapped: lo .. hi - 1
    stack,     \* SysStack of the generator: top and bottom
    offset,    \* the word below the top, kept for each top there has been
    gen,       \* the StackBox of the GeneratorImpl
    f,         \* the Func box
    regs,      \* the stack pointer and the words of the first frame
    pattern,   \* how many words from the bottom hold the 0xEE pattern
    low,       \* the lowest address written since then
    st,        \* where the generator is
    isReset,   \* the stack was reset before it was used
    lost       \* history: words of functions that an overflow left behind

vars == <<os, arch, map, stack, offset, gen, f, regs, pattern, low, st, isReset, lost>>

Max2(a, b) == IF a < b THEN b ELSE a
Min2(a, b) == IF a < b THEN a ELSE b
RoundUp(n, a) == ((n + a - 1) \div a) * a
Wrap(n) == n % (UsizeMax + 1)

-----------------------------------------------------------------------------
(* SysStack and Stack.                                                     *)

page_size == PageSize
min_stack_size == page_size
unix_max_stack_size == StackLimit
windows_max_stack_size == UsizeMax
max_stack_size == IF os = "unix" THEN unix_max_stack_size ELSE windows_max_stack_size

\* The system maps size bytes; the lowest page of them then becomes the guard.
mmap(size) == [lo |-> page_size, hi |-> page_size + size]
VirtualAlloc(size) == [lo |-> page_size, hi |-> page_size + size]
allocate_stack(size) == IF os = "unix" THEN mmap(size) ELSE VirtualAlloc(size)

mprotect(m) == [top |-> m.hi, bottom |-> m.lo + page_size]
VirtualProtect(m) == [top |-> m.hi, bottom |-> m.lo + page_size]
protect_stack(m) == IF os = "unix" THEN mprotect(m) ELSE VirtualProtect(m)

\* The whole size of a protected stack; 0 when ExceedsMaximumSize.
allocate(bytes) ==
    LET rounded == ((Max2(bytes, min_stack_size) - 1) \div page_size) * page_size
        size == rounded + 2 * page_size
    IN  IF size <= UsizeMax /\ size <= max_stack_size THEN size ELSE 0

SizeOf(s) == (s.top - s.bottom) \div Word       \* Stack::size
get_offset(s) == offset[s.top]
EndOf(s, off) == s.top - off * Word             \* Stack::end

\* Stack::new: an odd size asks for the whole footprint.
New(words) ==
    LET size == allocate(Max2(Wrap(words * Word), min_stack_size)) IN
    /\ st = "start"
    /\ IF size = 0
       THEN st' = "panic" /\ UNCHANGED <<map, stack, offset, pattern, low>>
       ELSE LET m == allocate_stack(size)
                s == protect_stack(m)
            IN  /\ st' = "stack"
                /\ map' = m
                /\ stack' = s
                /\ offset' = (s.top :> 1)
                /\ pattern' = IF words % 2 = 1 THEN SizeOf(s) ELSE 8
                /\ low' = s.top - Word
    /\ UNCHANGED <<os, arch, gen, f, regs, isReset, lost>>

\* Stack::reset of a shadow clone: zeroes as many bytes below the top as there are
\* words, the offset of the whole stack with them, and adds that number of bytes to
\* the bottom for the new top.
Reset ==
    LET new == [stack EXCEPT !.top = stack.bottom + SizeOf(stack)] IN
    /\ st = "stack"
    /\ ~isReset
    /\ isReset' = TRUE
    /\ stack' = new
    /\ offset' = (new.top :> 1) @@ (stack.top :> 0)
    /\ pattern' = 8
    /\ low' = new.top - Word
    /\ UNCHANGED <<os, arch, map, gen, f, regs, st, lost>>

\* munmap takes the whole pages from lo on, VirtualFree the whole allocation.
munmap(m, lo, size) ==
    LET end == lo + RoundUp(size, page_size) IN
    IF end < m.hi THEN [m EXCEPT !.lo = end]
    ELSE IF lo > m.lo THEN [m EXCEPT !.hi = lo] ELSE [lo |-> 0, hi |-> 0]
VirtualFree(m, lo) == IF lo = m.lo THEN [lo |-> 0, hi |-> 0] ELSE m
deallocate_stack(m, lo, size) == IF os = "unix" THEN munmap(m, lo, size) ELSE VirtualFree(m, lo)

\* Mutant: the guard page is not counted.
DropStackKeepsGuard(m, s) == deallocate_stack(m, s.bottom, s.top - s.bottom)

drop_stack(m, s) ==
    deallocate_stack(m, s.bottom - page_size, s.top - s.bottom + page_size)

\* get_used_size looks for the first word from the bottom without the pattern.
get_used_size ==
    SizeOf(stack) - Min2(pattern, Max2(0, (low - stack.bottom) \div Word))

-----------------------------------------------------------------------------
(* StackBox and Func.                                                      *)

\* Mutant: no padding to the alignment.
new_uninit_unpadded(layout, off) ==
    LET size == RoundUp(layout.size, HeaderBytes) \div Word IN
    [ptr |-> EndOf(stack, off + size), data |-> size, layout |-> layout, off |-> off + size + HEADER_SIZE]

\* data is rounded up and padded so that the offset is a multiple of the alignment;
\* the header lies below it.
new_uninit(layout, off) ==
    LET align == Max2(layout.align, HeaderBytes)
        size == RoundUp(layout.size, align) \div Word
        u_align == align \div Word
        pad_size == u_align - ((off + size) % u_align)
        data_size == size + pad_size
    IN  [ptr |-> EndOf(stack, off + data_size), data |-> data_size, layout |-> layout,
         off |-> off + data_size + HEADER_SIZE]

Header(b) == b.ptr - HeaderBytes
BoxWords(b) == b.data + HEADER_SIZE

\* Mutant: the function is consumed and its words are not given back.
DropFuncLeaks(off) == off

\* Func::drop, when the closure was called or is dropped uncalled.
DropFunc(off) == IF f = Null THEN off ELSE off - BoxWords(f)

-----------------------------------------------------------------------------
(* initialize_call_frame of each machine: sp is the saved stack pointer,   *)
(* words the number of words written above it, entry where the address of  *)
(* bootstrap_green_task is found.                                          *)

align_down(a) == (a \div 16) * 16

CallFrameX86(end) == [sp |-> align_down(end) - 2 * Word, words |-> 2, entry |-> "stack"]
CallFrameX86Windows(end) == [sp |-> align_down(end) - 2 * Word, words |-> 2, entry |-> "stack"]
CallFrameAarch64(end) == [sp |-> align_down(end), words |-> 0, entry |-> "lr"]
CallFrameArm(end) == [sp |-> align_down(end), words |-> 0, entry |-> "lr"]
CallFrameLoongarch(end) == [sp |-> align_down(end), words |-> 0, entry |-> "ra"]
CallFrameRiscv(end) == [sp |-> align_down(end), words |-> 0, entry |-> "ra"]

initialize_call_frame(end) ==
    CASE arch = "x86_64" -> CallFrameX86(end)
      [] arch = "x86_64_windows" -> CallFrameX86Windows(end)
      [] arch = "aarch64" -> CallFrameAarch64(end)
      [] arch = "arm" -> CallFrameArm(end)
      [] arch = "loongarch64" -> CallFrameLoongarch(end)
      [] arch = "riscv64" -> CallFrameRiscv(end)

-----------------------------------------------------------------------------
Init ==
    /\ os \in Systems
    /\ arch \in IF os = "windows" THEN {"x86_64_windows"} ELSE Archs \ {"x86_64_windows"}
    /\ map = [lo |-> 0, hi |-> 0]
    /\ stack = [top |-> 0, bottom |-> 0]
    /\ offset = (0 :> 0)
    /\ gen = Null /\ f = Null
    /\ regs = [sp |-> 0, words |-> 0, entry |-> "none"]
    /\ pattern = 0 /\ low = 0
    /\ st = "start"
    /\ isReset = FALSE
    /\ lost = 0

Fits(off) == off < SizeOf(stack)

\* GeneratorImpl::new.  Nothing checks that the box fits: one that does not is
\* written into the guard page, or below it.
NewGenerator ==
    LET b == new_uninit(GenLayout, get_offset(stack)) IN
    /\ st = "stack"
    /\ IF Fits(b.off)
       THEN /\ st' = "new"
            /\ gen' = b
            /\ offset' = [offset EXCEPT ![stack.top] = b.off]
            /\ low' = Header(b)
       ELSE st' = "overflow" /\ UNCHANGED <<gen, offset, low>>
    /\ UNCHANGED <<os, arch, map, stack, f, regs, pattern, isReset, lost>>

\* init_code of a new or done generator, or one that is not started yet: drops the
\* last function, puts the new one on the stack and sets up its frame.
InitCode(layout) ==
    LET b == new_uninit(layout, DropFunc(get_offset(stack)))
        frame == initialize_call_frame(EndOf(stack, b.off))
    IN  /\ st \in {"new", "ready", "done", "stack_err"}
        /\ IF Fits(b.off + 4)
           THEN /\ st' = "ready"
                /\ f' = b
                /\ offset' = [offset EXCEPT ![stack.top] = b.off]
                /\ regs' = frame
                /\ low' = Min2(low, frame.sp)
           ELSE st' = "overflow" /\ UNCHANGED <<f, offset, regs, low>>
        /\ UNCHANGED <<os, arch, map, stack, gen, pattern, isReset, lost>>

\* guard::current: from the guard page up to the end the code was given.
guard == stack.bottom - page_size .. EndOf(stack, get_offset(stack)) - 1

\* The handlers of the fault at a: the coroutine ends with StackErr, or the process.
signal_handler(a) == IF a \in guard THEN "stack_err" ELSE "abort"
vectored_handler(a) == IF a \in guard THEN "stack_err" ELSE "abort"
Fault(a) == IF os = "unix" THEN signal_handler(a) ELSE vectored_handler(a)

\* The code runs down to address a and yields, or ends, with or without a panic.  A
\* write to the guard page ends it with StackErr and without unwinding: its function
\* stays on the stack.
Run(a) ==
    /\ st \in {"ready", "suspended"}
    /\ a < regs.sp
    /\ IF a < stack.bottom
       THEN /\ st' = Fault(a)
            /\ low' = stack.bottom
            /\ lost' = lost + BoxWords(f)
            /\ f' = Null
            /\ UNCHANGED offset
       ELSE /\ low' = Min2(low, a)
            /\ \/ st' = "suspended" /\ UNCHANGED <<f, offset>>
               \/ /\ st' = "done"
                  /\ f' = Null
                  /\ offset' = [offset EXCEPT ![stack.top] = DropFunc(@)]
            /\ UNCHANGED lost
    /\ UNCHANGED <<os, arch, map, stack, gen, regs, pattern, isReset>>

\* Drop of the StackBox: its words, then the GeneratorImpl, which cancels code that
\* is suspended, reports an overflow and drops the function, then the stack.  While
\* the thread panics nothing is cancelled or reported.
DropGenerator(panicking) ==
    /\ st \in {"ready", "suspended", "done", "stack_err"}
    /\ offset' = [offset EXCEPT ![stack.top] =
                     IF st = "suspended" /\ panicking THEN @ - BoxWords(gen)
                     ELSE DropFunc(@ - BoxWords(gen))]
    /\ gen' = Null /\ f' = Null
    /\ IF ~panicking /\ st # "ready" /\ get_used_size >= SizeOf(stack)
       THEN st' = "reported" /\ UNCHANGED map
       ELSE st' = "dropped" /\ map' = drop_stack(map, stack)
    /\ UNCHANGED <<os, arch, stack, regs, pattern, low, isReset, lost>>

Next ==
    \/ \E words \in Sizes : New(words)
    \/ Reset \/ NewGenerator \/ \E panicking \in BOOLEAN : DropGenerator(panicking)
    \/ \E layout \in Closures : InitCode(layout)
    \/ \E a \in {0, stack.bottom - Word, stack.bottom, stack.bottom + Word, regs.sp - Word} : Run(a)

Spec == Init /\ [][Next]_vars

-----------------------------------------------------------------------------
Live == {b \in {gen, f} : b # Null}
Extent(b) == Header(b) .. b.ptr + b.layout.size - 1
FrameEnd == regs.sp + regs.words * Word

\* stack/mod.rs:39-65, 123-129, 183-192, detail/mod.rs:44-47.  Each value on the stack is
\* aligned as its type wants and apart from the other one, from the offset word and
\* from the first frame, all of it above the guard page; and a function that has
\* ended, or was stopped, gives its words back, unless the stack overflowed.
StackLayout ==
    /\ \A b \in Live : /\ b.ptr % b.layout.align = 0 /\ Header(b) % Word = 0
                       /\ Extent(b) \subseteq stack.bottom .. stack.top - Word - 1
                       /\ st = "ready" => FrameEnd <= Header(b)
    /\ gen # Null /\ f # Null => Extent(gen) \cap Extent(f) = {}
    /\ st = "ready" => regs.sp % 16 = 0 /\ regs.sp >= stack.bottom
    /\ st \in {"new", "done", "stack_err"} => get_offset(stack) = gen.off + lost

\* stack/mod.rs:422-432.  Dropping a generator gives its whole stack back to the
\* system, unless reset has moved the top that the length is computed from.
DropUnmapsAll == st = "dropped" /\ ~isReset => map.lo = map.hi
=============================================================================
