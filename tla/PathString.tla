----------------------------- MODULE PathString -----------------------------
(***************************************************************************)
(* How a path argument becomes text: read_cstr and quote_bytes             *)
(* (crates/syren-decode/src/render.rs) over the reader that the backend    *)
(* hands out: /proc/<tid>/mem (crates/syren-common/src/mem.rs) for ptrace, *)
(* and EbpfMemory (crates/syren-trace/src/ebpf.rs), which serves what      *)
(* capture_path (crates/syren-ebpf/src/main.rs) copied when the call       *)
(* returned, before anything else.                                         *)
(*                                                                         *)
(* With ptrace the task is stopped meanwhile but may be killed; with eBPF  *)
(* it runs on between any two reads.  Byte 0 is NUL, address 0 is NULL.    *)
(* How a byte is escaped does not matter here; where the text ends does.   *)
(***************************************************************************)
EXTENDS Integers, SequencesExt

CONSTANTS Size,       \* the addresses are 1..Size
          Byte,       \* the bytes that may be in memory
          CHUNK,      \* bytes asked for at a time (256)
          PATH_CAP,   \* where read_cstr gives up (4096)
          CAP_BYTES,  \* bytes captured in the kernel (128)
          MAX_STR,    \* bytes shown (32)
          MaxWrites   \* bound: writes of the task meanwhile

ASSUME PathAssumption ==
    /\ Size \in Nat /\ MaxWrites \in Nat /\ MAX_STR \in Nat
    /\ 0 \in Byte /\ Byte \subseteq Nat
    /\ CHUNK \in Nat \ {0}
    /\ CAP_BYTES \in Nat /\ PATH_CAP \in Nat
    /\ CAP_BYTES >= MAX_STR + 2
    /\ PATH_CAP >= CAP_BYTES

VARIABLES backend,  \* "ptrace" or "ebpf"
          mem,      \* the memory of the task, Hole where nothing is mapped
          atExit,   \* history: mem when the call returned
          addr,     \* the argument
          capture,  \* the bytes captured from addr, <<>> if none
          cursor,   \* read_cstr's locals
          out,
          pc,       \* "read", "done" with out, or "none" without a string
          nwrites   \* writes so far

vars == <<backend, mem, atExit, addr, capture, cursor, out, pc, nwrites>>

Hole == -1
Memory == [1..Size -> Byte \cup {Hole}]
Gone == [a \in 1..Size |-> Hole]

Least(a, b) == IF a < b THEN a ELSE b
Take(s, n) == SubSeq(s, 1, Least(n, Len(s)))

\* The length of s up to its first NUL.
UpToNul(s) == CHOOSE n \in 0..Len(s) :
                 /\ \A i \in 1..n : s[i] # 0
                 /\ n = Len(s) \/ s[n + 1] = 0
HasNul(s) == UpToNul(s) < Len(s)

\* What is mapped from address a on.
Mapped(m, a) ==
    LET run == CHOOSE n \in 0..Size :
                 /\ \A i \in a..(a + n - 1) : i \in 1..Size /\ m[i] # Hole
                 /\ ~(a + n \in 1..Size /\ m[a + n] # Hole)
    IN [i \in 1..run |-> m[a + i - 1]]

\* ProcMemReader::read (and NullMemory, when nothing is mapped any more); <<>>
\* stands for its None.
ProcRead(m, a, len) == Take(Mapped(m, a), len)

\* The string at address a, as far as read_cstr may go.
StringAt(m, a) ==
    LET s == Mapped(m, a) IN Take(s, Least(UpToNul(s), PATH_CAP))

-----------------------------------------------------------------------------

\* bpf_probe_read_user_str: the bytes up to NUL, cut to len - 1, and no NUL; a
\* hole before that is an error.
ProbeReadStr(m, a, len) ==
    LET s == ProcRead(m, a, len) IN
    [ok |-> HasNul(s) \/ Len(s) = len,
     bytes |-> Take(s, Least(UpToNul(s), len - 1))]

\* A slip: cap_len does not count the NUL.
Captured_NoNul(m, a) ==
    LET r == ProbeReadStr(m, a, CAP_BYTES) IN IF a # 0 /\ r.ok THEN r.bytes ELSE <<>>

\* capture_path and Record::captured: cap_len counts the NUL that the helper
\* put behind what it read.
Captured(m, a) ==
    LET r == ProbeReadStr(m, a, CAP_BYTES) IN
    IF a # 0 /\ r.ok THEN Append(r.bytes, 0) ELSE <<>>

\* Not every path is captured: PATHARG names one argument of a call, and none
\* of execve's (path_arg_slot).
Init ==
    /\ backend \in {"ptrace", "ebpf"}
    /\ mem \in Memory
    /\ atExit = mem
    /\ addr \in 0..Size
    /\ \/ capture = <<>>
       \/ backend = "ebpf" /\ capture = Captured(mem, addr)
    /\ cursor = addr
    /\ out = <<>>
    /\ pc = "read"
    /\ nwrites = 0

\* EbpfMemory::read, ProcMemReader::read.
Read(a, len) ==
    IF a \in addr..(addr + Len(capture) - 1)
    THEN Take(SubSeq(capture, a - addr + 1, Len(capture)), len)
    ELSE ProcRead(mem, a, len)

\* A slip: the cursor stays where it is.
ReadCstr_NoAdvance ==
    LET chunk == Read(cursor, Least(CHUNK, PATH_CAP - Len(out))) IN
    /\ pc = "read"
    /\ IF addr = 0 \/ (chunk = <<>> /\ out = <<>>) THEN pc' = "none" /\ UNCHANGED out
       ELSE /\ out' = out \o Take(chunk, UpToNul(chunk))
            /\ pc' = IF chunk = <<>> \/ HasNul(chunk) \/ Len(out') >= PATH_CAP
                     THEN "done" ELSE "read"
    /\ UNCHANGED <<backend, mem, atExit, addr, capture, cursor, nwrites>>

\* One round of the loop of read_cstr: a chunk that is empty, or has the NUL,
\* or fills the cap ends it.
ReadCstr ==
    LET chunk == Read(cursor, Least(CHUNK, PATH_CAP - Len(out))) IN
    /\ pc = "read"
    /\ IF addr = 0 \/ (chunk = <<>> /\ out = <<>>)
       THEN pc' = "none" /\ UNCHANGED <<out, cursor>>
       ELSE /\ out' = out \o Take(chunk, UpToNul(chunk))
            /\ cursor' = cursor + Len(chunk)
            /\ pc' = IF chunk = <<>> \/ HasNul(chunk) \/ Len(out') >= PATH_CAP
                     THEN "done" ELSE "read"
    /\ UNCHANGED <<backend, mem, atExit, addr, capture, nwrites>>

\* The task runs on and writes, maps or unmaps ...
TaskWrites(a, b) ==
    /\ pc = "read" /\ backend = "ebpf"
    /\ nwrites < MaxWrites
    /\ mem # Gone
    /\ mem' = [mem EXCEPT ![a] = b]
    /\ nwrites' = nwrites + 1
    /\ UNCHANGED <<backend, atExit, addr, capture, cursor, out, pc>>

\* ... or is dead, its memory with it.
TaskDies ==
    /\ pc = "read"
    /\ mem' = Gone
    /\ UNCHANGED <<backend, atExit, addr, capture, cursor, out, pc, nwrites>>

Stutter == pc # "read" /\ UNCHANGED vars

Next ==
    \/ ReadCstr
    \/ \E a \in 1..Size, b \in Byte \cup {Hole} : TaskWrites(a, b)
    \/ TaskDies
    \/ Stutter

Spec == Init /\ [][Next]_vars

-----------------------------------------------------------------------------
(* Properties.                                                             *)

\* quote_bytes: at most MAX_STR bytes, and whether "..." follows.
Quote(s) == [text |-> Take(s, MAX_STR), more |-> Len(s) > MAX_STR]

\* With ptrace read_cstr yields the string at the address, neither more nor less
\* however the chunks fall against its end, the cap or an unmapped page, and no
\* string only where nothing can be read; the death of the task can only cut it.
WholeString ==
    backend = "ptrace" =>
        /\ pc = "done" => IsPrefix(out, StringAt(atExit, addr))
        /\ mem = atExit /\ pc = "done" => out = StringAt(atExit, addr)
        /\ mem = atExit /\ pc = "none" => Mapped(mem, addr) = <<>>

\* What the kernel captured is shown as it was when the call returned, whatever
\* the task does to its memory afterwards, and cutting it at CAP_BYTES does not
\* change what is shown.
CaptureIsEnough ==
    capture # <<>> =>
        /\ pc # "none"
        /\ pc = "done" => Quote(out) = Quote(StringAt(atExit, addr))
=============================================================================
