---------------------------- MODULE SyscallTable ----------------------------
(***************************************************************************)
(* The table of system calls: how syren-gen builds it from the lines of    *)
(* syscall_64.tbl (table.rs, category.rs, meta.rs, codegen.rs), and how    *)
(* syren-common looks things up in it (lib.rs, errno.rs, signal.rs).       *)
(*                                                                         *)
(* Of the names of system calls a handful is kept, at least one for each   *)
(* way of being classified and for each type of argument.  A line of the   *)
(* file is a record once it is split into columns; `skip` stands for a     *)
(* blank line, a comment and one with too few or unknown columns.          *)
(***************************************************************************)
EXTENDS Integers, Sequences, FiniteSets, SequencesExt

Categories == {"Fs", "Net", "Memory", "Process", "Signal", "Ipc", "Time",
               "Security", "System", "Other"}

-----------------------------------------------------------------------------
(* Classification, category.rs.                                            *)

\* exact: the names with a category of their own.
EXACT ==
    [write |-> "Fs", openat |-> "Fs", lseek |-> "Fs", fcntl |-> "Fs",
     socket |-> "Net", setsockopt |-> "Net", mmap |-> "Memory",
     mprotect |-> "Memory", getpid |-> "Process", execve |-> "Process",
     kill |-> "Signal", shmat |-> "Ipc", futex |-> "Ipc", time |-> "Time",
     nanosleep |-> "Time", getuid |-> "Security", ioctl |-> "System"]

\* The rules by_prefix tries one after the other.
RULES ==
    <<<<"inotify", "Fs">>, <<"fanotify", "Fs">>, <<"epoll", "Fs">>,
      <<"eventfd", "Ipc">>, <<"io_uring", "Fs">>, <<"io_", "Fs">>,
      <<"aio_", "Fs">>, <<"name_to_handle", "Fs">>, <<"open_by_handle", "Fs">>,
      <<"clock_", "Time">>, <<"timer_", "Time">>, <<"timerfd", "Time">>,
      <<"sched_", "System">>, <<"rt_sig", "Signal">>, <<"sig", "Signal">>,
      <<"sem", "Ipc">>, <<"shm", "Ipc">>, <<"msg", "Ipc">>, <<"mq_", "Ipc">>,
      <<"key", "Security">>, <<"landlock", "Security">>, <<"socket", "Net">>,
      <<"get", "Process">>, <<"set", "Process">>>>

\* name.starts_with(prefix), for the names that exact leaves over.
StartsWith(name, prefix) ==
    <<name, prefix>> \in {<<"clock_gettime", "clock_">>, <<"getrandom", "get">>,
                          <<"timerfd_create", "timerfd">>}

ByPrefix(name) ==
    LET hits == {i \in DOMAIN RULES : StartsWith(name, RULES[i][1])}
    IN IF hits = {} THEN "Other" ELSE RULES[Min(hits)][2]

Categorize(name) == IF name \in DOMAIN EXACT THEN EXACT[name] ELSE ByPrefix(name)

-----------------------------------------------------------------------------
(* The table, table.rs, meta.rs and codegen.rs.                            *)

Arg(name, ty) == [name |-> name, ty |-> ty]

\* METADATA: the arguments of the system calls that have any.
METADATA ==
    [write |-> <<Arg("fd", "Fd"), Arg("buf", "Buf"), Arg("count", "Size")>>,
     openat |-> <<Arg("dfd", "Fd"), Arg("filename", "Path"),
                  Arg("flags", "Flags"), Arg("mode", "Int")>>,
     lseek |-> <<Arg("fd", "Fd"), Arg("offset", "Offset"), Arg("whence", "Int")>>,
     fcntl |-> <<Arg("fd", "Fd"), Arg("cmd", "Int"), Arg("arg", "Hex")>>,
     mmap |-> <<Arg("addr", "Ptr"), Arg("len", "Size"), Arg("prot", "Flags"),
                Arg("flags", "Flags"), Arg("fd", "Fd"), Arg("off", "Offset")>>,
     mprotect |-> <<Arg("addr", "Ptr"), Arg("len", "Size"), Arg("prot", "Flags")>>,
     socket |-> <<Arg("family", "Int"), Arg("type", "Int"), Arg("protocol", "Int")>>,
     setsockopt |-> <<Arg("fd", "Fd"), Arg("level", "Int"), Arg("optname", "Int"),
                      Arg("optval", "Ptr"), Arg("optlen", "Int")>>,
     kill |-> <<Arg("pid", "Int"), Arg("sig", "Int")>>,
     getrandom |-> <<Arg("buf", "Buf"), Arg("count", "Size"), Arg("flags", "Flags")>>,
     ioctl |-> <<Arg("fd", "Fd"), Arg("request", "Hex"), Arg("arg", "Hex")>>,
     execve |-> <<Arg("filename", "Path"), Arg("argv", "Ptr"), Arg("envp", "Ptr")>>,
     nanosleep |-> <<Arg("rqtp", "Ptr"), Arg("rmtp", "Ptr")>>,
     clock_gettime |-> <<Arg("which_clock", "Int"), Arg("tp", "Ptr")>>,
     futex |-> <<Arg("uaddr", "Ptr"), Arg("op", "Flags"), Arg("val", "Uint"),
                 Arg("utime", "Ptr"), Arg("uaddr2", "Ptr"), Arg("val3", "Uint")>>,
     getpid |-> <<>>]

\* render_args over lookup.
RenderArgs(name) == IF name \in DOMAIN METADATA THEN METADATA[name] ELSE <<>>

Skip == [number |-> -1, abi |-> "none", name |-> "none"]

\* parse_line and Abi::parse: whether a line is an entry of the table at all.
ParseLine(line) == line.number >= 0 /\ line.abi \in {"common", "64", "x32"}

\* Slip: only the lines both ABIs share.
Kept_Common(tbl) == {i \in DOMAIN tbl : ParseLine(tbl[i]) /\ tbl[i].abi = "common"}

\* The lines of the table that are entries of the 64-bit ABI.
Kept(tbl) == {i \in DOMAIN tbl : ParseLine(tbl[i]) /\ tbl[i].abi # "x32"}

\* Slip: sorted by their place in the file only.
SortedBefore_Unsorted(tbl, i) == {j \in Kept(tbl) : j < i}

\* The lines that come before line i: sort_by_key is stable.
SortedBefore(tbl, i) ==
    {j \in Kept(tbl) : \/ tbl[j].number < tbl[i].number
                       \/ (tbl[j].number = tbl[i].number /\ j < i)}

\* The line that is entry k: as many lines as there are entries come before it.
EntryLine(tbl, k) == CHOOSE i \in Kept(tbl) : Cardinality(SortedBefore(tbl, i)) = k - 1

\* parse_tbl: the entries of the 64-bit ABI, sorted by number.
ParseTbl(tbl) ==
    [k \in 1..Cardinality(Kept(tbl)) |-> tbl[EntryLine(tbl, k)]]

\* generate: what the generated source defines SYSCALLS to be.
Generate(tbl) ==
    LET entries == ParseTbl(tbl)
    IN [i \in DOMAIN entries |->
          [number |-> entries[i].number, name |-> entries[i].name,
           category |-> Categorize(entries[i].name),
           args |-> RenderArgs(entries[i].name)]]

-----------------------------------------------------------------------------
(* Lookups, lib.rs of syren-common.  A table tab is passed along.          *)

NoInfo == [number |-> -1, name |-> "none", category |-> "Other", args |-> <<>>]

\* A round of the search: which half it keeps of a window of size entries from base.
Halve(tab, number, w) ==
    LET half == w.size \div 2
    IN [base |-> IF tab[w.base + half].number > number THEN w.base ELSE w.base + half,
        size |-> w.size - half]

\* binary_search_by_key: the index of the key, or 0; right only if sorted.  The
\* window is halved until one entry is left, after fewer rounds than there are
\* entries.
BinarySearch(tab, number) ==
    LET window[round \in 0..Len(tab)] ==
          IF round = 0 THEN [base |-> 1, size |-> Len(tab)]
          ELSE Halve(tab, number, window[round - 1])
        base == window[Len(tab)].base
    IN IF tab # <<>> /\ tab[base].number = number THEN base ELSE 0

SyscallByNumber(tab, number) ==
    LET i == BinarySearch(tab, number) IN IF i = 0 THEN NoInfo ELSE tab[i]

\* syscall_by_name: the first entry of that name.
SyscallByName(tab, name) ==
    LET hits == {i \in DOMAIN tab : tab[i].name = name}
    IN IF hits = {} THEN NoInfo ELSE tab[Min(hits)]

\* The errno values that have a name: all up to EHWPOISON but the gaps.
ERRNOS == (1..133) \ {41, 58}

\* The signals that have a name.
SIGNALS == 1..31
=============================================================================
