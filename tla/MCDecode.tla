------------------------------ MODULE MCDecode ------------------------------
(* Small instances of Decode. *)
EXTENDS Decode

\* Bits that decide: those of the low fields, of a single flag, of each flag of
\* two bits, and of none.
MCValues == [open |-> SUBSET {0, 1, 12, 16, 20, 22, 31},
             prot |-> SUBSET {0, 2, 3, 24, 30},
             map |-> SUBSET {0, 1, 2, 3, 5, 8, 30}]

W(n) == [hi |-> IF n < 0 THEN -1 ELSE 0, lo |-> n]
ZeroExtended(n) == [hi |-> 0, lo |-> n]
Wide == [hi |-> 1, lo |-> 2]

MCNR ==
    [write |-> W(1), lseek |-> W(8), mmap |-> W(9), mprotect |-> W(10),
     socket |-> W(41), setsockopt |-> W(54), kill |-> W(62), fcntl |-> W(72),
     time |-> W(201), openat |-> W(257), getpid |-> W(39), getrandom |-> W(318),
     futex |-> W(202), clock_gettime |-> W(228), timerfd_create |-> W(283), unknown |-> W(999),
     restarted |-> W(-1), widened |-> [hi |-> 1, lo |-> 62]]

\* A line that both ABIs share, or one of the 64-bit ABI alone.
Line(name) == [number |-> MCNR[name].lo, name |-> name,
               abi |-> IF name = "setsockopt" THEN "64" ELSE "common"]
Known == <<"write", "lseek", "mmap", "mprotect", "getpid", "socket", "setsockopt",
           "kill", "fcntl", "time", "futex", "clock_gettime", "openat", "timerfd_create",
           "getrandom">>
X32(n, name) == [number |-> n, abi |-> "x32", name |-> name]

\* The order of the file with the x32 lines last, and the opposite with one first.
MCTables ==
    LET lines == [i \in DOMAIN Known |-> Line(Known[i])]
    IN {lines \o <<Skip, X32(525, "kill"), X32(541, "setsockopt")>>,
        <<X32(541, "setsockopt"), Skip>> \o Reverse(lines)}

Fds == {W(1), W(-1), ZeroExtended(-1), W(-100), ZeroExtended(-100)}
Counts == {W(0), W(1), W(2), W(3), Wide}
Ptrs == {NULL, W(64)}
Six == {W(0), W(7)}

MCArgsOf ==
    [write |-> Fds \X Ptrs \X Counts,
     openat |-> {W(-100), ZeroExtended(-100)} \X Ptrs \X MCValues["open"] \X {W(0)},
     lseek |-> {W(1)} \X {W(-1), ZeroExtended(-1), Wide} \X {W(0)},
     fcntl |-> Fds \X {W(0), W(2)} \X {W(0), Wide},
     mmap |-> {NULL} \X {W(1)} \X {{0, 2}} \X MCValues["map"] \X {W(-1), ZeroExtended(-1)} \X {W(0)},
     mprotect |-> {W(64)} \X {W(1)} \X MCValues["prot"],
     socket |-> {W(1), W(2), W(10), W(16), W(99), Wide}
                \X {W(1), W(2049), W(524289), W(526337), W(7), W(2055), W(-1)}
                \X {W(0), W(6), W(17), W(99)},
     setsockopt |-> {W(4)} \X {W(0), W(1), W(6), W(41), W(42)}
                    \X {W(1), W(13), W(26), W(99)} \X Ptrs \X {W(4), W(8), Wide},
     kill |-> {W(-1), W(1)} \X {W(0), W(9), W(34), [hi |-> 1, lo |-> 0], [hi |-> 1, lo |-> 9]},
     getrandom |-> Ptrs \X Counts \X {W(1)},
     getpid |-> {W(0)} \X Six \X {W(0)} \X Six \X Six \X {W(0)},
     futex |-> {W(64)} \X {W(128)} \X {W(2), W(-1), ZeroExtended(-1)} \X {NULL} \X {NULL} \X {W(0)},
     clock_gettime |-> {W(-2), W(1)} \X Ptrs,
     time |-> {<<W(0), W(7), W(0), W(7), W(0), W(0)>>},
     unknown |-> {<<Wide, W(0), W(0), W(0), W(0), W(7)>>},
     restarted |-> {<<W(0), W(0), W(0), W(0), W(0), W(0)>>},
     widened |-> {<<W(1), W(9), W(0), W(0), W(0), W(0)>>}]

\* Return values at the edges of the errno range and of the names in it.
MCRets == {-4096, -4095, -512, -134, -133, -41, -1, 0, 3}

\* Nothing to read; a NUL at the start, past MAX_STR and nowhere.
MCBytes == {<<>>, <<0, 1>>, <<1, 2, 0>>, <<1, 2, 1, 0>>, <<2, 1, 2, 1, 2>>}
=============================================================================
