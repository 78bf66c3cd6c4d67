------------------------------ MODULE MCOutput ------------------------------
(* Small instances of Output. *)
EXTENDS Output

TblLine(number, name) == [number |-> number, abi |-> "common", name |-> name]
MCTbl == <<TblLine(1, "write"), TblLine(201, "time"), TblLine(228, "clock_gettime")>>

Word(w) == [pct |-> FALSE, word |-> w]
Pct(w) == [pct |-> TRUE, word |-> w]
Expr(qualifier, tokens) == [qualifier |-> qualifier, tokens |-> tokens]

\* No -e; `all` after and before an error; a name; a word that is a category and a
\* name; a category and a name in two options; an empty set; a % before a name;
\* an unknown qualifier.
MCExprs ==
    {<<>>,
     <<Expr("trace", <<Word("write"), Word("all"), Word("nonsense")>>)>>,
     <<Expr("none", <<Word("nonsense"), Word("all")>>)>>,
     <<Expr("trace", <<Word("time")>>)>>,
     <<Expr("none", <<Pct("fs")>>), Expr("trace", <<Word("clock_gettime")>>)>>,
     <<Expr("trace", <<>>)>>,
     <<Expr("none", <<Pct("write")>>)>>,
     <<Expr("signal", <<Word("write")>>)>>}

Call(hi, lo, name, failed, ns) ==
    [kind |-> "syscall", nr |-> [hi |-> hi, lo |-> lo], name |-> name,
     failed |-> failed, duration_ns |-> ns]

\* Two calls that tie in time, one that failed, one of an unknown number whose low
\* half is that of write.
MCCalls == {Call(0, 1, "write", FALSE, 2), Call(0, 1, "write", TRUE, 1),
            Call(0, 228, "clock_gettime", FALSE, 2), Call(1, 1, "syscall_n", FALSE, 1)}

MCNames == <<"clock_gettime", "syscall_n", "time", "write">>
=============================================================================
