------------------------------- MODULE Filter -------------------------------
(***************************************************************************)
(* The -e option, crates/syren-cli/src/filter.rs: which system calls are   *)
(* reported.  An expression is its qualifier ("none" if it has none) and   *)
(* the sequence of its tokens, blank ones left out; a token is a word, in  *)
(* lower case, and whether a % is before it.                               *)
(***************************************************************************)
EXTENDS SyscallTable

CONSTANT Tbl   \* the lines of syscall_64.tbl

SYSCALLS == Generate(Tbl)

\* Category::as_str and Category::parse, as a set of one category or none.
AsStr == [Fs |-> "fs", Net |-> "net", Memory |-> "memory", Process |-> "process",
          Signal |-> "signal", Ipc |-> "ipc", Time |-> "time",
          Security |-> "security", System |-> "system", Other |-> "other"]
CategoryParse(word) == {c \in Categories : AsStr[c] = word}

FilterAll == [kind |-> "All", numbers |-> {}]
FilterNumbers(numbers) == [kind |-> "Numbers", numbers |-> numbers]
FilterError == [kind |-> "Error", numbers |-> {}]

\* syscall_by_name(token): no call has a % in its name.
Named(token) == {e \in ToSet(SYSCALLS) : ~token.pct /\ e.name = token.word}

\* Slip: the token is looked up as a name first.
Selected_NameFirst(token) ==
    IF Named(token) # {} THEN Named(token)
    ELSE {e \in ToSet(SYSCALLS) : e.category \in CategoryParse(token.word)}

\* The entries a token selects: those of the category it names or, if it names
\* none, the call it names.
Selected(token) ==
    IF CategoryParse(token.word) # {}
    THEN {e \in ToSet(SYSCALLS) : e.category \in CategoryParse(token.word)}
    ELSE Named(token)

IsAll(token) == ~token.pct /\ token.word = "all"
Unknown(token) == ~IsAll(token) /\ CategoryParse(token.word) = {} /\ Named(token) = {}

\* A qualifier other than trace= is an error where its expression stands.
BadQualifier == [pct |-> TRUE, word |-> "bad_qualifier"]
Tokens(expr) == IF expr.qualifier \in {"none", "trace"} THEN expr.tokens
                ELSE <<BadQualifier>>

\* from_exprs: the first `all` or error among the tokens decides.
FromExprs(exprs) ==
    LET tokens == FlattenSeq([i \in DOMAIN exprs |-> Tokens(exprs[i])])
        stops == {i \in DOMAIN tokens : IsAll(tokens[i]) \/ Unknown(tokens[i])}
    IN IF exprs = <<>> THEN FilterAll
       ELSE IF stops # {}
            THEN IF IsAll(tokens[Min(stops)]) THEN FilterAll ELSE FilterError
            ELSE FilterNumbers({e.number : e \in UNION {Selected(t) : t \in ToSet(tokens)}})

\* allows; a number is a pair of 32-bit words, as in Decode.
Allows(filter, nr) ==
    filter.kind = "All" \/ (nr.hi = 0 /\ nr.lo \in filter.numbers)
=============================================================================
