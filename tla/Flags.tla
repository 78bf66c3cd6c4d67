------------------------------- MODULE Flags -------------------------------
(***************************************************************************)
(* The symbolic rendering of flag arguments, crates/syren-decode/src/      *)
(* flags.rs.  A 64-bit value is the set of the numbers of its bits.  What  *)
(* is rendered is a leading token, the names of flags and the bits shown   *)
(* in hex; how these are joined with `|` is left out.                      *)
(***************************************************************************)
EXTENDS Naturals

CONSTANT Values   \* for each kind of argument, the values it may have

Kinds == {"open", "prot", "map"}

ASSUME FlagsAssumption == Values \in [Kinds -> SUBSET SUBSET (0..63)]

OPEN_FLAGS ==
    [O_CREAT |-> {6}, O_EXCL |-> {7}, O_NOCTTY |-> {8}, O_TRUNC |-> {9},
     O_APPEND |-> {10}, O_NONBLOCK |-> {11}, O_DSYNC |-> {12}, O_ASYNC |-> {13},
     O_DIRECT |-> {14}, O_LARGEFILE |-> {15}, O_DIRECTORY |-> {16},
     O_NOFOLLOW |-> {17}, O_NOATIME |-> {18}, O_CLOEXEC |-> {19},
     O_PATH |-> {21}, O_SYNC |-> {12, 20}, O_TMPFILE |-> {16, 22}]

PROT_FLAGS ==
    [PROT_READ |-> {0}, PROT_WRITE |-> {1}, PROT_EXEC |-> {2}, PROT_SEM |-> {3},
     PROT_GROWSDOWN |-> {24}, PROT_GROWSUP |-> {25}]

MAP_FLAGS ==
    [MAP_SHARED |-> {0}, MAP_PRIVATE |-> {1}, MAP_FIXED |-> {4},
     MAP_ANONYMOUS |-> {5}, MAP_32BIT |-> {6}, MAP_GROWSDOWN |-> {8},
     MAP_DENYWRITE |-> {11}, MAP_EXECUTABLE |-> {12}, MAP_LOCKED |-> {13},
     MAP_NORESERVE |-> {14}, MAP_POPULATE |-> {15}, MAP_NONBLOCK |-> {16},
     MAP_STACK |-> {17}, MAP_HUGETLB |-> {18}, MAP_SYNC |-> {19},
     MAP_FIXED_NOREPLACE |-> {20}]

\* decode_bits: the flags all of whose bits are set.
DecodeBits(set, v) == {n \in DOMAIN set : set[n] \subseteq v}

\* covered: the bits that some flag has.
Covered(set) == UNION {set[n] : n \in DOMAIN set}

\* A slip: bits that no flag has are dropped.
Leftover_None(set, v) == {}

\* value & !covered(set)
Leftover(set, v) == v \ Covered(set)

\* join: a leading token, the flags, the leftover bits.
Join(lead, set, v) ==
    [lead |-> lead, names |-> DecodeBits(set, v), hex |-> Leftover(set, v)]

\* render_set: no leading token; a value without any flag is shown in hex.
RenderSet(set, v) ==
    IF DecodeBits(set, v) = {} THEN [lead |-> {}, names |-> {}, hex |-> v]
    ELSE Join({}, set, v)

\* render_open: the access mode (O_RDONLY, O_WRONLY, O_RDWR, O_ACCMODE) is what
\* the low two bits say; a token is named here by the bits it stands for.
RenderOpen(v) == Join(v \cap {0, 1}, OPEN_FLAGS, v \ {0, 1})

\* render_map: the low four bits are the mapping type if they are 1, 2 or 3.
RenderMap(v) ==
    IF v \cap (0..3) \in {{0}, {1}, {0, 1}}
    THEN Join(v \cap (0..3), MAP_FLAGS, v \ (0..3))
    ELSE RenderSet(MAP_FLAGS, v)

\* render, and the table a kind of argument is rendered with.
Render(kind, v) == CASE kind = "open" -> RenderOpen(v)
                     [] kind = "prot" -> RenderSet(PROT_FLAGS, v)
                     [] kind = "map" -> RenderMap(v)
Table(kind) == CASE kind = "open" -> OPEN_FLAGS
                 [] kind = "prot" -> PROT_FLAGS
                 [] kind = "map" -> MAP_FLAGS

VARIABLES arg,    \* the argument rendered last: its kind and its value
          shown   \* what it was rendered as

vars == <<arg, shown>>

RenderArg(kind, v) == arg' = [kind |-> kind, value |-> v] /\ shown' = Render(kind, v)

Init == arg = [kind |-> "prot", value |-> {}] /\ shown = Render("prot", {})
Next == \E kind \in Kinds : \E v \in Values[kind] : RenderArg(kind, v)
Spec == Init /\ [][Next]_vars

-----------------------------------------------------------------------------
(* Properties.                                                             *)

\* The bits that a reader of the rendering knows to be set.
Denoted == shown.lead \cup shown.hex
              \cup UNION {Table(arg.kind)[n] : n \in shown.names}

\* The rendering never names a bit that is not set, although flags overlap; and
\* a bit goes missing only if it belongs to a flag of several bits of which
\* another is not set.
Faithful ==
    /\ Denoted \subseteq arg.value
    /\ \A b \in arg.value \ Denoted : \E n \in DOMAIN Table(arg.kind) :
          b \in Table(arg.kind)[n] /\ ~(Table(arg.kind)[n] \subseteq arg.value)
=============================================================================
