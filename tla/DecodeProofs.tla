---------------------------- MODULE DecodeProofs ---------------------------
(***************************************************************************)
(* Proofs about Decode and, through it, about Flags and SyscallTable: for  *)
(* any file with the kernel's numbers, any arguments, memory and return    *)
(* values, and any limit on strings.                                       *)
(*                                                                         *)
(* All follow from DecodeInv: the table is sorted and has the numbers the  *)
(* kernel has, and what is shown is what decode makes of the last event.   *)
(***************************************************************************)
EXTENDS Decode, Induction, SequenceTheorems, TLAPS

-----------------------------------------------------------------------------
(* Flags.                                                                  *)

\* The bits that a rendering r with the flags of a table stands for.
Says(r, set) == r.lead \cup r.hex \cup UNION {set[n] : n \in r.names}

\* What Faithful says of a value and its rendering.
FaithfulTo(r, set, v) ==
    /\ Says(r, set) \subseteq v
    /\ \A b \in v \ Says(r, set) : \E n \in DOMAIN set :
          b \in set[n] /\ ~(set[n] \subseteq v)

\* join is faithful if no flag lies across the edge of the leading field.
LEMMA JoinFaithful ==
    ASSUME NEW set, NEW v, NEW low,
           \A n \in DOMAIN set : set[n] \subseteq low \/ set[n] \cap low = {}
    PROVE  FaithfulTo(Join(v \cap low, set, v \ low), set, v)
<1> DEFINE r == Join(v \cap low, set, v \ low)
<1>1. /\ r.lead = v \cap low
      /\ r.names = {n \in DOMAIN set : set[n] \subseteq v \ low}
      /\ r.hex = (v \ low) \ Covered(set)
  BY DEF Join, DecodeBits, Leftover
<1>2. Says(r, set) \subseteq v
  BY <1>1 DEF Says
<1>3. ASSUME NEW b \in v \ Says(r, set)
      PROVE  \E n \in DOMAIN set : b \in set[n] /\ ~(set[n] \subseteq v)
  <2>1. b \notin low /\ b \in Covered(set)
    BY <1>1, <1>3 DEF Says
  <2>2. PICK n \in DOMAIN set : b \in set[n]
    BY <2>1 DEF Covered
  <2>3. n \notin r.names
    BY <1>3, <2>2 DEF Says
  <2>4. ~(set[n] \subseteq v \ low)
    BY <1>1, <2>2, <2>3
  <2> QED
    BY <2>1, <2>2, <2>4
<1> QED
  BY <1>2, <1>3 DEF FaithfulTo

\* render_set is faithful.
LEMMA RenderSetFaithful ==
    ASSUME NEW set, NEW v
    PROVE  FaithfulTo(RenderSet(set, v), set, v)
<1>1. CASE DecodeBits(set, v) = {}
  BY <1>1 DEF RenderSet, FaithfulTo, Says
<1>2. CASE DecodeBits(set, v) # {}
  <2>1. v \cap {} = {} /\ v \ {} = v
    OBVIOUS
  <2>2. FaithfulTo(Join({}, set, v), set, v)
    BY <2>1, JoinFaithful
  <2> QED
    BY <1>2, <2>2 DEF RenderSet
<1> QED
  BY <1>1, <1>2

\* No flag of open lies in the access mode ...
LEMMA OpenFlagsApart == \A n \in DOMAIN OPEN_FLAGS : OPEN_FLAGS[n] \cap {0, 1} = {}
<1>1. DOMAIN OPEN_FLAGS =
        {"O_CREAT", "O_EXCL", "O_NOCTTY", "O_TRUNC", "O_APPEND", "O_NONBLOCK",
          "O_DSYNC", "O_ASYNC", "O_DIRECT", "O_LARGEFILE", "O_DIRECTORY",
          "O_NOFOLLOW", "O_NOATIME", "O_CLOEXEC", "O_PATH", "O_SYNC",
          "O_TMPFILE"}
  BY DEF OPEN_FLAGS
<1>2. \A n \in DOMAIN OPEN_FLAGS : \A b \in OPEN_FLAGS[n] : b # 0 /\ b # 1
  BY <1>1 DEF OPEN_FLAGS
<1> QED
  BY <1>2

\* ... and none of mmap both in and outside the mapping type.
LEMMA MapFlagsApart ==
    \A n \in DOMAIN MAP_FLAGS :
        MAP_FLAGS[n] \subseteq 0..3 \/ MAP_FLAGS[n] \cap (0..3) = {}
<1>1. DOMAIN MAP_FLAGS =
        {"MAP_SHARED", "MAP_PRIVATE", "MAP_FIXED", "MAP_ANONYMOUS",
          "MAP_32BIT", "MAP_GROWSDOWN", "MAP_DENYWRITE", "MAP_EXECUTABLE",
          "MAP_LOCKED", "MAP_NORESERVE", "MAP_POPULATE", "MAP_NONBLOCK",
          "MAP_STACK", "MAP_HUGETLB", "MAP_SYNC", "MAP_FIXED_NOREPLACE"}
  BY DEF MAP_FLAGS
<1>2. \A n \in DOMAIN MAP_FLAGS : \A b, c \in MAP_FLAGS[n] : b = c
  BY <1>1 DEF MAP_FLAGS
<1> QED
  BY <1>2

\* render is faithful for every argument it knows.
LEMMA RenderFaithful ==
    ASSUME NEW kind \in Kinds, NEW v
    PROVE  FaithfulTo(Render(kind, v), Table(kind), v)
<1>1. CASE kind = "open"
  BY <1>1, OpenFlagsApart, JoinFaithful DEF Render, Table, RenderOpen
<1>2. CASE kind = "prot"
  BY <1>2, RenderSetFaithful DEF Render, Table
<1>3. CASE kind = "map"
  <2>1. FaithfulTo(RenderMap(v), MAP_FLAGS, v)
    BY MapFlagsApart, JoinFaithful, RenderSetFaithful DEF RenderMap
  <2> QED
    BY <1>3, <2>1 DEF Render, Table
<1> QED
  BY <1>1, <1>2, <1>3 DEF Kinds

\* What is shown is the rendering of the argument.
Shows ==
    /\ arg.kind \in Kinds
    /\ shown = Render(arg.kind, arg.value)

\* Then it is faithful to the argument.
LEMMA ShowsFaithful == Shows => Faithful
<1> SUFFICES ASSUME Shows PROVE Faithful
  OBVIOUS
<1>1. FaithfulTo(shown, Table(arg.kind), arg.value)
  BY RenderFaithful DEF Shows
<1> QED
  BY <1>1 DEF FaithfulTo, Says, Faithful, Denoted

\* Whatever values flag arguments take, a rendering names no bit that is not set
\* and loses only bits of a flag that is not there as a whole.
THEOREM AlwaysFaithful == Spec => []Faithful
<1>1. Init => Shows
  BY DEF Init, Shows, Kinds
<1>2. Shows /\ [Next]_vars => Shows'
  BY DEF Shows, Next, RenderArg, vars
<1> QED
  BY <1>1, <1>2, ShowsFaithful, PTL DEF Spec

-----------------------------------------------------------------------------
(* The generated table.                                                    *)

\* What an entry of the table says of its call.
EntryOK(e) ==
    /\ e.number \in Int /\ e.name # "none" /\ e.name \in DOMAIN NR
    /\ NR[e.name] = [hi |-> 0, lo |-> e.number]
    /\ e.args = RenderArgs(e.name)

\* The table is sorted by number, without a number twice.
Sorted(tab) ==
    /\ Len(tab) \in Nat /\ DOMAIN tab = 1..Len(tab)
    /\ tab = <<>> <=> Len(tab) = 0
    /\ \A i \in DOMAIN tab : tab[i].number \in Int
    /\ \A i, j \in DOMAIN tab : i < j => tab[i].number < tab[j].number

TableOK(tab) == Sorted(tab) /\ \A i \in DOMAIN tab : EntryOK(tab[i])

\* A function on 1..n is a sequence.
LEMMA FunctionIsSeq ==
    ASSUME NEW n \in Nat, NEW f, NEW X, f \in [1..n -> X]
    PROVE  Len(f) = n /\ DOMAIN f = 1..n /\ (f = <<>> <=> n = 0)
<1>1. f \in Seq(X) /\ DOMAIN f = 1..n
  OBVIOUS
<1>2. Len(f) = n
  BY <1>1
<1> QED
  BY <1>1, <1>2, EmptySeq

\* The lines that are kept.
LEMMA LinesAre ==
    ASSUME NEW tbl \in Tables
    PROVE  /\ Len(tbl) \in Nat /\ Kept(tbl) \subseteq 1..Len(tbl)
           /\ \A i \in Kept(tbl) : /\ tbl[i].number \in Int
                                   /\ tbl[i].name # "none" /\ tbl[i].name \in DOMAIN NR
                                   /\ NR[tbl[i].name] = [hi |-> 0, lo |-> tbl[i].number]
           /\ \A i, j \in Kept(tbl) : i # j => tbl[i].number # tbl[j].number
<1> DEFINE Row == [number : Int, abi : STRING, name : STRING]
<1>1. /\ tbl \in Seq(Row)
      /\ \A i, j \in Kept(tbl) : i # j => tbl[i].name # tbl[j].name
      /\ \A i \in Kept(tbl) : /\ tbl[i].name # "none" /\ tbl[i].name \in DOMAIN NR
                              /\ NR[tbl[i].name] = [hi |-> 0, lo |-> tbl[i].number]
  BY TablesAssumption
<1>2. \A x \in Row : x.number \in Int
  OBVIOUS
<1> HIDE DEF Row
<1>3. Len(tbl) \in Nat /\ DOMAIN tbl = 1..Len(tbl) /\ \A i \in 1..Len(tbl) : tbl[i] \in Row
  BY <1>1, LenProperties
<1>4. Kept(tbl) \subseteq 1..Len(tbl)
  BY <1>3 DEF Kept
<1>5. ASSUME NEW i \in Kept(tbl), NEW j \in Kept(tbl), i # j
      PROVE  tbl[i].number # tbl[j].number
  <2>1. NR[tbl[i].name] # NR[tbl[j].name]
    BY <1>1, <1>5, CallsAssumption
  <2> QED
    BY <1>1, <2>1
<1> QED
  BY <1>1, <1>2, <1>3, <1>4, <1>5

\* Of two lines that are kept one comes first, whatever their order in the file.
LEMMA LinesRanked ==
    ASSUME NEW tbl \in Tables
    PROVE  /\ Cardinality(Kept(tbl)) \in Nat
           /\ \A k \in 1..Cardinality(Kept(tbl)) : EntryLine(tbl, k) \in Kept(tbl)
           /\ \A k, l \in 1..Cardinality(Kept(tbl)) :
                 k < l => EntryLine(tbl, k) \in SortedBefore(tbl, EntryLine(tbl, l))
           /\ \A i \in Kept(tbl) : \E k \in 1..Cardinality(Kept(tbl)) : EntryLine(tbl, k) = i
<1> DEFINE S == Kept(tbl)
           n == Cardinality(S)
           below == [i \in S |-> SortedBefore(tbl, i)]
<1>1. /\ Len(tbl) \in Nat /\ S \subseteq 1..Len(tbl)
      /\ \A i \in S : tbl[i].number \in Int
  BY LinesAre
<1>2. IsFiniteSet(S)
  <2>1. IsFiniteSet(1..Len(tbl)) /\ S \in SUBSET (1..Len(tbl))
    BY <1>1, FS_Interval
  <2> HIDE DEF S
  <2> QED
    BY <2>1, FS_Subset
<1>3. \A i, j \in S : i \in below[j] <=> \/ tbl[i].number < tbl[j].number
                                       \/ (tbl[i].number = tbl[j].number /\ i < j)
  BY DEF SortedBefore
<1>4. \A i \in S : below[i] \subseteq S /\ below[i] = SortedBefore(tbl, i)
  BY DEF SortedBefore
<1> HIDE DEF below, S
<1>5. \A i \in S : i \notin below[i]
  BY <1>1, <1>3
<1>6. \A i, j \in S : i # j => i \in below[j] \/ j \in below[i]
  BY <1>1, <1>3
<1>7. \A i, j, k \in S : i \in below[j] /\ j \in below[k] => i \in below[k]
  BY <1>1, <1>3
<1>8. /\ n \in Nat
      /\ \A k \in 1..n : \E i \in S : Cardinality(below[i]) = k - 1
      /\ \A i \in S : Cardinality(below[i]) + 1 \in 1..n
      /\ \A i, j \in S : Cardinality(below[i]) < Cardinality(below[j]) => i \in below[j]
      /\ \A i, j \in S : Cardinality(below[i]) = Cardinality(below[j]) => i = j
  BY <1>2, <1>4, <1>5, <1>6, <1>7, Ranked
<1>9. ASSUME NEW k \in 1..n
      PROVE  EntryLine(tbl, k) \in S /\ Cardinality(below[EntryLine(tbl, k)]) = k - 1
  <2>1. \E i \in S : Cardinality(SortedBefore(tbl, i)) = k - 1
    BY <1>4, <1>8
  <2>2. /\ EntryLine(tbl, k) \in S
        /\ Cardinality(SortedBefore(tbl, EntryLine(tbl, k))) = k - 1
    BY <2>1 DEF EntryLine, S
  <2> QED
    BY <1>4, <2>2
<1>10. ASSUME NEW k \in 1..n, NEW l \in 1..n, k < l
       PROVE  EntryLine(tbl, k) \in SortedBefore(tbl, EntryLine(tbl, l))
  <2>1. Cardinality(below[EntryLine(tbl, k)]) < Cardinality(below[EntryLine(tbl, l)])
    BY <1>8, <1>9, <1>10
  <2> QED
    BY <1>4, <1>8, <1>9, <2>1
<1>11. ASSUME NEW i \in S
       PROVE  \E k \in 1..n : EntryLine(tbl, k) = i
  <2> DEFINE k == Cardinality(below[i]) + 1
  <2>1. k \in 1..n
    BY <1>8
  <2>2. EntryLine(tbl, k) \in S /\ Cardinality(below[EntryLine(tbl, k)]) = k - 1
    BY <1>9, <2>1
  <2>3. IsFiniteSet(below[i])
    BY <1>2, <1>4, FS_Subset
  <2>4. k - 1 = Cardinality(below[i])
    BY <2>3, FS_CardinalityType
  <2>5. EntryLine(tbl, k) = i
    BY <1>8, <2>2, <2>4
  <2> QED
    BY <2>1, <2>5
<1> QED
  BY <1>8, <1>9, <1>10, <1>11 DEF S

\* The lines of a file that give a call of the 64-bit ABI its number.
RowsOf(tbl) ==
    {r \in {tbl[i] : i \in DOMAIN tbl} : r.number >= 0 /\ r.abi \in {"common", "64"}}

\* The entries of a table are the rows, neither more nor fewer.
Lists(tab, rows) ==
    /\ \A r \in rows : \E k \in DOMAIN tab : tab[k].number = r.number /\ tab[k].name = r.name
    /\ \A k \in DOMAIN tab : \E r \in rows : tab[k].number = r.number /\ tab[k].name = r.name

\* generate makes a table that is sorted, has the kernel's numbers and all the
\* rows of the 64-bit ABI, whatever the order of the lines.
LEMMA GenerateIs ==
    ASSUME NEW tbl \in Tables
    PROVE  TableOK(Generate(tbl)) /\ Lists(Generate(tbl), RowsOf(tbl))
<1> DEFINE n == Cardinality(Kept(tbl))
           tab == Generate(tbl)
           line(k) == EntryLine(tbl, k)
<1>1. n \in Nat
  BY LinesRanked
<1>2. /\ Kept(tbl) \subseteq Nat
      /\ \A i \in Kept(tbl) : /\ tbl[i].number \in Int
                              /\ tbl[i].name # "none" /\ tbl[i].name \in DOMAIN NR
                              /\ NR[tbl[i].name] = [hi |-> 0, lo |-> tbl[i].number]
      /\ \A i, j \in Kept(tbl) : i # j => tbl[i].number # tbl[j].number
  BY LinesAre
<1>3. DOMAIN ParseTbl(tbl) = 1..n /\ \A k \in 1..n : ParseTbl(tbl)[k] = tbl[line(k)]
  BY DEF ParseTbl
<1>4. /\ tab = [k \in 1..n |-> tab[k]]
      /\ \A k \in 1..n : /\ tab[k].number = tbl[line(k)].number
                         /\ tab[k].name = tbl[line(k)].name
                         /\ tab[k].args = RenderArgs(tbl[line(k)].name)
  BY <1>3 DEF Generate
<1>5. \A k \in 1..n : line(k) \in Kept(tbl)
  BY LinesRanked
<1> HIDE DEF tab, line
<1>6. Len(tab) = n /\ DOMAIN tab = 1..n /\ (tab = <<>> <=> n = 0)
  <2>1. tab \in [1..n -> {tab[k] : k \in 1..n}]
    BY <1>4
  <2> QED
    BY <1>1, <2>1, FunctionIsSeq
<1>7. \A k \in 1..n : EntryOK(tab[k]) /\ tab[k].number \in Int
  BY <1>2, <1>4, <1>5 DEF EntryOK
<1>8. ASSUME NEW k \in 1..n, NEW l \in 1..n, k < l
      PROVE  tab[k].number < tab[l].number
  <2>1. line(k) \in SortedBefore(tbl, line(l))
    BY <1>8, LinesRanked DEF line
  <2>2. \/ tbl[line(k)].number < tbl[line(l)].number
        \/ (tbl[line(k)].number = tbl[line(l)].number /\ line(k) < line(l))
    BY <2>1 DEF SortedBefore
  <2>3. line(k) < line(l) => line(k) # line(l)
    BY <1>2, <1>5
  <2>4. tbl[line(k)].number < tbl[line(l)].number
    BY <1>2, <1>5, <2>2, <2>3
  <2> QED
    BY <1>4, <2>4
<1>9. Lists(tab, RowsOf(tbl))
  <2>1. \A i \in Kept(tbl) : tbl[i] \in RowsOf(tbl)
    BY DEF Kept, ParseLine, RowsOf
  <2>2. ASSUME NEW k \in 1..n
        PROVE  \E r \in RowsOf(tbl) : tab[k].number = r.number /\ tab[k].name = r.name
    BY <1>4, <1>5, <2>1
  <2>3. ASSUME NEW r \in RowsOf(tbl)
        PROVE  \E k \in 1..n : tab[k].number = r.number /\ tab[k].name = r.name
    <3>1. PICK i \in DOMAIN tbl : r = tbl[i]
      BY DEF RowsOf
    <3>2. i \in Kept(tbl)
      BY <3>1 DEF RowsOf, Kept, ParseLine
    <3>3. PICK k \in 1..n : line(k) = i
      BY <3>2, LinesRanked DEF line
    <3> QED
      BY <1>4, <3>1, <3>3
  <2> QED
    BY <1>6, <2>2, <2>3 DEF Lists
<1> QED
  <2>1. Sorted(tab)
    BY <1>1, <1>6, <1>7, <1>8 DEF Sorted
  <2>2. TableOK(tab)
    BY <1>6, <1>7, <2>1 DEF TableOK
  <2> QED
    BY <1>9, <2>2 DEF tab

-----------------------------------------------------------------------------
(* Lookups.                                                                *)

\* The windows of the search for a number.
Window(tab, number) ==
    CHOOSE f : f = [round \in 0..Len(tab) |->
                      IF round = 0 THEN [base |-> 1, size |-> Len(tab)]
                      ELSE Halve(tab, number, f[round - 1])]

\* The windows that lie in the table.
Inside(n) == {w \in [base : 1..n, size : 1..n] : w.base + w.size <= n + 1}

\* A round keeps a window in the table, makes one of several entries smaller, and
\* does not lose the number, since the table is sorted.
LEMMA HalveIs ==
    ASSUME NEW tab, Sorted(tab), NEW number \in Int, NEW w \in Inside(Len(tab))
    PROVE  LET h == Halve(tab, number, w)
           IN /\ h \in Inside(Len(tab))
              /\ h.size = 1 \/ h.size < w.size
              /\ \A i \in DOMAIN tab :
                    tab[i].number = number /\ i \in w.base..(w.base + w.size - 1)
                       => i \in h.base..(h.base + h.size - 1)
<1> DEFINE n == Len(tab)
           half == w.size \div 2
           mid == w.base + half
           h == Halve(tab, number, w)
<1>1. w.base \in 1..n /\ w.size \in 1..n /\ w.base + w.size <= n + 1 /\ n \in Nat
  BY DEF Inside, Sorted
<1>2. half \in Nat /\ half < w.size /\ (w.size # 1 => half > 0)
  BY <1>1
<1> HIDE DEF half
<1>3. mid \in 1..n
  BY <1>1, <1>2
<1>4. /\ h = [base |-> h.base, size |-> h.size]
      /\ h.base = IF tab[mid].number > number THEN w.base ELSE mid
      /\ h.size = w.size - half
  BY DEF Halve, half
<1> HIDE DEF h, mid
<1>5. h.base \in 1..n /\ h.size \in 1..n /\ h.base + h.size <= n + 1
  <2>1. mid = w.base + half /\ mid \in 1..n /\ w.base \in Int /\ w.size \in Int
    BY <1>1, <1>3 DEF mid
  <2>2. h.size \in 1..n
    BY <1>1, <1>2, <1>4
  <2>3. h.base = w.base \/ h.base = mid
    BY <1>4
  <2> QED
    BY <1>1, <1>2, <1>4, <2>1, <2>2, <2>3
<1>6. h \in Inside(n)
  BY <1>4, <1>5 DEF Inside
<1>7. h.size = 1 \/ h.size < w.size
  BY <1>1, <1>2, <1>4
<1>8. ASSUME NEW i \in DOMAIN tab, tab[i].number = number,
             i \in w.base..(w.base + w.size - 1)
      PROVE  i \in h.base..(h.base + h.size - 1)
  <2>1. i \in 1..n /\ tab[mid].number \in Int
    BY <1>3 DEF Sorted
  <2>2. CASE tab[mid].number > number
    <3>1. i < mid
      BY <1>3, <1>8, <2>1, <2>2 DEF Sorted
    <3>2. half <= w.size - half
      BY <1>1 DEF half
    <3>3. h.base = w.base /\ h.size = w.size - half /\ mid = w.base + half
      BY <1>4, <2>2 DEF mid
    <3> QED
      BY <1>1, <1>2, <1>8, <2>1, <3>1, <3>2, <3>3
  <2>3. CASE ~(tab[mid].number > number)
    <3>1. mid <= i
      BY <1>3, <1>8, <2>1, <2>3 DEF Sorted
    <3>2. h.base = mid /\ h.size = w.size - half /\ mid = w.base + half
      BY <1>4, <2>3 DEF mid
    <3> QED
      BY <1>1, <1>2, <1>8, <2>1, <3>1, <3>2
  <2> QED
    BY <2>2, <2>3
<1> QED
  BY <1>6, <1>7, <1>8 DEF h

\* The windows come from each other by rounds.
LEMMA WindowIs ==
    ASSUME NEW tab, Sorted(tab), tab # <<>>, NEW number \in Int
    PROVE  LET u == Window(tab, number)
           IN /\ u[0] = [base |-> 1, size |-> Len(tab)]
              /\ \A k \in 0..Len(tab) : u[k] \in Inside(Len(tab))
              /\ \A k \in 1..Len(tab) : u[k] = Halve(tab, number, u[k - 1])
<1> DEFINE n == Len(tab)
           X == Inside(n)
           b == [base |-> 1, size |-> n]
           step(x) == Halve(tab, number, x)
           g == [i \in 1..n |-> [x \in X |-> step(x)]]
           Solves(f) == f = [i \in 0..n |-> IF i = 0 THEN b ELSE step(f[i - 1])]
           u == Window(tab, number)
<1>1. n \in Nat \ {0}
  BY DEF Sorted
<1>2. \A x \in X : step(x) \in X
  BY HalveIs
<1>3. b \in X
  BY <1>1 DEF Inside
<1>4. u = CHOOSE h : Solves(h)
  BY DEF Window
<1> HIDE DEF n, X, b, step, u
<1>5. Steps(g, n, X)
  BY <1>2 DEF Steps
<1>6. PICK f : Comes(f, n, X, b, g)
  <2> HIDE DEF g
  <2> QED
    BY <1>1, <1>3, <1>5, Recursion
<1>7. Solves(f)
  <2>1. ASSUME NEW i \in 0..n
        PROVE  f[i] = IF i = 0 THEN b ELSE step(f[i - 1])
    <3>1. CASE i = 0
      BY <1>6, <3>1 DEF Comes
    <3>2. CASE i # 0
      <4>1. i \in 1..n /\ f[i - 1] \in X
        BY <1>1, <1>6, <3>2 DEF Comes
      <4>2. g[i][f[i - 1]] = step(f[i - 1])
        BY <4>1
      <4> HIDE DEF g
      <4> QED
        BY <1>6, <3>2, <4>1, <4>2 DEF Comes
    <3> QED
      BY <3>1, <3>2
  <2> QED
    BY <1>6, <2>1 DEF Comes
<1>8. Solves(u)
  <2> HIDE DEF Solves
  <2> QED
    BY <1>4, <1>7
<1>9. \A i \in 0..n : u[i] = IF i = 0 THEN b ELSE step(u[i - 1])
  BY <1>8
<1>10. u[0] = b /\ \A i \in 1..n : u[i] = step(u[i - 1])
  BY <1>1, <1>9
<1>11. \A i \in 0..n : u[i] \in X
  <2> DEFINE T == {i \in 0..n : u[i] \in X}
  <2>1. 0 \in T
    BY <1>1, <1>3, <1>10
  <2>2. \A i \in 1..n : i - 1 \in T => i \in T
    BY <1>1, <1>2, <1>10
  <2> HIDE DEF T
  <2>3. \A i \in 0..n : i \in T
    BY <1>1, <2>1, <2>2, UpTo
  <2> QED
    BY <2>3 DEF T
<1> QED
  BY <1>10, <1>11 DEF u, X, b, step, n

\* binary_search_by_key finds what is there, and nothing else.
LEMMA BinarySearchIs ==
    ASSUME NEW tab, Sorted(tab), NEW number \in Int
    PROVE  LET found == BinarySearch(tab, number)
           IN /\ found = 0 \/ (found \in DOMAIN tab /\ tab[found].number = number)
              /\ \A i \in DOMAIN tab : tab[i].number = number => found = i
<1> DEFINE n == Len(tab)
           u == Window(tab, number)
           base == u[n].base
           found == BinarySearch(tab, number)
<1>1. found = IF tab # <<>> /\ tab[base].number = number THEN base ELSE 0
  BY DEF BinarySearch, Window
<1>2. CASE tab = <<>>
  <2>1. DOMAIN tab = {} /\ found = 0
    BY <1>1, <1>2 DEF Sorted
  <2> QED
    BY <2>1
<1>3. CASE tab # <<>>
  <2>1. n \in Nat \ {0} /\ DOMAIN tab = 1..n
    BY <1>3 DEF Sorted
  <2>2. /\ u[0] = [base |-> 1, size |-> n]
        /\ \A k \in 0..n : u[k] \in Inside(n)
        /\ \A k \in 1..n : u[k] = Halve(tab, number, u[k - 1])
    BY <1>3, WindowIs
  <2> DEFINE Good(k) == /\ u[k].size = 1 \/ u[k].size <= n - k
                        /\ \A i \in DOMAIN tab : tab[i].number = number
                              => i \in u[k].base..(u[k].base + u[k].size - 1)
             T == {k \in 0..n : Good(k)}
  <2> HIDE DEF u, found, n
  <2>3. 0 \in T
    BY <2>1, <2>2
  <2>4. ASSUME NEW k \in 1..n, k - 1 \in T
        PROVE  k \in T
    <3>1. k - 1 \in 0..n /\ Good(k - 1) /\ k \in 0..n
      BY <2>1, <2>4
    <3>2. u[k - 1] \in Inside(n) /\ u[k] = Halve(tab, number, u[k - 1]) /\ u[k] \in Inside(n)
      BY <2>2, <3>1
    <3>3. /\ u[k].size = 1 \/ u[k].size < u[k - 1].size
          /\ \A i \in DOMAIN tab :
                tab[i].number = number /\ i \in u[k - 1].base..(u[k - 1].base + u[k - 1].size - 1)
                   => i \in u[k].base..(u[k].base + u[k].size - 1)
      BY <3>2, HalveIs DEF n
    <3>4. u[k].size \in 1..n /\ u[k - 1].size \in 1..n
      BY <3>2 DEF Inside
    <3>5. u[k].size = 1 \/ u[k].size <= n - k
      BY <2>1, <3>1, <3>3, <3>4
    <3>6. Good(k)
      BY <3>1, <3>3, <3>5
    <3> HIDE DEF Good
    <3> QED
      BY <3>1, <3>6
  <2> HIDE DEF T
  <2>5. \A k \in 0..n : k \in T
    BY <2>1, <2>3, <2>4, UpTo
  <2>6. u[n] \in Inside(n) /\ Good(n)
    BY <2>1, <2>2, <2>5 DEF T
  <2>7. base \in 1..n /\ u[n].size = 1
    BY <2>1, <2>6 DEF Inside
  <2>8. \A i \in DOMAIN tab : tab[i].number = number => i = base
    BY <2>1, <2>6, <2>7
  <2> HIDE DEF base
  <2>9. found = IF tab[base].number = number THEN base ELSE 0
    BY <1>1, <1>3
  <2>10. /\ found = 0 \/ (found \in DOMAIN tab /\ tab[found].number = number)
         /\ \A i \in DOMAIN tab : tab[i].number = number => found = i
    BY <2>1, <2>7, <2>8, <2>9
  <2> QED
    BY <2>10 DEF found
<1> QED
  BY <1>2, <1>3

\* A number of the table is that of the call it belongs to; with an unknown one go
\* no arguments, as with a call that has none.
LEMMA InfoIs ==
    ASSUME TableOK(SYSCALLS), NEW nr \in Register
    PROVE  /\ Info(nr).args = RenderArgs(Info(nr).name)
           /\ \/ Info(nr) = NoInfo
              \/ Info(nr).name \in DOMAIN NR /\ NR[Info(nr).name] = nr
           /\ \A i \in DOMAIN SYSCALLS : nr = NR[SYSCALLS[i].name] => Info(nr) = SYSCALLS[i]
<1> DEFINE found == BinarySearch(SYSCALLS, nr.lo)
<1>1. /\ Sorted(SYSCALLS) /\ nr.lo \in Int /\ nr = [hi |-> nr.hi, lo |-> nr.lo]
      /\ \A i \in DOMAIN SYSCALLS : EntryOK(SYSCALLS[i]) /\ i # 0
  BY DEF TableOK, Register, Sorted
<1>2. /\ found = 0 \/ (found \in DOMAIN SYSCALLS /\ SYSCALLS[found].number = nr.lo)
      /\ \A i \in DOMAIN SYSCALLS : SYSCALLS[i].number = nr.lo => found = i
  BY <1>1, BinarySearchIs
<1>3. Info(nr) = IF nr.hi = 0 /\ found # 0 THEN SYSCALLS[found] ELSE NoInfo
  BY DEF Info, SyscallByNumber
<1> HIDE DEF found
<1>4. ASSUME NEW i \in DOMAIN SYSCALLS, nr = NR[SYSCALLS[i].name]
      PROVE  nr.hi = 0 /\ nr.lo = SYSCALLS[i].number
  <2>1. EntryOK(SYSCALLS[i])
    BY <1>1
  <2>2. nr = [hi |-> 0, lo |-> SYSCALLS[i].number]
    BY <1>4, <2>1 DEF EntryOK
  <2> QED
    BY <2>2
<1>5. NoInfo.args = RenderArgs(NoInfo.name)
  BY DEF NoInfo, RenderArgs, METADATA
<1>6. CASE nr.hi = 0 /\ found # 0
  <2>1. Info(nr) = SYSCALLS[found] /\ EntryOK(SYSCALLS[found]) /\ SYSCALLS[found].number = nr.lo
    BY <1>1, <1>2, <1>3, <1>6
  <2>2. NR[Info(nr).name] = nr /\ Info(nr).name \in DOMAIN NR
    BY <1>1, <1>6, <2>1 DEF EntryOK
  <2>3. ASSUME NEW i \in DOMAIN SYSCALLS, nr = NR[SYSCALLS[i].name]
        PROVE  i = found
    BY <1>2, <1>4, <2>3
  <2> QED
    BY <2>1, <2>2, <2>3 DEF EntryOK
<1>7. CASE ~(nr.hi = 0 /\ found # 0)
  <2>1. Info(nr) = NoInfo
    BY <1>3, <1>7
  <2>2. ASSUME NEW i \in DOMAIN SYSCALLS, nr = NR[SYSCALLS[i].name]
        PROVE  FALSE
    <3>1. nr.hi = 0 /\ nr.lo = SYSCALLS[i].number
      BY <2>2, <1>4
    <3> QED
      BY <1>1, <1>2, <1>7, <3>1
  <2> QED
    BY <1>5, <2>1, <2>2
<1> QED
  BY <1>6, <1>7

\* The types of arguments, and those of which the value itself is shown.
Types == {"Fd", "Path", "Buf", "Size", "Uint", "Int", "Offset", "Hex", "Flags", "Ptr"}
Plain == {"Fd", "Int", "Uint", "Size", "Offset", "Hex"}

\* What METADATA has in common: a buffer is followed by its size, and the names
\* that consts.rs goes by are those of the arguments it means.
ArgOK(name, i) ==
    LET metas == RenderArgs(name)
    IN /\ metas[i].ty \in Types
       /\ metas[i].ty = "Buf" => i + 1 \in DOMAIN metas /\ metas[i + 1].ty = "Size"
       /\ metas[i].name \in {"family", "type", "protocol", "level", "optname", "sig"}
             => metas[i].ty = "Int"
       /\ metas[i].name \in {"protocol", "optname"} => i = 3
       /\ metas[i].name = "sig" => name = "kill"
       /\ metas[i].name = "optval" => metas[i].ty = "Ptr"

\* It holds of every argument, and a call has six of them at most.
LEMMA MetadataIs ==
    ASSUME NEW name
    PROVE  /\ Len(RenderArgs(name)) \in 0..6
           /\ DOMAIN RenderArgs(name) = 1..Len(RenderArgs(name))
           /\ RenderArgs(name) = <<>> <=> Len(RenderArgs(name)) = 0
           /\ \A i \in DOMAIN RenderArgs(name) : ArgOK(name, i)
<1>1. DOMAIN METADATA = {"write", "openat", "lseek", "fcntl", "mmap", "mprotect", "socket",
                         "setsockopt", "kill", "getrandom", "ioctl", "execve", "nanosleep",
                         "clock_gettime", "futex", "getpid"}
  BY DEF METADATA
<1>2. CASE name \notin DOMAIN METADATA
  BY <1>2 DEF RenderArgs
<1>3. CASE name \in DOMAIN METADATA
  <2>1. RenderArgs(name) = METADATA[name]
    BY <1>3 DEF RenderArgs
  <2>2. CASE name = "write"
    BY <2>1, <2>2 DEF METADATA, Arg, ArgOK, Types
  <2>3. CASE name = "openat"
    BY <2>1, <2>3 DEF METADATA, Arg, ArgOK, Types
  <2>4. CASE name = "lseek"
    BY <2>1, <2>4 DEF METADATA, Arg, ArgOK, Types
  <2>5. CASE name = "fcntl"
    BY <2>1, <2>5 DEF METADATA, Arg, ArgOK, Types
  <2>6. CASE name = "mmap"
    BY <2>1, <2>6 DEF METADATA, Arg, ArgOK, Types
  <2>7. CASE name = "mprotect"
    BY <2>1, <2>7 DEF METADATA, Arg, ArgOK, Types
  <2>8. CASE name = "socket"
    BY <2>1, <2>8 DEF METADATA, Arg, ArgOK, Types
  <2>9. CASE name = "setsockopt"
    BY <2>1, <2>9 DEF METADATA, Arg, ArgOK, Types
  <2>10. CASE name = "kill"
    BY <2>1, <2>10 DEF METADATA, Arg, ArgOK, Types
  <2>11. CASE name = "getrandom"
    BY <2>1, <2>11 DEF METADATA, Arg, ArgOK, Types
  <2>12. CASE name = "ioctl"
    BY <2>1, <2>12 DEF METADATA, Arg, ArgOK, Types
  <2>13. CASE name = "execve"
    BY <2>1, <2>13 DEF METADATA, Arg, ArgOK, Types
  <2>14. CASE name = "nanosleep"
    BY <2>1, <2>14 DEF METADATA, Arg, ArgOK, Types
  <2>15. CASE name = "clock_gettime"
    BY <2>1, <2>15 DEF METADATA, Arg, ArgOK, Types
  <2>16. CASE name = "futex"
    BY <2>1, <2>16 DEF METADATA, Arg, ArgOK, Types
  <2>17. CASE name = "getpid"
    BY <2>1, <2>17 DEF METADATA, Arg, ArgOK, Types
  <2> QED
    BY <1>1, <1>3, <2>2, <2>3, <2>4, <2>5, <2>6, <2>7, <2>8, <2>9,
       <2>10, <2>11, <2>12, <2>13, <2>14, <2>15, <2>16, <2>17
<1> QED
  BY <1>2, <1>3

-----------------------------------------------------------------------------
(* Strings.                                                                *)

\* Take is the beginning of a sequence, whole if it is short.
LEMMA TakeIs ==
    ASSUME NEW s \in Seq(Nat), NEW n \in Nat
    PROVE  /\ Take(s, n) \in Seq(Nat)
           /\ Len(Take(s, n)) = IF n <= Len(s) THEN n ELSE Len(s)
           /\ \A k \in 1..Len(Take(s, n)) : Take(s, n)[k] = s[k]
<1> DEFINE m == IF n <= Len(s) THEN n ELSE Len(s)
<1>1. Len(s) \in Nat /\ m \in Nat /\ m <= Len(s) /\ \A k \in 1..Len(s) : s[k] \in Nat
  BY LenProperties
<1>2. Take(s, n) = SubSeq(s, 1, m)
  BY <1>1, MinOfTwo DEF Take
<1> HIDE DEF m
<1>3. \A k \in 1..m : s[k] \in Nat
  BY <1>1
<1>4. /\ SubSeq(s, 1, m) \in Seq(Nat)
      /\ Len(SubSeq(s, 1, m)) = IF 1 <= m THEN m - 1 + 1 ELSE 0
      /\ \A k \in 1..(m - 1 + 1) : SubSeq(s, 1, m)[k] = s[1 + k - 1]
  BY <1>1, <1>3, SubSeqProperties
<1>5. Len(SubSeq(s, 1, m)) = m /\ \A k \in 1..m : SubSeq(s, 1, m)[k] = s[k]
  BY <1>1, <1>4
<1> QED
  BY <1>2, <1>4, <1>5 DEF m

\* Sequences of the same length that begin another one are the same.
LEMMA SameBeginning ==
    ASSUME NEW s \in Seq(Nat), NEW t \in Seq(Nat), NEW u, Len(s) = Len(t),
           \A k \in 1..Len(s) : s[k] = u[k], \A k \in 1..Len(t) : t[k] = u[k]
    PROVE  s = t
BY SeqEqual

\* What quote_bytes shows of the first n bytes, and whether it says there is more.
LEMMA QuoteIs ==
    ASSUME NEW mem \in Seq(Nat), NEW n \in Nat, NEW end \in Nat, end <= Len(mem),
           NEW b \in Seq(Nat), b = Take(mem, n),
           \/ end = IF n <= Len(mem) THEN n ELSE Len(mem)
           \/ n = MAX_STR + 1 /\ end > MAX_STR /\ Len(mem) > MAX_STR
    PROVE  /\ QuoteBytes(b).bytes = Take(mem, Min({end, MAX_STR}))
           /\ QuoteBytes(b).more <=> end > MAX_STR
<1> DEFINE m == IF end <= MAX_STR THEN end ELSE MAX_STR
           p == Take(b, MAX_STR)
           q == Take(mem, m)
<1>1. MAX_STR \in Nat /\ Len(mem) \in Nat
  BY DecodeAssumption, LenProperties
<1>2. Min({end, MAX_STR}) = m /\ m \in Nat /\ m <= Len(mem)
  BY <1>1, MinOfTwo
<1>3. QuoteBytes(b).bytes = p /\ (QuoteBytes(b).more <=> Len(b) > MAX_STR)
  BY DEF QuoteBytes
<1>4. /\ Len(b) = IF n <= Len(mem) THEN n ELSE Len(mem)
      /\ \A k \in 1..Len(b) : b[k] = mem[k]
  BY TakeIs
<1>5. /\ p \in Seq(Nat) /\ Len(p) = IF MAX_STR <= Len(b) THEN MAX_STR ELSE Len(b)
      /\ \A k \in 1..Len(p) : p[k] = b[k]
  BY <1>1, TakeIs
<1> HIDE DEF m
<1>6. /\ q \in Seq(Nat) /\ Len(q) = IF m <= Len(mem) THEN m ELSE Len(mem)
      /\ \A k \in 1..Len(q) : q[k] = mem[k]
  BY <1>2, TakeIs
<1> HIDE DEF p, q
<1>7. Len(p) = Len(q) /\ (Len(b) > MAX_STR <=> end > MAX_STR)
  BY <1>1, <1>2, <1>4, <1>5, <1>6 DEF m
<1>8. \A k \in 1..Len(p) : p[k] = mem[k]
  BY <1>1, <1>4, <1>5
<1>9. p = q
  BY <1>5, <1>6, <1>7, <1>8, SameBeginning
<1> QED
  BY <1>2, <1>3, <1>7, <1>9 DEF q

\* Where the string at an address ends.
CstrEnd(mem) == Min({k - 1 : k \in {n \in DOMAIN mem : mem[n] = 0}} \cup {Len(mem)})

\* read_cstr stops there.
LEMMA ReadCstrIs ==
    ASSUME NEW mem \in Seq(Nat)
    PROVE  /\ CstrEnd(mem) \in Nat /\ CstrEnd(mem) <= Len(mem)
           /\ ReadCstr(mem) \in Seq(Nat) /\ ReadCstr(mem) = Take(mem, CstrEnd(mem))
<1> DEFINE nul == {n \in DOMAIN mem : mem[n] = 0}
           ends == {k - 1 : k \in nul} \cup {Len(mem)}
<1>1. Len(mem) \in Nat /\ DOMAIN mem = 1..Len(mem) /\ \A k \in 1..Len(mem) : mem[k] \in Nat
  BY LenProperties
<1>2. nul \subseteq 1..Len(mem) /\ CstrEnd(mem) = Min(ends)
      /\ ReadCstr(mem) = IF nul = {} THEN mem ELSE SubSeq(mem, 1, Min(nul) - 1)
  BY <1>1 DEF CstrEnd, ReadCstr
<1> HIDE DEF nul
<1>3. ends \subseteq Nat /\ ends # {}
  <2>1. \A k \in nul : k - 1 \in Nat
    BY <1>2
  <2> QED
    BY <1>1, <2>1
<1>4. Len(mem) \in ends /\ \A e \in ends : e = Len(mem) \/ \E k \in nul : e = k - 1
  OBVIOUS
<1>5. \A k \in nul : k - 1 \in ends
  OBVIOUS
<1> HIDE DEF ends
<1>6. Min(ends) \in ends /\ \A e \in ends : Min(ends) <= e
  BY <1>3, MinIs
<1>7. Min(ends) \in Nat /\ Min(ends) <= Len(mem)
  BY <1>3, <1>4, <1>6
<1>8. CASE nul = {}
  <2>1. Min(ends) = Len(mem)
    BY <1>4, <1>6, <1>8
  <2>2. /\ Take(mem, Len(mem)) \in Seq(Nat) /\ Len(Take(mem, Len(mem))) = Len(mem)
        /\ \A k \in 1..Len(mem) : Take(mem, Len(mem))[k] = mem[k]
    BY <1>1, TakeIs
  <2>3. Take(mem, Len(mem)) = mem
    BY <2>2, SameBeginning
  <2> QED
    BY <1>2, <1>7, <1>8, <2>1, <2>3
<1>9. CASE nul # {}
  <2>1. Min(nul) \in nul /\ \A k \in nul : Min(nul) <= k
    <3>1. nul \subseteq Nat
      BY <1>1, <1>2
    <3> QED
      BY <1>9, <3>1, MinIs
  <2>2. Min(nul) - 1 \in ends /\ Min(nul) \in 1..Len(mem)
    BY <1>2, <1>5, <2>1
  <2>3. ASSUME NEW e \in ends
        PROVE  Min(nul) - 1 <= e
    <3>1. CASE e = Len(mem)
      BY <1>1, <2>2, <3>1
    <3>2. CASE \E k \in nul : e = k - 1
      <4>1. PICK k \in nul : e = k - 1
        BY <3>2
      <4>2. k \in Int /\ Min(nul) \in Int /\ Min(nul) <= k
        BY <1>2, <2>1, <2>2
      <4> QED
        BY <4>1, <4>2
    <3> QED
      BY <1>4, <3>1, <3>2
  <2>4. Min(ends) = Min(nul) - 1
    BY <1>1, <1>6, <1>7, <2>2, <2>3
  <2>5. Take(mem, Min(ends)) = SubSeq(mem, 1, Min(ends))
    BY <1>1, <1>7, MinOfTwo DEF Take
  <2>6. Take(mem, Min(ends)) \in Seq(Nat)
    BY <1>7, TakeIs
  <2> QED
    BY <1>2, <1>7, <1>9, <2>4, <2>5, <2>6
<1> QED
  BY <1>8, <1>9

\* Only a path and a buffer are shown as strings, and of these only what was read.
LEMMA StringOf ==
    ASSUME NEW name, NEW i \in DOMAIN RenderArgs(name), NEW args, NEW mem,
           RenderOneArg(name, RenderArgs(name), i, args, mem).as = "str"
    PROVE  LET ty == RenderArgs(name)[i].ty
               s == RenderOneArg(name, RenderArgs(name), i, args, mem)
           IN \/ ty = "Path" /\ s = QuoteBytes(ReadCstr(mem))
              \/ ty = "Buf" /\ s = QuoteBytes(MemRead(mem, MinU64(args[i + 1], MAX_STR + 1)))
<1> DEFINE metas == RenderArgs(name)
           s == RenderOneArg(name, metas, i, args, mem)
           c == ConstsRender(name, metas[i].name, i, args)
           t == RenderByType(name, metas, i, args, mem)
<1>1. c.as # "str"
  BY DEF ConstsRender, AddressFamily, SocketType, Protocol, SockoptLevel, SockoptName,
         SymbolIn, Symbol, None
<1>2. RenderSockoptOptval(args, mem).as # "str"
  BY DEF RenderSockoptOptval, PtrOrNull, Hex
<1>3. s = t
  BY <1>1, <1>2 DEF RenderOneArg
<1>4. ArgOK(name, i) /\ DOMAIN metas = 1..Len(metas) /\ Len(metas) \in Nat
  BY MetadataIs
<1>5. CASE metas[i].ty = "Path"
  BY <1>3, <1>5 DEF RenderByType, PtrOrNull, Hex
<1>6. CASE metas[i].ty = "Buf"
  <2>1. BufBound(metas, i, args) = MinU64(args[i + 1], MAX_STR + 1)
    BY <1>4, <1>6 DEF ArgOK, BufBound
  <2>2. t = RenderBuf(metas, i, args, mem)
    BY <1>6 DEF RenderByType
  <2> QED
    BY <1>3, <1>6, <2>1, <2>2 DEF RenderBuf, PtrOrNull, Hex
<1>7. CASE metas[i].ty \notin {"Path", "Buf"}
  <2>1. t.as # "str"
    BY <1>4, <1>7 DEF ArgOK, Types, RenderByType, RenderFd, RenderFlags, AsI32, AsI64,
                      AsU64, Dec, Symbol, PtrOrNull, Hex
  <2> QED
    BY <1>3, <2>1
<1> QED
  BY <1>5, <1>6, <1>7

-----------------------------------------------------------------------------
(* Values that are shown as they are.                                      *)

\* What distinguishes two values of argument i of a call, as Matters has it.
Told(name, i, r) ==
    IF RenderArgs(name)[i].ty = "Fd" \/ (RenderArgs(name)[i].name = "sig" /\ r.lo \in SIGNALS)
    THEN <<r.lo>> ELSE <<r.hi, r.lo>>

\* The tables of symbolic constants.
Symbols == {"AF", "SOCK", "IPPROTO", "SOL", "SO", "TCP", "IP", "IPV6", "SIG"}

\* A table of constants shows a value by a name that no other value has.
LEMMA SymbolInAlike ==
    ASSUME NEW table \in Symbols, NEW values, NEW r \in Register, NEW s \in Register,
           SymbolIn(table, values, r) # None
    PROVE  /\ SymbolIn(table, values, r).as \in Symbols
           /\ SymbolIn(table, values, r) = SymbolIn(table, values, s) <=> r = s
BY DEF SymbolIn, Symbol, None, Register, Symbols

\* The names of options are such a table for each level, or none.
LEMMA SockoptNameIs ==
    ASSUME NEW level
    PROVE  \/ \A r : SockoptName(level, r) = None
           \/ \E table \in Symbols : \E values : \A r :
                 SockoptName(level, r) = SymbolIn(table, values, r)
<1>1. "SO" \in Symbols /\ "TCP" \in Symbols /\ "IP" \in Symbols /\ "IPV6" \in Symbols
  BY DEF Symbols
<1>2. CASE Is(level, 1)
  <2>1. \A r : SockoptName(level, r) = SymbolIn("SO", (1..21) \cup {25}, r)
    BY <1>2 DEF SockoptName, Is
  <2> QED
    BY <1>1, <2>1
<1>3. CASE Is(level, 6)
  <2>1. \A r : SockoptName(level, r) = SymbolIn("TCP", 1..13, r)
    BY <1>3 DEF SockoptName, Is
  <2> QED
    BY <1>1, <2>1
<1>4. CASE Is(level, 0)
  <2>1. \A r : SockoptName(level, r)
               = SymbolIn("IP", {1, 2, 3, 4, 8, 10, 11, 14, 15} \cup (32..36), r)
    BY <1>4 DEF SockoptName, Is
  <2> QED
    BY <1>1, <2>1
<1>5. CASE Is(level, 41)
  <2>1. \A r : SockoptName(level, r) = SymbolIn("IPV6", {16, 18, 20, 26, 49, 67}, r)
    BY <1>5 DEF SockoptName, Is
  <2> QED
    BY <1>1, <2>1
<1>6. CASE ~Is(level, 1) /\ ~Is(level, 6) /\ ~Is(level, 0) /\ ~Is(level, 41)
  BY <1>6 DEF SockoptName
<1> QED
  BY <1>2, <1>3, <1>4, <1>5, <1>6

\* So it is with the type of a socket, its flags included.
LEMMA SocketTypeAlike ==
    ASSUME NEW r \in Register, NEW s \in Register, SocketType(r) # None
    PROVE  /\ SocketType(r).as \in Symbols
           /\ SocketType(r) = SocketType(s) <=> r = s
<1> DEFINE flag(x, bit) == IF HasBit(x.lo, bit) THEN bit ELSE 0
           base(x) == x.lo - flag(x, SOCK_CLOEXEC) - flag(x, SOCK_NONBLOCK)
<1>1. /\ SocketType(r) = [as |-> "SOCK", v |-> base(r), flags |-> SocketFlags(r.lo)]
      /\ r.hi = 0
  BY DEF SocketType
<1>2. CASE SocketType(s) = None
  <2>1. SocketType(r).as \in Symbols /\ SocketType(r) # SocketType(s)
    BY <1>1, <1>2 DEF Symbols
  <2> QED
    BY <2>1
<1>3. CASE SocketType(s) # None
  <2>1. /\ SocketType(s) = [as |-> "SOCK", v |-> base(s), flags |-> SocketFlags(s.lo)]
        /\ s.hi = 0
    BY <1>3 DEF SocketType
  <2>2. ASSUME SocketType(r) = SocketType(s)
        PROVE  r = s
    <3>1. base(r) = base(s) /\ SocketFlags(r.lo) = SocketFlags(s.lo)
      BY <1>1, <2>1, <2>2
    <3>2. /\ HasBit(r.lo, SOCK_CLOEXEC) <=> HasBit(s.lo, SOCK_CLOEXEC)
          /\ HasBit(r.lo, SOCK_NONBLOCK) <=> HasBit(s.lo, SOCK_NONBLOCK)
      BY <3>1 DEF SocketFlags
    <3>3. r.lo \in Int /\ s.lo \in Int
      BY DEF Register
    <3>4. SOCK_CLOEXEC \in Int /\ SOCK_NONBLOCK \in Int
      BY SMT DEF SOCK_CLOEXEC, SOCK_NONBLOCK
    <3>5. /\ flag(r, SOCK_CLOEXEC) = flag(s, SOCK_CLOEXEC)
          /\ flag(r, SOCK_NONBLOCK) = flag(s, SOCK_NONBLOCK)
          /\ flag(r, SOCK_CLOEXEC) \in Int /\ flag(r, SOCK_NONBLOCK) \in Int
      BY <3>2, <3>4
    <3> HIDE DEF flag
    <3>6. r.lo = s.lo
      BY <3>1, <3>3, <3>5
    <3> QED
      BY <1>1, <2>1, <3>6 DEF Register
  <2>3. SocketType(r).as \in Symbols
    BY <1>1 DEF Symbols
  <2> QED
    BY <2>2, <2>3
<1> QED
  BY <1>1, <1>2, <1>3 DEF Symbols

\* consts::render by the name of the argument.
LEMMA ConstsRenderIs ==
    ASSUME NEW call, NEW name, NEW i, NEW args
    PROVE  /\ name = "family" => ConstsRender(call, name, i, args)
                = IF call \in {"socket", "socketpair"} THEN AddressFamily(args[i]) ELSE None
           /\ name = "type" => ConstsRender(call, name, i, args)
                = IF call \in {"socket", "socketpair"} THEN SocketType(args[i]) ELSE None
           /\ name = "protocol" => ConstsRender(call, name, i, args)
                = IF call \in {"socket", "socketpair"} THEN Protocol(args[1], args[i]) ELSE None
           /\ name = "level" => ConstsRender(call, name, i, args)
                = IF call \in {"setsockopt", "getsockopt"} THEN SockoptLevel(args[i]) ELSE None
           /\ name = "optname" => ConstsRender(call, name, i, args)
                = IF call \in {"setsockopt", "getsockopt"}
                  THEN SockoptName(args[2], args[i]) ELSE None
           /\ name = "sig" /\ call = "kill" => ConstsRender(call, name, i, args)
                = IF args[i].lo \in SIGNALS THEN Symbol("SIG", args[i].lo) ELSE None
           /\ name \notin {"family", "type", "protocol", "level", "optname", "sig"}
                => ConstsRender(call, name, i, args) = None
<1> DEFINE c == ConstsRender(call, name, i, args)
<1>1. name = "family" => c = IF call \in {"socket", "socketpair"}
                            THEN AddressFamily(args[i]) ELSE None
  BY DEF ConstsRender
<1>2. name = "type" => c = IF call \in {"socket", "socketpair"}
                          THEN SocketType(args[i]) ELSE None
  BY DEF ConstsRender
<1>3. name = "protocol" => c = IF call \in {"socket", "socketpair"}
                              THEN Protocol(args[1], args[i]) ELSE None
  BY DEF ConstsRender
<1>4. name = "level" => c = IF call \in {"setsockopt", "getsockopt"}
                           THEN SockoptLevel(args[i]) ELSE None
  BY DEF ConstsRender
<1>5. name = "optname" => c = IF call \in {"setsockopt", "getsockopt"}
                             THEN SockoptName(args[2], args[i]) ELSE None
  BY DEF ConstsRender
<1>6. name = "sig" /\ call = "kill" =>
         c = IF args[i].lo \in SIGNALS THEN Symbol("SIG", args[i].lo) ELSE None
  BY DEF ConstsRender
<1>7. name \notin {"family", "type", "protocol", "level", "optname", "sig"} => c = None
  BY DEF ConstsRender
<1> QED
  BY <1>1, <1>2, <1>3, <1>4, <1>5, <1>6, <1>7

\* A constant is shown for one value only, for a signal in any of its extensions.
\* Here a and b are the arguments of two calls of the same kind.
LEMMA ConstantAlike ==
    ASSUME NEW name, NEW i \in DOMAIN RenderArgs(name), NEW a, NEW b,
           a[i] \in Register, b[i] \in Register, i = 3 => a[1] = b[1] /\ a[2] = b[2],
           ConstsRender(name, RenderArgs(name)[i].name, i, a) # None
    PROVE  /\ ConstsRender(name, RenderArgs(name)[i].name, i, a).as \in Symbols
           /\ ConstsRender(name, RenderArgs(name)[i].name, i, a)
                 = ConstsRender(name, RenderArgs(name)[i].name, i, b)
              <=> Told(name, i, b[i]) = Told(name, i, a[i])
<1> DEFINE argName == RenderArgs(name)[i].name
           c == ConstsRender(name, argName, i, a)
           d == ConstsRender(name, argName, i, b)
<1>1. ArgOK(name, i)
  BY MetadataIs
<1>2. ~(RenderArgs(name)[i].ty = "Fd")
  <2>1. c # None
    OBVIOUS
  <2> HIDE DEF c
  <2>2. argName \notin {"family", "type", "protocol", "level", "optname", "sig"} => c = None
    BY ConstsRenderIs DEF c
  <2>3. argName \in {"family", "type", "protocol", "level", "optname", "sig"}
    BY <2>1, <2>2
  <2>4. RenderArgs(name)[i].ty = "Int"
    BY <1>1, <2>3 DEF ArgOK
  <2> QED
    BY <2>4
<1>3. CASE argName = "sig"
  <2>1. name = "kill"
    BY <1>1, <1>3 DEF ArgOK
  <2>2. /\ c = IF a[i].lo \in SIGNALS THEN Symbol("SIG", a[i].lo) ELSE None
        /\ d = IF b[i].lo \in SIGNALS THEN Symbol("SIG", b[i].lo) ELSE None
    BY <1>3, <2>1, ConstsRenderIs
  <2>3. a[i].lo \in SIGNALS
    BY <2>2
  <2>4. c.as \in Symbols /\ (c = d <=> b[i].lo = a[i].lo)
    BY <2>2, <2>3 DEF Symbol, None, Symbols
  <2>5. Told(name, i, b[i]) = Told(name, i, a[i]) <=> b[i].lo = a[i].lo
    BY <1>3, <2>3 DEF Told
  <2> QED
    BY <2>4, <2>5
<1>4. CASE argName # "sig"
  <2>1. Told(name, i, b[i]) = Told(name, i, a[i]) <=> b[i] = a[i]
    BY <1>2, <1>4 DEF Told, Register
  <2>2. c.as \in Symbols /\ (c = d <=> a[i] = b[i])
    <3>1. CASE argName = "family"
      <4>1. "AF" \in Symbols /\ c = AddressFamily(a[i]) /\ d = AddressFamily(b[i])
        BY <3>1, ConstsRenderIs DEF Symbols
      <4> QED
        BY <4>1, SymbolInAlike DEF AddressFamily
    <3>2. CASE argName = "type"
      <4>1. c = SocketType(a[i]) /\ d = SocketType(b[i])
        BY <3>2, ConstsRenderIs
      <4> QED
        BY <4>1, SocketTypeAlike
    <3>3. CASE argName = "protocol"
      <4>1. "IPPROTO" \in Symbols /\ c = Protocol(a[1], a[i]) /\ d = Protocol(a[1], b[i])
        BY <1>1, <3>3, ConstsRenderIs DEF ArgOK, Symbols
      <4> QED
        BY <4>1, SymbolInAlike DEF Protocol
    <3>4. CASE argName = "level"
      <4>1. "SOL" \in Symbols /\ c = SockoptLevel(a[i]) /\ d = SockoptLevel(b[i])
        BY <3>4, ConstsRenderIs DEF Symbols
      <4> QED
        BY <4>1, SymbolInAlike DEF SockoptLevel
    <3>5. CASE argName = "optname"
      <4>1. c = SockoptName(a[2], a[i]) /\ d = SockoptName(a[2], b[i])
        BY <1>1, <3>5, ConstsRenderIs DEF ArgOK
      <4>2. PICK table \in Symbols : \E values : \A x :
               SockoptName(a[2], x) = SymbolIn(table, values, x)
        BY <4>1, SockoptNameIs
      <4> QED
        BY <4>1, <4>2, SymbolInAlike
    <3> QED
      BY <1>4, <3>1, <3>2, <3>3, <3>4, <3>5, ConstsRenderIs
  <2> QED
    BY <2>1, <2>2
<1> QED
  BY <1>3, <1>4

\* A decimal number is shown for one register only.
LEMMA DecimalsAlike ==
    ASSUME NEW r \in Register, NEW s \in Register, NEW signed
    PROVE  Dec(r.hi, r.lo, signed) = Dec(s.hi, s.lo, signed) <=> r = s
<1>1. ASSUME Dec(r.hi, r.lo, signed) = Dec(s.hi, s.lo, signed)
      PROVE  r = s
  <2>1. \A hi, lo : Dec(hi, lo, signed).hi = hi /\ Dec(hi, lo, signed).lo = lo
    BY DEF Dec
  <2>2. r.hi = s.hi /\ r.lo = s.lo
    BY <1>1, <2>1
  <2> QED
    BY <2>2 DEF Register
<1> QED
  BY <1>1

\* Two values of an argument are shown alike if nothing that matters tells them
\* apart, and only then.
LEMMA ValuesAlike ==
    ASSUME NEW name, NEW i \in DOMAIN RenderArgs(name), RenderArgs(name)[i].ty \in Plain,
           NEW a, NEW b, NEW mem,
           a[i] \in Register, b[i] \in Register, i = 3 => a[1] = b[1] /\ a[2] = b[2]
    PROVE  (RenderOneArg(name, RenderArgs(name), i, b, mem)
               = RenderOneArg(name, RenderArgs(name), i, a, mem))
           <=> Told(name, i, b[i]) = Told(name, i, a[i])
<1> DEFINE metas == RenderArgs(name)
           c(x) == ConstsRender(name, metas[i].name, i, x)
           t(x) == RenderByType(name, metas, i, x, mem)
           s(x) == RenderOneArg(name, metas, i, x, mem)
           Same == Told(name, i, b[i]) = Told(name, i, a[i])
<1>1. ArgOK(name, i)
  BY MetadataIs
<1>2. \A x : s(x) = IF c(x) # None THEN c(x) ELSE t(x)
  BY <1>1 DEF RenderOneArg, ArgOK, Plain
<1>3. \A x : t(x).as \in {"AT_FDCWD", "dec", "hex"}
  BY DEF Plain, RenderByType, RenderFd, AsI32, AsI64, AsU64, Dec, Symbol, Hex
<1>4. c(a) # None => c(a).as \in Symbols /\ (c(a) = c(b) <=> Same)
  BY ConstantAlike
<1>5. c(b) # None => c(b).as \in Symbols /\ (c(b) = c(a) <=> Same)
  BY ConstantAlike
<1>6. CASE c(a) = None /\ c(b) = None
  <2>1. ASSUME metas[i].name = "sig"
        PROVE  a[i].lo \notin SIGNALS /\ b[i].lo \notin SIGNALS
    <3>1. name = "kill"
      BY <1>1, <2>1 DEF ArgOK
    <3>2. /\ c(a) = IF a[i].lo \in SIGNALS THEN Symbol("SIG", a[i].lo) ELSE None
          /\ c(b) = IF b[i].lo \in SIGNALS THEN Symbol("SIG", b[i].lo) ELSE None
      BY <2>1, <3>1, ConstsRenderIs
    <3>3. \A n : Symbol("SIG", n) # None
      BY DEF Symbol, None
    <3> QED
      BY <1>6, <3>2, <3>3
  <2>2. t(b) = t(a) <=> Same
    <3>1. CASE metas[i].ty = "Fd"
      <4>1. t(a) = RenderFd(a[i]) /\ t(b) = RenderFd(b[i])
        BY <3>1 DEF RenderByType
      <4>2. RenderFd(b[i]) = RenderFd(a[i]) <=> b[i].lo = a[i].lo
        BY DEF RenderFd, AsI32, Dec, Symbol, Register
      <4>3. Same <=> b[i].lo = a[i].lo
        BY <3>1 DEF Told
      <4> QED
        BY <4>1, <4>2, <4>3
    <3>2. CASE metas[i].ty # "Fd"
      <4>1. Same <=> b[i] = a[i]
        BY <2>1, <3>2 DEF Told, Register
      <4>2. CASE metas[i].ty \in {"Size", "Uint"}
        <5>1. t(a) = AsU64(a[i]) /\ t(b) = AsU64(b[i])
          BY <4>2 DEF RenderByType
        <5>2. AsU64(b[i]) = AsU64(a[i]) <=> b[i] = a[i]
          BY DecimalsAlike DEF AsU64
        <5> QED
          BY <4>1, <5>1, <5>2
      <4>3. CASE metas[i].ty \in {"Int", "Offset"}
        <5>1. t(a) = AsI64(a[i]) /\ t(b) = AsI64(b[i])
          BY <4>3 DEF RenderByType
        <5>2. AsI64(b[i]) = AsI64(a[i]) <=> b[i] = a[i]
          BY DecimalsAlike DEF AsI64
        <5> QED
          BY <4>1, <5>1, <5>2
      <4>4. CASE metas[i].ty = "Hex"
        BY <4>1, <4>4 DEF RenderByType, Hex
      <4> QED
        BY <3>2, <4>2, <4>3, <4>4 DEF Plain
    <3> QED
      BY <3>1, <3>2
  <2> QED
    BY <1>2, <1>6, <2>2
<1>7. CASE ~(c(a) = None /\ c(b) = None)
  <2> HIDE DEF c, t, s, Same
  <2>1. "AT_FDCWD" \notin Symbols /\ "dec" \notin Symbols /\ "hex" \notin Symbols
    BY DEF Symbols
  <2>2. s(b) = s(a) <=> Same
    BY <1>2, <1>3, <1>4, <1>5, <1>7, <2>1
  <2> QED
    BY <2>2 DEF s, Same
<1> QED
  BY <1>6, <1>7

-----------------------------------------------------------------------------
(* The invariant, and what follows from it.                                *)

\* An event of one of the calls.
IsEvent(e) ==
    \E name \in DOMAIN ArgsOf : \E args \in ArgsOf[name], ret \in Rets, mem \in Bytes :
        e = [nr |-> NR[name], args |-> args, ret |-> ret, mem |-> mem]

\* The table is the kernel's, and what is shown is what decode makes of the event.
DecodeInv ==
    /\ TableOK(SYSCALLS)
    /\ Lists(SYSCALLS, RowsOf(file))
    /\ SYSCALLS = <<>> => ~Decoded
    /\ Decoded => IsEvent(ev) /\ decoded = DecodeEvent(ev)

\* No table is the table of no calls.
LEMMA EmptyTable == TableOK(<<>>) /\ Lists(<<>>, RowsOf(<<>>))
<1>1. Len(<<>>) = 0 /\ DOMAIN <<>> = {} /\ 1..0 = {}
  OBVIOUS
<1> QED
  BY <1>1 DEF TableOK, Sorted, Lists, RowsOf

\* A step of decode keeps it.
LEMMA DecodeStep ==
    ASSUME DecodeInv, [DecodeNext]_decodeVars
    PROVE  DecodeInv'
<1>1. CASE Build
  <2>1. PICK tbl \in Tables : file' = tbl /\ SYSCALLS' = Generate(tbl)
    BY <1>1 DEF Build
  <2>2. TableOK(Generate(tbl)) /\ Lists(Generate(tbl), RowsOf(tbl))
    BY GenerateIs
  <2>3. ~Decoded /\ ev' = ev
    BY <1>1 DEF Build, DecodeInv
  <2> QED
    BY <2>1, <2>2, <2>3 DEF DecodeInv, Decoded
<1>2. CASE DropEvent
  BY <1>2 DEF DropEvent, DecodeInv, Decoded
<1>3. ASSUME SYSCALLS # <<>>,
             NEW name \in DOMAIN ArgsOf, NEW args \in ArgsOf[name], NEW ret \in Rets,
             NEW mem \in Bytes, DecodeOne(name, args, ret, mem)
      PROVE  DecodeInv'
  <2> DEFINE e == [nr |-> NR[name], args |-> args, ret |-> ret, mem |-> mem]
  <2>1. ev' = e /\ decoded' = DecodeEvent(e) /\ SYSCALLS' = SYSCALLS /\ file' = file
    BY <1>3 DEF DecodeOne
  <2>2. IsEvent(e)
    BY DEF IsEvent
  <2>3. IsEvent(ev')
    BY <2>1, <2>2
  <2> HIDE DEF e
  <2>4. decoded' = DecodeEvent(ev)'
    BY <2>1 DEF DecodeEvent, Info
  <2> QED
    BY <1>3, <2>1, <2>3, <2>4 DEF DecodeInv
<1>4. CASE UNCHANGED decodeVars
  <2>1. file' = file /\ SYSCALLS' = SYSCALLS /\ ev' = ev /\ decoded' = decoded
    BY <1>4 DEF decodeVars
  <2>2. DecodeEvent(ev)' = DecodeEvent(ev)
    BY <2>1 DEF DecodeEvent, Info
  <2> QED
    BY <2>1, <2>2 DEF DecodeInv, Decoded
<1> QED
  BY <1>1, <1>2, <1>3, <1>4 DEF DecodeNext

\* The table that is built from the lines of the file is sorted by number and has
\* the kernel's numbers, and what is shown of an event is what decode makes of it.
THEOREM DecodeInvariance == DecodeSpec => []DecodeInv
<1>1. DecodeInit => DecodeInv
  BY EmptyTable DEF DecodeInit, DecodeInv, Decoded
<1>2. DecodeInv /\ [DecodeNext]_decodeVars => DecodeInv'
  BY DecodeStep
<1> QED
  BY <1>1, <1>2, PTL DEF DecodeSpec

\* The call of an event, its arguments and what was read for it.
LEMMA EventIs ==
    ASSUME DecodeInv, Decoded
    PROVE  /\ ev.nr \in Register /\ ev.ret \in Int /\ ev.mem \in Seq(Nat)
           /\ decoded = DecodeEvent(ev) /\ decoded.name = Info(ev.nr).name
           /\ Metas = RenderArgs(decoded.name)
           /\ \A i \in DOMAIN Metas :
                 /\ decoded.args[i]
                       = RenderOneArg(decoded.name, RenderArgs(decoded.name), i, ev.args, ev.mem)
                 /\ decoded.name \in DOMAIN ArgsOf /\ ev.args \in ArgsOf[decoded.name]
<1>1. PICK name \in DOMAIN ArgsOf : \E args \in ArgsOf[name], ret \in Rets, mem \in Bytes :
              ev = [nr |-> NR[name], args |-> args, ret |-> ret, mem |-> mem]
  BY DEF DecodeInv, IsEvent
<1>2. ev.nr = NR[name] /\ ev.args \in ArgsOf[name] /\ ev.ret \in Rets /\ ev.mem \in Bytes
  BY <1>1
<1>3. ev.nr \in Register /\ ev.ret \in Int /\ ev.mem \in Seq(Nat) /\ name \in DOMAIN NR
  BY <1>2, CallsAssumption
<1>4. decoded = DecodeEvent(ev) /\ decoded.name = Info(ev.nr).name
  BY DEF DecodeInv, DecodeEvent
<1>5. /\ Info(ev.nr).args = RenderArgs(Info(ev.nr).name)
      /\ \/ Info(ev.nr) = NoInfo
         \/ Info(ev.nr).name \in DOMAIN NR /\ NR[Info(ev.nr).name] = ev.nr
  BY <1>3, InfoIs DEF DecodeInv
<1>6. Metas = RenderArgs(decoded.name)
  BY <1>4, <1>5 DEF Metas
<1>7. ASSUME NEW i \in DOMAIN Metas
      PROVE  /\ decoded.args[i]
                   = RenderOneArg(decoded.name, RenderArgs(decoded.name), i, ev.args, ev.mem)
             /\ decoded.name \in DOMAIN ArgsOf /\ ev.args \in ArgsOf[decoded.name]
  <2>1. Metas # <<>>
    OBVIOUS
  <2>2. decoded.args = DecodeTyped(Info(ev.nr).name, Metas, ev.args, ev.mem)
    BY <1>4, <2>1 DEF DecodeEvent, Metas
  <2>3. decoded.args[i]
           = RenderOneArg(decoded.name, RenderArgs(decoded.name), i, ev.args, ev.mem)
    BY <1>4, <1>6, <2>2 DEF DecodeTyped
  <2>4. Info(ev.nr) # NoInfo
    BY <2>1 DEF Metas, NoInfo
  <2>5. decoded.name = name
    BY <1>2, <1>3, <1>4, <1>5, <2>4, CallsAssumption
  <2> QED
    BY <1>2, <2>3, <2>5
<1> QED
  BY <1>3, <1>4, <1>6, <1>7

\* Whatever the order of the lines of the file, the search finds each call that it
\* gives the 64-bit ABI by its number and by its name, and the name an event is
\* given is that of the line with its number, if there is one.
THEOREM TableRightHolds == DecodeSpec => []TableRight
<1>1. ASSUME DecodeInv
      PROVE  TableRight
  <2>1. TableOK(SYSCALLS) /\ Lists(SYSCALLS, Rows) /\ Sorted(SYSCALLS)
    BY <1>1 DEF DecodeInv, Rows, RowsOf, TableOK
  <2>2. ASSUME NEW i \in DOMAIN SYSCALLS
        PROVE  /\ SyscallByNumber(SYSCALLS, SYSCALLS[i].number) = SYSCALLS[i]
               /\ SyscallByName(SYSCALLS, SYSCALLS[i].name) = SYSCALLS[i]
    <3>1. EntryOK(SYSCALLS[i]) /\ i # 0 /\ SYSCALLS[i].number \in Int
      BY <2>1 DEF TableOK, Sorted
    <3>2. BinarySearch(SYSCALLS, SYSCALLS[i].number) = i
      BY <2>1, <3>1, BinarySearchIs
    <3> DEFINE hits == {j \in DOMAIN SYSCALLS : SYSCALLS[j].name = SYSCALLS[i].name}
    <3>3. hits = {i}
      <4>1. ASSUME NEW j \in hits
            PROVE  j = i
        <5>1. EntryOK(SYSCALLS[j]) /\ SYSCALLS[j].name = SYSCALLS[i].name
          BY <2>1 DEF TableOK
        <5>2. SYSCALLS[j].number = SYSCALLS[i].number
          BY <3>1, <5>1 DEF EntryOK
        <5> QED
          BY <2>1, <5>2 DEF Sorted
      <4> QED
        BY <4>1
    <3>4. Min({i}) = i
      BY <2>1 DEF Min, Sorted
    <3>5. SyscallByName(SYSCALLS, SYSCALLS[i].name) = SYSCALLS[i]
      BY <3>3, <3>4 DEF SyscallByName
    <3> QED
      BY <3>1, <3>2, <3>5 DEF SyscallByNumber
  <2>3. ASSUME NEW r \in Rows
        PROVE  /\ SyscallByNumber(SYSCALLS, r.number).name = r.name
               /\ SyscallByName(SYSCALLS, r.name).number = r.number
    <3>1. PICK i \in DOMAIN SYSCALLS : SYSCALLS[i].number = r.number /\ SYSCALLS[i].name = r.name
      BY <2>1 DEF Lists
    <3> QED
      BY <2>2, <3>1
  <2>4. ASSUME Decoded
        PROVE  {r.name : r \in {q \in Rows : ev.nr = [hi |-> 0, lo |-> q.number]}}
                  = {decoded.name} \ {"none"}
    <3> DEFINE hits == {q \in Rows : ev.nr = [hi |-> 0, lo |-> q.number]}
    <3>1. ev.nr \in Register /\ decoded.name = Info(ev.nr).name
      BY <1>1, <2>4, EventIs
    <3>2. ASSUME NEW r \in hits
          PROVE  decoded.name = r.name /\ r.name # "none"
      <4>1. PICK i \in DOMAIN SYSCALLS : SYSCALLS[i].number = r.number /\ SYSCALLS[i].name = r.name
        BY <2>1 DEF Lists
      <4>2. EntryOK(SYSCALLS[i])
        BY <2>1 DEF TableOK
      <4>3. NR[SYSCALLS[i].name] = ev.nr
        BY <4>1, <4>2 DEF EntryOK
      <4>4. Info(ev.nr) = SYSCALLS[i]
        BY <2>1, <3>1, <4>3, InfoIs
      <4> QED
        BY <3>1, <4>1, <4>2, <4>4 DEF EntryOK
    <3>3. ASSUME decoded.name # "none"
          PROVE  \E r \in hits : r.name = decoded.name
      <4> DEFINE found == BinarySearch(SYSCALLS, ev.nr.lo)
      <4>1. ev.nr.lo \in Int /\ ev.nr = [hi |-> ev.nr.hi, lo |-> ev.nr.lo]
        BY <3>1 DEF Register
      <4>2. found = 0 \/ (found \in DOMAIN SYSCALLS /\ SYSCALLS[found].number = ev.nr.lo)
        BY <2>1, <4>1, BinarySearchIs
      <4>3. Info(ev.nr) = IF ev.nr.hi = 0 /\ found # 0 THEN SYSCALLS[found] ELSE NoInfo
        BY DEF Info, SyscallByNumber
      <4> HIDE DEF found
      <4>4. ev.nr.hi = 0 /\ found # 0
        BY <3>1, <3>3, <4>3 DEF NoInfo
      <4>5. PICK r \in Rows : SYSCALLS[found].number = r.number /\ SYSCALLS[found].name = r.name
        BY <2>1, <4>2, <4>4 DEF Lists
      <4> QED
        BY <3>1, <4>1, <4>2, <4>3, <4>4, <4>5
    <3> HIDE DEF hits
    <3>4. {r.name : r \in hits} = {decoded.name} \ {"none"}
      BY <3>2, <3>3
    <3> QED
      BY <3>4 DEF hits
  <2> QED
    BY <2>3, <2>4 DEF TableRight
<1> QED
  BY <1>1, DecodeInvariance, PTL

\* In every call of the table, two registers given to the same argument are shown
\* alike if and only if Matters is the same of both: of a descriptor and a named
\* signal the low half, of any other argument that is shown as it is both halves.
THEOREM ShownAlikeHolds == DecodeSpec => []ShownAlike
<1>1. ASSUME DecodeInv, Decoded, NEW i \in DOMAIN Metas, Metas[i].ty \in Plain,
             NEW args \in ArgsOf[decoded.name]
      PROVE  (RenderOneArg(decoded.name, Metas, i, [ev.args EXCEPT ![i] = args[i]], ev.mem)
                 = decoded.args[i])
             <=> Matters(i, args[i]) = Matters(i, ev.args[i])
  <2> DEFINE name == decoded.name
             new == [ev.args EXCEPT ![i] = args[i]]
  <2>1. /\ Metas = RenderArgs(name)
        /\ decoded.args[i] = RenderOneArg(name, RenderArgs(name), i, ev.args, ev.mem)
        /\ name \in DOMAIN ArgsOf /\ ev.args \in ArgsOf[name]
    BY <1>1, EventIs
  <2> HIDE DEF name
  <2>2. Len(Metas) \in Nat /\ DOMAIN Metas = 1..Len(Metas)
    BY <2>1, MetadataIs
  <2>3. \A j \in DOMAIN Metas : j \in DOMAIN ev.args
    BY <2>1, CallsAssumption
  <2>4. args[i] \in Register /\ ev.args[i] \in Register
    <3>1. RenderArgs(name)[i].ty # "Flags"
      BY <1>1, <2>1 DEF Plain
    <3> QED
      BY <1>1, <2>1, <3>1, CallsAssumption DEF name
  <2>5. new[i] = args[i]
    BY <1>1, <2>3
  <2>6. i = 3 => ev.args[1] = new[1] /\ ev.args[2] = new[2]
    <3>1. i = 3 => 1 \in DOMAIN ev.args /\ 2 \in DOMAIN ev.args
      BY <1>1, <2>2, <2>3
    <3> QED
      BY <3>1
  <2> HIDE DEF new
  <2>7. (RenderOneArg(name, RenderArgs(name), i, new, ev.mem)
           = RenderOneArg(name, RenderArgs(name), i, ev.args, ev.mem))
        <=> Told(name, i, new[i]) = Told(name, i, ev.args[i])
    BY <1>1, <2>1, <2>4, <2>5, <2>6, ValuesAlike
  <2>8. \A r : Matters(i, r) = Told(name, i, r)
    BY <2>1 DEF Matters, Told
  <2> QED
    BY <2>1, <2>5, <2>7, <2>8 DEF name, new
<1>2. DecodeInv => ShownAlike
  BY <1>1 DEF ShownAlike, Plain
<1> QED
  BY <1>2, DecodeInvariance, PTL

\* A string never shows a byte past its end or its count, nor more than MAX_STR,
\* and says whether there is more, for every limit and every count.
THEOREM StringsEndHolds == DecodeSpec => []StringsEnd
<1>1. ASSUME DecodeInv, Decoded, NEW i \in DOMAIN Metas, decoded.args[i].as = "str"
      PROVE  LET s == decoded.args[i]
                 end == IF Metas[i].ty = "Path" THEN CstrEnd(ev.mem)
                        ELSE MinU64(ev.args[i + 1], Len(ev.mem))
             IN /\ s.bytes = Take(ev.mem, Min({end, MAX_STR}))
                /\ s.more <=> end > MAX_STR
  <2> DEFINE name == decoded.name
             s == decoded.args[i]
             mem == ev.mem
             r == ev.args[i + 1]
  <2>1. /\ Metas = RenderArgs(name) /\ mem \in Seq(Nat)
        /\ s = RenderOneArg(name, RenderArgs(name), i, ev.args, mem)
    BY <1>1, EventIs
  <2>2. MAX_STR \in Nat /\ Len(mem) \in Nat
    BY <2>1, DecodeAssumption, LenProperties
  <2>3. \/ Metas[i].ty = "Path" /\ s = QuoteBytes(ReadCstr(mem))
        \/ Metas[i].ty = "Buf" /\ s = QuoteBytes(MemRead(mem, MinU64(r, MAX_STR + 1)))
    BY <1>1, <2>1, StringOf
  <2> HIDE DEF mem, r, s
  <2>4. CASE Metas[i].ty = "Path"
    <3> DEFINE end == CstrEnd(mem)
    <3>1. /\ end \in Nat /\ end <= Len(mem)
          /\ ReadCstr(mem) \in Seq(Nat) /\ ReadCstr(mem) = Take(mem, end)
      BY <2>1, ReadCstrIs
    <3> HIDE DEF end
    <3>2. /\ QuoteBytes(ReadCstr(mem)).bytes = Take(mem, Min({end, MAX_STR}))
          /\ QuoteBytes(ReadCstr(mem)).more <=> end > MAX_STR
      BY <2>1, <2>2, <3>1, QuoteIs
    <3>3. s = QuoteBytes(ReadCstr(mem))
      BY <2>3, <2>4
    <3> QED
      BY <2>4, <3>2, <3>3 DEF end, mem, s
  <2>5. CASE Metas[i].ty = "Buf"
    <3> DEFINE n == MinU64(r, MAX_STR + 1)
               end == MinU64(r, Len(mem))
               b == Take(mem, n)
    <3>1. n \in Nat /\ end \in Nat /\ end <= Len(mem)
      BY <2>2 DEF MinU64
    <3>2. \/ end = IF n <= Len(mem) THEN n ELSE Len(mem)
          \/ n = MAX_STR + 1 /\ end > MAX_STR /\ Len(mem) > MAX_STR
      BY <2>2 DEF MinU64
    <3> HIDE DEF n, end
    <3>3. b \in Seq(Nat)
      BY <2>1, <3>1, TakeIs
    <3> HIDE DEF b
    <3>4. /\ QuoteBytes(b).bytes = Take(mem, Min({end, MAX_STR}))
          /\ QuoteBytes(b).more <=> end > MAX_STR
      BY <2>1, <2>2, <3>1, <3>2, <3>3, QuoteIs DEF b
    <3>5. s = QuoteBytes(b)
      BY <2>3, <2>5 DEF b, n, MemRead
    <3> QED
      BY <2>5, <3>4, <3>5 DEF end, mem, s, r
  <2> QED
    BY <2>3, <2>4, <2>5
<1>2. DecodeInv => StringsEnd
  BY <1>1 DEF StringsEnd, CstrEnd
<1> QED
  BY <1>2, DecodeInvariance, PTL

\* The errno of a return value, if it has a name.
LEMMA ErrnoIs ==
    ASSUME NEW ret \in Int
    PROVE  LET error == IF Errno(ret) \in ERRNOS THEN Errno(ret) ELSE 0
           IN IF -ret \in ERRNOS THEN error = -ret /\ error # 0 ELSE error = 0
<1>1. ERRNOS \subseteq 1..4095
  BY DEF ERRNOS
<1>2. CASE -ret \in ERRNOS
  <2>1. -ret \in 1..4095
    BY <1>1, <1>2
  <2>2. ret \in -4095..-1
    BY <2>1
  <2>3. Errno(ret) = -ret
    BY <2>2 DEF Errno
  <2> QED
    BY <1>2, <2>1, <2>3
<1>3. CASE -ret \notin ERRNOS
  <2>1. Errno(ret) = -ret \/ Errno(ret) = 0
    BY DEF Errno
  <2> QED
    BY <1>3, <2>1
<1> QED
  BY <1>2, <1>3

\* A failure with a name is shown by it and nothing else is shown as a failure, for
\* every return value and every call.
THEOREM FailureNamedHolds == DecodeSpec => []FailureNamed
<1>1. ASSUME DecodeInv, Decoded
      PROVE  IF -ev.ret \in ERRNOS
             THEN decoded.ret = [as |-> "error", v |-> -ev.ret]
             ELSE decoded.error = 0 /\ decoded.ret.v = ev.ret
  <2> DEFINE error == IF Errno(ev.ret) \in ERRNOS THEN Errno(ev.ret) ELSE 0
  <2>1. /\ ev.ret \in Int /\ decoded.error = error
        /\ decoded.ret = RetvalStr(Info(ev.nr).name, ev.ret, error)
    <3>1. ev.ret \in Int /\ decoded = DecodeEvent(ev)
      BY <1>1, EventIs
    <3> QED
      BY <3>1 DEF DecodeEvent
  <2>2. IF -ev.ret \in ERRNOS THEN error = -ev.ret /\ error # 0 ELSE error = 0
    BY <2>1, ErrnoIs
  <2> HIDE DEF error
  <2> QED
    BY <2>1, <2>2 DEF RetvalStr
<1>2. DecodeInv => FailureNamed
  BY <1>1 DEF FailureNamed
<1> QED
  BY <1>2, DecodeInvariance, PTL

\* Whatever call it is an argument of, a rendering of flags names no bit that is
\* not set and loses only bits of a flag that is not there as a whole.
THEOREM FaithfulHolds == DecodeSpec => []Faithful
<1>1. ASSUME DecodeInv, Shows, [DecodeNext]_decodeVars
      PROVE  Shows'
  <2>1. CASE UNCHANGED <<arg, shown>>
    BY <1>1, <2>1 DEF Shows
  <2>2. ASSUME NEW kind \in Kinds, NEW v, RenderArg(kind, v)
        PROVE  Shows'
    BY <2>2 DEF RenderArg, Shows
  <2>3. CASE RenderArg("prot", {})
    BY <2>2, <2>3 DEF Kinds
  <2>4. ASSUME NEW name \in DOMAIN ArgsOf, NEW args \in ArgsOf[name], NEW ret \in Rets,
               NEW mem \in Bytes, DecodeOne(name, args, ret, mem)
        PROVE  Shows'
    <3> DEFINE info == Info(NR[name])
               flags == LastFlags(info)
    <3>1. IF flags # {}
          THEN RenderArg(FlagKind(info.name, info.args[Max(flags)].name), args[Max(flags)])
          ELSE RenderArg("prot", {})
      BY <2>4 DEF DecodeOne
    <3>2. CASE flags # {}
      <4>1. info.args = RenderArgs(info.name)
        BY <1>1, InfoIs, CallsAssumption DEF DecodeInv
      <4>2. DOMAIN info.args = 1..Len(info.args) /\ Len(info.args) \in Nat
        BY <4>1, MetadataIs
      <4>3. flags \subseteq 0..Len(info.args)
        BY <4>2 DEF LastFlags
      <4>4. Max(flags) \in flags
        <5> HIDE DEF flags
        <5> QED
          BY <3>2, <4>2, <4>3, MaxIs
      <4>5. FlagKind(info.name, info.args[Max(flags)].name) \in Kinds
        <5>1. FlagKind(info.name, info.args[Max(flags)].name) # "none"
          BY <4>4 DEF LastFlags
        <5> QED
          BY <5>1 DEF FlagKind, Kinds
      <4> QED
        BY <2>2, <3>1, <3>2, <4>5
    <3>3. CASE flags = {}
      BY <2>3, <3>1, <3>3
    <3> QED
      BY <3>2, <3>3
  <2> QED
    BY <1>1, <2>1, <2>3, <2>4 DEF DecodeNext, Build, DropEvent, decodeVars
<1>2. DecodeInit => Shows
  BY DEF DecodeInit, Init, Shows, Kinds
<1>3. Shows => Faithful
  BY ShowsFaithful
<1> QED
  BY <1>1, <1>2, <1>3, DecodeInvariance, PTL DEF DecodeSpec
=============================================================================
