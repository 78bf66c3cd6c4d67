-------------------------- MODULE PathStringProofs --------------------------
(***************************************************************************)
(* Proofs about PathString, for memories, chunks, caps and captures of any *)
(* size.                                                                   *)
(*                                                                         *)
(* UpToNul and Mapped name a number by what it is; that there is one comes *)
(* from the least number principle.  The loop of read_cstr is then treated *)
(* once for both readers: each round takes the next bytes of a Source,     *)
(* what was captured or what is mapped, and Round says what it adds.       *)
(***************************************************************************)
EXTENDS PathString, Induction, SequenceTheorems, TLAPS

-----------------------------------------------------------------------------
(* Sequences.                                                              *)

\* Take is the beginning of a sequence.
LEMMA TakeIs ==
    ASSUME NEW S, NEW s \in Seq(S), NEW n \in Nat
    PROVE  /\ Take(s, n) \in Seq(S)
           /\ Len(Take(s, n)) = Least(n, Len(s))
           /\ \A i \in 1..Len(Take(s, n)) : Take(s, n)[i] = s[i]
<1> DEFINE m == Least(n, Len(s))
<1>1. Len(s) \in Nat /\ DOMAIN s = 1..Len(s) /\ \A i \in 1..Len(s) : s[i] \in S
  BY LenProperties, ElementOfSeq
<1>2. m \in Nat /\ m <= Len(s)
  BY <1>1 DEF Least
<1> HIDE DEF m
<1>3. \A i \in 1..m : s[i] \in S
  BY <1>1, <1>2
<1>4. /\ SubSeq(s, 1, m) \in Seq(S)
      /\ Len(SubSeq(s, 1, m)) = IF 1 <= m THEN m - 1 + 1 ELSE 0
      /\ \A i \in 1..(m - 1 + 1) : SubSeq(s, 1, m)[i] = s[1 + i - 1]
  BY <1>2, <1>3, SubSeqProperties
<1>5. Len(SubSeq(s, 1, m)) = m
  BY <1>2, <1>4
<1>6. \A i \in 1..m : SubSeq(s, 1, m)[i] = s[i]
  BY <1>2, <1>4
<1> QED
  BY <1>4, <1>5, <1>6 DEF Take, m

\* What UpToNul promises can be kept, and by one number only.
LEMMA UpToNulIs ==
    ASSUME NEW s \in Seq(Nat)
    PROVE  /\ UpToNul(s) \in 0..Len(s)
           /\ \A i \in 1..UpToNul(s) : s[i] # 0
           /\ UpToNul(s) = Len(s) \/ s[UpToNul(s) + 1] = 0
<1>1. Len(s) \in Nat
  BY LenProperties
<1>2. \E n \in 0..Len(s) : /\ \A i \in 1..n : s[i] # 0
                           /\ n = Len(s) \/ s[n + 1] = 0
  <2> DEFINE T == {i \in 1..Len(s) : s[i] = 0}
  <2>1. CASE T = {}
    BY <1>1, <2>1
  <2>2. CASE T # {}
    <3>1. T \subseteq Nat
      BY <1>1
    <3>2. PICK m \in T : \A k \in T : m <= k
      BY <2>2, <3>1, LeastNumber
    <3>3. m - 1 \in 0..Len(s) /\ s[(m - 1) + 1] = 0
      BY <1>1, <3>2
    <3>4. \A i \in 1..(m - 1) : s[i] # 0
      BY <1>1, <3>2
    <3> QED
      BY <3>3, <3>4
  <2> QED
    BY <2>1, <2>2
<1> QED
  BY <1>2 DEF UpToNul

\* There is only one such number.
LEMMA UpToNulUnique ==
    ASSUME NEW s \in Seq(Nat), NEW n \in 0..Len(s),
           \A i \in 1..n : s[i] # 0,
           n = Len(s) \/ s[n + 1] = 0
    PROVE  n = UpToNul(s)
<1>1. Len(s) \in Nat
  BY LenProperties
<1>2. /\ UpToNul(s) \in 0..Len(s)
      /\ \A i \in 1..UpToNul(s) : s[i] # 0
      /\ UpToNul(s) = Len(s) \/ s[UpToNul(s) + 1] = 0
  BY UpToNulIs
<1>3. ~(n < UpToNul(s))
  <2> SUFFICES ASSUME n < UpToNul(s) PROVE FALSE
    OBVIOUS
  <2>1. n + 1 \in 1..UpToNul(s) /\ n # Len(s)
    BY <1>1, <1>2
  <2> QED
    BY <1>2, <2>1
<1>4. ~(UpToNul(s) < n)
  <2> SUFFICES ASSUME UpToNul(s) < n PROVE FALSE
    OBVIOUS
  <2>1. UpToNul(s) + 1 \in 1..n /\ UpToNul(s) # Len(s)
    BY <1>1, <1>2
  <2> QED
    BY <1>2, <2>1
<1> QED
  BY <1>1, <1>2, <1>3, <1>4

\* What is mapped from an address on: all of it and nothing past a hole.
LEMMA MappedIs ==
    ASSUME NEW m \in Memory, NEW a \in Nat
    PROVE  LET s == Mapped(m, a) IN
           /\ s \in Seq(Byte)
           /\ \A i \in 1..Len(s) : a + i - 1 \in 1..Size /\ s[i] = m[a + i - 1]
                                   /\ m[a + i - 1] # Hole
           /\ ~(a + Len(s) \in 1..Size /\ m[a + Len(s)] # Hole)
<1> DEFINE Fits(n) == /\ \A i \in a..(a + n - 1) : i \in 1..Size /\ m[i] # Hole
                      /\ ~(a + n \in 1..Size /\ m[a + n] # Hole)
           run == CHOOSE n \in 0..Size : Fits(n)
<1>0. Size \in Nat
  BY PathAssumption
<1>1. \E n \in 0..Size : Fits(n)
  <2> DEFINE T == {k \in 0..Size : ~(a + k \in 1..Size /\ m[a + k] # Hole)}
  <2>1. T # {}
    <3>1. CASE a = 0
      <4>1. 0 \in T
        BY <1>0, <3>1
      <4> QED
        BY <4>1
    <3>2. CASE a # 0
      <4>1. Size \in T
        BY <1>0, <3>2
      <4> QED
        BY <4>1
    <3> QED
      BY <3>1, <3>2
  <2>2. T \subseteq Nat
    BY <1>0
  <2>3. PICK n \in T : \A k \in T : n <= k
    BY <2>1, <2>2, LeastNumber
  <2>4. n \in 0..Size /\ ~(a + n \in 1..Size /\ m[a + n] # Hole)
    BY <2>3
  <2>5. ASSUME NEW i \in a..(a + n - 1)
        PROVE  i \in 1..Size /\ m[i] # Hole
    <3>1. i - a \in 0..Size /\ i - a < n /\ a + (i - a) = i
      BY <1>0, <2>4
    <3>2. i - a \notin T
      BY <2>3, <2>4, <3>1
    <3> QED
      BY <3>1, <3>2
  <2> QED
    BY <2>4, <2>5
<1>2. run \in 0..Size /\ Fits(run)
  BY <1>1
<1>3. Mapped(m, a) = [i \in 1..run |-> m[a + i - 1]]
  BY DEF Mapped
<1> HIDE DEF run
<1>4. \A i \in 1..run : a + i - 1 \in 1..Size /\ m[a + i - 1] # Hole
  <2>1. \A i \in 1..run : a + i - 1 \in a..(a + run - 1)
    BY <1>0, <1>2
  <2> QED
    BY <1>2, <2>1
<1>5. \A i \in 1..run : m[a + i - 1] \in Byte
  BY <1>4 DEF Memory
<1>6. Mapped(m, a) \in Seq(Byte) /\ Len(Mapped(m, a)) = run
  <2>1. run \in Nat
    BY <1>0, <1>2
  <2>2. Mapped(m, a) \in [1..run -> Byte]
    BY <1>3, <1>5
  <2>3. Mapped(m, a) \in Seq(Byte)
    BY <2>1, <2>2, SeqDef
  <2> QED
    BY <2>1, <2>2, <2>3, LenProperties
<1> QED
  BY <1>2, <1>3, <1>4, <1>6

\* Reading on k bytes further finds the rest of what was mapped.
LEMMA MappedFrom ==
    ASSUME NEW m \in Memory, NEW a \in Nat, NEW k \in 0..Len(Mapped(m, a))
    PROVE  Mapped(m, a + k) = SubSeq(Mapped(m, a), k + 1, Len(Mapped(m, a)))
<1> DEFINE s == Mapped(m, a)
           t == Mapped(m, a + k)
           L == Len(s)
<1>1. /\ s \in Seq(Byte) /\ L \in Nat
      /\ \A i \in 1..L : a + i - 1 \in 1..Size /\ s[i] = m[a + i - 1] /\ m[a + i - 1] # Hole
      /\ ~(a + L \in 1..Size /\ m[a + L] # Hole)
  BY MappedIs, LenProperties
<1>2. a + k \in Nat /\ k \in Nat /\ k <= L
  BY <1>1
<1>3. /\ t \in Seq(Byte) /\ Len(t) \in Nat
      /\ \A i \in 1..Len(t) : /\ (a + k) + i - 1 \in 1..Size
                              /\ t[i] = m[(a + k) + i - 1] /\ m[(a + k) + i - 1] # Hole
      /\ ~((a + k) + Len(t) \in 1..Size /\ m[(a + k) + Len(t)] # Hole)
  BY <1>2, MappedIs, LenProperties
<1> HIDE DEF s, t
<1>4. Len(t) = L - k
  <2>1. CASE Len(t) < L - k
    <3>1. k + Len(t) + 1 \in 1..L /\ a + (k + Len(t) + 1) - 1 = (a + k) + Len(t)
      BY <1>1, <1>2, <1>3, <2>1
    <3> QED
      BY <1>1, <1>3, <3>1
  <2>2. CASE Len(t) > L - k
    <3>1. L - k + 1 \in 1..Len(t) /\ (a + k) + (L - k + 1) - 1 = a + L
      BY <1>1, <1>2, <1>3, <2>2
    <3> QED
      BY <1>1, <1>3, <3>1
  <2> QED
    BY <1>1, <1>2, <1>3, <2>1, <2>2
<1>5. \A i \in (k + 1)..L : s[i] \in Byte
  BY <1>1, <1>2, ElementOfSeq
<1>6. /\ SubSeq(s, k + 1, L) \in Seq(Byte)
      /\ Len(SubSeq(s, k + 1, L)) = IF k + 1 <= L THEN L - (k + 1) + 1 ELSE 0
      /\ \A i \in 1..(L - (k + 1) + 1) : SubSeq(s, k + 1, L)[i] = s[(k + 1) + i - 1]
  BY <1>1, <1>2, <1>5, SubSeqProperties
<1>7. Len(SubSeq(s, k + 1, L)) = Len(t)
  BY <1>1, <1>2, <1>4, <1>6
<1>8. ASSUME NEW i \in 1..Len(t)
      PROVE  t[i] = SubSeq(s, k + 1, L)[i]
  <2> HIDE DEF L
  <2>0. i \in Nat /\ 1 <= i /\ i <= L - k
    BY <1>3, <1>4
  <2>1. i \in 1..(L - (k + 1) + 1) /\ k + i \in 1..L
    BY <1>1, <1>2, <2>0
  <2>2. (k + 1) + i - 1 = k + i /\ a + (k + i) - 1 = (a + k) + i - 1
    BY <1>2, <1>8, <1>3
  <2>3. s[k + i] = m[a + (k + i) - 1]
    BY <1>1, <2>1
  <2> QED
    BY <1>3, <1>6, <2>1, <2>2, <2>3
<1>9. t = SubSeq(s, k + 1, L)
  BY <1>3, <1>6, <1>7, <1>8, SeqEqual
<1> QED
  BY <1>9 DEF s, t

\* Nothing is mapped at NULL, and nothing anywhere once the task is dead.
LEMMA MappedNothing ==
    ASSUME NEW m \in Memory, NEW a \in Nat, a = 0 \/ m = Gone
    PROVE  Mapped(m, a) = <<>>
<1> DEFINE s == Mapped(m, a)
<1>1. /\ s \in Seq(Byte)
      /\ \A i \in 1..Len(s) : a + i - 1 \in 1..Size /\ m[a + i - 1] # Hole
  BY MappedIs
<1> HIDE DEF s
<1>2. Len(s) \in Nat
  BY <1>1, LenProperties
<1>3. CASE Len(s) # 0
  <2>1. 1 \in 1..Len(s) /\ a + 1 - 1 = a
    BY <1>2, <1>3
  <2>2. a \in 1..Size /\ m[a] # Hole
    BY <1>1, <2>1
  <2> QED
    BY <2>2, PathAssumption DEF Gone
<1>4. CASE Len(s) = 0
  BY <1>1, <1>4, EmptySeq DEF s
<1> QED
  BY <1>3, <1>4

-----------------------------------------------------------------------------
(* One round of read_cstr.                                                 *)

\* o is what a source begins with, and stops before its NUL.
Begins(o, src) ==
    /\ o \in Seq(Byte)
    /\ Len(o) <= UpToNul(src)
    /\ \A i \in 1..Len(o) : o[i] = src[i]

\* The chunk of at most len bytes behind the first n of a source, and what
\* read_cstr makes of o and a chunk.
ChunkOf(src, n, len) == Take(SubSeq(src, n + 1, Len(src)), len)
Extended(o, chunk) == o \o Take(chunk, UpToNul(chunk))

\* A chunk of the rest of the source, cut at its NUL, carries o on: to the end of
\* the string if the chunk is empty or has the NUL, and over the whole of the
\* chunk otherwise.
LEMMA Round ==
    ASSUME NEW src \in Seq(Byte), NEW o, Begins(o, src), NEW len \in Nat \ {0},
           NEW chunk, chunk = ChunkOf(src, Len(o), len),
           NEW o2, o2 = Extended(o, chunk)
    PROVE  /\ Begins(o2, src)
           /\ chunk \in Seq(Byte)
           /\ chunk = <<>> <=> Len(o) = Len(src)
           /\ chunk = <<>> => o2 = o
           /\ chunk = <<>> \/ HasNul(chunk) => Len(o2) = UpToNul(src)
           /\ ~HasNul(chunk) => Len(o2) = Len(o) + Len(chunk)
           /\ Len(o2) <= Len(o) + len
<1> DEFINE k == Len(o)
           L == Len(src)
           U == UpToNul(src)
           rest == SubSeq(src, k + 1, L)
           v == UpToNul(chunk)
<1> USE DEF ChunkOf, Extended
<1>1. /\ o \in Seq(Byte) /\ k \in Nat /\ L \in Nat /\ \A i \in 1..L : src[i] \in Byte
  BY LenProperties, ElementOfSeq DEF Begins
<1>2. Byte \subseteq Nat /\ src \in Seq(Nat)
  BY PathAssumption, SeqMonotonic
<1>3. /\ U \in 0..L /\ k <= U /\ (\A i \in 1..U : src[i] # 0) /\ (U = L \/ src[U + 1] = 0)
  BY <1>2, UpToNulIs DEF Begins
<1> HIDE DEF U
<1>4. /\ rest \in Seq(Byte) /\ Len(rest) = L - k
      /\ \A i \in 1..Len(rest) : rest[i] = src[k + i]
  <2>1. \A i \in (k + 1)..L : src[i] \in Byte
    BY <1>1
  <2>2. /\ rest \in Seq(Byte)
        /\ Len(rest) = IF k + 1 <= L THEN L - (k + 1) + 1 ELSE 0
        /\ \A i \in 1..(L - (k + 1) + 1) : rest[i] = src[(k + 1) + i - 1]
    BY <1>1, <2>1, SubSeqProperties
  <2>3. Len(rest) = L - k
    BY <1>1, <1>3, <2>2
  <2>4. \A i \in 1..(L - k) : rest[i] = src[k + i]
    BY <1>1, <2>2
  <2> QED
    BY <2>2, <2>3, <2>4
<1> HIDE DEF rest
<1>5. /\ chunk \in Seq(Byte) /\ Len(chunk) = Least(len, L - k)
      /\ \A i \in 1..Len(chunk) : chunk[i] = rest[i]
  BY <1>4, TakeIs DEF rest
<1>6. /\ Len(chunk) \in Nat /\ Len(chunk) <= L - k /\ Len(chunk) <= len
      /\ Len(chunk) = 0 <=> k = L
  BY <1>1, <1>3, <1>5 DEF Least
<1>7. \A i \in 1..Len(chunk) : chunk[i] = src[k + i]
  BY <1>1, <1>3, <1>4, <1>5, <1>6
<1>8. /\ v \in 0..Len(chunk) /\ (\A i \in 1..v : chunk[i] # 0)
      /\ (v = Len(chunk) \/ chunk[v + 1] = 0)
  BY <1>2, <1>5, SeqMonotonic, UpToNulIs
<1> HIDE DEF v
<1>9. k + v <= U
  <2> SUFFICES ASSUME k + v > U PROVE FALSE
    BY <1>1, <1>3, <1>6, <1>8
  <2>1. U # L /\ U - k + 1 \in 1..v /\ k + (U - k + 1) = U + 1
    BY <1>1, <1>3, <1>6, <1>8
  <2>2. U - k + 1 \in 1..Len(chunk)
    BY <1>6, <1>8, <2>1
  <2>3. chunk[U - k + 1] = src[U + 1]
    BY <1>7, <2>1, <2>2
  <2> QED
    BY <1>3, <1>8, <2>1, <2>3
<1>10. v < Len(chunk) => k + v = U
  <2> SUFFICES ASSUME v < Len(chunk), k + v < U PROVE FALSE
    BY <1>1, <1>3, <1>6, <1>8, <1>9
  <2>1. v + 1 \in 1..Len(chunk) /\ k + (v + 1) \in 1..U
    BY <1>1, <1>3, <1>6, <1>8
  <2>2. chunk[v + 1] = src[k + (v + 1)]
    BY <1>7, <2>1
  <2>3. src[k + (v + 1)] # 0
    BY <1>3, <2>1
  <2>4. chunk[v + 1] = 0
    BY <1>6, <1>8
  <2> QED
    BY <2>2, <2>3, <2>4
<1>11. /\ Take(chunk, v) \in Seq(Byte) /\ Len(Take(chunk, v)) = v
       /\ \A i \in 1..v : Take(chunk, v)[i] = src[k + i]
  <2>1. Least(v, Len(chunk)) = v /\ v \in Nat
    BY <1>6, <1>8 DEF Least
  <2>2. /\ Take(chunk, v) \in Seq(Byte) /\ Len(Take(chunk, v)) = v
        /\ \A i \in 1..v : Take(chunk, v)[i] = chunk[i]
    <3>1. /\ Take(chunk, v) \in Seq(Byte) /\ Len(Take(chunk, v)) = Least(v, Len(chunk))
          /\ \A i \in 1..Len(Take(chunk, v)) : Take(chunk, v)[i] = chunk[i]
      BY <1>5, <2>1, TakeIs
    <3> QED
      BY <2>1, <3>1
  <2> QED
    BY <1>6, <1>7, <1>8, <2>2
<1>12. /\ o2 \in Seq(Byte) /\ Len(o2) = k + v
       /\ \A i \in 1..(k + v) : o2[i] = IF i <= k THEN o[i] ELSE Take(chunk, v)[i - k]
  BY <1>1, <1>11, ConcatProperties DEF v
<1>13. \A i \in 1..(k + v) : o2[i] = src[i]
  <2> SUFFICES ASSUME NEW i \in 1..(k + v) PROVE o2[i] = src[i]
    OBVIOUS
  <2>1. CASE i <= k
    <3>1. i \in 1..k
      BY <1>1, <1>6, <1>8, <2>1
    <3> QED
      BY <1>12, <2>1, <3>1 DEF Begins
  <2>2. CASE ~(i <= k)
    <3>1. i - k \in 1..v /\ k + (i - k) = i
      BY <1>1, <1>6, <1>8, <2>2
    <3> QED
      BY <1>11, <1>12, <2>2, <3>1
  <2> QED
    BY <2>1, <2>2
<1>14. Begins(o2, src)
  BY <1>9, <1>12, <1>13 DEF Begins, U
<1>15. chunk = <<>> <=> Len(chunk) = 0
  BY <1>5, EmptySeq
<1>16. HasNul(chunk) <=> v < Len(chunk)
  BY DEF HasNul, v
<1>17. chunk = <<>> => o2 = o
  <2> SUFFICES ASSUME chunk = <<>> PROVE o2 = o
    OBVIOUS
  <2>1. v = 0
    BY <1>6, <1>8, <1>15
  <2>2. Len(o2) = k /\ \A i \in 1..k : o2[i] = o[i]
    BY <1>1, <1>12, <2>1
  <2> QED
    BY <1>1, <1>12, <2>2, SeqEqual
<1>18. chunk = <<>> \/ HasNul(chunk) => Len(o2) = U
  BY <1>1, <1>3, <1>6, <1>8, <1>9, <1>10, <1>12, <1>15, <1>16
<1>19. ~HasNul(chunk) => Len(o2) = k + Len(chunk)
  BY <1>6, <1>8, <1>12, <1>16
<1>20. Len(o2) <= k + len
  BY <1>1, <1>6, <1>8, <1>12
<1> QED
  BY <1>5, <1>6, <1>14, <1>15, <1>17, <1>18, <1>19, <1>20 DEF U

-----------------------------------------------------------------------------
(* What the kernel captured.                                               *)

\* A capture is the beginning of what was mapped, and ends with the one NUL that
\* it has; it stops short of the string only if the string is too long for it.
LEMMA CapturedIs ==
    ASSUME NEW m \in Memory, NEW a \in Nat, Captured(m, a) # <<>>
    PROVE  LET c == Captured(m, a)
               B == UpToNul(c)
               U == UpToNul(Mapped(m, a))
           IN /\ a # 0
              /\ c \in Seq(Byte) /\ Len(c) = B + 1 /\ B \in Nat /\ B < CAP_BYTES
              /\ \A i \in 1..B : c[i] = Mapped(m, a)[i]
              /\ B <= U
              /\ B = U \/ (B = CAP_BYTES - 1 /\ U >= CAP_BYTES)
<1> DEFINE M == Mapped(m, a)
           U == UpToNul(M)
           s == Take(M, CAP_BYTES)
           w == UpToNul(s)
           B == Least(w, CAP_BYTES - 1)
           bytes == Take(s, B)
           c == Append(bytes, 0)
<1>0. CAP_BYTES \in Nat /\ CAP_BYTES >= 2 /\ Byte \subseteq Nat /\ 0 \in Byte
  BY PathAssumption
<1>1. a # 0 /\ (HasNul(s) \/ Len(s) = CAP_BYTES) /\ Captured(m, a) = c
  BY DEF Captured, ProbeReadStr, ProcRead
<1>2. M \in Seq(Byte) /\ M \in Seq(Nat) /\ Len(M) \in Nat
  BY <1>0, MappedIs, SeqMonotonic, LenProperties
<1> HIDE DEF M
<1>3. /\ U \in 0..Len(M) /\ (\A i \in 1..U : M[i] # 0) /\ (U = Len(M) \/ M[U + 1] = 0)
  BY <1>2, UpToNulIs
<1>4. /\ s \in Seq(Byte) /\ Len(s) = Least(CAP_BYTES, Len(M))
      /\ \A i \in 1..Len(s) : s[i] = M[i]
  BY <1>0, <1>2, TakeIs
<1>5. s \in Seq(Nat) /\ Len(s) \in Nat /\ Len(s) <= CAP_BYTES /\ Len(s) <= Len(M)
  <2>1. s \in Seq(Nat)
    BY <1>0, <1>4, SeqMonotonic
  <2> QED
    BY <1>0, <1>2, <1>4, <2>1 DEF Least
<1>6. HasNul(s) <=> w < Len(s)
  BY DEF HasNul
<1> HIDE DEF s, U
<1>7. /\ w \in 0..Len(s) /\ (\A i \in 1..w : s[i] # 0) /\ (w = Len(s) \/ s[w + 1] = 0)
  BY <1>5, UpToNulIs
<1> HIDE DEF w
<1>8. w <= U
  <2> SUFFICES ASSUME U < w PROVE FALSE
    BY <1>3, <1>5, <1>7
  <2>1. U + 1 \in 1..w /\ U + 1 \in 1..Len(s) /\ U # Len(M)
    BY <1>2, <1>3, <1>5, <1>7
  <2> QED
    BY <1>3, <1>4, <1>7, <2>1
<1>9. w < Len(s) => w = U
  <2> SUFFICES ASSUME w < Len(s), w < U PROVE FALSE
    BY <1>3, <1>5, <1>7, <1>8
  <2>1. w + 1 \in 1..U /\ w + 1 \in 1..Len(s) /\ w # Len(s)
    BY <1>2, <1>3, <1>5, <1>7
  <2> QED
    BY <1>3, <1>4, <1>7, <2>1
<1>10. B \in Nat /\ B <= w /\ B <= CAP_BYTES - 1
       /\ (B = w \/ (B = CAP_BYTES - 1 /\ w > CAP_BYTES - 1))
  BY <1>0, <1>5, <1>7 DEF Least
<1> HIDE DEF B
<1>11. B <= U /\ (B = U \/ (B = CAP_BYTES - 1 /\ U >= CAP_BYTES))
  <2>1. CASE w < Len(s)
    BY <1>0, <1>3, <1>5, <1>7, <1>9, <1>10, <2>1
  <2>2. CASE ~(w < Len(s))
    <3>1. w = CAP_BYTES
      BY <1>1, <1>5, <1>6, <1>7, <2>2
    <3> QED
      BY <1>0, <1>2, <1>3, <1>8, <1>10, <3>1
  <2> QED
    BY <2>1, <2>2
<1>12. /\ bytes \in Seq(Byte) /\ Len(bytes) = B
       /\ \A i \in 1..B : bytes[i] = s[i]
  <2>1. Least(B, Len(s)) = B
    BY <1>5, <1>7, <1>10 DEF Least
  <2>2. /\ bytes \in Seq(Byte) /\ Len(bytes) = Least(B, Len(s))
        /\ \A i \in 1..Len(bytes) : bytes[i] = s[i]
    BY <1>4, <1>10, TakeIs
  <2> QED
    BY <2>1, <2>2
<1> HIDE DEF bytes
<1>13. /\ c \in Seq(Byte) /\ Len(c) = B + 1 /\ c[B + 1] = 0
       /\ \A i \in 1..B : c[i] = bytes[i]
  BY <1>0, <1>12, AppendProperties
<1> HIDE DEF c
<1>14. \A i \in 1..B : c[i] = M[i] /\ c[i] # 0
  <2> SUFFICES ASSUME NEW i \in 1..B PROVE c[i] = M[i] /\ c[i] # 0
    OBVIOUS
  <2>1. i \in 1..w /\ i \in 1..Len(s)
    BY <1>5, <1>7, <1>10
  <2> QED
    BY <1>4, <1>7, <1>12, <1>13, <2>1
<1>15. UpToNul(c) = B
  <2>1. c \in Seq(Nat)
    BY <1>0, <1>13, SeqMonotonic
  <2>2. B \in 0..Len(c)
    BY <1>10, <1>13
  <2> QED
    BY <1>13, <1>14, <2>1, <2>2, UpToNulUnique
<1> QED
  BY <1>0, <1>1, <1>10, <1>11, <1>13, <1>14, <1>15 DEF M, U

\* The string at an address is the beginning of what is mapped there.
LEMMA StringIs ==
    ASSUME NEW m \in Memory, NEW a \in Nat
    PROVE  LET M == Mapped(m, a)
               U == UpToNul(M)
           IN /\ StringAt(m, a) \in Seq(Byte)
              /\ Len(StringAt(m, a)) = Least(U, PATH_CAP)
              /\ \A i \in 1..Least(U, PATH_CAP) : StringAt(m, a)[i] = M[i]
              /\ U \in Nat /\ U <= Len(M) /\ Len(M) \in Nat
<1> DEFINE M == Mapped(m, a)
           U == UpToNul(M)
           n == Least(U, PATH_CAP)
<1>1. M \in Seq(Byte) /\ M \in Seq(Nat) /\ Len(M) \in Nat
  BY PathAssumption, MappedIs, SeqMonotonic, LenProperties
<1>2. StringAt(m, a) = Take(M, n)
  BY DEF StringAt
<1> HIDE DEF M
<1>3. U \in 0..Len(M)
  BY <1>1, UpToNulIs
<1> HIDE DEF U
<1>4. n \in Nat /\ Least(n, Len(M)) = n
  BY <1>1, <1>3, PathAssumption DEF Least
<1> HIDE DEF n
<1>5. /\ Take(M, n) \in Seq(Byte) /\ Len(Take(M, n)) = Least(n, Len(M))
      /\ \A i \in 1..Len(Take(M, n)) : Take(M, n)[i] = M[i]
  BY <1>1, <1>4, TakeIs
<1> QED
  BY <1>1, <1>2, <1>3, <1>4, <1>5 DEF M, U, n

\* What is shown of a capture is what would be shown of the string.
LEMMA CaptureShown ==
    ASSUME NEW m \in Memory, NEW a \in Nat, Captured(m, a) # <<>>,
           NEW o, Begins(o, Captured(m, a)),
           Len(o) = Least(UpToNul(Captured(m, a)), PATH_CAP)
    PROVE  Quote(o) = Quote(StringAt(m, a))
<1> DEFINE c == Captured(m, a)
           B == UpToNul(c)
           M == Mapped(m, a)
           U == UpToNul(M)
           t == StringAt(m, a)
<1>0. /\ CAP_BYTES \in Nat /\ PATH_CAP \in Nat /\ MAX_STR \in Nat
      /\ CAP_BYTES >= MAX_STR + 2 /\ PATH_CAP >= CAP_BYTES
  BY PathAssumption
<1>1. /\ c \in Seq(Byte) /\ B \in Nat /\ B < CAP_BYTES
      /\ \A i \in 1..B : c[i] = M[i]
      /\ B <= U
      /\ B = U \/ (B = CAP_BYTES - 1 /\ U >= CAP_BYTES)
  BY CapturedIs
<1>2. /\ t \in Seq(Byte) /\ Len(t) = Least(U, PATH_CAP)
      /\ \A i \in 1..Least(U, PATH_CAP) : t[i] = M[i]
      /\ U \in Nat
  BY StringIs
<1>3. /\ o \in Seq(Byte) /\ Len(o) = Least(B, PATH_CAP)
      /\ \A i \in 1..Len(o) : o[i] = c[i]
  BY DEF Begins
<1> HIDE DEF c, B, M, U, t
<1>4. Len(o) = B
  BY <1>0, <1>1, <1>3 DEF Least
<1>5. \A i \in 1..B : o[i] = M[i]
  BY <1>1, <1>3, <1>4
<1>6. CASE B = U
  <2>1. Len(t) = B
    BY <1>0, <1>1, <1>2, <1>6 DEF Least
  <2>2. \A i \in 1..B : t[i] = M[i]
    BY <1>2, <2>1
  <2>3. o = t
    BY <1>2, <1>3, <1>4, <1>5, <2>1, <2>2, SeqEqual
  <2> QED
    BY <2>3 DEF t
<1>7. CASE B # U
  <2>1. Len(o) > MAX_STR /\ Len(t) > MAX_STR /\ Len(t) >= CAP_BYTES
    BY <1>0, <1>1, <1>2, <1>4, <1>7 DEF Least
  <2>2. /\ Take(o, MAX_STR) \in Seq(Byte) /\ Len(Take(o, MAX_STR)) = MAX_STR
        /\ \A i \in 1..MAX_STR : Take(o, MAX_STR)[i] = o[i]
    <3>1. Least(MAX_STR, Len(o)) = MAX_STR
      BY <1>0, <1>1, <1>4, <2>1 DEF Least
    <3>2. /\ Take(o, MAX_STR) \in Seq(Byte)
          /\ Len(Take(o, MAX_STR)) = Least(MAX_STR, Len(o))
          /\ \A i \in 1..Len(Take(o, MAX_STR)) : Take(o, MAX_STR)[i] = o[i]
      BY <1>0, <1>3, TakeIs
    <3> QED
      BY <3>1, <3>2
  <2>3. /\ Take(t, MAX_STR) \in Seq(Byte) /\ Len(Take(t, MAX_STR)) = MAX_STR
        /\ \A i \in 1..MAX_STR : Take(t, MAX_STR)[i] = t[i]
    <3>1. Len(t) \in Nat
      BY <1>2, LenProperties
    <3>2. Least(MAX_STR, Len(t)) = MAX_STR
      BY <1>0, <2>1, <3>1 DEF Least
    <3>3. /\ Take(t, MAX_STR) \in Seq(Byte)
          /\ Len(Take(t, MAX_STR)) = Least(MAX_STR, Len(t))
          /\ \A i \in 1..Len(Take(t, MAX_STR)) : Take(t, MAX_STR)[i] = t[i]
      BY <1>0, <1>2, TakeIs
    <3> QED
      BY <3>2, <3>3
  <2>4. \A i \in 1..MAX_STR : o[i] = t[i]
    <3>1. \A i \in 1..MAX_STR : i \in 1..B /\ i \in 1..Least(U, PATH_CAP)
      BY <1>0, <1>1, <1>2, <1>4, <2>1 DEF Least
    <3> QED
      BY <1>2, <1>5, <3>1
  <2>5. Take(o, MAX_STR) = Take(t, MAX_STR)
    BY <2>2, <2>3, <2>4, SeqEqual
  <2> QED
    BY <2>1, <2>5 DEF Quote, t
<1> QED
  BY <1>6, <1>7

-----------------------------------------------------------------------------
(* The loop.                                                               *)

\* With ptrace the memory is what it was when the call returned, or gone.
PathType ==
    /\ backend \in {"ptrace", "ebpf"}
    /\ mem \in Memory /\ atExit \in Memory
    /\ addr \in 0..Size
    /\ capture = <<>> \/ (backend = "ebpf" /\ capture = Captured(atExit, addr))
    /\ backend = "ptrace" => mem \in {atExit, Gone}

\* What read_cstr reads from, where that was settled when the call returned.
Settled == backend = "ptrace" \/ capture # <<>>
Source == IF capture # <<>> THEN capture ELSE Mapped(atExit, addr)

\* The cursor is behind the bytes of the source that were taken so far; at the
\* end all of the string were taken that fit, unless the task died.
LoopInv ==
    Settled =>
    /\ Begins(out, Source)
    /\ pc = "read" => cursor = addr + Len(out) /\ Len(out) < PATH_CAP
    /\ pc = "done" =>
          /\ Len(out) <= PATH_CAP
          /\ capture # <<>> \/ mem = atExit => Len(out) = Least(UpToNul(Source), PATH_CAP)
    /\ pc = "none" => capture = <<>> /\ (mem = atExit => Mapped(mem, addr) = <<>>)

PathInv == PathType /\ LoopInv

\* The source is a sequence of bytes, and a capture has its NUL at its end.
LEMMA SourceIs ==
    ASSUME PathType
    PROVE  /\ addr \in Nat /\ Source \in Seq(Byte) /\ Len(Source) \in Nat
           /\ UpToNul(Source) \in 0..Len(Source)
           /\ capture # <<>> => addr # 0 /\ UpToNul(capture) = Len(capture) - 1
<1>1. addr \in Nat
  BY PathAssumption DEF PathType
<1>2. capture # <<>> => /\ capture \in Seq(Byte) /\ addr # 0
                        /\ UpToNul(capture) = Len(capture) - 1
  <2> SUFFICES ASSUME capture # <<>>
               PROVE  /\ capture \in Seq(Byte) /\ addr # 0
                      /\ UpToNul(capture) = Len(capture) - 1
    OBVIOUS
  <2>1. capture = Captured(atExit, addr)
    BY DEF PathType
  <2>2. /\ addr # 0 /\ capture \in Seq(Byte) /\ UpToNul(capture) \in Nat
        /\ Len(capture) = UpToNul(capture) + 1
    BY <1>1, <2>1, CapturedIs DEF PathType
  <2> QED
    BY <2>2
<1>3. Mapped(atExit, addr) \in Seq(Byte)
  BY <1>1, MappedIs DEF PathType
<1>4. Source \in Seq(Byte)
  BY <1>2, <1>3 DEF Source
<1>5. Source \in Seq(Nat)
  BY <1>4, PathAssumption, SeqMonotonic
<1> QED
  BY <1>1, <1>2, <1>4, <1>5, UpToNulIs, LenProperties

\* What a round reads is the next of the source, or nothing if the task is dead.
LEMMA ReadsSource ==
    ASSUME PathInv, Settled, pc = "read", NEW len \in Nat \ {0}
    PROVE  \/ /\ capture # <<>> \/ mem = atExit
              /\ Read(cursor, len) = Take(SubSeq(Source, Len(out) + 1, Len(Source)), len)
           \/ /\ capture = <<>> /\ mem = Gone
              /\ Read(cursor, len) = <<>>
<1>1. /\ addr \in Nat /\ Source \in Seq(Byte) /\ Len(Source) \in Nat
      /\ UpToNul(Source) \in 0..Len(Source)
      /\ capture # <<>> => UpToNul(capture) = Len(capture) - 1
  BY SourceIs DEF PathInv
<1>2. /\ out \in Seq(Byte) /\ Len(out) \in Nat /\ Len(out) <= UpToNul(Source)
      /\ cursor = addr + Len(out)
  BY LenProperties DEF PathInv, LoopInv, Begins
<1>3. CASE capture # <<>>
  <2>1. Source = capture
    BY <1>3 DEF Source
  <2>2. Len(out) <= Len(capture) - 1 /\ Len(capture) \in Nat
    BY <1>1, <1>2, <1>3, <2>1
  <2>3. cursor \in addr..(addr + Len(capture) - 1) /\ cursor - addr + 1 = Len(out) + 1
    BY <1>1, <1>2, <2>2
  <2> QED
    BY <1>3, <2>1, <2>3 DEF Read
<1>4. CASE capture = <<>>
  <2>1. Len(capture) = 0
    BY <1>4
  <2>2. cursor \notin addr..(addr + Len(capture) - 1)
    BY <1>1, <1>2, <2>1
  <2>3. Read(cursor, len) = Take(Mapped(mem, addr + Len(out)), len)
    BY <1>2, <2>2 DEF Read, ProcRead
  <2>4. Source = Mapped(atExit, addr) /\ mem \in {atExit, Gone} /\ mem \in Memory
    BY <1>4 DEF Source, PathInv, PathType, Settled
  <2>5. CASE mem = atExit
    <3>1. Len(out) \in 0..Len(Mapped(mem, addr))
      BY <1>1, <1>2, <2>4, <2>5
    <3>2. Mapped(mem, addr + Len(out))
             = SubSeq(Mapped(mem, addr), Len(out) + 1, Len(Mapped(mem, addr)))
      BY <1>1, <2>4, <3>1, MappedFrom
    <3> QED
      BY <2>3, <2>4, <2>5, <3>2
  <2>6. CASE mem = Gone
    <3>1. addr + Len(out) \in Nat
      BY <1>1, <1>2
    <3>2. Mapped(mem, addr + Len(out)) = <<>>
      BY <2>4, <2>6, <3>1, MappedNothing
    <3>3. /\ Take(<<>>, len) \in Seq(Byte)
          /\ Len(Take(<<>>, len)) = Least(len, Len(<<>>))
      <4>1. <<>> \in Seq(Byte) /\ len \in Nat
        OBVIOUS
      <4> QED
        BY <4>1, TakeIs
    <3>4. Least(len, Len(<<>>)) = 0
      BY DEF Least
    <3>5. Take(<<>>, len) = <<>>
      BY <3>3, <3>4, EmptySeq
    <3> QED
      BY <1>4, <2>3, <2>6, <3>2, <3>5
  <2> QED
    BY <2>4, <2>5, <2>6
<1> QED
  BY <1>3, <1>4

\* A round of read_cstr keeps the loop invariant.
LEMMA RoundStep ==
    ASSUME PathInv, ReadCstr, Settled
    PROVE  LoopInv'
<1> DEFINE k == Len(out)
           len == Least(CHUNK, PATH_CAP - k)
           chunk == Read(cursor, len)
           o2 == out \o Take(chunk, UpToNul(chunk))
<1>0. UNCHANGED <<mem, atExit, addr, capture, backend>> /\ pc = "read"
  BY DEF ReadCstr
<1>1. Settled' /\ Source' = Source
  BY <1>0 DEF Settled, Source
<1>2. /\ Begins(out, Source) /\ cursor = addr + k /\ k < PATH_CAP /\ k \in Nat
  BY <1>0, LenProperties DEF PathInv, LoopInv, Begins
<1>3. PATH_CAP \in Nat /\ CHUNK \in Nat \ {0}
  BY PathAssumption
<1>4. len \in Nat \ {0} /\ k + len <= PATH_CAP
  BY <1>2, <1>3 DEF Least
<1>5. /\ addr \in Nat /\ Source \in Seq(Byte) /\ Len(Source) \in Nat
      /\ UpToNul(Source) \in 0..Len(Source)
      /\ capture # <<>> => addr # 0 /\ UpToNul(capture) = Len(capture) - 1
  BY SourceIs DEF PathInv
<1>6. \/ /\ addr = 0 \/ (chunk = <<>> /\ out = <<>>)
         /\ pc' = "none" /\ UNCHANGED <<out, cursor>>
      \/ /\ addr # 0 /\ (chunk # <<>> \/ out # <<>>)
         /\ out' = o2 /\ cursor' = cursor + Len(chunk)
         /\ pc' = IF chunk = <<>> \/ HasNul(chunk) \/ Len(o2) >= PATH_CAP
                  THEN "done" ELSE "read"
  BY DEF ReadCstr
<1>7. \/ /\ capture # <<>> \/ mem = atExit
         /\ chunk = Take(SubSeq(Source, k + 1, Len(Source)), len)
      \/ capture = <<>> /\ mem = Gone /\ chunk = <<>>
  BY <1>0, <1>4, ReadsSource
<1>8. CASE capture = <<>> /\ mem = Gone /\ mem # atExit /\ chunk = <<>>
  <2>1. pc' \in {"none", "done"}
    BY <1>6, <1>8
  <2>2. o2 = out
    <3>1. <<>> \in Seq(Byte) /\ <<>> \in Seq(Nat) /\ Len(<<>>) = 0
      OBVIOUS
    <3>2. UpToNul(<<>>) = 0
      <4>1. UpToNul(<<>>) \in 0..Len(<<>>)
        BY <3>1, UpToNulIs
      <4> QED
        BY <3>1, <4>1
    <3>3. Take(<<>>, 0) \in Seq(Byte) /\ Len(Take(<<>>, 0)) = Least(0, 0)
      BY <3>1, TakeIs
    <3>4. Take(<<>>, 0) = <<>>
      BY <3>3, EmptySeq DEF Least
    <3> QED
      BY <1>2, <1>8, <3>2, <3>4, ConcatEmptySeq DEF Begins
  <2>3. out' = out
    BY <1>6, <2>2
  <2> QED
    BY <1>0, <1>1, <1>2, <1>3, <1>8, <2>1, <2>3 DEF LoopInv
<1>9. CASE /\ capture # <<>> \/ mem = atExit
           /\ chunk = Take(SubSeq(Source, k + 1, Len(Source)), len)
  <2> HIDE DEF len, chunk
  <2>1. /\ Begins(o2, Source) /\ chunk \in Seq(Byte)
        /\ chunk = <<>> <=> k = Len(Source)
        /\ chunk = <<>> \/ HasNul(chunk) => Len(o2) = UpToNul(Source)
        /\ ~HasNul(chunk) => Len(o2) = k + Len(chunk)
        /\ Len(o2) <= k + len
    <3>1. chunk = ChunkOf(Source, Len(out), len)
      BY <1>9 DEF ChunkOf
    <3>2. o2 = Extended(out, chunk)
      BY DEF Extended
    <3>3. Begins(out, Source) /\ Source \in Seq(Byte) /\ len \in Nat \ {0}
      BY <1>2, <1>4, <1>5
    <3> HIDE DEF o2
    <3>4. /\ Begins(o2, Source)
          /\ chunk \in Seq(Byte)
          /\ chunk = <<>> <=> Len(out) = Len(Source)
          /\ chunk = <<>> => o2 = out
          /\ chunk = <<>> \/ HasNul(chunk) => Len(o2) = UpToNul(Source)
          /\ ~HasNul(chunk) => Len(o2) = Len(out) + Len(chunk)
          /\ Len(o2) <= Len(out) + len
      <4> HIDE DEF k
      <4> QED
        BY <3>1, <3>2, <3>3, Round
    <3> QED
      BY <3>4
  <2>2. Len(chunk) \in Nat /\ Len(o2) \in Nat /\ Len(o2) <= UpToNul(Source)
    BY <2>1, LenProperties DEF Begins
  <2> HIDE DEF o2
  <2>3. CASE addr = 0 \/ (chunk = <<>> /\ out = <<>>)
    <3>1. pc' = "none" /\ out' = out
      BY <1>6, <2>3
    <3>2. capture = <<>>
      <4> SUFFICES ASSUME capture # <<>> PROVE FALSE
        OBVIOUS
      <4>1. Source = capture /\ addr # 0 /\ UpToNul(Source) = Len(Source) - 1
        BY <1>5 DEF Source
      <4>2. k = Len(Source) /\ k <= UpToNul(Source)
        BY <1>2, <2>1, <2>3, <4>1 DEF Begins
      <4> QED
        BY <1>5, <4>1, <4>2
    <3>3. mem = atExit /\ Source = Mapped(mem, addr) /\ mem \in Memory
      BY <1>9, <3>2 DEF Source, PathInv, PathType
    <3>4. Mapped(mem, addr) = <<>>
      <4>1. CASE addr = 0
        BY <1>5, <3>3, <4>1, MappedNothing
      <4>2. CASE chunk = <<>> /\ out = <<>>
        <5>1. Len(Source) = 0
          BY <2>1, <4>2
        <5> QED
          BY <1>5, <3>3, <5>1, EmptySeq
      <4> QED
        BY <2>3, <4>1, <4>2
    <3> QED
      BY <1>0, <1>1, <1>2, <3>1, <3>2, <3>4 DEF LoopInv
  <2>4. CASE ~(addr = 0 \/ (chunk = <<>> /\ out = <<>>))
    <3>1. /\ out' = o2 /\ cursor' = cursor + Len(chunk)
          /\ pc' = IF chunk = <<>> \/ HasNul(chunk) \/ Len(o2) >= PATH_CAP
                   THEN "done" ELSE "read"
      BY <1>6, <2>4
    <3>2. CASE pc' = "read"
      <4>1. ~HasNul(chunk) /\ ~(Len(o2) >= PATH_CAP)
        BY <3>1, <3>2
      <4>2. cursor' = addr' + Len(out') /\ Len(out') < PATH_CAP
        <5>1. Len(o2) = k + Len(chunk)
          BY <2>1, <4>1
        <5>2. addr' = addr /\ out' = o2 /\ cursor' = (addr + k) + Len(chunk)
          BY <1>0, <1>2, <3>1
        <5> HIDE DEF k
        <5>3. (addr + k) + Len(chunk) = addr + Len(o2)
          BY <1>2, <1>5, <2>2, <5>1
        <5>4. Len(o2) < PATH_CAP
          BY <1>3, <2>2, <4>1
        <5> QED
          BY <5>2, <5>3, <5>4
      <4> QED
        BY <1>1, <2>1, <3>1, <3>2, <4>2 DEF LoopInv
    <3>3. CASE pc' = "done"
      <4>1. Len(o2) <= PATH_CAP
        BY <1>2, <1>3, <1>4, <2>1, <2>2
      <4>2. Len(o2) = UpToNul(Source) \/ Len(o2) >= PATH_CAP
        BY <2>1, <3>1, <3>3
      <4>3. Len(o2) = Least(UpToNul(Source), PATH_CAP)
        BY <1>3, <1>5, <2>2, <4>1, <4>2 DEF Least
      <4> QED
        BY <1>1, <2>1, <3>1, <3>3, <4>1, <4>3 DEF LoopInv
    <3> QED
      BY <3>1, <3>2, <3>3
  <2> QED
    BY <2>3, <2>4
<1>10. CASE capture = <<>> /\ mem = Gone /\ mem = atExit /\ chunk = <<>>
  <2>1. chunk = Take(SubSeq(Source, k + 1, Len(Source)), len)
    <3>1. Source = <<>>
      BY <1>5, <1>10, MappedNothing DEF Source, PathInv, PathType
    <3>2. k = 0
      BY <1>2, <1>5, <3>1 DEF Begins
    <3>3. SubSeq(Source, k + 1, Len(Source)) = <<>>
      BY <3>1, <3>2, SubSeqEmpty
    <3>4. <<>> \in Seq(Byte) /\ Len(<<>>) = 0
      OBVIOUS
    <3>5. Take(<<>>, len) \in Seq(Byte) /\ Len(Take(<<>>, len)) = Least(len, 0)
      BY <1>4, <3>4, TakeIs
    <3>6. Least(len, 0) = 0
      BY <1>4 DEF Least
    <3>7. Take(<<>>, len) = <<>>
      BY <3>5, <3>6, EmptySeq
    <3> QED
      BY <1>10, <3>3, <3>7
  <2> QED
    BY <1>9, <1>10, <2>1
<1> QED
  BY <1>7, <1>8, <1>9, <1>10

\* Every step keeps the invariant of the loop.
LEMMA PathStep ==
    ASSUME PathInv, [Next]_vars
    PROVE  PathInv'
<1>1. CASE ReadCstr
  <2>1. PathType'
    BY <1>1 DEF ReadCstr, PathInv, PathType
  <2>2. CASE Settled
    BY <1>1, <2>1, <2>2, RoundStep DEF PathInv
  <2>3. CASE ~Settled
    <3>1. ~Settled'
      BY <1>1, <2>3 DEF ReadCstr, Settled
    <3> QED
      BY <2>1, <3>1 DEF PathInv, LoopInv
  <2> QED
    BY <2>2, <2>3
<1>2. ASSUME NEW a \in 1..Size, NEW b \in Byte \cup {Hole}, TaskWrites(a, b)
      PROVE  PathInv'
  <2>1. mem' \in Memory
    BY <1>2 DEF TaskWrites, PathInv, PathType, Memory
  <2>2. PathType'
    BY <1>2, <2>1 DEF TaskWrites, PathInv, PathType
  <2>3. Source' = Source
    BY <1>2 DEF TaskWrites, Source
  <2> QED
    BY <1>2, <2>2, <2>3 DEF TaskWrites, PathInv, LoopInv, Settled
<1>3. CASE TaskDies
  <2>1. mem' \in Memory
    BY <1>3 DEF TaskDies, Memory, Gone
  <2>2. PathType'
    BY <1>3, <2>1 DEF TaskDies, PathInv, PathType
  <2>3. Source' = Source
    BY <1>3 DEF TaskDies, Source
  <2> QED
    BY <1>3, <2>2, <2>3 DEF TaskDies, PathInv, LoopInv, Settled
<1>4. CASE UNCHANGED vars
  BY <1>4 DEF vars, PathInv, PathType, LoopInv, Settled, Source
<1> QED
  BY <1>1, <1>2, <1>3, <1>4 DEF Next, Stutter

\* Nothing was taken yet.
LEMMA PathInit == Init => PathInv
<1> SUFFICES ASSUME Init PROVE PathInv
  OBVIOUS
<1>1. PathType
  BY DEF Init, PathType
<1>2. Begins(out, Source)
  <2>1. out = <<>> /\ <<>> \in Seq(Byte) /\ Len(<<>>) = 0 /\ UpToNul(Source) >= 0
    BY <1>1, SourceIs DEF Init
  <2> QED
    BY <2>1 DEF Begins
<1>3. cursor = addr + Len(out) /\ Len(out) < PATH_CAP
  <2>1. out = <<>> /\ cursor = addr /\ addr \in Nat
    BY <1>1, SourceIs DEF Init
  <2> QED
    BY <2>1, PathAssumption
<1> QED
  BY <1>1, <1>2, <1>3 DEF Init, PathInv, LoopInv

\* The invariant of the loop of read_cstr, whichever reader it has.
THEOREM LoopInvariance == Spec => []PathInv
<1>1. PathInv /\ [Next]_vars => PathInv'
  BY PathStep
<1> QED
  BY <1>1, PathInit, PTL DEF Spec

\* With ptrace, read_cstr yields the string at the address: whatever the size of
\* its chunks, and wherever its end, the cap or an unmapped page falls.
THEOREM WholeStringHolds == Spec => []WholeString
<1>1. ASSUME PathInv
      PROVE  WholeString
  <2> SUFFICES ASSUME backend = "ptrace" PROVE WholeString
    BY DEF WholeString
  <2> DEFINE t == StringAt(atExit, addr)
             M == Mapped(atExit, addr)
             U == UpToNul(M)
  <2>1. capture = <<>> /\ Settled /\ Source = M /\ addr \in Nat /\ atExit \in Memory
    BY <1>1, SourceIs DEF PathInv, PathType, Settled, Source
  <2>2. /\ t \in Seq(Byte) /\ Len(t) = Least(U, PATH_CAP)
        /\ \A i \in 1..Least(U, PATH_CAP) : t[i] = M[i]
        /\ U \in Nat /\ PATH_CAP \in Nat
    BY <2>1, StringIs, PathAssumption
  <2>3. /\ out \in Seq(Byte) /\ Len(out) \in Nat /\ Len(out) <= U
        /\ \A i \in 1..Len(out) : out[i] = M[i]
    BY <1>1, <2>1, LenProperties DEF PathInv, LoopInv, Begins
  <2>4. /\ pc = "done" => /\ Len(out) <= PATH_CAP
                          /\ mem = atExit => Len(out) = Least(U, PATH_CAP)
        /\ pc = "none" /\ mem = atExit => Mapped(mem, addr) = <<>>
    BY <1>1, <2>1 DEF PathInv, LoopInv
  <2> HIDE DEF t, M, U
  <2>5. ASSUME pc = "done"
        PROVE  IsPrefix(out, t)
    <3>1. Len(out) <= Len(t) /\ Len(t) \in Nat
      BY <2>2, <2>3, <2>4, <2>5 DEF Least
    <3>2. \A i \in 1..Len(out) : out[i] \in Byte /\ t[i] \in Byte /\ out[i] = t[i]
      BY <2>2, <2>3, <3>1, ElementOfSeq
    <3>3. SubSeq(out, 1, Len(out)) = SubSeq(t, 1, Len(out))
      <4> DEFINE n == Len(out)
      <4> HIDE DEF n
      <4>1. n \in Nat /\ \A i \in 1..n : out[i] \in Byte /\ t[i] \in Byte /\ out[i] = t[i]
        BY <2>3, <3>2 DEF n
      <4>2. /\ SubSeq(out, 1, n) \in Seq(Byte)
            /\ Len(SubSeq(out, 1, n)) = IF 1 <= n THEN n - 1 + 1 ELSE 0
            /\ \A i \in 1..(n - 1 + 1) : SubSeq(out, 1, n)[i] = out[1 + i - 1]
        BY <4>1, SubSeqProperties
      <4>3. /\ SubSeq(t, 1, n) \in Seq(Byte)
            /\ Len(SubSeq(t, 1, n)) = IF 1 <= n THEN n - 1 + 1 ELSE 0
            /\ \A i \in 1..(n - 1 + 1) : SubSeq(t, 1, n)[i] = t[1 + i - 1]
        BY <4>1, SubSeqProperties
      <4>4. Len(SubSeq(out, 1, n)) = n /\ Len(SubSeq(t, 1, n)) = n
        BY <4>1, <4>2, <4>3
      <4>5. \A i \in 1..n : SubSeq(out, 1, n)[i] = SubSeq(t, 1, n)[i]
        BY <4>1, <4>2, <4>3
      <4>6. SubSeq(out, 1, n) = SubSeq(t, 1, n)
        BY <4>2, <4>3, <4>4, <4>5, SeqEqual
      <4> QED
        BY <4>6 DEF n
    <3> QED
      BY <3>1, <3>3 DEF IsPrefix
  <2>6. ASSUME pc = "done", mem = atExit
        PROVE  out = t
    <3>1. Len(out) = Len(t) /\ \A i \in 1..Len(out) : out[i] = t[i]
      BY <2>2, <2>3, <2>4, <2>6
    <3> QED
      BY <2>2, <2>3, <3>1, SeqEqual
  <2> QED
    BY <2>4, <2>5, <2>6 DEF WholeString, t
<1> QED
  BY <1>1, LoopInvariance, PTL

\* What was captured in the kernel is shown as it was when the call returned,
\* whatever the task does to its memory, and no shorter for the size of the capture.
THEOREM CaptureIsEnoughHolds == Spec => []CaptureIsEnough
<1>1. ASSUME PathInv
      PROVE  CaptureIsEnough
  <2> SUFFICES ASSUME capture # <<>> PROVE CaptureIsEnough
    BY DEF CaptureIsEnough
  <2>1. /\ Settled /\ Source = capture /\ capture = Captured(atExit, addr)
        /\ addr \in Nat /\ atExit \in Memory
    BY <1>1, SourceIs DEF PathInv, PathType, Settled, Source
  <2>2. /\ Begins(out, capture) /\ pc # "none"
        /\ pc = "done" => Len(out) = Least(UpToNul(capture), PATH_CAP)
    BY <1>1, <2>1 DEF PathInv, LoopInv
  <2>3. pc = "done" => Quote(out) = Quote(StringAt(atExit, addr))
    BY <2>1, <2>2, CaptureShown
  <2> QED
    BY <2>2, <2>3 DEF CaptureIsEnough
<1> QED
  BY <1>1, LoopInvariance, PTL
=============================================================================
