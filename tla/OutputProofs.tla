---------------------------- MODULE OutputProofs ----------------------------
(***************************************************************************)
(* Proofs about Output, for any options, any calls and any device, and for *)
(* buffers of any size.                                                    *)
(***************************************************************************)
EXTENDS Output, Induction, SequenceTheorems, FiniteSetTheorems, TLAPS

-----------------------------------------------------------------------------
(* The lines.                                                              *)

\* The pieces of the lines of the text and the JSON sink.
Piece == [id : Nat, part : Nat, nl : BOOLEAN]

\* LinesOf of a set and 0, 1, ..., n.
UpToLine(set, n) ==
    CHOOSE f : f = [i \in 0..n |->
                      IF i = 0 THEN <<>>
                      ELSE f[i - 1] \o (IF i \in set THEN Line(i) ELSE <<>>)]

\* The parts of a line are pieces, and the newline is the last.
LEMMA LineIs ==
    ASSUME NEW i \in Nat
    PROVE  /\ Body(i) \in Seq(Piece) /\ Len(Body(i)) = Parts /\ Parts \in Nat
           /\ Newline(i) \in Piece /\ Newline(i).nl
           /\ Line(i) \in Seq(Piece) /\ Len(Line(i)) = Parts + 1
           /\ \A k \in 1..Parts : Line(i)[k] = Body(i)[k] /\ ~Body(i)[k].nl
           /\ Line(i)[Parts + 1] = Newline(i)
<1> DEFINE B == Body(i)
           N == Newline(i)
<1>1. Parts \in Nat
  BY OutputAssumption
<1>2. N \in Piece /\ N.nl
  BY <1>1 DEF Newline, Piece
<1>3. \A k \in 1..Parts : B[k] \in Piece /\ ~B[k].nl
  BY <1>1 DEF Body, Piece
<1>4. B \in [1..Parts -> Piece]
  BY <1>3 DEF Body
<1> HIDE DEF B, N
<1>5. B \in Seq(Piece) /\ Len(B) = Parts
  BY <1>1, <1>4
<1>6. /\ Append(B, N) \in Seq(Piece) /\ Len(Append(B, N)) = Len(B) + 1
      /\ \A k \in 1..Len(B) : Append(B, N)[k] = B[k]
      /\ Append(B, N)[Len(B) + 1] = N
  BY <1>2, <1>5, AppendProperties
<1> QED
  BY <1>1, <1>2, <1>3, <1>5, <1>6 DEF Line, B, N

\* UpToLine is what its definition says.
LEMMA UpToLineIs ==
    ASSUME NEW set, NEW n \in Nat
    PROVE  /\ UpToLine(set, n) \in [0..n -> Seq(Piece)]
           /\ UpToLine(set, n)[0] = <<>>
           /\ \A i \in 1..n : UpToLine(set, n)[i]
                 = UpToLine(set, n)[i - 1] \o (IF i \in set THEN Line(i) ELSE <<>>)
<1> DEFINE X == Seq(Piece)
           b == <<>>
           add(i) == IF i \in set THEN Line(i) ELSE <<>>
           step(x, i) == x \o add(i)
           g == [i \in 1..n |-> [x \in X |-> step(x, i)]]
           Is(f) == f = [i \in 0..n |-> IF i = 0 THEN b ELSE step(f[i - 1], i)]
           u == UpToLine(set, n)
<1>1. ASSUME NEW i \in 1..n, NEW x \in X
      PROVE  step(x, i) \in X
  <2>1. add(i) \in X
    BY LineIs
  <2> HIDE DEF add
  <2> QED
    BY <2>1, ConcatProperties
<1>2. b \in X
  OBVIOUS
<1>3. u = CHOOSE h : Is(h)
  BY DEF UpToLine
<1> HIDE DEF X, b, step, u
<1>4. Steps(g, n, X)
  BY <1>1 DEF Steps
<1>5. PICK f : Comes(f, n, X, b, g)
  <2> HIDE DEF g
  <2> QED
    BY <1>2, <1>4, Recursion
<1>6. Is(f)
  <2>1. ASSUME NEW i \in 0..n
        PROVE  f[i] = IF i = 0 THEN b ELSE step(f[i - 1], i)
    <3>1. CASE i = 0
      BY <1>5, <3>1 DEF Comes
    <3>2. CASE i # 0
      <4>1. i \in 1..n /\ f[i - 1] \in X
        BY <1>5, <3>2 DEF Comes
      <4>2. g[i][f[i - 1]] = step(f[i - 1], i)
        BY <4>1
      <4> HIDE DEF g
      <4> QED
        BY <1>5, <3>2, <4>1, <4>2 DEF Comes
    <3> QED
      BY <3>1, <3>2
  <2> QED
    BY <1>5, <2>1 DEF Comes
<1>7. Is(u)
  <2> HIDE DEF Is
  <2> QED
    BY <1>3, <1>6
<1>8. DOMAIN u = 0..n /\ u = [i \in DOMAIN u |-> u[i]]
  BY <1>7
<1>9. ASSUME NEW i \in 0..n
      PROVE  u[i] = IF i = 0 THEN b ELSE step(u[i - 1], i)
  BY <1>7
<1>10. u[0] = b /\ \A i \in 1..n : u[i] = step(u[i - 1], i)
  BY <1>9
<1>11. \A i \in 0..n : u[i] \in X
  <2> DEFINE T == {i \in 0..n : u[i] \in X}
  <2>1. 0 \in T
    BY <1>2, <1>10
  <2>2. \A i \in 1..n : i - 1 \in T => i \in T
    BY <1>1, <1>10
  <2> HIDE DEF T
  <2>3. \A i \in 0..n : i \in T
    BY <2>1, <2>2, UpTo
  <2> QED
    BY <2>3 DEF T
<1>12. u \in [0..n -> X]
  BY <1>8, <1>11
<1> QED
  BY <1>10, <1>12 DEF u, X, b, step

\* It depends on what the set has up to where it looks.
LEMMA UpToLineSame ==
    ASSUME NEW s, NEW t, NEW n \in Nat, NEW m \in Nat, n <= m,
           \A i \in 1..n : i \in s <=> i \in t
    PROVE  \A i \in 0..n : UpToLine(s, n)[i] = UpToLine(t, m)[i]
<1> DEFINE u == UpToLine(s, n)
           v == UpToLine(t, m)
           T == {i \in 0..n : u[i] = v[i]}
<1>1. /\ u[0] = <<>> /\ v[0] = <<>>
      /\ \A i \in 1..n : u[i] = u[i - 1] \o (IF i \in s THEN Line(i) ELSE <<>>)
      /\ \A i \in 1..m : v[i] = v[i - 1] \o (IF i \in t THEN Line(i) ELSE <<>>)
  BY UpToLineIs
<1> HIDE DEF u, v
<1>2. 0 \in T
  BY <1>1
<1>3. ASSUME NEW i \in 1..n, i - 1 \in T
      PROVE  i \in T
  <2>1. u[i - 1] = v[i - 1] /\ i \in 1..m /\ (i \in s <=> i \in t)
    BY <1>3
  <2>2. u[i] = v[i]
    BY <1>1, <2>1
  <2> QED
    BY <2>2
<1> HIDE DEF T
<1>4. \A i \in 0..n : i \in T
  BY <1>2, <1>3, UpTo
<1> QED
  BY <1>4 DEF T, u, v

\* The lines of no event, and of one event more.
LEMMA LinesOfIs ==
    ASSUME NEW s, NEW t, NEW n \in Nat, \A i \in 1..n : i \in s <=> i \in t
    PROVE  /\ LinesOf(s, 0) = <<>>
           /\ LinesOf(s, n) \in Seq(Piece)
           /\ LinesOf(t, n) = LinesOf(s, n)
           /\ LinesOf(t, n + 1)
                 = LinesOf(s, n) \o (IF n + 1 \in t THEN Line(n + 1) ELSE <<>>)
<1>1. \A set : \A k \in Nat : LinesOf(set, k) = UpToLine(set, k)[k]
  BY DEF LinesOf, UpToLine
<1>2. UpToLine(s, 0)[0] = <<>> /\ UpToLine(s, n)[n] \in Seq(Piece)
  <2>1. UpToLine(s, 0)[0] = <<>>
    BY UpToLineIs
  <2>2. UpToLine(s, n) \in [0..n -> Seq(Piece)]
    BY UpToLineIs
  <2> QED
    BY <2>1, <2>2
<1>3. UpToLine(s, n)[n] = UpToLine(t, n)[n]
  BY UpToLineSame
<1>4. UpToLine(s, n)[n] = UpToLine(t, n + 1)[n]
  <2>1. n + 1 \in Nat /\ n <= n + 1
    OBVIOUS
  <2>2. \A i \in 0..n : UpToLine(s, n)[i] = UpToLine(t, n + 1)[i]
    BY <2>1, UpToLineSame
  <2> QED
    BY <2>2
<1>5. UpToLine(t, n + 1)[n + 1]
         = UpToLine(t, n + 1)[(n + 1) - 1] \o (IF n + 1 \in t THEN Line(n + 1) ELSE <<>>)
  <2>1. n + 1 \in Nat /\ n + 1 \in 1..(n + 1)
    OBVIOUS
  <2> QED
    BY <2>1, UpToLineIs
<1>6. n + 1 \in Nat /\ (n + 1) - 1 = n
  OBVIOUS
<1>7. LinesOf(t, n + 1) = UpToLine(t, n + 1)[n + 1]
  BY <1>1, <1>6
<1> QED
  BY <1>1, <1>2, <1>3, <1>4, <1>5, <1>6, <1>7

-----------------------------------------------------------------------------
(* The writers.                                                            *)

Errs == {"none", "BrokenPipe", "Other"}

\* The device and the options are what Init says.
Sane ==
    /\ device.room \in Nat /\ device.err \in {"BrokenPipe", "Other"}
    /\ cli \in Cli

\* A writer of pieces of P, whose device has not taken more than it has room for.
Writers(P) == [buf : Seq(P), disk : Seq(P), err : Errs]
Fits(w) == Len(w.disk) <= device.room
Full(w) == Len(w.disk) = device.room

\* What was given to a writer and is on the device or still to go there.
All(w) == w.disk \o w.buf

\* How many of k pieces the device takes.
Taken(w, k) == IF k <= device.room - Len(w.disk) THEN k ELSE device.room - Len(w.disk)

\* RawWrite puts the first pieces on the device; if not all, it is full.
LEMMA RawWriteIs ==
    ASSUME Sane, NEW P, NEW w \in Writers(P), Fits(w), NEW ps \in Seq(P), NEW n, n = Taken(w, Len(ps))
    PROVE  /\ RawWrite(w, ps) \in Writers(P) /\ Fits(RawWrite(w, ps))
           /\ n \in 0..Len(ps)
           /\ RawWrite(w, ps).buf = w.buf
           /\ RawWrite(w, ps).disk = w.disk \o SubSeq(ps, 1, n)
           /\ RawWrite(w, ps).err = IF n < Len(ps) THEN device.err ELSE w.err
           /\ n < Len(ps) => Full(RawWrite(w, ps))
<1>1. /\ Len(ps) \in Nat /\ Len(w.disk) \in Nat /\ device.room \in Nat
      /\ Len(w.disk) <= device.room
  BY LenProperties DEF Sane, Writers, Fits
<1>2. Min({Len(ps), device.room - Len(w.disk)}) = n
  BY <1>1, MinOfTwo DEF Taken
<1>3. n \in 0..Len(ps) /\ Len(w.disk) + n <= device.room
      /\ (n < Len(ps) => Len(w.disk) + n = device.room)
  BY <1>1 DEF Taken
<1> DEFINE s == SubSeq(ps, 1, n)
<1>4. s \in Seq(P) /\ Len(s) = n
  <2>1. \A i \in 1..n : ps[i] \in P
    BY <1>1, <1>3, ElementOfSeq
  <2> QED
    BY <1>3, <2>1, SubSeqProperties
<1> DEFINE d == w.disk \o s
<1>5. d \in Seq(P) /\ Len(d) = Len(w.disk) + n
  <2>1. w.disk \in Seq(P)
    BY DEF Writers
  <2> HIDE DEF s
  <2> QED
    BY <1>4, <2>1, ConcatProperties
<1> DEFINE e == IF n < Len(ps) THEN device.err ELSE w.err
<1>6. e \in Errs
  BY DEF Sane, Errs, Writers
<1>7. RawWrite(w, ps) = [w EXCEPT !.disk = d, !.err = e]
  BY <1>2 DEF RawWrite, Writers
<1> HIDE DEF s, d, e
<1>8. RawWrite(w, ps) = [buf |-> w.buf, disk |-> d, err |-> e] /\ w.buf \in Seq(P)
  BY <1>7 DEF Writers
<1>9. RawWrite(w, ps) \in Writers(P)
  BY <1>5, <1>6, <1>8 DEF Writers
<1> QED
  BY <1>3, <1>5, <1>8, <1>9 DEF Fits, Full, d, e, s

\* The end of a sequence behind its first n elements.
LEMMA Behind ==
    ASSUME NEW P, NEW s \in Seq(P), NEW n \in 0..Len(s)
    PROVE  /\ SubSeq(s, 1, n) \in Seq(P) /\ Len(SubSeq(s, 1, n)) = n
           /\ SubSeq(s, n + 1, Len(s)) \in Seq(P)
           /\ Len(SubSeq(s, n + 1, Len(s))) = Len(s) - n
           /\ SubSeq(s, 1, n) \o SubSeq(s, n + 1, Len(s)) = s
<1>1. Len(s) \in Nat /\ \A i \in 1..Len(s) : s[i] \in P
  BY LenProperties, ElementOfSeq
<1>2. /\ SubSeq(s, 1, n) \in Seq(P) /\ Len(SubSeq(s, 1, n)) = n
  <2>1. \A i \in 1..n : s[i] \in P
    BY <1>1
  <2> QED
    BY <1>1, <2>1, SubSeqProperties
<1>3. /\ SubSeq(s, n + 1, Len(s)) \in Seq(P)
      /\ Len(SubSeq(s, n + 1, Len(s))) = Len(s) - n
  <2>1. \A i \in (n + 1)..Len(s) : s[i] \in P
    BY <1>1
  <2>2. /\ SubSeq(s, n + 1, Len(s)) \in Seq(P)
        /\ Len(SubSeq(s, n + 1, Len(s)))
              = IF n + 1 <= Len(s) THEN Len(s) - (n + 1) + 1 ELSE 0
    BY <1>1, <2>1, SubSeqProperties
  <2> QED
    BY <1>1, <2>2
<1>4. SubSeq(s, 1, n) \o SubSeq(s, n + 1, Len(s)) = SubSeq(s, 1, Len(s))
  <2>1. 1 \in 1..(Len(s) + 1) /\ n \in (1 - 1)..Len(s) /\ Len(s) \in n..Len(s)
    BY <1>1
  <2> QED
    BY <2>1, ConcatAdjacentSubSeq
<1>5. SubSeq(s, 1, Len(s)) = s
  BY SubSeqFull
<1> QED
  BY <1>2, <1>3, <1>4, <1>5

\* Flush loses nothing: what does not get to the device stays in the buffer, and
\* then the device is full and says so.
LEMMA FlushIs ==
    ASSUME Sane, NEW P, NEW w \in Writers(P), Fits(w)
    PROVE  /\ Flush(w) \in Writers(P) /\ Fits(Flush(w))
           /\ All(Flush(w)) = All(w)
           /\ \/ Flush(w).buf = <<>> /\ Flush(w).err = w.err
              \/ Full(Flush(w)) /\ Flush(w).err = device.err
           /\ Full(w) => Full(Flush(w))
           /\ w.buf = <<>> => Flush(w) = w
<1> DEFINE n == Taken(w, Len(w.buf))
           r == RawWrite(w, w.buf)
           s == SubSeq(w.buf, 1, n)
           rest == SubSeq(w.buf, n + 1, Len(w.buf))
<1>1. w.buf \in Seq(P) /\ w.disk \in Seq(P) /\ w.err \in Errs
  BY DEF Writers
<1>2. /\ r \in Writers(P) /\ Fits(r) /\ n \in 0..Len(w.buf)
      /\ r.buf = w.buf /\ r.disk = w.disk \o s
      /\ r.err = IF n < Len(w.buf) THEN device.err ELSE w.err
      /\ n < Len(w.buf) => Full(r)
  <2> DEFINE b == w.buf
  <2>1. n = Taken(w, Len(b)) /\ b \in Seq(P)
    BY <1>1
  <2> HIDE DEF n, b
  <2>2. /\ RawWrite(w, b) \in Writers(P) /\ Fits(RawWrite(w, b))
        /\ n \in 0..Len(b)
        /\ RawWrite(w, b).buf = w.buf
        /\ RawWrite(w, b).disk = w.disk \o SubSeq(b, 1, n)
        /\ RawWrite(w, b).err = IF n < Len(b) THEN device.err ELSE w.err
        /\ n < Len(b) => Full(RawWrite(w, b))
    BY <2>1, RawWriteIs
  <2> QED
    BY <2>2 DEF b
<1>3. /\ Len(w.buf) \in Nat /\ Len(w.disk) \in Nat /\ device.room \in Nat
      /\ Len(w.disk) <= device.room
  BY <1>1, LenProperties DEF Sane, Fits
<1>4. Min({Len(w.buf), device.room - Len(w.disk)}) = n
  BY <1>3, MinOfTwo DEF Taken
<1>5. Flush(w) = [r EXCEPT !.buf = rest]
  BY <1>4 DEF Flush
<1>6. /\ s \in Seq(P) /\ Len(s) = n /\ rest \in Seq(P) /\ Len(rest) = Len(w.buf) - n
      /\ s \o rest = w.buf
  <2> HIDE DEF n
  <2> QED
    BY <1>1, <1>2, Behind
<1> HIDE DEF n, r, s, rest
<1>7. Flush(w) = [buf |-> rest, disk |-> r.disk, err |-> r.err]
  BY <1>2, <1>5 DEF Writers
<1>8. Flush(w) \in Writers(P) /\ Fits(Flush(w)) /\ (Full(r) => Full(Flush(w)))
  BY <1>2, <1>6, <1>7 DEF Writers, Fits, Full
<1>9. All(Flush(w)) = All(w)
  <2> DEFINE d == w.disk
  <2>1. d \in Seq(P)
    BY <1>1
  <2>2. All(w) = d \o w.buf /\ All(Flush(w)) = (d \o s) \o rest
    BY <1>2, <1>7 DEF All
  <2> HIDE DEF d
  <2>3. (d \o s) \o rest = d \o (s \o rest)
    <3>1. s \in Seq(P) /\ rest \in Seq(P)
      BY <1>6
    <3> QED
      BY <2>1, <3>1, ConcatAssociative
  <2> QED
    BY <1>6, <2>2, <2>3
<1>10. \/ Flush(w).buf = <<>> /\ Flush(w).err = w.err
       \/ Full(Flush(w)) /\ Flush(w).err = device.err
  <2>1. CASE n < Len(w.buf)
    BY <1>2, <1>7, <1>8, <2>1
  <2>2. CASE ~(n < Len(w.buf))
    <3>1. Len(rest) = 0
      BY <1>2, <1>3, <1>6, <2>2
    <3>2. rest = <<>>
      BY <1>6, <3>1, EmptySeq
    <3> QED
      BY <1>2, <1>7, <2>2, <3>2
  <2> QED
    BY <2>1, <2>2
<1>11. ASSUME Full(w)
       PROVE  Full(Flush(w))
  <2>1. n = 0
    BY <1>2, <1>3, <1>11 DEF Taken, Full, n
  <2>2. s = <<>>
    BY <1>6, <2>1, EmptySeq
  <2>3. w.disk \o <<>> = w.disk
    BY <1>1, ConcatEmptySeq
  <2> QED
    BY <1>2, <1>7, <1>11, <2>2, <2>3 DEF Full
<1>12. ASSUME w.buf = <<>>
       PROVE  Flush(w) = w
  <2>1. n = 0 /\ Len(w.buf) = 0
    BY <1>2, <1>12
  <2>2. s = <<>> /\ rest = <<>>
    BY <1>6, <2>1, EmptySeq
  <2>3. w.disk \o <<>> = w.disk
    BY <1>1, ConcatEmptySeq
  <2>4. r.disk = w.disk /\ r.err = w.err
    BY <1>2, <2>1, <2>2, <2>3
  <2> QED
    BY <1>7, <1>12, <2>2, <2>4 DEF Writers
<1> QED
  BY <1>8, <1>9, <1>10, <1>11, <1>12

\* r is what a writer w became by a write of p: it has p, or the device refused.
Wrote(P, w, p, r) ==
    /\ r \in Writers(P) /\ Fits(r)
    /\ \/ r.err = "none" /\ All(r) = Append(All(w), p)
       \/ r.err = device.err /\ Full(r) /\ All(r) \in {All(w), Append(All(w), p)}

\* A piece more in the buffer is a piece more in all.
LEMMA Buffered ==
    ASSUME NEW P, NEW w \in Writers(P), Fits(w), NEW p \in P,
           NEW r, r = [w EXCEPT !.buf = Append(@, p)]
    PROVE  /\ r \in Writers(P) /\ Fits(r) /\ r.err = w.err /\ r.disk = w.disk
           /\ r.buf = Append(w.buf, p) /\ All(r) = Append(All(w), p)
<1> DEFINE d == w.disk
           b == w.buf
<1>1. d \in Seq(P) /\ b \in Seq(P)
  BY DEF Writers
<1>2. r = [buf |-> Append(b, p), disk |-> d, err |-> w.err] /\ w.err \in Errs
  BY DEF Writers
<1>3. All(w) = d \o b
  BY DEF All
<1>4. All(r) = d \o Append(b, p)
  BY <1>2 DEF All
<1>5. r \in Writers(P)
  <2>1. Append(b, p) \in Seq(P)
    <3> HIDE DEF b
    <3> QED
      BY <1>1, AppendProperties
  <2> QED
    BY <1>1, <1>2, <2>1 DEF Writers
<1>6. Fits(r)
  BY <1>2 DEF Fits
<1> HIDE DEF d, b
<1>7. d \o Append(b, p) = Append(d \o b, p)
  <2>1. <<p>> \in Seq(P) /\ d \o b \in Seq(P)
    BY <1>1, ConcatProperties
  <2>2. Append(b, p) = b \o <<p>> /\ Append(d \o b, p) = (d \o b) \o <<p>>
    BY <1>1, <2>1, AppendIsConcat
  <2>3. (d \o b) \o <<p>> = d \o (b \o <<p>>)
    BY <1>1, <2>1, ConcatAssociative
  <2> QED
    BY <2>2, <2>3
<1> QED
  BY <1>2, <1>3, <1>4, <1>5, <1>6, <1>7 DEF d, b

\* BufWriter: if it refuses a piece, nothing of it is there.
LEMMA BufWriteIs ==
    ASSUME Sane, NEW P, NEW w \in Writers(P), Fits(w), w.err = "none", NEW p \in P,
           NEW cap \in Nat, NEW r, r = BufWrite(w, p, cap)
    PROVE  /\ Wrote(P, w, p, r)
           /\ r.err # "none" => All(r) = All(w)
<1> DEFINE roomy == IF Len(w.buf) >= cap THEN Flush(w) ELSE w
<1>1. r = IF roomy.err # "none" THEN roomy ELSE [roomy EXCEPT !.buf = Append(@, p)]
  BY DEF BufWrite
<1>2. /\ roomy \in Writers(P) /\ Fits(roomy) /\ All(roomy) = All(w)
      /\ roomy.err = "none" \/ (roomy.err = device.err /\ Full(roomy))
  BY FlushIs
<1>3. device.err # "none"
  BY DEF Sane
<1> HIDE DEF roomy
<1>4. CASE roomy.err # "none"
  BY <1>1, <1>2, <1>3, <1>4 DEF Wrote
<1>5. CASE roomy.err = "none"
  <2>1. r = [roomy EXCEPT !.buf = Append(@, p)]
    BY <1>1, <1>5
  <2>2. r \in Writers(P) /\ Fits(r) /\ r.err = "none" /\ All(r) = Append(All(roomy), p)
    BY <1>2, <1>5, <2>1, Buffered
  <2> QED
    BY <1>2, <2>2 DEF Wrote
<1> QED
  BY <1>4, <1>5

\* LineWriter: behind a newline the buffer is empty, and if it refuses any piece but
\* a newline, nothing of that is there.
LEMMA LineWriteIs ==
    ASSUME Sane, NEW P, NEW w \in Writers(P), Fits(w), w.err = "none", NEW p \in P,
           NEW r, r = LineWrite(w, p)
    PROVE  /\ Wrote(P, w, p, r)
           /\ r.err = "none" /\ p.nl => r.buf = <<>>
           /\ r.err # "none" /\ ~p.nl => All(r) = All(w)
<1> DEFINE b == BufWrite(w, p, LineCap)
<1>1. r = IF b.err = "none" /\ p.nl THEN Flush(b) ELSE b
  BY DEF LineWrite
<1>2. LineCap \in Nat /\ LineCap > 0 /\ device.err # "none"
  BY OutputAssumption DEF Sane
<1>3. /\ Wrote(P, w, p, b)
      /\ b.err # "none" => All(b) = All(w)
  BY <1>2, BufWriteIs
<1> HIDE DEF b
<1>5. CASE b.err = "none" /\ p.nl
  <2>1. b \in Writers(P) /\ Fits(b) /\ All(b) = Append(All(w), p)
    BY <1>2, <1>3, <1>5 DEF Wrote
  <2>2. /\ r \in Writers(P) /\ Fits(r) /\ All(r) = All(b)
        /\ \/ r.buf = <<>> /\ r.err = "none"
           \/ Full(r) /\ r.err = device.err
    BY <1>1, <1>5, <2>1, FlushIs
  <2> QED
    BY <1>2, <1>5, <2>1, <2>2 DEF Wrote
<1>6. CASE ~(b.err = "none" /\ p.nl)
  BY <1>1, <1>3, <1>6
<1> QED
  BY <1>5, <1>6

\* stderr: nothing is ever buffered.
LEMMA RawPiece ==
    ASSUME Sane, NEW P, NEW w \in Writers(P), Fits(w), w.err = "none", w.buf = <<>>,
           NEW p \in P, NEW r, r = RawWrite(w, <<p>>)
    PROVE  /\ Wrote(P, w, p, r) /\ r.buf = <<>>
           /\ r.err # "none" => All(r) = All(w)
<1> DEFINE d == w.disk
           n == Taken(w, Len(<<p>>))
<1>1. <<p>> \in Seq(P) /\ Len(<<p>>) = 1 /\ d \in Seq(P) /\ device.err # "none"
  BY DEF Writers, Sane
<1>2. /\ r \in Writers(P) /\ Fits(r) /\ n \in 0..1
      /\ r.buf = <<>> /\ r.disk = d \o SubSeq(<<p>>, 1, n)
      /\ r.err = IF n < 1 THEN device.err ELSE "none"
      /\ n < 1 => Full(r)
  <2> DEFINE ps == <<p>>
  <2>1. ps \in Seq(P) /\ Len(ps) = 1 /\ n = Taken(w, Len(ps))
    BY <1>1
  <2> HIDE DEF ps, n
  <2>2. /\ RawWrite(w, ps) \in Writers(P) /\ Fits(RawWrite(w, ps))
        /\ n \in 0..Len(ps)
        /\ RawWrite(w, ps).buf = w.buf
        /\ RawWrite(w, ps).disk = w.disk \o SubSeq(ps, 1, n)
        /\ RawWrite(w, ps).err = IF n < Len(ps) THEN device.err ELSE w.err
        /\ n < Len(ps) => Full(RawWrite(w, ps))
    BY <2>1, RawWriteIs
  <2> QED
    BY <2>1, <2>2 DEF ps
<1> HIDE DEF n
<1>3. All(w) = d /\ All(r) = r.disk
  <2>1. r.disk \in Seq(P)
    BY <1>2 DEF Writers
  <2>2. d \o <<>> = d /\ r.disk \o <<>> = r.disk
    <3> DEFINE e == r.disk
    <3> HIDE DEF d, e
    <3> QED
      BY <1>1, <2>1, ConcatEmptySeq DEF e
  <2> QED
    BY <1>2, <2>2 DEF All
<1>4. CASE n = 0
  <2>1. SubSeq(<<p>>, 1, n) = <<>>
    BY <1>4, SubSeqEmpty
  <2>2. r.disk = d
    <3> HIDE DEF d
    <3> QED
      BY <1>1, <1>2, <2>1, ConcatEmptySeq
  <2> QED
    BY <1>2, <1>3, <1>4, <2>2 DEF Wrote
<1>5. CASE n = 1
  <2>1. SubSeq(<<p>>, 1, n) = <<p>>
    BY <1>1, <1>5, SubSeqFull
  <2>2. r.disk = Append(d, p)
    <3> HIDE DEF d
    <3> QED
      BY <1>1, <1>2, <2>1, AppendIsConcat
  <2> QED
    BY <1>2, <1>3, <1>5, <2>2 DEF Wrote
<1> QED
  BY <1>2, <1>4, <1>5

ToStderr == ~cli.list /\ cli.dest = "stderr"
ToStdout == ~cli.list /\ cli.dest = "stdout"

\* A writer that has refused nothing.
Ready(P, w) ==
    /\ w \in Writers(P) /\ Fits(w) /\ w.err = "none"
    /\ ToStderr => w.buf = <<>>

\* What a write comes to, with any of the writers.
LEMMA WriteAllIs ==
    ASSUME Sane, NEW P, NEW w, Ready(P, w), NEW p \in P, NEW r, r = WriteAll(w, p)
    PROVE  /\ Wrote(P, w, p, r)
           /\ ToStderr => r.buf = <<>>
           /\ r.err # "none" /\ ~p.nl => All(r) = All(w)
           /\ ToStdout /\ r.err = "none" /\ p.nl => r.buf = <<>>
<1>1. w \in Writers(P) /\ Fits(w) /\ w.err = "none" /\ (ToStderr => w.buf = <<>>)
  BY DEF Ready
<1>2. cli.dest \in {"stderr", "stdout", "file"}
  BY DEF Sane, Cli
<1>3. Cap \in Nat
  BY OutputAssumption
<1>4. CASE ToStderr
  <2>1. r = RawWrite(w, <<p>>)
    BY <1>1, <1>4 DEF WriteAll, ToStderr
  <2> QED
    BY <1>1, <1>4, <2>1, RawPiece DEF ToStderr, ToStdout
<1>5. CASE ToStdout
  <2>1. r = LineWrite(w, p)
    BY <1>1, <1>5 DEF WriteAll, ToStdout
  <2> QED
    BY <1>1, <1>5, <2>1, LineWriteIs DEF ToStderr, ToStdout
<1>6. CASE ~ToStderr /\ ~ToStdout
  <2>1. r = BufWrite(w, p, Cap)
    BY <1>1, <1>2, <1>6 DEF WriteAll, ToStderr, ToStdout
  <2> QED
    BY <1>1, <1>3, <1>6, <2>1, BufWriteIs
<1> QED
  BY <1>4, <1>5, <1>6 DEF ToStderr, ToStdout

\* The writer is done with a line, and takes the next from an empty buffer if it
\* is stdout's.
Between(w) == Ready(Piece, w) /\ (ToStdout => w.buf = <<>>)

\* The sink is dropped: what was given to the writer is on the device, or that is
\* full.
LEMMA DropIs ==
    ASSUME Sane, NEW P, NEW w \in Writers(P), Fits(w)
    PROVE  /\ Drop(w) \in Writers(P) /\ Fits(Drop(w))
           /\ All(Drop(w)) = All(w) /\ Drop(w).err = w.err
           /\ Drop(w).buf = <<>> \/ Full(Drop(w))
           /\ Full(w) => Full(Drop(w))
           /\ w.buf = <<>> => Drop(w) = w
<1> DEFINE f == Flush(w)
<1>1. /\ f \in Writers(P) /\ Fits(f) /\ All(f) = All(w)
      /\ f.buf = <<>> \/ Full(f)
      /\ Full(w) => Full(f)
      /\ w.buf = <<>> => f = w
  BY FlushIs
<1>2. Drop(w) = [f EXCEPT !.err = w.err]
  BY DEF Drop
<1> HIDE DEF f
<1>3. Drop(w) = [buf |-> f.buf, disk |-> f.disk, err |-> w.err] /\ w.err \in Errs
  BY <1>1, <1>2 DEF Writers
<1>4. Drop(w).buf = f.buf /\ Drop(w).disk = f.disk /\ Drop(w).err = w.err
  BY <1>3
<1>5. Drop(w) \in Writers(P)
  BY <1>1, <1>3 DEF Writers
<1>6. /\ Fits(Drop(w)) /\ All(Drop(w)) = All(w)
      /\ Drop(w).buf = <<>> \/ Full(Drop(w))
      /\ Full(w) => Full(Drop(w))
  BY <1>1, <1>4 DEF Fits, Full, All
<1>7. w.buf = <<>> => Drop(w) = w
  BY <1>1, <1>3 DEF Writers
<1> QED
  BY <1>4, <1>5, <1>6, <1>7

-----------------------------------------------------------------------------
(* The filter.                                                             *)

\* What a sequence of sequences has, flattened.
LEMMA FlattenIs ==
    ASSUME NEW S, NEW ss \in Seq(Seq(S))
    PROVE  /\ FlattenSeq(ss) \in Seq(S)
           /\ ToSet(FlattenSeq(ss)) = UNION {ToSet(ss[i]) : i \in DOMAIN ss}
<1> DEFINE n == Len(ss)
           X == Seq(S)
<1>1. n \in Nat /\ DOMAIN ss = 1..n /\ \A i \in 1..n : ss[i] \in X
  BY LenProperties, ElementOfSeq
<1>2. CASE n = 0
  <2>1. ss = <<>>
    BY <1>2, EmptySeq
  <2>2. FlattenSeq(ss) = <<>>
    BY <1>2, <2>1 DEF FlattenSeq
  <2>3. DOMAIN ss = {} /\ ToSet(FlattenSeq(ss)) = {}
    BY <2>1, <2>2 DEF ToSet
  <2>4. FlattenSeq(ss) \in Seq(S)
    BY <2>2
  <2>5. UNION {ToSet(ss[i]) : i \in DOMAIN ss} = {}
    BY <2>3
  <2> QED
    BY <2>3, <2>4, <2>5
<1>3. CASE n # 0
  <2> DEFINE step(x, i) == x \o ss[i]
             g == [i \in 1..n |-> [x \in X |-> step(x, i)]]
             b == <<>>
             Is(f) == f = [i \in 1..n |-> IF i = 1 THEN ss[i] ELSE step(f[i - 1], i)]
             u == CHOOSE f : Is(f)
  <2>1. FlattenSeq(ss) = u[n]
    BY <1>3 DEF FlattenSeq
  <2>2. ASSUME NEW i \in 1..n, NEW x \in X
        PROVE  step(x, i) \in X
    BY <1>1, ConcatProperties
  <2>3. b \in X /\ (\A i \in 1..n : step(b, i) = ss[i])
    BY <1>1, ConcatEmptySeq
  <2>4. \A x, y \in X : \A z : z = x \o y => ToSet(z) = ToSet(x) \cup ToSet(y)
    <3> SUFFICES ASSUME NEW x \in X, NEW y \in X
                 PROVE  ToSet(x \o y) = ToSet(x) \cup ToSet(y)
      OBVIOUS
    <3>1. Range(x \o y) = Range(x) \cup Range(y)
      BY RangeConcatenation
    <3> QED
      BY <3>1 DEF Range, ToSet
  <2>5. ASSUME NEW i \in 1..n, NEW x \in X
        PROVE  ToSet(step(x, i)) = ToSet(x) \cup ToSet(ss[i])
    BY <1>1, <2>4
  <2> HIDE DEF X, step, b, n
  <2>6. \E f : Is(f)
    <3>1. Steps(g, n, X)
      BY <2>2 DEF Steps
    <3>2. PICK f : Comes(f, n, X, b, g)
      <4> HIDE DEF g
      <4> QED
        BY <1>1, <2>3, <3>1, Recursion
    <3> DEFINE h == [i \in 1..n |-> f[i]]
    <3>3. ASSUME NEW i \in 1..n
          PROVE  h[i] = IF i = 1 THEN ss[i] ELSE step(h[i - 1], i)
      <4>1. f[i - 1] \in X /\ f[0] = b
        BY <1>1, <3>2 DEF Comes
      <4>2. f[i] = step(f[i - 1], i)
        BY <3>2, <4>1 DEF Comes
      <4>3. CASE i = 1
        BY <2>3, <4>1, <4>2, <4>3
      <4>4. CASE i # 1
        <5>1. i - 1 \in 1..n
          BY <1>1, <4>4
        <5> QED
          BY <4>2, <4>4, <5>1
      <4> QED
        BY <4>3, <4>4
    <3>4. Is(h)
      <4> HIDE DEF h
      <4>1. h = [i \in 1..n |-> h[i]]
        BY DEF h
      <4> QED
        BY <3>3, <4>1
    <3> HIDE DEF Is, h
    <3> QED
      BY <3>4
  <2>7. Is(u)
    <3> HIDE DEF Is
    <3> QED
      BY <2>6
  <2> HIDE DEF u
  <2>8. ASSUME NEW i \in 1..n
        PROVE  u[i] = IF i = 1 THEN ss[i] ELSE step(u[i - 1], i)
    BY <2>7
  <2> DEFINE Has(i) == u[i] \in X /\ ToSet(u[i]) = UNION {ToSet(ss[j]) : j \in 1..i}
             T == {i \in 0..n : i = 0 \/ Has(i)}
  <2>9. ASSUME NEW i \in 1..n, i - 1 \in T
        PROVE  i \in T
    <3>1. CASE i = 1
      <4>1. u[1] = ss[1] /\ ss[1] \in X
        BY <1>1, <2>8, <3>1
      <4>2. 1..1 = {1}
        OBVIOUS
      <4>3. UNION {ToSet(ss[j]) : j \in 1..1} = ToSet(ss[1])
        BY <4>2
      <4>4. Has(1)
        BY <4>1, <4>3
      <4> QED
        BY <3>1, <4>4
    <3>2. CASE i # 1
      <4>1. Has(i - 1) /\ u[i] = step(u[i - 1], i)
        BY <2>8, <2>9, <3>2
      <4>2. UNION {ToSet(ss[j]) : j \in 1..i}
               = (UNION {ToSet(ss[j]) : j \in 1..(i - 1)}) \cup ToSet(ss[i])
        <5>1. \A j : j \in 1..i <=> j \in 1..(i - 1) \/ j = i
          OBVIOUS
        <5> HIDE DEF Has, T
        <5> QED
          BY <5>1
      <4>3. u[i] \in X /\ ToSet(u[i]) = ToSet(u[i - 1]) \cup ToSet(ss[i])
        BY <2>2, <2>5, <4>1
      <4> QED
        BY <4>1, <4>2, <4>3
    <3> QED
      BY <3>1, <3>2
  <2>10. 0 \in T
    BY <1>1
  <2>11. n \in T
    <3> HIDE DEF T
    <3>1. \A i \in 1..n : i - 1 \in T => i \in T
      BY <2>9
    <3>2. \A i \in 0..n : i \in T
      BY <1>1, <2>10, <3>1, UpTo
    <3> QED
      BY <1>1, <3>2
  <2> QED
    BY <1>1, <1>3, <2>1, <2>11 DEF X, n
<1> QED
  BY <1>2, <1>3

\* Every name has one of the categories.
LEMMA CategorizeIs ==
    ASSUME NEW name
    PROVE  Categorize(name) \in Categories
<1>1. \A n \in DOMAIN EXACT : EXACT[n] \in Categories
  BY DEF EXACT, Categories
<1>2. ByPrefix(name) \in Categories
  <2> DEFINE hits == {i \in DOMAIN RULES : StartsWith(name, RULES[i][1])}
  <2>1. CASE hits = {}
    BY <2>1 DEF ByPrefix, Categories
  <2>2. CASE hits # {}
    <3>1. hits \subseteq Nat /\ hits \subseteq DOMAIN RULES
      BY DEF RULES
    <3>2. ByPrefix(name) = RULES[Min(hits)][2]
      BY <2>2 DEF ByPrefix
    <3> HIDE DEF hits
    <3>3. Min(hits) \in DOMAIN RULES
      BY <2>2, <3>1, MinIs
    <3>4. \A i \in DOMAIN RULES : RULES[i][2] \in Categories
      BY DEF RULES, Categories
    <3> QED
      BY <3>2, <3>3, <3>4
  <2> QED
    BY <2>1, <2>2
<1> QED
  BY <1>1, <1>2 DEF Categorize

\* An entry of the table has the category of its name.
LEMMA EntryIs ==
    ASSUME NEW e \in ToSet(SYSCALLS)
    PROVE  e.category = Categorize(e.name) /\ e.category \in Categories
<1>1. PICK i \in DOMAIN SYSCALLS : e = SYSCALLS[i]
  BY DEF ToSet
<1>2. e.category = Categorize(e.name)
  BY <1>1 DEF SYSCALLS, Generate
<1> QED
  BY <1>2, CategorizeIs

\* A token, as Exprs has them, or what stands for an unknown qualifier.
Given == [pct : BOOLEAN, word : STRING]
Token == Given \cup {BadQualifier}

\* The tokens of all expressions, those of one with an unknown qualifier replaced.
AllTokens(exprs) == FlattenSeq([i \in DOMAIN exprs |-> Tokens(exprs[i])])

\* They are tokens, each from one of the expressions.
LEMMA TokensAre ==
    ASSUME NEW exprs \in Exprs
    PROVE  /\ AllTokens(exprs) \in Seq(Token)
           /\ ToSet(AllTokens(exprs)) = UNION {ToSet(Tokens(expr)) : expr \in ToSet(exprs)}
<1> DEFINE ss == [i \in DOMAIN exprs |-> Tokens(exprs[i])]
           E == [qualifier : STRING, tokens : Seq(Given)]
<1>1. exprs \in Seq(E)
  BY OutputAssumption DEF Given
<1>2. /\ Len(exprs) \in Nat /\ DOMAIN exprs = 1..Len(exprs)
      /\ \A i \in DOMAIN exprs : exprs[i] \in E
  BY <1>1, LenProperties, ElementOfSeq
<1>3. <<BadQualifier>> \in Seq(Token)
  <2>1. BadQualifier \in Token
    BY DEF Token
  <2> QED
    BY <2>1
<1>4. \A i \in DOMAIN exprs : Tokens(exprs[i]) \in Seq(Token)
  <2>1. \A s \in Seq(Given) : s \in Seq(Token)
    BY DEF Token
  <2> QED
    BY <1>2, <1>3, <2>1 DEF Tokens
<1>5. ss \in Seq(Seq(Token)) /\ DOMAIN ss = DOMAIN exprs
  BY <1>2, <1>4
<1>6. /\ FlattenSeq(ss) \in Seq(Token)
      /\ ToSet(FlattenSeq(ss)) = UNION {ToSet(ss[i]) : i \in DOMAIN ss}
  <2> HIDE DEF ss
  <2> QED
    BY <1>5, FlattenIs
<1>7. UNION {ToSet(ss[i]) : i \in DOMAIN ss}
         = UNION {ToSet(Tokens(expr)) : expr \in ToSet(exprs)}
  <2>1. \A i \in DOMAIN exprs : ss[i] = Tokens(exprs[i])
    OBVIOUS
  <2>2. ToSet(exprs) = {exprs[i] : i \in DOMAIN exprs}
    BY DEF ToSet
  <2> HIDE DEF ss
  <2> QED
    BY <1>5, <2>1, <2>2
<1> QED
  BY <1>6, <1>7 DEF AllTokens

\* The filter lets through what the user asked to see, if it was built at all.
LEMMA FilterRight ==
    ASSUME Sane, FromExprs(cli.exprs).kind # "Error", NEW c \in Calls
    PROVE  Allows(FromExprs(cli.exprs), c.nr) <=> Wanted(c)
<1> DEFINE exprs == cli.exprs
           tokens == AllTokens(exprs)
           stops == {i \in DOMAIN tokens : IsAll(tokens[i]) \/ Unknown(tokens[i])}
           f == FromExprs(exprs)
           picked == UNION {Selected(t) : t \in ToSet(tokens)}
<1>1. /\ exprs \in Exprs /\ c.kind = "syscall"
      /\ \A e \in ToSet(SYSCALLS) : c.name = e.name <=> c.nr.hi = 0 /\ c.nr.lo = e.number
      /\ (\E e \in ToSet(SYSCALLS) : c.name = e.name) \/ CategoryParse(c.name) = {}
      /\ \A e \in ToSet(SYSCALLS) : CategoryParse(e.name) \subseteq {e.category}
  BY CallsAssumption DEF Sane, Cli
<1>2. /\ tokens \in Seq(Token)
      /\ ToSet(tokens) = UNION {ToSet(Tokens(expr)) : expr \in ToSet(exprs)}
  BY <1>1, TokensAre
<1>3. f = IF exprs = <<>> THEN FilterAll
          ELSE IF stops # {}
               THEN IF IsAll(tokens[Min(stops)]) THEN FilterAll ELSE FilterError
               ELSE FilterNumbers({e.number : e \in picked})
  BY DEF FromExprs, AllTokens
<1>4. CategoryParse("all") = {} /\ Unknown(BadQualifier) /\ ~IsAll(BadQualifier)
  <2>1. CategoryParse("all") = {} /\ CategoryParse("bad_qualifier") = {}
    BY DEF CategoryParse, Categories, AsStr
  <2> QED
    BY <2>1 DEF Unknown, IsAll, BadQualifier, Named
<1>5. CASE exprs = <<>>
  BY <1>3, <1>5 DEF FilterAll, Allows, Wanted
<1>6. CASE exprs # <<>> /\ stops # {}
  <2>1. stops \subseteq Nat /\ stops \subseteq DOMAIN tokens
    BY <1>2, LenProperties
  <2>2. Min(stops) \in DOMAIN tokens
    <3> HIDE DEF stops
    <3> QED
      BY <1>6, <2>1, MinIs
  <2> DEFINE t == tokens[Min(stops)]
  <2>3. f = FilterAll /\ IsAll(t)
    BY <1>3, <1>6 DEF FilterError
  <2>4. t \in ToSet(tokens)
    BY <2>2 DEF ToSet
  <2> HIDE DEF t
  <2>5. PICK expr \in ToSet(exprs) : t \in ToSet(Tokens(expr))
    BY <1>2, <2>4
  <2>6. t \in ToSet(expr.tokens) /\ t.word = "all"
    <3>1. CASE expr.qualifier \in {"none", "trace"}
      BY <2>3, <2>5, <3>1 DEF Tokens, IsAll
    <3>2. CASE expr.qualifier \notin {"none", "trace"}
      <4>1. ToSet(<<BadQualifier>>) = {BadQualifier}
        BY DEF ToSet
      <4> QED
        BY <1>4, <2>3, <2>5, <3>2, <4>1 DEF Tokens
    <3> QED
      BY <3>1, <3>2
  <2>7. Wanted(c)
    BY <2>5, <2>6 DEF Wanted
  <2> QED
    BY <2>3, <2>7 DEF FilterAll, Allows
<1>7. CASE exprs # <<>> /\ stops = {}
  <2>1. ASSUME NEW t \in ToSet(tokens)
        PROVE  ~IsAll(t) /\ ~Unknown(t)
    <3>1. PICK i \in DOMAIN tokens : t = tokens[i]
      BY DEF ToSet
    <3> QED
      BY <1>7, <3>1
  <2>2. ASSUME NEW expr \in ToSet(exprs)
        PROVE  Tokens(expr) = expr.tokens
    <3>1. CASE expr.qualifier \in {"none", "trace"}
      BY <3>1 DEF Tokens
    <3>2. CASE expr.qualifier \notin {"none", "trace"}
      <4>1. ToSet(<<BadQualifier>>) = {BadQualifier}
        BY DEF ToSet
      <4> QED
        BY <1>2, <1>4, <2>1, <3>2, <4>1 DEF Tokens
    <3> QED
      BY <3>1, <3>2
  <2>3. Allows(f, c.nr) <=> \E t \in ToSet(tokens) : \E e \in Selected(t) :
                               c.nr.hi = 0 /\ c.nr.lo = e.number
    BY <1>3, <1>7 DEF FilterNumbers, Allows
  <2>4. \A t : t \in ToSet(tokens) <=> \E expr \in ToSet(exprs) : t \in ToSet(expr.tokens)
    BY <1>2, <2>2
  <2> HIDE DEF exprs, tokens, f, stops, picked
  <2>5. Wanted(c) <=> \E t \in ToSet(tokens) :
                         \/ t.word \in {"all", c.name}
                         \/ /\ \E e \in ToSet(SYSCALLS) : e.name = c.name
                            /\ t.word = AsStr[Categorize(c.name)]
    BY <1>1, <1>7, <2>4 DEF Wanted, exprs
  <2>6. ASSUME NEW t \in ToSet(tokens), NEW e \in Selected(t),
               c.nr.hi = 0 /\ c.nr.lo = e.number
        PROVE  Wanted(c)
    <3>1. e \in ToSet(SYSCALLS) /\ c.name = e.name
      BY <1>1, <2>6 DEF Selected, Named
    <3>2. e.category = Categorize(e.name)
      BY <3>1, EntryIs
    <3>3. CASE CategoryParse(t.word) # {}
      <4>1. t.word = AsStr[e.category]
        BY <2>6, <3>3 DEF Selected, CategoryParse
      <4> QED
        BY <2>5, <3>1, <3>2, <4>1
    <3>4. CASE CategoryParse(t.word) = {}
      <4>1. t.word = c.name
        BY <2>6, <3>1, <3>4 DEF Selected, Named
      <4> QED
        BY <2>5, <4>1
    <3> QED
      BY <3>3, <3>4
  <2>7. ASSUME NEW t \in ToSet(tokens), t.word \in {"all", c.name}
        PROVE  \E e \in Selected(t) : c.nr.hi = 0 /\ c.nr.lo = e.number
    <3>1. ~IsAll(t) /\ ~Unknown(t)
      BY <2>1
    <3>2. CASE CategoryParse(t.word) = {}
      <4>1. PICK e \in Named(t) : TRUE
        BY <3>1, <3>2 DEF Unknown
      <4>2. e \in ToSet(SYSCALLS) /\ e.name = t.word /\ e \in Selected(t) /\ t.word = c.name
        BY <2>7, <3>1, <3>2, <4>1 DEF Named, Selected, IsAll
      <4> QED
        BY <1>1, <4>2
    <3>3. CASE CategoryParse(t.word) # {}
      <4>1. t.word = c.name
        BY <1>4, <2>7, <3>3
      <4>2. PICK e \in ToSet(SYSCALLS) : c.name = e.name
        BY <1>1, <3>3, <4>1
      <4>3. e.category \in CategoryParse(t.word)
        BY <1>1, <3>3, <4>1, <4>2
      <4> QED
        BY <1>1, <3>3, <4>2, <4>3 DEF Selected
    <3> QED
      BY <3>2, <3>3
  <2>8. ASSUME NEW t \in ToSet(tokens), NEW e \in ToSet(SYSCALLS), e.name = c.name,
               t.word = AsStr[Categorize(c.name)]
        PROVE  \E x \in Selected(t) : c.nr.hi = 0 /\ c.nr.lo = x.number
    <3>1. e.category = Categorize(e.name) /\ e.category \in Categories
      BY EntryIs
    <3>2. e.category \in CategoryParse(t.word)
      BY <2>8, <3>1 DEF CategoryParse
    <3>3. e \in Selected(t)
      BY <3>2 DEF Selected
    <3> QED
      BY <1>1, <2>8, <3>3
  <2> QED
    BY <2>3, <2>5, <2>6, <2>7, <2>8 DEF f, exprs
<1> QED
  BY <1>5, <1>6, <1>7

-----------------------------------------------------------------------------
(* The invariant.                                                          *)

\* What the tracer may return.
Events == Calls \cup {[kind |-> "exit", leader |-> l, code |-> c] : l \in BOOLEAN, c \in Codes}
                \cup {[kind |-> "signal"]}

\* A writer that has written nothing.
Fresh == [buf |-> <<>>, disk |-> <<>>, err |-> "none"]

Running == pc \in {"start", "open", "loop"}

\* The data.
SetUp == Sane /\ made \in Seq(Events) /\ IsFiniteSet(DOMAIN stats)

\* While run has not returned: the writer has refused nothing, is between two lines
\* and was given the lines of all wanted events, or nothing yet if it is not for
\* lines; and the filter is the one of the options.
RunInv ==
    Running =>
        /\ exited = -1
        /\ IF Streaming THEN Between(out) /\ All(out) = Lines ELSE out = Fresh
        /\ pc = "loop" \/ (made = <<>> /\ out = Fresh)
        /\ pc # "start" => /\ ~cli.list /\ filter = FromExprs(cli.exprs)
                           /\ filter.kind # "Error"

OutInv ==
    /\ SetUp /\ RunInv
    /\ InOrder /\ NothingHeldBack /\ SuccessMeansWritten /\ QuietOnBrokenPipe

\* The beginning of a sequence.
LEMMA PrefixIs ==
    ASSUME NEW P, NEW s \in Seq(P), NEW t \in Seq(P)
    PROVE  IsPrefix(s, s \o t)
<1>1. /\ Len(s) \in Nat /\ Len(t) \in Nat
      /\ s \o t \in Seq(P) /\ Len(s \o t) = Len(s) + Len(t)
      /\ \A i \in 1..Len(s) : (s \o t)[i] = s[i]
  BY LenProperties, ConcatProperties
<1> DEFINE u == s \o t
<1> HIDE DEF u
<1>2. /\ u \in Seq(P) /\ Len(u) = Len(s) + Len(t) /\ Len(s) <= Len(u)
      /\ \A i \in 1..Len(s) : u[i] = s[i]
  BY <1>1 DEF u
<1> DEFINE n == Len(s)
           v == SubSeq(u, 1, n)
<1>3. SubSeq(s, 1, n) = s
  BY SubSeqFull
<1>4. v \in Seq(P) /\ Len(v) = n /\ \A i \in 1..n : v[i] = u[i]
  <2>1. n \in 0..Len(u)
    BY <1>1, <1>2
  <2>2. v \in Seq(P) /\ Len(v) = n
    <3> HIDE DEF n
    <3> QED
      BY <1>2, <2>1, Behind
  <2>3. \A i \in 1..n : v[i] = u[i]
    BY <1>1, <1>2
  <2> QED
    BY <2>2, <2>3
<1> HIDE DEF v
<1>5. v = s
  BY <1>1, <1>2, <1>4, SeqEqual
<1> QED
  BY <1>2, <1>3, <1>5 DEF IsPrefix, u, v

\* One event more is one line more, if the user asked to see it.
LEMMA LinesGrow ==
    ASSUME SetUp, NEW x \in Events, made' = Append(made, x), UNCHANGED cli,
           NEW n, n = Len(made) + 1
    PROVE  /\ Lines \in Seq(Piece) /\ n \in Nat /\ made' \in Seq(Events)
           /\ Lines' = Lines \o (IF Wanted(x) THEN Line(n) ELSE <<>>)
           /\ Lines' \in Seq(Piece)
<1> DEFINE m == Len(made)
           s == {i \in DOMAIN made : Wanted(made[i])}
           t == {i \in DOMAIN made' : Wanted(made'[i])}
<1>1. /\ made \in Seq(Events) /\ m \in Nat /\ DOMAIN made = 1..m
      /\ made' \in Seq(Events) /\ Len(made') = m + 1 /\ DOMAIN made' = 1..(m + 1)
      /\ \A i \in 1..m : made'[i] = made[i]
      /\ made'[m + 1] = x
  BY LenProperties, AppendProperties DEF SetUp
<1>2. {i \in DOMAIN made : Wanted(made[i])}' = t
  BY DEF Wanted
<1>3. \A i \in 1..m : i \in s <=> i \in t
  BY <1>1
<1>4. m + 1 \in t <=> Wanted(x)
  BY <1>1
<1>5. Lines = LinesOf(s, m) /\ Lines' = LinesOf(t, m + 1)
  BY <1>1, <1>2 DEF Lines
<1> HIDE DEF s, t, m
<1>6. /\ LinesOf(s, m) \in Seq(Piece)
      /\ LinesOf(t, m + 1) = LinesOf(s, m) \o (IF m + 1 \in t THEN Line(m + 1) ELSE <<>>)
  BY <1>1, <1>3, LinesOfIs
<1>7. /\ Lines \in Seq(Piece) /\ n = m + 1 /\ n \in Nat
      /\ Lines' = Lines \o (IF Wanted(x) THEN Line(n) ELSE <<>>)
  BY <1>1, <1>4, <1>5, <1>6 DEF m
<1> DEFINE L == Lines
           K == IF Wanted(x) THEN Line(n) ELSE <<>>
<1>8. L \in Seq(Piece) /\ K \in Seq(Piece)
  BY <1>7, LineIs
<1>9. L \o K \in Seq(Piece)
  <2> HIDE DEF L, K
  <2> QED
    BY <1>8, ConcatProperties
<1> QED
  BY <1>1, <1>7, <1>9

\* However it ends, a run that wrote lines leaves them on the device, or as many of
\* them as it took.
LEMMA StreamEnds ==
    ASSUME Sane, UNCHANGED <<cli, device>>, Streaming,
           NEW w \in Writers(Piece), Fits(w), out' = Drop(w), Lines' \in Seq(Piece),
           w.err = "none" => All(w) = Lines',
           w.err # "none" => Full(w) /\ \E rest \in Seq(Piece) : Lines' = All(w) \o rest
    PROVE  InOrder' /\ NothingHeldBack'
<1> DEFINE d == out'.disk
           b == out'.buf
           L == Lines'
<1>1. /\ out' \in Writers(Piece) /\ Fits(out') /\ All(out') = All(w)
      /\ out'.err = w.err
      /\ out'.buf = <<>> \/ Len(out'.disk) = device.room
      /\ Full(w) => Len(out'.disk) = device.room
  BY DropIs DEF Full
<1>2. d \in Seq(Piece) /\ b \in Seq(Piece) /\ All(out') = d \o b
  BY <1>1 DEF Writers, All
<1>3. CASE w.err = "none"
  <2>1. L = d \o b
    BY <1>1, <1>2, <1>3
  <2>2. b = <<>> => L = d
    <3> HIDE DEF d, b, L
    <3> QED
      BY <1>2, <2>1, ConcatEmptySeq
  <2> QED
    BY <1>1, <1>3, <2>1, <2>2 DEF InOrder, NothingHeldBack, Refused
<1>4. CASE w.err # "none"
  <2>1. PICK rest \in Seq(Piece) : L = (d \o b) \o rest
    BY <1>1, <1>2, <1>4
  <2>2. IsPrefix(d, L)
    <3> HIDE DEF d, b, L
    <3>1. (d \o b) \o rest = d \o (b \o rest)
      BY <1>2, <2>1, ConcatAssociative
    <3>2. b \o rest \in Seq(Piece)
      BY <1>2, <2>1, ConcatProperties
    <3>3. IsPrefix(d, d \o (b \o rest))
      BY <1>2, <3>2, PrefixIs
    <3> QED
      BY <2>1, <3>1, <3>3
  <2> QED
    BY <1>1, <1>4, <2>2 DEF InOrder, NothingHeldBack, Refused
<1> QED
  BY <1>3, <1>4

\* A writer of a run of pieces: it takes more, or its device has refused.
Going(P, w) == /\ w \in Writers(P) /\ Fits(w) /\ w.err \in {"none", device.err}
               /\ w.err = "none" => (ToStderr => w.buf = <<>>)

\* What a write leaves a writer as.
LEMMA WriteAllGoes ==
    ASSUME Sane, NEW P, NEW w, Going(P, w), NEW p \in P
    PROVE  /\ Going(P, WriteAll(w, p))
           /\ ToStdout /\ WriteAll(w, p).err = "none" /\ p.nl => WriteAll(w, p).buf = <<>>
           /\ WriteAll(w, p).err = "none" =>
                 w.err = "none" /\ All(WriteAll(w, p)) = Append(All(w), p)
<1>1. CASE w.err # "none"
  <2>1. WriteAll(w, p) = w
    BY <1>1 DEF WriteAll
  <2> QED
    BY <1>1, <2>1
<1>2. CASE w.err = "none"
  <2> DEFINE r == WriteAll(w, p)
  <2>1. Ready(P, w)
    BY <1>2 DEF Going, Ready
  <2>2. /\ Wrote(P, w, p, r)
        /\ ToStderr => r.buf = <<>>
        /\ ToStdout /\ r.err = "none" /\ p.nl => r.buf = <<>>
    BY <2>1, WriteAllIs
  <2> HIDE DEF r
  <2>3. Going(P, r)
    BY <2>2 DEF Wrote, Going
  <2>4. r.err = "none" => All(r) = Append(All(w), p)
    BY <2>2 DEF Wrote, Sane
  <2> QED
    BY <1>2, <2>2, <2>3, <2>4 DEF r
<1> QED
  BY <1>1, <1>2

\* WriteEach is one write after the other.
LEMMA EachStep ==
    ASSUME Sane, NEW P, NEW w, Going(P, w), NEW ps \in Seq(P)
    PROVE  \E u : /\ u[0] = w /\ u[Len(ps)] = WriteEach(w, ps)
                  /\ \A i \in 0..Len(ps) : Going(P, u[i])
                  /\ \A i \in 1..Len(ps) : u[i] = WriteAll(u[i - 1], ps[i]) /\ ps[i] \in P
<1> DEFINE n == Len(ps)
           X == {v \in Writers(P) : Going(P, v)}
           step(v, i) == WriteAll(v, ps[i])
           g == [i \in 1..n |-> [v \in X |-> step(v, i)]]
           Is(f) == f = [k \in 0..n |-> IF k = 0 THEN w ELSE step(f[k - 1], k)]
           u == CHOOSE f : Is(f)
<1>1. n \in Nat /\ DOMAIN ps = 1..n /\ \A i \in 1..n : ps[i] \in P
  BY LenProperties, ElementOfSeq
<1>2. ASSUME NEW i \in 1..n, NEW v \in X
      PROVE  step(v, i) \in X
  <2> DEFINE p == ps[i]
  <2>1. p \in P /\ Going(P, v)
    BY <1>1
  <2> HIDE DEF p
  <2>2. Going(P, WriteAll(v, p))
    BY <2>1, WriteAllGoes
  <2>3. WriteAll(v, p) \in Writers(P)
    BY <2>2 DEF Going
  <2> QED
    BY <2>2, <2>3 DEF p
<1>3. w \in X
  BY DEF Going
<1>4. WriteEach(w, ps) = u[n]
  BY DEF WriteEach
<1>5. \A v \in X : Going(P, v)
  OBVIOUS
<1> HIDE DEF X, n
<1>6. Steps(g, n, X)
  <2> HIDE DEF step
  <2> QED
    BY <1>2 DEF Steps
<1>7. PICK f : Comes(f, n, X, w, g)
  <2> HIDE DEF g
  <2> QED
    BY <1>1, <1>3, <1>6, Recursion
<1>8. Is(f)
  <2> HIDE DEF step
  <2>1. ASSUME NEW i \in 0..n
        PROVE  f[i] = IF i = 0 THEN w ELSE step(f[i - 1], i)
    <3>1. CASE i = 0
      BY <1>7, <3>1 DEF Comes
    <3>2. CASE i # 0
      <4>1. i \in 1..n /\ f[i - 1] \in X
        BY <1>1, <1>7, <3>2 DEF Comes
      <4>2. g[i][f[i - 1]] = step(f[i - 1], i)
        BY <4>1
      <4> HIDE DEF g
      <4> QED
        BY <1>7, <3>2, <4>1, <4>2 DEF Comes
    <3> QED
      BY <3>1, <3>2
  <2> QED
    BY <1>7, <2>1 DEF Comes
<1>9. Is(u)
  <2> HIDE DEF Is
  <2> QED
    BY <1>8
<1> HIDE DEF u
<1>10. u[0] = w /\ \A i \in 1..n : u[i] = WriteAll(u[i - 1], ps[i])
  <2>1. ASSUME NEW i \in 0..n
        PROVE  u[i] = IF i = 0 THEN w ELSE step(u[i - 1], i)
    <3> HIDE DEF step
    <3> QED
      BY <1>9
  <2> QED
    BY <1>1, <2>1
<1>11. \A i \in 0..n : u[i] \in X
  <2> DEFINE T == {i \in 0..n : u[i] \in X}
  <2>1. 0 \in T
    BY <1>1, <1>3, <1>10
  <2>2. \A i \in 1..n : i - 1 \in T => i \in T
    BY <1>2, <1>10
  <2> HIDE DEF T
  <2>3. \A i \in 0..n : i \in T
    BY <1>1, <2>1, <2>2, UpTo
  <2> QED
    BY <2>3 DEF T
<1> QED
  BY <1>1, <1>4, <1>5, <1>10, <1>11 DEF n

\* What was given to a writer is a sequence.
LEMMA AllIs ==
    ASSUME NEW P, NEW w \in Writers(P)
    PROVE  All(w) \in Seq(P) /\ Len(All(w)) \in Nat
<1>1. w.disk \in Seq(P) /\ w.buf \in Seq(P)
  BY DEF Writers
<1>2. All(w) \in Seq(P)
  BY <1>1, ConcatProperties DEF All
<1> QED
  BY <1>2, LenProperties

\* s is the beginning of t, element by element.
Starts(s, t) == Len(s) <= Len(t) /\ \A k \in 1..Len(s) : s[k] = t[k]

\* The beginning of a sequence, and one element more of it.
LEMMA StartsMore ==
    ASSUME NEW P, NEW s \in Seq(P), NEW t \in Seq(P), Starts(s, t), Len(s) < Len(t),
           NEW p \in P, p = t[Len(s) + 1]
    PROVE  Starts(Append(s, p), t) /\ Len(Append(s, p)) = Len(s) + 1
<1>1. /\ Len(s) \in Nat /\ Len(t) \in Nat /\ Len(Append(s, p)) = Len(s) + 1
      /\ \A k \in 1..Len(s) : Append(s, p)[k] = s[k]
      /\ Append(s, p)[Len(s) + 1] = p
  BY AppendProperties, LenProperties
<1>2. ASSUME NEW k \in 1..(Len(s) + 1)
      PROVE  Append(s, p)[k] = t[k]
  BY <1>1 DEF Starts
<1> QED
  BY <1>1, <1>2 DEF Starts

\* What a beginning lacks.
LEMMA StartsRest ==
    ASSUME NEW P, NEW s \in Seq(P), NEW t \in Seq(P), Starts(s, t)
    PROVE  \E rest \in Seq(P) : t = s \o rest
<1> DEFINE n == Len(s)
           h == SubSeq(t, 1, n)
           rest == SubSeq(t, n + 1, Len(t))
<1>1. n \in Nat /\ Len(t) \in Nat /\ n \in 0..Len(t)
  BY LenProperties DEF Starts
<1>2. h \in Seq(P) /\ Len(h) = n /\ rest \in Seq(P) /\ h \o rest = t
  <2> HIDE DEF n
  <2> QED
    BY <1>1, Behind
<1>3. \A k \in 1..n : h[k] = s[k]
  BY <1>1 DEF Starts
<1> HIDE DEF rest
<1>4. h = s
  <2> HIDE DEF h
  <2> QED
    BY <1>1, <1>2, <1>3, SeqEqual
<1>5. t = s \o rest
  BY <1>2, <1>4
<1> QED
  BY <1>2, <1>5

LEMMA StartsWhole ==
    ASSUME NEW P, NEW s \in Seq(P), NEW t \in Seq(P), Starts(s, t), Len(s) = Len(t)
    PROVE  s = t
BY LenProperties, SeqEqual DEF Starts

\* u is t behind s.
Joined(P, s, t, u) ==
    /\ u \in Seq(P) /\ Len(u) = Len(s) + Len(t) /\ Len(s) \in Nat /\ Starts(s, u)
    /\ \A k \in 1..Len(t) : u[Len(s) + k] = t[k]

\* A sequence is a beginning of one that goes on.
LEMMA StartsConcat ==
    ASSUME NEW P, NEW s \in Seq(P), NEW t \in Seq(P), NEW u, u = s \o t
    PROVE  Joined(P, s, t, u)
<1>1. Len(s) \in Nat /\ Len(t) \in Nat
  BY LenProperties
<1>2. /\ s \o t \in Seq(P) /\ Len(s \o t) = Len(s) + Len(t)
      /\ \A k \in 1..(Len(s) + Len(t)) :
            (s \o t)[k] = IF k <= Len(s) THEN s[k] ELSE t[k - Len(s)]
  BY ConcatProperties
<1>3. /\ u \in Seq(P) /\ Len(u) = Len(s) + Len(t)
      /\ \A k \in 1..(Len(s) + Len(t)) : u[k] = IF k <= Len(s) THEN s[k] ELSE t[k - Len(s)]
  BY <1>2
<1>4. \A k \in 1..Len(s) : s[k] = u[k]
  BY <1>1, <1>3
<1>5. ASSUME NEW k \in 1..Len(t)
      PROVE  u[Len(s) + k] = t[k]
  <2>1. Len(s) + k \in 1..(Len(s) + Len(t)) /\ ~(Len(s) + k <= Len(s)) /\ (Len(s) + k) - Len(s) = k
    BY <1>1
  <2> QED
    BY <1>3, <2>1
<1> QED
  BY <1>1, <1>3, <1>4, <1>5 DEF Starts, Joined

\* Lines one after the other: nothing of them is left in the buffer of stdout, and
\* all are with the writer if nothing was refused.
LEMMA WriteEachIs ==
    ASSUME Sane, NEW P, NEW w, Going(P, w), NEW ps \in Seq(P), ps # <<>>,
           \A i \in DOMAIN ps : ps[i].nl, NEW r, r = WriteEach(w, ps)
    PROVE  /\ Going(P, r)
           /\ ToStdout /\ r.err = "none" => r.buf = <<>>
           /\ All(w) = <<>> /\ r.err = "none" => All(r) = ps
<1> DEFINE n == Len(ps)
<1>1. n \in Nat /\ n # 0 /\ DOMAIN ps = 1..n
  BY LenProperties, EmptySeq
<1>2. PICK u : /\ u[0] = w /\ u[n] = r
               /\ \A i \in 0..n : Going(P, u[i])
               /\ \A i \in 1..n : u[i] = WriteAll(u[i - 1], ps[i]) /\ ps[i] \in P
  BY EachStep
<1> HIDE DEF n
<1>3. ASSUME NEW i \in 1..n
      PROVE  /\ ToStdout /\ u[i].err = "none" => u[i].buf = <<>>
             /\ u[i].err = "none" =>
                   u[i - 1].err = "none" /\ All(u[i]) = Append(All(u[i - 1]), ps[i])
  <2> DEFINE p == ps[i]
             v == u[i - 1]
  <2>1. p \in P /\ p.nl /\ Going(P, v) /\ u[i] = WriteAll(v, p)
    BY <1>1, <1>2
  <2> HIDE DEF p, v
  <2>2. /\ ToStdout /\ WriteAll(v, p).err = "none" /\ p.nl => WriteAll(v, p).buf = <<>>
        /\ WriteAll(v, p).err = "none" =>
              v.err = "none" /\ All(WriteAll(v, p)) = Append(All(v), p)
    BY <2>1, WriteAllGoes
  <2> QED
    BY <2>1, <2>2 DEF p, v
<1>4. Going(P, r) /\ (ToStdout /\ r.err = "none" => r.buf = <<>>)
  BY <1>1, <1>2, <1>3
<1>5. ASSUME All(w) = <<>>, r.err = "none"
      PROVE  All(r) = ps
  <2> DEFINE Has(i) == Len(All(u[i])) = i /\ Starts(All(u[i]), ps)
             T == {i \in 0..n : u[i].err = "none" => Has(i)}
  <2>1. 0 \in T
    BY <1>1, <1>2, <1>5 DEF Starts, n
  <2>2. ASSUME NEW i \in 1..n, i - 1 \in T
        PROVE  i \in T
    <3> SUFFICES ASSUME u[i].err = "none" PROVE Has(i)
      OBVIOUS
    <3> DEFINE v == All(u[i - 1])
               p == ps[i]
    <3>1. u[i - 1].err = "none" /\ All(u[i]) = Append(v, p)
      BY <1>3
    <3>2. v \in Seq(P) /\ p \in P
      <4>1. u[i - 1] \in Writers(P)
        BY <1>1, <1>2 DEF Going
      <4> QED
        BY <1>2, <4>1, AllIs
    <3>3. Len(v) = i - 1 /\ Starts(v, ps) /\ p = ps[Len(v) + 1] /\ Len(v) < Len(ps)
      BY <1>1, <2>2, <3>1 DEF n
    <3> HIDE DEF v, p
    <3>4. Starts(Append(v, p), ps) /\ Len(Append(v, p)) = Len(v) + 1
      BY <3>2, <3>3, StartsMore
    <3> QED
      BY <3>1, <3>3, <3>4
  <2> HIDE DEF T
  <2>3. n \in T
    <3>1. \A i \in 0..n : i \in T
      BY <1>1, <2>1, <2>2, UpTo
    <3> QED
      BY <1>1, <3>1
  <2>4. Has(n)
    BY <1>2, <1>5, <2>3 DEF T
  <2>5. All(r) \in Seq(P)
    BY <1>4, AllIs DEF Going
  <2> QED
    BY <1>2, <2>4, <2>5, StartsWhole DEF n
<1> QED
  BY <1>4, <1>5

\* The body of a line, part by part: if one is refused, it and what follows are not
\* there.
LEMMA BodyIs ==
    ASSUME Sane, NEW i \in Nat, NEW w, Ready(Piece, w), NEW r, r = WriteEach(w, Body(i)),
           NEW all, all = All(w) \o Line(i)
    PROVE  /\ r.err = "none" => /\ Ready(Piece, r) /\ Starts(All(r), all)
                                /\ Len(All(r)) = Len(All(w)) + Parts
           /\ r.err # "none" => /\ r \in Writers(Piece) /\ Fits(r) /\ Full(r)
                                /\ r.err = device.err /\ Starts(All(r), all)
                                /\ Len(All(r)) < Len(All(w)) + Parts
<1> DEFINE ps == Body(i)
           l == Line(i)
           n == Len(ps)
           A == All(w)
<1>1. /\ ps \in Seq(Piece) /\ n = Parts /\ n \in Nat
      /\ l \in Seq(Piece) /\ Len(l) = n + 1
      /\ \A k \in 1..n : l[k] = ps[k] /\ ~ps[k].nl
  BY LineIs
<1>2. w \in Writers(Piece) /\ w.err = "none" /\ Going(Piece, w)
  BY DEF Ready, Going
<1>3. A \in Seq(Piece) /\ Len(A) \in Nat
  BY <1>2, AllIs
<1> HIDE DEF A, ps, l
<1>4. /\ all \in Seq(Piece) /\ Len(all) = Len(A) + n + 1 /\ Starts(A, all)
      /\ \A k \in 1..n : all[Len(A) + k] = ps[k]
  <2>1. all = A \o l /\ A \in Seq(Piece) /\ l \in Seq(Piece)
    BY <1>1, <1>3 DEF A, l
  <2>2. Joined(Piece, A, l, all)
    BY <2>1, StartsConcat
  <2>3. \A k \in 1..n : k \in 1..Len(l)
    BY <1>1
  <2> QED
    BY <1>1, <1>3, <2>2, <2>3 DEF Joined
<1>5. PICK u : /\ u[0] = w /\ u[n] = r
               /\ \A k \in 0..n : Going(Piece, u[k])
               /\ \A k \in 1..n : u[k] = WriteAll(u[k - 1], ps[k]) /\ ps[k] \in Piece
  <2>1. r = WriteEach(w, ps) /\ ps \in Seq(Piece)
    BY <1>1 DEF ps
  <2> QED
    BY <1>2, <2>1, EachStep
<1> HIDE DEF n
<1> DEFINE Good(k) == /\ Starts(All(u[k]), all)
                      /\ u[k].err = "none" => /\ Ready(Piece, u[k])
                                              /\ Len(All(u[k])) = Len(A) + k
                      /\ u[k].err # "none" => /\ u[k].err = device.err /\ Full(u[k])
                                              /\ Len(All(u[k])) < Len(A) + k
           T == {k \in 0..n : Good(k)}
<1>6. 0 \in T
  BY <1>1, <1>2, <1>3, <1>4, <1>5 DEF A
<1>7. ASSUME NEW k \in 1..n, k - 1 \in T
      PROVE  k \in T
  <2> DEFINE v == u[k - 1]
             p == ps[k]
             x == u[k]
  <2>1. /\ Good(k - 1) /\ x = WriteAll(v, p) /\ p \in Piece /\ ~p.nl /\ k \in 0..n
        /\ p = all[Len(A) + k] /\ k - 1 \in 0..n
    <3>1. Good(k - 1)
      BY <1>7
    <3>2. x = WriteAll(v, p) /\ p \in Piece
      BY <1>5
    <3>3. ~p.nl /\ k \in 0..n /\ k - 1 \in 0..n
      BY <1>1
    <3>4. p = all[Len(A) + k]
      BY <1>4
    <3> HIDE DEF Good, x, p, v
    <3> QED
      BY <3>1, <3>2, <3>3, <3>4
  <2>2. /\ Starts(All(v), all)
        /\ v.err = "none" => Ready(Piece, v) /\ Len(All(v)) = Len(A) + (k - 1)
        /\ v.err # "none" => /\ v.err = device.err /\ Full(v)
                             /\ Len(All(v)) < Len(A) + (k - 1)
    BY <2>1
  <2>3. All(v) \in Seq(Piece) /\ Len(All(v)) \in Nat
    <3>1. Going(Piece, v)
      BY <1>5, <2>1
    <3>2. v \in Writers(Piece)
      <4> HIDE DEF v
      <4> QED
        BY <3>1 DEF Going
    <3> QED
      BY <3>2, AllIs
  <2> SUFFICES Good(k)
    BY <2>1
  <2> HIDE DEF v, p, x
  <2>4. CASE v.err # "none"
    <3>1. x = v
      BY <2>1, <2>4 DEF WriteAll
    <3>2. Len(All(v)) < Len(A) + k
      BY <1>1, <1>3, <2>2, <2>3, <2>4
    <3> QED
      BY <2>2, <2>4, <3>1, <3>2 DEF x
  <2>5. CASE v.err = "none"
    <3>1. /\ Wrote(Piece, v, p, x)
          /\ ToStderr => x.buf = <<>>
          /\ x.err # "none" => All(x) = All(v)
      <4>1. Ready(Piece, v) /\ p \in Piece /\ x = WriteAll(v, p) /\ ~p.nl
        BY <2>1, <2>2, <2>5
      <4>2. /\ Wrote(Piece, v, p, x)
            /\ ToStderr => x.buf = <<>>
            /\ x.err # "none" /\ ~p.nl => All(x) = All(v)
        BY <4>1, WriteAllIs
      <4> QED
        BY <4>1, <4>2
    <3>2. CASE x.err # "none"
      <4>1. x.err = device.err /\ Full(x) /\ All(x) = All(v)
        BY <3>1, <3>2 DEF Wrote
      <4>2. Len(All(v)) < Len(A) + k
        BY <1>1, <1>3, <2>2, <2>5
      <4> QED
        BY <2>2, <3>2, <4>1, <4>2 DEF x
    <3>3. CASE x.err = "none"
      <4>1. Ready(Piece, x) /\ All(x) = Append(All(v), p)
        BY <3>1, <3>3 DEF Wrote, Ready, Sane
      <4>2. Len(All(v)) + 1 = Len(A) + k /\ Len(All(v)) < Len(all)
        BY <1>1, <1>3, <1>4, <2>2, <2>5
      <4>3. p = all[Len(All(v)) + 1]
        BY <2>1, <4>2
      <4>4. Starts(Append(All(v), p), all) /\ Len(Append(All(v), p)) = Len(All(v)) + 1
        BY <1>4, <2>1, <2>2, <2>3, <4>2, <4>3, StartsMore
      <4> QED
        BY <3>3, <4>1, <4>2, <4>4 DEF x
    <3> QED
      BY <3>2, <3>3
  <2> QED
    BY <2>4, <2>5
<1> HIDE DEF T
<1>8. n \in T
  <2>1. \A k \in 0..n : k \in T
    BY <1>1, <1>6, <1>7, UpTo
  <2> QED
    BY <1>1, <2>1
<1>9. Good(n) /\ r \in Writers(Piece) /\ Fits(r)
  BY <1>1, <1>5, <1>8 DEF T, Going
<1> QED
  BY <1>1, <1>5, <1>9 DEF A

\* r is what a writer w became by recording event i: it has the line, or the device
\* refused a part of it.  JsonSink does not say why it was a part of the body that
\* was refused.
Recorded(w, i, r) ==
    \/ Between(r) /\ All(r) = All(w) \o Line(i)
    \/ /\ r \in Writers(Piece) /\ Fits(r) /\ Full(r)
       /\ Starts(All(r), All(w) \o Line(i))
       /\ \/ /\ r.err = device.err
             /\ cli.sink = "json" => Len(All(r)) >= Len(All(w)) + Parts
          \/ /\ r.err = "Other" /\ cli.sink = "json"
             /\ Len(All(r)) < Len(All(w)) + Parts

\* What recording an event comes to, with either of the sinks that write at once.
LEMMA RecordToIs ==
    ASSUME Sane, cli.sink # "summary", NEW i \in Nat, NEW w, Between(w),
           NEW r, r = RecordTo(w, i)
    PROVE  Recorded(w, i, r)
<1> DEFINE N == Newline(i)
           b == WriteEach(w, Body(i))
           n == WriteAll(b, N)
           all == All(w) \o Line(i)
<1>1. /\ N \in Piece /\ N.nl /\ device.err \in {"BrokenPipe", "Other"} /\ Parts \in Nat
      /\ cli.sink \in {"text", "json"}
  BY LineIs DEF Sane, Cli
<1>2. Ready(Piece, w) /\ w \in Writers(Piece)
  BY DEF Between, Ready
<1>3. /\ b.err = "none" => /\ Ready(Piece, b) /\ Starts(All(b), all)
                           /\ Len(All(b)) = Len(All(w)) + Parts
      /\ b.err # "none" => /\ b \in Writers(Piece) /\ Fits(b) /\ Full(b)
                           /\ b.err = device.err /\ Starts(All(b), all)
                           /\ Len(All(b)) < Len(All(w)) + Parts
  <2> HIDE DEF b, all
  <2>1. b = WriteEach(w, Body(i)) /\ all = All(w) \o Line(i)
    BY DEF b, all
  <2> QED
    BY <1>2, <2>1, BodyIs
<1>4. /\ all \in Seq(Piece) /\ Len(all) = Len(All(w)) + Parts + 1 /\ Len(All(w)) \in Nat
      /\ all[Len(All(w)) + Parts + 1] = N
  <2> DEFINE A == All(w)
             l == Line(i)
  <2>1. /\ A \in Seq(Piece) /\ Len(A) \in Nat
        /\ l \in Seq(Piece) /\ Len(l) = Parts + 1 /\ l[Parts + 1] = N
    BY <1>2, AllIs, LineIs
  <2> HIDE DEF A, l, N
  <2>2. all = A \o l
    BY DEF A, l
  <2> HIDE DEF all
  <2>3. Joined(Piece, A, l, all)
    BY <2>1, <2>2, StartsConcat
  <2>4. Parts + 1 \in 1..Len(l) /\ Len(A) + (Parts + 1) = Len(A) + Parts + 1
        /\ Len(A) + Len(l) = Len(A) + Parts + 1
    BY <1>1, <2>1
  <2> QED
    BY <2>1, <2>3, <2>4 DEF A, Joined
<1> HIDE DEF all, N
<1>5. all = All(w) \o Line(i) /\ N = Newline(i)
  BY DEF all, N
<1>6. CASE b.err = "none"
  <2>1. r = n
    BY <1>1, <1>5, <1>6 DEF RecordTo, TextRecord, JsonRecord
  <2> HIDE DEF b
  <2>2. /\ Wrote(Piece, b, N, n)
        /\ ToStderr => n.buf = <<>>
        /\ ToStdout /\ n.err = "none" => n.buf = <<>>
    BY <1>1, <1>3, <1>6, WriteAllIs
  <2>3. b \in Writers(Piece)
    BY <1>3, <1>6 DEF Ready
  <2>4. All(b) \in Seq(Piece) /\ Len(All(b)) = Len(All(w)) + Parts /\ Starts(All(b), all)
    BY <1>3, <1>6, <2>3, AllIs
  <2>5. /\ Starts(Append(All(b), N), all)
        /\ Len(Append(All(b), N)) = Len(All(w)) + Parts + 1
    <3> DEFINE v == All(b)
    <3>1. v \in Seq(Piece) /\ Len(v) < Len(all) /\ N = all[Len(v) + 1] /\ Starts(v, all)
      BY <1>1, <1>4, <2>4
    <3> HIDE DEF v
    <3>2. Starts(Append(v, N), all) /\ Len(Append(v, N)) = Len(v) + 1
      BY <1>1, <1>4, <3>1, StartsMore
    <3> QED
      BY <2>4, <3>2 DEF v
  <2> HIDE DEF n
  <2>6. CASE n.err = "none"
    <3>1. n \in Writers(Piece) /\ Fits(n) /\ All(n) = Append(All(b), N)
      BY <1>1, <2>2, <2>6 DEF Wrote
    <3>2. All(n) \in Seq(Piece)
      BY <3>1, AllIs
    <3>3. All(n) = all
      <4> DEFINE v == All(n)
      <4>1. v \in Seq(Piece) /\ all \in Seq(Piece) /\ Starts(v, all) /\ Len(v) = Len(all)
        BY <1>4, <2>5, <3>1, <3>2
      <4> HIDE DEF v
      <4>2. v = all
        BY <4>1, StartsWhole
      <4> QED
        BY <4>2 DEF v
    <3> QED
      BY <1>5, <2>1, <2>2, <2>6, <3>1, <3>3 DEF Recorded, Between, Ready
  <2>7. CASE n.err # "none"
    <3>1. /\ n \in Writers(Piece) /\ Fits(n) /\ Full(n) /\ n.err = device.err
          /\ All(n) \in {All(b), Append(All(b), N)}
      BY <2>2, <2>7 DEF Wrote
    <3>2. Starts(All(n), all)
      BY <2>4, <2>5, <3>1
    <3>3. Len(All(n)) >= Len(All(w)) + Parts
      <4>1. Len(All(n)) \in {Len(All(w)) + Parts, Len(All(w)) + Parts + 1}
        BY <2>4, <2>5, <3>1
      <4> QED
        BY <1>1, <1>4, <4>1
    <3> QED
      BY <1>5, <2>1, <3>1, <3>2, <3>3 DEF Recorded
  <2> QED
    BY <2>6, <2>7
<1>7. CASE b.err # "none"
  <2>1. CASE cli.sink = "text"
    <3>1. r = b
      BY <1>7, <2>1 DEF RecordTo, TextRecord, WriteAll
    <3> HIDE DEF b
    <3> QED
      BY <1>3, <1>5, <1>7, <2>1, <3>1 DEF Recorded
  <2>2. CASE cli.sink = "json"
    <3>1. r = [b EXCEPT !.err = "Other"]
      BY <1>7, <2>2 DEF RecordTo, JsonRecord
    <3> HIDE DEF b
    <3>2. r = [buf |-> b.buf, disk |-> b.disk, err |-> "Other"]
      BY <1>3, <1>7, <3>1 DEF Writers
    <3>3. r \in Writers(Piece) /\ r.err = "Other"
      <4>1. b.buf \in Seq(Piece) /\ b.disk \in Seq(Piece) /\ "Other" \in Errs
        BY <1>3, <1>7 DEF Writers, Errs
      <4> QED
        BY <3>2, <4>1 DEF Writers
    <3>4. Fits(r) /\ Full(r) /\ All(r) = All(b)
      <4>1. r.disk = b.disk /\ r.buf = b.buf
        BY <3>2
      <4> QED
        BY <1>3, <1>7, <4>1 DEF Fits, Full, All
    <3> QED
      BY <1>3, <1>5, <1>7, <2>2, <3>3, <3>4 DEF Recorded
  <2> QED
    BY <1>1, <2>1, <2>2
<1> QED
  BY <1>6, <1>7

\* The table is a sequence of lines with their newlines.
LEMMA TableIs ==
    ASSUME IsFiniteSet(DOMAIN stats)
    PROVE  /\ Table \in Seq(Range(Table)) /\ Table # <<>>
           /\ \A i \in DOMAIN Table : Table[i].nl
<1> DEFINE c == Cardinality(DOMAIN stats)
           rows == [i \in DOMAIN Sorted |-> Row(Sorted[i], stats[Sorted[i]])]
           total == Row("total", Totals(rows))
           P == {HeadLine, RuleLine, total} \cup {rows[i] : i \in 1..c}
           a == <<HeadLine, RuleLine>>
           z == <<RuleLine, total>>
<1>1. c \in Nat /\ DOMAIN Sorted = 1..c
  BY FS_CardinalityType DEF Sorted
<1>2. rows \in Seq(P)
  BY <1>1
<1>3. a \in Seq(P) /\ z \in Seq(P) /\ Len(a) = 2
  OBVIOUS
<1>4. Table = (a \o rows) \o z
  BY DEF Table
<1>5. ASSUME NEW p \in P
      PROVE  p.nl
  BY <1>1 DEF HeadLine, RuleLine, Row
<1> HIDE DEF a, z, rows, P
<1>6. a \o rows \in Seq(P) /\ Len(a \o rows) = 2 + Len(rows) /\ Len(rows) \in Nat
  <2>1. a \o rows \in Seq(P) /\ Len(a \o rows) = Len(a) + Len(rows)
    BY <1>2, <1>3, ConcatProperties
  <2>2. Len(rows) \in Nat
    BY <1>2, LenProperties
  <2> QED
    BY <1>3, <2>1, <2>2
<1>7. Table \in Seq(P) /\ Len(Table) # 0
  <2> DEFINE b == a \o rows
  <2> HIDE DEF b
  <2>1. b \in Seq(P) /\ Len(b) # 0 /\ Len(b) \in Nat /\ Table = b \o z /\ Len(z) \in Nat
    BY <1>3, <1>4, <1>6, LenProperties DEF b
  <2>2. b \o z \in Seq(P) /\ Len(b \o z) = Len(b) + Len(z)
    BY <1>3, <2>1, ConcatProperties
  <2> QED
    BY <2>1, <2>2
<1>8. DOMAIN Table = 1..Len(Table) /\ Len(Table) \in Nat
      /\ \A i \in DOMAIN Table : Table[i] \in P
  BY <1>7, LenProperties, ElementOfSeq
<1>9. Table \in Seq(Range(Table))
  BY <1>7, <1>8 DEF Range
<1> QED
  BY <1>5, <1>7, <1>8, <1>9

-----------------------------------------------------------------------------
(* One lemma for each action.                                              *)

\* A writer that has written nothing may write anything.
LEMMA FreshIs ==
    ASSUME Sane, NEW P
    PROVE  /\ Going(P, Fresh) /\ Between(Fresh) /\ All(Fresh) = <<>>
<1>1. <<>> \in Seq(P) /\ <<>> \in Seq(Piece) /\ Len(<<>>) = 0
  OBVIOUS
<1>2. Fresh \in Writers(P) /\ Fresh \in Writers(Piece)
  BY <1>1 DEF Fresh, Writers, Errs
<1>3. Fits(Fresh)
  BY <1>1 DEF Fresh, Fits, Sane
<1>4. <<>> \o <<>> = <<>>
  BY ConcatEmptySeq, <1>1
<1> QED
  BY <1>2, <1>3, <1>4 DEF Fresh, Going, Between, Ready, All

\* The lines are those of the events and the options.
LEMMA SetUpKept ==
    ASSUME SetUp, UNCHANGED <<cli, device, made, stats>>
    PROVE  SetUp' /\ Lines' = Lines /\ Lines \in Seq(Piece)
<1>1. Lines' = Lines
  BY DEF Lines, Wanted
<1>2. Sane'
  BY DEF SetUp, Sane
<1>3. Lines \in Seq(Piece)
  <2> DEFINE s == {i \in DOMAIN made : Wanted(made[i])}
             m == Len(made)
  <2>1. m \in Nat
    BY LenProperties DEF SetUp
  <2>2. Lines = LinesOf(s, m)
    BY DEF Lines
  <2> HIDE DEF s, m
  <2>3. LinesOf(s, m) \in Seq(Piece)
    BY <2>1, LinesOfIs
  <2> QED
    BY <2>2, <2>3
<1> QED
  BY <1>1, <1>2, <1>3 DEF SetUp

\* At the start there are no events.
LEMMA Begins ==
    ASSUME Init
    PROVE  OutInv
<1>1. Sane
  BY OutputAssumption DEF Init, Sane
<1>2. out = Fresh /\ made = <<>> /\ pc = "start" /\ exited = -1
  BY DEF Init, Fresh
<1>3. Lines = <<>>
  <2> DEFINE s == {i \in DOMAIN made : Wanted(made[i])}
  <2>1. Lines = LinesOf(s, 0)
    BY <1>2 DEF Lines
  <2> HIDE DEF s
  <2>2. LinesOf(s, 0) = <<>>
    BY LinesOfIs
  <2> QED
    BY <2>1, <2>2
<1>4. SetUp
  <2>1. made \in Seq(Events) /\ DOMAIN stats = {}
    BY <1>2 DEF Init
  <2> QED
    BY <1>1, <1>3, <2>1, FS_EmptySet DEF SetUp
<1>5. Between(out) /\ All(out) = Lines
  BY <1>1, <1>2, <1>3, FreshIs
<1>6. RunInv
  BY <1>2, <1>5 DEF RunInv, Running
<1> QED
  BY <1>2, <1>4, <1>5, <1>6
     DEF OutInv, InOrder, NothingHeldBack, SuccessMeansWritten, QuietOnBrokenPipe,
         Between, Ready, All

\* run returns before the sink has met an error.
LEMMA EndsEarly ==
    ASSUME OutInv, Running, NEW how, NEW code, Ends(how, out, code),
           how \in {"refused", "unopened", "tracer_error", "finished"},
           how = "finished" => Streaming, UNCHANGED <<cli, device, stats, made>>
    PROVE  OutInv'
<1>1. /\ SetUp' /\ Lines' = Lines /\ Lines \in Seq(Piece) /\ Sane
      /\ pc' = how /\ out' = Drop(out)
  BY SetUpKept DEF OutInv, SetUp, Ends
<1>2. RunInv'
  BY <1>1 DEF RunInv, Running
<1>3. Streaming' <=> Streaming
  BY DEF Streaming
<1>4. QuietOnBrokenPipe'
  BY <1>1 DEF QuietOnBrokenPipe
<1>5. CASE ~Streaming
  BY <1>1, <1>2, <1>3, <1>4, <1>5
     DEF OutInv, InOrder, NothingHeldBack, SuccessMeansWritten
<1>6. CASE Streaming
  <2>1. Between(out) /\ All(out) = Lines
    BY <1>6 DEF OutInv, RunInv
  <2>2. out \in Writers(Piece) /\ Fits(out) /\ out.err = "none"
    BY <2>1 DEF Between, Ready
  <2>3. InOrder' /\ NothingHeldBack'
    BY <1>1, <1>6, <2>1, <2>2, StreamEnds
  <2>4. ASSUME cli.dest # "file"
        PROVE  out'.buf = <<>> /\ out'.disk = Lines
    <3>1. out.buf = <<>>
      BY <1>1, <1>6, <2>1, <2>4 DEF Between, Ready, ToStderr, ToStdout, Sane, Cli, Streaming
    <3>2. out' = out
      BY <1>1, <2>2, <3>1, DropIs
    <3>3. out.disk \in Seq(Piece) /\ Lines = out.disk \o <<>>
      BY <2>1, <2>2, <3>1 DEF All, Writers
    <3> DEFINE d == out.disk
    <3>4. d \in Seq(Piece) /\ Lines = d \o <<>>
      BY <3>3
    <3>5. Lines = d
      <4> HIDE DEF d
      <4> QED
        BY <3>4, ConcatEmptySeq
    <3> QED
      BY <3>1, <3>2, <3>5
  <2>5. SuccessMeansWritten'
    BY <1>1, <2>4 DEF SuccessMeansWritten
  <2> QED
    BY <1>1, <1>2, <1>4, <2>3, <2>5 DEF OutInv
<1> QED
  BY <1>5, <1>6

\* What an error comes to for main.
LEMMA CodeIs ==
    ASSUME NEW w
    PROVE  ErrorCode(w) = 0 <=> w.err = "BrokenPipe"
BY DEF ErrorCode, Reported

\* BuildFilter preserves the invariant.
LEMMA BuildKeeps ==
    ASSUME OutInv, BuildFilter
    PROVE  OutInv'
<1>1. pc = "start" /\ ~cli.list /\ filter' = FromExprs(cli.exprs) /\ Running
      /\ UNCHANGED <<cli, device, stats, exit_code, made>>
  BY DEF BuildFilter, Running
<1>2. CASE filter'.kind = "Error"
  <2>1. Ends("refused", out, ErrorCode(out))
    BY <1>2 DEF BuildFilter
  <2> QED
    BY <1>1, <2>1, EndsEarly
<1>3. CASE filter'.kind # "Error"
  <2>1. pc' = "open" /\ UNCHANGED <<out, exited>>
    BY <1>3 DEF BuildFilter
  <2>2. SetUp' /\ Lines' = Lines
    BY <1>1, SetUpKept DEF OutInv
  <2>3. Between(out)' <=> Between(out)
    BY <1>1, <2>1 DEF Between, Ready, Fits, ToStderr, ToStdout
  <2>4. RunInv'
    BY <1>1, <1>3, <2>1, <2>2, <2>3 DEF OutInv, RunInv, Running, Streaming, All
  <2> QED
    BY <1>1, <2>1, <2>2, <2>4
       DEF OutInv, InOrder, NothingHeldBack, SuccessMeansWritten, QuietOnBrokenPipe,
           Streaming, Refused
<1> QED
  BY <1>2, <1>3

\* OpenOutput preserves the invariant.
LEMMA OpenKeeps ==
    ASSUME OutInv, OpenOutput
    PROVE  OutInv'
<1>1. pc = "open" /\ Running /\ UNCHANGED <<cli, device, filter, stats, exit_code, made>>
  BY DEF OpenOutput, Running
<1>2. CASE Ends("unopened", out, ErrorCode(out))
  BY <1>1, <1>2, EndsEarly
<1>3. CASE pc' = "loop" /\ UNCHANGED <<out, exited>>
  <2>2. SetUp' /\ Lines' = Lines
    BY <1>1, SetUpKept DEF OutInv
  <2>3. Between(out)' <=> Between(out)
    BY <1>1, <1>3 DEF Between, Ready, Fits, ToStderr, ToStdout
  <2>4. RunInv'
    BY <1>1, <1>3, <2>2, <2>3 DEF OutInv, RunInv, Running, Streaming, All
  <2> QED
    BY <1>1, <1>3, <2>2, <2>4
       DEF OutInv, InOrder, NothingHeldBack, SuccessMeansWritten, QuietOnBrokenPipe,
           Streaming, Refused
<1> QED
  BY <1>2, <1>3 DEF OpenOutput

\* TracerFails preserves the invariant.
LEMMA FailsKeeps ==
    ASSUME OutInv, TracerFails
    PROVE  OutInv'
<1>1. Running /\ Ends("tracer_error", out, ErrorCode(out))
      /\ UNCHANGED <<cli, device, stats, made>>
  BY DEF TracerFails, Running
<1> QED
  BY <1>1, EndsEarly

\* ListSyscalls preserves the invariant.
LEMMA ListKeeps ==
    ASSUME OutInv, ListSyscalls
    PROVE  OutInv'
<1> DEFINE names == [i \in DOMAIN SYSCALLS |-> Newline(SYSCALLS[i].number)]
           lines == <<HeadLine>> \o names
           written == WriteEach(out, lines)
           w == IF written.err = "none" THEN Flush(written) ELSE written
           P == {HeadLine} \cup {names[i] : i \in DOMAIN SYSCALLS}
<1>1. /\ pc = "start" /\ cli.list /\ Running /\ ~Streaming /\ Sane /\ out = Fresh
      /\ UNCHANGED <<cli, device, filter, stats, exit_code, made>>
      /\ Ends("listed", w, IF w.err = "none" THEN 0 ELSE ErrorCode(w))
  BY DEF ListSyscalls, Running, Streaming, OutInv, SetUp, RunInv
<1>2. lines \in Seq(P) /\ lines # <<>> /\ \A i \in DOMAIN lines : lines[i].nl
  <2>1. Len(SYSCALLS) \in Nat /\ DOMAIN SYSCALLS = 1..Len(SYSCALLS)
    BY CallsAssumption, LenProperties
  <2>2. names \in Seq(P)
    BY <2>1
  <2> DEFINE a == <<HeadLine>>
  <2>3. a \in Seq(P) /\ Len(a) = 1
    OBVIOUS
  <2>4. \A p \in P : p.nl
    BY DEF HeadLine, Newline
  <2> HIDE DEF a, P, names
  <2>5. a \o names \in Seq(P) /\ Len(a \o names) = Len(a) + Len(names) /\ Len(names) \in Nat
    BY <2>2, <2>3, ConcatProperties, LenProperties
  <2> DEFINE s == a \o names
  <2>6. s \in Seq(P) /\ Len(s) # 0
    BY <2>3, <2>5
  <2> HIDE DEF s
  <2>7. s # <<>> /\ \A i \in DOMAIN s : s[i] \in P
    BY <2>6, ElementOfSeq, LenProperties
  <2> QED
    BY <2>4, <2>6, <2>7 DEF s, a
<1>3. Going(P, written)
  <2> HIDE DEF P, lines
  <2>1. Going(P, out)
    BY <1>1, FreshIs
  <2> QED
    BY <1>1, <1>2, <2>1, WriteEachIs
<1>4. w.err \in {"none", device.err}
  <2> HIDE DEF P, written
  <2>1. written \in Writers(P) /\ Fits(written) /\ written.err \in {"none", device.err}
    BY <1>3 DEF Going
  <2>2. Flush(written).err \in {written.err, device.err}
    BY <1>1, <2>1, FlushIs
  <2> QED
    BY <2>1, <2>2
<1> HIDE DEF w
<1>5. pc' = "listed" /\ (device.err = "BrokenPipe" => exited' = 0)
  BY <1>1, <1>4, CodeIs DEF Ends
<1>6. SetUp'
  BY <1>1, SetUpKept DEF OutInv
<1> QED
  BY <1>1, <1>5, <1>6
     DEF OutInv, RunInv, Running, InOrder, NothingHeldBack, SuccessMeansWritten,
         QuietOnBrokenPipe, Streaming

\* Finish preserves the invariant.
LEMMA FinishKeeps ==
    ASSUME OutInv, Finish
    PROVE  OutInv'
<1> DEFINE w == FinishTo(out)
<1>1. /\ pc = "loop" /\ Running /\ Sane /\ ~cli.list /\ IsFiniteSet(DOMAIN stats)
      /\ UNCHANGED <<cli, device, filter, stats, exit_code, made>>
      /\ IF w.err = "none" THEN Ends("finished", w, exit_code)
         ELSE Ends("write_error", w, ErrorCode(w))
  BY DEF Finish, Running, OutInv, SetUp, RunInv
<1>2. CASE Streaming
  <2>1. w = out /\ out.err = "none"
    BY <1>1, <1>2 DEF FinishTo, Streaming, OutInv, RunInv, Between, Ready
  <2>2. Ends("finished", out, exit_code)
    BY <1>1, <2>1
  <2> QED
    BY <1>1, <1>2, <2>2, EndsEarly
<1>3. CASE ~Streaming
  <2>1. cli.sink = "summary" /\ out = Fresh /\ w = WriteEach(out, Table)
    BY <1>1, <1>3 DEF Streaming, OutInv, RunInv, FinishTo
  <2> DEFINE P == Range(Table)
  <2>2. Table \in Seq(P) /\ Table # <<>> /\ \A i \in DOMAIN Table : Table[i].nl
    BY <1>1, TableIs
  <2> HIDE DEF P
  <2>3. Going(P, w) /\ (ToStdout /\ w.err = "none" => w.buf = <<>>)
    <3>1. Going(P, out)
      BY <1>1, <2>1, FreshIs
    <3> QED
      BY <1>1, <2>1, <2>2, <3>1, WriteEachIs
  <2> HIDE DEF w
  <2>4. SetUp'
    BY <1>1, SetUpKept DEF OutInv
  <2>5. InOrder' /\ NothingHeldBack' /\ ~Streaming'
    BY <1>1, <1>3 DEF InOrder, NothingHeldBack, Streaming
  <2>6. CASE w.err = "none"
    <3>1. Ends("finished", w, exit_code)
      BY <1>1, <2>6
    <3>2. ASSUME cli.dest # "file"
          PROVE  out'.buf = <<>>
      <4>1. w.buf = <<>> /\ w \in Writers(P) /\ Fits(w)
        BY <1>1, <2>3, <2>6, <3>2 DEF Going, ToStderr, ToStdout, Sane, Cli
      <4>2. Drop(w) = w
        BY <1>1, <4>1, DropIs
      <4> QED
        BY <3>1, <4>1, <4>2 DEF Ends
    <3> QED
      BY <1>1, <2>4, <2>5, <3>1, <3>2
         DEF OutInv, RunInv, Running, SuccessMeansWritten, QuietOnBrokenPipe, Ends
  <2>7. CASE w.err # "none"
    <3>1. pc' = "write_error" /\ exited' = ErrorCode(w) /\ w.err = device.err
      BY <1>1, <2>3, <2>7 DEF Ends, Going
    <3>2. exited' = 0 <=> device.err = "BrokenPipe"
      BY <3>1, CodeIs
    <3> QED
      BY <1>1, <2>1, <2>4, <2>5, <3>1, <3>2
         DEF OutInv, RunInv, Running, SuccessMeansWritten, QuietOnBrokenPipe
  <2> QED
    BY <2>6, <2>7
<1> QED
  BY <1>2, <1>3

\* Recording an event that the user asked to see preserves the invariant.
LEMMA RecordKeeps ==
    ASSUME OutInv, pc = "loop", NEW x \in Events, Wanted(x), made' = Append(made, x),
           RecordNow, IsFiniteSet(DOMAIN stats'), UNCHANGED <<cli, device, filter>>
    PROVE  OutInv'
<1> DEFINE n == Len(made) + 1
           w == RecordTo(out, n)
<1>1. /\ SetUp /\ Sane /\ ~cli.list /\ Running /\ exited = -1
      /\ IF Streaming THEN Between(out) /\ All(out) = Lines ELSE out = Fresh
      /\ filter = FromExprs(cli.exprs) /\ filter.kind # "Error"
  BY DEF OutInv, RunInv, SetUp, Running
<1>2. /\ Lines \in Seq(Piece) /\ n \in Nat /\ made' \in Seq(Events)
      /\ Lines' = Lines \o Line(n) /\ Lines' \in Seq(Piece)
  BY <1>1, LinesGrow
<1>3. SetUp'
  BY <1>1, <1>2 DEF SetUp, Sane
<1>4. (Streaming' <=> Streaming) /\ (\A v : Between(v)' <=> Between(v))
  BY DEF Streaming, Between, Ready, Fits, ToStderr, ToStdout
<1>5. IF w.err = "none" THEN out' = w /\ UNCHANGED <<pc, exited>>
      ELSE Ends("write_error", w, ErrorCode(w))
  BY DEF RecordNow
<1> HIDE DEF n
<1>6. CASE ~Streaming
  <2>1. w = Fresh /\ w.err = "none"
    BY <1>1, <1>6 DEF Streaming, RecordTo, Fresh
  <2>2. out' = Fresh /\ pc' = "loop" /\ exited' = -1
    BY <1>1, <1>5, <2>1
  <2> QED
    BY <1>1, <1>3, <1>4, <1>6, <2>2
       DEF OutInv, RunInv, InOrder, NothingHeldBack, SuccessMeansWritten, QuietOnBrokenPipe
<1>7. CASE Streaming
  <2>1. Recorded(out, n, w)
    BY <1>1, <1>2, <1>7, RecordToIs DEF Streaming
  <2> HIDE DEF w
  <2>2. CASE Between(w) /\ All(w) = All(out) \o Line(n)
    <3>1. out' = w /\ pc' = "loop" /\ exited' = -1
      BY <1>1, <1>5, <2>2 DEF Between, Ready
    <3>2. Between(out)' /\ All(out') = Lines' /\ out'.err = "none"
      BY <1>1, <1>2, <1>4, <1>7, <2>2, <3>1 DEF Between, Ready, Fits, ToStderr, ToStdout
    <3>3. RunInv'
      BY <1>1, <1>4, <1>7, <3>1, <3>2 DEF RunInv, All
    <3>4. InOrder'
      BY <3>2 DEF InOrder, All
    <3>5. NothingHeldBack' /\ SuccessMeansWritten' /\ QuietOnBrokenPipe'
      BY <3>1 DEF NothingHeldBack, SuccessMeansWritten, QuietOnBrokenPipe
    <3> QED
      BY <1>3, <3>3, <3>4, <3>5 DEF OutInv
  <2>3. CASE ~(Between(w) /\ All(w) = All(out) \o Line(n))
    <3>1. /\ w \in Writers(Piece) /\ Fits(w) /\ Full(w) /\ Starts(All(w), Lines')
          /\ \/ /\ w.err = device.err
                /\ cli.sink = "json" => Len(All(w)) >= Len(Lines) + Parts
             \/ /\ w.err = "Other" /\ cli.sink = "json"
                /\ Len(All(w)) < Len(Lines) + Parts
      BY <1>1, <1>2, <1>7, <2>1, <2>3 DEF Recorded
    <3>2. w.err # "none" /\ Ends("write_error", w, ErrorCode(w))
      BY <1>1, <1>5, <3>1 DEF Sane
    <3>3. /\ All(w) \in Seq(Piece) /\ Len(All(w)) \in Nat /\ Len(Lines) \in Nat
          /\ Len(Lines') = Len(Lines) + Parts + 1 /\ Parts \in Nat
      <4> DEFINE L == Lines
                 l == Line(n)
      <4>1. /\ L \in Seq(Piece) /\ l \in Seq(Piece) /\ Len(l) = Parts + 1 /\ Parts \in Nat
            /\ Lines' = L \o l
        BY <1>2, LineIs
      <4> HIDE DEF L, l
      <4>2. Len(L \o l) = Len(L) + Len(l) /\ Len(L) \in Nat
        BY <4>1, ConcatProperties, LenProperties
      <4>3. All(w) \in Seq(Piece) /\ Len(All(w)) \in Nat
        BY <3>1, AllIs
      <4> QED
        BY <4>1, <4>2, <4>3 DEF L
    <3>4. \E rest \in Seq(Piece) : Lines' = All(w) \o rest
      <4> DEFINE M == Lines'
                 v == All(w)
      <4>1. M \in Seq(Piece) /\ v \in Seq(Piece) /\ Starts(v, M)
        BY <1>2, <3>1, <3>3
      <4> DEFINE P == Piece
      <4>2. M \in Seq(P) /\ v \in Seq(P)
        BY <4>1
      <4> HIDE DEF M, v, P
      <4>3. \E rest \in Seq(P) : M = v \o rest
        BY <4>1, <4>2, StartsRest
      <4> QED
        BY <4>3 DEF M, v, P
    <3>5. InOrder' /\ NothingHeldBack'
      <4>1. out' = Drop(w)
        BY <3>2 DEF Ends
      <4> QED
        BY <1>1, <1>2, <1>7, <3>1, <3>2, <3>4, <4>1, StreamEnds
    <3>6. QuietOnBrokenPipe'
      <4>1. /\ pc' = "write_error" /\ (out.disk \o out.buf)' = All(w)
            /\ exited' = 0 <=> w.err = "BrokenPipe"
        <5>1. out' = Drop(w) /\ exited' = ErrorCode(w) /\ pc' = "write_error"
          BY <3>2 DEF Ends
        <5>2. All(Drop(w)) = All(w)
          BY <1>1, <3>1, DropIs
        <5> QED
          BY <5>1, <5>2, CodeIs DEF All
      <4>2. /\ Len(Lines') - Len(All(w)) <= 1 <=> Len(All(w)) >= Len(Lines) + Parts
            /\ ~(Len(All(w)) < Len(Lines) + Parts /\ Len(All(w)) >= Len(Lines) + Parts)
        BY <3>3
      <4>3. exited' = 0 <=>
               /\ device.err = "BrokenPipe"
               /\ cli.sink = "json" => Len(Lines') - Len(All(w)) <= 1
        <5>1. CASE /\ w.err = device.err
                   /\ cli.sink = "json" => Len(All(w)) >= Len(Lines) + Parts
          BY <4>1, <4>2, <5>1
        <5>2. CASE /\ w.err = "Other" /\ cli.sink = "json"
                   /\ Len(All(w)) < Len(Lines) + Parts
          BY <4>1, <4>2, <5>2
        <5> QED
          BY <3>1, <5>1, <5>2
      <4> QED
        BY <4>1, <4>3 DEF QuietOnBrokenPipe
    <3> QED
      BY <1>3, <3>2, <3>5, <3>6 DEF OutInv, RunInv, Running, SuccessMeansWritten, Ends
  <2> QED
    BY <2>2, <2>3
<1> QED
  BY <1>6, <1>7

\* OnSyscall preserves the invariant: a call that the filter holds back has no line.
LEMMA SyscallKeeps ==
    ASSUME OutInv, NEW call \in Calls, OnSyscall(call)
    PROVE  OutInv'
<1>1. /\ SetUp /\ Sane /\ pc = "loop" /\ ~cli.list /\ exited = -1
      /\ IF Streaming THEN Between(out) /\ All(out) = Lines ELSE out = Fresh
      /\ filter = FromExprs(cli.exprs) /\ filter.kind # "Error"
      /\ made' = Append(made, call) /\ UNCHANGED <<cli, device, filter, exit_code>>
      /\ IsFiniteSet(DOMAIN stats) /\ call \in Events
  BY DEF OnSyscall, OutInv, RunInv, SetUp, Running, Events
<1>2. Allows(filter, call.nr) <=> Wanted(call)
  BY <1>1, FilterRight
<1>3. CASE Allows(filter, call.nr)
  <2>1. RecordNow /\ Wanted(call)
    BY <1>2, <1>3 DEF OnSyscall
  <2>2. IsFiniteSet(DOMAIN stats')
    <3>1. DOMAIN stats' \in {DOMAIN stats, DOMAIN stats \cup {call.name}}
      BY <1>3 DEF OnSyscall
    <3>2. IsFiniteSet(DOMAIN stats \cup {call.name})
      BY <1>1, FS_AddElement
    <3> QED
      BY <1>1, <3>1, <3>2
  <2> QED
    BY <1>1, <2>1, <2>2, RecordKeeps
<1>4. CASE ~Allows(filter, call.nr)
  <2>1. UNCHANGED <<stats, out, pc, exited>> /\ ~Wanted(call)
    BY <1>2, <1>4 DEF OnSyscall
  <2> DEFINE n == Len(made) + 1
             L == Lines
  <2>2. L \in Seq(Piece) /\ made' \in Seq(Events) /\ Lines' = L \o <<>>
    BY <1>1, <2>1, LinesGrow
  <2>3. Lines' = L
    <3> HIDE DEF L
    <3> QED
      BY <2>2, ConcatEmptySeq
  <2>4. SetUp'
    BY <1>1, <2>1, <2>2 DEF SetUp, Sane
  <2>5. Between(out)' <=> Between(out)
    BY <1>1, <2>1 DEF Between, Ready, Fits, ToStderr, ToStdout
  <2>6. RunInv'
    BY <1>1, <2>1, <2>3, <2>5 DEF RunInv, Running, Streaming, All
  <2>7. InOrder' /\ NothingHeldBack' /\ SuccessMeansWritten' /\ QuietOnBrokenPipe'
    BY <1>1, <2>1, <2>3
       DEF OutInv, InOrder, NothingHeldBack, SuccessMeansWritten, QuietOnBrokenPipe,
           Streaming, Refused
  <2> QED
    BY <2>4, <2>6, <2>7 DEF OutInv
<1> QED
  BY <1>3, <1>4

\* OnExit and OnSignal preserve the invariant.
LEMMA OthersKeep ==
    ASSUME OutInv, \/ \E leader \in BOOLEAN, code \in Codes : OnExit(leader, code)
                   \/ OnSignal
    PROVE  OutInv'
<1>1. PICK x \in Events : x.kind # "syscall" /\ made' = Append(made, x)
  <2>1. CASE OnSignal
    BY <2>1 DEF OnSignal, Events
  <2>2. ASSUME NEW leader \in BOOLEAN, NEW code \in Codes, OnExit(leader, code)
        PROVE  \E x \in Events : x.kind # "syscall" /\ made' = Append(made, x)
    <3> DEFINE x == [kind |-> "exit", leader |-> leader, code |-> code]
    <3>1. x \in Events /\ x.kind # "syscall" /\ made' = Append(made, x)
      BY <2>2 DEF OnExit, Events
    <3> HIDE DEF x
    <3> QED
      BY <3>1
  <2> QED
    BY <2>1, <2>2
<1>2. /\ pc = "loop" /\ RecordNow /\ UNCHANGED <<cli, device, filter, stats>>
  BY DEF OnExit, OnSignal
<1>3. IsFiniteSet(DOMAIN stats') /\ Wanted(x)
  BY <1>1, <1>2 DEF OutInv, SetUp, Wanted
<1> QED
  BY <1>1, <1>2, <1>3, RecordKeeps

\* The invariant holds in every state of every run.
THEOREM OutputInvariance == Spec => []OutInv
<1>1. Init => OutInv
  BY Begins
<1>2. OutInv /\ [Next]_vars => OutInv'
  <2> SUFFICES ASSUME OutInv, [Next]_vars PROVE OutInv'
    OBVIOUS
  <2>1. CASE UNCHANGED vars
    <3>1. SetUp'
      BY <2>1, SetUpKept DEF OutInv, vars
    <3>2. Lines' = Lines
      BY <2>1, SetUpKept DEF OutInv, vars
    <3>3. (Between(out)' <=> Between(out)) /\ (Streaming' <=> Streaming)
      BY <2>1 DEF Between, Ready, Fits, ToStderr, ToStdout, Streaming, vars
    <3>4. RunInv'
      BY <2>1, <3>2, <3>3 DEF OutInv, RunInv, Running, All, vars
    <3>5. InOrder' /\ NothingHeldBack' /\ SuccessMeansWritten' /\ QuietOnBrokenPipe'
      BY <2>1, <3>2, <3>3
         DEF OutInv, InOrder, NothingHeldBack, SuccessMeansWritten, QuietOnBrokenPipe,
             Refused, vars
    <3> QED
      BY <3>1, <3>4, <3>5 DEF OutInv
  <2>2. CASE ListSyscalls
    BY <2>2, ListKeeps
  <2>3. CASE BuildFilter
    BY <2>3, BuildKeeps
  <2>4. CASE OpenOutput
    BY <2>4, OpenKeeps
  <2>5. CASE Event
    BY <2>5, SyscallKeeps, OthersKeep DEF Event
  <2>6. CASE TracerFails
    BY <2>6, FailsKeeps
  <2>7. CASE Finish
    BY <2>7, FinishKeeps
  <2> QED
    BY <2>1, <2>2, <2>3, <2>4, <2>5, <2>6, <2>7 DEF Next, Stutter
<1> QED
  BY <1>1, <1>2, PTL DEF Spec

\* The lines of the wanted events are on the device and in the buffer, in the order
\* of the events, each once; on a device that has refused, the beginning of that
\* (TextSink, JsonSink, BufWriter, LineWriter, run).
THEOREM InOrderHolds == Spec => []InOrder
<1>1. OutInv => InOrder
  BY DEF OutInv
<1> QED
  BY <1>1, OutputInvariance, PTL

\* Whatever ended the run, all lines are on a device that has not refused any: what
\* is dropped is flushed (run, where `?` returns).
THEOREM NothingHeldBackHolds == Spec => []NothingHeldBack
<1>1. OutInv => NothingHeldBack
  BY DEF OutInv
<1> QED
  BY <1>1, OutputInvariance, PTL

\* A run that ends well has written all it had to stdout or stderr, the lines or the
\* table (open_output, SummarySink::finish).
THEOREM SuccessMeansWrittenHolds == Spec => []SuccessMeansWritten
<1>1. OutInv => SuccessMeansWritten
  BY DEF OutInv
<1> QED
  BY <1>1, OutputInvariance, PTL

\* The exit code is 0 after an error of the device exactly if that was a reader gone
\* away and JsonSink has not hidden it (main, is_broken_pipe).
THEOREM QuietOnBrokenPipeHolds == Spec => []QuietOnBrokenPipe
<1>1. OutInv => QuietOnBrokenPipe
  BY DEF OutInv
<1> QED
  BY <1>1, OutputInvariance, PTL

-----------------------------------------------------------------------------
(* Sums.                                                                   *)

\* The sums of the first 0, 1, ... numbers of a sequence.
SumsTo(s) ==
    CHOOSE f : f = [n \in 0..Len(s) |-> IF n = 0 THEN 0 ELSE f[n - 1] + s[n]]

\* SumsTo is what its definition says.
LEMMA SumsToIs ==
    ASSUME NEW s \in Seq(Nat)
    PROVE  /\ SumsTo(s) \in [0..Len(s) -> Nat]
           /\ SumsTo(s)[0] = 0
           /\ \A i \in 1..Len(s) : SumsTo(s)[i] = SumsTo(s)[i - 1] + s[i]
           /\ SumOf(s) = SumsTo(s)[Len(s)] /\ SumOf(s) \in Nat
<1> DEFINE n == Len(s)
           b == 0
           step(x, i) == x + s[i]
           g == [i \in 1..n |-> [x \in Nat |-> step(x, i)]]
           Is(f) == f = [i \in 0..n |-> IF i = 0 THEN b ELSE step(f[i - 1], i)]
           u == SumsTo(s)
<1>1. n \in Nat /\ \A i \in 1..n : s[i] \in Nat
  BY LenProperties, ElementOfSeq
<1>2. \A i \in 1..n : \A x \in Nat : step(x, i) \in Nat
  BY <1>1
<1>3. u = CHOOSE f : Is(f)
  BY DEF SumsTo
<1>4. SumOf(s) = u[n]
  BY DEF SumOf, SumsTo
<1>5. b \in Nat
  OBVIOUS
<1> HIDE DEF n, b, step, u
<1>6. Steps(g, n, Nat)
  BY <1>2 DEF Steps
<1>7. PICK f : Comes(f, n, Nat, b, g)
  <2> HIDE DEF g
  <2> QED
    BY <1>1, <1>5, <1>6, Recursion
<1>8. Is(f)
  <2>1. ASSUME NEW i \in 0..n
        PROVE  f[i] = IF i = 0 THEN b ELSE step(f[i - 1], i)
    <3>1. CASE i = 0
      BY <1>7, <3>1 DEF Comes
    <3>2. CASE i # 0
      <4>1. i \in 1..n /\ f[i - 1] \in Nat
        BY <1>1, <1>7, <3>2 DEF Comes
      <4>2. g[i][f[i - 1]] = step(f[i - 1], i)
        BY <4>1
      <4> HIDE DEF g
      <4> QED
        BY <1>7, <3>2, <4>1, <4>2 DEF Comes
    <3> QED
      BY <3>1, <3>2
  <2> QED
    BY <1>7, <2>1 DEF Comes
<1>9. Is(u)
  <2> HIDE DEF Is
  <2> QED
    BY <1>3, <1>8
<1>10. u[0] = b /\ \A i \in 1..n : u[i] = step(u[i - 1], i)
  <2>1. ASSUME NEW i \in 0..n
        PROVE  u[i] = IF i = 0 THEN b ELSE step(u[i - 1], i)
    BY <1>9
  <2> QED
    BY <1>1, <2>1
<1>11. \A i \in 0..n : u[i] \in Nat
  <2> DEFINE T == {i \in 0..n : u[i] \in Nat}
  <2>1. 0 \in T
    BY <1>1, <1>5, <1>10
  <2>2. ASSUME NEW i \in 1..n, i - 1 \in T
        PROVE  i \in T
    <3>1. u[i - 1] \in Nat /\ u[i] = step(u[i - 1], i)
      BY <1>10, <2>2
    <3>2. u[i] \in Nat
      BY <1>2, <3>1
    <3> QED
      BY <3>2
  <2> HIDE DEF T
  <2>3. \A i \in 0..n : i \in T
    BY <1>1, <2>1, <2>2, UpTo
  <2> QED
    BY <2>3 DEF T
<1>12. DOMAIN u = 0..n /\ u = [i \in DOMAIN u |-> u[i]]
  BY <1>9
<1>13. u \in [0..n -> Nat] /\ u[n] \in Nat
  BY <1>1, <1>11, <1>12
<1> QED
  BY <1>4, <1>10, <1>13 DEF n, b, step, u

\* The sum of one number more.
LEMMA SumOfAppend ==
    ASSUME NEW s \in Seq(Nat), NEW x \in Nat
    PROVE  SumOf(Append(s, x)) = SumOf(s) + x
<1> DEFINE t == Append(s, x)
           n == Len(s)
           u == SumsTo(s)
           v == SumsTo(t)
           T == {i \in 0..n : u[i] = v[i]}
<1>1. /\ n \in Nat /\ t \in Seq(Nat) /\ Len(t) = n + 1 /\ t[n + 1] = x
      /\ \A i \in 1..n : t[i] = s[i]
  BY AppendProperties, LenProperties
<1> HIDE DEF t
<1>2. u[0] = 0 /\ SumOf(s) = u[n] /\ \A i \in 1..n : u[i] = u[i - 1] + s[i]
  BY SumsToIs
<1>3. v[0] = 0 /\ SumOf(t) = v[n + 1] /\ \A i \in 1..(n + 1) : v[i] = v[i - 1] + t[i]
  BY <1>1, SumsToIs
<1> HIDE DEF u, v, n
<1>4. 0 \in T
  BY <1>1, <1>2, <1>3
<1>5. ASSUME NEW i \in 1..n, i - 1 \in T
      PROVE  i \in T
  <2>1. u[i - 1] = v[i - 1] /\ i \in 1..(n + 1) /\ t[i] = s[i]
    BY <1>1, <1>5
  <2>2. u[i] = v[i]
    BY <1>2, <1>3, <2>1
  <2> QED
    BY <2>2
<1> HIDE DEF T
<1>6. \A i \in 0..n : i \in T
  BY <1>1, <1>4, <1>5, UpTo
<1>7. u[n] = v[n]
  BY <1>1, <1>6 DEF T
<1>8. v[n + 1] = v[(n + 1) - 1] + t[n + 1] /\ (n + 1) - 1 = n
  BY <1>1, <1>3
<1> QED
  BY <1>1, <1>2, <1>3, <1>7, <1>8 DEF t

\* The sum of sums.
LEMMA SumOfBoth ==
    ASSUME NEW r \in Seq(Nat), NEW s \in Seq(Nat), NEW t \in Seq(Nat),
           Len(s) = Len(r), Len(t) = Len(r), \A i \in 1..Len(r) : r[i] = s[i] + t[i]
    PROVE  SumOf(r) = SumOf(s) + SumOf(t)
<1> DEFINE n == Len(r)
           u == SumsTo(r)
           v == SumsTo(s)
           w == SumsTo(t)
           T == {i \in 0..n : u[i] = v[i] + w[i]}
<1>1. n \in Nat /\ \A i \in 1..n : s[i] \in Nat /\ t[i] \in Nat
  BY LenProperties, ElementOfSeq
<1>2. u[0] = 0 /\ SumOf(r) = u[n] /\ \A i \in 1..n : u[i] = u[i - 1] + r[i]
  BY SumsToIs
<1>3. v[0] = 0 /\ SumOf(s) = v[n] /\ \A i \in 1..n : v[i] = v[i - 1] + s[i]
  BY SumsToIs
<1>4. w[0] = 0 /\ SumOf(t) = w[n] /\ \A i \in 1..n : w[i] = w[i - 1] + t[i]
  BY SumsToIs
<1>5. \A i \in 0..n : v[i] \in Nat /\ w[i] \in Nat
  BY SumsToIs
<1>6. \A i \in 1..n : r[i] = s[i] + t[i]
  OBVIOUS
<1> HIDE DEF u, v, w, n
<1>7. 0 \in T
  BY <1>1, <1>2, <1>3, <1>4
<1>8. ASSUME NEW i \in 1..n, i - 1 \in T
      PROVE  i \in T
  <2>1. u[i - 1] = v[i - 1] + w[i - 1] /\ i - 1 \in 0..n
    BY <1>1, <1>8
  <2>2. v[i - 1] \in Nat /\ w[i - 1] \in Nat /\ s[i] \in Nat /\ t[i] \in Nat
    BY <1>1, <1>5, <2>1
  <2>3. /\ u[i] = u[i - 1] + r[i] /\ v[i] = v[i - 1] + s[i] /\ w[i] = w[i - 1] + t[i]
        /\ r[i] = s[i] + t[i]
    BY <1>2, <1>3, <1>4, <1>6
  <2> DEFINE a == v[i - 1]
             b == w[i - 1]
             c == s[i]
             d == t[i]
  <2>4. a \in Nat /\ b \in Nat /\ c \in Nat /\ d \in Nat
    BY <2>2
  <2>5. u[i] = (a + b) + (c + d) /\ v[i] + w[i] = (a + c) + (b + d)
    BY <2>1, <2>3, Zenon
  <2> HIDE DEF a, b, c, d
  <2>6. u[i] = v[i] + w[i]
    BY <2>4, <2>5
  <2> QED
    BY <2>6
<1> HIDE DEF T
<1>9. \A i \in 0..n : i \in T
  BY <1>1, <1>7, <1>8, UpTo
<1> QED
  BY <1>1, <1>2, <1>3, <1>4, <1>9 DEF T

\* A measure of the subsets of D, and how s measures the parts of U.
Additive(mu, D) ==
    /\ mu \in [SUBSET D -> Nat] /\ mu[{}] = 0
    /\ \A A, B \in SUBSET D : A \cap B = {} => mu[A \cup B] = mu[A] + mu[B]
Measures(s, mu, D, m, part, U) ==
    /\ Additive(mu, D)
    /\ part \in [1..m -> SUBSET D]
    /\ \A i, j \in 1..m : i # j => part[i] \cap part[j] = {}
    /\ DOMAIN s = 1..m /\ s = [i \in DOMAIN s |-> s[i]]
    /\ \A i \in 1..m : s[i] = mu[part[i]]
    /\ \A x : x \in U <=> \E i \in 1..m : x \in part[i]

\* The measure of a whole is the sum of those of its parts, if no two have anything
\* in common.
LEMMA SumOfParts ==
    ASSUME NEW D, NEW mu, NEW m \in Nat, NEW part, NEW s, NEW U,
           Measures(s, mu, D, m, part, U)
    PROVE  SumOf(s) = mu[U]
<1> USE DEF Measures
<1> DEFINE f == SumsTo(s)
           whole(k) == UNION {part[i] : i \in 1..k}
           T == {k \in 0..m : f[k] = mu[whole(k)]}
<1>1. s \in Seq(Nat) /\ Len(s) = m /\ \A i \in 1..m : s[i] = mu[part[i]]
  <2>1. \A i \in 1..m : mu[part[i]] \in Nat
    BY DEF Additive
  <2> QED
    BY <2>1
<1>2. f[0] = 0 /\ SumOf(s) = f[m] /\ \A i \in 1..m : f[i] = f[i - 1] + s[i]
  BY <1>1, SumsToIs
<1> HIDE DEF f
<1>3. 0 \in T
  <2>1. whole(0) = {}
    OBVIOUS
  <2> HIDE DEF whole
  <2> QED
    BY <1>2, <2>1 DEF Additive
<1>4. ASSUME NEW k \in 1..m, k - 1 \in T
      PROVE  k \in T
  <2>1. whole(k) = whole(k - 1) \cup part[k]
    <3>1. 1..k = (1..(k - 1)) \cup {k}
      OBVIOUS
    <3> QED
      BY <3>1
  <2>2. whole(k - 1) \cap part[k] = {}
    <3>1. \A i \in 1..(k - 1) : i \in 1..m /\ i # k
      OBVIOUS
    <3> QED
      BY <3>1
  <2>3. whole(k - 1) \in SUBSET D /\ part[k] \in SUBSET D
    <3>1. \A i \in 1..(k - 1) : i \in 1..m
      OBVIOUS
    <3> QED
      BY <3>1
  <2>4. f[k - 1] = mu[whole(k - 1)]
    BY <1>4
  <2> HIDE DEF whole
  <2>5. mu[whole(k)] = mu[whole(k - 1)] + mu[part[k]]
    BY <2>1, <2>2, <2>3 DEF Additive
  <2> QED
    BY <1>1, <1>2, <2>4, <2>5
<1> HIDE DEF T
<1>5. \A i \in 0..m : i \in T
  BY <1>3, <1>4, UpTo
<1>6. f[m] = mu[whole(m)]
  <2>1. m \in T
    BY <1>5
  <2> HIDE DEF whole
  <2> QED
    BY <2>1 DEF T
<1>7. whole(m) = U
  <2>1. \A x : x \in whole(m) <=> \E i \in 1..m : x \in part[i]
    OBVIOUS
  <2> HIDE DEF whole
  <2> QED
    BY <2>1
<1> HIDE DEF whole
<1> QED
  BY <1>2, <1>6, <1>7

-----------------------------------------------------------------------------
(* What the summary keeps.                                                 *)

\* The operators of SummaryRight for the events m of which those in W are wanted.
CallsIn(W, m, name) == {i \in DOMAIN m : /\ m[i].kind = "syscall" /\ m[i].name = name
                                         /\ m[i] \in W}
FailedIn(W, m, name) == {i \in CallsIn(W, m, name) : m[i].failed}
Times(m, set) == [i \in DOMAIN m |-> IF i \in set THEN m[i].duration_ns ELSE 0]
TimeIn(m, set) == SumOf(Times(m, set))
NamesIn(W, m) == {name \in ToSet(Names) : CallsIn(W, m, name) # {}}

\* What SummarySink has to have of a name, and that it has this of all names.
StatIn(W, m, name) == [calls |-> Cardinality(CallsIn(W, m, name)),
                       errors |-> Cardinality(FailedIn(W, m, name)),
                       total_ns |-> TimeIn(m, CallsIn(W, m, name))]
StatsRight(W, m, st) == /\ DOMAIN st = NamesIn(W, m)
                        /\ \A name \in DOMAIN st : st[name] = StatIn(W, m, name)

\* Where the calls are.
Syscalls(m) == {i \in DOMAIN m : m[i].kind = "syscall"}

\* An event is a call if it says so.
LEMMA SyscallsAre ==
    ASSUME NEW m \in Seq(Events)
    PROVE  /\ IsFiniteSet(Syscalls(m)) /\ DOMAIN m = 1..Len(m) /\ Len(m) \in Nat
           /\ \A i \in Syscalls(m) : m[i] \in Calls /\ m[i].duration_ns \in Nat
           /\ \A W, name : /\ CallsIn(W, m, name) \in SUBSET Syscalls(m)
                           /\ FailedIn(W, m, name) \in SUBSET Syscalls(m)
                           /\ IsFiniteSet(CallsIn(W, m, name))
                           /\ IsFiniteSet(FailedIn(W, m, name))
<1>1. DOMAIN m = 1..Len(m) /\ Len(m) \in Nat /\ \A i \in DOMAIN m : m[i] \in Events
  BY LenProperties, ElementOfSeq
<1>2. IsFiniteSet(1..Len(m))
  BY <1>1, FS_Interval
<1>3. Syscalls(m) \in SUBSET (1..Len(m))
  BY <1>1 DEF Syscalls
<1>4. IsFiniteSet(Syscalls(m))
  BY <1>2, <1>3, FS_Subset
<1>5. ASSUME NEW i \in Syscalls(m)
      PROVE  m[i] \in Calls /\ m[i].duration_ns \in Nat
  <2>1. m[i] \in Events /\ m[i].kind = "syscall"
    BY <1>1 DEF Syscalls
  <2>2. m[i] \in Calls
    BY <2>1 DEF Events
  <2> QED
    BY <2>2, OutputAssumption
<1>6. ASSUME NEW W, NEW name
      PROVE  /\ CallsIn(W, m, name) \in SUBSET Syscalls(m)
             /\ FailedIn(W, m, name) \in SUBSET Syscalls(m)
             /\ IsFiniteSet(CallsIn(W, m, name))
             /\ IsFiniteSet(FailedIn(W, m, name))
  <2>1. CallsIn(W, m, name) \in SUBSET Syscalls(m) /\ FailedIn(W, m, name) \in SUBSET Syscalls(m)
    BY DEF CallsIn, FailedIn, Syscalls
  <2> QED
    BY <1>4, <2>1, FS_Subset
<1> QED
  BY <1>1, <1>4, <1>5, <1>6

\* The time of a set of calls is a sum of numbers.
LEMMA TimesAre ==
    ASSUME NEW m \in Seq(Events), NEW A \in SUBSET Syscalls(m)
    PROVE  /\ Times(m, A) \in Seq(Nat) /\ Len(Times(m, A)) = Len(m)
           /\ \A i \in 1..Len(m) :
                 Times(m, A)[i] = IF i \in A THEN m[i].duration_ns ELSE 0
           /\ TimeIn(m, A) \in Nat
<1>1. /\ DOMAIN m = 1..Len(m) /\ Len(m) \in Nat
      /\ \A i \in A : m[i].duration_ns \in Nat
  BY SyscallsAre
<1> DEFINE t == Times(m, A)
<1>2. t = [i \in 1..Len(m) |-> IF i \in A THEN m[i].duration_ns ELSE 0]
  BY <1>1 DEF Times
<1>3. t \in Seq(Nat) /\ Len(t) = Len(m)
  BY <1>1, <1>2
<1>4. TimeIn(m, A) = SumOf(t)
  BY DEF TimeIn
<1>5. \A i \in 1..Len(m) : t[i] = IF i \in A THEN m[i].duration_ns ELSE 0
  BY <1>2
<1> HIDE DEF t
<1>6. SumOf(t) \in Nat
  BY <1>3, SumsToIs
<1> QED
  BY <1>3, <1>4, <1>5, <1>6 DEF t

\* Time adds up.
LEMMA TimeAdds ==
    ASSUME NEW m \in Seq(Events)
    PROVE  /\ TimeIn(m, {}) = 0
           /\ \A A, B \in SUBSET Syscalls(m) :
                 A \cap B = {} => TimeIn(m, A \cup B) = TimeIn(m, A) + TimeIn(m, B)
<1>1. ASSUME NEW A \in SUBSET Syscalls(m), NEW B \in SUBSET Syscalls(m), A \cap B = {}
      PROVE  TimeIn(m, A \cup B) = TimeIn(m, A) + TimeIn(m, B)
  <2> DEFINE C == A \cup B
             r == Times(m, C)
             s == Times(m, A)
             t == Times(m, B)
  <2>1. C \in SUBSET Syscalls(m)
    OBVIOUS
  <2>2. /\ s \in Seq(Nat) /\ Len(s) = Len(m)
        /\ \A i \in 1..Len(m) : s[i] = IF i \in A THEN m[i].duration_ns ELSE 0
    BY TimesAre
  <2>3. /\ t \in Seq(Nat) /\ Len(t) = Len(m)
        /\ \A i \in 1..Len(m) : t[i] = IF i \in B THEN m[i].duration_ns ELSE 0
    BY TimesAre
  <2>4. \A i \in 1..Len(m) : i \in C <=> i \in A \/ i \in B
    OBVIOUS
  <2>5. \A i \in C : m[i].duration_ns \in Nat
    BY <2>1, SyscallsAre
  <2> HIDE DEF C
  <2>6. /\ r \in Seq(Nat) /\ Len(r) = Len(m)
        /\ \A i \in 1..Len(m) : r[i] = IF i \in C THEN m[i].duration_ns ELSE 0
    BY <2>1, TimesAre
  <2> HIDE DEF r, s, t
  <2>7. ASSUME NEW i \in 1..Len(r)
        PROVE  r[i] = s[i] + t[i]
    <3> DEFINE d == m[i].duration_ns
    <3>1. i \in 1..Len(m) /\ (i \in C => d \in Nat)
      BY <2>5, <2>6
    <3>2. /\ r[i] = IF i \in C THEN d ELSE 0
          /\ s[i] = IF i \in A THEN d ELSE 0
          /\ t[i] = IF i \in B THEN d ELSE 0
          /\ i \in C <=> i \in A \/ i \in B
          /\ ~(i \in A /\ i \in B)
      BY <1>1, <2>2, <2>3, <2>4, <2>6, <3>1
    <3> HIDE DEF d
    <3> QED
      BY <3>1, <3>2
  <2>8. SumOf(r) = SumOf(s) + SumOf(t)
    BY <2>2, <2>3, <2>6, <2>7, SumOfBoth
  <2> QED
    BY <2>8 DEF TimeIn, r, s, t, C
<1>2. TimeIn(m, {}) = 0
  <2> DEFINE e == {}
  <2>1. e \in SUBSET Syscalls(m) /\ e \cap e = {} /\ e \cup e = e
    OBVIOUS
  <2> HIDE DEF e
  <2>2. TimeIn(m, e) \in Nat
    BY <2>1, TimesAre
  <2>3. TimeIn(m, e \cup e) = TimeIn(m, e) + TimeIn(m, e)
    BY <1>1, <2>1
  <2> DEFINE z == TimeIn(m, e)
  <2>4. z = z + z /\ z \in Nat
    BY <2>1, <2>2, <2>3, Zenon
  <2> HIDE DEF z
  <2>5. z = 0
    BY <2>4
  <2> QED
    BY <2>5 DEF e, z
<1> QED
  BY <1>1, <1>2

\* With an event more, the calls there were take the time they took.
LEMMA TimeGrows ==
    ASSUME NEW m \in Seq(Events), NEW x \in Events, NEW A \in SUBSET Syscalls(m)
    PROVE  /\ TimeIn(Append(m, x), A) = TimeIn(m, A)
           /\ x \in Calls =>
                 TimeIn(Append(m, x), A \cup {Len(m) + 1}) = TimeIn(m, A) + x.duration_ns
<1> DEFINE M == Append(m, x)
           n == Len(m)
           B == A \cup {n + 1}
           t == Times(m, A)
<1>1. /\ n \in Nat /\ M \in Seq(Events) /\ Len(M) = n + 1 /\ M[n + 1] = x
      /\ \A i \in 1..n : M[i] = m[i]
      /\ DOMAIN M = 1..(n + 1)
  BY AppendProperties, LenProperties
<1>2. /\ t \in Seq(Nat) /\ Len(t) = n
      /\ \A i \in 1..n : t[i] = IF i \in A THEN m[i].duration_ns ELSE 0
  BY TimesAre
<1>3. A \subseteq 1..n /\ n + 1 \notin A
  <2>1. A \subseteq 1..n
    BY SyscallsAre DEF Syscalls
  <2> QED
    BY <1>1, <2>1
<1>4. A \in SUBSET Syscalls(M)
  BY <1>1, <1>3 DEF Syscalls
<1> HIDE DEF M, n, t
<1>5. ASSUME NEW S \in SUBSET Syscalls(M), NEW d \in Nat, \A i \in 1..n : i \in S <=> i \in A,
             d = IF n + 1 \in S THEN x.duration_ns ELSE 0
      PROVE  TimeIn(M, S) = TimeIn(m, A) + d
  <2> DEFINE u == Times(M, S)
             v == Append(t, d)
  <2>1. /\ u \in Seq(Nat) /\ Len(u) = n + 1
        /\ \A i \in 1..(n + 1) : u[i] = IF i \in S THEN M[i].duration_ns ELSE 0
    <3>1. /\ u \in Seq(Nat) /\ Len(u) = Len(M)
          /\ \A i \in 1..Len(M) : u[i] = IF i \in S THEN M[i].duration_ns ELSE 0
      BY <1>1, TimesAre
    <3> QED
      BY <1>1, <3>1
  <2>2. /\ v \in Seq(Nat) /\ Len(v) = n + 1 /\ v[n + 1] = d
        /\ \A i \in 1..n : v[i] = t[i]
    BY <1>2, AppendProperties
  <2>3. SumOf(v) = SumOf(t) + d
    BY <1>2, SumOfAppend
  <2>4. TimeIn(M, S) = SumOf(u) /\ TimeIn(m, A) = SumOf(t)
    BY DEF TimeIn, t
  <2> HIDE DEF u, v
  <2>5. ASSUME NEW i \in 1..(n + 1)
        PROVE  u[i] = v[i]
    <3>1. CASE i = n + 1
      BY <1>1, <1>5, <2>1, <2>2, <3>1
    <3>2. CASE i # n + 1
      <4>1. i \in 1..n
        BY <1>1, <3>2
      <4> QED
        BY <1>1, <1>2, <1>5, <2>1, <2>2, <4>1
    <3> QED
      BY <3>1, <3>2
  <2>6. u = v
    BY <2>1, <2>2, <2>5, SeqEqual
  <2> QED
    BY <2>3, <2>4, <2>6
<1>6. TimeIn(M, A) = TimeIn(m, A)
  <2>1. TimeIn(M, A) = TimeIn(m, A) + 0
    BY <1>3, <1>4, <1>5
  <2>2. TimeIn(m, A) \in Nat
    BY TimesAre
  <2> QED
    BY <2>1, <2>2
<1>7. ASSUME x \in Calls
      PROVE  TimeIn(M, B) = TimeIn(m, A) + x.duration_ns
  <2>1. x.duration_ns \in Nat /\ x.kind = "syscall"
    BY <1>7, OutputAssumption, CallsAssumption
  <2>2. B \in SUBSET Syscalls(M)
    <3>1. n + 1 \in Syscalls(M)
      BY <1>1, <2>1 DEF Syscalls
    <3> QED
      BY <1>4, <3>1
  <2>3. (\A i \in 1..n : i \in B <=> i \in A) /\ n + 1 \in B
    BY <1>1
  <2> HIDE DEF B
  <2> QED
    BY <1>5, <2>1, <2>2, <2>3
<1> QED
  BY <1>6, <1>7 DEF M, n, B

\* The calls of a name when there is an event more.
LEMMA CallsGrow ==
    ASSUME NEW m \in Seq(Events), NEW x \in Events, NEW W, NEW name
    PROVE  LET N == Len(m) + 1
               counts == x.kind = "syscall" /\ x.name = name /\ x \in W
           IN /\ counts =>
                    /\ CallsIn(W, Append(m, x), name) = CallsIn(W, m, name) \cup {N}
                    /\ FailedIn(W, Append(m, x), name)
                          = FailedIn(W, m, name) \cup {i \in {N} : x.failed}
              /\ ~counts =>
                    /\ CallsIn(W, Append(m, x), name) = CallsIn(W, m, name)
                    /\ FailedIn(W, Append(m, x), name) = FailedIn(W, m, name)
              /\ N \notin CallsIn(W, m, name) /\ N \notin FailedIn(W, m, name)
<1> DEFINE M == Append(m, x)
           n == Len(m)
           counts == x.kind = "syscall" /\ x.name = name /\ x \in W
<1>1. /\ n \in Nat /\ M[n + 1] = x /\ \A i \in 1..n : M[i] = m[i]
      /\ DOMAIN M = 1..(n + 1) /\ DOMAIN m = 1..n
  BY AppendProperties, LenProperties
<1> HIDE DEF M, n
<1>2. \A i : i \in 1..(n + 1) <=> i \in 1..n \/ i = n + 1
  BY <1>1
<1>3. n + 1 \notin 1..n
  BY <1>1
<1>4. ASSUME NEW i \in 1..n
      PROVE  i \in CallsIn(W, M, name) <=> i \in CallsIn(W, m, name)
  BY <1>1, <1>2 DEF CallsIn
<1>5. n + 1 \in CallsIn(W, M, name) <=> counts
  BY <1>1, <1>2 DEF CallsIn
<1>6. /\ \A i \in CallsIn(W, M, name) : i \in 1..n \/ i = n + 1
      /\ \A i \in CallsIn(W, m, name) : i \in 1..n
  BY <1>1, <1>2 DEF CallsIn
<1>7. n + 1 \notin CallsIn(W, m, name) /\ n + 1 \notin FailedIn(W, m, name)
  BY <1>3, <1>6 DEF FailedIn
<1>8. ASSUME counts
      PROVE  /\ CallsIn(W, M, name) = CallsIn(W, m, name) \cup {n + 1}
             /\ FailedIn(W, M, name)
                   = FailedIn(W, m, name) \cup {i \in {n + 1} : x.failed}
  <2>1. CallsIn(W, M, name) = CallsIn(W, m, name) \cup {n + 1}
    BY <1>4, <1>5, <1>6, <1>8
  <2>2. \A i : i \in FailedIn(W, M, name) <=>
                  i \in FailedIn(W, m, name) \/ (i = n + 1 /\ x.failed)
    BY <1>1, <1>6, <1>7, <2>1 DEF FailedIn
  <2> QED
    BY <2>1, <2>2
<1>9. ASSUME ~counts
      PROVE  /\ CallsIn(W, M, name) = CallsIn(W, m, name)
             /\ FailedIn(W, M, name) = FailedIn(W, m, name)
  <2>1. CallsIn(W, M, name) = CallsIn(W, m, name)
    BY <1>4, <1>5, <1>6, <1>9
  <2>2. \A i : i \in FailedIn(W, M, name) <=> i \in FailedIn(W, m, name)
    BY <1>1, <1>6, <2>1 DEF FailedIn
  <2> QED
    BY <2>1, <2>2
<1> QED
  BY <1>7, <1>8, <1>9 DEF M, n

\* What is due to a name when there is an event more.
LEMMA StatGrows ==
    ASSUME NEW m \in Seq(Events), NEW x \in Events, NEW W, NEW name
    PROVE  /\ x \in Calls /\ x.name = name /\ x \in W =>
                 /\ StatIn(W, Append(m, x), name) = Counted(StatIn(W, m, name), x)
                 /\ CallsIn(W, Append(m, x), name) # {}
           /\ ~(x.kind = "syscall" /\ x.name = name /\ x \in W) =>
                 /\ StatIn(W, Append(m, x), name) = StatIn(W, m, name)
                 /\ CallsIn(W, Append(m, x), name) = CallsIn(W, m, name)
<1> DEFINE M == Append(m, x)
           N == Len(m) + 1
           A == CallsIn(W, m, name)
           F == FailedIn(W, m, name)
<1>1. A \in SUBSET Syscalls(m) /\ IsFiniteSet(A) /\ IsFiniteSet(F)
  BY SyscallsAre
<1>2. N \notin A /\ N \notin F
  BY CallsGrow
<1>3. Cardinality(F) \in Nat
  BY <1>1, FS_CardinalityType
<1>4. ASSUME x \in Calls, x.name = name, x \in W
      PROVE  StatIn(W, M, name) = Counted(StatIn(W, m, name), x) /\ CallsIn(W, M, name) # {}
  <2>1. x.kind = "syscall" /\ x.failed \in BOOLEAN
    BY <1>4, OutputAssumption, CallsAssumption
  <2>2. CallsIn(W, M, name) = A \cup {N}
    BY <1>4, <2>1, CallsGrow
  <2>3. FailedIn(W, M, name) = F \cup {i \in {N} : x.failed}
    BY <1>4, <2>1, CallsGrow
  <2>4. TimeIn(M, A \cup {N}) = TimeIn(m, A) + x.duration_ns
    BY <1>1, <1>4, TimeGrows
  <2> HIDE DEF A, F, M, N
  <2>5. Cardinality(A \cup {N}) = Cardinality(A) + 1
    BY <1>1, <1>2, FS_AddElement
  <2>6. Cardinality(FailedIn(W, M, name)) = Cardinality(F) + (IF x.failed THEN 1 ELSE 0)
    <3>1. Cardinality(F \cup {N}) = Cardinality(F) + 1
      BY <1>1, <1>2, FS_AddElement
    <3>2. CASE x.failed
      <4>1. FailedIn(W, M, name) = F \cup {N}
        BY <2>3, <3>2
      <4> QED
        BY <3>1, <3>2, <4>1
    <3>3. CASE ~x.failed
      <4>1. FailedIn(W, M, name) = F
        BY <2>3, <3>3
      <4> QED
        BY <1>3, <3>3, <4>1
    <3> QED
      BY <3>2, <3>3
  <2> QED
    BY <2>2, <2>4, <2>5, <2>6 DEF StatIn, Counted, A, F
<1>5. ASSUME ~(x.kind = "syscall" /\ x.name = name /\ x \in W)
      PROVE  StatIn(W, M, name) = StatIn(W, m, name) /\ CallsIn(W, M, name) = A
  <2>1. CallsIn(W, M, name) = A /\ FailedIn(W, M, name) = F
    BY <1>5, CallsGrow
  <2>2. TimeIn(M, A) = TimeIn(m, A)
    BY <1>1, TimeGrows
  <2> HIDE DEF A, F, M
  <2> QED
    BY <2>1, <2>2 DEF StatIn, A, F
<1> QED
  BY <1>4, <1>5

\* SummarySink::record keeps the statistics right.
LEMMA StatsGrow ==
    ASSUME NEW m \in Seq(Events), NEW x \in Events, NEW W, NEW st, StatsRight(W, m, st)
    PROVE  /\ x \in Calls /\ x \in W =>
                 StatsRight(W, Append(m, x),
                    [n \in DOMAIN st \cup {x.name} |->
                       IF n = x.name THEN Counted(IF n \in DOMAIN st THEN st[n] ELSE NoStat, x)
                       ELSE st[n]])
           /\ ~(x.kind = "syscall" /\ x \in W) => StatsRight(W, Append(m, x), st)
<1> DEFINE M == Append(m, x)
<1>1. DOMAIN st = NamesIn(W, m) /\ \A n \in DOMAIN st : st[n] = StatIn(W, m, n)
  BY DEF StatsRight
<1>2. ASSUME x \in Calls, x \in W
      PROVE  StatsRight(W, M,
                [n \in DOMAIN st \cup {x.name} |->
                   IF n = x.name THEN Counted(IF n \in DOMAIN st THEN st[n] ELSE NoStat, x)
                   ELSE st[n]])
  <2> DEFINE new == [n \in DOMAIN st \cup {x.name} |->
                       IF n = x.name THEN Counted(IF n \in DOMAIN st THEN st[n] ELSE NoStat, x)
                       ELSE st[n]]
  <2>1. x.kind = "syscall" /\ x.name \in ToSet(Names)
    BY <1>2, OutputAssumption, CallsAssumption
  <2>2. \A n : n # x.name => /\ StatIn(W, M, n) = StatIn(W, m, n)
                             /\ CallsIn(W, M, n) = CallsIn(W, m, n)
    BY StatGrows
  <2>3. /\ StatIn(W, M, x.name) = Counted(StatIn(W, m, x.name), x)
        /\ CallsIn(W, M, x.name) # {}
    BY <1>2, StatGrows
  <2> HIDE DEF M
  <2>4. NamesIn(W, M) = DOMAIN st \cup {x.name}
    BY <1>1, <2>1, <2>2, <2>3 DEF NamesIn
  <2>5. x.name \notin DOMAIN st => StatIn(W, m, x.name) = NoStat
    <3> SUFFICES ASSUME x.name \notin DOMAIN st
                 PROVE  StatIn(W, m, x.name) = NoStat
      OBVIOUS
    <3>1. CallsIn(W, m, x.name) = {}
      BY <1>1, <2>1 DEF NamesIn
    <3>2. FailedIn(W, m, x.name) = {}
      BY <3>1 DEF FailedIn
    <3> QED
      BY <3>1, <3>2, TimeAdds, FS_EmptySet DEF StatIn, NoStat
  <2>6. ASSUME NEW n \in DOMAIN st \cup {x.name}
        PROVE  new[n] = StatIn(W, M, n)
    <3>1. CASE n = x.name
      <4>1. (IF n \in DOMAIN st THEN st[n] ELSE NoStat) = StatIn(W, m, n)
        BY <1>1, <2>5, <3>1
      <4>2. new[n] = Counted(IF n \in DOMAIN st THEN st[n] ELSE NoStat, x)
        BY <3>1
      <4> QED
        BY <2>3, <3>1, <4>1, <4>2
    <3>2. CASE n # x.name
      BY <1>1, <2>2, <3>2
    <3> QED
      BY <3>1, <3>2
  <2>7. DOMAIN new = DOMAIN st \cup {x.name}
    OBVIOUS
  <2> HIDE DEF new
  <2>8. StatsRight(W, M, new)
    BY <2>4, <2>6, <2>7 DEF StatsRight
  <2> QED
    BY <2>8 DEF new
<1>3. ASSUME ~(x.kind = "syscall" /\ x \in W)
      PROVE  StatsRight(W, M, st)
  <2>1. \A n : StatIn(W, M, n) = StatIn(W, m, n) /\ CallsIn(W, M, n) = CallsIn(W, m, n)
    BY <1>3, StatGrows
  <2> HIDE DEF M
  <2>2. NamesIn(W, M) = NamesIn(W, m)
    BY <2>1 DEF NamesIn
  <2> QED
    BY <1>1, <2>1, <2>2 DEF StatsRight
<1> QED
  BY <1>2, <1>3

-----------------------------------------------------------------------------
(* The table of the summary.                                               *)

\* sort_by: every name is at one place, and the places are in the order.
LEMMA SortedIs ==
    ASSUME IsFiniteSet(DOMAIN stats), DOMAIN stats \subseteq ToSet(Names),
           \A n \in DOMAIN stats : stats[n].calls \in Nat /\ stats[n].total_ns \in Nat
    PROVE  /\ Cardinality(DOMAIN stats) \in Nat
           /\ Sorted \in [1..Cardinality(DOMAIN stats) -> DOMAIN stats]
           /\ \A n \in DOMAIN stats : \E i \in 1..Cardinality(DOMAIN stats) : Sorted[i] = n
           /\ \A i, j \in 1..Cardinality(DOMAIN stats) :
                 i < j => Before(Sorted[i], Sorted[j]) /\ Sorted[i] # Sorted[j]
<1> DEFINE D == DOMAIN stats
           c == Cardinality(D)
           at == [n \in D |-> Position(n)]
           below == [n \in D |-> {k \in D : Before(k, n)}]
<1>1. at \in [D -> Nat] /\ \A a, b \in D : at[a] = at[b] => a = b
  <2>1. Names \in Seq(STRING)
    BY OutputAssumption
  <2>2. DOMAIN Names = 1..Len(Names) /\ Len(Names) \in Nat
    BY <2>1, LenProperties
  <2>3. ASSUME NEW n \in D
        PROVE  Position(n) \in DOMAIN Names /\ Names[Position(n)] = n
    <3>1. \E i \in DOMAIN Names : Names[i] = n
      BY DEF ToSet
    <3> QED
      BY <3>1 DEF Position
  <2> QED
    BY <2>2, <2>3
<1>2. ASSUME NEW a \in D, NEW b \in D
      PROVE  Before(a, b) <=>
                \/ stats[a].total_ns > stats[b].total_ns
                \/ stats[a].total_ns = stats[b].total_ns /\ stats[a].calls > stats[b].calls
                \/ /\ stats[a].total_ns = stats[b].total_ns /\ stats[a].calls = stats[b].calls
                   /\ at[a] < at[b]
  BY DEF Before
<1> DEFINE ns == [n \in D |-> stats[n].total_ns]
           calls == [n \in D |-> stats[n].calls]
<1>3. ns \in [D -> Nat] /\ calls \in [D -> Nat]
  OBVIOUS
<1>4. ASSUME NEW a \in D, NEW b \in D
      PROVE  a \in below[b] <=>
                \/ ns[a] > ns[b]
                \/ ns[a] = ns[b] /\ calls[a] > calls[b]
                \/ ns[a] = ns[b] /\ calls[a] = calls[b] /\ at[a] < at[b]
  BY <1>2
<1>5. /\ \A n \in D : below[n] \subseteq D
      /\ \A n \in D : below[n] = {k \in D : Before(k, n)}
  OBVIOUS
<1>6. Sorted = [i \in 1..c |->
                  CHOOSE n \in D : Cardinality({k \in D : Before(k, n)}) = i - 1]
  BY DEF Sorted
<1> HIDE DEF D, c, at, below, ns, calls
<1>7. \A n \in D : n \notin below[n]
  BY <1>3, <1>1, <1>4
<1>8. \A a, b \in D : a # b => a \in below[b] \/ b \in below[a]
  <2> SUFFICES ASSUME NEW a \in D, NEW b \in D, a # b
               PROVE  a \in below[b] \/ b \in below[a]
    OBVIOUS
  <2>1. /\ ns[a] \in Nat /\ ns[b] \in Nat /\ calls[a] \in Nat /\ calls[b] \in Nat
        /\ at[a] \in Nat /\ at[b] \in Nat /\ at[a] # at[b]
    BY <1>1, <1>3
  <2> QED
    BY <1>4, <2>1
<1>9. \A a, b, d \in D : a \in below[b] /\ b \in below[d] => a \in below[d]
  <2> SUFFICES ASSUME NEW a \in D, NEW b \in D, NEW d \in D, a \in below[b], b \in below[d]
               PROVE  a \in below[d]
    OBVIOUS
  <2>1. /\ ns[a] \in Nat /\ ns[b] \in Nat /\ ns[d] \in Nat
        /\ calls[a] \in Nat /\ calls[b] \in Nat /\ calls[d] \in Nat
        /\ at[a] \in Nat /\ at[b] \in Nat /\ at[d] \in Nat
    BY <1>1, <1>3
  <2> QED
    BY <1>4, <2>1
<1>10. IsFiniteSet(D)
  BY DEF D
<1>11. /\ Cardinality(D) \in Nat
       /\ \A k \in 1..Cardinality(D) : \E i \in D : Cardinality(below[i]) = k - 1
       /\ \A i \in D : Cardinality(below[i]) + 1 \in 1..Cardinality(D)
       /\ \A i, j \in D : Cardinality(below[i]) < Cardinality(below[j]) => i \in below[j]
       /\ \A i, j \in D : Cardinality(below[i]) = Cardinality(below[j]) => i = j
  <2>1. \A i \in D : below[i] \subseteq D /\ i \notin below[i]
    BY <1>5, <1>7
  <2> QED
    BY <1>8, <1>9, <1>10, <2>1, Ranked
<1>12. ASSUME NEW i \in 1..c
       PROVE  Sorted[i] \in D /\ Cardinality(below[Sorted[i]]) = i - 1
  <2>1. Sorted[i] = CHOOSE n \in D : Cardinality({k \in D : Before(k, n)}) = i - 1
    BY <1>6
  <2>2. \E n \in D : Cardinality({k \in D : Before(k, n)}) = i - 1
    BY <1>5, <1>11 DEF c
  <2>3. Sorted[i] \in D /\ Cardinality({k \in D : Before(k, Sorted[i])}) = i - 1
    BY <2>1, <2>2
  <2> QED
    BY <1>5, <2>3
<1>13. Sorted \in [1..c -> D]
  BY <1>6, <1>12
<1>14. ASSUME NEW n \in D
       PROVE  \E i \in 1..c : Sorted[i] = n
  <2> DEFINE k == Cardinality(below[n])
  <2>1. k \in Nat
    <3>1. IsFiniteSet(below[n])
      BY <1>5, <1>10, FS_Subset
    <3> QED
      BY <3>1, FS_CardinalityType
  <2>2. k + 1 \in 1..c /\ (k + 1) - 1 = k
    BY <1>11, <2>1 DEF c
  <2> HIDE DEF k
  <2>3. Sorted[k + 1] \in D /\ Cardinality(below[Sorted[k + 1]]) = k
    BY <1>12, <2>2
  <2>4. Sorted[k + 1] = n
    BY <1>11, <2>3 DEF k
  <2> QED
    BY <2>2, <2>4
<1>15. ASSUME NEW i \in 1..c, NEW j \in 1..c, i < j
       PROVE  Before(Sorted[i], Sorted[j]) /\ Sorted[i] # Sorted[j]
  <2>1. /\ Sorted[i] \in D /\ Cardinality(below[Sorted[i]]) = i - 1
        /\ Sorted[j] \in D /\ Cardinality(below[Sorted[j]]) = j - 1
    BY <1>12
  <2>2. i - 1 < j - 1
    BY <1>15
  <2>3. Sorted[i] \in below[Sorted[j]]
    BY <1>11, <2>1, <2>2
  <2> QED
    BY <1>5, <1>7, <2>1, <2>3
<1> QED
  BY <1>11, <1>13, <1>14, <1>15 DEF c, D

\* A sequence without its first two and its last two elements.
LEMMA Middle ==
    ASSUME NEW P, NEW t \in Seq(P), NEW n \in Nat, Len(t) = 4 + n
    PROVE  /\ SubSeq(t, 3, Len(t) - 2) \in Seq(P) /\ Len(SubSeq(t, 3, Len(t) - 2)) = n
           /\ \A i \in 1..n : SubSeq(t, 3, Len(t) - 2)[i] = t[i + 2]
<1> DEFINE p == 3
           q == 2 + n
<1>1. \A i \in p..q : t[i] \in P
  <2>1. \A i \in p..q : i \in 1..Len(t)
    OBVIOUS
  <2> QED
    BY <2>1, ElementOfSeq
<1>2. p \in Int /\ q \in Int /\ q = Len(t) - 2
  OBVIOUS
<1> HIDE DEF p, q
<1>3. /\ SubSeq(t, p, q) \in Seq(P)
      /\ Len(SubSeq(t, p, q)) = IF p <= q THEN q - p + 1 ELSE 0
      /\ \A i \in 1..(q - p + 1) : SubSeq(t, p, q)[i] = t[p + i - 1]
  BY <1>1, <1>2, SubSeqProperties
<1>4. /\ q - p + 1 = n /\ (IF p <= q THEN q - p + 1 ELSE 0) = n
      /\ \A i \in 1..n : p + i - 1 = i + 2
  BY DEF p, q
<1>5. SubSeq(t, 3, Len(t) - 2) = SubSeq(t, p, q)
  BY <1>2 DEF p
<1> QED
  BY <1>3, <1>4, <1>5

\* The rows are what the table has between its first two and its last two lines.
LEMMA TableParts ==
    ASSUME NEW P, NEW rows \in Seq(P), NEW a \in P, NEW b \in P, NEW y \in P, NEW z \in P,
           NEW t, t = <<a, b>> \o rows \o <<y, z>>
    PROVE  SubSeq(t, 3, Len(t) - 2) = rows /\ t[Len(t)] = z
<1> DEFINE h == <<a, b>>
           e == <<y, z>>
           n == Len(rows)
           r == SubSeq(t, 3, Len(t) - 2)
<1>1. h \in Seq(P) /\ e \in Seq(P) /\ Len(h) = 2 /\ Len(e) = 2 /\ e[2] = z /\ n \in Nat
  BY LenProperties
<1>2. t = (h \o rows) \o e
  OBVIOUS
<1> HIDE DEF h, e
<1> DEFINE f == h \o rows
<1>3. /\ f \in Seq(P) /\ Len(f) = 2 + n
      /\ \A i \in 1..(2 + n) : f[i] = IF i <= 2 THEN h[i] ELSE rows[i - 2]
  <2>1. /\ h \o rows \in Seq(P) /\ Len(h \o rows) = Len(h) + Len(rows)
        /\ \A i \in 1..(Len(h) + Len(rows)) :
              (h \o rows)[i] = IF i <= Len(h) THEN h[i] ELSE rows[i - Len(h)]
    BY <1>1, ConcatProperties
  <2> QED
    BY <1>1, <2>1
<1>4. t = f \o e
  BY <1>2
<1> HIDE DEF f
<1>5. /\ t \in Seq(P) /\ Len(t) = 4 + n
      /\ \A i \in 1..(4 + n) : t[i] = IF i <= 2 + n THEN f[i] ELSE e[i - (2 + n)]
  <2>1. /\ f \o e \in Seq(P) /\ Len(f \o e) = Len(f) + Len(e)
        /\ \A i \in 1..(Len(f) + Len(e)) :
              (f \o e)[i] = IF i <= Len(f) THEN f[i] ELSE e[i - Len(f)]
    BY <1>1, <1>3, ConcatProperties
  <2>2. Len(f) + Len(e) = 4 + n
    BY <1>1, <1>3
  <2> QED
    BY <1>3, <1>4, <2>1, <2>2
<1> HIDE DEF n
<1>6. t[Len(t)] = z
  <2>1. 4 + n \in 1..(4 + n) /\ ~(4 + n <= 2 + n) /\ (4 + n) - (2 + n) = 2
    BY <1>1
  <2>2. t[4 + n] = e[(4 + n) - (2 + n)]
    BY <1>5, <2>1
  <2> QED
    BY <1>1, <1>5, <2>1, <2>2
<1>7. r \in Seq(P) /\ Len(r) = n /\ \A i \in 1..n : r[i] = t[i + 2]
  BY <1>1, <1>5, Middle
<1>8. ASSUME NEW i \in 1..n
      PROVE  r[i] = rows[i]
  <2>1. i + 2 \in 1..(4 + n) /\ i + 2 <= 2 + n /\ i + 2 \in 1..(2 + n)
        /\ ~(i + 2 <= 2) /\ (i + 2) - 2 = i
    BY <1>1
  <2>2. r[i] = t[i + 2] /\ t[i + 2] = f[i + 2] /\ f[i + 2] = rows[(i + 2) - 2]
    BY <1>3, <1>5, <1>7, <2>1
  <2> QED
    BY <2>1, <2>2
<1> HIDE DEF r
<1>9. r = rows
  BY <1>7, <1>8, SeqEqual DEF n
<1> QED
  BY <1>6, <1>9 DEF r

\* SummaryRight of a table t, for the events m of which those in W are wanted.
AllCalls(W, m, D) == UNION {CallsIn(W, m, n) : n \in D}
AllFailed(W, m, D) == UNION {FailedIn(W, m, n) : n \in D}
RowIn(m, name, set, failed) ==
    [name |-> name, calls |-> Cardinality(set), errors |-> Cardinality(failed),
     total_ns |-> TimeIn(m, set), nl |-> TRUE]
SummedUp(W, m, t) ==
    LET rows == SubSeq(t, 3, Len(t) - 2)
    IN /\ ToSet(rows) = {RowIn(m, n, CallsIn(W, m, n), FailedIn(W, m, n)) : n \in NamesIn(W, m)}
       /\ Len(rows) = Cardinality(NamesIn(W, m))
       /\ \A i, j \in DOMAIN rows : i < j =>
             \/ rows[i].total_ns > rows[j].total_ns
             \/ /\ rows[i].total_ns = rows[j].total_ns
                /\ \/ rows[i].calls > rows[j].calls
                   \/ /\ rows[i].calls = rows[j].calls
                      /\ Position(rows[i].name) < Position(rows[j].name)
       /\ t[Len(t)] = RowIn(m, "total", AllCalls(W, m, NamesIn(W, m)),
                            AllFailed(W, m, NamesIn(W, m)))

\* Counting adds up.
LEMMA CountAdds ==
    ASSUME NEW D, IsFiniteSet(D)
    PROVE  Additive([A \in SUBSET D |-> Cardinality(A)], D)
<1> DEFINE mu == [A \in SUBSET D |-> Cardinality(A)]
<1>1. \A A \in SUBSET D : IsFiniteSet(A) /\ Cardinality(A) \in Nat
  BY FS_Subset, FS_CardinalityType
<1>2. ASSUME NEW A \in SUBSET D, NEW B \in SUBSET D, A \cap B = {}
      PROVE  Cardinality(A \cup B) = Cardinality(A) + Cardinality(B)
  <2>1. Cardinality(A \cup B) = Cardinality(A) + Cardinality(B) - Cardinality(A \cap B)
    BY <1>1, FS_Union
  <2>2. Cardinality(A \cap B) = 0
    BY <1>2, FS_EmptySet
  <2>3. Cardinality(A) \in Nat /\ Cardinality(B) \in Nat
    BY <1>1
  <2> QED
    BY <2>1, <2>2, <2>3
<1>3. mu \in [SUBSET D -> Nat] /\ mu[{}] = 0
  BY <1>1, FS_EmptySet
<1>4. \A A, B \in SUBSET D : A \cap B = {} => mu[A \cup B] = mu[A] + mu[B]
  <2> SUFFICES ASSUME NEW A \in SUBSET D, NEW B \in SUBSET D, A \cap B = {}
               PROVE  mu[A \cup B] = mu[A] + mu[B]
    OBVIOUS
  <2>1. A \cup B \in SUBSET D
    OBVIOUS
  <2> QED
    BY <1>2, <2>1
<1> HIDE DEF mu
<1>5. Additive(mu, D)
  BY <1>3, <1>4 DEF Additive
<1> QED
  BY <1>5 DEF mu

\* The names D in some order, and the columns of their rows.
Listed(order, c, D) ==
    /\ order \in [1..c -> D]
    /\ \A n \in D : \E i \in 1..c : order[i] = n
    /\ \A i, j \in 1..c : i < j => order[i] # order[j]
Columns(W, m, order, c, calls, errors, ns) ==
    /\ calls = [i \in 1..c |-> Cardinality(CallsIn(W, m, order[i]))]
    /\ errors = [i \in 1..c |-> Cardinality(FailedIn(W, m, order[i]))]
    /\ ns = [i \in 1..c |-> TimeIn(m, CallsIn(W, m, order[i]))]

\* The sums over the names are those over all calls.
LEMMA SumsOverNames ==
    ASSUME NEW m \in Seq(Events), NEW W, NEW c \in Nat, NEW D,
           NEW order, Listed(order, c, D),
           NEW s1, NEW s2, NEW s3, Columns(W, m, order, c, s1, s2, s3)
    PROVE  /\ SumOf(s1) = Cardinality(AllCalls(W, m, D))
           /\ SumOf(s2) = Cardinality(AllFailed(W, m, D))
           /\ SumOf(s3) = TimeIn(m, AllCalls(W, m, D))
<1> DEFINE S == Syscalls(m)
           count == [A \in SUBSET S |-> Cardinality(A)]
           time == [A \in SUBSET S |-> TimeIn(m, A)]
           calls == [i \in 1..c |-> CallsIn(W, m, order[i])]
           failed == [i \in 1..c |-> FailedIn(W, m, order[i])]
<1>1. /\ IsFiniteSet(S) /\ \A n : CallsIn(W, m, n) \in SUBSET S /\ FailedIn(W, m, n) \in SUBSET S
  BY SyscallsAre
<1>2. Additive(count, S)
  BY <1>1, CountAdds
<1>3. Additive(time, S)
  <2>1. /\ TimeIn(m, {}) = 0
        /\ \A A, B \in SUBSET S : A \cap B = {} => TimeIn(m, A \cup B) = TimeIn(m, A) + TimeIn(m, B)
        /\ \A A \in SUBSET S : TimeIn(m, A) \in Nat
    BY TimeAdds, TimesAre
  <2>2. \A A, B \in SUBSET S : A \cup B \in SUBSET S
    OBVIOUS
  <2> HIDE DEF S
  <2>3. time \in [SUBSET S -> Nat] /\ time[{}] = 0
    BY <2>1
  <2>4. \A A, B \in SUBSET S : A \cap B = {} => time[A \cup B] = time[A] + time[B]
    BY <2>1, <2>2
  <2> HIDE DEF time
  <2> QED
    BY <2>3, <2>4 DEF Additive
<1> USE DEF Listed, Columns
<1>4. calls \in [1..c -> SUBSET S] /\ failed \in [1..c -> SUBSET S]
  BY <1>1
<1>5. ASSUME NEW i \in 1..c, NEW j \in 1..c, i # j
      PROVE  calls[i] \cap calls[j] = {} /\ failed[i] \cap failed[j] = {}
  <2>1. order[i] # order[j]
    <3>1. i < j \/ j < i
      BY <1>5
    <3> QED
      BY <3>1
  <2>2. CallsIn(W, m, order[i]) \cap CallsIn(W, m, order[j]) = {}
    BY <2>1 DEF CallsIn
  <2>3. FailedIn(W, m, order[i]) \cap FailedIn(W, m, order[j]) = {}
    BY <2>2 DEF FailedIn
  <2> QED
    BY <2>2, <2>3
<1> DEFINE C == UNION {CallsIn(W, m, n) : n \in D}
           F == UNION {FailedIn(W, m, n) : n \in D}
<1>6. /\ \A x : x \in C <=> \E i \in 1..c : x \in calls[i]
      /\ \A x : x \in F <=> \E i \in 1..c : x \in failed[i]
  <2>1. \A x : x \in C <=> \E i \in 1..c : x \in calls[i]
    OBVIOUS
  <2>2. \A x : x \in F <=> \E i \in 1..c : x \in failed[i]
    OBVIOUS
  <2> QED
    BY <2>1, <2>2
<1>7. /\ DOMAIN s1 = 1..c /\ s1 = [i \in DOMAIN s1 |-> s1[i]]
      /\ DOMAIN s2 = 1..c /\ s2 = [i \in DOMAIN s2 |-> s2[i]]
      /\ DOMAIN s3 = 1..c /\ s3 = [i \in DOMAIN s3 |-> s3[i]]
  OBVIOUS
<1>8. \A i \in 1..c : /\ s1[i] = count[calls[i]] /\ s2[i] = count[failed[i]]
                      /\ s3[i] = time[calls[i]]
  BY <1>1
<1>9. C \in SUBSET S /\ F \in SUBSET S
  BY <1>1
<1>10. \A A \in SUBSET S : count[A] = Cardinality(A) /\ time[A] = TimeIn(m, A)
  OBVIOUS
<1> HIDE DEF S, count, time, calls, failed, C, F
<1>11. /\ \A i, j \in 1..c : i # j => calls[i] \cap calls[j] = {}
       /\ \A i, j \in 1..c : i # j => failed[i] \cap failed[j] = {}
  BY <1>5
<1>12. /\ Measures(s1, count, S, c, calls, C)
       /\ Measures(s2, count, S, c, failed, F)
       /\ Measures(s3, time, S, c, calls, C)
  BY <1>2, <1>3, <1>4, <1>6, <1>7, <1>8, <1>11 DEF Measures
<1>13. SumOf(s1) = count[C] /\ SumOf(s2) = count[F] /\ SumOf(s3) = time[C]
  BY <1>12, SumOfParts
<1> QED
  BY <1>9, <1>10, <1>13 DEF C, F, AllCalls, AllFailed

\* SummarySink::finish: the table is right if the statistics are.
LEMMA TableSums ==
    ASSUME NEW m \in Seq(Events), NEW W, StatsRight(W, m, stats), IsFiniteSet(DOMAIN stats)
    PROVE  SummedUp(W, m, Table)
<1> DEFINE D == DOMAIN stats
           c == Cardinality(D)
           rows == [i \in DOMAIN Sorted |-> Row(Sorted[i], stats[Sorted[i]])]
           total == Row("total", Totals(rows))
           P == {HeadLine, RuleLine, total} \cup {rows[i] : i \in 1..c}
<1>1. D = NamesIn(W, m) /\ \A n \in D : stats[n] = StatIn(W, m, n)
  BY DEF StatsRight
<1>2. ASSUME NEW n \in D
      PROVE  /\ stats[n].calls = Cardinality(CallsIn(W, m, n))
             /\ stats[n].errors = Cardinality(FailedIn(W, m, n))
             /\ stats[n].total_ns = TimeIn(m, CallsIn(W, m, n))
             /\ stats[n].calls \in Nat /\ stats[n].total_ns \in Nat
  <2>1. /\ stats[n].calls = Cardinality(CallsIn(W, m, n))
        /\ stats[n].errors = Cardinality(FailedIn(W, m, n))
        /\ stats[n].total_ns = TimeIn(m, CallsIn(W, m, n))
    BY <1>1 DEF StatIn
  <2>2. CallsIn(W, m, n) \in SUBSET Syscalls(m) /\ IsFiniteSet(CallsIn(W, m, n))
    BY SyscallsAre
  <2>3. Cardinality(CallsIn(W, m, n)) \in Nat
    BY <2>2, FS_CardinalityType
  <2>4. TimeIn(m, CallsIn(W, m, n)) \in Nat
    BY <2>2, TimesAre
  <2> QED
    BY <2>1, <2>3, <2>4
<1>3. D \subseteq ToSet(Names)
  BY <1>1 DEF NamesIn
<1>4. /\ c \in Nat /\ Sorted \in [1..c -> D]
      /\ \A n \in D : \E i \in 1..c : Sorted[i] = n
      /\ \A i, j \in 1..c : i < j => Before(Sorted[i], Sorted[j]) /\ Sorted[i] # Sorted[j]
  BY <1>2, <1>3, SortedIs
<1>5. Table = <<HeadLine, RuleLine>> \o rows \o <<RuleLine, total>>
  BY DEF Table
<1>6. DOMAIN rows = 1..c /\ rows \in Seq(P) /\ Len(rows) = c
  BY <1>4
<1>7. ASSUME NEW i \in 1..c
      PROVE  /\ Sorted[i] \in D
             /\ rows[i] = RowIn(m, Sorted[i], CallsIn(W, m, Sorted[i]), FailedIn(W, m, Sorted[i]))
             /\ rows[i].calls = Cardinality(CallsIn(W, m, Sorted[i]))
             /\ rows[i].errors = Cardinality(FailedIn(W, m, Sorted[i]))
             /\ rows[i].total_ns = TimeIn(m, CallsIn(W, m, Sorted[i]))
             /\ rows[i].calls = stats[Sorted[i]].calls
             /\ rows[i].total_ns = stats[Sorted[i]].total_ns
             /\ rows[i].name = Sorted[i]
  <2>1. Sorted[i] \in D /\ rows[i] = Row(Sorted[i], stats[Sorted[i]])
    BY <1>4
  <2> HIDE DEF rows, D
  <2> DEFINE n == Sorted[i]
  <2>2. /\ stats[n].calls = Cardinality(CallsIn(W, m, n))
        /\ stats[n].errors = Cardinality(FailedIn(W, m, n))
        /\ stats[n].total_ns = TimeIn(m, CallsIn(W, m, n))
    BY <1>2, <2>1
  <2>3. n \in D /\ rows[i] = Row(n, stats[n])
    BY <2>1
  <2> HIDE DEF n
  <2>4. /\ rows[i] = RowIn(m, n, CallsIn(W, m, n), FailedIn(W, m, n))
        /\ rows[i].calls = stats[n].calls /\ rows[i].errors = stats[n].errors
        /\ rows[i].total_ns = stats[n].total_ns /\ rows[i].name = n
    BY <2>2, <2>3 DEF Row, RowIn
  <2> QED
    BY <2>2, <2>3, <2>4 DEF n
<1>8. total = RowIn(m, "total", AllCalls(W, m, D), AllFailed(W, m, D))
  <2>1. /\ [i \in DOMAIN rows |-> rows[i].calls]
              = [i \in 1..c |-> Cardinality(CallsIn(W, m, Sorted[i]))]
        /\ [i \in DOMAIN rows |-> rows[i].errors]
              = [i \in 1..c |-> Cardinality(FailedIn(W, m, Sorted[i]))]
        /\ [i \in DOMAIN rows |-> rows[i].total_ns]
              = [i \in 1..c |-> TimeIn(m, CallsIn(W, m, Sorted[i]))]
    <3> HIDE DEF rows, c
    <3> QED
      BY <1>6, <1>7
  <2> DEFINE o == Sorted
             s1 == [i \in DOMAIN rows |-> rows[i].calls]
             s2 == [i \in DOMAIN rows |-> rows[i].errors]
             s3 == [i \in DOMAIN rows |-> rows[i].total_ns]
  <2>2. /\ SumOf(s1) = Cardinality(AllCalls(W, m, D))
        /\ SumOf(s2) = Cardinality(AllFailed(W, m, D))
        /\ SumOf(s3) = TimeIn(m, AllCalls(W, m, D))
    <3>1. Columns(W, m, o, c, s1, s2, s3)
      BY <2>1 DEF Columns
    <3>2. c \in Nat /\ Listed(o, c, D)
      <4> HIDE DEF c, D
      <4> QED
        BY <1>4 DEF Listed
    <3> HIDE DEF o, c, D, s1, s2, s3
    <3> QED
      BY <3>1, <3>2, SumsOverNames
  <2> HIDE DEF rows, c, D
  <2>3. Totals(rows) = [calls |-> Cardinality(AllCalls(W, m, D)),
                        errors |-> Cardinality(AllFailed(W, m, D)),
                        total_ns |-> TimeIn(m, AllCalls(W, m, D))]
    BY <2>2 DEF Totals
  <2> QED
    BY <2>3 DEF Row, RowIn
<1>9. \A i, j \in 1..c : i < j =>
         \/ rows[i].total_ns > rows[j].total_ns
         \/ /\ rows[i].total_ns = rows[j].total_ns
            /\ \/ rows[i].calls > rows[j].calls
               \/ /\ rows[i].calls = rows[j].calls
                  /\ Position(rows[i].name) < Position(rows[j].name)
  <2> SUFFICES ASSUME NEW i \in 1..c, NEW j \in 1..c, i < j
               PROVE  \/ rows[i].total_ns > rows[j].total_ns
                      \/ /\ rows[i].total_ns = rows[j].total_ns
                         /\ \/ rows[i].calls > rows[j].calls
                            \/ /\ rows[i].calls = rows[j].calls
                               /\ Position(rows[i].name) < Position(rows[j].name)
    OBVIOUS
  <2>1. Before(Sorted[i], Sorted[j])
    BY <1>4
  <2>2. /\ rows[i].calls = stats[Sorted[i]].calls /\ rows[j].calls = stats[Sorted[j]].calls
        /\ rows[i].total_ns = stats[Sorted[i]].total_ns
        /\ rows[j].total_ns = stats[Sorted[j]].total_ns
        /\ rows[i].name = Sorted[i] /\ rows[j].name = Sorted[j]
    BY <1>7
  <2> HIDE DEF rows
  <2> QED
    BY <2>1, <2>2 DEF Before
<1>10. ToSet(rows) = {RowIn(m, n, CallsIn(W, m, n), FailedIn(W, m, n)) : n \in D}
  <2> HIDE DEF rows, c, D
  <2>1. \A i \in 1..c : \E n \in D : rows[i] = RowIn(m, n, CallsIn(W, m, n), FailedIn(W, m, n))
    BY <1>7
  <2>2. \A n \in D : \E i \in 1..c : rows[i] = RowIn(m, n, CallsIn(W, m, n), FailedIn(W, m, n))
    BY <1>4, <1>7
  <2>3. ToSet(rows) = {rows[i] : i \in 1..c}
    BY <1>6 DEF ToSet
  <2> QED
    BY <2>1, <2>2, <2>3, Zenon
<1>11. HeadLine \in P /\ RuleLine \in P /\ total \in P
  OBVIOUS
<1> HIDE DEF rows, total, P, c
<1>12. SubSeq(Table, 3, Len(Table) - 2) = rows /\ Table[Len(Table)] = total
  BY <1>5, <1>6, <1>11, TableParts
<1>13. Len(rows) = Cardinality(NamesIn(W, m))
  BY <1>1, <1>6 DEF c
<1> QED
  <2> DEFINE t == Table
             N == NamesIn(W, m)
  <2>1. /\ SubSeq(t, 3, Len(t) - 2) = rows
        /\ t[Len(t)] = RowIn(m, "total", AllCalls(W, m, N), AllFailed(W, m, N))
        /\ ToSet(rows) = {RowIn(m, n, CallsIn(W, m, n), FailedIn(W, m, n)) : n \in N}
        /\ Len(rows) = Cardinality(N)
    BY <1>1, <1>8, <1>10, <1>12, <1>13
  <2>2. \A i, j \in DOMAIN rows : i < j =>
           \/ rows[i].total_ns > rows[j].total_ns
           \/ /\ rows[i].total_ns = rows[j].total_ns
              /\ \/ rows[i].calls > rows[j].calls
                 \/ /\ rows[i].calls = rows[j].calls
                    /\ Position(rows[i].name) < Position(rows[j].name)
    BY <1>6, <1>9
  <2> HIDE DEF t
  <2>3. SummedUp(W, m, t)
    BY <2>1, <2>2, Zenon DEF SummedUp
  <2> QED
    BY <2>3 DEF t

\* The events the user asked to see.
WantedNow == {e \in Events : Wanted(e)}

\* While run has not returned the statistics are right, and the table is when it
\* has and the device has taken it.
SumInv ==
    cli.sink = "summary" =>
        /\ Running => StatsRight(WantedNow, made, stats)
        /\ pc = "finished" /\ ~Refused => SummedUp(WantedNow, made, out.disk)

\* That is SummaryRight.
LEMMA SummaryIs ==
    ASSUME made \in Seq(Events), SumInv
    PROVE  SummaryRight
<1> DEFINE W == WantedNow
<1>1. \A i \in DOMAIN made : Wanted(made[i]) <=> made[i] \in W
  <2>1. \A i \in DOMAIN made : made[i] \in Events
    BY LenProperties, ElementOfSeq
  <2> QED
    BY <2>1 DEF WantedNow
<1> HIDE DEF W
<1>2. \A n : CallsOf(n) = CallsIn(W, made, n)
  BY <1>1 DEF CallsOf, CallsIn
<1>3. \A n : FailedOf(n) = FailedIn(W, made, n)
  BY <1>2 DEF FailedOf, FailedIn
<1>4. Called = NamesIn(W, made)
  BY <1>2 DEF Called, NamesIn
<1>5. \A n, A, F : RowOf(n, A, F) = RowIn(made, n, A, F)
  <2>1. \A A : TimeOf(A) = TimeIn(made, A)
    BY DEF TimeOf, TimeIn, Times
  <2> QED
    BY <2>1 DEF RowOf, RowIn
<1>6. {RowOf(n, CallsOf(n), FailedOf(n)) : n \in Called}
         = {RowIn(made, n, CallsIn(W, made, n), FailedIn(W, made, n)) : n \in NamesIn(W, made)}
  BY <1>2, <1>3, <1>4, <1>5
<1>7. /\ UNION {CallsOf(n) : n \in Called} = AllCalls(W, made, NamesIn(W, made))
      /\ UNION {FailedOf(n) : n \in Called} = AllFailed(W, made, NamesIn(W, made))
  BY <1>2, <1>3, <1>4 DEF AllCalls, AllFailed
<1> SUFFICES ASSUME cli.sink = "summary", pc = "finished", ~Refused
             PROVE  SummaryRight
  BY DEF SummaryRight
<1>8. SummedUp(W, made, out.disk)
  BY DEF SumInv, W
<1> QED
  BY <1>4, <1>5, <1>6, <1>7, <1>8 DEF SummedUp, SummaryRight

\* Nothing is due before there is an event.
LEMMA NoStats ==
    ASSUME NEW W
    PROVE  StatsRight(W, <<>>, <<>>)
<1>1. \A n : CallsIn(W, <<>>, n) = {}
  BY DEF CallsIn
<1>2. NamesIn(W, <<>>) = {}
  BY <1>1 DEF NamesIn
<1> QED
  BY <1>2 DEF StatsRight

\* An event keeps the statistics right.
LEMMA EventSums ==
    ASSUME OutInv, SumInv, Event
    PROVE  SumInv'
<1>1. UNCHANGED <<cli, device>>
  BY DEF Event, OnSyscall, OnExit, OnSignal
<1>2. WantedNow' = WantedNow
  BY <1>1 DEF WantedNow, Wanted
<1> SUFFICES ASSUME cli.sink = "summary"
             PROVE  /\ Running' => StatsRight(WantedNow, made', stats')
                    /\ pc' # "finished"
  BY <1>1, <1>2 DEF SumInv
<1>3. pc = "loop" /\ made \in Seq(Events) /\ StatsRight(WantedNow, made, stats) /\ out = Fresh
      /\ filter = FromExprs(cli.exprs) /\ filter.kind # "Error" /\ Sane
  BY DEF Event, OnSyscall, OnExit, OnSignal, SumInv, Running, OutInv, SetUp, RunInv, Streaming
<1>4. ASSUME RecordNow
      PROVE  pc' = "loop"
  <2>1. RecordTo(out, Len(made) + 1) = Fresh /\ Fresh.err = "none"
    BY <1>3 DEF RecordTo, Fresh
  <2> QED
    BY <1>3, <1>4, <2>1 DEF RecordNow
<1>5. ASSUME NEW call \in Calls, OnSyscall(call)
      PROVE  pc' = "loop" /\ StatsRight(WantedNow, made', stats')
  <2>1. call \in Events /\ made' = Append(made, call)
    BY <1>5 DEF OnSyscall, Events
  <2>2. Allows(filter, call.nr) <=> call \in WantedNow
    <3>1. Allows(filter, call.nr) <=> Wanted(call)
      BY <1>3, FilterRight
    <3> QED
      BY <2>1, <3>1 DEF WantedNow
  <2>3. CASE Allows(filter, call.nr)
    <3>1. /\ pc' = "loop"
          /\ stats' = [n \in DOMAIN stats \cup {call.name} |->
                         IF n = call.name
                         THEN Counted(IF n \in DOMAIN stats THEN stats[n] ELSE NoStat, call)
                         ELSE stats[n]]
      BY <1>4, <1>5, <2>3 DEF OnSyscall, StatOf
    <3>2. call \in WantedNow
      BY <2>2, <2>3
    <3> QED
      BY <1>3, <2>1, <3>1, <3>2, StatsGrow
  <2>4. CASE ~Allows(filter, call.nr)
    <3>1. pc' = "loop" /\ stats' = stats
      BY <1>3, <1>5, <2>4 DEF OnSyscall
    <3>2. call \notin WantedNow
      BY <2>2, <2>4
    <3> QED
      BY <1>3, <2>1, <3>1, <3>2, StatsGrow
  <2> QED
    BY <2>3, <2>4
<1>6. ASSUME NEW x \in Events, x.kind # "syscall", made' = Append(made, x), stats' = stats,
             RecordNow
      PROVE  pc' = "loop" /\ StatsRight(WantedNow, made', stats')
  BY <1>3, <1>4, <1>6, StatsGrow
<1>7. ASSUME OnSignal
      PROVE  pc' = "loop" /\ StatsRight(WantedNow, made', stats')
  <2> DEFINE x == [kind |-> "signal"]
  <2>1. x \in Events /\ x.kind # "syscall"
    BY DEF Events
  <2>2. made' = Append(made, x) /\ stats' = stats /\ RecordNow
    BY <1>7 DEF OnSignal
  <2> HIDE DEF x
  <2> QED
    BY <1>6, <2>1, <2>2
<1>8. ASSUME NEW leader \in BOOLEAN, NEW code \in Codes, OnExit(leader, code)
      PROVE  pc' = "loop" /\ StatsRight(WantedNow, made', stats')
  <2> DEFINE x == [kind |-> "exit", leader |-> leader, code |-> code]
  <2>1. x \in Events /\ x.kind # "syscall"
    BY DEF Events
  <2>2. made' = Append(made, x) /\ stats' = stats /\ RecordNow
    BY <1>8 DEF OnExit
  <2> HIDE DEF x
  <2> QED
    BY <1>6, <2>1, <2>2
<1>9. pc' = "loop" /\ StatsRight(WantedNow, made', stats')
  <2>1. \/ \E call \in Calls : OnSyscall(call)
        \/ \E leader \in BOOLEAN, code \in Codes : OnExit(leader, code)
        \/ OnSignal
    BY DEF Event
  <2> QED
    BY <1>5, <1>7, <1>8, <2>1, Zenon
<1> QED
  BY <1>9

\* Finish writes the table.
LEMMA FinishSums ==
    ASSUME OutInv, SumInv, Finish
    PROVE  SumInv'
<1> DEFINE w == FinishTo(out)
<1>1. /\ pc = "loop" /\ UNCHANGED <<cli, device, stats, made>> /\ Sane
      /\ made \in Seq(Events) /\ IsFiniteSet(DOMAIN stats)
      /\ IF w.err = "none" THEN Ends("finished", w, exit_code)
         ELSE Ends("write_error", w, ErrorCode(w))
  BY DEF Finish, OutInv, SetUp
<1>2. WantedNow' = WantedNow
  BY <1>1 DEF WantedNow, Wanted
<1>3. pc' \in {"finished", "write_error"}
  BY <1>1 DEF Ends
<1> SUFFICES ASSUME cli.sink = "summary", pc' = "finished", ~Refused'
             PROVE  SummedUp(WantedNow, made, out'.disk)
  BY <1>1, <1>2, <1>3 DEF SumInv, Running
<1>4. /\ w.err = "none" /\ out' = Drop(w) /\ w = WriteEach(out, Table) /\ out = Fresh
      /\ StatsRight(WantedNow, made, stats)
  BY <1>1 DEF Ends, FinishTo, SumInv, Running, OutInv, RunInv, Streaming
<1> DEFINE P == Range(Table)
<1>5. Table \in Seq(P) /\ Table # <<>> /\ \A i \in DOMAIN Table : Table[i].nl
  BY <1>1, TableIs
<1> HIDE DEF P, w
<1>6. Going(P, out) /\ All(out) = <<>>
  BY <1>1, <1>4, FreshIs
<1>7. Going(P, w) /\ All(w) = Table
  BY <1>1, <1>4, <1>5, <1>6, WriteEachIs
<1>8. /\ Drop(w) \in Writers(P) /\ All(Drop(w)) = Table
      /\ Drop(w).buf = <<>> \/ Full(Drop(w))
  BY <1>1, <1>7, DropIs DEF Going
<1>9. ~Full(Drop(w))
  BY <1>1, <1>4 DEF Refused, Full
<1>10. out'.disk = Table
  <2>1. out'.disk \in Seq(P) /\ out'.buf = <<>> /\ out'.disk \o out'.buf = Table
    BY <1>4, <1>8, <1>9 DEF Writers, All
  <2>2. out'.disk \o <<>> = out'.disk
    BY <2>1, ConcatEmptySeq
  <2> QED
    BY <2>1, <2>2
<1>11. SummedUp(WantedNow, made, Table)
  BY <1>1, <1>4, TableSums
<1> QED
  BY <1>10, <1>11

\* The table that -c leaves on a device that has taken it has a row for each name that
\* was called and wanted, with all its calls, errors and time, in the order of
\* sort_by, and a last line with the sums over all calls (SummarySink::record and
\* finish).
THEOREM SummaryRightHolds == Spec => []SummaryRight
<1>1. Init => SumInv
  <2> SUFFICES ASSUME Init PROVE SumInv
    OBVIOUS
  <2>1. made = <<>> /\ stats = <<>> /\ pc = "start"
    BY DEF Init
  <2> QED
    BY <2>1, NoStats DEF SumInv
<1>2. OutInv /\ SumInv /\ [Next]_vars => SumInv'
  <2> SUFFICES ASSUME OutInv, SumInv, [Next]_vars PROVE SumInv'
    OBVIOUS
  <2>1. cli' = cli => WantedNow' = WantedNow
    BY DEF WantedNow, Wanted
  <2>2. CASE UNCHANGED vars
    BY <2>1, <2>2 DEF SumInv, Running, Refused, vars
  <2>3. CASE ListSyscalls
    BY <2>3 DEF ListSyscalls, Ends, SumInv, Running
  <2>4. CASE BuildFilter
    BY <2>1, <2>4 DEF BuildFilter, Ends, SumInv, Running
  <2>5. CASE OpenOutput
    BY <2>1, <2>5 DEF OpenOutput, Ends, SumInv, Running
  <2>6. CASE Event
    BY <2>6, EventSums
  <2>7. CASE TracerFails
    BY <2>7 DEF TracerFails, Ends, SumInv, Running
  <2>8. CASE Finish
    BY <2>8, FinishSums
  <2> QED
    BY <2>2, <2>3, <2>4, <2>5, <2>6, <2>7, <2>8 DEF Next, Stutter
<1>3. OutInv /\ SumInv => SummaryRight
  BY SummaryIs DEF OutInv, SetUp
<1> QED
  BY <1>1, <1>2, <1>3, OutputInvariance, PTL DEF Spec
=============================================================================
