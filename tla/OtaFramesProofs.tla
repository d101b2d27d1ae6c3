-------------------------- MODULE OtaFramesProofs --------------------------
(***************************************************************************)
(* The geometry of a transfer, for every file and increment size: the      *)
(* increments cut the chunks of a file into consecutive runs of at most    *)
(* Cpi chunks.                                                             *)
(***************************************************************************)
EXTENDS OtaFrames, TLAPS

\* Division with remainder, the facts the SMT solver needs about \div and %.
LEMMA DivMod ==
    ASSUME NEW n \in Nat, NEW d \in Nat \ {0}
    PROVE  /\ n \div d \in Nat /\ n % d \in 0 .. (d - 1)
           /\ n = d * (n \div d) + (n % d)
  BY Z3

\* The remainder is unique.
LEMMA ModUnique ==
    ASSUME NEW q \in Nat, NEW d \in Nat \ {0}, NEW r \in 0 .. (d - 1)
    PROVE  (q * d + r) % d = r
  BY Z3

\* Increments begin Cpi chunks apart.  From here on the product inc * d stays
\* inside IncrementStart.
LEMMA StartFacts ==
    ASSUME NEW d \in Nat \ {0}
    PROVE  /\ IncrementStart(d, 0) = 0
           /\ \A inc \in Nat : IncrementStart(d, inc) \in Nat
           /\ \A inc \in Nat : IncrementStart(d, inc + 1) = IncrementStart(d, inc) + d
           /\ \A inc \in Nat : inc <= IncrementStart(d, inc)
  BY Z3 DEF IncrementStart

LEMMA StartMono ==
    ASSUME NEW d \in Nat \ {0}, NEW a \in Nat, NEW b \in Nat, a <= b
    PROVE  IncrementStart(d, a) <= IncrementStart(d, b)
  BY Z3 DEF IncrementStart

\* The increment and the place in it determine a chunk's number.
LEMMA StartMod ==
    ASSUME NEW d \in Nat \ {0}, NEW inc \in Nat, NEW r \in 0 .. (d - 1)
    PROVE  (IncrementStart(d, inc) + r) % d = r
  BY ModUnique DEF IncrementStart

LEMMA StartDivMod ==
    ASSUME NEW n \in Nat, NEW d \in Nat \ {0}
    PROVE  /\ n \div d \in Nat /\ n % d \in 0 .. (d - 1)
           /\ n = IncrementStart(d, n \div d) + (n % d)
PROOF
  <1>1. n \div d \in Nat /\ n % d \in 0 .. (d - 1) /\ n = d * (n \div d) + (n % d)
    BY DivMod
  <1>2. \A q \in Nat : d * q = IncrementStart(d, q)
    BY Z3 DEF IncrementStart
  <1> QED BY <1>1, <1>2, Zenon

\* Rounding up: CeilDiv counts the increments that start before chunk n.
LEMMA CeilDivBounds ==
    ASSUME NEW n \in Nat \ {0}, NEW d \in Nat \ {0}
    PROVE  /\ CeilDiv(n, d) \in Nat \ {0}
           /\ CeilDiv(n, d) <= n
           /\ IncrementStart(d, CeilDiv(n, d) - 1) < n
           /\ n <= IncrementStart(d, CeilDiv(n, d))
PROOF
  <1> DEFINE q == n \div d
             r == n % d
  <1>1. q \in Nat /\ r \in Nat /\ r < d /\ n = IncrementStart(d, q) + r
    BY StartDivMod
  <1>2. CeilDiv(n, d) = q + (IF r # 0 THEN 1 ELSE 0)
    BY Zenon DEF CeilDiv
  <1>3. IncrementStart(d, q) \in Nat /\ q <= IncrementStart(d, q)
        /\ IncrementStart(d, q + 1) = IncrementStart(d, q) + d
    BY <1>1, StartFacts
  <1> HIDE DEF q, r
  <1>4. CASE r = 0
    <2>1. CeilDiv(n, d) = q /\ n = IncrementStart(d, q)
      BY <1>1, <1>2, <1>3, <1>4
    <2>2. q # 0
      <3>1. IncrementStart(d, 0) = 0
        BY StartFacts
      <3> QED BY <2>1, <3>1
    <2>3. IncrementStart(d, q - 1) < n
      <3>1. q - 1 \in Nat /\ (q - 1) + 1 = q
        BY <1>1, <2>2
      <3>2. IncrementStart(d, q - 1) \in Nat
            /\ IncrementStart(d, (q - 1) + 1) = IncrementStart(d, q - 1) + d
        BY <3>1, StartFacts
      <3> QED BY <2>1, <3>1, <3>2
    <2> QED BY <1>1, <1>3, <2>1, <2>2, <2>3
  <1>5. CASE r # 0
    <2>1. CeilDiv(n, d) = q + 1 /\ (q + 1) - 1 = q
      BY <1>1, <1>2, <1>5
    <2>2. q + 1 <= n /\ IncrementStart(d, q) < n /\ n <= IncrementStart(d, q + 1)
      BY <1>1, <1>3, <1>5
    <2> QED BY <1>1, <2>1, <2>2
  <1> QED BY <1>4, <1>5

\* The number of increments, with the rounding and the 16-bit cast gone.
LEMMA IncsBounds ==
    ASSUME NEW f \in Files
    PROVE  /\ NumChunks[f] \in Nat \ {0} /\ NumChunks[f] < 65536
           /\ Incs(f) \in Nat \ {0} /\ Incs(f) <= NumChunks[f]
           /\ IncrementStart(Cpi, Incs(f) - 1) < NumChunks[f]
           /\ NumChunks[f] <= IncrementStart(Cpi, Incs(f))
PROOF
  <1> DEFINE c == CeilDiv(NumChunks[f], Cpi)
  <1>1. NumChunks[f] \in Nat \ {0} /\ NumChunks[f] < 65536 /\ Cpi \in Nat \ {0}
    BY FilesAssumption, PartitionAssumption
  <1>2. /\ c \in Nat \ {0} /\ c <= NumChunks[f]
        /\ IncrementStart(Cpi, c - 1) < NumChunks[f]
        /\ NumChunks[f] <= IncrementStart(Cpi, c)
    <2> SUFFICES ASSUME NEW n \in Nat \ {0}, NEW d \in Nat \ {0},
                        n = NumChunks[f], d = Cpi
                 PROVE  /\ c \in Nat \ {0} /\ c <= n
                        /\ IncrementStart(d, c - 1) < n
                        /\ n <= IncrementStart(d, c)
      BY <1>1
    <2>1. c = CeilDiv(n, d)
      OBVIOUS
    <2> HIDE DEF c
    <2> QED BY <2>1, CeilDivBounds
  <1>3. Incs(f) = AtLeastOne(U16(c))
    BY Zenon DEF Incs, TotalIncrements
  <1> HIDE DEF c
  <1>4. U16(c) = c /\ AtLeastOne(c) = c
    BY <1>1, <1>2 DEF AtLeastOne, U16
  <1>5. Incs(f) = c
    BY <1>3, <1>4, Zenon
  <1> QED BY <1>1, <1>2, <1>5

\* How many chunks an increment has: Cpi in all but the last, whatever is left
\* in the last, and no increment reaches past the end of the file.
LEMMA IncrementShape ==
    ASSUME NEW f \in Files, NEW inc \in Nat, inc < Incs(f)
    PROVE  /\ NumInInc(f, inc) \in Nat \ {0} /\ NumInInc(f, inc) <= Cpi
           /\ IncrementEnd(NumChunks[f], Cpi, inc) = IncrementStart(Cpi, inc) + NumInInc(f, inc)
           /\ inc + 1 < Incs(f) => /\ NumInInc(f, inc) = Cpi
                                   /\ IncrementStart(Cpi, inc + 1) < NumChunks[f]
           /\ inc + 1 >= Incs(f) =>
                IncrementStart(Cpi, inc) + NumInInc(f, inc) = NumChunks[f]
PROOF
  <1> DEFINE n == NumChunks[f]
             t == Incs(f)
             S(i) == IncrementStart(Cpi, i)
             k == NumInInc(f, inc)
             last == ChunksInLast(n, Cpi)
  <1>1. n \in Nat \ {0} /\ n < 65536 /\ t \in Nat \ {0} /\ S(t - 1) < n /\ n <= S(t)
    BY IncsBounds
  <1>2. Cpi \in Nat \ {0}
    BY FilesAssumption
  <1>3. \A i \in Nat : S(i) \in Nat /\ S(i + 1) = S(i) + Cpi
    BY <1>2, StartFacts
  <1>4. t = TotalIncrements(n, Cpi)
    BY Zenon DEF Incs
  <1>5. k = IF inc + 1 >= t THEN last ELSE Cpi
    BY <1>4, Zenon DEF NumInInc, ChunksInIncrement
  <1>6. last = IF U16(n - S(t - 1)) = 0 THEN Cpi ELSE U16(n - S(t - 1))
    BY <1>4, Zenon DEF ChunksInLast
  <1>7. IncrementEnd(n, Cpi, inc) = IF S(inc) + k < n THEN S(inc) + k ELSE n
    BY Zenon DEF IncrementEnd, NumInInc
  <1>8. \A a, b \in Nat : a <= b => S(a) <= S(b)
    BY <1>2, StartMono
  <1>9. inc < t
    OBVIOUS
  <1> HIDE DEF n, t, S, k, last
  <1>10. t - 1 \in Nat /\ (t - 1) + 1 = t
    BY <1>1
  <1>11. S(t - 1) \in Nat /\ S(t) = S(t - 1) + Cpi
    <2>1. S((t - 1) + 1) = S(t - 1) + Cpi /\ S(t - 1) \in Nat
      BY <1>3, <1>10, Zenon
    <2> QED BY <1>10, <2>1
  <1>12. n - S(t - 1) \in Nat \ {0} /\ n - S(t - 1) <= Cpi /\ n - S(t - 1) < 65536
    BY <1>1, <1>2, <1>11
  <1>13. U16(n - S(t - 1)) = n - S(t - 1)
    BY <1>12 DEF U16
  <1>14. last = n - S(t - 1) /\ last \in Nat \ {0} /\ last <= Cpi
    BY <1>6, <1>12, <1>13
  <1>15. CASE inc + 1 >= t
    <2>1. inc = t - 1
      BY <1>1, <1>9, <1>15
    <2>2. k = last /\ S(inc) + k = n
      BY <1>1, <1>5, <1>11, <1>14, <1>15, <2>1
    <2>3. IncrementEnd(n, Cpi, inc) = S(inc) + k
      BY <1>1, <1>7, <2>2
    <2>4. ~(inc + 1 < t)
      BY <1>1, <1>15
    <2> QED BY <1>14, <2>2, <2>3, <2>4 DEF n, t, S, k
  <1>16. CASE inc + 1 < t
    <2>1. k = Cpi
      BY <1>1, <1>5, <1>16
    <2>2. S(inc + 1) <= S(t - 1)
      <3>1. inc + 1 \in Nat /\ inc + 1 <= t - 1
        BY <1>1, <1>16
      <3> QED BY <1>8, <1>10, <3>1
    <2>3. S(inc) \in Nat /\ S(inc + 1) = S(inc) + Cpi
      BY <1>3
    <2>4. S(inc + 1) < n
      BY <1>1, <1>2, <1>11, <2>2, <2>3
    <2>5. IncrementEnd(n, Cpi, inc) = S(inc) + k
      BY <1>1, <1>2, <1>7, <2>1, <2>3, <2>4
    <2>6. ~(inc + 1 >= t) /\ Cpi <= Cpi
      BY <1>1, <1>2, <1>16
    <2> QED BY <1>2, <2>1, <2>4, <2>5, <2>6 DEF n, t, S, k
  <1> QED BY <1>1, <1>15, <1>16

\* The place of a chunk in the increment buffer.
LEMMA ChunkIndex ==
    ASSUME NEW f \in Files, NEW inc \in Nat, inc < Incs(f),
           NEW seq \in SeqsOf(f, inc)
    PROVE  /\ seq \in Nat
           /\ seq % Cpi \in 0 .. (NumInInc(f, inc) - 1)
           /\ seq = IncrementStart(Cpi, inc) + (seq % Cpi)
PROOF
  <1>1. Cpi \in Nat \ {0}
    BY FilesAssumption
  <1>2. PICK b \in Nat, k \in 1 .. Cpi : b = IncrementStart(Cpi, inc) /\ k = NumInInc(f, inc)
    BY <1>1, IncrementShape, StartFacts
  <1>3. seq \in b .. (b + k - 1)
    BY <1>2, IncrementShape DEF SeqsOf, IncrementSeqs
  <1>4. PICK i \in 0 .. (k - 1) : seq = b + i
    BY <1>2, <1>3, seq - b \in 0 .. (k - 1), seq = b + (seq - b)
  <1>5. (b + i) % Cpi = i
    BY <1>1, <1>2, <1>4, i \in 0 .. (Cpi - 1), StartMod
  <1> QED BY <1>1, <1>2, <1>4, <1>5

=============================================================================
