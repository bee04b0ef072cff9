---------------------------- MODULE LoadingProofs ----------------------------
(***************************************************************************)
(* Proofs about Loading, for any clock steps and start of the clock.       *)
(*                                                                         *)
(* The sum stays below that of a task that was always active, because a    *)
(* charge is never for longer than the time since the last update.  For    *)
(* that the time stamps of the hooks, of sched_info and of the last update *)
(* must fit each other at every place the task can be (LoadFits), and the  *)
(* decay must not make more of the parts of a sum than of the whole        *)
(* (DecayAdds), which is a fact about the rounding of decay_load and its   *)
(* table.                                                                  *)
(***************************************************************************)
EXTENDS Loading, SequenceTheorems, TLAPS

----------------------------------------------------------------------------
(* The arithmetic of decay_load.                                           *)

\* A product of two halves is a product.
LEMMA HighIs ==
  ASSUME NEW x \in Nat, NEW y \in Nat
  PROVE  High(x, y) = (x * y) \div 65536
<1> DEFINE p == x * (y \div 256)
           q == x * (y % 256)
<1>1. y = 256 * (y \div 256) + (y % 256) /\ y \div 256 \in Nat /\ y % 256 \in Nat
  OBVIOUS
<1>2. x * (256 * (y \div 256) + (y % 256)) = 256 * (x * (y \div 256)) + x * (y % 256)
  <2>1. \A u, v \in Nat : x * (256 * u + v) = 256 * (x * u) + x * v
    OBVIOUS
  <2>2. QED BY <1>1, <2>1
<1>3. x * y = 256 * p + q
  BY <1>1, <1>2
<1>4. p \in Nat /\ q \in Nat
  BY <1>1
<1>5. High(x, y) = (p + q \div 256) \div 256
  BY DEF High
<1> HIDE DEF p, q
<1>6. (p + q \div 256) \div 256 = (256 * p + q) \div 65536
  BY <1>4
<1>7. QED BY <1>3, <1>5, <1>6

\* mul_u64_u32_shr, for the two halves of a fraction: the partial products add up to the
\* product.
LEMMA ShiftIs ==
  ASSUME NEW val \in Nat, NEW h \in Nat, NEW g \in Nat
  PROVE  ((val \div 256) * h) \div 256
           + ((val % 256) * h + ((val \div 256) * h % 256) * 256 + g) \div 65536
         = (val * h + g) \div 65536
<1> DEFINE u == (val \div 256) * h
           v == (val % 256) * h
<1>1. val = 256 * (val \div 256) + (val % 256) /\ val \div 256 \in Nat /\ val % 256 \in Nat
  OBVIOUS
<1>2. (256 * (val \div 256) + (val % 256)) * h = 256 * ((val \div 256) * h) + (val % 256) * h
  <2>1. \A a, b \in Nat : (256 * a + b) * h = 256 * (a * h) + b * h
    OBVIOUS
  <2>2. QED BY <1>1, <2>1
<1>3. val * h = 256 * u + v
  BY <1>1, <1>2
<1>4. u \in Nat /\ v \in Nat
  BY <1>1
<1> HIDE DEF u, v
<1>5. u \div 256 + (v + (u % 256) * 256 + g) \div 65536 = (256 * u + v + g) \div 65536
  BY <1>4
<1>6. QED BY <1>3, <1>5 DEF u, v

\* What MulShift multiplies by: a fraction of 2^32 in two halves.
Half == {x \in Nat : x <= 65535}
Scaled(x, h, l) == (x * h + (x * l) \div 65536) \div 65536

\* The tables' rows are 16 bits wide.
LEMMA TableRows ==
  ASSUME NEW n \in 0..31
  PROVE  InvHigh[n + 1] \in Half /\ InvLow[n + 1] \in Half
<1>1. InvHigh \in Seq(Half) /\ Len(InvHigh) = 32
  BY SMT DEF InvHigh, Half
<1>2. InvLow \in Seq(Half) /\ Len(InvLow) = 32
  BY SMT DEF InvLow, Half
<1>3. n + 1 \in 1..32
  OBVIOUS
<1>4. QED BY <1>1, <1>2, <1>3, ElementOfSeq

\* MulShift is the product with the table's fraction.
LEMMA MulShiftIs ==
  ASSUME NEW val \in Nat, NEW n \in 0..31
  PROVE  MulShift(val, n) = Scaled(val, InvHigh[n + 1], InvLow[n + 1])
<1> DEFINE h == InvHigh[n + 1]
           l == InvLow[n + 1]
           g == (val * l) \div 65536
<1>1. h \in Nat /\ l \in Nat
  <2>1. h \in Half /\ l \in Half
    BY TableRows
  <2>2. QED BY <2>1 DEF Half
<1> HIDE DEF h, l
<1>2. High(val, l) = g
  BY <1>1, HighIs
<1>3. val * l \in Nat
  BY <1>1
<1>4. g \in Nat
  BY <1>3
<1> HIDE DEF g
<1>5. ((val \div 256) * h) \div 256
           + ((val % 256) * h + ((val \div 256) * h % 256) * 256 + g) \div 65536
         = (val * h + g) \div 65536
  BY <1>1, <1>4, ShiftIs
<1>6. QED BY <1>2, <1>5 DEF MulShift, Scaled, h, l, g

\* A part of a value and the rest of it, scaled, are no more than the whole.
LEMMA ScaledAdds ==
  ASSUME NEW a \in Nat, NEW b \in Nat, NEW h \in Half, NEW l \in Half
  PROVE  /\ Scaled(a, h, l) \in Nat /\ Scaled(a, h, l) <= a
         /\ Scaled(a, h, l) + Scaled(b, h, l) <= Scaled(a + b, h, l)
<1> DEFINE p == a * h
           q == b * h
           s == a * l
           t == b * l
<1>0. h \in Nat /\ l \in Nat /\ h <= 65535 /\ l <= 65535
  BY DEF Half
<1>1. (a + b) * h = p + q /\ (a + b) * l = s + t
  BY <1>0
<1>2. p \in Nat /\ q \in Nat /\ s \in Nat /\ t \in Nat
  BY <1>0
<1>3. p <= a * 65535 /\ s <= a * 65535
  BY <1>0
<1> HIDE DEF p, q, s, t
<1>4. s \div 65536 + t \div 65536 <= (s + t) \div 65536
  BY <1>2
<1>5. (p + s \div 65536) \div 65536 + (q + t \div 65536) \div 65536
        <= (p + q + (s + t) \div 65536) \div 65536
  BY <1>2, <1>4
<1>6. (p + s \div 65536) \div 65536 \in Nat /\ (p + s \div 65536) \div 65536 <= a
  BY <1>2, <1>3
<1>7. Scaled(a, h, l) = (p + s \div 65536) \div 65536
  BY DEF Scaled, p, s
<1>8. Scaled(b, h, l) = (q + t \div 65536) \div 65536
  BY DEF Scaled, q, t
<1>9. Scaled(a + b, h, l) = (p + q + (s + t) \div 65536) \div 65536
  BY <1>1 DEF Scaled
<1>10. QED BY <1>5, <1>6, <1>7, <1>8, <1>9

\* The same for each number of halvings.
LEMMA HalvingAdds ==
  ASSUME NEW a \in Nat, NEW b \in Nat, NEW q \in 1..16
  PROVE  /\ a \div Halvings[q] \in Nat /\ a \div Halvings[q] <= a
         /\ a \div Halvings[q] + b \div Halvings[q] <= (a + b) \div Halvings[q]
<1> DEFINE d == Halvings[q]
<1>1. d \in {1, 2, 4, 8, 16, 32, 64, 128, 256, 512, 1024, 2048, 4096, 8192, 16384, 32768}
  BY SMT DEF Halvings
<1> HIDE DEF d
<1>2. a \div d \in Nat /\ a \div d <= a
  BY <1>1
<1>3. a \div d + b \div d <= (a + b) \div d
  BY <1>1, SMTT(60)
<1>4. QED BY <1>2, <1>3 DEF d

\* The first of them is none, and each of the others halves at least once.
LEMMA HalvingHalves ==
  ASSUME NEW q \in 1..16
  PROVE  47742 \div Halvings[q] \in Nat /\ (IF q = 1 THEN 47742 \div Halvings[q] = 47742
                                            ELSE 47742 \div Halvings[q] <= 23871)
<1> DEFINE d == Halvings[q]
<1>1. d \in {1, 2, 4, 8, 16, 32, 64, 128, 256, 512, 1024, 2048, 4096, 8192, 16384, 32768}
  BY SMT DEF Halvings
<1>2. IF q = 1 THEN d = 1 ELSE d # 1
  BY SMT DEF Halvings
<1> HIDE DEF d
<1>3. QED BY <1>1, <1>2 DEF d

\* The halvings of n periods, and the row of the table for the rest of them.
HalvingOf(n) == n \div 32 + 1
RowOf(n)     == n % 32

\* Their ranges; one period or more that is not halved has a row after the first.
LEMMA RowAndHalving ==
  ASSUME NEW n \in Nat, n < 512
  PROVE  HalvingOf(n) \in 1..16 /\ RowOf(n) \in 0..31
         /\ (HalvingOf(n) = 1 /\ n # 0 => RowOf(n) \in 1..31)
BY DEF HalvingOf, RowOf

\* Decay below the cut.
LEMMA DecayIs ==
  ASSUME NEW val \in Nat, NEW n \in Nat, n < 512
  PROVE  Decay(val, n) = Scaled(val \div Halvings[HalvingOf(n)],
                                InvHigh[RowOf(n) + 1], InvLow[RowOf(n) + 1])
<1> DEFINE q == HalvingOf(n)
           r == RowOf(n)
<1>1. q \in 1..16 /\ r \in 0..31
  BY RowAndHalving
<1>2. Decay(val, n) = MulShift(val \div Halvings[q], r)
  BY DEF Decay, LOAD_AVG_PERIOD, HalvingOf, RowOf
<1> HIDE DEF q, r
<1>3. val \div Halvings[q] \in Nat
  BY <1>1, HalvingAdds
<1>4. MulShift(val \div Halvings[q], r)
        = Scaled(val \div Halvings[q], InvHigh[r + 1], InvLow[r + 1])
  BY <1>1, <1>3, MulShiftIs
<1>5. QED BY <1>2, <1>4 DEF q, r

\* decay_load splits: the parts of a value decay to no more than the whole.
LEMMA DecayAdds ==
  ASSUME NEW a \in Nat, NEW b \in Nat, NEW n \in Nat
  PROVE  /\ Decay(a, n) \in Nat /\ Decay(a, n) <= a
         /\ Decay(a, n) + Decay(b, n) <= Decay(a + b, n)
<1>1. CASE n >= 512
  BY <1>1 DEF Decay, LOAD_AVG_PERIOD
<1>2. CASE n < 512
  <2> DEFINE d == Halvings[HalvingOf(n)]
             x == a \div d
             y == b \div d
             z == (a + b) \div d
             h == InvHigh[RowOf(n) + 1]
             l == InvLow[RowOf(n) + 1]
  <2>1. n < 512
    BY <1>2
  <2>2. HalvingOf(n) \in 1..16 /\ RowOf(n) \in 0..31
    BY <2>1, RowAndHalving
  <2>3. a + b \in Nat
    OBVIOUS
  <2>4. \A v \in Nat : Decay(v, n) = Scaled(v \div d, h, l)
    BY <2>1, DecayIs
  <2>5. h \in Half /\ l \in Half
    BY <2>2, TableRows
  <2>6. x \in Nat /\ y \in Nat /\ x <= a /\ x + y <= z
    BY <2>2, HalvingAdds
  <2>7. z \in Nat
    BY <2>2, <2>3, HalvingAdds
  <2> HIDE DEF d, h, l
  <2>8. Decay(a, n) = Scaled(x, h, l) /\ Decay(b, n) = Scaled(y, h, l)
        /\ Decay(a + b, n) = Scaled(z, h, l)
    BY <2>3, <2>4
  <2> HIDE DEF x, y, z
  <2> DEFINE w == z - (x + y)
  <2>9. w \in Nat /\ x + y \in Nat /\ z = (x + y) + w
    BY <2>6, <2>7
  <2> HIDE DEF w
  <2>10. /\ Scaled(x, h, l) \in Nat /\ Scaled(x, h, l) <= x
         /\ Scaled(x, h, l) + Scaled(y, h, l) <= Scaled(x + y, h, l)
    BY <2>5, <2>6, ScaledAdds
  <2>11. Scaled(y, h, l) \in Nat
    BY <2>5, <2>6, ScaledAdds
  <2>12. /\ Scaled(x + y, h, l) \in Nat
         /\ Scaled(x + y, h, l) + Scaled(w, h, l) <= Scaled(z, h, l)
    BY <2>5, <2>9, ScaledAdds
  <2>13. Scaled(w, h, l) \in Nat
    BY <2>5, <2>9, ScaledAdds
  <2>14. Scaled(z, h, l) \in Nat
    BY <2>5, <2>7, ScaledAdds
  <2>15. QED BY <2>6, <2>8, <2>10, <2>11, <2>12, <2>13, <2>14
<1>3. QED BY <1>1, <1>2

\* All rows but the first lose 1024 of the greatest sum.
LEMMA RowsLose ==
  ASSUME NEW r \in 1..31
  PROVE  Scaled(47742, InvHigh[r + 1], InvLow[r + 1]) <= 46718
<1> DEFINE h == InvHigh[r + 1]
           l == InvLow[r + 1]
<1>1. h \in Half /\ l \in Half
  BY TableRows
<1>2. h <= 62757 \/ (h = 64131 /\ l = 45786)
  <2> DEFINE k == r + 1
  <2>0. k \in 2..32
    OBVIOUS
  <2> HIDE DEF k
  <2>1. CASE k = 2
    <3>1. InvHigh[2] = 64131 /\ InvLow[2] = 45786
      BY SMT DEF InvHigh, InvLow
    <3>2. QED BY <2>1, <3>1 DEF k
  <2>2. CASE k \in 3..12
    <3>1. /\ InvHigh[3] <= 62757 /\ InvHigh[4] <= 62757 /\ InvHigh[5] <= 62757
          /\ InvHigh[6] <= 62757 /\ InvHigh[7] <= 62757 /\ InvHigh[8] <= 62757
          /\ InvHigh[9] <= 62757 /\ InvHigh[10] <= 62757 /\ InvHigh[11] <= 62757
          /\ InvHigh[12] <= 62757
      BY SMT DEF InvHigh
    <3>2. InvHigh[k] <= 62757
      BY <2>2, <3>1
    <3>3. QED BY <3>2 DEF k
  <2>3. CASE k \in 13..22
    <3>1. /\ InvHigh[13] <= 62757 /\ InvHigh[14] <= 62757 /\ InvHigh[15] <= 62757
          /\ InvHigh[16] <= 62757 /\ InvHigh[17] <= 62757 /\ InvHigh[18] <= 62757
          /\ InvHigh[19] <= 62757 /\ InvHigh[20] <= 62757 /\ InvHigh[21] <= 62757
          /\ InvHigh[22] <= 62757
      BY SMT DEF InvHigh
    <3>2. InvHigh[k] <= 62757
      BY <2>3, <3>1
    <3>3. QED BY <3>2 DEF k
  <2>4. CASE k \in 23..32
    <3>1. /\ InvHigh[23] <= 62757 /\ InvHigh[24] <= 62757 /\ InvHigh[25] <= 62757
          /\ InvHigh[26] <= 62757 /\ InvHigh[27] <= 62757 /\ InvHigh[28] <= 62757
          /\ InvHigh[29] <= 62757 /\ InvHigh[30] <= 62757 /\ InvHigh[31] <= 62757
          /\ InvHigh[32] <= 62757
      BY SMT DEF InvHigh
    <3>2. InvHigh[k] <= 62757
      BY <2>4, <3>1
    <3>3. QED BY <3>2 DEF k
  <2>5. k = 2 \/ k \in 3..12 \/ k \in 13..22 \/ k \in 23..32
    BY <2>0
  <2>6. QED BY <2>1, <2>2, <2>3, <2>4, <2>5
<1> HIDE DEF h, l
<1>3. (47742 * h + (47742 * l) \div 65536) \div 65536 <= 46718
  BY <1>1, <1>2 DEF Half
<1>4. QED BY <1>3 DEF Scaled, h, l

\* After one period at least, the greatest sum has lost a period: its numbers first.
LEMMA DecayLoses ==
  ASSUME NEW m \in Nat, NEW n \in Nat, n # 0
  PROVE  m = 47742 => Decay(m, n) <= 46718
<1>1. CASE n >= 512
  BY <1>1 DEF Decay, LOAD_AVG_PERIOD
<1>2. CASE n < 512
  <2> DEFINE q == HalvingOf(n)
             r == RowOf(n)
             x == m \div Halvings[q]
             h == InvHigh[r + 1]
             l == InvLow[r + 1]
  <2>1. n < 512
    BY <1>2
  <2>2. q \in 1..16 /\ r \in 0..31 /\ (q = 1 => r \in 1..31)
    BY <2>1, RowAndHalving
  <2>3. Decay(m, n) = Scaled(x, h, l)
    BY <2>1, DecayIs
  <2>4. h \in Half /\ l \in Half
    BY <2>2, TableRows
  <2> HIDE DEF q, r
  <2> SUFFICES ASSUME m = 47742  PROVE Decay(m, n) <= 46718
    OBVIOUS
  <2>5. x \in Nat /\ (IF q = 1 THEN x = 47742 ELSE x <= 23871)
    BY <2>2, HalvingHalves
  <2> HIDE DEF x
  <2>6. Scaled(x, h, l) <= 46718
    <3>1. CASE q = 1
      BY <2>2, <2>5, <3>1, RowsLose
    <3>2. CASE q # 1
      <4> HIDE DEF h, l
      <4>1. Scaled(x, h, l) \in Nat /\ Scaled(x, h, l) <= x
        BY <2>4, <2>5, ScaledAdds
      <4>2. QED BY <2>5, <3>2, <4>1
    <3>3. QED BY <3>1, <3>2
  <2> HIDE DEF h, l
  <2>7. QED BY <2>3, <2>6
<1>3. QED BY <1>1, <1>2

\* After one period at least, the greatest sum has lost a period.
LEMMA DecayWhole ==
  ASSUME NEW n \in Nat, n # 0
  PROVE  Decay(LOAD_AVG_MAX, n) <= LOAD_AVG_MAX - LOADTRACK_PERIOD_US
<1>1. LOAD_AVG_MAX \in Nat /\ LOAD_AVG_MAX = 47742 /\ LOADTRACK_PERIOD_US = 1024
  BY DEF LOAD_AVG_MAX, LOADTRACK_PERIOD_US
<1>2. Decay(LOAD_AVG_MAX, n) <= 46718
  BY <1>1, DecayLoses
<1>3. QED BY <1>1, <1>2

----------------------------------------------------------------------------
(* The types.                                                              *)

Contribs == {x \in Nat : x < LOADTRACK_PERIOD_US}
Sums     == {x \in Nat : x <= LOAD_AVG_MAX}
Averages == {x \in Nat : x <= 1046}  \* what the greatest sum scales to, at most
Loads    == [enqueue : Nat, snap : {"unset", "same", "older"}, waited : Nat,
             lastRunning : Nat, lastUpdate : Nat, contrib : Contribs, sum : Sums,
             avg : Averages, lastAvg : Averages, est : Averages]
Clocks   == [clock : Nat \ {0}, slow : BOOLEAN]
Infos    == [ran : BOOLEAN, arrival : Nat, queued : Nat]

LoadTypeOK ==
  /\ cpu \in Clocks /\ info \in Infos /\ ld \in Loads
  /\ at \in {"cpu", "queue", "off"} /\ state \in {"R", "S"} /\ caught \in BOOLEAN
  /\ steps \in Nat
  /\ ld.enqueue <= cpu.clock /\ ld.lastUpdate <= cpu.clock
  /\ info.arrival <= cpu.clock /\ info.queued <= cpu.clock

----------------------------------------------------------------------------
(* accumulate_loading.                                                     *)

\* The constants, as far as the proofs need them.
LEMMA LoadConstants ==
  LOAD_AVG_MAX \in Nat /\ LOADTRACK_PERIOD_US \in Nat
  /\ 0 < LOADTRACK_PERIOD_US /\ LOADTRACK_PERIOD_US < LOAD_AVG_MAX
BY DEF LOAD_AVG_MAX, LOADTRACK_PERIOD_US

\* Whole periods and the rest.
LEMMA PeriodSplit ==
  ASSUME NEW d \in Nat
  PROVE  /\ d \div LOADTRACK_PERIOD_US \in Nat /\ d % LOADTRACK_PERIOD_US \in Contribs
         /\ d \div LOADTRACK_PERIOD_US = 0 => d % LOADTRACK_PERIOD_US = d
BY DEF LOADTRACK_PERIOD_US, Contribs

\* What a task earns over the periods that ended, on top of what is left of its sum,
\* is no more than one that was active all the time has.
LEMMA EarnedFits ==
  ASSUME NEW contrib \in Contribs, NEW n \in Nat, n # 0, NEW rest \in Contribs,
         NEW sum \in Nat
  PROVE  /\ Decay(sum, n) \in Nat /\ Decay(sum, n) <= sum
         /\ Earned(contrib, n, rest) \in Nat
         /\ sum <= LOAD_AVG_MAX - LOADTRACK_PERIOD_US + contrib =>
              /\ Decay(sum, n) <= LOAD_AVG_MAX - LOADTRACK_PERIOD_US + rest
              /\ Decay(sum, n) + Earned(contrib, n, rest)
                   <= LOAD_AVG_MAX - LOADTRACK_PERIOD_US + rest
<1> DEFINE M == LOAD_AVG_MAX
           P == LOADTRACK_PERIOD_US
           k == P - contrib
<1>1. M \in Nat /\ P \in Nat /\ 0 < P /\ P < M
  BY LoadConstants
<1>2. contrib \in Nat /\ contrib < P /\ rest \in Nat /\ rest < P
  BY DEF Contribs
<1> HIDE DEF M, P
<1>3. k \in Nat
  BY <1>1, <1>2
<1>4. Decay(sum, n) \in Nat /\ Decay(sum, n) <= sum
  BY DecayAdds
<1>5. Decay(k, n) \in Nat
  BY <1>3, DecayAdds
<1>6. Decay(M, n) \in Nat
  BY <1>1, DecayAdds
<1>7. Decay(M, n) <= M - P
  BY DecayWhole DEF M, P
<1>8. Earned(contrib, n, rest) = Decay(k, n) + M - Decay(M, n) - P + rest
  BY DEF Earned, M, P
<1> HIDE DEF k
<1>9. Earned(contrib, n, rest) \in Nat
  BY <1>1, <1>2, <1>5, <1>6, <1>7, <1>8
<1>10. ASSUME sum <= M - P + contrib
       PROVE  Decay(sum, n) <= M - P + rest
              /\ Decay(sum, n) + Earned(contrib, n, rest) <= M - P + rest
  <2> DEFINE w == M - (sum + k)
  <2>1. w \in Nat /\ M = (sum + k) + w /\ sum + k \in Nat
    BY <1>1, <1>2, <1>3, <1>10 DEF k
  <2> HIDE DEF w
  <2>2. Decay(sum, n) + Decay(k, n) <= Decay(sum + k, n)
    BY <1>3, DecayAdds
  <2>3. Decay(sum + k, n) \in Nat /\ Decay(sum + k, n) + Decay(w, n) <= Decay(sum + k + w, n)
    BY <2>1, DecayAdds
  <2>4. Decay(w, n) \in Nat
    BY <2>1, DecayAdds
  <2>5. Decay(sum, n) + Decay(k, n) <= Decay(M, n)
    BY <1>4, <1>5, <1>6, <2>1, <2>2, <2>3, <2>4
  <2>6. QED BY <1>1, <1>2, <1>4, <1>5, <1>6, <1>7, <1>8, <2>5
<1>11. QED BY <1>4, <1>9, <1>10 DEF M, P

\* A slower CPU's time is no longer than the clock's, and a shorter one stays shorter.
LEMMA TimeScaleFits ==
  ASSUME NEW t \in Nat, NEW u \in Nat, NEW on \in Clocks
  PROVE  /\ TimeScale(t, on) \in Nat /\ (t = 0 => TimeScale(t, on) = 0)
         /\ u <= t => TimeScale(u, on) <= TimeScale(t, on)
BY DEF TimeScale

\* A quotient is no more than a bound its divisor times the bound covers.
LEMMA QuotientFits ==
  ASSUME NEW a \in Nat, NEW d \in Nat, 0 < d, NEW b \in Nat
  PROVE  a \div d \in Nat /\ (a < d * b + d => a \div d <= b)
<1>1. a \div d \in Nat /\ a % d \in Nat /\ a = d * (a \div d) + (a % d)
  OBVIOUS
<1>2. ASSUME a \div d > b  PROVE a >= d * b + d
  <2> DEFINE q == a \div d
  <2>1. q \in Nat /\ q >= b + 1 /\ a >= d * q
    BY <1>1, <1>2
  <2> HIDE DEF q
  <2>2. PICK e \in Nat : q = (b + 1) + e
    <3>1. q - (b + 1) \in Nat /\ q = (b + 1) + (q - (b + 1))
      BY <2>1
    <3>2. QED BY <3>1
  <2>3. d * ((b + 1) + e) = d * b + d + d * e
    OBVIOUS
  <2>4. d * e \in Nat /\ d * b \in Nat
    OBVIOUS
  <2>5. QED BY <2>1, <2>2, <2>3, <2>4
<1>3. d * b \in Nat
  OBVIOUS
<1>4. QED BY <1>1, <1>2, <1>3

\* trans_scale_load stays on its scale of 1024 for a sum that does, and near it for
\* every sum.
LEMMA ScaleLoadFits ==
  ASSUME NEW sum \in Sums, NEW contrib \in Contribs
  PROVE  /\ ScaleLoad(sum, contrib) \in Averages
         /\ sum <= LOAD_AVG_MAX - LOADTRACK_PERIOD_US + contrib => ScaleLoad(sum, contrib) <= 1024
<1> DEFINE d == LOAD_AVG_MAX - LOADTRACK_PERIOD_US + contrib
<1>1. d \in Nat /\ 0 < d /\ sum \in Nat
  BY LoadConstants DEF Contribs, Sums
<1>2. sum <= 47742 /\ 46718 <= d
  BY DEF Contribs, Sums, LOAD_AVG_MAX, LOADTRACK_PERIOD_US
<1> HIDE DEF d
<1>3. sum * 1024 \in Nat /\ (sum <= d => sum * 1024 <= d * 1024) /\ sum * 1024 < d * 1046 + d
  <2>1. sum * 1024 \in Nat /\ (sum <= d => sum * 1024 <= d * 1024)
    BY <1>1
  <2>2. sum * 1024 <= 47742 * 1024 /\ 46718 * 1047 <= d * 1047
    BY <1>1, <1>2
  <2>3. 47742 * 1024 < 46718 * 1047 /\ d * 1047 = d * 1046 + d
    BY <1>1
  <2>4. QED BY <1>1, <2>1, <2>2, <2>3
<1>4. /\ (sum * 1024) \div d \in Nat
      /\ sum * 1024 < d * 1024 + d => (sum * 1024) \div d <= 1024
      /\ sum * 1024 < d * 1046 + d => (sum * 1024) \div d <= 1046
  BY <1>1, <1>3, QuotientFits
<1>5. (sum * 1024) \div d \in Averages
  BY <1>3, <1>4 DEF Averages
<1>6. QED BY <1>1, <1>3, <1>4, <1>5 DEF ScaleLoad, d

\* accumulate_loading, one call.  It leaves the stamps of others alone; a charge of no
\* more than the time since the last update keeps the load bounded; and without a
\* charge the sum does not grow.
LEMMA AccumulateFacts ==
  ASSUME NEW l \in Loads, NEW c \in Nat, NEW tiny \in BOOLEAN, NEW on \in Clocks,
         l.lastUpdate <= on.clock
  PROVE  LET m == Accumulate(l, c, tiny, on)
         IN  /\ m \in Loads
             /\ m.enqueue = l.enqueue /\ m.snap = l.snap /\ m.waited = l.waited
             /\ m.lastRunning = l.lastRunning
             /\ m.lastUpdate = l.lastUpdate \/ m.lastUpdate = on.clock
             /\ c <= on.clock - l.lastUpdate /\ OnScale(l) => OnScale(m)
             /\ c = 0 /\ ~tiny => m.sum <= l.sum
<1> DEFINE P == LOADTRACK_PERIOD_US
           M == LOAD_AVG_MAX
           scaled == TimeScale(c, on)
           idle   == Idle(c, tiny, on)
           passed == TimeScale(on.clock - l.lastUpdate, on)
           delta  == passed + l.contrib
           n      == delta \div P
           rest   == delta % P
           earned == IF idle THEN 0 ELSE Earned(l.contrib, n, rest)
           load   == IF n = 0 THEN l.sum + scaled ELSE Decay(l.sum, n) + earned
           sum    == IF load > M THEN M ELSE load
           avg    == IF n = 0 THEN l.avg ELSE ScaleLoad(sum, rest)
           r == [l EXCEPT !.lastUpdate = on.clock, !.contrib = rest, !.sum = sum, !.avg = avg]
           m == Accumulate(l, c, tiny, on)
<1>1. l.contrib \in Contribs /\ l.contrib \in Nat /\ l.sum \in Nat /\ l.sum <= M
      /\ l.avg \in Nat /\ on.clock \in Nat /\ l.lastUpdate \in Nat
  BY DEF Loads, Clocks, Contribs, Sums, Averages
<1>2. on.clock - l.lastUpdate \in Nat
  BY <1>1
<1>3. M \in Nat /\ P \in Nat /\ 0 < P /\ P < M
  BY LoadConstants
<1>4. m = l \/ m = r
  BY DEF Accumulate
<1>5. scaled \in Nat /\ (c = 0 => scaled = 0)
  BY TimeScaleFits
<1>6. passed \in Nat /\ (c <= on.clock - l.lastUpdate => scaled <= passed)
  BY <1>2, TimeScaleFits
<1> HIDE DEF scaled, passed, r, m
<1>7. delta \in Nat
  BY <1>1, <1>6
<1> HIDE DEF delta
<1>8. n \in Nat /\ rest \in Contribs /\ (n = 0 => rest = delta)
  BY <1>7, PeriodSplit
<1> HIDE DEF P, M, n, rest
<1>9. rest \in Nat /\ rest < P
  BY <1>8 DEF Contribs, P
<1>10. n # 0 => /\ Decay(l.sum, n) \in Nat /\ Decay(l.sum, n) <= l.sum
                /\ earned \in Nat
                /\ l.sum <= M - P + l.contrib => Decay(l.sum, n) + earned <= M - P + rest
  <2> SUFFICES ASSUME n # 0
               PROVE /\ Decay(l.sum, n) \in Nat /\ Decay(l.sum, n) <= l.sum
                     /\ earned \in Nat
                     /\ l.sum <= M - P + l.contrib => Decay(l.sum, n) + earned <= M - P + rest
    OBVIOUS
  <2> DEFINE e == Earned(l.contrib, n, rest)
             y == Decay(l.sum, n)
  <2>1. y \in Nat /\ y <= l.sum /\ e \in Nat
        /\ (l.sum <= M - P + l.contrib => y <= M - P + rest /\ y + e <= M - P + rest)
    BY <1>1, <1>8, EarnedFits DEF M, P
  <2> HIDE DEF e, y
  <2>2. earned = e \/ earned = 0
    BY DEF e
  <2> HIDE DEF earned
  <2>3. earned \in Nat /\ (l.sum <= M - P + l.contrib => y + earned <= M - P + rest)
    BY <2>1, <2>2
  <2>4. QED BY <2>1, <2>3 DEF y
<1>11. load \in Nat
  BY <1>1, <1>5, <1>10
<1>12. sum \in Nat /\ sum <= M /\ sum <= load
  BY <1>3, <1>11
<1>13. c <= on.clock - l.lastUpdate /\ l.sum <= M - P + l.contrib => sum <= M - P + rest
  <2> HAVE c <= on.clock - l.lastUpdate /\ l.sum <= M - P + l.contrib
  <2>1. CASE n = 0
    <3>1. load = l.sum + scaled /\ rest = passed + l.contrib
      BY <2>1, <1>8 DEF delta
    <3>2. QED BY <3>1, <1>1, <1>3, <1>5, <1>6, <1>9, <1>12
  <2>2. CASE n # 0
    <3>1. load <= M - P + rest
      BY <2>2, <1>10
    <3>2. QED BY <3>1, <1>3, <1>9, <1>11, <1>12
  <2>3. QED BY <2>1, <2>2
<1>14. c = 0 /\ ~tiny => sum <= l.sum
  <2> HAVE c = 0 /\ ~tiny
  <2>1. idle
    BY DEF Idle
  <2>2. load <= l.sum
    BY <2>1, <1>1, <1>5, <1>10
  <2>3. QED BY <2>2, <1>1, <1>11, <1>12
<1> HIDE DEF load, sum, earned
<1>15. sum \in Sums
  BY <1>12 DEF Sums, M
<1>16. avg \in Averages /\ (l.avg <= 1024 /\ sum <= M - P + rest => avg <= 1024)
  <2>1. CASE n = 0
    BY <2>1 DEF Loads
  <2>2. CASE n # 0
    <3>1. ScaleLoad(sum, rest) \in Averages
          /\ (sum <= M - P + rest => ScaleLoad(sum, rest) <= 1024)
      BY <1>8, <1>15, ScaleLoadFits DEF M, P
    <3>2. QED BY <2>2, <3>1
  <2>3. QED BY <2>1, <2>2
<1> HIDE DEF avg
<1>17. r \in Loads
  BY <1>1, <1>8, <1>15, <1>16, ZenonT(30) DEF Loads, r
<1>18. /\ r.enqueue = l.enqueue /\ r.snap = l.snap /\ r.waited = l.waited
       /\ r.lastRunning = l.lastRunning /\ r.lastUpdate = on.clock
       /\ r.sum = sum /\ r.contrib = rest /\ r.avg = avg /\ r.lastAvg = l.lastAvg
       /\ r.est = l.est
  BY DEF Loads, r
<1>19. c <= on.clock - l.lastUpdate /\ OnScale(l) => OnScale(r)
  BY <1>13, <1>16, <1>18 DEF OnScale, M, P
<1>20. CASE m = l
  BY <1>20, <1>1 DEF m
<1>21. CASE m = r
  BY <1>21, <1>14, <1>17, <1>18, <1>19 DEF m
<1>22. QED BY <1>4, <1>20, <1>21

\* update_load_est: only the estimate and what it was last compared with change.
LEMMA UpdateEstFacts ==
  ASSUME NEW l \in Loads
  PROVE  LET m == UpdateEst(l)
         IN  /\ m \in Loads
             /\ m.enqueue = l.enqueue /\ m.snap = l.snap /\ m.waited = l.waited
             /\ m.lastRunning = l.lastRunning /\ m.lastUpdate = l.lastUpdate
             /\ m.sum = l.sum
             /\ OnScale(l) => OnScale(m)
<1> DEFINE e == (4 * l.est + l.avg - l.est) \div 4
           r == [l EXCEPT !.est = l.avg]
           s == [l EXCEPT !.lastAvg = l.avg, !.est = e]
<1>1. l.est \in Averages /\ l.avg \in Averages
  BY DEF Loads
<1>2. e \in Averages /\ (l.est <= 1024 /\ l.avg <= 1024 => e <= 1024)
  <2>1. l.est \in Nat /\ l.avg \in Nat /\ l.est <= 1046 /\ l.avg <= 1046
    BY <1>1 DEF Averages
  <2>2. /\ e \in Nat /\ e <= 1046
        /\ l.est <= 1024 /\ l.avg <= 1024 => e <= 1024
    BY <2>1
  <2>3. QED BY <2>2 DEF Averages
<1>3. UpdateEst(l) = l \/ UpdateEst(l) = r \/ UpdateEst(l) = s
  BY DEF UpdateEst
<1> HIDE DEF e
<1>4. CASE UpdateEst(l) = l
  BY <1>4
<1>5. CASE UpdateEst(l) = r
  <2>1. r \in Loads
    BY <1>1 DEF Loads
  <2>2. /\ r.enqueue = l.enqueue /\ r.snap = l.snap /\ r.waited = l.waited
        /\ r.lastRunning = l.lastRunning /\ r.lastUpdate = l.lastUpdate
        /\ r.sum = l.sum /\ r.contrib = l.contrib /\ r.avg = l.avg
        /\ r.lastAvg = l.lastAvg /\ r.est = l.avg
    BY DEF Loads
  <2> HIDE DEF r
  <2>3. OnScale(l) => OnScale(r)
    BY <1>1, <2>2 DEF OnScale, Averages
  <2>4. QED BY <1>5, <2>1, <2>2, <2>3
<1>6. CASE UpdateEst(l) = s
  <2>1. s \in Loads
    BY <1>1, <1>2, ZenonT(30) DEF Loads
  <2>2. /\ s.enqueue = l.enqueue /\ s.snap = l.snap /\ s.waited = l.waited
        /\ s.lastRunning = l.lastRunning /\ s.lastUpdate = l.lastUpdate
        /\ s.sum = l.sum /\ s.contrib = l.contrib /\ s.avg = l.avg
        /\ s.lastAvg = l.avg /\ s.est = e
    BY DEF Loads
  <2> HIDE DEF s
  <2>3. OnScale(l) => OnScale(s)
    BY <1>1, <1>2, <2>2 DEF OnScale, Averages
  <2>4. QED BY <1>6, <2>1, <2>2, <2>3
<1>7. QED BY <1>3, <1>4, <1>5, <1>6

----------------------------------------------------------------------------
(* get_task_time.                                                          *)

\* A time is a number, whatever the stamps are.
LEMMA TimeIsNat ==
  ASSUME NEW l \in Loads, NEW i \in Infos, NEW now \in Nat, NEW scene
  PROVE  get_task_time(scene, l, i, now) \in Nat
<1> DEFINE a == Since(now, i.arrival)
           e == Since(now, l.enqueue)
           q == Since(now, i.queued)
           w == l.waited
<1>1. l.waited \in Nat /\ l.enqueue \in Nat /\ i.arrival \in Nat /\ i.queued \in Nat
  BY DEF Loads, Infos
<1>2. \A t \in Nat : Since(now, t) \in Nat
  BY DEF Since, Wrapped
<1>3. a \in Nat /\ e \in Nat /\ q \in Nat /\ w \in Nat
  BY <1>1, <1>2
<1>4. \A b, v \in Nat : Total(b, v) \in Nat
  BY DEF Total
<1>5. Total(a, w) \in Nat /\ Total(e, w) \in Nat /\ Total(e, q + w) \in Nat
  <2> HIDE DEF a, e, q, w
  <2>1. q + w \in Nat
    BY <1>3
  <2>2. QED BY <1>3, <1>4, <2>1
<1>6. get_task_time(scene, l, i, now) \in {Total(a, w), Total(e, w), Total(e, q + w), e, 0}
  BY DEF get_task_time
<1>7. QED BY <1>3, <1>5, <1>6

\* A wait that fits is not counted twice.
LEMMA WaitFits ==
  ASSUME NEW now \in Nat, NEW t \in Nat, NEW w \in Nat, t + w <= now
  PROVE  Since(now, t) = now - t /\ Total(Since(now, t), w) = now - t
BY DEF Since, Total

\* In every scene but "waking" the time of a task whose stamps fit is the time since it
\* was put on the run queue.
LEMMA TimeSinceEnqueue ==
  ASSUME NEW l \in Loads, NEW i \in Infos, NEW now \in Nat,
         l.enqueue # 0, l.enqueue + l.waited <= now,
         NEW scene \in {"running", "switching", "migrating", "runnable"},
         scene = "running" => l.enqueue <= i.arrival,
         scene = "runnable" /\ l.snap # "same" =>
            i.queued # 0 /\ i.queued <= now /\ l.enqueue + l.waited <= i.queued
  PROVE  get_task_time(scene, l, i, now) = now - l.enqueue
<1>1. l.waited \in Nat /\ l.enqueue \in Nat /\ i.arrival \in Nat /\ i.queued \in Nat
  BY DEF Loads, Infos
<1>2. Since(now, l.enqueue) = now - l.enqueue
      /\ Total(Since(now, l.enqueue), l.waited) = now - l.enqueue
  BY <1>1, WaitFits
<1>3. CASE scene = "running"
  BY <1>2, <1>3 DEF get_task_time
<1>4. CASE scene \in {"switching", "migrating"}
  BY <1>2, <1>4 DEF get_task_time
<1>5. CASE scene = "runnable" /\ l.snap = "same"
  BY <1>2, <1>5 DEF get_task_time
<1>6. CASE scene = "runnable" /\ l.snap # "same"
  <2> DEFINE v == Since(now, i.queued) + l.waited
  <2>1. get_task_time(scene, l, i, now) = Total(Since(now, l.enqueue), v)
    BY <1>6 DEF get_task_time
  <2>2. Since(now, i.queued) = now - i.queued
    BY <1>1, <1>6 DEF Since
  <2>3. v \in Nat /\ l.enqueue + v <= now
    BY <2>2, <1>1, <1>6
  <2> HIDE DEF v
  <2>4. Total(Since(now, l.enqueue), v) = now - l.enqueue
    BY <1>1, <2>3, WaitFits
  <2>5. QED BY <2>1, <2>4
<1>7. QED BY <1>3, <1>4, <1>5, <1>6

----------------------------------------------------------------------------
(* update_task_loading.                                                    *)

\* The charged part of an update.
LEMMA ChargeFacts ==
  ASSUME NEW l \in Loads, NEW i \in Infos, NEW on \in Clocks, NEW scene, NEW path, NEW st,
         l.lastUpdate <= on.clock
  PROVE  LET m     == Charge(l, scene, path, st, i, on)
             total == get_task_time(scene, l, i, on.clock)
         IN  /\ m \in Loads
             /\ m.enqueue = l.enqueue /\ m.snap = l.snap /\ m.waited = l.waited
             /\ m.lastRunning = total /\ total \in Nat
             /\ m.lastUpdate = l.lastUpdate \/ m.lastUpdate = on.clock
             /\ OnScale(l) /\ total - l.lastRunning <= on.clock - l.lastUpdate => OnScale(m)
             /\ total = 0 => m.sum <= l.sum
<1> DEFINE total == get_task_time(scene, l, i, on.clock)
           c     == IF total > l.lastRunning THEN total - l.lastRunning ELSE 0
           tiny  == total # 0 /\ c = 0
           s     == [l EXCEPT !.lastRunning = total]
           after == Accumulate(s, c, tiny, on)
           m     == Charge(l, scene, path, st, i, on)
<1>1. l.lastRunning \in Nat /\ l.lastUpdate \in Nat /\ on.clock \in Nat
  BY DEF Loads, Clocks
<1>2. total \in Nat
  BY <1>1, TimeIsNat
<1>3. m = after \/ m = UpdateEst(after)
  BY DEF Charge
<1> HIDE DEF total
<1>4. c \in Nat /\ (total - l.lastRunning <= on.clock - l.lastUpdate
                      => c <= on.clock - l.lastUpdate)
  BY <1>1, <1>2
<1>5. total = 0 => c = 0 /\ ~tiny
  BY <1>1, <1>2
<1>6. tiny \in BOOLEAN
  OBVIOUS
<1>7. /\ s \in Loads /\ s.enqueue = l.enqueue /\ s.snap = l.snap /\ s.waited = l.waited
      /\ s.lastRunning = total /\ s.lastUpdate = l.lastUpdate /\ s.sum = l.sum
      /\ s.contrib = l.contrib /\ s.avg = l.avg /\ s.lastAvg = l.lastAvg /\ s.est = l.est
  BY <1>2 DEF Loads
<1> HIDE DEF c, tiny, s
<1>8. OnScale(l) => OnScale(s)
  BY <1>7 DEF OnScale
<1>9. s.lastUpdate <= on.clock
  BY <1>7
<1>10. /\ after \in Loads
       /\ after.enqueue = s.enqueue /\ after.snap = s.snap /\ after.waited = s.waited
       /\ after.lastRunning = s.lastRunning
       /\ after.lastUpdate = s.lastUpdate \/ after.lastUpdate = on.clock
       /\ c <= on.clock - s.lastUpdate /\ OnScale(s) => OnScale(after)
       /\ c = 0 /\ ~tiny => after.sum <= s.sum
  BY <1>4, <1>6, <1>7, <1>9, AccumulateFacts
<1> HIDE DEF after, m
<1>11. /\ UpdateEst(after) \in Loads
       /\ UpdateEst(after).enqueue = after.enqueue /\ UpdateEst(after).snap = after.snap
       /\ UpdateEst(after).waited = after.waited
       /\ UpdateEst(after).lastRunning = after.lastRunning
       /\ UpdateEst(after).lastUpdate = after.lastUpdate
       /\ UpdateEst(after).sum = after.sum
       /\ OnScale(after) => OnScale(UpdateEst(after))
  BY <1>10, UpdateEstFacts
<1>12. CASE m = after
  BY <1>2, <1>4, <1>5, <1>7, <1>8, <1>10, <1>12 DEF m, total
<1>13. CASE m = UpdateEst(after)
  BY <1>2, <1>4, <1>5, <1>7, <1>8, <1>10, <1>11, <1>13 DEF m, total
<1>14. QED BY <1>3, <1>12, <1>13

\* The part of an update after the wake-up record and before the one of a leave.
ChargedLoad(l, scene, path, st, i, on) ==
  IF l.snap = "unset" THEN l
  ELSE IF l.lastUpdate = 0 THEN [l EXCEPT !.lastUpdate = on.clock]
  ELSE IF on.clock - l.lastUpdate < UPDATE_GRAN_US THEN l
  ELSE Charge(l, scene, path, st, i, on)

\* What it changes, when it keeps the load bounded, and that it adds nothing for no time.
LEMMA ChargedLoadFacts ==
  ASSUME NEW l \in Loads, NEW i \in Infos, NEW on \in Clocks, NEW scene, NEW path, NEW st,
         l.lastUpdate <= on.clock
  PROVE  LET m     == ChargedLoad(l, scene, path, st, i, on)
             total == get_task_time(scene, l, i, on.clock)
         IN  /\ m \in Loads
             /\ m.enqueue = l.enqueue /\ m.snap = l.snap /\ m.waited = l.waited
             /\ m.lastUpdate = l.lastUpdate \/ m.lastUpdate = on.clock
             /\ l.snap = "unset" => m = l
             /\ l.snap # "unset" =>
                  /\ m.lastUpdate # 0
                  /\ \/ m.lastUpdate = l.lastUpdate /\ m.lastRunning = l.lastRunning
                     \/ m.lastRunning = total
                     \/ l.lastUpdate = 0
                  /\ \/ m.lastRunning = total
                     \/ on.clock - m.lastUpdate < UPDATE_GRAN_US
             /\ OnScale(l) /\ (l.snap # "unset" /\ l.lastUpdate # 0
                               /\ UPDATE_GRAN_US <= on.clock - l.lastUpdate
                                => total - l.lastRunning <= on.clock - l.lastUpdate)
                  => OnScale(m)
             /\ total = 0 => m.sum <= l.sum
<1> DEFINE total == get_task_time(scene, l, i, on.clock)
           m     == ChargedLoad(l, scene, path, st, i, on)
           s     == [l EXCEPT !.lastUpdate = on.clock]
           g     == Charge(l, scene, path, st, i, on)
<1>1. l.lastRunning \in Nat /\ l.lastUpdate \in Nat /\ on.clock \in Nat /\ on.clock # 0
      /\ UPDATE_GRAN_US = 10 /\ l.sum \in Nat
  BY DEF Loads, Clocks, UPDATE_GRAN_US, Sums
<1>2. /\ s \in Loads /\ s.enqueue = l.enqueue /\ s.snap = l.snap /\ s.waited = l.waited
      /\ s.lastRunning = l.lastRunning /\ s.lastUpdate = on.clock /\ s.sum = l.sum
      /\ s.contrib = l.contrib /\ s.avg = l.avg /\ s.lastAvg = l.lastAvg /\ s.est = l.est
  BY <1>1 DEF Loads
<1>3. /\ g \in Loads
      /\ g.enqueue = l.enqueue /\ g.snap = l.snap /\ g.waited = l.waited
      /\ g.lastRunning = total /\ total \in Nat
      /\ g.lastUpdate = l.lastUpdate \/ g.lastUpdate = on.clock
      /\ OnScale(l) /\ total - l.lastRunning <= on.clock - l.lastUpdate => OnScale(g)
      /\ total = 0 => g.sum <= l.sum
  BY ChargeFacts
<1> HIDE DEF s, g, total
<1>4. OnScale(l) => OnScale(s)
  BY <1>2 DEF OnScale
<1>5. CASE l.snap = "unset"
  <2>1. m = l
    BY <1>5 DEF ChargedLoad
  <2> HIDE DEF m
  <2>2. QED BY <1>1, <1>5, <2>1 DEF m, total
<1>6. CASE l.snap # "unset" /\ l.lastUpdate = 0
  <2>1. m = s
    BY <1>6 DEF ChargedLoad, s
  <2>2. on.clock - s.lastUpdate < UPDATE_GRAN_US
    BY <1>1, <1>2
  <2> HIDE DEF m
  <2>3. QED BY <1>1, <1>2, <1>4, <1>6, <2>1, <2>2 DEF m, total
<1>7. CASE l.snap # "unset" /\ l.lastUpdate # 0 /\ on.clock - l.lastUpdate < UPDATE_GRAN_US
  <2>1. m = l
    BY <1>7 DEF ChargedLoad
  <2> HIDE DEF m
  <2>2. QED BY <1>1, <1>7, <2>1 DEF m, total
<1>8. CASE l.snap # "unset" /\ l.lastUpdate # 0
           /\ ~(on.clock - l.lastUpdate < UPDATE_GRAN_US)
  <2>1. m = g
    BY <1>8 DEF ChargedLoad, g
  <2> HIDE DEF m
  <2>2. g.lastUpdate # 0
    BY <1>1, <1>3, <1>8
  <2>3. UPDATE_GRAN_US <= on.clock - l.lastUpdate
    BY <1>1, <1>8
  <2>4. QED BY <1>1, <1>3, <1>8, <2>1, <2>2, <2>3 DEF m, total
<1>9. QED BY <1>5, <1>6, <1>7, <1>8

\* A record of the time the task was put on the run queue.
LEMMA RecordFacts ==
  ASSUME NEW l \in Loads, NEW t \in Nat
  PROVE  LET m == Record(l, t)
         IN  /\ m \in Loads /\ m.enqueue = t /\ m.snap = "same" /\ m.waited = 0
             /\ m.lastRunning = l.lastRunning /\ m.lastUpdate = l.lastUpdate
             /\ m.sum = l.sum
             /\ OnScale(l) => OnScale(m)
<1> DEFINE m == Record(l, t)
<1>1. /\ m \in Loads /\ m.enqueue = t /\ m.snap = "same" /\ m.waited = 0
      /\ m.lastRunning = l.lastRunning /\ m.lastUpdate = l.lastUpdate
      /\ m.sum = l.sum /\ m.contrib = l.contrib /\ m.avg = l.avg /\ m.lastAvg = l.lastAvg
      /\ m.est = l.est
  BY DEF Record, Loads
<1> HIDE DEF m
<1>2. OnScale(l) => OnScale(m)
  BY <1>1 DEF OnScale
<1>3. QED BY <1>1, <1>2 DEF m

\* Every update, in the form its paths share.
LEMMA UpdateIs ==
  ASSUME NEW l, NEW i, NEW on, NEW scene, NEW path, NEW st
  PROVE  LET u == update_task_loading(l, scene, path, st, i, on)
         IN  /\ ~i.ran => u = l
             /\ i.ran /\ path # "enqueue" /\ ~Leaves(path, st) =>
                  u = ChargedLoad(l, scene, path, st, i, on)
             /\ i.ran /\ scene # "waking" /\ ~Leaves(path, st) =>
                  u = ChargedLoad(l, scene, path, st, i, on)
             /\ i.ran /\ Leaves(path, st) =>
                  u = Record(ChargedLoad(l, scene, path, st, i, on), 0)
             /\ i.ran /\ path = "enqueue" /\ scene = "waking" =>
                  u = ChargedLoad(Record(l, on.clock), scene, path, st, i, on)
BY DEF update_task_loading, ChargedLoad, Leaves

\* Whatever the scene, an update keeps the types and moves no stamp past the clock.
LEMMA UpdateTypes ==
  ASSUME NEW l \in Loads, NEW i \in Infos, NEW on \in Clocks, NEW scene, NEW path, NEW st,
         l.lastUpdate <= on.clock, l.enqueue <= on.clock
  PROVE  LET u == update_task_loading(l, scene, path, st, i, on)
         IN  u \in Loads /\ u.lastUpdate <= on.clock /\ u.enqueue <= on.clock
<1> DEFINE u == update_task_loading(l, scene, path, st, i, on)
           w == ChargedLoad(l, scene, path, st, i, on)
           r == Record(l, on.clock)
           v == ChargedLoad(r, scene, path, st, i, on)
<1>1. on.clock \in Nat
  BY DEF Clocks
<1>2. i.ran \in BOOLEAN
  BY DEF Infos
<1>3. u = l \/ u = w \/ u = Record(w, 0) \/ u = v
  <2>1. CASE ~i.ran
    BY <2>1, UpdateIs
  <2>2. CASE i.ran /\ Leaves(path, st)
    BY <2>2, UpdateIs
  <2>3. CASE i.ran /\ ~Leaves(path, st) /\ path = "enqueue" /\ scene = "waking"
    BY <2>3, UpdateIs
  <2>4. CASE i.ran /\ ~Leaves(path, st) /\ path # "enqueue"
    BY <2>4, UpdateIs
  <2>5. CASE i.ran /\ ~Leaves(path, st) /\ scene # "waking"
    BY <2>5, UpdateIs
  <2>6. QED BY <1>2, <2>1, <2>2, <2>3, <2>4, <2>5
<1>4. /\ w \in Loads /\ w.enqueue = l.enqueue
      /\ w.lastUpdate = l.lastUpdate \/ w.lastUpdate = on.clock
  BY ChargedLoadFacts
<1>5. r \in Loads /\ r.enqueue = on.clock /\ r.lastUpdate = l.lastUpdate
  BY <1>1, RecordFacts
<1> HIDE DEF u, w, r
<1>6. r.lastUpdate <= on.clock
  BY <1>5
<1>7. /\ v \in Loads /\ v.enqueue = r.enqueue
      /\ v.lastUpdate = r.lastUpdate \/ v.lastUpdate = on.clock
  BY <1>5, <1>6, ChargedLoadFacts
<1> HIDE DEF v
<1>8. Record(w, 0) \in Loads /\ Record(w, 0).enqueue = 0
      /\ Record(w, 0).lastUpdate = w.lastUpdate
  BY <1>4, RecordFacts
<1>9. u \in Loads /\ u.lastUpdate <= on.clock /\ u.enqueue <= on.clock
  BY <1>1, <1>3, <1>4, <1>5, <1>7, <1>8
<1>10. QED BY <1>9 DEF u

\* A load whose stamps fit each other: it has a wake-up record, the waits since are
\* over, and it was last updated at the time its running covers.
FitsUntil(l, t) ==
  IF l.snap = "unset"
  THEN l.waited = 0 /\ l.enqueue = 0 /\ l.lastUpdate = 0 /\ l.lastRunning = 0
  ELSE /\ l.enqueue # 0 /\ l.enqueue + l.waited <= t /\ l.lastUpdate # 0
       /\ l.lastUpdate <= l.enqueue + l.lastRunning

\* An update of a task that neither wakes nor leaves keeps a load that fits, and bounded.
LEMMA PlainUpdate ==
  ASSUME NEW l \in Loads, NEW i \in Infos, NEW on \in Clocks, NEW path, NEW st,
         NEW scene \in {"running", "switching", "migrating", "runnable"},
         NEW t \in Nat, t <= on.clock,
         l.lastUpdate <= on.clock, FitsUntil(l, t), OnScale(l),
         ~Leaves(path, st),
         scene = "running" => l.enqueue <= i.arrival,
         scene = "runnable" => i.queued = t /\ t # 0
  PROVE  LET u == update_task_loading(l, scene, path, st, i, on)
         IN  /\ u \in Loads /\ FitsUntil(u, t) /\ OnScale(u)
             /\ u.snap = l.snap /\ u.enqueue = l.enqueue /\ u.waited = l.waited
             /\ u.lastUpdate <= on.clock
<1> DEFINE u == update_task_loading(l, scene, path, st, i, on)
           w == ChargedLoad(l, scene, path, st, i, on)
           total == get_task_time(scene, l, i, on.clock)
<1>1. on.clock \in Nat /\ l.enqueue \in Nat /\ l.waited \in Nat /\ l.lastRunning \in Nat
      /\ l.lastUpdate \in Nat /\ i.ran \in BOOLEAN
  BY DEF Clocks, Loads, Infos
<1>2. u = l \/ u = w
  <2>1. scene # "waking"
    OBVIOUS
  <2>2. CASE i.ran
    BY <2>1, <2>2, UpdateIs
  <2>3. CASE ~i.ran
    BY <2>3, UpdateIs
  <2>4. QED BY <1>1, <2>2, <2>3
<1>3. l.snap # "unset" => total = on.clock - l.enqueue
  <2> SUFFICES ASSUME l.snap # "unset"  PROVE total = on.clock - l.enqueue
    OBVIOUS
  <2>1. l.enqueue # 0 /\ l.enqueue + l.waited <= t
    BY DEF FitsUntil
  <2>2. l.enqueue + l.waited <= on.clock
    BY <1>1, <2>1
  <2>3. scene = "runnable" /\ l.snap # "same" =>
            i.queued # 0 /\ i.queued <= on.clock /\ l.enqueue + l.waited <= i.queued
    BY <2>1
  <2>4. QED BY <1>1, <2>1, <2>2, <2>3, TimeSinceEnqueue
<1>4. l.snap # "unset" => total - l.lastRunning <= on.clock - l.lastUpdate
  BY <1>1, <1>3 DEF FitsUntil
<1> HIDE DEF total, u, w
<1>5. /\ w \in Loads
      /\ w.enqueue = l.enqueue /\ w.snap = l.snap /\ w.waited = l.waited
      /\ w.lastUpdate = l.lastUpdate \/ w.lastUpdate = on.clock
      /\ l.snap = "unset" => w = l
      /\ l.snap # "unset" =>
           /\ w.lastUpdate # 0
           /\ \/ w.lastUpdate = l.lastUpdate /\ w.lastRunning = l.lastRunning
              \/ w.lastRunning = total
              \/ l.lastUpdate = 0
      /\ OnScale(l) /\ (l.snap # "unset" /\ l.lastUpdate # 0
                        /\ UPDATE_GRAN_US <= on.clock - l.lastUpdate
                         => total - l.lastRunning <= on.clock - l.lastUpdate)
           => OnScale(w)
  BY ChargedLoadFacts DEF w, total
<1>6. OnScale(w)
  BY <1>4, <1>5
<1>7. w.lastRunning \in Nat /\ w.lastUpdate \in Nat
  BY <1>5 DEF Loads
<1>8. FitsUntil(w, t)
  <2>1. CASE l.snap = "unset"
    BY <2>1, <1>5
  <2>2. CASE l.snap # "unset"
    <3>1. l.enqueue # 0 /\ l.enqueue + l.waited <= t /\ l.lastUpdate # 0
          /\ l.lastUpdate <= l.enqueue + l.lastRunning
      BY <2>2 DEF FitsUntil
    <3>2. w.lastUpdate <= w.enqueue + w.lastRunning
      BY <2>2, <3>1, <1>1, <1>3, <1>5, <1>7
    <3>3. QED BY <2>2, <3>1, <3>2, <1>5 DEF FitsUntil
  <2>3. QED BY <2>1, <2>2
<1>9. w.lastUpdate <= on.clock
  BY <1>1, <1>5
<1>10. CASE u = l
  BY <1>10 DEF u
<1>11. CASE u = w
  BY <1>11, <1>5, <1>6, <1>8, <1>9 DEF u
<1>12. QED BY <1>2, <1>10, <1>11

\* The two updates of a task that goes to sleep: the second, at the same clock and with
\* the enqueue time gone, has nothing left to charge.
LEMMA LeavingUpdates ==
  ASSUME NEW l \in Loads, NEW i \in Infos, NEW on \in Clocks, i.ran, i.arrival <= on.clock,
         l.lastUpdate <= on.clock, FitsUntil(l, i.arrival), OnScale(l)
  PROVE  LET left == update_task_loading(l, "switching", "dequeue", "S", i, on)
         IN  OnScale(update_task_loading(left, "switching", "switch", "S", i, on))
<1> DEFINE w     == ChargedLoad(l, "switching", "dequeue", "S", i, on)
           left  == update_task_loading(l, "switching", "dequeue", "S", i, on)
           u     == update_task_loading(left, "switching", "switch", "S", i, on)
           v     == ChargedLoad(left, "switching", "switch", "S", i, on)
           first == get_task_time("switching", l, i, on.clock)
           total == get_task_time("switching", left, i, on.clock)
<1>1. on.clock \in Nat /\ on.clock # 0 /\ i.arrival \in Nat /\ l.enqueue \in Nat
      /\ l.waited \in Nat /\ l.lastRunning \in Nat /\ l.lastUpdate \in Nat
  BY DEF Clocks, Infos, Loads
<1>2. left = Record(w, 0)
  BY UpdateIs DEF Leaves
<1>3. u = v
  BY UpdateIs DEF Leaves
<1>4. /\ w \in Loads
      /\ w.lastUpdate = l.lastUpdate \/ w.lastUpdate = on.clock
      /\ l.snap = "unset" => w = l
      /\ l.snap # "unset" =>
           /\ w.lastUpdate # 0
           /\ \/ w.lastRunning = first
              \/ on.clock - w.lastUpdate < UPDATE_GRAN_US
      /\ OnScale(l) /\ (l.snap # "unset" /\ l.lastUpdate # 0
                        /\ UPDATE_GRAN_US <= on.clock - l.lastUpdate
                         => first - l.lastRunning <= on.clock - l.lastUpdate)
           => OnScale(w)
  BY ChargedLoadFacts
<1> HIDE DEF u, v, w, left
<1>5. l.snap # "unset" => first = on.clock - l.enqueue
  <2> SUFFICES ASSUME l.snap # "unset"  PROVE first = on.clock - l.enqueue
    OBVIOUS
  <2>1. l.enqueue # 0 /\ l.enqueue + l.waited <= on.clock
    BY <1>1 DEF FitsUntil
  <2>2. QED BY <1>1, <2>1, TimeSinceEnqueue
<1> HIDE DEF first
<1>6. l.snap # "unset" => first - l.lastRunning <= on.clock - l.lastUpdate
  BY <1>1, <1>5 DEF FitsUntil
<1>7. OnScale(w)
  BY <1>4, <1>6
<1>8. /\ left \in Loads /\ left.enqueue = 0 /\ left.snap = "same" /\ left.waited = 0
      /\ left.lastRunning = w.lastRunning /\ left.lastUpdate = w.lastUpdate
      /\ OnScale(w) => OnScale(left)
  <2>1. 0 \in Nat
    OBVIOUS
  <2>2. QED BY <2>1, <1>2, <1>4, RecordFacts
<1>9. total = on.clock - i.arrival
  <2>1. total = Total(Since(on.clock, i.arrival), left.waited)
    BY <1>8 DEF get_task_time
  <2>2. Total(Since(on.clock, i.arrival), 0) = on.clock - i.arrival
    BY <1>1 DEF Since, Total
  <2>3. QED BY <2>1, <2>2, <1>8
<1> HIDE DEF total
<1>10. left.lastUpdate \in Nat /\ left.lastRunning \in Nat /\ left.lastUpdate <= on.clock
  BY <1>1, <1>4, <1>8 DEF Loads
<1>11. left.lastUpdate # 0 /\ UPDATE_GRAN_US <= on.clock - left.lastUpdate
         => total - left.lastRunning <= on.clock - left.lastUpdate
  <2> HAVE left.lastUpdate # 0 /\ UPDATE_GRAN_US <= on.clock - left.lastUpdate
  <2>1. l.snap # "unset"
    BY <1>4, <1>8 DEF FitsUntil
  <2>2. w.lastRunning = first
    BY <2>1, <1>1, <1>4, <1>8, <1>10 DEF UPDATE_GRAN_US
  <2>3. l.enqueue <= i.arrival
    BY <2>1, <1>1 DEF FitsUntil
  <2>4. total - left.lastRunning <= 0
    BY <2>1, <2>2, <2>3, <1>1, <1>5, <1>8, <1>9
  <2>5. QED BY <2>4, <1>1, <1>9, <1>10
<1>12. OnScale(left) /\ (left.snap # "unset" /\ left.lastUpdate # 0
                         /\ UPDATE_GRAN_US <= on.clock - left.lastUpdate
                          => total - left.lastRunning <= on.clock - left.lastUpdate)
           => OnScale(v)
  BY <1>8, <1>10, ChargedLoadFacts DEF v, total
<1>13. OnScale(u)
  BY <1>3, <1>7, <1>8, <1>11, <1>12
<1>14. QED BY <1>13 DEF u, left

\* The update of a task that wakes: nothing is charged.
LEMMA WakingUpdate ==
  ASSUME NEW l \in Loads, NEW i \in Infos, NEW on \in Clocks, l.lastUpdate <= on.clock
  PROVE  LET u == update_task_loading(l, "waking", "enqueue", "W", i, on)
         IN  /\ u.sum <= l.sum
             /\ i.ran => FitsUntil(u, on.clock) /\ (OnScale(l) => OnScale(u))
<1> DEFINE r     == Record(l, on.clock)
           v     == ChargedLoad(r, "waking", "enqueue", "W", i, on)
           u     == update_task_loading(l, "waking", "enqueue", "W", i, on)
           total == get_task_time("waking", r, i, on.clock)
<1>1. on.clock \in Nat /\ on.clock # 0 /\ l.lastUpdate \in Nat /\ i.ran \in BOOLEAN
      /\ l.sum \in Nat
  BY DEF Clocks, Infos, Loads, Sums
<1>2. /\ r \in Loads /\ r.enqueue = on.clock /\ r.snap = "same" /\ r.waited = 0
      /\ r.lastRunning = l.lastRunning /\ r.lastUpdate = l.lastUpdate
      /\ r.sum = l.sum
      /\ OnScale(l) => OnScale(r)
  BY <1>1, RecordFacts
<1>3. i.ran => u = v
  BY UpdateIs
<1>4. ~i.ran => u = l
  BY UpdateIs
<1> HIDE DEF r, u
<1>5. r.lastUpdate <= on.clock
  BY <1>2
<1>6. total = 0
  <2>1. total = Since(on.clock, r.enqueue)
    BY <1>1, <1>2 DEF get_task_time
  <2>2. QED BY <2>1, <1>1, <1>2 DEF Since
<1>7. /\ v \in Loads
      /\ v.enqueue = r.enqueue /\ v.snap = r.snap /\ v.waited = r.waited
      /\ v.lastUpdate = r.lastUpdate \/ v.lastUpdate = on.clock
      /\ r.snap # "unset" => v.lastUpdate # 0
      /\ OnScale(r) /\ (r.snap # "unset" /\ r.lastUpdate # 0
                        /\ UPDATE_GRAN_US <= on.clock - r.lastUpdate
                         => total - r.lastRunning <= on.clock - r.lastUpdate)
           => OnScale(v)
      /\ total = 0 => v.sum <= r.sum
  BY <1>2, <1>5, ChargedLoadFacts
<1> HIDE DEF v, total
<1>8. total - r.lastRunning <= on.clock - r.lastUpdate
  BY <1>1, <1>2, <1>6 DEF Loads
<1>9. u.sum <= l.sum
  BY <1>1, <1>2, <1>3, <1>4, <1>6, <1>7
<1>10. v.lastRunning \in Nat /\ v.lastUpdate \in Nat
  BY <1>7 DEF Loads
<1>11. FitsUntil(v, on.clock)
  BY <1>1, <1>2, <1>7, <1>10 DEF FitsUntil
<1>12. OnScale(l) => OnScale(v)
  BY <1>2, <1>7, <1>8
<1>13. QED BY <1>3, <1>9, <1>11, <1>12 DEF u

\* sched_info_dequeue: the wait that ends fits too.
LEMMA WaitOverFacts ==
  ASSUME NEW l \in Loads, NEW i \in Infos, NEW now \in Nat, i.queued <= now
  PROVE  LET m == WaitOver(l, i, now)
         IN  /\ m \in Loads /\ m.enqueue = l.enqueue /\ m.lastUpdate = l.lastUpdate
             /\ OnScale(l) => OnScale(m)
             /\ i.queued # 0 /\ FitsUntil(l, i.queued) => FitsUntil(m, now)
<1> DEFINE d == now - i.queued
           s == [l EXCEPT !.waited = @ + d]
           m == WaitOver(l, i, now)
<1>1. d \in Nat /\ i.queued \in Nat /\ l.waited \in Nat /\ l.enqueue \in Nat
  BY DEF Infos, Loads
<1>2. m = l \/ m = s
  BY DEF WaitOver, Waits
<1>3. l.snap # "unset" /\ i.queued # 0 => m = s
  BY DEF WaitOver, Waits
<1>4. l.snap = "unset" => m = l
  BY DEF WaitOver, Waits
<1>5. /\ s \in Loads /\ s.enqueue = l.enqueue /\ s.snap = l.snap /\ s.waited = l.waited + d
      /\ s.lastRunning = l.lastRunning /\ s.lastUpdate = l.lastUpdate /\ s.sum = l.sum
      /\ s.contrib = l.contrib /\ s.avg = l.avg /\ s.lastAvg = l.lastAvg /\ s.est = l.est
  <2> HIDE DEF d
  <2>1. QED BY <1>1 DEF Loads
<1> HIDE DEF s, m
<1>6. OnScale(l) => OnScale(s)
  BY <1>5 DEF OnScale
<1>7. i.queued # 0 /\ FitsUntil(l, i.queued) => FitsUntil(m, now)
  <2> HAVE i.queued # 0 /\ FitsUntil(l, i.queued)
  <2>1. CASE l.snap = "unset"
    BY <2>1, <1>4 DEF FitsUntil
  <2>2. CASE l.snap # "unset"
    BY <2>2, <1>1, <1>3, <1>5 DEF FitsUntil
  <2>3. QED BY <2>1, <2>2
<1>8. QED BY <1>2, <1>5, <1>6, <1>7 DEF m

\* What fits until a time fits until a later one.
LEMMA FitsLater ==
  ASSUME NEW l \in Loads, NEW t \in Nat, NEW now \in Nat, t <= now, FitsUntil(l, t)
  PROVE  FitsUntil(l, now)
<1>1. l.enqueue \in Nat /\ l.waited \in Nat
  BY DEF Loads
<1>2. QED BY <1>1 DEF FitsUntil

----------------------------------------------------------------------------
(* The actions.                                                            *)

\* What makes the bound inductive: the stamps of a task fit its place.  On the run queue
\* the waits it counted since it was woken ended before it was queued, on its CPU before
\* it arrived.
LoadFits ==
  /\ at = "queue" => state = "R" /\ info.queued # 0 /\ FitsUntil(ld, info.queued)
  /\ at = "cpu" => info.queued = 0 /\ info.ran /\ FitsUntil(ld, info.arrival)
  /\ at = "off" => info.ran
  /\ OnScale(ld)

\* A task that has run has sched_info of its runs; one that has not waits for the first.
Started == IF at = "queue" THEN info.ran \/ info.queued # 0 ELSE info.ran

LoadInv == LoadTypeOK /\ Started /\ (caught \/ LoadFits)

\* The first state.
LEMMA LoadInitInv == Init => LoadInv
<1> SUFFICES ASSUME Init  PROVE LoadInv
  OBVIOUS
<1> USE DEF Init
<1>1. Uptime \in Nat \ {0}
  BY UptimeAssumption
<1>2. cpu \in Clocks /\ cpu.clock = Uptime /\ info \in Infos /\ info.queued = Uptime
      /\ info.arrival = 0
  BY <1>1 DEF Clocks, Infos
<1>3. NewLoad \in Loads
  BY LoadConstants DEF NewLoad, Loads, Contribs, Sums, Averages
<1>4. OnScale(NewLoad)
  BY LoadConstants DEF NewLoad, OnScale
<1>5. FitsUntil(NewLoad, Uptime) /\ NewLoad.enqueue = 0 /\ NewLoad.lastUpdate = 0
  BY DEF NewLoad, FitsUntil
<1> HIDE DEF Init
<1>6. at = "queue" /\ state = "R" /\ ld = NewLoad /\ steps = 0 /\ caught = FALSE
  BY DEF Init
<1>7. LoadTypeOK
  <2>1. ld \in Loads /\ ld.enqueue = 0 /\ ld.lastUpdate = 0
    BY <1>3, <1>5, <1>6
  <2>2. 0 <= cpu.clock /\ info.queued <= cpu.clock
    BY <1>1, <1>2
  <2>3. QED BY <1>2, <1>6, <2>1, <2>2 DEF LoadTypeOK
<1>8. LoadFits
  BY <1>1, <1>2, <1>4, <1>5, <1>6 DEF LoadFits
<1>9. Started
  BY <1>1, <1>2, <1>6 DEF Started
<1>10. QED BY <1>7, <1>8, <1>9 DEF LoadInv

\* The types as facts about the components.
LEMMA LoadTypes ==
  ASSUME LoadTypeOK
  PROVE  /\ cpu.clock \in Nat /\ cpu.clock # 0 /\ cpu.slow \in BOOLEAN
         /\ info.ran \in BOOLEAN /\ info.arrival \in Nat /\ info.queued \in Nat
         /\ ld.enqueue \in Nat /\ ld.lastUpdate \in Nat
         /\ \A t \in Nat : [info EXCEPT !.queued = t] \in Infos
         /\ \A t \in Nat : [info EXCEPT !.queued = t].queued = t
                           /\ [info EXCEPT !.queued = t].arrival = info.arrival
                           /\ [info EXCEPT !.queued = t].ran = info.ran
BY DEF LoadTypeOK, Clocks, Infos, Loads

\* The clock runs.
LEMMA ElapseLoad ==
  ASSUME LoadInv, Elapse
  PROVE  LoadInv'
<1>1. LoadTypeOK /\ Started /\ (caught \/ LoadFits)
  BY DEF LoadInv
<1>2. PICK d \in Spans : cpu' = [cpu EXCEPT !.clock = @ + d]
  BY DEF Elapse
<1>3. d \in Nat /\ MaxSteps \in Nat
  BY <1>2, SpansAssumption
<1>4. cpu' \in Clocks /\ cpu'.clock = cpu.clock + d
  BY <1>1, <1>2, <1>3 DEF LoadTypeOK, Clocks
<1>5. cpu.clock \in Nat /\ ld.enqueue \in Nat /\ ld.lastUpdate \in Nat
      /\ info.arrival \in Nat /\ info.queued \in Nat
  BY <1>1, LoadTypes
<1>6. LoadTypeOK'
  BY <1>1, <1>3, <1>4, <1>5 DEF LoadTypeOK, Elapse
<1>7. (caught \/ LoadFits)'
  BY <1>1 DEF LoadFits, Elapse
<1>8. Started'
  BY <1>1 DEF Started, Elapse
<1>9. QED BY <1>6, <1>7, <1>8 DEF LoadInv

\* The scene of a task on its CPU or queued.
LEMMA SceneIs ==
  ASSUME LoadTypeOK
  PROVE  /\ at = "cpu" => Scene \in {"running", "switching"}
         /\ state = "R" => Scene \in {"running", "runnable"}
         /\ at = "queue" => Scene # "running"
BY DEF LoadTypeOK, Scene

\* An update of the running task that does not take it off.
LEMMA RunningUpdate ==
  ASSUME LoadTypeOK, at = "cpu", NEW path, path # "dequeue",
         NEW u, u = update_task_loading(ld, Scene, path, state, info, cpu)
  PROVE  /\ u \in Loads /\ u.lastUpdate <= cpu.clock /\ u.enqueue <= cpu.clock
         /\ LoadFits => FitsUntil(u, info.arrival) /\ OnScale(u)
<1>1. ld \in Loads /\ info \in Infos /\ cpu \in Clocks /\ ld.lastUpdate <= cpu.clock
      /\ ld.enqueue <= cpu.clock /\ info.arrival <= cpu.clock
  BY DEF LoadTypeOK
<1>2. info.arrival \in Nat /\ ld.enqueue \in Nat
  BY LoadTypes
<1>3. u \in Loads /\ u.lastUpdate <= cpu.clock /\ u.enqueue <= cpu.clock
  BY <1>1, UpdateTypes
<1>4. ASSUME LoadFits  PROVE FitsUntil(u, info.arrival) /\ OnScale(u)
  <2>1. FitsUntil(ld, info.arrival) /\ OnScale(ld)
    BY <1>4 DEF LoadFits
  <2>2. Scene \in {"running", "switching", "migrating", "runnable"} /\ Scene # "runnable"
    BY SceneIs
  <2>3. ld.enqueue <= info.arrival
    <3>1. ld.waited \in Nat
      BY <1>1 DEF Loads
    <3>2. QED BY <2>1, <3>1, <1>2 DEF FitsUntil
  <2>4. ~Leaves(path, state)
    BY DEF Leaves
  <2> DEFINE s == Scene
  <2>5. s \in {"running", "switching", "migrating", "runnable"} /\ s # "runnable"
    BY <2>2
  <2>6. u = update_task_loading(ld, s, path, state, info, cpu)
    OBVIOUS
  <2> HIDE DEF s
  <2>7. QED BY <1>1, <1>2, <2>1, <2>3, <2>4, <2>5, <2>6, PlainUpdate
<1>5. QED BY <1>3, <1>4

\* The tick.
LEMMA TickLoad ==
  ASSUME LoadInv, Tick
  PROVE  LoadInv'
<1>1. LoadTypeOK /\ Started /\ (caught \/ LoadFits)
  BY DEF LoadInv
<1>2. /\ at = "cpu" /\ ld' = update_task_loading(ld, Scene, "update", state, info, cpu)
      /\ UNCHANGED <<cpu, at, state, info, steps, caught>>
  BY DEF Tick
<1>3. /\ ld' \in Loads /\ ld'.lastUpdate <= cpu.clock /\ ld'.enqueue <= cpu.clock
      /\ LoadFits => FitsUntil(ld', info.arrival) /\ OnScale(ld')
  BY <1>1, <1>2, RunningUpdate
<1>4. LoadTypeOK'
  BY <1>1, <1>2, <1>3 DEF LoadTypeOK
<1>5. LoadFits => LoadFits'
  BY <1>2, <1>3 DEF LoadFits
<1>6. QED BY <1>1, <1>2, <1>4, <1>5 DEF LoadInv, Started

\* A preemption, or a switch of a task that has set its state.
LEMMA PreemptLoad ==
  ASSUME LoadInv, Preempt
  PROVE  LoadInv'
<1>1. LoadTypeOK /\ Started /\ (caught \/ LoadFits)
  BY DEF LoadInv
<1>2. /\ at = "cpu" /\ at' = "queue"
      /\ ld' = update_task_loading(ld, Scene, "switch", state, info, cpu)
      /\ info' = IF state = "R" THEN [info EXCEPT !.queued = cpu.clock] ELSE info
      /\ caught' = (caught \/ state = "S")
      /\ UNCHANGED <<cpu, state, steps>>
  BY DEF Preempt
<1>3. /\ ld' \in Loads /\ ld'.lastUpdate <= cpu.clock /\ ld'.enqueue <= cpu.clock
      /\ LoadFits => FitsUntil(ld', info.arrival) /\ OnScale(ld')
  BY <1>1, <1>2, RunningUpdate
<1>4. cpu.clock \in Nat /\ cpu.clock # 0 /\ info.arrival \in Nat /\ info.arrival <= cpu.clock
      /\ info.queued \in Nat /\ info.queued <= cpu.clock /\ info \in Infos
  BY <1>1, LoadTypes DEF LoadTypeOK
<1>5. info' \in Infos /\ info'.arrival = info.arrival /\ info'.queued <= cpu.clock
      /\ (state = "R" => info'.queued = cpu.clock)
  <2>1. CASE state = "R"
    <3>1. info' = [info EXCEPT !.queued = cpu.clock]
      BY <2>1, <1>2
    <3>2. QED BY <3>1, <1>1, <1>4, LoadTypes
  <2>2. CASE state # "R"
    BY <2>2, <1>2, <1>4
  <2>3. QED BY <2>1, <2>2
<1>6. LoadTypeOK'
  BY <1>1, <1>2, <1>3, <1>5, <1>4 DEF LoadTypeOK
<1>7. ASSUME ~caught'  PROVE LoadFits'
  <2>1. LoadFits /\ state = "R"
    BY <1>1, <1>2, <1>7 DEF LoadTypeOK
  <2>2. FitsUntil(ld', info.arrival) /\ OnScale(ld')
    BY <1>3, <2>1
  <2>3. FitsUntil(ld', cpu.clock)
    BY <1>3, <1>4, <2>2, FitsLater
  <2>4. QED BY <1>2, <1>4, <1>5, <2>1, <2>2, <2>3 DEF LoadFits
<1>8. Started'
  BY <1>1, <1>2 DEF Started
<1>9. QED BY <1>6, <1>7, <1>8 DEF LoadInv

\* A switch to the task.
LEMMA SwitchInLoad ==
  ASSUME LoadInv, SwitchIn
  PROVE  LoadInv'
<1> DEFINE m == WaitOver(ld, info, cpu.clock)
           s == [m EXCEPT !.snap = "older"]
<1>1. LoadTypeOK /\ Started /\ (caught \/ LoadFits)
  BY DEF LoadInv
<1>2. /\ at = "queue" /\ at' = "cpu"
      /\ ld' = m \/ (ld' = s /\ m.snap = "same")
      /\ info' = IF info.queued = 0 THEN info
                 ELSE [ran |-> TRUE, arrival |-> cpu.clock, queued |-> 0]
      /\ UNCHANGED <<cpu, state, steps, caught>>
  BY DEF SwitchIn
<1>3. cpu.clock \in Nat /\ cpu.clock # 0 /\ info \in Infos /\ ld \in Loads
      /\ info.queued <= cpu.clock /\ ld.enqueue <= cpu.clock /\ ld.lastUpdate <= cpu.clock
      /\ info.arrival <= cpu.clock
  BY <1>1, LoadTypes DEF LoadTypeOK
<1>4. /\ m \in Loads /\ m.enqueue = ld.enqueue /\ m.lastUpdate = ld.lastUpdate
      /\ OnScale(ld) => OnScale(m)
      /\ info.queued # 0 /\ FitsUntil(ld, info.queued) => FitsUntil(m, cpu.clock)
  BY <1>3, WaitOverFacts
<1> HIDE DEF m
<1>5. /\ s \in Loads /\ s.enqueue = m.enqueue /\ s.waited = m.waited
      /\ s.lastRunning = m.lastRunning /\ s.lastUpdate = m.lastUpdate /\ s.sum = m.sum
      /\ s.contrib = m.contrib /\ s.avg = m.avg /\ s.lastAvg = m.lastAvg /\ s.est = m.est
      /\ s.snap = "older"
  BY <1>4 DEF Loads
<1> HIDE DEF s
<1>6. m.snap = "same" /\ FitsUntil(m, cpu.clock) => FitsUntil(s, cpu.clock)
  BY <1>5 DEF FitsUntil
<1>7. OnScale(m) => OnScale(s)
  BY <1>5 DEF OnScale
<1>8. ld' \in Loads /\ ld'.enqueue <= cpu.clock /\ ld'.lastUpdate <= cpu.clock
      /\ (OnScale(m) => OnScale(ld'))
      /\ (FitsUntil(m, cpu.clock) => FitsUntil(ld', cpu.clock))
  BY <1>2, <1>3, <1>4, <1>5, <1>6, <1>7
<1>9. info' \in Infos /\ info'.arrival <= cpu.clock /\ info'.queued <= cpu.clock
      /\ (info.queued # 0 => info'.ran /\ info'.arrival = cpu.clock /\ info'.queued = 0)
  BY <1>2, <1>3 DEF Infos
<1>10. LoadTypeOK'
  BY <1>1, <1>2, <1>8, <1>9 DEF LoadTypeOK
<1>11. LoadFits => LoadFits'
  BY <1>2, <1>4, <1>8, <1>9 DEF LoadFits
<1>12. Started'
  BY <1>1, <1>2 DEF Started
<1>13. QED BY <1>1, <1>2, <1>10, <1>11, <1>12 DEF LoadInv

\* A change of the task's state.
LEMMA SetStateLoad ==
  ASSUME LoadInv, SetState
  PROVE  LoadInv'
<1>1. LoadTypeOK /\ Started /\ (caught \/ LoadFits)
  BY DEF LoadInv
<1>2. (at = "cpu" \/ (at = "queue" /\ state = "S")) /\ state' \in {"R", "S"}
      /\ UNCHANGED <<cpu, at, info, ld, steps, caught>>
  BY DEF SetState
<1>3. LoadTypeOK'
  BY <1>1, <1>2 DEF LoadTypeOK
<1>4. LoadFits => LoadFits'
  BY <1>2 DEF LoadFits
<1>5. QED BY <1>1, <1>2, <1>3, <1>4 DEF LoadInv, Started

\* The task goes to sleep.
LEMMA SleepLoad ==
  ASSUME LoadInv, Sleep
  PROVE  LoadInv'
<1> DEFINE left == update_task_loading(ld, "switching", "dequeue", state, info, cpu)
<1>1. LoadTypeOK /\ Started /\ (caught \/ LoadFits)
  BY DEF LoadInv
<1>2. /\ at = "cpu" /\ state = "S" /\ at' = "off"
      /\ ld' = update_task_loading(left, "switching", "switch", state, info, cpu)
      /\ UNCHANGED <<cpu, state, info, steps, caught>>
  BY DEF Sleep
<1>3. ld \in Loads /\ info \in Infos /\ cpu \in Clocks /\ ld.lastUpdate <= cpu.clock
      /\ ld.enqueue <= cpu.clock /\ info.arrival <= cpu.clock
  BY <1>1 DEF LoadTypeOK
<1>4. left \in Loads /\ left.lastUpdate <= cpu.clock /\ left.enqueue <= cpu.clock
  BY <1>3, UpdateTypes
<1> HIDE DEF left
<1>5. ld' \in Loads /\ ld'.lastUpdate <= cpu.clock /\ ld'.enqueue <= cpu.clock
  BY <1>2, <1>3, <1>4, UpdateTypes
<1>6. LoadTypeOK'
  BY <1>1, <1>2, <1>5 DEF LoadTypeOK
<1>7. ASSUME LoadFits  PROVE LoadFits'
  <2>1. info.ran /\ FitsUntil(ld, info.arrival) /\ OnScale(ld)
    BY <1>2, <1>7 DEF LoadFits
  <2>2. OnScale(update_task_loading(
          update_task_loading(ld, "switching", "dequeue", "S", info, cpu),
          "switching", "switch", "S", info, cpu))
    BY <1>3, <2>1, LeavingUpdates
  <2>3. OnScale(ld')
    BY <1>2, <2>2 DEF left
  <2>4. QED BY <1>2, <2>1, <2>3 DEF LoadFits
<1>8. QED BY <1>1, <1>2, <1>6, <1>7 DEF LoadInv, Started

\* A wake-up.
LEMMA WakeLoad ==
  ASSUME LoadInv, Wake
  PROVE  LoadInv' /\ ld'.sum <= ld.sum
<1>1. LoadTypeOK /\ Started /\ (caught \/ LoadFits)
  BY DEF LoadInv
<1>2. /\ at = "off" /\ at' = "queue" /\ state' = "R"
      /\ cpu' \in [clock : {cpu.clock}, slow : BOOLEAN]
      /\ info' = [info EXCEPT !.queued = cpu.clock]
      /\ ld' = update_task_loading(ld, "waking", "enqueue", "W", info', cpu')
      /\ caught' = (caught /\ ~OnScale(ld'))
      /\ UNCHANGED steps
  BY DEF Wake
<1>3. cpu.clock \in Nat /\ cpu.clock # 0
  BY <1>1, LoadTypes
<1>4. cpu' \in Clocks /\ cpu'.clock = cpu.clock
  BY <1>2, <1>3 DEF Clocks
<1>5. info' \in Infos /\ info'.queued = cpu.clock /\ info'.arrival = info.arrival
      /\ info'.ran = info.ran
  BY <1>1, <1>2, <1>3, LoadTypes
<1>6. ld \in Loads /\ ld.lastUpdate <= cpu'.clock /\ ld.enqueue <= cpu'.clock
      /\ info.arrival <= cpu.clock
  BY <1>1, <1>4 DEF LoadTypeOK
<1> DEFINE i == info'
           on == cpu'
           u == ld'
<1>7. i \in Infos /\ on \in Clocks /\ ld.lastUpdate <= on.clock /\ ld.enqueue <= on.clock
      /\ u = update_task_loading(ld, "waking", "enqueue", "W", i, on)
  BY <1>2, <1>4, <1>5, <1>6
<1> HIDE DEF i, on, u
<1>8. u \in Loads /\ u.lastUpdate <= on.clock /\ u.enqueue <= on.clock
  BY <1>6, <1>7, UpdateTypes
<1>9. /\ u.sum <= ld.sum
      /\ i.ran => FitsUntil(u, on.clock) /\ (OnScale(ld) => OnScale(u))
  BY <1>6, <1>7, WakingUpdate
<1>10. LoadTypeOK'
  <2>1. cpu.clock <= cpu.clock
    BY <1>3
  <2>2. QED BY <1>1, <1>2, <1>4, <1>5, <1>6, <1>8, <2>1 DEF LoadTypeOK, i, on, u
<1>11. i.ran /\ caught \in BOOLEAN
  BY <1>1, <1>2, <1>5 DEF Started, LoadTypeOK, i
<1>12. ASSUME ~caught'  PROVE LoadFits'
  <2>1. OnScale(u)
    <3>1. CASE caught
      BY <1>2, <1>12, <3>1 DEF u
    <3>2. CASE ~caught
      BY <1>1, <1>9, <1>11, <3>2 DEF LoadFits
    <3>3. QED BY <3>1, <3>2
  <2>2. FitsUntil(u, cpu.clock)
    BY <1>4, <1>9, <1>11 DEF on
  <2>3. QED BY <1>2, <1>3, <1>5, <2>1, <2>2 DEF LoadFits, u
<1>13. Started'
  BY <1>2, <1>5, <1>11 DEF Started, i
<1>14. QED BY <1>9, <1>10, <1>12, <1>13 DEF LoadInv, u

\* The balancer moves the task: an update on the CPU it leaves and one on the CPU it
\* comes to, at the same clock.
LEMMA MigrateLoad ==
  ASSUME LoadInv, Migrate
  PROVE  LoadInv'
<1> DEFINE scene == IF state = "R" THEN "migrating" ELSE "switching"
           gone  == [info EXCEPT !.queued = 0]
           m     == WaitOver(ld, info, cpu.clock)
           out   == update_task_loading(m, scene, "dequeue", state, gone, cpu)
           on    == cpu'
           i     == info'
           u     == ld'
<1>1. LoadTypeOK /\ Started /\ (caught \/ LoadFits)
  BY DEF LoadInv
<1>2. /\ at = "queue" /\ on \in [clock : {cpu.clock}, slow : BOOLEAN]
      /\ i = [info EXCEPT !.queued = on.clock]
      /\ u = update_task_loading(out, scene, "enqueue", state, i, on)
      /\ UNCHANGED <<at, state, steps, caught>>
  BY DEF Migrate
<1>3. cpu.clock \in Nat /\ cpu.clock # 0
  BY <1>1, LoadTypes
<1>4. on \in Clocks /\ on.clock = cpu.clock
  BY <1>2, <1>3 DEF Clocks
<1>5. i \in Infos /\ i.queued = cpu.clock /\ i.arrival = info.arrival /\ i.ran = info.ran
  <2>1. i = [info EXCEPT !.queued = cpu.clock]
    BY <1>2, <1>4
  <2>2. QED BY <2>1, <1>1, <1>3, LoadTypes
<1>6. gone \in Infos
  <2>1. 0 \in Nat
    OBVIOUS
  <2>2. QED BY <2>1, <1>1, LoadTypes
<1>7. ld \in Loads /\ info \in Infos /\ cpu \in Clocks /\ ld.lastUpdate <= cpu.clock
      /\ ld.enqueue <= cpu.clock /\ info.queued <= cpu.clock /\ info.arrival <= cpu.clock
  BY <1>1 DEF LoadTypeOK
<1>8. /\ m \in Loads /\ m.enqueue = ld.enqueue /\ m.lastUpdate = ld.lastUpdate
      /\ OnScale(ld) => OnScale(m)
      /\ info.queued # 0 /\ FitsUntil(ld, info.queued) => FitsUntil(m, cpu.clock)
  BY <1>3, <1>7, WaitOverFacts
<1> HIDE DEF scene, gone, m, on, i, u
<1>9. m.lastUpdate <= cpu.clock /\ m.enqueue <= cpu.clock
  BY <1>7, <1>8
<1>10. out \in Loads /\ out.lastUpdate <= cpu.clock /\ out.enqueue <= cpu.clock
  BY <1>6, <1>7, <1>8, <1>9, UpdateTypes
<1>11. ASSUME LoadFits  PROVE FitsUntil(u, cpu.clock) /\ OnScale(u)
  <2>1. state = "R" /\ info.queued # 0 /\ FitsUntil(ld, info.queued) /\ OnScale(ld)
    BY <1>2, <1>11 DEF LoadFits
  <2>2. FitsUntil(m, cpu.clock) /\ OnScale(m)
    BY <1>8, <2>1
  <2>3. scene = "migrating"
    BY <2>1 DEF scene
  <2>4. scene \in {"running", "switching", "migrating", "runnable"}
        /\ scene # "running" /\ scene # "runnable"
    BY <2>3
  <2>5. ~Leaves("dequeue", state) /\ ~Leaves("enqueue", state)
    BY <2>1 DEF Leaves
  <2>6. cpu.clock <= cpu.clock
    BY <1>3
  <2>7. FitsUntil(out, cpu.clock) /\ OnScale(out)
    BY <1>3, <1>6, <1>7, <1>8, <1>9, <2>2, <2>4, <2>5, <2>6, PlainUpdate
  <2> HIDE DEF out
  <2>8. cpu.clock <= on.clock /\ out.lastUpdate <= on.clock
    BY <1>4, <1>10, <2>6
  <2>9. QED BY <1>2, <1>3, <1>4, <1>5, <1>10, <2>4, <2>5, <2>7, <2>8, PlainUpdate
<1> HIDE DEF out
<1>12. out.lastUpdate <= on.clock /\ out.enqueue <= on.clock
  BY <1>4, <1>10
<1>13. u \in Loads /\ u.lastUpdate <= on.clock /\ u.enqueue <= on.clock
  BY <1>2, <1>4, <1>5, <1>10, <1>12, UpdateTypes
<1>14. LoadTypeOK'
  <2>1. cpu.clock <= cpu.clock
    BY <1>3
  <2>2. QED BY <1>1, <1>2, <1>4, <1>5, <1>7, <1>13, <2>1 DEF LoadTypeOK, i, on, u
<1>15. LoadFits => LoadFits'
  BY <1>2, <1>3, <1>5, <1>11 DEF LoadFits, i, u
<1>16. Started'
  BY <1>2, <1>3, <1>5 DEF Started, i
<1>17. QED BY <1>1, <1>2, <1>14, <1>15, <1>16 DEF LoadInv

\* A class, nice or affinity change takes the task off and puts it back: up to three
\* updates at the same clock, none of which takes it for a sleeper if it is runnable.
LEMMA RequeueLoad ==
  ASSUME LoadInv, Requeue
  PROVE  LoadInv'
<1> DEFINE s   == Scene
           out == update_task_loading(ld, s, "dequeue", state, info, cpu)
           upd == update_task_loading(out, s, "update", state, info, cpu)
           cur == IF at = "cpu" THEN upd ELSE out
           t   == IF at = "cpu" THEN info.arrival ELSE info.queued
<1>1. LoadTypeOK /\ Started /\ (caught \/ LoadFits)
  BY DEF LoadInv
<1>2. /\ at \in {"cpu", "queue"}
      /\ ld' = update_task_loading(cur, s, "enqueue", state, info, cpu)
      /\ caught' = (caught \/ state = "S")
      /\ UNCHANGED <<cpu, at, state, info, steps>>
  BY DEF Requeue
<1>3. cpu.clock \in Nat /\ cpu.clock # 0 /\ info.queued \in Nat /\ info.arrival \in Nat
  BY <1>1, LoadTypes
<1>4. ld \in Loads /\ info \in Infos /\ cpu \in Clocks /\ ld.lastUpdate <= cpu.clock
      /\ ld.enqueue <= cpu.clock /\ info.queued <= cpu.clock /\ info.arrival <= cpu.clock
      /\ state \in {"R", "S"} /\ caught \in BOOLEAN
  BY <1>1 DEF LoadTypeOK
<1>5. /\ state = "R" => s \in {"running", "runnable"}
      /\ at = "queue" => s # "running"
      /\ at = "cpu" => s # "runnable"
  BY <1>1, SceneIs DEF Scene
<1> HIDE DEF s, t
<1>6. out \in Loads /\ out.lastUpdate <= cpu.clock /\ out.enqueue <= cpu.clock
  BY <1>4, UpdateTypes
<1> HIDE DEF out
<1>7. upd \in Loads /\ upd.lastUpdate <= cpu.clock /\ upd.enqueue <= cpu.clock
  BY <1>4, <1>6, UpdateTypes
<1> HIDE DEF upd
<1>8. cur \in Loads /\ cur.lastUpdate <= cpu.clock /\ cur.enqueue <= cpu.clock
  BY <1>6, <1>7
<1> HIDE DEF cur
<1>9. ld' \in Loads /\ ld'.lastUpdate <= cpu.clock /\ ld'.enqueue <= cpu.clock
  BY <1>2, <1>4, <1>8, UpdateTypes
<1>10. LoadTypeOK' /\ Started'
  BY <1>1, <1>2, <1>4, <1>9 DEF LoadTypeOK, Started
<1>11. ASSUME ~caught'  PROVE LoadFits'
  <2>1. LoadFits /\ state = "R"
    BY <1>1, <1>2, <1>4, <1>11
  <2>2. t \in Nat /\ t <= cpu.clock /\ FitsUntil(ld, t) /\ OnScale(ld)
        /\ (at = "queue" => info.queued = t /\ t # 0) /\ (at = "cpu" => info.arrival = t)
    BY <1>2, <1>3, <1>4, <2>1 DEF LoadFits, t
  <2>3. s \in {"running", "switching", "migrating", "runnable"}
    BY <1>5, <2>1
  <2>4. ~Leaves("dequeue", state) /\ ~Leaves("update", state) /\ ~Leaves("enqueue", state)
    BY <2>1 DEF Leaves
  <2>5. s = "runnable" => info.queued = t /\ t # 0
    BY <1>2, <1>5, <2>2
  <2>6. ASSUME NEW l \in Loads, l.lastUpdate <= cpu.clock, FitsUntil(l, t), OnScale(l),
               NEW path \in {"dequeue", "update", "enqueue"}
        PROVE  LET u == update_task_loading(l, s, path, state, info, cpu)
               IN  FitsUntil(u, t) /\ OnScale(u)
    <3>1. s = "running" => l.enqueue <= info.arrival
      <4>1. l.enqueue \in Nat /\ l.waited \in Nat
        BY DEF Loads
      <4>2. FitsUntil(l, t) => l.enqueue <= t
        BY <2>2, <4>1 DEF FitsUntil
      <4>3. QED BY <1>2, <1>5, <2>2, <2>6, <4>2
    <3>2. ~Leaves(path, state)
      BY <2>4
    <3>3. QED BY <1>4, <2>2, <2>3, <2>5, <2>6, <3>1, <3>2, PlainUpdate
  <2>7. FitsUntil(out, t) /\ OnScale(out)
    BY <1>4, <2>2, <2>6 DEF out
  <2>8. FitsUntil(upd, t) /\ OnScale(upd)
    BY <1>6, <2>6, <2>7 DEF upd
  <2>9. FitsUntil(cur, t) /\ OnScale(cur)
    BY <2>7, <2>8 DEF cur
  <2>10. FitsUntil(ld', t) /\ OnScale(ld')
    BY <1>2, <1>8, <2>6, <2>9
  <2>11. QED BY <1>2, <2>1, <2>2, <2>10 DEF LoadFits
<1>12. QED BY <1>10, <1>11 DEF LoadInv

----------------------------------------------------------------------------
(* The theorems.                                                           *)

\* The invariant is inductive.
LEMMA LoadNextInv == LoadInv /\ [Next]_vars => LoadInv'
<1> SUFFICES ASSUME LoadInv, [Next]_vars  PROVE LoadInv'
  OBVIOUS
<1>1. CASE Elapse
  BY <1>1, ElapseLoad
<1>2. CASE Tick
  BY <1>2, TickLoad
<1>3. CASE SwitchIn
  BY <1>3, SwitchInLoad
<1>4. CASE Preempt
  BY <1>4, PreemptLoad
<1>5. CASE SetState
  BY <1>5, SetStateLoad
<1>6. CASE Sleep
  BY <1>6, SleepLoad
<1>7. CASE Wake
  BY <1>7, WakeLoad
<1>8. CASE Migrate
  BY <1>8, MigrateLoad
<1>9. CASE Requeue
  BY <1>9, RequeueLoad
<1>10. CASE UNCHANGED vars
  BY <1>10 DEF LoadInv, LoadTypeOK, Started, LoadFits, vars
<1>11. QED
  BY <1>1, <1>2, <1>3, <1>4, <1>5, <1>6, <1>7, <1>8, <1>9, <1>10 DEF Next

\* The fields of a task's load keep their types, and none of its time stamps is ahead of
\* the run queue's clock: the subtractions of accumulate_loading do not wrap.
THEOREM LoadTypeCorrect == Spec => []LoadTypeOK
<1>1. LoadInv => LoadTypeOK
  BY DEF LoadInv
<1>2. QED BY LoadInitInv, LoadNextInv, <1>1, PTL DEF Spec

\* The sum is never above that of a task active all the time, and its average and the
\* estimate are on the scale of a CPU's capacity, however the hooks of a task's life
\* interleave (accumulate_loading, get_task_time), while no hook takes a task that stays
\* on its run queue for one that sleeps: it was not preempted or put back in state "S"
\* since it last woke up with its load on the scale.
THEOREM LoadStaysOnScale == Spec => []LoadOnScale
<1>1. LoadInv => LoadOnScale
  BY DEF LoadInv, LoadFits, LoadOnScale
<1>2. QED BY LoadInitInv, LoadNextInv, <1>1, PTL DEF Spec

\* At most two percent above the scale.
LoadNearScale == ld.avg <= 1046 /\ 0 <= ld.est /\ ld.est <= 1046

\* Whatever a task goes through, the cap of accumulate_loading keeps the average and the
\* estimate near the scale (trans_scale_load, update_load_est): the larger of them is
\* what trans_task_load returns and the balancer compares with a CPU's capacity.
THEOREM LoadStaysNearScale == Spec => []LoadNearScale
<1>1. LoadInv => LoadNearScale
  BY DEF LoadInv, LoadTypeOK, Loads, Averages, LoadNearScale
<1>2. QED BY LoadInitInv, LoadNextInv, <1>1, PTL DEF Spec

\* A wake-up never raises the sum (update_task_loading records the enqueue time before
\* it asks how long the task was active).
THEOREM SleepOnlyDecays == Spec => SleepDecays
<1>1. LoadInv /\ [Next]_vars => [at = "off" => ld'.sum <= ld.sum]_vars
  <2> SUFFICES ASSUME LoadInv, Next, at = "off"  PROVE ld'.sum <= ld.sum
    OBVIOUS
  <2>1. CASE Wake
    BY <2>1, WakeLoad
  <2>2. CASE Elapse
    <3>1. ld.sum \in Nat
      BY DEF LoadInv, LoadTypeOK, Loads, Sums
    <3>2. QED BY <2>2, <3>1 DEF Elapse
  <2>3. QED BY <2>1, <2>2 DEF Next, Tick, SwitchIn, Preempt, SetState, Sleep, Migrate, Requeue
<1>2. QED BY LoadInitInv, LoadNextInv, <1>1, PTL DEF Spec, SleepDecays
=============================================================================
