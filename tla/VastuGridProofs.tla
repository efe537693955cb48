-------------------------- MODULE VastuGridProofs --------------------------
(***************************************************************************)
(* Theorems about the occupancy grid of vastu-slam, for any world, any     *)
(* sizes and sensors, any log-odds and thresholds and any max_distance:    *)
(* what a cell is follows from its evidence, and the distance field that   *)
(* is only ever flooded from new walls stays exact.                        *)
(***************************************************************************)
EXTENDS VastuGrid, FiniteSetTheorems, WellFoundedInduction, TLAPS

(***************************************************************************)
(* Induction, stated for sets: the provers can use it so.                  *)
(***************************************************************************)
LEMMA LeastOf ==
  ASSUME NEW T \in SUBSET Nat, T # {}
  PROVE  \E m \in T : \A n \in T : m <= n
<1> DEFINE upTo(n) == 1 .. n
           F == {upTo(n) : n \in T}
<1>1. F \subseteq FiniteSubsetsOf(Nat) /\ F # {}
  <2>1. ASSUME NEW n \in T PROVE 1 .. n \in FiniteSubsetsOf(Nat)
    <3>1. IsFiniteSet(1 .. n)
      BY FS_Interval
    <3>2. 1 .. n \in SUBSET Nat
      OBVIOUS
    <3>3. QED
      BY <3>1, <3>2 DEF FiniteSubsetsOf
  <2>2. QED
    BY <2>1
<1>2. IsWellFoundedOn(StrictSubsetOrdering(Nat), FiniteSubsetsOf(Nat))
  BY FS_StrictSubsetOrderingWellFounded
<1>3. PICK x \in F : \A y \in F : <<y, x>> \notin StrictSubsetOrdering(Nat)
  <2> HIDE DEF F
  <2>1. QED
    BY <1>1, <1>2, WFMin
<1>4. PICK m \in T : x = 1 .. m
  BY <1>3
<1>5. ASSUME NEW n \in T, n < m PROVE FALSE
  <2>1. (1 .. n) \subseteq (1 .. m) /\ m \in 1 .. m /\ m \notin 1 .. n
    BY <1>5
  <2>2. <<1 .. n, 1 .. m>> \in StrictSubsetOrdering(Nat)
    BY <2>1 DEF StrictSubsetOrdering
  <2>3. QED
    BY <1>3, <1>4, <2>2
<1>6. \A n \in T : m <= n
  BY <1>5
<1>7. QED
  BY <1>6

LEMMA InductionOn ==
  ASSUME NEW S \in SUBSET Nat, 0 \in S, \A n \in S : n + 1 \in S
  PROVE  S = Nat
<1> SUFFICES ASSUME Nat \ S # {} PROVE FALSE
  OBVIOUS
<1>1. PICK m \in Nat \ S : \A n \in Nat \ S : m <= n
  <2> DEFINE T == Nat \ S
  <2>1. T \in SUBSET Nat /\ T # {}
    OBVIOUS
  <2> HIDE DEF T
  <2>2. \E m \in T : \A n \in T : m <= n
    BY <2>1, LeastOf
  <2>3. QED
    BY <2>2 DEF T
<1>2. m # 0 /\ m - 1 \in Nat /\ m - 1 \notin S
  BY <1>1
<1>3. m - 1 \in Nat \ S /\ ~(m <= m - 1)
  BY <1>2
<1>4. QED
  BY <1>1, <1>3


-----------------------------------------------------------------------------
(***************************************************************************)
(* The flood is what its rounds say, one after the other.                  *)
(***************************************************************************)
LEMMA RoundsAre == Rounds \in Nat /\ 10 * Rounds > MaxDistance /\ Rounds >= 1
BY SizeAssumption DEF Rounds

WaveFrom(w, n, d, seeds) ==
  w = [k \in 0 .. n |-> IF k = 0 THEN [d |-> d, queue |-> {<<c, 0>> : c \in seeds}] ELSE Spread(w[k - 1])]

LEMMA WavesAre ==
  ASSUME NEW d, NEW seeds, NEW n \in Nat
  PROVE  \E w : WaveFrom(w, n, d, seeds)
<1> DEFINE S == {m \in Nat : \E w : WaveFrom(w, m, d, seeds)}
           start == [d |-> d, queue |-> {<<c, 0>> : c \in seeds}]
<1>1. 0 \in S
  <2> DEFINE w == [k \in 0 .. 0 |-> start]
  <2>1. w = [k \in 0 .. 0 |-> IF k = 0 THEN start ELSE Spread(w[k - 1])]
    OBVIOUS
  <2> HIDE DEF w
  <2>2. WaveFrom(w, 0, d, seeds)
    BY <2>1 DEF WaveFrom
  <2>3. QED
    BY <2>2
<1>2. ASSUME NEW m \in S PROVE m + 1 \in S
  <2>1. m \in Nat
    OBVIOUS
  <2>2. PICK w : WaveFrom(w, m, d, seeds)
    OBVIOUS
  <2> DEFINE v == [k \in 0 .. m + 1 |-> IF k <= m THEN w[k] ELSE Spread(w[m])]
  <2>3. w = [k \in 0 .. m |-> IF k = 0 THEN start ELSE Spread(w[k - 1])]
    BY <2>2 DEF WaveFrom
  <2>4. \A k \in 0 .. m : w[k] = IF k = 0 THEN start ELSE Spread(w[k - 1])
    <3> HIDE DEF start
    <3>1. QED
      BY <2>3
  <2>5. ASSUME NEW k \in 0 .. m + 1
        PROVE  v[k] = IF k = 0 THEN start ELSE Spread(v[k - 1])
    <3> HIDE DEF start
    <3>1. CASE k = m + 1
      <4>1. v[k] = Spread(w[m]) /\ v[k - 1] = w[m] /\ k # 0
        BY <2>1, <3>1
      <4>2. QED
        BY <4>1
    <3>2. CASE k \in 1 .. m
      <4>1. v[k] = w[k] /\ v[k - 1] = w[k - 1] /\ w[k] = Spread(w[k - 1]) /\ k # 0
        BY <2>1, <2>4, <3>2
      <4>2. QED
        BY <4>1
    <3>3. CASE k = 0
      BY <2>1, <2>4, <3>3
    <3>4. QED
      BY <2>1, <3>1, <3>2, <3>3
  <2>6. v = [k \in 0 .. m + 1 |-> v[k]]
    OBVIOUS
  <2> HIDE DEF v
  <2>7. v = [k \in 0 .. m + 1 |-> IF k = 0 THEN start ELSE Spread(v[k - 1])]
    <3> HIDE DEF start
    <3>1. QED
      BY <2>5, <2>6
  <2>8. WaveFrom(v, m + 1, d, seeds)
    BY <2>7 DEF WaveFrom
  <2>9. QED
    BY <2>1, <2>8
<1>3. S = Nat
  <2> HIDE DEF S
  <2>1. S \in SUBSET Nat
    BY DEF S
  <2>2. QED
    BY <1>1, <1>2, <2>1, InductionOn
<1>4. QED
  BY <1>3

\* The result of a flood is that of a sequence of rounds.
LEMMA FloodIs ==
  ASSUME NEW d, NEW seeds
  PROVE  \E w : /\ w[0] = [d |-> d, queue |-> {<<c, 0>> : c \in seeds}]
                /\ \A k \in 1 .. Rounds : w[k] = Spread(w[k - 1])
                /\ Flood(d, seeds) = w[Rounds].d
<1> DEFINE start == [d |-> d, queue |-> {<<c, 0>> : c \in seeds}]
           wave == CHOOSE w : w = [k \in 0 .. Rounds |-> IF k = 0 THEN start ELSE Spread(w[k - 1])]
<1>1. \E w : w = [k \in 0 .. Rounds |-> IF k = 0 THEN start ELSE Spread(w[k - 1])]
  <2>1. \E w : WaveFrom(w, Rounds, d, seeds)
    BY WavesAre, RoundsAre
  <2>2. QED
    BY <2>1 DEF WaveFrom
<1>2. wave = [k \in 0 .. Rounds |-> IF k = 0 THEN start ELSE Spread(wave[k - 1])]
  BY <1>1
<1>3. Flood(d, seeds) = wave[Rounds].d
  BY DEF Flood
<1> HIDE DEF wave, start
<1>4. \A k \in 0 .. Rounds : wave[k] = IF k = 0 THEN start ELSE Spread(wave[k - 1])
  BY <1>2
<1>5. wave[0] = start /\ \A k \in 1 .. Rounds : wave[k] = Spread(wave[k - 1])
  BY <1>4, RoundsAre
<1>6. QED
  BY <1>3, <1>5 DEF start


-----------------------------------------------------------------------------
(***************************************************************************)
(* One round of the flood.                                                 *)
(***************************************************************************)
Dist == 0 .. MaxDistance \cup {NoWall}

\* The distances, and a queue of cells each with its own.
Wave(wave) ==
  /\ wave.d \in [World -> Dist]
  /\ \A q \in wave.queue : /\ q[1] \in Cells /\ q[2] \in 0 .. MaxDistance
                           /\ q[2] = wave.d[q[1]]

Front(wave) == {q[1] : q \in wave.queue}

LEMMA DistancesAre ==
  /\ MaxDistance \in Nat /\ MaxDistance > 0 /\ NoWall \in Nat /\ NoWall > MaxDistance
  /\ Dist \subseteq Nat
BY SizeAssumption DEF NoWall, Dist

LEMMA PlacesAre ==
  /\ \A c \in World : c \in Int \X Int /\ c[1] \in Int /\ c[2] \in Int /\ c = <<c[1], c[2]>>
  /\ Cells \subseteq World
  /\ \A a, b : Step(a, b) \in {10, 14} /\ Step(a, b) = Step(b, a)
<1>1. \A c \in Int \X Int : c[1] \in Int /\ c[2] \in Int /\ c = <<c[1], c[2]>>
  OBVIOUS
<1>2. World \subseteq Int \X Int
  BY SizeAssumption
<1>3. Cells \subseteq World
  BY DEF Cells
<1>4. \A a, b : Step(a, b) \in {10, 14} /\ Step(a, b) = Step(b, a)
  BY DEF Step
<1>5. QED
  BY <1>1, <1>2, <1>3, <1>4

\* A round takes every cell to the least distance its neighbours in the queue offer, and
\* queues those for which that is less than before.
LEMMA SpreadIs ==
  ASSUME NEW wave, Wave(wave), NEW then, then = Spread(wave)
  PROVE  /\ Wave(then)
         /\ \A c \in World : then.d[c] <= wave.d[c]
         /\ \A c \in World \ Front(then) : then.d[c] = wave.d[c]
         /\ \A n \in Front(then) : \E c \in Front(wave) :
              n \in Near(c) /\ then.d[n] = wave.d[c] + Step(c, n)
         /\ \A c \in Front(wave) : \A n \in Near(c) :
              wave.d[c] + Step(c, n) <= MaxDistance => then.d[n] <= wave.d[c] + Step(c, n)
<1> DEFINE offers == UNION {{<<n, q[2] + Step(q[1], n)>> : n \in Near(q[1])} : q \in wave.queue}
           taken  == {o \in offers : /\ o[2] <= MaxDistance /\ o[2] < wave.d[o[1]]
                                     /\ \A p \in offers : p[1] = o[1] => o[2] <= p[2]}
           to(c)  == {o \in taken : o[1] = c}
           given(c) == (CHOOSE o \in to(c) : TRUE)[2]
<1>1. /\ then.d = [c \in World |-> IF to(c) = {} THEN wave.d[c] ELSE given(c)]
      /\ then.queue = taken
  BY DEF Spread
<1>2. Cells \subseteq World /\ \A c : Near(c) \subseteq Cells
  BY PlacesAre DEF Near
<1>3. /\ \A c \in World : wave.d[c] \in Dist /\ wave.d[c] \in Nat
      /\ \A q \in wave.queue : q[1] \in Cells /\ q[2] \in 0 .. MaxDistance /\ q[2] = wave.d[q[1]]
  BY DistancesAre DEF Wave
\* What is offered, by a cell of the front to a neighbour.
<1>4. ASSUME NEW o \in offers
      PROVE  /\ o[1] \in Cells /\ o[2] \in Nat /\ o[2] > 0
             /\ \E c \in Front(wave) : o[1] \in Near(c) /\ o[2] = wave.d[c] + Step(c, o[1])
  <2>1. PICK q \in wave.queue : \E n \in Near(q[1]) : o = <<n, q[2] + Step(q[1], n)>>
    OBVIOUS
  <2>2. PICK n \in Near(q[1]) : o = <<n, q[2] + Step(q[1], n)>>
    BY <2>1
  <2>3. o[1] = n /\ o[2] = q[2] + Step(q[1], n) /\ q[1] \in Front(wave)
    BY <2>2 DEF Front
  <2>4. q[2] \in Nat /\ Step(q[1], n) \in {10, 14} /\ q[2] = wave.d[q[1]] /\ n \in Cells
    BY <1>2, <1>3, PlacesAre, DistancesAre
  <2>5. QED
    BY <2>3, <2>4
<1>5. ASSUME NEW c \in Front(wave), NEW n \in Near(c)
      PROVE  <<n, wave.d[c] + Step(c, n)>> \in offers
  <2>1. PICK q \in wave.queue : q[1] = c
    BY DEF Front
  <2>2. q[2] = wave.d[c]
    BY <1>3, <2>1
  <2>3. QED
    BY <2>1, <2>2
<1> HIDE DEF offers
\* What is taken is one distance for a cell.
<1>6. ASSUME NEW o \in taken
      PROVE  /\ o \in offers /\ o[1] \in Cells /\ o[2] \in 0 .. MaxDistance /\ o[2] > 0
             /\ o[2] < wave.d[o[1]] /\ then.d[o[1]] = o[2]
  <2>1. o \in offers /\ o[1] \in Cells /\ o[2] \in 0 .. MaxDistance /\ o[2] > 0 /\ o[2] < wave.d[o[1]]
    BY <1>4, DistancesAre
  <2>2. o \in to(o[1]) /\ o[1] \in World
    BY <1>2, <2>1
  <2>3. PICK p \in to(o[1]) : given(o[1]) = p[2]
    BY <2>2
  <2>4. p \in offers /\ p[1] = o[1] /\ p[2] \in Nat /\ o[2] \in Nat /\ p[2] <= o[2] /\ o[2] <= p[2]
    BY <1>4, <2>1, <2>3
  <2>5. then.d[o[1]] = given(o[1])
    <3> HIDE DEF given, to
    <3>1. QED
      BY <1>1, <2>2
  <2>6. QED
    BY <2>1, <2>3, <2>4, <2>5
<1>7. ASSUME NEW c \in World
      PROVE  /\ c \in Front(then) => to(c) # {}
             /\ to(c) = {} => then.d[c] = wave.d[c]
             /\ to(c) # {} => \E o \in taken : o[1] = c /\ c \in Front(then) /\ then.d[c] = o[2]
  <2>1. c \in Front(then) => to(c) # {}
    BY <1>1 DEF Front
  <2>2. to(c) = {} => then.d[c] = wave.d[c]
    <3> HIDE DEF given, to
    <3>1. QED
      BY <1>1
  <2>3. ASSUME to(c) # {} PROVE \E o \in taken : o[1] = c /\ c \in Front(then) /\ then.d[c] = o[2]
    <3>1. PICK o \in taken : o[1] = c
      BY <2>3
    <3>2. c \in Front(then)
      BY <1>1, <3>1 DEF Front
    <3>3. QED
      BY <1>6, <3>1, <3>2
  <2>4. QED
    BY <2>1, <2>2, <2>3
<1>8. ASSUME NEW c \in Front(wave), NEW n \in Near(c), wave.d[c] + Step(c, n) <= MaxDistance
      PROVE  then.d[n] <= wave.d[c] + Step(c, n)
  <2> DEFINE v == wave.d[c] + Step(c, n)
             less == {w \in Nat : <<n, w>> \in offers}
  <2>1. <<n, v>> \in offers /\ v \in Nat /\ n \in World /\ wave.d[n] \in Nat
    <3>1. <<n, v>> \in offers
      BY <1>5
    <3>2. <<n, v>>[2] \in Nat
      BY <1>4, <3>1
    <3>3. QED
      BY <1>2, <1>3, <3>1, <3>2
  <2>2. less \in SUBSET Nat /\ v \in less
    BY <2>1
  <2> HIDE DEF v
  <2>3. PICK m \in less : \A w \in less : m <= w
    <3> HIDE DEF less
    <3>1. QED
      BY <2>2, LeastOf
  <2>4. m \in Nat /\ <<n, m>> \in offers /\ m <= v
    BY <2>2, <2>3
  <2>5. \A p \in offers : p[1] = n => m <= p[2]
    <3>1. ASSUME NEW p \in offers, p[1] = n PROVE m <= p[2]
      <4>1. p[2] \in Nat /\ p = <<n, p[2]>>
        BY <1>4, <3>1 DEF offers
      <4>2. p[2] \in less
        BY <4>1
      <4>3. QED
        BY <2>3, <4>2
    <3>2. QED
      BY <3>1
  <2>6. CASE m < wave.d[n]
    <3>1. <<n, m>> \in taken
      BY <1>8, <2>1, <2>4, <2>5, <2>6, DistancesAre DEF v
    <3>2. then.d[n] = m
      BY <1>6, <3>1
    <3>3. QED
      BY <2>4, <3>2 DEF v
  <2>7. CASE ~(m < wave.d[n])
    <3>1. then.d[n] \in Nat /\ then.d[n] <= wave.d[n]
      <4>1. CASE to(n) = {}
        BY <1>7, <2>1, <4>1
      <4>2. CASE to(n) # {}
        <5>1. PICK o \in taken : o[1] = n /\ then.d[n] = o[2]
          BY <1>7, <2>1, <4>2
        <5>2. QED
          BY <1>6, <2>1, <5>1, DistancesAre
      <4>3. QED
        BY <4>1, <4>2
    <3>2. QED
      BY <2>1, <2>4, <2>7, <3>1 DEF v
  <2>8. QED
    BY <2>6, <2>7
<1>9. ASSUME NEW n \in Front(then)
      PROVE  \E c \in Front(wave) : n \in Near(c) /\ then.d[n] = wave.d[c] + Step(c, n)
  <2>1. PICK o \in taken : o[1] = n
    BY <1>1 DEF Front
  <2>2. PICK c \in Front(wave) : o[1] \in Near(c) /\ o[2] = wave.d[c] + Step(c, o[1])
    BY <1>4, <1>6, <2>1
  <2>3. QED
    BY <1>6, <2>1, <2>2
<1>10. ASSUME NEW c \in World
       PROVE  /\ then.d[c] \in Dist /\ then.d[c] <= wave.d[c]
              /\ c \notin Front(then) => then.d[c] = wave.d[c]
  <2>1. CASE to(c) = {}
    BY <1>3, <1>7, <2>1
  <2>2. CASE to(c) # {}
    <3>1. PICK o \in taken : o[1] = c /\ c \in Front(then) /\ then.d[c] = o[2]
      BY <1>7, <2>2
    <3>2. QED
      BY <1>3, <1>6, <3>1, DistancesAre DEF Dist
  <2>3. QED
    BY <2>1, <2>2
<1>11. Wave(then)
  <2>1. then.d = [c \in World |-> then.d[c]]
    <3> HIDE DEF given, to
    <3>1. QED
      BY <1>1
  <2>2. then.d \in [World -> Dist]
    BY <1>10, <2>1
  <2>3. \A q \in then.queue : q[1] \in Cells /\ q[2] \in 0 .. MaxDistance /\ q[2] = then.d[q[1]]
    <3> HIDE DEF taken
    <3>1. QED
      BY <1>1, <1>6
  <2>4. QED
    BY <2>2, <2>3 DEF Wave
<1>12. QED
  BY <1>8, <1>9, <1>10, <1>11


-----------------------------------------------------------------------------
(***************************************************************************)
(* What a flood is for: every distance is that of some wall at least, and  *)
(* no cell is farther than a neighbour and the step to it.                 *)
(***************************************************************************)
Supported(d) ==
  \A c \in Cells : d[c] # NoWall => \E w \in Cells : d[w] = 0 /\ Octile(w, c) <= d[c]

Relaxed(d, front) ==
  \A c \in Cells \ front : \A n \in Near(c) :
    d[c] + Step(c, n) <= MaxDistance => d[n] <= d[c] + Step(c, n)

LEMMA NearIs ==
  ASSUME NEW c \in Cells, NEW n \in Near(c)
  PROVE  /\ n \in Cells /\ n \in World /\ c \in World
         /\ c[1] \in Int /\ c[2] \in Int /\ n[1] \in Int /\ n[2] \in Int
         /\ n[1] - c[1] \in -1 .. 1 /\ n[2] - c[2] \in -1 .. 1
         /\ n[1] # c[1] \/ n[2] # c[2]
<1>1. n \in Cells /\ n # c /\ Abs(n[1] - c[1]) <= 1 /\ Abs(n[2] - c[2]) <= 1
  BY DEF Near
<1>2. /\ n \in World /\ c \in World
      /\ c[1] \in Int /\ c[2] \in Int /\ n[1] \in Int /\ n[2] \in Int
      /\ c = <<c[1], c[2]>> /\ n = <<n[1], n[2]>>
  BY <1>1, PlacesAre
<1>3. n[1] - c[1] \in -1 .. 1 /\ n[2] - c[2] \in -1 .. 1
  BY <1>1, <1>2 DEF Abs
<1>4. QED
  BY <1>1, <1>2, <1>3

LEMMA OctileIs ==
  ASSUME NEW a \in World, NEW b \in World
  PROVE  /\ Octile(a, b) \in Nat
         /\ \A dx, dy \in Nat : dx = Abs(a[1] - b[1]) /\ dy = Abs(a[2] - b[2]) =>
              Octile(a, b) = IF dx < dy THEN 10 * dy + 4 * dx ELSE 10 * dx + 4 * dy
<1>1. a[1] \in Int /\ a[2] \in Int /\ b[1] \in Int /\ b[2] \in Int
  BY PlacesAre
<1>2. Abs(a[1] - b[1]) \in Nat /\ Abs(a[2] - b[2]) \in Nat
  BY <1>1 DEF Abs
<1>3. ASSUME NEW dx \in Nat, NEW dy \in Nat, dx = Abs(a[1] - b[1]), dy = Abs(a[2] - b[2])
      PROVE  Octile(a, b) = IF dx < dy THEN 10 * dy + 4 * dx ELSE 10 * dx + 4 * dy
  <2>1. Octile(a, b) = 10 * (Most(dx, dy) - Least(dx, dy)) + 14 * Least(dx, dy)
    BY <1>3 DEF Octile
  <2>2. QED
    BY <2>1 DEF Most, Least
<1>4. Octile(a, b) \in Nat
  BY <1>2, <1>3
<1>5. QED
  BY <1>3, <1>4

\* The way from a wall to a neighbour is no longer than over the cell.
LEMMA OctileTriangle ==
  ASSUME NEW w \in World, NEW c \in Cells, NEW n \in Near(c)
  PROVE  Octile(w, n) <= Octile(w, c) + Step(c, n)
<1> DEFINE dx == Abs(w[1] - c[1])  dy == Abs(w[2] - c[2])
           ex == Abs(w[1] - n[1])  ey == Abs(w[2] - n[2])
<1>1. /\ w[1] \in Int /\ w[2] \in Int /\ n \in World /\ c \in World
      /\ c[1] \in Int /\ c[2] \in Int /\ n[1] \in Int /\ n[2] \in Int
      /\ n[1] - c[1] \in -1 .. 1 /\ n[2] - c[2] \in -1 .. 1
      /\ n[1] # c[1] \/ n[2] # c[2]
  BY NearIs, PlacesAre
<1>2. dx \in Nat /\ dy \in Nat /\ ex \in Nat /\ ey \in Nat
  BY <1>1 DEF Abs
<1>3. ex <= dx + 1 /\ ey <= dy + 1
  BY <1>1 DEF Abs
<1>4. (n[1] = c[1] => ex = dx) /\ (n[2] = c[2] => ey = dy)
  BY <1>1
<1>5. /\ Octile(w, c) = IF dx < dy THEN 10 * dy + 4 * dx ELSE 10 * dx + 4 * dy
      /\ Octile(w, n) = IF ex < ey THEN 10 * ey + 4 * ex ELSE 10 * ex + 4 * ey
  BY <1>1, <1>2, OctileIs
<1>6. Step(c, n) = IF c[1] = n[1] \/ c[2] = n[2] THEN 10 ELSE 14
  BY DEF Step
<1> HIDE DEF dx, dy, ex, ey
<1>7. CASE n[1] = c[1]
  BY <1>2, <1>3, <1>4, <1>5, <1>6, <1>7
<1>8. CASE n[2] = c[2]
  BY <1>2, <1>3, <1>4, <1>5, <1>6, <1>8
<1>9. CASE n[1] # c[1] /\ n[2] # c[2]
  BY <1>2, <1>3, <1>5, <1>6, <1>9
<1>10. QED
  BY <1>7, <1>8, <1>9

\* A round keeps the zeros, and what it has to.
LEMMA RoundKeeps ==
  ASSUME NEW wave, Wave(wave), NEW then, then = Spread(wave), NEW k \in Nat,
         \A c \in Front(wave) : wave.d[c] >= 10 * k
  PROVE  /\ Wave(then)
         /\ \A c \in World : then.d[c] <= wave.d[c] /\ (then.d[c] = 0 <=> wave.d[c] = 0)
         /\ \A c \in World \ Cells : then.d[c] = wave.d[c]
         /\ \A c \in Front(then) : then.d[c] >= 10 * (k + 1)
         /\ Supported(wave.d) => Supported(then.d)
         /\ Relaxed(wave.d, Front(wave)) => Relaxed(then.d, Front(then))
<1>1. /\ Wave(then)
      /\ \A c \in World : then.d[c] <= wave.d[c]
      /\ \A c \in World \ Front(then) : then.d[c] = wave.d[c]
      /\ \A n \in Front(then) : \E c \in Front(wave) :
           n \in Near(c) /\ then.d[n] = wave.d[c] + Step(c, n)
      /\ \A c \in Front(wave) : \A n \in Near(c) :
           wave.d[c] + Step(c, n) <= MaxDistance => then.d[n] <= wave.d[c] + Step(c, n)
  BY SpreadIs
<1>2. /\ \A c \in World : wave.d[c] \in Nat /\ then.d[c] \in Nat
      /\ \A c \in Front(wave) : c \in Cells /\ c \in World /\ wave.d[c] <= MaxDistance
      /\ \A c \in Front(then) : c \in Cells /\ c \in World /\ then.d[c] <= MaxDistance
  BY <1>1, DistancesAre, PlacesAre DEF Wave, Front
<1>3. ASSUME NEW n \in Front(then) PROVE then.d[n] >= 10 * (k + 1) /\ wave.d[n] > 0
  <2>1. PICK c \in Front(wave) : n \in Near(c) /\ then.d[n] = wave.d[c] + Step(c, n)
    BY <1>1
  <2>2. wave.d[c] \in Nat /\ wave.d[c] >= 10 * k /\ Step(c, n) \in {10, 14}
    BY <1>2, PlacesAre
  <2>3. wave.d[n] \in Nat /\ then.d[n] <= wave.d[n]
    BY <1>1, <1>2
  <2>4. QED
    BY <2>1, <2>2, <2>3
<1>4. \A c \in World : then.d[c] = 0 <=> wave.d[c] = 0
  <2>1. \A c \in Front(then) : then.d[c] > 0 /\ wave.d[c] > 0 /\ then.d[c] \in Nat
    BY <1>2, <1>3
  <2>2. QED
    BY <1>1, <1>2, <2>1
<1>5. \A c \in World \ Cells : then.d[c] = wave.d[c]
  BY <1>1, <1>2
<1>6. ASSUME Supported(wave.d) PROVE Supported(then.d)
  <2> SUFFICES ASSUME NEW n \in Cells, then.d[n] # NoWall
               PROVE  \E w \in Cells : then.d[w] = 0 /\ Octile(w, n) <= then.d[n]
    BY DEF Supported
  <2>1. n \in World
    BY PlacesAre
  <2>2. CASE n \notin Front(then)
    <3>1. then.d[n] = wave.d[n]
      BY <1>1, <2>1, <2>2
    <3>2. PICK w \in Cells : wave.d[w] = 0 /\ Octile(w, n) <= wave.d[n]
      BY <1>6, <2>1, <3>1 DEF Supported
    <3>3. QED
      BY <1>4, <3>1, <3>2, PlacesAre
  <2>3. CASE n \in Front(then)
    <3>1. PICK c \in Front(wave) : n \in Near(c) /\ then.d[n] = wave.d[c] + Step(c, n)
      BY <1>1, <2>3
    <3>2. wave.d[c] # NoWall /\ c \in Cells /\ c \in World /\ wave.d[c] \in Nat
      BY <1>2, DistancesAre
    <3>3. PICK w \in Cells : wave.d[w] = 0 /\ Octile(w, c) <= wave.d[c]
      BY <1>6, <3>2 DEF Supported
    <3>4. w \in World /\ then.d[w] = 0
      BY <1>4, <3>3, PlacesAre
    <3>5. Octile(w, n) \in Nat /\ Octile(w, c) \in Nat /\ Step(c, n) \in {10, 14}
          /\ Octile(w, n) <= Octile(w, c) + Step(c, n)
      BY <2>1, <3>1, <3>2, <3>4, OctileIs, OctileTriangle, PlacesAre
    <3>6. Octile(w, n) <= then.d[n]
      BY <3>1, <3>2, <3>3, <3>5
    <3>7. QED
      BY <3>4, <3>6
  <2>4. QED
    BY <2>2, <2>3
<1>7. ASSUME Relaxed(wave.d, Front(wave)) PROVE Relaxed(then.d, Front(then))
  <2> SUFFICES ASSUME NEW c \in Cells \ Front(then), NEW n \in Near(c),
                      then.d[c] + Step(c, n) <= MaxDistance
               PROVE  then.d[n] <= then.d[c] + Step(c, n)
    BY DEF Relaxed
  <2>1. /\ c \in World /\ n \in World /\ then.d[c] = wave.d[c] /\ Step(c, n) \in {10, 14}
        /\ then.d[n] \in Nat /\ wave.d[n] \in Nat /\ wave.d[c] \in Nat /\ then.d[n] <= wave.d[n]
    BY <1>1, <1>2, NearIs, PlacesAre
  <2>2. CASE c \in Front(wave)
    BY <1>1, <2>1, <2>2
  <2>3. CASE c \notin Front(wave)
    <3>1. wave.d[n] <= wave.d[c] + Step(c, n)
      BY <1>7, <2>1, <2>3 DEF Relaxed
    <3>2. QED
      BY <2>1, <3>1
  <2>4. QED
    BY <2>2, <2>3
<1>8. QED
  BY <1>1, <1>3, <1>4, <1>5, <1>6, <1>7


\* A flood from new zeros: the zeros stay, no cell gets farther, and the field is
\* relaxed everywhere when it was so but for the zeros.
LEMMA FloodKeeps ==
  ASSUME NEW d \in [World -> Dist], NEW seeds \in SUBSET Cells, \A c \in seeds : d[c] = 0
  PROVE  /\ Flood(d, seeds) \in [World -> Dist]
         /\ \A c \in World : Flood(d, seeds)[c] = 0 <=> d[c] = 0
         /\ \A c \in World \ Cells : Flood(d, seeds)[c] = d[c]
         /\ Supported(d) => Supported(Flood(d, seeds))
         /\ Relaxed(d, seeds) => Relaxed(Flood(d, seeds), {})
<1>1. PICK w : /\ w[0] = [d |-> d, queue |-> {<<c, 0>> : c \in seeds}]
               /\ \A k \in 1 .. Rounds : w[k] = Spread(w[k - 1])
               /\ Flood(d, seeds) = w[Rounds].d
  BY FloodIs
<1> DEFINE Good(wave, k) ==
             /\ Wave(wave)
             /\ \A c \in World : wave.d[c] = 0 <=> d[c] = 0
             /\ \A c \in World \ Cells : wave.d[c] = d[c]
             /\ \A c \in Front(wave) : wave.d[c] >= 10 * k
             /\ Supported(d) => Supported(wave.d)
             /\ Relaxed(d, seeds) => Relaxed(wave.d, Front(wave))
           S == {k \in Nat : k <= Rounds => Good(w[k], k)}
<1>2. 0 \in S
  <2>1. w[0].d = d /\ w[0].queue = {<<c, 0>> : c \in seeds}
    BY <1>1
  <2>2. Front(w[0]) = seeds
    <3>1. ASSUME NEW c \in seeds PROVE c \in Front(w[0])
      <4>1. <<c, 0>> \in w[0].queue /\ <<c, 0>>[1] = c
        BY <2>1
      <4>2. QED
        BY <4>1 DEF Front
    <3>2. ASSUME NEW c \in Front(w[0]) PROVE c \in seeds
      BY <2>1, <3>2 DEF Front
    <3>3. QED
      BY <3>1, <3>2
  <2>3. \A q \in w[0].queue : q[1] \in Cells /\ q[2] \in 0 .. MaxDistance /\ q[2] = w[0].d[q[1]]
    BY <2>1, DistancesAre
  <2>4. Wave(w[0])
    BY <2>1, <2>3 DEF Wave
  <2>5. \A c \in seeds : d[c] >= 10 * 0
    OBVIOUS
  <2>6. Good(w[0], 0)
    BY <2>1, <2>2, <2>4, <2>5
  <2>7. QED
    BY <2>6
<1>3. ASSUME NEW k \in S PROVE k + 1 \in S
  <2>1. SUFFICES ASSUME k + 1 <= Rounds PROVE Good(w[k + 1], k + 1)
    OBVIOUS
  <2>2. k \in Nat /\ Rounds \in Nat /\ Good(w[k], k)
    BY <2>1, RoundsAre
  <2>3. w[k + 1] = Spread(w[k])
    BY <1>1, <2>1, <2>2
  <2>4. /\ Wave(w[k + 1])
        /\ \A c \in World : w[k + 1].d[c] <= w[k].d[c] /\ (w[k + 1].d[c] = 0 <=> w[k].d[c] = 0)
        /\ \A c \in World \ Cells : w[k + 1].d[c] = w[k].d[c]
        /\ \A c \in Front(w[k + 1]) : w[k + 1].d[c] >= 10 * (k + 1)
        /\ Supported(w[k].d) => Supported(w[k + 1].d)
        /\ Relaxed(w[k].d, Front(w[k])) => Relaxed(w[k + 1].d, Front(w[k + 1]))
    BY <2>2, <2>3, RoundKeeps
  <2>5. QED
    BY <2>2, <2>4
<1>4. S = Nat
  <2>1. S \in SUBSET Nat
    OBVIOUS
  <2> HIDE DEF S
  <2>2. QED
    BY <1>2, <1>3, <2>1, InductionOn
<1>5. Good(w[Rounds], Rounds)
  BY <1>4, RoundsAre
\* Nothing is left in the queue: it would be farther than MaxDistance.
<1>6. Front(w[Rounds]) = {}
  <2>1. \A c \in Front(w[Rounds]) : w[Rounds].d[c] >= 10 * Rounds /\ w[Rounds].d[c] \in 0 .. MaxDistance
    BY <1>5 DEF Wave, Front
  <2>2. QED
    BY <2>1, RoundsAre, DistancesAre
<1>7. QED
  BY <1>1, <1>5, <1>6 DEF Wave

\* With the walls of the batch at zero, a flood restores both.
LEMMA SeededFlood ==
  ASSUME dist \in [World -> Dist], NEW seeds \in SUBSET Cells,
         NEW f, f = Flood(Seeded(seeds), seeds)
  PROVE  /\ f \in [World -> Dist]
         /\ \A c \in World : f[c] = 0 <=> (dist[c] = 0 \/ c \in seeds)
         /\ \A c \in World \ Cells : f[c] = dist[c]
         /\ Supported(dist) /\ Relaxed(dist, {}) => Supported(f) /\ Relaxed(f, {})
<1> DEFINE d == Seeded(seeds)
<1>1. /\ Cells \subseteq World
      /\ 0 \in Dist
  BY PlacesAre, DistancesAre DEF Dist
<1>2. /\ d \in [World -> Dist]
      /\ \A c \in World : d[c] = IF c \in seeds THEN 0 ELSE dist[c]
  BY <1>1 DEF Seeded
<1> HIDE DEF d
<1>3. \A c \in seeds : d[c] = 0
  BY <1>1, <1>2
<1>4. /\ f \in [World -> Dist]
      /\ \A c \in World : f[c] = 0 <=> d[c] = 0
      /\ \A c \in World \ Cells : f[c] = d[c]
      /\ Supported(d) => Supported(f)
      /\ Relaxed(d, seeds) => Relaxed(f, {})
  BY <1>2, <1>3, FloodKeeps DEF d
<1>5. ASSUME Supported(dist) PROVE Supported(d)
  <2> SUFFICES ASSUME NEW c \in Cells, d[c] # NoWall
               PROVE  \E w \in Cells : d[w] = 0 /\ Octile(w, c) <= d[c]
    BY DEF Supported
  <2>1. CASE c \in seeds
    <3>1. c \in World /\ d[c] = 0 /\ c[1] \in Int /\ c[2] \in Int
      BY <1>1, <1>2, <2>1, PlacesAre
    <3>2. Abs(c[1] - c[1]) = 0 /\ Abs(c[2] - c[2]) = 0
      BY <3>1 DEF Abs
    <3>3. Octile(c, c) = 0
      BY <3>1, <3>2, OctileIs
    <3>4. QED
      BY <3>1, <3>3
  <2>2. CASE c \notin seeds
    <3>1. d[c] = dist[c]
      BY <1>1, <1>2, <2>2
    <3>2. PICK w \in Cells : dist[w] = 0 /\ Octile(w, c) <= dist[c]
      BY <1>5, <3>1 DEF Supported
    <3>3. d[w] = 0
      BY <1>1, <1>2, <3>2
    <3>4. QED
      BY <3>1, <3>2, <3>3
  <2>3. QED
    BY <2>1, <2>2
<1>6. ASSUME Relaxed(dist, {}) PROVE Relaxed(d, seeds)
  <2> SUFFICES ASSUME NEW c \in Cells \ seeds, NEW n \in Near(c), d[c] + Step(c, n) <= MaxDistance
               PROVE  d[n] <= d[c] + Step(c, n)
    BY DEF Relaxed
  <2>1. /\ c \in World /\ n \in World /\ d[c] = dist[c] /\ dist[c] \in Nat /\ dist[n] \in Nat
        /\ Step(c, n) \in {10, 14}
    BY <1>2, NearIs, PlacesAre, DistancesAre
  <2>2. dist[n] <= dist[c] + Step(c, n)
    BY <1>6, <2>1 DEF Relaxed
  <2>3. d[n] = 0 \/ d[n] = dist[n]
    BY <1>2, <2>1
  <2>4. QED
    BY <2>1, <2>2, <2>3
<1>7. QED
  BY <1>1, <1>2, <1>4, <1>5, <1>6


-----------------------------------------------------------------------------
(***************************************************************************)
(* A supported and relaxed field is exact: walk from a cell to the wall.   *)
(***************************************************************************)
AreaTypes ==
  /\ area.origin \in Int \X Int /\ area.width \in 1 .. MaxWidth /\ area.height \in 1 .. MaxHeight

\* The whole area is in the world, no cell of it is missing.
AreaFull == \A x, y \in Int : InArea(<<x, y>>, area) => <<x, y>> \in World

LEMMA AreaIs ==
  ASSUME AreaTypes
  PROVE  /\ area.origin[1] \in Int /\ area.origin[2] \in Int
         /\ area.width \in Nat /\ area.height \in Nat /\ area.width > 0 /\ area.height > 0
         /\ \A c : InArea(c, area) <=>
              /\ c[1] - area.origin[1] \in 0 .. area.width - 1
              /\ c[2] - area.origin[2] \in 0 .. area.height - 1
<1>1. area.origin[1] \in Int /\ area.origin[2] \in Int
  BY DEF AreaTypes
<1>2. area.width \in Nat /\ area.height \in Nat /\ area.width > 0 /\ area.height > 0
  BY SizeAssumption DEF AreaTypes
<1>3. QED
  BY <1>1, <1>2 DEF InArea

Far(w, c) == IF Abs(w[1] - c[1]) < Abs(w[2] - c[2]) THEN Abs(w[2] - c[2]) ELSE Abs(w[1] - c[1])

LEMMA OneStepNearer ==
  ASSUME AreaTypes, AreaFull, NEW w \in Cells, NEW c \in Cells, w # c
  PROVE  \E e \in Cells : /\ c \in Near(e)
                          /\ Octile(w, e) + Step(e, c) = Octile(w, c)
                          /\ Far(w, e) = Far(w, c) - 1
<1> DEFINE to(a, b) == IF a < b THEN a + 1 ELSE IF b < a THEN a - 1 ELSE a
           e == <<to(c[1], w[1]), to(c[2], w[2])>>
           dx == Abs(w[1] - c[1])  dy == Abs(w[2] - c[2])
           ex == Abs(w[1] - e[1])  ey == Abs(w[2] - e[2])
<1>1. /\ w \in World /\ c \in World /\ InArea(w, area) /\ InArea(c, area)
      /\ w[1] \in Int /\ w[2] \in Int /\ c[1] \in Int /\ c[2] \in Int
      /\ w = <<w[1], w[2]>> /\ c = <<c[1], c[2]>>
  BY PlacesAre DEF Cells
<1>2. e[1] = to(c[1], w[1]) /\ e[2] = to(c[2], w[2]) /\ e[1] \in Int /\ e[2] \in Int
  BY <1>1
<1>3. InArea(<<e[1], e[2]>>, area)
  BY <1>1, <1>2, AreaIs
<1>4. e \in World /\ e \in Cells
  <2>1. <<e[1], e[2]>> = e
    OBVIOUS
  <2>2. QED
    BY <1>2, <1>3, <2>1 DEF AreaFull, Cells
<1>5. dx \in Nat /\ dy \in Nat /\ ex \in Nat /\ ey \in Nat
  BY <1>1, <1>2 DEF Abs
<1>6. /\ (c[1] = w[1] => dx = 0 /\ ex = 0 /\ e[1] = c[1])
      /\ (c[1] # w[1] => dx > 0 /\ ex = dx - 1 /\ e[1] # c[1])
      /\ (c[2] = w[2] => dy = 0 /\ ey = 0 /\ e[2] = c[2])
      /\ (c[2] # w[2] => dy > 0 /\ ey = dy - 1 /\ e[2] # c[2])
  BY <1>1, <1>2 DEF Abs
<1>7. c[1] # w[1] \/ c[2] # w[2]
  BY <1>1
<1>8. Abs(c[1] - e[1]) <= 1 /\ Abs(c[2] - e[2]) <= 1
  BY <1>1, <1>2 DEF Abs
<1>9. c \in Near(e)
  BY <1>4, <1>6, <1>7, <1>8 DEF Near
<1>10. /\ Octile(w, c) = IF dx < dy THEN 10 * dy + 4 * dx ELSE 10 * dx + 4 * dy
       /\ Octile(w, e) = IF ex < ey THEN 10 * ey + 4 * ex ELSE 10 * ex + 4 * ey
  BY <1>1, <1>4, <1>5, OctileIs
<1>11. Step(e, c) = IF e[1] = c[1] \/ e[2] = c[2] THEN 10 ELSE 14
  BY DEF Step
<1>12. Far(w, c) = IF dx < dy THEN dy ELSE dx
  BY DEF Far
<1>13. Far(w, e) = IF ex < ey THEN ey ELSE ex
  BY DEF Far
<1> HIDE DEF dx, dy, ex, ey, e
<1>14. Octile(w, e) + Step(e, c) = Octile(w, c) /\ Far(w, e) = Far(w, c) - 1
  <2>1. CASE c[1] = w[1]
    BY <1>5, <1>6, <1>7, <1>10, <1>11, <1>12, <1>13, <2>1
  <2>2. CASE c[2] = w[2]
    BY <1>5, <1>6, <1>7, <1>10, <1>11, <1>12, <1>13, <2>2
  <2>3. CASE c[1] # w[1] /\ c[2] # w[2]
    BY <1>5, <1>6, <1>10, <1>11, <1>12, <1>13, <2>3
  <2>4. QED
    BY <2>1, <2>2, <2>3
<1>15. QED
  BY <1>4, <1>9, <1>14

LEMMA RelaxedReaches ==
  ASSUME AreaTypes, AreaFull, dist \in [World -> Dist], Relaxed(dist, {}),
         NEW w \in Cells, dist[w] = 0, NEW c \in Cells, Octile(w, c) <= MaxDistance
  PROVE  dist[c] <= Octile(w, c)
<1> DEFINE S == {m \in Nat : \A b \in Cells : Far(w, b) <= m /\ Octile(w, b) <= MaxDistance
                                => dist[b] <= Octile(w, b)}
<1>1. \A a, b \in Cells : /\ Far(a, b) \in Nat /\ Octile(a, b) \in Nat /\ dist[b] \in Nat
                          /\ (Far(a, b) <= 0 => a = b)
  <2>1. ASSUME NEW a \in Cells, NEW b \in Cells
        PROVE  Far(a, b) \in Nat /\ (Far(a, b) <= 0 => a = b)
    <3>1. /\ a[1] \in Int /\ a[2] \in Int /\ b[1] \in Int /\ b[2] \in Int
          /\ a = <<a[1], a[2]>> /\ b = <<b[1], b[2]>>
      BY PlacesAre
    <3>2. Far(a, b) \in Nat /\ (Far(a, b) <= 0 => a[1] = b[1] /\ a[2] = b[2])
      BY <3>1 DEF Far, Abs
    <3>3. QED
      BY <3>1, <3>2
  <2>2. \A a, b \in Cells : Octile(a, b) \in Nat /\ dist[b] \in Nat
    BY OctileIs, PlacesAre, DistancesAre
  <2>3. QED
    BY <2>1, <2>2
<1>2. 0 \in S
  BY <1>1
<1>3. ASSUME NEW m \in S PROVE m + 1 \in S
  <2> SUFFICES ASSUME NEW b \in Cells, Far(w, b) <= m + 1, Octile(w, b) <= MaxDistance
               PROVE  dist[b] <= Octile(w, b)
    OBVIOUS
  <2>1. CASE b = w
    BY <1>1, <2>1
  <2>2. CASE b # w
    <3>1. PICK e \in Cells : /\ b \in Near(e) /\ Octile(w, e) + Step(e, b) = Octile(w, b)
                             /\ Far(w, e) = Far(w, b) - 1
      BY <2>2, OneStepNearer
    <3>2. /\ Far(w, e) <= m /\ Octile(w, e) <= MaxDistance /\ Step(e, b) \in {10, 14}
          /\ m \in Nat /\ Octile(w, e) \in Nat /\ dist[e] \in Nat /\ dist[b] \in Nat
      BY <1>1, <3>1, PlacesAre, DistancesAre
    <3>3. dist[e] <= Octile(w, e)
      BY <3>2
    <3>4. dist[e] + Step(e, b) <= MaxDistance
      BY <3>1, <3>2, <3>3, DistancesAre
    <3>5. dist[b] <= dist[e] + Step(e, b)
      BY <3>1, <3>4 DEF Relaxed
    <3>6. QED
      BY <3>1, <3>2, <3>3, <3>5
  <2>3. QED
    BY <2>1, <2>2
<1>4. S = Nat
  <2>1. S \in SUBSET Nat
    OBVIOUS
  <2> HIDE DEF S
  <2>2. QED
    BY <1>2, <1>3, <2>1, InductionOn
<1>5. Far(w, c) \in S
  BY <1>1, <1>4
<1>6. QED
  BY <1>1, <1>5

LEMMA FieldIsExact ==
  ASSUME AreaTypes, AreaFull, dist \in [World -> Dist], Supported(dist), Relaxed(dist, {}),
         walled = {z \in Cells : dist[z] = 0}, NEW c \in Cells
  PROVE  Exact(c)
<1> DEFINE near == {v \in {Octile(w, c) : w \in walled} : v <= MaxDistance}
<1>1. /\ c \in World /\ dist[c] \in Nat /\ dist[c] \in Dist
      /\ \A w \in Cells : Octile(w, c) \in Nat
  BY OctileIs, PlacesAre, DistancesAre
<1>2. ASSUME NEW v \in near PROVE dist[c] <= v /\ v \in Nat /\ v <= MaxDistance
  <2>1. PICK w \in Cells : dist[w] = 0 /\ v = Octile(w, c) /\ v <= MaxDistance
    OBVIOUS
  <2>2. QED
    BY <1>1, <2>1, RelaxedReaches
<1>3. ASSUME dist[c] # NoWall PROVE dist[c] \in near
  <2>1. dist[c] <= MaxDistance
    BY <1>1, <1>3, DistancesAre DEF Dist
  <2>2. PICK w \in Cells : dist[w] = 0 /\ Octile(w, c) <= dist[c]
    BY <1>3 DEF Supported
  <2>3. Octile(w, c) \in near
    BY <1>1, <2>1, <2>2, DistancesAre
  <2>4. dist[c] = Octile(w, c)
    BY <1>1, <1>2, <2>2, <2>3
  <2>5. QED
    BY <2>3, <2>4
<1>4. near # {} => dist[c] # NoWall
  BY <1>1, <1>2, DistancesAre
<1>5. QED
  <2> HIDE DEF near
  <2>1. Exact(c) = IF near = {} THEN dist[c] = NoWall
                   ELSE dist[c] \in near /\ \A v \in near : dist[c] <= v
    BY DEF Exact, near
  <2>2. QED
    BY <1>2, <1>3, <1>4, <2>1


-----------------------------------------------------------------------------
(***************************************************************************)
(* What a ray does to the cells.                                           *)
(***************************************************************************)
LEMMA EvidenceIs ==
  /\ Hit \in Int /\ Miss \in Int /\ LMin \in Int /\ LMax \in Int /\ Occupied \in Int /\ Free \in Int
  /\ LMin < Free /\ Free < 0 /\ 0 < Occupied /\ Occupied < LMax /\ Miss < 0 /\ 0 < Hit
BY EvidenceAssumption

LEMMA ClampIs ==
  ASSUME NEW l \in LMin .. LMax
  PROVE  /\ Clamp(l + Hit) \in LMin .. LMax /\ Clamp(l + Hit) >= l
         /\ Clamp(l + Miss) \in LMin .. LMax /\ Clamp(l + Miss) <= l
BY EvidenceIs DEF Clamp, Most, Least

\* A hit at its end, a miss on the cells before it, and nothing elsewhere.
Rayed(line, end, met) ==
  /\ lo' \in [World -> LMin .. LMax] /\ type' \in [World -> Types]
  /\ met => lo'[end] = Clamp(lo[end] + Hit) /\ type'[end] = HitType(type[end], lo'[end])
  /\ \A c \in World : c # end \/ ~met =>
       \/ lo'[c] = lo[c] /\ type'[c] = type[c]
       \/ c \in line /\ lo'[c] = Clamp(lo[c] + Miss) /\ type'[c] = MissType(type[c], lo'[c])
  /\ struck' = struck \cup IF met /\ end \in marked THEN {end} ELSE {}
  /\ bumped' = bumped \ IF met THEN {end} ELSE {}
  /\ walled' = walled \cup {c \in World : type'[c] = "Wall"}

LEMMA ApplyIs ==
  ASSUME type \in [World -> Types], lo \in [World -> LMin .. LMax],
         NEW line, NEW end \in World, NEW met \in BOOLEAN, Apply(line, end, met)
  PROVE  Rayed(line, end, met)
<1> DEFINE hits   == IF met THEN {end} ELSE {}
           misses == line \ {end}
<1>1. /\ lo' = [c \in World |-> IF c \in hits THEN Clamp(lo[c] + Hit)
                                ELSE IF c \in misses THEN Clamp(lo[c] + Miss) ELSE lo[c]]
      /\ type' = [c \in World |-> IF c \in hits THEN HitType(type[c], lo'[c])
                                  ELSE IF c \in misses THEN MissType(type[c], lo'[c])
                                  ELSE type[c]]
      /\ struck' = struck \cup (hits \cap marked) /\ bumped' = bumped \ hits
      /\ walled' = walled \cup {c \in World : type'[c] = "Wall"}
  BY DEF Apply
<1>2. /\ \A c \in World : lo'[c] = IF c \in hits THEN Clamp(lo[c] + Hit)
                                   ELSE IF c \in misses THEN Clamp(lo[c] + Miss) ELSE lo[c]
      /\ \A c \in World : type'[c] = IF c \in hits THEN HitType(type[c], lo'[c])
                                     ELSE IF c \in misses THEN MissType(type[c], lo'[c])
                                     ELSE type[c]
  <2> HIDE DEF hits, misses
  <2>1. QED
    BY <1>1
<1>3. \A c \in World : lo'[c] \in LMin .. LMax
  BY <1>2, ClampIs
<1>4. \A c \in World : type'[c] \in Types
  BY <1>2 DEF HitType, MissType, Types
<1>5. lo' \in [World -> LMin .. LMax] /\ type' \in [World -> Types]
  <2>1. lo' = [c \in World |-> lo'[c]] /\ type' = [c \in World |-> type'[c]]
    <3> HIDE DEF hits, misses
    <3>1. QED
      BY <1>1
  <2>2. QED
    BY <1>3, <1>4, <2>1
<1>6. /\ struck' = struck \cup IF met /\ end \in marked THEN {end} ELSE {}
      /\ bumped' = bumped \ IF met THEN {end} ELSE {}
      /\ walled' = walled \cup {c \in World : type'[c] = "Wall"}
  BY <1>1
<1>7. QED
  BY <1>2, <1>5, <1>6 DEF Rayed

\* The evidence for one cell.
EvidenceAt(c) ==
  IF c \in bumped THEN type[c] = "Bump"
  ELSE IF c \in marked \ struck THEN type[c] \in Marks
  ELSE CASE type[c] = "Wall"    -> lo[c] >= Free
         [] type[c] = "Floor"   -> lo[c] <= Occupied
         [] type[c] = "Unknown" -> lo[c] \in Free .. Occupied
         [] OTHER               -> c \in marked

LEMMA RayKeepsEvidence ==
  ASSUME type \in [World -> Types], lo \in [World -> LMin .. LMax], TypeFollowsEvidence,
         bumped \subseteq marked,
         NEW line, NEW end \in World, NEW met \in BOOLEAN, Rayed(line, end, met), marked' = marked
  PROVE  TypeFollowsEvidence'
<1> SUFFICES ASSUME NEW c \in World PROVE EvidenceAt(c)'
  BY DEF TypeFollowsEvidence, EvidenceAt
<1>1. /\ EvidenceAt(c)
      /\ lo[c] \in LMin .. LMax /\ lo'[c] \in LMin .. LMax /\ lo[c] \in Int /\ lo'[c] \in Int
      /\ type[c] \in Types /\ type'[c] \in Types
  BY EvidenceIs DEF TypeFollowsEvidence, EvidenceAt, Rayed
<1>2. CASE c = end /\ met
  <2>1. lo'[c] >= lo[c] /\ type'[c] = IF lo'[c] > Occupied THEN "Wall" ELSE type[c]
    BY <1>1, <1>2, ClampIs DEF HitType, Rayed
  <2>2. c \notin (marked \ struck)' /\ c \notin bumped' /\ (c \in marked => c \in marked')
    BY <1>2 DEF Rayed
  <2>3. CASE lo'[c] > Occupied
    BY <1>1, <2>1, <2>2, <2>3, EvidenceIs DEF EvidenceAt
  <2>4. CASE ~(lo'[c] > Occupied)
    <3>1. type'[c] = type[c] /\ lo'[c] <= Occupied
      BY <1>1, <2>1, <2>4, EvidenceIs
    <3>2. CASE c \in marked \ struck \/ c \in bumped
      BY <1>1, <2>2, <3>1, <3>2 DEF EvidenceAt, Marks
    <3>3. CASE ~(c \in marked \ struck \/ c \in bumped)
      BY <1>1, <2>1, <2>2, <3>1, <3>3, EvidenceIs DEF EvidenceAt, Types
    <3>4. QED
      BY <3>2, <3>3
  <2>5. QED
    BY <2>3, <2>4
<1>3. CASE c # end \/ ~met
  <2>1. (c \in (marked \ struck)' <=> c \in marked \ struck) /\ (c \in bumped' <=> c \in bumped)
    BY <1>3 DEF Rayed
  <2>2. CASE lo'[c] = lo[c] /\ type'[c] = type[c]
    BY <1>1, <2>1, <2>2 DEF EvidenceAt
  <2>3. CASE lo'[c] = Clamp(lo[c] + Miss) /\ type'[c] = MissType(type[c], lo'[c])
    <3>1. /\ lo'[c] <= lo[c]
          /\ type'[c] = IF lo'[c] < Free /\ type[c] \in {"Unknown", "Wall"} THEN "Floor" ELSE type[c]
      BY <1>1, <2>3, ClampIs DEF MissType
    <3>2. CASE c \in marked \ struck \/ c \in bumped
      BY <1>1, <2>1, <3>1, <3>2 DEF EvidenceAt, Marks
    <3>3. CASE ~(c \in marked \ struck \/ c \in bumped)
      BY <1>1, <2>1, <3>1, <3>3, EvidenceIs DEF EvidenceAt, Types
    <3>4. QED
      BY <3>2, <3>3
  <2>4. QED
    BY <1>3, <2>2, <2>3 DEF Rayed
<1>4. QED
  BY <1>2, <1>3


-----------------------------------------------------------------------------
(***************************************************************************)
(* How the grid grows.                                                     *)
(***************************************************************************)
LEMMA PlacesBetween ==
  ASSUME NEW a \in World, NEW b \in World, NEW x \in Int, NEW y \in Int,
         (a[1] <= x /\ x <= b[1]) \/ (b[1] <= x /\ x <= a[1]),
         (a[2] <= y /\ y <= b[2]) \/ (b[2] <= y /\ y <= a[2])
  PROVE  <<x, y>> \in World
<1>1. a[1] \in Int /\ a[2] \in Int /\ b[1] \in Int /\ b[2] \in Int
  BY PlacesAre
<1>2. x \in Least(a[1], b[1]) .. Most(a[1], b[1]) /\ y \in Least(a[2], b[2]) .. Most(a[2], b[2])
  BY <1>1 DEF Least, Most
<1>3. (Least(a[1], b[1]) .. Most(a[1], b[1])) \X (Least(a[2], b[2]) .. Most(a[2], b[2])) \subseteq World
  BY SizeAssumption
<1>4. QED
  BY <1>2, <1>3

\* The grown grid holds the place it grew for and all it held, and nothing outside
\* the world.
LEMMA ExpandedIs ==
  ASSUME AreaTypes, AreaFull, NEW c \in World, NEW a, a = Expanded(c)
  PROVE  /\ a.origin \in Int \X Int /\ a.origin[1] \in Int /\ a.origin[2] \in Int
         /\ a.width \in Nat /\ a.width >= area.width /\ a.height \in Nat /\ a.height >= area.height
         /\ InArea(c, a) /\ \A p \in World : InArea(p, area) => InArea(p, a)
         /\ \A x, y \in Int : InArea(<<x, y>>, a) => <<x, y>> \in World
<1> DEFINE ox == area.origin[1]  oy == area.origin[2]  w == area.width  h == area.height
           left  == Most(0, -(c[1] - ox))
           down  == Most(0, -(c[2] - oy))
           right == Most(0, c[1] - ox - w + 1)
           up    == Most(0, c[2] - oy - h + 1)
<1>1. /\ ox \in Int /\ oy \in Int /\ w \in Nat /\ h \in Nat /\ w > 0 /\ h > 0
      /\ c[1] \in Int /\ c[2] \in Int
  BY AreaIs, PlacesAre
<1>2. /\ ToGrid(c)[1] = c[1] - ox /\ ToGrid(c)[2] = c[2] - oy
  BY DEF ToGrid
<1>3. /\ a.origin = <<ox - left, oy - down>>
      /\ a.width = w + left + right /\ a.height = h + down + up
  BY <1>2 DEF Expanded
<1>4. /\ left = IF c[1] < ox THEN ox - c[1] ELSE 0
      /\ down = IF c[2] < oy THEN oy - c[2] ELSE 0
      /\ right = IF c[1] >= ox + w THEN c[1] - ox - w + 1 ELSE 0
      /\ up = IF c[2] >= oy + h THEN c[2] - oy - h + 1 ELSE 0
  BY <1>1 DEF Most
<1> HIDE DEF left, down, right, up
<1>5. /\ a.origin \in Int \X Int /\ a.origin[1] = ox - left /\ a.origin[2] = oy - down
      /\ a.origin[1] \in Int /\ a.origin[2] \in Int
      /\ a.width \in Nat /\ a.width >= w /\ a.height \in Nat /\ a.height >= h
  BY <1>1, <1>3, <1>4
<1>6. ASSUME NEW p, p[1] \in Int, p[2] \in Int
      PROVE  InArea(p, a) <=> /\ p[1] - (ox - left) \in 0 .. w + left + right - 1
                              /\ p[2] - (oy - down) \in 0 .. h + down + up - 1
  <2>1. InArea(p, a) <=> /\ p[1] - a.origin[1] \in 0 .. a.width - 1
                         /\ p[2] - a.origin[2] \in 0 .. a.height - 1
    BY DEF InArea
  <2>2. /\ a.origin[1] = ox - left /\ a.origin[2] = oy - down
        /\ a.width = w + left + right /\ a.height = h + down + up
        /\ left \in Nat /\ down \in Nat /\ right \in Nat /\ up \in Nat
    BY <1>1, <1>3, <1>4, <1>5
  <2>3. QED
    BY <1>1, <1>5, <1>6, <2>1, <2>2
<1>7. \A p : InArea(p, area) <=> p[1] - ox \in 0 .. w - 1 /\ p[2] - oy \in 0 .. h - 1
  BY DEF InArea
<1>8. InArea(c, a)
  BY <1>1, <1>4, <1>6
<1>9. ASSUME NEW p \in World, InArea(p, area) PROVE InArea(p, a)
  <2>1. p[1] \in Int /\ p[2] \in Int /\ p[1] - ox \in 0 .. w - 1 /\ p[2] - oy \in 0 .. h - 1
    BY <1>7, <1>9, PlacesAre
  <2>2. /\ p[1] - (ox - left) \in 0 .. w + left + right - 1
        /\ p[2] - (oy - down) \in 0 .. h + down + up - 1
    BY <1>1, <1>4, <2>1
  <2>3. QED
    BY <1>6, <2>1, <2>2
<1>10. ASSUME NEW x \in Int, NEW y \in Int, InArea(<<x, y>>, a) PROVE <<x, y>> \in World
  <2> DEFINE kx == IF x < c[1] THEN ox ELSE ox + w - 1
             ky == IF y < c[2] THEN oy ELSE oy + h - 1
  <2>1. x - (ox - left) \in 0 .. w + left + right - 1 /\ y - (oy - down) \in 0 .. h + down + up - 1
    BY <1>6, <1>10
  <2>2. kx \in Int /\ ky \in Int /\ kx - ox \in 0 .. w - 1 /\ ky - oy \in 0 .. h - 1
    BY <1>1
  <2>3. /\ (kx <= x /\ x <= c[1]) \/ (c[1] <= x /\ x <= kx)
        /\ (ky <= y /\ y <= c[2]) \/ (c[2] <= y /\ y <= ky)
    BY <1>1, <1>4, <2>1
  <2> HIDE DEF kx, ky
  <2>4. InArea(<<kx, ky>>, area) /\ <<kx, ky>>[1] = kx /\ <<kx, ky>>[2] = ky
    BY <1>7, <2>2
  <2>5. <<kx, ky>> \in World
    BY <2>2, <2>4 DEF AreaFull
  <2>6. QED
    BY <2>3, <2>4, <2>5, PlacesBetween
<1>11. QED
  BY <1>5, <1>8, <1>9, <1>10


-----------------------------------------------------------------------------
(***************************************************************************)
(* The inductive invariant.                                                *)
(***************************************************************************)
\* Outside of the area nothing is known.
GridTypes ==
  /\ AreaTypes /\ AreaFull
  /\ type \in [World -> Types] /\ lo \in [World -> LMin .. LMax] /\ dist \in [World -> Dist]
  /\ \A c \in World \ Cells : type[c] = "Unknown" /\ lo[c] = 0 /\ dist[c] = NoWall

MarkTypes ==
  /\ struck \subseteq marked /\ bumped \subseteq marked /\ marked \subseteq Cells
  /\ walled \subseteq Cells /\ displaced \subseteq Cells /\ grown \in BOOLEAN

Coordinates == (0 .. area.width - 1) \X (0 .. area.height - 1)

ScanTypes ==
  /\ scan \in [sensor : Sensors \cup {<<>>}, rays : 0 .. MaxRays, walls : SUBSET Coordinates]
  /\ scans \in 0 .. MaxScans /\ marks \in 0 .. MaxMarks

\* A cell that became a wall is in the distance field or among the new ones of the
\* scan, and while none was displaced nothing else is.
WallInv ==
  /\ \A c \in Cells : type[c] = "Wall" \/ lo[c] > Occupied => c \in walled
  /\ \A c \in walled \ displaced : dist[c] = 0 \/ ToGrid(c) \in scan.walls
  /\ displaced = {} => /\ \A g \in scan.walls : ToWorld(g) \in walled
                       /\ \A c \in Cells : dist[c] = 0 => c \in walled
  /\ ~grown => displaced = {}

\* Before the grid grows the field is supported and relaxed.
FieldInv == ~grown => Supported(dist) /\ Relaxed(dist, {})

TypeInv == GridTypes /\ MarkTypes /\ ScanTypes
Inv     == TypeInv /\ WallInv /\ FieldInv /\ TypeFollowsEvidence

LEMMA CoordinatesAre ==
  ASSUME AreaTypes, AreaFull
  PROVE  /\ \A c \in Cells : ToGrid(c) \in Coordinates /\ ToWorld(ToGrid(c)) = c
         /\ \A g \in Coordinates : ToWorld(g) \in Cells
<1>1. ASSUME NEW c \in Cells PROVE ToGrid(c) \in Coordinates /\ ToWorld(ToGrid(c)) = c
  <2>1. /\ c[1] \in Int /\ c[2] \in Int /\ c = <<c[1], c[2]>>
        /\ c[1] - area.origin[1] \in 0 .. area.width - 1
        /\ c[2] - area.origin[2] \in 0 .. area.height - 1
    BY AreaIs, PlacesAre DEF Cells
  <2>2. ToGrid(c) = <<c[1] - area.origin[1], c[2] - area.origin[2]>>
    BY DEF ToGrid
  <2>3. ToWorld(ToGrid(c)) = <<(c[1] - area.origin[1]) + area.origin[1],
                               (c[2] - area.origin[2]) + area.origin[2]>>
    BY <2>2 DEF ToWorld
  <2>4. /\ (c[1] - area.origin[1]) + area.origin[1] = c[1]
        /\ (c[2] - area.origin[2]) + area.origin[2] = c[2]
    <3>1. c[1] \in Int /\ c[2] \in Int /\ area.origin[1] \in Int /\ area.origin[2] \in Int
      BY <2>1, AreaIs
    <3>2. \A m, n \in Int : (m - n) + n = m
      OBVIOUS
    <3>3. QED
      BY <3>1, <3>2
  <2>5. QED
    BY <2>1, <2>2, <2>3, <2>4 DEF Coordinates
<1>2. ASSUME NEW g \in Coordinates PROVE ToWorld(g) \in Cells
  <2> DEFINE x == g[1] + area.origin[1]  y == g[2] + area.origin[2]
  <2>1. g[1] \in 0 .. area.width - 1 /\ g[2] \in 0 .. area.height - 1
    BY DEF Coordinates
  <2>2. /\ x \in Int /\ y \in Int
        /\ x - area.origin[1] \in 0 .. area.width - 1 /\ y - area.origin[2] \in 0 .. area.height - 1
    BY <2>1, AreaIs
  <2>3. ToWorld(g) = <<x, y>>
    BY DEF ToWorld
  <2> HIDE DEF x, y
  <2>4. InArea(<<x, y>>, area)
    BY <2>2 DEF InArea
  <2>5. QED
    BY <2>2, <2>3, <2>4 DEF AreaFull, Cells
<1>3. QED
  BY <1>1, <1>2

LEMMA InvInit == Init => Inv
<1> SUFFICES ASSUME Init PROVE Inv
  OBVIOUS
<1>1. /\ area.origin = <<0, 0>> /\ area.width = Width /\ area.height = Height
      /\ area.origin[1] = 0 /\ area.origin[2] = 0
      /\ type = [c \in World |-> "Unknown"] /\ lo = [c \in World |-> 0]
      /\ dist = [c \in World |-> NoWall]
      /\ scan = NoScan /\ scans = 0 /\ marks = 0
      /\ marked = {} /\ struck = {} /\ bumped = {} /\ walled = {} /\ grown = FALSE /\ displaced = {}
  BY DEF Init
<1>2. AreaTypes
  BY <1>1, SizeAssumption DEF AreaTypes
<1>3. AreaFull
  <2> SUFFICES ASSUME NEW x \in Int, NEW y \in Int, InArea(<<x, y>>, area) PROVE <<x, y>> \in World
    BY DEF AreaFull
  <2>1. x \in 0 .. Width - 1 /\ y \in 0 .. Height - 1
    BY <1>1 DEF InArea
  <2>2. QED
    BY <2>1, SizeAssumption
<1>4. /\ type \in [World -> Types] /\ lo \in [World -> LMin .. LMax] /\ dist \in [World -> Dist]
      /\ \A c \in World : type[c] = "Unknown" /\ lo[c] = 0 /\ dist[c] = NoWall
  <2>1. 0 \in LMin .. LMax /\ "Unknown" \in Types /\ NoWall \in Dist
    BY EvidenceIs DEF Types, Dist
  <2>2. QED
    BY <1>1, <2>1
<1>5. GridTypes
  BY <1>2, <1>3, <1>4 DEF GridTypes
<1>6. MarkTypes
  BY <1>1 DEF MarkTypes
<1>7. ScanTypes
  BY <1>1, BoundsAssumption DEF ScanTypes, NoScan
<1>8. WallInv
  <2>1. \A c \in Cells : type[c] = "Unknown" /\ ~(lo[c] > Occupied) /\ dist[c] # 0
    BY <1>4, EvidenceIs, PlacesAre, DistancesAre
  <2>2. QED
    BY <1>1, <2>1 DEF WallInv, NoScan
<1>9. FieldInv
  <2>1. Supported(dist)
    BY <1>4, PlacesAre DEF Supported
  <2>2. \A c \in Cells : dist[c] = NoWall /\ \A n \in Near(c) : ~(dist[c] + Step(c, n) <= MaxDistance)
    BY <1>4, PlacesAre, DistancesAre
  <2>3. QED
    BY <2>1, <2>2 DEF FieldInv, Relaxed
<1>10. TypeFollowsEvidence
  BY <1>1, <1>4, EvidenceIs DEF TypeFollowsEvidence
<1>11. QED
  BY <1>5, <1>6, <1>7, <1>8, <1>9, <1>10 DEF Inv, TypeInv


(***************************************************************************)
(* A ray keeps it, whether it ends in the grid or beyond.                  *)
(***************************************************************************)
LEMMA RayKeepsTypes ==
  ASSUME GridTypes, AreaTypes', AreaFull', Cells \subseteq Cells', dist' = dist,
         NEW line, line \cap World \subseteq Cells', NEW end \in Cells', NEW met \in BOOLEAN,
         Rayed(line, end, met)
  PROVE  GridTypes'
<1>1. lo' \in [World -> LMin .. LMax] /\ type' \in [World -> Types]
  BY DEF Rayed
<1>2. ASSUME NEW c \in World \ Cells'
      PROVE  type'[c] = "Unknown" /\ lo'[c] = 0 /\ dist'[c] = NoWall
  <2>1. type[c] = "Unknown" /\ lo[c] = 0 /\ dist[c] = NoWall
    BY DEF GridTypes
  <2>2. lo'[c] = lo[c] /\ type'[c] = type[c]
    BY DEF Rayed
  <2>3. QED
    BY <2>1, <2>2
<1>3. dist' \in [World -> Dist]
  BY DEF GridTypes
<1>4. QED
  BY <1>1, <1>2, <1>3 DEF GridTypes

LEMMA RayKeepsWalls ==
  ASSUME GridTypes, WallInv, dist' = dist, displaced \subseteq displaced', grown' = FALSE => grown = FALSE,
         displaced' # {} => grown', grown' \in BOOLEAN,
         Cells' \subseteq World, Cells \subseteq Cells', walled \subseteq Cells,
         \A c \in Cells \ displaced' : ToGrid(c) \in scan.walls => ToGrid(c)' \in scan'.walls,
         NEW line, NEW end \in Cells', NEW met \in BOOLEAN, Rayed(line, end, met),
         NewWall(end, met) => ToGrid(end)' \in scan'.walls,
         displaced' = {} => \A g \in scan'.walls : \/ (g \in scan.walls /\ ToWorld(g)' = ToWorld(g))
                                                  \/ (NewWall(end, met) /\ ToWorld(g)' = end)
  PROVE  WallInv'
<1>1. ASSUME NEW c \in Cells'
      PROVE  /\ c \in World /\ lo[c] \in Int /\ lo'[c] \in Int
             /\ lo[c] \in LMin .. LMax
  BY EvidenceIs DEF GridTypes, Rayed
\* What was not a wall before and is one now is the end of the ray.
<1>2. ASSUME NEW c \in Cells', type'[c] = "Wall" \/ lo'[c] > Occupied,
             ~(type[c] = "Wall" \/ lo[c] > Occupied)
      PROVE  c = end /\ NewWall(end, met) /\ type'[c] = "Wall"
  <2>1. c = end /\ met
    <3> SUFFICES ASSUME c # end \/ ~met PROVE FALSE
      OBVIOUS
    <3>1. CASE lo'[c] = lo[c] /\ type'[c] = type[c]
      BY <1>2, <3>1
    <3>2. CASE lo'[c] = Clamp(lo[c] + Miss) /\ type'[c] = MissType(type[c], lo'[c])
      <4>1. lo'[c] <= lo[c] /\ (type'[c] = type[c] \/ type'[c] = "Floor")
        BY <1>1, <3>2, ClampIs DEF MissType
      <4>2. QED
        BY <1>1, <1>2, <4>1, EvidenceIs
    <3>3. QED
      BY <1>1, <3>1, <3>2 DEF Rayed
  <2>2. type'[c] = IF lo'[c] > Occupied THEN "Wall" ELSE type[c]
    BY <2>1 DEF Rayed, HitType
  <2>3. lo'[c] > Occupied /\ lo[c] <= Occupied
    BY <1>1, <1>2, <2>2, EvidenceIs
  <2>4. QED
    BY <2>1, <2>2, <2>3 DEF NewWall
\* Before, it was in walled already.
<1>3. ASSUME NEW c \in Cells', type[c] = "Wall" \/ lo[c] > Occupied
      PROVE  c \in walled
  <2>1. c \in Cells
    BY <1>1, <1>3, EvidenceIs DEF GridTypes
  <2>2. QED
    BY <1>3, <2>1 DEF WallInv
<1>4. walled' = walled \cup {c \in World : type'[c] = "Wall"}
  BY DEF Rayed
<1>5. ASSUME NEW c \in Cells', type'[c] = "Wall" \/ lo'[c] > Occupied
      PROVE  c \in walled'
  BY <1>1, <1>2, <1>3, <1>4, <1>5
<1>6. ASSUME NEW c \in World, type'[c] = "Wall"
      PROVE  c \in walled \/ (c = end /\ NewWall(end, met))
  <2>1. CASE c \in Cells'
    BY <1>2, <1>3, <1>6, <2>1
  <2>2. CASE c \notin Cells'
    <3>1. c # end /\ type[c] = "Unknown"
      BY <2>2 DEF GridTypes
    <3>2. QED
      BY <1>6, <3>1 DEF Rayed, MissType
  <2>3. QED
    BY <2>1, <2>2
<1>7. ASSUME NEW c \in walled', c \notin displaced'
      PROVE  dist'[c] = 0 \/ ToGrid(c)' \in scan'.walls
  <2>1. CASE c \in walled
    <3>1. c \in Cells /\ (dist[c] = 0 \/ ToGrid(c) \in scan.walls)
      BY <1>7, <2>1 DEF WallInv
    <3>2. QED
      BY <1>7, <3>1
  <2>2. CASE c \notin walled
    BY <1>4, <1>6, <2>2
  <2>3. QED
    BY <2>1, <2>2
<1>8. NewWall(end, met) => end \in walled'
  <2> SUFFICES ASSUME NewWall(end, met) PROVE end \in walled'
    OBVIOUS
  <2>1. type'[end] = "Wall" /\ end \in World
    BY <1>1 DEF NewWall, Rayed, HitType
  <2>2. QED
    BY <1>4, <2>1
<1>9. ASSUME displaced' = {}
      PROVE  /\ \A g \in scan'.walls : ToWorld(g)' \in walled'
             /\ \A c \in Cells' : dist'[c] = 0 => c \in walled'
  <2>1. displaced = {} /\ walled \subseteq walled'
    BY <1>4, <1>9
  <2>2. ASSUME NEW g \in scan'.walls PROVE ToWorld(g)' \in walled'
    BY <1>8, <1>9, <2>1 DEF WallInv
  <2>3. ASSUME NEW c \in Cells', dist'[c] = 0 PROVE c \in walled'
    <3>1. c \in Cells
      BY <1>1, <2>3, DistancesAre DEF GridTypes
    <3>2. QED
      BY <2>1, <2>3, <3>1 DEF WallInv
  <2>4. QED
    BY <2>2, <2>3
<1>10. ~grown' => displaced' = {}
  OBVIOUS
<1>11. QED
  BY <1>5, <1>7, <1>9, <1>10 DEF WallInv

LEMMA RayStep ==
  ASSUME Inv, NEW end \in World, NEW met \in BOOLEAN, Ray(end, met)
  PROVE  Inv'
<1> DEFINE line == {c \in Line(scan.sensor, end) : InArea(c, area)}
<1>1. GridTypes /\ MarkTypes /\ ScanTypes /\ WallInv /\ FieldInv /\ TypeFollowsEvidence
  BY DEF Inv, TypeInv
<1>2. /\ Scanning /\ scan.rays < MaxRays /\ InArea(end, area) /\ Apply(line, end, met)
      /\ scan' = [scan EXCEPT !.rays = @ + 1,
                              !.walls = @ \cup IF NewWall(end, met) THEN {ToGrid(end)} ELSE {}]
      /\ area' = area /\ dist' = dist /\ scans' = scans /\ marks' = marks
      /\ marked' = marked /\ grown' = grown /\ displaced' = displaced
  BY DEF Ray
<1>3. \A c \in line \cap World : c \in Cells
  BY DEF Cells
<1> HIDE DEF line
<1>4. Rayed(line, end, met)
  BY <1>1, <1>2, ApplyIs DEF GridTypes
<1>5. /\ Cells' = Cells /\ Coordinates' = Coordinates /\ end \in Cells
      /\ AreaTypes' /\ AreaFull' /\ \A c : ToGrid(c)' = ToGrid(c)
  BY <1>1, <1>2 DEF GridTypes, Cells, Coordinates, AreaTypes, AreaFull, ToGrid, InArea
<1>6. GridTypes'
  BY <1>1, <1>2, <1>3, <1>4, <1>5, RayKeepsTypes
<1>7. MarkTypes'
  <2>1. \A c \in World : type'[c] = "Wall" => c \in Cells
    BY <1>5, <1>6 DEF GridTypes
  <2>2. QED
    BY <1>1, <1>2, <1>4, <1>5, <2>1 DEF MarkTypes, Rayed
<1>8. /\ scan'.sensor = scan.sensor /\ scan'.rays = scan.rays + 1
      /\ scan'.walls = scan.walls \cup IF NewWall(end, met) THEN {ToGrid(end)} ELSE {}
      /\ scan' \in [sensor : Sensors \cup {<<>>}, rays : 0 .. MaxRays, walls : SUBSET Coordinates]
  <2>1. ToGrid(end) \in Coordinates
    BY <1>1, <1>5, CoordinatesAre DEF GridTypes
  <2>2. scan.rays + 1 \in 0 .. MaxRays
    BY <1>1, <1>2, BoundsAssumption DEF ScanTypes
  <2>3. QED
    BY <1>1, <1>2, <2>1, <2>2 DEF ScanTypes
<1>9. ScanTypes'
  BY <1>1, <1>2, <1>5, <1>8 DEF ScanTypes
<1>10. WallInv'
  <2>1. NewWall(end, met) => ToGrid(end)' \in scan'.walls
    BY <1>5, <1>8
  <2>2. \A c \in Cells \ displaced' : ToGrid(c) \in scan.walls => ToGrid(c)' \in scan'.walls
    BY <1>5, <1>8
  <2>3. \A g : ToWorld(g)' = ToWorld(g)
    BY <1>2 DEF ToWorld
  <2>4. ToWorld(ToGrid(end)) = end
    BY <1>1, <1>5, CoordinatesAre DEF GridTypes
  <2>5. \A g \in scan'.walls : \/ (g \in scan.walls /\ ToWorld(g)' = ToWorld(g))
                              \/ (NewWall(end, met) /\ ToWorld(g)' = end)
    BY <1>8, <2>3, <2>4
  <2>6. displaced' # {} => grown'
    BY <1>1, <1>2 DEF WallInv
  <2>7. walled \subseteq Cells /\ grown' \in BOOLEAN /\ Cells' \subseteq World
    BY <1>1, <1>2, <1>5, PlacesAre DEF MarkTypes
  <2>8. QED
    BY <1>1, <1>2, <1>4, <1>5, <2>1, <2>2, <2>5, <2>6, <2>7, RayKeepsWalls
<1>11. FieldInv'
  BY <1>1, <1>2, <1>5 DEF FieldInv, Supported, Relaxed, Near
<1>12. TypeFollowsEvidence'
  BY <1>1, <1>2, <1>4, RayKeepsEvidence DEF GridTypes, MarkTypes
<1>13. QED
  BY <1>6, <1>7, <1>9, <1>10, <1>11, <1>12 DEF Inv, TypeInv

LEMMA RayBeyondStep ==
  ASSUME Inv, NEW end \in World, NEW met \in BOOLEAN, RayBeyond(end, met)
  PROVE  Inv'
<1> DEFINE line == {c \in Line(scan.sensor, end) : InArea(c, area')}
           at == <<end[1] - area'.origin[1], end[2] - area'.origin[2]>>
<1>1. GridTypes /\ MarkTypes /\ ScanTypes /\ WallInv /\ FieldInv /\ TypeFollowsEvidence
  BY DEF Inv, TypeInv
<1>2. /\ Scanning /\ scan.rays < MaxRays /\ Apply(line, end, met)
      /\ Expanded(end).width <= MaxWidth /\ Expanded(end).height <= MaxHeight
      /\ area' = Expanded(end) /\ grown' = TRUE
      /\ displaced' = displaced \cup
           IF area'.origin # area.origin THEN {ToWorld(g) : g \in scan.walls} ELSE {}
      /\ scan' = [scan EXCEPT !.rays = @ + 1,
                              !.walls = @ \cup IF NewWall(end, met) THEN {at} ELSE {}]
      /\ dist' = dist /\ scans' = scans /\ marks' = marks /\ marked' = marked
  BY DEF RayBeyond
<1>3. \A c \in line \cap World : c \in Cells'
  BY DEF Cells
<1>4. at = ToGrid(end)'
  BY DEF ToGrid
<1> HIDE DEF line, at
<1>5. Rayed(line, end, met)
  BY <1>1, <1>2, ApplyIs DEF GridTypes
<1>6. AreaTypes /\ AreaFull
  BY <1>1 DEF GridTypes
<1>7. /\ area'.origin \in Int \X Int /\ area'.width \in Nat /\ area'.width >= area.width
      /\ area'.height \in Nat /\ area'.height >= area.height
      /\ InArea(end, area') /\ \A p \in World : InArea(p, area) => InArea(p, area')
      /\ \A x, y \in Int : InArea(<<x, y>>, area') => <<x, y>> \in World
  BY <1>2, <1>6, ExpandedIs
<1>8. AreaTypes' /\ AreaFull'
  <2>1. area.width \in 1 .. MaxWidth /\ area.height \in 1 .. MaxHeight
    BY <1>6 DEF AreaTypes
  <2>2. area'.width \in 1 .. MaxWidth /\ area'.height \in 1 .. MaxHeight
    BY <1>2, <1>7, <2>1, SizeAssumption
  <2>3. QED
    BY <1>7, <2>2 DEF AreaTypes, AreaFull
<1>9. Cells \subseteq Cells' /\ end \in Cells' /\ Cells' \subseteq World /\ Coordinates \subseteq Coordinates'
  BY <1>6, <1>7, AreaIs DEF Cells, Coordinates
<1>10. GridTypes'
  BY <1>1, <1>2, <1>3, <1>5, <1>8, <1>9, RayKeepsTypes
<1>11. {ToWorld(g) : g \in scan.walls} \subseteq Cells
  BY <1>1, <1>6, CoordinatesAre DEF ScanTypes
<1>12. MarkTypes'
  <2>1. \A c \in World : type'[c] = "Wall" => c \in Cells'
    BY <1>10 DEF GridTypes
  <2>2. QED
    BY <1>1, <1>2, <1>5, <1>9, <1>11, <2>1 DEF MarkTypes, Rayed
<1>13. /\ scan'.walls = scan.walls \cup IF NewWall(end, met) THEN {at} ELSE {}
       /\ scan' \in [sensor : Sensors \cup {<<>>}, rays : 0 .. MaxRays, walls : SUBSET Coordinates']
  <2>1. at \in Coordinates'
    BY <1>7 DEF at, InArea, Coordinates
  <2>2. scan.rays + 1 \in 0 .. MaxRays
    BY <1>1, <1>2, BoundsAssumption DEF ScanTypes
  <2>3. QED
    BY <1>1, <1>2, <1>9, <2>1, <2>2 DEF ScanTypes
<1>14. ScanTypes'
  BY <1>1, <1>2, <1>13 DEF ScanTypes
<1>15. WallInv'
  <2>1. NewWall(end, met) => ToGrid(end)' \in scan'.walls
    BY <1>4, <1>13
  <2>2. ASSUME NEW c \in Cells \ displaced', ToGrid(c) \in scan.walls
        PROVE  ToGrid(c)' \in scan'.walls
    <3>1. ToWorld(ToGrid(c)) = c
      BY <1>6, CoordinatesAre
    <3>2. area'.origin = area.origin
      BY <1>2, <2>2, <3>1
    <3>3. ToGrid(c)' = ToGrid(c)
      BY <3>2 DEF ToGrid
    <3>4. QED
      BY <1>13, <2>2, <3>3
  <2>3. displaced \subseteq displaced' /\ grown' = TRUE
    BY <1>2
  <2>4. ASSUME NEW g, g = at PROVE ToWorld(g)' = end
    <3>1. /\ end[1] \in Int /\ end[2] \in Int /\ end = <<end[1], end[2]>>
          /\ area'.origin[1] \in Int /\ area'.origin[2] \in Int
      BY <1>7, PlacesAre
    <3>2. ToWorld(g)' = <<(end[1] - area'.origin[1]) + area'.origin[1],
                          (end[2] - area'.origin[2]) + area'.origin[2]>>
      BY <2>4 DEF ToWorld, at
    <3>3. /\ (end[1] - area'.origin[1]) + area'.origin[1] = end[1]
          /\ (end[2] - area'.origin[2]) + area'.origin[2] = end[2]
      <4>1. \A m, n \in Int : (m - n) + n = m
        OBVIOUS
      <4>2. QED
        BY <3>1, <4>1
    <3>4. QED
      BY <3>1, <3>2, <3>3
  <2>5. ASSUME displaced' = {}, NEW g \in scan'.walls
        PROVE  \/ (g \in scan.walls /\ ToWorld(g)' = ToWorld(g))
               \/ (NewWall(end, met) /\ ToWorld(g)' = end)
    <3>1. CASE g \in scan.walls
      <4>1. area'.origin = area.origin
        BY <1>2, <2>5, <3>1
      <4>2. QED
        BY <3>1, <4>1 DEF ToWorld
    <3>2. CASE g \notin scan.walls
      BY <1>13, <2>4, <2>5, <3>2
    <3>3. QED
      BY <3>1, <3>2
  <2>6. walled \subseteq Cells
    BY <1>1 DEF MarkTypes
  <2>7. QED
    BY <1>1, <1>2, <1>5, <1>9, <2>1, <2>2, <2>3, <2>5, <2>6, RayKeepsWalls
<1>16. FieldInv'
  BY <1>2 DEF FieldInv
<1>17. TypeFollowsEvidence'
  BY <1>1, <1>2, <1>5, RayKeepsEvidence DEF GridTypes, MarkTypes
<1>18. QED
  BY <1>10, <1>12, <1>14, <1>15, <1>16, <1>17 DEF Inv, TypeInv

(***************************************************************************)
(* The other steps.                                                        *)
(***************************************************************************)
LEMMA EndScanStep ==
  ASSUME Inv, EndScan
  PROVE  Inv'
<1> DEFINE seeds == {ToWorld(g) : g \in scan.walls} \cap Cells
<1>1. GridTypes /\ MarkTypes /\ ScanTypes /\ WallInv /\ FieldInv /\ TypeFollowsEvidence
  BY DEF Inv, TypeInv
<1>2. /\ dist' = Flood(Seeded(seeds), seeds) /\ scan' = NoScan
      /\ area' = area /\ type' = type /\ lo' = lo /\ scans' = scans /\ marks' = marks
      /\ marked' = marked /\ struck' = struck /\ bumped' = bumped /\ walled' = walled
      /\ grown' = grown /\ displaced' = displaced
  BY DEF EndScan, history
<1>3. \A c \in Cells : ToGrid(c) \in scan.walls => c \in seeds
  BY <1>1, CoordinatesAre DEF GridTypes
<1>4. seeds \subseteq Cells /\ dist \in [World -> Dist]
  BY <1>1 DEF GridTypes
<1> HIDE DEF seeds
<1>5. /\ dist' \in [World -> Dist]
      /\ \A c \in World : dist'[c] = 0 <=> (dist[c] = 0 \/ c \in seeds)
      /\ \A c \in World \ Cells : dist'[c] = dist[c]
      /\ Supported(dist) /\ Relaxed(dist, {}) => Supported(dist') /\ Relaxed(dist', {})
  BY <1>2, <1>4, SeededFlood
<1>6. Cells' = Cells /\ Coordinates' = Coordinates /\ AreaTypes' /\ AreaFull'
  BY <1>1, <1>2 DEF GridTypes, Cells, Coordinates, AreaTypes, AreaFull, InArea
<1>7. GridTypes'
  BY <1>1, <1>2, <1>5, <1>6 DEF GridTypes
<1>8. MarkTypes'
  BY <1>1, <1>2, <1>6 DEF MarkTypes
<1>9. ScanTypes'
  BY <1>1, <1>2, BoundsAssumption DEF ScanTypes, NoScan
<1>10. WallInv'
  <2>1. ASSUME NEW c \in walled \ displaced PROVE dist'[c] = 0
    <3>1. c \in Cells /\ (dist[c] = 0 \/ ToGrid(c) \in scan.walls)
      BY <1>1 DEF WallInv, MarkTypes
    <3>2. QED
      BY <1>3, <1>5, <3>1, PlacesAre
  <2>2. ASSUME displaced = {}, NEW c \in Cells, dist'[c] = 0 PROVE c \in walled
    <3>1. dist[c] = 0 \/ c \in seeds
      BY <1>5, <2>2, PlacesAre
    <3>2. QED
      BY <1>1, <2>2, <3>1 DEF WallInv, seeds
  <2>3. QED
    BY <1>1, <1>2, <1>6, <2>1, <2>2 DEF WallInv, NoScan
<1>11. FieldInv'
  <2> SUFFICES ASSUME ~grown PROVE (Supported(dist) /\ Relaxed(dist, {}))'
    BY <1>2 DEF FieldInv
  <2>1. Supported(dist') /\ Relaxed(dist', {})
    BY <1>1, <1>5 DEF FieldInv
  <2>2. QED
    BY <1>6, <2>1 DEF Supported, Relaxed, Near
<1>12. TypeFollowsEvidence'
  BY <1>1, <1>2 DEF TypeFollowsEvidence
<1>13. QED
  BY <1>7, <1>8, <1>9, <1>10, <1>11, <1>12 DEF Inv, TypeInv

LEMMA MarkStep ==
  ASSUME Inv, NEW c \in World, NEW m \in Marks, Mark(c, m)
  PROVE  Inv'
<1>1. GridTypes /\ MarkTypes /\ ScanTypes /\ WallInv /\ FieldInv /\ TypeFollowsEvidence
  BY DEF Inv, TypeInv
<1>2. /\ marks < MaxMarks /\ InArea(c, area)
      /\ type' = [type EXCEPT ![c] = IF Overrides(m, type[c]) THEN m ELSE type[c]]
      /\ marked' = marked \cup {c} /\ struck' = struck \ {c} /\ marks' = marks + 1
      /\ bumped' = bumped \cup IF m = "Bump" THEN {c} ELSE {}
      /\ area' = area /\ lo' = lo /\ dist' = dist /\ scan' = scan /\ scans' = scans
      /\ walled' = walled /\ grown' = grown /\ displaced' = displaced
  BY DEF Mark
<1>3. /\ Cells' = Cells /\ Coordinates' = Coordinates /\ AreaTypes' /\ AreaFull' /\ c \in Cells
      /\ \A b : ToGrid(b)' = ToGrid(b) /\ ToWorld(b)' = ToWorld(b)
  BY <1>1, <1>2 DEF GridTypes, Cells, Coordinates, AreaTypes, AreaFull, InArea, ToGrid, ToWorld
<1>4. /\ type \in [World -> Types] /\ type[c] \in Types /\ m \in Types /\ Marks = {"Cliff", "Bump"}
  BY <1>1 DEF GridTypes, Types, Marks
\* A mark always shows: only a bump resists a cliff.
<1>5. type'[c] \in Marks
  BY <1>2, <1>4 DEF Overrides, Types
<1>6. type' \in [World -> Types] /\ \A b \in World : b # c => type'[b] = type[b]
  BY <1>2, <1>4
<1>7. GridTypes'
  BY <1>1, <1>2, <1>3, <1>6 DEF GridTypes
<1>8. MarkTypes'
  BY <1>1, <1>2, <1>3 DEF MarkTypes
<1>9. ScanTypes'
  BY <1>1, <1>2, <1>3, BoundsAssumption DEF ScanTypes
<1>10. WallInv'
  <2>1. ASSUME NEW b \in Cells, type'[b] = "Wall" \/ lo[b] > Occupied
        PROVE  b \in walled
    <3>1. type[b] = "Wall" \/ lo[b] > Occupied
      BY <1>4, <1>5, <1>6, <2>1, PlacesAre
    <3>2. QED
      BY <1>1, <3>1 DEF WallInv
  <2>2. QED
    BY <1>1, <1>2, <1>3, <2>1 DEF WallInv
<1>11. FieldInv'
  BY <1>1, <1>2, <1>3 DEF FieldInv, Supported, Relaxed, Near
<1>12. TypeFollowsEvidence'
  <2> SUFFICES ASSUME NEW b \in World PROVE EvidenceAt(b)'
    BY DEF TypeFollowsEvidence, EvidenceAt
  <2>1. CASE b = c
    <3>1. c \in bumped' => type'[c] = "Bump"
      <4>1. CASE m = "Bump"
        BY <1>2, <1>4, <4>1 DEF Overrides, Types
      <4>2. CASE m # "Bump"
        <5>1. c \in bumped' => type[c] = "Bump"
          BY <1>1, <1>2, <4>2 DEF TypeFollowsEvidence
        <5>2. QED
          BY <1>2, <1>4, <4>2, <5>1 DEF Overrides, Types
      <4>3. QED
        BY <4>1, <4>2
    <3>2. QED
      BY <1>2, <1>5, <2>1, <3>1 DEF EvidenceAt
  <2>2. CASE b # c
    <3>1. EvidenceAt(b)
      BY <1>1 DEF TypeFollowsEvidence, EvidenceAt
    <3>2. /\ b \in (marked \ struck)' <=> b \in marked \ struck
          /\ b \in marked' <=> b \in marked
          /\ b \in bumped' <=> b \in bumped
          /\ type'[b] = type[b] /\ lo' = lo
      BY <1>2, <1>6, <2>2
    <3>3. QED
      BY <3>1, <3>2 DEF EvidenceAt
  <2>3. QED
    BY <2>1, <2>2
<1>13. QED
  BY <1>7, <1>8, <1>9, <1>10, <1>11, <1>12 DEF Inv, TypeInv

LEMMA ClearStep ==
  ASSUME Inv, Clear
  PROVE  Inv'
<1>1. GridTypes /\ MarkTypes /\ ScanTypes
  BY DEF Inv, TypeInv
<1>2. /\ type' = [c \in World |-> "Unknown"] /\ lo' = [c \in World |-> 0]
      /\ dist' = [c \in World |-> NoWall]
      /\ marked' = {} /\ struck' = {} /\ bumped' = {} /\ walled' = {} /\ grown' = FALSE /\ displaced' = {}
      /\ area' = area /\ scan' = scan /\ scans' = scans /\ marks' = marks /\ scan = NoScan
  BY DEF Clear, Scanning
<1>3. /\ Cells' = Cells /\ Coordinates' = Coordinates /\ AreaTypes' /\ AreaFull'
  BY <1>1, <1>2 DEF GridTypes, Cells, Coordinates, AreaTypes, AreaFull, InArea
<1>4. /\ type' \in [World -> Types] /\ lo' \in [World -> LMin .. LMax] /\ dist' \in [World -> Dist]
      /\ \A c \in World : type'[c] = "Unknown" /\ lo'[c] = 0 /\ dist'[c] = NoWall
  <2>1. 0 \in LMin .. LMax /\ "Unknown" \in Types /\ NoWall \in Dist
    BY EvidenceIs DEF Types, Dist
  <2>2. QED
    BY <1>2, <2>1
<1>5. GridTypes'
  BY <1>3, <1>4 DEF GridTypes
<1>6. MarkTypes'
  BY <1>2 DEF MarkTypes
<1>7. ScanTypes'
  BY <1>1, <1>2, <1>3 DEF ScanTypes
<1>8. WallInv'
  <2>1. \A c \in Cells : type'[c] = "Unknown" /\ ~(lo'[c] > Occupied) /\ dist'[c] # 0
    BY <1>4, EvidenceIs, PlacesAre, DistancesAre
  <2>2. QED
    BY <1>2, <1>3, <2>1 DEF WallInv, NoScan
<1>9. FieldInv'
  <2>1. Supported(dist)'
    BY <1>3, <1>4, PlacesAre DEF Supported
  <2>2. \A c \in Cells : dist'[c] = NoWall /\ \A n \in Near(c) : ~(dist'[c] + Step(c, n) <= MaxDistance)
    BY <1>4, PlacesAre, DistancesAre
  <2>3. Relaxed(dist', {})
    BY <2>2 DEF Relaxed
  <2>4. Relaxed(dist, {})'
    BY <1>3, <2>3 DEF Relaxed, Near
  <2>5. QED
    BY <2>1, <2>4 DEF FieldInv
<1>10. TypeFollowsEvidence'
  BY <1>2, <1>4, EvidenceIs DEF TypeFollowsEvidence
<1>11. QED
  BY <1>5, <1>6, <1>7, <1>8, <1>9, <1>10 DEF Inv, TypeInv

LEMMA QuietStep ==
  ASSUME Inv, UNCHANGED <<gridVars, marks, history>>,
         \/ StartScan
         \/ UNCHANGED <<scan, scans>>
  PROVE  Inv'
<1>1. GridTypes /\ MarkTypes /\ ScanTypes /\ WallInv /\ FieldInv /\ TypeFollowsEvidence
  BY DEF Inv, TypeInv
<1>2. /\ area' = area /\ type' = type /\ lo' = lo /\ dist' = dist /\ marks' = marks
      /\ marked' = marked /\ struck' = struck /\ bumped' = bumped /\ walled' = walled
      /\ grown' = grown /\ displaced' = displaced
  BY DEF gridVars, history
<1>3. /\ Cells' = Cells /\ Coordinates' = Coordinates
      /\ \A c : ToGrid(c)' = ToGrid(c) /\ ToWorld(c)' = ToWorld(c)
  BY <1>2 DEF Cells, Coordinates, InArea, ToGrid, ToWorld
<1>4. GridTypes' /\ MarkTypes'
  BY <1>1, <1>2, <1>3 DEF GridTypes, MarkTypes, AreaTypes, AreaFull, InArea
<1>5. ScanTypes' /\ scan'.walls = scan.walls
  <2>1. CASE StartScan
    <3>1. PICK s \in Sensors : scan' = [NoScan EXCEPT !.sensor = s]
      BY <2>1 DEF StartScan
    <3>2. scan' = [sensor |-> s, rays |-> 0, walls |-> {}]
      BY <3>1 DEF NoScan
    <3>3. scans' \in 0 .. MaxScans /\ scan.walls = {}
      BY <1>1, <2>1, BoundsAssumption DEF StartScan, ScanTypes, Scanning, NoScan
    <3>4. QED
      BY <1>1, <1>2, <1>3, <3>2, <3>3, BoundsAssumption DEF ScanTypes
  <2>2. CASE UNCHANGED <<scan, scans>>
    BY <1>1, <1>2, <1>3, <2>2 DEF ScanTypes
  <2>3. QED
    BY <2>1, <2>2
<1>6. WallInv'
  BY <1>1, <1>2, <1>3, <1>5 DEF WallInv
<1>7. FieldInv'
  BY <1>1, <1>2, <1>3 DEF FieldInv, Supported, Relaxed, Near
<1>8. TypeFollowsEvidence'
  BY <1>1, <1>2 DEF TypeFollowsEvidence
<1>9. QED
  BY <1>4, <1>5, <1>6, <1>7, <1>8 DEF Inv, TypeInv

LEMMA Inductive == Inv /\ [Next]_vars => Inv'
<1> SUFFICES ASSUME Inv, [Next]_vars PROVE Inv'
  OBVIOUS
<1>1. CASE StartScan
  BY <1>1, QuietStep DEF StartScan
<1>2. CASE EndScan
  BY <1>2, EndScanStep
<1>3. CASE Clear
  BY <1>3, ClearStep
<1>4. ASSUME NEW c \in World, NEW met \in BOOLEAN, Ray(c, met) PROVE Inv'
  BY <1>4, RayStep
<1>5. ASSUME NEW c \in World, NEW met \in BOOLEAN, RayBeyond(c, met) PROVE Inv'
  BY <1>5, RayBeyondStep
<1>6. ASSUME NEW c \in World, NEW m \in Marks, Mark(c, m) PROVE Inv'
  BY <1>6, MarkStep
<1>7. CASE UNCHANGED vars
  BY <1>7, QuietStep DEF vars
<1>8. QED
  BY <1>1, <1>2, <1>3, <1>4, <1>5, <1>6, <1>7 DEF Next

LEMMA GridSound == Spec => []Inv
<1>1. Init => Inv
  BY InvInit
<1>2. Inv /\ [Next]_vars => Inv'
  BY Inductive
<1>3. QED
  BY <1>1, <1>2, PTL DEF Spec


-----------------------------------------------------------------------------
(***************************************************************************)
(* The theorems.                                                           *)
(***************************************************************************)
\* Every cell and every count stays in its range, nothing is known outside of the grid,
\* and the grid never gets larger than its limits (storage/core.rs:520-566, 905-975).
THEOREM TypeCorrect == Spec => []TypeOK
<1>1. Inv => TypeOK
  BY DEF Inv, TypeInv, GridTypes, MarkTypes, ScanTypes, AreaTypes, TypeOK, Dist
<1>2. QED
  BY <1>1, GridSound, PTL

\* However hits, misses and marks alternate, a cell is what its evidence says: a bump
\* stays a bump and a cliff a cliff or a bump until a ray ends in it, a wall was not refuted, a floor was not met again
\* (storage/core.rs:520-566, cliff_update.rs, bumper_update.rs).
THEOREM EvidenceFollowed == Spec => []TypeFollowsEvidence
<1>1. Inv => TypeFollowsEvidence
  BY DEF Inv
<1>2. QED
  BY <1>1, GridSound, PTL

\* The distance field, only ever flooded from the new walls of a scan, is between scans,
\* while the grid has its first size, the distance to the nearest cell that ever became a
\* wall; afterwards such a cell is still at distance zero unless it was displaced, and
\* while none is, no other (lidar_update.rs:38-125, storage/core.rs:720-782).
THEOREM FieldExact == Spec => []DistanceFieldSound
<1>1. ASSUME Inv PROVE DistanceFieldSound
  <2> SUFFICES ASSUME ~Scanning
               PROVE  /\ \A c \in walled \ displaced : dist[c] = 0
                      /\ displaced = {} => \A c \in Cells \ walled : dist[c] # 0
                      /\ ~grown => \A c \in Cells : Exact(c)
    BY DEF DistanceFieldSound
  <2>1. scan.walls = {} /\ WallInv /\ GridTypes /\ MarkTypes
    BY <1>1 DEF Scanning, NoScan, Inv, TypeInv
  <2>2. \A c \in walled \ displaced : dist[c] = 0
    BY <2>1 DEF WallInv
  <2>3. displaced = {} => \A c \in Cells \ walled : dist[c] # 0
    BY <2>1 DEF WallInv
  <2>4. ASSUME ~grown, NEW c \in Cells PROVE Exact(c)
    <3>1. walled = {z \in Cells : dist[z] = 0}
      BY <2>1, <2>2, <2>4 DEF WallInv, MarkTypes
    <3>2. QED
      BY <1>1, <2>4, <3>1, FieldIsExact DEF Inv, TypeInv, GridTypes, FieldInv
  <2>5. QED
    BY <2>2, <2>3, <2>4
<1>2. QED
  BY <1>1, GridSound, PTL
=============================================================================
