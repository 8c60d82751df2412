------------------------- MODULE PatternPlayProofs -------------------------
(***************************************************************************)
(* Proofs about the win rule and the engine's first steps, for a board of  *)
(* any size and shape, any search radius and any depth of forced wins.     *)
(* Walking along a line from a stone finds exactly the lines of the rule   *)
(* (LineThrough), so the scan of the engines, the look through the last    *)
(* stone of the server and the threat evaluation all decide the same       *)
(* (WinnersAlwaysAgree); a step of the engine never passes over a five     *)
(* (FivesAreNeverOverlooked); and an open four wins (OpenFoursAlwaysWin).  *)
(* The last needs an invariant over the reply to it: OpenFourStands.       *)
(***************************************************************************)
EXTENDS PatternPlay, FiniteSetTheorems, WellFoundedInduction, TLAPS

(* A set of numbers that is not empty has a least member.                  *)
LEMMA LeastNumber ==
  ASSUME NEW T \in SUBSET Nat, T # {}
  PROVE  \E m \in T : \A n \in T : m <= n
<1>1. \E m \in T : \A n \in T : ~ <<n, m>> \in OpToRel(<, Nat)
  BY NatLessThanWellFounded, WFMin, Zenon
<1>2. PICK m \in T : \A n \in T : ~ <<n, m>> \in OpToRel(<, Nat)
  BY <1>1
<1>3. \A n \in T : ~ (n < m)
  BY <1>2 DEF OpToRel
<1> QED BY <1>3

(* A set of numbers that is not empty and has a bound has a greatest one.  *)
LEMMA GreatestNumber ==
  ASSUME NEW B \in Nat, NEW S \in SUBSET (0 .. B), S # {}
  PROVE  \E m \in S : \A n \in S : m >= n
<1> DEFINE T == {t \in Nat : \A n \in S : n <= t}
<1>1. B \in T
  OBVIOUS
<1>2. PICK m \in T : \A t \in T : m <= t
  <2> HIDE DEF T
  <2>1. T \in SUBSET Nat
    BY DEF T
  <2> QED BY <1>1, <2>1, LeastNumber
<1>3. m \in S
  <2>1. SUFFICES ASSUME m \notin S PROVE FALSE
    OBVIOUS
  <2>2. PICK n \in S : TRUE
    OBVIOUS
  <2>3. n < m
    BY <2>1, <1>2
  <2>4. m - 1 \in T
    BY <2>1, <2>2, <2>3, <1>2
  <2> QED BY <2>4, <1>2
<1> QED BY <1>2, <1>3

-----------------------------------------------------------------------------
(* Steps along a line.                                                     *)
Points == Int \X Int

LEMMA ShiftZero ==
  ASSUME NEW c \in Points, NEW d \in Dirs
  PROVE  Shift(c, d, 0) = c
BY DEF Points, Dirs, Shift

LEMMA ShiftType ==
  ASSUME NEW c \in Points, NEW d \in Dirs, NEW k \in Int
  PROVE  Shift(c, d, k) \in Points
BY DEF Points, Dirs, Shift

LEMMA ShiftShift ==
  ASSUME NEW c \in Points, NEW d \in Dirs, NEW k \in Int, NEW m \in Int
  PROVE  Shift(Shift(c, d, k), d, m) = Shift(c, d, k + m)
BY DEF Points, Dirs, Shift

LEMMA ShiftInjective ==
  ASSUME NEW c \in Points, NEW d \in Dirs, NEW k \in Int, NEW m \in Int,
         Shift(c, d, k) = Shift(c, d, m)
  PROVE  k = m
BY DEF Points, Dirs, Shift

(* A line leaves the board within BoardSize steps.                         *)
LEMMA LineLeaves ==
  ASSUME NEW c \in Cells, NEW d \in Dirs, NEW sign \in {1, -1}
  PROVE  Shift(c, d, sign * BoardSize) \notin Cells
BY BoardAssumption DEF Cells, Dirs, Shift

-----------------------------------------------------------------------------
(* Walk, which chooses a number, is the number of stones up to the first   *)
(* cell that is not one of them.                                           *)
Steps(own, c, d, sign, k) ==
  /\ \A j \in 1 .. k : Shift(c, d, sign * j) \in own
  /\ Shift(c, d, sign * (k + 1)) \notin own

LEMMA WalkSteps ==
  ASSUME NEW own \in SUBSET Cells, NEW c \in Cells, NEW d \in Dirs, NEW sign \in {1, -1}
  PROVE  /\ Walk(own, c, d, sign) \in 0 .. BoardSize
         /\ Steps(own, c, d, sign, Walk(own, c, d, sign))
<1> DEFINE T == {m \in Nat : m >= 1 /\ Shift(c, d, sign * m) \notin own}
<1>1. BoardSize \in T
  BY LineLeaves, BoardAssumption
<1>2. PICK m \in T : \A n \in T : m <= n
  <2>1. T \in SUBSET Nat /\ T # {}
    BY <1>1
  <2> HIDE DEF T
  <2> QED BY <2>1, LeastNumber
<1>3. m - 1 \in 0 .. BoardSize /\ Steps(own, c, d, sign, m - 1)
  <2>1. m \in 1 .. BoardSize
    BY <1>1, <1>2, BoardAssumption
  <2>2. ASSUME NEW j \in 1 .. m - 1 PROVE Shift(c, d, sign * j) \in own
    <3>1. j \in Nat /\ j >= 1 /\ ~ (m <= j)
      BY <2>1
    <3>2. j \notin T
      <4> HIDE DEF T
      <4> QED BY <1>2, <3>1
    <3> QED BY <3>1, <3>2
  <2>3. m - 1 + 1 = m
    BY <2>1
  <2>4. Shift(c, d, sign * (m - 1 + 1)) \notin own
    BY <1>2, <2>3
  <2>5. m - 1 \in 0 .. BoardSize
    BY <2>1, BoardAssumption
  <2> HIDE DEF T
  <2> QED BY <2>2, <2>4, <2>5, Zenon DEF Steps
<1>4. Walk(own, c, d, sign) =
        CHOOSE k \in 0 .. BoardSize : Steps(own, c, d, sign, k)
  BY Zenon DEF Walk, Steps
<1> QED BY <1>3, <1>4, Zenon

LEMMA StepsUnique ==
  ASSUME NEW own, NEW c, NEW d, NEW sign, NEW k \in Nat, NEW m \in Nat,
         Steps(own, c, d, sign, k), Steps(own, c, d, sign, m)
  PROVE  k = m
BY DEF Steps

LEMMA WalkIs ==
  ASSUME NEW own \in SUBSET Cells, NEW c \in Cells, NEW d \in Dirs, NEW sign \in {1, -1},
         NEW k \in Nat, Steps(own, c, d, sign, k)
  PROVE  Walk(own, c, d, sign) = k
BY WalkSteps, StepsUnique, BoardAssumption

-----------------------------------------------------------------------------
(* The stones a walk each way counts are a line of the rule exactly if     *)
(* they are WinLength with the one they pass through, and every line       *)
(* through a stone is found that way.                                      *)
LineAround(own, c, d) == \E s \in 0 .. WinLength - 1 : IsExactLine(own, Shift(c, d, -s), d)

(* A line s cells before c, seen from c.                                   *)
SeenFrom(own, c, d, s) ==
  /\ \A j \in -s .. WinLength - 1 - s : Shift(c, d, j) \in own
  /\ Shift(c, d, -s - 1) \notin own
  /\ Shift(c, d, WinLength - s) \notin own

LEMMA LineSeenFrom ==
  ASSUME NEW own \in SUBSET Cells, NEW c \in Cells, NEW d \in Dirs, NEW s \in Nat
  PROVE  IsExactLine(own, Shift(c, d, -s), d) <=> SeenFrom(own, c, d, s)
<1> DEFINE e == Shift(c, d, -s)
<1>1. c \in Points
  BY BoardAssumption DEF Cells, Points
<1>2. \A k \in Int : Shift(e, d, k) = Shift(c, d, -s + k)
  BY <1>1, ShiftShift
<1> HIDE DEF e
<1>3. ASSUME IsExactLine(own, e, d) PROVE SeenFrom(own, c, d, s)
  <2>1. ASSUME NEW j \in -s .. WinLength - 1 - s PROVE Shift(c, d, j) \in own
    <3>1. s + j \in 0 .. WinLength - 1 /\ -s + (s + j) = j /\ s + j \in Int
      BY BoardAssumption
    <3>2. Shift(e, d, s + j) = Shift(c, d, j)
      BY <1>2, <3>1
    <3> QED BY <1>3, <3>1, <3>2 DEF IsExactLine
  <2>2. Shift(c, d, -s - 1) \notin own
    <3>1. -s + (-1) = -s - 1
      OBVIOUS
    <3>2. Shift(e, d, -1) = Shift(c, d, -s - 1)
      BY <1>2, <3>1
    <3> QED BY <1>3, <3>2 DEF IsExactLine
  <2>3. Shift(c, d, WinLength - s) \notin own
    <3>1. -s + WinLength = WinLength - s /\ WinLength \in Int
      BY BoardAssumption
    <3>2. Shift(e, d, WinLength) = Shift(c, d, WinLength - s)
      BY <1>2, <3>1
    <3> QED BY <1>3, <3>2 DEF IsExactLine
  <2> QED BY <2>1, <2>2, <2>3 DEF SeenFrom
<1>4. ASSUME SeenFrom(own, c, d, s) PROVE IsExactLine(own, e, d)
  <2>1. ASSUME NEW k \in 0 .. WinLength - 1 PROVE Shift(e, d, k) \in own
    <3>1. -s + k \in -s .. WinLength - 1 - s /\ k \in Int
      BY BoardAssumption
    <3> QED BY <1>2, <1>4, <3>1 DEF SeenFrom
  <2>2. Shift(e, d, -1) \notin own
    <3>1. -s + (-1) = -s - 1
      OBVIOUS
    <3> QED BY <1>2, <1>4, <3>1 DEF SeenFrom
  <2>3. Shift(e, d, WinLength) \notin own
    <3>1. -s + WinLength = WinLength - s /\ WinLength \in Int
      BY BoardAssumption
    <3> QED BY <1>2, <1>4, <3>1 DEF SeenFrom
  <2> QED BY <2>1, <2>2, <2>3 DEF IsExactLine
<1> QED BY <1>3, <1>4 DEF e

LEMMA LineThrough ==
  ASSUME NEW own \in SUBSET Cells, NEW c \in own, NEW d \in Dirs
  PROVE  RunThrough(own, c, d) = WinLength <=> LineAround(own, c, d)
<1> DEFINE a == Walk(own, c, d, 1)
           b == Walk(own, c, d, -1)
<1>1. c \in Cells /\ c \in Points
  BY BoardAssumption DEF Cells, Points
<1>2. /\ a \in Nat /\ Steps(own, c, d, 1, a)
      /\ b \in Nat /\ Steps(own, c, d, -1, b)
  BY <1>1, WalkSteps, BoardAssumption
<1>3. RunThrough(own, c, d) = 1 + a + b
  BY DEF RunThrough
<1> HIDE DEF a, b
<1>4. ASSUME 1 + a + b = WinLength PROVE LineAround(own, c, d)
  <2>1. b \in 0 .. WinLength - 1 /\ WinLength - 1 - b = a /\ WinLength - b = a + 1
    BY <1>2, <1>4
  <2>2. ASSUME NEW j \in -b .. a PROVE Shift(c, d, j) \in own
    <3>1. CASE j > 0
      <4>1. j \in 1 .. a /\ 1 * j = j
        BY <1>2, <3>1
      <4>2. Shift(c, d, 1 * j) \in own
        BY <1>2, <4>1 DEF Steps
      <4> QED BY <4>1, <4>2
    <3>2. CASE j = 0
      BY <1>1, <3>2, ShiftZero
    <3>3. CASE j < 0
      <4>1. -j \in 1 .. b /\ (-1) * (-j) = j
        BY <1>2, <3>3
      <4>2. Shift(c, d, (-1) * (-j)) \in own
        BY <1>2, <4>1 DEF Steps
      <4> QED BY <4>1, <4>2
    <3> QED BY <1>2, <3>1, <3>2, <3>3
  <2>3. Shift(c, d, -b - 1) \notin own
    <3>1. (-1) * (b + 1) = -b - 1
      BY <1>2
    <3> QED BY <1>2, <3>1 DEF Steps
  <2>4. Shift(c, d, WinLength - b) \notin own
    <3>1. 1 * (a + 1) = WinLength - b
      BY <1>2, <2>1
    <3> QED BY <1>2, <3>1 DEF Steps
  <2>5. SeenFrom(own, c, d, b)
    BY <2>1, <2>2, <2>3, <2>4 DEF SeenFrom
  <2> QED BY <1>1, <1>2, <2>1, <2>5, LineSeenFrom DEF LineAround
<1>5. ASSUME LineAround(own, c, d) PROVE 1 + a + b = WinLength
  <2>1. PICK s \in 0 .. WinLength - 1 : IsExactLine(own, Shift(c, d, -s), d)
    BY <1>5 DEF LineAround
  <2>2. s \in Nat /\ SeenFrom(own, c, d, s)
    BY <1>1, <2>1, LineSeenFrom
  <2>3. Steps(own, c, d, 1, WinLength - 1 - s)
    <3>1. ASSUME NEW j \in 1 .. WinLength - 1 - s PROVE Shift(c, d, 1 * j) \in own
      <4>1. 1 * j \in -s .. WinLength - 1 - s
        BY <2>2, BoardAssumption
      <4> QED BY <2>2, <4>1 DEF SeenFrom
    <3>2. 1 * (WinLength - 1 - s + 1) = WinLength - s
      BY <2>2, BoardAssumption
    <3> QED BY <2>2, <3>1, <3>2 DEF Steps, SeenFrom
  <2>4. Steps(own, c, d, -1, s)
    <3>1. ASSUME NEW j \in 1 .. s PROVE Shift(c, d, (-1) * j) \in own
      <4>1. (-1) * j \in -s .. WinLength - 1 - s
        BY <2>1, <2>2, BoardAssumption
      <4> QED BY <2>2, <4>1 DEF SeenFrom
    <3>2. (-1) * (s + 1) = -s - 1
      BY <2>2
    <3> QED BY <2>2, <3>1, <3>2 DEF Steps, SeenFrom
  <2>5. WinLength - 1 - s \in Nat
    BY <2>1, <2>2, BoardAssumption
  <2>6. a = WinLength - 1 - s /\ b = s
    BY <1>2, <2>2, <2>3, <2>4, <2>5, StepsUnique
  <2> QED BY <2>2, <2>6, BoardAssumption
<1> QED BY <1>3, <1>4, <1>5

(* The scan of the engines finds exactly the lines of the rule.            *)
LEMMA ScanFindsLines ==
  ASSUME NEW own \in SUBSET Cells
  PROVE  ScanHasWinner(own) <=> HasExactLine(own)
<1>1. own \subseteq Points
  BY BoardAssumption DEF Cells, Points
<1>2. ASSUME NEW c \in own, NEW d \in Dirs, LineAround(own, c, d) PROVE HasExactLine(own)
  <2>1. PICK s \in 0 .. WinLength - 1 : IsExactLine(own, Shift(c, d, -s), d)
    BY <1>2 DEF LineAround
  <2> DEFINE e == Shift(c, d, -s)
  <2>2. e \in Points
    BY <1>1, ShiftType, BoardAssumption
  <2>3. e \in own
    <3>1. 0 \in 0 .. WinLength - 1
      BY BoardAssumption
    <3> HIDE DEF e
    <3>2. Shift(e, d, 0) = e
      BY <2>2, ShiftZero
    <3>3. Shift(e, d, 0) \in own
      BY <2>1, <3>1 DEF IsExactLine, e
    <3> QED BY <3>2, <3>3
  <2> QED BY <2>1, <2>3, Zenon DEF HasExactLine
<1>3. ASSUME NEW e \in own, NEW d \in Dirs, IsExactLine(own, e, d)
      PROVE  LineAround(own, e, d)
  <2>1. PICK s \in 0 .. WinLength - 1 : s = 0 /\ -s = 0
    BY BoardAssumption
  <2>2. Shift(e, d, -s) = e
    BY <1>1, <2>1, ShiftZero
  <2>3. IsExactLine(own, Shift(e, d, -s), d)
    BY <1>3, <2>2, Zenon
  <2> QED BY <2>1, <2>3, Zenon DEF LineAround
<1>4. ASSUME ScanHasWinner(own) PROVE HasExactLine(own)
  BY <1>2, <1>4, LineThrough, Zenon DEF ScanHasWinner
<1>5. ASSUME HasExactLine(own) PROVE ScanHasWinner(own)
  BY <1>3, <1>5, LineThrough, Zenon DEF HasExactLine, ScanHasWinner
<1> QED BY <1>4, <1>5

(* Looking through the last stone finds the same, if there was no line     *)
(* before it.                                                              *)
LEMMA LastStoneFindsLines ==
  ASSUME NEW before \in SUBSET Cells, NEW c \in Cells, ~ HasExactLine(before)
  PROVE  CompletesLine(before \cup {c}, c) <=> HasExactLine(before \cup {c})
<1> DEFINE own == before \cup {c}
<1>1. own \in SUBSET Cells /\ c \in own
  OBVIOUS
<1>2. ASSUME CompletesLine(own, c) PROVE HasExactLine(own)
  <2>1. ScanHasWinner(own)
    BY <1>2, Zenon DEF CompletesLine, ScanHasWinner
  <2> HIDE DEF own
  <2> QED BY <1>1, <2>1, ScanFindsLines
<1>3. ASSUME HasExactLine(own) PROVE CompletesLine(own, c)
  <2>1. PICK e \in own, d \in Dirs : IsExactLine(own, e, d)
    BY <1>3, Zenon DEF HasExactLine
  <2>2. e \in Points
    BY <1>1, BoardAssumption DEF Cells, Points
  <2>3. PICK k \in 0 .. WinLength - 1 : Shift(e, d, k) = c
    <3>1. SUFFICES ASSUME \A k \in 0 .. WinLength - 1 : Shift(e, d, k) # c PROVE FALSE
      OBVIOUS
    <3>2. \A k \in 0 .. WinLength - 1 : Shift(e, d, k) \in before
      BY <2>1, <3>1 DEF IsExactLine
    <3>3. e \in before
      <4>1. 0 \in 0 .. WinLength - 1
        BY BoardAssumption
      <4> QED BY <2>2, <3>2, <4>1, ShiftZero
    <3>4. IsExactLine(before, e, d)
      BY <2>1, <3>2 DEF IsExactLine
    <3> QED BY <3>3, <3>4 DEF HasExactLine
  <2>4. k \in Int /\ -k \in Int /\ k + (-k) = 0
    BY BoardAssumption
  <2>5. Shift(c, d, -k) = e
    BY <2>2, <2>3, <2>4, ShiftShift, ShiftZero
  <2>6. LineAround(own, c, d)
    BY <2>1, <2>5, Zenon DEF LineAround
  <2> HIDE DEF own
  <2> QED BY <1>1, <2>6, LineThrough, Zenon DEF CompletesLine
<1> QED BY <1>2, <1>3

-----------------------------------------------------------------------------
(* The evaluation of a cell: five exactly for a line of five through it,   *)
(* whatever lies beyond the gaps.                                          *)
LEMMA WalkPastCell ==
  ASSUME NEW own \in SUBSET Cells, NEW c \in Cells, NEW d \in Dirs, NEW sign \in {1, -1}
  PROVE  Walk(own \cup {c}, c, d, sign) = Walk(own, c, d, sign)
<1> DEFINE k == Walk(own, c, d, sign)
<1>1. k \in Nat /\ Steps(own, c, d, sign, k)
  BY WalkSteps, BoardAssumption
<1> HIDE DEF k
<1>2. \A j \in Nat : j >= 1 => Shift(c, d, sign * j) # c
  BY BoardAssumption DEF Shift, Dirs, Cells
<1>3. k + 1 \in Nat /\ k + 1 >= 1
  BY <1>1
<1>4. Shift(c, d, sign * (k + 1)) # c
  BY <1>2, <1>3
<1>5. Steps(own \cup {c}, c, d, sign, k)
  BY <1>1, <1>4, Zenon DEF Steps
<1>6. own \cup {c} \in SUBSET Cells
  OBVIOUS
<1>7. Walk(own \cup {c}, c, d, sign) = k
  BY <1>1, <1>5, <1>6, WalkIs
<1> QED BY <1>7 DEF k

Kinds == {"five", "overline", "open four", "closed four", "dead four", "broken four",
          "open three", "closed three", "dead three", "broken three", "half-open three",
          "open two", "nothing"}

Judged(kind, contiguous, ends) ==
  /\ kind \in Kinds
  /\ kind = "five" <=> contiguous = 5
  /\ kind = "open four" <=> contiguous = 4 /\ ends = 2

LEMMA KindJudged ==
  ASSUME NEW contiguous \in Nat, NEW total \in Nat, NEW single \in BOOLEAN, NEW ends \in 0 .. 2
  PROVE  Judged(KindOf(contiguous, total, single, ends), contiguous, ends)
BY SMT DEF KindOf, Kinds, Judged

(* The values of a five and of an open four, and the most that several     *)
(* lines are worth together.                                               *)
Top == 1000000
Open == 500000
Combined == 48000

LEMMA ValuesInOrder ==
  /\ Top \in Nat /\ Open \in Nat /\ Combined \in Nat
  /\ Combined < Open /\ Open < Top
BY SMT DEF Top, Open, Combined

LowValues == {100000, 1500, 500, 400, 100, 0}

LEMMA LowValuesBelow ==
  ASSUME NEW w \in LowValues
  PROVE  w \in 0 .. Top /\ ~ (w >= Top) /\ w # Open
<1>1. w \in Nat /\ w <= 100000
  BY SMT DEF LowValues
<1>2. Top \in Nat /\ Open \in Nat /\ Open < Top /\ Open > 100000
  BY SMT DEF Top, Open
<1> QED BY <1>1, <1>2, SMT

LEMMA WorthOfKind ==
  ASSUME NEW kind \in Kinds
  PROVE  /\ Worth(kind) \in 0 .. Top
         /\ Worth(kind) >= Top <=> kind = "five"
         /\ Worth(kind) = Open => kind = "open four"
<1> DEFINE P(k) == /\ Worth(k) \in 0 .. Top
                   /\ Worth(k) >= Top <=> k = "five"
                   /\ Worth(k) = Open => k = "open four"
<1>1. Worth("five") = Top /\ Worth("open four") = Open
  BY SMT DEF Worth, Top, Open
<1>2. /\ Worth("overline") \in LowValues /\ Worth("dead four") \in LowValues
      /\ Worth("dead three") \in LowValues /\ Worth("nothing") \in LowValues
      /\ Worth("closed four") \in LowValues /\ Worth("broken four") \in LowValues
      /\ Worth("open three") \in LowValues /\ Worth("broken three") \in LowValues
      /\ Worth("closed three") \in LowValues /\ Worth("half-open three") \in LowValues
      /\ Worth("open two") \in LowValues
  BY SMT DEF Worth, LowValues
<1>3. ASSUME NEW k, k # "five", k # "open four", Worth(k) \in LowValues
      PROVE  P(k)
  BY <1>3, LowValuesBelow, Zenon
<1>4. P("five") /\ P("open four")
  <2>1. /\ Top \in 0 .. Top /\ Top >= Top /\ Top # Open
        /\ Open \in 0 .. Top /\ ~ (Open >= Top)
    BY ValuesInOrder
  <2> QED BY <1>1, <2>1, Zenon
<1> HIDE DEF P
<1>5. \A k \in Kinds \ {"five", "open four"} : P(k)
  BY <1>2, <1>3, Zenon DEF Kinds
<1>6. P(kind)
  BY <1>4, <1>5, Zenon
<1> QED BY <1>6 DEF P

(* The cell behind the stones next to c is free.                           *)
OpenEnd(ps, p, c, d, sign) ==
  Shift(c, d, sign * (Walk(ps[p], c, d, sign) + 1)) \in Free(ps)

LEMMA KindOfLine ==
  ASSUME NEW ps \in Positions, NEW p \in Colors, NEW c \in Squares, NEW d \in Dirs
  PROVE  /\ LineKind(ps, p, c, d) \in Kinds
         /\ LineKind(ps, p, c, d) = "five" <=> RunThrough(ps[p] \cup {c}, c, d) = 5
         /\ LineKind(ps, p, c, d) = "open four" =>
              /\ RunThrough(ps[p] \cup {c}, c, d) = 4
              /\ \A sign \in {1, -1} : OpenEnd(ps, p, c, d, sign)
<1>1. /\ ps[p] \in SUBSET Cells /\ c \in Cells /\ ps[p] \cup {c} \in SUBSET Cells
  BY ThreatsAssumption DEF Positions
<1> DEFINE Side(sign) == AnalyzeDirection(ps, p, c, d, sign)
<1>2. ASSUME NEW sign \in {1, -1}
      PROVE  /\ Side(sign).near = Walk(ps[p], c, d, sign)
             /\ Side(sign).total \in Nat /\ Side(sign).holes \in 0 .. 1
             /\ Side(sign).open \in 0 .. 1
             /\ Side(sign).open = 1 => OpenEnd(ps, p, c, d, sign)
  <2> DEFINE near == Walk(ps[p], c, d, sign)
             gap == Shift(c, d, sign * (near + 1))
             far == IF IsFree(ps, gap) THEN Walk(ps[p], gap, d, sign) ELSE 0
  <2>1. near \in Nat
    BY <1>1, WalkSteps, BoardAssumption
  <2>2. far \in Nat
    <3>1. CASE IsFree(ps, gap)
      <4>1. gap \in Cells
        BY <3>1, ThreatsAssumption DEF IsFree
      <4> HIDE DEF gap
      <4>2. Walk(ps[p], gap, d, sign) \in 0 .. BoardSize
        BY <1>1, <4>1, WalkSteps
      <4> QED BY <3>1, <4>2, BoardAssumption
    <3>2. CASE ~ IsFree(ps, gap)
      BY <3>2
    <3> QED BY <3>1, <3>2
  <2>3. Side(sign) = Beyond(ps, gap, d, sign, near, far)
    BY Zenon DEF AnalyzeDirection, AtGap
  <2>4. far > 0 => IsFree(ps, gap)
    <3>1. ~ IsFree(ps, gap) => far = 0
      BY Zenon
    <3> HIDE DEF far, gap, near
    <3> QED BY <3>1
  <2>5. IsFree(ps, gap) => OpenEnd(ps, p, c, d, sign)
    BY DEF IsFree, OpenEnd, Free, Taken
  <2> HIDE DEF near, gap, far, Side
  <2>6. Side(sign).open = 1 => IsFree(ps, gap)
    BY <2>2, <2>3, <2>4 DEF Beyond
  <2>7. /\ Side(sign).near = near /\ Side(sign).total \in Nat
        /\ Side(sign).holes \in 0 .. 1 /\ Side(sign).open \in 0 .. 1
    BY <2>1, <2>2, <2>3 DEF Beyond
  <2> QED BY <2>5, <2>6, <2>7, Zenon DEF near
<1>3. /\ Walk(ps[p], c, d, 1) \in Nat /\ Walk(ps[p], c, d, -1) \in Nat
      /\ Walk(ps[p] \cup {c}, c, d, 1) = Walk(ps[p], c, d, 1)
      /\ Walk(ps[p] \cup {c}, c, d, -1) = Walk(ps[p], c, d, -1)
  BY <1>1, WalkSteps, WalkPastCell, BoardAssumption
<1> DEFINE a == Side(1)
           b == Side(-1)
<1>4. LineKind(ps, p, c, d) =
        KindOf(1 + a.near + b.near, 1 + a.total + b.total, a.holes + b.holes <= 1, a.open + b.open)
  BY Zenon DEF LineKind
<1>5. /\ a.near = Walk(ps[p], c, d, 1) /\ b.near = Walk(ps[p], c, d, -1)
      /\ a.total \in Nat /\ b.total \in Nat
      /\ a.holes \in 0 .. 1 /\ b.holes \in 0 .. 1 /\ a.open \in 0 .. 1 /\ b.open \in 0 .. 1
  BY <1>2
<1> HIDE DEF a, b, Side
<1>6. /\ 1 + a.near + b.near \in Nat /\ 1 + a.total + b.total \in Nat
      /\ (a.holes + b.holes <= 1) \in BOOLEAN /\ a.open + b.open \in 0 .. 2
  BY <1>3, <1>5
<1>7. RunThrough(ps[p] \cup {c}, c, d) = 1 + a.near + b.near
  BY <1>3, <1>5 DEF RunThrough
<1>8. a.open + b.open = 2 => \A sign \in {1, -1} : OpenEnd(ps, p, c, d, sign)
  <2>1. a.open + b.open = 2 => a.open = 1 /\ b.open = 1
    BY <1>5
  <2> QED BY <1>2, <2>1 DEF a, b
<1> DEFINE kind == LineKind(ps, p, c, d)
           contiguous == 1 + a.near + b.near
           total == 1 + a.total + b.total
           single == a.holes + b.holes <= 1
           ends == a.open + b.open
<1>9. /\ kind \in Kinds
      /\ kind = "five" <=> 1 + a.near + b.near = 5
      /\ kind = "open four" <=> 1 + a.near + b.near = 4 /\ a.open + b.open = 2
  <2>1. contiguous \in Nat /\ total \in Nat /\ single \in BOOLEAN /\ ends \in 0 .. 2
    BY <1>6
  <2>2. kind = KindOf(contiguous, total, single, ends)
    BY <1>4, Zenon
  <2> HIDE DEF kind, contiguous, total, single, ends
  <2>3. Judged(kind, contiguous, ends)
    BY <2>1, <2>2, KindJudged
  <2> QED BY <2>3, Zenon DEF Judged, contiguous, ends
<1> HIDE DEF kind
<1>10. /\ kind \in Kinds
       /\ kind = "five" <=> RunThrough(ps[p] \cup {c}, c, d) = 5
       /\ kind = "open four" =>
            /\ RunThrough(ps[p] \cup {c}, c, d) = 4
            /\ \A sign \in {1, -1} : OpenEnd(ps, p, c, d, sign)
  BY <1>7, <1>8, <1>9, Zenon
<1> QED BY <1>10 DEF kind

(* The value of a cell is the greatest of a few numbers.                   *)
Values(lines, s) ==
  /\ s \subseteq 0 .. Top /\ s # {}
  /\ WorthTogether(lines) = Max(s)
  /\ \A v \in s : v > Combined => \E l \in lines : v = Worth(l[2])
  /\ \A l \in lines : Worth(l[2]) \in s

LEMMA GreatestValue ==
  ASSUME NEW lines, lines # {}, \A l \in lines : l[2] \in Kinds
  PROVE  \E s : Values(lines, s)
<1> DEFINE Lines(kinds) == Cardinality({l \in lines : l[2] \in kinds})
           fours == Lines(Fours)
           threes == Lines(Threes)
           openThrees == Lines(OpenThrees)
           openTwos == Lines({"open two"})
           Together(condition, value) == IF condition THEN {value} ELSE {}
           alone == {Worth(l[2]) : l \in lines}
           a == Together(fours >= 1 /\ threes >= 1, 45000)
           b == Together(openThrees >= 2, 40000)
           e == Together(fours >= 2, 48000)
           f == Together(openThrees >= 1 /\ threes >= 2, 30000)
           g == Together(openTwos >= 2, 25000)
           h == Together(openTwos >= 1 /\ openThrees >= 1, 15000)
           s == alone \cup a \cup b \cup e \cup f \cup g \cup h
<1>1. WorthTogether(lines) = Max(s)
  BY SMT DEF WorthTogether
<1>2. /\ a \subseteq {45000} /\ b \subseteq {40000} /\ e \subseteq {48000}
      /\ f \subseteq {30000} /\ g \subseteq {25000} /\ h \subseteq {15000}
  <2> HIDE DEF fours, threes, openThrees, openTwos
  <2> QED BY SMT
<1> HIDE DEF a, b, e, f, g, h
<1>0. {45000, 40000, 48000, 30000, 25000, 15000} \subseteq 0 .. Combined
  BY SMT DEF Combined
<1>3. alone \subseteq 0 .. Top /\ alone # {}
  BY WorthOfKind
<1>4. s \subseteq 0 .. Top /\ s # {}
  <2> HIDE DEF alone
  <2>1. /\ a \subseteq 0 .. Top /\ b \subseteq 0 .. Top /\ e \subseteq 0 .. Top
        /\ f \subseteq 0 .. Top /\ g \subseteq 0 .. Top /\ h \subseteq 0 .. Top
    BY <1>2, <1>0, ValuesInOrder, SMT
  <2> QED BY <1>3, <2>1
<1>5. \A v \in s : v > Combined => v \in alone
  <2> HIDE DEF alone
  <2>1. \A v \in a \cup b \cup e \cup f \cup g \cup h : ~ (v > Combined)
    BY <1>0, <1>2, ValuesInOrder, SMT
  <2>2. \A v \in s : v \in a \cup b \cup e \cup f \cup g \cup h \/ v \in alone
    BY Zenon DEF s
  <2> QED BY <2>1, <2>2, Zenon
<1>6. \A v \in s : v > Combined => \E l \in lines : v = Worth(l[2])
  BY <1>5
<1>7. \A l \in lines : Worth(l[2]) \in s
  OBVIOUS
<1> HIDE DEF s
<1>8. Values(lines, s)
  BY <1>1, <1>4, <1>6, <1>7, Zenon DEF Values
<1> QED BY <1>8

(* A stone on c makes four in a row with a free cell at both ends.         *)
OpensFour(ps, p, c) ==
  \E d \in Dirs : /\ RunThrough(ps[p] \cup {c}, c, d) = 4
                  /\ \A sign \in {1, -1} : OpenEnd(ps, p, c, d, sign)

LEMMA ValueOfCell ==
  ASSUME NEW ps \in Positions, NEW p \in Colors, NEW c \in Squares
  PROVE  /\ EvaluateThreat(ps, p, c) \in 0 .. Top
         /\ EvaluateThreat(ps, p, c) >= Top <=>
              \E d \in Dirs : RunThrough(ps[p] \cup {c}, c, d) = WinLength
         /\ EvaluateThreat(ps, p, c) = Open => OpensFour(ps, p, c)
<1>0. Top \in Nat
  BY ValuesInOrder
<1> DEFINE lines == {<<d, LineKind(ps, p, c, d)>> : d \in Dirs}
<1>1. EvaluateThreat(ps, p, c) = WorthTogether(lines)
  BY DEF EvaluateThreat
<1>2. lines # {} /\ \A l \in lines : l[2] \in Kinds
  <2>1. <<1, 0>> \in Dirs
    BY DEF Dirs
  <2>2. ASSUME NEW l \in lines PROVE l[2] \in Kinds
    <3>1. PICK d \in Dirs : l = <<d, LineKind(ps, p, c, d)>>
      BY Zenon
    <3> QED BY <3>1, KindOfLine
  <2> QED BY <2>1, <2>2, Zenon
<1>3. (\E l \in lines : l[2] = "five") <=>
        \E d \in Dirs : RunThrough(ps[p] \cup {c}, c, d) = WinLength
  <2>1. \A d \in Dirs : LineKind(ps, p, c, d) = "five" <=>
                            RunThrough(ps[p] \cup {c}, c, d) = WinLength
    BY KindOfLine, ThreatsAssumption
  <2>2. ASSUME NEW l \in lines, l[2] = "five"
        PROVE  \E d \in Dirs : LineKind(ps, p, c, d) = "five"
    <3>1. PICK d \in Dirs : l = <<d, LineKind(ps, p, c, d)>>
      BY Zenon
    <3> QED BY <2>2, <3>1
  <2>3. ASSUME NEW d \in Dirs, LineKind(ps, p, c, d) = "five"
        PROVE  \E l \in lines : l[2] = "five"
    <3>1. <<d, LineKind(ps, p, c, d)>> \in lines
      BY Zenon
    <3> HIDE DEF lines
    <3> QED BY <2>3, <3>1
  <2> HIDE DEF lines
  <2> QED BY <2>1, <2>2, <2>3, Zenon
<1>9. ASSUME NEW l \in lines, l[2] = "open four" PROVE OpensFour(ps, p, c)
  <2>1. PICK d \in Dirs : l = <<d, LineKind(ps, p, c, d)>>
    BY Zenon
  <2>2. LineKind(ps, p, c, d) = "open four"
    BY <1>9, <2>1
  <2>3. /\ RunThrough(ps[p] \cup {c}, c, d) = 4
        /\ \A sign \in {1, -1} : OpenEnd(ps, p, c, d, sign)
    BY <2>2, KindOfLine, Zenon
  <2> QED BY <2>3, Zenon DEF OpensFour
<1> HIDE DEF lines
<1>4. PICK s : Values(lines, s)
  BY <1>2, GreatestValue
<1>5. Max(s) \in s /\ \A v \in s : Max(s) >= v
  BY <1>0, <1>4, GreatestNumber DEF Max, Values
<1>8. Max(s) \in 0 .. Top
  BY <1>0, <1>4, <1>5 DEF Values
<1>6. ASSUME Max(s) >= Top PROVE \E l \in lines : l[2] = "five"
  <2>1. Max(s) > Combined
    BY <1>6, <1>8, ValuesInOrder
  <2>2. PICK l \in lines : Max(s) = Worth(l[2])
    BY <1>4, <1>5, <2>1, Zenon DEF Values
  <2> QED BY <1>2, <1>6, <2>2, WorthOfKind
<1>7. ASSUME NEW l \in lines, l[2] = "five" PROVE Max(s) >= Top
  <2>1. Worth(l[2]) >= Top /\ Worth(l[2]) \in s /\ Worth(l[2]) \in 0 .. Top
    <3>1. l[2] \in Kinds
      BY <1>2
    <3>2. Worth(l[2]) >= Top /\ Worth(l[2]) \in 0 .. Top
      BY <1>7, <3>1, WorthOfKind, Zenon
    <3> QED BY <1>4, <3>2, Zenon DEF Values
  <2> QED BY <1>0, <1>4, <1>5, <2>1 DEF Values
<1>10. ASSUME Max(s) = Open PROVE OpensFour(ps, p, c)
  <2>1. PICK l \in lines : Max(s) = Worth(l[2])
    BY <1>4, <1>5, <1>10, ValuesInOrder DEF Values
  <2>2. l[2] = "open four"
    BY <1>2, <1>10, <2>1, WorthOfKind, Zenon
  <2> QED BY <1>9, <2>2
<1>11. EvaluateThreat(ps, p, c) = Max(s)
  BY <1>1, <1>4 DEF Values
<1> QED BY <1>3, <1>6, <1>7, <1>8, <1>10, <1>11, Zenon

-----------------------------------------------------------------------------
(* What the four pieces of code say of one free cell.                      *)
Agree(ps, p, c) ==
  LET own == ps[p] \cup {c}
      wins == HasExactLine(own)
  IN  /\ ScanHasWinner(own) <=> wins
      /\ CompletesLine(own, c) <=> wins
      /\ EvaluateThreat(ps, p, c) >= Top <=> wins

LEMMA AgreeOnCell ==
  ASSUME NEW ps \in Positions, NEW p \in Colors, NEW c \in Free(ps), ~ ScanHasWinner(ps[p])
  PROVE  Agree(ps, p, c)
<1> DEFINE own == ps[p] \cup {c}
<1>1. /\ ps[p] \in SUBSET Cells /\ c \in Squares /\ c \in Cells
      /\ own \in SUBSET Cells /\ c \in own
  BY ThreatsAssumption DEF Positions, Free
<1>2. ScanHasWinner(own) <=> HasExactLine(own)
  <2> HIDE DEF own
  <2> QED BY <1>1, ScanFindsLines
<1>3. CompletesLine(own, c) <=> HasExactLine(own)
  BY <1>1, ScanFindsLines, LastStoneFindsLines
<1>4. EvaluateThreat(ps, p, c) >= Top <=> \E d \in Dirs : RunThrough(own, c, d) = WinLength
  BY <1>1, ValueOfCell
<1>5. CompletesLine(own, c) <=> \E d \in Dirs : RunThrough(own, c, d) = WinLength
  BY <1>1, Zenon DEF CompletesLine
<1>6. EvaluateThreat(ps, p, c) >= Top <=> HasExactLine(own)
  <2> HIDE DEF own
  <2> QED BY <1>3, <1>4, <1>5
<1> HIDE DEF own
<1>7. /\ ScanHasWinner(own) <=> HasExactLine(own)
      /\ CompletesLine(own, c) <=> HasExactLine(own)
      /\ EvaluateThreat(ps, p, c) >= Top <=> HasExactLine(own)
  BY <1>2, <1>3, <1>6, SMT
<1> QED BY <1>7, SMT DEF Agree, own

(* A cell that wins has a stone of its line next to it.                    *)
LEMMA WinsNearStone ==
  ASSUME NEW ps \in Positions, NEW p \in Colors, NEW c \in Free(ps),
         ~ ScanHasWinner(ps[p]), HasExactLine(ps[p] \cup {c})
  PROVE  c \in Candidates(ps)
<1> DEFINE own == ps[p] \cup {c}
<1>1. /\ ps[p] \in SUBSET Cells /\ c \in Squares /\ c \in Cells /\ c \in Points
      /\ own \in SUBSET Cells /\ c \in own /\ ps[p] \subseteq Taken(ps)
  BY ThreatsAssumption, BoardAssumption DEF Positions, Free, Points, Cells, Taken, Colors
<1>2. CompletesLine(own, c)
  BY <1>1, ScanFindsLines, LastStoneFindsLines
<1>3. PICK d \in Dirs : RunThrough(own, c, d) = WinLength
  BY <1>2, Zenon DEF CompletesLine
<1>4. PICK s \in 0 .. WinLength - 1 : SeenFrom(own, c, d, s)
  <2>1. LineAround(own, c, d)
    BY <1>1, <1>3, LineThrough
  <2>2. PICK s \in 0 .. WinLength - 1 : IsExactLine(own, Shift(c, d, -s), d)
    BY <2>1 DEF LineAround
  <2>3. s \in Nat
    BY BoardAssumption
  <2> QED BY <1>1, <2>2, <2>3, LineSeenFrom
<1>5. PICK j \in {1, -1} : j \in -s .. WinLength - 1 - s
  BY ThreatsAssumption
<1>6. Shift(c, d, j) \in own
  BY <1>4, <1>5 DEF SeenFrom
<1>7. Shift(c, d, j) # c
  BY <1>1, ShiftZero, ShiftInjective
<1>8. Shift(c, d, j) \in Taken(ps)
  BY <1>1, <1>6, <1>7
<1>9. Near(c, Shift(c, d, j))
  BY <1>1, ThreatsAssumption DEF Near, Shift, Dirs, Points
<1> QED BY <1>8, <1>9, Zenon DEF Candidates

LEMMA CandidatesFree ==
  ASSUME NEW ps
  PROVE  Candidates(ps) \subseteq Free(ps)
BY DEF Candidates, Free

LEMMA ForcedMovesAreCandidates ==
  ASSUME NEW ps, NEW p, NEW depth
  PROVE  /\ FindForcedWin(ps, p, depth) \subseteq Candidates(ps)
         /\ FindForcedWinBlock(ps, p, depth) \subseteq Candidates(ps)
<1>1. \A q : FindForcedWin(ps, q, depth) \subseteq Candidates(ps)
  BY SMT DEF FindForcedWin
<1> QED BY <1>1, Zenon DEF FindForcedWinBlock

-----------------------------------------------------------------------------
(* The state: a position of a game that the engine plays with one colour.  *)
Typed == pos \in Positions /\ engine \in Colors

LEMMA PutTyped ==
  ASSUME NEW ps \in Positions, NEW c \in Squares, NEW p \in Colors
  PROVE  /\ Put(ps, c, p) \in Positions
         /\ Put(ps, c, p)[p] = ps[p] \cup {c}
         /\ \A q \in Colors \ {p} : Put(ps, c, p)[q] = ps[q]
BY DEF Put, Positions

(* A step puts one stone on a free cell: of the other player, or of the    *)
(* engine, on a cell it may choose.                                        *)
EngineStep(c) == Thinking /\ c \in Candidates(pos) /\ pos' = Put(pos, c, engine)
OtherStep(c) == Turn = them /\ c \in Free(pos) /\ pos' = Put(pos, c, them)

LEMMA StepPutsStone ==
  ASSUME Next
  PROVE  /\ engine' = engine
         /\ \E c \in Free(pos) : EngineStep(c) \/ OtherStep(c)
<1>0. /\ Fives \subseteq Candidates(pos) /\ Urgent \subseteq Candidates(pos)
      /\ OpenFours \subseteq Candidates(pos)
  BY SMT DEF Fives, Urgent, OpenFours
<1>1. ASSUME NEW c \in Squares, Respond(c)
      PROVE  engine' = engine /\ \E e \in Free(pos) : EngineStep(e) \/ OtherStep(e)
  BY <1>1, Zenon DEF Respond, OtherStep
<1>2. ASSUME NEW c \in Candidates(pos), NEW step, Thinking, Answer(c, step)
      PROVE  engine' = engine /\ \E e \in Free(pos) : EngineStep(e) \/ OtherStep(e)
  <2>1. EngineStep(c) /\ engine' = engine
    BY <1>2, Zenon DEF EngineStep, Answer
  <2>2. c \in Free(pos)
    BY CandidatesFree
  <2> QED BY <2>1, <2>2, Zenon
<1>3. CASE PlayFive
  BY <1>0, <1>2, <1>3, Zenon DEF PlayFive
<1>4. CASE BlockThreat
  BY <1>0, <1>2, <1>4, Zenon DEF BlockThreat, Blocks
<1>5. CASE PlayOpenFour
  BY <1>0, <1>2, <1>5, Zenon DEF PlayOpenFour
<1>6. CASE PlayForcedWin
  <2>1. ForcedWins \subseteq Candidates(pos)
    BY ForcedMovesAreCandidates, Zenon DEF ForcedWins
  <2> QED BY <1>2, <1>6, <2>1, Zenon DEF PlayForcedWin, Quiet
<1>7. CASE BreakOrSearch
  <2>1. Disruptions \subseteq Candidates(pos)
    BY ForcedMovesAreCandidates, Zenon DEF Disruptions
  <2>2. \E c \in Candidates(pos) : \E step : Answer(c, step)
    BY <1>7, <2>1, Zenon DEF BreakOrSearch
  <2> QED BY <1>2, <1>7, <2>2, Zenon DEF BreakOrSearch, Quiet
<1> QED BY <1>1, <1>3, <1>4, <1>5, <1>6, <1>7, Zenon DEF Next

LEMMA TypedStep ==
  ASSUME Typed, [Next]_vars
  PROVE  Typed'
<1>1. CASE Next
  <2>1. PICK c \in Free(pos) : EngineStep(c) \/ OtherStep(c)
    BY <1>1, StepPutsStone
  <2>2. engine' = engine /\ c \in Squares /\ them \in Colors
    BY <1>1, StepPutsStone DEF Free, them, Opposite, Colors
  <2>3. pos' = Put(pos, c, engine) \/ pos' = Put(pos, c, them)
    BY <2>1 DEF EngineStep, OtherStep
  <2> QED BY <2>2, <2>3, PutTyped DEF Typed
<1>2. CASE UNCHANGED vars
  BY <1>2 DEF vars, Typed
<1> QED BY <1>1, <1>2

(* The board holds stones of the two colours on its cells, always.         *)
THEOREM AlwaysTyped == Spec => []Typed
<1>1. Init => Typed
  BY DEF Init, Typed, Positions, Colors
<1> QED BY <1>1, TypedStep, PTL DEF Spec

LEMMA TypedMeansAgreement ==
  ASSUME Typed
  PROVE  WinnersAgree
<1> SUFFICES ASSUME Running, NEW p \in Colors, NEW c \in Free(pos)
             PROVE  Agree(pos, p, c)
  BY SMT DEF WinnersAgree, Agree, Top
<1>1. ~ ScanHasWinner(pos[p])
  BY DEF Running, Colors
<1> QED BY <1>1, AgreeOnCell DEF Typed

(* The evaluation of a cell, the scan of the board and the look through    *)
(* the last stone agree with the rule of exactly five at every free cell,  *)
(* on a board of any size and shape.                                       *)
THEOREM WinnersAlwaysAgree == Spec => []WinnersAgree
BY AlwaysTyped, TypedMeansAgreement, PTL

-----------------------------------------------------------------------------
(* The cells of step 1 are exactly those that complete a five.             *)
LEMMA FivesComplete ==
  ASSUME Typed, Running
  PROVE  Fives = Completing(engine)
<1>1. ~ ScanHasWinner(pos[engine]) /\ engine \in Colors /\ pos \in Positions
  BY DEF Running, Typed, Colors
<1>2. ASSUME NEW c \in Free(pos)
      PROVE  Mine(c) >= Top <=> HasExactLine(pos[engine] \cup {c})
  BY <1>1, AgreeOnCell DEF Agree, Mine
<1>3. Completing(engine) \subseteq Candidates(pos)
  BY <1>1, WinsNearStone, Zenon DEF Completing
<1>4. Candidates(pos) \subseteq Free(pos)
  BY CandidatesFree
<1>5. Fives = {c \in Candidates(pos) : Mine(c) >= Top}
  BY SMT DEF Fives, Top
<1> QED BY <1>2, <1>3, <1>4, <1>5 DEF Completing

(* If the other player could complete a five, the cells of step 2 are      *)
(* some of those at which it could.                                        *)
LEMMA UrgentCompletes ==
  ASSUME Typed, Running, Completing(them) # {}
  PROVE  Urgent # {} /\ Urgent \subseteq Completing(them)
<1>1. /\ ~ ScanHasWinner(pos[them]) /\ them \in Colors /\ pos \in Positions
  BY DEF Running, Typed, Colors, them, Opposite
<1>2. ASSUME NEW c \in Free(pos)
      PROVE  Theirs(c) >= Top <=> HasExactLine(pos[them] \cup {c})
  BY <1>1, AgreeOnCell DEF Agree, Theirs
<1>3. Completing(them) \subseteq Candidates(pos)
  BY <1>1, WinsNearStone, Zenon DEF Completing
<1>4. Candidates(pos) \subseteq Free(pos) /\ Candidates(pos) \subseteq Squares
  BY CandidatesFree DEF Free
<1> DEFINE most == Max({Theirs(c) : c \in Candidates(pos)})
<1>5. \A c \in Candidates(pos) : Theirs(c) \in 0 .. Top
  BY <1>1, <1>4, ValueOfCell DEF Theirs
<1>0. Top \in Nat /\ Top > 500000
  BY SMT DEF Top
<1>6. PICK e \in Completing(them) : e \in Candidates(pos) /\ e \in Free(pos)
  BY <1>3, <1>4
<1>7. Theirs(e) = Top
  <2>1. Theirs(e) >= Top
    BY <1>2, <1>6 DEF Completing
  <2> QED BY <1>0, <1>5, <1>6, <2>1
<1>8. most = Top
  BY <1>0, <1>5, <1>6, <1>7 DEF Max
<1>9. Urgent = {c \in Candidates(pos) : Theirs(c) >= 500000 /\ Theirs(c) = Top}
  <2> HIDE DEF most
  <2>1. Urgent = {c \in Candidates(pos) : Theirs(c) >= 500000 /\ Theirs(c) = most}
    BY SMT DEF Urgent, most
  <2> QED BY <1>8, <2>1, SMT
<1>10. e \in Urgent
  BY <1>0, <1>6, <1>7, <1>9, SMT
<1>11. ASSUME NEW c \in Urgent PROVE c \in Completing(them)
  <2>1. c \in Free(pos) /\ Theirs(c) >= Top
    BY <1>0, <1>4, <1>9, SMT
  <2> QED BY <1>2, <2>1 DEF Completing
<1> QED BY <1>10, <1>11

(* What FiveIsNotOverlooked says of one step.                              *)
FiveTaken ==
  pos'[engine] # pos[engine] =>
    LET urgent == IF Completing(engine) # {} THEN Completing(engine) ELSE Completing(them)
    IN  urgent # {} => pos'[engine] \ pos[engine] \subseteq urgent

LEMMA FiveTakenStep ==
  ASSUME Typed, [Next]_vars
  PROVE  FiveTaken
<1> SUFFICES ASSUME Next, pos'[engine] # pos[engine],
                    Completing(engine) # {} \/ Completing(them) # {}
             PROVE  pos'[engine] \ pos[engine] \subseteq
                      IF Completing(engine) # {} THEN Completing(engine) ELSE Completing(them)
  BY Zenon DEF FiveTaken, vars
<1> DEFINE urgent == IF Completing(engine) # {} THEN Completing(engine) ELSE Completing(them)
<1>1. Running
  BY Zenon DEF Next, Respond, PlayFive, BlockThreat, PlayOpenFour, PlayForcedWin,
               BreakOrSearch, Quiet, Thinking
<1>2. /\ Fives = Completing(engine)
      /\ Completing(them) # {} => Urgent # {} /\ Urgent \subseteq Completing(them)
  BY <1>1, FivesComplete, UrgentCompletes
<1>3. ASSUME NEW c \in urgent, NEW step, Answer(c, step)
      PROVE  pos'[engine] \ pos[engine] \subseteq urgent
  <2>1. c \in Squares
    BY <1>3 DEF Completing, Free
  <2>2. pos'[engine] = pos[engine] \cup {c}
    BY <1>3, <2>1, PutTyped DEF Typed, Answer
  <2> HIDE DEF urgent
  <2> QED BY <1>3, <2>2
<1>4. ASSUME NEW c \in Squares, Respond(c) PROVE FALSE
  <2>1. pos'[engine] = pos[engine]
    BY <1>4, PutTyped DEF Typed, Respond, them, Opposite, Colors
  <2> QED BY <2>1
<1>5. CASE PlayFive
  BY <1>2, <1>3, <1>5, Zenon DEF PlayFive
<1>6. CASE BlockThreat
  <2>1. Completing(engine) = {} /\ Completing(them) # {}
    BY <1>2, <1>6, Zenon DEF BlockThreat
  <2>2. \E c \in Urgent : Answer(c, "block")
    BY <1>6, Zenon DEF BlockThreat, Blocks
  <2> QED BY <1>2, <1>3, <2>1, <2>2, Zenon
<1>7. CASE PlayOpenFour
  BY <1>2, <1>7, Zenon DEF PlayOpenFour
<1>8. CASE PlayForcedWin \/ BreakOrSearch
  BY <1>2, <1>8, Zenon DEF PlayForcedWin, BreakOrSearch, Quiet
<1> QED BY <1>4, <1>5, <1>6, <1>7, <1>8, Zenon DEF Next

(* The engine takes a five if it has one, and otherwise stops one of the   *)
(* other player: no other step of find_best_ai_move can come before.       *)
THEOREM FivesAreNeverOverlooked == Spec => FiveIsNotOverlooked
<1>1. Spec => [][FiveTaken]_vars
  BY AlwaysTyped, FiveTakenStep, PTL DEF Spec
<1> QED BY <1>1, PTL DEF FiveIsNotOverlooked, FiveTaken

-----------------------------------------------------------------------------
(* Whose turn it is follows from the number of stones of each colour.      *)
TurnIn(ps) == IF Cardinality(ps["X"]) = Cardinality(ps["O"]) THEN "X" ELSE "O"
Balanced(ps) == Cardinality(ps["X"]) - Cardinality(ps["O"]) \in {0, 1}

LEMMA FinitePosition ==
  ASSUME NEW ps \in Positions, NEW p \in Colors
  PROVE  IsFiniteSet(ps[p]) /\ Cardinality(ps[p]) \in Nat
<1>1. IsFiniteSet(0 .. BoardSize - 1)
  BY FS_Interval, BoardAssumption
<1>2. IsFiniteSet(Cells)
  BY <1>1, FS_Product DEF Cells
<1>3. ps[p] \subseteq Cells
  BY ThreatsAssumption DEF Positions
<1> QED BY <1>2, <1>3, FS_Subset, FS_CardinalityType

LEMMA FreeAfterPut ==
  ASSUME NEW ps \in Positions, NEW p \in Colors, NEW c \in Free(ps)
  PROVE  Free(Put(ps, c, p)) = Free(ps) \ {c}
<1>1. c \in Squares
  BY DEF Free
<1> DEFINE qs == Put(ps, c, p)
<1>2. qs[p] = ps[p] \cup {c} /\ \A q \in Colors \ {p} : qs[q] = ps[q]
  BY <1>1, PutTyped
<1> HIDE DEF qs
<1>3. CASE p = "X"
  <2>1. qs["X"] = ps["X"] \cup {c} /\ qs["O"] = ps["O"]
    BY <1>2, <1>3 DEF Colors
  <2> QED BY <2>1 DEF Free, Taken, qs
<1>4. CASE p = "O"
  <2>1. qs["O"] = ps["O"] \cup {c} /\ qs["X"] = ps["X"]
    BY <1>2, <1>4 DEF Colors
  <2> QED BY <2>1 DEF Free, Taken, qs
<1> QED BY <1>3, <1>4 DEF Colors

LEMMA TurnPasses ==
  ASSUME NEW ps \in Positions, Balanced(ps), NEW p \in Colors, p = TurnIn(ps), NEW c \in Free(ps)
  PROVE  Balanced(Put(ps, c, p)) /\ TurnIn(Put(ps, c, p)) = Opposite(p)
<1> DEFINE qs == Put(ps, c, p)
<1>1. c \in Squares /\ c \notin ps[p]
  BY DEF Free, Taken, Colors
<1>2. qs[p] = ps[p] \cup {c} /\ \A q \in Colors \ {p} : qs[q] = ps[q]
  BY <1>1, PutTyped
<1>3. Cardinality(qs[p]) = Cardinality(ps[p]) + 1
  BY <1>1, <1>2, FinitePosition, FS_AddElement
<1>4. Cardinality(ps["X"]) \in Nat /\ Cardinality(ps["O"]) \in Nat
  BY FinitePosition DEF Colors
<1> HIDE DEF qs
<1>5. CASE p = "X"
  <2>1. Cardinality(qs["X"]) = Cardinality(ps["X"]) + 1 /\ qs["O"] = ps["O"]
    BY <1>2, <1>3, <1>5 DEF Colors
  <2>2. Cardinality(ps["X"]) = Cardinality(ps["O"])
    BY <1>5 DEF TurnIn
  <2> QED BY <1>4, <1>5, <2>1, <2>2 DEF TurnIn, Balanced, Opposite, qs
<1>6. CASE p = "O"
  <2>1. Cardinality(qs["O"]) = Cardinality(ps["O"]) + 1 /\ qs["X"] = ps["X"]
    BY <1>2, <1>3, <1>6 DEF Colors
  <2>2. Cardinality(ps["X"]) = Cardinality(ps["O"]) + 1
    BY <1>4, <1>6 DEF TurnIn, Balanced
  <2> QED BY <1>4, <1>6, <2>1, <2>2 DEF TurnIn, Balanced, Opposite, qs
<1> QED BY <1>5, <1>6 DEF Colors

-----------------------------------------------------------------------------
(* Four stones in a row of p: both ends free, or at least one.             *)
FourWith(ps, p, both) ==
  \E c \in ps[p], d \in Dirs :
    /\ RunThrough(ps[p], c, d) = 4
    /\ IF both THEN \A sign \in {1, -1} : OpenEnd(ps, p, c, d, sign)
       ELSE \E sign \in {1, -1} : OpenEnd(ps, p, c, d, sign)

LEMMA OpenFourMade ==
  ASSUME NEW ps \in Positions, NEW p \in Colors, NEW c \in Free(ps), OpensFour(ps, p, c)
  PROVE  FourWith(Put(ps, c, p), p, TRUE)
<1> DEFINE qs == Put(ps, c, p)
<1>1. /\ c \in Squares /\ c \in Cells /\ c \in Points /\ ps[p] \in SUBSET Cells
  BY ThreatsAssumption, BoardAssumption DEF Positions, Free, Cells, Points
<1>2. qs[p] = ps[p] \cup {c}
  BY <1>1, PutTyped
<1>3. PICK d \in Dirs : /\ RunThrough(ps[p] \cup {c}, c, d) = 4
                        /\ \A sign \in {1, -1} : OpenEnd(ps, p, c, d, sign)
  BY DEF OpensFour
<1>4. ASSUME NEW sign \in {1, -1} PROVE OpenEnd(qs, p, c, d, sign)
  <2> DEFINE k == Walk(ps[p], c, d, sign)
  <2>1. Walk(qs[p], c, d, sign) = k /\ k \in Nat
    BY <1>1, <1>2, WalkPastCell, WalkSteps, BoardAssumption
  <2>2. Shift(c, d, sign * (k + 1)) \in Free(ps)
    BY <1>3 DEF OpenEnd
  <2> HIDE DEF k
  <2>3. sign * (k + 1) \in Int /\ sign * (k + 1) # 0
    BY <2>1
  <2>4. Shift(c, d, sign * (k + 1)) # c
    BY <1>1, <2>3, ShiftZero, ShiftInjective
  <2>5. Shift(c, d, sign * (k + 1)) \in Free(qs)
    BY <2>2, <2>4, FreeAfterPut
  <2> QED BY <2>1, <2>5 DEF OpenEnd
<1>5. c \in qs[p] /\ RunThrough(qs[p], c, d) = 4
  BY <1>2, <1>3
<1> HIDE DEF qs
<1>6. FourWith(qs, p, TRUE)
  BY <1>4, <1>5, Zenon DEF FourWith
<1> QED BY <1>6 DEF qs

(* One stone of the other player takes one end at most.                    *)
LEMMA FourAnswered ==
  ASSUME NEW ps \in Positions, NEW p \in Colors, NEW q \in Colors \ {p}, NEW e \in Free(ps),
         FourWith(ps, p, TRUE)
  PROVE  FourWith(Put(ps, e, q), p, FALSE)
<1> DEFINE qs == Put(ps, e, q)
<1>1. PICK c \in ps[p], d \in Dirs :
        /\ RunThrough(ps[p], c, d) = 4
        /\ \A sign \in {1, -1} : OpenEnd(ps, p, c, d, sign)
  BY Zenon DEF FourWith
<1>2. /\ e \in Squares /\ c \in Cells /\ c \in Points /\ ps[p] \in SUBSET Cells
  BY ThreatsAssumption, BoardAssumption DEF Positions, Free, Cells, Points
<1>3. qs[p] = ps[p]
  BY <1>2, PutTyped
<1> DEFINE a == Walk(ps[p], c, d, 1)
           b == Walk(ps[p], c, d, -1)
<1>4. a \in Nat /\ b \in Nat
  BY <1>2, WalkSteps, BoardAssumption
<1>5. Shift(c, d, 1 * (a + 1)) \in Free(ps) /\ Shift(c, d, (-1) * (b + 1)) \in Free(ps)
  BY <1>1 DEF OpenEnd
<1> HIDE DEF a, b
<1>6. Shift(c, d, 1 * (a + 1)) # Shift(c, d, (-1) * (b + 1))
  <2>1. 1 * (a + 1) \in Int /\ (-1) * (b + 1) \in Int /\ 1 * (a + 1) # (-1) * (b + 1)
    BY <1>4
  <2> QED BY <1>2, <2>1, ShiftInjective
<1>7. Free(qs) = Free(ps) \ {e}
  BY FreeAfterPut
<1>8. \/ Shift(c, d, 1 * (a + 1)) \in Free(qs)
      \/ Shift(c, d, (-1) * (b + 1)) \in Free(qs)
  BY <1>5, <1>6, <1>7
<1> HIDE DEF qs
<1>9. OpenEnd(qs, p, c, d, 1) \/ OpenEnd(qs, p, c, d, -1)
  BY <1>3, <1>8 DEF OpenEnd, a, b
<1>10. FourWith(qs, p, FALSE)
  <2>1. \E sign \in {1, -1} : OpenEnd(qs, p, c, d, sign)
    BY <1>9
  <2> QED BY <1>1, <1>3, <2>1, Zenon DEF FourWith
<1> QED BY <1>10 DEF qs

(* A four with a free end can be completed there, unless a stone of the    *)
(* same colour beyond that end makes it six.                               *)
LEMMA FourCompletes ==
  ASSUME Typed, FourWith(pos, engine, FALSE)
  PROVE  Completing(engine) # {} \/ StoneBeyondFour
<1> DEFINE own == pos[engine]
<1>1. PICK c \in own, d \in Dirs, sign \in {1, -1} :
        RunThrough(own, c, d) = 4 /\ OpenEnd(pos, engine, c, d, sign)
  BY Zenon DEF FourWith
<1>2. /\ own \in SUBSET Cells /\ c \in Cells /\ c \in Points
  BY ThreatsAssumption, BoardAssumption DEF Typed, Positions, Cells, Points
<1> DEFINE k == Walk(own, c, d, sign)
           m == Walk(own, c, d, -sign)
           g == Shift(c, d, sign * (k + 1))
<1>3. g \in Free(pos)
  BY <1>1 DEF OpenEnd
<1>4. g \in Cells
  BY <1>3, ThreatsAssumption DEF Free
<1>5. CASE Shift(c, d, sign * (k + 1 + 1)) \in own
  BY <1>1, <1>3, <1>5, Zenon DEF StoneBeyondFour
<1>6. CASE Shift(c, d, sign * (k + 1 + 1)) \notin own
  <2>1. -sign \in {1, -1}
    OBVIOUS
  <2>2. k \in Nat /\ Steps(own, c, d, sign, k) /\ m \in Nat /\ Steps(own, c, d, -sign, m)
    BY <1>2, <2>1, WalkSteps, BoardAssumption
  <2>3. k + m = 3
    <3>1. RunThrough(own, c, d) = 1 + k + m
      <4>1. CASE sign = 1
        BY <2>2, <4>1 DEF RunThrough
      <4>2. CASE sign = -1
        <5>1. -sign = 1
          <6>1. sign \in Int /\ sign + 1 = 0
            BY <4>2
          <6> QED BY <6>1
        <5>2. k = Walk(own, c, d, -1) /\ m = Walk(own, c, d, 1)
          BY <4>2, <5>1
        <5> HIDE DEF k, m
        <5> QED BY <2>2, <5>2 DEF RunThrough
      <4> QED BY <4>1, <4>2
    <3> HIDE DEF k, m
    <3> QED BY <1>1, <2>2, <3>1
  <2> DEFINE with == own \cup {g}
  <2>4. with \in SUBSET Cells /\ c \in with
    BY <1>2, <1>4
  <2> HIDE DEF k, m
  <2>5. Steps(with, c, d, sign, k + 1)
    <3>1. ASSUME NEW j \in 1 .. k + 1 PROVE Shift(c, d, sign * j) \in with
      <4>1. j \in 1 .. k \/ j = k + 1
        BY <2>2
      <4> QED BY <2>2, <4>1 DEF Steps
    <3>2. /\ sign * (k + 1 + 1) \in Int /\ sign * (k + 1) \in Int
          /\ sign * (k + 1 + 1) # sign * (k + 1)
      BY <2>2
    <3>3. Shift(c, d, sign * (k + 1 + 1)) # g
      BY <1>2, <3>2, ShiftInjective
    <3>4. Shift(c, d, sign * (k + 1 + 1)) \notin with
      BY <1>6, <3>3
    <3> HIDE DEF with, g
    <3> QED BY <3>1, <3>4, Zenon DEF Steps
  <2>6. Steps(with, c, d, -sign, m)
    <3>1. (-sign) * (m + 1) \in Int /\ sign * (k + 1) \in Int /\ (-sign) * (m + 1) # sign * (k + 1)
      BY <2>2
    <3>2. Shift(c, d, (-sign) * (m + 1)) # g
      BY <1>2, <3>1, ShiftInjective
    <3> HIDE DEF g, own
    <3> QED BY <2>2, <3>2 DEF Steps
  <2> HIDE DEF with, g, own
  <2>7. Walk(with, c, d, sign) = k + 1 /\ Walk(with, c, d, -sign) = m
    <3>1. c \in Cells /\ k + 1 \in Nat /\ m \in Nat
      BY <1>2, <2>2
    <3> QED BY <2>1, <2>4, <2>5, <2>6, <3>1, WalkIs
  <2>8. RunThrough(with, c, d) = WinLength
    <3>1. CASE sign = 1
      <4>1. Walk(with, c, d, 1) = k + 1 /\ Walk(with, c, d, -1) = m
        BY <2>7, <3>1
      <4> QED BY <2>2, <2>3, <4>1, ThreatsAssumption DEF RunThrough
    <3>2. CASE sign = -1
      <4>1. Walk(with, c, d, -1) = k + 1 /\ Walk(with, c, d, 1) = m
        BY <2>7, <3>2
      <4> QED BY <2>2, <2>3, <4>1, ThreatsAssumption DEF RunThrough
    <3> QED BY <3>1, <3>2
  <2>9. HasExactLine(with)
    BY <2>4, <2>8, ScanFindsLines, Zenon DEF ScanHasWinner
  <2> QED BY <1>3, <2>9 DEF Completing, with, own
<1> QED BY <1>5, <1>6

-----------------------------------------------------------------------------
(* What makes OpenFourWins inductive: the turn passes with every stone;    *)
(* until the other player has replied to an open four both of its ends are *)
(* free and that player completes no line anywhere, and then one end is.   *)
OpenFourStands ==
  said = "open four" =>
    /\ ~ ScanHasWinner(pos[them])
    /\ Turn = them => Completing(them) = {} /\ FourWith(pos, engine, TRUE)
    /\ Turn # them => FourWith(pos, engine, FALSE)

FourInv == Typed /\ Balanced(pos) /\ OpenFourStands

LEMMA ColorsOfGame ==
  ASSUME Typed
  PROVE  /\ engine \in Colors /\ them \in Colors /\ engine # them
         /\ Opposite(engine) = them /\ Opposite(them) = engine
         /\ Turn = TurnIn(pos) /\ Turn \in Colors
BY DEF Typed, Colors, them, Opposite, Turn, TurnIn

LEMMA FourInvInit == Init => FourInv
<1> SUFFICES ASSUME Init PROVE FourInv
  OBVIOUS
<1>1. Typed
  BY DEF Init, Typed, Positions, Colors
<1>2. pos["X"] = {} /\ pos["O"] = {} /\ said # "open four"
  BY DEF Init, Colors
<1>3. Balanced(pos)
  <2>1. Cardinality(pos["X"]) = 0 /\ Cardinality(pos["O"]) = 0
    BY <1>2, FS_EmptySet
  <2> QED BY <2>1 DEF Balanced
<1> QED BY <1>1, <1>2, <1>3 DEF FourInv, OpenFourStands

(* The stone that was put decides the new position and turn.               *)
AfterStone(c, p) ==
  /\ pos' = Put(pos, c, p) /\ pos' \in Positions
  /\ pos'[p] = pos[p] \cup {c} /\ pos'[Opposite(p)] = pos[Opposite(p)]
  /\ Balanced(pos') /\ Turn' = Opposite(p)
  /\ engine' = engine /\ them' = them

LEMMA StonePut ==
  ASSUME FourInv, NEW p \in Colors, p = Turn, NEW c \in Free(pos),
         pos' = Put(pos, c, p), engine' = engine
  PROVE  AfterStone(c, p)
<1>1. pos \in Positions /\ Balanced(pos) /\ p = TurnIn(pos) /\ c \in Squares
  BY ColorsOfGame DEF FourInv, Typed, Free
<1>2. Balanced(pos') /\ TurnIn(pos') = Opposite(p)
  BY <1>1, TurnPasses
<1>3. Turn' = TurnIn(pos')
  BY DEF Turn, TurnIn
<1>4. Opposite(p) \in Colors \ {p}
  BY DEF Opposite, Colors
<1>5. /\ pos' \in Positions /\ pos'[p] = pos[p] \cup {c}
      /\ pos'[Opposite(p)] = pos[Opposite(p)]
  BY <1>1, <1>4, PutTyped
<1>6. them' = them
  BY DEF them
<1> QED BY <1>2, <1>3, <1>5, <1>6, Zenon DEF AfterStone

LEMMA RespondKeepsFour ==
  ASSUME FourInv, NEW c \in Squares, Respond(c)
  PROVE  FourInv'
<1>1. /\ engine \in Colors /\ them \in Colors /\ engine # them
      /\ Opposite(them) = engine
  BY ColorsOfGame DEF FourInv
<1>2. /\ Turn = them /\ c \in Free(pos) /\ pos' = Put(pos, c, them)
      /\ engine' = engine /\ said' = said
  BY Zenon DEF Respond
<1>3. AfterStone(c, them)
  BY <1>1, <1>2, StonePut
<1>4. /\ pos' \in Positions /\ Balanced(pos') /\ engine' = engine /\ them' = them
      /\ Turn' = engine /\ pos'[them] = pos[them] \cup {c}
  BY <1>1, <1>3, Zenon DEF AfterStone
<1>5. ASSUME said' = "open four"
      PROVE  ~ ScanHasWinner(pos'[them]) /\ FourWith(pos', engine, FALSE)
  <2>1. Completing(them) = {} /\ FourWith(pos, engine, TRUE)
    BY <1>2, <1>5, Zenon DEF FourInv, OpenFourStands
  <2>2. ~ HasExactLine(pos[them] \cup {c})
    BY <1>2, <2>1 DEF Completing
  <2>3. pos'[them] \in SUBSET Cells
    BY <1>1, <1>4, ThreatsAssumption DEF Positions
  <2>4. ~ ScanHasWinner(pos'[them])
    BY <1>4, <2>2, <2>3, ScanFindsLines
  <2>5. FourWith(pos', engine, FALSE)
    BY <1>1, <1>2, <2>1, FourAnswered DEF FourInv, Typed
  <2> QED BY <2>4, <2>5
<1>6. Typed'
  BY <1>1, <1>4 DEF Typed
<1>7. OpenFourStands'
  BY <1>1, <1>4, <1>5, Zenon DEF OpenFourStands
<1>8. Balanced(pos)'
  BY <1>4 DEF Balanced
<1> QED BY <1>6, <1>7, <1>8 DEF FourInv

LEMMA AnswerKeepsFour ==
  ASSUME FourInv, Thinking, NEW c \in Candidates(pos), NEW step, Answer(c, step),
         step = "open four" => OpensFour(pos, engine, c) /\ Completing(them) = {}
  PROVE  FourInv'
<1>1. /\ engine \in Colors /\ them \in Colors /\ engine # them
      /\ Opposite(engine) = them
  BY ColorsOfGame DEF FourInv
<1>2. /\ Turn = engine /\ c \in Free(pos) /\ pos' = Put(pos, c, engine)
      /\ engine' = engine /\ said' = step /\ ~ ScanHasWinner(pos[them])
  <2>1. ~ ScanHasWinner(pos[them])
    BY <1>1 DEF Thinking, Running, Colors
  <2> QED BY <2>1, CandidatesFree, Zenon DEF Thinking, Answer
<1>3. AfterStone(c, engine)
  BY <1>1, <1>2, StonePut
<1>4. /\ pos' \in Positions /\ Balanced(pos') /\ engine' = engine /\ them' = them
      /\ Turn' = them /\ pos'[them] = pos[them]
  BY <1>1, <1>3, Zenon DEF AfterStone
<1>5. ASSUME said' = "open four"
      PROVE  /\ ~ ScanHasWinner(pos'[them])
             /\ FourWith(pos', engine, TRUE) /\ Completing(them)' = {}
  <2>1. OpensFour(pos, engine, c) /\ Completing(them) = {}
    BY <1>2, <1>5
  <2>2. FourWith(pos', engine, TRUE)
    BY <1>1, <1>2, <2>1, OpenFourMade DEF FourInv, Typed
  <2>3. Free(pos') \subseteq Free(pos)
    <3>1. Free(Put(pos, c, engine)) = Free(pos) \ {c}
      BY <1>1, <1>2, FreeAfterPut DEF FourInv, Typed
    <3> QED BY <1>2, <3>1
  <2>4. Completing(them)' = {}
    BY <1>4, <2>1, <2>3 DEF Completing
  <2> QED BY <1>2, <1>4, <2>2, <2>4
<1>6. Typed'
  BY <1>1, <1>4 DEF Typed
<1>7. OpenFourStands'
  <2>1. ASSUME said' = "open four"
        PROVE  ~ ScanHasWinner(pos'[them']) /\ FourWith(pos', engine', TRUE)
    BY <1>4, <1>5, <2>1, Zenon
  <2> QED BY <1>4, <1>5, <2>1, Zenon DEF OpenFourStands
<1>8. Balanced(pos)'
  BY <1>4 DEF Balanced
<1> QED BY <1>6, <1>7, <1>8 DEF FourInv

LEMMA FourInvStep ==
  ASSUME FourInv, [Next]_vars
  PROVE  FourInv'
<1>0. /\ Fives \subseteq Candidates(pos) /\ Urgent \subseteq Candidates(pos)
      /\ OpenFours \subseteq Candidates(pos)
  BY SMT DEF Fives, Urgent, OpenFours
<1>1. ASSUME NEW c \in Squares, Respond(c) PROVE FourInv'
  BY <1>1, RespondKeepsFour
<1>2. CASE PlayFive
  <2>1. PICK c \in Fives : Answer(c, "checkmate")
    BY <1>2, Zenon DEF PlayFive
  <2> QED BY <1>0, <1>2, <2>1, AnswerKeepsFour DEF PlayFive
<1>3. CASE BlockThreat
  <2>1. PICK c \in Blocks : Answer(c, "block")
    BY <1>3, Zenon DEF BlockThreat
  <2>2. c \in Candidates(pos)
    BY <1>0, Zenon DEF Blocks
  <2> QED BY <1>3, <2>1, <2>2, AnswerKeepsFour DEF BlockThreat
<1>4. CASE PlayOpenFour
  <2>1. PICK c \in OpenFours : Answer(c, "open four")
    BY <1>4, Zenon DEF PlayOpenFour
  <2>2. c \in Candidates(pos) /\ c \in Squares
    BY <1>0, CandidatesFree DEF Free
  <2>3. EvaluateThreat(pos, engine, c) = Open
    BY SMT DEF OpenFours, Mine, Open
  <2>4. OpensFour(pos, engine, c)
    BY <2>2, <2>3, ValueOfCell DEF FourInv, Typed
  <2>5. Thinking /\ Running /\ Urgent = {}
    BY <1>4, Zenon DEF PlayOpenFour, Thinking
  <2>6. Completing(them) = {}
    BY <2>5, UrgentCompletes DEF FourInv
  <2> QED BY <2>1, <2>2, <2>4, <2>5, <2>6, AnswerKeepsFour
<1>5. CASE PlayForcedWin
  <2>1. PICK c \in ForcedWins : Answer(c, "forced win")
    BY <1>5, Zenon DEF PlayForcedWin
  <2>2. c \in Candidates(pos)
    BY ForcedMovesAreCandidates, Zenon DEF ForcedWins
  <2> QED BY <1>5, <2>1, <2>2, AnswerKeepsFour DEF PlayForcedWin, Quiet
<1>6. CASE BreakOrSearch
  <2>1. Disruptions \subseteq Candidates(pos)
    BY ForcedMovesAreCandidates, Zenon DEF Disruptions
  <2>2. \E c \in Candidates(pos), step \in {"disruption", "search"} : Answer(c, step)
    BY <1>6, <2>1, Zenon DEF BreakOrSearch
  <2>3. PICK c \in Candidates(pos), step \in {"disruption", "search"} : Answer(c, step)
    BY <2>2
  <2>4. step # "open four"
    OBVIOUS
  <2> QED BY <1>6, <2>3, <2>4, AnswerKeepsFour DEF BreakOrSearch, Quiet
<1>7. CASE UNCHANGED vars
  BY <1>7 DEF vars, FourInv, Typed, Balanced, OpenFourStands, Completing, FourWith, OpenEnd,
              them, Turn
<1> QED BY <1>1, <1>2, <1>3, <1>4, <1>5, <1>6, <1>7, Zenon DEF Next

(* An open four wins: nobody but the engine wins before it is its turn     *)
(* again, and then it can complete the four, unless the code overlooked a  *)
(* stone one gap beyond it.                                                *)
THEOREM OpenFoursAlwaysWin == Spec => []OpenFourWins
<1>1. FourInv => OpenFourWins
  <2> SUFFICES ASSUME FourInv, said = "open four"
               PROVE  /\ ~ ScanHasWinner(pos[them])
                      /\ Thinking => Completing(engine) # {} \/ StoneBeyondFour
    BY DEF OpenFourWins
  <2>1. ~ ScanHasWinner(pos[them])
    BY DEF FourInv, OpenFourStands
  <2>2. ASSUME Thinking PROVE Completing(engine) # {} \/ StoneBeyondFour
    <3>1. Turn # them
      BY <2>2, ColorsOfGame DEF FourInv, Thinking
    <3>2. FourWith(pos, engine, FALSE)
      BY <3>1 DEF FourInv, OpenFourStands
    <3> QED BY <3>2, FourCompletes DEF FourInv
  <2> QED BY <2>1, <2>2
<1> QED BY <1>1, FourInvInit, FourInvStep, PTL DEF Spec
=============================================================================
