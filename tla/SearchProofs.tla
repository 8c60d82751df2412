---------------------------- MODULE SearchProofs ----------------------------
(***************************************************************************)
(* Theorems about Search, for any board, win rule, order of moves, score,  *)
(* depth and number of undos: alpha-beta with a table that outlives the    *)
(* search tells the truth about forced wins, as plain minimax defines them.*)
(*                                                                         *)
(* First come the facts about Forces (longer is weaker, never both sides,  *)
(* no longer than there are free cells); then what a value says of a node, *)
(* and what a loop over moves knows after each of them (Told, LoopOK); then*)
(* the chain of calls from the root to the innermost one (StackOK), the    *)
(* record of the game (GameInv), a lemma for each action, and the theorems.*)
(* Time that has run out ends all guarantees but types and legal moves, as *)
(* the run search_timeout shows, and so does a sum of patterns as high as  *)
(* the score of a line: the invariant is misled \/ Right.                  *)
(***************************************************************************)
EXTENDS Search, FiniteSetTheorems, SequenceTheorems, WellFoundedInduction, TLAPS

(* Induction over the natural numbers, with a set in place of a predicate. *)
LEMMA Induction ==
  ASSUME NEW S, 0 \in S, \A n \in Nat : n \in S => n + 1 \in S
  PROVE  Nat \subseteq S
<1> DEFINE T == Nat \ S
<1> SUFFICES ASSUME T # {} PROVE FALSE
  OBVIOUS
<1>1. PICK x \in T : \A y \in T : <<y, x>> \notin OpToRel(<,Nat)
  BY WFMin, NatLessThanWellFounded, Zenon
<1>2. \A y \in T : ~ (y < x)
  BY <1>1 DEF OpToRel
<1>3. x # 0 /\ x \in Nat
  OBVIOUS
<1>4. x - 1 \in Nat /\ x - 1 < x /\ x - 1 \notin T
  BY <1>2, <1>3
<1> QED BY <1>4

(* A function may be iterated.                                             *)
Iterated(f, V, base, step) ==
  /\ f \in [Nat -> V]
  /\ f[0] = base
  /\ \A k \in Nat : f[k + 1] = step[f[k]]

LEMMA Iteration ==
  ASSUME NEW V, NEW base \in V, NEW step \in [V -> V]
  PROVE  \E f : Iterated(f, V, base, step)
<1> DEFINE Chain(g, n) == /\ g \in [0 .. n -> V]
                          /\ g[0] = base
                          /\ \A i \in 1 .. n : g[i] = step[g[i - 1]]
           Reach(n) == {v \in V : \E g \in [0 .. n -> V] : Chain(g, n) /\ g[n] = v}
           W == {n \in Nat : \E v \in V : Reach(n) = {v}}
<1>1. 0 \in W
  <2> DEFINE g == [i \in 0 .. 0 |-> base]
  <2>1. g \in [0 .. 0 -> V] /\ g[0] = base
    OBVIOUS
  <2>2. Chain(g, 0)
    BY <2>1
  <2>3. base \in Reach(0)
    <3> HIDE DEF g
    <3> QED BY <2>1, <2>2
  <2>4. \A v \in Reach(0) : v = base
    OBVIOUS
  <2>5. Reach(0) = {base}
    <3> HIDE DEF Reach
    <3> QED BY <2>3, <2>4
  <2> HIDE DEF Reach
  <2> QED BY <2>5
<1>2. ASSUME NEW n \in Nat, NEW v \in V, Reach(n) = {v}
      PROVE  Reach(n + 1) = {step[v]}
  <2>1. PICK g \in [0 .. n -> V] : Chain(g, n) /\ g[n] = v
    BY <1>2
  <2> DEFINE h == [i \in 0 .. n + 1 |-> IF i = n + 1 THEN step[v] ELSE g[i]]
  <2>2. /\ h \in [0 .. n + 1 -> V]
        /\ \A i \in 0 .. n : h[i] = g[i]
        /\ h[n + 1] = step[v]
    OBVIOUS
  <2>3. Chain(h, n + 1)
    <3> HIDE DEF h
    <3>1. h[0] = base
      BY <2>1, <2>2
    <3>2. ASSUME NEW i \in 1 .. n + 1 PROVE h[i] = step[h[i - 1]]
      <4>1. CASE i = n + 1
        BY <4>1, <2>1, <2>2
      <4>2. CASE i # n + 1
        <5>1. i \in 1 .. n /\ i \in 0 .. n /\ i - 1 \in 0 .. n
          BY <4>2
        <5> QED BY <5>1, <2>1, <2>2
      <4> QED BY <4>1, <4>2
    <3> QED BY <2>2, <3>1, <3>2
  <2>4. step[v] \in Reach(n + 1)
    <3> HIDE DEF h
    <3> QED BY <2>2, <2>3
  <2>5. ASSUME NEW w \in Reach(n + 1) PROVE w = step[v]
    <3>1. PICK f \in [0 .. n + 1 -> V] : Chain(f, n + 1) /\ f[n + 1] = w
      BY <2>5
    <3> DEFINE e == [i \in 0 .. n |-> f[i]]
    <3>2. e \in [0 .. n -> V] /\ \A i \in 0 .. n : e[i] = f[i]
      BY <3>1
    <3>3. Chain(e, n)
      <4> HIDE DEF e
      <4>1. e[0] = base
        BY <3>1, <3>2
      <4>2. ASSUME NEW i \in 1 .. n PROVE e[i] = step[e[i - 1]]
        <5>1. i \in 1 .. n + 1 /\ i \in 0 .. n /\ i - 1 \in 0 .. n
          OBVIOUS
        <5> QED BY <5>1, <3>1, <3>2
      <4> QED BY <3>2, <4>1, <4>2
    <3>4. e[n] \in Reach(n)
      <4> HIDE DEF e
      <4> QED BY <3>2, <3>3
    <3>5. e[n] = v
      BY <3>4, <1>2
    <3>6. f[n + 1] = step[f[n]]
      <4>1. n + 1 \in 1 .. n + 1 /\ (n + 1) - 1 = n
        OBVIOUS
      <4> QED BY <4>1, <3>1
    <3> QED BY <3>1, <3>2, <3>5, <3>6
  <2> QED BY <2>4, <2>5
<1>3. W = Nat
  <2>1. \A k \in W : k + 1 \in W
    <3> SUFFICES ASSUME NEW k \in W PROVE k + 1 \in W
      OBVIOUS
    <3>1. PICK v \in V : Reach(k) = {v}
      OBVIOUS
    <3>2. Reach(k + 1) = {step[v]} /\ step[v] \in V
      BY <3>1, <1>2
    <3> HIDE DEF Reach
    <3> QED BY <3>2
  <2>2. \A k \in Nat : k \in W => k + 1 \in W
    <3> HIDE DEF W
    <3> QED BY <2>1
  <2>3. W \subseteq Nat
    <3> HIDE DEF Reach
    <3> QED OBVIOUS
  <2> HIDE DEF W
  <2> QED BY <1>1, <2>2, <2>3, Induction
<1> DEFINE f == [n \in Nat |-> CHOOSE v \in V : Reach(n) = {v}]
<1>4. \A n \in Nat : f[n] \in V /\ Reach(n) = {f[n]}
  <2> HIDE DEF Reach
  <2> QED BY <1>3
<1>5. f \in [Nat -> V]
  BY <1>4
<1>6. f[0] = base
  BY <1>4
<1>7. \A k \in Nat : f[k + 1] = step[f[k]]
  <2> SUFFICES ASSUME NEW k \in Nat PROVE f[k + 1] = step[f[k]]
    OBVIOUS
  <2>1. Reach(k + 1) = {step[f[k]]}
    <3> HIDE DEF Reach, f
    <3> QED BY <1>2, <1>4
  <2>2. Reach(k + 1) = {f[k + 1]}
    <3> HIDE DEF Reach, f
    <3> QED BY <1>4
  <2> HIDE DEF Reach, f
  <2> QED BY <2>1, <2>2
<1> HIDE DEF f
<1> QED BY <1>5, <1>6, <1>7 DEF Iterated

-----------------------------------------------------------------------------
(* The reference, unfolded.                                                *)
Lines == {x \in Situations : Has(x.pos, x.engine)}

LEMMA ForcedSteps ==
  /\ Forced[0] = Lines
  /\ \A k \in Nat : Forced[k + 1] = Decided(Forced[k])
<1> DEFINE V == SUBSET Situations
           step == [F \in V |-> Decided(F)]
<1>1. Lines \in V /\ step \in [V -> V] /\ \A F \in V : step[F] = Decided(F)
  BY DEF Lines, Decided
<1>2. PICK f : Iterated(f, V, Lines, step)
  <2> HIDE DEF V, step
  <2> QED BY <1>1, Iteration
<1>3. /\ f \in [Nat -> V]
      /\ f[0] = Lines
      /\ \A k \in Nat : f[k + 1] = Decided(f[k])
  <2> HIDE DEF V, step
  <2> QED BY <1>1, <1>2 DEF Iterated
<1> HIDE DEF V, step
<1> DEFINE G(g) == [k \in Nat |-> IF k = 0 THEN {x \in Situations : Has(x.pos, x.engine)}
                                  ELSE Decided(g[k - 1])]
<1>4. f = G(f)
  <2>1. ASSUME NEW k \in Nat PROVE f[k] = G(f)[k]
    <3>1. CASE k = 0
      BY <3>1, <1>3 DEF Lines
    <3>2. CASE k # 0
      <4>1. k - 1 \in Nat /\ (k - 1) + 1 = k
        BY <3>2
      <4>2. f[(k - 1) + 1] = Decided(f[k - 1])
        BY <4>1, <1>3
      <4>3. f[k] = Decided(f[k - 1])
        BY <4>1, <4>2
      <4> QED BY <4>3, <3>2
    <3> QED BY <3>1, <3>2
  <2> QED BY <2>1, <1>3
<1>5. Forced = G(Forced)
  <2>1. Forced = CHOOSE g : g = G(g)
    BY Zenon DEF Forced
  <2> HIDE DEF G
  <2> QED BY <2>1, <1>4
<1>6. Forced[0] = Lines
  BY <1>5 DEF Lines
<1>7. ASSUME NEW k \in Nat PROVE Forced[k + 1] = Decided(Forced[k])
  <2>1. k + 1 \in Nat /\ k + 1 # 0 /\ (k + 1) - 1 = k
    OBVIOUS
  <2>2. G(Forced)[k + 1] = Decided(Forced[(k + 1) - 1])
    BY <2>1
  <2> HIDE DEF G
  <2> QED BY <2>1, <2>2, <1>5
<1> QED BY <1>6, <1>7

(* A position after a move, and what may be forced with the move before it.*)
LEMMA PutType ==
  ASSUME NEW p \in Positions, NEW c \in Squares \ Stones(p), NEW my \in BOOLEAN
  PROVE  /\ Put(p, c, my) \in Positions
         /\ Stones(Put(p, c, my)) = Stones(p) \cup {c}
         /\ Own(Put(p, c, my), my) = Own(p, my) \cup {c}
         /\ Own(Put(p, c, my), ~my) = Own(p, ~my)
BY DEF Positions, Put, Stones, Own

LEMMA CandidatesAreFree ==
  ASSUME NEW p \in Positions
  PROVE  Candidates(p) \subseteq Squares \ Stones(p)
BY SearchAssumption DEF Candidates

LEMMA NothingYet ==
  ASSUME NEW s \in BOOLEAN, NEW p \in Positions, NEW my \in BOOLEAN
  PROVE  Forces(s, p, my, 0) <=> Has(p, s)
<1>1. [engine |-> s, pos |-> p, my |-> my] \in Situations
  BY DEF Situations
<1> QED BY <1>1, ForcedSteps DEF Forces, Lines

LEMMA OnePlyMore ==
  ASSUME NEW s \in BOOLEAN, NEW p \in Positions, NEW my \in BOOLEAN, NEW k \in Nat
  PROVE  Forces(s, p, my, k + 1) <=>
           \/ Has(p, s)
           \/ /\ ~Has(p, ~s) /\ Candidates(p) # {}
              /\ \/ my = s /\ \E c \in Candidates(p) : Forces(s, Put(p, c, my), ~my, k)
                 \/ my # s /\ \A c \in Candidates(p) : Forces(s, Put(p, c, my), ~my, k)
<1> DEFINE x == [engine |-> s, pos |-> p, my |-> my]
<1>1. x \in Situations /\ x.engine = s /\ x.pos = p /\ x.my = my
  BY DEF Situations
<1>2. \A c : After(x, c) = [engine |-> s, pos |-> Put(p, c, my), my |-> ~my]
  BY DEF After
<1> HIDE DEF x
<1>3. x \in Decided(Forced[k]) <=>
        \/ Has(p, s)
        \/ /\ ~Has(p, ~s) /\ Candidates(p) # {}
           /\ \/ my = s /\ \E c \in Candidates(p) : After(x, c) \in Forced[k]
              \/ my # s /\ \A c \in Candidates(p) : After(x, c) \in Forced[k]
  BY <1>1 DEF Decided
<1>4. Forces(s, p, my, k + 1) <=> x \in Decided(Forced[k])
  BY ForcedSteps DEF Forces, x
<1>5. \A c : After(x, c) \in Forced[k] <=> Forces(s, Put(p, c, my), ~my, k)
  BY <1>2 DEF Forces
<1> QED BY <1>3, <1>4, <1>5

(* A line is forced within any number of plies.                            *)
LEMMA LineIsForced ==
  ASSUME NEW s \in BOOLEAN, NEW p \in Positions, NEW my \in BOOLEAN, NEW k \in Nat, Has(p, s)
  PROVE  Forces(s, p, my, k)
<1>1. CASE k = 0
  BY <1>1, NothingYet
<1>2. CASE k # 0
  <2>1. k - 1 \in Nat /\ (k - 1) + 1 = k
    BY <1>2
  <2>2. Forces(s, p, my, (k - 1) + 1)
    BY <2>1, OnePlyMore
  <2> QED BY <2>1, <2>2
<1> QED BY <1>1, <1>2

(* Nobody forces anything against a line, or where no move is left.        *)
LEMMA NothingForced ==
  ASSUME NEW s \in BOOLEAN, NEW p \in Positions, NEW my \in BOOLEAN, NEW k \in Nat,
         ~Has(p, s), Has(p, ~s) \/ Candidates(p) = {}
  PROVE  ~Forces(s, p, my, k)
<1>1. CASE k = 0
  BY <1>1, NothingYet
<1>2. CASE k # 0
  <2>1. k - 1 \in Nat /\ (k - 1) + 1 = k
    BY <1>2
  <2>2. ~Forces(s, p, my, (k - 1) + 1)
    BY <2>1, OnePlyMore
  <2> QED BY <2>1, <2>2
<1> QED BY <1>1, <1>2

(* What can be forced within k plies can be within k + 1.                  *)
StaysForced(k) ==
  \A s \in BOOLEAN, p \in Positions, my \in BOOLEAN :
    Forces(s, p, my, k) => Forces(s, p, my, k + 1)

LEMMA MovesStay ==
  ASSUME NEW p \in Positions, NEW c \in Candidates(p), NEW my \in BOOLEAN
  PROVE  Put(p, c, my) \in Positions /\ (~my) \in BOOLEAN
<1>1. c \in Squares \ Stones(p)
  BY CandidatesAreFree
<1>2. Put(p, c, my) \in Positions
  BY <1>1, PutType
<1>3. (~my) \in BOOLEAN
  OBVIOUS
<1> QED BY <1>2, <1>3

LEMMA AlwaysStaysForced == \A k \in Nat : StaysForced(k)
<1> DEFINE W == {k \in Nat : StaysForced(k)}
<1>1. 0 \in W
  <2>1. StaysForced(0)
    BY NothingYet, LineIsForced DEF StaysForced
  <2> QED BY <2>1
<1>2. ASSUME NEW k \in Nat, StaysForced(k) PROVE StaysForced(k + 1)
  <2> SUFFICES ASSUME NEW s \in BOOLEAN, NEW p \in Positions, NEW my \in BOOLEAN,
                      Forces(s, p, my, k + 1), ~Has(p, s)
               PROVE  Forces(s, p, my, (k + 1) + 1)
    BY LineIsForced DEF StaysForced
  <2>1. ~Has(p, ~s) /\ Candidates(p) # {}
    BY OnePlyMore
  <2>2. \A c \in Candidates(p) :
          Forces(s, Put(p, c, my), ~my, k) => Forces(s, Put(p, c, my), ~my, k + 1)
    BY <1>2, MovesStay DEF StaysForced
  <2>3. CASE my = s
    <3>1. PICK c \in Candidates(p) : Forces(s, Put(p, c, my), ~my, k)
      BY <2>3, OnePlyMore
    <3>2. Forces(s, Put(p, c, my), ~my, k + 1)
      BY <3>1, <2>2
    <3> QED BY <2>1, <2>3, <3>2, OnePlyMore
  <2>4. CASE my # s
    <3>1. \A c \in Candidates(p) : Forces(s, Put(p, c, my), ~my, k + 1)
      BY <2>2, <2>4, OnePlyMore
    <3> QED BY <2>1, <2>4, <3>1, OnePlyMore
  <2> QED BY <2>3, <2>4
<1>3. \A k \in Nat : k \in W => k + 1 \in W
  BY <1>2
<1> HIDE DEF W
<1>4. Nat \subseteq W
  BY <1>1, <1>3, Induction
<1> QED BY <1>4 DEF W

LEMMA ForcedLonger ==
  ASSUME NEW s \in BOOLEAN, NEW p \in Positions, NEW my \in BOOLEAN,
         NEW k \in Nat, NEW l \in Nat, k <= l, Forces(s, p, my, k)
  PROVE  Forces(s, p, my, l)
<1> DEFINE W == {d \in Nat : Forces(s, p, my, k + d)}
<1>1. 0 \in W
  OBVIOUS
<1>2. \A d \in Nat : d \in W => d + 1 \in W
  <2> SUFFICES ASSUME NEW d \in Nat, Forces(s, p, my, k + d) PROVE Forces(s, p, my, k + (d + 1))
    OBVIOUS
  <2>1. k + d \in Nat /\ (k + d) + 1 = k + (d + 1)
    OBVIOUS
  <2>2. Forces(s, p, my, (k + d) + 1)
    BY <2>1, AlwaysStaysForced DEF StaysForced
  <2> QED BY <2>1, <2>2
<1> HIDE DEF W
<1>3. Nat \subseteq W
  BY <1>1, <1>2, Induction
<1>4. l - k \in W
  BY <1>3
<1>5. k + (l - k) = l
  OBVIOUS
<1> QED BY <1>4, <1>5 DEF W

(* There are never more plies to look at than free cells.                  *)
Room(p) == Cardinality(Squares \ Stones(p))

LEMMA RoomType ==
  ASSUME NEW p \in Positions
  PROVE  Room(p) \in Nat /\ Plies \in Nat /\ Room(p) <= Plies
<1>1. IsFiniteSet(Squares) /\ Squares \ Stones(p) \subseteq Squares
  BY SearchAssumption
<1> QED BY <1>1, FS_Subset, FS_CardinalityType DEF Room, Plies

LEMMA RoomShrinks ==
  ASSUME NEW p \in Positions, NEW c \in Squares \ Stones(p), NEW my \in BOOLEAN
  PROVE  Room(p) = Room(Put(p, c, my)) + 1
<1> DEFINE S == Squares \ Stones(p)
<1>1. IsFiniteSet(S) /\ c \in S
  BY SearchAssumption, FS_Subset
<1>2. Squares \ Stones(Put(p, c, my)) = S \ {c}
  BY PutType
<1>3. Cardinality(S \ {c}) = Cardinality(S) - 1 /\ Cardinality(S) \in Nat
  <2> HIDE DEF S
  <2> QED BY <1>1, FS_RemoveElement, FS_CardinalityType
<1>4. Room(p) = Cardinality(S) /\ Room(Put(p, c, my)) = Cardinality(S \ {c})
  BY <1>2 DEF Room
<1> HIDE DEF S
<1> QED BY <1>3, <1>4

ForcedInRoom(k) ==
  \A s \in BOOLEAN, p \in Positions, my \in BOOLEAN :
    Forces(s, p, my, k) => Forces(s, p, my, Room(p))

LEMMA AlwaysForcedInRoom == \A k \in Nat : ForcedInRoom(k)
<1> DEFINE W == {k \in Nat : ForcedInRoom(k)}
<1>1. 0 \in W
  <2>1. ForcedInRoom(0)
    BY NothingYet, LineIsForced, RoomType DEF ForcedInRoom
  <2> QED BY <2>1
<1>2. ASSUME NEW k \in Nat, ForcedInRoom(k) PROVE ForcedInRoom(k + 1)
  <2> SUFFICES ASSUME NEW s \in BOOLEAN, NEW p \in Positions, NEW my \in BOOLEAN,
                      Forces(s, p, my, k + 1), ~Has(p, s)
               PROVE  Forces(s, p, my, Room(p))
    BY LineIsForced, RoomType DEF ForcedInRoom
  <2>1. ~Has(p, ~s) /\ Candidates(p) # {}
    BY OnePlyMore
  <2>2. \A c \in Candidates(p) : Room(Put(p, c, my)) = Room(p) - 1
    BY CandidatesAreFree, RoomShrinks, RoomType, MovesStay
  <2>3. Room(p) - 1 \in Nat /\ (Room(p) - 1) + 1 = Room(p)
    BY <2>1, <2>2, RoomType, MovesStay
  <2>4. \A c \in Candidates(p) :
          Forces(s, Put(p, c, my), ~my, k) => Forces(s, Put(p, c, my), ~my, Room(p) - 1)
    BY <1>2, <2>2, MovesStay DEF ForcedInRoom
  <2>5. Forces(s, p, my, (Room(p) - 1) + 1)
    <3>1. CASE my = s
      <4>1. PICK c \in Candidates(p) : Forces(s, Put(p, c, my), ~my, k)
        BY <3>1, OnePlyMore
      <4>2. Forces(s, Put(p, c, my), ~my, Room(p) - 1)
        BY <4>1, <2>4
      <4> QED BY <2>1, <2>3, <3>1, <4>2, OnePlyMore
    <3>2. CASE my # s
      <4>1. \A c \in Candidates(p) : Forces(s, Put(p, c, my), ~my, Room(p) - 1)
        BY <2>4, <3>2, OnePlyMore
      <4> QED BY <2>1, <2>3, <3>2, <4>1, OnePlyMore
    <3> QED BY <3>1, <3>2
  <2> QED BY <2>3, <2>5
<1>3. \A k \in Nat : k \in W => k + 1 \in W
  BY <1>2
<1> HIDE DEF W
<1>4. Nat \subseteq W
  BY <1>1, <1>3, Induction
<1> QED BY <1>4 DEF W

LEMMA ForcedInTheEnd ==
  ASSUME NEW s \in BOOLEAN, NEW p \in Positions, NEW my \in BOOLEAN, NEW k \in Nat,
         Forces(s, p, my, k)
  PROVE  Forces(s, p, my, Plies)
<1>1. Forces(s, p, my, Room(p))
  BY AlwaysForcedInRoom DEF ForcedInRoom
<1> QED BY <1>1, RoomType, ForcedLonger

(* One move of a player who can win, or every reply against one.           *)
LEMMA WonByMove ==
  ASSUME NEW s \in BOOLEAN, NEW p \in Positions, ~Has(p, ~s),
         NEW c \in Candidates(p), Forces(s, Put(p, c, s), ~s, Plies)
  PROVE  Forces(s, p, s, Plies)
<1>1. Forces(s, p, s, Plies + 1)
  BY OnePlyMore, RoomType
<1> QED BY <1>1, ForcedInTheEnd, RoomType

LEMMA WonByReplies ==
  ASSUME NEW s \in BOOLEAN, NEW p \in Positions, NEW my \in BOOLEAN, my # s,
         ~Has(p, ~s), Candidates(p) # {},
         \A c \in Candidates(p) : Forces(s, Put(p, c, my), ~my, Plies)
  PROVE  Forces(s, p, my, Plies)
<1>1. Forces(s, p, my, Plies + 1)
  BY OnePlyMore, RoomType
<1> QED BY <1>1, ForcedInTheEnd, RoomType

(* No position can be won for both.                                        *)
NeverBoth(k) ==
  \A p \in Positions, my \in BOOLEAN :
    Forces(TRUE, p, my, k) /\ Forces(FALSE, p, my, k) => Has(p, TRUE) /\ Has(p, FALSE)

LEMMA AlwaysNeverBoth == \A k \in Nat : NeverBoth(k)
<1> DEFINE W == {k \in Nat : NeverBoth(k)}
<1>1. 0 \in W
  <2>1. NeverBoth(0)
    BY NothingYet DEF NeverBoth
  <2> QED BY <2>1
<1>2. ASSUME NEW k \in Nat, NeverBoth(k) PROVE NeverBoth(k + 1)
  <2> SUFFICES ASSUME NEW p \in Positions, NEW my \in BOOLEAN,
                      Forces(TRUE, p, my, k + 1), Forces(FALSE, p, my, k + 1),
                      ~(Has(p, TRUE) /\ Has(p, FALSE))
               PROVE  FALSE
    BY DEF NeverBoth
  <2>1. (~TRUE) = FALSE /\ (~FALSE) = TRUE
    OBVIOUS
  <2>2. \/ Has(p, TRUE)
        \/ /\ ~Has(p, FALSE) /\ Candidates(p) # {}
           /\ \/ my = TRUE /\ \E c \in Candidates(p) : Forces(TRUE, Put(p, c, my), ~my, k)
              \/ my # TRUE /\ \A c \in Candidates(p) : Forces(TRUE, Put(p, c, my), ~my, k)
    BY <2>1, OnePlyMore
  <2>3. \/ Has(p, FALSE)
        \/ /\ ~Has(p, TRUE) /\ Candidates(p) # {}
           /\ \/ my = FALSE /\ \E c \in Candidates(p) : Forces(FALSE, Put(p, c, my), ~my, k)
              \/ my # FALSE /\ \A c \in Candidates(p) : Forces(FALSE, Put(p, c, my), ~my, k)
    BY <2>1, OnePlyMore
  <2>4. ~Has(p, TRUE) /\ ~Has(p, FALSE)
    BY <2>2, <2>3
  <2>5. PICK c \in Candidates(p) : Forces(TRUE, Put(p, c, my), ~my, k)
         /\ Forces(FALSE, Put(p, c, my), ~my, k)
    BY <2>2, <2>3, <2>4
  <2>6. c \in Squares \ Stones(p)
    BY CandidatesAreFree
  <2>7. Put(p, c, my) \in Positions /\ Own(Put(p, c, my), ~my) = Own(p, ~my) /\ (~my) \in BOOLEAN
    BY <2>6, PutType
  <2>8. Has(Put(p, c, my), TRUE) /\ Has(Put(p, c, my), FALSE)
    BY <1>2, <2>5, <2>7 DEF NeverBoth
  <2>9. Has(Put(p, c, my), ~my) /\ ~Has(p, ~my)
    BY <2>4, <2>8, <2>1
  <2> QED BY <2>7, <2>9 DEF Has
<1>3. \A k \in Nat : k \in W => k + 1 \in W
  BY <1>2
<1> HIDE DEF W
<1>4. Nat \subseteq W
  BY <1>1, <1>3, Induction
<1> QED BY <1>4 DEF W

LEMMA WonIsNotLost ==
  ASSUME NEW p \in Positions, NEW my \in BOOLEAN, NEW k \in Nat,
         ~(Has(p, TRUE) /\ Has(p, FALSE)), Forces(TRUE, p, my, Plies)
  PROVE  ~Forces(FALSE, p, my, k)
<1> SUFFICES ASSUME Forces(FALSE, p, my, k) PROVE FALSE
  OBVIOUS
<1>1. Forces(FALSE, p, my, Plies)
  BY ForcedInTheEnd
<1> QED BY <1>1, RoomType, AlwaysNeverBoth DEF NeverBoth

-----------------------------------------------------------------------------
(* What a value may tell of a node: a won (or lost) one that a line can be *)
(* forced, any other that is no mere bound that none can be within its     *)
(* depth. s stands for the player: the engine, or else the other one.      *)
Good(s, v) == IF s THEN IsWin(v) ELSE IsLoss(v)
Below(s, v, b) == IF s THEN v < b ELSE b < v
Bound(s, n) == IF s THEN n.beta ELSE n.alpha

Wins(s, n, v) == Good(s, v) => Forces(s, n.pos, n.my, Plies)
Misses(s, n) == ~Forces(s, n.pos, n.my, n.depth)
Short(s, n, v) == Below(s, v, Bound(s, n)) /\ ~Good(s, v)

Told(n, v) ==
  /\ v \in Int
  /\ \A s \in BOOLEAN : Wins(s, n, v) /\ (Short(s, n, v) => Misses(s, n))
Exactly(n, v) ==
  /\ v \in Int
  /\ \A s \in BOOLEAN : Wins(s, n, v) /\ (~Good(s, v) => Misses(s, n))

(* A call: an open window, and no line but one through the last stone.     *)
NoLine(p) == \A s \in BOOLEAN : ~Has(p, s)
OnlyThroughLast(n) == \A s \in BOOLEAN : Has(n.pos, s) => s = ~n.my /\ HasFive(n)
Window(alpha, beta) ==
  /\ alpha < beta /\ ~IsWin(alpha) /\ ~IsLoss(beta) /\ Least <= alpha /\ beta <= Most
NodeOK(n) ==
  /\ n \in Nodes
  /\ Window(n.alpha, n.beta)
  /\ n.last \in Own(n.pos, ~n.my)
  /\ OnlyThroughLast(n)

(* A loop: what its best value tells of the moves tried so far.            *)
Tried(f) == Candidates(f.node.pos) \ f.rest
LeadsTo(s, n, c, k) == Forces(s, Put(n.pos, c, n.my), ~n.my, k)
LoopOK(f) ==
  LET n == f.node
  IN  /\ Good(n.my, f.best) => Forces(n.my, n.pos, n.my, Plies)
      /\ Good(~n.my, f.best) => \A c \in Tried(f) : LeadsTo(~n.my, n, c, Plies)
      /\ Short(~n.my, n, f.best)
           => \E c \in Candidates(n.pos) : ~LeadsTo(~n.my, n, c, n.depth - 1)
      /\ Short(n.my, n, f.best) => \A c \in Tried(f) : ~LeadsTo(n.my, n, c, n.depth - 1)
WindowOK(f) ==
  /\ IF f.node.my THEN Least <= f.best ELSE f.best <= Most
  /\ f.alpha = IF f.node.my THEN Greater(f.node.alpha, f.best) ELSE f.node.alpha
  /\ f.beta = IF f.node.my THEN f.node.beta ELSE Smaller(f.node.beta, f.best)
FrameOK(f) ==
  /\ f \in Frames
  /\ NodeOK(f.node) /\ NoLine(f.node.pos) /\ Candidates(f.node.pos) # {} /\ f.node.depth > 0
  /\ f.rest \subseteq Candidates(f.node.pos)
  /\ WindowOK(f)
  /\ LoopOK(f)

LEMMA ScoreFacts ==
  /\ Win \in Int /\ Margin \in Int /\ MaxDepth \in Int /\ 0 < MaxDepth /\ MaxDepth < Margin
      /\ Margin < Win
  /\ Least \in Int /\ Most \in Int
BY SearchAssumption DEF Least, Most

LEMMA NobodyElse ==
  ASSUME NEW s \in BOOLEAN, NEW m \in BOOLEAN
  PROVE  s = m \/ s = ~m
OBVIOUS

(* A value known exactly tells what it should, within any window.          *)
LEMMA ExactIsTold ==
  ASSUME NEW n, NEW v, Exactly(n, v)
  PROVE  Told(n, v)
BY DEF Exactly, Told, Short

LEMMA FiveIsExact ==
  ASSUME NEW n, NodeOK(n), HasFive(n)
  PROVE  Exactly(n, FiveScore(n))
<1> DEFINE v == FiveScore(n)
           m == n.my
<1>1. m \in BOOLEAN /\ n.pos \in Positions /\ n.depth \in 0 .. MaxDepth
  BY DEF NodeOK, Nodes
<1>2. (~m) \in BOOLEAN /\ Has(n.pos, ~m) /\ ~Has(n.pos, m)
  BY <1>1 DEF NodeOK, OnlyThroughLast, HasFive, Has
<1>3. v \in Int /\ Good(~m, v) /\ ~Good(m, v)
  <2>1. CASE m
    BY <2>1, <1>1, ScoreFacts DEF FiveScore, Good, IsWin, IsLoss
  <2>2. CASE ~m
    BY <2>2, <1>1, ScoreFacts DEF FiveScore, Good, IsWin, IsLoss
  <2> QED BY <2>1, <2>2
<1>4. Plies \in Nat /\ n.depth \in Nat
  BY <1>1, RoomType, SearchAssumption
<1>5. Forces(~m, n.pos, m, Plies)
  <2> HIDE DEF m
  <2> QED BY <1>1, <1>2, <1>4, LineIsForced
<1>6. ~Forces(m, n.pos, m, n.depth)
  <2> HIDE DEF m
  <2> QED BY <1>1, <1>2, <1>4, NothingForced
<1>7. ASSUME NEW s \in BOOLEAN PROVE Wins(s, n, v) /\ (~Good(s, v) => Misses(s, n))
  <2>1. s = m \/ s = ~m
    <3> HIDE DEF m
    <3> QED BY <1>1, NobodyElse
  <2>2. CASE s = m
    BY <2>2, <1>3, <1>6 DEF Wins, Misses
  <2>3. CASE s = ~m
    BY <2>3, <1>3, <1>5 DEF Wins
  <2> QED BY <2>1, <2>2, <2>3
<1> HIDE DEF v
<1> QED BY <1>3, <1>7 DEF Exactly, v

LEMMA NoLineYet ==
  ASSUME NEW n, NodeOK(n), ~HasFive(n)
  PROVE  NoLine(n.pos)
BY DEF NodeOK, OnlyThroughLast, NoLine

LEMMA ModestIsExact ==
  ASSUME NEW n, NodeOK(n), NEW v \in Int, Modest(v),
         \A s \in BOOLEAN : Misses(s, n)
  PROVE  Exactly(n, v)
<1>1. \A s \in BOOLEAN : ~Good(s, v)
  BY DEF Good, Modest
<1> QED BY <1>1 DEF Exactly, Wins

LEMMA ScoreIsExact ==
  ASSUME NEW n, NodeOK(n), ~HasFive(n), n.depth = 0, Modest(Evaluate(n.pos, n.last))
  PROVE  Exactly(n, Evaluate(n.pos, n.last))
<1>1. n.my \in BOOLEAN /\ n.pos \in Positions /\ n.last \in Squares
  BY DEF NodeOK, Nodes
<1>2. Evaluate(n.pos, n.last) \in Int
  BY <1>1, EvaluateAssumption
<1>3. \A s \in BOOLEAN : Misses(s, n)
  BY <1>1, NoLineYet, NothingYet DEF NoLine, Misses
<1> QED BY <1>2, <1>3, ModestIsExact

LEMMA FullIsExact ==
  ASSUME NEW n, NodeOK(n), ~HasFive(n), Candidates(n.pos) = {}
  PROVE  Exactly(n, 0)
<1>1. n.my \in BOOLEAN /\ n.pos \in Positions /\ n.depth \in Nat
  BY SearchAssumption DEF NodeOK, Nodes
<1>2. Modest(0)
  BY ScoreFacts DEF Modest, IsWin, IsLoss
<1>3. \A s \in BOOLEAN : Misses(s, n)
  BY <1>1, NoLineYet, NothingForced DEF NoLine, Misses
<1> QED BY <1>2, <1>3, ModestIsExact

(* What is stored of a node is sound, and tells another call what it should*)
(* if the entry may answer it.                                             *)
InTurn(n) == n.my = Turn(n.pos)
Entry(n, v, flag) == [value |-> v, depth |-> n.depth, flag |-> flag]

LEMMA EntryIsSound ==
  ASSUME NEW n, NodeOK(n), InTurn(n), NEW v \in Int,
         NEW flag \in {"exact", "lower", "upper"},
         \A s \in BOOLEAN : Wins(s, n, v),
         flag # "upper" /\ ~IsLoss(v) => Misses(FALSE, n),
         flag # "lower" /\ ~IsWin(v) => Misses(TRUE, n)
  PROVE  Entry(n, v, flag) \in Entries /\ Sound(n.pos, Entry(n, v, flag))
<1> DEFINE e == Entry(n, v, flag)
<1>1. e.value = v /\ e.depth = n.depth /\ e.flag = flag
  BY DEF Entry
<1>2. n.depth \in 0 .. MaxDepth
  BY DEF NodeOK, Nodes
<1>3. e \in Entries
  BY <1>2 DEF Entry, Entries
<1>4. /\ IsWin(v) => Forces(TRUE, n.pos, n.my, Plies)
      /\ IsLoss(v) => Forces(FALSE, n.pos, n.my, Plies)
  BY DEF Wins, Good
<1> HIDE DEF e
<1>5. Sound(n.pos, e)
  BY <1>1, <1>4 DEF Sound, InTurn, Misses
<1> QED BY <1>3, <1>5 DEF e

LEMMA ExactIsSound ==
  ASSUME NEW n, NodeOK(n), InTurn(n), NEW v, Exactly(n, v)
  PROVE  Entry(n, v, "exact") \in Entries /\ Sound(n.pos, Entry(n, v, "exact"))
<1>1. v \in Int /\ \A s \in BOOLEAN : Wins(s, n, v)
  BY DEF Exactly
<1>2. (~IsLoss(v) => Misses(FALSE, n)) /\ (~IsWin(v) => Misses(TRUE, n))
  BY DEF Exactly, Good
<1> QED BY <1>1, <1>2, EntryIsSound

LEMMA LoopIsSound ==
  ASSUME NEW f, FrameOK(f), InTurn(f.node), Told(f.node, f.best)
  PROVE  Entry(f.node, f.best, Flag(f)) \in Entries
      /\ Sound(f.node.pos, Entry(f.node, f.best, Flag(f)))
<1> DEFINE n == f.node
           v == f.best
<1>1. NodeOK(n) /\ n \in Nodes /\ Window(n.alpha, n.beta)
  BY DEF FrameOK, NodeOK
<1>2. v \in Int /\ n.alpha \in Int /\ n.beta \in Int /\ n.alpha < n.beta
  BY <1>1, ScoreFacts DEF Told, Nodes, Window
<1>3. Flag(f) \in {"exact", "lower", "upper"}
  BY DEF Flag
<1>4. (Flag(f) # "upper" => n.alpha < v) /\ (Flag(f) # "lower" => v < n.beta)
  BY <1>2 DEF Flag
<1>5. v \in Int /\ \A s \in BOOLEAN : Wins(s, n, v)
  BY DEF Told
<1>6. /\ n.alpha < v /\ ~IsLoss(v) => Misses(FALSE, n)
      /\ v < n.beta /\ ~IsWin(v) => Misses(TRUE, n)
  BY DEF Told, Short, Below, Bound, Good
<1> HIDE DEF n, v
<1>7. Entry(n, v, Flag(f)) \in Entries /\ Sound(n.pos, Entry(n, v, Flag(f)))
  BY <1>1, <1>3, <1>4, <1>5, <1>6, EntryIsSound DEF n
<1> QED BY <1>7 DEF n, v

Fits(e, n) ==
  /\ e.depth >= n.depth
  /\ \/ e.flag = "exact"
     \/ e.flag = "lower" /\ e.value >= n.beta
     \/ e.flag = "upper" /\ e.value <= n.alpha

LEMMA RecalledIsTold ==
  ASSUME NEW n, NodeOK(n), InTurn(n), NEW e \in Entries, Sound(n.pos, e), Fits(e, n)
  PROVE  Told(n, e.value)
<1> DEFINE v == e.value
<1>1. /\ n.my \in BOOLEAN /\ n.pos \in Positions /\ n.depth \in Nat
      /\ n.alpha \in Int /\ n.beta \in Int /\ Window(n.alpha, n.beta)
  <2>1. n \in Nodes /\ Window(n.alpha, n.beta)
    BY DEF NodeOK
  <2>2. n.alpha \in Int /\ n.beta \in Int /\ n.my \in BOOLEAN /\ n.pos \in Positions
         /\ n.depth \in 0 .. MaxDepth
    BY <2>1 DEF Nodes
  <2>3. 0 .. MaxDepth \subseteq Nat
    BY ScoreFacts
  <2> QED BY <2>1, <2>2, <2>3, ScoreFacts
<1>2. v \in Int /\ v \in Int /\ e.depth \in Nat /\ n.depth <= e.depth
  <2>1. v \in Int /\ e.depth \in 0 .. MaxDepth
    BY DEF Entries
  <2>2. 0 .. MaxDepth \subseteq Nat
    BY ScoreFacts
  <2>3. e.depth >= n.depth
    BY DEF Fits
  <2> HIDE DEF v
  <2>4. e.depth \in Nat
    BY <2>1, <2>2
  <2>5. n.depth <= e.depth
    BY <2>3, <2>4, <1>1
  <2> QED BY <2>1, <2>4, <2>5, ScoreFacts
<1>3. ASSUME NEW s \in BOOLEAN, ~Forces(s, n.pos, n.my, e.depth) PROVE Misses(s, n)
  BY <1>1, <1>2, <1>3, ForcedLonger DEF Misses
<1>4. /\ e.flag # "upper" => /\ IsWin(v) => Forces(TRUE, n.pos, n.my, Plies)
                             /\ ~IsLoss(v) => Misses(FALSE, n)
      /\ e.flag # "lower" => /\ IsLoss(v) => Forces(FALSE, n.pos, n.my, Plies)
                             /\ ~IsWin(v) => Misses(TRUE, n)
  BY <1>3 DEF Sound, InTurn
<1>5. e.flag = "upper" => v <= n.alpha /\ ~IsWin(v)
  <2>1. e.flag = "upper" => v <= n.alpha
    BY DEF Fits
  <2> HIDE DEF v
  <2> QED BY <2>1, <1>1, <1>2, ScoreFacts DEF IsWin, Window
<1>6. e.flag = "lower" => v >= n.beta /\ ~IsLoss(v)
  <2>1. e.flag = "lower" => v >= n.beta
    BY DEF Fits
  <2> HIDE DEF v
  <2> QED BY <2>1, <1>1, <1>2, ScoreFacts DEF IsLoss, Window
<1>7. Wins(TRUE, n, v) /\ (Short(TRUE, n, v) => Misses(TRUE, n))
  <2>1. CASE e.flag = "upper"
    BY <2>1, <1>4, <1>5 DEF Wins, Short, Good
  <2>2. CASE e.flag # "upper"
    <3>1. e.flag = "lower" => ~(v < n.beta)
      <4> HIDE DEF v
      <4> QED BY <1>1, <1>2, <1>6
    <3> QED BY <2>2, <3>1, <1>4 DEF Wins, Short, Good, Below, Bound
  <2> QED BY <2>1, <2>2
<1>8. Wins(FALSE, n, v) /\ (Short(FALSE, n, v) => Misses(FALSE, n))
  <2>1. CASE e.flag = "lower"
    BY <2>1, <1>4, <1>6 DEF Wins, Short, Good
  <2>2. CASE e.flag # "lower"
    <3>1. e.flag = "upper" => ~(n.alpha < v)
      <4> HIDE DEF v
      <4> QED BY <1>1, <1>2, <1>5
    <3> QED BY <2>2, <3>1, <1>4 DEF Wins, Short, Good, Below, Bound
  <2> QED BY <2>1, <2>2
<1> HIDE DEF v
<1>9. \A s \in BOOLEAN : Wins(s, n, v) /\ (Short(s, n, v) => Misses(s, n))
  BY <1>7, <1>8
<1> QED BY <1>2, <1>9 DEF Told, v

-----------------------------------------------------------------------------
(* A move makes a call of its own: the other player's turn, no line but one*)
(* through the new stone.                                                  *)
LEMMA DoubleNegation ==
  ASSUME NEW m \in BOOLEAN
  PROVE  ~~m = m
OBVIOUS

LEMMA TurnPasses ==
  ASSUME NEW p \in Positions, NEW c \in Squares \ Stones(p), NEW m \in BOOLEAN
  PROVE  Turn(Put(p, c, m)) = ~Turn(p)
<1>1. IsFiniteSet(Stones(p)) /\ c \notin Stones(p)
  <2>1. IsFiniteSet(Squares) /\ Stones(p) \subseteq Squares
    BY SearchAssumption DEF Stones, Positions
  <2> QED BY <2>1, FS_Subset
<1>2. Cardinality(Stones(p) \cup {c}) = Cardinality(Stones(p)) + 1 /\ Cardinality(Stones(p)) \in Nat
  BY <1>1, FS_AddElement, FS_CardinalityType
<1>3. \A k \in Nat : My((k + 1) + 1) = ~My(k + 1)
  BY DEF My
<1>4. Stones(Put(p, c, m)) = Stones(p) \cup {c}
  BY PutType
<1> QED BY <1>2, <1>3, <1>4 DEF Turn

NodeAfter(p, c, m, k, a, b) ==
  [pos |-> Put(p, c, m), depth |-> k, alpha |-> a, beta |-> b, my |-> ~m, last |-> c]

LEMMA NodeOfMove ==
  ASSUME NEW p \in Positions, NoLine(p), NEW c \in Candidates(p), NEW m \in BOOLEAN,
         NEW k \in 0 .. MaxDepth, NEW a \in Int, NEW b \in Int, Window(a, b)
  PROVE  /\ NodeOK(NodeAfter(p, c, m, k, a, b))
         /\ m = Turn(p) => InTurn(NodeAfter(p, c, m, k, a, b))
<1> DEFINE n == NodeAfter(p, c, m, k, a, b)
           q == Put(p, c, m)
           own == Own(p, m)
<1>1. c \in Squares \ Stones(p)
  BY CandidatesAreFree
<1>2. q \in Positions /\ Own(q, m) = own \cup {c} /\ Own(q, ~m) = Own(p, ~m)
  BY <1>1, PutType
<1>3. /\ n.pos = q /\ n.depth = k /\ n.alpha = a /\ n.beta = b /\ n.my = ~m /\ n.last = c
      /\ n = [pos |-> q, depth |-> k, alpha |-> a, beta |-> b, my |-> ~m, last |-> c]
  BY DEF NodeAfter
<1>4. own \in SUBSET Squares /\ c \in Squares \ own
  BY <1>1 DEF Own, Stones, Positions
<1>5. (~m) \in BOOLEAN /\ ~~m = m
  OBVIOUS
<1>6. Turn(q) = ~Turn(p)
  BY <1>1, TurnPasses
<1> HIDE DEF n, q, own
<1>7. n \in Nodes
  BY <1>1, <1>2, <1>3, <1>5 DEF Nodes
<1>8. ~n.my = m
  BY <1>3, <1>5
<1>9. ASSUME NEW s \in BOOLEAN, Has(q, s) PROVE s = m /\ FiveThrough(own \cup {c}, c)
  <2>1. PICK d \in Own(q, s) : FiveThrough(Own(q, s), d)
    BY <1>9 DEF Has
  <2>2. CASE s = ~m
    BY <2>1, <2>2, <1>2, <1>5 DEF NoLine, Has
  <2>3. CASE s = m
    <3>1. d \in own \cup {c} /\ FiveThrough(own \cup {c}, d)
      BY <2>1, <2>3, <1>2
    <3>2. CASE d = c
      BY <3>1, <3>2, <2>3
    <3>3. CASE d \in own
      <4>1. ~FiveThrough(own, d)
        BY <3>3 DEF NoLine, Has, own
      <4> QED BY <3>1, <3>3, <4>1, <1>4, <2>3, FiveAssumption
    <3> QED BY <3>1, <3>2, <3>3
  <2> QED BY <2>2, <2>3, NobodyElse
<1>10. HasFive(n) <=> FiveThrough(own \cup {c}, c)
  BY <1>2, <1>3, <1>8 DEF HasFive
<1>11. OnlyThroughLast(n)
  BY <1>3, <1>8, <1>9, <1>10 DEF OnlyThroughLast
<1>12. n.last \in Own(n.pos, ~n.my)
  BY <1>2, <1>3, <1>8
<1>13. Window(n.alpha, n.beta)
  BY <1>3
<1>14. NodeOK(n)
  BY <1>7, <1>11, <1>12, <1>13 DEF NodeOK
<1>15. m = Turn(p) => InTurn(n)
  BY <1>3, <1>6 DEF InTurn
<1> QED BY <1>14, <1>15 DEF n

(* The loop over the moves of a call.                                      *)
LEMMA LoopType ==
  ASSUME NEW f, FrameOK(f)
  PROVE  /\ f.node \in Nodes /\ f.node.my \in BOOLEAN /\ f.node.pos \in Positions
         /\ f.node.depth \in Nat /\ f.node.depth - 1 \in Nat /\ f.node.depth <= MaxDepth
         /\ f.node.alpha \in Int /\ f.node.beta \in Int
         /\ f.best \in Int /\ f.alpha \in Int /\ f.beta \in Int
         /\ Window(f.node.alpha, f.node.beta)
         /\ f = [node |-> f.node, best |-> f.best, alpha |-> f.alpha, beta |-> f.beta,
             rest |-> f.rest]
         /\ f.rest \in SUBSET Squares
<1>1. f \in Frames /\ f.node.depth > 0 /\ Window(f.node.alpha, f.node.beta)
  BY DEF FrameOK, NodeOK
<1>2. f.node \in Nodes /\ f.best \in Int /\ f.alpha \in Int /\ f.beta \in Int
  BY <1>1 DEF Frames
<1>3. /\ f.node.my \in BOOLEAN /\ f.node.pos \in Positions /\ f.node.depth \in 0 .. MaxDepth
      /\ f.node.alpha \in Int /\ f.node.beta \in Int
  BY <1>2 DEF Nodes
<1>4. f.node.depth \in Nat /\ f.node.depth - 1 \in Nat /\ f.node.depth <= MaxDepth
  BY <1>1, <1>3, ScoreFacts
<1>5. /\ f = [node |-> f.node, best |-> f.best, alpha |-> f.alpha, beta |-> f.beta, rest |-> f.rest]
      /\ f.rest \in SUBSET Squares
  BY <1>1 DEF Frames
<1> QED BY <1>1, <1>2, <1>3, <1>4, <1>5

LEMMA ChildIsOK ==
  ASSUME NEW f, FrameOK(f), ~Done(f), NEW c \in f.rest
  PROVE  NodeOK(Child(f, c)) /\ (InTurn(f.node) => InTurn(Child(f, c)))
<1> DEFINE n == f.node
<1>1. n.my \in BOOLEAN /\ n.pos \in Positions /\ c \in Candidates(n.pos) /\ NoLine(n.pos)
  BY LoopType DEF FrameOK
<1>2. n.depth - 1 \in 0 .. MaxDepth
  BY LoopType, ScoreFacts
<1>3. f.alpha < f.beta
  BY LoopType, ScoreFacts DEF Done
<1>4. ~IsWin(f.alpha) /\ ~IsLoss(f.beta) /\ Least <= f.alpha /\ f.beta <= Most
  <2>1. WindowOK(f) /\ Window(n.alpha, n.beta)
    BY LoopType DEF FrameOK
  <2>2. f.best \in Int /\ f.alpha \in Int /\ f.beta \in Int /\ n.alpha \in Int /\ n.beta \in Int
    BY LoopType, ScoreFacts
  <2>3. CASE n.my
    <3>1. f.alpha = Greater(n.alpha, f.best) /\ f.beta = n.beta /\ ~IsWin(f.best)
      BY <2>1, <2>3 DEF WindowOK, Done
    <3> HIDE DEF n
    <3> QED BY <3>1, <2>1, <2>2, ScoreFacts DEF Window, Greater, Least, Most
  <2>4. CASE ~n.my
    <3>1. f.alpha = n.alpha /\ f.beta = Smaller(n.beta, f.best) /\ ~IsLoss(f.best)
      BY <2>1, <2>4 DEF WindowOK, Done
    <3> HIDE DEF n
    <3> QED BY <3>1, <2>1, <2>2, ScoreFacts DEF Window, Smaller, Least, Most
  <2> QED BY <2>3, <2>4
<1>5. Window(f.alpha, f.beta) /\ f.alpha \in Int /\ f.beta \in Int
  BY <1>3, <1>4, LoopType DEF Window
<1>6. Child(f, c) = NodeAfter(n.pos, c, n.my, n.depth - 1, f.alpha, f.beta)
  BY DEF Child, NodeAfter
<1>7. InTurn(n) => n.my = Turn(n.pos)
  BY DEF InTurn
<1> HIDE DEF n
<1>8. NodeOK(Child(f, c)) /\ (n.my = Turn(n.pos) => InTurn(Child(f, c)))
  BY <1>1, <1>2, <1>5, <1>6, NodeOfMove
<1> QED BY <1>7, <1>8 DEF n

LEMMA EnteredIsOK ==
  ASSUME NEW n, NodeOK(n), NoLine(n.pos), Candidates(n.pos) # {}, n.depth > 0
  PROVE  FrameOK(Frame(n))
<1> DEFINE f == Frame(n)
<1>1. n \in Nodes /\ Window(n.alpha, n.beta)
  BY DEF NodeOK
<1>2. n.alpha \in Int /\ n.beta \in Int /\ n.my \in BOOLEAN /\ n.pos \in Positions
  BY <1>1 DEF Nodes
<1>3. /\ f.node = n /\ f.best = (IF n.my THEN Least ELSE Most)
      /\ f.alpha = n.alpha /\ f.beta = n.beta /\ f.rest = Candidates(n.pos)
  BY DEF Frame
<1>4. f.best \in Int /\ f.rest \subseteq Squares
  BY <1>2, <1>3, ScoreFacts, CandidatesAreFree
<1>5. f \in Frames
  BY <1>1, <1>2, <1>4 DEF Frames, Frame
<1> HIDE DEF f
<1>6. WindowOK(f)
  BY <1>1, <1>2, <1>3, ScoreFacts DEF WindowOK, Window, Greater, Smaller, Least, Most
<1>7. Tried(f) = {}
  BY <1>3 DEF Tried
<1>8. ~Good(n.my, f.best) /\ ~Short(~n.my, n, f.best)
  <2>0. n.alpha \in Int /\ n.beta \in Int /\ Least <= n.alpha /\ n.beta <= Most
    BY <1>1, <1>2, ScoreFacts DEF Window
  <2>1. CASE n.my
    <3>1. f.best = Least /\ n.my = TRUE /\ (~n.my) = FALSE
      BY <2>1, <1>2, <1>3
    <3>2. ~Good(TRUE, Least) /\ ~Below(FALSE, Least, n.alpha)
      BY <2>0, ScoreFacts DEF Below, Good, IsWin, Least
    <3>3. ~Short(FALSE, n, Least)
      BY <3>2 DEF Short, Bound
    <3> QED BY <3>1, <3>2, <3>3
  <2>2. CASE ~n.my
    <3>1. f.best = Most /\ n.my = FALSE /\ (~n.my) = TRUE
      BY <2>2, <1>2, <1>3
    <3>2. ~Good(FALSE, Most) /\ ~Below(TRUE, Most, n.beta)
      BY <2>0, ScoreFacts DEF Below, Good, IsLoss, Most
    <3>3. ~Short(TRUE, n, Most)
      BY <3>2 DEF Short, Bound
    <3> QED BY <3>1, <3>2, <3>3
  <2> QED BY <2>1, <2>2
<1>9. LoopOK(f)
  BY <1>3, <1>7, <1>8 DEF LoopOK
<1>10. FrameOK(f)
  BY <1>3, <1>5, <1>6, <1>9 DEF FrameOK
<1> QED BY <1>10 DEF f

(* How the best value of a loop takes the value of a call, by what each of *)
(* them says.                                                              *)
LEMMA TakenValue ==
  ASSUME NEW f, FrameOK(f), NEW c, NEW v \in Int
  PROVE  LET m == f.node.my
             n == f.node
             child == Child(f, c)
             best == Takes(f, c, v).best
         IN  /\ Good(m, best) => Good(m, f.best) \/ Good(m, v)
             /\ Good(~m, best) => Good(~m, f.best) /\ Good(~m, v)
             /\ Short(~m, n, best) => Short(~m, n, f.best) \/ Short(~m, child, v)
             /\ Short(m, n, best) => Short(m, n, f.best) /\ Short(m, child, v)
<1> DEFINE n == f.node
           child == Child(f, c)
           best == Takes(f, c, v).best
<1>1. /\ n.my \in BOOLEAN /\ n.alpha \in Int /\ n.beta \in Int
      /\ f.best \in Int /\ f.alpha \in Int /\ f.beta \in Int /\ v \in Int
  BY LoopType, ScoreFacts
<1>2. child.alpha = f.alpha /\ child.beta = f.beta
  BY DEF Child
<1>3. WindowOK(f)
  BY DEF FrameOK
<1>4. CASE n.my
  <2>1. best = Greater(f.best, v) /\ f.alpha = Greater(n.alpha, f.best) /\ f.beta = n.beta
    BY <1>3, <1>4 DEF WindowOK, Takes
  <2> HIDE DEF n, child, best
  <2>2. /\ Good(TRUE, best) => Good(TRUE, f.best) \/ Good(TRUE, v)
        /\ Good(FALSE, best) => Good(FALSE, f.best) /\ Good(FALSE, v)
    BY <2>1, <1>1, ScoreFacts DEF Good, IsWin, IsLoss, Greater
  <2>3. Short(FALSE, n, best) => Short(FALSE, n, f.best) \/ Short(FALSE, child, v)
    BY <2>1, <1>1, <1>2, ScoreFacts DEF Short, Below, Bound, Good, IsLoss, Greater
  <2>4. Short(TRUE, n, best) => Short(TRUE, n, f.best) /\ Short(TRUE, child, v)
    BY <2>1, <1>1, <1>2, ScoreFacts DEF Short, Below, Bound, Good, IsWin, Greater
  <2>5. n.my = TRUE /\ (~n.my) = FALSE
    BY <1>4, <1>1
  <2> QED BY <2>2, <2>3, <2>4, <2>5 DEF n, child, best
<1>5. CASE ~n.my
  <2>1. best = Smaller(f.best, v) /\ f.beta = Smaller(n.beta, f.best) /\ f.alpha = n.alpha
    BY <1>3, <1>5 DEF WindowOK, Takes
  <2> HIDE DEF n, child, best
  <2>2. /\ Good(FALSE, best) => Good(FALSE, f.best) \/ Good(FALSE, v)
        /\ Good(TRUE, best) => Good(TRUE, f.best) /\ Good(TRUE, v)
    BY <2>1, <1>1, ScoreFacts DEF Good, IsWin, IsLoss, Smaller
  <2>3. Short(TRUE, n, best) => Short(TRUE, n, f.best) \/ Short(TRUE, child, v)
    BY <2>1, <1>1, <1>2, ScoreFacts DEF Short, Below, Bound, Good, IsWin, Smaller
  <2>4. Short(FALSE, n, best) => Short(FALSE, n, f.best) /\ Short(FALSE, child, v)
    BY <2>1, <1>1, <1>2, ScoreFacts DEF Short, Below, Bound, Good, IsLoss, Smaller
  <2>5. n.my = FALSE /\ (~n.my) = TRUE
    BY <1>5, <1>1
  <2> QED BY <2>2, <2>3, <2>4, <2>5 DEF n, child, best
<1> QED BY <1>4, <1>5

LEMMA TakesIsOK ==
  ASSUME NEW f, FrameOK(f), NEW c \in f.rest, NEW v, Told(Child(f, c), v)
  PROVE  FrameOK(Takes(f, c, v)) /\ Takes(f, c, v).node = f.node
<1> DEFINE n == f.node
           m == n.my
           child == Child(f, c)
           g == Takes(f, c, v)
<1>1. m \in BOOLEAN /\ (~m) \in BOOLEAN /\ ~~m = m /\ v \in Int
  BY LoopType, DoubleNegation DEF Told
<1>2. /\ g.node = n /\ g.rest = f.rest \ {c}
      /\ g.best = (IF m THEN Greater(f.best, v) ELSE Smaller(f.best, v))
      /\ g.alpha = (IF m THEN Greater(f.alpha, v) ELSE f.alpha)
      /\ g.beta = (IF m THEN f.beta ELSE Smaller(f.beta, v))
  BY DEF Takes
<1>3. g.best \in Int /\ g.alpha \in Int /\ g.beta \in Int
  BY <1>1, <1>2, LoopType DEF Greater, Smaller
<1>4. g \in Frames
  <2>1. n \in Nodes /\ f.rest \ {c} \in SUBSET Squares
    BY LoopType
  <2>2. g = [node |-> g.node, best |-> g.best, alpha |-> g.alpha, beta |-> g.beta, rest |-> g.rest]
    BY DEF Takes
  <2> HIDE DEF g
  <2> QED BY <2>1, <2>2, <1>2, <1>3 DEF Frames
<1>5. /\ NodeOK(n) /\ NoLine(n.pos) /\ Candidates(n.pos) # {} /\ n.depth > 0
      /\ f.rest \subseteq Candidates(n.pos) /\ WindowOK(f) /\ LoopOK(f)
  BY DEF FrameOK
<1>6. WindowOK(g)
  <2>1. /\ f.best \in Int /\ f.alpha \in Int /\ f.beta \in Int /\ v \in Int
        /\ n.alpha \in Int /\ n.beta \in Int
    BY <1>1, LoopType, ScoreFacts
  <2> HIDE DEF g, n
  <2>2. CASE m
    BY <1>2, <1>5, <2>1, <2>2, ScoreFacts DEF WindowOK, Greater, n, Least
  <2>3. CASE ~m
    BY <1>2, <1>5, <2>1, <2>3, ScoreFacts DEF WindowOK, Smaller, n, Most
  <2> QED BY <2>2, <2>3
<1>7. /\ Good(m, g.best) => Good(m, f.best) \/ Good(m, v)
      /\ Good(~m, g.best) => Good(~m, f.best) /\ Good(~m, v)
      /\ Short(~m, n, g.best) => Short(~m, n, f.best) \/ Short(~m, child, v)
      /\ Short(m, n, g.best) => Short(m, n, f.best) /\ Short(m, child, v)
  BY <1>1, TakenValue
<1>8. c \in Candidates(n.pos) /\ Tried(g) = Tried(f) \cup {c}
  BY <1>2, <1>5 DEF Tried
<1>9. child.pos = Put(n.pos, c, m) /\ child.my = ~m /\ child.depth = n.depth - 1
  BY DEF Child
<1>10. ASSUME NEW s \in BOOLEAN
       PROVE  /\ Good(s, v) => LeadsTo(s, n, c, Plies)
              /\ Short(s, child, v) => ~LeadsTo(s, n, c, n.depth - 1)
  <2>1. Wins(s, child, v) /\ (Short(s, child, v) => Misses(s, child))
    BY DEF Told
  <2> HIDE DEF child
  <2> QED BY <2>1, <1>9 DEF Wins, Misses, LeadsTo
<1>11. /\ Good(m, f.best) => Forces(m, n.pos, m, Plies)
       /\ Good(~m, f.best) => \A d \in Tried(f) : LeadsTo(~m, n, d, Plies)
       /\ Short(~m, n, f.best)
            => \E d \in Candidates(n.pos) : ~LeadsTo(~m, n, d, n.depth - 1)
       /\ Short(m, n, f.best) => \A d \in Tried(f) : ~LeadsTo(m, n, d, n.depth - 1)
  BY <1>5 DEF LoopOK
<1>12. Good(m, g.best) => Forces(m, n.pos, m, Plies)
  <2>1. Good(m, v) => LeadsTo(m, n, c, Plies)
    BY <1>1, <1>10
  <2>2. Good(m, v) => Forces(m, n.pos, m, Plies)
    <3>1. n.pos \in Positions /\ ~Has(n.pos, ~m)
      BY <1>1, <1>5, LoopType DEF NoLine
    <3> SUFFICES ASSUME LeadsTo(m, n, c, Plies) PROVE Forces(m, n.pos, m, Plies)
      BY <2>1
    <3>2. Forces(m, Put(n.pos, c, m), ~m, Plies)
      BY DEF LeadsTo
    <3> HIDE DEF m, n
    <3> QED BY <3>1, <3>2, <1>1, <1>8, WonByMove
  <2> QED BY <2>2, <1>7, <1>11
<1>13. Good(~m, g.best) => \A d \in Tried(g) : LeadsTo(~m, n, d, Plies)
  <2>1. Good(~m, v) => LeadsTo(~m, n, c, Plies)
    BY <1>1, <1>10
  <2> HIDE DEF m, n, g, child
  <2> QED BY <2>1, <1>7, <1>8, <1>11
<1>14. Short(~m, n, g.best) => \E d \in Candidates(n.pos) : ~LeadsTo(~m, n, d, n.depth - 1)
  <2>1. Short(~m, child, v) => ~LeadsTo(~m, n, c, n.depth - 1)
    BY <1>1, <1>10
  <2> HIDE DEF m, n, g, child
  <2> QED BY <2>1, <1>7, <1>8, <1>11
<1>15. Short(m, n, g.best) => \A d \in Tried(g) : ~LeadsTo(m, n, d, n.depth - 1)
  <2>1. Short(m, child, v) => ~LeadsTo(m, n, c, n.depth - 1)
    BY <1>1, <1>10
  <2> HIDE DEF m, n, g, child
  <2> QED BY <2>1, <1>7, <1>8, <1>11
<1> HIDE DEF g
<1>16. LoopOK(g)
  BY <1>2, <1>12, <1>13, <1>14, <1>15 DEF LoopOK
<1>17. g.rest \subseteq Candidates(n.pos)
  BY <1>2, <1>5
<1>18. FrameOK(g)
  BY <1>2, <1>4, <1>5, <1>6, <1>16, <1>17 DEF FrameOK
<1> QED BY <1>2, <1>18 DEF g

(* The value of a loop that is done.                                       *)
LEMMA LoopIsTold ==
  ASSUME NEW f, FrameOK(f), Done(f)
  PROVE  Told(f.node, f.best)
<1> DEFINE n == f.node
           m == n.my
           v == f.best
<1>1. /\ m \in BOOLEAN /\ (~m) \in BOOLEAN /\ ~~m = m /\ v \in Int /\ n.pos \in Positions
      /\ n.depth \in Nat /\ n.depth - 1 \in Nat /\ (n.depth - 1) + 1 = n.depth
  BY LoopType, DoubleNegation
<1>2. /\ NoLine(n.pos) /\ Candidates(n.pos) # {} /\ WindowOK(f) /\ LoopOK(f)
      /\ Window(n.alpha, n.beta)
  BY LoopType DEF FrameOK
<1>3. ~Has(n.pos, m) /\ ~Has(n.pos, ~m)
  BY <1>1, <1>2 DEF NoLine
<1>4. Good(~m, v) \/ Short(m, n, v) => Tried(f) = Candidates(n.pos)
  <2>1. f.rest = {} => Tried(f) = Candidates(n.pos)
    BY DEF Tried
  <2>2. f.alpha \in Int /\ f.beta \in Int /\ v \in Int /\ n.alpha \in Int /\ n.beta \in Int
    BY <1>1, LoopType, ScoreFacts
  <2>3. ASSUME f.rest # {} PROVE ~Good(~m, v) /\ ~Short(m, n, v)
    <3>1. f.beta <= f.alpha \/ (IF m THEN IsWin(v) ELSE IsLoss(v))
      BY <2>3 DEF Done
    <3>2. CASE m
      <4>1. f.alpha = Greater(n.alpha, v) /\ f.beta = n.beta
        BY <1>2, <3>2 DEF WindowOK
      <4> HIDE DEF n, v
      <4>2. v >= n.beta \/ IsWin(v)
        BY <1>2, <2>2, <3>1, <3>2, <4>1 DEF Window, Greater
      <4>3. ~IsLoss(v) /\ ~(v < n.beta /\ ~IsWin(v))
        BY <4>2, <1>2, <2>2, ScoreFacts DEF Window, IsLoss, IsWin
      <4> QED BY <4>3, <3>2 DEF Good, Short, Below, Bound
    <3>3. CASE ~m
      <4>1. f.alpha = n.alpha /\ f.beta = Smaller(n.beta, v)
        BY <1>2, <3>3 DEF WindowOK
      <4> HIDE DEF n, v
      <4>2. v <= n.alpha \/ IsLoss(v)
        BY <1>2, <2>2, <3>1, <3>3, <4>1 DEF Window, Smaller
      <4>3. ~IsWin(v) /\ ~(n.alpha < v /\ ~IsLoss(v))
        BY <4>2, <1>2, <2>2, ScoreFacts DEF Window, IsLoss, IsWin
      <4> QED BY <4>3, <3>3 DEF Good, Short, Below, Bound
    <3> QED BY <3>2, <3>3
  <2> QED BY <2>1, <2>3
<1>5. /\ Good(m, v) => Forces(m, n.pos, m, Plies)
      /\ Good(~m, v) => \A d \in Tried(f) : LeadsTo(~m, n, d, Plies)
      /\ Short(~m, n, v) => \E d \in Candidates(n.pos) : ~LeadsTo(~m, n, d, n.depth - 1)
      /\ Short(m, n, v) => \A d \in Tried(f) : ~LeadsTo(m, n, d, n.depth - 1)
  BY <1>2 DEF LoopOK
<1>6. \A s \in BOOLEAN : \A d, k : LeadsTo(s, n, d, k) <=> Forces(s, Put(n.pos, d, m), ~m, k)
  BY DEF LeadsTo
<1>7. m # ~m
  BY <1>1
<1> HIDE DEF n, m, v
<1>8. Good(~m, v) => Forces(~m, n.pos, m, Plies)
  <2> SUFFICES ASSUME Good(~m, v) PROVE Forces(~m, n.pos, m, Plies)
    OBVIOUS
  <2>1. \A d \in Candidates(n.pos) : Forces(~m, Put(n.pos, d, m), ~m, Plies)
    BY <1>1, <1>4, <1>5, <1>6
  <2> DEFINE s == ~m
  <2>2. s \in BOOLEAN /\ m # s /\ ~s = m
    BY <1>1
  <2>3. ~Has(n.pos, ~s)
    BY <1>1, <1>3
  <2>4. \A d \in Candidates(n.pos) : Forces(s, Put(n.pos, d, m), ~m, Plies)
    BY <2>1
  <2>5. Forces(s, n.pos, m, Plies)
    <3> HIDE DEF s
    <3> QED BY <2>2, <2>3, <2>4, <1>1, <1>2, WonByReplies
  <2> QED BY <2>5
<1>9. Short(m, n, v) => ~Forces(m, n.pos, m, n.depth)
  <2> SUFFICES ASSUME Short(m, n, v) PROVE ~Forces(m, n.pos, m, (n.depth - 1) + 1)
    BY <1>1
  <2>1. \A d \in Candidates(n.pos) : ~Forces(m, Put(n.pos, d, m), ~m, n.depth - 1)
    BY <1>1, <1>4, <1>5, <1>6
  <2> QED BY <2>1, <1>1, <1>3, OnePlyMore
<1>10. Short(~m, n, v) => ~Forces(~m, n.pos, m, n.depth)
  <2> SUFFICES ASSUME Short(~m, n, v) PROVE ~Forces(~m, n.pos, m, (n.depth - 1) + 1)
    BY <1>1
  <2> DEFINE s == ~m
  <2>1. s \in BOOLEAN /\ m # s
    BY <1>1
  <2>2. \E d \in Candidates(n.pos) : ~Forces(s, Put(n.pos, d, m), ~m, n.depth - 1)
    BY <1>1, <1>5, <1>6
  <2>3. ~Has(n.pos, s)
    BY <1>3
  <2>4. ~Forces(s, n.pos, m, (n.depth - 1) + 1)
    <3> HIDE DEF s
    <3> QED BY <2>1, <2>2, <2>3, <1>1, OnePlyMore
  <2> QED BY <2>4
<1>11. ASSUME NEW s \in BOOLEAN PROVE Wins(s, n, v) /\ (Short(s, n, v) => Misses(s, n))
  <2>1. CASE s = m
    BY <2>1, <1>5, <1>9 DEF Wins, Misses, m
  <2>2. CASE s = ~m
    BY <2>2, <1>8, <1>10 DEF Wins, Misses, m
  <2> QED BY <2>1, <2>2, <1>1, NobodyElse
<1>12. Told(n, v)
  BY <1>1, <1>11 DEF Told
<1> QED BY <1>12 DEF n, v

-----------------------------------------------------------------------------
(* The root and the calls under way, one made by the other. The scores of  *)
(* the root bound what can be forced only if there is a stone in the game: *)
(* before the first move the calls return 0 without a look.                *)
LeadsRoot(p, c, k) == Forces(TRUE, Put(p, c, TRUE), FALSE, k)
LosesRoot(p, c, k) == Forces(FALSE, Put(p, c, TRUE), FALSE, k)
RootOK(r, p) ==
  /\ r \in [depth : 0 .. MaxDepth, rest : SUBSET Candidates(p), best : Int,
            cells : SUBSET Candidates(p), chosen : SUBSET Candidates(p)]
  /\ r.best >= Least
  /\ r.depth = 0 => r.rest = {} /\ r.cells = {} /\ r.best = Least
  /\ r.chosen = {} => r.depth = 0
  /\ r.chosen # {} => NoLine(p)
  /\ IsWin(r.best) => \A c \in r.cells : LeadsRoot(p, c, Plies)
  /\ r.depth > 0 /\ ~IsWin(r.best) /\ Stones(p) # {} =>
       \A c \in Candidates(p) \ r.rest : ~LeadsRoot(p, c, r.depth - 1)
  /\ r.depth > 0 /\ IsLoss(r.best) => \A c \in Candidates(p) \ r.rest : LosesRoot(p, c, Plies)
  /\ ~IsLoss(r.best) => r.cells # {}
  /\ ~IsLoss(r.best) /\ Stones(p) # {} => \A c \in r.cells : ~LosesRoot(p, c, r.depth - 1)
ToldRoot(n, v, p) == Told(n, v) \/ (Stones(p) = {} /\ v = 0)
RootWith(r, c, v) ==
  [depth |-> r.depth, rest |-> r.rest \ {c}, best |-> Greater(r.best, v),
   cells |-> IF v > r.best THEN {c} ELSE IF v = r.best THEN r.cells \cup {c} ELSE r.cells,
   chosen |-> r.chosen]

CalledBy(n, f) == ~Done(f) /\ \E c \in f.rest : n = Child(f, c)
CalledByRoot(n, r, p) ==
  ~IsWin(r.best) /\ \E c \in r.rest : n = NodeAfter(p, c, TRUE, r.depth - 1, Least, Most)
Callee(st, r, p, n) ==
  IF st = <<>> THEN CalledByRoot(n, r, p) ELSE CalledBy(n, st[Len(st)])
StackOK(st, r, p) ==
  /\ st \in Seq(Frames)
  /\ \A i \in 1 .. Len(st) :
       /\ FrameOK(st[i])
       /\ i = 1 => CalledByRoot(st[i].node, r, p)
       /\ i > 1 => CalledBy(st[i].node, st[i - 1])

LEMMA IdleIsOK ==
  ASSUME NEW r, NEW p, RootOK(r, p), r.chosen = {}, NEW q
  PROVE  RootOK(r, q) /\ r.rest = {}
<1>1. r.depth = 0 /\ r.rest = {} /\ r.cells = {} /\ r.best = Least
  BY DEF RootOK
<1>2. r = [depth |-> r.depth, rest |-> r.rest, best |-> r.best, cells |-> r.cells,
       chosen |-> r.chosen]
  BY DEF RootOK
<1>3. r.depth \in 0 .. MaxDepth /\ r.best \in Int /\ r.best >= Least
  BY DEF RootOK
<1>4. r \in [depth : 0 .. MaxDepth, rest : SUBSET Candidates(q), best : Int,
             cells : SUBSET Candidates(q), chosen : SUBSET Candidates(q)]
  BY <1>1, <1>2, <1>3
<1>5. ~(r.depth > 0) /\ IsLoss(r.best)
  BY <1>1, ScoreFacts DEF IsLoss, Least
<1> QED BY <1>1, <1>3, <1>4, <1>5 DEF RootOK

LEMMA RootCallIsOK ==
  ASSUME NEW r, NEW p \in Positions, RootOK(r, p), NEW n, CalledByRoot(n, r, p)
  PROVE  /\ NodeOK(n) /\ r.chosen # {}
         /\ TRUE = Turn(p) => InTurn(n)
<1>1. PICK c \in r.rest : n = NodeAfter(p, c, TRUE, r.depth - 1, Least, Most)
  BY DEF CalledByRoot
<1>2. r.depth \in 0 .. MaxDepth /\ r.depth # 0 /\ r.rest \subseteq Candidates(p) /\ r.chosen # {}
  BY <1>1 DEF RootOK
<1>3. r.depth - 1 \in 0 .. MaxDepth
  BY <1>2, ScoreFacts
<1>4. Window(Least, Most)
  BY ScoreFacts DEF Window, IsWin, IsLoss, Least, Most
<1>5. NoLine(p) /\ c \in Candidates(p)
  BY <1>1, <1>2 DEF RootOK
<1> QED BY <1>1, <1>2, <1>3, <1>4, <1>5, ScoreFacts, NodeOfMove

LEMMA CalleeIsOK ==
  ASSUME NEW r, NEW p \in Positions, RootOK(r, p), NEW st, StackOK(st, r, p),
         NEW n, Callee(st, r, p, n)
  PROVE  /\ NodeOK(n)
         /\ TRUE = Turn(p) /\ (\A i \in 1 .. Len(st) : InTurn(st[i].node)) => InTurn(n)
<1>1. CASE st = <<>>
  BY <1>1, RootCallIsOK DEF Callee
<1>2. CASE st # <<>>
  <2>1. Len(st) \in 1 .. Len(st)
    BY <1>2 DEF StackOK
  <2> DEFINE f == st[Len(st)]
  <2>2. FrameOK(f) /\ CalledBy(n, f)
    BY <2>1, <1>2 DEF StackOK, Callee
  <2>3. PICK c \in f.rest : n = Child(f, c)
    BY <2>2 DEF CalledBy
  <2>4. ~Done(f)
    BY <2>2 DEF CalledBy
  <2>5. NodeOK(n) /\ (InTurn(f.node) => InTurn(n))
    <3> HIDE DEF f
    <3> QED BY <2>2, <2>3, <2>4, ChildIsOK
  <2> QED BY <2>1, <2>5
<1> QED BY <1>1, <1>2

LEMMA RootTakesIsOK ==
  ASSUME NEW r, NEW p \in Positions, RootOK(r, p), NEW n, CalledByRoot(n, r, p),
         NEW v, ToldRoot(n, v, p)
  PROVE  RootOK(RootWith(r, n.last, v), p) /\ RootWith(r, n.last, v).chosen = r.chosen
<1>1. PICK c \in r.rest : n = NodeAfter(p, c, TRUE, r.depth - 1, Least, Most)
  BY DEF CalledByRoot
<1> DEFINE q == RootWith(r, c, v)
<1>2. n.last = c /\ n.pos = Put(p, c, TRUE) /\ n.my = FALSE /\ n.depth = r.depth - 1
       /\ n.beta = Most
  BY <1>1 DEF NodeAfter
<1>3. /\ q.depth = r.depth /\ q.rest = r.rest \ {c} /\ q.best = Greater(r.best, v)
      /\ q.cells = (IF v > r.best THEN {c} ELSE IF v = r.best THEN r.cells \cup {c} ELSE r.cells)
      /\ q.chosen = r.chosen
      /\ q = [depth |-> q.depth, rest |-> q.rest, best |-> q.best, cells |-> q.cells,
          chosen |-> q.chosen]
  BY DEF RootWith
<1>4. /\ r.depth \in 0 .. MaxDepth /\ r.rest \subseteq Candidates(p) /\ r.best \in Int
      /\ r.cells \subseteq Candidates(p) /\ r.chosen \subseteq Candidates(p)
      /\ r.best >= Least /\ ~IsWin(r.best)
  BY DEF RootOK, CalledByRoot
<1>5. r.depth # 0 /\ r.chosen # {} /\ NoLine(p)
  BY <1>1 DEF RootOK
<1>6. v \in Int /\ r.best \in Int
  BY <1>4, ScoreFacts DEF Told, ToldRoot
<1>7. c \in Candidates(p)
  BY <1>4
<1>20. ASSUME ~Told(n, v) PROVE ~IsWin(v) /\ ~IsLoss(v)
  <2>1. v = 0
    BY <1>20 DEF ToldRoot
  <2> QED BY <2>1, ScoreFacts DEF IsWin, IsLoss
<1>21. Stones(p) # {} => Told(n, v)
  BY DEF ToldRoot
<1>8. IsWin(v) => LeadsRoot(p, c, Plies)
  <2>1. Told(n, v) => Wins(TRUE, n, v)
    BY DEF Told
  <2> QED BY <2>1, <1>2, <1>20 DEF Wins, Good, LeadsRoot
<1>9. ~IsWin(v) /\ Stones(p) # {} => ~LeadsRoot(p, c, r.depth - 1)
  <2>1. Stones(p) # {} => (Short(TRUE, n, v) => Misses(TRUE, n))
    BY <1>21 DEF Told
  <2>2. ~IsWin(v) => v < Most
    BY <1>6, ScoreFacts DEF IsWin, Most
  <2> QED BY <2>1, <2>2, <1>2 DEF Short, Below, Bound, Misses, Good, LeadsRoot
<1>16. IsLoss(v) => LosesRoot(p, c, Plies)
  <2>1. Told(n, v) => Wins(FALSE, n, v)
    BY DEF Told
  <2> QED BY <2>1, <1>2, <1>20 DEF Wins, Good, LosesRoot
<1>17. ~IsLoss(v) /\ Stones(p) # {} => ~LosesRoot(p, c, r.depth - 1)
  <2>1. Stones(p) # {} => (Short(FALSE, n, v) => Misses(FALSE, n))
    BY <1>21 DEF Told
  <2>2. ~IsLoss(v) => Least < v
    BY <1>6, ScoreFacts DEF IsLoss, Least
  <2>3. n.alpha = Least
    BY <1>1 DEF NodeAfter
  <2> QED BY <2>1, <2>2, <2>3, <1>2 DEF Short, Below, Bound, Misses, Good, LosesRoot
<1> HIDE DEF q
<1>10. /\ q.best \in Int /\ q.best >= Least /\ q.best \in Int
       /\ IsWin(q.best) => IsWin(v) /\ q.cells = {c}
       /\ ~IsWin(q.best) => ~IsWin(v)
  <2>1. q.best \in Int /\ q.best \in Int /\ q.best >= Least
    BY <1>3, <1>4, <1>6, ScoreFacts DEF Greater, Least
  <2>2. IsWin(q.best) => IsWin(v) /\ v > r.best
    BY <1>3, <1>4, <1>6, ScoreFacts DEF Greater, IsWin
  <2>3. ~IsWin(q.best) => ~IsWin(v)
    BY <1>3, <1>4, <1>6, ScoreFacts DEF Greater, IsWin
  <2> QED BY <2>1, <2>2, <2>3, <1>3
<1>11. q \in [depth : 0 .. MaxDepth, rest : SUBSET Candidates(p), best : Int,
              cells : SUBSET Candidates(p), chosen : SUBSET Candidates(p)]
  <2>1. /\ q.depth \in 0 .. MaxDepth /\ q.rest \in SUBSET Candidates(p) /\ q.best \in Int
        /\ q.cells \in SUBSET Candidates(p) /\ q.chosen \in SUBSET Candidates(p)
    BY <1>3, <1>4, <1>7, <1>10
  <2> QED BY <2>1, <1>3
<1>12. q.depth # 0 /\ q.chosen # {}
  BY <1>3, <1>5
<1>13. IsWin(q.best) => \A d \in q.cells : LeadsRoot(p, d, Plies)
  BY <1>8, <1>10
<1>14. ~IsWin(q.best) /\ Stones(p) # {} =>
         \A d \in Candidates(p) \ q.rest : ~LeadsRoot(p, d, q.depth - 1)
  <2> SUFFICES ASSUME ~IsWin(q.best), Stones(p) # {}, NEW d \in Candidates(p) \ q.rest
               PROVE  ~LeadsRoot(p, d, r.depth - 1)
    BY <1>3
  <2>1. CASE d = c
    BY <2>1, <1>9, <1>10
  <2>2. CASE d # c
    <3>1. d \in Candidates(p) \ r.rest /\ r.depth > 0
      BY <2>2, <1>3, <1>4, <1>5, ScoreFacts
    <3> QED BY <3>1, <1>4 DEF RootOK
  <2> QED BY <2>1, <2>2
<1>18. IsLoss(q.best) => \A d \in Candidates(p) \ q.rest : LosesRoot(p, d, Plies)
  <2> SUFFICES ASSUME IsLoss(q.best), NEW d \in Candidates(p) \ q.rest
               PROVE  LosesRoot(p, d, Plies)
    OBVIOUS
  <2>1. IsLoss(v) /\ IsLoss(r.best)
    BY <1>3, <1>4, <1>6, ScoreFacts DEF Greater, IsLoss
  <2>2. CASE d = c
    BY <2>1, <2>2, <1>16
  <2>3. CASE d # c
    <3>1. d \in Candidates(p) \ r.rest /\ r.depth > 0
      BY <2>3, <1>3, <1>4, <1>5, ScoreFacts
    <3> QED BY <3>1, <2>1 DEF RootOK
  <2> QED BY <2>2, <2>3
<1>19. /\ ~IsLoss(q.best) => q.cells # {}
       /\ ~IsLoss(q.best) /\ Stones(p) # {} => \A d \in q.cells : ~LosesRoot(p, d, q.depth - 1)
  <2>1. /\ ~IsLoss(r.best) => r.cells # {}
        /\ ~IsLoss(r.best) /\ Stones(p) # {} => \A d \in r.cells : ~LosesRoot(p, d, r.depth - 1)
    BY DEF RootOK
  <2>2. CASE v > r.best
    <3>1. q.best = v /\ q.cells = {c}
      BY <2>2, <1>3, <1>6 DEF Greater
    <3> QED BY <3>1, <1>3, <1>17
  <2>3. CASE v = r.best
    <3>1. q.best = r.best /\ q.cells = r.cells \cup {c}
      BY <2>3, <1>3, <1>6 DEF Greater
    <3> QED BY <2>3, <3>1, <2>1, <1>3, <1>17
  <2>4. CASE v < r.best
    <3>1. q.best = r.best /\ q.cells = r.cells
      BY <2>4, <1>3, <1>6 DEF Greater
    <3> QED BY <3>1, <2>1, <1>3
  <2> QED BY <2>2, <2>3, <2>4, <1>6
<1>15. RootOK(q, p)
  BY <1>5, <1>10, <1>11, <1>12, <1>13, <1>14, <1>18, <1>19 DEF RootOK
<1> QED BY <1>2, <1>3, <1>15 DEF q

LEMMA PushIsOK ==
  ASSUME NEW st, NEW r, NEW p, StackOK(st, r, p), NEW f, FrameOK(f), Callee(st, r, p, f.node)
  PROVE  StackOK(Append(st, f), r, p)
<1> DEFINE t == Append(st, f)
<1>1. st \in Seq(Frames) /\ f \in Frames
  BY DEF StackOK, FrameOK
<1>2. /\ t \in Seq(Frames) /\ Len(t) = Len(st) + 1 /\ Len(st) \in Nat
      /\ \A i \in 1 .. Len(st) : t[i] = st[i]
      /\ t[Len(st) + 1] = f
  BY <1>1
<1> HIDE DEF t
<1>3. ASSUME NEW i \in 1 .. Len(t)
      PROVE  /\ FrameOK(t[i])
             /\ i = 1 => CalledByRoot(t[i].node, r, p)
             /\ i > 1 => CalledBy(t[i].node, t[i - 1])
  <2>1. CASE i = Len(st) + 1
    <3>1. t[i] = f
      BY <2>1, <1>2
    <3>2. i = 1 => st = <<>>
      BY <2>1, <1>1
    <3>3. i > 1 => st # <<>> /\ i - 1 = Len(st) /\ i - 1 \in 1 .. Len(st)
      BY <2>1, <1>1, <1>2
    <3>4. i > 1 => t[i - 1] = st[Len(st)]
      BY <3>3, <1>2
    <3> QED BY <3>1, <3>2, <3>3, <3>4 DEF Callee
  <2>2. CASE i # Len(st) + 1
    <3>1. i \in 1 .. Len(st) /\ (i > 1 => i - 1 \in 1 .. Len(st))
      BY <2>2, <1>2
    <3>2. t[i] = st[i] /\ (i > 1 => t[i - 1] = st[i - 1])
      BY <3>1, <1>2
    <3> QED BY <3>1, <3>2 DEF StackOK
  <2> QED BY <2>1, <2>2
<1>4. StackOK(t, r, p)
  BY <1>2, <1>3 DEF StackOK
<1> QED BY <1>4 DEF t

LEMMA FrontFacts ==
  ASSUME NEW S, NEW s \in Seq(S), NEW k \in 0 .. Len(s)
  PROVE  /\ SubSeq(s, 1, k) \in Seq(S) /\ Len(SubSeq(s, 1, k)) = k
         /\ \A i \in 1 .. k : i \in 1 .. Len(s) /\ SubSeq(s, 1, k)[i] = s[i]
<1>1. Len(s) \in Nat /\ k \in Int /\ k >= 0 /\ \A i \in 1 .. k : i \in 1 .. Len(s) /\ s[i] \in S
  OBVIOUS
<1>2. /\ SubSeq(s, 1, k) \in Seq(S)
      /\ Len(SubSeq(s, 1, k)) = (IF 1 <= k THEN k - 1 + 1 ELSE 0)
      /\ \A i \in 1 .. k - 1 + 1 : SubSeq(s, 1, k)[i] = s[1 + i - 1]
  BY <1>1, SubSeqProperties
<1>3. (IF 1 <= k THEN k - 1 + 1 ELSE 0) = k /\ 1 .. k - 1 + 1 = 1 .. k
  BY <1>1
<1>4. \A i \in 1 .. k : 1 + i - 1 = i
  OBVIOUS
<1> QED BY <1>1, <1>2, <1>3, <1>4

LEMMA PopIsOK ==
  ASSUME NEW st, NEW r, NEW p, StackOK(st, r, p), st # <<>>
  PROVE  LET t == SubSeq(st, 1, Len(st) - 1)
         IN  /\ StackOK(t, r, p) /\ Callee(t, r, p, st[Len(st)].node) /\ FrameOK(st[Len(st)])
             /\ Len(t) = Len(st) - 1 /\ \A i \in 1 .. Len(t) : i \in 1 .. Len(st) /\ t[i] = st[i]
<1> DEFINE t == SubSeq(st, 1, Len(st) - 1)
<1>1. st \in Seq(Frames) /\ Len(st) \in Nat /\ Len(st) >= 1
  BY DEF StackOK
<1>2. /\ t \in Seq(Frames) /\ Len(t) = Len(st) - 1
      /\ \A i \in 1 .. Len(t) : i \in 1 .. Len(st) /\ t[i] = st[i]
  <2> DEFINE k == Len(st) - 1
  <2>1. k \in 0 .. Len(st) /\ t = SubSeq(st, 1, k)
    BY <1>1
  <2> HIDE DEF k, t
  <2>2. t \in Seq(Frames) /\ Len(t) = k /\ \A i \in 1 .. k : i \in 1 .. Len(st) /\ t[i] = st[i]
    BY <2>1, <1>1, FrontFacts
  <2> QED BY <2>2 DEF k
<1> HIDE DEF t
<1>3. \A i \in 1 .. Len(t) : i > 1 => i - 1 \in 1 .. Len(t)
  BY <1>1, <1>2
<1>4. StackOK(t, r, p)
  BY <1>2, <1>3 DEF StackOK
<1>5. FrameOK(st[Len(st)]) /\ Len(st) \in 1 .. Len(st)
  BY <1>1 DEF StackOK
<1>6. Callee(t, r, p, st[Len(st)].node)
  <2>1. CASE Len(st) = 1
    <3>1. t = <<>>
      BY <2>1, <1>2
    <3> QED BY <3>1, <2>1, <1>5 DEF StackOK, Callee
  <2>2. CASE Len(st) # 1
    <3>1. t # <<>> /\ Len(st) > 1 /\ Len(t) \in 1 .. Len(t)
      BY <2>2, <1>1, <1>2
    <3>2. t[Len(t)] = st[Len(st) - 1]
      BY <3>1, <1>2
    <3> QED BY <3>1, <3>2, <1>5 DEF StackOK, Callee
  <2> QED BY <2>1, <2>2
<1> QED BY <1>2, <1>4, <1>5, <1>6 DEF t

WithTop(st, c, v) == [st EXCEPT ![Len(st)] = Takes(@, c, v)]

LEMMA ReturnedIsOK ==
  ASSUME NEW st, NEW r, NEW p, StackOK(st, r, p), st # <<>>, NEW n, Callee(st, r, p, n),
         NEW v, Told(n, v)
  PROVE  LET t == WithTop(st, n.last, v)
         IN  /\ StackOK(t, r, p) /\ Len(t) = Len(st)
             /\ \A i \in 1 .. Len(st) : t[i].node = st[i].node
<1> DEFINE k == Len(st)
           f == st[k]
           t == WithTop(st, n.last, v)
<1>1. st \in Seq(Frames) /\ k \in Nat /\ k \in 1 .. k
  BY DEF StackOK
<1>2. FrameOK(f) /\ CalledBy(n, f)
  BY <1>1 DEF StackOK, Callee
<1>3. PICK c \in f.rest : n = Child(f, c)
  BY <1>2 DEF CalledBy
<1>4. n.last = c
  BY <1>3 DEF Child
<1> DEFINE g == Takes(f, n.last, v)
<1>5. FrameOK(g) /\ g.node = f.node
  <2> HIDE DEF f
  <2> QED BY <1>2, <1>3, <1>4, TakesIsOK
<1>6. g \in Frames
  BY <1>5 DEF FrameOK
<1>7. /\ t \in Seq(Frames) /\ Len(t) = k
      /\ \A i \in 1 .. k : i # k => t[i] = st[i]
      /\ t[k] = g
  <2>1. t = [st EXCEPT ![k] = g]
    BY DEF WithTop
  <2> HIDE DEF g, t, f
  <2> QED BY <2>1, <1>1, <1>6
<1> HIDE DEF t, g, f, k
<1>8. \A i \in 1 .. k : t[i].node = st[i].node /\ FrameOK(t[i])
  BY <1>5, <1>7 DEF StackOK, f, k
<1>9. \A i \in 1 .. k : i > 1 => i - 1 \in 1 .. k /\ i - 1 # k
  BY <1>1
<1>10. \A i \in 1 .. k : i > 1 => t[i - 1] = st[i - 1]
  BY <1>7, <1>9
<1>11. StackOK(t, r, p)
  BY <1>7, <1>8, <1>10 DEF StackOK, k
<1> QED BY <1>7, <1>8, <1>11 DEF t, k

-----------------------------------------------------------------------------
(* The game: every move of the history is on a cell of its own, so that the*)
(* number of stones tells whose turn it is.                                *)
MovesOK ==
  /\ moves \in Seq(Squares) /\ engineX \in BOOLEAN
  /\ \A i, j \in 1 .. Len(moves) : moves[i] = moves[j] => i = j

LEMMA BoardFacts ==
  ASSUME MovesOK
  PROVE  /\ Board \in Positions /\ Stones(Board) = {moves[i] : i \in 1 .. Len(moves)}
         /\ Turn(Board) = EngineToMove /\ EngineToMove \in BOOLEAN
         /\ Own(Board, TRUE) = Mine /\ Own(Board, FALSE) = Theirs
<1> DEFINE n == Len(moves)
<1>1. moves \in [1 .. n -> Squares] /\ n \in Nat /\ DOMAIN moves = 1 .. n
  BY DEF MovesOK
<1>2. Mine \subseteq Squares /\ Theirs \subseteq Squares
  BY <1>1 DEF Mine, Theirs
<1>3. Mine \cap Theirs = {}
  BY <1>1 DEF Mine, Theirs, MovesOK
<1>4. Board.mine = Mine /\ Board.theirs = Theirs
  BY DEF Board
<1>5. Board \in Positions
  BY <1>2, <1>3 DEF Board, Positions
<1>6. Stones(Board) = {moves[i] : i \in 1 .. n}
  BY <1>1, <1>4 DEF Stones, Mine, Theirs
<1>7. Cardinality(Stones(Board)) = n
  <2> DEFINE f == [i \in 1 .. n |-> moves[i]]
             T == Stones(Board)
  <2>1. f \in [1 .. n -> T] /\ \A i \in 1 .. n : f[i] = moves[i]
    BY <1>6
  <2>2. \A i, j \in 1 .. n : f[i] = f[j] => i = j
    BY DEF MovesOK
  <2>3. \A t \in T : \E i \in 1 .. n : f[i] = t
    BY <1>6
  <2> HIDE DEF f, T
  <2>4. f \in Bijection(1 .. n, T)
    BY <2>1, <2>2, <2>3 DEF Bijection, Injection, Surjection, IsInjective
  <2>5. ExistsBijection(1 .. n, T)
    BY <2>4 DEF ExistsBijection
  <2>7. Cardinality(T) = n
    <3> HIDE DEF n
    <3> QED BY <1>1, <2>5, FS_CountingElements
  <2> QED BY <2>7 DEF T
<1>8. Turn(Board) = EngineToMove
  BY <1>7 DEF Turn, EngineToMove
<1>9. EngineToMove \in BOOLEAN
  BY DEF EngineToMove, My
<1> QED BY <1>4, <1>5, <1>6, <1>8, <1>9 DEF Own

LEMMA SameBoard ==
  ASSUME moves' = moves, engineX' = engineX
  PROVE  Board' = Board /\ EngineToMove' = EngineToMove
BY DEF Board, Mine, Theirs, EngineToMove, My

LEMMA BoardAfterPlay ==
  ASSUME MovesOK, NEW c \in Squares \ Stones(Board), moves' = Append(moves, c), engineX' = engineX
  PROVE  /\ MovesOK' /\ Len(moves') = Len(moves) + 1
         /\ Board' = Put(Board, c, EngineToMove) /\ EngineToMove' = ~EngineToMove
<1> DEFINE n == Len(moves)
<1>1. moves \in Seq(Squares) /\ n \in Nat /\ engineX \in BOOLEAN
  BY DEF MovesOK
<1>2. /\ moves' \in Seq(Squares) /\ Len(moves') = n + 1
      /\ \A i \in 1 .. n : moves'[i] = moves[i]
      /\ moves'[n + 1] = c
      /\ DOMAIN moves' = 1 .. n + 1 /\ DOMAIN moves = 1 .. n
  BY <1>1
<1>3. \A i \in 1 .. n : moves[i] # c
  BY BoardFacts
<1>4. 1 .. n + 1 = 1 .. n \cup {n + 1}
  BY <1>1
<1>5. MovesOK'
  <2>1. ASSUME NEW i \in 1 .. n + 1, NEW j \in 1 .. n + 1, moves'[i] = moves'[j] PROVE i = j
    BY <2>1, <1>2, <1>3, <1>4 DEF MovesOK
  <2> QED BY <1>1, <1>2, <2>1 DEF MovesOK
<1>6. \A i : My(i)' <=> My(i)
  BY DEF My
<1>7. EngineToMove <=> My(n + 1)
  BY DEF EngineToMove
<1>8. EngineToMove' <=> ~EngineToMove
  BY <1>1, <1>2 DEF EngineToMove, My
<1>9. Mine' = IF EngineToMove THEN Mine \cup {c} ELSE Mine
  <2>1. Mine' = {moves'[i] : i \in {j \in 1 .. n + 1 : My(j)}}
    BY <1>2, <1>6 DEF Mine
  <2>2. Mine = {moves[i] : i \in {j \in 1 .. n : My(j)}}
    BY <1>2 DEF Mine
  <2> QED BY <2>1, <2>2, <1>2, <1>4, <1>7
<1>10. Theirs' = IF EngineToMove THEN Theirs ELSE Theirs \cup {c}
  <2>1. Theirs' = {moves'[i] : i \in {j \in 1 .. n + 1 : ~My(j)}}
    BY <1>2, <1>6 DEF Theirs
  <2>2. Theirs = {moves[i] : i \in {j \in 1 .. n : ~My(j)}}
    BY <1>2 DEF Theirs
  <2> QED BY <2>1, <2>2, <1>2, <1>4, <1>7
<1>11. Board' = Put(Board, c, EngineToMove)
  BY <1>9, <1>10 DEF Board, Put
<1> QED BY <1>2, <1>5, <1>8, <1>11

LEMMA MovesTakenBack ==
  ASSUME MovesOK, Len(moves) >= 2, moves' = SubSeq(moves, 1, Len(moves) - 2), engineX' = engineX
  PROVE  /\ MovesOK' /\ Len(moves') = Len(moves) - 2
         /\ EngineToMove' = EngineToMove
<1> DEFINE k == Len(moves) - 2
<1>1. moves \in Seq(Squares) /\ Len(moves) \in Nat /\ engineX \in BOOLEAN
  BY DEF MovesOK
<1>2. k \in 0 .. Len(moves) /\ moves' = SubSeq(moves, 1, k)
  BY <1>1
<1>3. Len(moves) = k + 2
  BY <1>1
<1> HIDE DEF k
<1>4. /\ moves' \in Seq(Squares) /\ Len(moves') = k
      /\ \A i \in 1 .. k : i \in 1 .. Len(moves) /\ moves'[i] = moves[i]
  BY <1>1, <1>2, FrontFacts
<1>5. MovesOK'
  BY <1>1, <1>4 DEF MovesOK
<1>6. EngineToMove' = EngineToMove
  BY <1>1, <1>2, <1>3, <1>4 DEF EngineToMove, My
<1> QED BY <1>4, <1>5, <1>6 DEF k

-----------------------------------------------------------------------------
(* The inductive invariant: as long as nothing misled the search, what     *)
(* the engine said of its last move, the search under way and every entry  *)
(* of the table are right.                                                 *)
SaidNothing == Len(moves) = (IF EngineToMove THEN 1 ELSE 0) => status = "none"
GameInv == MovesOK /\ SaidNothing /\ WinIsForced

TurnsOK == \A i \in 1 .. Len(stack) : InTurn(stack[i].node)
SearchInv ==
  /\ timedOut = FALSE
  /\ RootOK(root, Board) /\ (Searching => EngineToMove)
  /\ StackOK(stack, root, Board) /\ TurnsOK
  /\ moves = <<>> => stack = <<>>

TableInv ==
  /\ DOMAIN table \subseteq Positions
  /\ \A p \in DOMAIN table : table[p] \in Entries /\ Sound(p, table[p])

Right == GameInv /\ SearchInv /\ TableInv
IInv == misled \/ Right

LEMMA NoCallsAtRest ==
  ASSUME SearchInv, ~Searching
  PROVE  stack = <<>> /\ root.rest = {} /\ root.chosen = {} /\ timedOut = FALSE
<1>1. RootOK(root, Board) /\ StackOK(stack, root, Board) /\ root.chosen = {} /\ timedOut = FALSE
  BY DEF SearchInv, Searching
<1>2. root.rest = {}
  BY <1>1, IdleIsOK
<1>3. stack \in Seq(Frames)
  BY <1>1 DEF StackOK
<1>4. ASSUME stack # <<>> PROVE FALSE
  <2>1. 1 \in 1 .. Len(stack)
    BY <1>3, <1>4
  <2>2. CalledByRoot(stack[1].node, root, Board)
    BY <1>1, <2>1 DEF StackOK
  <2> QED BY <2>2, <1>2 DEF CalledByRoot
<1> QED BY <1>1, <1>2, <1>4

LEMMA EmptyStackIsOK ==
  ASSUME NEW r, NEW p
  PROVE  StackOK(<<>>, r, p)
BY DEF StackOK

LEMMA SearchAtRest ==
  ASSUME root'.chosen = {}, RootOK(root', Board'), stack' = <<>>, timedOut' = FALSE
  PROVE  SearchInv'
<1>1. StackOK(stack', root', Board')
  BY EmptyStackIsOK
<1>2. TurnsOK'
  BY DEF TurnsOK
<1> QED BY <1>1, <1>2 DEF SearchInv, Searching

LEMMA IdleRoot ==
  ASSUME NEW p
  PROVE  RootOK(Idle, p) /\ Idle.chosen = {}
<1>1. ~IsWin(Least) /\ IsLoss(Least) /\ 0 \in 0 .. MaxDepth
  BY ScoreFacts DEF IsWin, IsLoss, Least
<1>2. Least >= Least
  BY ScoreFacts DEF Least
<1>3. Idle \in [depth : 0 .. MaxDepth, rest : SUBSET Candidates(p), best : Int,
                cells : SUBSET Candidates(p), chosen : SUBSET Candidates(p)]
  BY <1>1, ScoreFacts DEF Idle
<1> QED BY <1>1, <1>2, <1>3 DEF RootOK, Idle

LEMMA SoundStays ==
  ASSUME engineX' = engineX, NEW p, NEW e
  PROVE  Turn(p)' = Turn(p) /\ (Sound(p, e)' <=> Sound(p, e))
<1>1. Turn(p)' = Turn(p)
  BY DEF Turn, My
<1> QED BY <1>1 DEF Sound

LEMMA TableStays ==
  ASSUME TableInv, engineX' = engineX, table' = table
  PROVE  TableInv'
<1>1. \A p \in DOMAIN table : Sound(p, table[p])'
  <2> SUFFICES ASSUME NEW p \in DOMAIN table PROVE Sound(p, table[p])'
    OBVIOUS
  <2>1. Turn(p)' = Turn(p)
    BY DEF Turn, My
  <2>2. Sound(p, table[p])
    BY DEF TableInv
  <2> QED BY <2>1, <2>2 DEF Sound
<1> QED BY <1>1 DEF TableInv

LEMMA StoreIsSound ==
  ASSUME TableInv, engineX' = engineX, NEW n, n.pos \in Positions, NEW v, NEW flag,
         Entry(n, v, flag) \in Entries, Sound(n.pos, Entry(n, v, flag)),
         Store(n.pos, v, n.depth, flag)
  PROVE  TableInv'
<1> DEFINE e == Entry(n, v, flag)
           p == n.pos
<1>1. \/ /\ p \notin DOMAIN table
         /\ table' = [q \in DOMAIN table \cup {p} |-> IF q = p THEN e ELSE table[q]]
      \/ /\ p \in DOMAIN table
         /\ table' = [table EXCEPT ![p] = e] \/ table' = table
  BY DEF Store, Entry
<1> HIDE DEF e, p
<1>2. DOMAIN table' \subseteq DOMAIN table \cup {p}
  BY <1>1
<1>3. \A q \in DOMAIN table' : (table'[q] = e /\ q = p) \/ (q \in DOMAIN table
       /\ table'[q] = table[q])
  BY <1>1
<1>4. \A q \in DOMAIN table' : table'[q] \in Entries /\ Sound(q, table'[q])
  <2> SUFFICES ASSUME NEW q \in DOMAIN table' PROVE table'[q] \in Entries /\ Sound(q, table'[q])
    OBVIOUS
  <2>1. e \in Entries /\ Sound(p, e)
    BY DEF e, p
  <2>2. CASE table'[q] = e /\ q = p
    BY <2>1, <2>2
  <2>3. CASE q \in DOMAIN table /\ table'[q] = table[q]
    BY <2>3 DEF TableInv
  <2> QED BY <1>3, <2>2, <2>3
<1>5. \A q \in DOMAIN table' : Sound(q, table[q])'
  <2> SUFFICES ASSUME NEW q \in DOMAIN table' PROVE Sound(q, table[q])'
    OBVIOUS
  <2>1. Turn(q)' = Turn(q)
    BY DEF Turn, My
  <2>2. Sound(q, table'[q])
    BY <1>4
  <2> QED BY <2>1, <2>2 DEF Sound
<1>6. DOMAIN table' \subseteq Positions
  BY <1>2 DEF TableInv, p
<1> QED BY <1>4, <1>5, <1>6 DEF TableInv

LEMMA InitIsRight ==
  ASSUME Init
  PROVE  Right
<1>1. moves = <<>> /\ engineX \in BOOLEAN /\ status = "none" /\ table = <<>> /\ root = Idle
       /\ stack = <<>> /\ timedOut = FALSE
  BY DEF Init
<1>2. MovesOK
  BY <1>1 DEF MovesOK
<1>3. SaidNothing /\ WinIsForced
  BY <1>1 DEF SaidNothing, WinIsForced
<1>4. SearchInv
  BY <1>1, IdleRoot, EmptyStackIsOK DEF SearchInv, Searching, TurnsOK
<1>5. TableInv
  BY <1>1 DEF TableInv
<1> QED BY <1>2, <1>3, <1>4, <1>5 DEF Right, GameInv

-----------------------------------------------------------------------------
(* The steps inside the search.                                            *)
LEMMA CalledIsCallee ==
  ASSUME SearchInv, MovesOK, NEW n \in Called
  PROVE  Callee(stack, root, Board, n) /\ NodeOK(n) /\ InTurn(n)
<1>1. Callee(stack, root, Board, n)
  <2>1. CASE stack = <<>>
    <3>1. PICK c \in Foremost(Board, root.rest) : n = RootChild(c) /\ ~IsWin(root.best)
      BY <2>1 DEF Called
    <3>2. n = NodeAfter(Board, c, TRUE, root.depth - 1, Least, Most) /\ c \in root.rest
      BY <3>1 DEF RootChild, NodeAfter, Foremost
    <3> QED BY <2>1, <3>1, <3>2 DEF Callee, CalledByRoot
  <2>2. CASE stack # <<>>
    <3> DEFINE f == stack[Len(stack)]
    <3>1. PICK c \in Foremost(f.node.pos, f.rest) : n = Child(f, c) /\ ~Done(f)
      BY <2>2 DEF Called
    <3>2. c \in f.rest
      BY <3>1 DEF Foremost
    <3> QED BY <2>2, <3>1, <3>2 DEF Callee, CalledBy
  <2> QED BY <2>1, <2>2
<1>2. RootOK(root, Board) /\ StackOK(stack, root, Board) /\ Board \in Positions
  BY BoardFacts DEF SearchInv
<1>3. NodeOK(n)
  BY <1>1, <1>2, CalleeIsOK
<1>4. Searching
  <2>1. ASSUME ~Searching PROVE FALSE
    BY <2>1, <1>1, NoCallsAtRest DEF Callee, CalledByRoot
  <2> QED BY <2>1
<1>5. TRUE = Turn(Board)
  BY <1>4, BoardFacts DEF SearchInv
<1>6. \A i \in 1 .. Len(stack) : InTurn(stack[i].node)
  BY DEF SearchInv, TurnsOK
<1>7. InTurn(n)
  BY <1>1, <1>2, <1>5, <1>6, CalleeIsOK
<1> QED BY <1>1, <1>3, <1>7

LEMMA NoStoneYet ==
  ASSUME MovesOK
  PROVE  moves = <<>> <=> Stones(Board) = {}
<1>1. Stones(Board) = {moves[i] : i \in 1 .. Len(moves)} /\ moves \in Seq(Squares)
  BY BoardFacts DEF MovesOK
<1>2. CASE moves = <<>>
  BY <1>1, <1>2
<1>3. CASE moves # <<>>
  <2>1. 1 \in 1 .. Len(moves)
    BY <1>1, <1>3
  <2> QED BY <2>1, <1>1, <1>3
<1> QED BY <1>2, <1>3

LEMMA ReturnIsRight ==
  ASSUME SearchInv, MovesOK, UNCHANGED <<gameVars, timedOut>>,
         NEW st, StackOK(st, root, Board), \A i \in 1 .. Len(st) : InTurn(st[i].node),
         moves = <<>> => st = <<>>,
         NEW n, Callee(st, root, Board, n), NEW v, Return(st, n.last, v),
         Told(n, v) \/ (moves = <<>> /\ v = 0)
  PROVE  SearchInv'
<1>1. Board' = Board /\ EngineToMove' = EngineToMove /\ timedOut' = FALSE /\ engineX' = engineX
  BY SameBoard DEF gameVars, SearchInv
<1>2. RootOK(root, Board) /\ (root.chosen # {} => EngineToMove) /\ Board \in Positions
  BY BoardFacts DEF SearchInv, Searching
<1>3. CASE st = <<>>
  <2>1. root' = RootTakes(n.last, v) /\ stack' = <<>>
    BY <1>3 DEF Return
  <2>2. root' = RootWith(root, n.last, v)
    BY <2>1 DEF RootTakes, RootWith
  <2>3. CalledByRoot(n, root, Board)
    BY <1>3 DEF Callee
  <2>6. ToldRoot(n, v, Board)
    BY NoStoneYet DEF ToldRoot
  <2>4. RootOK(root', Board') /\ root'.chosen = root.chosen
    BY <1>1, <1>2, <2>2, <2>3, <2>6, RootTakesIsOK
  <2>5. StackOK(stack', root', Board') /\ TurnsOK'
    BY <2>1, EmptyStackIsOK DEF TurnsOK
  <2> QED BY <1>1, <1>2, <2>1, <2>4, <2>5 DEF SearchInv, Searching
<1>4. CASE st # <<>>
  <2>1. stack' = WithTop(st, n.last, v) /\ root' = root
    BY <1>4 DEF Return, WithTop
  <2>4. Told(n, v) /\ moves' # <<>>
    BY <1>4 DEF gameVars
  <2>2. /\ StackOK(stack', root', Board') /\ Len(stack') = Len(st)
        /\ \A i \in 1 .. Len(st) : stack'[i].node = st[i].node
    BY <1>1, <1>4, <2>1, <2>4, ReturnedIsOK
  <2>3. TurnsOK'
    <3> SUFFICES ASSUME NEW i \in 1 .. Len(stack') PROVE InTurn(stack[i].node)'
      BY DEF TurnsOK
    <3>1. InTurn(st[i].node) /\ stack'[i].node = st[i].node
      BY <2>2
    <3>2. Turn(stack[i].node.pos)' = Turn(stack'[i].node.pos)
      BY <1>1 DEF Turn, My
    <3> QED BY <3>1, <3>2 DEF InTurn
  <2> QED BY <1>1, <1>2, <2>1, <2>2, <2>3, <2>4 DEF SearchInv, Searching
<1> QED BY <1>3, <1>4

LEMMA CallReturns ==
  ASSUME SearchInv, MovesOK, UNCHANGED <<gameVars, timedOut>>,
         NEW n \in Called, NEW v, Return(stack, n.last, v),
         Told(n, v) \/ (moves = <<>> /\ v = 0)
  PROVE  SearchInv'
<1>1. Callee(stack, root, Board, n)
  BY CalledIsCallee
<1>2. /\ StackOK(stack, root, Board) /\ \A i \in 1 .. Len(stack) : InTurn(stack[i].node)
      /\ moves = <<>> => stack = <<>>
  BY DEF SearchInv, TurnsOK
<1> QED BY <1>1, <1>2, ReturnIsRight

LEMMA GameStays ==
  ASSUME GameInv, UNCHANGED gameVars
  PROVE  GameInv'
<1>1. moves' = moves /\ engineX' = engineX /\ status' = status
  BY DEF gameVars
<1>2. Board' = Board /\ EngineToMove' = EngineToMove
  BY <1>1, SameBoard
<1> QED BY <1>1, <1>2 DEF GameInv, MovesOK, SaidNothing, WinIsForced

LEMMA RecallIsRight ==
  ASSUME Right, NEW n \in Called, Recall(n)
  PROVE  Right'
<1>1. /\ GameInv /\ SearchInv /\ TableInv /\ MovesOK
      /\ UNCHANGED <<gameVars, timedOut>> /\ engineX' = engineX /\ table' = table
  BY DEF Right, GameInv, Recall, gameVars, clockVars
<1>2. NodeOK(n) /\ InTurn(n)
  BY <1>1, CalledIsCallee
<1> DEFINE e == table[n.pos]
<1>3. e \in Entries /\ Sound(n.pos, e) /\ Fits(e, n)
  BY <1>1 DEF Recall, Answers, TableInv, Fits
<1>4. Told(n, e.value)
  <2> HIDE DEF e
  <2> QED BY <1>2, <1>3, RecalledIsTold
<1>5. SearchInv'
  BY <1>1, <1>4, CallReturns DEF Recall
<1> QED BY <1>1, <1>5, GameStays, TableStays DEF Right

LEMMA ExactIsRight ==
  ASSUME Right, NEW n \in Called, NEW v, Exactly(n, v), Store(n.pos, v, n.depth, "exact"),
         Return(stack, n.last, v), UNCHANGED <<gameVars, timedOut>>
  PROVE  Right'
<1>1. /\ GameInv /\ SearchInv /\ TableInv /\ MovesOK
      /\ UNCHANGED <<gameVars, timedOut>> /\ engineX' = engineX
  BY DEF Right, GameInv, gameVars
<1>2. NodeOK(n) /\ InTurn(n) /\ n.pos \in Positions
  BY <1>1, CalledIsCallee DEF NodeOK, Nodes
<1>3. SearchInv'
  BY <1>1, ExactIsTold, CallReturns
<1>4. Entry(n, v, "exact") \in Entries /\ Sound(n.pos, Entry(n, v, "exact"))
  BY <1>2, ExactIsSound
<1>5. TableInv'
  BY <1>1, <1>2, <1>4, StoreIsSound
<1> QED BY <1>1, <1>3, <1>5, GameStays DEF Right

LEMMA SeeFiveIsRight ==
  ASSUME Right, NEW n \in Called, SeeFive(n)
  PROVE  Right'
<1>1. NodeOK(n)
  BY CalledIsCallee DEF Right, GameInv
<1>2. Exactly(n, FiveScore(n))
  BY <1>1, FiveIsExact DEF SeeFive
<1> QED BY <1>2, ExactIsRight DEF SeeFive, clockVars

LEMMA ScoreIsRight ==
  ASSUME Right, NEW n \in Called, Score(n), Modest(Evaluate(n.pos, n.last))
  PROVE  Right'
<1>1. NodeOK(n)
  BY CalledIsCallee DEF Right, GameInv
<1>2. n.depth = 0 /\ Exactly(n, Evaluate(n.pos, n.last))
  BY <1>1, ScoreIsExact DEF Score
<1>3. Store(n.pos, Evaluate(n.pos, n.last), n.depth, "exact")
  BY <1>2 DEF Score
<1> QED BY <1>2, <1>3, ExactIsRight DEF Score

LEMMA SeeFullIsRight ==
  ASSUME Right, NEW n \in Called, SeeFull(n)
  PROVE  Right'
<1>1. /\ GameInv /\ SearchInv /\ TableInv /\ MovesOK
      /\ UNCHANGED <<gameVars, timedOut>> /\ engineX' = engineX /\ table' = table
  BY DEF Right, GameInv, SeeFull, gameVars, clockVars
<1>2. NodeOK(n)
  BY <1>1, CalledIsCallee
<1>3. Told(n, 0) \/ moves = <<>>
  BY <1>2, FullIsExact, ExactIsTold DEF SeeFull, SeesNothing
<1>4. SearchInv'
  BY <1>1, <1>3, CallReturns DEF SeeFull
<1> QED BY <1>1, <1>4, GameStays, TableStays DEF Right

LEMMA EnterIsRight ==
  ASSUME Right, NEW n \in Called, Enter(n)
  PROVE  Right'
<1>1. /\ GameInv /\ SearchInv /\ TableInv /\ MovesOK
      /\ UNCHANGED gameVars /\ engineX' = engineX /\ table' = table /\ root' = root
      /\ timedOut' = FALSE /\ Board' = Board /\ EngineToMove' = EngineToMove
  BY SameBoard DEF Right, GameInv, Enter, gameVars, clockVars, SearchInv
<1>2. NodeOK(n) /\ InTurn(n) /\ Callee(stack, root, Board, n)
  BY <1>1, CalledIsCallee
<1> DEFINE f == Frame(n)
<1>3. FrameOK(f) /\ f.node = n
  BY <1>2, NoLineYet, EnteredIsOK DEF Enter, SeesNothing, Frame
<1>4. stack' = Append(stack, f) /\ StackOK(stack, root, Board) /\ TurnsOK
  BY <1>1 DEF Enter, SearchInv
<1> HIDE DEF f
<1>5. StackOK(stack', root', Board')
  BY <1>1, <1>2, <1>3, <1>4, PushIsOK
<1>6. TurnsOK'
  <2> SUFFICES ASSUME NEW i \in 1 .. Len(stack') PROVE InTurn(stack[i].node)'
    BY DEF TurnsOK
  <2>1. stack \in Seq(Frames) /\ f \in Frames
    BY <1>3, <1>4 DEF StackOK, FrameOK
  <2>2. IF i \in 1 .. Len(stack) THEN stack'[i] = stack[i] ELSE stack'[i] = f
    BY <1>4, <2>1
  <2>3. InTurn(stack'[i].node)
    BY <1>2, <1>3, <1>4, <2>2 DEF TurnsOK
  <2>4. Turn(stack[i].node.pos)' = Turn(stack'[i].node.pos)
    BY <1>1 DEF Turn, My
  <2> QED BY <2>3, <2>4 DEF InTurn
<1>8. moves' # <<>>
  BY <1>1 DEF Enter, SeesNothing, gameVars
<1>7. SearchInv'
  BY <1>1, <1>5, <1>6, <1>8 DEF SearchInv, Searching
<1> QED BY <1>1, <1>7, GameStays, TableStays DEF Right

LEMMA FinishIsRight ==
  ASSUME Right, Finish
  PROVE  Right'
<1>1. /\ GameInv /\ SearchInv /\ TableInv /\ MovesOK /\ stack # <<>>
      /\ UNCHANGED <<gameVars, timedOut>> /\ engineX' = engineX
  BY DEF Right, GameInv, Finish, gameVars, clockVars
<1> DEFINE f == stack[Len(stack)]
<1>2. /\ f = Top /\ Done(f) /\ Store(f.node.pos, f.best, f.node.depth, Flag(f))
      /\ Return(Callers, f.node.last, f.best)
  BY DEF Finish, Top
<1>3. StackOK(stack, root, Board) /\ TurnsOK /\ stack \in Seq(Frames) /\ moves # <<>>
  BY <1>1 DEF SearchInv, StackOK
<1>4. /\ StackOK(Callers, root, Board) /\ Callee(Callers, root, Board, f.node) /\ FrameOK(f)
      /\ \A i \in 1 .. Len(Callers) : i \in 1 .. Len(stack) /\ Callers[i] = stack[i]
  BY <1>1, <1>3, PopIsOK DEF Callers
<1>5. Len(stack) \in 1 .. Len(stack)
  BY <1>1, <1>3
<1>6. InTurn(f.node) /\ \A i \in 1 .. Len(Callers) : InTurn(Callers[i].node)
  BY <1>3, <1>4, <1>5 DEF TurnsOK
<1> HIDE DEF f
<1>7. Told(f.node, f.best)
  BY <1>2, <1>4, LoopIsTold
<1>8. SearchInv'
  BY <1>1, <1>2, <1>3, <1>4, <1>6, <1>7, ReturnIsRight
<1>9. /\ Entry(f.node, f.best, Flag(f)) \in Entries
      /\ Sound(f.node.pos, Entry(f.node, f.best, Flag(f)))
      /\ f.node.pos \in Positions
  BY <1>4, <1>6, <1>7, LoopIsSound, LoopType
<1>10. TableInv'
  BY <1>1, <1>2, <1>9, StoreIsSound
<1> QED BY <1>1, <1>8, <1>10, GameStays DEF Right

-----------------------------------------------------------------------------
(* The steps of the root and the moves.                                    *)
LEMMA RunningHasNoLine ==
  ASSUME Running
  PROVE  NoLine(Board)
BY DEF Running, NoLine, Has, Own, Board

LEMMA BeginSearchIsRight ==
  ASSUME Right, BeginSearch
  PROVE  Right'
<1>1. /\ GameInv /\ SearchInv /\ TableInv /\ MovesOK /\ ~Searching /\ EngineToMove /\ Running
      /\ UNCHANGED gameVars /\ engineX' = engineX /\ table' = table
      /\ timedOut' = FALSE /\ Board' = Board /\ EngineToMove' = EngineToMove /\ stack' = stack
  BY SameBoard DEF Right, GameInv, BeginSearch, Thinking, gameVars, clockVars, SearchInv
<1>2. PICK c \in Foremost(Board, Candidates(Board)) : root' = [Idle EXCEPT !.chosen = {c}]
  BY DEF BeginSearch
<1>3. c \in Candidates(Board) /\ NoLine(Board)
  BY <1>1, RunningHasNoLine DEF Foremost
<1>4. root' = [depth |-> 0, rest |-> {}, best |-> Least, cells |-> {}, chosen |-> {c}]
  BY <1>2 DEF Idle
<1>5. RootOK(root', Board)
  <2>1. ~IsWin(Least) /\ IsLoss(Least) /\ 0 \in 0 .. MaxDepth /\ Least >= Least
    BY ScoreFacts DEF IsWin, IsLoss, Least
  <2>2. root' \in [depth : 0 .. MaxDepth, rest : SUBSET Candidates(Board), best : Int,
                   cells : SUBSET Candidates(Board), chosen : SUBSET Candidates(Board)]
    BY <1>3, <1>4, <2>1, ScoreFacts
  <2> QED BY <1>3, <1>4, <2>1, <2>2 DEF RootOK
<1>6. SearchInv'
  <2>1. stack' = <<>>
    BY <1>1, NoCallsAtRest
  <2>2. StackOK(stack', root', Board') /\ TurnsOK'
    BY <2>1, EmptyStackIsOK DEF TurnsOK
  <2>3. RootOK(root', Board') /\ (Searching' => EngineToMove')
    BY <1>1, <1>5
  <2> QED BY <1>1, <2>1, <2>2, <2>3 DEF SearchInv
<1> QED BY <1>1, <1>6, GameStays, TableStays DEF Right

LEMMA DeepenIsRight ==
  ASSUME Right, Deepen
  PROVE  Right'
<1>1. /\ GameInv /\ SearchInv /\ TableInv /\ MovesOK /\ Searching /\ EngineToMove
      /\ UNCHANGED gameVars /\ engineX' = engineX /\ table' = table
      /\ timedOut' = FALSE /\ Board' = Board /\ EngineToMove' = EngineToMove
      /\ stack' = stack /\ stack = <<>>
  BY SameBoard DEF Right, GameInv, Deepen, AtRoot, gameVars, clockVars, SearchInv
<1>2. RootOK(root, Board) /\ root.depth < MaxDepth /\ root.chosen # {}
  BY <1>1 DEF SearchInv, Deepen, Searching
<1>3. root' = [depth |-> root.depth + 1, rest |-> Candidates(Board), best |-> Least,
               cells |-> {}, chosen |-> Selected]
  BY DEF Deepen
<1>4. Selected \subseteq Candidates(Board) /\ Selected # {} /\ NoLine(Board)
  BY <1>2 DEF RootOK, Selected
<1>5. root.depth + 1 \in 0 .. MaxDepth /\ root.depth + 1 # 0
  BY <1>2, ScoreFacts DEF RootOK
<1>6. RootOK(root', Board)
  <2>1. ~IsWin(Least) /\ IsLoss(Least) /\ Least >= Least
    BY ScoreFacts DEF IsWin, IsLoss, Least
  <2>2. root' \in [depth : 0 .. MaxDepth, rest : SUBSET Candidates(Board), best : Int,
                   cells : SUBSET Candidates(Board), chosen : SUBSET Candidates(Board)]
    BY <1>3, <1>4, <1>5, ScoreFacts
  <2> QED BY <1>3, <1>4, <1>5, <2>1, <2>2 DEF RootOK
<1>7. SearchInv'
  BY <1>1, <1>6, EmptyStackIsOK DEF SearchInv, TurnsOK
<1> QED BY <1>1, <1>7, GameStays, TableStays DEF Right

(* A move of the engine, and the end of its search.                        *)
LEMMA OneMore ==
  \A k \in Nat : \A l : l = k + 1 => l # 0 /\ (l = 1 => k = 0)
OBVIOUS

LEMMA EngineMoveIsRight ==
  ASSUME GameInv, EngineToMove, NEW c \in Squares \ Stones(Board), NEW said, Play(c, said),
         said = "win" => Forces(TRUE, Put(Board, c, TRUE), FALSE, Plies)
  PROVE  GameInv' /\ engineX' = engineX
<1>1. MovesOK /\ moves' = Append(moves, c) /\ engineX' = engineX /\ status' = said
  BY DEF GameInv, Play
<1>2. /\ MovesOK' /\ Len(moves') = Len(moves) + 1
      /\ Board' = Put(Board, c, EngineToMove) /\ EngineToMove' = ~EngineToMove
  BY <1>1, BoardAfterPlay
<1>3. EngineToMove = TRUE /\ Len(moves) \in Nat
  BY <1>1, BoardFacts DEF MovesOK
<1>4. SaidNothing'
  <2>1. Len(moves') # 0 /\ EngineToMove' = FALSE
    BY <1>2, <1>3, OneMore
  <2> QED BY <2>1, Zenon DEF SaidNothing
<1>5. WinIsForced'
  BY <1>1, <1>2, <1>3 DEF WinIsForced
<1> QED BY <1>1, <1>2, <1>4, <1>5 DEF GameInv

LEMMA AtRestStays ==
  ASSUME SearchInv, ~Searching, UNCHANGED searchVars
  PROVE  SearchInv'
<1>1. stack = <<>> /\ root.chosen = {} /\ timedOut = FALSE
  BY NoCallsAtRest
<1>2. root' = root /\ stack' = stack /\ timedOut' = timedOut
  BY DEF searchVars
<1>3. RootOK(root, Board')
  BY <1>1, IdleIsOK DEF SearchInv
<1> QED BY <1>1, <1>2, <1>3, SearchAtRest

LEMMA QuickMoveIsRight ==
  ASSUME Right, Thinking, NEW c \in Squares \ Stones(Board), NEW said, said # "win",
         Play(c, said), UNCHANGED searchVars
  PROVE  Right'
<1>1. GameInv /\ SearchInv /\ TableInv /\ ~Searching /\ EngineToMove /\ table' = table
  BY DEF Right, Thinking, searchVars
<1>2. GameInv' /\ engineX' = engineX
  BY <1>1, EngineMoveIsRight
<1>3. SearchInv'
  BY <1>1, AtRestStays
<1>4. TableInv'
  BY <1>1, <1>2, TableStays
<1> QED BY <1>2, <1>3, <1>4 DEF Right

LEMMA PlayOpeningIsRight ==
  ASSUME Right, PlayOpening
  PROVE  Right'
<1>1. GameInv /\ Thinking /\ EngineToMove /\ Len(moves) = 1 /\ Play(Book(moves[1]), status)
       /\ UNCHANGED searchVars
  BY DEF Right, PlayOpening, Thinking, Opening
<1>2. status = "none"
  BY <1>1 DEF GameInv, SaidNothing
<1>3. moves[1] \in Squares /\ Stones(Board) = {moves[1]}
  <2>1. MovesOK /\ 1 .. Len(moves) = {1}
    BY <1>1 DEF GameInv
  <2> QED BY <2>1, <1>1, BoardFacts DEF MovesOK
<1>4. Book(moves[1]) \in Squares \ Stones(Board)
  BY <1>3, SearchAssumption
<1>5. status # "win"
  BY <1>2
<1> QED BY <1>1, <1>4, <1>5, QuickMoveIsRight

LEMMA PlayFiveIsRight ==
  ASSUME Right, NEW c \in Squares, PlayFive(c)
  PROVE  Right'
<1>1. Thinking /\ c \in Candidates(Board) /\ Play(c, "checkmate") /\ UNCHANGED searchVars /\ MovesOK
  BY DEF Right, GameInv, PlayFive, Fives
<1>2. c \in Squares \ Stones(Board)
  BY <1>1, BoardFacts, CandidatesAreFree
<1>3. "checkmate" # "win"
  OBVIOUS
<1> QED BY <1>1, <1>2, <1>3, QuickMoveIsRight

LEMMA PlayPatternIsRight ==
  ASSUME Right, NEW c \in Squares, PlayPattern(c)
  PROVE  Right'
<1>1. Thinking /\ c \in Patterns(Board) /\ Play(c, "pattern") /\ UNCHANGED searchVars /\ MovesOK
  BY DEF Right, GameInv, PlayPattern
<1>2. c \in Squares \ Stones(Board)
  BY <1>1, BoardFacts, PatternsAssumption
<1>3. "pattern" # "win"
  OBVIOUS
<1> QED BY <1>1, <1>2, <1>3, QuickMoveIsRight

LEMMA ConcludeIsRight ==
  ASSUME Right, Searching, NEW c \in Candidates(Board), NEW said, Conclude(c, said),
         said = "win" => Forces(TRUE, Put(Board, c, TRUE), FALSE, Plies), stack = <<>>
  PROVE  Right'
<1>1. /\ GameInv /\ SearchInv /\ TableInv /\ MovesOK /\ EngineToMove
      /\ Play(c, said) /\ root' = Idle /\ timedOut' = FALSE /\ table' = table /\ stack' = stack
  BY DEF Right, GameInv, SearchInv, Conclude
<1>2. c \in Squares \ Stones(Board)
  BY <1>1, BoardFacts, CandidatesAreFree
<1>3. GameInv' /\ engineX' = engineX
  BY <1>1, <1>2, EngineMoveIsRight
<1>4. SearchInv'
  <2>1. RootOK(root', Board') /\ root'.chosen = {}
    BY <1>1, IdleRoot
  <2> QED BY <1>1, <2>1, SearchAtRest
<1>5. TableInv'
  BY <1>1, <1>3, TableStays
<1> QED BY <1>3, <1>4, <1>5 DEF Right

LEMMA PlayWonIsRight ==
  ASSUME Right, NEW c \in Squares, PlayWon(c)
  PROVE  Right'
<1>1. Searching /\ stack = <<>> /\ IsWin(root.best) /\ c \in root.cells /\ Conclude(c, "win")
  BY DEF PlayWon
<1>2. RootOK(root, Board)
  BY DEF Right, SearchInv
<1>3. c \in Candidates(Board) /\ LeadsRoot(Board, c, Plies)
  BY <1>1, <1>2 DEF RootOK
<1>4. Forces(TRUE, Put(Board, c, TRUE), FALSE, Plies)
  BY <1>3 DEF LeadsRoot
<1> QED BY <1>1, <1>3, <1>4, ConcludeIsRight

LEMMA PlaySearchedIsRight ==
  ASSUME Right, NEW c \in Squares, PlaySearched(c)
  PROVE  Right'
<1>1. Searching /\ stack = <<>> /\ c \in Selected /\ Conclude(c, "done")
  BY DEF PlaySearched, AtRoot
<1>2. c \in Candidates(Board)
  BY <1>1 DEF Right, SearchInv, RootOK, Selected
<1>3. "done" # "win"
  OBVIOUS
<1> QED BY <1>1, <1>2, <1>3, ConcludeIsRight

LEMMA RespondIsRight ==
  ASSUME Right, NEW c \in Squares, Respond(c)
  PROVE  Right'
<1>1. /\ GameInv /\ SearchInv /\ TableInv /\ MovesOK /\ ~EngineToMove /\ ~Searching
      /\ c \in Squares \ Stones(Board) /\ Play(c, status) /\ UNCHANGED searchVars /\ table' = table
  BY DEF Right, GameInv, SearchInv, Respond, Free, searchVars
<1>2. moves' = Append(moves, c) /\ engineX' = engineX /\ status' = status
  BY <1>1 DEF Play
<1>3. MovesOK' /\ Len(moves') = Len(moves) + 1 /\ EngineToMove' = ~EngineToMove
  BY <1>1, <1>2, BoardAfterPlay
<1>4. Len(moves) \in Nat
  BY <1>1 DEF MovesOK
<1>5. SaidNothing'
  <2>1. Len(moves) = 0 => status = "none"
    BY <1>1 DEF SaidNothing, GameInv
  <2>2. Len(moves') = 1 => Len(moves) = 0
    BY <1>3, <1>4, OneMore, Zenon
  <2>3. Len(moves') = 1 => status' = "none"
    BY <2>1, <2>2, <1>2
  <2> QED BY <2>3, <1>1, <1>3 DEF SaidNothing
<1>6. WinIsForced'
  BY <1>1, <1>3 DEF WinIsForced
<1> QED BY <1>1, <1>2, <1>3, <1>5, <1>6, AtRestStays, TableStays DEF Right, GameInv

LEMMA UndoIsRight ==
  ASSUME Right, Undo
  PROVE  Right'
<1>1. /\ GameInv /\ SearchInv /\ TableInv /\ MovesOK /\ ~Searching /\ Len(moves) >= 2
      /\ moves' = SubSeq(moves, 1, Len(moves) - 2) /\ engineX' = engineX /\ status' = "none"
      /\ UNCHANGED searchVars /\ table' = table
  BY DEF Right, GameInv, SearchInv, Undo, searchVars
<1>2. MovesOK'
  BY <1>1, MovesTakenBack
<1>3. SaidNothing' /\ WinIsForced'
  BY <1>1 DEF SaidNothing, WinIsForced
<1> QED BY <1>1, <1>2, <1>3, AtRestStays, TableStays DEF Right, GameInv

LEMMA NextKeepsIInv ==
  ASSUME IInv, [Next]_vars
  PROVE  IInv'
<1>1. CASE UNCHANGED vars
  <2>1. UNCHANGED <<gameVars, searchVars>>
    BY <1>1 DEF vars, gameVars, searchVars
  <2>2. /\ moves' = moves /\ engineX' = engineX /\ root' = root /\ stack' = stack
        /\ timedOut' = timedOut /\ table' = table /\ misled' = misled
    BY <1>1 DEF vars
  <2>3. Board' = Board /\ EngineToMove' = EngineToMove /\ \A p : Turn(p)' = Turn(p)
    BY <2>2, SameBoard DEF Turn, My
  <2>4. SearchInv => SearchInv'
    BY <2>2, <2>3 DEF SearchInv, TurnsOK, InTurn, Searching
  <2> QED BY <2>1, <2>2, <2>4, GameStays, TableStays DEF IInv, Right
<1>2. CASE Next
  <2>1. CASE misled
    <3>1. misled'
      BY <1>2, <2>1 DEF Next, SearchStep, Respond, PlayFive, PlayPattern, PlayWon, PlaySearched,
            PlayUnfinished, PlayTimedOut, PlayOpening, Undo, LooksLate, Recall, SeeFive, Score,
                SeeFull,
            Enter, Finish, GiveUp, BeginSearch, Deepen, IsLate, clockVars, searchVars
    <3> QED BY <3>1 DEF IInv
  <2>2. CASE ~misled
    <3>1. Right
      BY <2>2 DEF IInv
    <3>2. ASSUME NEW c \in Squares, Respond(c) PROVE Right'
      BY <3>1, <3>2, RespondIsRight
    <3>3. ASSUME NEW c \in Squares, PlayFive(c) PROVE Right'
      BY <3>1, <3>3, PlayFiveIsRight
    <3>4. ASSUME NEW c \in Squares, PlayPattern(c) PROVE Right'
      BY <3>1, <3>4, PlayPatternIsRight
    <3>5. ASSUME NEW c \in Squares, PlayWon(c) PROVE Right'
      BY <3>1, <3>5, PlayWonIsRight
    <3>6. ASSUME NEW c \in Squares, PlaySearched(c) PROVE Right'
      BY <3>1, <3>6, PlaySearchedIsRight
    <3>7. ASSUME NEW c \in Squares, PlayUnfinished(c) \/ PlayTimedOut(c) PROVE misled'
      BY <3>7 DEF PlayUnfinished, PlayTimedOut
    <3>8. ASSUME PlayOpening PROVE Right'
      BY <3>1, <3>8, PlayOpeningIsRight
    <3>9. ASSUME Undo PROVE Right'
      BY <3>1, <3>9, UndoIsRight
    <3>10. ASSUME NEW n \in Called, LooksLate(n) PROVE misled'
      BY <3>10 DEF LooksLate, IsLate
    <3>11. ASSUME NEW n \in Called, Recall(n) PROVE Right'
      BY <3>1, <3>11, RecallIsRight
    <3>12. ASSUME NEW n \in Called, SeeFive(n) PROVE Right'
      BY <3>1, <3>12, SeeFiveIsRight
    <3>13. ASSUME NEW n \in Called, Score(n) PROVE misled' \/ Right'
      BY <3>1, <3>13, ScoreIsRight DEF Score
    <3>14. ASSUME NEW n \in Called, SeeFull(n) PROVE Right'
      BY <3>1, <3>14, SeeFullIsRight
    <3>15. ASSUME NEW n \in Called, Enter(n) PROVE Right'
      BY <3>1, <3>15, EnterIsRight
    <3>16. ASSUME Finish PROVE Right'
      BY <3>1, <3>16, FinishIsRight
    <3>17. ASSUME GiveUp PROVE misled'
      BY <3>17 DEF GiveUp, IsLate
    <3>18. ASSUME BeginSearch PROVE Right'
      BY <3>1, <3>18, BeginSearchIsRight
    <3>19. ASSUME Deepen PROVE Right'
      BY <3>1, <3>19, DeepenIsRight
    <3> QED BY <1>2, <3>2, <3>3, <3>4, <3>5, <3>6, <3>7, <3>8, <3>9, <3>10, <3>11, <3>12, <3>13,
               <3>14, <3>15, <3>16, <3>17, <3>18, <3>19 DEF Next, SearchStep, IInv
  <2> QED BY <2>1, <2>2
<1> QED BY <1>1, <1>2

(***************************************************************************)
(* As long as no look at the clock was late, and no sum of patterns came   *)
(* near WIN_SCORE, everything the engine keeps and says is right: the best *)
(* values of the calls under way, the entries of the table, the root's     *)
(* scores and the win it reported.                                         *)
(***************************************************************************)
THEOREM SearchInvariance == Spec => []IInv
<1>1. Init => IInv
  BY InitIsRight DEF IInv
<1>2. IInv /\ [Next]_vars => IInv'
  BY NextKeepsIInv
<1> QED BY <1>1, <1>2, PTL DEF Spec

(* A win the engine reports (score of WIN_SCORE at the root, ai.c) is one: *)
(* the move it made wins whatever the other player answers.                *)
THEOREM WinsAreForced == Spec => []WinIsForcedUnlessMisled
<1>1. IInv => WinIsForcedUnlessMisled
  BY DEF IInv, Right, GameInv, WinIsForcedUnlessMisled
<1> QED BY <1>1, SearchInvariance, PTL

TableSound == ~misled => \A p \in DOMAIN table : Sound(p, table[p])

(* Every entry of the transposition table is right about its position, so  *)
(* that it may answer for any other node, in this search or a later one.   *)
THEOREM TablesAreSound == Spec => []TableSound
<1>1. IInv => TableSound
  BY DEF IInv, Right, TableInv, TableSound
<1> QED BY <1>1, SearchInvariance, PTL

(* So is every entry when store_transposition writes it.                   *)
THEOREM StoresAreSound == Spec => TableIsSound
<1> DEFINE Stored == table' # table /\ ~misled' =>
                       \A p \in AtHand \cap DOMAIN table' : Sound(p, table'[p])
<1>1. ASSUME IInv, [Next]_vars PROVE [Stored]_vars
  <2> SUFFICES ASSUME Next, table' # table, ~misled'
         PROVE \A p \in DOMAIN table' : Sound(p, table'[p])
    BY <1>1
  <2>1. Right'
    <3>0. misled => misled'
      BY DEF Next, SearchStep, Respond, PlayFive, PlayPattern, PlayWon, PlaySearched,
         PlayUnfinished, PlayTimedOut, PlayOpening, Undo, LooksLate, Recall, SeeFive, Score,
         SeeFull, Enter, Finish, GiveUp, BeginSearch, Deepen, IsLate, clockVars, searchVars
    <3>1. Right
      BY <1>1, <3>0 DEF IInv
    <3>2. ASSUME NEW n \in Called, SeeFive(n) PROVE Right'
      BY <3>1, <3>2, SeeFiveIsRight
    <3>3. ASSUME NEW n \in Called, Score(n) PROVE Right'
      BY <3>1, <3>3, ScoreIsRight DEF Score
    <3>4. ASSUME Finish PROVE Right'
      BY <3>1, <3>4, FinishIsRight
    <3>5. (\E n \in Called : SeeFive(n) \/ Score(n)) \/ Finish
      BY DEF Next, SearchStep, Respond, PlayFive, PlayPattern, PlayWon, PlaySearched,
         PlayUnfinished, PlayTimedOut, PlayOpening, Undo, LooksLate, Recall, SeeFull,
         Enter, GiveUp, BeginSearch, Deepen, Conclude, searchVars
    <3> QED BY <3>2, <3>3, <3>4, <3>5
  <2>2. engineX' = engineX
    BY DEF Next, SearchStep, Respond, PlayFive, PlayPattern, PlayWon, PlaySearched,
       PlayUnfinished, PlayTimedOut, PlayOpening, Undo, LooksLate, Recall, SeeFive, Score, SeeFull,
       Enter, Finish, GiveUp, BeginSearch, Deepen, Conclude, Play, gameVars
  <2>3. ASSUME NEW p \in DOMAIN table' PROVE Sound(p, table'[p])
    <3>1. Sound(p, table[p])'
      BY <2>1 DEF Right, TableInv
    <3>2. Turn(p)' = Turn(p)
      BY <2>2 DEF Turn, My
    <3> QED BY <3>1, <3>2 DEF Sound
  <2> QED BY <2>3
<1>2. IInv /\ [Next]_vars => [Stored]_vars
  BY <1>1
<1>3. Spec => [][Stored]_vars
  <2> HIDE DEF Stored
  <2> QED BY <1>2, SearchInvariance, PTL DEF Spec
<1> QED BY <1>3 DEF TableIsSound

(* A search that runs to its depth in time and reports no win misses none: *)
(* neither alpha-beta nor the table loses a line that can be forced within *)
(* max_depth plies. (Of the first move of a game nothing is searched.)     *)
THEOREM WinsAreAlwaysFound == Spec => WinsAreFound
<1> DEFINE Found == EngineMoved /\ status' = "done" /\ moves # <<>> /\ ~misled'
       => ~Forces(TRUE, Board, TRUE, MaxDepth)
<1>1. ASSUME IInv, [Next]_vars PROVE [Found]_vars
  <2>1. CASE UNCHANGED vars
    BY <2>1
  <2>2. ASSUME NEW c \in Squares, PlaySearched(c), Right, moves # <<>>
        PROVE  ~Forces(TRUE, Board, TRUE, MaxDepth)
    <3>1. /\ root.rest = {} /\ root.depth = MaxDepth /\ root.chosen # {} /\ ~IsWin(root.best)
          /\ RootOK(root, Board) /\ Board \in Positions /\ Stones(Board) # {}
      BY <2>2, BoardFacts, NoStoneYet DEF PlaySearched, AtRoot, Searching, Right, GameInv, SearchInv
    <3>2. MaxDepth > 0 /\ MaxDepth - 1 \in Nat /\ (MaxDepth - 1) + 1 = MaxDepth
      BY ScoreFacts
    <3>3. NoLine(Board) /\ \A d \in Candidates(Board) : ~LeadsRoot(Board, d, MaxDepth - 1)
      BY <3>1, <3>2 DEF RootOK
    <3>4. ~Has(Board, TRUE) /\ (~TRUE) = FALSE
      BY <3>3 DEF NoLine
    <3>5. ~Forces(TRUE, Board, TRUE, (MaxDepth - 1) + 1)
      BY <3>1, <3>2, <3>3, <3>4, OnePlyMore DEF LeadsRoot
    <3> QED BY <3>2, <3>5
  <2>3. CASE Next
    <3> SUFFICES ASSUME EngineToMove, Len(moves') = Len(moves) + 1, status' = "done",
                        moves # <<>>, ~misled'
                 PROVE  ~Forces(TRUE, Board, TRUE, MaxDepth)
      BY DEF EngineMoved
    <3>1. misled => misled'
      BY <2>3 DEF Next, SearchStep, Respond, PlayFive, PlayPattern, PlayWon, PlaySearched,
         PlayUnfinished, PlayTimedOut, PlayOpening, Undo, LooksLate, Recall, SeeFive, Score,
             SeeFull,
         Enter, Finish, GiveUp, BeginSearch, Deepen, IsLate, clockVars, searchVars
    <3>2. Right
      BY <3>1, <1>1 DEF IInv
    <3>3. moves' # moves
      <4>1. Len(moves) \in Nat
        BY <3>2 DEF Right, GameInv, MovesOK
      <4>2. \A k \in Nat : k + 1 # k
        OBVIOUS
      <4> QED BY <4>1, <4>2
    <3>4. ~PlayOpening
      BY <3>2 DEF PlayOpening, Opening, Play, Right, GameInv, SaidNothing
    <3>5. \E c \in Squares : PlaySearched(c)
      BY <2>3, <3>3, <3>4 DEF Next, SearchStep, Respond, PlayFive, PlayPattern, PlayWon,
          Conclude, Play,
         PlayUnfinished, PlayTimedOut, Undo, LooksLate, Recall, SeeFive, Score, SeeFull,
         Enter, Finish, GiveUp, BeginSearch, Deepen, gameVars
    <3> QED BY <3>2, <3>5, <2>2
  <2> HIDE DEF Found
  <2> QED BY <1>1, <2>1, <2>3
<1>2. IInv /\ [Next]_vars => [Found]_vars
  BY <1>1
<1>3. Spec => [][Found]_vars
  <2> HIDE DEF Found
  <2> QED BY <1>2, SearchInvariance, PTL DEF Spec
<1> QED BY <1>3 DEF WinsAreFound

(* Nor does the engine give a game away: find_best_ai_move plays no move   *)
(* that loses by force within max_depth while another does not lose.       *)
THEOREM NothingIsGivenAway == Spec => NoBlunder
<1> DEFINE Lasting == EngineMoved /\ status' \in {"done", "win"} /\ ~misled'
       /\ Lost(Board', MaxDepth - 1)
                        => \A c \in Candidates(Board) : Lost(Put(Board, c, TRUE), Plies)
<1>1. ASSUME IInv, [Next]_vars PROVE [Lasting]_vars
  <2>1. CASE UNCHANGED vars
    BY <2>1
  <2>2. ASSUME NEW c \in Squares, Right, PlaySearched(c) \/ PlayWon(c), Lost(Board', MaxDepth - 1),
               NEW d \in Candidates(Board)
        PROVE  Lost(Put(Board, d, TRUE), Plies)
    <3>1. /\ root.chosen # {} /\ RootOK(root, Board) /\ Board \in Positions /\ MovesOK
          /\ EngineToMove /\ moves' = Append(moves, c) /\ engineX' = engineX
      BY <2>2, BoardFacts DEF PlaySearched, PlayWon, AtRoot, Searching, Right, GameInv, SearchInv,
         Conclude, Play
    <3>2. MaxDepth - 1 \in Nat /\ MaxDepth > 0
      BY ScoreFacts
    <3>3. c \in Candidates(Board)
      BY <2>2, <3>1 DEF PlaySearched, PlayWon, Selected, RootOK
    <3>4. c \in Squares \ Stones(Board)
      BY <3>1, <3>3, CandidatesAreFree
    <3>5. Board' = Put(Board, c, TRUE)
      <4>1. EngineToMove = TRUE
        BY <3>1, BoardFacts
      <4> QED BY <3>1, <3>4, <4>1, BoardAfterPlay
    <3>6. LosesRoot(Board, c, MaxDepth - 1)
      BY <2>2, <3>5 DEF Lost, LosesRoot
    <3>7. CASE PlayWon(c)
      <4>1. Forces(TRUE, Put(Board, c, TRUE), FALSE, Plies)
        BY <3>1, <3>7 DEF PlayWon, RootOK, LeadsRoot
      <4>2. Put(Board, c, TRUE) \in Positions /\ Own(Put(Board, c, TRUE), FALSE) = Own(Board, FALSE)
        BY <3>1, <3>4, PutType
      <4>3. ~Has(Put(Board, c, TRUE), FALSE)
        BY <3>1, <4>2 DEF RootOK, NoLine, Has
      <4> QED BY <3>2, <3>6, <4>1, <4>2, <4>3, WonIsNotLost DEF LosesRoot
    <3>8. CASE PlaySearched(c)
      <4>1. root.rest = {} /\ root.depth = MaxDepth /\ c \in Selected
        BY <3>8 DEF PlaySearched
      <4>2. CASE Stones(Board) = {}
        <5>1. d = c
          BY <4>2, <3>3 DEF Candidates
        <5>2. Put(Board, c, TRUE) \in Positions
          BY <3>1, <3>4, PutType
        <5>3. LosesRoot(Board, d, Plies)
          BY <5>1, <5>2, <3>2, <3>6, ForcedInTheEnd DEF LosesRoot
        <5> QED BY <5>3 DEF Lost, LosesRoot
      <4>3. CASE Stones(Board) # {}
        <5>1. IsLoss(root.best)
          BY <3>1, <3>6, <4>1, <4>3 DEF RootOK, Selected
        <5>2. LosesRoot(Board, d, Plies)
          BY <3>1, <3>2, <4>1, <5>1 DEF RootOK
        <5> QED BY <5>2 DEF Lost, LosesRoot
      <4> QED BY <4>2, <4>3
    <3> QED BY <2>2, <3>7, <3>8
  <2>3. CASE Next
    <3> SUFFICES ASSUME EngineToMove, Len(moves') = Len(moves) + 1, status' \in {"done", "win"},
           ~misled',
                        Lost(Board', MaxDepth - 1)
                 PROVE  \A c \in Candidates(Board) : Lost(Put(Board, c, TRUE), Plies)
      BY DEF EngineMoved
    <3>1. misled => misled'
      BY <2>3 DEF Next, SearchStep, Respond, PlayFive, PlayPattern, PlayWon, PlaySearched,
         PlayUnfinished, PlayTimedOut, PlayOpening, Undo, LooksLate, Recall, SeeFive, Score,
             SeeFull,
         Enter, Finish, GiveUp, BeginSearch, Deepen, IsLate, clockVars, searchVars
    <3>2. Right
      BY <3>1, <1>1 DEF IInv
    <3>3. moves' # moves
      <4>1. Len(moves) \in Nat
        BY <3>2 DEF Right, GameInv, MovesOK
      <4>2. \A k \in Nat : k + 1 # k
        OBVIOUS
      <4> QED BY <4>1, <4>2
    <3>4. ~PlayOpening
      BY <3>2 DEF PlayOpening, Opening, Play, Right, GameInv, SaidNothing
    <3>5. \E c \in Squares : PlaySearched(c) \/ PlayWon(c)
      BY <2>3, <3>3, <3>4 DEF Next, SearchStep, Respond, PlayFive, PlayPattern, Conclude, Play,
         PlayUnfinished, PlayTimedOut, Undo, LooksLate, Recall, SeeFive, Score, SeeFull,
         Enter, Finish, GiveUp, BeginSearch, Deepen, gameVars
    <3> QED BY <3>2, <3>5, <2>2
  <2> HIDE DEF Lasting
  <2> QED BY <1>1, <2>1, <2>3
<1>2. IInv /\ [Next]_vars => [Lasting]_vars
  BY <1>1
<1>3. Spec => [][Lasting]_vars
  <2> HIDE DEF Lasting
  <2> QED BY <1>2, SearchInvariance, PTL DEF Spec
<1> QED BY <1>3 DEF NoBlunder

-----------------------------------------------------------------------------
(* Whatever the clock does: the types, and a legal game.                   *)
RootTyped ==
  /\ root \in [depth : 0 .. MaxDepth, rest : SUBSET Candidates(Board), best : Int,
               cells : SUBSET Candidates(Board), chosen : SUBSET Candidates(Board)]
  /\ root.depth = 0 => root.rest = {}
  /\ IF Searching THEN EngineToMove ELSE root = Idle /\ stack = <<>>
  /\ stack # <<>> => stack[1].node.last \in Candidates(Board)
FrameTyped(f) == f \in Frames /\ f.node.depth > 0 /\ f.rest \subseteq Candidates(f.node.pos)
StackTyped(st) == st \in Seq(Frames) /\ \A i \in 1 .. Len(st) : FrameTyped(st[i])
RestTyped ==
  /\ undos \in 0 .. MaxUndos
  /\ status \in {"none", "checkmate", "pattern", "win", "timeout", "done"}
  /\ DOMAIN table \subseteq Positions /\ \A p \in DOMAIN table : table[p] \in Entries
  /\ timedOut \in BOOLEAN /\ misled \in BOOLEAN
TypeInv == MovesOK /\ RootTyped /\ StackTyped(stack) /\ RestTyped

LEMMA CalledTyped ==
  ASSUME TypeInv, NEW n \in Called
  PROVE  n \in Nodes /\ Searching /\ (stack = <<>> => n.last \in Candidates(Board))
<1>1. CASE stack = <<>>
  <2>1. PICK c \in Foremost(Board, root.rest) : n = RootChild(c)
    BY <1>1 DEF Called
  <2>2. c \in root.rest /\ root.rest \subseteq Candidates(Board)
         /\ root.depth \in 0 .. MaxDepth /\ root.depth # 0
    BY <2>1 DEF Foremost, TypeInv, RootTyped
  <2>3. Board \in Positions /\ c \in Squares \ Stones(Board)
    BY <2>2, BoardFacts, CandidatesAreFree DEF TypeInv
  <2>4. Put(Board, c, TRUE) \in Positions /\ root.depth - 1 \in 0 .. MaxDepth
    <3>1. Put(Board, c, TRUE) \in Positions
      BY <2>3, PutType
    <3>2. root.depth - 1 \in 0 .. MaxDepth
      BY <2>2, ScoreFacts
    <3> QED BY <3>1, <3>2
  <2>5. n \in Nodes
    BY <2>1, <2>3, <2>4, ScoreFacts DEF RootChild, Nodes
  <2>6. Searching
    BY <2>2 DEF TypeInv, RootTyped, Idle
  <2>7. n.last \in Candidates(Board)
    BY <2>1, <2>2 DEF RootChild
  <2> QED BY <2>5, <2>6, <2>7
<1>2. CASE stack # <<>>
  <2> DEFINE f == stack[Len(stack)]
  <2>1. PICK c \in Foremost(f.node.pos, f.rest) : n = Child(f, c)
    BY <1>2 DEF Called
  <2>2. FrameTyped(f)
    <3>1. Len(stack) \in 1 .. Len(stack)
      BY <1>2 DEF TypeInv, StackTyped
    <3> QED BY <3>1 DEF TypeInv, StackTyped
  <2> HIDE DEF f
  <2>3. /\ f.node \in Nodes /\ f.alpha \in Int /\ f.beta \in Int
        /\ c \in Candidates(f.node.pos) /\ f.node.depth > 0
    BY <2>1, <2>2 DEF FrameTyped, Frames, Foremost
  <2>4. f.node.pos \in Positions /\ f.node.my \in BOOLEAN /\ f.node.depth \in 0 .. MaxDepth
    BY <2>3 DEF Nodes
  <2>5. c \in Squares \ Stones(f.node.pos)
    BY <2>3, <2>4, CandidatesAreFree
  <2>6. /\ Put(f.node.pos, c, f.node.my) \in Positions /\ (~f.node.my) \in BOOLEAN
        /\ f.node.depth - 1 \in 0 .. MaxDepth
    BY <2>3, <2>4, <2>5, PutType, ScoreFacts
  <2>7. n \in Nodes
    BY <2>1, <2>3, <2>5, <2>6 DEF Child, Nodes
  <2>8. Searching
    BY <1>2 DEF TypeInv, RootTyped
  <2> QED BY <1>2, <2>7, <2>8
<1> QED BY <1>1, <1>2

LEMMA TakesTyped ==
  ASSUME NEW f, FrameTyped(f), NEW c, NEW v \in Int
  PROVE  FrameTyped(Takes(f, c, v)) /\ Takes(f, c, v).node = f.node
<1> DEFINE g == Takes(f, c, v)
<1>1. f.node \in Nodes /\ f.best \in Int /\ f.alpha \in Int /\ f.beta \in Int
       /\ f.rest \in SUBSET Squares
  BY DEF FrameTyped, Frames
<1>2. /\ g.node = f.node /\ g.rest = f.rest \ {c}
      /\ g = [node |-> g.node, best |-> g.best, alpha |-> g.alpha, beta |-> g.beta, rest |-> g.rest]
  BY DEF Takes
<1>3. g.best \in Int /\ g.alpha \in Int /\ g.beta \in Int
  BY <1>1 DEF Takes, Greater, Smaller
<1> HIDE DEF g
<1>4. g \in Frames
  BY <1>1, <1>2, <1>3 DEF Frames
<1>5. FrameTyped(g)
  BY <1>2, <1>4 DEF FrameTyped
<1> QED BY <1>2, <1>5 DEF g

LEMMA ReturnTyped ==
  ASSUME TypeInv, Searching, UNCHANGED gameVars, NEW st, StackTyped(st),
         NEW c,
             IF st = <<>> THEN c \in Candidates(Board) ELSE st[1].node.last \in Candidates(Board),
         NEW v \in Int, Return(st, c, v)
  PROVE  RootTyped' /\ StackTyped(stack')
<1>1. Board' = Board /\ EngineToMove' = EngineToMove
  BY SameBoard DEF gameVars
<1>2. CASE st = <<>>
  <2>1. root' = RootWith(root, c, v) /\ stack' = <<>> /\ c \in Candidates(Board)
    BY <1>2 DEF Return, RootTakes, RootWith
  <2>2. /\ root.depth \in 0 .. MaxDepth /\ root.rest \in SUBSET Candidates(Board)
         /\ root.best \in Int
        /\ root.cells \in SUBSET Candidates(Board) /\ root.chosen \in SUBSET Candidates(Board)
        /\ root.depth = 0 => root.rest = {}
    BY DEF TypeInv, RootTyped
  <2>3. root' \in [depth : 0 .. MaxDepth, rest : SUBSET Candidates(Board), best : Int,
                   cells : SUBSET Candidates(Board), chosen : SUBSET Candidates(Board)]
    BY <2>1, <2>2 DEF RootWith, Greater
  <2>4. root'.chosen = root.chosen /\ root'.depth = root.depth /\ root'.rest \subseteq root.rest
    BY <2>1 DEF RootWith
  <2>5. RootTyped'
    <3>1. Searching' /\ EngineToMove'
      BY <1>1, <2>4 DEF Searching, TypeInv, RootTyped
    <3>2. root'.depth = 0 => root'.rest = {}
      BY <2>2, <2>4
    <3> QED BY <1>1, <2>1, <2>3, <3>1, <3>2 DEF RootTyped
  <2> QED BY <2>1, <2>5 DEF StackTyped
<1>3. CASE st # <<>>
  <2> DEFINE k == Len(st)
             g == Takes(st[k], c, v)
  <2>1. stack' = [st EXCEPT ![k] = g] /\ root' = root
    BY <1>3 DEF Return
  <2>2. st \in Seq(Frames) /\ k \in 1 .. k /\ \A i \in 1 .. k : FrameTyped(st[i])
    BY <1>3 DEF StackTyped
  <2>3. FrameTyped(g) /\ g \in Frames /\ g.node = st[k].node
    BY <2>2, TakesTyped DEF FrameTyped
  <2> HIDE DEF g
  <2>4. StackTyped(stack') /\ 1 \in 1 .. k /\ stack'[1].node = st[1].node /\ stack' # <<>>
    BY <2>1, <2>2, <2>3 DEF StackTyped
  <2>5. RootTyped'
    <3>1. stack'[1].node.last \in Candidates(Board')
      BY <1>1, <1>3, <2>4
    <3> QED BY <1>1, <2>1, <3>1 DEF RootTyped, Searching, TypeInv
  <2> QED BY <2>4, <2>5
<1> QED BY <1>2, <1>3

LEMMA StoreTyped ==
  ASSUME RestTyped, NEW n \in Nodes, NEW v \in Int, NEW flag \in {"exact", "lower", "upper"},
         Store(n.pos, v, n.depth, flag)
  PROVE  DOMAIN table' \subseteq Positions /\ \A p \in DOMAIN table' : table'[p] \in Entries
<1> DEFINE e == [value |-> v, depth |-> n.depth, flag |-> flag]
           p == n.pos
<1>1. e \in Entries /\ p \in Positions
  BY DEF Nodes, Entries
<1>2. \/ /\ p \notin DOMAIN table
         /\ table' = [q \in DOMAIN table \cup {p} |-> IF q = p THEN e ELSE table[q]]
      \/ /\ p \in DOMAIN table
         /\ table' = [table EXCEPT ![p] = e] \/ table' = table
  BY DEF Store
<1> HIDE DEF e, p
<1> QED BY <1>1, <1>2 DEF RestTyped

LEMMA SearchStepTyped ==
  ASSUME TypeInv, SearchStep
  PROVE  TypeInv'
<1>1. UNCHANGED gameVars /\ MovesOK /\ StackTyped(stack) /\ RestTyped
  BY DEF SearchStep, LooksLate, Recall, SeeFive, Score, SeeFull, Enter, Finish, GiveUp, BeginSearch,
     Deepen, TypeInv
<1>2. /\ moves' = moves /\ engineX' = engineX /\ undos' = undos /\ status' = status
      /\ MovesOK' /\ Board' = Board /\ EngineToMove' = EngineToMove
  <2>1. moves' = moves /\ engineX' = engineX /\ undos' = undos /\ status' = status
    BY <1>1 DEF gameVars
  <2> QED BY <1>1, <2>1, SameBoard DEF MovesOK
<1>3. timedOut' \in BOOLEAN /\ misled' \in BOOLEAN
  BY <1>1 DEF SearchStep, LooksLate, Recall, SeeFive, Score, SeeFull, Enter, Finish, GiveUp,
      BeginSearch,
     Deepen, RestTyped, IsLate, clockVars
<1>4. ASSUME NEW n \in Called, NEW v \in Int, Return(stack, n.last, v)
      PROVE  RootTyped' /\ StackTyped(stack')
  <2>1. Searching /\ (stack = <<>> => n.last \in Candidates(Board))
    BY CalledTyped
  <2>2. stack # <<>> => stack[1].node.last \in Candidates(Board)
    BY DEF TypeInv, RootTyped
  <2> QED BY <1>1, <1>4, <2>1, <2>2, ReturnTyped
<1>5. ASSUME NEW v \in Int, stack # <<>>, Return(Callers, Top.node.last, v)
      PROVE  RootTyped' /\ StackTyped(stack')
  <2> DEFINE k == Len(stack) - 1
  <2>1. stack \in Seq(Frames) /\ k \in 0 .. Len(stack) /\ Callers = SubSeq(stack, 1, k)
         /\ Len(stack) = k + 1
    BY <1>1, <1>5 DEF StackTyped, Callers
  <2> HIDE DEF k
  <2>2. /\ Callers \in Seq(Frames) /\ Len(Callers) = k
        /\ \A i \in 1 .. k : i \in 1 .. Len(stack) /\ Callers[i] = stack[i]
    BY <2>1, FrontFacts
  <2>3. StackTyped(Callers)
    BY <1>1, <2>2 DEF StackTyped
  <2>4. Searching /\ stack[1].node.last \in Candidates(Board)
    BY <1>5 DEF TypeInv, RootTyped
  <2>5. Callers = <<>> => Top.node.last \in Candidates(Board)
    <3>1. Callers = <<>> => k = 0
      BY <2>2
    <3>2. k = 0 => Len(stack) = 1
      BY <2>1
    <3> QED BY <2>4, <3>1, <3>2 DEF Top
  <2>6. Callers # <<>> => Callers[1].node.last \in Candidates(Board)
    <3>1. Callers # <<>> => 1 \in 1 .. k
      BY <2>1, <2>2
    <3> QED BY <2>2, <2>4, <3>1
  <2> QED BY <1>1, <1>5, <2>3, <2>4, <2>5, <2>6, ReturnTyped
<1>6. ASSUME stack # <<>> PROVE FrameTyped(Top) /\ Top.best \in Int /\ Top.node \in Nodes
  <2>1. Len(stack) \in 1 .. Len(stack)
    BY <1>1, <1>6 DEF StackTyped
  <2>2. FrameTyped(Top)
    BY <1>1, <2>1 DEF StackTyped, Top
  <2> QED BY <2>2 DEF FrameTyped, Frames
<1>7. ASSUME NEW n \in Called
      PROVE  /\ n \in Nodes /\ Evaluate(n.pos, n.last) \in Int /\ FiveScore(n) \in Int
             /\ n.pos \in Positions
  <2>1. n \in Nodes
    BY CalledTyped
  <2>2. n.pos \in Positions /\ n.last \in Squares /\ n.depth \in 0 .. MaxDepth
    BY <2>1 DEF Nodes
  <2>3. Evaluate(n.pos, n.last) \in Int
    BY <2>2, EvaluateAssumption
  <2>4. FiveScore(n) \in Int
    BY <2>2, ScoreFacts DEF FiveScore
  <2> QED BY <2>1, <2>2, <2>3, <2>4
<1> DEFINE Tables == DOMAIN table' \subseteq Positions
       /\ \A p \in DOMAIN table' : table'[p] \in Entries
<1>8. table' = table => Tables
  BY <1>1 DEF RestTyped
<1> SUFFICES RootTyped' /\ StackTyped(stack') /\ Tables
  BY <1>1, <1>2, <1>3 DEF TypeInv, RestTyped
<1> HIDE DEF Tables
<1>9. ASSUME NEW n \in Called, LooksLate(n) PROVE RootTyped' /\ StackTyped(stack') /\ Tables
  BY <1>4, <1>7, <1>8, <1>9 DEF LooksLate
<1>10. ASSUME NEW n \in Called, Recall(n) PROVE RootTyped' /\ StackTyped(stack') /\ Tables
  <2>1. table[n.pos] \in Entries /\ Return(stack, n.last, table[n.pos].value) /\ table' = table
    BY <1>1, <1>10 DEF Recall, Answers, RestTyped
  <2>2. table[n.pos].value \in Int
    BY <2>1 DEF Entries
  <2> QED BY <2>1, <2>2, <1>4, <1>8
<1>11. ASSUME NEW n \in Called, SeeFive(n) PROVE RootTyped' /\ StackTyped(stack') /\ Tables
  <2>1. Store(n.pos, FiveScore(n), n.depth, "exact") /\ Return(stack, n.last, FiveScore(n))
    BY <1>11 DEF SeeFive
  <2> QED BY <2>1, <1>1, <1>4, <1>7, StoreTyped DEF Tables
<1>12. ASSUME NEW n \in Called, Score(n) PROVE RootTyped' /\ StackTyped(stack') /\ Tables
  <2> DEFINE v == Evaluate(n.pos, n.last)
  <2>1. Store(n.pos, v, n.depth, "exact") /\ Return(stack, n.last, v)
    BY <1>12 DEF Score
  <2>2. v \in Int /\ n \in Nodes
    BY <1>7
  <2> HIDE DEF v
  <2> QED BY <2>1, <2>2, <1>1, <1>4, StoreTyped DEF Tables
<1>13. ASSUME NEW n \in Called, SeeFull(n) PROVE RootTyped' /\ StackTyped(stack') /\ Tables
  BY <1>4, <1>8, <1>13, ScoreFacts DEF SeeFull
<1>14. ASSUME NEW n \in Called, Enter(n) PROVE RootTyped' /\ StackTyped(stack') /\ Tables
  <2> DEFINE f == Frame(n)
  <2>1. stack' = Append(stack, f) /\ root' = root /\ n.depth > 0 /\ table' = table
    BY <1>14 DEF Enter
  <2>2. n \in Nodes /\ n.alpha \in Int /\ n.beta \in Int /\ n.pos \in Positions /\ Searching
        /\ (stack = <<>> => n.last \in Candidates(Board))
    BY CalledTyped DEF Nodes
  <2>3. f \in Frames /\ f.node = n /\ f.rest \subseteq Candidates(n.pos)
    <3>1. (IF n.my THEN Least ELSE Most) \in Int /\ Candidates(n.pos) \in SUBSET Squares
      BY <2>2, ScoreFacts, CandidatesAreFree
    <3> QED BY <2>2, <3>1 DEF Frame, Frames
  <2>4. FrameTyped(f)
    BY <2>1, <2>3 DEF FrameTyped
  <2> HIDE DEF f
  <2>5. /\ stack' \in Seq(Frames) /\ Len(stack') = Len(stack) + 1 /\ Len(stack) \in Nat
        /\ \A i \in 1 .. Len(stack) : stack'[i] = stack[i]
        /\ stack'[Len(stack) + 1] = f
    BY <1>1, <2>1, <2>3 DEF StackTyped
  <2>6. StackTyped(stack')
    <3> SUFFICES ASSUME NEW i \in 1 .. Len(stack) + 1 PROVE FrameTyped(stack'[i])
      BY <2>5 DEF StackTyped
    <3>1. CASE i = Len(stack) + 1
      BY <3>1, <2>4, <2>5
    <3>2. CASE i # Len(stack) + 1
      <4>1. i \in 1 .. Len(stack)
        BY <3>2, <2>5
      <4> QED BY <4>1, <1>1, <2>5 DEF StackTyped
    <3> QED BY <3>1, <3>2
  <2>7. stack'[1].node.last \in Candidates(Board)
    <3>1. CASE stack = <<>>
      BY <3>1, <2>2, <2>3, <2>5
    <3>2. CASE stack # <<>>
      <4>1. 1 \in 1 .. Len(stack)
        BY <3>2, <1>1 DEF StackTyped
      <4> QED BY <4>1, <3>2, <2>5 DEF TypeInv, RootTyped
    <3> QED BY <3>1, <3>2
  <2>8. RootTyped'
    BY <1>2, <2>1, <2>2, <2>7 DEF RootTyped, Searching, TypeInv
  <2> QED BY <1>8, <2>1, <2>6, <2>8
<1>15. ASSUME Finish PROVE RootTyped' /\ StackTyped(stack') /\ Tables
  <2>1. /\ stack # <<>> /\ Store(Top.node.pos, Top.best, Top.node.depth, Flag(Top))
        /\ Return(Callers, Top.node.last, Top.best)
    BY <1>15 DEF Finish
  <2>2. Flag(Top) \in {"exact", "lower", "upper"}
    BY DEF Flag
  <2>3. Top.best \in Int /\ Top.node \in Nodes
    BY <1>6, <2>1
  <2> QED BY <2>1, <2>2, <2>3, <1>1, <1>5, StoreTyped DEF Tables
<1>16. ASSUME GiveUp PROVE RootTyped' /\ StackTyped(stack') /\ Tables
  BY <1>5, <1>6, <1>8, <1>16 DEF GiveUp
<1>17. ASSUME BeginSearch PROVE RootTyped' /\ StackTyped(stack') /\ Tables
  <2>1. ~Searching /\ EngineToMove /\ stack' = stack /\ table' = table
    BY <1>17 DEF BeginSearch, Thinking
  <2>2. PICK c \in Foremost(Board, Candidates(Board)) : root' = [Idle EXCEPT !.chosen = {c}]
    BY <1>17 DEF BeginSearch
  <2>3. root' = [depth |-> 0, rest |-> {}, best |-> Least, cells |-> {}, chosen |-> {c}]
         /\ c \in Candidates(Board)
    BY <2>2 DEF Idle, Foremost
  <2>4. stack' = <<>>
    BY <2>1 DEF TypeInv, RootTyped
  <2>5. 0 \in 0 .. MaxDepth
    BY ScoreFacts
  <2>6. RootTyped'
    BY <1>2, <2>1, <2>3, <2>4, <2>5, ScoreFacts DEF RootTyped, Searching
  <2> QED BY <1>8, <2>1, <2>4, <2>6 DEF StackTyped
<1>18. ASSUME Deepen PROVE RootTyped' /\ StackTyped(stack') /\ Tables
  <2>1. /\ Searching /\ stack' = stack /\ table' = table /\ stack = <<>> /\ root.depth < MaxDepth
        /\ root' = [depth |-> root.depth + 1, rest |-> Candidates(Board), best |-> Least,
                    cells |-> {}, chosen |-> Selected]
    BY <1>18 DEF Deepen, AtRoot
  <2>2. /\ root.depth \in 0 .. MaxDepth /\ root.cells \subseteq Candidates(Board)
        /\ root.chosen \subseteq Candidates(Board) /\ root.chosen # {} /\ EngineToMove
    BY <2>1 DEF TypeInv, RootTyped, Searching
  <2>3. root.depth + 1 \in 0 .. MaxDepth /\ root.depth + 1 # 0
    BY <2>1, <2>2, ScoreFacts
  <2>4. Selected \subseteq Candidates(Board) /\ Selected # {}
    BY <2>2 DEF Selected
  <2>5. RootTyped'
    BY <1>2, <2>1, <2>2, <2>3, <2>4, ScoreFacts DEF RootTyped, Searching
  <2> QED BY <1>8, <2>1, <2>5 DEF StackTyped
<1> QED BY <1>9, <1>10, <1>11, <1>12, <1>13, <1>14, <1>15, <1>16, <1>17, <1>18 DEF SearchStep

LEMMA AtRestTyped ==
  ASSUME MovesOK', root' = Idle, stack' = <<>>
  PROVE  RootTyped' /\ StackTyped(stack')
<1>1. Idle \in [depth : 0 .. MaxDepth, rest : SUBSET Candidates(Board'), best : Int,
                cells : SUBSET Candidates(Board'), chosen : SUBSET Candidates(Board')]
  <2>1. 0 \in 0 .. MaxDepth
    BY ScoreFacts
  <2> QED BY <2>1, ScoreFacts DEF Idle
<1>2. ~Searching' /\ Idle.rest = {}
  BY DEF Searching, Idle
<1>3. RootTyped'
  BY <1>1, <1>2 DEF RootTyped
<1> QED BY <1>3 DEF StackTyped

LEMMA PlayTyped ==
  ASSUME TypeInv, NEW c \in Squares \ Stones(Board), NEW said, Play(c, said),
         said \in {"none", "checkmate", "pattern", "win", "timeout", "done"},
         root' = Idle, stack' = <<>>, table' = table, timedOut' \in BOOLEAN, misled' \in BOOLEAN
  PROVE  TypeInv'
<1>1. moves' = Append(moves, c) /\ engineX' = engineX /\ undos' = undos /\ status' = said /\ MovesOK
  BY DEF Play, TypeInv
<1>2. MovesOK'
  BY <1>1, BoardAfterPlay
<1>3. RestTyped'
  BY <1>1 DEF RestTyped, TypeInv
<1> QED BY <1>2, <1>3, AtRestTyped DEF TypeInv

LEMMA QuickMoveTyped ==
  ASSUME TypeInv, ~Searching, NEW c \in Squares \ Stones(Board), NEW said, Play(c, said),
         said \in {"none", "checkmate", "pattern", "win", "timeout", "done"}, UNCHANGED searchVars
  PROVE  TypeInv'
<1>1. root = Idle /\ stack = <<>> /\ timedOut \in BOOLEAN /\ misled \in BOOLEAN
  BY DEF TypeInv, RootTyped, RestTyped
<1>2. root' = Idle /\ stack' = <<>> /\ table' = table /\ timedOut' \in BOOLEAN
       /\ misled' \in BOOLEAN
  BY <1>1 DEF searchVars
<1> QED BY <1>2, PlayTyped

LEMMA ConcludeTyped ==
  ASSUME TypeInv, NEW c \in Candidates(Board), NEW said, Conclude(c, said), stack = <<>>,
         said \in {"none", "checkmate", "pattern", "win", "timeout", "done"}, misled' \in BOOLEAN
  PROVE  TypeInv'
<1>1. Play(c, said) /\ root' = Idle /\ timedOut' = FALSE /\ stack' = <<>> /\ table' = table
  BY DEF Conclude
<1>2. c \in Squares \ Stones(Board)
  BY BoardFacts, CandidatesAreFree DEF TypeInv
<1> QED BY <1>1, <1>2, PlayTyped

LEMMA NextTyped ==
  ASSUME TypeInv, [Next]_vars
  PROVE  TypeInv'
<1>0. /\ MovesOK /\ misled \in BOOLEAN /\ Board \in Positions
      /\ status \in {"none", "checkmate", "pattern", "win", "timeout", "done"}
      /\ root.chosen \subseteq Candidates(Board) /\ root.cells \subseteq Candidates(Board)
      /\ (Searching => EngineToMove)
  BY BoardFacts DEF TypeInv, RestTyped, RootTyped
<1>1. ASSUME NEW c \in Squares, Respond(c) PROVE TypeInv'
  <2>1. ~Searching /\ c \in Squares \ Stones(Board) /\ Play(c, status) /\ UNCHANGED searchVars
    BY <1>0, <1>1 DEF Respond, Free
  <2> QED BY <1>0, <2>1, QuickMoveTyped
<1>2. ASSUME NEW c \in Squares, PlayFive(c) PROVE TypeInv'
  <2>1. ~Searching /\ c \in Squares \ Stones(Board) /\ Play(c, "checkmate") /\ UNCHANGED searchVars
    BY <1>0, <1>2, CandidatesAreFree DEF PlayFive, Thinking, Fives
  <2> QED BY <2>1, QuickMoveTyped
<1>3. ASSUME NEW c \in Squares, PlayPattern(c) PROVE TypeInv'
  <2>1. ~Searching /\ c \in Squares \ Stones(Board) /\ Play(c, "pattern") /\ UNCHANGED searchVars
    BY <1>0, <1>3, PatternsAssumption DEF PlayPattern, Thinking
  <2> QED BY <2>1, QuickMoveTyped
<1>4. ASSUME NEW c \in Squares, PlayWon(c) PROVE TypeInv'
  <2>1. c \in Candidates(Board) /\ Conclude(c, "win") /\ stack = <<>> /\ misled' \in BOOLEAN
    BY <1>0, <1>4 DEF PlayWon
  <2> QED BY <2>1, ConcludeTyped
<1>5. ASSUME NEW c \in Squares, PlaySearched(c) \/ PlayUnfinished(c) PROVE TypeInv'
  <2>1. c \in Selected /\ Conclude(c, "done") /\ stack = <<>> /\ misled' \in BOOLEAN
    BY <1>0, <1>5 DEF PlaySearched, PlayUnfinished, AtRoot
  <2>2. c \in Candidates(Board)
    BY <1>0, <2>1 DEF Selected
  <2> QED BY <2>1, <2>2, ConcludeTyped
<1>6. ASSUME NEW c \in Squares, PlayTimedOut(c) PROVE TypeInv'
  <2>1. c \in Candidates(Board) /\ Conclude(c, "timeout") /\ stack = <<>> /\ misled' \in BOOLEAN
    BY <1>0, <1>6 DEF PlayTimedOut, AtRoot
  <2> QED BY <2>1, ConcludeTyped
<1>7. ASSUME PlayOpening PROVE TypeInv'
  <2>1. Len(moves) = 1 /\ ~Searching /\ Play(Book(moves[1]), status) /\ UNCHANGED searchVars
    BY <1>7 DEF PlayOpening, Opening, Thinking
  <2>2. moves[1] \in Squares /\ Stones(Board) = {moves[1]}
    <3>1. 1 .. Len(moves) = {1}
      BY <2>1
    <3> QED BY <3>1, <1>0, <2>1, BoardFacts DEF MovesOK
  <2>3. Book(moves[1]) \in Squares \ Stones(Board)
    BY <2>2, SearchAssumption
  <2> QED BY <1>0, <2>1, <2>3, QuickMoveTyped
<1>8. ASSUME Undo PROVE TypeInv'
  <2>1. /\ ~Searching /\ Len(moves) >= 2 /\ undos < MaxUndos /\ undos' = undos + 1
        /\ moves' = SubSeq(moves, 1, Len(moves) - 2) /\ engineX' = engineX /\ status' = "none"
        /\ UNCHANGED searchVars
    BY <1>0, <1>8 DEF Undo
  <2>2. MovesOK'
    BY <1>0, <2>1, MovesTakenBack
  <2>3. root' = Idle /\ stack' = <<>>
    BY <2>1 DEF TypeInv, RootTyped, searchVars
  <2>4. undos' \in 0 .. MaxUndos
    BY <2>1, SearchAssumption DEF TypeInv, RestTyped
  <2>5. RestTyped'
    BY <2>1, <2>4 DEF RestTyped, TypeInv, searchVars
  <2> QED BY <2>2, <2>3, <2>5, AtRestTyped DEF TypeInv
<1>9. ASSUME SearchStep PROVE TypeInv'
  BY <1>9, SearchStepTyped
<1>10. CASE UNCHANGED vars
  <2>1. Board' = Board /\ EngineToMove' = EngineToMove
    BY <1>10, SameBoard DEF vars
  <2> QED BY <1>10, <2>1 DEF vars, TypeInv, MovesOK, RootTyped, Searching, RestTyped
<1> QED BY <1>1, <1>2, <1>3, <1>4, <1>5, <1>6, <1>7, <1>8, <1>9, <1>10 DEF Next

LEMMA InitTyped ==
  ASSUME Init
  PROVE  TypeInv
<1>1. MovesOK
  BY DEF Init, MovesOK
<1>2. RootTyped /\ StackTyped(stack)
  <2>1. 0 \in 0 .. MaxDepth
    BY ScoreFacts
  <2>2. root \in [depth : 0 .. MaxDepth, rest : SUBSET Candidates(Board), best : Int,
                  cells : SUBSET Candidates(Board), chosen : SUBSET Candidates(Board)]
    BY <2>1, ScoreFacts DEF Init, Idle
  <2>3. ~Searching
    BY DEF Init, Idle, Searching
  <2> QED BY <2>2, <2>3 DEF Init, Idle, RootTyped, StackTyped
<1>3. RestTyped
  <2>1. 0 \in 0 .. MaxUndos
    BY SearchAssumption
  <2>2. DOMAIN table = {}
    BY DEF Init
  <2> QED BY <2>1, <2>2 DEF Init, RestTyped
<1> QED BY <1>1, <1>2, <1>3 DEF TypeInv

(* The types of the state, whatever the clock does and scores add up to.   *)
THEOREM SearchTypes == Spec => []TypeOK
<1>1. Init => TypeInv
  BY InitTyped
<1>2. TypeInv /\ [Next]_vars => TypeInv'
  BY NextTyped
<1>3. TypeInv => TypeOK
  <2> SUFFICES ASSUME TypeInv PROVE TypeOK
    OBVIOUS
  <2>1. Candidates(Board) \subseteq Squares
    BY BoardFacts, CandidatesAreFree DEF TypeInv
  <2> QED BY <2>1 DEF TypeInv, MovesOK, RootTyped, StackTyped, RestTyped, TypeOK
<1> QED BY <1>1, <1>2, <1>3, PTL DEF Spec

Legal ==
  /\ \A i, j \in 1 .. Len(moves) : moves[i] = moves[j] => i = j
  /\ Searching => EngineToMove /\ root.chosen \cup root.cells \subseteq Free

(* The engine and the other player never put a stone on a taken cell, and  *)
(* a search is only ever under way when it is the engine's turn: make_move *)
(* never refuses the move of find_best_ai_move, in time or not.            *)
THEOREM MovesAreLegal == Spec => []Legal
<1>1. Init => TypeInv
  BY InitTyped
<1>2. TypeInv /\ [Next]_vars => TypeInv'
  BY NextTyped
<1>3. TypeInv => Legal
  <2> SUFFICES ASSUME TypeInv PROVE Legal
    OBVIOUS
  <2>1. Candidates(Board) \subseteq Free
    BY BoardFacts, CandidatesAreFree DEF TypeInv, Free
  <2> QED BY <2>1 DEF TypeInv, MovesOK, RootTyped, Legal
<1> QED BY <1>1, <1>2, <1>3, PTL DEF Spec
=============================================================================
