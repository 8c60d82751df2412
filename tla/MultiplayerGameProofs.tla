----------------------- MODULE MultiplayerGameProofs -----------------------
(***************************************************************************)
(* Theorems about MultiplayerGame, for every set of users, every size of   *)
(* board and every length of a line. IInv is shown inductive one action at *)
(* a time; the invariants of the runs follow from it.                      *)
(***************************************************************************)
EXTENDS MultiplayerGame, SequenceTheorems, TLAPS

LEMMA ColorFacts ==
  /\ Colors \subseteq MaybeColor
  /\ \A c \in Colors : Opposite(c) \in Colors /\ Opposite(Opposite(c)) = c /\ Opposite(c) # c
  /\ "none" \notin Colors
  /\ "none" \in MaybeColor
BY DEF Colors, MaybeColor, Opposite

LEMMA ColorAlternates ==
  ASSUME NEW n \in Nat
  PROVE  ColorOfPly(n + 1) \in Colors /\ ColorOfPly(n + 2) = Opposite(ColorOfPly(n + 1))
<1>1. CASE n % 2 = 0
  <2>1. (n + 1) % 2 = 1 /\ (n + 2) % 2 = 0
    BY <1>1
  <2>2. QED BY <2>1 DEF ColorOfPly, Opposite, Colors
<1>2. CASE n % 2 = 1
  <2>1. (n + 1) % 2 = 0 /\ (n + 2) % 2 = 1
    BY <1>2
  <2>2. QED BY <2>1 DEF ColorOfPly, Opposite, Colors
<1>3. QED BY <1>1, <1>2

LEMMA ParticipantColorType ==
  ASSUME NEW row \in Row, NEW u, ParticipantColor(row, u) # "none"
  PROVE  /\ ParticipantColor(row, u) \in Colors
         /\ row.hostColor \in Colors
         /\ u \in {row.host, row.guest}
BY DEF ParticipantColor, Row, Colors, MaybeColor, Opposite

(* An append leaves every earlier prefix alone.                            *)
LEMMA AppendPrefix ==
  ASSUME NEW S, NEW s \in Seq(S), NEW e \in S, NEW n \in 0 .. Len(s)
  PROVE  SubSeq(Append(s, e), 1, n) = SubSeq(s, 1, n)
<1>1. Append(s, e) \in Seq(S) /\ Len(Append(s, e)) = Len(s) + 1
      /\ \A i \in 1 .. Len(s) : Append(s, e)[i] = s[i]
  BY AppendProperties
<1>2. SubSeq(s, 1, n) \in Seq(S) /\ SubSeq(Append(s, e), 1, n) \in Seq(S)
      /\ Len(SubSeq(s, 1, n)) = n /\ Len(SubSeq(Append(s, e), 1, n)) = n
  BY <1>1, SubSeqProperties, LenProperties
<1>3. ASSUME NEW i \in 1 .. n
      PROVE  SubSeq(Append(s, e), 1, n)[i] = SubSeq(s, 1, n)[i]
  BY <1>1, SubSeqProperties, LenProperties
<1>4. QED BY <1>2, <1>3, SeqEqual

LEMMA WholePrefix ==
  ASSUME NEW S, NEW s \in Seq(S)
  PROVE  SubSeq(s, 1, Len(s)) = s
BY SubSeqFull

-----------------------------------------------------------------------------
(* A commit that increments the version keeps versions unique.             *)
LEMMA CommitVersions ==
  ASSUME TypeOK, VersionIdentifiesRow, NEW row, Commit(row),
         row.version = game.version + 1
  PROVE  VersionIdentifiesRow'
<1>1. \A a \in committed : a.version \in Nat /\ a.version <= game.version
  BY DEF TypeOK, Row, VersionIdentifiesRow
<1>2. game.version \in Nat
  BY DEF TypeOK, Row
<1>3. game' = row /\ committed' = committed \cup {row}
  BY DEF Commit
<1>4. \A a \in committed : a.version # row.version
  BY <1>1, <1>2
<1>5. QED BY <1>1, <1>2, <1>3, <1>4 DEF VersionIdentifiesRow

LEMMA ColumnDefaults ==
  /\ "none" \in States /\ "waiting" \in States /\ NoUser \in MaybeUser
  /\ "none" \in MaybeColor /\ "host" \in {"host", "guest"} /\ "X" \in Colors
  /\ <<>> \in Seq(Cells) /\ 0 \in Nat /\ "unset" \in {"unset", "set"}
BY DEF States, MaybeUser, MaybeColor, Colors

LEMMA InitIInv == Init => IInv
<1> SUFFICES ASSUME Init PROVE IInv
  OBVIOUS
<1>1. NoRow \in Row
  BY ColumnDefaults, Zenon DEF NoRow, Row
<1>2. TypeOK
  <2>1. game \in Row /\ stale \in BOOLEAN /\ joining \subseteq Users /\ committed \subseteq Row
    BY <1>1 DEF Init
  <2>2. rated \in [Users -> Nat]
    BY DEF Init
  <2>3. \A S : <<>> \in Seq(S)
    OBVIOUS
  <2>4. QED BY <2>1, <2>2, <2>3 DEF Init, TypeOK
<1>3. RowShape /\ VersionIdentifiesRow /\ LegalRecord
  BY DEF Init, NoRow, RowShape, VersionIdentifiesRow, LegalRecord
<1>4. MovesDecidedOnCurrentBoard /\ SettledExactlyOnce /\ DeclineIsFinal /\ StampsFollowState
  BY DEF Init, NoRow, MovesDecidedOnCurrentBoard, SettledExactlyOnce, DeclineIsFinal,
         StampsFollowState
<1>5. QED BY <1>2, <1>3, <1>4 DEF IInv

(* Elapse, JoinBegin, JoinRollback: the row and its records stay.          *)
LEMMA RowUntouched ==
  ASSUME IInv, UNCHANGED <<game, ledger, chat, committed, plies>>,
         stale' \in BOOLEAN, joining' \subseteq Users
  PROVE  IInv'
<1> USE DEF IInv, ledger
<1>1. TypeOK'
  BY DEF TypeOK
<1>2. RowShape' /\ VersionIdentifiesRow' /\ LegalRecord'
  BY DEF RowShape, VersionIdentifiesRow, LegalRecord
<1>3. MovesDecidedOnCurrentBoard'
  BY DEF MovesDecidedOnCurrentBoard, ParticipantColor
<1>4. SettledExactlyOnce'
  BY DEF SettledExactlyOnce, ParticipantColor
<1>5. DeclineIsFinal' /\ StampsFollowState'
  BY DEF DeclineIsFinal, StampsFollowState
<1>6. QED BY <1>1, <1>2, <1>3, <1>4, <1>5

LEMMA AllocateKeepsIInv ==
  ASSUME IInv, NEW u \in Users, NEW color \in MaybeColor, NEW by \in {"host", "guest"},
         NEW invitee \in MaybeUser, AllocateGame(u, color, by, invitee)
  PROVE  IInv'
<1> USE DEF IInv, ledger
<1> DEFINE row == [NoRow EXCEPT !.state = "waiting", !.host = u, !.hostColor = color,
                                !.colorBy = by, !.intended = invitee]
<1>1. game = NoRow /\ committed = {} /\ game' = row /\ committed' = {row}
  BY DEF AllocateGame, Commit, RowShape
<1>2. NoRow \in Row
  BY ColumnDefaults, Zenon DEF NoRow, Row
<1>3. row \in Row
  <2>1. u \in MaybeUser
    BY DEF MaybeUser
  <2>2. QED BY <1>2, <2>1, ColumnDefaults, Zenon DEF Row
<1>4. /\ row.state = "waiting" /\ row.host = u /\ row.guest = NoUser
      /\ row.nextToMove = "X" /\ row.moves = <<>> /\ row.winner = "none"
      /\ row.finishedAt = "unset" /\ row.abandonedBy = NoUser
  BY DEF NoRow
<1> HIDE DEF row
<1>5. TypeOK'
  BY <1>1, <1>3 DEF TypeOK, AllocateGame
<1>6. RowShape' /\ VersionIdentifiesRow' /\ LegalRecord' /\ StampsFollowState'
  BY <1>1, <1>4, <1>5, UsersAssumption
  DEF RowShape, VersionIdentifiesRow, LegalRecord, StampsFollowState, TypeOK, Row
<1>7. UNCHANGED <<history, rated, chat, plies>>
  BY DEF AllocateGame
<1>8. MovesDecidedOnCurrentBoard'
  BY <1>1, <1>4, <1>7 DEF MovesDecidedOnCurrentBoard, NoRow, TypeOK
<1>9. SettledExactlyOnce'
  BY <1>1, <1>4, <1>7 DEF SettledExactlyOnce, NoRow
<1>10. DeclineIsFinal'
  BY <1>1, <1>4, <1>7 DEF DeclineIsFinal, NoRow
<1>11. QED BY <1>5, <1>6, <1>8, <1>9, <1>10

(* What GetGame, CancelGame and DeclineInvite have in common.              *)
LEMMA CancellingKeepsIInv ==
  ASSUME IInv, game.state = "waiting",
         Commit([game EXCEPT !.state = "cancelled", !.version = @ + 1]),
         UNCHANGED <<stale, joining, ledger, plies>>,
         \/ chat' = chat
         \/ game.intended \in Users /\ chat' = Append(chat, game.intended)
  PROVE  IInv'
<1> USE DEF IInv, ledger
<1> DEFINE row == [game EXCEPT !.state = "cancelled", !.version = @ + 1]
<1>1. game \in Row /\ game' = row /\ committed' = committed \cup {row}
  BY DEF TypeOK, Commit
<1>2. game.version + 1 \in Nat
  BY <1>1 DEF Row
<1>3. row \in Row
  BY <1>1, <1>2, Zenon DEF Row, States
<1>4. /\ row.state = "cancelled" /\ row.version = game.version + 1
      /\ row.host = game.host /\ row.guest = game.guest /\ row.intended = game.intended
      /\ row.hostColor = game.hostColor /\ row.nextToMove = game.nextToMove
      /\ row.moves = game.moves /\ row.winner = game.winner
      /\ row.finishedAt = game.finishedAt /\ row.abandonedBy = game.abandonedBy
  BY <1>1 DEF Row
<1> HIDE DEF row
<1>5. chat = <<>>
  BY DEF DeclineIsFinal
<1>6. /\ chat' \in Seq(Users)
      /\ chat' # <<>> => Len(chat') = 1 /\ chat'[1] = game.intended
  <2>1. CASE chat' = chat
    BY <1>5, <2>1 DEF TypeOK
  <2>2. CASE game.intended \in Users /\ chat' = Append(<<>>, game.intended)
    BY <2>2
  <2>3. QED BY <1>5, <2>1, <2>2
<1>7. TypeOK'
  BY <1>1, <1>3, <1>6 DEF TypeOK
<1>8. VersionIdentifiesRow'
  BY <1>4, CommitVersions DEF row
<1>9. RowShape' /\ LegalRecord' /\ StampsFollowState'
  BY <1>1, <1>4 DEF RowShape, LegalRecord, StampsFollowState
<1>10. MovesDecidedOnCurrentBoard'
  BY <1>1, <1>4 DEF MovesDecidedOnCurrentBoard, ParticipantColor
<1>11. SettledExactlyOnce'
  BY <1>1, <1>4 DEF SettledExactlyOnce
<1>12. DeclineIsFinal'
  BY <1>1, <1>4, <1>6 DEF DeclineIsFinal, RowShape
<1>13. QED BY <1>7, <1>8, <1>9, <1>10, <1>11, <1>12

LEMMA JoinKeepsIInv ==
  ASSUME IInv, NEW u \in Users, NEW chosen \in MaybeColor, JoinGame(u, chosen)
  PROVE  IInv'
<1> USE DEF IInv, ledger
<1> DEFINE color == IF game.colorBy = "guest" THEN Opposite(chosen)
                    ELSE IF game.hostColor # "none" THEN game.hostColor
                    ELSE "X"
           row == [game EXCEPT !.guest = u, !.state = "in_progress", !.version = @ + 1,
                               !.hostColor = color]
<1>1. /\ game \in Row /\ game' = row /\ committed' = committed \cup {row}
      /\ game.state = "waiting" /\ u # game.host
      /\ UNCHANGED <<stale, history, rated, chat, plies>> /\ joining' \subseteq Users
  BY DEF JoinGame, TypeOK, Commit
<1>2. color \in Colors
  BY <1>1 DEF JoinGame, Row, MaybeColor, Colors, Opposite
<1> HIDE DEF color
<1>3. row \in Row
  <2>1. game.version + 1 \in Nat /\ u \in MaybeUser /\ color \in MaybeColor
        /\ "in_progress" \in States
    BY <1>1, <1>2 DEF Row, MaybeUser, MaybeColor, States
  <2>2. QED BY <1>1, <2>1, Zenon DEF Row
<1>4. /\ row.state = "in_progress" /\ row.version = game.version + 1
      /\ row.host = game.host /\ row.guest = u /\ row.hostColor = color
      /\ row.nextToMove = game.nextToMove /\ row.moves = game.moves
      /\ row.winner = game.winner /\ row.finishedAt = game.finishedAt
      /\ row.abandonedBy = game.abandonedBy
  BY <1>1 DEF Row
<1>5. game.moves = <<>> /\ game.nextToMove = "X" /\ game.host \in Users /\ plies = <<>>
  BY <1>1 DEF RowShape, MovesDecidedOnCurrentBoard, TypeOK
<1>6. VersionIdentifiesRow'
  BY <1>1, <1>4, CommitVersions DEF JoinGame, Commit
<1> HIDE DEF row
<1>7. TypeOK'
  BY <1>1, <1>3 DEF TypeOK
<1>8. RowShape' /\ StampsFollowState'
  BY <1>1, <1>2, <1>4, <1>5, UsersAssumption DEF RowShape, StampsFollowState
<1>9. LegalRecord'
  BY <1>1, <1>2, <1>4, <1>5, ColorFacts DEF LegalRecord, ColorOfPly
<1>10. MovesDecidedOnCurrentBoard'
  BY <1>1, <1>4, <1>5 DEF MovesDecidedOnCurrentBoard
<1>11. SettledExactlyOnce'
  BY <1>1, <1>4 DEF SettledExactlyOnce
<1>12. DeclineIsFinal'
  BY <1>1, <1>4 DEF DeclineIsFinal
<1>13. QED BY <1>6, <1>7, <1>8, <1>9, <1>10, <1>11, <1>12

-----------------------------------------------------------------------------
(* The two rows and the two counts written when a room finishes.           *)
LEMMA Settlement ==
  ASSUME TypeOK, SettledExactlyOnce, game.state = "in_progress",
         NEW row \in Row, WriteFinishedGamesRows(row), game' = row,
         row.state = "finished", row.winner \in Colors,
         row.host \in Users, row.guest \in Users, row.host # row.guest,
         row.hostColor \in Colors
  PROVE  /\ history' \in Seq(HistoryRow)
         /\ rated' \in [Users -> Nat]
         /\ SettledExactlyOnce'
<1> DEFINE h == GameRow(row, row.host, row.guest, row.hostColor)
           g == GameRow(row, row.guest, row.host, Opposite(row.hostColor))
<1>1. Len(row.moves) \in Nat
  BY LenProperties DEF Row
<1>2. h \in HistoryRow /\ g \in HistoryRow
  BY <1>1, ColorFacts DEF GameRow, HistoryRow
<1>3. /\ h.user = row.host /\ h.opponent = row.guest /\ h.human = row.hostColor
      /\ g.user = row.guest /\ g.opponent = row.host /\ g.human = Opposite(row.hostColor)
      /\ h.winner = row.winner /\ g.winner = row.winner
      /\ h.total = Len(row.moves) /\ g.total = Len(row.moves)
  BY DEF GameRow
<1>4. history = <<>> /\ history' = history \o <<h, g>>
  BY DEF WriteFinishedGamesRows, SettledExactlyOnce
<1> HIDE DEF h, g
<1>5. /\ history' \in Seq(HistoryRow) /\ Len(history') = 2
      /\ history'[1] = h /\ history'[2] = g
  BY <1>2, <1>4
<1>6. /\ rated' \in [Users -> Nat]
      /\ \A w \in Users : rated'[w] = IF w \in {row.host, row.guest} THEN 1 ELSE 0
  <2>1. \A w \in Users : rated[w] = 0
    BY DEF SettledExactlyOnce
  <2>2. rated' = [rated EXCEPT ![row.host] = @ + 1, ![row.guest] = @ + 1]
    BY DEF WriteFinishedGamesRows
  <2>3. rated \in [Users -> Nat]
    BY DEF TypeOK
  <2>4. ASSUME NEW p \in Users, NEW q \in Users, p # q,
               rated' = [rated EXCEPT ![p] = @ + 1, ![q] = @ + 1]
        PROVE  /\ rated' \in [Users -> Nat]
               /\ \A w \in Users : rated'[w] = IF w \in {p, q} THEN 1 ELSE 0
    <3>1. rated' \in [Users -> Nat]
      BY <2>3, <2>4
    <3>2. \A w \in Users : rated'[w] = IF w \in {p, q} THEN 1 ELSE 0
      BY <2>1, <2>3, <2>4
    <3>3. QED BY <3>1, <3>2
  <2>5. QED BY <2>2, <2>4
<1>7. SettledExactlyOnce'
  <2>1. ParticipantColor(row, row.host) = row.hostColor
        /\ ParticipantColor(row, row.guest) = Opposite(row.hostColor)
    BY ColorFacts DEF ParticipantColor
  <2>2. Opposite(Opposite(row.hostColor)) = row.hostColor
    BY ColorFacts
  <2>3. QED BY <1>3, <1>5, <1>6, <2>1, <2>2 DEF SettledExactlyOnce
<1>8. QED BY <1>5, <1>6, <1>7

LEMMA ResignKeepsIInv ==
  ASSUME IInv, NEW u \in Users, ResignGame(u)
  PROVE  IInv'
<1> USE DEF IInv, ledger
<1> DEFINE w == Opposite(ParticipantColor(game, u))
           row == [game EXCEPT !.state = "finished", !.winner = w,
                               !.version = @ + 1, !.finishedAt = "set"]
<1>1. /\ game \in Row /\ game' = row /\ committed' = committed \cup {row}
      /\ game.state = "in_progress"
      /\ ParticipantColor(game, u) # "none"
      /\ WriteFinishedGamesRows(row)
      /\ UNCHANGED <<stale, joining, chat, plies>>
  BY DEF ResignGame, TypeOK, Commit
<1>2. w \in Colors
  BY <1>1, ParticipantColorType, ColorFacts
<1> HIDE DEF w
<1>3. row \in Row
  <2>1. game.version + 1 \in Nat /\ w \in MaybeColor /\ "finished" \in States
        /\ "set" \in {"unset", "set"}
    BY <1>1, <1>2 DEF Row, MaybeColor, States
  <2>2. QED BY <1>1, <2>1, Zenon DEF Row
<1>4. /\ row.state = "finished" /\ row.version = game.version + 1
      /\ row.host = game.host /\ row.guest = game.guest /\ row.hostColor = game.hostColor
      /\ row.nextToMove = game.nextToMove /\ row.moves = game.moves
      /\ row.winner = w /\ row.finishedAt = "set"
      /\ row.abandonedBy = game.abandonedBy
  BY <1>1 DEF Row
<1>5. /\ game.host \in Users /\ game.guest \in Users /\ game.host # game.guest
      /\ game.hostColor \in Colors
  BY <1>1 DEF RowShape
<1>6. VersionIdentifiesRow'
  BY <1>1, <1>4, CommitVersions DEF Commit
<1> HIDE DEF row
<1>7. /\ history' \in Seq(HistoryRow) /\ rated' \in [Users -> Nat] /\ SettledExactlyOnce'
  BY <1>1, <1>2, <1>3, <1>4, <1>5, Settlement
<1>8. TypeOK'
  BY <1>1, <1>3, <1>7 DEF TypeOK
<1>9. RowShape' /\ LegalRecord'
  BY <1>1, <1>4, <1>5 DEF RowShape, LegalRecord
<1>10. StampsFollowState'
  BY <1>1, <1>2, <1>4, ColorFacts DEF StampsFollowState
<1>11. MovesDecidedOnCurrentBoard'
  BY <1>1, <1>4 DEF MovesDecidedOnCurrentBoard, ParticipantColor
<1>12. DeclineIsFinal'
  BY <1>1, <1>4 DEF DeclineIsFinal
<1>13. QED BY <1>6, <1>7, <1>8, <1>9, <1>10, <1>11, <1>12

LEMMA TerminateKeepsIInv ==
  ASSUME IInv, NEW u \in Users, NEW v \in Users, TerminateActiveGameBetween(u, v)
  PROVE  IInv'
<1> USE DEF IInv, ledger
<1>1. game \in Row /\ game.state = "in_progress"
  BY UsersAssumption DEF TypeOK, TerminateActiveGameBetween, RowShape
<1> DEFINE row == [game EXCEPT !.state = "abandoned", !.version = @ + 1,
                               !.finishedAt = "set", !.abandonedBy = u]
<1>2. /\ game' = row /\ committed' = committed \cup {row}
      /\ u \in {game.host, game.guest}
      /\ UNCHANGED <<stale, joining, history, rated, chat, plies>>
  BY <1>1 DEF TerminateActiveGameBetween, Commit
<1>3. row \in Row
  <2>1. game.version + 1 \in Nat /\ u \in MaybeUser /\ "abandoned" \in States
        /\ "set" \in {"unset", "set"}
    BY <1>1 DEF Row, MaybeUser, States
  <2>2. QED BY <1>1, <2>1, Zenon DEF Row
<1>4. /\ row.state = "abandoned" /\ row.version = game.version + 1
      /\ row.host = game.host /\ row.guest = game.guest /\ row.hostColor = game.hostColor
      /\ row.nextToMove = game.nextToMove /\ row.moves = game.moves
      /\ row.winner = game.winner /\ row.finishedAt = "set" /\ row.abandonedBy = u
  BY <1>1 DEF Row
<1>5. VersionIdentifiesRow'
  BY <1>2, <1>4, CommitVersions DEF Commit
<1> HIDE DEF row
<1>6. TypeOK'
  BY <1>2, <1>3 DEF TypeOK
<1>7. RowShape' /\ LegalRecord'
  BY <1>1, <1>2, <1>4 DEF RowShape, LegalRecord
<1>8. StampsFollowState'
  BY <1>1, <1>2, <1>4, UsersAssumption DEF StampsFollowState
<1>9. MovesDecidedOnCurrentBoard'
  BY <1>1, <1>2, <1>4 DEF MovesDecidedOnCurrentBoard, ParticipantColor
<1>10. SettledExactlyOnce'
  BY <1>1, <1>2, <1>4 DEF SettledExactlyOnce
<1>11. DeclineIsFinal'
  BY <1>1, <1>2, <1>4 DEF DeclineIsFinal
<1>12. QED BY <1>5, <1>6, <1>7, <1>8, <1>9, <1>10, <1>11

(* What a move does to the row, whether or not it wins.                    *)
LEMMA AfterMoveFacts ==
  ASSUME NEW row \in Row, NEW c \in Cells, NEW color \in Colors
  PROVE  LET after == AfterMove(row, c, color)
         IN  /\ after \in Row
             /\ after.host = row.host /\ after.guest = row.guest
             /\ after.hostColor = row.hostColor /\ after.intended = row.intended
             /\ after.moves = Append(row.moves, c) /\ after.version = row.version + 1
             /\ after.abandonedBy = row.abandonedBy
             /\ \/ /\ after.state = "finished" /\ after.winner = color
                   /\ after.finishedAt = "set"
                \/ /\ after.state = "in_progress" /\ after.winner = "none"
                   /\ after.nextToMove = Opposite(row.nextToMove)
                   /\ after.finishedAt = row.finishedAt
<1>1. Append(row.moves, c) \in Seq(Cells) /\ row.version + 1 \in Nat
  BY AppendProperties DEF Row
<1>2. "finished" \in States /\ "in_progress" \in States /\ "set" \in {"unset", "set"}
      /\ color \in MaybeColor /\ "none" \in MaybeColor
      /\ row.nextToMove \in Colors /\ Opposite(row.nextToMove) \in Colors
      /\ row.finishedAt \in {"unset", "set"}
  BY ColorFacts DEF States, Row
<1>3. CASE HasWinner(Append(row.moves, c), c, color)
  <2> DEFINE won == [row EXCEPT !.moves = Append(row.moves, c), !.version = row.version + 1,
                       !.state = "finished", !.winner = color,
                       !.nextToMove = row.nextToMove, !.finishedAt = "set"]
  <2>1. AfterMove(row, c, color) = won
    BY <1>3 DEF AfterMove
  <2>2. won \in Row
    BY <1>1, <1>2, Zenon DEF Row
  <2>3. /\ won.host = row.host /\ won.guest = row.guest
        /\ won.hostColor = row.hostColor /\ won.intended = row.intended
        /\ won.moves = Append(row.moves, c) /\ won.version = row.version + 1
        /\ won.abandonedBy = row.abandonedBy
        /\ won.state = "finished" /\ won.winner = color /\ won.finishedAt = "set"
    BY DEF Row
  <2> HIDE DEF won
  <2>4. QED BY <2>1, <2>2, <2>3
<1>4. CASE ~HasWinner(Append(row.moves, c), c, color)
  <2> DEFINE on == [row EXCEPT !.moves = Append(row.moves, c), !.version = row.version + 1,
                       !.state = "in_progress", !.winner = "none",
                       !.nextToMove = Opposite(row.nextToMove), !.finishedAt = row.finishedAt]
  <2>1. AfterMove(row, c, color) = on
    BY <1>4 DEF AfterMove
  <2>2. on \in Row
    BY <1>1, <1>2, Zenon DEF Row
  <2>3. /\ on.host = row.host /\ on.guest = row.guest
        /\ on.hostColor = row.hostColor /\ on.intended = row.intended
        /\ on.moves = Append(row.moves, c) /\ on.version = row.version + 1
        /\ on.abandonedBy = row.abandonedBy
        /\ on.state = "in_progress" /\ on.winner = "none"
        /\ on.nextToMove = Opposite(row.nextToMove) /\ on.finishedAt = row.finishedAt
    BY DEF Row
  <2> HIDE DEF on
  <2>4. QED BY <2>1, <2>2, <2>3
<1>5. QED BY <1>3, <1>4

(* The version a move names stands for one value of the row: the board its *)
(* player decided on is the board it is applied to.                        *)
LEMMA ViewIsCurrent ==
  ASSUME IInv, game.state # "none", NEW view \in committed, view.version = game.version
  PROVE  view = game
BY DEF IInv, RowShape, VersionIdentifiesRow

LEMMA MoveKeepsIInv ==
  ASSUME IInv, NEW u \in Users, NEW view \in committed, NEW c \in Cells,
         MakeMove(u, view, c)
  PROVE  IInv'
<1> USE DEF IInv, ledger
<1> DEFINE color == ParticipantColor(game, u)
           row == AfterMove(game, c, color)
           ply == [by |-> u, seen |-> game.moves]
           n == Len(game.moves)
<1>1. /\ game \in Row /\ game' = row /\ committed' = committed \cup {row}
      /\ game.state = "in_progress" /\ color # "none" /\ color = game.nextToMove
      /\ \A i \in DOMAIN game.moves : game.moves[i] # c
      /\ IF row.state = "finished" THEN WriteFinishedGamesRows(row) ELSE UNCHANGED <<history, rated>>
      /\ UNCHANGED <<stale, joining, chat>>
  BY DEF MakeMove, TypeOK, Commit
<1>2. plies' = Append(plies, ply)
  BY <1>1, ViewIsCurrent DEF MakeMove
<1>3. color \in Colors /\ game.hostColor \in Colors
  BY <1>1, ParticipantColorType
<1>4. /\ game.host \in Users /\ game.guest \in Users /\ game.host # game.guest
  BY <1>1 DEF RowShape
<1>5. /\ row \in Row
      /\ row.host = game.host /\ row.guest = game.guest
      /\ row.hostColor = game.hostColor /\ row.intended = game.intended
      /\ row.moves = Append(game.moves, c) /\ row.version = game.version + 1
      /\ row.abandonedBy = game.abandonedBy
      /\ \/ row.state = "finished" /\ row.winner = color /\ row.finishedAt = "set"
         \/ /\ row.state = "in_progress" /\ row.winner = "none"
            /\ row.nextToMove = Opposite(game.nextToMove)
            /\ row.finishedAt = game.finishedAt
  BY <1>1, <1>3, AfterMoveFacts
<1>6. /\ game.moves \in Seq(Cells) /\ n \in Nat /\ row.moves \in Seq(Cells)
      /\ Len(row.moves) = n + 1 /\ DOMAIN row.moves = 1 .. n + 1
      /\ DOMAIN game.moves = 1 .. n
      /\ \A i \in 1 .. n : row.moves[i] = game.moves[i]
      /\ row.moves[n + 1] = c
  BY <1>1, <1>5, AppendProperties, LenProperties DEF Row
<1>7. VersionIdentifiesRow'
  BY <1>1, <1>5, CommitVersions DEF Commit
<1>8. \A p : ParticipantColor(row, p) = ParticipantColor(game, p)
  BY <1>5 DEF ParticipantColor
<1>9. color = ColorOfPly(n + 1)
  BY <1>1 DEF LegalRecord
<1> HIDE DEF row, color
<1>10. /\ history' \in Seq(HistoryRow) /\ rated' \in [Users -> Nat] /\ SettledExactlyOnce'
  <2>1. CASE row.state = "finished"
    BY <1>1, <1>3, <1>4, <1>5, <2>1, Settlement
  <2>2. CASE row.state = "in_progress"
    <3>1. SettledExactlyOnce'
      BY <1>1, <1>5, <2>2 DEF SettledExactlyOnce
    <3>2. history' \in Seq(HistoryRow) /\ rated' \in [Users -> Nat]
      BY <1>1, <2>2 DEF TypeOK
    <3>3. QED BY <3>1, <3>2
  <2>3. QED BY <1>5, <2>1, <2>2
<1>11. /\ plies \in Seq([by : Users, seen : Seq(Cells)])
       /\ ply \in [by : Users, seen : Seq(Cells)]
       /\ Len(plies) = n
  BY <1>6 DEF TypeOK, MovesDecidedOnCurrentBoard
<1>12. /\ plies' \in Seq([by : Users, seen : Seq(Cells)])
       /\ DOMAIN plies' = 1 .. n + 1 /\ Len(plies') = n + 1
       /\ \A i \in 1 .. n : plies'[i] = plies[i]
       /\ plies'[n + 1] = ply
  <2> HIDE DEF ply
  <2>1. QED BY <1>2, <1>6, <1>11, AppendProperties, LenProperties
<1>13. TypeOK'
  BY <1>1, <1>5, <1>10, <1>12 DEF TypeOK
<1>14. RowShape'
  BY <1>1, <1>3, <1>4, <1>5 DEF RowShape
<1>15. StampsFollowState'
  BY <1>1, <1>3, <1>5, ColorFacts DEF StampsFollowState
<1>16. LegalRecord'
  <2>1. \A i, j \in DOMAIN row.moves : row.moves[i] = row.moves[j] => i = j
    <3>1. \A i, j \in 1 .. n : game.moves[i] = game.moves[j] => i = j
      BY <1>6 DEF LegalRecord
    <3>2. \A i \in 1 .. n : game.moves[i] # c
      BY <1>1, <1>6
    <3>3. \A i \in 1 .. n + 1 : i \in 1 .. n \/ i = n + 1
      BY <1>6
    <3>4. QED BY <1>6, <3>1, <3>2, <3>3
  <2>2. row.state = "in_progress" => row.nextToMove = ColorOfPly(n + 2)
    <3>1. ColorOfPly(n + 2) = Opposite(ColorOfPly(n + 1))
      BY <1>6, ColorAlternates
    <3>2. QED BY <1>1, <1>5, <1>9, <3>1
  <2>3. row.guest # NoUser /\ row.guest # row.host /\ row.hostColor # "none"
    BY <1>3, <1>4, <1>5, ColorFacts, UsersAssumption
  <2>4. Len(row.moves) + 1 = n + 2
    BY <1>6
  <2>5. QED BY <1>1, <2>1, <2>2, <2>3, <2>4 DEF LegalRecord
<1>17. MovesDecidedOnCurrentBoard'
  <2>1. ASSUME NEW i \in 1 .. n
        PROVE  /\ plies'[i].seen = SubSeq(row.moves, 1, i - 1)
               /\ ParticipantColor(row, plies'[i].by) = ColorOfPly(i)
    <3>1. /\ plies[i].seen = SubSeq(game.moves, 1, i - 1)
          /\ ParticipantColor(game, plies[i].by) = ColorOfPly(i)
      BY <1>11, LenProperties DEF MovesDecidedOnCurrentBoard
    <3>2. SubSeq(row.moves, 1, i - 1) = SubSeq(game.moves, 1, i - 1)
      BY <1>5, <1>6, AppendPrefix
    <3>3. QED BY <1>8, <1>12, <3>1, <3>2
  <2>2. /\ plies'[n + 1].seen = SubSeq(row.moves, 1, n)
        /\ ParticipantColor(row, plies'[n + 1].by) = ColorOfPly(n + 1)
    <3>1. SubSeq(row.moves, 1, n) = game.moves
      BY <1>5, <1>6, AppendPrefix, WholePrefix
    <3>2. ParticipantColor(row, u) = ColorOfPly(n + 1)
      BY <1>8, <1>9 DEF color
    <3>3. QED BY <1>12, <3>1, <3>2
  <2>3. \A i \in 1 .. n + 1 : i \in 1 .. n \/ (i = n + 1 /\ i - 1 = n)
    BY <1>6
  <2>4. QED BY <1>1, <1>6, <1>12, <2>1, <2>2, <2>3 DEF MovesDecidedOnCurrentBoard
<1>18. DeclineIsFinal'
  BY <1>1, <1>5 DEF DeclineIsFinal
<1>19. QED BY <1>7, <1>10, <1>13, <1>14, <1>15, <1>16, <1>17, <1>18

-----------------------------------------------------------------------------
LEMMA NextIInv == IInv /\ [Next]_vars => IInv'
<1> SUFFICES ASSUME IInv, [Next]_vars PROVE IInv'
  OBVIOUS
<1>1. ASSUME NEW u \in Users, NEW color \in MaybeColor, NewGame(u, color) PROVE IInv'
  BY <1>1, AllocateKeepsIInv DEF NewGame, MaybeUser
<1>2. ASSUME NEW u \in Users, NEW v \in Users, InviteGame(u, v) PROVE IInv'
  BY <1>2, AllocateKeepsIInv DEF InviteGame, MaybeUser, MaybeColor, Colors
<1>3. CASE Elapse
  BY <1>3, RowUntouched DEF Elapse, IInv, TypeOK
<1>4. CASE GetGame
  BY <1>4, CancellingKeepsIInv DEF GetGame
<1>5. ASSUME NEW u \in Users, JoinBegin(u) PROVE IInv'
  BY <1>5, RowUntouched DEF JoinBegin, IInv, TypeOK
<1>6. ASSUME NEW u \in Users, NEW chosen \in MaybeColor, JoinGame(u, chosen) PROVE IInv'
  BY <1>6, JoinKeepsIInv
<1>7. ASSUME NEW u \in Users, JoinRollback(u) PROVE IInv'
  BY <1>7, RowUntouched DEF JoinRollback, IInv, TypeOK
<1>8. ASSUME NEW u \in Users, CancelGame(u) PROVE IInv'
  BY <1>8, CancellingKeepsIInv DEF CancelGame
<1>9. ASSUME NEW u \in Users, DeclineInvite(u) PROVE IInv'
  BY <1>9, CancellingKeepsIInv DEF DeclineInvite
<1>10. ASSUME NEW u \in Users, NEW view \in committed, NEW c \in Cells, MakeMove(u, view, c)
       PROVE  IInv'
  BY <1>10, MoveKeepsIInv
<1>11. ASSUME NEW u \in Users, ResignGame(u) PROVE IInv'
  BY <1>11, ResignKeepsIInv
<1>12. ASSUME NEW u \in Users, NEW v \in Users, TerminateActiveGameBetween(u, v) PROVE IInv'
  BY <1>12, TerminateKeepsIInv
<1>13. CASE UNCHANGED vars
  BY <1>13, RowUntouched DEF vars, IInv, TypeOK, ledger
<1>14. QED
  BY <1>1, <1>2, <1>3, <1>4, <1>5, <1>6, <1>7, <1>8, <1>9, <1>10, <1>11, <1>12, <1>13
  DEF Next

(* The strengthened invariant holds in every reachable state.              *)
THEOREM Invariance == Spec => []IInv
<1>1. Init => IInv
  BY InitIInv
<1>2. IInv /\ [Next]_vars => IInv'
  BY NextIInv
<1>3. QED BY <1>1, <1>2, PTL DEF Spec

(* Types of all variables, in every room.                                  *)
THEOREM TypesHold == Spec => []TypeOK
<1>1. IInv => TypeOK
  BY DEF IInv
<1>2. QED BY <1>1, Invariance, PTL

(* GET ?since_version=N may compare versions alone: one version, one room. *)
THEOREM VersionsIdentifyRows == Spec => []VersionIdentifiesRow
<1>1. IInv => VersionIdentifiesRow
  BY DEF IInv
<1>2. QED BY <1>1, Invariance, PTL

(* However requests are delayed, repeated or reordered, each stone was     *)
(* placed by the owner of its colour on the board it had been shown.       *)
THEOREM MovesAreDecidedOnCurrentBoard == Spec => []MovesDecidedOnCurrentBoard
<1>1. IInv => MovesDecidedOnCurrentBoard
  BY DEF IInv
<1>2. QED BY <1>1, Invariance, PTL

(* The record of a room is that of a legal game.                           *)
THEOREM RecordIsLegal == Spec => []LegalRecord
<1>1. IInv => LegalRecord
  BY DEF IInv
<1>2. QED BY <1>1, Invariance, PTL

(* A finished room is settled once for both players, any other not at all. *)
THEOREM SettlesExactlyOnce == Spec => []SettledExactlyOnce
<1>1. IInv => SettledExactlyOnce
  BY DEF IInv
<1>2. QED BY <1>1, Invariance, PTL

(* A decline message stands only for a room that nobody ever joined.       *)
THEOREM DeclinesAreFinal == Spec => []DeclineIsFinal
<1>1. IInv => DeclineIsFinal
  BY DEF IInv
<1>2. QED BY <1>1, Invariance, PTL

(* Winner, leaver and finished_at are set in exactly the states they mean. *)
THEOREM StampsFollowStates == Spec => []StampsFollowState
<1>1. IInv => StampsFollowState
  BY DEF IInv
<1>2. QED BY <1>1, Invariance, PTL

(* No request, however late, changes a room that is over or what was       *)
(* settled for it.                                                         *)
THEOREM TerminalStaysForever == Spec => TerminalIsForever
<1>1. [Next]_vars =>
        [game.state \in Terminal => game' = game /\ UNCHANGED ledger]_vars
  <2> SUFFICES ASSUME [Next]_vars, game.state \in Terminal
               PROVE  game' = game /\ UNCHANGED ledger
    OBVIOUS
  <2>1. /\ game.state # "none" /\ game.state # "waiting" /\ game.state # "in_progress"
    BY DEF Terminal
  <2>2. CASE Next
    <3>1. /\ \A u \in Users, color \in MaybeColor : ~NewGame(u, color)
          /\ \A u, v \in Users : ~InviteGame(u, v) /\ ~TerminateActiveGameBetween(u, v)
      BY <2>1 DEF NewGame, InviteGame, AllocateGame, TerminateActiveGameBetween
    <3>2. \A u \in Users : ~CancelGame(u) /\ ~DeclineInvite(u) /\ ~ResignGame(u)
      BY <2>1 DEF CancelGame, DeclineInvite, ResignGame
    <3>3. ~GetGame /\ (\A u \in Users, color \in MaybeColor : ~JoinGame(u, color))
      BY <2>1 DEF GetGame, JoinGame
    <3>4. \A u \in Users, view \in committed, c \in Cells : ~MakeMove(u, view, c)
      BY <2>1 DEF MakeMove
    <3>5. Elapse \/ \E u \in Users : JoinBegin(u) \/ JoinRollback(u)
      BY <2>2, <3>1, <3>2, <3>3, <3>4 DEF Next
    <3>6. QED BY <3>5 DEF Elapse, JoinBegin, JoinRollback
  <2>3. CASE UNCHANGED vars
    BY <2>3 DEF vars, ledger
  <2>4. QED BY <2>2, <2>3
<1>2. QED BY <1>1, PTL DEF Spec, TerminalIsForever

-----------------------------------------------------------------------------
(* The refinement: what each handler is in the abstract room.              *)
LEMMA Parity ==
  ASSUME NEW n \in Nat
  PROVE  n % 2 = 0 <=> (n + 1) % 2 = 1
OBVIOUS

LEMMA OnTurnIsColorOfPly ==
  ASSUME IInv
  PROVE  Room!OnTurn = ColorOfPly(Len(game.moves) + 1)
<1>1. Len(game.moves) \in Nat
  BY LenProperties DEF IInv, TypeOK, Row
<1>2. Len(game.moves) % 2 = 0 <=> (Len(game.moves) + 1) % 2 = 1
  BY <1>1, Parity
<1>3. QED BY <1>2 DEF Room!OnTurn, ColorOfPly

LEMMA SameRoom ==
  ASSUME UNCHANGED game
  PROVE  UNCHANGED Room!lvars
BY DEF Room!lvars, Phase, Seats

LEMMA CancelIsWithdraw ==
  ASSUME IInv, game.state = "waiting",
         Commit([game EXCEPT !.state = "cancelled", !.version = @ + 1])
  PROVE  Room!Withdraw
<1>1. /\ game'.state = "cancelled" /\ game'.guest = game.guest /\ game'.host = game.host
      /\ game'.hostColor = game.hostColor /\ game'.moves = game.moves
      /\ game'.winner = game.winner
  BY DEF IInv, TypeOK, Row, Commit
<1>2. QED BY <1>1 DEF Room!Withdraw, Phase, Seats

LEMMA AllocateIsOpen ==
  ASSUME IInv, NEW u, NEW color, NEW by, NEW invitee, AllocateGame(u, color, by, invitee)
  PROVE  Room!Open
<1>1. game = NoRow
  BY DEF AllocateGame, IInv, RowShape
<1>2. /\ game'.state = "waiting" /\ game'.guest = NoUser /\ game'.moves = <<>>
      /\ game'.winner = "none"
  BY DEF AllocateGame, Commit, NoRow
<1>3. QED BY <1>1, <1>2 DEF Room!Open, Phase, Seats, NoRow

LEMMA JoinIsSit ==
  ASSUME IInv, NEW u \in Users, NEW chosen, JoinGame(u, chosen)
  PROVE  Room!Sit
<1>1. /\ game'.state = "in_progress" /\ game'.guest = u /\ game'.host = game.host
      /\ game'.moves = game.moves /\ game'.winner = game.winner
      /\ game.state = "waiting" /\ u # game.host
  BY DEF JoinGame, Commit, IInv, TypeOK, Row
<1>2. game.host \in Users /\ u # NoUser
  BY <1>1, UsersAssumption DEF IInv, RowShape
<1>3. Seats' \in {[X |-> game.host, O |-> u], [X |-> u, O |-> game.host]}
  BY <1>1, <1>2 DEF Seats
<1>4. QED BY <1>1, <1>2, <1>3 DEF Room!Sit, Phase

LEMMA MoveIsPutStone ==
  ASSUME IInv, NEW u \in Users, NEW view, NEW c \in Cells, MakeMove(u, view, c)
  PROVE  Room!PutStone
<1> DEFINE color == ParticipantColor(game, u)
           row == AfterMove(game, c, color)
<1>1. /\ game \in Row /\ game' = row /\ game.state = "in_progress" /\ color # "none"
      /\ color = game.nextToMove /\ \A i \in DOMAIN game.moves : game.moves[i] # c
  BY DEF MakeMove, Commit, IInv, TypeOK
<1>2. color \in Colors
  BY <1>1, ParticipantColorType
<1>3. /\ row.host = game.host /\ row.guest = game.guest /\ row.hostColor = game.hostColor
      /\ row.moves = Append(game.moves, c)
      /\ \/ row.state = "finished" /\ row.winner = color
         \/ row.state = "in_progress" /\ row.winner = "none"
  BY <1>1, <1>2, AfterMoveFacts
<1>4. color = Room!OnTurn
  BY <1>1, OnTurnIsColorOfPly DEF IInv, LegalRecord
<1> HIDE DEF row, color
<1>5. Phase = "playing" /\ Seats' = Seats
  BY <1>1, <1>3 DEF Phase, Seats
<1>6. \/ Phase' = "playing" /\ game'.winner = "none"
      \/ Phase' = "closed" /\ game'.winner = Room!OnTurn
  BY <1>1, <1>3, <1>4 DEF Phase
<1>7. QED BY <1>1, <1>3, <1>5, <1>6 DEF Room!PutStone

LEMMA ResignIsLeave ==
  ASSUME IInv, NEW u \in Users, ResignGame(u)
  PROVE  Room!Leave
<1>1. /\ game \in Row /\ game.state = "in_progress" /\ ParticipantColor(game, u) # "none"
      /\ game'.state = "finished" /\ game'.winner = Opposite(ParticipantColor(game, u))
      /\ game'.guest = game.guest /\ game'.host = game.host
      /\ game'.hostColor = game.hostColor /\ game'.moves = game.moves
  BY DEF ResignGame, Commit, IInv, TypeOK, Row
<1>2. game'.winner \in {"X", "O"}
  BY <1>1, ParticipantColorType DEF Colors, Opposite
<1>3. QED BY <1>1, <1>2 DEF Room!Leave, Phase, Seats

LEMMA TerminateIsLeave ==
  ASSUME IInv, NEW u \in Users, NEW v \in Users, TerminateActiveGameBetween(u, v)
  PROVE  Room!Leave
<1>1. game \in Row /\ game.state = "in_progress"
  BY UsersAssumption DEF IInv, TypeOK, TerminateActiveGameBetween, RowShape
<1>2. /\ game'.state = "abandoned" /\ game'.winner = game.winner
      /\ game'.guest = game.guest /\ game'.host = game.host
      /\ game'.hostColor = game.hostColor /\ game'.moves = game.moves
  BY <1>1 DEF TerminateActiveGameBetween, Commit, Row
<1>3. game.winner = "none"
  BY <1>1 DEF IInv, StampsFollowState
<1>4. QED BY <1>1, <1>2, <1>3 DEF Room!Leave, Phase, Seats

(* Every step of every handler is a step of the abstract room or leaves it *)
(* as it was: the seats are kept, stones are only added, in turn, and the  *)
(* room ends once.                                                         *)
THEOREM RefinesRoomLifecycle == Spec => ImplementsRoomLifecycle
<1>1. Init => Room!LInit
  BY DEF Init, NoRow, Room!LInit, Room!EmptySeats, Phase, Seats
<1>2. IInv /\ [Next]_vars => [Room!LNext]_(Room!lvars)
  <2> SUFFICES ASSUME IInv, [Next]_vars
               PROVE  Room!LNext \/ UNCHANGED Room!lvars
    OBVIOUS
  <2>1. ASSUME NEW u \in Users,
               \/ \E color \in MaybeColor : NewGame(u, color)
               \/ \E v \in Users : InviteGame(u, v)
        PROVE  Room!Open
    BY <2>1, AllocateIsOpen DEF NewGame, InviteGame
  <2>2. ASSUME NEW u \in Users, JoinBegin(u) \/ JoinRollback(u)
        PROVE  UNCHANGED Room!lvars
    BY <2>2, SameRoom DEF JoinBegin, JoinRollback
  <2>3. ASSUME NEW u \in Users, CancelGame(u) \/ DeclineInvite(u)
        PROVE  Room!Withdraw
    BY <2>3, CancelIsWithdraw DEF CancelGame, DeclineInvite
  <2>4. ASSUME NEW u \in Users, NEW chosen \in MaybeColor, JoinGame(u, chosen)
        PROVE  Room!Sit
    BY <2>4, JoinIsSit
  <2>5. ASSUME NEW u \in Users, NEW view \in committed, NEW c \in Cells,
               MakeMove(u, view, c)
        PROVE  Room!PutStone
    BY <2>5, MoveIsPutStone
  <2>6. ASSUME NEW u \in Users, NEW v \in Users,
               ResignGame(u) \/ TerminateActiveGameBetween(u, v)
        PROVE  Room!Leave
    BY <2>6, ResignIsLeave, TerminateIsLeave
  <2>7. CASE Elapse
    BY <2>7, SameRoom DEF Elapse
  <2>8. CASE GetGame
    BY <2>8, CancelIsWithdraw DEF GetGame, Room!LNext
  <2>9. CASE UNCHANGED vars
    BY <2>9, SameRoom DEF vars
  <2>10. QED
    BY <2>1, <2>2, <2>3, <2>4, <2>5, <2>6, <2>7, <2>8, <2>9 DEF Next, Room!LNext
<1>3. QED BY <1>1, <1>2, Invariance, PTL DEF Spec, ImplementsRoomLifecycle, Room!LSpec
=============================================================================
