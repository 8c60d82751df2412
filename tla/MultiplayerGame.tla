-------------------------- MODULE MultiplayerGame --------------------------
(***************************************************************************)
(* One multiplayer room: a row of multiplayer_games and what the handlers  *)
(* of api/app/routers/multiplayer.py (with chat.py's decline and social.py's *)
(* block) do to it.                                                        *)
(*                                                                         *)
(* Every writing handler opens its transaction by locking the row (SELECT  *)
(* ... FOR UPDATE, or one UPDATE), so a handler is one action; only        *)
(* join_game runs a statement before it holds the lock, and is two.        *)
(*                                                                         *)
(* A client acts on a view it was sent earlier, over a network that may    *)
(* delay, repeat or lose anything: a request may carry any view that was   *)
(* ever visible, which is what the history variable `committed` records.   *)
(***************************************************************************)
EXTENDS WinDetector

CONSTANTS
  Users,
  NoUser       (* the NULL of a user column                                 *)

ASSUME UsersAssumption == NoUser \notin Users

VARIABLES
  game,        (* the row                                                   *)
  stale,       (* NOW() has passed the row's expires_at                     *)
  joining,     (* users whose join transaction ran its expiry statement     *)
  history,     (* rows of the games table written for this room             *)
  rated,       (* per user, what this room added to users.elo_games_count   *)
  chat,        (* speakers of the decline messages in the room's chat       *)
  committed,   (* history variable: every value of the row ever visible     *)
  plies        (* history variable: who made each move, having seen what    *)

vars == <<game, stale, joining, history, rated, chat, committed, plies>>
ledger == <<history, rated>>

MaybeUser  == Users \cup {NoUser}
MaybeColor == Colors \cup {"none"}
States     == {"none", "waiting", "in_progress", "finished", "abandoned", "cancelled"}
Terminal   == {"finished", "abandoned", "cancelled"}

Row == [state : States, host : MaybeUser, guest : MaybeUser, intended : MaybeUser,
        hostColor : MaybeColor, colorBy : {"host", "guest"},
        nextToMove : Colors, moves : Seq(Cells), winner : MaybeColor,
        version : Nat, finishedAt : {"unset", "set"}, abandonedBy : MaybeUser]

(* The column defaults of the migration; "none" before the INSERT.         *)
NoRow == [state |-> "none", host |-> NoUser, guest |-> NoUser, intended |-> NoUser,
          hostColor |-> "none", colorBy |-> "host",
          nextToMove |-> "X", moves |-> <<>>, winner |-> "none",
          version |-> 0, finishedAt |-> "unset", abandonedBy |-> NoUser]

HistoryRow == [user : Users, opponent : Users, human : Colors, winner : Colors,
               total : Nat]

Init ==
  /\ game = NoRow
  /\ stale = FALSE
  /\ joining = {}
  /\ history = <<>>
  /\ rated = [u \in Users |-> 0]
  /\ chat = <<>>
  /\ committed = {}
  /\ plies = <<>>

(* The row a transaction leaves behind when it commits.                    *)
Commit(row) ==
  /\ game' = row
  /\ committed' = committed \cup {row}

(* _participant_color: a host who let the guest pick has no colour yet.    *)
ParticipantColor(row, u) ==
  IF u = row.host THEN row.hostColor
  ELSE IF u = row.guest /\ row.hostColor # "none" THEN Opposite(row.hostColor)
  ELSE "none"

-----------------------------------------------------------------------------
(* Creation: allocate_game inserts the row with the defaults.              *)
AllocateGame(u, color, by, invitee) ==
  /\ game.state = "none"
  /\ Commit([NoRow EXCEPT !.state = "waiting", !.host = u, !.hostColor = color,
                          !.colorBy = by, !.intended = invitee])
  /\ UNCHANGED <<stale, joining, ledger, chat, plies>>

(* POST /multiplayer/new: no colour means the guest chooses.               *)
NewGame(u, color) ==
  AllocateGame(u, color, IF color = "none" THEN "guest" ELSE "host", NoUser)

(* The row of POST /chat/invite: the host plays X, the invitee is named.   *)
InviteGame(u, v) == u # v /\ AllocateGame(u, "X", "host", v)

(* Time: expires_at is set once, 15 minutes after creation.                *)
Elapse ==
  /\ game.state # "none" /\ ~stale
  /\ stale' = TRUE
  /\ UNCHANGED <<game, joining, ledger, chat, committed, plies>>

(* GET /multiplayer/{code} by anybody: lazy expiry, then a read.           *)
GetGame ==
  /\ game.state = "waiting" /\ stale
  /\ Commit([game EXCEPT !.state = "cancelled", !.version = @ + 1])
  /\ UNCHANGED <<stale, joining, ledger, chat, plies>>

(* POST /{code}/join. The expiry statement comes before the row lock. On a *)
(* stale room it would cancel the row, but the GameCancelled raised next   *)
(* rolls that back: such a request changes nothing. Begun in any state but *)
(* "waiting" it is refused, as no room ever goes back to waiting.          *)
JoinBegin(u) ==
  /\ game.state = "waiting" /\ ~stale
  /\ u \notin joining
  /\ joining' = joining \cup {u}
  /\ UNCHANGED <<game, stale, ledger, chat, committed, plies>>

JoinGameSeatTaken(u, chosen) ==                                  \* mutant
  /\ u \in joining
  /\ joining' = joining \ {u}
  /\ u # game.host
  /\ game.state # "cancelled"
  /\ (chosen # "none") <=> (game.colorBy = "guest")
  /\ Commit([game EXCEPT !.guest = u, !.state = "in_progress", !.version = @ + 1,
               !.hostColor = IF game.colorBy = "guest" THEN Opposite(chosen)
                             ELSE IF game.hostColor # "none" THEN game.hostColor
                             ELSE "X"])
  /\ UNCHANGED <<stale, ledger, chat, plies>>

JoinGame(u, chosen) ==
  /\ u \in joining
  /\ joining' = joining \ {u}
  /\ u # game.host
  /\ game.state # "cancelled"
  /\ game.guest = NoUser
  /\ game.state = "waiting"
  /\ (chosen # "none") <=> (game.colorBy = "guest")
  /\ Commit([game EXCEPT !.guest = u, !.state = "in_progress", !.version = @ + 1,
               !.hostColor = IF game.colorBy = "guest" THEN Opposite(chosen)
                             ELSE IF game.hostColor # "none" THEN game.hostColor
                             ELSE "X"])
  /\ UNCHANGED <<stale, ledger, chat, plies>>

(* A join whose checks fail, or whose connection is lost, rolls back.      *)
JoinRollback(u) ==
  /\ u \in joining
  /\ joining' = joining \ {u}
  /\ UNCHANGED <<game, stale, ledger, chat, committed, plies>>

CancelGameSameVersion(u) ==                                      \* mutant
  /\ u = game.host
  /\ game.state = "waiting"
  /\ Commit([game EXCEPT !.state = "cancelled"])
  /\ UNCHANGED <<stale, joining, ledger, chat, plies>>

(* POST /{code}/cancel.                                                    *)
CancelGame(u) ==
  /\ u = game.host
  /\ game.state = "waiting"
  /\ Commit([game EXCEPT !.state = "cancelled", !.version = @ + 1])
  /\ UNCHANGED <<stale, joining, ledger, chat, plies>>

DeclineInviteAnyState(u) ==                                      \* mutant
  /\ u = game.intended
  /\ Commit([game EXCEPT !.state = "cancelled", !.version = @ + 1])
  /\ chat' = Append(chat, u)
  /\ UNCHANGED <<stale, joining, ledger, plies>>

(* POST /chat/incoming/{code}/decline, with its message in the same        *)
(* transaction.                                                            *)
DeclineInvite(u) ==
  /\ u = game.intended
  /\ game.state = "waiting"
  /\ Commit([game EXCEPT !.state = "cancelled", !.version = @ + 1])
  /\ chat' = Append(chat, u)
  /\ UNCHANGED <<stale, joining, ledger, plies>>

-----------------------------------------------------------------------------
(* _write_finished_games_rows: one history row per participant, and both   *)
(* rated games counted. (The ratings themselves are in Ratings.)          *)
GameRow(row, u, v, color) ==
  [user |-> u, opponent |-> v, human |-> color, winner |-> row.winner,
   total |-> Len(row.moves)]

WriteFinishedGamesRowsSameColor(row) ==                          \* mutant
  /\ history' = history \o <<GameRow(row, row.host, row.guest, row.hostColor),
                             GameRow(row, row.guest, row.host, row.hostColor)>>
  /\ rated' = [rated EXCEPT ![row.host] = @ + 1, ![row.guest] = @ + 1]
WriteFinishedGamesRows(row) ==
  /\ history' = history \o <<GameRow(row, row.host, row.guest, row.hostColor),
                             GameRow(row, row.guest, row.host, Opposite(row.hostColor))>>
  /\ rated' = [rated EXCEPT ![row.host] = @ + 1, ![row.guest] = @ + 1]

(* The row after the move c of colour `color`.                             *)
AfterMove(row, c, color) ==
  LET moves == Append(row.moves, c)
      won   == HasWinner(moves, c, color)
  IN  [row EXCEPT !.moves = moves, !.version = @ + 1,
         !.state      = IF won THEN "finished" ELSE "in_progress",
         !.winner     = IF won THEN color ELSE "none",
         !.nextToMove = IF won THEN @ ELSE Opposite(@),
         !.finishedAt = IF won THEN "set" ELSE @]

MakeMoveUnversioned(u, view, c) ==                               \* mutant
  LET color == ParticipantColor(game, u)
      after == AfterMove(game, c, color)
  IN
  /\ color # "none"
  /\ game.state = "in_progress"
  /\ color = game.nextToMove
  /\ \A i \in DOMAIN game.moves : game.moves[i] # c
  /\ Commit(after)
  /\ IF after.state = "finished" THEN WriteFinishedGamesRows(after) ELSE UNCHANGED ledger
  /\ plies' = Append(plies, [by |-> u, seen |-> view.moves])
  /\ UNCHANGED <<stale, joining, chat>>

MakeMoveOnStone(u, view, c) ==                                   \* mutant
  LET color == ParticipantColor(game, u)
      after == AfterMove(game, c, color)
  IN
  /\ color # "none"
  /\ game.state = "in_progress"
  /\ view.version = game.version
  /\ color = game.nextToMove
  /\ Commit(after)
  /\ IF after.state = "finished" THEN WriteFinishedGamesRows(after) ELSE UNCHANGED ledger
  /\ plies' = Append(plies, [by |-> u, seen |-> view.moves])
  /\ UNCHANGED <<stale, joining, chat>>

(* POST /{code}/move: a client that was shown `view` plays c on it.        *)
MakeMove(u, view, c) ==
  LET color == ParticipantColor(game, u)
      after == AfterMove(game, c, color)
  IN
  /\ color # "none"
  /\ game.state = "in_progress"
  /\ view.version = game.version
  /\ color = game.nextToMove
  /\ \A i \in DOMAIN game.moves : game.moves[i] # c
  /\ Commit(after)
  /\ IF after.state = "finished" THEN WriteFinishedGamesRows(after) ELSE UNCHANGED ledger
  /\ plies' = Append(plies, [by |-> u, seen |-> view.moves])
  /\ UNCHANGED <<stale, joining, chat>>

ResignGameAnyState(u) ==                                         \* mutant
  LET color == ParticipantColor(game, u)
      after == [game EXCEPT !.state = "finished", !.winner = Opposite(color),
                            !.version = @ + 1, !.finishedAt = "set"]
  IN
  /\ color # "none" /\ game.guest # NoUser
  /\ Commit(after)
  /\ WriteFinishedGamesRows(after)
  /\ UNCHANGED <<stale, joining, chat, plies>>

ResignGameSettledFirst(u) ==                                     \* mutant
  LET color == ParticipantColor(game, u)
      after == [game EXCEPT !.state = "finished", !.winner = Opposite(color),
                            !.version = @ + 1, !.finishedAt = "set"]
  IN
  /\ color # "none"
  /\ game.state = "in_progress"
  /\ Commit(after)
  /\ WriteFinishedGamesRows(game)
  /\ UNCHANGED <<stale, joining, chat, plies>>

(* POST /{code}/resign: no version check, on either player's turn.         *)
ResignGame(u) ==
  LET color == ParticipantColor(game, u)
      after == [game EXCEPT !.state = "finished", !.winner = Opposite(color),
                            !.version = @ + 1, !.finishedAt = "set"]
  IN
  /\ color # "none"
  /\ game.state = "in_progress"
  /\ Commit(after)
  /\ WriteFinishedGamesRows(after)
  /\ UNCHANGED <<stale, joining, chat, plies>>

TerminateActiveGameUnsigned(u, v) ==                             \* mutant
  /\ game.state \in {"waiting", "in_progress"}
  /\ \/ game.host = u /\ game.guest = v
     \/ game.host = v /\ game.guest = u
  /\ Commit([game EXCEPT
               !.state = IF @ = "waiting" THEN "cancelled" ELSE "abandoned",
               !.version = @ + 1, !.finishedAt = "set"])
  /\ UNCHANGED <<stale, joining, ledger, chat, plies>>

(* The statement of POST /social/block that ends the pair's game. A room   *)
(* still waiting has no guest, so the WHERE clause never matches it.       *)
TerminateActiveGameBetween(u, v) ==
  /\ game.state \in {"waiting", "in_progress"}
  /\ \/ game.host = u /\ game.guest = v
     \/ game.host = v /\ game.guest = u
  /\ Commit([game EXCEPT
               !.state = IF @ = "waiting" THEN "cancelled" ELSE "abandoned",
               !.version = @ + 1, !.finishedAt = "set",
               !.abandonedBy = IF game.state = "in_progress" THEN u ELSE NoUser])
  /\ UNCHANGED <<stale, joining, ledger, chat, plies>>

Next ==
  \/ \E u \in Users, color \in MaybeColor : NewGame(u, color)
  \/ \E u, v \in Users : InviteGame(u, v)
  \/ Elapse
  \/ GetGame
  \/ \E u \in Users : JoinBegin(u)
  \/ \E u \in Users, chosen \in MaybeColor : JoinGame(u, chosen)
  \/ \E u \in Users : JoinRollback(u)
  \/ \E u \in Users : CancelGame(u)
  \/ \E u \in Users : DeclineInvite(u)
  \/ \E u \in Users, view \in committed, c \in Cells : MakeMove(u, view, c)
  \/ \E u \in Users : ResignGame(u)
  \/ \E u, v \in Users : TerminateActiveGameBetween(u, v)

Spec == Init /\ [][Next]_vars

(* Time passes, and a transaction that has begun ends. Nothing else is     *)
(* sure: no job of the server looks for stale rooms, and nobody has to     *)
(* read one. The host's dialog stops polling after fifteen minutes, an     *)
(* invitation opens none, and a tab that was closed reads nothing.         *)
FairSpec ==
  /\ Spec
  /\ WF_vars(Elapse)
  /\ \A u \in Users :
       WF_vars(JoinRollback(u) \/ \E chosen \in MaybeColor : JoinGame(u, chosen))

-----------------------------------------------------------------------------
(* Types of all variables.                                                 *)
TypeOK ==
  /\ game \in Row
  /\ stale \in BOOLEAN
  /\ joining \subseteq Users
  /\ history \in Seq(HistoryRow)
  /\ rated \in [Users -> Nat]
  /\ chat \in Seq(Users)
  /\ committed \subseteq Row
  /\ plies \in Seq([by : Users, seen : Seq(Cells)])

(* GET ?since_version=N answers "no change" by comparing versions alone:   *)
(* two values of the row that were ever visible under one version are the  *)
(* same value, and none is ahead of the row, so a client told "no change"  *)
(* holds the current room.                                                 *)
VersionIdentifiesRow ==
  /\ \A a, b \in committed : a.version = b.version => a = b
  /\ \A a \in committed : a.version <= game.version

(* A retried, delayed or duplicated move is never applied to a position    *)
(* its player had not seen: every stone was placed by the player whose     *)
(* colour it has, on exactly the position made by the stones before it.    *)
MovesDecidedOnCurrentBoard ==
  /\ Len(plies) = Len(game.moves)
  /\ \A i \in DOMAIN plies :
       /\ plies[i].seen = SubSeq(game.moves, 1, i - 1)
       /\ ParticipantColor(game, plies[i].by) = ColorOfPly(i)

(* The record is that of a legal game: no cell twice, the turn follows the *)
(* parity that has_winner relies on, and no game is played alone.          *)
LegalRecord ==
  /\ \A i, j \in DOMAIN game.moves : game.moves[i] = game.moves[j] => i = j
  /\ game.state = "in_progress" => game.nextToMove = ColorOfPly(Len(game.moves) + 1)
  /\ game.guest # NoUser => game.guest # game.host /\ game.hostColor # "none"
  /\ game.moves # <<>> => game.guest # NoUser

(* A finished room is settled exactly once: one history row for each of    *)
(* the two players, naming each other, with opposite colours and the same  *)
(* winner, and one rated game each. Any other room settles nothing.        *)
SettledExactlyOnce ==
  /\ game.state # "finished" => history = <<>>
  /\ game.state = "finished" =>
       /\ Len(history) = 2
       /\ \A i \in {1, 2} :
            /\ history[i].opponent = history[3 - i].user
            /\ history[i].human = Opposite(history[3 - i].human)
            /\ history[i].human = ParticipantColor(game, history[i].user)
            /\ history[i].winner = game.winner
            /\ history[i].total = Len(game.moves)
  /\ \A u \in Users :
       rated[u] = IF game.state = "finished" /\ u \in {game.host, game.guest} THEN 1 ELSE 0

(* A decline never hits a room that was joined, expired or cancelled: its  *)
(* message stands at most once, from the invitee, in a cancelled room that *)
(* nobody joined.                                                          *)
DeclineIsFinal ==
  chat # <<>> => /\ Len(chat) = 1 /\ chat[1] = game.intended
                 /\ game.state = "cancelled" /\ game.guest = NoUser

(* The stamps follow the state (the abandoned CHECK of the migration, and  *)
(* finished_at): a winner exactly in finished rooms, a leaver, who was one *)
(* of the two players, exactly in abandoned ones.                          *)
StampsFollowState ==
  /\ game.state = "finished" <=> game.winner # "none"
  /\ game.state = "abandoned" <=> game.abandonedBy # NoUser
  /\ game.abandonedBy # NoUser => game.abandonedBy \in {game.host, game.guest}
  /\ game.finishedAt = "set" <=> game.state \in {"finished", "abandoned"}

(* What the theorems of MultiplayerGameProofs rest on: which columns a     *)
(* state fills, and that the row itself is among the visible values.       *)
RowShape ==
  /\ game.state = "none" => game = NoRow
  /\ game.state = "waiting" => game.host \in Users
  /\ game.state \in {"none", "waiting", "cancelled"} =>
       game.guest = NoUser /\ game.moves = <<>> /\ game.nextToMove = "X"
  /\ game.state \in {"in_progress", "finished", "abandoned"} =>
       /\ game.host \in Users /\ game.guest \in Users /\ game.host # game.guest
       /\ game.hostColor \in Colors
  /\ game.state = "none" => committed = {}
  /\ game.state # "none" => game \in committed

IInv ==
  /\ TypeOK
  /\ RowShape
  /\ VersionIdentifiesRow
  /\ MovesDecidedOnCurrentBoard
  /\ LegalRecord
  /\ SettledExactlyOnce
  /\ DeclineIsFinal
  /\ StampsFollowState

(* Once over, a room never changes again, whatever requests still arrive.  *)
TerminalIsForever == [][game.state \in Terminal => game' = game /\ UNCHANGED ledger]_vars

(* The room as its players know it: the row implements RoomLifecycle.      *)
Phase ==
  IF game.state = "none" THEN "absent"
  ELSE IF game.state = "waiting" THEN "open"
  ELSE IF game.state = "in_progress" THEN "playing" ELSE "closed"

Seats ==
  IF game.guest = NoUser THEN [X |-> NoUser, O |-> NoUser]
  ELSE IF game.hostColor = "X" THEN [X |-> game.host, O |-> game.guest]
  ELSE [X |-> game.guest, O |-> game.host]

Room == INSTANCE RoomLifecycle WITH
  People <- Users, Nobody <- NoUser, Points <- Cells,
  phase <- Phase, seats <- Seats, record <- game.moves, outcome <- game.winner

(* Every handler, in any interleaving and with any retries, is a step of   *)
(* the lifecycle or leaves it alone: seats never change hands, no stone is *)
(* moved or removed, nobody plays out of turn, the room closes once.       *)
ImplementsRoomLifecycle == Room!LSpec

(* "If the invitee never joins, the standard 15-minute lazy-expiry kicks   *)
(* in": a room nobody joins does not stay open for ever. The code keeps    *)
(* this only for a room that somebody reads by its code (README).          *)
WaitingEnds == (game.state = "waiting") ~> (game.state # "waiting")
=============================================================================
