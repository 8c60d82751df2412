------------------------------ MODULE Ratings ------------------------------
(***************************************************************************)
(* Elo ratings under concurrent rated games. Two kinds of transaction      *)
(* write them: the settlement of a finished room                           *)
(* (_write_finished_games_rows, inside the move or the resignation) and    *)
(* POST /game/save for a game against the AI. Both first read the players' *)
(* rows without locking them (READ COMMITTED), compute, and later write    *)
(* absolute ratings; PostgreSQL locks a row from its UPDATE to the end of  *)
(* the transaction. Each statement that touches users or updates a row of  *)
(* games is one step.                                                      *)
(*                                                                         *)
(* A save may name the row of games that /game/start opened. That row is   *)
(* then updated in place, be it saved already or not: a game may be saved  *)
(* more than once (by two tabs, or again after a lost answer).             *)
(***************************************************************************)
EXTENDS Integers, Sequences, FiniteSetsExt

CONSTANTS
  Users,
  NoUser,      (* the guest of a game against the AI                        *)
  Games,       (* what is rated, each by one transaction                    *)
  AiGames,     (* those of them that are saves of games against the AI      *)
  Sessions,    (* the rows of games opened by /game/start                   *)
  NoSession,   (* a save that names no row                                  *)
  Owner(_),    (* the user_id of such a row                                 *)
  Initial,     (* INITIAL_RATING                                            *)
  AiRating,    (* ai_tier_rating of the difficulty played                   *)
  Gap,         (* lead beyond which the favourite's win rounds to 0 points  *)
  Provisional  (* number of games with the larger K factor                  *)

ASSUME RatingsAssumption ==
  /\ NoUser \notin Users
  /\ AiGames \subseteq Games
  /\ NoSession \notin Sessions /\ Sessions \cap Games = {}
  /\ {Initial, AiRating} \subseteq Int
  /\ {Gap, Provisional} \subseteq Nat

VARIABLES
  users,       (* the committed row of each user                            *)
  ratingTx,    (* the transaction that rates each game                      *)
  history      (* the versions of the rated rows of games, in commit order: *)
               (* the table shows the newest version of each row            *)

ratingVars == <<users, ratingTx, history>>

UserRow == [rating : Int, peak : Int, count : Nat]
NewUser == [rating |-> Initial, peak |-> Initial, count |-> 0]

Steps == {"idle", "readHost", "readGuest", "updateRow", "updateHost", "updateGuest", "commit", "done"}
Idle == [pc |-> "idle", host |-> NoUser, guest |-> NoUser, hostWon |-> FALSE,
         hostSnap |-> NewUser, guestSnap |-> NewUser, row |-> NoSession]

(* elo.py: k_factor, and update with what a win earns a player rated ra    *)
(* over one rated rb. The loser drops by the same rule, each at their K.   *)
KFactor(count) == IF count < Provisional THEN 2 ELSE 1
Points(ra, rb, k) == IF ra - rb > Gap THEN 0 ELSE k
EloUpdate(ra, rb, won, k) ==
  IF won THEN ra + Points(ra, rb, k) ELSE ra - Points(rb, ra, k)

RatingInit ==
  /\ users = [u \in Users |-> NewUser]
  /\ ratingTx = [g \in Games |-> Idle]
  /\ history = <<>>

(* A save finds the row it names if it is the user's own.                  *)
FindsRow(t) == t.row \in Sessions /\ Owner(t.row) = t.host
RowHeld(row, g) ==
  \E other \in AiGames \ {g} :
    /\ ratingTx[other].pc \in {"updateHost", "commit"}
    /\ FindsRow(ratingTx[other]) /\ ratingTx[other].row = row

(* The users that the transaction of g has updated, and so holds locked.   *)
Held(g) ==
  CASE ratingTx[g].pc = "updateGuest" -> {ratingTx[g].host}
    [] ratingTx[g].pc = "commit" -> {ratingTx[g].host, ratingTx[g].guest}
    [] OTHER -> {}

Locked(u, g) == \E other \in Games \ {g} : u \in Held(other)

Goto(g, from, to) ==
  /\ ratingTx[g].pc = from
  /\ ratingTx' = [ratingTx EXCEPT ![g].pc = to]
  /\ UNCHANGED <<users, history>>

-----------------------------------------------------------------------------
(* A room is won: by its host or its guest.                                *)
BeginRoom(g, host, guest, hostWon) ==
  /\ ratingTx[g].pc = "idle" /\ g \notin AiGames /\ host # guest
  /\ ratingTx' = [ratingTx EXCEPT ![g] = [Idle EXCEPT !.pc = "readHost", !.host = host,
                                                      !.guest = guest, !.hostWon = hostWon]]
  /\ UNCHANGED <<users, history>>

(* The browser saves a finished game against the AI.                       *)
BeginSave(g, u, won, row) ==
  /\ ratingTx[g].pc = "idle" /\ g \in AiGames
  /\ ratingTx' = [ratingTx EXCEPT ![g] = [Idle EXCEPT !.pc = "readHost", !.host = u,
                                                      !.hostWon = won, !.row = row]]
  /\ UNCHANGED <<users, history>>

(* fetch_user_elo_snapshot: a SELECT, it neither locks nor waits.          *)
ReadHost(g) ==
  /\ ratingTx[g].pc = "readHost"
  /\ ratingTx' = [ratingTx EXCEPT ![g].hostSnap = users[ratingTx[g].host],
                                  ![g].pc = IF g \notin AiGames THEN "readGuest"
                                            ELSE IF FindsRow(ratingTx[g]) THEN "updateRow"
                                            ELSE "updateHost"]
  /\ UNCHANGED <<users, history>>

ReadGuest(g) ==
  /\ ratingTx[g].pc = "readGuest"
  /\ ratingTx' = [ratingTx EXCEPT ![g].guestSnap = users[ratingTx[g].guest],
                                  ![g].pc = "updateHost"]
  /\ UNCHANGED <<users, history>>

(* The UPDATE of the row a save names. A save that finds none inserts one  *)
(* when it commits, which waits for nobody.                                *)
UpdateRow(g) ==
  /\ ~RowHeld(ratingTx[g].row, g)
  /\ Goto(g, "updateRow", "updateHost")

(* update_user_elo and the UPDATE of /game/save: each waits for the row.   *)
UpdateHost(g) ==
  /\ ~Locked(ratingTx[g].host, g)
  /\ Goto(g, "updateHost", IF g \in AiGames THEN "commit" ELSE "updateGuest")

UpdateGuest(g) ==
  /\ ~Locked(ratingTx[g].guest, g)
  /\ Goto(g, "updateGuest", "commit")

(* The ratings computed from the snapshots.                                *)
HostAfter(g) ==
  LET t == ratingTx[g] IN
  EloUpdate(t.hostSnap.rating, IF g \in AiGames THEN AiRating ELSE t.guestSnap.rating,
            t.hostWon, KFactor(t.hostSnap.count))
GuestAfter(g) ==
  LET t == ratingTx[g] IN
  EloUpdate(t.guestSnap.rating, t.hostSnap.rating, ~t.hostWon, KFactor(t.guestSnap.count))

(* What update_user_elo writes: the rating is absolute, the peak and the   *)
(* count refer to the row as it is by then. /game/save computes its peak   *)
(* from the snapshot.                                                      *)
RatedFromSnapshot(row, snap, after) ==                           \* mutant
  [rating |-> after, peak |-> Max({snap.peak, after}), count |-> snap.count + 1]
Rated(row, snap, after) ==
  [rating |-> after, peak |-> Max({row.peak, after}), count |-> row.count + 1]

SavedForgetsPeak(row, snap, after) ==                            \* mutant
  [rating |-> after, peak |-> snap.peak, count |-> row.count + 1]
Saved(row, snap, after) ==
  [rating |-> after, peak |-> Max({snap.peak, after}), count |-> row.count + 1]

HistoryRow(row, u, before, after) ==
  [row |-> row, user |-> u, before |-> before, after |-> after]

CommitRoomSameRating(g) ==                                       \* mutant
  LET t == ratingTx[g] IN
  /\ t.pc = "commit" /\ g \notin AiGames
  /\ users' = [users EXCEPT ![t.host] = Rated(@, t.hostSnap, HostAfter(g)),
                            ![t.guest] = Rated(@, t.guestSnap, HostAfter(g))]
  /\ history' = history \o <<HistoryRow(g, t.host, t.hostSnap.rating, HostAfter(g)),
                             HistoryRow(g, t.guest, t.guestSnap.rating, GuestAfter(g))>>
  /\ ratingTx' = [ratingTx EXCEPT ![g].pc = "done"]
CommitRoom(g) ==
  LET t == ratingTx[g] IN
  /\ t.pc = "commit" /\ g \notin AiGames
  /\ users' = [users EXCEPT ![t.host] = Rated(@, t.hostSnap, HostAfter(g)),
                            ![t.guest] = Rated(@, t.guestSnap, GuestAfter(g))]
  /\ history' = history \o <<HistoryRow(g, t.host, t.hostSnap.rating, HostAfter(g)),
                             HistoryRow(g, t.guest, t.guestSnap.rating, GuestAfter(g))>>
  /\ ratingTx' = [ratingTx EXCEPT ![g].pc = "done"]

CommitSave(g) ==
  LET t == ratingTx[g] IN
  /\ t.pc = "commit" /\ g \in AiGames
  /\ users' = [users EXCEPT ![t.host] = Saved(@, t.hostSnap, HostAfter(g))]
  /\ history' = Append(history, HistoryRow(IF FindsRow(t) THEN t.row ELSE g, t.host,
                                           t.hostSnap.rating, HostAfter(g)))
  /\ ratingTx' = [ratingTx EXCEPT ![g].pc = "done"]

(* The transaction ends without effect: a lost connection, a crash of the  *)
(* server, or PostgreSQL picks it as the victim of a deadlock (two rooms   *)
(* of the same pair, hosted crosswise). The request may be made again.     *)
RollbackUncounting(g) ==                                         \* mutant
  /\ ratingTx[g].pc \notin {"idle", "done"}
  /\ ratingTx' = [ratingTx EXCEPT ![g] = Idle]
  /\ users' = [users EXCEPT ![ratingTx[g].host].count = @ - 1]
  /\ UNCHANGED history
Rollback(g) ==
  /\ ratingTx[g].pc \notin {"idle", "done"}
  /\ ratingTx' = [ratingTx EXCEPT ![g] = Idle]
  /\ UNCHANGED <<users, history>>

RatingNext ==
  \E g \in Games :
    \/ \E host, guest \in Users, won \in BOOLEAN : BeginRoom(g, host, guest, won)
    \/ \E u \in Users, won \in BOOLEAN, row \in Sessions \cup {NoSession} :
         BeginSave(g, u, won, row)
    \/ ReadHost(g) \/ ReadGuest(g)
    \/ UpdateRow(g) \/ UpdateHost(g) \/ UpdateGuest(g)
    \/ CommitRoom(g) \/ CommitSave(g)
    \/ Rollback(g)

RatingSpec == RatingInit /\ [][RatingNext]_ratingVars

-----------------------------------------------------------------------------
(* Types of all variables.                                                 *)
RatingTypeOK ==
  /\ users \in [Users -> UserRow]
  /\ ratingTx \in [Games -> [pc : Steps, host : Users \cup {NoUser}, guest : Users \cup {NoUser},
                             hostWon : BOOLEAN, hostSnap : UserRow, guestSnap : UserRow,
                             row : Sessions \cup {NoSession}]]
  /\ history \in Seq([row : Games \cup Sessions, user : Users, before : Int, after : Int])

Versions(u) == {i \in DOMAIN history : history[i].user = u}
RowsOf(u) == {i \in Versions(u) :
                \A j \in Versions(u) : j > i => history[j].row # history[i].row}

(* elo_games_count misses no rating of a user and counts none twice,       *)
(* however the transactions overlap; each save of a game counts, also the  *)
(* one that overwrites the result of another.                              *)
EveryRatingCounts == \A u \in Users : users[u].count = Cardinality(Versions(u))

(* It is the number of the user's rated rows (update_user_elo and the      *)
(* UPDATE of /game/save), unless a game was saved again.                   *)
CountIsHistoryUnlessResaved ==
  \A u \in Users : RowsOf(u) = Versions(u) => users[u].count = Cardinality(RowsOf(u))

(* The migration calls it the "number of rated games played", and /save    *)
(* promises one row for each session "regardless of how many tabs".        *)
CountIsHistory == \A u \in Users : users[u].count = Cardinality(RowsOf(u))

(* The rating shown is the one the last game in the user's history left:   *)
(* the two tables never disagree about a committed game.                   *)
RatingIsLastAfter ==
  \A u \in Users :
    users[u].rating = IF RowsOf(u) = {} THEN Initial ELSE history[Max(RowsOf(u))].after

(* The peak is never below the rating it is shown next to.                 *)
PeakCoversRating == \A u \in Users : users[u].peak >= users[u].rating

(* The migration: elo_before is the rating "BEFORE this game", so that the *)
(* history can be reread game by game. Two overlapping games of one user   *)
(* both name the same rating, and the effect of the first is lost.         *)
AuditTrailChains ==
  \A u \in Users : \A i \in RowsOf(u) :
    history[i].before =
      LET earlier == {j \in RowsOf(u) : j < i}
      IN  IF earlier = {} THEN Initial ELSE history[Max(earlier)].after
=============================================================================
