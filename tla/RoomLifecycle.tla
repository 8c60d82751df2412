--------------------------- MODULE RoomLifecycle ---------------------------
(***************************************************************************)
(* What a multiplayer room promises its players, without versions, views,  *)
(* requests or database rows: two different people take the two seats, the *)
(* seats then stay theirs, stones are only ever added, each by the seat    *)
(* whose turn it is, and the room ends once, with at most one winner.      *)
(***************************************************************************)
EXTENDS Integers, Sequences

CONSTANTS
  People,      (* who may sit                                               *)
  Nobody,      (* an empty seat                                             *)
  Points       (* where a stone may be put                                  *)

VARIABLES
  phase,       (* absent, open, playing, closed                             *)
  seats,       (* who plays X and who plays O                               *)
  record,      (* the stones in the order they were put                     *)
  outcome      (* the winning colour, if any                                *)

lvars == <<phase, seats, record, outcome>>

EmptySeats == [X |-> Nobody, O |-> Nobody]

LInit ==
  /\ phase = "absent"
  /\ seats = EmptySeats
  /\ record = <<>>
  /\ outcome = "none"

Open ==
  /\ phase = "absent"
  /\ phase' = "open"
  /\ UNCHANGED <<seats, record, outcome>>

(* The room is withdrawn, declined or expires before anybody joins.        *)
Withdraw ==
  /\ phase = "open"
  /\ phase' = "closed"
  /\ UNCHANGED <<seats, record, outcome>>

Sit ==
  /\ phase = "open"
  /\ phase' = "playing"
  /\ \E p, q \in People : p # q /\ seats' = [X |-> p, O |-> q]
  /\ UNCHANGED <<record, outcome>>

OnTurn == IF Len(record) % 2 = 0 THEN "X" ELSE "O"

(* A stone on a free point; it may win the game for whoever put it.        *)
PutStone ==
  /\ phase = "playing"
  /\ \E p \in Points :
       /\ \A i \in DOMAIN record : record[i] # p
       /\ record' = Append(record, p)
  /\ \/ phase' = "playing" /\ outcome' = "none"
     \/ phase' = "closed" /\ outcome' = OnTurn
  /\ UNCHANGED seats

(* Resignation gives the game to the other seat; a player who walks out on *)
(* the opponent leaves it without a winner.                                *)
Leave ==
  /\ phase = "playing"
  /\ phase' = "closed"
  /\ outcome' \in {"X", "O", "none"}
  /\ UNCHANGED <<seats, record>>

LNext == Open \/ Withdraw \/ Sit \/ PutStone \/ Leave

LSpec == LInit /\ [][LNext]_lvars
=============================================================================
