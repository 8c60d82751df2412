--------------------------- MODULE AiGameSession ---------------------------
(***************************************************************************)
(* Games of one signed-in user against the AI: the page (useGameState.ts   *)
(* and the start button and save effect of App.tsx), with its calls of     *)
(* /game/start, /game/play and /game/save, and what start and save do to   *)
(* the user's rows, statement by statement where they lock.                *)
(*                                                                         *)
(* Every click on the start button leads to one session and at most one    *)
(* row; both are named by the click. The board is reduced to whose turn it *)
(* is and whether the game is over.                                        *)
(***************************************************************************)
EXTENDS Integers, Sequences

CONSTANTS
  MaxClicks,     (* bound: clicks on "Start Game with AI"                   *)
  MaxFailures    (* bound: calls that fail                                  *)

ASSUME SessionAssumption == {MaxClicks, MaxFailures} \subseteq Nat

VARIABLES
  phase,         (* of the page                                             *)
  game,          (* gameState: the session shown, over or not, whose turn   *)
  asked,         (* per click, whether the page awaits /game/start          *)
  carries,       (* the sessions whose state carries its game_id            *)
  ai,            (* per session, its call of /game/play in flight           *)
  tx,            (* per click, the transaction of /game/start               *)
  swept,         (* per click, the rows that transaction is abandoning      *)
  rows,          (* per click, the status of its row, as committed          *)
  saves,         (* the calls of /game/save                                 *)
  failures

page   == <<phase, game, asked, carries, ai>>
server == <<tx, swept, rows>>
vars   == <<page, server, saves, failures>>

Clicks == 1 .. MaxClicks
Phases == {"idle", "thinking", "playing", "gameover"}
NoGame == [of |-> 0, over |-> FALSE, human |-> FALSE]
Session(k, over, human) == [of |-> k, over |-> over, human |-> human]

Init ==
  /\ phase = "idle" /\ game = NoGame
  /\ asked = [k \in Clicks |-> "never"]
  /\ carries = {}
  /\ ai = [k \in Clicks |-> "none"]
  /\ tx = [k \in Clicks |-> "idle"]
  /\ swept = [k \in Clicks |-> {}]
  /\ rows = [k \in Clicks |-> "absent"]
  /\ saves = <<>>
  /\ failures = 0

Fails == failures < MaxFailures /\ failures' = failures + 1

(* The effect that runs after a render: entering "gameover" saves the game *)
(* on the page. A second game that ends in that phase enters nothing.      *)
RecordEnd ==
  saves' = IF phase # "gameover" /\ phase' = "gameover" /\ game'.over
           THEN Append(saves, [of |-> game'.of, carries |-> game'.of \in carries,
                               pc |-> "sent"])
           ELSE saves

-----------------------------------------------------------------------------
(* The page. The button is there, enabled, until the answer starts a game. *)
ClickStart(k) ==
  /\ phase = "idle"
  /\ asked[k] = "never" /\ \A j \in 1 .. k - 1 : asked[j] # "never"
  /\ asked' = [asked EXCEPT ![k] = "waiting"]
  /\ tx' = [tx EXCEPT ![k] = "sent"]
  /\ UNCHANGED <<phase, game, carries, ai, swept, rows, saves, failures>>

(* startGame: if the AI has the first move, it is asked for it at once.    *)
StartGame(k) ==
  /\ asked' = [asked EXCEPT ![k] = "answered"]
  /\ \/ /\ game' = Session(k, FALSE, TRUE) /\ phase' = "playing"
        /\ UNCHANGED ai
     \/ /\ game' = Session(k, FALSE, FALSE) /\ phase' = "thinking"
        /\ ai' = [ai EXCEPT ![k] = "opening"]

StartAnswered(k) ==
  /\ asked[k] = "waiting" /\ tx[k] = "stored"
  /\ carries' = carries \cup {k}
  /\ StartGame(k)
  /\ UNCHANGED <<server, saves, failures>>

(* An error, or no answer at all: the game starts without an id.           *)
StartRefused(k) ==
  /\ asked[k] = "waiting" /\ tx[k] = "dead"
  /\ StartGame(k)
  /\ UNCHANGED <<carries, server, saves, failures>>

StartUnanswered(k) ==
  /\ asked[k] = "waiting"
  /\ Fails
  /\ StartGame(k)
  /\ UNCHANGED <<carries, server, saves>>

(* The player's move, shown at once and sent to the engine.                *)
MakeMove ==
  /\ phase = "playing" /\ game.of # 0 /\ ~game.over /\ game.human
  /\ game' = [game EXCEPT !.human = FALSE] /\ phase' = "thinking"
  /\ ai' = [ai EXCEPT ![game.of] = "reply"]
  /\ UNCHANGED <<asked, carries, server, saves, failures>>

(* The engine's answer is shown whatever the page shows by then. No game   *)
(* ends with its opening.                                                  *)
AiAnswersTwice(k) ==                                             \* mutant
  /\ ai[k] # "none"
  /\ \/ game' = Session(k, FALSE, TRUE) /\ phase' = "playing"
     \/ ai[k] = "reply" /\ game' = Session(k, TRUE, FALSE) /\ phase' = "gameover"
  /\ RecordEnd
  /\ UNCHANGED <<asked, carries, ai, server, failures>>
AiAnswers(k) ==
  /\ ai[k] # "none"
  /\ ai' = [ai EXCEPT ![k] = "none"]
  /\ \/ game' = Session(k, FALSE, TRUE) /\ phase' = "playing"
     \/ ai[k] = "reply" /\ game' = Session(k, TRUE, FALSE) /\ phase' = "gameover"
  /\ RecordEnd
  /\ UNCHANGED <<asked, carries, server, failures>>

(* ... or the call fails: a move is taken back, an opening is not repeated.*)
AiFails(k) ==
  /\ ai[k] # "none"
  /\ ai' = [ai EXCEPT ![k] = "none"]
  /\ game' = IF ai[k] = "reply" THEN Session(k, FALSE, TRUE) ELSE game
  /\ phase' = "playing"
  /\ Fails
  /\ UNCHANGED <<asked, carries, server, saves>>

(* Taking back a game that is over reopens it; the button needs "playing". *)
UndoMove ==
  /\ phase = "playing" /\ game.over
  /\ \E human \in BOOLEAN : game' = Session(game.of, FALSE, human)
  /\ UNCHANGED <<phase, asked, carries, ai, server, saves, failures>>

(* "Abort Game" and, once it is over, "New Game".                          *)
ResetGame ==
  /\ phase # "idle"
  /\ phase' = "idle" /\ game' = NoGame
  /\ UNCHANGED <<asked, carries, ai, server, saves, failures>>

-----------------------------------------------------------------------------
(* POST /game/start: counts the start in the user's row, which locks it,   *)
(* sweeps the user's rows in progress and inserts the new one.             *)
Advance(k, from, to) == tx[k] = from /\ tx' = [tx EXCEPT ![k] = to]

UserLocked == \E k \in Clicks : tx[k] \in {"locked", "swept"}
HeldBySave(r) == \E i \in DOMAIN saves :
                   saves[i].pc = "rowHeld" /\ saves[i].carries /\ saves[i].of = r
HeldByStart(r) == \E k \in Clicks : tx[k] = "swept" /\ r \in swept[k]

StartUnlocked(k) ==                                              \* mutant
  /\ Advance(k, "sent", "locked")
  /\ UNCHANGED <<page, swept, rows, saves, failures>>
StartLock(k) ==
  /\ ~UserLocked
  /\ Advance(k, "sent", "locked")
  /\ UNCHANGED <<page, swept, rows, saves, failures>>

InProgress == {r \in Clicks : rows[r] = "in_progress"}

StartSweepAnyStatus(k) ==                                        \* mutant
  /\ Advance(k, "locked", "swept")
  /\ \A r \in Clicks : ~HeldBySave(r)
  /\ swept' = [swept EXCEPT ![k] = {r \in Clicks : rows[r] # "absent"}]
  /\ UNCHANGED <<page, rows, saves, failures>>
StartSweep(k) ==
  /\ Advance(k, "locked", "swept")
  /\ \A r \in InProgress : ~HeldBySave(r)
  /\ swept' = [swept EXCEPT ![k] = InProgress]
  /\ UNCHANGED <<page, rows, saves, failures>>

StartCommitIfAwaited(k) ==                                       \* mutant
  /\ asked[k] = "waiting"
  /\ Advance(k, "swept", "stored")
  /\ rows' = [r \in Clicks |-> IF r = k THEN "in_progress"
                               ELSE IF r \in swept[k] THEN "abandoned" ELSE rows[r]]
  /\ UNCHANGED <<page, swept, saves, failures>>
StartCommit(k) ==
  /\ Advance(k, "swept", "stored")
  /\ rows' = [r \in Clicks |-> IF r = k THEN "in_progress"
                               ELSE IF r \in swept[k] THEN "abandoned" ELSE rows[r]]
  /\ UNCHANGED <<page, swept, saves, failures>>

StartDies(k) ==
  /\ tx[k] \in {"sent", "locked", "swept"}
  /\ tx' = [tx EXCEPT ![k] = "dead"]
  /\ Fails
  /\ UNCHANGED <<page, swept, rows, saves>>

(* POST /game/save: completes the row it is given, in whatever state, or   *)
(* inserts one; then adds the result to the user's row.                    *)
SaveRow(i) ==
  /\ saves[i].pc = "sent"
  /\ saves[i].carries => ~HeldBySave(saves[i].of) /\ ~HeldByStart(saves[i].of)
  /\ saves' = [saves EXCEPT ![i].pc = "rowHeld"]
  /\ UNCHANGED <<page, server, failures>>

SaveUser(i) ==
  /\ saves[i].pc = "rowHeld" /\ ~UserLocked
  /\ saves' = [saves EXCEPT ![i].pc = "done"]
  /\ rows' = IF saves[i].carries THEN [rows EXCEPT ![saves[i].of] = "completed"] ELSE rows
  /\ UNCHANGED <<page, tx, swept, failures>>

(* Lost or rolled back; the page reports it and does not try again.        *)
SaveDies(i) ==
  /\ saves[i].pc \in {"sent", "rowHeld"}
  /\ saves' = [saves EXCEPT ![i].pc = "failed"]
  /\ Fails
  /\ UNCHANGED <<page, server>>

(* A start that holds the user and wants the row, and a save that holds    *)
(* the row and wants the user: PostgreSQL ends one of them.                *)
DeadlockVictim(k, i) ==
  /\ tx[k] = "locked" /\ saves[i].pc = "rowHeld"
  /\ saves[i].carries /\ rows[saves[i].of] = "in_progress"
  /\ \/ tx' = [tx EXCEPT ![k] = "dead"] /\ UNCHANGED saves
     \/ saves' = [saves EXCEPT ![i].pc = "failed"] /\ UNCHANGED tx
  /\ UNCHANGED <<page, swept, rows, failures>>

Next ==
  \/ MakeMove \/ UndoMove \/ ResetGame
  \/ \E k \in Clicks :
       \/ ClickStart(k) \/ StartAnswered(k) \/ StartRefused(k) \/ StartUnanswered(k)
       \/ AiAnswers(k) \/ AiFails(k)
       \/ StartLock(k) \/ StartSweep(k) \/ StartCommit(k) \/ StartDies(k)
  \/ \E i \in DOMAIN saves : SaveRow(i) \/ SaveUser(i) \/ SaveDies(i)
  \/ \E k \in Clicks, i \in DOMAIN saves : DeadlockVictim(k, i)

Spec == Init /\ [][Next]_vars

(* The database runs what it was given, and resolves deadlocks.            *)
ServerStep(k) ==
  \/ StartSweep(k) \/ StartCommit(k)
  \/ \E i \in DOMAIN saves : DeadlockVictim(k, i)
SaveStep(i) == i \in DOMAIN saves /\ (SaveRow(i) \/ SaveUser(i))
MaxSaves == MaxClicks + MaxFailures

FairSpec ==
  /\ Spec
  /\ \A k \in Clicks : WF_vars(ServerStep(k))
  /\ \A i \in 1 .. MaxSaves : WF_vars(SaveStep(i))

-----------------------------------------------------------------------------
(* Types of all variables.                                                 *)
TypeOK ==
  /\ phase \in Phases
  /\ game \in [of : 0 .. MaxClicks, over : BOOLEAN, human : BOOLEAN]
  /\ asked \in [Clicks -> {"never", "waiting", "answered"}]
  /\ carries \subseteq Clicks
  /\ ai \in [Clicks -> {"none", "opening", "reply"}]
  /\ tx \in [Clicks -> {"idle", "sent", "locked", "swept", "stored", "dead"}]
  /\ swept \in [Clicks -> SUBSET Clicks]
  /\ rows \in [Clicks -> {"absent", "in_progress", "abandoned", "completed"}]
  /\ saves \in Seq([of : Clicks, carries : BOOLEAN,
                    pc : {"sent", "rowHeld", "done", "failed"}])
  /\ Len(saves) <= MaxSaves
  /\ failures \in 0 .. MaxFailures

(* "one current game per player": however clicks, answers and transactions *)
(* overlap, at most one row is in progress, because start locks the user's *)
(* row before it looks for the rows to sweep.                              *)
OneCurrentGame == \A r, s \in InProgress : r = s

(* A result that was saved under its id stays in the history: no later     *)
(* start, nor one that waited for the save, turns the row back.            *)
SavedResultsStand ==
  \A i \in DOMAIN saves :
    saves[i].pc = "done" /\ saves[i].carries => rows[saves[i].of] = "completed"

(* Although start and save lock the two tables in opposite orders, a save  *)
(* is never left hanging: it is stored or it fails.                        *)
SavesSettle ==
  \A i \in 1 .. MaxSaves :
    (i \in DOMAIN saves /\ saves[i].pc = "rowHeld") ~>
    (i \in DOMAIN saves /\ saves[i].pc \in {"done", "failed"})

(* A game is saved, and so rated, at most once, although answers of games  *)
(* the player left bring them back to the page. (A call that fails can     *)
(* reopen a game that is over: the state stays, the phase does not.)       *)
CountedOnce ==
  failures = 0 => \A i, j \in DOMAIN saves : saves[i].of = saves[j].of => i = j

(* App.tsx: "Save every finished game, including draws." A page that shows *)
(* the end of a game has sent that game to be saved.                       *)
EveryFinishedGameSaved ==
  phase = "gameover" => \E i \in DOMAIN saves : saves[i].of = game.of
=============================================================================
