--------------------------- MODULE PollingClient ---------------------------
(***************************************************************************)
(* The browser page of one player: useMultiplayerPolling.ts with the join  *)
(* effect of MultiplayerGamePage.tsx, against a room reduced to what the   *)
(* page can tell apart. Every fetch is a call in one of a few slots: it is *)
(* sent, served at some moment, and its reply is handled at a later one, so*)
(* replies overtake each other; a call can fail before or after it served. *)
(***************************************************************************)
EXTENDS Integers, FiniteSets

CONSTANTS
  Slots,        (* bound: fetches in flight at the same time                *)
  PollSlot,     (* the one of them that the polling loop uses               *)
  PageOfHost,   (* the page is the host's; otherwise it opened an invitation*)
  MaxVersion,   (* bound: the room changes at most this often               *)
  MaxFailures   (* bound: fetches that fail                                 *)

ASSUME PollingAssumption ==
  /\ IsFiniteSet(Slots) /\ PollSlot \in Slots
  /\ PageOfHost \in BOOLEAN
  /\ {MaxVersion, MaxFailures} \subseteq Nat

VARIABLES
  room,         (* the row at the server, as a view of it shows it          *)
  calls,        (* the fetches in flight                                    *)
  shown,        (* game: the view on the page                               *)
  versionRef,   (* versionRef.current; -1 for null                          *)
  loop,         (* where tick is: due, awaiting its refresh, or ended       *)
  stopped,      (* stoppedRef.current                                       *)
  expired,
  joinAttempted,
  denied,       (* history variable: a read was answered 401, 403 or 404    *)
  age,          (* time since startedAtRef, on the scale of the two caps    *)
  failures

page == <<shown, versionRef, loop, stopped, expired, joinAttempted, denied>>
vars == <<room, calls, page, age, failures>>

Over == {"finished", "abandoned", "cancelled"}
Views == [version : 0 .. MaxVersion, state : {"waiting", "in_progress"} \cup Over,
          mine : BOOLEAN, myTurn : BOOLEAN]
NoView == [version |-> -1, state |-> "loading", mine |-> FALSE, myTurn |-> FALSE]

Kinds == {"poll", "refresh", "move", "resign", "join"}
Free == [kind |-> "free", sent |-> -1, reply |-> "none", view |-> NoView]
Calls == {Free} \cup [kind : Kinds, sent : -1 .. MaxVersion,
                      reply : {"none", "view", "no_change", "refused", "failed", "denied"},
                      view : Views \cup {NoView}]

Init ==
  /\ room = [version |-> 0, state |-> "waiting", mine |-> PageOfHost, myTurn |-> FALSE]
  /\ calls = [s \in Slots |-> Free]
  /\ shown = NoView /\ versionRef = -1
  /\ loop = "due" /\ stopped = FALSE /\ expired = FALSE /\ joinAttempted = FALSE /\ denied = FALSE
  /\ age = "young" /\ failures = 0

(* The clock passes 15 minutes, then 8 hours.                              *)
Elapse ==
  /\ age # "ancient"
  /\ age' = IF age = "young" THEN "old" ELSE "ancient"
  /\ UNCHANGED <<room, calls, page, failures>>

-----------------------------------------------------------------------------
(* The room, seen from this page. MultiplayerGame has it in full.          *)
Change(state, mine, myTurn) ==
  /\ room.version < MaxVersion
  /\ room' = [version |-> room.version + 1, state |-> state, mine |-> mine, myTurn |-> myTurn]

(* What the other player (or, before a join, anybody) does to it.          *)
OthersAct ==
  /\ \/ room.state = "waiting" /\ \E turn \in BOOLEAN :
          Change("in_progress", room.mine, room.mine /\ turn)
     \/ room.state = "waiting" /\ Change("cancelled", room.mine, FALSE)
     \/ /\ room.state = "in_progress" /\ ~room.myTurn
        /\ Change("in_progress", room.mine, room.mine)
     \/ /\ room.state = "in_progress" /\ ~room.myTurn
        /\ Change("finished", room.mine, FALSE)
     \/ /\ room.state = "in_progress"
        /\ \E end \in {"finished", "abandoned"} : Change(end, room.mine, FALSE)
  /\ UNCHANGED <<calls, page, age, failures>>

Answer(s, reply) == calls' = [calls EXCEPT ![s].reply = reply, ![s].view = room']

NoChangeIfRecent(since) == room.version <= since + 1             \* mutant
NoChange(since) == room.version <= since

(* GET ?since_version=N.                                                   *)
ServeGet(s) ==
  /\ calls[s].kind \in {"poll", "refresh"} /\ calls[s].reply = "none"
  /\ UNCHANGED room
  /\ \/ NoChange(calls[s].sent) /\ Answer(s, "no_change")
     \/ ~NoChange(calls[s].sent) /\ Answer(s, "view")
  /\ UNCHANGED <<page, age, failures>>

(* POST move: applied on the expected version, in turn; it may win.        *)
ServeMove(s) ==
  /\ calls[s].kind = "move" /\ calls[s].reply = "none"
  /\ \/ /\ room.mine /\ room.state = "in_progress"
        /\ calls[s].sent = room.version /\ room.myTurn
        /\ \/ Change("in_progress", TRUE, FALSE)
           \/ Change("finished", TRUE, FALSE)
        /\ Answer(s, "view")
     \/ /\ ~(room.mine /\ room.state = "in_progress"
             /\ calls[s].sent = room.version /\ room.myTurn)
        /\ UNCHANGED room
        /\ Answer(s, "refused")
  /\ UNCHANGED <<page, age, failures>>

ServeResign(s) ==
  /\ calls[s].kind = "resign" /\ calls[s].reply = "none"
  /\ \/ /\ room.mine /\ room.state = "in_progress"
        /\ Change("finished", TRUE, FALSE)
        /\ Answer(s, "view")
     \/ /\ ~(room.mine /\ room.state = "in_progress")
        /\ UNCHANGED room
        /\ Answer(s, "refused")
  /\ UNCHANGED <<page, age, failures>>

ServeJoin(s) ==
  /\ calls[s].kind = "join" /\ calls[s].reply = "none"
  /\ \/ /\ room.state = "waiting"
        /\ \E turn \in BOOLEAN : Change("in_progress", TRUE, turn)
        /\ Answer(s, "view")
     \/ /\ room.state # "waiting"
        /\ UNCHANGED room
        /\ Answer(s, "refused")
  /\ UNCHANGED <<page, age, failures>>

(* The request or its reply is lost, which looks the same from here.       *)
Lose(s) ==
  /\ failures < MaxFailures
  /\ calls[s] # Free /\ calls[s].reply # "failed"
  /\ failures' = failures + 1
  /\ calls' = [calls EXCEPT ![s].reply = "failed", ![s].view = NoView]
  /\ UNCHANGED <<room, page, age>>

(* A read answered 401, 403 or 404: the session or the room is gone.       *)
Deny(s) ==
  /\ failures < MaxFailures
  /\ calls[s].kind \in {"poll", "refresh"} /\ calls[s].reply = "none"
  /\ failures' = failures + 1
  /\ calls' = [calls EXCEPT ![s].reply = "denied"]
  /\ UNCHANGED <<room, page, age>>

-----------------------------------------------------------------------------
(* The page.                                                               *)
Call(kind, sent) == [kind |-> kind, sent |-> sent, reply |-> "none", view |-> NoView]
Start(s, kind, sent) ==
  /\ calls[s] = Free
  /\ calls' = [calls EXCEPT ![s] = Call(kind, sent)]

(* tick compares with the cap for the `game` its effect closed over. The   *)
(* effect runs once, when nothing is shown yet, so that is always the cap  *)
(* of a waiting room.                                                      *)
CapReached == age # "young"

TickExpires ==
  /\ loop = "due" /\ ~stopped /\ CapReached
  /\ stopped' = TRUE /\ expired' = TRUE /\ loop' = "ended"
  /\ UNCHANGED <<room, calls, shown, versionRef, joinAttempted, denied, age, failures>>

TickStopped ==
  /\ loop = "due" /\ stopped
  /\ loop' = "ended"
  /\ UNCHANGED <<room, calls, shown, versionRef, stopped, expired, joinAttempted, denied, age, failures>>

TickPolls ==
  /\ loop = "due" /\ ~stopped /\ ~CapReached
  /\ Start(PollSlot, "poll", versionRef)
  /\ loop' = "awaiting"
  /\ UNCHANGED <<room, shown, versionRef, stopped, expired, joinAttempted, denied, age, failures>>

SetGameNextVersion(view) ==                                      \* mutant
  shown' = view /\ versionRef' = view.version + 1
SetGame(view) == shown' = view /\ versionRef' = view.version

(* The end of refresh, for the loop or for one of the handlers below.      *)
RefreshStopsOnError(s) ==                                        \* mutant
  LET c == calls[s] IN
  /\ c.kind \in {"poll", "refresh"} /\ c.reply # "none"
  /\ IF c.reply = "view" THEN SetGame(c.view) ELSE UNCHANGED <<shown, versionRef>>
  /\ stopped' = (stopped \/ c.reply \in {"denied", "failed"} \/ c.view.state \in Over)
  /\ denied' = (denied \/ c.reply = "denied")
  /\ loop' = IF c.kind # "poll" THEN loop ELSE IF stopped' THEN "ended" ELSE "due"
  /\ calls' = [calls EXCEPT ![s] = Free]
  /\ UNCHANGED <<room, expired, joinAttempted, age, failures>>
Refresh(s) ==
  LET c == calls[s] IN
  /\ c.kind \in {"poll", "refresh"} /\ c.reply # "none"
  /\ IF c.reply = "view" THEN SetGame(c.view) ELSE UNCHANGED <<shown, versionRef>>
  /\ stopped' = (stopped \/ c.reply = "denied" \/ (c.reply = "view" /\ c.view.state \in Over))
  /\ denied' = (denied \/ c.reply = "denied")
  /\ loop' = IF c.kind # "poll" THEN loop ELSE IF stopped' THEN "ended" ELSE "due"
  /\ calls' = [calls EXCEPT ![s] = Free]
  /\ UNCHANGED <<room, expired, joinAttempted, age, failures>>

(* A click on a cell, on the view the page shows at that moment. Nothing   *)
(* keeps a second click from following before the first is answered.       *)
SendMove(s) ==
  /\ shown.mine /\ shown.state = "in_progress" /\ shown.myTurn /\ ~expired
  /\ Start(s, "move", shown.version)
  /\ UNCHANGED <<room, page, age, failures>>

SendResign(s) ==
  /\ shown.mine /\ shown.state = "in_progress" /\ ~expired
  /\ Start(s, "resign", -1)
  /\ UNCHANGED <<room, page, age, failures>>

(* The effect that joins, at most once per code.                           *)
SendJoin(s) ==
  /\ shown.state = "waiting" /\ ~shown.mine /\ ~joinAttempted /\ ~expired
  /\ Start(s, "join", -1)
  /\ joinAttempted' = TRUE
  /\ UNCHANGED <<room, shown, versionRef, loop, stopped, expired, denied, age, failures>>

(* The answer to a move or a resignation is shown; a refused move is       *)
(* followed by a refresh, and so is a join that succeeded.                 *)
Shown(s) ==
  /\ calls[s].kind \in {"move", "resign"} /\ calls[s].reply = "view"
  /\ SetGame(calls[s].view)
  /\ calls' = [calls EXCEPT ![s] = Free]
  /\ UNCHANGED <<room, loop, stopped, expired, joinAttempted, denied, age, failures>>

FollowedByRefresh(s) ==
  /\ \/ calls[s].kind = "move" /\ calls[s].reply \in {"refused", "failed"}
     \/ calls[s].kind = "join" /\ calls[s].reply = "view"
  /\ calls' = [calls EXCEPT ![s] = Call("refresh", versionRef)]
  /\ UNCHANGED <<room, page, age, failures>>

Dropped(s) ==
  /\ calls[s].kind \in {"resign", "join"} /\ calls[s].reply \in {"refused", "failed"}
  /\ calls' = [calls EXCEPT ![s] = Free]
  /\ UNCHANGED <<room, page, age, failures>>

Serve(s) == ServeGet(s) \/ ServeMove(s) \/ ServeResign(s) \/ ServeJoin(s)
Handle(s) == Refresh(s) \/ Shown(s) \/ FollowedByRefresh(s) \/ Dropped(s)
Tick == TickExpires \/ TickStopped \/ TickPolls

Next ==
  \/ Elapse \/ OthersAct \/ Tick
  \/ \E s \in Slots : Serve(s) \/ Lose(s) \/ Deny(s) \/ Handle(s)
  \/ \E s \in Slots \ {PollSlot} : SendMove(s) \/ SendResign(s) \/ SendJoin(s)

Spec == Init /\ [][Next]_vars

(* Timers fire; a fetch is answered or fails, and its promise settles.     *)
FairSpec ==
  /\ Spec
  /\ WF_vars(Tick)
  /\ \A s \in Slots : WF_vars(Serve(s)) /\ WF_vars(Handle(s))

-----------------------------------------------------------------------------
(* Types of all variables.                                                 *)
TypeOK ==
  /\ room \in Views
  /\ calls \in [Slots -> Calls]
  /\ shown \in Views \cup {NoView}
  /\ versionRef \in -1 .. MaxVersion
  /\ loop \in {"due", "awaiting", "ended"}
  /\ {stopped, expired, joinAttempted, denied} \subseteq BOOLEAN
  /\ age \in {"young", "old", "ancient"}
  /\ failures \in 0 .. MaxFailures

(* A page does not give up on a game that is still on because a fetch      *)
(* failed, a reply was late or a move was refused.                         *)
StopsOnlyForCause ==
  stopped => room.state \in Over \/ expired \/ denied

(* Whatever overtakes what, a page that still polls ends up showing the    *)
(* room as it is.                                                          *)
CatchesUp == <>[](shown = room \/ stopped)

(* The cap is "8 h for in_progress".                                       *)
EightHoursInProgress == expired /\ shown.state = "in_progress" => age = "ancient"
=============================================================================
