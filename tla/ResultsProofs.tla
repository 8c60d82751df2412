---------------------------- MODULE ResultsProofs ----------------------------
(***************************************************************************)
(* Theorems about what becomes of the results of games. AiGameSession, for *)
(* any number of clicks and failing calls: the rows of one user's games    *)
(* against the AI (ServerInv says why the lock on the user's row keeps a   *)
(* start and a save apart, PageInv why a page without failures never ends  *)
(* a game twice). Ratings, for any users, games, ratings and rules of      *)
(* points: what the two tables, written by overlapping transactions,       *)
(* always agree about. The two modules share nothing and are proved apart. *)
(***************************************************************************)
EXTENDS AiGameSession, Ratings, SequenceTheorems, FiniteSetTheorems, TLAPS

Save == [of : Clicks, carries : BOOLEAN, pc : {"sent", "rowHeld", "done", "failed"}]

(* TypeOK without its bound on the number of saves.                        *)
Types ==
  /\ phase \in Phases
  /\ game \in [of : 0 .. MaxClicks, over : BOOLEAN, human : BOOLEAN]
  /\ asked \in [Clicks -> {"never", "waiting", "answered"}]
  /\ carries \subseteq Clicks
  /\ ai \in [Clicks -> {"none", "opening", "reply"}]
  /\ tx \in [Clicks -> {"idle", "sent", "locked", "swept", "stored", "dead"}]
  /\ swept \in [Clicks -> SUBSET Clicks]
  /\ rows \in [Clicks -> {"absent", "in_progress", "abandoned", "completed"}]
  /\ saves \in Seq(Save)
  /\ failures \in Nat

(* Starts take turns, and the one whose turn it is sweeps every row in     *)
(* progress; a save names a row only of a start that was stored.           *)
ServerInv ==
  /\ \A j, k \in Clicks :
       tx[j] \in {"locked", "swept"} /\ tx[k] \in {"locked", "swept"} => j = k
  /\ \A k \in Clicks : tx[k] = "swept" => swept[k] = InProgress
  /\ \A k \in carries : tx[k] = "stored"
  /\ \A i \in DOMAIN saves : saves[i].carries => saves[i].of \in carries
  /\ OneCurrentGame
  /\ SavedResultsStand

(* While no call failed: a game that is over is shown as over, and a game  *)
(* that was saved is neither running nor being answered any more.          *)
PageInv ==
  /\ \A k \in Clicks : ai[k] # "none" \/ k \in carries => asked[k] = "answered"
  /\ game.of # 0 => asked[game.of] = "answered"
  /\ failures = 0 =>
       /\ game.over => phase = "gameover"
       /\ \A i \in DOMAIN saves :
            /\ ai[saves[i].of] = "none" /\ asked[saves[i].of] = "answered"
            /\ game.of = saves[i].of => game.over
  /\ CountedOnce

IInv == Types /\ ServerInv /\ PageInv

LEMMA InitIInv == Init => IInv
<1> SUFFICES ASSUME Init PROVE IInv
  OBVIOUS
<1>1. MaxClicks \in Nat
  BY SessionAssumption
<1>2. Types
  BY <1>1 DEF Init, Types, Phases, NoGame
<1>3. ServerInv
  BY DEF Init, ServerInv, OneCurrentGame, SavedResultsStand, InProgress
<1>4. PageInv
  BY DEF Init, PageInv, CountedOnce, NoGame
<1>5. QED BY <1>2, <1>3, <1>4 DEF IInv

-----------------------------------------------------------------------------
(* ServerInv speaks of tx, swept, rows, carries and saves only.            *)
LEMMA ServerUntouched ==
  ASSUME ServerInv, UNCHANGED <<server, carries, saves>>
  PROVE  ServerInv'
BY DEF ServerInv, server, OneCurrentGame, SavedResultsStand, InProgress

(* PageInv speaks of the page, of which games were saved, and of failures; *)
(* a failure leaves only its first two parts to show.                      *)
LEMMA PageUntouched ==
  ASSUME Types, PageInv, UNCHANGED page, failures' \in Nat, failures' >= failures,
         DOMAIN saves' = DOMAIN saves, \A i \in DOMAIN saves : saves'[i].of = saves[i].of
  PROVE  PageInv'
BY DEF Types, PageInv, page, CountedOnce

LEMMA FailureCounts ==
  ASSUME Types, Fails
  PROVE  failures' \in Nat /\ failures' # 0 /\ failures' >= failures
BY DEF Types, Fails

LEMMA SavedClicks ==
  ASSUME Types
  PROVE  \A i \in DOMAIN saves : saves[i] \in Save /\ saves[i].of \in Clicks /\ saves[i].of # 0
<1>1. \A i \in DOMAIN saves : saves[i] \in Save
  <2>1. saves \in Seq(Save)
    BY DEF Types
  <2>2. QED BY <2>1
<1>2. MaxClicks \in Nat
  BY SessionAssumption
<1>3. QED BY <1>1, <1>2 DEF Save, Clicks

LEMMA SessionType ==
  ASSUME NEW k \in Clicks, NEW over \in BOOLEAN, NEW human \in BOOLEAN
  PROVE  /\ Session(k, over, human) \in [of : 0 .. MaxClicks, over : BOOLEAN, human : BOOLEAN]
         /\ Session(k, over, human).of = k /\ Session(k, over, human).over = over
         /\ k # 0
<1>1. MaxClicks \in Nat /\ k \in 0 .. MaxClicks /\ k # 0
  BY SessionAssumption DEF Clicks
<1>2. QED BY <1>1 DEF Session

(* A call of save that moves on stays the call of the same game.           *)
LEMMA SaveMovesOn ==
  ASSUME saves \in Seq(Save), NEW i \in DOMAIN saves,
         NEW pc \in {"sent", "rowHeld", "done", "failed"},
         saves' = [saves EXCEPT ![i].pc = pc]
  PROVE  /\ saves' \in Seq(Save)
         /\ DOMAIN saves' = DOMAIN saves
         /\ \A j \in DOMAIN saves :
              /\ saves'[j].of = saves[j].of /\ saves'[j].carries = saves[j].carries
              /\ saves'[j].pc = IF j = i THEN pc ELSE saves[j].pc
<1>1. /\ \A j \in DOMAIN saves : saves[j] \in Save
      /\ DOMAIN saves = 1 .. Len(saves) /\ Len(saves) \in Nat
      /\ saves = [j \in 1 .. Len(saves) |-> saves[j]]
  OBVIOUS
<1>2. [saves[i] EXCEPT !.pc = pc] \in Save
  BY <1>1 DEF Save
<1>3. /\ saves' = [j \in 1 .. Len(saves) |->
                     IF j = i THEN [saves[i] EXCEPT !.pc = pc] ELSE saves[j]]
  BY <1>1
<1>4. saves' \in Seq(Save)
  BY <1>1, <1>2, <1>3
<1>5. QED BY <1>1, <1>3, <1>4 DEF Save

-----------------------------------------------------------------------------
(* The page.                                                               *)
LEMMA ClickKeeps ==
  ASSUME IInv, NEW k \in Clicks, ClickStart(k)
  PROVE  IInv'
<1>1. Types'
  BY DEF IInv, Types, ClickStart
<1>2. ServerInv'
  <2>1. k \notin carries
    BY DEF IInv, Types, ServerInv, PageInv, ClickStart
  <2>2. QED
    BY <2>1 DEF IInv, Types, ServerInv, ClickStart, OneCurrentGame, SavedResultsStand,
      InProgress
<1>3. PageInv'
  BY DEF IInv, Types, PageInv, ClickStart, CountedOnce
<1>4. QED BY <1>1, <1>2, <1>3 DEF IInv

(* startGame shows a game whose click had not been answered, so that it    *)
(* was neither saved nor asked about before.                               *)
LEMMA StartGameKeeps ==
  ASSUME IInv, NEW k \in Clicks, StartGame(k), asked[k] = "waiting",
         carries' \subseteq carries \cup {k}, UNCHANGED <<server, saves>>,
         failures' \in Nat, failures' >= failures,
         k \in carries' => tx[k] = "stored", carries \subseteq carries'
  PROVE  IInv'
<1>1. /\ game'.of = k /\ ~game'.over /\ asked' = [asked EXCEPT ![k] = "answered"]
      /\ phase' \in Phases /\ game' \in [of : 0 .. MaxClicks, over : BOOLEAN, human : BOOLEAN]
      /\ ai' = ai \/ ai' = [ai EXCEPT ![k] = "opening"]
  <2>1. CASE game' = Session(k, FALSE, TRUE) /\ phase' = "playing" /\ UNCHANGED ai
    BY <2>1, SessionType DEF StartGame, Phases
  <2>2. CASE /\ game' = Session(k, FALSE, FALSE) /\ phase' = "thinking"
             /\ ai' = [ai EXCEPT ![k] = "opening"]
    BY <2>2, SessionType DEF StartGame, Phases
  <2>3. QED BY <2>1, <2>2 DEF StartGame
<1>2. Types'
  BY <1>1 DEF IInv, Types, server
<1>3. ServerInv'
  BY DEF IInv, ServerInv, server, OneCurrentGame, SavedResultsStand, InProgress
<1>4. PageInv'
  <2>1. failures' = 0 => failures = 0
    BY DEF IInv, Types
  <2>2. failures = 0 => \A i \in DOMAIN saves : saves[i].of # k
    BY DEF IInv, PageInv
  <2>3. \A i \in DOMAIN saves : saves[i].of \in Clicks
    BY SavedClicks DEF IInv
  <2>4. \A j \in Clicks : ai'[j] # "none" \/ j \in carries' => asked'[j] = "answered"
    BY <1>1 DEF IInv, Types, PageInv
  <2>5. asked'[k] = "answered" /\ \A j \in Clicks : j # k => asked'[j] = asked[j] /\ ai'[j] = ai[j]
    BY <1>1 DEF IInv, Types
  <2>6. failures' = 0 => \A i \in DOMAIN saves' :
            /\ ai'[saves'[i].of] = "none" /\ asked'[saves'[i].of] = "answered"
            /\ game'.of # saves'[i].of
    BY <1>1, <2>1, <2>2, <2>3, <2>5 DEF IInv, PageInv
  <2>7. CountedOnce'
    BY <2>1 DEF IInv, PageInv, CountedOnce
  <2>8. QED BY <1>1, <2>4, <2>5, <2>6, <2>7 DEF PageInv
<1>5. QED BY <1>2, <1>3, <1>4 DEF IInv

LEMMA StartKeeps ==
  ASSUME IInv, NEW k \in Clicks, StartAnswered(k) \/ StartRefused(k) \/ StartUnanswered(k)
  PROVE  IInv'
<1>1. CASE StartAnswered(k)
  BY <1>1, StartGameKeeps DEF StartAnswered, IInv, Types, ServerInv
<1>2. CASE StartRefused(k)
  BY <1>2, StartGameKeeps DEF StartRefused, IInv, Types, ServerInv
<1>3. CASE StartUnanswered(k)
  BY <1>3, StartGameKeeps, FailureCounts DEF StartUnanswered, IInv, Types, ServerInv
<1>4. QED BY <1>1, <1>2, <1>3

(* A move is made in a game that goes on, which therefore was not saved.   *)
LEMMA MoveKeeps ==
  ASSUME IInv, MakeMove
  PROVE  IInv'
<1>1. game.of \in Clicks /\ ~game.over
  BY SessionAssumption DEF IInv, Types, MakeMove, Clicks
<1>2. /\ game'.of = game.of /\ game'.over = game.over
      /\ game' \in [of : 0 .. MaxClicks, over : BOOLEAN, human : BOOLEAN]
  BY DEF IInv, Types, MakeMove
<1>3. Types'
  BY <1>1, <1>2 DEF IInv, Types, MakeMove, Phases, server
<1>4. ServerInv'
  BY ServerUntouched DEF IInv, MakeMove
<1>5. PageInv'
  <2>1. \A i \in DOMAIN saves : saves[i].of \in Clicks
    BY SavedClicks DEF IInv
  <2>2. failures = 0 => \A i \in DOMAIN saves : saves[i].of # game.of
    BY <1>1 DEF IInv, PageInv
  <2>3. /\ asked[game.of] = "answered"
        /\ \A j \in Clicks : j # game.of => ai'[j] = ai[j]
    BY <1>1 DEF IInv, Types, PageInv, MakeMove, Clicks
  <2>4. \A j \in Clicks : ai'[j] # "none" \/ j \in carries' => asked'[j] = "answered"
    BY <2>3 DEF IInv, PageInv, MakeMove
  <2>5. QED BY <1>1, <1>2, <2>1, <2>2, <2>3, <2>4 DEF IInv, PageInv, MakeMove, CountedOnce, server
<1>6. QED BY <1>3, <1>4, <1>5 DEF IInv

LEMMA UndoOrResetKeeps ==
  ASSUME IInv, UndoMove \/ ResetGame
  PROVE  IInv'
<1>1. /\ UNCHANGED <<asked, carries, ai, server, saves, failures>>
      /\ game'.of = game.of \/ game'.of = 0
      /\ ~game'.over
      /\ game' \in [of : 0 .. MaxClicks, over : BOOLEAN, human : BOOLEAN]
      /\ phase' \in Phases
  <2>1. CASE UndoMove
    <3>1. game.of \in 0 .. MaxClicks
      BY DEF IInv, Types
    <3>2. PICK human \in BOOLEAN : game' = [of |-> game.of, over |-> FALSE, human |-> human]
      BY <2>1 DEF UndoMove, Session
    <3>3. QED BY <2>1, <3>1, <3>2 DEF UndoMove, Phases
  <2>2. CASE ResetGame
    <3>1. 0 \in 0 .. MaxClicks
      BY SessionAssumption
    <3>2. QED BY <2>2, <3>1 DEF ResetGame, NoGame, Phases
  <2>3. QED BY <2>1, <2>2
<1>2. Types'
  BY <1>1 DEF IInv, Types, server
<1>3. ServerInv'
  BY <1>1, ServerUntouched DEF IInv
<1>4. failures = 0 => game'.of = 0
  BY DEF IInv, PageInv, UndoMove, ResetGame, NoGame, Session
<1>5. \A i \in DOMAIN saves : saves[i].of # 0
  BY SavedClicks DEF IInv
<1>6. PageInv'
  BY <1>1, <1>4, <1>5 DEF IInv, PageInv, CountedOnce
<1>7. QED BY <1>2, <1>3, <1>6 DEF IInv

(* An answer shows a game that still had one to come. If it ends there, it *)
(* is the first time, and RecordEnd may save it.                           *)
LEMMA AnswerKeeps ==
  ASSUME IInv, NEW k \in Clicks, AiAnswers(k)
  PROVE  IInv'
<1>1. /\ game'.of = k /\ game'.over \in BOOLEAN
      /\ game' \in [of : 0 .. MaxClicks, over : BOOLEAN, human : BOOLEAN]
      /\ phase' \in Phases /\ (game'.over => phase' = "gameover")
  <2>1. CASE game' = Session(k, FALSE, TRUE) /\ phase' = "playing"
    BY <2>1, SessionType DEF Phases
  <2>2. CASE game' = Session(k, TRUE, FALSE) /\ phase' = "gameover"
    BY <2>2, SessionType DEF Phases
  <2>3. QED BY <2>1, <2>2 DEF AiAnswers
<1>2. /\ ai[k] # "none" /\ ai' = [ai EXCEPT ![k] = "none"]
      /\ UNCHANGED <<asked, carries, tx, swept, rows, failures>>
  BY DEF AiAnswers, server
<1>3. ASSUME NEW new \in Save, new.of = k, new.carries <=> k \in carries, new.pc = "sent",
             saves' = Append(saves, new), game'.over
      PROVE  IInv'
  <2>1. saves \in Seq(Save) /\ Len(saves) \in Nat
    BY DEF IInv, Types
  <2>2. /\ saves' \in Seq(Save)
        /\ DOMAIN saves' = DOMAIN saves \cup {Len(saves) + 1}
        /\ \A i \in DOMAIN saves : saves'[i] = saves[i] /\ i # Len(saves) + 1
        /\ saves'[Len(saves) + 1] = new
    BY <1>3, <2>1
  <2>3. Types'
    BY <1>1, <1>2, <2>2 DEF IInv, Types
  <2>4. ServerInv'
    BY <1>2, <1>3, <2>2 DEF IInv, ServerInv, OneCurrentGame, SavedResultsStand, InProgress
  <2>5. PageInv'
    <3>1. asked[k] = "answered" /\ (failures = 0 => \A i \in DOMAIN saves : saves[i].of # k)
      BY <1>2 DEF IInv, PageInv
    <3>2. \A i \in DOMAIN saves : saves[i].of \in Clicks
      BY SavedClicks DEF IInv
    <3>3. \A j \in Clicks : ai'[j] = IF j = k THEN "none" ELSE ai[j]
      BY <1>2 DEF IInv, Types
    <3>4. CountedOnce'
      BY <1>2, <1>3, <2>2, <3>1 DEF IInv, PageInv, CountedOnce
    <3>5. failures' = 0 => \A i \in DOMAIN saves' :
            /\ ai'[saves'[i].of] = "none" /\ asked'[saves'[i].of] = "answered"
            /\ game'.of = saves'[i].of => game'.over
      BY <1>2, <1>3, <2>2, <3>1, <3>2, <3>3 DEF IInv, PageInv
    <3>6. QED BY <1>1, <1>2, <3>1, <3>3, <3>4, <3>5 DEF IInv, PageInv
  <2>6. QED BY <2>3, <2>4, <2>5 DEF IInv
<1>4. CASE UNCHANGED saves
  <2>1. Types'
    BY <1>1, <1>2, <1>4 DEF IInv, Types
  <2>2. ServerInv'
    BY <1>2, <1>4, ServerUntouched DEF IInv, server
  <2>3. PageInv'
    <3>1. asked[k] = "answered" /\ (failures = 0 => \A i \in DOMAIN saves : saves[i].of # k)
      BY <1>2 DEF IInv, PageInv
    <3>2. \A i \in DOMAIN saves : saves[i].of \in Clicks
      BY SavedClicks DEF IInv
    <3>3. \A j \in Clicks : ai'[j] = IF j = k THEN "none" ELSE ai[j]
      BY <1>2 DEF IInv, Types
    <3>4. QED BY <1>1, <1>2, <1>4, <3>1, <3>2, <3>3 DEF IInv, PageInv, CountedOnce
  <2>4. QED BY <2>1, <2>2, <2>3 DEF IInv
<1>5. CASE phase # "gameover" /\ phase' = "gameover" /\ game'.over
  <2>1. saves' = Append(saves, [of |-> game'.of, carries |-> game'.of \in carries,
                                pc |-> "sent"])
    BY <1>5 DEF AiAnswers, RecordEnd
  <2>2. [of |-> game'.of, carries |-> game'.of \in carries, pc |-> "sent"] \in Save
    BY <1>1 DEF Save
  <2>3. QED BY <1>1, <1>3, <1>5, <2>1, <2>2
<1>6. QED BY <1>4, <1>5 DEF AiAnswers, RecordEnd

(* Once a call failed, PageInv promises little.                            *)
LEMMA AiFailureKeeps ==
  ASSUME IInv, NEW k \in Clicks, AiFails(k)
  PROVE  IInv'
<1>1. failures' \in Nat /\ failures' # 0
  BY FailureCounts DEF IInv, AiFails
<1>2. /\ UNCHANGED <<asked, carries, server, saves>> /\ phase' \in Phases
      /\ ai[k] # "none" /\ ai' = [ai EXCEPT ![k] = "none"]
      /\ \/ game' = game
         \/ /\ game'.of = k
            /\ game' \in [of : 0 .. MaxClicks, over : BOOLEAN, human : BOOLEAN]
  <2>1. CASE game' = Session(k, FALSE, TRUE)
    <3>1. /\ game'.of = k
          /\ game' \in [of : 0 .. MaxClicks, over : BOOLEAN, human : BOOLEAN]
      BY <2>1, SessionType
    <3>2. QED BY <3>1 DEF AiFails, Phases
  <2>2. CASE game' = game
    BY <2>2 DEF AiFails, Phases
  <2>3. QED BY <2>1, <2>2 DEF AiFails
<1>3. Types'
  BY <1>1, <1>2 DEF IInv, Types, server
<1>4. ServerInv'
  BY <1>2, ServerUntouched DEF IInv
<1>5. \A j \in Clicks : ai'[j] = IF j = k THEN "none" ELSE ai[j]
  BY <1>2 DEF IInv, Types
<1>6. game'.of # 0 => asked[game'.of] = "answered"
  BY <1>2 DEF IInv, PageInv
<1>7. PageInv'
  BY <1>1, <1>2, <1>5, <1>6 DEF IInv, PageInv, CountedOnce
<1>8. QED BY <1>3, <1>4, <1>7 DEF IInv

-----------------------------------------------------------------------------
(* What a step of the start k owes to ServerInv.                           *)
LEMMA StartStepKeepsServer ==
  ASSUME ServerInv, NEW k \in Clicks, k \notin carries, carries' = carries, saves' = saves,
         \A j \in Clicks : j # k => tx'[j] = tx[j],
         tx'[k] \in {"locked", "swept"} =>
           \A j \in Clicks : j # k => tx[j] \notin {"locked", "swept"},
         \A j \in Clicks : tx'[j] = "swept" => swept'[j] = InProgress',
         OneCurrentGame', SavedResultsStand', carries \subseteq Clicks
  PROVE  ServerInv'
<1>1. \A j, l \in Clicks :
        tx'[j] \in {"locked", "swept"} /\ tx'[l] \in {"locked", "swept"} => j = l
  BY DEF ServerInv
<1>2. \A j \in carries' : tx'[j] = "stored"
  BY DEF ServerInv
<1>3. \A i \in DOMAIN saves' : saves'[i].carries => saves'[i].of \in carries'
  BY DEF ServerInv
<1>4. QED BY <1>1, <1>2, <1>3 DEF ServerInv

(* /game/start. Its first statement is only reached by one start at a time.*)
LEMMA StartTxKeeps ==
  ASSUME IInv, NEW k \in Clicks, StartLock(k) \/ StartSweep(k) \/ StartCommit(k) \/ StartDies(k)
  PROVE  IInv'
<1>1. UNCHANGED <<page, saves>> /\ failures' \in Nat /\ failures' >= failures
  BY FailureCounts DEF IInv, Types, StartLock, StartSweep, StartCommit, StartDies
<1>2. PageInv'
  BY <1>1, PageUntouched DEF IInv
<1>3. InProgress \in SUBSET Clicks
  BY DEF InProgress
<1>4. Types'
  BY <1>1, <1>3 DEF IInv, Types, page, Advance, StartLock, StartSweep, StartCommit, StartDies
<1>5. carries' = carries /\ k \notin carries /\ carries \subseteq Clicks
  BY <1>1 DEF IInv, Types, ServerInv, page, Advance, StartLock, StartSweep, StartCommit, StartDies
<1>6. \A j \in Clicks : j # k => tx'[j] = tx[j]
  BY DEF IInv, Types, Advance, StartLock, StartSweep, StartCommit, StartDies
<1>7. ASSUME OneCurrentGame', SavedResultsStand',
             \A j \in Clicks : tx'[j] = "swept" => swept'[j] = InProgress',
             tx'[k] \in {"locked", "swept"} =>
               \A j \in Clicks : j # k => tx[j] \notin {"locked", "swept"}
      PROVE  IInv'
  BY <1>1, <1>2, <1>4, <1>5, <1>6, <1>7, StartStepKeepsServer DEF IInv
<1>8. ASSUME rows' = rows
      PROVE  InProgress' = InProgress /\ OneCurrentGame' /\ SavedResultsStand'
  BY <1>1, <1>8 DEF IInv, ServerInv, InProgress, OneCurrentGame, SavedResultsStand
<1>9. CASE StartLock(k)
  <2>1. UNCHANGED <<swept, rows>> /\ tx'[k] = "locked" /\ ~UserLocked
    BY <1>9 DEF StartLock, Advance, IInv, Types
  <2>2. \A j \in Clicks : tx[j] \notin {"locked", "swept"}
    BY <2>1 DEF UserLocked
  <2>3. QED BY <1>6, <1>7, <1>8, <2>1, <2>2
<1>10. CASE StartSweep(k)
  <2>1. /\ rows' = rows /\ tx[k] = "locked" /\ tx'[k] = "swept"
        /\ swept' = [swept EXCEPT ![k] = InProgress]
    BY <1>10 DEF StartSweep, Advance, IInv, Types
  <2>2. \A j \in Clicks : j # k => tx[j] \notin {"locked", "swept"}
    BY <2>1 DEF IInv, ServerInv
  <2>3. swept'[k] = InProgress
    BY <2>1 DEF IInv, Types
  <2>4. QED BY <1>6, <1>7, <1>8, <2>1, <2>2, <2>3
<1>11. CASE StartCommit(k)
  <2>1. /\ tx[k] = "swept" /\ tx'[k] = "stored" /\ swept[k] = InProgress
        /\ \A r \in Clicks :
             rows'[r] = IF r = k THEN "in_progress"
                        ELSE IF r \in InProgress THEN "abandoned" ELSE rows[r]
    BY <1>11 DEF StartCommit, Advance, IInv, Types, ServerInv
  <2>2. InProgress' = {k}
    BY <2>1 DEF InProgress
  <2>3. \A j \in Clicks : tx'[j] \notin {"locked", "swept"}
    BY <1>6, <2>1 DEF IInv, ServerInv
  <2>4. SavedResultsStand'
    BY <1>1, <1>5, <2>1, SavedClicks
    DEF IInv, ServerInv, SavedResultsStand, InProgress
  <2>5. OneCurrentGame'
    BY <2>2 DEF OneCurrentGame
  <2>6. QED BY <1>7, <2>3, <2>4, <2>5
<1>12. CASE StartDies(k)
  <2>1. UNCHANGED <<swept, rows>> /\ tx'[k] = "dead"
    BY <1>12 DEF StartDies, IInv, Types
  <2>2. \A j \in Clicks : tx'[j] = "swept" => swept'[j] = InProgress
    BY <1>6, <2>1 DEF IInv, ServerInv
  <2>3. QED BY <1>7, <1>8, <2>1, <2>2
<1>13. QED BY <1>9, <1>10, <1>11, <1>12

(* /game/save. A call that moves on without completing anything.           *)
LEMMA SaveStepKeeps ==
  ASSUME IInv, NEW i \in DOMAIN saves, NEW pc \in {"rowHeld", "failed"},
         saves' = [saves EXCEPT ![i].pc = pc], UNCHANGED <<page, server>>,
         failures' \in Nat, failures' >= failures
  PROVE  IInv'
<1>1. /\ saves' \in Seq(Save) /\ DOMAIN saves' = DOMAIN saves
      /\ \A j \in DOMAIN saves :
           /\ saves'[j].of = saves[j].of /\ saves'[j].carries = saves[j].carries
           /\ saves'[j].pc = "done" => saves[j].pc = "done"
  <2>1. saves \in Seq(Save) /\ pc \in {"sent", "rowHeld", "done", "failed"} /\ pc # "done"
    BY DEF IInv, Types
  <2>2. /\ saves' \in Seq(Save) /\ DOMAIN saves' = DOMAIN saves
        /\ \A j \in DOMAIN saves :
             /\ saves'[j].of = saves[j].of /\ saves'[j].carries = saves[j].carries
             /\ saves'[j].pc = IF j = i THEN pc ELSE saves[j].pc
    BY <2>1, SaveMovesOn
  <2>3. QED BY <2>1, <2>2
<1>2. Types'
  BY <1>1 DEF IInv, Types, page, server
<1>3. PageInv'
  BY <1>1, PageUntouched DEF IInv
<1>4. ServerInv'
  <2>1. InProgress' = InProgress
    BY DEF InProgress, server
  <2>2. OneCurrentGame' /\ SavedResultsStand'
    BY <1>1, <2>1 DEF IInv, ServerInv, OneCurrentGame, SavedResultsStand, server
  <2>3. QED BY <1>1, <2>1, <2>2 DEF IInv, ServerInv, page, server
<1>5. QED BY <1>2, <1>3, <1>4 DEF IInv

(* It completes a row only while no start holds the user, so that no start *)
(* has looked at that row and not yet committed.                           *)
LEMMA SaveUserKeeps ==
  ASSUME IInv, NEW i \in DOMAIN saves, SaveUser(i)
  PROVE  IInv'
<1>1. /\ saves' = [saves EXCEPT ![i].pc = "done"] /\ ~UserLocked
      /\ UNCHANGED <<page, tx, swept, failures>>
      /\ rows' = IF saves[i].carries THEN [rows EXCEPT ![saves[i].of] = "completed"]
                 ELSE rows
  BY DEF SaveUser
<1>2. /\ saves' \in Seq(Save) /\ DOMAIN saves' = DOMAIN saves
      /\ \A j \in DOMAIN saves :
           /\ saves'[j].of = saves[j].of /\ saves'[j].carries = saves[j].carries
           /\ saves'[j].pc = IF j = i THEN "done" ELSE saves[j].pc
  BY <1>1, SaveMovesOn DEF IInv, Types
<1>3. saves[i].of \in Clicks /\ failures' \in Nat /\ failures' >= failures
  BY <1>1, SavedClicks DEF IInv, Types
<1>4. \A r \in Clicks :
        rows'[r] = IF saves[i].carries /\ r = saves[i].of THEN "completed" ELSE rows[r]
  BY <1>1, <1>3 DEF IInv, Types
<1>5. Types'
  BY <1>1, <1>2, <1>3 DEF IInv, Types, page
<1>6. PageInv'
  BY <1>1, <1>2, <1>3, PageUntouched DEF IInv
<1>7. ServerInv'
  <2>1. \A k \in Clicks : tx'[k] \notin {"locked", "swept"}
    BY <1>1 DEF UserLocked
  <2>2. OneCurrentGame'
    BY <1>4 DEF IInv, ServerInv, OneCurrentGame, InProgress
  <2>3. SavedResultsStand'
    BY <1>2, <1>4, SavedClicks DEF IInv, ServerInv, SavedResultsStand
  <2>4. \A k \in carries' : tx'[k] = "stored"
    BY <1>1 DEF IInv, ServerInv, page
  <2>5. \A j \in DOMAIN saves' : saves'[j].carries => saves'[j].of \in carries'
    BY <1>1, <1>2 DEF IInv, ServerInv, page
  <2>6. QED BY <2>1, <2>2, <2>3, <2>4, <2>5 DEF ServerInv
<1>8. QED BY <1>5, <1>6, <1>7 DEF IInv

LEMMA DeadlockKeeps ==
  ASSUME IInv, NEW k \in Clicks, NEW i \in DOMAIN saves, DeadlockVictim(k, i)
  PROVE  IInv'
<1>1. failures' \in Nat /\ failures' >= failures
  BY DEF IInv, Types, DeadlockVictim
<1>2. CASE saves' = [saves EXCEPT ![i].pc = "failed"] /\ UNCHANGED tx
  BY <1>1, <1>2, SaveStepKeeps DEF DeadlockVictim, server
<1>3. CASE tx' = [tx EXCEPT ![k] = "dead"] /\ UNCHANGED saves
  <2>1. UNCHANGED <<page, swept, rows>> /\ tx[k] = "locked"
    BY DEF DeadlockVictim
  <2>2. /\ tx' \in [Clicks -> {"idle", "sent", "locked", "swept", "stored", "dead"}]
        /\ tx'[k] = "dead" /\ \A j \in Clicks : j # k => tx'[j] = tx[j]
    BY <1>3 DEF IInv, Types
  <2>3. Types'
    BY <1>1, <1>3, <2>1, <2>2 DEF IInv, Types, page
  <2>4. PageInv'
    BY <1>1, <1>3, <2>1, PageUntouched DEF IInv
  <2>5. InProgress' = InProgress
    BY <2>1 DEF InProgress
  <2>6. OneCurrentGame' /\ SavedResultsStand'
    BY <1>3, <2>1, <2>5 DEF IInv, ServerInv, OneCurrentGame, SavedResultsStand
  <2>7. carries' = carries /\ k \notin carries /\ carries \subseteq Clicks
    BY <2>1 DEF IInv, Types, ServerInv, page
  <2>8. \A j \in Clicks : tx'[j] = "swept" => swept'[j] = InProgress'
    BY <2>1, <2>2, <2>5 DEF IInv, ServerInv
  <2>9. ServerInv'
    BY <1>3, <2>2, <2>6, <2>7, <2>8, StartStepKeepsServer DEF IInv
  <2>10. QED BY <2>3, <2>4, <2>9 DEF IInv
<1>4. QED BY <1>2, <1>3 DEF DeadlockVictim

-----------------------------------------------------------------------------
LEMMA NextIInv == IInv /\ [Next]_vars => IInv'
<1> SUFFICES ASSUME IInv, [Next]_vars PROVE IInv'
  OBVIOUS
<1>1. CASE MakeMove \/ UndoMove \/ ResetGame
  BY <1>1, MoveKeeps, UndoOrResetKeeps
<1>2. ASSUME NEW k \in Clicks,
             ClickStart(k) \/ StartAnswered(k) \/ StartRefused(k) \/ StartUnanswered(k)
      PROVE  IInv'
  BY <1>2, ClickKeeps, StartKeeps
<1>3. ASSUME NEW k \in Clicks, AiAnswers(k) \/ AiFails(k) PROVE IInv'
  BY <1>3, AnswerKeeps, AiFailureKeeps
<1>4. ASSUME NEW k \in Clicks,
             StartLock(k) \/ StartSweep(k) \/ StartCommit(k) \/ StartDies(k)
      PROVE  IInv'
  BY <1>4, StartTxKeeps
<1>5. ASSUME NEW i \in DOMAIN saves, SaveRow(i) PROVE IInv'
  <2>1. failures' \in Nat /\ failures' >= failures
    BY <1>5 DEF SaveRow, IInv, Types
  <2>2. saves' = [saves EXCEPT ![i].pc = "rowHeld"] /\ UNCHANGED <<page, server>>
    BY <1>5 DEF SaveRow
  <2>3. QED BY <2>1, <2>2, SaveStepKeeps
<1>6. ASSUME NEW i \in DOMAIN saves, SaveUser(i) PROVE IInv'
  BY <1>6, SaveUserKeeps
<1>7. ASSUME NEW i \in DOMAIN saves, SaveDies(i) PROVE IInv'
  <2>1. failures' \in Nat /\ failures' >= failures
    BY <1>7, FailureCounts DEF SaveDies, IInv
  <2>2. saves' = [saves EXCEPT ![i].pc = "failed"] /\ UNCHANGED <<page, server>>
    BY <1>7 DEF SaveDies
  <2>3. QED BY <2>1, <2>2, SaveStepKeeps
<1>8. ASSUME NEW k \in Clicks, NEW i \in DOMAIN saves, DeadlockVictim(k, i) PROVE IInv'
  BY <1>8, DeadlockKeeps
<1>9. CASE UNCHANGED vars
  <2>1. failures' \in Nat /\ failures' >= failures
    BY <1>9 DEF IInv, Types, vars
  <2>2. Types' /\ PageInv'
    BY <1>9, <2>1, PageUntouched DEF IInv, Types, vars, page, server
  <2>3. ServerInv'
    BY <1>9, ServerUntouched DEF IInv, vars, page, server
  <2>4. QED BY <2>2, <2>3 DEF IInv
<1>10. QED BY <1>1, <1>2, <1>3, <1>4, <1>5, <1>6, <1>7, <1>8, <1>9 DEF Next

(* The strengthened invariant holds in every reachable state, for every    *)
(* number of clicks and of failing calls.                                  *)
THEOREM SessionInvariance == Spec => []IInv
<1>1. Init => IInv
  BY InitIInv
<1>2. IInv /\ [Next]_vars => IInv'
  BY NextIInv
<1>3. QED BY <1>1, <1>2, PTL DEF Spec

(* However many starts overlap, with whatever saves, deadlocks and         *)
(* failures: at most one row of the user is in progress.                   *)
THEOREM OnlyOneCurrentGame == Spec => []OneCurrentGame
<1>1. IInv => OneCurrentGame
  BY DEF IInv, ServerInv
<1>2. QED BY <1>1, SessionInvariance, PTL

(* A result saved under its id is never swept away by a later start.       *)
THEOREM SavedResultsAreKept == Spec => []SavedResultsStand
<1>1. IInv => SavedResultsStand
  BY DEF IInv, ServerInv
<1>2. QED BY <1>1, SessionInvariance, PTL

(* While no call fails, the page saves, and so rates, each game at most    *)
(* once, in whatever order answers arrive and games are left.              *)
THEOREM GamesCountOnce == Spec => []CountedOnce
<1>1. IInv => CountedOnce
  BY DEF IInv, PageInv
<1>2. QED BY <1>1, SessionInvariance, PTL
-----------------------------------------------------------------------------
(* Ratings.                                                                *)
HRow == [row : Games \cup Sessions, user : Users, before : Int, after : Int]

Tx == [pc : Steps, host : Users \cup {NoUser}, guest : Users \cup {NoUser},
       hostWon : BOOLEAN, hostSnap : UserRow, guestSnap : UserRow,
       row : Sessions \cup {NoSession}]

VersionsIn(h, u) == {i \in DOMAIN h : h[i].user = u}

(* What the history h of the user u says of the row in users. (That a set  *)
(* of versions has a last one is carried along, not proved by induction.)  *)
Accounted(row, h, u) ==
  /\ VersionsIn(h, u) # {} =>
       /\ Max(VersionsIn(h, u)) \in VersionsIn(h, u)
       /\ \A i \in VersionsIn(h, u) : Max(VersionsIn(h, u)) >= i
  /\ row.count = Cardinality(VersionsIn(h, u))
  /\ row.rating = IF VersionsIn(h, u) = {} THEN Initial ELSE h[Max(VersionsIn(h, u))].after
  /\ row.peak >= row.rating

(* The players of a game that is being rated: two, or one against the AI.  *)
Seated(g) ==
  ratingTx[g].pc # "idle" =>
    /\ ratingTx[g].host \in Users
    /\ g \notin AiGames => ratingTx[g].guest \in Users /\ ratingTx[g].guest # ratingTx[g].host
    /\ ratingTx[g].pc = "readGuest" => g \notin AiGames

RatingIInv ==
  /\ RatingTypeOK
  /\ \A g \in Games : Seated(g)
  /\ \A u \in Users : Accounted(users[u], history, u)

LEMMA RatingConstants == Initial \in Int /\ AiRating \in Int /\ Gap \in Nat /\ Provisional \in Nat
BY RatingsAssumption

LEMMA MaxIsTheGreatest ==
  ASSUME NEW S \in SUBSET Int, NEW m \in S, \A y \in S : m >= y
  PROVE  Max(S) = m
<1>1. \A x \in S : (\A y \in S : x >= y) => x = m
  OBVIOUS
<1>2. QED BY <1>1 DEF Max

LEMMA MaxOfTwo ==
  ASSUME NEW a \in Int, NEW b \in Int
  PROVE  Max({a, b}) \in Int /\ Max({a, b}) >= a /\ Max({a, b}) >= b
<1>1. CASE a >= b
  BY <1>1, MaxIsTheGreatest
<1>2. CASE b >= a
  BY <1>2, MaxIsTheGreatest
<1>3. QED BY <1>1, <1>2

LEMMA EloUpdateType ==
  ASSUME NEW ra \in Int, NEW rb \in Int, NEW won \in BOOLEAN, NEW count \in Nat
  PROVE  EloUpdate(ra, rb, won, KFactor(count)) \in Int
<1>1. KFactor(count) \in Int
  BY DEF KFactor
<1>2. QED BY <1>1 DEF EloUpdate, Points

-----------------------------------------------------------------------------
(* One more row in the history.                                            *)
LEMMA RowsAfterAppend ==
  ASSUME NEW h \in Seq(HRow), NEW new \in HRow, NEW u
  PROVE  /\ IsFiniteSet(VersionsIn(h, u)) /\ VersionsIn(h, u) \subseteq 1 .. Len(h)
         /\ Len(h) \in Nat
         /\ Append(h, new) \in Seq(HRow)
         /\ \A i \in 1 .. Len(h) : Append(h, new)[i] = h[i]
         /\ Append(h, new)[Len(h) + 1] = new
         /\ VersionsIn(Append(h, new), u) =
              IF new.user = u THEN VersionsIn(h, u) \cup {Len(h) + 1} ELSE VersionsIn(h, u)
<1>1. /\ Len(h) \in Nat /\ DOMAIN h = 1 .. Len(h)
      /\ Append(h, new) \in Seq(HRow)
      /\ DOMAIN Append(h, new) = 1 .. (Len(h) + 1)
      /\ \A i \in 1 .. Len(h) : Append(h, new)[i] = h[i]
      /\ Append(h, new)[Len(h) + 1] = new
  OBVIOUS
<1>2. VersionsIn(h, u) \subseteq 1 .. Len(h)
  BY <1>1 DEF VersionsIn
<1>3. IsFiniteSet(VersionsIn(h, u))
  <2>1. IsFiniteSet(1 .. Len(h))
    <3>1. 1 \in Int /\ Len(h) \in Int
      BY <1>1
    <3>2. QED BY <3>1, FS_Interval
  <2>2. QED BY <1>2, <2>1, FS_Subset
<1>4. VersionsIn(Append(h, new), u) =
        IF new.user = u THEN VersionsIn(h, u) \cup {Len(h) + 1} ELSE VersionsIn(h, u)
  BY <1>1 DEF VersionsIn
<1>5. QED BY <1>1, <1>2, <1>3, <1>4

LEMMA OwnRowAppended ==
  ASSUME NEW h \in Seq(HRow), NEW new \in HRow, NEW row \in UserRow, NEW row2 \in UserRow,
         Accounted(row, h, new.user),
         row2.count = row.count + 1, row2.rating = new.after, row2.peak >= row2.rating
  PROVE  Accounted(row2, Append(h, new), new.user)
<1> DEFINE S == VersionsIn(h, new.user)  n == Len(h) + 1
<1>1. /\ IsFiniteSet(S) /\ S \subseteq 1 .. Len(h) /\ Len(h) \in Nat
      /\ Append(h, new)[n] = new
      /\ VersionsIn(Append(h, new), new.user) = S \cup {n}
  BY RowsAfterAppend
<1>2. n \notin S /\ S \cup {n} \in SUBSET Int /\ \A i \in S \cup {n} : n >= i
  BY <1>1
<1>3. Cardinality(S \cup {n}) = Cardinality(S) + 1
  BY <1>1, <1>2, FS_AddElement
<1>4. Max(S \cup {n}) = n
  BY <1>2, MaxIsTheGreatest
<1>5. QED BY <1>1, <1>2, <1>3, <1>4 DEF Accounted

LEMMA OtherRowAppended ==
  ASSUME NEW h \in Seq(HRow), NEW new \in HRow, NEW u, new.user # u, NEW row,
         Accounted(row, h, u)
  PROVE  Accounted(row, Append(h, new), u)
<1> DEFINE S == VersionsIn(h, u)
<1>1. /\ IsFiniteSet(S) /\ S \subseteq 1 .. Len(h)
      /\ \A i \in 1 .. Len(h) : Append(h, new)[i] = h[i]
      /\ VersionsIn(Append(h, new), u) = S
  BY RowsAfterAppend
<1>2. CASE S = {}
  BY <1>1, <1>2 DEF Accounted
<1>3. CASE S # {}
  <2>1. Max(S) \in S
    BY <1>3 DEF Accounted
  <2>2. QED BY <1>1, <1>3, <2>1 DEF Accounted
<1>4. QED BY <1>2, <1>3

-----------------------------------------------------------------------------
LEMMA InitRatingIInv == RatingInit => RatingIInv
<1> SUFFICES ASSUME RatingInit PROVE RatingIInv
  OBVIOUS
<1>1. NewUser \in UserRow /\ Idle \in Tx
  BY RatingConstants DEF NewUser, UserRow, Idle, Tx, Steps
<1>2. RatingTypeOK
  BY <1>1 DEF RatingInit, RatingTypeOK, Tx
<1>3. \A g \in Games : Seated(g)
  BY DEF RatingInit, Seated, Idle
<1>4. \A u \in Users : VersionsIn(history, u) = {}
  BY DEF RatingInit, VersionsIn
<1>5. \A u \in Users : Accounted(users[u], history, u)
  <2>1. Cardinality({}) = 0
    BY FS_EmptySet
  <2>2. \A u \in Users : users[u] = NewUser
    BY DEF RatingInit
  <2>3. QED BY <1>4, <2>1, <2>2, RatingConstants DEF Accounted, NewUser
<1>6. QED BY <1>2, <1>3, <1>5 DEF RatingIInv

LEMMA AccountsUntouched ==
  ASSUME RatingIInv, UNCHANGED <<users, history>>
  PROVE  \A u \in Users : Accounted(users[u], history, u)'
<1> SUFFICES ASSUME NEW u \in Users PROVE Accounted(users'[u], history', u)
  BY DEF Accounted, VersionsIn
<1>1. Accounted(users[u], history, u)
  BY DEF RatingIInv
<1>2. users' = users /\ history' = history
  OBVIOUS
<1>3. QED BY <1>1, <1>2

(* A step of the transaction of g that commits nothing.                    *)
LEMMA UncommittedKeepsRatings ==
  ASSUME RatingIInv, NEW g \in Games, NEW t \in Tx, ratingTx' = [ratingTx EXCEPT ![g] = t],
         UNCHANGED <<users, history>>,
         t.pc # "idle" =>
           /\ t.host \in Users
           /\ g \notin AiGames => t.guest \in Users /\ t.guest # t.host
           /\ t.pc = "readGuest" => g \notin AiGames
  PROVE  RatingIInv'
<1>1. RatingTypeOK' /\ ratingTx \in [Games -> Tx]
  BY DEF RatingIInv, RatingTypeOK, Tx
<1>2. \A h \in Games : Seated(h)'
  BY <1>1 DEF RatingIInv, Seated
<1>3. \A u \in Users : Accounted(users[u], history, u)'
  BY AccountsUntouched
<1>4. QED BY <1>1, <1>2, <1>3 DEF RatingIInv

LEMMA TxFacts ==
  ASSUME RatingIInv, NEW g \in Games
  PROVE  /\ ratingTx[g] \in Tx
         /\ ratingTx[g].hostSnap \in UserRow /\ ratingTx[g].guestSnap \in UserRow
         /\ ratingTx[g].hostWon \in BOOLEAN
         /\ HostAfter(g) \in Int /\ GuestAfter(g) \in Int
<1>1. ratingTx[g] \in Tx
  BY DEF RatingIInv, RatingTypeOK, Tx
<1>2. /\ ratingTx[g].hostSnap \in UserRow /\ ratingTx[g].guestSnap \in UserRow
      /\ ratingTx[g].hostWon \in BOOLEAN
  BY <1>1 DEF Tx
<1>3. /\ ratingTx[g].hostSnap.rating \in Int /\ ratingTx[g].guestSnap.rating \in Int
      /\ ratingTx[g].hostSnap.count \in Nat /\ ratingTx[g].guestSnap.count \in Nat
      /\ (~ratingTx[g].hostWon) \in BOOLEAN
  BY <1>2 DEF UserRow
<1>4. HostAfter(g) \in Int
  <2>1. (IF g \in AiGames THEN AiRating ELSE ratingTx[g].guestSnap.rating) \in Int
    BY <1>3, RatingConstants
  <2>2. QED BY <1>2, <1>3, <2>1, EloUpdateType DEF HostAfter
<1>5. GuestAfter(g) \in Int
  BY <1>3, EloUpdateType DEF GuestAfter
<1>6. QED BY <1>1, <1>2, <1>4, <1>5

(* Both ways of writing a row count the game and cover the new rating.     *)
LEMMA RatedFacts ==
  ASSUME NEW row \in UserRow, NEW snap \in UserRow, NEW after \in Int
  PROVE  /\ Rated(row, snap, after) \in UserRow
         /\ Rated(row, snap, after).count = row.count + 1
         /\ Rated(row, snap, after).rating = after
         /\ Rated(row, snap, after).peak >= after
         /\ Saved(row, snap, after) \in UserRow
         /\ Saved(row, snap, after).count = row.count + 1
         /\ Saved(row, snap, after).rating = after
         /\ Saved(row, snap, after).peak >= after
<1>1. row.peak \in Int /\ snap.peak \in Int /\ row.count \in Nat
  BY DEF UserRow
<1>2. /\ Max({row.peak, after}) \in Int /\ Max({row.peak, after}) >= after
      /\ Max({snap.peak, after}) \in Int /\ Max({snap.peak, after}) >= after
  BY <1>1, MaxOfTwo
<1>3. QED BY <1>1, <1>2 DEF Rated, Saved, UserRow

-----------------------------------------------------------------------------
LEMMA CommitRoomKeepsRatings ==
  ASSUME RatingIInv, NEW g \in Games, CommitRoom(g)
  PROVE  RatingIInv'
<1> DEFINE t == ratingTx[g]
           a == HistoryRow(g, t.host, t.hostSnap.rating, HostAfter(g))
           b == HistoryRow(g, t.guest, t.guestSnap.rating, GuestAfter(g))
           host2 == Rated(users[t.host], t.hostSnap, HostAfter(g))
           guest2 == Rated(users[t.guest], t.guestSnap, GuestAfter(g))
<1>1. /\ t \in Tx /\ t.hostSnap \in UserRow /\ t.guestSnap \in UserRow
      /\ HostAfter(g) \in Int /\ GuestAfter(g) \in Int
  BY TxFacts
<1>2. t.host \in Users /\ t.guest \in Users /\ t.guest # t.host
  BY DEF RatingIInv, Seated, CommitRoom
<1>3. /\ history \in Seq(HRow) /\ users \in [Users -> UserRow] /\ ratingTx \in [Games -> Tx]
  BY DEF RatingIInv, RatingTypeOK, HRow, Tx
<1>4. a \in HRow /\ b \in HRow /\ a.user = t.host /\ b.user = t.guest
      /\ a.after = HostAfter(g) /\ b.after = GuestAfter(g)
  BY <1>1, <1>2 DEF HistoryRow, HRow, UserRow
<1>5. /\ host2 \in UserRow /\ host2.count = users[t.host].count + 1
      /\ host2.rating = a.after /\ host2.peak >= host2.rating
  <2>1. users[t.host] \in UserRow
    BY <1>2, <1>3
  <2>2. QED BY <1>1, <1>4, <2>1, RatedFacts
<1>6. /\ guest2 \in UserRow /\ guest2.count = users[t.guest].count + 1
      /\ guest2.rating = b.after /\ guest2.peak >= guest2.rating
  <2>1. users[t.guest] \in UserRow
    BY <1>2, <1>3
  <2>2. QED BY <1>1, <1>4, <2>1, RatedFacts
<1>7. /\ users' = [users EXCEPT ![t.host] = host2, ![t.guest] = guest2]
      /\ history' = history \o <<a, b>>
      /\ ratingTx' = [ratingTx EXCEPT ![g].pc = "done"] /\ t.pc = "commit"
  BY DEF CommitRoom
<1>8. history' = Append(Append(history, a), b) /\ Append(history, a) \in Seq(HRow)
      /\ history' \in Seq(HRow)
  BY <1>3, <1>4, <1>7
<1>9. ratingTx' \in [Games -> Tx] /\ \A h \in Games : Seated(h)'
  <2>1. [t EXCEPT !.pc = "done"] \in Tx
    BY <1>1 DEF Tx, Steps
  <2>2. ratingTx' = [ratingTx EXCEPT ![g] = [t EXCEPT !.pc = "done"]]
    BY <1>7
  <2>3. QED BY <1>1, <1>2, <1>3, <2>1, <2>2 DEF RatingIInv, Seated, Tx
<1>10. users' \in [Users -> UserRow]
  BY <1>3, <1>5, <1>6, <1>7
<1>11. RatingTypeOK'
  BY <1>8, <1>9, <1>10 DEF RatingTypeOK, Tx, HRow
<1>12. ASSUME NEW u \in Users PROVE Accounted(users'[u], history', u)
  <2>1. Accounted(users[u], history, u) /\ users[u] \in UserRow
    BY <1>3 DEF RatingIInv
  <2>2. CASE u = t.host
    <3>1. users'[u] = host2
      BY <1>2, <1>3, <1>7, <2>2
    <3>2. Accounted(host2, Append(history, a), u)
      BY <1>3, <1>4, <1>5, <2>1, <2>2, OwnRowAppended
    <3>3. QED BY <1>2, <1>4, <1>8, <2>2, <3>1, <3>2, OtherRowAppended
  <2>3. CASE u = t.guest
    <3>1. users'[u] = guest2
      BY <1>2, <1>3, <1>7, <2>3
    <3>2. Accounted(users[u], Append(history, a), u)
      BY <1>2, <1>3, <1>4, <2>1, <2>3, OtherRowAppended
    <3>3. QED BY <1>4, <1>6, <1>8, <2>1, <2>3, <3>1, <3>2, OwnRowAppended
  <2>4. CASE u # t.host /\ u # t.guest
    <3>1. users'[u] = users[u]
      BY <1>2, <1>3, <1>7, <2>4
    <3>2. Accounted(users[u], Append(history, a), u)
      BY <1>3, <1>4, <2>1, <2>4, OtherRowAppended
    <3>3. QED BY <1>4, <1>8, <2>4, <3>1, <3>2, OtherRowAppended
  <2>5. QED BY <2>2, <2>3, <2>4
<1>13. \A u \in Users : Accounted(users[u], history, u)'
  BY <1>12 DEF Accounted, VersionsIn
<1>14. QED BY <1>9, <1>11, <1>13 DEF RatingIInv

LEMMA CommitSaveKeepsRatings ==
  ASSUME RatingIInv, NEW g \in Games, CommitSave(g)
  PROVE  RatingIInv'
<1> DEFINE t == ratingTx[g]
           a == HistoryRow(IF FindsRow(t) THEN t.row ELSE g, t.host, t.hostSnap.rating, HostAfter(g))
           host2 == Saved(users[t.host], t.hostSnap, HostAfter(g))
<1>1. t \in Tx /\ t.hostSnap \in UserRow /\ HostAfter(g) \in Int
  BY TxFacts
<1>2. t.host \in Users /\ g \in AiGames
  BY DEF RatingIInv, Seated, CommitSave
<1>3. /\ history \in Seq(HRow) /\ users \in [Users -> UserRow] /\ ratingTx \in [Games -> Tx]
  BY DEF RatingIInv, RatingTypeOK, HRow, Tx
<1>4. a \in HRow /\ a.user = t.host /\ a.after = HostAfter(g)
  BY <1>1, <1>2 DEF HistoryRow, HRow, UserRow, FindsRow
<1>5. /\ host2 \in UserRow /\ host2.count = users[t.host].count + 1
      /\ host2.rating = a.after /\ host2.peak >= host2.rating
  <2>1. users[t.host] \in UserRow
    BY <1>2, <1>3
  <2>2. QED BY <1>1, <1>4, <2>1, RatedFacts
<1>6. /\ users' = [users EXCEPT ![t.host] = host2] /\ history' = Append(history, a)
      /\ ratingTx' = [ratingTx EXCEPT ![g].pc = "done"] /\ t.pc = "commit"
  BY DEF CommitSave
<1>7. ratingTx' \in [Games -> Tx] /\ \A h \in Games : Seated(h)'
  <2>1. [t EXCEPT !.pc = "done"] \in Tx
    BY <1>1 DEF Tx, Steps
  <2>2. ratingTx' = [ratingTx EXCEPT ![g] = [t EXCEPT !.pc = "done"]]
    BY <1>6
  <2>3. QED BY <1>1, <1>2, <1>3, <2>1, <2>2 DEF RatingIInv, Seated, Tx
<1>8. users' \in [Users -> UserRow] /\ history' \in Seq(HRow)
  <2>1. users' \in [Users -> UserRow]
    BY <1>3, <1>5, <1>6
  <2>2. history' \in Seq(HRow)
    BY <1>3, <1>4, <1>6
  <2>3. QED BY <2>1, <2>2
<1>9. RatingTypeOK'
  BY <1>7, <1>8 DEF RatingTypeOK, Tx, HRow
<1>10. ASSUME NEW u \in Users PROVE Accounted(users'[u], history', u)
  <2>1. Accounted(users[u], history, u) /\ users[u] \in UserRow
    BY <1>3 DEF RatingIInv
  <2>2. CASE u = t.host
    <3>1. users'[u] = host2
      BY <1>2, <1>3, <1>6, <2>2
    <3>2. QED BY <1>3, <1>4, <1>5, <1>6, <2>1, <2>2, <3>1, OwnRowAppended
  <2>3. CASE u # t.host
    <3>1. users'[u] = users[u]
      BY <1>3, <1>6, <2>3
    <3>2. QED BY <1>3, <1>4, <1>6, <2>1, <2>3, <3>1, OtherRowAppended
  <2>4. QED BY <2>2, <2>3
<1>11. \A u \in Users : Accounted(users[u], history, u)'
  BY <1>10 DEF Accounted, VersionsIn
<1>12. QED BY <1>7, <1>9, <1>11 DEF RatingIInv

-----------------------------------------------------------------------------
LEMMA NextRatingIInv == RatingIInv /\ [RatingNext]_ratingVars => RatingIInv'
<1> SUFFICES ASSUME RatingIInv, [RatingNext]_ratingVars PROVE RatingIInv'
  OBVIOUS
<1>1. Idle \in Tx /\ users \in [Users -> UserRow]
  BY RatingConstants DEF Idle, NewUser, UserRow, Tx, Steps, RatingIInv, RatingTypeOK
<1>2. ASSUME NEW g \in Games, NEW host \in Users, NEW guest \in Users, NEW won \in BOOLEAN,
             BeginRoom(g, host, guest, won)
      PROVE  RatingIInv'
  <2> DEFINE t == [Idle EXCEPT !.pc = "readHost", !.host = host, !.guest = guest, !.hostWon = won]
  <2>1. /\ t \in Tx /\ t.pc = "readHost" /\ t.host = host /\ t.guest = guest
    BY <1>1 DEF Tx, Steps, Idle
  <2>2. /\ ratingTx' = [ratingTx EXCEPT ![g] = t] /\ UNCHANGED <<users, history>> /\ host # guest
    BY <1>2 DEF BeginRoom
  <2>3. QED BY <2>1, <2>2, UncommittedKeepsRatings
<1>3. ASSUME NEW g \in Games, NEW u \in Users, NEW won \in BOOLEAN,
             NEW row \in Sessions \cup {NoSession}, BeginSave(g, u, won, row)
      PROVE  RatingIInv'
  <2> DEFINE t == [Idle EXCEPT !.pc = "readHost", !.host = u, !.hostWon = won, !.row = row]
  <2>1. t \in Tx /\ t.pc = "readHost" /\ t.host = u
    BY <1>1 DEF Tx, Steps, Idle
  <2>2. ratingTx' = [ratingTx EXCEPT ![g] = t] /\ UNCHANGED <<users, history>> /\ g \in AiGames
    BY <1>3 DEF BeginSave
  <2>3. QED BY <2>1, <2>2, UncommittedKeepsRatings
<1>4. ASSUME NEW g \in Games,
             ReadHost(g) \/ ReadGuest(g) \/ UpdateRow(g) \/ UpdateHost(g) \/ UpdateGuest(g)
             \/ Rollback(g)
      PROVE  RatingIInv'
  <2>1. /\ ratingTx[g] \in Tx /\ ratingTx \in [Games -> Tx] /\ ratingTx[g].pc # "idle"
        /\ ratingTx[g].host \in Users
        /\ g \notin AiGames => ratingTx[g].guest \in Users /\ ratingTx[g].guest # ratingTx[g].host
    BY <1>4, TxFacts DEF RatingIInv, RatingTypeOK, Tx, Seated, ReadHost, ReadGuest, UpdateRow,
      UpdateHost, UpdateGuest, Goto, Rollback
  <2>2. UNCHANGED <<users, history>>
    BY <1>4 DEF ReadHost, ReadGuest, UpdateRow, UpdateHost, UpdateGuest, Goto, Rollback
  <2>3. ASSUME NEW pc \in Steps \ {"readGuest"}, ratingTx' = [ratingTx EXCEPT ![g].pc = pc] PROVE RatingIInv'
    <3>1. /\ [ratingTx[g] EXCEPT !.pc = pc] \in Tx /\ ratingTx' = [ratingTx EXCEPT ![g] = [ratingTx[g] EXCEPT !.pc = pc]]
          /\ [ratingTx[g] EXCEPT !.pc = pc].pc = pc
          /\ [ratingTx[g] EXCEPT !.pc = pc].host = ratingTx[g].host
          /\ [ratingTx[g] EXCEPT !.pc = pc].guest = ratingTx[g].guest
      BY <2>1, <2>3 DEF Tx
    <3>2. QED BY <2>1, <2>2, <3>1, UncommittedKeepsRatings
  <2>4. CASE UpdateRow(g) \/ UpdateHost(g) \/ UpdateGuest(g)
    BY <2>3, <2>4 DEF UpdateRow, UpdateHost, UpdateGuest, Goto, Steps
  <2>5. CASE ReadHost(g)
    <3> DEFINE t == [ratingTx[g] EXCEPT !.hostSnap = users[ratingTx[g].host],
                                  !.pc = IF g \notin AiGames THEN "readGuest"
                                         ELSE IF FindsRow(ratingTx[g]) THEN "updateRow"
                                         ELSE "updateHost"]
    <3>1. /\ t \in Tx /\ t.host = ratingTx[g].host /\ t.guest = ratingTx[g].guest
          /\ t.pc = "readGuest" => g \notin AiGames
      BY <1>1, <2>1 DEF Tx, Steps
    <3>2. ratingTx' = [ratingTx EXCEPT ![g] = t]
      BY <2>1, <2>5 DEF ReadHost, Tx
    <3>3. QED BY <2>1, <2>2, <3>1, <3>2, UncommittedKeepsRatings
  <2>6. CASE ReadGuest(g)
    <3> DEFINE t == [ratingTx[g] EXCEPT !.guestSnap = users[ratingTx[g].guest], !.pc = "updateHost"]
    <3>1. /\ t \in Tx /\ t.host = ratingTx[g].host /\ t.guest = ratingTx[g].guest
          /\ t.pc = "updateHost"
      <4>1. users[ratingTx[g].guest] \in UserRow
        BY <1>1, <2>1, <2>6 DEF ReadGuest, RatingIInv, Seated
      <4>2. QED BY <2>1, <4>1 DEF Tx, Steps
    <3>2. ratingTx' = [ratingTx EXCEPT ![g] = t]
      BY <2>1, <2>6 DEF ReadGuest, Tx
    <3>3. QED BY <2>1, <2>2, <3>1, <3>2, UncommittedKeepsRatings
  <2>7. CASE Rollback(g)
    BY <1>1, <2>2, <2>7, UncommittedKeepsRatings DEF Rollback, Idle
  <2>8. QED BY <1>4, <2>4, <2>5, <2>6, <2>7
<1>5. ASSUME NEW g \in Games, CommitRoom(g) \/ CommitSave(g) PROVE RatingIInv'
  BY <1>5, CommitRoomKeepsRatings, CommitSaveKeepsRatings
<1>6. CASE UNCHANGED ratingVars
  <2>1. \A u \in Users : Accounted(users[u], history, u)'
    BY <1>6, AccountsUntouched DEF ratingVars
  <2>2. RatingTypeOK' /\ \A g \in Games : Seated(g)'
    BY <1>6 DEF ratingVars, RatingIInv, RatingTypeOK, Seated
  <2>3. QED BY <2>1, <2>2 DEF RatingIInv
<1>7. QED BY <1>2, <1>3, <1>4, <1>5, <1>6 DEF RatingNext

(* The strengthened invariant holds in every reachable state.              *)
THEOREM RatingsInvariance == RatingSpec => []RatingIInv
<1>1. RatingInit => RatingIInv
  BY InitRatingIInv
<1>2. RatingIInv /\ [RatingNext]_ratingVars => RatingIInv'
  BY NextRatingIInv
<1>3. QED BY <1>1, <1>2, PTL DEF RatingSpec

(* Types of all variables, for any ratings.                                *)
THEOREM RatingTypes == RatingSpec => []RatingTypeOK
<1>1. RatingIInv => RatingTypeOK
  BY DEF RatingIInv
<1>2. QED BY <1>1, RatingsInvariance, PTL

(* elo_games_count counts every rating of the user once, however settle-   *)
(* ments, saves and rollbacks overlap.                                     *)
THEOREM EveryRatingIsCounted == RatingSpec => []EveryRatingCounts
<1>1. RatingIInv => EveryRatingCounts
  BY DEF RatingIInv, EveryRatingCounts, Accounted, VersionsIn, Versions
<1>2. QED BY <1>1, RatingsInvariance, PTL

(* So it is the number of the user's rated games in the history as long as *)
(* no save overwrites the result of another.                               *)
THEOREM CountsMatchHistory == RatingSpec => []CountIsHistoryUnlessResaved
<1>1. EveryRatingCounts => CountIsHistoryUnlessResaved
  BY DEF EveryRatingCounts, CountIsHistoryUnlessResaved
<1>2. QED BY <1>1, EveryRatingIsCounted, PTL

(* The rating shown is the one the last committed game of the user left.   *)
THEOREM RatingsAreLastAfter == RatingSpec => []RatingIsLastAfter
<1>1. ASSUME RatingIInv, NEW u \in Users
      PROVE  users[u].rating = IF RowsOf(u) = {} THEN Initial ELSE history[Max(RowsOf(u))].after
  <2> DEFINE V == Versions(u)
  <2>1. V \subseteq Int /\ V = VersionsIn(history, u)
    BY <1>1 DEF Versions, VersionsIn, RatingIInv, RatingTypeOK
  <2>2. /\ users[u].rating = IF V = {} THEN Initial ELSE history[Max(V)].after
        /\ V # {} => Max(V) \in V /\ \A i \in V : Max(V) >= i
    BY <1>1, <2>1 DEF RatingIInv, Accounted
  <2>3. RowsOf(u) \subseteq V
    BY DEF RowsOf
  <2>4. ASSUME V # {} PROVE Max(V) \in RowsOf(u) /\ Max(RowsOf(u)) = Max(V)
    <3>1. Max(V) \in RowsOf(u)
      BY <2>1, <2>2, <2>4 DEF RowsOf
    <3>2. \A i \in RowsOf(u) : Max(V) >= i
      BY <2>2, <2>3, <2>4
    <3>3. RowsOf(u) \in SUBSET Int
      BY <2>1, <2>3
    <3> HIDE DEF V
    <3>4. QED BY <3>1, <3>2, <3>3, MaxIsTheGreatest
  <2>5. QED BY <2>2, <2>3, <2>4
<1>3. RatingIInv => RatingIsLastAfter
  BY <1>1 DEF RatingIsLastAfter
<1>2. QED BY <1>3, RatingsInvariance, PTL

(* No rating exceeds the peak it is shown next to.                         *)
THEOREM PeaksCoverRatings == RatingSpec => []PeakCoversRating
<1>1. RatingIInv => PeakCoversRating
  BY DEF RatingIInv, PeakCoversRating, Accounted
<1>2. QED BY <1>1, RatingsInvariance, PTL
=============================================================================
