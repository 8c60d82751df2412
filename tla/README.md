# Verification of gomoku-mono-repo

TLA+ models of the gomoku platform: what is modelled, what TLC checks, what TLAPS proves, and
what is left. Paths are relative to the repository root; `PROJECT.json` names, for every
definition, the lines it stands for.

Run from this directory:

    tlc -workers 2 -config MCMultiplayerGame.cfg MCMultiplayerGame
    tlapm MultiplayerGameProofs.tla

## 1. The system

A browser application (`src/frontend`) talks to a FastAPI service (`src/api`) over PostgreSQL.
For games against the computer the service forwards positions to a pool of stateless engine
daemons, one in C (`src/gomoku-c/src/net`) and one in Rust (`src/gomoku-httpd-rust`), behind
HAProxy. The same C engine drives a terminal program and a Gomocup tournament brain. Two people
play each other in *rooms*, rows of `multiplayer_games`; nothing is pushed, both pages poll.

### Components

| component | state | operations | hard because | must hold |
|---|---|---|---|---|
| Multiplayer room (`routers/multiplayer.py`, `multiplayer/*.py`, decline in `chat.py`, block in `social.py`) | one row per room: state, seats, moves, version, stamps; history rows; rated-game counters | new, invite, join, cancel, decline, move, resign, block, lazy expiry, conditional read | handlers of two or three users overlap; requests are repeated, delayed and based on old views; join acts before it holds the lock | versions identify rows; moves are made on the position their player saw; a room ends once and settles once |
| Win rule (`multiplayer/win_detector.py`, `gomoku.c`, `board.rs`) | none | `has_winner` | two algorithms, one through the last stone, one over the board; exact five, edges | both agree with the rule |
| Ratings (`elo.py`, `multiplayer/db.py`, `routers/game.py`) | `users.elo_*`, `games.elo_*` | settle a room, save an AI game | unlocked reads, absolute writes, row locks, deadlocks | counters, history and shown rating agree |
| Multiplayer page (`useMultiplayerPolling.ts`, `MultiplayerGamePage.tsx`, `multiplayerClient.ts`) | view, version, loop flags | poll, move, resign, join, refresh | replies overtake each other, closures are stale, fetches fail | the page catches up; it stops only for cause |
| AI game session (`routers/game.py`, `useGameState.ts`, `App.tsx`) | page phase and game; `games` row per session | start, play, undo, abort, save | answers of games already left; lock order of start and save | one current row; one rating per game; results stay |
| Chat and invitations (`routers/chat.py`, `useChatMessages.ts`, `ChatPanel.tsx`) | `chat_messages`; the list on the page | post, list since a count, invite, decline | paging by a count while one's own messages are spliced in; rate limit without a lock | nothing is shown twice or lost |
| Social graph and presence (`routers/social.py`, `session.py`, `online_users` view) | follows, blocks, last-seen | follow, unfollow, block, who is online | follow races block; presence derived from rows that expire lazily | a block wins; nobody looks busy for ever |
| Host's waiting dialog (`ChooseGameTypeModal.tsx`, `useMultiplayerHostPolling.ts`) | timers, room | create, poll, cancel on timeout or close | timer against the join | a room is not cancelled under a guest unnoticed |
| C engine record (`gomoku/game.c`, `board.c`) | board, list of moves, turn, state, stone count, hash, totals, window of the engine's thoughts, undo count | make, undo, thoughts | one game kept several times over, restored piece by piece | every copy agrees with the list of moves, after any moves and undos |
| C engine search (`gomoku/ai.c`, `gomoku.c`) | transposition table, killers, timeout flag | find best move | pruning, table reuse, time-out in mid-search | no forced win is lost or invented, with or without the table |
| Engine daemons (`net/*.c`, `gomoku-httpd-rust/src/*.rs`) | busy and running flags, agent socket, the logger's mutex; no game | play, health, ready, agent check, signals, shutdown | two threads and a signal handler share flags, socket and mutex; a game exists only in the bodies | answers are the request plus one move and read back as they were written; never stuck busy; a stop completes |
| Gomocup brain (`gomocup/*.c`) | the record, a colour, estimates of the clocks | line protocol with TAKEBACK, BOARD, INFO | edits the record past its own operations; the manager's board and clock are elsewhere | mirrors the manager's board; no illegal answer; no overrun |
| Terminal program (`gomoku/main.c`, `ui.c`, `cli.c`) | the record, the game file | keys, the engine's turn, save, replay | options inferred from each other; undo against an engine; the replay does not use the rules | a plain alternating game; the file replays as the game it came from |
| Accounts and sessions (`auth.py`, `user.py`, `security.py`) | users, tokens | register, login, reset | – | a token is used once |
| Leaderboard, API plumbing, deployment, schema validator | – | queries, pools, scripts | – | – |

### How they interact

- A page holds a *view* of a room with a version. `GET ?since_version=N` answers "no change" from
  a comparison of versions; a move sends the version it was decided on. So the room and the page
  meet only in views and versions, and are composed by contract: `MultiplayerGame` proves what a
  version means (`VersionIdentifiesRow`), `PollingClient` assumes a server that answers that way.
- A finished room writes the ratings in the same transaction as the last move; saving an AI
  game writes the same users row. `Ratings` holds both kinds of transaction; `MultiplayerGame`
  keeps only the counters, `AiGameSession` only the locks.
- An invitation is a room with a named invitee and a chat note; declining it writes to both.
- Blocking a user ends the running room of the pair in the block's own transaction.
- The terminal program, the C daemon and the brain keep their game in the same record,
  `game_state_t`: `GameState` holds its operations and the three modules extend it. The search
  appears in them as any of its candidate moves (`BestMoves`); which of them it is, and why, is `Search`.
- Browser and service meet the engines in one request body per move, which carries the whole game.
  `EngineDaemon` has a client that does nothing but add a move and send the answer back.

## 2. The modules

| module | models | checked by |
|---|---|---|
| `WinDetector` | the win rule: `has_winner` of the server, the scan of the engines, and the rule itself as a reference definition | `patterns`, and the rule of the rooms |
| `RoomLifecycle` | abstract: what a room promises its players | refined by `MultiplayerGame` |
| `MultiplayerGame` | one room with every handler that writes it | `room` |
| `Ratings` | settlements and saves, statement by statement | `ratings` |
| `PollingClient` | the multiplayer page and its fetches | `page`, `page_cap` |
| `ChatSync` | chat rows and the pages that list them | `chat` |
| `AiGameSession` | the single-player page, start and save with their locks | `ai_session` |
| `Search` | the engine's alpha-beta search, its table and clock, the order of its steps, moves and undo around it | `search`, `search_timeout` |
| `Threats` | what the C engine sees in a position: the value of a cell by the lines through it, blocks, victory by continuous threats | `patterns` |
| `PatternPlay` | the steps of the engine that come before its search, in games against anyone | `patterns` |
| `GameState` | the C engine's game record and its operations | extended by the next ones |
| `BoardGame` | abstract: a game that is only a list of moves | refined by `LocalGame` |
| `LocalGame` | the terminal program: options, loop, keys, game file, replay | `local_game` |
| `GomocupBrain` | what each line of the Gomocup protocol makes of the brain | `brain` |
| `GomocupMatch` | the brain composed with a tournament manager | `brain` |
| `EngineApi` | request and answer bodies of the HTTP engine, and what a play decides | `daemon` |
| `EngineDaemon` | the HTTP engine's threads, signals and shutdown, with a client | `daemon` |
| `MultiplayerGameProofs`, `ResultsProofs`, `MultiplayerPageProofs`, `LocalGameProofs`, `GomocupMatchProofs`, `EngineDaemonProofs`, `PatternPlayProofs`, `SearchProofs` | the theorems of section 5 | TLAPS |
| `MC*` | the instances for TLC | |

**MultiplayerGame.** `game` is the row, with the migration's columns. Every writing handler locks
the row first (`SELECT ... FOR UPDATE`, or a single `UPDATE`) and commits at its end, so a handler is
one action; `join_game` executes its expiry statement before the locking read and is two
(`JoinBegin`, `JoinGame`). The expiry performed by a join on a stale room is rolled back by the
exception that reports it, so only `GetGame` expires rooms. A request may carry any view that was
ever visible (`committed`): this is how repetition, delay and reordering of requests are modelled.
`plies` records who made a move and what they had seen; `committed` and `plies` are history
variables, no guard of the code reads them except through `view.version`.

**Ratings.** A transaction reads both users, then updates the host's and the guest's row, each
UPDATE waiting for the other transaction's row lock, then commits; it may be rolled back at any
point, in particular as a deadlock victim. A save may name a row that `/game/start` opened: it then updates that row in
place, whatever its status, after waiting for another save that holds it (`UpdateRow`), and otherwise inserts one. So
`history` lists the versions of the rows in the order of their commits, and the table has the newest of each (`RowsOf`). The logistic curve is abstracted to its shape: a win
earns `K` points, or none when the winner is far ahead; `K` shrinks after the provisional games. Where `AiGameSession` has
the same names, the ones here carry a prefix, so that one module can prove about both.

**PollingClient.** A fetch occupies a slot: sent, served, handled, as three separate actions, so
replies overtake. `versionRef`, `stoppedRef`, `joinAttemptedRef` are the hook's refs. `EightHoursInProgress`
is about the closure over `game`: the effect that starts the loop does not depend on it.

**ChatSync.** A message is stamped when its INSERT begins and visible when it commits; INSERTs overlap and commit in any
order. `seen` is `seenCountRef`, which becomes the OFFSET of the next poll. `Only` is the WHERE and the filter of the page.
`overtaken` is a history variable: the messages a later one has passed for a page, by committing first or by being echoed
on its author's page first. These are the two ways in which a message falls below the OFFSET unseen.
Its names carry a prefix where `PollingClient` has the same, so that one module can prove about both.

**AiGameSession.** Sessions and rows are named by the click that made them. The board is reduced to
whose turn it is and whether the game is over. Start is: lock the user's row; sweep rows in progress,
waiting for a save that holds one; commit. Save is: lock the games row; lock the user's row and commit.
`DeadlockVictim` is PostgreSQL's detector. A save whose state has no `game_id` inserts a
completed row of its own, which no later statement touches and `rows` does not track.

**Search.** The engine's colour is fixed in a behaviour, the other player plays anything. The search is taken in small
steps: `stack` holds the calls of `minimax_with_timeout` under way, each a `Frame` with its node (position, depth left,
window, turn, last stone) and what its loop keeps. One action for each way a call goes before its loop - `LooksLate`,
`Recall` (the table answers), `SeeFive`, `Score`, `SeeFull`, `Enter` - and two for how the loop ends, `Finish` and
`GiveUp`. `root` is the loop of `find_best_ai_move` over the depths: `BeginSearch`, `Deepen`, and the ends `PlayWon`,
`PlaySearched`, `PlayTimedOut` and `PlayUnfinished` (time ran out between two depths, which the code does not report).
The first search of a game looks at nothing below its root (`SeesNothing`): the stones that `ai.c:833` asks for are
counted in the record, which a search does not change.
`table` is the transposition table of the engine's colour, which is cleared only when a game is created and so outlives
a search and an undo. A hash stands for its position; collisions, the replacement of one position by another and the
killer moves (which only order moves) are left out. Moves are tried by falling `Priority`, ties in any order, as `qsort`
leaves them; the evaluation, the book and the cells the pattern steps choose (block, open four, VCT) are constant
operators; `Hurry` says in which positions the clock may run out. `misled` is a history variable: in this game time ran
out in a search, or the score of a position was taken for a win or a loss (the evaluation's sums, under "found by
reading" in section 3). `Forces` is the reference: plain minimax to the end of the game, without window, table, clock or
score.

**Threats, PatternPlay.** `AnalyzeDirection` is what `analyze_direction` counts on one side of a cell; `LineKind` is the branch of
`evaluate_threat_fast` the counts lead to and `Worth` its number; `EvaluateThreat` adds what several directions are worth
together. `ForcedWin`, read by `HasForcedWin`, is the recursion of
`find_forced_win_recursive` over its depth and `FindForcedWin` the set of moves of which it returns the first it meets, and so each
step of `PatternPlay` chooses from a set where the code takes the first or a random one. The numbers and thresholds are
those of the code. Where no step applies the engine plays any candidate, which includes what the search or the reply table may choose.
Cells outside `Squares` are neither free nor anybody's, as a cell taken by the other player is for both.

**GameState.** One operator per function of `game.c`: `MakeMove`, `CanUndo`, `Undo` (with `TakeLast` for the body
of its loop), `AddThought`, `Verdict` (`check_game_state`), and `Think` with `BestMoves` for what
`find_best_ai_move` leaves in the record and may answer. A Zobrist key is the stone it stands for, so a hash is a
set of stones and XOR its symmetric difference: two hashes that agree are of equal positions, and a stone
XORed in twice or forgotten shows. `Book` is the reply table around a lone stone; the function looks for X
only, and answers the centre when the lone stone is O's, occupied or not.

**LocalGame.** `game`, the `phase` of the program, the `file` and the record `shown` by a later replay. The keys
are `HumanPlaces`, `HumanUndoes` and `HumanQuits`; `EngineMoves` is the whole branch of the loop for the engine's
turn; `Finish` writes the file or not. A game that has ended on a terminal waits for a key first (`AwaitsKey`,
`PressKey`); one that was left, or that runs without a terminal (`headless`), does not. `ParseArguments` folds the options in their order and then infers the other side.
`ReplayMove` puts a stone down as `run_replay_mode` does, without `make_move`. The cursor, hints and drawing are left out.

**GomocupBrain, GomocupMatch.** Each handler is an operator from the brain's state to the set of its outcomes
(state and answer), and `Dispatch` chooses among them as `dispatch` does, after `Kind` has sorted the line as
`protocol_parse_line` does. Times are in units of 50 ms, the least budget the code grants. The manager is not part of the
repository: it keeps its own board `ref`, its own `clock`, and judges each answer. `told` remembers whether the brain's
estimate started from that clock. The manager sends what the protocol allows and some lines that must be refused; it
takes back any stone, and adds a `lag` to the time it charges, at most the safety margin. A search is taken to end within
what it was granted (`SearchTimes`). The code checks this in the loops over the root's moves and in the tree; the steps before
the search (`ai.c:523-745`) look at no clock, and that their bounded work fits the grant is an assumption of `ClockHolds`.

**EngineApi, EngineDaemon.** `ParseGame` and `Serialize` are `json_api.c`; a position in a body is a cell, off the board, or
`Unreadable`, and `Assess` and `Replies` are the early returns and the outcomes of `handle_play`. In the daemon, `main` and
`agent` are program counters: a step ends where another thread, the signal handler or the client can see a difference.
`handler` holds the signal that interrupts a thread, which then does nothing else until `HandleSignal`; `lock` is
the logger's mutex, which the handler takes as well. FD_SET on the descriptor the main thread has
just closed is undefined behaviour and modelled as either going unnoticed or ending the process. The number of positions
the answer reports is read uninitialised when no search ran (`handlers.c:427`), so it is any of `Evals`, negative
ones included (it is then left out of the answer). The vendored HTTP
library is external: requests arrive in `inbox` and one is handled at a time.

## 3. What TLC checks

### Passing runs

| run | bounds | distinct states | shows |
|---|---|---|---|
| `patterns` | a row of 7 and a column of 5 that cross, five wins, radius 1, forced wins up to 3 fours deep; for the scan alone also every set of stones on 3 x 3 with length 2 | 44,197 | scan, local check and evaluation agree with the rule at every free cell, for both players; a five is taken, or else stopped, whatever else there is; an open four wins |
| `room` | 3 users, 2 x 2 board, length 2 | 31,969 | see below |
| `ratings` | 2 users, 2 rooms, 2 saves of one row or of their own, Gap 1, Provisional 1 | 1,702,397 | the counters miss no rating and count none twice; the shown rating is the last `elo_after` |
| `page` | 3 fetches in flight, guest's page, 3 versions, 1 failure | 416,267 | it stops only for cause; while it polls it ends up showing the room |
| `chat` | two pages that write, 3 messages, 2 INSERTs at a time, 1 failure or reload | 594,060 | no message twice; a page misses only messages that a later one passed, and shows all others in the end |
| `ai_session` | 3 clicks, 1 failing call | 231,033 | one row in progress; saved results stand; one rating per game (no failure); every save settles |
| `search` | 3 x 3 board, length 3, depth 4, one undo, the clock may run out from the seventh stone on, one kind of score that lies | 256,251 | unless the engine was misled: when it reports a win it has one; each table entry says the truth; no win within the depth is missed (after the first move of a game, which is not searched) and no losing move played that could be avoided |
| `local_game` | a row of 5 cells, exactly three in a row win, window of 2 thoughts, 2 undos, seven option lists | 756,778 | all copies of the game in the record agree; totals, thoughts and marker are those of the moves that stand; undo returns to a person; the record implements `BoardGame`; the file replays as its game; the engine's turn ends with a person's turn or the end of the game |
| `brain` | a row of 4 cells, exactly three win, 6 lines, turn limits 0 and 3, match limit 5, lag 0 or 2 (units of 50 ms) | 254,556 | brain and manager hold the same stones; counts and hash fit the board; one situation only in which the answer is illegal; the clock holds |
| `daemon` | a row of 3 cells, exactly two win, 1 signal, 1 probe, 11 first requests, 7 option lists | 51,426 | an answer is the request with one more legal move and reads back; the balancer is told the truth; every request is answered, a stop completes and only a signal stops the daemon |

`room` covers: `VersionIdentifiesRow` ("no change" is truthful), `MovesDecidedOnCurrentBoard` (a stone is
placed by its player on exactly the position that player had seen), `SettledExactlyOnce`, `DeclineIsFinal` and the refinement
`ImplementsRoomLifecycle`. The modules state a few more invariants, among them their type
invariants, which are proved (section 5) and not run.

**Why the bounds are enough.** Rooms are independent of each other except in the ratings, which have a module of their
own; three users are two players and one who interferes. On the 2 x 2 board with length 2 a game can be won on the third
ply by each kind of line and colours alternate through a whole game. That the local check suffices on bigger boards is
part of `WinnersAgree`, proved for any board (section 5), and the assumption `ScanFindsTheRule` of `MCPatternPlay`
evaluates it for every set of stones of a 3 x 3 board with length 2, which has diagonals, edges and overlines. A row of
seven has room for an open four, a six and a four with a gap, a column of five for a five that needs every cell, and
where they cross a stone makes threats in two directions; with at most six stones each no player gets more than three
fours, so a depth of 3 stands for the code's 10. Radius 1 is the least the options allow and so overlooks the most.
Three versions are a join, a move and an end; three slots are the poll, an action and its refresh. Two saves are the
fewest that can save one game twice, beside two rooms whose players they overlap with. Three messages
and two INSERTs let each page write, pass and be passed, and still have a message to count past what was passed. Three clicks let a
double click meet a third start. On the 3 x 3 board with length 3 the whole game is nine plies, so every window,
cut-off, bound, draw and reuse of an entry from an earlier turn or an undone one occurs, and the depth of 4 is short of
the end of the game for the first searches and beyond it for the last. The clock matters to what is left in the table,
and with two cells to go there are still searches, undos and searches after undos that meet it; `search_timeout` lets it
run out anywhere. Three corners of the engine score as a win, so that games in which a score lies occur beside those in
which none does. On a row of five, exactly three in a row, there are wins, an overline that does not win, full boards
without a line and positions one undo before a line; with two thoughts the window overflows and an undo after that
leaves it shorter than the list of engine moves. Every kind of game occurs: each colour against the engine, two people,
two engines with and without a terminal, with a limit of undos and without. Six lines are START, a BOARD or two TURNs, a TAKEBACK, an INFO and one
move more; a turn limit of 3, a match of 5 or 6 and a margin of 2 leave room for the limit, the remaining time and the
floor to be the smallest. The daemon's board of three cells lets a client play a whole game through bodies. One signal
meets each thread at each point; the mutex, closed socket and late shutdown need no second one. The theorems of section
5 remove the bounds for every safety property that a run checks.

### Runs that end in a violation

Each refutes one sentence of the repository and is recorded under `findings`.

- `search_timeout`: the help text says that out of time the engine chooses the best move found so far. A node for the other
  player that has tried no reply when time runs out returns its initial bound, `WIN_SCORE + 1`; the root reports a
  win and plays the move, losing ones included. An inner parent stores the bound in the table for later turns. The trace is
  the engine's third move, with five stones on the board.
- `page_cap`: the hook's comment promises eight hours for a game in progress; the loop
  compares with the cap of the game its closure captured, which is none, so it is always fifteen minutes.

### Seen while modelling, not run

Stated in the modules as a property that TLC refutes, and kept out of the runs:

- `Ratings!AuditTrailChains`: the migration says `elo_before` is the rating before this game
  (`20260501-140000-add-elo-rating.py:20-25`). Two overlapping games of one user both name the same
  rating, and one result's points vanish (`multiplayer.py:265`).
- `ChatSync!ConversationInSync`: "so the conversation stays in sync" (`chat.py:529-531`). One's own message is counted before an
  earlier one of the other player was fetched (`useChatMessages.ts:155`); once a further one is written, the earlier one
  lies below the OFFSET for ever. Three messages do, with no failure and no overlap of INSERTs.
- `MultiplayerGame!WaitingEnds`, under `FairSpec`: a game nobody joins is ended by "the standard 15-minute lazy-expiry"
  (`chat.py:40-41`), which "covers it eventually" when a cancel failed (`ChooseGameTypeModal.tsx:111`). The expiry runs only when
  somebody asks for the room by its code. An invitation opens no dialog that would, a dialog stops polling after
  fifteen minutes, and a closed tab asks nothing: after an invitation and fifteen minutes the room waits for ever.
- `Ratings!CountIsHistory`: `elo_games_count` is the "number of rated games played" (`20260501-140000-add-elo-rating.py:17`), and a
  session "shows up as exactly one row" however many tabs save it (`models/game.py:36`). A second save overwrites the
  row (`game.py:229-266`) and raises the count again (`game.py:294-305`): two rated games, one row.
- `EngineDaemon!TermEnds`: "Received signal %d, shutting down..." is logged in the signal handler (`net/main.c:257`), and the
  logger's mutex is not recursive. A signal that interrupts its own thread inside `logger_log` hangs it before `running` is
  cleared, and the daemon neither serves nor ends. The liveness properties of `daemon` exclude exactly this state (`Hung`) and so say
  that nothing else hangs it.
- `AiGameSession!EveryFinishedGameSaved`: "Save every finished game, including draws" (`App.tsx:216`). The answer of a
  game that was left ends it on the page, and when the current game ends too the phase does not change, so
  nothing is saved (`useGameState.ts:127`).
- `PatternPlay!ForcedWinIsForced`: "This move creates an unstoppable compound threat" (`ai.c:544`, said of any value from
  40000). A closed or a broken four alone is worth 100000 (`ai.c:304`, `ai.c:315`), so the engine announces "Forced win! (VCT)" for a four
  that the other player blocks with one stone, after which it may have no line left that it could ever fill.
- `GomocupMatch!NeverForfeits`: the fallback to the centre is there "so we do not forfeit" (`gomocup/main.c`), but after
  `START 15` and a `BOARD` of one opponent stone on the centre `find_first_ai_move` looks for an X stone only and the brain
  answers with the occupied centre. The same position is a server error of the daemon. `ForfeitsAreLone` and
  `AnswersWithOneMove` say that this is the only such position.
- `EngineDaemon!HangupKeepsServing`: the daemon logs "Received SIGHUP, reopening log file..." (`net/main.c:259-261`). No
  file is reopened, and the signal makes `epoll_wait` return early, which ends the main loop (`net/main.c:518-524`).

Found by reading:

- The rules dialog says a full board without five in a row is a draw (`RulesModal.tsx:58-60`). `make_move` derives the new
  state from `has_winner` alone (`multiplayer.py:555`), so such a room stays in progress with no legal move left.
- "Win/loss surfaces in-game" (`README.md:96`), but a move's reply handled after the poll that saw the end puts the older view
  back, and the loop has stopped (`useMultiplayerPolling.ts:154`).
- An open four is called a guaranteed win (`ai.c:302`), but with a further stone of the same colour one
  gap away (`_X_XXXX_`) one of its two ends makes six, which does not win. `OpenFourWins` excepts this (`StoneBeyondFour`).
- The evaluation of a position takes six or more in a row for a five, 100000 for each of the stones (`gomoku.c:316`),
  and adds up the 49 cells around the last stone without a limit (`gomoku.c:71-96`). A block of 3 x 4 stones of one
  colour scores 1184400, six in a row with two open fours beside it 1002400, and `has_winner` finds no winner in either;
  a search that scores such a position takes it for a win (`WIN_SCORE - 1000` is 999000), reports it and stops. Hence
  `misled`.
- `X_XXX_X` is a four twice over, but has two gaps and is scored as three in a row (`ai.c:308`).
- After its own winning move or resignation a page goes on polling until a poll sees the end (only `refresh` sets
  `stoppedRef`, `useMultiplayerPolling.ts:148-177`).
- A save that overlaps a room's settlement writes back its own snapshot of the peak and can
  lower `elo_peak` (`game.py:220`). It never falls below the rating (`PeaksCoverRatings`, proved).
- If an opening call of an aborted AI session fails while a finished game is on the page, the phase returns to "playing", undo
  reopens that game, and it can be rated twice: `CountedOnce` is therefore stated for
  behaviours without failures.
- After a double click on start, or a stale answer, the page may play a session whose row was
  already abandoned; saving it completes the row again.
- If the opening call of a game in which the AI begins fails, nothing asks it again and the player
  cannot move; only abort helps.
- With two INSERTs under way, commit order may differ from `created_at` order, and then even a page that only listens can
  skip a message. `OnlyOvertakenAreMissed` excepts it, beside the message that an echo passed.
- `/ready` never answers 503: requests are handled by the thread that searches, so the flag it reads is always
  clear by then (`handlers.c:286-296`). Only the agent port can say "drain".
- A move of a request that cannot be read is passed over without a word; one off the board is refused with 400.
- When the port is in use the process exits while its agent thread runs.
- Terminal program: `-q -x ai` makes O a person, and `-q -x human` waits for the keyboard; at the end of its input the
  loop spins; the help says a person loses on time-out, which no code does; the replay never announces a draw, and a file
  without moves is refused.
- `time_budget.h:19` lets 0 mean "no limit", but a match limit of 0 leaves the 50 ms floor. `RESTART` keeps the old
  clocks; an `INFO` before `START` is forgotten; the floor may exceed what is left; an estimate that is never
  refreshed by `time_left` drifts by what the manager adds. That is why `ClockHolds` speaks of a brain that has been told the clock.
- `TAKEBACK` and `BOARD` leave `game_state` as it was, and field 3 of a BOARD row counts as the opponent's.
- The brain's text says no opening book is bundled (`GOMOCUP-README.txt`); `find_first_ai_move` has its table of replies.

## 4. Fairness

Safety needs none. Liveness assumes:

- `MultiplayerGame!FairSpec`: time passes, and a join that has begun ends. Nobody is obliged to read or cancel a room: nothing in
  the code guarantees it, and so `WaitingEnds` fails (section 3). The other properties of the room are safety.
- `PollingClient!FairSpec`: timers fire, each fetch is answered or fails, each settled promise is handled.
  Nothing is assumed of the players.
- `ChatSync!FairChatSpec`: as above, and INSERTs end. Failures are bounded, not fair.
- `AiGameSession!FairSpec`: the database runs a statement that can run, and resolves a deadlock
  (`deadlock_timeout`). No fairness for the page or the engine, nor for a start's first lock: statements
  that wait for a row are only assumed to proceed when the row is continuously free.
- `LocalGame!Spec`: the engine's search ends (`Search` says why it does: depth and time are bounded) and the
  program goes on by itself where it awaits no key: after a game without a terminal, or one that was left. Nobody has to
  press a key, neither to move nor to leave the final position that a terminal shows; `EngineAnswers` ends there.
- `EngineDaemon!Spec`: weak fairness of `MainSteps` and `AgentSteps`, as both threads are scheduled and these steps wait for nobody.
  Strong fairness where a step waits for what comes and goes: `AnswerProbe` and `TakesPlay`, as the loop asks epoll for one
  event at a time and epoll comes round to every ready descriptor; `TakeLock`, `AgentTakesLock` and `HandleSignal`, as the
  mutex is held for one line at a time. Nothing is assumed of clients, probes and signals. A handler that waits for the mutex of its
  own thread is never able to go on, so no fairness hides the hang that `TermEnds` is about.
- `GomocupMatch` has no liveness: the manager may fall silent at any time.

A run has `CHECK_DEADLOCK FALSE` where the system really comes to rest: a room that is over, a board that is full,
a game that was won, all games rated, a page that stopped, a session nobody continues,
a program that ended, a match whose lines are used up, a daemon that stopped.

## 5. What is proved

Eight modules hold theorems; every leaf is checked by TLAPS (`SMT`, `Zenon`, and `PTL` for the temporal steps). The
assumptions are those the specifications declare about their constants: `UsersAssumption` (`NoUser` is no user),
`BoardAssumption` (sizes are positive), `RatingsAssumption` (`AiGames` are some of the games, the numbers are integers),
`SessionAssumption`, `PollingAssumption` and `LocalAssumption` (bounds, times and counts are naturals), `GameAssumption`
(the board is finite and not without a centre, the win rule has a value for every set of stones, nobody wins without a
stone, the book answers with another cell), `BrainAssumption` and `MatchAssumption` (times are positive, what does not
parse is neither cell nor number, the lag is within the safety margin, a position is a list of rows),
`ThreatsAssumption` (five win, the cells in play are cells of the board, the search radius is positive),
`SearchAssumption` (the board is finite, the deepest search is not deeper than the margin around `WIN_SCORE` is wide,
the book answers with another cell), `FiveAssumption` (a stone makes no line it is not part of), `PatternsAssumption`
(the pattern steps choose a free cell), `EvaluateAssumption` (a score is an integer: any, with no limit),
`ApiAssumption` and `DaemonAssumption` (a body is a game in the shape of the API or does not parse; what stands for
"nothing" and "does not parse" is no cell, game or answer). No theorem bounds the users, the board, the requests in
flight, the lines or the length of a history.

All follow one scheme: an inductive `IInv`; `InitIInv`; one lemma per action that it keeps `IInv`;
`NextIInv`, which collects them; and the theorem `Spec => []IInv` from which the properties are read off.

- **`MultiplayerGameProofs`** (`Invariance`). `IInv` is the conjunction of the properties themselves and
  one strengthening, `RowShape`: which columns of the row are set in which state (a waiting room has no
  moves and no guest, a room that began has two different players), and that the row is among the values
  that were visible. Without it nothing says that a settlement writes for two different people, or that
  a new version is greater than every version a request may carry. From it:
  `TypesHold`, `VersionsIdentifyRows`, `MovesAreDecidedOnCurrentBoard`, `RecordIsLegal`,
  `SettlesExactlyOnce`, `DeclinesAreFinal`, `StampsFollowStates`; the action property
  `TerminalStaysForever`; and `RefinesRoomLifecycle`, the refinement of `RoomLifecycle` step by step
  (`AllocateIsOpen`, `JoinIsSit`, `MoveIsPutStone`, ...). The win rule enters only through its value: what
  is proved holds for any verdict on the last stone.
- **`ResultsProofs`** (`SessionInvariance`, `RatingsInvariance`), about `AiGameSession` and `Ratings`. `ServerInv`:
  starts take turns at the user's lock, a start that swept knows exactly the rows in progress, and ids the page carries
  name stored rows. `OneCurrentGame` needs the second part: an insert is safe only because nothing came into progress
  after its sweep. `PageInv`: while no call failed, a game that was saved is neither running nor being answered, which
  is why nothing can save it again. From them: `OnlyOneCurrentGame`, `SavedResultsAreKept`, `GamesCountOnce`. For the
  ratings, `Accounted`: each row of `users` is explained by the versions of the user's rows in `history`, overwritten ones
  included - their number, the last one's `after`, and a peak not below it; `Seated`: a settlement under way settles for two
  different players. From them: `RatingTypes`, `EveryRatingIsCounted`, `RatingsAreLastAfter`, `PeaksCoverRatings`, and
  `CountsMatchHistory`: the count is the number of rows for a user none of whose games was saved again. They hold for any rating formula with
  integer values: the proof uses no property of the Elo step.
- **`MultiplayerPageProofs`** (`PageInvariance`, `ChatInvariance`). `ViewsAreReal`: a reply in flight that shows the end was
  given by a room that is over. `StopsOnlyForCause` is not inductive without it, since a page
  stops on what a reply says and not on what the room is. From it: `PageTypes`, `PagesStopOnlyForCause`.
  For the chat, `ChatInv`: what a page lists, and what an answer on its way brings, names each message once. `ShownOnce` needs the
  answers as well, since a page appends what an answer has and it has not; and so does the bound on `seen`, which a failed echo leaves behind. From it: `ChatTypes`,
  `MessagesShownOnce`, with no assumption on the order of commits. `PassInv` adds what has been passed:
  whatever is stamped before a visible message is visible too or marked `overtaken`, and whatever is stamped before one that a page shows, or is
  sent, is shown or sent there too or marked. So what a page neither shows nor was passed on has at least as many messages
  before it as the page shows, and the OFFSET leaves it in the answer (`BehindTheCount`):
  `OnlyThePassedAreMissed`. `PrefixInv` adds that visible messages come before invisible
  ones (`StoredFirst`) and that a listener's list, and with an answer's items at its OFFSET, is an initial segment of the numbers of messages (`Numbered`). The
  first is what overlapping INSERTs break, so `OrderedCommitsShowPrefix` has it as a hypothesis about the
  steps (`CommitInOrder`): it says what an order of the INSERTs, which the code does not impose, would buy.
- **`LocalGameProofs`** (`RecordInvariance`). `RecordAgrees` is not inductive: an undo sets the state to "running" without
  asking, so nothing in it says that the shorter board has no line. `Sound` adds what is true of a history and not of a
  board: every proper prefix of it is an open game. A move keeps this since it needs a running game, and so
  `VerdictIsCurrent` holds after an undo too. Lemmas say what `MakeMove`, `Undo` and `Think` leave in each field, that the board with the
  last stone gone is the board of the shorter history (`FollowsPop`), and that its stones are counted by it (`FollowsCount`).
  From it: `RecordAlwaysAgrees`, `UndoAlwaysHandsBack`, and `RecordImplementsBoardGame`, in which `OutcomeIsVerdict`
  relates the verdict on the board to the outcome of the list of moves. `Booked` says the same of what `Bookkeeping` adds up: the totals and
  the engine's entries are a fold over the history, one step longer with each entry (`LedgerMore`) and so one shorter with each entry taken
  off (`TakeLastBooks`); an undo takes back one move of the engine at most, which is why the window may be short by `undos`
  and no more (`UndoBooked`). `ReplayInv`: the file is the game's, the record drawn is that of a prefix of its
  moves; the winner is shown in time because the winning entry is the last and its player the winner (`WinnerMovedLast`).
  From them: `BookkeepingAlwaysAgrees`, `ReplayAlwaysShowsTheGame`.
- **`GomocupMatchProofs`** (`ClocksInStep`). While the brain has been told the clock, what it takes to remain is at most
  what the manager's clock has: both subtract the search, and the manager's lag ends `told` until the next `time_left`. So a granted time above the
  floor leaves a margin on the manager's clock that no lag exceeds, whatever the lines in between: `ClockIsKept`.
  `BoardInv`: between two lines the brain's board is the manager's, during a BOARD block it is that of the rows read so far, and
  what is on the way is what the manager played. A block is a fold over its rows, as the list of moves is one over the
  lines; what both make of a longer list is proved by induction on its length. From it: `BoardsInStep`, `BrainMirrorsTheManager`,
  `CountsAlwaysAgree`, `ForfeitsAreAlwaysLone`, for any lines and positions.
- **`EngineDaemonProofs`** (`DaemonInvariance`). `IInv` ties the two program counters to what they share: the flag is set exactly
  while the main thread searches; which states of the agent a main thread that leaves can meet; the socket is closed
  only on the way out; whoever writes a line holds the mutex; only a signal clears `running`. From it:
  `DiesOnlyWhenStopping`, `AgentAlwaysTellsTheTruth`, and `LogLinesAreExclusive`, which is not run. `GameInv` is about the game in the
  answers: the sheet the client holds reads as a game (`SheetReads`), and a search works on the game its body reads as.
  It rests on `RoundTrip`: a game written by `Serialize`, of any length, is read by `ParseGame` as the same board, state and moves, and is
  written from that again in the same way - by induction on the moves (`MoveEchoes`, `Reading`). From it: `GamesStayReadable`,
  `AnswersAreAlwaysRequests`, `AnswersAlwaysOneMove`.
- **`PatternPlayProofs`** (`OpenFoursAlwaysWin`). The lemmas are about lines: `Walk`, a CHOOSE over lengths, is the number of stones up
  to the first cell that is not one of them (`WalkSteps`, `WalkIs`; a line leaves the board within `BoardSize` steps), so a
  walk both ways counts `WinLength` exactly if the rule has a line there (`LineThrough`), the scan finds exactly the lines of the
  rule (`ScanFindsLines`), and so does looking through the last stone if there was none before (`LastStoneFindsLines`). The
  evaluation of a cell is the greatest of a few numbers (`GreatestValue`): a million exactly for five in a row, whatever lies
  beyond the gaps, and 500000 only for four with both ends free (`KindOfLine`, `ValueOfCell`). From these and the
  types of the state, for any shape of board and any radius: `WinnersAlwaysAgree`, and `FivesAreNeverOverlooked`, since a cell
  that completes a line has a stone next to it and so is among the candidates (`WinsNearStone`). `OpenFourWins` is not
  inductive: `OpenFourStands` adds that until the reply both ends are free and the other player has no cell that wins (`UrgentCompletes`
  turned round), that one stone takes one end at most (`FourAnswered`), and, with the number of stones of each colour, whose turn it is.
- **`SearchProofs`** (`SearchInvariance`). `IInv` is `misled \/ Right`: in a game in which no time ran out and no score
  was taken for a win or a loss, all that the engine keeps is right - `GameInv` (a reported win is one), `SearchInv`
  (the root and each call under way), `TableInv` (each entry). What is right is said with `Forces`, about which the
  lemmas come first: who can force a line within k plies can within more (`ForcedLonger`), and within as many as there
  are cells if at all (`ForcedInTheEnd`, so that the depth of an entry does not matter to a win), and never do both
  players (`AlwaysNeverBoth`). Two statements carry the alpha-beta proof. `Told(n, v)`: what the value v may mean at the
  node n - near `WIN_SCORE`, that a line can be forced; not near it and within the bound of the node's window, that none
  can within its depth. `LoopOK`: the same for the best value over the moves tried so far. One call's `Told` is what its
  caller's loop needs (`TakesIsOK`), whether it comes from the table (`RecalledIsTold`), a line, a score, a full board
  (`ExactIsTold`) or the end of a loop (`LoopIsTold`), and cut-offs lose nothing because what was cut off lies outside
  the window of a caller (`StackOK` links each frame to the one below it). The flag is what makes a value fit to be
  stored (`LoopIsSound`); an entry speaks about its position and not about a window or a board, and so stays true
  through later searches, moves and undos (`SoundStays`). A score that looks like a win breaks all of this at once, and
  the code does not prevent one: hence `misled` in `IInv`. From it: `WinsAreForced`, `TablesAreSound`, `StoresAreSound`,
  `WinsAreAlwaysFound`, `NothingIsGivenAway`; and from the types alone, so misled or not, `SearchTypes` and
  `MovesAreLegal` (no cell is taken twice, and what the root may answer is free). Nothing is assumed of the win rule but
  `FiveAssumption`, and nothing of the order of the moves, the window of candidates or the scores; the depth is any
  within the margin. Induction
  over the plies is by the least number for which a statement fails (`Induction`).

`TypesHold`, `RecordIsLegal`, `StampsFollowStates`, `TerminalStaysForever`, `RatingTypes`, `CountsMatchHistory`,
`PeaksCoverRatings`, `PageTypes`, `ChatTypes`, `OrderedCommitsShowPrefix`, `SearchTypes`, `MovesAreLegal` and `TablesAreSound` are proved and not run.

**Only model-checked.** The liveness properties `CatchesUp`, `PagesCatchUp`, `SavesSettle`,
`EngineAnswers`, `EveryRequestAnswered` and `ShutdownCompletes` (out of TLAPS's reach); what a forced win of `Threats`
is worth, which the code itself does not keep; and the bound on the number of saves in the type invariant of
`AiGameSession`.

## 6. Not modelled, and the plan

Not planned: accounts, leaderboard, logging, telemetry, deployment scripts, the schema validator,
rendering. They keep no state whose interleaving matters, or are input and output. Of the terminal program the drawing and the
hints, of the C daemon the HTTP library, log rotation and the reports of scores are left out for the same reason.

In this order:

1. `Threats` as the `Patterns` of `Search`, so that the search is also checked behind the steps that come before it, and the
   evaluation of whole positions (`gomoku.c`) that both leave out.
2. `SocialGraph` with `Presence` and `InviteRateLimit`: follow against block, lazily expired rooms
   against "in game", the limit counted before the insert, the invitation and its note in two commits.
3. The Rust daemon: the same interface as `EngineDaemon` on an asynchronous runtime, where a request may be dropped in
   mid-search with the flag set.
4. `HostModal`: the waiting dialog's timer and close against the join, composed with the room: how long a room can wait
   while its host keeps the dialog open.
5. Theorems: the number of saves of `AiGameSession`.
