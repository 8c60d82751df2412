---------------------------- MODULE EngineDaemon ----------------------------
(***************************************************************************)
(* gomoku-httpd as a process: the main thread with its poll loop (net/     *)
(* main.c) and its handlers (net/handlers.c), the agent thread that tells  *)
(* a load balancer whether the engine is busy, the signals, and the mutex  *)
(* of the logger (net/logger.c) that both threads and the signal handler   *)
(* take. Beside it a client with one game, and probes. Connections, the    *)
(* HTTP protocol and epoll are those of a vendored library.                *)
(***************************************************************************)
EXTENDS EngineApi

CONSTANTS
  OptionLists,  (* the command lines the daemon may be started with         *)
  Bodies,       (* the first requests of the client                         *)
  Probes,       (* requests other than a play                               *)
  MaxSignals    (* a bound on the signals that are sent                     *)

ASSUME DaemonAssumption ==
  /\ MaxSignals \in Nat /\ "play" \notin Probes
  /\ Bodies \subseteq {Garbage} \cup PlayRequests

Threads == {"main", "agent"}

VARIABLES
  main,          (* where the main thread is                                *)
  agent,         (* where the agent thread is                               *)
  busy,          (* server_busy                                             *)
  running,       (* the flag the signals clear                              *)
  agentRunning,
  socket,        (* agent_socket_fd: "none", "open" or "closed"             *)
  job,           (* the game that handle_play searches, or None             *)
  lock,          (* the logger's mutex: "free" or its owner                 *)
  handler,       (* the signal a thread is handling                         *)
  signals,       (* how many signals have been sent                         *)
  inbox,         (* connections with a request that waits                   *)
  client,        (* the client: "thinking", "waiting" or how it was refused *)
  sheet          (* its game, as it was last sent or received               *)

process == <<main, agent, busy, running, agentRunning, socket, job, lock, handler, signals>>
outside == <<inbox, client, sheet>>
vars == <<process, outside>>

Alive == main \notin {"stopped", "dead"}
MainRuns == Alive /\ handler["main"] = "none"
AgentRuns == Alive /\ handler["agent"] = "none"

-----------------------------------------------------------------------------
(* daemon_parse_arguments and daemon_validate_config. An option is a       *)
(* letter and its value; a port is 0 when the text is no port.             *)
NoOptions == [port |-> 0, agentPort |-> 0, help |-> FALSE, invalid |-> FALSE]
ApplyOption(parsed, option) ==
  CASE option[1] = "b" -> [parsed EXCEPT !.port = option[2], !.invalid = @ \/ option[2] = 0]
    [] option[1] = "a" -> [parsed EXCEPT !.agentPort = option[2], !.invalid = @ \/ option[2] = 0]
    [] option[1] = "L" -> [parsed EXCEPT !.invalid = @ \/ option[2] = Garbage]
    [] option[1] = "h" -> [parsed EXCEPT !.help = TRUE]
    [] option[1] = "?" -> [parsed EXCEPT !.invalid = TRUE]
Accepted(parsed) == ~parsed.invalid /\ parsed.port # 0
EntryPoint(options) ==
  LET parsed == FoldLeft(ApplyOption, NoOptions, options)
  IN  IF parsed.help \/ ~Accepted(parsed) THEN "stopped"
      ELSE IF parsed.agentPort = 0 THEN "binding"
      ELSE "starting"

Init ==
  /\ main \in {EntryPoint(options) : options \in OptionLists}
  /\ agent = "off" /\ agentRunning = FALSE /\ socket = "none"
  /\ busy = FALSE /\ running = TRUE /\ job = None
  /\ lock = "free" /\ handler = [t \in Threads |-> "none"] /\ signals = 0
  /\ inbox = {} /\ client = "thinking"
  /\ sheet \in Bodies

-----------------------------------------------------------------------------
(* start_agent_thread; any of its calls may fail.                          *)
StartAgent ==
  /\ MainRuns /\ main = "starting"
  /\ \/ /\ main' = "binding" /\ agent' = "test"
        /\ agentRunning' = TRUE /\ socket' = "open"
     \/ main' = "stopped" /\ UNCHANGED <<agent, agentRunning, socket>>
  /\ UNCHANGED <<busy, running, job, lock, handler, signals, outside>>

(* check_port_available and listening; when either fails the process ends, *)
(* and its agent thread with it.                                           *)
Bind ==
  /\ MainRuns /\ main = "binding"
  /\ \/ main' = "loop" /\ UNCHANGED agent
     \/ main' = "stopped" /\ agent' = IF agent = "off" THEN "off" ELSE "gone"
  /\ UNCHANGED <<busy, running, agentRunning, socket, job, lock, handler, signals, outside>>

(* while (running): one round of the loop begins, or the loop is over.     *)
TestRunning ==
  /\ MainRuns /\ main = "loop"
  /\ main' = IF running THEN "waiting" ELSE "stopping"
  /\ UNCHANGED <<agent, busy, running, agentRunning, socket, job, lock, handler, signals, outside>>

(* http_server_poll without an event for a tenth of a second.              *)
PollTimesOut ==
  /\ MainRuns /\ main = "waiting"
  /\ main' = "loop"
  /\ UNCHANGED <<agent, busy, running, agentRunning, socket, job, lock, handler, signals, outside>>

(* handle_request for all but a search: the answer is sent, then logged.   *)
(* /health, preflights, unknown paths and wrong methods are alike here,    *)
(* and so is /ready, which reads the flag that only a search sets.         *)
AnswerProbe(r) ==
  /\ MainRuns /\ main = "waiting" /\ r \in inbox
  /\ inbox' = inbox \ {r}
  /\ main' = "answered"
  /\ UNCHANGED <<agent, busy, running, agentRunning, socket, job, lock, handler, signals,
                 client, sheet>>
AnswerPlay ==
  /\ MainRuns /\ main = "waiting" /\ "play" \in inbox
  /\ Assess(sheet) # "search"
  /\ inbox' = inbox \ {"play"}
  /\ IF Assess(sheet) = "finished"
     THEN client' = "thinking" /\ sheet' = Serialize(ParseGame(sheet))
     ELSE client' = "bad request" /\ UNCHANGED sheet
  /\ main' = "answered"
  /\ UNCHANGED <<agent, busy, running, agentRunning, socket, job, lock, handler, signals>>

(* handlers_set_busy, the search, handlers_set_ready and the answer.       *)
BeginSearch ==
  /\ MainRuns /\ main = "waiting" /\ "play" \in inbox
  /\ Assess(sheet) = "search"
  /\ busy' = TRUE /\ job' = ParseGame(sheet)
  /\ main' = "searching"
  /\ UNCHANGED <<agent, running, agentRunning, socket, lock, handler, signals, outside>>
FinishSearchStuck ==                                             \* mutant
  /\ MainRuns /\ main = "searching"
  /\ inbox' = inbox \ {"play"}
  /\ \E reply \in Replies(job) :
       IF reply = None THEN client' = "server error" /\ UNCHANGED <<sheet, busy>>
                       ELSE client' = "thinking" /\ sheet' = reply /\ busy' = FALSE
  /\ main' = "answered" /\ job' = None
  /\ UNCHANGED <<agent, running, agentRunning, socket, lock, handler, signals>>
FinishSearch ==
  /\ MainRuns /\ main = "searching"
  /\ busy' = FALSE
  /\ inbox' = inbox \ {"play"}
  /\ \E reply \in Replies(job) :
       IF reply = None THEN client' = "server error" /\ UNCHANGED sheet
                       ELSE client' = "thinking" /\ sheet' = reply
  /\ main' = "answered" /\ job' = None
  /\ UNCHANGED <<agent, running, agentRunning, socket, lock, handler, signals>>

(* logger_log: the line is written under the mutex.                        *)
TakeLock ==
  /\ MainRuns /\ main = "answered" /\ lock = "free"
  /\ lock' = "main" /\ main' = "logging"
  /\ UNCHANGED <<agent, busy, running, agentRunning, socket, job, handler, signals, outside>>
KeepLock ==                                                      \* mutant
  /\ MainRuns /\ main = "logging"
  /\ main' = "loop"
  /\ UNCHANGED <<agent, busy, running, agentRunning, socket, job, lock, handler, signals, outside>>
ReleaseLock ==
  /\ MainRuns /\ main = "logging"
  /\ lock' = "free" /\ main' = "loop"
  /\ UNCHANGED <<agent, busy, running, agentRunning, socket, job, handler, signals, outside>>

(* stop_agent_thread: the flag, the socket, pthread_join, each a step.     *)
StopAgent ==
  /\ MainRuns /\ main = "stopping"
  /\ agentRunning' = FALSE
  /\ main' = IF agentRunning THEN "closing" ELSE "stopped"
  /\ UNCHANGED <<agent, busy, running, socket, job, lock, handler, signals, outside>>
CloseSocketAndLeave ==                                           \* mutant
  /\ MainRuns /\ main = "closing"
  /\ socket' = "closed" /\ main' = "stopped"
  /\ UNCHANGED <<agent, busy, running, agentRunning, job, lock, handler, signals, outside>>
CloseSocket ==
  /\ MainRuns /\ main = "closing"
  /\ socket' = "closed" /\ main' = "joining"
  /\ UNCHANGED <<agent, busy, running, agentRunning, job, lock, handler, signals, outside>>
Join ==
  /\ MainRuns /\ main = "joining" /\ agent = "gone"
  /\ main' = "stopped"
  /\ UNCHANGED <<agent, busy, running, agentRunning, socket, job, lock, handler, signals, outside>>

-----------------------------------------------------------------------------
(* agent_thread_func.                                                      *)
AgentTestForever ==                                              \* mutant
  /\ AgentRuns /\ agent = "test"
  /\ agent' = "arm"
  /\ UNCHANGED <<main, busy, running, agentRunning, socket, job, lock, handler, signals, outside>>
AgentTest ==
  /\ AgentRuns /\ agent = "test"
  /\ agent' = IF agentRunning /\ running THEN "arm" ELSE "gone"
  /\ UNCHANGED <<main, busy, running, agentRunning, socket, job, lock, handler, signals, outside>>

(* FD_SET on a descriptor that the main thread may just have set to -1 is  *)
(* undefined: it goes unnoticed, or a hardened build ends the process.     *)
AgentArms ==
  /\ AgentRuns /\ agent = "arm"
  /\ \/ agent' = "select" /\ UNCHANGED main
     \/ socket = "closed" /\ agent' = "gone" /\ main' = "dead"
  /\ UNCHANGED <<busy, running, agentRunning, socket, job, lock, handler, signals, outside>>

(* select: the second is over, or the balancer connects.                   *)
AgentSelects ==
  /\ AgentRuns /\ agent = "select"
  /\ \/ agent' = "test"
     \/ socket = "open" /\ agent' = "accept"
  /\ UNCHANGED <<main, busy, running, agentRunning, socket, job, lock, handler, signals, outside>>

(* accept fails, with a line in the log, once the socket is closed.        *)
AgentAccepts ==
  /\ AgentRuns /\ agent = "accept"
  /\ agent' = IF socket = "open" THEN "answer" ELSE "log"
  /\ UNCHANGED <<main, busy, running, agentRunning, socket, job, lock, handler, signals, outside>>

(* The flag is read, and what it said is written, and logged when the      *)
(* level is DEBUG.                                                         *)
AgentReads ==
  /\ AgentRuns /\ agent = "answer"
  /\ agent' = IF busy THEN "drain" ELSE "ready"
  /\ UNCHANGED <<main, busy, running, agentRunning, socket, job, lock, handler, signals, outside>>
AgentAnswers ==
  /\ AgentRuns /\ agent \in {"drain", "ready"}
  /\ agent' \in {"test", "log"}
  /\ UNCHANGED <<main, busy, running, agentRunning, socket, job, lock, handler, signals, outside>>
AgentTakesLock ==
  /\ AgentRuns /\ agent = "log" /\ lock = "free"
  /\ lock' = "agent" /\ agent' = "logging"
  /\ UNCHANGED <<main, busy, running, agentRunning, socket, job, handler, signals, outside>>
AgentReleasesLock ==
  /\ AgentRuns /\ agent = "logging"
  /\ lock' = "free" /\ agent' = "test"
  /\ UNCHANGED <<main, busy, running, agentRunning, socket, job, handler, signals, outside>>

-----------------------------------------------------------------------------
(* A signal interrupts either thread. epoll_wait is never restarted: the   *)
(* poll returns -1 and the main loop ends; select is retried.              *)
Signal(t, s) ==
  /\ Alive /\ signals < MaxSignals
  /\ t = "agent" => agent \notin {"off", "gone"}
  /\ handler[t] = "none"
  /\ handler' = [handler EXCEPT ![t] = s]
  /\ signals' = signals + 1
  /\ main' = IF t = "main" /\ main = "waiting" THEN "stopping" ELSE main
  /\ agent' = IF t = "agent" /\ agent = "select" THEN "test" ELSE agent
  /\ UNCHANGED <<busy, running, agentRunning, socket, job, lock, outside>>

(* signal_handler: a line in the log comes first, under the same mutex.    *)
HandleSignal(t) ==
  /\ Alive /\ handler[t] # "none" /\ lock = "free"
  /\ running' = (running /\ handler[t] # "term")
  /\ handler' = [handler EXCEPT ![t] = "none"]
  /\ UNCHANGED <<main, agent, busy, agentRunning, socket, job, lock, signals, outside>>

-----------------------------------------------------------------------------
(* The client adds a person's move to the game it holds, or posts it; a    *)
(* request that was refused ends the conversation.                         *)
ClientMoves(c) ==
  LET game == ParseGame(sheet)
  IN  /\ Alive /\ client = "thinking"
      /\ game # None
      /\ ~HasWinner(game) /\ game.turn \in game.config.human
      /\ Valid(game.board, c)
      /\ sheet' = Serialize(MakeMove(game, c, game.turn, 0, 0))
      /\ UNCHANGED <<process, inbox, client>>
ClientPosts ==
  /\ Alive /\ client = "thinking"
  /\ inbox' = inbox \cup {"play"}
  /\ client' = "waiting"
  /\ UNCHANGED <<process, sheet>>
ProbeArrives(r) ==
  /\ Alive /\ r \notin inbox
  /\ inbox' = inbox \cup {r}
  /\ UNCHANGED <<process, client, sheet>>

(* The steps a thread takes without waiting for anybody.                   *)
MainSteps ==
  \/ StartAgent \/ Bind \/ TestRunning \/ PollTimesOut \/ FinishSearch \/ ReleaseLock
  \/ StopAgent \/ CloseSocket \/ Join
AgentSteps ==
  \/ AgentTest \/ AgentArms \/ AgentSelects \/ AgentAccepts \/ AgentReads
  \/ AgentAnswers \/ AgentReleasesLock

(* The main thread takes up the play that waits, whatever it decides.      *)
TakesPlay ==
  /\ MainRuns /\ main = "waiting" /\ "play" \in inbox
  /\ \/ main' = "searching" /\ UNCHANGED inbox
     \/ main' = "answered" /\ inbox' = inbox \ {"play"}

Next ==
  \/ MainSteps \/ TakeLock
  \/ \E r \in Probes : AnswerProbe(r)
  \/ AnswerPlay \/ BeginSearch
  \/ AgentSteps \/ AgentTakesLock
  \/ \E t \in Threads, s \in {"term", "hup"} : Signal(t, s)
  \/ \E t \in Threads : HandleSignal(t)
  \/ \E c \in Squares : ClientMoves(c)
  \/ ClientPosts
  \/ \E r \in Probes : ProbeArrives(r)

(* Both threads are scheduled; epoll, asked for one event at a time, comes *)
(* round to every descriptor; the mutex, held for a line at a time, is got.*)
Spec ==
  /\ Init /\ [][Next]_vars
  /\ WF_vars(MainSteps) /\ WF_vars(AgentSteps)
  /\ \A r \in Probes : SF_vars(AnswerProbe(r))
  /\ SF_<<main, inbox>>(TakesPlay)
  /\ SF_vars(TakeLock) /\ SF_vars(AgentTakesLock)
  /\ \A t \in Threads : SF_vars(HandleSignal(t))

-----------------------------------------------------------------------------
(* The moves a request means: those that can be read.                      *)
Keep(moves, m) == IF m.who = None \/ m.at = Unreadable THEN moves ELSE Append(moves, m)
Readable(moves) == FoldLeft(Keep, <<>>, moves)
Placed(moves) == [i \in DOMAIN moves |-> <<moves[i].who, moves[i].at>>]
StonesIn(moves, p) == {moves[i].at : i \in {j \in DOMAIN moves : moves[j].who = p}}
WonBy(moves, p) == \E n \in 0 .. Len(moves) : Five(StonesIn(SubSeq(moves, 1, n), p))
ToMove(moves) == IF moves = <<>> THEN "X" ELSE Other(Last(moves).who)

(* An answer is the game of the request with exactly one more stone: on a  *)
(* free cell, of the player whose turn it was, who has to be an engine;    *)
(* or the same game when it was decided already. The winner it names has a *)
(* line, and it names none only if nobody has one and there is room. A     *)
(* request the daemon understands is answered with a server error in one   *)
(* case only: a lone stone of O on the centre, with X to move.             *)
AnswersWithOneMove ==
  [][client = "waiting" =>
       LET asked == Readable(sheet.moves)
           got == sheet'.moves
       IN  /\ client' = "thinking" =>
                /\ \/ sheet'.winner # "none" /\ Placed(got) = Placed(asked)
                   \/ /\ Placed(got) = Append(Placed(asked), <<ToMove(asked), Last(got).at>>)
                      /\ sheet[ToMove(asked)] = "ai"
                      /\ \A i \in DOMAIN asked : asked[i].at # Last(got).at
                /\ sheet'.winner \in Colors => WonBy(got, sheet'.winner)
                /\ sheet'.winner = "none" =>
                     /\ ~WonBy(got, "X") /\ ~WonBy(got, "O")
                     /\ Cardinality(StonesIn(got, "X") \cup StonesIn(got, "O")) < Cardinality(Squares)
           /\ client' = "server error" => Placed(asked) = <<<<"O", Centre>>>>]_vars

(* The daemon has no memory, so a client that sends an answer back must be *)
(* understood: the answer reads as the game it was written from.           *)
AnswersAreRequests ==
  (sheet # Garbage /\ "winner" \in DOMAIN sheet) =>
    LET game == ParseGame(sheet) IN game # None /\ Serialize(game) = sheet

(* The agent finds "drain" exactly while a search is going on, whichever   *)
(* way the searches before it ended.                                       *)
AgentTellsTheTruth ==
  [][agent = "answer" /\ agent' \in {"drain", "ready"} =>
       (agent' = "drain" <=> main = "searching")]_vars

(* The one way to hang: a signal whose handler wants the mutex that the    *)
(* interrupted thread holds.                                               *)
Hung == \E t \in Threads : handler[t] # "none" /\ lock = t

(* A request that has arrived is answered, unless the daemon stops or      *)
(* hangs: no sequence of requests leaves another waiting for ever.         *)
EveryRequestAnswered ==
  \A r \in Probes \cup {"play"} : r \in inbox ~> r \notin inbox \/ ~Alive \/ Hung

(* A daemon that has been told to stop stops, wherever its threads are.    *)
ShutdownCompletes == ~running ~> ~Alive \/ Hung

(* "Received signal %d, shutting down...": a daemon that is told to stop   *)
(* does, whenever the signal comes. The code does not keep this: a signal  *)
(* that interrupts a thread inside logger_log hangs it.                    *)
TermEnds == \A t \in Threads : handler[t] = "term" ~> ~Alive

(* The race for the closed socket cannot end a daemon that still serves,   *)
(* no agent thread outlives a stop, and only a signal makes the daemon     *)
(* leave its loop: no request does. (A SIGHUP that comes while it waits    *)
(* does as well, although its handler leaves `running` set.)               *)
DiesOnlyStopping ==
  /\ main = "dead" => ~agentRunning
  /\ main = "stopped" => agent \in {"off", "gone"}
  /\ main \in {"stopping", "closing", "joining", "dead"} => signals > 0

(* "Received SIGHUP, reopening log file...": only SIGTERM and SIGINT make  *)
(* the daemon leave its loop. The code does not keep this (README).        *)
HangupKeepsServing == main \in {"closing", "joining"} => ~running
=============================================================================
