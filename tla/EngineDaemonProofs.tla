------------------------ MODULE EngineDaemonProofs ------------------------
(***************************************************************************)
(* Proofs about EngineDaemon for any board, any requests, any number of    *)
(* probes and any bound on the signals. The first part is about control:   *)
(* where the two threads can be together, and what the flags they share    *)
(* say then. What is in the bodies plays no part there. The second part is *)
(* about the bodies: reading a list of moves of any length, writing it,    *)
(* and reading it again.                                                   *)
(***************************************************************************)
EXTENDS EngineDaemon, TLAPS, SequenceTheorems, FiniteSetTheorems, WellFoundedInduction

(* From the moment the agent thread may exist until it is told to stop.    *)
Serving == {"binding", "loop", "waiting", "searching", "answered", "logging", "stopping"}
Leaving == {"closing", "joining"}

ControlTypes ==
  /\ main \in Serving \cup Leaving \cup {"starting", "stopped", "dead"}
  /\ busy \in BOOLEAN
  /\ signals \in Nat
  /\ handler \in [Threads -> {"none", "term", "hup"}]

(* The flag the agent reports, whichever way a search ended.               *)
BusyMeansSearching == busy <=> main = "searching"

(* The life of the agent thread beside that of the main thread.            *)
AgentLife ==
  /\ main = "starting" => agent = "off" /\ ~agentRunning
  /\ main \in Serving => (agentRunning <=> agent # "off")
  /\ main \in Leaving => ~agentRunning /\ agent # "off"
  /\ main = "stopped" => agent \in {"off", "gone"}
  /\ main = "dead" => ~agentRunning

(* Its socket is closed late, when nothing but the join is left to do.     *)
SocketLife == socket = "closed" => main \in {"joining", "stopped", "dead"}

(* Whatever leads out of the loop began with a signal.                     *)
SignalsLead ==
  (\/ ~running
   \/ \E t \in Threads : handler[t] # "none"
   \/ main \in Leaving \cup {"stopping", "dead"}) => signals > 0

(* A thread that writes a line holds the mutex.                            *)
WritersHold ==
  /\ main = "logging" => lock = "main"
  /\ agent = "logging" => lock = "agent"

IInv == ControlTypes /\ BusyMeansSearching /\ AgentLife /\ SocketLife /\ SignalsLead /\ WritersHold

(* However the daemon is started, it starts in the invariant.              *)
LEMMA InitControl == Init => IInv
<1> SUFFICES ASSUME Init PROVE IInv
  OBVIOUS
<1>1. main \in {"stopped", "binding", "starting"}
  <2>1. PICK options \in OptionLists : main = EntryPoint(options)
    BY DEF Init
  <2>2. EntryPoint(options) \in {"stopped", "binding", "starting"}
    BY DEF EntryPoint
  <2> QED BY <2>1, <2>2
<1>2. /\ agent = "off" /\ agentRunning = FALSE /\ socket = "none" /\ busy = FALSE
      /\ running = TRUE /\ lock = "free" /\ signals = 0
      /\ handler = [t \in Threads |-> "none"]
  BY DEF Init
<1> QED
  BY <1>1, <1>2 DEF IInv, ControlTypes, BusyMeansSearching, AgentLife, SocketLife,
     SignalsLead, WritersHold, Serving, Leaving, Threads

(* Every step keeps the invariant.                                         *)
LEMMA NextControl == IInv /\ [Next]_vars => IInv'
<1> SUFFICES ASSUME IInv, [Next]_vars PROVE IInv'
  OBVIOUS
<1> USE DEF IInv, ControlTypes, BusyMeansSearching, AgentLife, SocketLife, SignalsLead,
        WritersHold, Serving, Leaving, Threads, MainRuns, AgentRuns, Alive, outside
<1>1. CASE StartAgent
  BY <1>1 DEF StartAgent
<1>2. CASE Bind
  BY <1>2 DEF Bind
<1>3. CASE TestRunning
  BY <1>3 DEF TestRunning
<1>4. CASE PollTimesOut
  BY <1>4 DEF PollTimesOut
<1>5. CASE BeginSearch
  BY <1>5 DEF BeginSearch
<1>6. CASE FinishSearch
  BY <1>6 DEF FinishSearch
<1>7. CASE AnswerPlay
  BY <1>7 DEF AnswerPlay
<1>8. CASE TakeLock
  BY <1>8 DEF TakeLock
<1>9. CASE ReleaseLock
  BY <1>9 DEF ReleaseLock
<1>10. CASE StopAgent
  BY <1>10 DEF StopAgent
<1>11. CASE CloseSocket
  BY <1>11 DEF CloseSocket
<1>12. CASE Join
  BY <1>12 DEF Join
<1>13. CASE AgentTest
  BY <1>13 DEF AgentTest
<1>14. CASE AgentArms
  BY <1>14 DEF AgentArms
<1>15. CASE AgentSelects
  BY <1>15 DEF AgentSelects
<1>16. CASE AgentAccepts
  BY <1>16 DEF AgentAccepts
<1>17. CASE AgentReads
  BY <1>17 DEF AgentReads
<1>18. CASE AgentAnswers
  BY <1>18 DEF AgentAnswers
<1>19. CASE AgentTakesLock
  BY <1>19 DEF AgentTakesLock
<1>20. CASE AgentReleasesLock
  BY <1>20 DEF AgentReleasesLock
<1>21. CASE ClientPosts
  BY <1>21 DEF ClientPosts, process
<1>22. ASSUME NEW r \in Probes, AnswerProbe(r) PROVE IInv'
  BY <1>22 DEF AnswerProbe
<1>23. ASSUME NEW c \in Squares, ClientMoves(c) PROVE IInv'
  BY <1>23 DEF ClientMoves, process
<1>24. ASSUME NEW r \in Probes, ProbeArrives(r) PROVE IInv'
  BY <1>24 DEF ProbeArrives, process
<1>25. ASSUME NEW t \in Threads, NEW s \in {"term", "hup"}, Signal(t, s) PROVE IInv'
  BY <1>25 DEF Signal
<1>26. ASSUME NEW t \in Threads, HandleSignal(t) PROVE IInv'
  BY <1>26 DEF HandleSignal
<1>27. CASE UNCHANGED vars
  BY <1>27 DEF vars, process
<1> QED
  BY <1>1, <1>2, <1>3, <1>4, <1>5, <1>6, <1>7, <1>8, <1>9, <1>10, <1>11, <1>12, <1>13, <1>14,
     <1>15, <1>16, <1>17, <1>18, <1>19, <1>20, <1>21, <1>22, <1>23, <1>24, <1>25, <1>26, <1>27
  DEF Next, MainSteps, AgentSteps

-----------------------------------------------------------------------------
(* The invariant of the two threads holds in every reachable state.        *)
THEOREM DaemonInvariance == Spec => []IInv
<1>1. Init => IInv
  BY InitControl
<1>2. IInv /\ [Next]_vars => IInv'
  BY NextControl
<1> QED
  BY <1>1, <1>2, PTL DEF Spec

(* stop_agent_thread: the race for the closed socket ends no daemon that   *)
(* still serves, no agent thread outlives a stop, and only a signal leads  *)
(* out of the poll loop, for any requests and any number of signals.       *)
THEOREM DiesOnlyWhenStopping == Spec => []DiesOnlyStopping
<1>1. IInv => DiesOnlyStopping
  BY DEF IInv, AgentLife, SignalsLead, Leaving, DiesOnlyStopping
<1> QED
  BY <1>1, DaemonInvariance, PTL

(* handlers_set_busy and handlers_set_ready: whatever requests came before *)
(* and however their searches ended, the balancer is told "drain" if and   *)
(* only if the main thread is searching when the agent reads the flag.     *)
THEOREM AgentAlwaysTellsTheTruth == Spec => AgentTellsTheTruth
<1> DEFINE Told == agent = "answer" /\ agent' \in {"drain", "ready"} =>
                     (agent' = "drain" <=> main = "searching")
<1>1. ASSUME IInv, [Next]_vars PROVE Told
  <2> SUFFICES ASSUME agent = "answer", agent' \in {"drain", "ready"}
      PROVE agent' = "drain" <=> main = "searching"
    OBVIOUS
  <2>1. CASE AgentReads
    BY <1>1, <2>1 DEF AgentReads, IInv, BusyMeansSearching, ControlTypes
  <2>2. CASE ~AgentReads
    <3>1. CASE MainSteps
      BY <3>1 DEF MainSteps, StartAgent, Bind, TestRunning, PollTimesOut, FinishSearch,
         ReleaseLock, StopAgent, CloseSocket, Join
    <3>2. CASE AgentSteps
      BY <2>2, <3>2 DEF AgentSteps, AgentTest, AgentArms, AgentSelects, AgentAccepts,
         AgentReads, AgentAnswers, AgentReleasesLock
    <3>3. CASE ~MainSteps /\ ~AgentSteps
      BY <1>1, <3>3 DEF Next, vars, process, TakeLock, AnswerProbe, AnswerPlay, BeginSearch,
         AgentTakesLock, Signal, HandleSignal, ClientMoves, ClientPosts, ProbeArrives
    <3> QED BY <3>1, <3>2, <3>3
  <2> QED BY <2>1, <2>2
<1>2. IInv /\ [Next]_vars => [Told]_vars
  BY <1>1
<1>3. Spec => [][Told]_vars
  BY <1>2, DaemonInvariance, PTL DEF Spec
<1> QED
  BY <1>3 DEF AgentTellsTheTruth

(* logger_log: the two threads never write a line of the log at once.      *)
LogLinesExclude == ~(main = "logging" /\ agent = "logging")
THEOREM LogLinesAreExclusive == Spec => []LogLinesExclude
<1>1. IInv => LogLinesExclude
  BY DEF IInv, WritersHold, LogLinesExclude
<1> QED
  BY <1>1, DaemonInvariance, PTL

-----------------------------------------------------------------------------
(* Induction on a number, for a property given as a set.                   *)
LEMMA Induction ==
  ASSUME NEW S, 0 \in S, \A n \in Nat : n \in S => n + 1 \in S
  PROVE  Nat \subseteq S
<1> DEFINE T == Nat \ S
<1> SUFFICES ASSUME T # {} PROVE FALSE
  OBVIOUS
<1>1. PICK x \in T : \A y \in T : <<y, x>> \notin OpToRel(<,Nat)
  BY WFMin, NatLessThanWellFounded, Zenon
<1>2. \A y \in T : ~ (y < x)
  BY <1>1 DEF OpToRel
<1>3. x # 0 /\ x \in Nat
  OBVIOUS
<1>4. x - 1 \in Nat /\ x - 1 < x /\ x - 1 \notin T
  BY <1>2, <1>3
<1> QED BY <1>4

(* Max of a set of numbers up to k + 1 that has k + 1 in it.               *)
LEMMA MaxIsLast ==
  ASSUME NEW k \in Nat, NEW s \in SUBSET (1 .. k + 1), k + 1 \in s
  PROVE  Max(s) = k + 1 /\ s \ {k + 1} \in SUBSET (1 .. k)
<1>1. \A y \in s : k + 1 >= y
  OBVIOUS
<1>2. \A x \in s : (\A y \in s : x >= y) => x = k + 1
  OBVIOUS
<1>3. Max(s) = k + 1
  BY <1>1, <1>2 DEF Max
<1> QED BY <1>3

(* f lists what is there after each of the entries.                        *)
Reads(f, game, moves, n) ==
  /\ f[0] = game
  /\ \A k \in 0 .. n - 1 : f[k + 1] = ReadMove(f[k], moves[k + 1])
  /\ ReadMoves(game, moves) = f[n]
Keeps(f, moves, n) ==
  /\ f[0] = <<>>
  /\ \A k \in 0 .. n - 1 : f[k + 1] = Keep(f[k], moves[k + 1])
  /\ Readable(moves) = f[n]

(* The entries of "moves" are read one after the other.                    *)
LEMMA EntryByEntry ==
  ASSUME NEW game, NEW moves, NEW n \in Nat, DOMAIN moves = 1 .. n
  PROVE  \E after : Reads(after, game, moves, n)
<1> DEFINE Value(f, s) ==
             IF s = {} THEN game ELSE ReadMove(f[s \ {Max(s)}], moves[Max(s)])
           Folds(f, k) == f = [s \in SUBSET (1 .. k) |-> Value(f, s)]
           W == {k \in Nat : \E f : Folds(f, k)}
<1>1. 0 \in W
  <2> DEFINE f == [s \in SUBSET (1 .. 0) |-> game]
  <2>1. \A s \in SUBSET (1 .. 0) : s = {}
    OBVIOUS
  <2>2. Folds(f, 0)
    BY <2>1
  <2> QED BY <2>2
<1>2. ASSUME NEW k \in Nat, k \in W PROVE k + 1 \in W
  <2>1. PICK f : Folds(f, k)
    BY <1>2
  <2> DEFINE g == [s \in SUBSET (1 .. k + 1) |->
                     IF k + 1 \in s THEN ReadMove(f[s \ {k + 1}], moves[k + 1]) ELSE f[s]]
  <2>2. ASSUME NEW s \in SUBSET (1 .. k + 1) PROVE g[s] = Value(g, s)
    <3>1. CASE k + 1 \in s
      <4>1. Max(s) = k + 1 /\ s \ {k + 1} \in SUBSET (1 .. k) /\ s # {}
        BY <3>1, MaxIsLast
      <4>2. g[s \ {k + 1}] = f[s \ {k + 1}]
        BY <4>1
      <4> QED BY <3>1, <4>1, <4>2
    <3>2. CASE k + 1 \notin s
      <4>1. s \in SUBSET (1 .. k)
        BY <3>2
      <4>2. g[s] = f[s] /\ f[s] = Value(f, s)
        BY <2>1, <3>2, <4>1
      <4>3. ASSUME s # {} PROVE g[s \ {Max(s)}] = f[s \ {Max(s)}]
        BY <4>1, <3>2
      <4> QED BY <4>2, <4>3
    <3> QED BY <3>1, <3>2
  <2>3. g = [s \in SUBSET (1 .. k + 1) |-> g[s]]
    OBVIOUS
  <2>4. Folds(g, k + 1)
    <3> HIDE DEF Value, g
    <3> QED BY <2>2, <2>3
  <2> HIDE DEF Folds
  <2> QED BY <2>4
<1>3. n \in W
  <2> HIDE DEF W
  <2> QED BY <1>1, <1>2, Induction
<1> DEFINE iter == CHOOSE f : Folds(f, n)
<1>4. Folds(iter, n)
  <2> HIDE DEF Folds
  <2> QED BY <1>3
<1>5. ReadMoves(game, moves) = iter[1 .. n]
  BY DEF ReadMoves, FoldLeft, MapThenFoldSet
<1> HIDE DEF iter
<1> DEFINE after == [k \in 0 .. n |-> iter[1 .. k]]
<1>6. after[0] = game
  BY <1>4
<1>7. ASSUME NEW k \in 0 .. n - 1
      PROVE  after[k + 1] = ReadMove(after[k], moves[k + 1])
  <2>1. 1 .. k + 1 \in SUBSET (1 .. n) /\ k + 1 \in 1 .. k + 1
    OBVIOUS
  <2>2. Max(1 .. k + 1) = k + 1 /\ (1 .. k + 1) \ {k + 1} = 1 .. k
    BY <2>1, MaxIsLast
  <2>3. iter[1 .. k + 1] = Value(iter, 1 .. k + 1)
    BY <1>4, <2>1
  <2>4. iter[1 .. k + 1] = ReadMove(iter[1 .. k], moves[k + 1])
    BY <2>1, <2>2, <2>3
  <2>5. k \in 0 .. n /\ k + 1 \in 0 .. n
    OBVIOUS
  <2> QED BY <2>4, <2>5
<1>8. ReadMoves(game, moves) = after[n]
  BY <1>5
<1> HIDE DEF after
<1> QED BY <1>6, <1>7, <1>8 DEF Reads
(* The same for the entries that can be read.                              *)
LEMMA KeptByEntry ==
  ASSUME NEW moves, NEW n \in Nat, DOMAIN moves = 1 .. n
  PROVE  \E after : Keeps(after, moves, n)
<1> DEFINE Value(f, s) ==
             IF s = {} THEN <<>> ELSE Keep(f[s \ {Max(s)}], moves[Max(s)])
           Folds(f, k) == f = [s \in SUBSET (1 .. k) |-> Value(f, s)]
           W == {k \in Nat : \E f : Folds(f, k)}
<1>1. 0 \in W
  <2> DEFINE f == [s \in SUBSET (1 .. 0) |-> <<>>]
  <2>1. \A s \in SUBSET (1 .. 0) : s = {}
    OBVIOUS
  <2>2. Folds(f, 0)
    BY <2>1
  <2> QED BY <2>2
<1>2. ASSUME NEW k \in Nat, k \in W PROVE k + 1 \in W
  <2>1. PICK f : Folds(f, k)
    BY <1>2
  <2> DEFINE g == [s \in SUBSET (1 .. k + 1) |->
                     IF k + 1 \in s THEN Keep(f[s \ {k + 1}], moves[k + 1]) ELSE f[s]]
  <2>2. ASSUME NEW s \in SUBSET (1 .. k + 1) PROVE g[s] = Value(g, s)
    <3>1. CASE k + 1 \in s
      <4>1. Max(s) = k + 1 /\ s \ {k + 1} \in SUBSET (1 .. k) /\ s # {}
        BY <3>1, MaxIsLast
      <4>2. g[s \ {k + 1}] = f[s \ {k + 1}]
        BY <4>1
      <4> QED BY <3>1, <4>1, <4>2
    <3>2. CASE k + 1 \notin s
      <4>1. s \in SUBSET (1 .. k)
        BY <3>2
      <4>2. g[s] = f[s] /\ f[s] = Value(f, s)
        BY <2>1, <3>2, <4>1
      <4>3. ASSUME s # {} PROVE g[s \ {Max(s)}] = f[s \ {Max(s)}]
        BY <4>1, <3>2
      <4> QED BY <4>2, <4>3
    <3> QED BY <3>1, <3>2
  <2>3. g = [s \in SUBSET (1 .. k + 1) |-> g[s]]
    OBVIOUS
  <2>4. Folds(g, k + 1)
    <3> HIDE DEF Value, g
    <3> QED BY <2>2, <2>3
  <2> HIDE DEF Folds
  <2> QED BY <2>4
<1>3. n \in W
  <2> HIDE DEF W
  <2> QED BY <1>1, <1>2, Induction
<1> DEFINE iter == CHOOSE f : Folds(f, n)
<1>4. Folds(iter, n)
  <2> HIDE DEF Folds
  <2> QED BY <1>3
<1>5. Readable(moves) = iter[1 .. n]
  BY DEF Readable, FoldLeft, MapThenFoldSet
<1> HIDE DEF iter
<1> DEFINE after == [k \in 0 .. n |-> iter[1 .. k]]
<1>6. after[0] = <<>>
  BY <1>4
<1>7. ASSUME NEW k \in 0 .. n - 1
      PROVE  after[k + 1] = Keep(after[k], moves[k + 1])
  <2>1. 1 .. k + 1 \in SUBSET (1 .. n) /\ k + 1 \in 1 .. k + 1
    OBVIOUS
  <2>2. Max(1 .. k + 1) = k + 1 /\ (1 .. k + 1) \ {k + 1} = 1 .. k
    BY <2>1, MaxIsLast
  <2>3. iter[1 .. k + 1] = Value(iter, 1 .. k + 1)
    BY <1>4, <2>1
  <2>4. iter[1 .. k + 1] = Keep(iter[1 .. k], moves[k + 1])
    BY <2>1, <2>2, <2>3
  <2>5. k \in 0 .. n /\ k + 1 \in 0 .. n
    OBVIOUS
  <2> QED BY <2>4, <2>5
<1>8. Readable(moves) = after[n]
  BY <1>5
<1> HIDE DEF after
<1> QED BY <1>6, <1>7, <1>8 DEF Keeps

(* One entry more is one step of reading more.                             *)
LEMMA ReadOneMore ==
  ASSUME NEW game, NEW S, NEW moves \in Seq(S), NEW m \in S
  PROVE  ReadMoves(game, Append(moves, m)) = ReadMove(ReadMoves(game, moves), m)
<1> DEFINE n == Len(moves)
           more == Append(moves, m)
<1>1. /\ n \in Nat /\ DOMAIN moves = 1 .. n /\ DOMAIN more = 1 .. n + 1
      /\ \A k \in 1 .. n : more[k] = moves[k]
      /\ more[n + 1] = m
  OBVIOUS
<1> HIDE DEF n, more
<1>2. PICK f : Reads(f, game, moves, n)
  BY <1>1, EntryByEntry
<1>3. PICK g : Reads(g, game, more, n + 1)
  <2>1. n + 1 \in Nat
    BY <1>1
  <2> QED BY <1>1, <2>1, EntryByEntry
<1> DEFINE W == {k \in Nat : k <= n => f[k] = g[k]}
<1>4. 0 \in W
  BY <1>2, <1>3 DEF Reads
<1>5. ASSUME NEW k \in Nat, k \in W PROVE k + 1 \in W
  <2> SUFFICES ASSUME k + 1 <= n PROVE f[k + 1] = g[k + 1]
    OBVIOUS
  <2>1. k \in 0 .. n - 1 /\ k \in 0 .. (n + 1) - 1 /\ more[k + 1] = moves[k + 1] /\ f[k] = g[k]
    BY <1>1, <1>5
  <2> QED BY <1>2, <1>3, <2>1 DEF Reads
<1>6. n \in W
  <2> HIDE DEF W
  <2> QED BY <1>1, <1>4, <1>5, Induction
<1>7. n \in 0 .. (n + 1) - 1 /\ f[n] = g[n]
  BY <1>1, <1>6
<1> QED BY <1>1, <1>2, <1>3, <1>7 DEF more, Reads

(* Without an entry, nothing is read.                                      *)
LEMMA ReadNothing ==
  ASSUME NEW game
  PROVE  ReadMoves(game, <<>>) = game
<1>1. DOMAIN <<>> = 1 .. 0
  OBVIOUS
<1> QED BY <1>1, EntryByEntry, 0 \in Nat DEF Reads

(* The same two facts for the entries that are kept.                       *)
LEMMA KeptOneMore ==
  ASSUME NEW S, NEW moves \in Seq(S), NEW m \in S
  PROVE  Readable(Append(moves, m)) = Keep(Readable(moves), m)
<1> DEFINE n == Len(moves)
           more == Append(moves, m)
<1>1. /\ n \in Nat /\ DOMAIN moves = 1 .. n /\ DOMAIN more = 1 .. n + 1
      /\ \A k \in 1 .. n : more[k] = moves[k]
      /\ more[n + 1] = m
  OBVIOUS
<1> HIDE DEF n, more
<1>2. PICK f : Keeps(f, moves, n)
  BY <1>1, KeptByEntry
<1>3. PICK g : Keeps(g, more, n + 1)
  <2>1. n + 1 \in Nat
    BY <1>1
  <2> QED BY <1>1, <2>1, KeptByEntry
<1> DEFINE W == {k \in Nat : k <= n => f[k] = g[k]}
<1>4. 0 \in W
  BY <1>2, <1>3 DEF Keeps
<1>5. ASSUME NEW k \in Nat, k \in W PROVE k + 1 \in W
  <2> SUFFICES ASSUME k + 1 <= n PROVE f[k + 1] = g[k + 1]
    OBVIOUS
  <2>1. k \in 0 .. n - 1 /\ k \in 0 .. (n + 1) - 1 /\ more[k + 1] = moves[k + 1] /\ f[k] = g[k]
    BY <1>1, <1>5
  <2> QED BY <1>2, <1>3, <2>1 DEF Keeps
<1>6. n \in W
  <2> HIDE DEF W
  <2> QED BY <1>1, <1>4, <1>5, Induction
<1>7. n \in 0 .. (n + 1) - 1 /\ f[n] = g[n]
  BY <1>1, <1>6
<1> QED BY <1>1, <1>2, <1>3, <1>7 DEF more, Keeps

(* Of no entries, none is kept.                                            *)
LEMMA KeptNothing == Readable(<<>>) = <<>>
<1>1. DOMAIN <<>> = 1 .. 0
  OBVIOUS
<1> QED BY <1>1, KeptByEntry, 0 \in Nat DEF Keeps

(* What holds of the empty list, and of a longer list when it holds of the *)
(* shorter one, holds of every list.                                       *)
LEMMA ListInduction ==
  ASSUME NEW S, NEW T, <<>> \in T,
         \A s \in Seq(S), m \in S : s \in T => Append(s, m) \in T
  PROVE  Seq(S) \subseteq T
<1> DEFINE W == {n \in Nat : \A s \in Seq(S) : Len(s) = n => s \in T}
<1>1. 0 \in W
  OBVIOUS
<1>2. ASSUME NEW n \in Nat, n \in W PROVE n + 1 \in W
  <2> SUFFICES ASSUME NEW s \in Seq(S), Len(s) = n + 1 PROVE s \in T
    OBVIOUS
  <2> DEFINE front == SubSeq(s, 1, n)
  <2>1. front \in Seq(S) /\ Len(front) = n /\ s[n + 1] \in S /\ s = Append(front, s[n + 1])
    OBVIOUS
  <2> HIDE DEF front
  <2>2. front \in T
    BY <1>2, <2>1
  <2> QED BY <2>1, <2>2
<1>3. Nat \subseteq W
  <2> HIDE DEF W
  <2> QED BY <1>1, <1>2, Induction
<1> QED BY <1>3

-----------------------------------------------------------------------------
Boards == [Squares -> Colors \cup {Empty}]
Moves == [cell : Squares, player : Colors, time : Nat, evals : Int, winner : BOOLEAN]

Entry(c, p, e, w) == [cell |-> c, player |-> p, time |-> 0, evals |-> e, winner |-> w]

(* The cells of a player among the first n moves of a history.             *)
Upto(history, n, p) == {history[i].cell : i \in {j \in 1 .. n : history[j].player = p}}

(* The record of a game after several of its fields were set.              *)
Updated(g, board, history, total, stones, hash, state, turn) ==
  [g EXCEPT !.board = board, !.history = history, !.total = total, !.stones = stones,
            !.hash = hash, !.state = state, !.turn = turn]
LEMMA UpdatedIsGame ==
  ASSUME NEW g \in Games, NEW vb \in Boards, NEW vh \in Seq(Moves), NEW vt \in [Colors -> Nat],
         NEW vs \in Nat, NEW vx \in SUBSET (Colors \X Squares), NEW vv \in States,
         NEW vu \in Colors
  PROVE  LET n == Updated(g, vb, vh, vt, vs, vx, vv, vu)
         IN  /\ n \in Games
             /\ n.board = vb /\ n.history = vh /\ n.state = vv /\ n.config = g.config
BY DEF Games, Boards, Moves, Updated

(* The verdict is a state of a game.                                       *)
LEMMA VerdictIsState ==
  ASSUME NEW board, NEW state \in States
  PROVE  Verdict(board, state) \in States
BY DEF Verdict, States

(* n is game g after one more move of p at c, noted with the evaluation e. *)
MovedOn(n, g, c, p, e) ==
  /\ n \in Games
  /\ n.board = [g.board EXCEPT ![c] = p]
  /\ n.state = Verdict(n.board, g.state)
  /\ n.config = g.config
  /\ \E w \in BOOLEAN : n.history = Append(g.history, Entry(c, p, e, w))

(* make_move on a free cell: what becomes of board, state and history.     *)
LEMMA MoveMade ==
  ASSUME NEW g \in Games, NEW c \in Free(g.board), NEW p \in Colors, NEW e \in Int
  PROVE  MovedOn(MakeMove(g, c, p, 0, e), g, c, p, e)
<1> DEFINE board == [g.board EXCEPT ![c] = p]
           verdict == Verdict(board, g.state)
           won == verdict \in Colors
           entry == Entry(c, p, e, won)
           history == Append(g.history, entry)
           total == [g.total EXCEPT ![p] = g.total[p] + 0]
           stones == g.stones + 1
           hash == Xor(g.hash, <<p, c>>)
           turn == IF verdict = "running" THEN Other(g.turn) ELSE g.turn
           n == Updated(g, board, history, total, stones, hash, verdict, turn)
<1>1. MakeMove(g, c, p, 0, e) = n
  <2>1. Valid(g.board, c)
    BY DEF Valid
  <2> QED BY <2>1, Zenon DEF MakeMove, Entry, Updated
<1>2. /\ g.board \in Boards /\ g.history \in Seq(Moves) /\ g.total \in [Colors -> Nat]
      /\ g.stones \in Nat /\ g.hash \in SUBSET (Colors \X Squares)
      /\ g.state \in States /\ g.turn \in Colors
  BY DEF Games, Boards, Moves
<1>3. c \in Squares
  BY DEF Free
<1>4. board \in Boards
  BY <1>2, <1>3 DEF Boards
<1>5. verdict \in States
  BY <1>2, VerdictIsState
<1>6. entry \in Moves
  <2>1. won \in BOOLEAN
    OBVIOUS
  <2> HIDE DEF won
  <2> QED BY <1>3, <2>1 DEF Moves, Entry
<1>7. history \in Seq(Moves)
  <2> HIDE DEF entry
  <2> QED BY <1>2, <1>6
<1>8. total \in [Colors -> Nat]
  BY <1>2
<1>9. stones \in Nat
  BY <1>2
<1>10. hash \in SUBSET (Colors \X Squares)
  BY <1>2, <1>3 DEF Xor
<1>11. turn \in Colors
  BY <1>2 DEF Other, Colors
<1>12. n \in Games /\ n.board = board /\ n.history = history /\ n.state = verdict
       /\ n.config = g.config
  <2> HIDE DEF board, verdict, history, total, stones, hash, turn
  <2> QED BY <1>4, <1>5, <1>7, <1>8, <1>9, <1>10, <1>11, UpdatedIsGame
<1> HIDE DEF n
<1>13. \E w \in BOOLEAN : n.history = Append(g.history, Entry(c, p, e, w))
  <2>1. won \in BOOLEAN
    OBVIOUS
  <2>2. n.history = Append(g.history, Entry(c, p, e, won))
    BY <1>12
  <2> HIDE DEF won
  <2> QED BY <2>1, <2>2
<1>14. MovedOn(n, g, c, p, e)
  BY <1>12, <1>13 DEF MovedOn
<1> QED BY <1>1, <1>14

-----------------------------------------------------------------------------
(* What a game that was read or played from a request keeps: its cells are *)
(* its history, each taken once; a winner had a line at some point, and    *)
(* while the game runs nobody ever had one and there is room.              *)
Told(g) ==
  /\ g \in Games
  /\ \A p \in Colors : StonesOf(g.board, p) = Upto(g.history, Len(g.history), p)
  /\ \A i, j \in DOMAIN g.history : g.history[i].cell = g.history[j].cell => i = j
  /\ g.state \in Colors => \E n \in 0 .. Len(g.history) : Five(Upto(g.history, n, g.state))
  /\ g.state = "running" => /\ \A n \in 0 .. Len(g.history), p \in Colors :
                                 ~Five(Upto(g.history, n, p))
                            /\ Free(g.board) # {}
  /\ Verdict(g.board, g.state) = g.state

(* The cells of a player after one move more.                              *)
LEMMA UptoMore ==
  ASSUME NEW h \in Seq(Moves), NEW m \in Moves, NEW p
  PROVE  /\ \A n \in 0 .. Len(h) : Upto(Append(h, m), n, p) = Upto(h, n, p)
         /\ Upto(Append(h, m), Len(h) + 1, p) =
              Upto(h, Len(h), p) \cup (IF m.player = p THEN {m.cell} ELSE {})
<1> DEFINE more == Append(h, m)
           k == Len(h)
<1>1. /\ k \in Nat
      /\ \A i \in 1 .. k : more[i] = h[i]
      /\ more[k + 1] = m
  OBVIOUS
<1> HIDE DEF more, k
<1>2. \A n \in 0 .. k : Upto(more, n, p) = Upto(h, n, p)
  BY <1>1 DEF Upto
<1>3. Upto(more, k + 1, p) = Upto(h, k, p) \cup (IF m.player = p THEN {m.cell} ELSE {})
  <2>1. \A i : i \in 1 .. k + 1 <=> i \in 1 .. k \/ i = k + 1
    BY <1>1
  <2> QED BY <1>1, <2>1 DEF Upto
<1> QED BY <1>2, <1>3 DEF more, k

(* The stones after one was put on a free cell.                            *)
LEMMA StonePut ==
  ASSUME NEW board \in Boards, NEW c \in Free(board), NEW p \in Colors, NEW q \in Colors
  PROVE  StonesOf([board EXCEPT ![c] = p], q) =
           StonesOf(board, q) \cup (IF p = q THEN {c} ELSE {})
<1> DEFINE after == [board EXCEPT ![c] = p]
<1>1. c \in Squares /\ board[c] = Empty
  BY DEF Free
<1>2. after[c] = p /\ \A d \in Squares \ {c} : after[d] = board[d]
  BY <1>1 DEF Boards
<1> HIDE DEF after
<1>3. Empty # q
  BY DEF Empty, Colors
<1>4. StonesOf(after, q) = StonesOf(board, q) \cup (IF p = q THEN {c} ELSE {})
  BY <1>1, <1>2, <1>3 DEF StonesOf
<1> QED BY <1>4 DEF after

(* check_game_state asked again says the same.                             *)
LEMMA VerdictStays ==
  ASSUME NEW board, NEW state
  PROVE  Verdict(board, Verdict(board, state)) = Verdict(board, state)
BY DEF Verdict

(* A move keeps all of it, also one of the wrong colour or after the end.  *)
LEMMA MoveTold ==
  ASSUME NEW g, Told(g), NEW c \in Free(g.board), NEW p \in Colors, NEW e \in Int
  PROVE  Told(MakeMove(g, c, p, 0, e))
<1> DEFINE n == MakeMove(g, c, p, 0, e)
<1>1. g \in Games
  BY DEF Told
<1>2. PICK w \in BOOLEAN :
        /\ n \in Games
        /\ n.board = [g.board EXCEPT ![c] = p]
        /\ n.state = Verdict(n.board, g.state)
        /\ n.history = Append(g.history, Entry(c, p, e, w))
  <2>1. MovedOn(n, g, c, p, e)
    BY <1>1, MoveMade
  <2> HIDE DEF n
  <2> QED BY <2>1 DEF MovedOn
<1> DEFINE m == Entry(c, p, e, w)
           h == g.history
           k == Len(h)
<1>3. c \in Squares /\ m \in Moves /\ m.cell = c /\ m.player = p
  BY DEF Free, Moves, Entry
<1>4. h \in Seq(Moves) /\ k \in Nat /\ g.board \in Boards /\ g.state \in States
  <2>1. g.history \in Seq(Moves) /\ g.board \in Boards /\ g.state \in States
    BY <1>1 DEF Games, Moves, Boards
  <2> QED BY <2>1
<1>5. n.history = Append(h, m)
  BY <1>2
<1> HIDE DEF n, m, h, k
<1>6. Len(n.history) = k + 1 /\ DOMAIN n.history = 1 .. k + 1
  BY <1>3, <1>4, <1>5 DEF k
<1>7. /\ \A q : \A i \in 0 .. k : Upto(n.history, i, q) = Upto(h, i, q)
      /\ \A q : Upto(n.history, k + 1, q) = Upto(h, k, q) \cup (IF p = q THEN {c} ELSE {})
  <2>1. \A q : /\ \A i \in 0 .. Len(h) : Upto(Append(h, m), i, q) = Upto(h, i, q)
               /\ Upto(Append(h, m), Len(h) + 1, q) =
                    Upto(h, Len(h), q) \cup (IF m.player = q THEN {m.cell} ELSE {})
    BY <1>3, <1>4, UptoMore
  <2> QED BY <1>3, <1>5, <2>1 DEF k
<1>8. \A q \in Colors : StonesOf(n.board, q) = StonesOf(g.board, q) \cup (IF p = q THEN {c} ELSE {})
  BY <1>2, <1>4, StonePut
<1>9. \A q \in Colors : StonesOf(n.board, q) = Upto(n.history, Len(n.history), q)
  BY <1>6, <1>7, <1>8 DEF Told, h, k
<1>10. \A i, j \in DOMAIN n.history : n.history[i].cell = n.history[j].cell => i = j
  <2>1. \A i \in 1 .. k : n.history[i] = h[i] /\ h[i] \in Moves
    BY <1>3, <1>4, <1>5 DEF k
  <2>2. n.history[k + 1] = m
    BY <1>3, <1>4, <1>5 DEF k
  <2>3. \A i \in 1 .. k : h[i].cell # c
    <3> SUFFICES ASSUME NEW i \in 1 .. k, h[i].cell = c PROVE FALSE
      OBVIOUS
    <3>1. h[i].player \in Colors
      BY <2>1 DEF Moves
    <3>2. c \in Upto(h, k, h[i].player)
      BY DEF Upto
    <3>3. c \in StonesOf(g.board, h[i].player)
      BY <3>1, <3>2 DEF Told, h, k
    <3>4. g.board[c] = Empty
      BY DEF Free
    <3> QED BY <3>1, <3>3, <3>4 DEF StonesOf, Colors, Empty
  <2>4. \A i, j \in 1 .. k : h[i].cell = h[j].cell => i = j
    <3>1. DOMAIN h = 1 .. k
      BY <1>4 DEF k
    <3> QED BY <3>1 DEF Told, h
  <2>5. \A i : i \in 1 .. k + 1 <=> i \in 1 .. k \/ i = k + 1
    BY <1>4
  <2> QED BY <1>3, <1>6, <2>1, <2>2, <2>3, <2>4, <2>5
<1>11. n.state \in Colors => \E i \in 0 .. k + 1 : Five(Upto(n.history, i, n.state))
  <2> SUFFICES ASSUME n.state \in Colors
               PROVE  \E i \in 0 .. k + 1 : Five(Upto(n.history, i, n.state))
    OBVIOUS
  <2>1. CASE Five(StonesOf(n.board, n.state))
    <3>1. k + 1 \in 0 .. k + 1
      BY <1>4
    <3> QED BY <1>6, <1>9, <2>1, <3>1
  <2>2. CASE ~Five(StonesOf(n.board, n.state))
    <3>1. n.state = g.state
      BY <1>2, <2>2 DEF Verdict, Colors
    <3>2. PICK i \in 0 .. k : Five(Upto(h, i, g.state))
      BY <3>1 DEF Told, h, k
    <3>3. i \in 0 .. k + 1
      BY <1>4
    <3> QED BY <1>7, <3>1, <3>2, <3>3
  <2> QED BY <2>1, <2>2
<1>12. n.state = "running" => /\ \A i \in 0 .. k + 1, q \in Colors : ~Five(Upto(n.history, i, q))
                              /\ Free(n.board) # {}
  <2> SUFFICES ASSUME n.state = "running"
               PROVE  /\ \A i \in 0 .. k + 1, q \in Colors : ~Five(Upto(n.history, i, q))
                      /\ Free(n.board) # {}
    OBVIOUS
  <2>1. /\ g.state = "running" /\ Free(n.board) # {}
        /\ \A q \in Colors : ~Five(StonesOf(n.board, q))
    BY <1>2 DEF Verdict, Colors
  <2>2. \A i \in 0 .. k, q \in Colors : ~Five(Upto(n.history, i, q))
    BY <1>7, <2>1 DEF Told, h, k
  <2>3. \A q \in Colors : ~Five(Upto(n.history, k + 1, q))
    BY <1>6, <1>9, <2>1
  <2>4. \A i : i \in 0 .. k + 1 <=> i \in 0 .. k \/ i = k + 1
    BY <1>4
  <2> QED BY <2>1, <2>2, <2>3, <2>4
<1>13. Verdict(n.board, n.state) = n.state
  BY <1>2, VerdictStays
<1> QED BY <1>2, <1>6, <1>9, <1>10, <1>11, <1>12, <1>13 DEF Told, n

-----------------------------------------------------------------------------
(* How a game is written, and that it reads as itself: the same stones,    *)
(* the same verdict, and the same entries.                                 *)
Written(config, m) ==
  [who |-> m.player, at |-> m.cell,
   evals |-> IF m.player \in config.human \/ m.evals < 0 THEN 0 ELSE m.evals]
Sent(g) == [i \in DOMAIN g.history |-> Written(g.config, g.history[i])]
Alike(a, g) ==
  /\ a \in Games
  /\ a.board = g.board /\ a.state = g.state /\ a.config = g.config
  /\ Sent(a) = Sent(g)
Echoes(g) == Alike(ReadMoves(NewGame(g.config), Sent(g)), g)

(* A move is written as an entry ...                                       *)
LEMMA WrittenIsEntry ==
  ASSUME NEW config, NEW m \in Moves
  PROVE  Written(config, m) \in MoveEntries
BY DEF Written, Moves, MoveEntries

(* ... a history as a list of entries ...                                  *)
LEMMA SentIsList ==
  ASSUME NEW g \in Games
  PROVE  Sent(g) \in Seq(MoveEntries)
<1>1. g.history \in Seq(Moves)
  BY DEF Games, Moves
<1>2. \A i \in DOMAIN g.history : Written(g.config, g.history[i]) \in MoveEntries
  BY <1>1, WrittenIsEntry
<1> QED BY <1>1, <1>2 DEF Sent

(* ... and a longer history as a longer list.                              *)
LEMMA SentMore ==
  ASSUME NEW g \in Games, NEW n, NEW m \in Moves, n.history = Append(g.history, m),
         n.config = g.config
  PROVE  Sent(n) = Append(Sent(g), Written(g.config, m))
<1> DEFINE h == g.history
           k == Len(h)
<1>1. h \in Seq(Moves)
  BY DEF Games, Moves
<1> HIDE DEF h
<1>2. /\ k \in Nat /\ DOMAIN h = 1 .. k /\ DOMAIN n.history = 1 .. k + 1
      /\ \A i \in 1 .. k : n.history[i] = h[i]
      /\ n.history[k + 1] = m
  BY <1>1 DEF h
<1>3. /\ Sent(g) \in Seq(MoveEntries) /\ Len(Sent(g)) = k
      /\ \A i \in 1 .. k : Sent(g)[i] = Written(g.config, h[i])
  <2>1. Sent(g) \in Seq(MoveEntries)
    BY SentIsList
  <2>2. DOMAIN Sent(g) = 1 .. k /\ \A i \in 1 .. k : Sent(g)[i] = Written(g.config, h[i])
    BY <1>2 DEF Sent, h
  <2> QED BY <1>2, <2>1, <2>2
<1> DEFINE more == Append(Sent(g), Written(g.config, m))
<1>4. /\ DOMAIN more = 1 .. k + 1 /\ \A i \in 1 .. k : more[i] = Sent(g)[i]
      /\ more[k + 1] = Written(g.config, m) /\ more = [i \in 1 .. k + 1 |-> more[i]]
  BY <1>2, <1>3
<1> HIDE DEF more, k
<1>5. \A i \in 1 .. k + 1 : more[i] = Written(g.config, n.history[i])
  <2>1. \A i \in 1 .. k + 1 : i \in 1 .. k \/ i = k + 1
    BY <1>2
  <2> QED BY <1>2, <1>3, <1>4, <2>1
<1>6. Sent(n) = [i \in 1 .. k + 1 |-> Written(g.config, n.history[i])]
  BY <1>2 DEF Sent
<1>7. Sent(n) = more
  BY <1>4, <1>5, <1>6
<1> QED BY <1>7 DEF more

(* A move keeps this: the answer reads as the game it was written from.    *)
LEMMA MoveEchoes ==
  ASSUME NEW g \in Games, Echoes(g), NEW c \in Free(g.board), NEW p \in Colors, NEW e \in Int
  PROVE  Echoes(MakeMove(g, c, p, 0, e))
<1> DEFINE n == MakeMove(g, c, p, 0, e)
           f == IF p \in g.config.human \/ e < 0 THEN 0 ELSE e
           x == [who |-> p, at |-> c, evals |-> f]
           new == NewGame(g.config)
           a == ReadMoves(new, Sent(g))
           b == MakeMove(a, c, p, 0, f)
<1>1. c \in Squares /\ f \in Int /\ x \in MoveEntries /\ x.who = p /\ x.at = c /\ x.evals = f
  BY DEF Free, MoveEntries
<1>2. \A w \in BOOLEAN, d \in {e, f} :
        Entry(c, p, d, w) \in Moves /\ Written(g.config, Entry(c, p, d, w)) = x
  BY <1>1 DEF Entry, Written, Moves
<1>3. /\ a \in Games /\ a.board = g.board /\ a.state = g.state /\ a.config = g.config
      /\ Sent(a) = Sent(g)
  BY DEF Echoes, Alike
<1> HIDE DEF n, f, x, new, a, b
<1>4. /\ n \in Games /\ n.board = [g.board EXCEPT ![c] = p] /\ n.state = Verdict(n.board, g.state)
      /\ n.config = g.config /\ \E w \in BOOLEAN : n.history = Append(g.history, Entry(c, p, e, w))
  <2>1. MovedOn(n, g, c, p, e)
    BY MoveMade DEF n
  <2> QED BY <2>1 DEF MovedOn
<1>5. /\ b \in Games /\ b.board = [a.board EXCEPT ![c] = p] /\ b.state = Verdict(b.board, a.state)
      /\ b.config = a.config /\ \E w \in BOOLEAN : b.history = Append(a.history, Entry(c, p, f, w))
  <2>1. MovedOn(b, a, c, p, f)
    <3>1. a \in Games /\ c \in Free(a.board) /\ f \in Int
      BY <1>1, <1>3
    <3> QED BY <3>1, MoveMade DEF b
  <2> QED BY <2>1 DEF MovedOn
<1>6. Sent(n) = Append(Sent(g), x)
  BY <1>2, <1>4, SentMore
<1>7. Sent(b) = Append(Sent(a), x)
  BY <1>2, <1>3, <1>5, SentMore
<1>8. ReadMoves(new, Append(Sent(g), x)) = ReadMove(a, x)
  BY <1>1, SentIsList, ReadOneMore DEF a
<1>9. ReadMove(a, x) = b
  <2>1. a # None /\ p # None /\ c # Unreadable
    BY <1>1, <1>3, ApiAssumption
  <2>2. Valid(a.board, c)
    BY <1>3 DEF Valid
  <2> QED BY <1>1, <2>1, <2>2 DEF ReadMove, b
<1>10. Alike(b, n)
  BY <1>3, <1>4, <1>5, <1>6, <1>7 DEF Alike
<1> QED BY <1>4, <1>6, <1>8, <1>9, <1>10 DEF Echoes, new, n

-----------------------------------------------------------------------------
(* The game of an empty list.                                              *)
LEMMA NewGameReads ==
  ASSUME NEW config \in Config
  PROVE  /\ Told(NewGame(config)) /\ Echoes(NewGame(config))
         /\ NewGame(config).config = config /\ NewGame(config).history = <<>>
         /\ NewGame(config).turn = "X"
<1> DEFINE g == NewGame(config)
<1>1. /\ g.board = EmptyBoard /\ g.state = "running" /\ g.config = config /\ g.history = <<>>
      /\ g.turn = "X"
  BY DEF NewGame
<1>2. g \in Games
  <2>1. EmptyBoard \in Boards /\ "running" \in States /\ <<>> \in Seq(Moves) /\ <<>> \in Seq(Nat)
        /\ "X" \in Colors
    BY DEF EmptyBoard, Boards, States, Colors
  <2> QED BY <2>1 DEF NewGame, Games, Boards, Moves
<1> HIDE DEF g
<1>3. \A p \in Colors : StonesOf(EmptyBoard, p) = {}
  BY DEF StonesOf, EmptyBoard, Colors, Empty
<1>4. Free(EmptyBoard) # {}
  BY GameAssumption DEF Free, EmptyBoard
<1>5. \A n, p : Upto(<<>>, 0, p) = {}
  BY DEF Upto
<1>6. Verdict(EmptyBoard, "running") = "running"
  BY <1>3, <1>4, GameAssumption DEF Verdict, Colors
<1>7. Told(g)
  <2>1. Len(<<>>) = 0 /\ DOMAIN <<>> = {} /\ 0 .. 0 = {0} /\ "running" \notin Colors
    BY DEF Colors
  <2> QED BY <1>1, <1>2, <1>3, <1>4, <1>5, <1>6, <2>1, GameAssumption DEF Told
<1>8. Sent(g) = <<>>
  BY <1>1 DEF Sent
<1>9. Echoes(g)
  BY <1>1, <1>2, <1>8, ReadNothing DEF Echoes, Alike, g
<1> QED BY <1>1, <1>7, <1>9 DEF g

(* Colours and cells of a history, as the property names those of a list.  *)
Played(g) == [i \in DOMAIN g.history |-> <<g.history[i].player, g.history[i].cell>>]

(* What reading a list of entries gives, if it is not refused.             *)
Understood(g, moves, config) ==
  /\ Told(g) /\ Echoes(g) /\ g.config = config
  /\ g.history = <<>> => g.turn = "X"
  /\ Placed(Readable(moves)) = Played(g)

(* List and history stay in agreement when both get one move more.         *)
LEMMA PlacedMore ==
  ASSUME NEW h \in Seq(Moves), NEW e \in Moves, NEW s \in Seq(MoveEntries), NEW m \in MoveEntries,
         Placed(s) = [i \in DOMAIN h |-> <<h[i].player, h[i].cell>>],
         m.who = e.player, m.at = e.cell
  PROVE  LET more == Append(h, e)
         IN  Placed(Append(s, m)) = [i \in DOMAIN more |-> <<more[i].player, more[i].cell>>]
<1> DEFINE more == Append(h, e)
           list == Append(s, m)
           k == Len(h)
<1>1. DOMAIN s = DOMAIN h
  BY DEF Placed
<1>2. /\ k \in Nat /\ Len(s) = k /\ DOMAIN s = 1 .. k /\ DOMAIN h = 1 .. k
  BY <1>1
<1>3. /\ DOMAIN more = 1 .. k + 1 /\ DOMAIN list = 1 .. k + 1
      /\ \A i \in 1 .. k : more[i] = h[i] /\ list[i] = s[i]
      /\ more[k + 1] = e /\ list[k + 1] = m
  BY <1>2
<1>4. \A i \in 1 .. k : <<s[i].who, s[i].at>> = <<h[i].player, h[i].cell>>
  <2> SUFFICES ASSUME NEW i \in 1 .. k PROVE <<s[i].who, s[i].at>> = <<h[i].player, h[i].cell>>
    OBVIOUS
  <2>1. Placed(s)[i] = <<s[i].who, s[i].at>>
    BY <1>2 DEF Placed
  <2> QED BY <1>2, <2>1
<1> HIDE DEF more, list, k
<1>5. \A i \in 1 .. k + 1 : <<list[i].who, list[i].at>> = <<more[i].player, more[i].cell>>
  <2>1. \A i \in 1 .. k + 1 : i \in 1 .. k \/ i = k + 1
    BY <1>2
  <2> QED BY <1>3, <1>4, <2>1
<1>6. Placed(list) = [i \in DOMAIN more |-> <<more[i].player, more[i].cell>>]
  BY <1>3, <1>5 DEF Placed
<1> QED BY <1>6 DEF more, list

(* An entry that names a free cell is a move, and kept as one.             *)
LEMMA ReadOne ==
  ASSUME NEW g, NEW config, NEW s \in Seq(MoveEntries), Understood(g, s, config),
         NEW m \in MoveEntries, NEW c, NEW p \in Colors, NEW f \in Int,
         m.at = c, m.who = p, Valid(g.board, c), Readable(s) \in Seq(MoveEntries),
         Readable(Append(s, m)) = Append(Readable(s), m)
  PROVE  Understood(MakeMove(g, c, p, 0, f), Append(s, m), config)
<1> DEFINE n == MakeMove(g, c, p, 0, f)
<1>1. c \in Free(g.board) /\ c \in Squares
  BY DEF Valid, Free
<1>2. Told(g) /\ Echoes(g) /\ g \in Games /\ g.config = config /\ Placed(Readable(s)) = Played(g)
  BY DEF Understood, Told
<1>3. Told(n) /\ Echoes(n)
  BY <1>1, <1>2, MoveTold, MoveEchoes
<1>4. /\ n \in Games
      /\ n.board = [g.board EXCEPT ![c] = p]
      /\ n.state = Verdict(n.board, g.state)
      /\ n.config = g.config
      /\ \E w \in BOOLEAN : n.history = Append(g.history, Entry(c, p, f, w))
  <2>1. MovedOn(n, g, c, p, f)
    BY <1>1, <1>2, MoveMade
  <2> HIDE DEF n
  <2> QED BY <2>1 DEF MovedOn
<1> HIDE DEF n
<1>5. PICK w \in BOOLEAN : n.history = Append(g.history, Entry(c, p, f, w))
  BY <1>4
<1> DEFINE e == Entry(c, p, f, w)
<1>6. e \in Moves /\ e.player = p /\ e.cell = c
  BY <1>1 DEF Entry, Moves
<1>7. g.history \in Seq(Moves)
  BY <1>2 DEF Games, Moves
<1> HIDE DEF e
<1>8. n.history = Append(g.history, e)
  BY <1>5 DEF e
<1>9. Placed(Append(Readable(s), m)) = Played(n)
  <2>1. Placed(Readable(s)) =
          [i \in DOMAIN g.history |-> <<g.history[i].player, g.history[i].cell>>]
    BY <1>2 DEF Played
  <2> DEFINE list == Readable(s)
             h == g.history
             more == Append(h, e)
  <2> HIDE DEF list, h
  <2>2. Placed(list) = [i \in DOMAIN h |-> <<h[i].player, h[i].cell>>]
    BY <2>1 DEF list, h
  <2>3. list \in Seq(MoveEntries) /\ h \in Seq(Moves)
    BY <1>7 DEF list, h
  <2>4. Placed(Append(list, m)) = [i \in DOMAIN more |-> <<more[i].player, more[i].cell>>]
    BY <1>6, <2>2, <2>3, PlacedMore
  <2>5. more = n.history
    BY <1>8 DEF h
  <2> QED BY <2>4, <2>5 DEF Played, list
<1>10. n.history # <<>>
  <2>1. Len(n.history) = Len(g.history) + 1
    BY <1>6, <1>7, <1>8
  <2> QED BY <1>7, <2>1
<1> QED BY <1>2, <1>3, <1>4, <1>9, <1>10 DEF Understood, n

(* However long the list: it is refused, or read as the entries kept.      *)
LEMMA Reading ==
  ASSUME NEW config \in Config, NEW moves \in Seq(MoveEntries)
  PROVE  LET g == ReadMoves(NewGame(config), moves)
         IN  /\ g = None \/ Understood(g, moves, config)
             /\ Readable(moves) \in Seq(MoveEntries)
<1> DEFINE new == NewGame(config)
           Fine(s) == /\ ReadMoves(new, s) = None \/ Understood(ReadMoves(new, s), s, config)
                      /\ Readable(s) \in Seq(MoveEntries)
           T == {s \in Seq(MoveEntries) : Fine(s)}
<1> HIDE DEF new
<1>1. <<>> \in T
  <2>1. ReadMoves(new, <<>>) = new /\ Readable(<<>>) = <<>>
    BY ReadNothing, KeptNothing
  <2>2. Placed(<<>>) = Played(new)
    BY NewGameReads DEF Placed, Played, new
  <2>3. Understood(new, <<>>, config)
    BY <2>1, <2>2, NewGameReads DEF Understood, new
  <2>4. Fine(<<>>)
    <3>1. Understood(ReadMoves(new, <<>>), <<>>, config)
      BY <2>1, <2>3, Zenon
    <3>2. Readable(<<>>) \in Seq(MoveEntries)
      <4>1. <<>> \in Seq(MoveEntries)
        OBVIOUS
      <4> QED BY <2>1, <4>1, Zenon
    <3> QED BY <3>1, <3>2, Zenon
  <2> HIDE DEF Fine
  <2> QED BY <2>4
<1>2. ASSUME NEW s \in Seq(MoveEntries), NEW m \in MoveEntries, s \in T
      PROVE  Append(s, m) \in T
  <2> DEFINE g == ReadMoves(new, s)
             more == Append(s, m)
             list == Readable(s)
  <2>1. more \in Seq(MoveEntries)
    OBVIOUS
  <2>2. ReadMoves(new, more) = ReadMove(g, m) /\ Readable(more) = Keep(list, m)
    BY ReadOneMore, KeptOneMore
  <2>3. (g = None \/ Understood(g, s, config)) /\ list \in Seq(MoveEntries)
    BY <1>2
  <2> SUFFICES Fine(more)
    <3> HIDE DEF Fine
    <3> QED BY <2>1
  <2> HIDE DEF g, more, list
  <2>4. Keep(list, m) \in Seq(MoveEntries)
    BY <2>3 DEF Keep
  <2>5. CASE g = None
    <3>1. ReadMove(g, m) = None
      BY <2>5 DEF ReadMove
    <3> QED BY <2>1, <2>2, <2>4, <3>1
  <2>6. CASE g # None /\ (m.who = None \/ m.at = Unreadable)
    <3>1. ReadMove(g, m) = g /\ Keep(list, m) = list
      BY <2>6 DEF ReadMove, Keep
    <3>2. Understood(g, more, config)
      BY <2>2, <2>3, <2>6, <3>1 DEF Understood, list
    <3> QED BY <2>1, <2>2, <2>4, <3>1, <3>2
  <2>7. CASE g # None /\ m.who # None /\ m.at # Unreadable
    <3>1. Keep(list, m) = Append(list, m)
      BY <2>7 DEF Keep
    <3>2. CASE ~Valid(g.board, m.at)
      <4>1. ReadMove(g, m) = None
        BY <2>7, <3>2 DEF ReadMove
      <4> QED BY <2>1, <2>2, <2>4, <4>1
    <3>3. CASE Valid(g.board, m.at)
      <4>1. m.who \in Colors /\ m.evals \in Int
        BY <2>7 DEF MoveEntries
      <4>2. Understood(MakeMove(g, m.at, m.who, 0, m.evals), more, config)
        BY <2>2, <2>3, <2>7, <3>1, <3>3, <4>1, ReadOne DEF more, list
      <4>3. ReadMove(g, m) = MakeMove(g, m.at, m.who, 0, m.evals)
        BY <2>7, <3>3 DEF ReadMove
      <4> QED BY <2>1, <2>2, <2>4, <4>2, <4>3
    <3> QED BY <3>2, <3>3
  <2> QED BY <2>5, <2>6, <2>7
<1>3. Seq(MoveEntries) \subseteq T
  <2> HIDE DEF T
  <2> QED BY <1>1, <1>2, ListInduction
<1> QED BY <1>3 DEF new

-----------------------------------------------------------------------------
Bodied == PlayRequests \cup PlayAnswers
NextColor(g) == IF g.history = <<>> THEN "X" ELSE Other(Last(g.history).player)
Settled(g) == [g EXCEPT !.turn = Other(Last(g.history).player), !.state = Verdict(g.board, @)]

(* json_api_parse_game sets turn and verdict after the last entry.         *)
LEMMA SettledReads ==
  ASSUME NEW g, NEW moves, NEW config, Understood(g, moves, config), g.history # <<>>
  PROVE  /\ Understood(Settled(g), moves, config)
         /\ Settled(g).turn = NextColor(g) /\ Settled(g).turn \in Colors
         /\ Settled(g).history = g.history
<1> DEFINE t == Other(Last(g.history).player)
           v == Verdict(g.board, g.state)
           n == [g EXCEPT !.turn = t, !.state = v]
<1>1. g \in Games /\ v = g.state /\ t \in Colors
  BY DEF Understood, Told, Other, Colors
<1>2. Settled(g) = n
  BY DEF Settled
<1> HIDE DEF t, v
<1>3. /\ n \in Games /\ n.turn = t /\ n.board = g.board /\ n.state = g.state
      /\ n.history = g.history /\ n.config = g.config
  BY <1>1 DEF Games
<1> HIDE DEF n
<1>4. Told(n)
  BY <1>3 DEF Understood, Told
<1>5. Sent(n) = Sent(g) /\ Played(n) = Played(g)
  BY <1>3 DEF Sent, Played
<1>6. Echoes(n)
  BY <1>3, <1>5 DEF Understood, Echoes, Alike
<1> QED BY <1>1, <1>2, <1>3, <1>4, <1>5, <1>6 DEF Understood, NextColor, t

(* json_api_parse_game: a request is refused, or understood.               *)
LEMMA Parsing ==
  ASSUME NEW body \in Bodied
  PROVE  LET g == ParseGame(body)
         IN  /\ ConfigOf(body) \in Config
             /\ Readable(body.moves) \in Seq(MoveEntries)
             /\ g # None => /\ Understood(g, body.moves, ConfigOf(body))
                            /\ g.turn = NextColor(g) /\ g.turn \in Colors
                            /\ {body.X, body.O} \subseteq PlayerTypes
             /\ (/\ body.size = "allowed" /\ {body.X, body.O} \subseteq PlayerTypes
                 /\ ReadMoves(NewGame(ConfigOf(body)), body.moves) # None) => g # None
<1> DEFINE config == ConfigOf(body)
           raw == ReadMoves(NewGame(config), body.moves)
<1>1. config \in Config
  BY DEF ConfigOf, Config
<1>2. body.moves \in Seq(MoveEntries) /\ body # Garbage
  BY ApiAssumption DEF Bodied, PlayRequests, PlayAnswers
<1>3. ParseGame(body) =
        IF body.size # "allowed" \/ ~({body.X, body.O} \subseteq PlayerTypes) THEN None
        ELSE IF raw = None \/ raw.history = <<>> THEN raw ELSE Settled(raw)
  BY <1>2 DEF ParseGame, Settled
<1> HIDE DEF config
<1>4. /\ raw = None \/ Understood(raw, body.moves, config)
      /\ Readable(body.moves) \in Seq(MoveEntries)
  BY <1>1, <1>2, Reading
<1> HIDE DEF raw
<1>5. CASE body.size # "allowed" \/ ~({body.X, body.O} \subseteq PlayerTypes) \/ raw = None
  <2>1. ParseGame(body) = None
    BY <1>3, <1>5
  <2> QED BY <1>1, <1>4, <1>5, <2>1 DEF config, raw
<1>6. CASE /\ body.size = "allowed" /\ {body.X, body.O} \subseteq PlayerTypes
           /\ raw # None /\ raw.history = <<>>
  <2>1. ParseGame(body) = raw
    BY <1>3, <1>6
  <2>2. raw.turn = "X" /\ NextColor(raw) = "X" /\ "X" \in Colors
    BY <1>4, <1>6 DEF Understood, NextColor, Colors
  <2> QED BY <1>1, <1>4, <1>6, <2>1, <2>2 DEF config
<1>7. CASE /\ body.size = "allowed" /\ {body.X, body.O} \subseteq PlayerTypes
           /\ raw # None /\ raw.history # <<>>
  <2>1. ParseGame(body) = Settled(raw)
    BY <1>3, <1>7
  <2>2. /\ Understood(Settled(raw), body.moves, config)
        /\ Settled(raw).turn = NextColor(Settled(raw)) /\ Settled(raw).turn \in Colors
    BY <1>4, <1>7, SettledReads DEF NextColor
  <2>3. Settled(raw) # None
    BY <2>2, ApiAssumption DEF Understood, Told
  <2> QED BY <1>1, <1>4, <1>7, <2>1, <2>2, <2>3 DEF config
<1> QED BY <1>5, <1>6, <1>7

(* json_api_serialize_game_ex in the words used here.                      *)
LEMMA SerializeIs ==
  ASSUME NEW g
  PROVE  Serialize(g) =
           [size |-> "allowed", X |-> IF "X" \in g.config.human THEN "human" ELSE "ai",
            O |-> IF "O" \in g.config.human THEN "human" ELSE "ai",
            winner |-> IF g.state = "running" THEN "none" ELSE g.state, moves |-> Sent(g)]
BY DEF Serialize, Sent, Written

(* What the daemon sends reads as the game it was written from.            *)
LEMMA RoundTrip ==
  ASSUME NEW g, Told(g), Echoes(g), g.config.undo = TRUE, g.config.limit = 5
  PROVE  LET s == Serialize(g)
         IN  /\ s \in PlayAnswers
             /\ ParseGame(s) # None /\ Serialize(ParseGame(s)) = s
             /\ s.moves = Sent(g)
             /\ s.winner = IF g.state = "running" THEN "none" ELSE g.state
             /\ \A p \in Colors : s[p] = IF p \in g.config.human THEN "human" ELSE "ai"
<1> DEFINE s == Serialize(g)
           a == ReadMoves(NewGame(g.config), Sent(g))
<1>1. /\ s.size = "allowed" /\ s.moves = Sent(g)
      /\ s.X = IF "X" \in g.config.human THEN "human" ELSE "ai"
      /\ s.O = IF "O" \in g.config.human THEN "human" ELSE "ai"
      /\ s.winner = IF g.state = "running" THEN "none" ELSE g.state
      /\ s["X"] = s.X /\ s["O"] = s.O
  BY SerializeIs
<1>2. g \in Games /\ g.config \in Config /\ g.state \in States /\ Sent(g) \in Seq(MoveEntries)
  BY SentIsList DEF Told, Games
<1>3. s \in PlayAnswers
  <2> DEFINE x == IF "X" \in g.config.human THEN "human" ELSE "ai"
             o == IF "O" \in g.config.human THEN "human" ELSE "ai"
             w == IF g.state = "running" THEN "none" ELSE g.state
  <2>1. x \in PlayerTypes /\ o \in PlayerTypes /\ w \in {"none", "X", "O", "draw"}
    BY <1>2 DEF States, PlayerTypes
  <2>2. s = [size |-> "allowed", X |-> x, O |-> o, winner |-> w, moves |-> Sent(g)]
    BY SerializeIs
  <2> HIDE DEF s, x, o, w
  <2> QED BY <1>2, <2>1, <2>2 DEF PlayAnswers
<1>4. {s.X, s.O} \subseteq PlayerTypes
  BY <1>1 DEF PlayerTypes
<1> HIDE DEF s
<1>5. ConfigOf(s) = g.config
  <2>1. {p \in Colors : s[p] = "human"} = g.config.human
    BY <1>1, <1>2 DEF Config, Colors
  <2> QED BY <1>2, <2>1 DEF ConfigOf, Config
<1>6. /\ a \in Games /\ a.board = g.board /\ a.state = g.state
      /\ a.config = g.config /\ Sent(a) = Sent(g)
  BY DEF Echoes, Alike
<1>7. a # None
  BY <1>6, ApiAssumption
<1> HIDE DEF a
<1>8. ParseGame(s) = IF a.history = <<>> THEN a ELSE Settled(a)
  <2>1. s # Garbage
    BY <1>3, ApiAssumption
  <2>2. ReadMoves(NewGame(ConfigOf(s)), s.moves) = a
    BY <1>1, <1>5 DEF a
  <2> QED BY <1>1, <1>4, <1>7, <2>1, <2>2 DEF ParseGame, Settled
<1> DEFINE b == ParseGame(s)
<1>9. b # None /\ b.state = g.state /\ b.config = g.config /\ Sent(b) = Sent(g)
  <2>1. CASE a.history = <<>>
    BY <1>6, <1>7, <1>8, <2>1
  <2>2. CASE a.history # <<>>
    <3>1. b = Settled(a)
      BY <1>8, <2>2
    <3> DEFINE t == Other(Last(a.history).player)
               v == Verdict(a.board, a.state)
               n == [a EXCEPT !.turn = t, !.state = v]
    <3>2. Settled(a) = n /\ t \in Colors /\ v = g.state /\ v \in States
      BY <1>2, <1>6 DEF Settled, Told, Other, Colors
    <3> HIDE DEF t, v
    <3>3. n \in Games /\ n.state = v /\ n.config = a.config /\ n.history = a.history
      BY <1>6, <3>2 DEF Games
    <3> HIDE DEF n
    <3>4. Sent(n) = Sent(a) /\ n # None
      BY <3>3, ApiAssumption DEF Sent
    <3> QED BY <1>6, <3>1, <3>2, <3>3, <3>4
  <2> QED BY <2>1, <2>2
<1> HIDE DEF b
<1>10. Serialize(b) = Serialize(g)
  BY <1>9, SerializeIs
<1> QED BY <1>1, <1>3, <1>9, <1>10 DEF s, b, Colors

-----------------------------------------------------------------------------
(* What an answer says about its own moves.                                *)
VerdictStated(s) ==
  /\ s.winner \in Colors => WonBy(s.moves, s.winner)
  /\ s.winner = "none" =>
       /\ ~WonBy(s.moves, "X") /\ ~WonBy(s.moves, "O")
       /\ Cardinality(StonesIn(s.moves, "X") \cup StonesIn(s.moves, "O")) < Cardinality(Squares)

(* The stones of the list that is sent are those of the history.           *)
LEMMA SentStones ==
  ASSUME NEW g \in Games, NEW p
  PROVE  /\ Len(Sent(g)) = Len(g.history)
         /\ \A n \in 0 .. Len(g.history) :
              StonesIn(SubSeq(Sent(g), 1, n), p) = Upto(g.history, n, p)
         /\ StonesIn(Sent(g), p) = Upto(g.history, Len(g.history), p)
<1> DEFINE h == g.history
           k == Len(h)
           s == Sent(g)
<1>1. h \in Seq(Moves) /\ s \in Seq(MoveEntries)
  BY SentIsList DEF Games, Moves
<1>2. k \in Nat /\ DOMAIN h = 1 .. k
  BY <1>1
<1>3. DOMAIN s = 1 .. k /\ \A i \in 1 .. k : s[i].who = h[i].player /\ s[i].at = h[i].cell
  BY <1>2 DEF Sent, Written
<1> HIDE DEF s, h, k
<1>4. Len(s) = k
  BY <1>1, <1>2, <1>3
<1>5. ASSUME NEW n \in 0 .. k PROVE StonesIn(SubSeq(s, 1, n), p) = Upto(h, n, p)
  <2> DEFINE front == SubSeq(s, 1, n)
  <2>1. DOMAIN front = 1 .. n /\ \A i \in 1 .. n : front[i] = s[i] /\ i \in 1 .. k
    BY <1>1, <1>2, <1>4
  <2> HIDE DEF front
  <2>2. StonesIn(front, p) = Upto(h, n, p)
    BY <1>3, <2>1 DEF StonesIn, Upto
  <2> QED BY <2>2 DEF front
<1>6. StonesIn(s, p) = Upto(h, k, p)
  BY <1>3 DEF StonesIn, Upto
<1> QED BY <1>4, <1>5, <1>6 DEF s, h, k

(* The winner an answer names has a line in its moves; without one there   *)
(* is none, and room is left.                                              *)
LEMMA TheVerdictIsStated ==
  ASSUME NEW g, Told(g), NEW s, s.moves = Sent(g),
         s.winner = IF g.state = "running" THEN "none" ELSE g.state
  PROVE  VerdictStated(s)
<1> DEFINE k == Len(g.history)
<1>1. g \in Games /\ g.state \in States /\ k \in Nat
  <2>1. g \in Games
    BY DEF Told
  <2>2. g.history \in Seq(Moves) /\ g.state \in States
    BY <2>1 DEF Games, Moves
  <2> QED BY <2>1, <2>2
<1>2. \A p : /\ Len(s.moves) = k
             /\ \A n \in 0 .. k : StonesIn(SubSeq(s.moves, 1, n), p) = Upto(g.history, n, p)
             /\ StonesIn(s.moves, p) = Upto(g.history, k, p)
  BY <1>1, SentStones
<1>3. \A p : WonBy(s.moves, p) <=> \E n \in 0 .. k : Five(Upto(g.history, n, p))
  BY <1>2 DEF WonBy
<1>4. s.winner \in Colors => WonBy(s.moves, s.winner)
  <2>1. s.winner \in Colors => g.state = s.winner
    BY DEF Colors
  <2> QED BY <1>3, <2>1 DEF Told
<1>5. ASSUME s.winner = "none"
      PROVE  /\ ~WonBy(s.moves, "X") /\ ~WonBy(s.moves, "O")
             /\ Cardinality(StonesIn(s.moves, "X") \cup StonesIn(s.moves, "O"))
                  < Cardinality(Squares)
  <2>1. g.state = "running"
    BY <1>1, <1>5 DEF States
  <2>2. \A n \in 0 .. k, p \in Colors : ~Five(Upto(g.history, n, p))
    BY <2>1 DEF Told
  <2>3. ~WonBy(s.moves, "X") /\ ~WonBy(s.moves, "O")
    BY <1>3, <2>2 DEF Colors
  <2> DEFINE T == StonesIn(s.moves, "X") \cup StonesIn(s.moves, "O")
  <2>4. T = StonesOf(g.board, "X") \cup StonesOf(g.board, "O")
    BY <1>2 DEF Told, Colors
  <2>5. PICK c \in Squares : g.board[c] = Empty
    BY <2>1 DEF Told, Free
  <2>6. T \subseteq Squares /\ T # Squares
    BY <2>4, <2>5 DEF StonesOf, Empty
  <2> HIDE DEF T
  <2>7. Cardinality(T) <= Cardinality(Squares) /\ Cardinality(T) # Cardinality(Squares)
    BY <2>6, GameAssumption, FS_Subset
  <2>8. Cardinality(T) \in Nat /\ Cardinality(Squares) \in Nat
    BY <2>6, GameAssumption, FS_Subset, FS_CardinalityType
  <2>9. Cardinality(T) < Cardinality(Squares)
    BY <2>7, <2>8
  <2> QED BY <2>3, <2>9 DEF T
<1> QED BY <1>4, <1>5 DEF VerdictStated

(* What is sent names colours and cells as the history does.               *)
LEMMA PlacedIsPlayed ==
  ASSUME NEW g \in Games
  PROVE  Placed(Sent(g)) = Played(g)
<1>1. DOMAIN Sent(g) = DOMAIN g.history
  BY DEF Sent
<1>2. \A i \in DOMAIN g.history :
        Sent(g)[i].who = g.history[i].player /\ Sent(g)[i].at = g.history[i].cell
  BY DEF Sent, Written
<1> QED BY <1>1, <1>2 DEF Placed, Played

(* The moves that were kept and the history tell of the same entries.      *)
LEMMA AskedIsHistory ==
  ASSUME NEW g \in Games, NEW asked \in Seq(MoveEntries), Placed(asked) = Played(g)
  PROVE  /\ Len(asked) = Len(g.history) /\ DOMAIN asked = DOMAIN g.history
         /\ \A i \in DOMAIN asked : /\ asked[i].who = g.history[i].player
                                    /\ asked[i].at = g.history[i].cell
         /\ ToMove(asked) = NextColor(g)
<1> DEFINE h == g.history
           k == Len(h)
<1>1. h \in Seq(Moves)
  BY DEF Games, Moves
<1>2. DOMAIN asked = DOMAIN h
  <2>1. DOMAIN Placed(asked) = DOMAIN asked /\ DOMAIN Played(g) = DOMAIN h
    BY DEF Placed, Played
  <2> QED BY <2>1
<1>3. \A i \in DOMAIN asked : asked[i].who = h[i].player /\ asked[i].at = h[i].cell
  <2> SUFFICES ASSUME NEW i \in DOMAIN asked
               PROVE  asked[i].who = h[i].player /\ asked[i].at = h[i].cell
    OBVIOUS
  <2>1. Placed(asked)[i] = <<asked[i].who, asked[i].at>>
    BY DEF Placed
  <2>2. Played(g)[i] = <<h[i].player, h[i].cell>>
    BY <1>2 DEF Played
  <2> QED BY <2>1, <2>2
<1> HIDE DEF h
<1>4. Len(asked) = k /\ k \in Nat /\ DOMAIN h = 1 .. k
  BY <1>1, <1>2
<1>5. ToMove(asked) = IF h = <<>> THEN "X" ELSE Other(Last(h).player)
  <2>1. CASE k = 0
    <3>1. asked = <<>> /\ h = <<>>
      BY <1>1, <1>4, <2>1
    <3> QED BY <3>1 DEF ToMove
  <2>2. CASE k # 0
    <3>1. asked # <<>> /\ h # <<>> /\ k \in DOMAIN asked
      BY <1>1, <1>2, <1>4, <2>2
    <3> QED BY <1>3, <1>4, <3>1 DEF ToMove, Last
  <2> QED BY <2>1, <2>2
<1> QED BY <1>2, <1>3, <1>4, <1>5 DEF h, NextColor

-----------------------------------------------------------------------------
(* The three ways to answer a request that is understood: as it came ...   *)
LEMMA AnswerFinished ==
  ASSUME NEW body \in Bodied, ParseGame(body) # None, HasWinner(ParseGame(body))
  PROVE  LET s == Serialize(ParseGame(body))
         IN  /\ s.winner # "none" /\ Placed(s.moves) = Placed(Readable(body.moves))
             /\ VerdictStated(s)
<1> DEFINE g == ParseGame(body)
           s == Serialize(g)
<1>1. Understood(g, body.moves, ConfigOf(body))
  BY Parsing
<1> HIDE DEF g
<1>2. Told(g) /\ Echoes(g) /\ g.config.undo = TRUE /\ g.config.limit = 5 /\ g \in Games
  BY <1>1 DEF Understood, Told, ConfigOf
<1>3. s.moves = Sent(g) /\ s.winner = IF g.state = "running" THEN "none" ELSE g.state
  BY <1>2, RoundTrip
<1> HIDE DEF s
<1>4. s.winner # "none"
  BY <1>3 DEF HasWinner, g
<1>5. Placed(s.moves) = Placed(Readable(body.moves))
  BY <1>1, <1>2, <1>3, PlacedIsPlayed DEF Understood
<1>6. VerdictStated(s)
  BY <1>2, <1>3, TheVerdictIsStated
<1> QED BY <1>4, <1>5, <1>6 DEF s, g

(* ... with one stone more, for the engine whose turn it is ...            *)
LEMMA AnswerMoved ==
  ASSUME NEW body \in Bodied, NEW g, g = ParseGame(body), g # None,
         NEW c \in Free(g.board), NEW e \in Int, g.turn \notin g.config.human
  PROVE  LET s == Serialize(MakeMove(g, c, g.turn, 0, e))
             asked == Readable(body.moves)
         IN  /\ Placed(s.moves) = Append(Placed(asked), <<ToMove(asked), Last(s.moves).at>>)
             /\ body[ToMove(asked)] = "ai"
             /\ \A i \in DOMAIN asked : asked[i].at # Last(s.moves).at
             /\ VerdictStated(s)
<1> DEFINE p == g.turn
           n == MakeMove(g, c, p, 0, e)
           s == Serialize(n)
           asked == Readable(body.moves)
<1>1. /\ Understood(g, body.moves, ConfigOf(body)) /\ p = NextColor(g) /\ p \in Colors
      /\ asked \in Seq(MoveEntries) /\ {body.X, body.O} \subseteq PlayerTypes
  BY Parsing
<1> HIDE DEF p, asked
<1>2. /\ Told(g) /\ Echoes(g) /\ g.config.undo = TRUE /\ g.config.limit = 5 /\ g \in Games
      /\ g.config.human = {q \in Colors : body[q] = "human"}
      /\ Placed(asked) = Played(g)
  BY <1>1 DEF Understood, Told, ConfigOf, asked
<1>3. Told(n) /\ Echoes(n)
  BY <1>1, <1>2, MoveTold, MoveEchoes
<1>4. PICK w \in BOOLEAN :
        /\ n \in Games
        /\ n.board = [g.board EXCEPT ![c] = p]
        /\ n.state = Verdict(n.board, g.state)
        /\ n.config = g.config
        /\ n.history = Append(g.history, Entry(c, p, e, w))
  <2>1. g \in Games /\ p \in Colors
    BY <1>1, <1>2
  <2>2. /\ n \in Games
        /\ n.board = [g.board EXCEPT ![c] = p]
        /\ n.state = Verdict(n.board, g.state)
        /\ n.config = g.config
        /\ \E w \in BOOLEAN : n.history = Append(g.history, Entry(c, p, e, w))
    <3>1. MovedOn(n, g, c, p, e)
      BY <2>1, MoveMade
    <3> HIDE DEF n
    <3> QED BY <3>1 DEF MovedOn
  <2> HIDE DEF n
  <2> QED BY <2>2
<1> HIDE DEF n
<1> DEFINE m == Entry(c, p, e, w)
<1>5. m \in Moves /\ m.cell = c /\ m.player = p /\ c \in Squares
  BY <1>1 DEF Entry, Moves, Free
<1>6. s.moves = Sent(n) /\ s.winner = IF n.state = "running" THEN "none" ELSE n.state
  <2>1. n.config.undo = TRUE /\ n.config.limit = 5
    BY <1>2, <1>4
  <2> QED BY <1>3, <2>1, RoundTrip
<1> HIDE DEF s
<1>7. Sent(n) = Append(Sent(g), Written(g.config, m)) /\ Sent(g) \in Seq(MoveEntries)
  BY <1>2, <1>4, <1>5, SentMore, SentIsList
<1>8. /\ Written(g.config, m) \in MoveEntries
      /\ Written(g.config, m).at = c /\ Written(g.config, m).who = p
  BY <1>5, WrittenIsEntry DEF Written
<1> HIDE DEF m
<1>9. Last(s.moves).at = c
  BY <1>6, <1>7, <1>8 DEF Last
<1>10. Placed(s.moves) = Append(Placed(asked), <<p, c>>)
  <2> DEFINE list == Sent(g)
             x == Written(g.config, m)
             k == Len(list)
             more == Append(list, x)
  <2>1. list \in Seq(MoveEntries) /\ x \in MoveEntries /\ x.at = c /\ x.who = p
    BY <1>7, <1>8
  <2>2. Placed(asked) = Placed(list)
    BY <1>2, PlacedIsPlayed
  <2> HIDE DEF list, x
  <2>3. /\ k \in Nat /\ DOMAIN list = 1 .. k /\ DOMAIN more = 1 .. k + 1 /\ more[k + 1] = x
        /\ \A i \in 1 .. k : more[i] = list[i]
    BY <2>1
  <2> HIDE DEF more, k
  <2> DEFINE pl == Placed(list)
             q == Append(pl, <<p, c>>)
  <2>4. pl = [i \in 1 .. k |-> <<list[i].who, list[i].at>>]
    BY <2>3 DEF Placed
  <2>5. /\ q = [i \in 1 .. k + 1 |-> q[i]]
        /\ \A i \in 1 .. k : q[i] = <<list[i].who, list[i].at>>
        /\ q[k + 1] = <<p, c>>
    <3> DEFINE S == {<<list[i].who, list[i].at>> : i \in 1 .. k} \cup {<<p, c>>}
    <3>1. pl \in [1 .. k -> S] /\ <<p, c>> \in S
      BY <2>4
    <3> HIDE DEF S, pl
    <3>2. pl \in Seq(S) /\ Len(pl) = k
      BY <2>3, <3>1
    <3>3. /\ DOMAIN q = 1 .. k + 1 /\ q \in Seq(S) /\ q[k + 1] = <<p, c>>
          /\ \A i \in 1 .. k : q[i] = pl[i]
      BY <2>3, <3>1, <3>2
    <3> HIDE DEF q
    <3>4. q = [i \in 1 .. k + 1 |-> q[i]]
      BY <3>3
    <3> QED BY <2>4, <3>3, <3>4
  <2> HIDE DEF pl, q
  <2>6. \A i \in 1 .. k + 1 : <<more[i].who, more[i].at>> = q[i]
    <3>1. \A i \in 1 .. k + 1 : i \in 1 .. k \/ i = k + 1
      BY <2>3
    <3> QED BY <2>1, <2>3, <2>5, <3>1
  <2>7. Placed(more) = q
    BY <2>3, <2>5, <2>6 DEF Placed
  <2>8. s.moves = more
    BY <1>6, <1>7 DEF more, list, x
  <2> QED BY <2>2, <2>7, <2>8 DEF q, pl
<1>11. /\ DOMAIN asked = DOMAIN g.history /\ ToMove(asked) = p
       /\ \A i \in DOMAIN asked : /\ asked[i].who = g.history[i].player
                                  /\ asked[i].at = g.history[i].cell
  BY <1>1, <1>2, AskedIsHistory
<1>12. body[p] = "ai"
  <2>1. body["X"] \in PlayerTypes /\ body["O"] \in PlayerTypes
    BY <1>1
  <2> QED BY <1>1, <1>2, <2>1 DEF Colors, PlayerTypes, p
<1>13. ASSUME NEW i \in DOMAIN asked PROVE asked[i].at # c
  <2> DEFINE h == g.history
  <2>1. h \in Seq(Moves)
    BY <1>2 DEF Games, Moves
  <2>2. i \in DOMAIN h /\ asked[i].at = h[i].cell
    BY <1>11
  <2> HIDE DEF h
  <2>3. h[i].player \in Colors /\ i \in 1 .. Len(h)
    <3>1. h[i] \in Moves /\ i \in 1 .. Len(h)
      BY <2>1, <2>2
    <3> QED BY <3>1 DEF Moves
  <2>4. h[i].cell \in Upto(h, Len(h), h[i].player)
    BY <2>3 DEF Upto
  <2>5. h[i].cell \in StonesOf(g.board, h[i].player)
    BY <1>2, <2>3, <2>4 DEF Told, h
  <2> QED BY <2>2, <2>3, <2>5 DEF StonesOf, Free, Colors, Empty
<1>14. VerdictStated(s)
  BY <1>3, <1>6, TheVerdictIsStated
<1> QED BY <1>9, <1>10, <1>11, <1>12, <1>13, <1>14 DEF s, n, p, asked

(* ... or not at all, when the opening table takes a lone O on the centre  *)
(* for a free cell.                                                        *)
LEMMA AnswerFailed ==
  ASSUME NEW body \in Bodied, NEW g, g = ParseGame(body), g # None, ~HasWinner(g),
         None \in Replies(g)
  PROVE  Placed(Readable(body.moves)) = <<<<"O", Centre>>>>
<1> DEFINE asked == Readable(body.moves)
           h == g.history
           k == Len(h)
<1>1. Understood(g, body.moves, ConfigOf(body)) /\ asked \in Seq(MoveEntries) /\ g.turn \in Colors
  BY Parsing
<1>2. /\ Told(g) /\ Echoes(g) /\ g.config.undo = TRUE /\ g.config.limit = 5 /\ g \in Games
      /\ Placed(asked) = Played(g)
  BY <1>1 DEF Understood, Told, ConfigOf
<1>3. h \in Seq(Moves) /\ g.board \in Boards /\ g.state \in States
  BY <1>2 DEF Games, Moves, Boards
<1>4. g.state = "running" /\ Free(g.board) # {}
  <2>1. g.state = "running"
    BY <1>3 DEF HasWinner, States
  <2> QED BY <1>2, <2>1 DEF Told
<1>5. PICK c \in BestCells(g) : None \in Reply(g, c)
  BY DEF Replies
<1>6. c = None \/ ~Valid(g.board, c)
  <2> SUFFICES ASSUME c # None, Valid(g.board, c) PROVE FALSE
    OBVIOUS
  <2>1. PICK n \in Evals : None = Serialize(MakeMove(g, c, g.turn, 0, n))
    BY <1>5 DEF Reply
  <2> DEFINE p == g.turn
             b == MakeMove(g, c, p, 0, n)
  <2>2. n \in Int /\ c \in Free(g.board) /\ p \in Colors
    BY <1>1, ApiAssumption DEF Valid
  <2> HIDE DEF p
  <2>3. Told(b) /\ Echoes(b)
    BY <1>2, <2>2, MoveTold, MoveEchoes
  <2>4. /\ b \in Games
        /\ b.board = [g.board EXCEPT ![c] = p]
        /\ b.state = Verdict(b.board, g.state)
        /\ b.config = g.config
        /\ \E w \in BOOLEAN : b.history = Append(g.history, Entry(c, p, n, w))
    <3>1. MovedOn(b, g, c, p, n)
      BY <1>2, <2>2, MoveMade
    <3> HIDE DEF b
    <3> QED BY <3>1 DEF MovedOn
  <2> HIDE DEF b
  <2>5. b.config.undo = TRUE /\ b.config.limit = 5
    BY <1>2, <2>4
  <2>6. Serialize(b) \in PlayAnswers
    BY <2>3, <2>5, RoundTrip
  <2>7. None = Serialize(b)
    BY <2>1 DEF b, p
  <2> QED BY <2>6, <2>7, ApiAssumption
<1>7. \A q \in Colors : StonesOf(g.board, q) = Upto(h, k, q)
  BY <1>2 DEF Told
<1>8. k \in Nat /\ DOMAIN h = 1 .. k /\ \A i \in 1 .. k : h[i] \in Moves
  BY <1>3
<1> HIDE DEF h, k
<1>9. \A i \in 1 .. k : /\ h[i].cell \in Taken(g.board) /\ h[i].cell \in Squares
                        /\ h[i].player \in Colors /\ g.board[h[i].cell] = h[i].player
  <2> SUFFICES ASSUME NEW i \in 1 .. k
               PROVE  /\ h[i].cell \in Taken(g.board) /\ h[i].cell \in Squares
                      /\ h[i].player \in Colors /\ g.board[h[i].cell] = h[i].player
    OBVIOUS
  <2>1. h[i].player \in Colors
    BY <1>8 DEF Moves
  <2>2. h[i].cell \in StonesOf(g.board, h[i].player)
    BY <1>7, <2>1 DEF Upto
  <2> QED BY <2>1, <2>2 DEF StonesOf, Taken, Colors, Empty
<1>10. \A d \in Taken(g.board) : \E i \in 1 .. k : h[i].cell = d
  <2> SUFFICES ASSUME NEW d \in Taken(g.board) PROVE \E i \in 1 .. k : h[i].cell = d
    OBVIOUS
  <2>1. d \in Squares /\ g.board[d] \in Colors
    BY <1>3 DEF Taken, Boards
  <2>2. d \in Upto(h, k, g.board[d])
    BY <1>7, <2>1 DEF StonesOf
  <2> QED BY <2>2 DEF Upto
<1>11. CASE k = 0
  <2>1. BestCells(g) = {Centre}
    <3>1. h = <<>>
      BY <1>3, <1>8, <1>11 DEF h, k
    <3> QED BY <3>1 DEF BestCells, h
  <2>2. Taken(g.board) = {}
    BY <1>8, <1>10, <1>11
  <2>3. Valid(g.board, Centre) /\ Centre # None
    BY <2>2, GameAssumption DEF Taken, Valid, Free
  <2> QED BY <1>5, <1>6, <2>1, <2>3
<1>12. CASE k = 1
  <2>1. Taken(g.board) = {h[1].cell} /\ 1 \in 1 .. k
    <3>1. \A i : i \in 1 .. k <=> i = 1
      BY <1>12
    <3> QED BY <1>9, <1>10, <3>1
  <2>2. c = FirstReply(g.board)
    <3>1. BestCells(g) = {FirstReply(g.board)}
      BY <1>8, <1>12 DEF BestCells, h, k
    <3> QED BY <1>5, <3>1
  <2>3. CASE h[1].player = "X"
    <3>1. StonesOf(g.board, "X") = {h[1].cell}
      BY <1>9, <2>1, <2>3 DEF StonesOf, Taken, Empty
    <3>2. FirstReply(g.board) = Book(h[1].cell)
      BY <3>1 DEF FirstReply
    <3>3. Book(h[1].cell) \in Squares \ {h[1].cell}
      BY <1>9, <2>1, GameAssumption
    <3>4. Valid(g.board, c) /\ c # None
      BY <2>1, <2>2, <3>2, <3>3, GameAssumption DEF Taken, Valid, Free
    <3> QED BY <1>6, <3>4
  <2>4. CASE h[1].player = "O"
    <3>1. StonesOf(g.board, "X") = {}
      BY <1>9, <2>1, <2>4 DEF StonesOf, Taken, Empty
    <3>2. c = Centre
      BY <2>2, <3>1 DEF FirstReply
    <3>3. Centre \in Taken(g.board)
      BY <1>6, <3>2, GameAssumption DEF Taken, Valid, Free
    <3>4. h[1].cell = Centre
      BY <2>1, <3>3
    <3>5. Played(g) = [i \in 1 .. 1 |-> <<"O", Centre>>]
      <4>1. \A i \in 1 .. k : i = 1
        BY <1>12
      <4> QED BY <1>8, <1>12, <2>4, <3>4, <4>1 DEF Played, h
    <3>6. [i \in 1 .. 1 |-> <<"O", Centre>>] = <<<<"O", Centre>>>>
      OBVIOUS
    <3> QED BY <1>2, <3>5, <3>6
  <2> QED BY <1>9, <2>1, <2>3, <2>4 DEF Colors
<1>13. CASE k > 1
  <2>1. BestCells(g) = BestMoves(g.board)
    <3>1. h # <<>> /\ k # 1
      BY <1>8, <1>13 DEF k
    <3> QED BY <3>1 DEF BestCells, h, k
  <2>2. h[1].cell # h[2].cell /\ 1 \in 1 .. k /\ 2 \in 1 .. k
    BY <1>2, <1>8, <1>13 DEF Told, h
  <2>3. Cardinality(Taken(g.board)) # 1
    <3> SUFFICES ASSUME Cardinality(Taken(g.board)) = 1 PROVE FALSE
      OBVIOUS
    <3>1. Taken(g.board) \subseteq Squares /\ IsFiniteSet(Taken(g.board))
      BY GameAssumption, FS_Subset DEF Taken
    <3>2. PICK d : Taken(g.board) = {d}
      BY <3>1, FS_Singleton
    <3> QED BY <1>9, <2>2, <3>2
  <2>4. Taken(g.board) # {}
    BY <1>9, <2>2
  <2>5. BestMoves(g.board) = Free(g.board)
    BY <1>4, <2>3, <2>4 DEF BestMoves
  <2>6. c \in Free(g.board) /\ c # None
    BY <1>5, <2>1, <2>5, GameAssumption DEF Free
  <2> QED BY <1>6, <2>6 DEF Valid
<1> QED BY <1>8, <1>11, <1>12, <1>13

-----------------------------------------------------------------------------
(* The game a client holds, and the one that is searched.                  *)
SheetReads(s) ==
  /\ s \in {Garbage} \cup Bodied
  /\ (s # Garbage /\ "winner" \in DOMAIN s) => ParseGame(s) # None /\ Serialize(ParseGame(s)) = s
GameInv ==
  /\ SheetReads(sheet)
  /\ "play" \in inbox => client = "waiting"
  /\ main = "searching" => /\ client = "waiting" /\ "play" \in inbox
                           /\ Assess(sheet) = "search" /\ job = ParseGame(sheet)

(* What Assess says of a request.                                          *)
LEMMA Assessing ==
  ASSUME NEW s \in {Garbage} \cup Bodied
  PROVE  /\ Assess(s) = "search" => /\ s \in Bodied /\ ParseGame(s) # None
                                    /\ ~HasWinner(ParseGame(s))
                                    /\ ParseGame(s).turn \notin ParseGame(s).config.human
         /\ Assess(s) = "finished" => /\ s \in Bodied /\ ParseGame(s) # None
                                      /\ HasWinner(ParseGame(s))
<1>1. ParseGame(Garbage) = None
  BY DEF ParseGame
<1> QED BY <1>1 DEF Assess

(* A game that was understood is sent, with or without a move more, as one *)
(* that reads back.                                                        *)
LEMMA SentReads ==
  ASSUME NEW body \in Bodied, NEW g, g = ParseGame(body), g # None
  PROVE  /\ SheetReads(Serialize(g))
         /\ \A c \in Free(g.board), e \in Int : SheetReads(Serialize(MakeMove(g, c, g.turn, 0, e)))
<1>1. Understood(g, body.moves, ConfigOf(body)) /\ g.turn \in Colors
  BY Parsing
<1>2. Told(g) /\ Echoes(g) /\ g.config.undo = TRUE /\ g.config.limit = 5 /\ g \in Games
  BY <1>1 DEF Understood, Told, ConfigOf
<1>3. SheetReads(Serialize(g))
  BY <1>2, RoundTrip DEF SheetReads, Bodied
<1>4. ASSUME NEW c \in Free(g.board), NEW e \in Int
      PROVE  SheetReads(Serialize(MakeMove(g, c, g.turn, 0, e)))
  <2> DEFINE p == g.turn
             b == MakeMove(g, c, p, 0, e)
  <2>1. p \in Colors
    BY <1>1
  <2> HIDE DEF p
  <2>2. Told(b) /\ Echoes(b)
    BY <1>2, <2>1, MoveTold, MoveEchoes
  <2>3. /\ b \in Games
        /\ b.board = [g.board EXCEPT ![c] = p]
        /\ b.state = Verdict(b.board, g.state)
        /\ b.config = g.config
        /\ \E w \in BOOLEAN : b.history = Append(g.history, Entry(c, p, e, w))
    <3>1. MovedOn(b, g, c, p, e)
      BY <1>2, <2>1, MoveMade
    <3> HIDE DEF b
    <3> QED BY <3>1 DEF MovedOn
  <2> HIDE DEF b
  <2>4. b.config.undo = TRUE /\ b.config.limit = 5
    BY <1>2, <2>3
  <2>5. SheetReads(Serialize(b))
    BY <2>2, <2>4, RoundTrip DEF SheetReads, Bodied
  <2> QED BY <2>5 DEF b, p
<1> QED BY <1>3, <1>4

(* A reply other than a server error has the engine's stone on a free cell.*)
LEMMA ReplyMoves ==
  ASSUME NEW g, NEW reply \in Replies(g), reply # None
  PROVE  \E c \in Free(g.board), e \in Int : reply = Serialize(MakeMove(g, c, g.turn, 0, e))
<1>1. PICK c \in BestCells(g) : reply \in Reply(g, c)
  BY DEF Replies
<1>2. Valid(g.board, c) /\ \E n \in Evals : reply = Serialize(MakeMove(g, c, g.turn, 0, n))
  BY <1>1 DEF Reply
<1> QED BY <1>2, ApiAssumption DEF Valid

(* The first request is read, nothing is searched.                         *)
LEMMA InitGame == Init => GameInv
<1> SUFFICES ASSUME Init PROVE GameInv
  OBVIOUS
<1>1. sheet \in {Garbage} \cup PlayRequests /\ inbox = {}
  BY DaemonAssumption DEF Init
<1>2. main # "searching"
  <2>1. PICK options \in OptionLists : main = EntryPoint(options)
    BY DEF Init
  <2> QED BY <2>1 DEF EntryPoint
<1>3. sheet \in PlayRequests => "winner" \notin DOMAIN sheet
  BY DEF PlayRequests
<1> QED BY <1>1, <1>2, <1>3 DEF GameInv, SheetReads, Bodied

(* Every step keeps the invariant of the game.                             *)
LEMMA NextGame == GameInv /\ [Next]_vars => GameInv'
<1> SUFFICES ASSUME GameInv, [Next]_vars PROVE GameInv'
  OBVIOUS
<1>1. CASE AnswerPlay
  <2>1. sheet' = sheet \/ (Assess(sheet) = "finished" /\ sheet' = Serialize(ParseGame(sheet)))
    BY <1>1 DEF AnswerPlay
  <2>2. SheetReads(sheet')
    BY <2>1, Assessing, SentReads DEF GameInv, SheetReads
  <2>3. "play" \notin inbox' /\ main' = "answered"
    BY <1>1 DEF AnswerPlay
  <2> QED BY <2>2, <2>3 DEF GameInv
<1>2. CASE FinishSearch
  <2>1. main = "searching" /\ job = ParseGame(sheet) /\ sheet \in Bodied /\ job # None
    BY <1>2, Assessing DEF FinishSearch, GameInv, SheetReads
  <2>2. PICK reply \in Replies(job) : sheet' = sheet \/ (reply # None /\ sheet' = reply)
    BY <1>2 DEF FinishSearch
  <2>3. SheetReads(sheet')
    <3>1. CASE sheet' = sheet
      BY <3>1 DEF GameInv
    <3>2. CASE reply # None /\ sheet' = reply
      <4>1. PICK c \in Free(job.board), e \in Int :
            reply = Serialize(MakeMove(job, c, job.turn, 0, e))
        BY <3>2, ReplyMoves
      <4> QED BY <2>1, <3>2, <4>1, SentReads
    <3> QED BY <2>2, <3>1, <3>2
  <2>4. "play" \notin inbox' /\ main' = "answered"
    BY <1>2 DEF FinishSearch
  <2> QED BY <2>3, <2>4 DEF GameInv
<1>3. ASSUME NEW c \in Squares, ClientMoves(c) PROVE GameInv'
  <2> DEFINE g == ParseGame(sheet)
  <2>1. /\ g # None /\ c \in Free(g.board) /\ UNCHANGED <<main, job, inbox, client>>
        /\ sheet' = Serialize(MakeMove(g, c, g.turn, 0, 0)) /\ client = "thinking"
    BY <1>3 DEF ClientMoves, Valid, process
  <2>2. sheet \in Bodied
    <3>1. ParseGame(Garbage) = None
      BY DEF ParseGame
    <3> QED BY <2>1, <3>1 DEF GameInv, SheetReads
  <2>3. SheetReads(sheet')
    BY <2>1, <2>2, SentReads, 0 \in Int
  <2> QED BY <2>1, <2>3 DEF GameInv
<1>4. CASE BeginSearch
  <2>1. /\ main' = "searching" /\ job' = ParseGame(sheet) /\ Assess(sheet) = "search"
        /\ "play" \in inbox /\ UNCHANGED <<inbox, client, sheet>>
    BY <1>4 DEF BeginSearch, outside
  <2> QED BY <2>1 DEF GameInv
<1>5. CASE ClientPosts
  <2>1. client = "thinking" /\ client' = "waiting" /\ UNCHANGED <<main, job, sheet>>
    BY <1>5 DEF ClientPosts, process
  <2> QED BY <2>1 DEF GameInv
<1>6. ASSUME NEW r \in Probes, AnswerProbe(r) \/ ProbeArrives(r) PROVE GameInv'
  <2>1. /\ "play" \in inbox' <=> "play" \in inbox
        /\ main' = main \/ main' = "answered"
        /\ UNCHANGED <<job, client, sheet>>
    BY <1>6, DaemonAssumption DEF AnswerProbe, ProbeArrives, process
  <2> QED BY <2>1 DEF GameInv
<1>7. CASE UNCHANGED outside /\ UNCHANGED job /\ (main' = "searching" => main = "searching")
  BY <1>7 DEF GameInv, outside
<1>8. CASE \/ StartAgent \/ Bind \/ TestRunning \/ PollTimesOut \/ ReleaseLock
           \/ StopAgent \/ CloseSocket \/ Join \/ TakeLock
  BY <1>7, <1>8 DEF StartAgent, Bind, TestRunning, PollTimesOut, ReleaseLock, StopAgent,
     CloseSocket, Join, TakeLock
<1>9. CASE AgentSteps \/ AgentTakesLock
  BY <1>7, <1>9 DEF AgentSteps, AgentTakesLock, AgentTest, AgentArms, AgentSelects, AgentAccepts,
     AgentReads, AgentAnswers, AgentReleasesLock
<1>10. ASSUME NEW t \in Threads, NEW s \in {"term", "hup"}, Signal(t, s) \/ HandleSignal(t)
       PROVE GameInv'
  BY <1>7, <1>10 DEF Signal, HandleSignal
<1>11. CASE UNCHANGED vars
  BY <1>7, <1>11 DEF vars, process
<1> QED
  <2>1. \A t \in Threads : HandleSignal(t) => GameInv'
    BY <1>10
  <2> QED BY <1>1, <1>2, <1>3, <1>4, <1>5, <1>6, <1>8, <1>9, <1>10, <1>11, <2>1 DEF Next, MainSteps

-----------------------------------------------------------------------------
(* The game of the client stays what the daemon understands, whatever it   *)
(* began with and whoever interrupts the daemon.                           *)
THEOREM GamesStayReadable == Spec => []GameInv
<1> QED BY InitGame, NextGame, PTL DEF Spec

(* json_api_serialize_game_ex against json_api_parse_game: an answer that  *)
(* is sent back reads as the game it was written from, on any board, for   *)
(* any rule of winning and a game of any length.                           *)
THEOREM AnswersAreAlwaysRequests == Spec => []AnswersAreRequests
<1>1. GameInv => AnswersAreRequests
  BY DEF GameInv, SheetReads, AnswersAreRequests
<1> QED BY <1>1, GamesStayReadable, PTL

(* handle_play: an answer is the game of the request with one stone more,  *)
(* a free cell, the colour on turn, an engine's; or the finished game; and *)
(* a server error has one cause only.                                      *)
OneMove ==
  client = "waiting" =>
    LET asked == Readable(sheet.moves)
        got == sheet'.moves
    IN  /\ client' = "thinking" =>
             /\ \/ sheet'.winner # "none" /\ Placed(got) = Placed(asked)
                \/ /\ Placed(got) = Append(Placed(asked), <<ToMove(asked), Last(got).at>>)
                   /\ sheet[ToMove(asked)] = "ai"
                   /\ \A i \in DOMAIN asked : asked[i].at # Last(got).at
             /\ sheet'.winner \in Colors => WonBy(got, sheet'.winner)
             /\ sheet'.winner = "none" =>
                  /\ ~WonBy(got, "X") /\ ~WonBy(got, "O")
                  /\ Cardinality(StonesIn(got, "X") \cup StonesIn(got, "O")) < Cardinality(Squares)
        /\ client' = "server error" => Placed(asked) = <<<<"O", Centre>>>>

(* Every step answers like that.                                           *)
LEMMA StepAnswers == GameInv /\ [Next]_vars => OneMove
<1> SUFFICES ASSUME GameInv, [Next]_vars, client = "waiting" PROVE OneMove
  BY DEF OneMove
<1>1. CASE AnswerPlay
  <2>1. CASE Assess(sheet) = "finished"
    <3>1. client' = "thinking" /\ sheet' = Serialize(ParseGame(sheet))
      BY <1>1, <2>1 DEF AnswerPlay
    <3>2. sheet \in Bodied /\ ParseGame(sheet) # None /\ HasWinner(ParseGame(sheet))
      BY <2>1, Assessing DEF GameInv, SheetReads
    <3>3. /\ sheet'.winner # "none" /\ Placed(sheet'.moves) = Placed(Readable(sheet.moves))
          /\ VerdictStated(sheet')
      BY <3>1, <3>2, AnswerFinished
    <3> QED BY <3>1, <3>3 DEF OneMove, VerdictStated
  <2>2. CASE Assess(sheet) # "finished"
    BY <1>1, <2>2 DEF AnswerPlay, OneMove
  <2> QED BY <2>1, <2>2
<1>2. CASE FinishSearch
  <2>1. /\ job = ParseGame(sheet) /\ sheet \in Bodied /\ job # None /\ ~HasWinner(job)
        /\ job.turn \notin job.config.human
    BY <1>2, Assessing DEF FinishSearch, GameInv, SheetReads
  <2>2. PICK reply \in Replies(job) :
          IF reply = None THEN client' = "server error" ELSE client' = "thinking" /\ sheet' = reply
    BY <1>2 DEF FinishSearch
  <2>3. CASE reply = None
    <3>1. Placed(Readable(sheet.moves)) = <<<<"O", Centre>>>>
      BY <2>1, <2>2, <2>3, AnswerFailed
    <3> QED BY <2>2, <2>3, <3>1 DEF OneMove
  <2>4. CASE reply # None
    <3>1. PICK c \in Free(job.board), e \in Int :
            reply = Serialize(MakeMove(job, c, job.turn, 0, e))
      BY <2>4, ReplyMoves
    <3> DEFINE asked == Readable(sheet.moves)
    <3>2. /\ Placed(sheet'.moves) = Append(Placed(asked), <<ToMove(asked), Last(sheet'.moves).at>>)
          /\ sheet[ToMove(asked)] = "ai"
          /\ \A i \in DOMAIN asked : asked[i].at # Last(sheet'.moves).at
          /\ VerdictStated(sheet')
      BY <2>1, <2>2, <2>4, <3>1, AnswerMoved
    <3> QED BY <2>2, <2>4, <3>2 DEF OneMove, VerdictStated
  <2> QED BY <2>3, <2>4
<1>3. CASE client' = client
  BY <1>3 DEF OneMove
<1>4. ASSUME NEW c \in Squares, ClientMoves(c) PROVE OneMove
  BY <1>4 DEF ClientMoves
<1>5. CASE ClientPosts
  BY <1>5 DEF ClientPosts
<1>6. CASE ~AnswerPlay /\ ~FinishSearch /\ ~ClientPosts /\ \A c \in Squares : ~ClientMoves(c)
  <2>1. client' = client
    BY <1>6 DEF Next, MainSteps, AgentSteps, vars, outside, process, StartAgent, Bind, TestRunning,
       PollTimesOut, ReleaseLock, StopAgent, CloseSocket, Join, TakeLock, AnswerProbe, BeginSearch,
       AgentTest, AgentArms, AgentSelects, AgentAccepts, AgentReads, AgentAnswers,
       AgentTakesLock, AgentReleasesLock, Signal, HandleSignal, ProbeArrives
  <2> QED BY <1>3, <2>1
<1> QED BY <1>1, <1>2, <1>4, <1>5, <1>6

(* Whatever is asked, in whatever order threads and signals step.          *)
THEOREM AnswersAlwaysOneMove == Spec => AnswersWithOneMove
<1>1. GameInv /\ [Next]_vars => [OneMove]_vars
  BY StepAnswers
<1>2. AnswersWithOneMove <=> [][OneMove]_vars
  BY DEF AnswersWithOneMove, OneMove
<1> QED BY <1>1, <1>2, GamesStayReadable, PTL DEF Spec
=============================================================================
