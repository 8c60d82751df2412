----------------------- MODULE MultiplayerPageProofs -----------------------
(***************************************************************************)
(* Theorems about the two loops of the multiplayer page, for any number of *)
(* fetches, versions, messages and failures. PollingClient: a reply that   *)
(* shows the end is one the server gave at the end, and a room that is     *)
(* over stays over. ChatSync: no page shows a message twice, and a message *)
(* that it does not show was passed by a later one or is still fetched.    *)
(***************************************************************************)
EXTENDS PollingClient, ChatSync, FiniteSetTheorems, SequenceTheorems, WellFoundedInduction, TLAPS

ViewsAreReal ==
  \A s \in Slots :
    calls[s].reply = "view" =>
      /\ calls[s].view \in Views
      /\ calls[s].view.state \in Over => room.state \in Over

IInv == TypeOK /\ ViewsAreReal /\ StopsOnlyForCause

LEMMA Constants ==
  /\ MaxVersion \in Nat /\ MaxFailures \in Nat /\ PollSlot \in Slots /\ PageOfHost \in BOOLEAN
BY PollingAssumption

LEMMA InitIInv == Init => IInv
<1> SUFFICES ASSUME Init PROVE IInv
  OBVIOUS
<1>1. room \in Views
  BY Constants DEF Init, Views
<1>2. TypeOK
  <2>1. calls \in [Slots -> Calls]
    BY DEF Init, Calls
  <2>2. versionRef \in -1 .. MaxVersion /\ failures \in 0 .. MaxFailures
    BY Constants DEF Init
  <2>3. {stopped, expired, joinAttempted, denied} \subseteq BOOLEAN
    BY DEF Init
  <2>4. shown \in Views \cup {NoView}
    BY DEF Init
  <2>5. loop \in {"due", "awaiting", "ended"} /\ age \in {"young", "old", "ancient"}
    BY DEF Init
  <2>6. QED BY <1>1, <2>1, <2>2, <2>3, <2>4, <2>5 DEF TypeOK
<1>3. ViewsAreReal /\ StopsOnlyForCause
  BY DEF Init, ViewsAreReal, StopsOnlyForCause, Free
<1>4. QED BY <1>2, <1>3 DEF IInv

-----------------------------------------------------------------------------
(* A change leaves a proper room, and is never made to one that is over.   *)
LEMMA ChangeFacts ==
  ASSUME TypeOK, NEW state \in {"waiting", "in_progress"} \cup Over, NEW mine \in BOOLEAN,
         NEW turn \in BOOLEAN, Change(state, mine, turn)
  PROVE  room' \in Views
BY Constants DEF TypeOK, Change, Views

(* Steps of the server: the room keeps its type and, once over, is over;   *)
(* at most the call s gets an answer, which shows the room as it is then.  *)
LEMMA ServerKeepsIInv ==
  ASSUME IInv, NEW s \in Slots, UNCHANGED <<page, age>>,
         room' \in Views, room.state \in Over => room'.state \in Over,
         failures' \in 0 .. MaxFailures,
         NEW reply \in {"none", "view", "no_change", "refused", "failed", "denied"},
         NEW view \in {room', NoView}, reply = "view" => view = room',
         \/ UNCHANGED calls
         \/ /\ calls[s] # Free
            /\ calls' = [calls EXCEPT ![s].reply = reply, ![s].view = view]
  PROVE  IInv'
<1>1. calls \in [Slots -> Calls]
  BY DEF IInv, TypeOK
<1>2. CASE UNCHANGED calls
  BY <1>2 DEF IInv, TypeOK, ViewsAreReal, StopsOnlyForCause, page
<1>3. CASE /\ calls[s] # Free
           /\ calls' = [calls EXCEPT ![s].reply = reply, ![s].view = view]
  <2> DEFINE c == [calls[s] EXCEPT !.reply = reply, !.view = view]
  <2>1. calls[s] \in [kind : Kinds, sent : -1 .. MaxVersion,
                      reply : {"none", "view", "no_change", "refused", "failed", "denied"},
                      view : Views \cup {NoView}]
    BY <1>1, <1>3 DEF Calls
  <2>2. c \in Calls /\ c.reply = reply /\ c.view = view
    BY <2>1 DEF Calls
  <2>3. calls' = [calls EXCEPT ![s] = c]
    BY <1>1, <1>3, <2>1
  <2>4. TypeOK'
    BY <1>1, <2>2, <2>3 DEF IInv, TypeOK, page
  <2>5. ViewsAreReal'
    BY <1>1, <2>2, <2>3 DEF IInv, ViewsAreReal
  <2>6. StopsOnlyForCause'
    BY DEF IInv, StopsOnlyForCause, page
  <2>7. QED BY <2>4, <2>5, <2>6 DEF IInv
<1>4. QED BY <1>2, <1>3

(* Steps of the page that do not stop it: at most the slot s is freed or   *)
(* used for a new call, and what is shown is a view that was answered.     *)
LEMMA PageKeepsIInv ==
  ASSUME IInv, NEW s \in Slots, UNCHANGED <<room, stopped, expired, denied, age, failures>>,
         NEW c \in Calls, c.reply = "none", calls' = [calls EXCEPT ![s] = c] \/ UNCHANGED calls,
         loop' \in {"due", "awaiting", "ended"}, joinAttempted' \in BOOLEAN,
         \/ UNCHANGED <<shown, versionRef>>
         \/ calls[s].reply = "view" /\ SetGame(calls[s].view)
  PROVE  IInv'
<1>1. calls' \in [Slots -> Calls] /\ ViewsAreReal'
  BY DEF IInv, TypeOK, ViewsAreReal
<1>2. shown' \in Views \cup {NoView} /\ versionRef' \in -1 .. MaxVersion
  <2>1. CASE UNCHANGED <<shown, versionRef>>
    BY <2>1 DEF IInv, TypeOK
  <2>2. CASE calls[s].reply = "view" /\ SetGame(calls[s].view)
    BY <2>2, Constants DEF IInv, ViewsAreReal, SetGame, Views
  <2>3. QED BY <2>1, <2>2
<1>3. TypeOK'
  BY <1>1, <1>2 DEF IInv, TypeOK
<1>4. QED BY <1>1, <1>3 DEF IInv, StopsOnlyForCause

-----------------------------------------------------------------------------
LEMMA OthersKeepIInv ==
  ASSUME IInv, OthersAct
  PROVE  IInv'
<1>1. PICK state \in {"in_progress"} \cup Over, turn \in BOOLEAN :
        Change(state, room.mine, turn) /\ room.state \notin Over
  <2>1. room.mine \in BOOLEAN /\ room.myTurn \in BOOLEAN
    BY DEF IInv, TypeOK, Views
  <2>2. QED BY <2>1 DEF OthersAct, Over
<1>2. room' \in Views
  <2>1. room.mine \in BOOLEAN
    BY DEF IInv, TypeOK, Views
  <2>2. QED BY <1>1, <2>1, ChangeFacts DEF IInv
<1>3. UNCHANGED <<calls, page, age, failures>> /\ failures' \in 0 .. MaxFailures
  BY DEF OthersAct, IInv, TypeOK
<1>4. QED BY <1>1, <1>2, <1>3, ServerKeepsIInv, Constants

(* What the server does with a call, as ServerKeepsIInv wants it.          *)
LEMMA ServeKeepsIInv ==
  ASSUME IInv, NEW s \in Slots, Serve(s)
  PROVE  IInv'
<1>1. /\ UNCHANGED <<page, age, failures>> /\ failures' \in 0 .. MaxFailures
      /\ calls[s] # Free
  <2>1. UNCHANGED <<page, age, failures>> /\ failures' \in 0 .. MaxFailures
    BY DEF IInv, TypeOK, Serve, ServeGet, ServeMove, ServeResign, ServeJoin
  <2>2. calls[s].kind # "free"
    BY DEF Serve, ServeGet, ServeMove, ServeResign, ServeJoin
  <2>3. QED BY <2>1, <2>2 DEF Free
<1>2. PICK reply \in {"view", "no_change", "refused"} : Answer(s, reply)
  BY DEF Serve, ServeGet, ServeMove, ServeResign, ServeJoin
<1>3. room' \in Views /\ (room.state \in Over => room'.state \in Over)
  <2>1. CASE UNCHANGED room
    BY <2>1 DEF IInv, TypeOK
  <2>2. CASE \E state \in {"in_progress", "finished"}, turn \in BOOLEAN :
               Change(state, TRUE, turn) /\ room.state \notin Over
    BY <2>2, ChangeFacts DEF IInv, Over
  <2>3. QED BY <2>1, <2>2 DEF Serve, ServeGet, ServeMove, ServeResign, ServeJoin, Over
<1>4. QED BY <1>1, <1>2, <1>3, ServerKeepsIInv DEF Answer

LEMMA LostKeepsIInv ==
  ASSUME IInv, NEW s \in Slots, Lose(s) \/ Deny(s)
  PROVE  IInv'
<1>1. /\ UNCHANGED <<room, page, age>> /\ failures' \in 0 .. MaxFailures
      /\ calls[s] # Free /\ room' \in Views
  BY Constants DEF IInv, TypeOK, Lose, Deny, Free
<1>2. CASE Lose(s)
  BY <1>1, <1>2, ServerKeepsIInv DEF Lose
<1>3. CASE Deny(s)
  <2> DEFINE c == [calls[s] EXCEPT !.reply = "denied"]
  <2>1. c \in Calls /\ c.reply = "denied" /\ calls' = [calls EXCEPT ![s] = c]
    <3>1. /\ calls \in [Slots -> Calls] /\ calls[s] # Free
          /\ calls' = [calls EXCEPT ![s].reply = "denied"]
      BY <1>1, <1>3 DEF IInv, TypeOK, Deny
    <3>2. calls[s] \in [kind : Kinds, sent : -1 .. MaxVersion,
                        reply : {"none", "view", "no_change", "refused", "failed", "denied"},
                        view : Views \cup {NoView}]
      BY <3>1 DEF Calls
    <3>3. QED BY <3>1, <3>2 DEF Calls
  <2>2. QED BY <1>1, <2>1 DEF IInv, TypeOK, ViewsAreReal, StopsOnlyForCause, page
<1>4. QED BY <1>2, <1>3

-----------------------------------------------------------------------------
LEMMA CallType ==
  ASSUME NEW kind \in Kinds, NEW sent \in -1 .. MaxVersion
  PROVE  Call(kind, sent) \in Calls /\ Call(kind, sent).reply = "none"
         /\ Free \in Calls /\ Free.reply = "none"
BY DEF Call, Calls, Free

LEMMA SendKeepsIInv ==
  ASSUME IInv, NEW s \in Slots, SendMove(s) \/ SendResign(s) \/ SendJoin(s)
  PROVE  IInv'
<1>1. PICK kind \in Kinds, sent \in -1 .. MaxVersion : Start(s, kind, sent)
  <2>1. -1 \in -1 .. MaxVersion
    BY Constants
  <2>2. SendMove(s) => shown.version \in -1 .. MaxVersion
    BY Constants DEF SendMove, IInv, TypeOK, Views, NoView
  <2>3. QED BY <2>1, <2>2 DEF SendMove, SendResign, SendJoin, Kinds
<1>2. /\ UNCHANGED <<room, stopped, expired, denied, age, failures, shown, versionRef, loop>>
      /\ loop' \in {"due", "awaiting", "ended"} /\ joinAttempted' \in BOOLEAN
  BY DEF IInv, TypeOK, SendMove, SendResign, SendJoin, page
<1>3. QED BY <1>1, <1>2, CallType, PageKeepsIInv DEF Start

LEMMA HandleKeepsIInv ==
  ASSUME IInv, NEW s \in Slots, Shown(s) \/ FollowedByRefresh(s) \/ Dropped(s)
  PROVE  IInv'
<1>1. /\ loop' \in {"due", "awaiting", "ended"} /\ joinAttempted' \in BOOLEAN
      /\ UNCHANGED <<room, stopped, expired, denied, age, failures>>
      /\ versionRef \in -1 .. MaxVersion
  BY DEF IInv, TypeOK, Shown, FollowedByRefresh, Dropped, page
<1>2. Free \in Calls /\ Free.reply = "none" /\ Call("refresh", versionRef) \in Calls
      /\ Call("refresh", versionRef).reply = "none"
  BY <1>1 DEF Call, Calls, Free, Kinds
<1>3. CASE Shown(s)
  BY <1>1, <1>2, <1>3, PageKeepsIInv DEF Shown
<1>4. CASE FollowedByRefresh(s)
  BY <1>1, <1>2, <1>4, PageKeepsIInv DEF FollowedByRefresh, page
<1>5. CASE Dropped(s)
  BY <1>1, <1>2, <1>5, PageKeepsIInv DEF Dropped, page
<1>6. QED BY <1>3, <1>4, <1>5

(* The two steps that may stop the page: a read that was answered, and the *)
(* loop, by its cap.                                                       *)
LEMMA RefreshKeepsIInv ==
  ASSUME IInv, NEW s \in Slots, Refresh(s)
  PROVE  IInv'
<1>1. /\ calls' = [calls EXCEPT ![s] = Free] /\ calls \in [Slots -> Calls]
      /\ UNCHANGED <<room, expired, joinAttempted, age, failures>>
      /\ stopped \in BOOLEAN /\ denied \in BOOLEAN
  BY DEF IInv, TypeOK, Refresh
<1>2. /\ stopped' = (stopped \/ calls[s].reply = "denied"
                     \/ (calls[s].reply = "view" /\ calls[s].view.state \in Over))
      /\ denied' = (denied \/ calls[s].reply = "denied")
  BY DEF Refresh
<1>3. shown' \in Views \cup {NoView} /\ versionRef' \in -1 .. MaxVersion
  <2>1. CASE calls[s].reply = "view"
    BY <2>1, Constants DEF IInv, ViewsAreReal, Refresh, SetGame, Views
  <2>2. CASE calls[s].reply # "view"
    BY <2>2 DEF IInv, TypeOK, Refresh
  <2>3. QED BY <2>1, <2>2
<1>4. loop' \in {"due", "awaiting", "ended"}
  BY DEF IInv, TypeOK, Refresh
<1>5. calls' \in [Slots -> Calls] /\ ViewsAreReal'
  BY <1>1 DEF IInv, ViewsAreReal, Calls, Free
<1>6. stopped' \in BOOLEAN /\ denied' \in BOOLEAN
  BY <1>2
<1>7. TypeOK'
  BY <1>1, <1>3, <1>4, <1>5, <1>6 DEF IInv, TypeOK
<1>8. StopsOnlyForCause'
  BY <1>1, <1>2 DEF IInv, ViewsAreReal, StopsOnlyForCause
<1>9. QED BY <1>5, <1>7, <1>8 DEF IInv

LEMMA TickKeepsIInv ==
  ASSUME IInv, Tick
  PROVE  IInv'
<1>1. CASE TickExpires
  BY <1>1 DEF TickExpires, IInv, TypeOK, ViewsAreReal, StopsOnlyForCause
<1>2. CASE TickStopped
  BY <1>2 DEF TickStopped, IInv, TypeOK, ViewsAreReal, StopsOnlyForCause
<1>3. CASE TickPolls
  <2>1. /\ Call("poll", versionRef) \in Calls /\ Call("poll", versionRef).reply = "none"
        /\ calls' = [calls EXCEPT ![PollSlot] = Call("poll", versionRef)]
    <3>1. versionRef \in -1 .. MaxVersion /\ "poll" \in Kinds
      BY DEF IInv, TypeOK, Kinds
    <3>2. QED BY <1>3, <3>1, CallType DEF TickPolls, Start
  <2>2. /\ UNCHANGED <<room, stopped, expired, denied, age, failures, shown, versionRef>>
        /\ loop' \in {"due", "awaiting", "ended"} /\ joinAttempted' \in BOOLEAN
    BY <1>3 DEF TickPolls, IInv, TypeOK
  <2>3. QED BY <2>1, <2>2, Constants, PageKeepsIInv
<1>4. QED BY <1>1, <1>2, <1>3 DEF Tick

LEMMA NextIInv == IInv /\ [Next]_vars => IInv'
<1> SUFFICES ASSUME IInv, [Next]_vars PROVE IInv'
  OBVIOUS
<1>1. CASE Elapse
  BY <1>1 DEF Elapse, IInv, TypeOK, ViewsAreReal, StopsOnlyForCause, page
<1>2. CASE OthersAct \/ Tick
  BY <1>2, OthersKeepIInv, TickKeepsIInv
<1>3. ASSUME NEW s \in Slots, Serve(s) \/ Lose(s) \/ Deny(s) \/ Handle(s) PROVE IInv'
  BY <1>3, ServeKeepsIInv, LostKeepsIInv, RefreshKeepsIInv, HandleKeepsIInv DEF Handle
<1>4. ASSUME NEW s \in Slots, SendMove(s) \/ SendResign(s) \/ SendJoin(s) PROVE IInv'
  BY <1>4, SendKeepsIInv
<1>5. CASE UNCHANGED vars
  BY <1>5 DEF vars, IInv, TypeOK, ViewsAreReal, StopsOnlyForCause, page
<1>6. QED BY <1>1, <1>2, <1>3, <1>4, <1>5 DEF Next

(* The strengthened invariant holds in every reachable state.              *)
THEOREM PageInvariance == Spec => []IInv
<1>1. Init => IInv
  BY InitIInv
<1>2. IInv /\ [Next]_vars => IInv'
  BY NextIInv
<1>3. QED BY <1>1, <1>2, PTL DEF Spec

(* Types of all variables, for any number of fetches in flight.            *)
THEOREM PageTypes == Spec => []TypeOK
<1>1. IInv => TypeOK
  BY DEF IInv
<1>2. QED BY <1>1, PageInvariance, PTL

(* No failed fetch, late reply or refused move makes a page give up: it    *)
(* has stopped only if the room is over, its cap is reached, or a read was *)
(* denied.                                                                 *)
THEOREM PagesStopOnlyForCause == Spec => []StopsOnlyForCause
<1>1. IInv => StopsOnlyForCause
  BY DEF IInv
<1>2. QED BY <1>1, PageInvariance, PTL

-----------------------------------------------------------------------------
(* ChatSync.                                                               *)

(* Induction on a number, for a property given as a set.                   *)
LEMMA Induction ==
  ASSUME NEW S, 0 \in S, \A n \in Nat : n \in S => n + 1 \in S
  PROVE  Nat \subseteq S
<1> DEFINE T == Nat \ S
<1> SUFFICES ASSUME T # {} PROVE FALSE
  OBVIOUS
<1>1. PICK x \in T : \A y \in T : <<y, x>> \notin OpToRel(<,Nat)
  BY WFMin, NatLessThanWellFounded, Zenon
<1>2. \A y \in T : ~ (y < x)
  BY <1>1 DEF OpToRel
<1>3. x # 0 /\ x \in Nat
  OBVIOUS
<1>4. x - 1 \in Nat /\ x - 1 < x /\ x - 1 \notin T
  BY <1>2, <1>3
<1> QED BY <1>4

(* A set of numbers that is not empty has a least one.                     *)
LEMMA Least ==
  ASSUME NEW S \in SUBSET Nat, S # {}
  PROVE  \E least \in S : \A n \in S : least <= n
<1>1. PICK x \in S : \A y \in S : <<y, x>> \notin OpToRel(<,Nat)
  BY WFMin, NatLessThanWellFounded, Zenon
<1>2. \A y \in S : ~ (y < x)
  BY <1>1 DEF OpToRel
<1>3. \A y \in S : x <= y
  BY <1>2
<1> QED BY <1>3

(* Max of a set of numbers up to k + 1 that has k + 1 in it.               *)
LEMMA MaxIsLast ==
  ASSUME NEW k \in Nat, NEW s \in SUBSET (1 .. k + 1), k + 1 \in s
  PROVE  Max(s) = k + 1 /\ s \ {k + 1} \in SUBSET (1 .. k)
<1>1. \A y \in s : k + 1 >= y
  OBVIOUS
<1>2. \A x \in s : (\A y \in s : x >= y) => x = k + 1
  OBVIOUS
<1>3. Max(s) = k + 1
  BY <1>1, <1>2 DEF Max
<1> QED BY <1>3

(* after[k] is what is kept of the first k elements of a list.             *)
KeepIf(kept, m, set) == IF m \in set THEN Append(kept, m) ELSE kept
Keeps(after, list, set, n) ==
  /\ after[0] = <<>>
  /\ \A k \in 0 .. n - 1 : after[k + 1] = KeepIf(after[k], list[k + 1], set)
  /\ Only(list, set) = after[n]

(* A list is filtered element by element.                                  *)
LEMMA ElementByElement ==
  ASSUME NEW list, NEW set, NEW n \in Nat, DOMAIN list = 1 .. n
  PROVE  \E after : Keeps(after, list, set, n)
<1> DEFINE Value(f, s) ==
             IF s = {} THEN <<>> ELSE KeepIf(f[s \ {Max(s)}], list[Max(s)], set)
           Folds(f, k) == f = [s \in SUBSET (1 .. k) |-> Value(f, s)]
           W == {k \in Nat : \E f : Folds(f, k)}
<1>1. 0 \in W
  <2> DEFINE f == [s \in SUBSET (1 .. 0) |-> <<>>]
  <2>1. \A s \in SUBSET (1 .. 0) : s = {}
    OBVIOUS
  <2>2. Folds(f, 0)
    BY <2>1
  <2> QED BY <2>2
<1>2. ASSUME NEW k \in Nat, k \in W PROVE k + 1 \in W
  <2>1. PICK f : Folds(f, k)
    BY <1>2
  <2> DEFINE g == [s \in SUBSET (1 .. k + 1) |->
                     IF k + 1 \in s THEN KeepIf(f[s \ {k + 1}], list[k + 1], set) ELSE f[s]]
  <2>2. ASSUME NEW s \in SUBSET (1 .. k + 1) PROVE g[s] = Value(g, s)
    <3>1. CASE k + 1 \in s
      <4>1. Max(s) = k + 1 /\ s \ {k + 1} \in SUBSET (1 .. k) /\ s # {}
        BY <3>1, MaxIsLast
      <4>2. g[s \ {k + 1}] = f[s \ {k + 1}]
        BY <4>1
      <4> QED BY <3>1, <4>1, <4>2
    <3>2. CASE k + 1 \notin s
      <4>1. s \in SUBSET (1 .. k)
        BY <3>2
      <4>2. g[s] = f[s] /\ f[s] = Value(f, s)
        BY <2>1, <3>2, <4>1
      <4>3. ASSUME s # {} PROVE g[s \ {Max(s)}] = f[s \ {Max(s)}]
        BY <4>1, <3>2
      <4> QED BY <4>2, <4>3
    <3> QED BY <3>1, <3>2
  <2>3. g = [s \in SUBSET (1 .. k + 1) |-> g[s]]
    OBVIOUS
  <2>4. Folds(g, k + 1)
    <3> HIDE DEF Value, g
    <3> QED BY <2>2, <2>3
  <2> HIDE DEF Folds
  <2> QED BY <2>4
<1>3. n \in W
  <2> HIDE DEF W
  <2> QED BY <1>1, <1>2, Induction
<1> DEFINE iter == CHOOSE f : Folds(f, n)
<1>4. Folds(iter, n)
  <2> HIDE DEF Folds
  <2> QED BY <1>3
<1>5. Only(list, set) = iter[1 .. n]
  BY DEF Only, FoldLeft, MapThenFoldSet, KeepIf
<1> HIDE DEF iter
<1> DEFINE after == [k \in 0 .. n |-> iter[1 .. k]]
<1>6. after[0] = <<>>
  BY <1>4
<1>7. ASSUME NEW k \in 0 .. n - 1
      PROVE  after[k + 1] = KeepIf(after[k], list[k + 1], set)
  <2>1. 1 .. k + 1 \in SUBSET (1 .. n) /\ k + 1 \in 1 .. k + 1
    OBVIOUS
  <2>2. Max(1 .. k + 1) = k + 1 /\ (1 .. k + 1) \ {k + 1} = 1 .. k
    BY <2>1, MaxIsLast
  <2>3. iter[1 .. k + 1] = Value(iter, 1 .. k + 1)
    BY <1>4, <2>1
  <2>4. iter[1 .. k + 1] = KeepIf(iter[1 .. k], list[k + 1], set)
    BY <2>1, <2>2, <2>3
  <2>5. k \in 0 .. n /\ k + 1 \in 0 .. n
    OBVIOUS
  <2> QED BY <2>4, <2>5
<1>8. Only(list, set) = after[n]
  BY <1>5
<1> HIDE DEF after
<1> QED BY <1>6, <1>7, <1>8 DEF Keeps

(* What a filter keeps comes from the list, is in the set, and is not there *)
(* twice unless the list has it twice.                                     *)
LEMMA OnlyKeeps ==
  ASSUME NEW S, NEW list \in Seq(S), NEW set
  PROVE  /\ Only(list, set) \in Seq(S \cap set)
         /\ IsInjective(list) => IsInjective(Only(list, set))
<1> DEFINE n == Len(list)
<1>1. n \in Nat /\ DOMAIN list = 1 .. n /\ \A i \in 1 .. n : list[i] \in S
  OBVIOUS
<1> HIDE DEF n
<1>2. PICK after : Keeps(after, list, set, n)
  BY <1>1, ElementByElement
<1> DEFINE From(s, k) ==
             /\ s \in Seq(S \cap set)
             /\ \A i \in DOMAIN s : \E j \in 1 .. k : s[i] = list[j]
             /\ IsInjective(list) => IsInjective(s)
           W == {k \in Nat : k <= n => From(after[k], k)}
<1>3. 0 \in W
  <2>1. after[0] = <<>>
    BY <1>2 DEF Keeps
  <2>2. <<>> \in Seq(S \cap set) /\ DOMAIN <<>> = {} /\ IsInjective(<<>>)
    BY DEF IsInjective
  <2>3. From(after[0], 0)
    BY <2>1, <2>2
  <2> QED BY <2>3
<1>4. ASSUME NEW k \in Nat, k \in W PROVE k + 1 \in W
  <2> SUFFICES ASSUME k + 1 <= n PROVE From(after[k + 1], k + 1)
    OBVIOUS
  <2> DEFINE s == after[k]
             m == list[k + 1]
             t == after[k + 1]
  <2>1. From(s, k)
    BY <1>1, <1>4
  <2>2. t = KeepIf(s, m, set)
    BY <1>1, <1>2 DEF Keeps
  <2>3. k + 1 \in 1 .. n /\ m \in S /\ 1 .. k \subseteq 1 .. k + 1 /\ 1 .. k \subseteq 1 .. n
    BY <1>1
  <2>4. CASE m \notin set
    <3>1. t = s
      BY <2>2, <2>4 DEF KeepIf
    <3>2. \A i \in DOMAIN s : \E j \in 1 .. k + 1 : s[i] = list[j]
      BY <2>1, <2>3
    <3> HIDE DEF s, t, m
    <3>3. From(s, k + 1)
      BY <2>1, <3>2
    <3>4. From(t, k + 1)
      BY <3>1, <3>3, Zenon
    <3> QED BY <3>4, Zenon DEF t
  <2>5. CASE m \in set
    <3>1. t = Append(s, m)
      BY <2>2, <2>5 DEF KeepIf
    <3>2. s \in Seq(S \cap set) /\ m \in S \cap set
      BY <2>1, <2>3, <2>5
    <3> DEFINE l == Len(s)
    <3> HIDE DEF s, t
    <3>3. /\ l \in Nat /\ DOMAIN s = 1 .. l /\ t \in Seq(S \cap set) /\ DOMAIN t = 1 .. l + 1
          /\ \A i \in 1 .. l : t[i] = s[i]
          /\ t[l + 1] = m
      BY <3>1, <3>2
    <3> HIDE DEF l
    <3>4. \A i \in 1 .. l + 1 : i \in 1 .. l \/ i = l + 1
      BY <3>3
    <3>5. \A i \in DOMAIN t : \E j \in 1 .. k + 1 : t[i] = list[j]
      BY <2>1, <2>3, <3>3, <3>4 DEF m
    <3>6. ASSUME IsInjective(list), NEW i \in 1 .. l PROVE s[i] # m
      <4>1. PICK j \in 1 .. k : s[i] = list[j]
        BY <2>1, <3>3
      <4>2. j \in DOMAIN list /\ k + 1 \in DOMAIN list /\ j # k + 1
        BY <1>1, <2>3
      <4> QED BY <3>6, <4>1, <4>2 DEF IsInjective, m
    <3>7. ASSUME IsInjective(list) PROVE IsInjective(t)
      <4> SUFFICES ASSUME NEW a \in 1 .. l + 1, NEW b \in 1 .. l + 1, t[a] = t[b] PROVE a = b
        BY <3>3 DEF IsInjective
      <4>1. IsInjective(s)
        BY <2>1, <3>7
      <4>2. CASE a \in 1 .. l /\ b \in 1 .. l
        BY <3>3, <4>1, <4>2 DEF IsInjective
      <4>3. CASE a \in 1 .. l /\ b = l + 1
        BY <3>3, <3>6, <3>7, <4>3
      <4>4. CASE a = l + 1 /\ b \in 1 .. l
        BY <3>3, <3>6, <3>7, <4>4
      <4> QED BY <3>4, <4>2, <4>3, <4>4
    <3>8. t \in Seq(S \cap set)
      BY <3>3
    <3>9. From(t, k + 1)
      BY <3>5, <3>7, <3>8, Zenon
    <3> QED BY <3>9, Zenon DEF t
  <2> QED BY <2>4, <2>5
<1>5. n \in W
  <2> HIDE DEF W
  <2> QED BY <1>1, <1>3, <1>4, Induction
<1>6. Only(list, set) = after[n]
  BY <1>2 DEF Keeps
<1> QED BY <1>1, <1>5, <1>6

(* A filter that lets pass the beginning of the list and nothing else      *)
(* keeps the beginning; if that is everything, the list.                   *)
PassesFirst(list, set, n, k) ==
  /\ DOMAIN list = 1 .. n
  /\ \A i \in 1 .. n : list[i] \in set <=> i <= k
FirstOf(list, k) == [i \in 1 .. k |-> list[i]]

LEMMA OnlyTheFirst ==
  ASSUME NEW list, NEW set, NEW n \in Nat, NEW k \in 0 .. n, PassesFirst(list, set, n, k)
  PROVE  Only(list, set) = FirstOf(list, k)
<1>0. DOMAIN list = 1 .. n /\ \A i \in 1 .. n : list[i] \in set <=> i <= k
  BY DEF PassesFirst
<1>1. PICK after : Keeps(after, list, set, n)
  BY <1>0, ElementByElement
<1> DEFINE First(j) == [i \in 1 .. j |-> list[i]]
           Expected(j) == IF j <= k THEN First(j) ELSE First(k)
           W == {j \in Nat : j <= n => after[j] = Expected(j)}
<1>2. 0 \in W
  <2>1. after[0] = <<>> /\ First(0) = <<>>
    BY <1>1 DEF Keeps
  <2> QED BY <2>1
<1>3. ASSUME NEW j \in Nat, j \in W PROVE j + 1 \in W
  <2> SUFFICES ASSUME j + 1 <= n PROVE after[j + 1] = Expected(j + 1)
    OBVIOUS
  <2>1. after[j] = Expected(j)
    BY <1>3
  <2>2. after[j + 1] = KeepIf(after[j], list[j + 1], set)
    BY <1>1 DEF Keeps
  <2>3. j + 1 \in 1 .. n
    OBVIOUS
  <2>4. CASE j + 1 <= k
    <3>1. list[j + 1] \in set /\ j <= k
      BY <1>0, <2>3, <2>4
    <3>2. after[j + 1] = Append(First(j), list[j + 1])
      BY <2>1, <2>2, <3>1 DEF KeepIf
    <3>3. Append(First(j), list[j + 1]) = First(j + 1)
      <4> DEFINE a == Append(First(j), list[j + 1])
      <4>1. First(j) \in Seq({list[i] : i \in 1 .. n}) /\ Len(First(j)) = j
        BY <2>3
      <4>2. /\ a \in Seq({list[i] : i \in 1 .. n}) /\ DOMAIN a = 1 .. j + 1
            /\ a[j + 1] = list[j + 1] /\ \A i \in 1 .. j : a[i] = list[i]
        <5> DEFINE f == First(j)
                   T == {list[i] : i \in 1 .. n}
        <5>1. f \in Seq(T) /\ Len(f) = j /\ list[j + 1] \in T /\ \A i \in 1 .. j : f[i] = list[i]
          BY <2>3, <4>1
        <5> HIDE DEF f, T
        <5>2. /\ Append(f, list[j + 1]) \in Seq(T) /\ DOMAIN Append(f, list[j + 1]) = 1 .. j + 1
              /\ Append(f, list[j + 1])[j + 1] = list[j + 1]
              /\ \A i \in 1 .. j : Append(f, list[j + 1])[i] = f[i]
          BY <5>1
        <5> QED BY <5>1, <5>2 DEF f, T
      <4> HIDE DEF a
      <4>3. \A i \in 1 .. j + 1 : a[i] = list[i]
        BY <4>2
      <4>4. a = [i \in DOMAIN a |-> a[i]]
        BY <4>2
      <4>5. a = First(j + 1)
        BY <4>2, <4>3, <4>4
      <4> QED BY <4>5 DEF a
    <3> QED BY <2>4, <3>2, <3>3
  <2>5. CASE ~ (j + 1 <= k)
    <3>1. list[j + 1] \notin set
      BY <1>0, <2>3, <2>5
    <3>2. after[j + 1] = after[j]
      BY <2>2, <3>1 DEF KeepIf
    <3>3. Expected(j + 1) = First(k)
      BY <2>5
    <3>4. Expected(j) = First(k)
      <4>1. j = k \/ ~ (j <= k)
        BY <2>5
      <4> QED BY <4>1
    <3> QED BY <2>1, <3>2, <3>3, <3>4
  <2> QED BY <2>4, <2>5
<1>4. n \in W
  <2> HIDE DEF W
  <2> QED BY <1>2, <1>3, Induction
<1>5. Only(list, set) = after[n]
  BY <1>1 DEF Keeps
<1>6. Expected(n) = First(k)
  <2>1. n = k \/ ~ (n <= k)
    OBVIOUS
  <2> QED BY <2>1
<1> QED BY <1>4, <1>5, <1>6 DEF FirstOf

(* A list without repetitions is no longer than what it is made of.        *)
LEMMA InjectiveIsShort ==
  ASSUME NEW n \in Nat, NEW s \in Seq(1 .. n), IsInjective(s)
  PROVE  Len(s) <= n
<1> DEFINE l == Len(s)
<1>1. l \in Nat /\ s \in [1 .. l -> 1 .. n]
  OBVIOUS
<1>2. \A a, b \in 1 .. l : s[a] = s[b] => a = b
  BY <1>1 DEF IsInjective
<1> HIDE DEF l
<1>3. IsFiniteSet(1 .. n) /\ Cardinality(1 .. n) = n /\ IsFiniteSet(1 .. l) /\ Cardinality(1 .. l) = l
  BY <1>1, FS_Interval
<1>4. s \in Injection(1 .. l, 1 .. n)
  BY <1>1, <1>2 DEF Injection, IsInjective
<1> HIDE DEF l
<1>5. Cardinality(1 .. l) <= Cardinality(1 .. n)
  BY <1>3, <1>4, FS_Injection
<1> QED BY <1>3, <1>5 DEF l

-----------------------------------------------------------------------------
Polls == [at : {"due", "asking", "answered", "ended"}, since : 0 .. MaxMessages,
          body : Seq(Messages)]

(* No page shows a message twice, and no answer on its way repeats one.    *)
Once == \A p \in Pages : IsInjective(messages[p]) /\ IsInjective(poll[p].body)

ChatInv == ChatTypeOK /\ Once

LEMMA ChatConstants ==
  Senders \subseteq Pages /\ MaxMessages \in Nat /\ MaxInserting \in Nat /\ MaxChatFailures \in Nat
BY ChatAssumption

LEMMA EmptyIsOnce == <<>> \in Seq(Messages) /\ IsInjective(<<>>) /\ Len(<<>>) = 0
BY DEF IsInjective

LEMMA DueIsPoll == Due \in Polls /\ IsInjective(Due.body)
<1>1. 0 \in 0 .. MaxMessages
  BY ChatConstants
<1> QED BY <1>1, EmptyIsOnce DEF Due, Polls

(* The poll that is sent, and the loop that ends.                          *)
LEMMA AskIsPoll ==
  ASSUME NEW n \in 0 .. MaxMessages
  PROVE  /\ [Due EXCEPT !.at = "asking", !.since = n] = [at |-> "asking", since |-> n, body |-> <<>>]
         /\ [Due EXCEPT !.at = "asking", !.since = n] \in Polls
         /\ IsInjective([Due EXCEPT !.at = "asking", !.since = n].body)
         /\ [Due EXCEPT !.at = "ended"] = [at |-> "ended", since |-> 0, body |-> <<>>]
         /\ [Due EXCEPT !.at = "ended"] \in Polls
         /\ IsInjective([Due EXCEPT !.at = "ended"].body)
<1>1. [Due EXCEPT !.at = "asking", !.since = n] = [at |-> "asking", since |-> n, body |-> <<>>]
  <2>1. [Due EXCEPT !.at = "asking"] = [at |-> "asking", since |-> 0, body |-> <<>>]
    BY DEF Due
  <2> DEFINE r == [Due EXCEPT !.at = "asking"]
  <2>2. [r EXCEPT !.since = n] = [Due EXCEPT !.at = "asking", !.since = n]
    OBVIOUS
  <2>3. r = [at |-> "asking", since |-> 0, body |-> <<>>]
    BY <2>1
  <2> HIDE DEF r
  <2>4. [r EXCEPT !.since = n] = [at |-> "asking", since |-> n, body |-> <<>>]
    BY <2>3
  <2> QED BY <2>2, <2>4
<1>2. [Due EXCEPT !.at = "ended"] = [at |-> "ended", since |-> 0, body |-> <<>>]
  BY DEF Due
<1>3. 0 \in 0 .. MaxMessages
  BY ChatConstants
<1>4. /\ [at |-> "asking", since |-> n, body |-> <<>>] \in Polls
      /\ [at |-> "ended", since |-> 0, body |-> <<>>] \in Polls
  BY <1>3, EmptyIsOnce DEF Polls
<1> QED BY <1>1, <1>2, <1>4, EmptyIsOnce

(* The chat lists every visible message once.                              *)
LEMMA ChatOnce ==
  ASSUME ChatTypeOK
  PROVE  Stored \subseteq Messages /\ Chat \in Seq(Messages) /\ IsInjective(Chat)
<1> DEFINE list == [m \in DOMAIN author |-> m]
           n == Len(author)
<1>1. n \in Nat /\ n <= MaxMessages /\ DOMAIN author = 1 .. n
  BY DEF ChatTypeOK
<1>2. Stored \subseteq DOMAIN author /\ DOMAIN author \subseteq Messages
  BY <1>1, ChatConstants DEF Stored, Messages
<1>3. list \in Seq(Messages) /\ IsInjective(list)
  BY <1>1, <1>2 DEF IsInjective
<1> HIDE DEF list
<1>4. Only(list, Stored) \in Seq(Messages \cap Stored) /\ IsInjective(Only(list, Stored))
  BY <1>3, OnlyKeeps
<1>5. Only(list, Stored) \in Seq(Messages)
  BY <1>4
<1>6. Chat = Only(list, Stored)
  BY DEF Chat, list
<1> QED BY <1>2, <1>4, <1>5, <1>6

(* What is left of a list from a position on repeats nothing either.       *)
LEMMA RestIsOnce ==
  ASSUME NEW list \in Seq(Messages), IsInjective(list), NEW since \in Nat
  PROVE  /\ SubSeq(list, since + 1, Len(list)) \in Seq(Messages)
         /\ IsInjective(SubSeq(list, since + 1, Len(list)))
<1> DEFINE n == Len(list)
           rest == SubSeq(list, since + 1, n)
<1>1. n \in Nat /\ DOMAIN list = 1 .. n /\ \A i \in 1 .. n : list[i] \in Messages
  OBVIOUS
<1>2. CASE since >= n
  <2>1. rest = <<>>
    BY <1>1, <1>2
  <2> QED BY <2>1, EmptyIsOnce
<1>3. CASE since < n
  <2>1. rest \in Seq(Messages)
    BY <1>1, <1>3
  <2>2. /\ DOMAIN rest = 1 .. n - since
        /\ \A i \in 1 .. n - since : rest[i] = list[since + i] /\ since + i \in 1 .. n
    BY <1>1, <1>3
  <2> HIDE DEF rest, n
  <2>3. ASSUME NEW a \in 1 .. n - since, NEW b \in 1 .. n - since, rest[a] = rest[b]
        PROVE  a = b
    <3>1. list[since + a] = list[since + b] /\ since + a \in 1 .. n /\ since + b \in 1 .. n
      BY <2>2, <2>3
    <3>2. since + a = since + b
      BY <1>1, <3>1 DEF IsInjective
    <3> QED BY <1>1, <3>2
  <2>4. IsInjective(rest)
    BY <2>2, <2>3 DEF IsInjective
  <2> QED BY <2>1, <2>4 DEF rest, n
<1> QED BY <1>1, <1>2, <1>3

(* What arrives and is not there yet is appended: still nothing is there   *)
(* twice.                                                                  *)
LEMMA MergedIsOnce ==
  ASSUME NEW old \in Seq(Messages), IsInjective(old),
         NEW arrived \in Seq(Messages), IsInjective(arrived)
  PROVE  LET new == old \o Only(arrived, Messages \ ToSet(old))
         IN  new \in Seq(Messages) /\ IsInjective(new) /\ Len(new) \in 0 .. MaxMessages
<1> DEFINE fresh == Only(arrived, Messages \ ToSet(old))
           new == old \o fresh
           n == Len(old)
           k == Len(fresh)
<1>1. fresh \in Seq(Messages \cap (Messages \ ToSet(old))) /\ IsInjective(fresh)
  BY OnlyKeeps
<1>2. fresh \in Seq(Messages) /\ \A i \in DOMAIN fresh : fresh[i] \notin ToSet(old)
  <2> HIDE DEF fresh
  <2> QED BY <1>1
<1> HIDE DEF fresh
<1>3. n \in Nat /\ k \in Nat /\ DOMAIN old = 1 .. n /\ DOMAIN fresh = 1 .. k
  BY <1>2
<1>4. new \in Seq(Messages)
  BY <1>2
<1>5. /\ DOMAIN new = 1 .. n + k
      /\ \A i \in 1 .. n : new[i] = old[i]
      /\ \A i \in n + 1 .. n + k : new[i] = fresh[i - n] /\ i - n \in 1 .. k
  BY <1>2, <1>3
<1>6. \A i \in 1 .. n, j \in 1 .. k : old[i] # fresh[j]
  BY <1>2, <1>3 DEF ToSet
<1> HIDE DEF new, n, k
<1>7. ASSUME NEW a \in 1 .. n + k, NEW b \in 1 .. n + k, new[a] = new[b]
      PROVE  a = b
  <2>1. \A i \in 1 .. n + k : i \in 1 .. n \/ i \in n + 1 .. n + k
    BY <1>3
  <2>2. CASE a \in 1 .. n /\ b \in 1 .. n
    <3>1. old[a] = old[b]
      BY <1>5, <1>7, <2>2
    <3> QED BY <1>3, <2>2, <3>1 DEF IsInjective
  <2>3. CASE a \in n + 1 .. n + k /\ b \in n + 1 .. n + k
    <3>1. fresh[a - n] = fresh[b - n] /\ a - n \in 1 .. k /\ b - n \in 1 .. k
      BY <1>5, <1>7, <2>3
    <3>2. a - n = b - n
      BY <1>1, <1>3, <3>1 DEF IsInjective
    <3> QED BY <1>3, <3>2
  <2>4. CASE a \in 1 .. n /\ b \in n + 1 .. n + k
    <3>1. old[a] = fresh[b - n] /\ b - n \in 1 .. k
      BY <1>5, <1>7, <2>4
    <3> QED BY <1>6, <2>4, <3>1
  <2>5. CASE a \in n + 1 .. n + k /\ b \in 1 .. n
    <3>1. old[b] = fresh[a - n] /\ a - n \in 1 .. k
      BY <1>5, <1>7, <2>5
    <3> QED BY <1>6, <2>5, <3>1
  <2> QED BY <2>1, <2>2, <2>3, <2>4, <2>5
<1>8. IsInjective(new)
  BY <1>5, <1>7 DEF IsInjective
<1>9. Len(new) \in 0 .. MaxMessages
  <2>1. new \in Seq(1 .. MaxMessages)
    BY <1>4 DEF Messages
  <2>2. Len(new) <= MaxMessages
    BY <1>8, <2>1, ChatConstants, InjectiveIsShort
  <2>3. Len(new) \in Nat
    BY <1>4
  <2> QED BY <2>2, <2>3, ChatConstants
<1> QED BY <1>4, <1>8, <1>9 DEF new, fresh

(* A page's lists after a merge.                                           *)
PagesMerged ==
  /\ messages' \in [Pages -> Seq(Messages)] /\ seen' \in [Pages -> 0 .. MaxMessages]
  /\ \A p \in Pages : IsInjective(messages'[p])

LEMMA MergeKeeps ==
  ASSUME ChatInv, NEW q \in Pages, NEW arrived \in Seq(Messages), IsInjective(arrived),
         Merge(q, arrived)
  PROVE  PagesMerged
<1> DEFINE new == messages[q] \o Only(arrived, Messages \ ToSet(messages[q]))
<1>1. messages \in [Pages -> Seq(Messages)] /\ seen \in [Pages -> 0 .. MaxMessages]
  BY DEF ChatInv, ChatTypeOK
<1>2. \A p \in Pages : IsInjective(messages[p])
  BY DEF ChatInv, Once
<1>3. new \in Seq(Messages) /\ IsInjective(new) /\ Len(new) \in 0 .. MaxMessages
  <2>1. messages[q] \in Seq(Messages)
    BY <1>1
  <2> QED BY <1>2, <2>1, MergedIsOnce
<1>4. /\ messages' = [messages EXCEPT ![q] = new]
      /\ seen' = [seen EXCEPT ![q] = IF arrived = <<>> THEN @ ELSE Len(messages'[q])]
  BY Zenon DEF Merge
<1> HIDE DEF new
<1>5. messages'[q] = new
  BY <1>1, <1>4
<1>6. messages' \in [Pages -> Seq(Messages)]
  BY <1>1, <1>3, <1>4
<1>7. seen' \in [Pages -> 0 .. MaxMessages]
  BY <1>1, <1>3, <1>4, <1>5
<1>8. ASSUME NEW p \in Pages PROVE IsInjective(messages'[p])
  <2>1. CASE p = q
    BY <1>3, <1>5, <2>1
  <2>2. CASE p # q
    <3>1. messages'[p] = messages[p]
      BY <1>1, <1>4, <2>2
    <3> QED BY <1>2, <3>1
  <2> QED BY <2>1, <2>2
<1> QED BY <1>6, <1>7, <1>8 DEF PagesMerged

LEMMA GotoKeeps ==
  ASSUME ChatInv, NEW q \in Pages, NEW to \in Polls, IsInjective(to.body), Goto(q, to)
  PROVE  poll' \in [Pages -> Polls] /\ \A p \in Pages : IsInjective(poll'[p].body)
<1>1. poll \in [Pages -> Polls] /\ \A p \in Pages : IsInjective(poll[p].body)
  BY DEF ChatInv, ChatTypeOK, Once, Polls
<1>2. poll' = [poll EXCEPT ![q] = to]
  BY DEF Goto
<1>3. \A p \in Pages : poll'[p] = to \/ poll'[p] = poll[p]
  BY <1>1, <1>2
<1>4. poll' \in [Pages -> Polls]
  BY <1>1, <1>2
<1> QED BY <1>1, <1>3, <1>4

LEMMA InitChatInv == ChatInit => ChatInv
<1> SUFFICES ASSUME ChatInit PROVE ChatInv
  OBVIOUS
<1>1. author \in Seq(Senders) /\ Len(author) <= MaxMessages /\ DOMAIN author = {}
  BY ChatConstants DEF ChatInit
<1>2. messages \in [Pages -> Seq(Messages)] /\ \A p \in Pages : IsInjective(messages[p])
  BY EmptyIsOnce DEF ChatInit
<1>3. poll \in [Pages -> Polls] /\ \A p \in Pages : IsInjective(poll[p].body)
  BY DueIsPoll DEF ChatInit
<1>4. seen \in [Pages -> 0 .. MaxMessages] /\ chatFailures \in 0 .. MaxChatFailures
  BY ChatConstants DEF ChatInit
<1>5. overtaken \in [Pages -> SUBSET Messages]
  BY DEF ChatInit
<1> QED BY <1>1, <1>2, <1>3, <1>4, <1>5 DEF ChatInv, ChatTypeOK, Once, ChatInit, Polls

(* The parts of ChatInv that an action changes, or leaves alone.           *)
AuthorTyped == author \in Seq(Senders) /\ Len(author) <= MaxMessages
WritesTyped == inserting \subseteq DOMAIN author /\ awaited \subseteq DOMAIN author
PagesTyped ==
  /\ messages \in [Pages -> Seq(Messages)] /\ seen \in [Pages -> 0 .. MaxMessages]
  /\ \A p \in Pages : IsInjective(messages[p])
PollsTyped == poll \in [Pages -> Polls] /\ \A p \in Pages : IsInjective(poll[p].body)
FailuresTyped == chatFailures \in 0 .. MaxChatFailures
OvertakenTyped == overtaken \in [Pages -> SUBSET Messages]

LEMMA ChatParts ==
  ChatInv <=> /\ AuthorTyped /\ WritesTyped /\ PagesTyped /\ PollsTyped /\ FailuresTyped
              /\ OvertakenTyped
BY DEF ChatInv, ChatTypeOK, Once, Polls, AuthorTyped, WritesTyped, PagesTyped, PollsTyped,
       FailuresTyped, OvertakenTyped

LEMMA ChatPartsAfter ==
  ChatInv' <=> /\ AuthorTyped' /\ WritesTyped' /\ PagesTyped' /\ PollsTyped' /\ FailuresTyped'
               /\ OvertakenTyped'
BY DEF ChatInv, ChatTypeOK, Once, Polls, AuthorTyped, WritesTyped, PagesTyped, PollsTyped,
       FailuresTyped, OvertakenTyped

LEMMA Unchanged ==
  ASSUME ChatInv
  PROVE  /\ UNCHANGED author => AuthorTyped'
         /\ UNCHANGED <<author, inserting, awaited>> => WritesTyped'
         /\ UNCHANGED <<messages, seen>> => PagesTyped'
         /\ UNCHANGED poll => PollsTyped'
         /\ UNCHANGED chatFailures => FailuresTyped'
         /\ UNCHANGED overtaken => OvertakenTyped'
         /\ Fails => FailuresTyped'
         /\ PagesMerged => PagesTyped'
<1>1. UNCHANGED author => AuthorTyped'
  BY ChatParts DEF AuthorTyped
<1>2. UNCHANGED <<author, inserting, awaited>> => WritesTyped'
  BY ChatParts DEF WritesTyped
<1>3. UNCHANGED <<messages, seen>> => PagesTyped'
  BY ChatParts DEF PagesTyped
<1>4. UNCHANGED poll => PollsTyped'
  BY ChatParts DEF PollsTyped
<1>5. UNCHANGED chatFailures => FailuresTyped'
  BY ChatParts DEF FailuresTyped
<1>6. Fails => FailuresTyped'
  BY ChatParts, ChatConstants DEF FailuresTyped, Fails
<1>7. PagesMerged => PagesTyped'
  BY DEF PagesMerged, PagesTyped
<1>8. UNCHANGED overtaken => OvertakenTyped'
  BY ChatParts DEF OvertakenTyped
<1> QED BY <1>1, <1>2, <1>3, <1>4, <1>5, <1>6, <1>7, <1>8

LEMMA PolledOn ==
  ASSUME ChatInv, NEW q \in Pages, NEW to \in Polls, IsInjective(to.body), Goto(q, to)
  PROVE  PollsTyped'
BY GotoKeeps DEF PollsTyped

LEMMA SendKeeps ==
  ASSUME ChatInv, NEW p \in Pages, Send(p)
  PROVE  ChatInv'
<1> DEFINE n == Len(author)
<1>1. n \in Nat /\ DOMAIN author = 1 .. n /\ n < MaxMessages /\ p \in Senders
      /\ author \in Seq(Senders)
  BY ChatParts DEF AuthorTyped, Send
<1>2. author' = Append(author, p)
  BY DEF Send
<1>3. author' \in Seq(Senders) /\ Len(author') = n + 1 /\ DOMAIN author' = 1 .. n + 1
  BY <1>1, <1>2
<1> HIDE DEF n
<1>4. AuthorTyped'
  BY <1>1, <1>3, ChatConstants DEF AuthorTyped
<1>5. WritesTyped'
  <2>1. inserting' = inserting \cup {n + 1} /\ awaited' = awaited \cup {n + 1}
    BY <1>3 DEF Send
  <2>2. inserting \subseteq 1 .. n /\ awaited \subseteq 1 .. n
    BY <1>1, ChatParts DEF WritesTyped
  <2>3. 1 .. n \subseteq 1 .. n + 1 /\ n + 1 \in 1 .. n + 1
    BY <1>1
  <2> QED BY <1>3, <2>1, <2>2, <2>3 DEF WritesTyped
<1> QED BY <1>4, <1>5, Unchanged, ChatPartsAfter DEF Send, pages

LEMMA InsertingAreMessages ==
  ASSUME ChatInv
  PROVE  inserting \subseteq Messages /\ awaited \subseteq Messages
<1>1. DOMAIN author = 1 .. Len(author) /\ Len(author) \in Nat /\ Len(author) <= MaxMessages
  BY ChatParts DEF AuthorTyped
<1>2. 1 .. Len(author) \subseteq 1 .. MaxMessages
  BY <1>1, ChatConstants
<1> QED BY <1>1, <1>2, ChatParts DEF WritesTyped, Messages

LEMMA CommitKeeps ==
  ASSUME ChatInv, NEW m, Commit(m)
  PROVE  ChatInv'
<1>1. WritesTyped'
  BY ChatParts DEF WritesTyped, Commit
<1>2. OvertakenTyped'
  <2>1. overtaken' = [p \in Pages |-> overtaken[p] \cup {k \in inserting : k < m}]
    BY DEF Commit
  <2>2. inserting \subseteq Messages /\ overtaken \in [Pages -> SUBSET Messages]
    BY InsertingAreMessages, ChatParts DEF OvertakenTyped
  <2>3. \A p \in Pages : overtaken[p] \cup {k \in inserting : k < m} \in SUBSET Messages
    BY <2>2
  <2> QED BY <2>1, <2>3 DEF OvertakenTyped
<1> QED BY <1>1, <1>2, Unchanged, ChatPartsAfter DEF Commit, pages

LEMMA AuthorIsPage ==
  ASSUME ChatInv, NEW m \in awaited
  PROVE  author[m] \in Senders /\ author[m] \in Pages /\ m \in Messages
<1>1. author \in Seq(Senders) /\ m \in DOMAIN author /\ Len(author) <= MaxMessages
  BY ChatParts DEF AuthorTyped, WritesTyped
<1> QED BY <1>1, ChatConstants DEF Messages

LEMMA SentKeeps ==
  ASSUME ChatInv, NEW m, Sent(m)
  PROVE  ChatInv'
<1>1. m \in awaited /\ awaited' = awaited \ {m} /\ Merge(author[m], <<m>>)
      /\ UNCHANGED <<author, inserting, poll, chatFailures>>
  BY DEF Sent
<1>2. author[m] \in Pages /\ m \in Messages
  BY <1>1, AuthorIsPage
<1>3. <<m>> \in Seq(Messages) /\ IsInjective(<<m>>)
  BY <1>2 DEF IsInjective
<1>4. PagesMerged
  BY <1>1, <1>2, <1>3, MergeKeeps
<1>5. WritesTyped'
  BY <1>1, ChatParts DEF WritesTyped
<1>6. OvertakenTyped'
  <2>1. overtaken' = [overtaken EXCEPT
          ![author[m]] = @ \cup ((1 .. m - 1) \ ToSet(messages[author[m]]))]
    BY DEF Sent
  <2>2. overtaken \in [Pages -> SUBSET Messages]
    BY ChatParts DEF OvertakenTyped
  <2>3. (1 .. m - 1) \ ToSet(messages[author[m]]) \subseteq Messages
    <3>1. 1 .. m - 1 \subseteq 1 .. MaxMessages
      BY <1>2, ChatConstants DEF Messages
    <3> QED BY <3>1 DEF Messages
  <2> HIDE DEF OvertakenTyped
  <2>4. overtaken' \in [Pages -> SUBSET Messages]
    BY <1>2, <2>1, <2>2, <2>3
  <2> QED BY <2>4 DEF OvertakenTyped
<1> QED BY <1>1, <1>4, <1>5, <1>6, Unchanged, ChatPartsAfter

LEMMA SendFailsKeeps ==
  ASSUME ChatInv, NEW m, SendFails(m)
  PROVE  ChatInv'
<1>1. WritesTyped'
  BY ChatParts DEF WritesTyped, SendFails
<1> QED BY <1>1, Unchanged, ChatPartsAfter DEF SendFails, pages

LEMMA AskKeeps ==
  ASSUME ChatInv, NEW p \in Pages, Ask(p)
  PROVE  ChatInv'
<1>1. seen[p] \in 0 .. MaxMessages
  BY ChatParts DEF PagesTyped
<1>2. PollsTyped'
  BY <1>1, AskIsPoll, PolledOn DEF Ask
<1> QED BY <1>2, Unchanged, ChatPartsAfter DEF Ask

LEMMA ListMessagesKeeps ==
  ASSUME ChatInv, NEW p \in Pages, ListMessages(p)
  PROVE  ChatInv'
<1> DEFINE rest == SubSeq(Chat, poll[p].since + 1, Len(Chat))
           to == [poll[p] EXCEPT !.at = "answered", !.body = rest]
<1>1. poll[p] \in Polls
  BY ChatParts DEF PollsTyped
<1>2. poll[p].since \in Nat
  BY <1>1, ChatConstants DEF Polls
<1>3. Chat \in Seq(Messages) /\ IsInjective(Chat)
  BY ChatOnce DEF ChatInv
<1>4. rest \in Seq(Messages) /\ IsInjective(rest)
  BY <1>2, <1>3, RestIsOnce
<1> HIDE DEF rest
<1>5. to \in Polls /\ to.body = rest
  BY <1>1, <1>4 DEF Polls
<1>6. Goto(p, to)
  BY DEF ListMessages, rest
<1> HIDE DEF to
<1>7. PollsTyped'
  BY <1>4, <1>5, <1>6, PolledOn
<1> QED BY <1>7, Unchanged, ChatPartsAfter DEF ListMessages

LEMMA ReceiveKeeps ==
  ASSUME ChatInv, NEW p \in Pages, Receive(p)
  PROVE  ChatInv'
<1>1. poll[p] \in Polls /\ IsInjective(poll[p].body)
  BY ChatParts DEF PollsTyped
<1>2. poll[p].body \in Seq(Messages)
  BY <1>1 DEF Polls
<1>3. PagesMerged
  BY <1>1, <1>2, MergeKeeps DEF Receive
<1>4. PollsTyped'
  BY DueIsPoll, PolledOn DEF Receive
<1> QED BY <1>3, <1>4, Unchanged, ChatPartsAfter DEF Receive

LEMMA PollEndsKeeps ==
  ASSUME ChatInv, NEW p \in Pages, PollFails(p) \/ PollDenied(p)
  PROVE  ChatInv'
<1>1. PollsTyped'
  <2>1. CASE PollFails(p)
    BY <2>1, DueIsPoll, PolledOn DEF PollFails
  <2>2. CASE PollDenied(p)
    <3>1. 0 \in 0 .. MaxMessages
      BY ChatConstants
    <3>2. [Due EXCEPT !.at = "ended"] \in Polls /\ IsInjective([Due EXCEPT !.at = "ended"].body)
      BY <3>1, AskIsPoll
    <3> QED BY <2>2, <3>2, PolledOn DEF PollDenied
  <2> QED BY <2>1, <2>2
<1> QED BY <1>1, Unchanged, ChatPartsAfter DEF PollFails, PollDenied

LEMMA ReloadKeeps ==
  ASSUME ChatInv, NEW p \in Pages, Reload(p)
  PROVE  ChatInv'
<1>1. PollsTyped'
  BY DueIsPoll, PolledOn DEF Reload
<1>2. PagesTyped'
  <2>1. /\ messages' = [messages EXCEPT ![p] = <<>>] /\ seen' = [seen EXCEPT ![p] = 0]
        /\ 0 \in 0 .. MaxMessages
    BY ChatConstants DEF Reload
  <2>2. \A q \in Pages : messages'[q] = <<>> \/ messages'[q] = messages[q]
    BY <2>1, ChatParts DEF PagesTyped
  <2> QED BY <2>1, <2>2, ChatParts, EmptyIsOnce DEF PagesTyped
<1>3. WritesTyped'
  BY ChatParts DEF WritesTyped, Reload
<1>4. OvertakenTyped'
  <2>1. overtaken' = [overtaken EXCEPT ![p] = @ \cap inserting]
    BY DEF Reload
  <2>2. overtaken \in [Pages -> SUBSET Messages]
    BY ChatParts DEF OvertakenTyped
  <2> QED BY <2>1, <2>2 DEF OvertakenTyped
<1> QED BY <1>1, <1>2, <1>3, <1>4, Unchanged, ChatPartsAfter DEF Reload

LEMMA NextChatInv == ChatInv /\ [ChatNext]_chatVars => ChatInv'
<1> SUFFICES ASSUME ChatInv, [ChatNext]_chatVars PROVE ChatInv'
  OBVIOUS
<1>1. CASE UNCHANGED chatVars
  BY <1>1, Unchanged, ChatPartsAfter DEF chatVars, pages
<1>2. ASSUME NEW p \in Pages,
             Send(p) \/ Ask(p) \/ ListMessages(p) \/ Receive(p)
             \/ PollFails(p) \/ PollDenied(p) \/ Reload(p)
      PROVE  ChatInv'
  BY <1>2, SendKeeps, AskKeeps, ListMessagesKeeps, ReceiveKeeps, PollEndsKeeps, ReloadKeeps
<1>3. ASSUME NEW m \in Messages, Commit(m) \/ Sent(m) \/ SendFails(m)
      PROVE  ChatInv'
  BY <1>3, CommitKeeps, SentKeeps, SendFailsKeeps
<1> QED BY <1>1, <1>2, <1>3 DEF ChatNext

(* No page of a chat shows a message twice, and no answer on its way       *)
(* repeats one.                                                            *)
THEOREM ChatInvariance == ChatSpec => []ChatInv
<1>1. ChatInit => ChatInv
  BY InitChatInv
<1>2. ChatInv /\ [ChatNext]_chatVars => ChatInv'
  BY NextChatInv
<1>3. QED BY <1>1, <1>2, PTL DEF ChatSpec

(* All variables of the chat keep their types.                             *)
THEOREM ChatTypes == ChatSpec => []ChatTypeOK
<1>1. ChatInv => ChatTypeOK
  BY DEF ChatInv
<1>2. QED BY <1>1, ChatInvariance, PTL

(* A message reaches its author twice, by the POST's answer and by a poll; *)
(* no page ever shows it twice.                                            *)
THEOREM MessagesShownOnce == ChatSpec => []ShownOnce
<1>1. ChatInv => ShownOnce
  BY DEF ChatInv, Once, ShownOnce
<1>2. QED BY <1>1, ChatInvariance, PTL

-----------------------------------------------------------------------------
(* An INSERT commits only if none that was stamped before it is under way. *)
CommitInOrder == \A m \in inserting : m \notin inserting' => \A k \in inserting : m <= k

(* What is visible was stamped before everything that is not.              *)
StoredFirst == \A k \in Stored, m \in inserting : k < m

(* A page that only listens shows the messages 1, 2, 3, ... of the chat, it *)
(* asks for what follows them, and the answer begins there.                *)
Numbered(p) ==
  /\ seen[p] = Len(messages[p])
  /\ \A i \in DOMAIN messages[p] : messages[p][i] = i /\ i \in Stored
  /\ poll[p].at = "asking" => poll[p].since = seen[p]
  /\ \A i \in DOMAIN poll[p].body : poll[p].body[i] = seen[p] + i /\ seen[p] + i \in Stored

Listeners == Pages \ Senders
PrefixInv == ChatInv /\ StoredFirst /\ \A p \in Listeners : Numbered(p)

(* If what is visible was stamped first, the chat is 1, 2, 3, ...          *)
LEMMA ChatCounts ==
  ASSUME ChatInv, StoredFirst
  PROVE  \E k \in Nat : Stored = 1 .. k /\ Chat = [i \in 1 .. k |-> i]
<1> DEFINE n == Len(author)
           list == [m \in DOMAIN author |-> m]
<1>1. n \in Nat /\ DOMAIN author = 1 .. n /\ inserting \subseteq 1 .. n
  BY ChatParts DEF AuthorTyped, WritesTyped
<1> HIDE DEF n
<1>2. \E k \in 0 .. n : Stored = 1 .. k
  <2>1. CASE inserting = {}
    BY <1>1, <2>1 DEF Stored
  <2>2. CASE inserting # {}
    <3>1. PICK m \in inserting : \A j \in inserting : m <= j
      BY <1>1, <2>2, Least
    <3>2. m \in 1 .. n /\ m - 1 \in 0 .. n
      BY <1>1
    <3>3. \A i \in 1 .. m - 1 : i \in 1 .. n /\ i \notin inserting
      BY <1>1, <3>1, <3>2
    <3>4. \A i \in Stored : i \in 1 .. n /\ i < m
      BY <1>1 DEF Stored, StoredFirst
    <3>5. Stored = 1 .. m - 1
      BY <1>1, <3>2, <3>3, <3>4 DEF Stored
    <3> QED BY <3>2, <3>5
  <2> QED BY <2>1, <2>2
<1>3. PICK k \in 0 .. n : Stored = 1 .. k
  BY <1>2
<1>4. DOMAIN list = 1 .. n /\ \A i \in 1 .. n : list[i] = i /\ (list[i] \in Stored <=> i <= k)
  BY <1>1, <1>3
<1>5. Chat = Only(list, Stored)
  BY DEF Chat
<1> HIDE DEF list
<1>6. Only(list, Stored) = [i \in 1 .. k |-> list[i]]
  <2>1. PassesFirst(list, Stored, n, k)
    BY <1>4 DEF PassesFirst
  <2>2. Only(list, Stored) = FirstOf(list, k)
    BY <1>1, <2>1, OnlyTheFirst
  <2> QED BY <2>2 DEF FirstOf
<1>7. \A i \in 1 .. k : list[i] = i
  BY <1>1, <1>4
<1>8. Chat = [i \in 1 .. k |-> i]
  BY <1>5, <1>6, <1>7
<1> QED BY <1>1, <1>3, <1>8

(* So a listener shows the beginning of the chat.                          *)
LEMMA NumberedIsPrefix == PrefixInv => ListenersShowPrefix
<1> SUFFICES ASSUME PrefixInv, NEW p \in Listeners PROVE IsPrefix(messages[p], Chat)
  BY DEF ListenersShowPrefix, Listeners
<1> DEFINE s == messages[p]
           l == Len(s)
<1>1. PICK k \in Nat : Stored = 1 .. k /\ Chat = [i \in 1 .. k |-> i]
  BY ChatCounts DEF PrefixInv
<1>2. s \in Seq(Messages) /\ \A i \in DOMAIN s : s[i] = i /\ i \in Stored
  BY ChatParts DEF PrefixInv, PagesTyped, Numbered, Listeners
<1> HIDE DEF s
<1>3. l \in Nat /\ DOMAIN s = 1 .. l
  BY <1>2
<1>4. Len(Chat) = k /\ Chat \in Seq(Nat) /\ \A i \in 1 .. k : Chat[i] = i
  BY <1>1
<1>5. l <= k
  <2>1. CASE l = 0
    BY <2>1
  <2>2. CASE l # 0
    <3>1. l \in DOMAIN s
      BY <1>3, <2>2
    <3>2. l \in 1 .. k
      BY <1>1, <1>2, <3>1
    <3> QED BY <3>2
  <2> QED BY <2>1, <2>2
<1> HIDE DEF l
<1>6. SubSeq(s, 1, l) = [i \in 1 .. l |-> i]
  <2>1. SubSeq(s, 1, l) = s
    BY <1>2, <1>3 DEF l
  <2>2. s = [i \in 1 .. l |-> s[i]]
    BY <1>2, <1>3
  <2>3. \A i \in 1 .. l : s[i] = i
    BY <1>2, <1>3
  <2> QED BY <2>1, <2>2, <2>3
<1>7. SubSeq(Chat, 1, l) = [i \in 1 .. l |-> i]
  <2> DEFINE b == SubSeq(Chat, 1, l)
  <2>1. b \in Seq(Nat) /\ DOMAIN b = 1 .. l /\ \A i \in 1 .. l : b[i] = Chat[i]
    BY <1>3, <1>4, <1>5
  <2> HIDE DEF b
  <2>2. b = [i \in 1 .. l |-> b[i]]
    BY <2>1
  <2>3. \A i \in 1 .. l : b[i] = i
    BY <1>3, <1>4, <1>5, <2>1
  <2>4. b = [i \in 1 .. l |-> i]
    BY <2>2, <2>3
  <2> QED BY <2>4 DEF b
<1> QED BY <1>4, <1>5, <1>6, <1>7 DEF IsPrefix, l, s

(* What an action that leaves a page alone leaves true of it.              *)
LEMMA StillNumbered ==
  ASSUME NEW p, Numbered(p), Stored \subseteq Stored',
         messages'[p] = messages[p], seen'[p] = seen[p], poll'[p] = poll[p]
  PROVE  Numbered(p)'
BY DEF Numbered

(* Sending adds nothing to what is visible, a commit one message.          *)
LEMMA StoredBySend ==
  ASSUME ChatInv, StoredFirst, NEW p, Send(p)
  PROVE  Stored' = Stored /\ StoredFirst'
<1> DEFINE n == Len(author)
<1>1. n \in Nat /\ author \in Seq(Senders) /\ p \in Senders /\ DOMAIN author = 1 .. n
      /\ inserting \subseteq 1 .. n
  BY ChatParts DEF AuthorTyped, WritesTyped, Send
<1>2. author' = Append(author, p)
  BY DEF Send
<1>3. Len(author') = n + 1 /\ DOMAIN author' = 1 .. n + 1
  BY <1>1, <1>2
<1>4. inserting' = inserting \cup {n + 1}
  BY <1>3 DEF Send
<1> HIDE DEF n
<1>5. (1 .. n + 1) \ (inserting \cup {n + 1}) = (1 .. n) \ inserting
  BY <1>1
<1>6. Stored' = Stored /\ Stored \subseteq 1 .. n
  BY <1>1, <1>3, <1>4, <1>5 DEF Stored
<1>7. \A k \in 1 .. n : k < n + 1
  BY <1>1
<1> QED BY <1>4, <1>6, <1>7 DEF StoredFirst

LEMMA StoredByCommit ==
  ASSUME ChatInv, StoredFirst, NEW m, Commit(m), CommitInOrder
  PROVE  Stored \subseteq Stored' /\ StoredFirst'
<1>1. m \in inserting /\ inserting' = inserting \ {m} /\ author' = author
  BY DEF Commit
<1>2. inserting \subseteq DOMAIN author /\ DOMAIN author \subseteq Nat
  BY ChatParts DEF AuthorTyped, WritesTyped
<1>3. Stored' = Stored \cup {m}
  BY <1>1, <1>2 DEF Stored
<1>4. \A k \in inserting : m <= k
  BY <1>1 DEF CommitInOrder
<1>5. ASSUME NEW k \in inserting \ {m} PROVE m < k
  BY <1>1, <1>2, <1>4
<1> QED BY <1>1, <1>3, <1>5 DEF StoredFirst

(* The other actions touch neither.                                        *)
LEMMA StoredOtherwise ==
  ASSUME StoredFirst, UNCHANGED <<author, inserting>>
  PROVE  Stored' = Stored /\ StoredFirst'
BY DEF Stored, StoredFirst

LEMMA AskNumbered ==
  ASSUME ChatInv, NEW p \in Pages, Numbered(p), Ask(p), Stored' = Stored
  PROVE  Numbered(p)'
<1> DEFINE to == [Due EXCEPT !.at = "asking", !.since = seen[p]]
<1>1. seen[p] \in 0 .. MaxMessages /\ poll \in [Pages -> Polls]
  BY ChatParts DEF PagesTyped, PollsTyped
<1>2. to = [at |-> "asking", since |-> seen[p], body |-> <<>>]
  BY <1>1, AskIsPoll
<1>3. poll' = [poll EXCEPT ![p] = to] /\ messages' = messages /\ seen' = seen
  BY DEF Ask, Goto
<1> HIDE DEF to
<1>4. poll'[p] = to
  BY <1>1, <1>3
<1>5. poll'[p].since = seen[p] /\ poll'[p].body = <<>>
  BY <1>2, <1>4
<1> QED BY <1>3, <1>5 DEF Numbered

LEMMA ListNumbered ==
  ASSUME ChatInv, StoredFirst, NEW p \in Pages, Numbered(p), ListMessages(p), Stored' = Stored
  PROVE  Numbered(p)'
<1> DEFINE since == poll[p].since
           rest == SubSeq(Chat, since + 1, Len(Chat))
           to == [poll[p] EXCEPT !.at = "answered", !.body = rest]
<1>1. poll \in [Pages -> Polls] /\ poll[p] \in Polls
  BY ChatParts DEF PollsTyped
<1>2. since \in Nat /\ since = seen[p]
  BY <1>1, ChatConstants DEF Polls, Numbered, ListMessages
<1>3. poll' = [poll EXCEPT ![p] = to] /\ messages' = messages /\ seen' = seen
  BY DEF ListMessages, Goto
<1>4. PICK k \in Nat : Stored = 1 .. k /\ Chat = [i \in 1 .. k |-> i]
  BY ChatCounts
<1>5. Chat \in Seq(Nat) /\ Len(Chat) = k /\ \A i \in 1 .. k : Chat[i] = i
  BY <1>4
<1> HIDE DEF since
<1>6. \A i \in DOMAIN rest : rest[i] = since + i /\ since + i \in 1 .. k
  <2>1. CASE since >= k
    <3>1. rest = <<>>
      BY <1>2, <1>5, <2>1
    <3> HIDE DEF rest
    <3>2. DOMAIN rest = {}
      BY <3>1
    <3> QED BY <3>2
  <2>2. CASE since < k
    <3>1. /\ DOMAIN rest = 1 .. Len(Chat) - since
          /\ \A i \in 1 .. Len(Chat) - since : rest[i] = Chat[since + i]
      BY <1>2, <1>5, <2>2
    <3>2. \A i \in 1 .. k - since : since + i \in 1 .. k
      BY <1>2, <2>2
    <3> HIDE DEF rest
    <3>3. \A i \in 1 .. k - since : rest[i] = Chat[since + i]
      BY <1>5, <3>1
    <3> QED BY <1>5, <3>1, <3>2, <3>3
  <2> HIDE DEF rest
  <2> QED BY <1>2, <2>1, <2>2
<1> HIDE DEF rest
<1>7. to.at = "answered" /\ to.body = rest
  BY <1>1 DEF Polls
<1> HIDE DEF to
<1>8. poll'[p] = to
  BY <1>1, <1>3
<1> QED BY <1>2, <1>3, <1>4, <1>6, <1>7, <1>8 DEF Numbered

LEMMA ReceiveNumbered ==
  ASSUME ChatInv, NEW p \in Pages, Numbered(p), Receive(p), Stored' = Stored
  PROVE  Numbered(p)'
<1> DEFINE old == messages[p]
           body == poll[p].body
           fresh == Only(body, Messages \ ToSet(old))
           l == Len(old)
           n == Len(body)
<1>1. /\ poll \in [Pages -> Polls] /\ poll[p] \in Polls
      /\ messages \in [Pages -> Seq(Messages)] /\ seen \in [Pages -> 0 .. MaxMessages]
  BY ChatParts DEF PollsTyped, PagesTyped
<1>2. body \in Seq(Messages) /\ old \in Seq(Messages)
  BY <1>1 DEF Polls
<1>3. /\ messages' = [messages EXCEPT ![p] = old \o fresh]
      /\ seen' = [seen EXCEPT ![p] = IF body = <<>> THEN @ ELSE Len(messages'[p])]
  BY Zenon DEF Receive, Merge
<1>4. /\ seen[p] = l
      /\ \A i \in DOMAIN old : old[i] = i /\ i \in Stored
      /\ \A i \in DOMAIN body : body[i] = l + i /\ l + i \in Stored
  BY DEF Numbered
<1> HIDE DEF old, body
<1>5. l \in Nat /\ n \in Nat /\ DOMAIN old = 1 .. l /\ DOMAIN body = 1 .. n
  BY <1>2
<1>6. \A i \in 1 .. n : body[i] \in Messages \ ToSet(old)
  <2>1. ToSet(old) \subseteq 1 .. l
    BY <1>4, <1>5 DEF ToSet
  <2>2. \A i \in 1 .. n : body[i] = l + i /\ l + i \notin 1 .. l
    BY <1>4, <1>5
  <2>3. \A i \in 1 .. n : body[i] \in Messages
    BY <1>2, <1>5
  <2> QED BY <2>1, <2>2, <2>3
<1>7. fresh = body
  <2> HIDE DEF n
  <2>1. PassesFirst(body, Messages \ ToSet(old), n, n)
    BY <1>5, <1>6 DEF PassesFirst
  <2>2. n \in 0 .. n
    BY <1>5
  <2>3. fresh = FirstOf(body, n)
    BY <1>5, <2>1, <2>2, OnlyTheFirst
  <2>4. body = [i \in 1 .. n |-> body[i]]
    BY <1>2, <1>5
  <2> QED BY <2>3, <2>4 DEF FirstOf
<1> HIDE DEF fresh
<1>8. messages'[p] = old \o body
  BY <1>1, <1>3, <1>7
<1>9. /\ Len(old \o body) = l + n /\ DOMAIN (old \o body) = 1 .. l + n
      /\ \A i \in 1 .. l : (old \o body)[i] = old[i]
      /\ \A i \in l + 1 .. l + n : (old \o body)[i] = body[i - l] /\ i - l \in 1 .. n
  BY <1>2, <1>5
<1> HIDE DEF l, n
<1>10. seen'[p] = l + n
  <2>1. seen'[p] = IF body = <<>> THEN seen[p] ELSE Len(messages'[p])
    BY <1>1, <1>3
  <2>2. body = <<>> => n = 0
    BY DEF n
  <2> QED BY <1>4, <1>5, <1>8, <1>9, <2>1, <2>2
<1>11. \A i \in 1 .. l + n : messages'[p][i] = i /\ i \in Stored
  <2>1. ASSUME NEW i \in 1 .. l PROVE messages'[p][i] = i /\ i \in Stored
    BY <1>4, <1>5, <1>8, <1>9
  <2>2. ASSUME NEW i \in l + 1 .. l + n PROVE messages'[p][i] = i /\ i \in Stored
    <3>1. messages'[p][i] = body[i - l] /\ i - l \in 1 .. n
      BY <1>8, <1>9
    <3>2. body[i - l] = l + (i - l) /\ l + (i - l) \in Stored
      BY <1>4, <1>5, <3>1
    <3>3. l + (i - l) = i
      BY <1>5
    <3> QED BY <3>1, <3>2, <3>3
  <2>3. \A i \in 1 .. l + n : i \in 1 .. l \/ i \in l + 1 .. l + n
    BY <1>5
  <2> QED BY <2>1, <2>2, <2>3
<1>12. poll'[p] = Due
  BY <1>1 DEF Receive, Goto
<1>13. poll'[p].at = "due" /\ poll'[p].body = <<>>
  BY <1>12 DEF Due
<1> QED BY <1>8, <1>9, <1>10, <1>11, <1>13 DEF Numbered

LEMMA PollEndsNumbered ==
  ASSUME ChatInv, NEW p \in Pages, Numbered(p), PollFails(p) \/ PollDenied(p), Stored' = Stored
  PROVE  Numbered(p)'
<1>1. poll \in [Pages -> Polls]
  BY ChatParts DEF PollsTyped
<1>2. poll'[p].at # "asking" /\ poll'[p].body = <<>>
  <2>1. CASE PollFails(p)
    <3>1. poll'[p] = Due
      BY <1>1, <2>1 DEF PollFails, Goto
    <3> QED BY <3>1 DEF Due
  <2>2. CASE PollDenied(p)
    <3>1. 0 \in 0 .. MaxMessages
      BY ChatConstants
    <3>2. poll'[p] = [at |-> "ended", since |-> 0, body |-> <<>>]
      BY <1>1, <2>2, <3>1, AskIsPoll DEF PollDenied, Goto
    <3> QED BY <3>2
  <2> QED BY <2>1, <2>2
<1>3. messages' = messages /\ seen' = seen
  BY DEF PollFails, PollDenied
<1> QED BY <1>2, <1>3 DEF Numbered

LEMMA ReloadNumbered ==
  ASSUME ChatInv, NEW p \in Pages, Reload(p)
  PROVE  Numbered(p)'
<1>1. poll \in [Pages -> Polls] /\ messages \in [Pages -> Seq(Messages)]
      /\ seen \in [Pages -> 0 .. MaxMessages]
  BY ChatParts DEF PollsTyped, PagesTyped
<1>2. poll'[p] = Due /\ messages'[p] = <<>> /\ seen'[p] = 0
  BY <1>1 DEF Reload, Goto
<1>3. poll'[p].at = "due" /\ poll'[p].body = <<>> /\ Len(messages'[p]) = 0 /\ DOMAIN messages'[p] = {}
  BY <1>2 DEF Due
<1> QED BY <1>2, <1>3 DEF Numbered

(* A page's own step; the other pages do not notice.                       *)
OwnStep(q) ==
  \/ Ask(q) \/ ListMessages(q) \/ Receive(q) \/ PollFails(q) \/ PollDenied(q) \/ Reload(q)

LEMMA OthersUntouched ==
  ASSUME ChatInv, NEW q \in Pages, OwnStep(q), NEW p \in Pages, p # q
  PROVE  messages'[p] = messages[p] /\ seen'[p] = seen[p] /\ poll'[p] = poll[p]
<1>1. poll \in [Pages -> Polls] /\ messages \in [Pages -> Seq(Messages)]
      /\ seen \in [Pages -> 0 .. MaxMessages]
  BY ChatParts DEF PollsTyped, PagesTyped
<1>2. poll'[p] = poll[p]
  BY <1>1 DEF OwnStep, Ask, ListMessages, Receive, PollFails, PollDenied, Reload, Goto
<1>3. messages'[p] = messages[p] /\ seen'[p] = seen[p]
  BY <1>1 DEF OwnStep, Ask, ListMessages, Receive, PollFails, PollDenied, Reload, Merge
<1> QED BY <1>2, <1>3

LEMMA OwnStepNumbered ==
  ASSUME PrefixInv, NEW q \in Pages, OwnStep(q)
  PROVE  StoredFirst' /\ \A p \in Listeners : Numbered(p)'
<1>1. UNCHANGED <<author, inserting>>
  BY DEF OwnStep, Ask, ListMessages, Receive, PollFails, PollDenied, Reload
<1>2. Stored' = Stored /\ StoredFirst'
  BY <1>1, StoredOtherwise DEF PrefixInv
<1>3. ASSUME NEW p \in Listeners PROVE Numbered(p)'
  <2>1. Numbered(p) /\ ChatInv /\ StoredFirst /\ p \in Pages
    BY DEF PrefixInv, Listeners
  <2>2. CASE p # q
    BY <1>2, <2>1, <2>2, OthersUntouched, StillNumbered
  <2>3. CASE p = q
    BY <1>2, <2>1, <2>3, AskNumbered, ListNumbered, ReceiveNumbered, PollEndsNumbered,
       ReloadNumbered DEF OwnStep
  <2> QED BY <2>2, <2>3
<1> QED BY <1>2, <1>3

LEMMA SentNumbered ==
  ASSUME PrefixInv, NEW m, Sent(m)
  PROVE  StoredFirst' /\ \A p \in Listeners : Numbered(p)'
<1>1. UNCHANGED <<author, inserting>>
  BY DEF Sent
<1>2. Stored' = Stored /\ StoredFirst'
  BY <1>1, StoredOtherwise DEF PrefixInv
<1>3. m \in awaited /\ ChatInv
  BY DEF Sent, PrefixInv
<1>4. author[m] \in Senders
  BY <1>3, AuthorIsPage
<1>5. messages \in [Pages -> Seq(Messages)] /\ seen \in [Pages -> 0 .. MaxMessages]
  BY <1>3, ChatParts DEF PagesTyped
<1>6. ASSUME NEW p \in Listeners PROVE Numbered(p)'
  <2>1. Numbered(p) /\ p # author[m] /\ p \in Pages
    BY <1>4 DEF PrefixInv, Listeners
  <2>2. messages'[p] = messages[p] /\ seen'[p] = seen[p]
    BY <1>5, <2>1 DEF Sent, Merge
  <2>3. poll'[p] = poll[p]
    BY DEF Sent
  <2> QED BY <1>2, <2>1, <2>2, <2>3, StillNumbered
<1> QED BY <1>2, <1>6

LEMMA PagesUntouched ==
  ASSUME PrefixInv, UNCHANGED pages, Stored \subseteq Stored'
  PROVE  \A p \in Listeners : Numbered(p)'
BY StillNumbered DEF PrefixInv, pages

LEMMA InitPrefixInv == ChatInit => PrefixInv
<1> SUFFICES ASSUME ChatInit PROVE PrefixInv
  OBVIOUS
<1>1. ChatInv
  BY InitChatInv
<1>2. StoredFirst
  BY DEF ChatInit, StoredFirst
<1>3. ASSUME NEW p \in Listeners PROVE Numbered(p)
  <2>1. messages[p] = <<>> /\ seen[p] = 0 /\ poll[p] = Due
    BY DEF ChatInit, Listeners
  <2>2. poll[p].at = "due" /\ poll[p].body = <<>> /\ Len(messages[p]) = 0 /\ DOMAIN messages[p] = {}
    BY <2>1 DEF Due
  <2> QED BY <2>1, <2>2 DEF Numbered
<1> QED BY <1>1, <1>2, <1>3 DEF PrefixInv

LEMMA NextPrefixInv ==
  PrefixInv /\ [ChatNext]_chatVars /\ [CommitInOrder]_chatVars => PrefixInv'
<1> SUFFICES ASSUME PrefixInv, [ChatNext]_chatVars, [CommitInOrder]_chatVars PROVE PrefixInv'
  OBVIOUS
<1>1. ChatInv' /\ ChatInv /\ StoredFirst
  BY NextChatInv DEF PrefixInv
<1>2. CASE UNCHANGED chatVars
  <2>1. UNCHANGED <<author, inserting>> /\ UNCHANGED pages
    BY <1>2 DEF chatVars
  <2>2. Stored' = Stored /\ StoredFirst'
    BY <1>1, <2>1, StoredOtherwise
  <2> QED BY <1>1, <2>1, <2>2, PagesUntouched DEF PrefixInv
<1>3. ASSUME CommitInOrder, NEW p \in Pages, Send(p) PROVE PrefixInv'
  <2>1. Stored' = Stored /\ StoredFirst'
    BY <1>1, <1>3, StoredBySend
  <2>2. UNCHANGED pages
    BY <1>3 DEF Send
  <2> QED BY <1>1, <2>1, <2>2, PagesUntouched DEF PrefixInv
<1>4. ASSUME CommitInOrder, NEW p \in Pages, OwnStep(p) PROVE PrefixInv'
  BY <1>1, <1>4, OwnStepNumbered DEF PrefixInv
<1>5. ASSUME CommitInOrder, NEW m \in Messages, Commit(m) PROVE PrefixInv'
  <2>1. Stored \subseteq Stored' /\ StoredFirst'
    BY <1>1, <1>5, StoredByCommit
  <2>2. UNCHANGED pages
    BY <1>5 DEF Commit
  <2> QED BY <1>1, <2>1, <2>2, PagesUntouched DEF PrefixInv
<1>6. ASSUME CommitInOrder, NEW m \in Messages, Sent(m) PROVE PrefixInv'
  BY <1>1, <1>6, SentNumbered DEF PrefixInv
<1>7. ASSUME CommitInOrder, NEW m \in Messages, SendFails(m) PROVE PrefixInv'
  <2>1. UNCHANGED <<author, inserting>> /\ UNCHANGED pages
    BY <1>7 DEF SendFails
  <2>2. Stored' = Stored /\ StoredFirst'
    BY <1>1, <2>1, StoredOtherwise
  <2> QED BY <1>1, <2>1, <2>2, PagesUntouched DEF PrefixInv
<1> QED BY <1>2, <1>3, <1>4, <1>5, <1>6, <1>7 DEF ChatNext, OwnStep

(* As long as INSERTs commit in the order of their stamps, a page that     *)
(* only listens shows the chat from its start, in the server's order and   *)
(* without a gap, however many of them overlap.                            *)
THEOREM OrderedCommitsShowPrefix ==
  ChatSpec /\ [][CommitInOrder]_chatVars => []ListenersShowPrefix
<1>1. ChatInit => PrefixInv
  BY InitPrefixInv
<1>2. PrefixInv /\ [ChatNext]_chatVars /\ [CommitInOrder]_chatVars => PrefixInv'
  BY NextPrefixInv
<1>3. PrefixInv => ListenersShowPrefix
  BY NumberedIsPrefix
<1>4. QED BY <1>1, <1>2, <1>3, PTL DEF ChatSpec
-----------------------------------------------------------------------------
(* A filter misses nothing and keeps the order of the list.                *)
Ascending(list) == \A i, j \in DOMAIN list : i < j => list[i] < list[j]

LEMMA OnlyMissesNothing ==
  ASSUME NEW S, NEW list \in Seq(S), NEW set, NEW i \in DOMAIN list, list[i] \in set
  PROVE  list[i] \in ToSet(Only(list, set))
<1> DEFINE n == Len(list)
<1>1. n \in Nat /\ DOMAIN list = 1 .. n /\ \A j \in 1 .. n : list[j] \in S
  OBVIOUS
<1> HIDE DEF n
<1>2. PICK after : Keeps(after, list, set, n)
  BY <1>1, ElementByElement
<1> DEFINE Has(s, k) == s \in Seq(S) /\ (i <= k => \E j \in DOMAIN s : s[j] = list[i])
           W == {k \in Nat : k <= n => Has(after[k], k)}
<1>3. 0 \in W
  <2>1. after[0] = <<>> /\ ~ (i <= 0)
    BY <1>1, <1>2 DEF Keeps
  <2>2. <<>> \in Seq(S)
    OBVIOUS
  <2>3. Has(after[0], 0)
    BY <2>1, <2>2, Zenon
  <2> QED BY <2>3
<1>4. ASSUME NEW k \in Nat, k \in W PROVE k + 1 \in W
  <2> SUFFICES ASSUME k + 1 <= n PROVE Has(after[k + 1], k + 1)
    OBVIOUS
  <2> DEFINE s == after[k]
             m == list[k + 1]
             t == after[k + 1]
  <2>1. Has(s, k)
    BY <1>1, <1>4
  <2>2. t = KeepIf(s, m, set)
    BY <1>1, <1>2 DEF Keeps
  <2>3. k + 1 \in 1 .. n /\ m \in S /\ i \in 1 .. n
    BY <1>1
  <2>4. i <= k + 1 => i <= k \/ i = k + 1
    BY <2>3
  <2>5. CASE m \notin set
    <3>1. t = s /\ i # k + 1
      BY <2>2, <2>5 DEF KeepIf
    <3> HIDE DEF s, t, m
    <3>2. Has(t, k + 1)
      BY <2>1, <2>4, <3>1
    <3> QED BY <3>2 DEF t
  <2>6. CASE m \in set
    <3>1. t = Append(s, m) /\ s \in Seq(S)
      BY <2>1, <2>2, <2>6 DEF KeepIf
    <3> DEFINE l == Len(s)
    <3> HIDE DEF s, t
    <3>2. /\ l \in Nat /\ DOMAIN s = 1 .. l /\ t \in Seq(S) /\ DOMAIN t = 1 .. l + 1
          /\ \A j \in 1 .. l : t[j] = s[j] /\ j \in 1 .. l + 1
          /\ t[l + 1] = m /\ l + 1 \in 1 .. l + 1
      BY <2>3, <3>1
    <3> HIDE DEF l
    <3>3. i <= k + 1 => \E j \in DOMAIN t : t[j] = list[i]
      BY <2>1, <2>4, <3>2 DEF m
    <3>4. Has(t, k + 1)
      BY <3>2, <3>3
    <3> QED BY <3>4 DEF t
  <2> QED BY <2>5, <2>6
<1>5. n \in W
  <2> HIDE DEF W
  <2> QED BY <1>1, <1>3, <1>4, Induction
<1>6. Only(list, set) = after[n] /\ i <= n
  BY <1>1, <1>2 DEF Keeps
<1>7. PICK j \in DOMAIN Only(list, set) : Only(list, set)[j] = list[i]
  BY <1>1, <1>5, <1>6
<1> QED BY <1>7 DEF ToSet

LEMMA OnlyKeepsOrder ==
  ASSUME NEW list \in Seq(Nat), NEW set, Ascending(list)
  PROVE  Ascending(Only(list, set))
<1> DEFINE n == Len(list)
<1>1. n \in Nat /\ DOMAIN list = 1 .. n /\ \A j \in 1 .. n : list[j] \in Nat
  OBVIOUS
<1> HIDE DEF n
<1>2. PICK after : Keeps(after, list, set, n)
  BY <1>1, ElementByElement
<1> DEFINE Ordered(s, k) ==
             /\ s \in Seq(Nat)
             /\ \A i \in DOMAIN s : \E j \in 1 .. k : s[i] = list[j]
             /\ Ascending(s)
           W == {k \in Nat : k <= n => Ordered(after[k], k)}
<1>3. 0 \in W
  <2>1. after[0] = <<>>
    BY <1>2 DEF Keeps
  <2>2. <<>> \in Seq(Nat) /\ DOMAIN <<>> = {} /\ Ascending(<<>>)
    BY DEF Ascending
  <2>3. Ordered(after[0], 0)
    BY <2>1, <2>2
  <2> QED BY <2>3
<1>4. ASSUME NEW k \in Nat, k \in W PROVE k + 1 \in W
  <2> SUFFICES ASSUME k + 1 <= n PROVE Ordered(after[k + 1], k + 1)
    OBVIOUS
  <2> DEFINE s == after[k]
             m == list[k + 1]
             t == after[k + 1]
  <2>1. Ordered(s, k)
    BY <1>1, <1>4
  <2>2. t = KeepIf(s, m, set)
    BY <1>1, <1>2 DEF Keeps
  <2>3. k + 1 \in 1 .. n /\ m \in Nat /\ \A j \in 1 .. k : j \in 1 .. k + 1 /\ list[j] < m
    BY <1>1 DEF Ascending
  <2>4. \A i \in DOMAIN s : \E j \in 1 .. k + 1 : s[i] = list[j]
    BY <2>1, <2>3
  <2>5. CASE m \notin set
    <3>1. t = s
      BY <2>2, <2>5 DEF KeepIf
    <3> HIDE DEF s, t, m
    <3>2. Ordered(s, k + 1)
      BY <2>1, <2>4
    <3>3. Ordered(t, k + 1)
      BY <3>1, <3>2, Zenon
    <3> QED BY <3>3, Zenon DEF t
  <2>6. CASE m \in set
    <3>1. t = Append(s, m) /\ s \in Seq(Nat)
      BY <2>1, <2>2, <2>6 DEF KeepIf
    <3> DEFINE l == Len(s)
    <3> HIDE DEF s, t
    <3>2. /\ l \in Nat /\ DOMAIN s = 1 .. l /\ t \in Seq(Nat) /\ DOMAIN t = 1 .. l + 1
          /\ \A j \in 1 .. l : t[j] = s[j]
          /\ t[l + 1] = m
      BY <2>3, <3>1
    <3> HIDE DEF l
    <3>3. \A i \in 1 .. l + 1 : i \in 1 .. l \/ i = l + 1
      BY <3>2
    <3>4. \A i \in DOMAIN t : \E j \in 1 .. k + 1 : t[i] = list[j]
      BY <2>3, <2>4, <3>2, <3>3 DEF m
    <3>5. \A i \in 1 .. l : s[i] < m
      <4> HIDE DEF m
      <4> QED BY <2>1, <2>3, <3>2
    <3>6. Ascending(t)
      <4> SUFFICES ASSUME NEW a \in 1 .. l + 1, NEW b \in 1 .. l + 1, a < b PROVE t[a] < t[b]
        BY <3>2 DEF Ascending
      <4>1. a \in 1 .. l
        BY <3>2
      <4>2. CASE b \in 1 .. l
        BY <2>1, <3>2, <4>1, <4>2 DEF Ascending
      <4>3. CASE b = l + 1
        BY <3>2, <3>5, <4>1, <4>3
      <4> QED BY <3>3, <4>2, <4>3
    <3>7. t \in Seq(Nat)
      BY <3>2
    <3>8. Ordered(t, k + 1)
      BY <3>4, <3>6, <3>7, Zenon
    <3> QED BY <3>8, Zenon DEF t
  <2> QED BY <2>5, <2>6
<1>5. n \in W
  <2> HIDE DEF W
  <2> QED BY <1>1, <1>3, <1>4, Induction
<1>6. Only(list, set) = after[n]
  BY <1>2 DEF Keeps
<1> QED BY <1>1, <1>5, <1>6

(* The chat lists what is visible, in the order of the stamps.             *)
LEMMA ChatIsStored ==
  ASSUME ChatTypeOK
  PROVE  /\ Chat \in Seq(Messages) /\ Ascending(Chat)
         /\ ToSet(Chat) = Stored
<1> DEFINE list == [m \in DOMAIN author |-> m]
           n == Len(author)
<1>1. n \in Nat /\ n <= MaxMessages /\ DOMAIN author = 1 .. n
  BY DEF ChatTypeOK
<1>2. /\ list \in Seq(Nat) /\ Ascending(list) /\ DOMAIN list = 1 .. n
      /\ \A i \in 1 .. n : list[i] = i
  BY <1>1 DEF Ascending
<1>3. Stored \subseteq 1 .. n
  BY <1>1 DEF Stored
<1>4. Chat = Only(list, Stored)
  BY DEF Chat
<1> HIDE DEF list, n
<1>5. Ascending(Chat)
  BY <1>2, <1>4, OnlyKeepsOrder
<1>6. Chat \in Seq(Nat \cap Stored)
  BY <1>2, <1>4, OnlyKeeps
<1>7. ASSUME NEW m \in Stored PROVE m \in ToSet(Chat)
  <2>1. m \in DOMAIN list /\ list[m] = m
    BY <1>2, <1>3
  <2>2. list[m] \in ToSet(Only(list, Stored))
    BY <1>2, <2>1, OnlyMissesNothing
  <2> QED BY <1>4, <2>1, <2>2
<1>8. ToSet(Chat) \subseteq Stored
  BY <1>6 DEF ToSet
<1>9. Chat \in Seq(Messages)
  BY ChatOnce
<1> QED BY <1>5, <1>7, <1>8, <1>9
(* A page shows, and is sent, visible messages only; what was stamped      *)
(* before one of them is there as well or has been passed, and so has what *)
(* is still being inserted when a later message is visible.                *)
LatePassed(p) == \A x \in Stored, k \in inserting : k < x => k \in overtaken[p]
Passing(p) ==
  /\ seen[p] = Len(messages[p])
  /\ ToSet(messages[p]) \subseteq Stored /\ ToSet(poll[p].body) \subseteq Stored
  /\ poll[p].at = "asking" => poll[p].since <= seen[p]
  /\ LatePassed(p)
  /\ \A x \in ToSet(messages[p]), k \in DOMAIN author :
       k < x => k \in ToSet(messages[p]) \cup overtaken[p]
  /\ \A x \in ToSet(poll[p].body), k \in DOMAIN author :
       k < x => k \in ToSet(poll[p].body) \cup ToSet(messages[p]) \cup overtaken[p]

PassInv == ChatInv /\ \A p \in Pages : Passing(p)

(* What a page does not show and was not passed comes after as many        *)
(* messages as the page shows: OFFSET leaves it in the answer.             *)
LEMMA BehindTheCount ==
  ASSUME ChatInv, NEW p \in Pages, Passing(p), NEW since \in Nat, since <= seen[p],
         NEW m \in Stored \ (ToSet(messages[p]) \cup overtaken[p])
  PROVE  m \in ToSet(SubSeq(Chat, since + 1, Len(Chat)))
<1> DEFINE c == Chat
           n == Len(c)
           s == messages[p]
           l == Len(s)
<1>1. c \in Seq(Messages) /\ Ascending(c) /\ ToSet(c) = Stored
  BY ChatIsStored DEF ChatInv
<1>2. s \in Seq(Messages) /\ IsInjective(s)
  BY ChatParts DEF PagesTyped
<1>3. /\ seen[p] = l /\ ToSet(s) \subseteq Stored
      /\ \A x \in ToSet(s), k \in DOMAIN author : k < x => k \in ToSet(s) \cup overtaken[p]
  BY DEF Passing
<1>4. DOMAIN author \subseteq Nat /\ Stored \subseteq DOMAIN author
  BY ChatParts DEF AuthorTyped, Stored
<1> HIDE DEF c, s
<1>5. n \in Nat /\ DOMAIN c = 1 .. n /\ l \in Nat /\ DOMAIN s = 1 .. l
  BY <1>1, <1>2
<1>6. PICK j \in 1 .. n : c[j] = m
  BY <1>1, <1>5 DEF ToSet
<1> HIDE DEF n, l
<1>7. ASSUME NEW i \in 1 .. l PROVE \E k \in 1 .. j - 1 : c[k] = s[i]
  <2>1. s[i] \in ToSet(s)
    BY <1>5 DEF ToSet
  <2>2. s[i] \in Nat /\ m \in Nat /\ m \in DOMAIN author /\ s[i] # m
    BY <1>3, <1>4, <2>1 DEF s
  <2>3. s[i] < m
    BY <1>3, <2>1, <2>2 DEF s
  <2>4. PICK k \in 1 .. n : c[k] = s[i]
    <3>1. s[i] \in ToSet(c)
      BY <1>1, <1>3, <2>1
    <3> QED BY <1>5, <3>1 DEF ToSet
  <2>5. k < j
    <3>1. ~ (j < k)
      BY <1>1, <1>5, <1>6, <2>2, <2>3, <2>4 DEF Ascending
    <3>2. k # j
      BY <1>6, <2>2, <2>4
    <3> QED BY <1>5, <3>1, <3>2
  <2> QED BY <1>5, <2>4, <2>5
<1>8. l <= j - 1
  <2> DEFINE f == [i \in 1 .. l |-> CHOOSE k \in 1 .. j - 1 : c[k] = s[i]]
  <2>1. \A i \in 1 .. l : f[i] \in 1 .. j - 1 /\ c[f[i]] = s[i]
    BY <1>7
  <2>2. f \in [1 .. l -> 1 .. j - 1]
    BY <2>1
  <2> HIDE DEF f
  <2>3. \A a, b \in 1 .. l : f[a] = f[b] => a = b
    BY <1>2, <1>5, <2>1 DEF IsInjective
  <2>4. f \in Seq(1 .. j - 1) /\ Len(f) = l /\ IsInjective(f)
    BY <1>5, <2>2, <2>3 DEF IsInjective
  <2>5. j - 1 \in Nat
    BY <1>5
  <2> QED BY <2>4, <2>5, InjectiveIsShort
<1> DEFINE rest == SubSeq(c, since + 1, n)
<1>9. j - since \in 1 .. n - since /\ since < n
  BY <1>3, <1>5, <1>8
<1>10. DOMAIN rest = 1 .. n - since /\ rest[j - since] = c[j]
  <2>1. DOMAIN rest = 1 .. n - since /\ \A i \in 1 .. n - since : rest[i] = c[since + i]
    BY <1>1, <1>5, <1>9 DEF n
  <2>2. since + (j - since) = j
    BY <1>5
  <2> QED BY <1>9, <2>1, <2>2
<1> HIDE DEF rest
<1>11. m \in ToSet(rest)
  BY <1>6, <1>9, <1>10 DEF ToSet
<1> QED BY <1>11 DEF rest, n, c

LEMMA NothingElseIsMissed == PassInv => OnlyOvertakenAreMissed
<1> SUFFICES ASSUME PassInv, NEW p \in Pages,
                    NEW m \in Stored \ (ToSet(messages[p]) \cup overtaken[p])
             PROVE  m \in ToSet(SubSeq(Chat, seen[p] + 1, Len(Chat)))
  BY DEF OnlyOvertakenAreMissed
<1>1. ChatInv /\ Passing(p)
  BY DEF PassInv
<1>2. seen[p] \in Nat /\ seen[p] <= seen[p]
  BY <1>1, ChatConstants, ChatParts DEF PagesTyped
<1> QED BY <1>1, <1>2, BehindTheCount

(* After a merge the page shows what it showed and what has arrived.       *)
LEMMA MergeShows ==
  ASSUME ChatInv, NEW q \in Pages, NEW arrived \in Seq(Messages), Merge(q, arrived),
         seen[q] = Len(messages[q])
  PROVE  /\ ToSet(messages'[q]) = ToSet(messages[q]) \cup ToSet(arrived)
         /\ seen'[q] = Len(messages'[q])
         /\ \A p \in Pages \ {q} : messages'[p] = messages[p] /\ seen'[p] = seen[p]
<1> DEFINE old == messages[q]
           set == Messages \ ToSet(old)
           fresh == Only(arrived, set)
           l == Len(old)
           k == Len(fresh)
<1>1. messages \in [Pages -> Seq(Messages)] /\ seen \in [Pages -> 0 .. MaxMessages]
  BY ChatParts DEF PagesTyped
<1>2. /\ messages' = [messages EXCEPT ![q] = old \o fresh]
      /\ seen' = [seen EXCEPT ![q] = IF arrived = <<>> THEN @ ELSE Len(messages'[q])]
  BY Zenon DEF Merge
<1>3. old \in Seq(Messages) /\ seen[q] = l
  BY <1>1
<1>4. fresh \in Seq(Messages \cap set)
  BY OnlyKeeps
<1>5. ToSet(fresh) = ToSet(arrived) \ ToSet(old)
  <2>1. arrived \in Seq(ToSet(arrived))
    BY DEF ToSet
  <2>2. fresh \in Seq(ToSet(arrived) \cap set)
    BY <2>1, OnlyKeeps
  <2>3. ToSet(fresh) \subseteq ToSet(arrived) \cap set
    <3> HIDE DEF fresh, set
    <3> QED BY <2>2 DEF ToSet
  <2>4. ASSUME NEW x \in ToSet(arrived) \ ToSet(old) PROVE x \in ToSet(fresh)
    <3>1. PICK i \in DOMAIN arrived : arrived[i] = x
      BY <2>4 DEF ToSet
    <3>2. arrived[i] \in Messages
      OBVIOUS
    <3>3. arrived[i] \in set
      BY <2>4, <3>1, <3>2
    <3> QED BY <3>1, <3>3, OnlyMissesNothing
  <2> QED BY <2>3, <2>4
<1> HIDE DEF fresh, old, set
<1>6. messages'[q] = old \o fresh
  BY <1>1, <1>2
<1>7. fresh \in Seq(Messages)
  BY <1>4
<1>8. ToSet(old \o fresh) = ToSet(old) \cup ToSet(fresh)
  <2>1. /\ l \in Nat /\ k \in Nat /\ DOMAIN old = 1 .. l /\ DOMAIN fresh = 1 .. k
        /\ DOMAIN (old \o fresh) = 1 .. l + k
        /\ \A i \in 1 .. l : (old \o fresh)[i] = old[i]
        /\ \A i \in 1 .. k : (old \o fresh)[l + i] = fresh[i] /\ l + i \in 1 .. l + k
        /\ \A i \in l + 1 .. l + k : (old \o fresh)[i] = fresh[i - l] /\ i - l \in 1 .. k
    BY <1>3, <1>7
  <2> HIDE DEF l, k
  <2> DEFINE new == old \o fresh
  <2> HIDE DEF new
  <2>2. /\ DOMAIN new = 1 .. l + k
        /\ \A i \in 1 .. l : new[i] = old[i] /\ i \in 1 .. l + k
        /\ \A i \in 1 .. k : new[l + i] = fresh[i] /\ l + i \in 1 .. l + k
        /\ \A i \in l + 1 .. l + k : new[i] = fresh[i - l] /\ i - l \in 1 .. k
        /\ \A i \in 1 .. l + k : i \in 1 .. l \/ i \in l + 1 .. l + k
    <3>1. /\ \A i \in 1 .. l : i \in 1 .. l + k
          /\ \A i \in 1 .. l + k : i \in 1 .. l \/ i \in l + 1 .. l + k
      BY <2>1
    <3> QED BY <2>1, <3>1, Zenon DEF new
  <2>3. ASSUME NEW x \in ToSet(new) PROVE x \in ToSet(old) \cup ToSet(fresh)
    <3>1. PICK i \in 1 .. l + k : new[i] = x
      BY <2>2 DEF ToSet
    <3>2. CASE i \in 1 .. l
      BY <2>1, <2>2, <3>1, <3>2 DEF ToSet
    <3>3. CASE i \in l + 1 .. l + k
      BY <2>1, <2>2, <3>1, <3>3 DEF ToSet
    <3> QED BY <2>2, <3>2, <3>3
  <2>4. ASSUME NEW x \in ToSet(old) PROVE x \in ToSet(new)
    BY <2>1, <2>2 DEF ToSet
  <2>5. ASSUME NEW x \in ToSet(fresh) PROVE x \in ToSet(new)
    <3>1. PICK i \in 1 .. k : fresh[i] = x
      BY <2>1 DEF ToSet
    <3>2. new[l + i] = x /\ l + i \in DOMAIN new
      BY <2>2, <3>1
    <3> QED BY <3>2, Zenon DEF ToSet
  <2> QED BY <2>3, <2>4, <2>5 DEF new
<1>9. seen'[q] = Len(messages'[q])
  <2>1. CASE arrived = <<>>
    <3>1. ToSet(arrived) = {}
      BY <2>1 DEF ToSet
    <3>2. ToSet(fresh) = {}
      BY <1>5, <3>1
    <3>3. fresh = <<>>
      <4>1. DOMAIN fresh = {}
        BY <3>2 DEF ToSet
      <4> QED BY <1>7, <4>1
    <3>4. old \o fresh = old
      BY <1>3, <3>3
    <3>5. seen'[q] = seen[q]
      BY <1>1, <1>2, <2>1
    <3> QED BY <1>3, <1>6, <3>4, <3>5
  <2>2. CASE arrived # <<>>
    BY <1>1, <1>2, <2>2
  <2> QED BY <2>1, <2>2
<1>10. \A p \in Pages \ {q} : messages'[p] = messages[p] /\ seen'[p] = seen[p]
  BY <1>1, <1>2
<1> QED BY <1>5, <1>6, <1>8, <1>9, <1>10 DEF old
(* What an action leaves true of a page that it leaves alone, and of one   *)
(* whose poll carries no answer after it.                                  *)
LEMMA StillPassing ==
  ASSUME NEW p, Passing(p), Stored \subseteq Stored', overtaken[p] \subseteq overtaken'[p],
         messages'[p] = messages[p], seen'[p] = seen[p], poll'[p] = poll[p], LatePassed(p)',
         \A k \in DOMAIN author', x \in Stored : k < x => k \in DOMAIN author
  PROVE  Passing(p)'
<1>1. seen'[p] = Len(messages'[p])
  BY DEF Passing
<1>2. ToSet(messages'[p]) \subseteq Stored' /\ ToSet(poll'[p].body) \subseteq Stored'
  BY DEF Passing
<1>3. poll'[p].at = "asking" => poll'[p].since <= seen'[p]
  BY DEF Passing
<1>4. \A x \in ToSet(messages'[p]), k \in DOMAIN author' :
        k < x => k \in ToSet(messages'[p]) \cup overtaken'[p]
  <2> SUFFICES ASSUME NEW x \in ToSet(messages[p]), NEW k \in DOMAIN author', k < x
               PROVE  k \in ToSet(messages[p]) \cup overtaken'[p]
    OBVIOUS
  <2>1. x \in Stored /\ k \in DOMAIN author
    BY DEF Passing
  <2>2. k \in ToSet(messages[p]) \cup overtaken[p]
    BY <2>1 DEF Passing
  <2> QED BY <2>2
<1>5. \A x \in ToSet(poll'[p].body), k \in DOMAIN author' :
        k < x => k \in ToSet(poll'[p].body) \cup ToSet(messages'[p]) \cup overtaken'[p]
  <2> SUFFICES ASSUME NEW x \in ToSet(poll[p].body), NEW k \in DOMAIN author', k < x
               PROVE  k \in ToSet(poll[p].body) \cup ToSet(messages[p]) \cup overtaken'[p]
    OBVIOUS
  <2>1. x \in Stored /\ k \in DOMAIN author
    BY DEF Passing
  <2>2. k \in ToSet(poll[p].body) \cup ToSet(messages[p]) \cup overtaken[p]
    BY <2>1 DEF Passing
  <2> QED BY <2>2
<1> QED BY <1>1, <1>2, <1>3, <1>4, <1>5 DEF Passing

LEMMA QuietPasses ==
  ASSUME NEW p, Passing(p), UNCHANGED <<author, inserting>>,
         messages'[p] = messages[p], seen'[p] = seen[p], overtaken'[p] = overtaken[p],
         poll'[p].body = <<>>, poll'[p].at = "asking" => poll'[p].since <= seen[p]
  PROVE  Passing(p)'
<1>1. ToSet(poll'[p].body) = {}
  BY DEF ToSet
<1>2. Stored' = Stored /\ LatePassed(p)'
  BY DEF Stored, Passing, LatePassed
<1> QED BY <1>1, <1>2 DEF Passing

LEMMA SendPasses ==
  ASSUME PassInv, NEW q \in Pages, Send(q)
  PROVE  \A p \in Pages : Passing(p)'
<1> DEFINE n == Len(author)
<1>1. n \in Nat /\ author \in Seq(Senders) /\ q \in Senders /\ DOMAIN author = 1 .. n
      /\ inserting \subseteq 1 .. n
  BY ChatParts DEF PassInv, AuthorTyped, WritesTyped, Send
<1>2. author' = Append(author, q)
  BY DEF Send
<1>3. Len(author') = n + 1 /\ DOMAIN author' = 1 .. n + 1
  BY <1>1, <1>2
<1>4. inserting' = inserting \cup {n + 1} /\ UNCHANGED <<pages, overtaken>>
  BY <1>3 DEF Send
<1> HIDE DEF n
<1>5. (1 .. n + 1) \ (inserting \cup {n + 1}) = (1 .. n) \ inserting
  BY <1>1
<1>6. Stored' = Stored /\ Stored \subseteq 1 .. n
  BY <1>1, <1>3, <1>4, <1>5 DEF Stored
<1>7. \A x \in Stored : ~ (n + 1 < x)
  BY <1>1, <1>6
<1>8. \A k \in DOMAIN author', x \in Stored : k < x => k \in DOMAIN author
  BY <1>1, <1>3, <1>7
<1>9. ASSUME NEW p \in Pages PROVE Passing(p)'
  <2>1. Passing(p)
    BY DEF PassInv
  <2>2. LatePassed(p)'
    BY <1>4, <1>6, <1>7, <2>1 DEF Passing, LatePassed
  <2>3. messages'[p] = messages[p] /\ seen'[p] = seen[p] /\ poll'[p] = poll[p]
        /\ overtaken[p] \subseteq overtaken'[p] /\ Stored \subseteq Stored'
    BY <1>4, <1>6 DEF pages
  <2> QED BY <1>8, <2>1, <2>2, <2>3, StillPassing
<1> QED BY <1>9

LEMMA CommitPasses ==
  ASSUME PassInv, NEW m, Commit(m)
  PROVE  \A p \in Pages : Passing(p)'
<1>1. /\ m \in inserting /\ inserting' = inserting \ {m} /\ UNCHANGED <<author, pages>>
      /\ overtaken' = [p \in Pages |-> overtaken[p] \cup {k \in inserting : k < m}]
  BY DEF Commit
<1>2. inserting \subseteq DOMAIN author
  BY ChatParts DEF PassInv, WritesTyped
<1>3. Stored' = Stored \cup {m}
  BY <1>1, <1>2 DEF Stored
<1>4. ASSUME NEW p \in Pages PROVE Passing(p)'
  <2>1. Passing(p) /\ overtaken'[p] = overtaken[p] \cup {k \in inserting : k < m}
    BY <1>1 DEF PassInv
  <2>2. LatePassed(p)'
    BY <1>1, <1>3, <2>1 DEF Passing, LatePassed
  <2>3. messages'[p] = messages[p] /\ seen'[p] = seen[p] /\ poll'[p] = poll[p]
        /\ overtaken[p] \subseteq overtaken'[p] /\ Stored \subseteq Stored'
    BY <1>1, <1>3, <2>1 DEF pages
  <2> QED BY <1>1, <2>1, <2>2, <2>3, StillPassing
<1> QED BY <1>4

LEMMA SentPasses ==
  ASSUME PassInv, NEW m, Sent(m)
  PROVE  \A p \in Pages : Passing(p)'
<1>0. m \in awaited /\ ChatInv
  BY DEF Sent, PassInv
<1> PICK q \in Pages : q = author[m]
  BY <1>0, AuthorIsPage
<1>1. /\ m \in awaited \ inserting /\ Merge(q, <<m>>)
      /\ UNCHANGED <<author, inserting, poll>>
      /\ overtaken' = [overtaken EXCEPT ![q] = @ \cup ((1 .. m - 1) \ ToSet(messages[q]))]
  BY DEF Sent
<1>2. ChatInv /\ q \in Pages /\ m \in Messages /\ m \in Stored
  BY <1>0, <1>1, AuthorIsPage, ChatParts DEF WritesTyped, Stored
<1>3. Stored' = Stored /\ DOMAIN author \subseteq Nat \ {0}
  BY <1>1, <1>2, ChatParts DEF Stored, AuthorTyped
<1>4. overtaken \in [Pages -> SUBSET Messages]
  BY <1>2, ChatParts DEF OvertakenTyped
<1>5. Passing(q)
  BY <1>2 DEF PassInv
<1>6. /\ ToSet(messages'[q]) = ToSet(messages[q]) \cup {m}
      /\ seen'[q] = Len(messages'[q])
      /\ \A p \in Pages \ {q} : messages'[p] = messages[p] /\ seen'[p] = seen[p]
  <2>1. <<m>> \in Seq(Messages) /\ ToSet(<<m>>) = {m}
    BY <1>2 DEF ToSet
  <2>2. seen[q] = Len(messages[q])
    BY <1>5 DEF Passing
  <2> QED BY <1>1, <1>2, <2>1, <2>2, MergeShows
<1>7. overtaken'[q] = overtaken[q] \cup ((1 .. m - 1) \ ToSet(messages[q]))
      /\ \A p \in Pages \ {q} : overtaken'[p] = overtaken[p]
  BY <1>1, <1>2, <1>4
<1>8. ASSUME NEW p \in Pages PROVE LatePassed(p)'
  <2>1. Passing(p) /\ overtaken[p] \subseteq overtaken'[p]
    BY <1>7 DEF PassInv
  <2> QED BY <1>1, <1>3, <2>1 DEF Passing, LatePassed
<1>9. ASSUME NEW p \in Pages, p # q PROVE Passing(p)'
  <2>1. Passing(p) /\ poll'[p] = poll[p]
    BY <1>1 DEF PassInv
  <2> QED BY <1>1, <1>3, <1>6, <1>7, <1>8, <1>9, <2>1, StillPassing
<1>10. Passing(q)'
  <2>1. poll'[q] = poll[q] /\ LatePassed(q)'
    BY <1>1, <1>2, <1>8
  <2>2. ToSet(messages'[q]) \subseteq Stored' /\ ToSet(poll'[q].body) \subseteq Stored'
    BY <1>2, <1>3, <1>5, <1>6, <2>1 DEF Passing
  <2>3. ASSUME poll'[q].at = "asking" PROVE poll'[q].since <= seen'[q]
    <3>1. poll[q].since <= seen[q] /\ seen[q] = Len(messages[q])
      BY <1>5, <2>1, <2>3 DEF Passing
    <3>2. Len(messages[q]) <= Len(messages'[q])
      <4>1. messages[q] \in Seq(Messages) /\ messages \in [Pages -> Seq(Messages)]
        BY <1>2, ChatParts DEF PagesTyped
      <4> DEFINE fresh == Only(<<m>>, Messages \ ToSet(messages[q]))
      <4>2. messages' = [messages EXCEPT ![q] = messages[q] \o fresh]
        BY <1>1, Zenon DEF Merge
      <4>3. fresh \in Seq(Messages \cap (Messages \ ToSet(messages[q])))
        <5>1. <<m>> \in Seq(Messages)
          BY <1>2
        <5> QED BY <5>1, OnlyKeeps
      <4>4. fresh \in Seq(Messages)
        <5> HIDE DEF fresh
        <5> QED BY <4>3
      <4> HIDE DEF fresh
      <4>5. messages'[q] = messages[q] \o fresh
        BY <1>2, <4>1, <4>2
      <4> QED BY <4>1, <4>4, <4>5
    <3>3. poll[q].since \in Nat /\ Len(messages[q]) \in Nat /\ Len(messages'[q]) \in Nat
      <4>1. seen'[q] \in Nat
        <5>1. <<m>> \in Seq(Messages) /\ IsInjective(<<m>>)
          BY <1>2 DEF IsInjective
        <5>2. PagesMerged
          BY <1>1, <1>2, <5>1, MergeKeeps
        <5> QED BY <1>2, <5>2, ChatConstants DEF PagesMerged
      <4>2. seen[q] \in Nat /\ poll[q] \in Polls
        BY <1>2, ChatConstants, ChatParts DEF PagesTyped, PollsTyped
      <4>3. poll[q].since \in Nat
        BY <4>2, ChatConstants DEF Polls
      <4> QED BY <1>6, <3>1, <4>1, <4>2, <4>3
    <3> QED BY <1>6, <2>1, <3>1, <3>2, <3>3
  <2>4. ASSUME NEW x \in ToSet(messages'[q]), NEW k \in DOMAIN author', k < x
        PROVE  k \in ToSet(messages'[q]) \cup overtaken'[q]
    <3>1. k \in DOMAIN author /\ k \in Nat \ {0}
      BY <1>1, <1>3, <2>4
    <3>2. CASE x \in ToSet(messages[q])
      <4>1. k \in ToSet(messages[q]) \cup overtaken[q]
        BY <1>5, <2>4, <3>1, <3>2 DEF Passing
      <4> QED BY <1>6, <1>7, <4>1
    <3>3. CASE x = m
      <4>1. k \in 1 .. m - 1
        BY <1>2, <2>4, <3>1, <3>3 DEF Messages
      <4> QED BY <1>6, <1>7, <4>1
    <3> QED BY <1>6, <2>4, <3>2, <3>3
  <2>5. ASSUME NEW x \in ToSet(poll'[q].body), NEW k \in DOMAIN author', k < x
        PROVE  k \in ToSet(poll'[q].body) \cup ToSet(messages'[q]) \cup overtaken'[q]
    <3>1. k \in DOMAIN author /\ x \in ToSet(poll[q].body)
      BY <1>1, <2>1, <2>5
    <3>2. k \in ToSet(poll[q].body) \cup ToSet(messages[q]) \cup overtaken[q]
      BY <1>5, <2>5, <3>1 DEF Passing
    <3> QED BY <1>6, <1>7, <2>1, <3>2
  <2> QED BY <1>6, <2>1, <2>2, <2>3, <2>4, <2>5 DEF Passing
<1> QED BY <1>9, <1>10
LEMMA AskPasses ==
  ASSUME ChatInv, NEW p \in Pages, Passing(p), Ask(p)
  PROVE  Passing(p)'
<1> DEFINE to == [Due EXCEPT !.at = "asking", !.since = seen[p]]
<1>1. seen[p] \in 0 .. MaxMessages /\ poll \in [Pages -> Polls]
  BY ChatParts DEF PagesTyped, PollsTyped
<1>2. to = [at |-> "asking", since |-> seen[p], body |-> <<>>]
  BY <1>1, AskIsPoll
<1>3. poll' = [poll EXCEPT ![p] = to]
      /\ UNCHANGED <<author, inserting, messages, seen, overtaken>>
  BY DEF Ask, Goto
<1> HIDE DEF to
<1>4. poll'[p] = to
  BY <1>1, <1>3
<1>5. poll'[p].since = seen[p] /\ poll'[p].body = <<>> /\ seen[p] <= seen[p]
  BY <1>1, <1>2, <1>4
<1> QED BY <1>3, <1>5, QuietPasses

LEMMA ListPasses ==
  ASSUME ChatInv, NEW p \in Pages, Passing(p), ListMessages(p)
  PROVE  Passing(p)'
<1> DEFINE since == poll[p].since
           rest == SubSeq(Chat, since + 1, Len(Chat))
           to == [poll[p] EXCEPT !.at = "answered", !.body = rest]
<1>1. poll \in [Pages -> Polls] /\ poll[p] \in Polls
  BY ChatParts DEF PollsTyped
<1>2. since \in Nat /\ since <= seen[p]
  BY <1>1, ChatConstants DEF Polls, Passing, ListMessages
<1>3. poll' = [poll EXCEPT ![p] = to]
      /\ UNCHANGED <<author, inserting, messages, seen, overtaken>>
  BY DEF ListMessages, Goto
<1>4. Chat \in Seq(Messages) /\ ToSet(Chat) = Stored
  BY ChatIsStored DEF ChatInv
<1>5. ToSet(rest) \subseteq Stored
  <2> HIDE DEF since
  <2>1. rest \in Seq(ToSet(Chat))
    <3>1. Chat \in Seq(ToSet(Chat))
      BY <1>4 DEF ToSet
    <3> QED BY <1>2, <3>1
  <2> HIDE DEF rest
  <2> QED BY <1>4, <2>1 DEF ToSet
<1>6. ASSUME NEW k \in Stored, k \notin ToSet(messages[p]) \cup overtaken[p]
      PROVE  k \in ToSet(rest)
  <2> HIDE DEF since
  <2> QED BY <1>2, <1>6, BehindTheCount
<1> HIDE DEF rest, since
<1>7. to.at = "answered" /\ to.body = rest
  BY <1>1 DEF Polls
<1> HIDE DEF to
<1>8. poll'[p].at = "answered" /\ poll'[p].body = rest
  BY <1>1, <1>3, <1>7
<1>9. Stored' = Stored /\ LatePassed(p)'
  BY <1>3 DEF Stored, Passing, LatePassed
<1>10. ASSUME NEW x \in ToSet(rest), NEW k \in DOMAIN author, k < x
       PROVE  k \in ToSet(rest) \cup ToSet(messages[p]) \cup overtaken[p]
  <2>1. CASE k \in inserting
    BY <1>5, <1>10, <2>1 DEF Passing, LatePassed
  <2>2. CASE k \notin inserting
    BY <1>6, <2>2 DEF Stored
  <2> QED BY <2>1, <2>2
<1> QED BY <1>3, <1>5, <1>8, <1>9, <1>10 DEF Passing

LEMMA ReceivePasses ==
  ASSUME ChatInv, NEW p \in Pages, Passing(p), Receive(p)
  PROVE  Passing(p)'
<1> DEFINE body == poll[p].body
<1>1. poll \in [Pages -> Polls] /\ poll[p] \in Polls
  BY ChatParts DEF PollsTyped
<1>2. body \in Seq(Messages) /\ seen[p] = Len(messages[p])
  BY <1>1 DEF Polls, Passing
<1>3. Merge(p, body) /\ UNCHANGED <<author, inserting, overtaken>> /\ poll' = [poll EXCEPT ![p] = Due]
  BY DEF Receive, Goto
<1>4. /\ ToSet(messages[p]) \subseteq Stored /\ ToSet(body) \subseteq Stored
      /\ \A x \in ToSet(messages[p]), k \in DOMAIN author :
           k < x => k \in ToSet(messages[p]) \cup overtaken[p]
      /\ \A x \in ToSet(body), k \in DOMAIN author :
           k < x => k \in ToSet(body) \cup ToSet(messages[p]) \cup overtaken[p]
  BY DEF Passing
<1> HIDE DEF body
<1>5. ToSet(messages'[p]) = ToSet(messages[p]) \cup ToSet(body) /\ seen'[p] = Len(messages'[p])
  BY <1>2, <1>3, MergeShows
<1>6. poll'[p].at = "due" /\ ToSet(poll'[p].body) = {}
  <2>1. poll'[p] = Due
    BY <1>1, <1>3
  <2>2. poll'[p].at = "due" /\ poll'[p].body = <<>>
    BY <2>1 DEF Due
  <2> QED BY <2>2 DEF ToSet
<1>7. Stored' = Stored /\ LatePassed(p)'
  BY <1>3 DEF Stored, Passing, LatePassed
<1>8. \A x \in ToSet(messages'[p]), k \in DOMAIN author :
        k < x => k \in ToSet(messages'[p]) \cup overtaken[p]
  BY <1>4, <1>5
<1> QED BY <1>3, <1>4, <1>5, <1>6, <1>7, <1>8 DEF Passing

LEMMA PollEndsPasses ==
  ASSUME ChatInv, NEW p \in Pages, Passing(p), PollFails(p) \/ PollDenied(p)
  PROVE  Passing(p)'
<1>1. poll \in [Pages -> Polls]
  BY ChatParts DEF PollsTyped
<1>2. poll'[p].at # "asking" /\ poll'[p].body = <<>>
  <2>1. CASE PollFails(p)
    <3>1. poll'[p] = Due
      BY <1>1, <2>1 DEF PollFails, Goto
    <3> QED BY <3>1 DEF Due
  <2>2. CASE PollDenied(p)
    <3>1. 0 \in 0 .. MaxMessages
      BY ChatConstants
    <3>2. poll'[p] = [at |-> "ended", since |-> 0, body |-> <<>>]
      BY <1>1, <2>2, <3>1, AskIsPoll DEF PollDenied, Goto
    <3> QED BY <3>2
  <2> QED BY <2>1, <2>2
<1>3. UNCHANGED <<author, inserting, messages, seen, overtaken>>
  BY DEF PollFails, PollDenied
<1> QED BY <1>2, <1>3, QuietPasses

LEMMA ReloadPasses ==
  ASSUME ChatInv, NEW p \in Pages, Passing(p), Reload(p)
  PROVE  Passing(p)'
<1>1. poll \in [Pages -> Polls] /\ messages \in [Pages -> Seq(Messages)]
      /\ seen \in [Pages -> 0 .. MaxMessages] /\ overtaken \in [Pages -> SUBSET Messages]
  BY ChatParts DEF PollsTyped, PagesTyped, OvertakenTyped
<1>2. poll'[p] = Due /\ messages'[p] = <<>> /\ seen'[p] = 0
      /\ overtaken'[p] = overtaken[p] \cap inserting /\ UNCHANGED <<author, inserting>>
  BY <1>1 DEF Reload, Goto
<1>3. poll'[p].at = "due" /\ ToSet(poll'[p].body) = {} /\ ToSet(messages'[p]) = {}
      /\ Len(messages'[p]) = 0
  BY <1>2 DEF Due, ToSet
<1>4. Stored' = Stored /\ LatePassed(p)'
  BY <1>2 DEF Stored, Passing, LatePassed
<1> QED BY <1>2, <1>3, <1>4 DEF Passing

LEMMA OwnStepPasses ==
  ASSUME PassInv, NEW q \in Pages, OwnStep(q)
  PROVE  \A p \in Pages : Passing(p)'
<1>1. ChatInv /\ Passing(q)
  BY DEF PassInv
<1>2. UNCHANGED <<author, inserting>>
  BY DEF OwnStep, Ask, ListMessages, Receive, PollFails, PollDenied, Reload
<1>3. Passing(q)'
  BY <1>1, AskPasses, ListPasses, ReceivePasses, PollEndsPasses, ReloadPasses DEF OwnStep
<1>4. ASSUME NEW p \in Pages, p # q PROVE Passing(p)'
  <2>1. Passing(p) /\ messages'[p] = messages[p] /\ seen'[p] = seen[p] /\ poll'[p] = poll[p]
    BY <1>1, <1>4, OthersUntouched DEF PassInv
  <2>2. overtaken'[p] = overtaken[p]
    <3>1. overtaken \in [Pages -> SUBSET Messages]
      BY <1>1, ChatParts DEF OvertakenTyped
    <3> QED BY <1>4, <3>1
      DEF OwnStep, Ask, ListMessages, Receive, PollFails, PollDenied, Reload
  <2>3. Stored' = Stored /\ LatePassed(p)'
    BY <1>2, <2>1, <2>2 DEF Stored, Passing, LatePassed
  <2> QED BY <1>2, <2>1, <2>2, <2>3, StillPassing
<1> QED BY <1>3, <1>4

LEMMA UntouchedPasses ==
  ASSUME PassInv, UNCHANGED <<author, inserting, pages, overtaken>>
  PROVE  \A p \in Pages : Passing(p)'
<1> SUFFICES ASSUME NEW p \in Pages PROVE Passing(p)'
  OBVIOUS
<1>1. Passing(p) /\ messages'[p] = messages[p] /\ seen'[p] = seen[p] /\ poll'[p] = poll[p]
      /\ overtaken'[p] = overtaken[p]
  BY DEF PassInv, pages
<1>2. Stored' = Stored /\ LatePassed(p)'
  BY <1>1 DEF Stored, Passing, LatePassed
<1> QED BY <1>1, <1>2, StillPassing

LEMMA InitPassInv == ChatInit => PassInv
<1> SUFFICES ASSUME ChatInit, NEW p \in Pages PROVE Passing(p)
  BY InitChatInv DEF PassInv
<1>1. messages[p] = <<>> /\ seen[p] = 0 /\ poll[p] = Due /\ inserting = {}
  BY DEF ChatInit
<1>2. poll[p].at = "due" /\ ToSet(poll[p].body) = {} /\ ToSet(messages[p]) = {}
      /\ Len(messages[p]) = 0
  BY <1>1 DEF Due, ToSet
<1> QED BY <1>1, <1>2 DEF Passing, LatePassed

LEMMA NextPassInv == PassInv /\ [ChatNext]_chatVars => PassInv'
<1> SUFFICES ASSUME PassInv, [ChatNext]_chatVars PROVE \A p \in Pages : Passing(p)'
  BY NextChatInv DEF PassInv
<1>1. CASE UNCHANGED chatVars
  BY <1>1, UntouchedPasses DEF chatVars
<1>2. ASSUME NEW q \in Pages, Send(q) PROVE \A p \in Pages : Passing(p)'
  BY <1>2, SendPasses
<1>3. ASSUME NEW q \in Pages, OwnStep(q) PROVE \A p \in Pages : Passing(p)'
  BY <1>3, OwnStepPasses
<1>4. ASSUME NEW m \in Messages, Commit(m) PROVE \A p \in Pages : Passing(p)'
  BY <1>4, CommitPasses
<1>5. ASSUME NEW m \in Messages, Sent(m) PROVE \A p \in Pages : Passing(p)'
  BY <1>5, SentPasses
<1>6. ASSUME NEW m \in Messages, SendFails(m) PROVE \A p \in Pages : Passing(p)'
  BY <1>6, UntouchedPasses DEF SendFails
<1> QED BY <1>1, <1>2, <1>3, <1>4, <1>5, <1>6 DEF ChatNext, OwnStep

(* Whatever the players write at the same time, however many INSERTs       *)
(* overlap and in whatever order they commit: a stored message that a page *)
(* does not show, and that no later message has passed, is in the answer   *)
(* to its next poll.                                                       *)
THEOREM OnlyThePassedAreMissed == ChatSpec => []OnlyOvertakenAreMissed
<1>1. ChatInit => PassInv
  BY InitPassInv
<1>2. PassInv /\ [ChatNext]_chatVars => PassInv'
  BY NextPassInv
<1>3. PassInv => OnlyOvertakenAreMissed
  BY NothingElseIsMissed
<1>4. QED BY <1>1, <1>2, <1>3, PTL DEF ChatSpec
=============================================================================
