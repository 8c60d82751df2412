------------------------------ MODULE ChatSync ------------------------------
(***************************************************************************)
(* The chat of one room: chat_messages at the server and the pages of its  *)
(* two players (useChatMessages.ts), each polling                          *)
(* GET /chat/{code}/messages?since=<how many it shows> and appending its   *)
(* own messages as their POSTs are answered.                               *)
(*                                                                         *)
(* A message is stamped when its INSERT begins and visible when that       *)
(* commits; it is named here by its place in the order of the stamps.      *)
(* The names leave room for PollingClient, the other loop of the same page.*)
(***************************************************************************)
EXTENDS Integers, Sequences, SequencesExt, FiniteSetsExt

CONSTANTS
  Pages,
  Senders,       (* the pages that write messages                           *)
  MaxMessages,   (* bound: messages ever written                            *)
  MaxInserting,  (* bound: INSERTs under way at the same time               *)
  MaxChatFailures    (* bound: calls that fail and pages that are reloaded      *)

ASSUME ChatAssumption ==
  /\ Senders \subseteq Pages
  /\ {MaxMessages, MaxInserting, MaxChatFailures} \subseteq Nat

VARIABLES
  author,        (* who wrote each message, in the order of created_at      *)
  inserting,     (* messages stamped and not yet visible                    *)
  awaited,       (* messages whose page still waits for the POST's answer   *)
  messages,      (* per page, messages                                      *)
  seen,          (* per page, seenCountRef.current                          *)
  poll,          (* per page, its polling loop                              *)
  chatFailures,
  overtaken      (* per page, history: messages that a later one has passed *)

pages == <<messages, seen, poll>>
chatVars == <<author, inserting, awaited, pages, chatFailures, overtaken>>

Messages == 1 .. MaxMessages
Due == [at |-> "due", since |-> 0, body |-> <<>>]

ChatInit ==
  /\ author = <<>> /\ inserting = {} /\ awaited = {}
  /\ messages = [p \in Pages |-> <<>>] /\ seen = [p \in Pages |-> 0]
  /\ poll = [p \in Pages |-> Due]
  /\ chatFailures = 0
  /\ overtaken = [p \in Pages |-> {}]

Stored == DOMAIN author \ inserting

(* The elements of a list that are in a set, in the order of the list.     *)
Only(list, set) ==
  FoldLeft(LAMBDA kept, m : IF m \in set THEN Append(kept, m) ELSE kept, <<>>, list)

(* ORDER BY created_at, id.                                                *)
ChatNewestFirst == Reverse(Only([m \in DOMAIN author |-> m], Stored)) \* mutant
Chat == Only([m \in DOMAIN author |-> m], Stored)

Fails == chatFailures < MaxChatFailures /\ chatFailures' = chatFailures + 1

-----------------------------------------------------------------------------
(* A page posts a message, and the INSERT begins.                          *)
Send(p) ==
  /\ p \in Senders
  /\ Len(author) < MaxMessages /\ Cardinality(inserting) < MaxInserting
  /\ author' = Append(author, p)
  /\ inserting' = inserting \cup {Len(author')}
  /\ awaited' = awaited \cup {Len(author')}
  /\ UNCHANGED <<pages, chatFailures, overtaken>>

(* The message can be read; it passes the earlier ones that cannot yet.    *)
Commit(m) ==
  /\ m \in inserting
  /\ inserting' = inserting \ {m}
  /\ overtaken' = [p \in Pages |-> overtaken[p] \cup {k \in inserting : k < m}]
  /\ UNCHANGED <<author, awaited, pages, chatFailures>>

(* What setMessages does with messages that arrive: those that are not     *)
(* there yet are appended, and the count follows the list.                 *)
MergeBlindly(p, arrived) ==                                      \* mutant
  /\ messages' = [messages EXCEPT ![p] = @ \o arrived]
  /\ seen' = [seen EXCEPT ![p] = Len(messages'[p])]
MergeCountingAll(p, arrived) ==                                  \* mutant
  LET fresh == Only(arrived, Messages \ ToSet(messages[p]))
  IN  /\ messages' = [messages EXCEPT ![p] = @ \o fresh]
      /\ seen' = [seen EXCEPT ![p] = @ + Len(arrived)]
Merge(p, arrived) ==
  LET fresh == Only(arrived, Messages \ ToSet(messages[p]))
  IN  /\ messages' = [messages EXCEPT ![p] = @ \o fresh]
      /\ seen' = [seen EXCEPT ![p] = IF arrived = <<>> THEN @ ELSE Len(messages'[p])]

(* The answer to the POST is shown at once; on its author's page it passes *)
(* the earlier messages that are not shown there yet.                      *)
Sent(m) ==
  /\ m \in awaited \ inserting
  /\ awaited' = awaited \ {m}
  /\ Merge(author[m], <<m>>)
  /\ overtaken' = [overtaken EXCEPT
       ![author[m]] = @ \cup ((1 .. m - 1) \ ToSet(messages[author[m]]))]
  /\ UNCHANGED <<author, inserting, poll, chatFailures>>

(* The answer is lost, or is an error: the page says so and shows nothing. *)
SendFails(m) ==
  /\ m \in awaited
  /\ awaited' = awaited \ {m}
  /\ Fails
  /\ UNCHANGED <<author, inserting, pages, overtaken>>

-----------------------------------------------------------------------------
(* tick.                                                                   *)
Goto(p, to) == poll' = [poll EXCEPT ![p] = to]

Ask(p) ==
  /\ poll[p].at = "due"
  /\ Goto(p, [Due EXCEPT !.at = "asking", !.since = seen[p]])
  /\ UNCHANGED <<author, inserting, awaited, messages, seen, chatFailures, overtaken>>

(* list_chat_messages: OFFSET since.                                       *)
ListMessages(p) ==
  /\ poll[p].at = "asking"
  /\ Goto(p, [poll[p] EXCEPT !.at = "answered",
                             !.body = SubSeq(Chat, poll[p].since + 1, Len(Chat))])
  /\ UNCHANGED <<author, inserting, awaited, messages, seen, chatFailures, overtaken>>

Receive(p) ==
  /\ poll[p].at = "answered"
  /\ Merge(p, poll[p].body)
  /\ Goto(p, Due)
  /\ UNCHANGED <<author, inserting, awaited, chatFailures, overtaken>>

(* A transport error or a 5xx is retried at the next tick; 401, 403 and    *)
(* 404 end the loop.                                                       *)
PollFailsForGood(p) ==                                           \* mutant
  /\ poll[p].at \in {"asking", "answered"}
  /\ Goto(p, [Due EXCEPT !.at = "broken"])
  /\ Fails
  /\ UNCHANGED <<author, inserting, awaited, messages, seen, overtaken>>
PollFails(p) ==
  /\ poll[p].at \in {"asking", "answered"}
  /\ Goto(p, Due)
  /\ Fails
  /\ UNCHANGED <<author, inserting, awaited, messages, seen, overtaken>>

PollDenied(p) ==
  /\ poll[p].at = "asking"
  /\ Goto(p, [Due EXCEPT !.at = "ended"])
  /\ Fails
  /\ UNCHANGED <<author, inserting, awaited, messages, seen, overtaken>>

(* The page is loaded anew: it starts empty and hears of no earlier call.  *)
(* A message still being inserted can be passed again by what it fetches.  *)
Reload(p) ==
  /\ Goto(p, Due)
  /\ messages' = [messages EXCEPT ![p] = <<>>]
  /\ seen' = [seen EXCEPT ![p] = 0]
  /\ awaited' = {m \in awaited : author[m] # p}
  /\ overtaken' = [overtaken EXCEPT ![p] = @ \cap inserting]
  /\ Fails
  /\ UNCHANGED <<author, inserting>>

ChatNext ==
  \/ \E p \in Pages : Send(p) \/ Ask(p) \/ ListMessages(p) \/ Receive(p)
                      \/ PollFails(p) \/ PollDenied(p) \/ Reload(p)
  \/ \E m \in Messages : Commit(m) \/ Sent(m) \/ SendFails(m)

ChatSpec == ChatInit /\ [][ChatNext]_chatVars

(* Timers fire, statements end, answers arrive or fail.                    *)
FairChatSpec ==
  /\ ChatSpec
  /\ \A p \in Pages : WF_chatVars(Ask(p)) /\ WF_chatVars(ListMessages(p)) /\ WF_chatVars(Receive(p))
  /\ \A m \in Messages : WF_chatVars(Commit(m)) /\ WF_chatVars(Sent(m))

-----------------------------------------------------------------------------
(* Types of all variables.                                                 *)
ChatTypeOK ==
  /\ author \in Seq(Senders) /\ Len(author) <= MaxMessages
  /\ inserting \subseteq DOMAIN author /\ awaited \subseteq DOMAIN author
  /\ messages \in [Pages -> Seq(Messages)]
  /\ seen \in [Pages -> 0 .. MaxMessages]
  /\ poll \in [Pages -> [at : {"due", "asking", "answered", "ended"},
                         since : 0 .. MaxMessages, body : Seq(Messages)]]
  /\ chatFailures \in 0 .. MaxChatFailures
  /\ overtaken \in [Pages -> SUBSET Messages]

(* A message reaches its author twice, by the POST's answer and by a poll  *)
(* that overtakes it or follows it; it is shown once.                      *)
ShownOnce == \A p \in Pages : IsInjective(messages[p])

(* Paging by a count: whatever two players write at the same time, a       *)
(* stored message that a page does not show lies behind the count the page *)
(* asks with, so a later poll fetches it; except a message that a later    *)
(* one has passed, because it was committed after that one or because the  *)
(* page had its own later message already when it came.                    *)
OnlyOvertakenAreMissed ==
  \A p \in Pages : \A m \in Stored \ (ToSet(messages[p]) \cup overtaken[p]) :
    m \in ToSet(SubSeq(Chat, seen[p] + 1, Len(Chat)))

(* In the end each page shows every message that was not passed so,        *)
(* whatever polls and POSTs fail.                                          *)
PagesCatchUp ==
  \A p \in Pages : <>[](poll[p].at = "ended"
                          \/ DOMAIN author \subseteq ToSet(messages[p]) \cup overtaken[p])

(* A page that only listens shows the chat from its start, in the server's *)
(* order and without a gap: while INSERTs commit in the order they began.  *)
ListenersShowPrefix == \A p \in Pages \ Senders : IsPrefix(messages[p], Chat)

(* "so the conversation stays in sync": every page ends up with every      *)
(* message, also one that writes.                                          *)
ConversationInSync ==
  \A p \in Pages : <>[](poll[p].at = "ended" \/ ToSet(messages[p]) = DOMAIN author)
=============================================================================
