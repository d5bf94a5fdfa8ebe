-------------------------------- MODULE Chat --------------------------------
(***************************************************************************)
(* The chat of a pool on a match: the messages posted and removed          *)
(* (ChatService, src/src/chat/chat.service.ts) and what the open tabs are  *)
(* pushed of it, and of how many are in the room (EventsService,           *)
(* src/src/events/events.service.ts).  Requests overlap, each await a      *)
(* step; a push reaches at once the streams open by then.  A tab loads the *)
(* list and opens its stream in two requests, in either order; the answer  *)
(* to each is one step.  Who may post, when and how often is left out: it  *)
(* only refuses.                                                           *)
(***************************************************************************)
EXTENDS Common

CONSTANTS
    Tabs,
    PersonOf,    \* who is behind a tab: its user, or its device when logged out
    MaxMessages  \* bound on the messages

ASSUME ChatAssumption == DOMAIN PersonOf = Tabs /\ MaxMessages \in Nat

VARIABLES
    messages,  \* the rows, in the order they were created: deleted or not
    sending,   \* the requests under way: what they do next
    inRoom,    \* the tabs whose stream is open
    loaded,    \* the tabs that have loaded the list
    deferred,  \* the headcounts put off by setImmediate, by the tab that joined
    headcount, \* what each tab shows of who is there
    shown,     \* the messages each tab shows
    astray,    \* history: the messages whose removal was pushed before they were,
               \* or never
    unheard    \* history: by tab, the messages whose push would have changed what it
               \* shows, had its stream been open since it loaded the list

chatVars == <<messages, sending, inRoom, loaded, deferred, headcount, shown, astray, unheard>>
tabVars == <<inRoom, loaded, deferred, headcount>>

ChatInit ==
    /\ messages = <<>> /\ sending = {} /\ inRoom = {} /\ loaded = {} /\ deferred = {}
    /\ headcount = [t \in Tabs |-> 0] /\ shown = [t \in Tabs |-> {}]
    /\ astray = {} /\ unheard = [t \in Tabs |-> {}]

Standing == {i \in DOMAIN messages : messages[i] = "stands"}

-----------------------------------------------------------------------------
(* Faulty variants, for testing the properties. *)

\* every stream counts
TabsCounted(tabs) == Cardinality(tabs)

-----------------------------------------------------------------------------
(* The streams. *)

\* roomPresence: a person counts once, whatever tabs are open
People(tabs) == Cardinality({PersonOf[t] : t \in tabs})

\* list: what stands, and who is there.  A tab loads it as it comes in, before its
\* stream is open or after, and again whenever it resyncs.
LoadList(t) ==
    /\ shown' = [shown EXCEPT ![t] = Standing]
    /\ headcount' = [headcount EXCEPT ![t] = People(inRoom)]
    /\ loaded' = loaded \cup {t}
    /\ unheard' = [unheard EXCEPT ![t] = {}]
    /\ UNCHANGED <<messages, sending, inRoom, deferred, astray>>

\* addConnection counts the stream; the joiner would miss a headcount pushed in
\* that same turn.  Nothing is sent of what was pushed before.
OpenStream(t) ==
    /\ t \notin inRoom
    /\ inRoom' = inRoom \cup {t}
    /\ deferred' = deferred \cup {t}
    /\ UNCHANGED <<messages, sending, loaded, headcount, shown, astray, unheard>>

\* publishChatPresence
Counted(tabs) == [t \in Tabs |-> IF t \in tabs THEN People(tabs) ELSE headcount[t]]

PushHeadcount(t) ==
    /\ t \in deferred
    /\ deferred' = deferred \ {t}
    /\ headcount' = Counted(inRoom)
    /\ UNCHANGED <<messages, sending, inRoom, loaded, shown, astray, unheard>>

\* removeConnection; the tab is closed.
Leave(t) ==
    /\ t \in inRoom
    /\ inRoom' = inRoom \ {t} /\ loaded' = loaded \ {t}
    /\ headcount' = [Counted(inRoom \ {t}) EXCEPT ![t] = 0]
    /\ shown' = [shown EXCEPT ![t] = {}]
    /\ unheard' = [unheard EXCEPT ![t] = {}]
    /\ UNCHANGED <<messages, sending, deferred, astray>>

-----------------------------------------------------------------------------
(* The messages. *)

Begin(request) ==
    /\ Cardinality(sending) < MaxInFlight /\ request \notin sending
    /\ sending' = sending \cup {request}

\* post: the row is created, then the message is pushed.
Post ==
    /\ Len(messages) < MaxMessages
    /\ Begin([op |-> "push", id |-> Len(messages) + 1])
    /\ messages' = Append(messages, "stands")
    /\ UNCHANGED <<tabVars, shown, astray, unheard>>

\* What these tabs do not hear of, having the list and no stream yet.
Unheard(tabs, i) ==
    [t \in Tabs |-> IF t \in tabs /\ t \in loaded \ inRoom THEN unheard[t] \cup {i}
                                                         ELSE unheard[t]]

PushMessage(request) ==
    /\ request.op = "push"
    /\ sending' = sending \ {request}
    /\ shown' = [t \in Tabs |-> IF t \in inRoom THEN shown[t] \cup {request.id} ELSE shown[t]]
    /\ astray' = IF messages[request.id] = "deleted" THEN astray \cup {request.id} ELSE astray
    /\ unheard' = Unheard({t \in Tabs : request.id \notin shown[t]}, request.id)
    /\ UNCHANGED <<messages, tabVars>>

\* remove: by its author, or whoever moderates the pool
RemoveMessage(i) ==
    /\ messages[i] = "stands"
    /\ Begin([op |-> "delete", id |-> i])
    /\ UNCHANGED <<messages, tabVars, shown, astray, unheard>>

\* The row is marked; what follows is the audit, which may throw.
Delete(request) ==
    /\ request.op = "delete"
    /\ messages' = [messages EXCEPT ![request.id] = "deleted"]
    /\ sending' = (sending \ {request}) \cup {[op |-> "audit", id |-> request.id]}
    /\ UNCHANGED <<tabVars, shown, astray, unheard>>

WithoutMessage(i) == [t \in Tabs |-> IF t \in inRoom THEN shown[t] \ {i} ELSE shown[t]]

Audit(request) ==
    /\ request.op = "audit"
    /\ sending' = sending \ {request}
    /\ \/ /\ shown' = WithoutMessage(request.id)
          /\ unheard' = Unheard({t \in Tabs : request.id \in shown[t]}, request.id)
          /\ UNCHANGED astray
       \/ Faults /\ astray' = astray \cup {request.id} /\ UNCHANGED <<shown, unheard>>
    /\ UNCHANGED <<messages, tabVars>>

\* The process restarts: the streams end, and nothing under way comes to be.  A tab
\* that opens its stream again loads the list again.
ChatRestarts ==
    /\ Faults
    /\ sending' = {} /\ inRoom' = {} /\ loaded' = {} /\ deferred' = {}
    /\ headcount' = [t \in Tabs |-> 0] /\ shown' = [t \in Tabs |-> {}]
    /\ unheard' = [t \in Tabs |-> {}]
    /\ UNCHANGED <<messages, astray>>

ChatNext ==
    \/ \E t \in Tabs : LoadList(t) \/ OpenStream(t) \/ PushHeadcount(t) \/ Leave(t)
    \/ Post
    \/ \E i \in DOMAIN messages : RemoveMessage(i)
    \/ \E r \in sending : PushMessage(r) \/ Delete(r) \/ Audit(r)
    \/ ChatRestarts

ChatSpec == ChatInit /\ [][ChatNext]_chatVars

-----------------------------------------------------------------------------
(* Properties. *)

\* When nothing is under way, every tab that loaded the list and opened its stream
\* shows the messages that stand and how many people are there, whatever it came in
\* between - save a message that was pushed, or whose removal was, after it loaded the
\* list and before its stream was open, one removed before it had been pushed, and one
\* whose removal could not be audited.
RoomIsFollowed ==
    (sending = {} /\ deferred = {}) =>
       \A t \in inRoom \cap loaded :
         /\ \A i \in (DOMAIN messages) \ unheard[t] :
              i \in Standing <=> i \in shown[t] \ astray
         /\ headcount[t] = Cardinality({p \in {PersonOf[u] : u \in Tabs} :
                                          \E u \in inRoom : PersonOf[u] = p})
=============================================================================
