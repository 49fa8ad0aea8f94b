-------------------------------- MODULE Chat --------------------------------
(***************************************************************************)
(* The messages of one client: its database (cli_social/storage.py), the   *)
(* handling of frames by the daemon's listeners (p2p/daemon.py) and the    *)
(* chat pane (tui/app.py).                                                 *)
(*                                                                         *)
(* Three things happen at once.  The message pump of the app sends         *)
(* messages and loads conversations, one after the other.  The pump of the *)
(* "new chat" dialog starts and opens conversations.  A listener saves     *)
(* incoming messages and the status of sent ones, and hands what is to be  *)
(* shown to the app's pump with call_next.  There may be several, when     *)
(* connections have multiplied (Daemon.tla): they share the list of recent *)
(* ids and the daemon's connection to the database.                        *)
(*                                                                         *)
(* The relays and the peers are coarse: an acknowledgement may arrive once *)
(* its message was published, and any message may arrive more than once.   *)
(***************************************************************************)
EXTENDS Naturals, Sequences, SequencesExt

CONSTANTS
    Peer,         \* the peers
    Sent,         \* messages the user writes
    Received,     \* messages for the user
    PeerOf,       \* the peer of each message
    DialogPeer,   \* peers the user may look up in the dialog
    KnownPeer,    \* peers with a conversation to begin with
    Listener,     \* the tasks that may run _listen_relay
    None,         \* "no value"
    Limit,        \* rows that a conversation is loaded with (50 in the code)
    RecentLength, \* length of _recent_message_ids (200 in the code)
    MaxFrames,    \* bound: frames that are read
    MaxRestarts   \* bound: restarts of the app

ASSUME ChatAssumption ==
    /\ Sent \intersect Received = {}
    /\ PeerOf \in [Sent \union Received -> Peer]
    /\ DialogPeer \subseteq Peer /\ KnownPeer \subseteq Peer
    /\ None \notin Peer /\ None \notin 0..2
    /\ {Limit, RecentLength} \subseteq Nat \ {0}
    /\ {MaxFrames, MaxRestarts} \subseteq Nat

VARIABLES
    conversations, \* table conversations: the peers that have one
    rows,          \* table messages: those of a conversation, the oldest first
    delivered,     \* table messages: delivered of a sent message, None if no row
    copies,        \* table messages: how many rows a received message has
    unread,        \* table conversations: unread_count
    locked,        \* the daemon's connection has a transaction open
    currentPeer,   \* ChatPane.current_peer_id
    bubbles,       \* the MessageBubbles of the pane
    app,           \* what the app's pump is doing
    due, later,    \* callbacks for the app's pump: to be run now, and next
    dialog,        \* what the dialog is doing
    listener,      \* what each _listen_relay is doing
    recent,        \* _recent_message_ids
    connected,     \* there is a _relay_writer
    frames, restarts,
    \* History.
    published,     \* messages written to the relay
    relayAcked,    \* messages whose relay_ack was read
    acked,         \* received messages a client_ack was sent for
    early,         \* those that were acknowledged while another listener handled them
    lost,          \* received messages that were remembered and could not be saved
    forgotten,     \* how often recent was too short for a received message
    seen,          \* received messages that were in the pane
    left,          \* those that were saved and then not shown
    unshown,       \* of these, those that the pane lacks since its last clearing
    dialogLoaded   \* the pane holds what the dialog loaded

store == <<conversations, rows, delivered, copies, unread, locked>>
pane  == <<currentPeer, bubbles, seen, left, unshown, dialogLoaded>>
calls == <<due, later>>
recency == <<recent, forgotten>>
net   == <<connected, published, relayAcked, acked, early, lost>>
bounds == <<frames, restarts>>
vars == <<store, pane, app, calls, dialog, listener, recency, net, bounds>>

Idle == <<"idle">>
Off == <<"off">>
Closed == <<"closed">>
Bubble(m, st) == [message |-> m, status |-> st]
Status(d) == CASE d = 0 -> "pending" [] d = 1 -> "relayed" [] d = 2 -> "delivered"

Init ==
    /\ conversations = KnownPeer
    /\ rows = [p \in Peer |-> <<>>]
    /\ delivered = [m \in Sent |-> None]
    /\ copies = [m \in Received |-> 0]
    /\ unread = [p \in Peer |-> 0]
    /\ locked = FALSE
    /\ currentPeer = None
    /\ bubbles = <<>>
    /\ app = Idle
    /\ due = <<>> /\ later = <<>>
    /\ dialog = Closed
    /\ listener = [l \in Listener |-> Off]
    /\ recent = <<>>
    /\ connected = FALSE
    /\ frames = 0 /\ restarts = 0
    /\ published = {} /\ relayAcked = {} /\ acked = {} /\ early = {} /\ lost = {}
    /\ forgotten = [m \in Received |-> 0]
    /\ seen = {} /\ left = {} /\ unshown = {} /\ dialogLoaded = FALSE

-----------------------------------------------------------------------------
(* The app's pump.  A new message of the pump is taken when the callbacks  *)
(* that were due after the last one have run.                              *)

CanBegin == app = Idle /\ due = <<>>
CallNext(f) == later' = Append(later, f)
JobEnds == app' = Idle /\ due' = later /\ later' = <<>>

(* The pane gets the bubbles bs. *)
Mount(bs) ==
    /\ bubbles' = bs
    /\ seen' = seen \union (Received \intersect {b.message : b \in ToSet(bs)})

(* Received messages that a listener is about to save, or to show. *)
BeingSaved == {m \in Received : \E l \in Listener :
                  listener[l] \in {<<"select", m>>, <<"insert", m>>, <<"save", m>>}}
BeingShown == {m \in Received : \E l \in Listener : listener[l] = <<"show", m>>}

(* The pane is emptied for p; listeners may be about to show messages of   *)
(* the conversation that it showed.                                        *)
Leave(p) ==
    /\ currentPeer' = p
    /\ bubbles' = <<>>
    /\ left' = left \union BeingShown /\ unshown' = {}

(* The number of rows that are too old to be loaded. *)
Older(p) == IF Len(rows[p]) > Limit THEN Len(rows[p]) - Limit ELSE 0

RowBubble(m) == Bubble(m, IF m \in Sent THEN Status(delivered[m]) ELSE "received")

(* Mutant: the first rows of a conversation are loaded. *)
Messages_Oldest(p) ==
    [k \in 1..(Len(rows[p]) - Older(p)) |-> RowBubble(rows[p][k])]

(* The last rows of a conversation, as bubbles (Storage.get_messages). *)
Messages(p) ==
    LET old == Older(p)
    IN [k \in 1..(Len(rows[p]) - old) |-> RowBubble(rows[p][old + k])]

(* _send_message: the row is inserted, the bubble mounted. *)
SendMessage(m) ==
    /\ CanBegin
    /\ dialog = Closed
    /\ currentPeer = PeerOf[m]
    /\ delivered[m] = None
    /\ ~locked
    /\ rows' = [rows EXCEPT ![PeerOf[m]] = Append(@, m)]
    /\ delivered' = [delivered EXCEPT ![m] = 0]
    /\ bubbles' = Append(bubbles, Bubble(m, "pending"))
    /\ app' = <<"send", m>>
    /\ UNCHANGED <<conversations, copies, unread, locked, currentPeer, seen, left,
                   unshown, dialogLoaded, calls, dialog, listener, recency, net, bounds>>

(* send_chat_msg: the message is encrypted and written. *)
SendSucceeds(m) ==
    /\ app = <<"send", m>>
    /\ connected
    /\ published' = published \union {m}
    /\ JobEnds
    /\ UNCHANGED <<store, pane, dialog, listener, recency, connected, relayAcked,
                   acked, early, lost, bounds>>

SetAll(m, st) == [k \in DOMAIN bubbles |->
    IF bubbles[k].message = m THEN Bubble(m, st) ELSE bubbles[k]]

(* There is no writer, no key of the peer, or the write raises; the frame  *)
(* may have gone out all the same.  The bubble says so, the row does not.  *)
SendFails(m) ==
    /\ app = <<"send", m>>
    /\ \/ UNCHANGED published
       \/ connected /\ published' = published \union {m}
    /\ bubbles' = SetAll(m, "failed")
    /\ JobEnds
    /\ UNCHANGED <<store, currentPeer, seen, left, unshown, dialogLoaded, dialog, listener,
                   recency, connected, relayAcked, acked, early, lost, bounds>>

(* on_list_view_selected: load_messages clears the pane, ... *)
SelectConversation(p) ==
    /\ CanBegin
    /\ dialog = Closed
    /\ p \in conversations
    /\ Leave(p)
    /\ dialogLoaded' = FALSE
    /\ app' = <<"load", p>>
    /\ UNCHANGED <<store, seen, calls, dialog, listener, recency, net, bounds>>

(* ... reads the rows ... *)
ReadRows ==
    /\ app[1] = "load"
    /\ app' = <<"mount", app[2], Messages(app[2])>>
    /\ UNCHANGED <<store, pane, calls, dialog, listener, recency, net, bounds>>

(* ... and mounts them as bubbles; ... *)
MountRows ==
    /\ app[1] = "mount"
    /\ Mount(bubbles \o app[3])
    /\ app' = <<"markread", app[2]>>
    /\ UNCHANGED <<store, currentPeer, left, unshown, dialogLoaded, calls, dialog, listener,
                   recency, net, bounds>>

(* Mutant: mark_read without its condition. *)
MarkedRead_All(p) == [q \in Peer |-> 0]

MarkedRead(p) == [unread EXCEPT ![p] = 0]

(* ... then the conversation is marked as read (mark_read). *)
MarkRead ==
    /\ app[1] = "markread"
    /\ ~locked
    /\ unread' = MarkedRead(app[2])
    /\ JobEnds
    /\ UNCHANGED <<conversations, rows, delivered, copies, locked, pane, dialog, listener,
                   recency, net, bounds>>

CloseChat ==
    /\ CanBegin
    /\ currentPeer # None
    /\ Leave(None)
    /\ due' = later /\ later' = <<>>
    /\ UNCHANGED <<store, seen, dialogLoaded, app, dialog, listener, recency, net, bounds>>

(* An idle pump is woken by call_next. *)
Prompt ==
    /\ CanBegin
    /\ later # <<>>
    /\ due' = later /\ later' = <<>>
    /\ UNCHANGED <<store, pane, app, dialog, listener, recency, net, bounds>>

(* _apply_status: the first bubble of the message is updated. *)
SetFirst(m, st) ==
    LET mine == {k \in DOMAIN bubbles : bubbles[k].message = m} IN
    [k \in DOMAIN bubbles |->
        IF k \in mine /\ \A j \in mine : k <= j THEN Bubble(m, st) ELSE bubbles[k]]

(* Mutant: a status is applied to the last bubble only. *)
Apply_Last(f) ==
    IF f[1] = "bubble" THEN Append(bubbles, Bubble(f[2], "received"))
    ELSE [k \in DOMAIN bubbles |->
            IF k = Len(bubbles) /\ bubbles[k].message = f[2]
            THEN Bubble(f[2], f[3]) ELSE bubbles[k]]

(* A callback is a status to apply or a received message to append. *)
Apply(f) == IF f[1] = "bubble" THEN Append(bubbles, Bubble(f[2], "received"))
            ELSE SetFirst(f[2], f[3])

RunCallback ==
    /\ app = Idle
    /\ due # <<>>
    /\ Mount(Apply(Head(due)))
    /\ due' = Tail(due)
    /\ UNCHANGED <<store, currentPeer, left, unshown, dialogLoaded, app, later, dialog, listener,
                   recency, net, bounds>>

-----------------------------------------------------------------------------
(* The dialog: an existing conversation is opened, a new one inserted.     *)

OpenDialog ==
    /\ CanBegin
    /\ DialogPeer # {}
    /\ dialog = Closed
    /\ dialog' = <<"open">>
    /\ UNCHANGED <<store, pane, app, calls, listener, recency, net, bounds>>

SubmitPeer(p) ==
    /\ dialog = <<"open">>
    /\ \/ /\ p \in conversations
          /\ dialog' = <<"load", p>>
          /\ Leave(p)
          /\ dialogLoaded' = TRUE
          /\ UNCHANGED seen
       \/ /\ p \notin conversations
          /\ dialog' = <<"select", p>>
          /\ UNCHANGED pane
    /\ UNCHANGED <<store, app, calls, listener, recency, net, bounds>>

DialogReadsRows ==
    /\ dialog[1] = "load"
    /\ dialog' = <<"mount", Messages(dialog[2])>>
    /\ UNCHANGED <<store, pane, app, calls, listener, recency, net, bounds>>

DialogMountsRows ==
    /\ dialog[1] = "mount"
    /\ Mount(bubbles \o dialog[2])
    /\ dialog' = Closed
    /\ UNCHANGED <<store, currentPeer, left, unshown, dialogLoaded, app, calls, listener, recency,
                   net, bounds>>

(* get_or_create_conversation: the SELECT of the dialog, ... *)
DialogSelects ==
    /\ dialog[1] = "select"
    /\ dialog' = IF dialog[2] \in conversations THEN Closed ELSE <<"insert", dialog[2]>>
    /\ UNCHANGED <<store, pane, app, calls, listener, recency, net, bounds>>

(* ... and its INSERT. *)
DialogInserts ==
    /\ dialog[1] = "insert"
    /\ dialog[2] \notin conversations
    /\ ~locked
    /\ conversations' = conversations \union {dialog[2]}
    /\ dialog' = Closed
    /\ UNCHANGED <<rows, delivered, copies, unread, locked, pane, app, calls, listener, recency,
                   net, bounds>>

-----------------------------------------------------------------------------
(* The listeners.                                                          *)

Does(l, job) == listener' = [listener EXCEPT ![l] = job]

(* A connection has been registered: there is a writer, and a listener. *)
Connect(l) ==
    /\ listener[l] = Off
    /\ Does(l, Idle)
    /\ connected' = TRUE
    /\ UNCHANGED <<store, pane, app, calls, dialog, recency, published, relayAcked,
                   acked, early, lost, bounds>>

(* A connection ends: its listener clears the writer, whichever it is. *)
Disconnect(l) ==
    /\ listener[l] = Idle
    /\ Does(l, Off)
    /\ connected' = FALSE
    /\ UNCHANGED <<store, pane, app, calls, dialog, recency, published, relayAcked,
                   acked, early, lost, bounds>>

ReadFrame(l) == listener[l] = Idle /\ frames < MaxFrames /\ frames' = frames + 1

(* relay_ack and delivery_ack: the row first. *)
ReadAck(l, m, st) ==
    /\ ReadFrame(l)
    /\ m \in published
    /\ st = "relayed" => m \notin relayAcked
    /\ relayAcked' = IF st = "relayed" THEN relayAcked \union {m} ELSE relayAcked
    /\ Does(l, <<"mark", m, st>>)
    /\ UNCHANGED <<store, pane, app, calls, dialog, recency, connected, published,
                   acked, early, lost, restarts>>

(* Mutant: mark_relayed without its condition. *)
Mark_Always(m, st) == IF st = "relayed" THEN 1 ELSE 2

(* Mutant: one status for both acknowledgements. *)
Mark_RelayedOnly(m, st) == 1

(* mark_relayed only changes a row that is pending.                        *)
Mark(m, st) == IF st = "delivered" THEN 2 ELSE IF delivered[m] = 0 THEN 1 ELSE delivered[m]

MarkRow(l) ==
    LET m == listener[l][2]  st == listener[l][3] IN
    /\ listener[l][1] = "mark"
    /\ delivered' = [delivered EXCEPT ![m] = Mark(m, st)]
    /\ locked' = FALSE
    /\ Does(l, <<"tell", m, st>>)
    /\ UNCHANGED <<conversations, rows, copies, unread, pane, app, calls, dialog, recency,
                   net, bounds>>

(* Then the status callback. *)
TellApp(l) ==
    /\ listener[l][1] = "tell"
    /\ CallNext(<<"status", listener[l][2], listener[l][3]>>)
    /\ Does(l, Idle)
    /\ UNCHANGED <<store, pane, app, due, dialog, recency, net, bounds>>

(* Mutant: all message ids are remembered. *)
Remember_All(m) == Append(recent, m)

(* Mutant: message ids are not remembered. *)
Remember_Nothing(m) == recent

(* deque(maxlen=RecentLength) *)
Remember(m) == Append(IF Len(recent) = RecentLength THEN Tail(recent) ELSE recent, m)

(* Mutant: a new message is acknowledged when it is read. *)
AckNew_AtOnce(m) == acked' = acked \union {m}

(* A new message is acknowledged when it has been handled. *)
AckNew(m) == UNCHANGED acked

(* push and stored_message.  A message seen before is only acknowledged,   *)
(* also when another listener is still saving it; a received row has no    *)
(* client_message_id, so is_msg_dup never finds it.                        *)
ReadMessage(l, m) ==
    /\ ReadFrame(l)
    /\ IF m \in ToSet(recent)
       THEN /\ acked' = acked \union {m}
            /\ early' = early \union (BeingSaved \intersect {m})
            /\ UNCHANGED <<recency, listener>>
       ELSE /\ recent' = Remember(m)
            /\ forgotten' = [r \in Received |-> forgotten[r] +
                  IF Len(recent) = RecentLength /\ r = Head(recent) THEN 1 ELSE 0]
            /\ Does(l, <<"select", m>>)
            /\ AckNew(m)
            /\ UNCHANGED early
    /\ UNCHANGED <<store, pane, app, calls, dialog, connected, published, relayAcked,
                   lost, restarts>>

(* save_message: get_or_create_conversation selects, ... *)
SelectConversationRow(l) ==
    LET m == listener[l][2] IN
    /\ listener[l][1] = "select"
    /\ Does(l, <<IF PeerOf[m] \in conversations THEN "save" ELSE "insert", m>>)
    /\ UNCHANGED <<store, pane, app, calls, dialog, recency, net, bounds>>

(* ... inserts the conversation, ... *)
InsertConversation(l) ==
    LET m == listener[l][2] IN
    /\ listener[l][1] = "insert"
    /\ PeerOf[m] \notin conversations
    /\ conversations' = conversations \union {PeerOf[m]}
    /\ locked' = FALSE
    /\ Does(l, <<"save", m>>)
    /\ UNCHANGED <<rows, delivered, copies, unread, pane, app, calls, dialog, recency, net,
                   bounds>>

(* ... unless the dialog or another listener has inserted one since: the   *)
(* UNIQUE constraint fails, the error is logged, and the message is not    *)
(* acknowledged.  The INSERT has begun a transaction, and nothing ends it  *)
(* before the daemon's connection is next committed: others cannot write.  *)
(* (A listener that inserted the conversation may be about to commit.)     *)
InsertFails(l) ==
    LET m == listener[l][2] IN
    /\ listener[l][1] = "insert"
    /\ PeerOf[m] \in conversations
    /\ lost' = lost \union {m}
    /\ locked' \in IF \E k \in Listener : listener[k][1] = "save" THEN BOOLEAN ELSE {TRUE}
    /\ Does(l, Idle)
    /\ UNCHANGED <<conversations, rows, delivered, copies, unread, pane, app, calls, dialog,
                   recency, connected, published, relayAcked, acked, early, bounds>>

(* ... and inserts the message. *)
SaveMessage(l) ==
    LET m == listener[l][2] IN
    /\ listener[l][1] = "save"
    /\ rows' = [rows EXCEPT ![PeerOf[m]] = Append(@, m)]
    /\ copies' = [copies EXCEPT ![m] = @ + 1]
    /\ unread' = [unread EXCEPT ![PeerOf[m]] = @ + 1]
    /\ locked' = FALSE
    /\ Does(l, <<"show", m>>)
    /\ UNCHANGED <<conversations, delivered, pane, app, calls, dialog, recency, net, bounds>>

(* Mutant: only a conversation that is loaded gets the message. *)
IsShown_WhenLoaded(m) == currentPeer = PeerOf[m] /\ bubbles # <<>>

IsShown(m) == currentPeer = PeerOf[m]

(* handle_incoming: the pane gets the message if it shows the conversation;*)
(* then the client_ack is written.                                         *)
ShowMessage(l) ==
    LET m == listener[l][2] IN
    /\ listener[l][1] = "show"
    /\ IF IsShown(m) THEN CallNext(<<"bubble", m>>) ELSE UNCHANGED later
    /\ acked' = acked \union {m}
    /\ Does(l, Idle)
    /\ UNCHANGED <<store, pane, app, due, dialog, recency, connected, published,
                   relayAcked, early, lost, bounds>>

(* The lookup of the sender, or the writing of the contact, fails: the     *)
(* error is logged, the message neither shown nor acknowledged.            *)
ShowFails(l) ==
    LET m == listener[l][2] IN
    /\ listener[l][1] = "show"
    /\ left' = left \union {m}
    /\ unshown' = unshown \union {m}
    /\ Does(l, Idle)
    /\ UNCHANGED <<store, currentPeer, bubbles, seen, dialogLoaded, app, calls, dialog,
                   recency, net, bounds>>

(* Received messages that are saved and on their way to the pane. *)
InFlight == BeingShown \union {m \in Received :
    \/ <<"bubble", m>> \in ToSet(due) \union ToSet(later)
    \/ app[1] = "mount" /\ Bubble(m, "received") \in ToSet(app[3])}

(* The process ends and is started again. *)
StartsAgain ==
    /\ restarts' = restarts + 1
    /\ locked' = FALSE
    /\ left' = left \union InFlight
    /\ lost' = lost \union BeingSaved
    /\ unshown' = {} /\ dialogLoaded' = FALSE
    /\ currentPeer' = None
    /\ bubbles' = <<>>
    /\ app' = Idle
    /\ due' = <<>> /\ later' = <<>>
    /\ dialog' = Closed
    /\ listener' = [l \in Listener |-> Off]
    /\ recent' = <<>>
    /\ connected' = FALSE
    /\ UNCHANGED <<conversations, rows, delivered, copies, unread, seen, forgotten,
                   published, relayAcked, acked, early, frames>>

Restart == restarts < MaxRestarts /\ StartsAgain

(* The INSERT of the dialog comes second: the exception ends the app. *)
DialogFails ==
    /\ dialog[1] = "insert"
    /\ dialog[2] \in conversations
    /\ StartsAgain

(* "database is locked": the exception ends the app as well. *)
LockedOut ==
    /\ locked
    /\ \/ CanBegin /\ dialog = Closed /\ \E m \in Sent :
              currentPeer = PeerOf[m] /\ delivered[m] = None
       \/ app[1] = "markread"
       \/ dialog[1] = "insert"
    /\ StartsAgain

AppStep == ReadRows \/ MountRows \/ MarkRead \/ LockedOut \/ Prompt \/ RunCallback
              \/ \E m \in Sent : SendSucceeds(m) \/ SendFails(m)
DialogStep == DialogReadsRows \/ DialogMountsRows \/ DialogSelects \/ DialogInserts
                 \/ DialogFails
ListenerStep(l) == MarkRow(l) \/ TellApp(l) \/ SelectConversationRow(l)
                      \/ InsertConversation(l) \/ InsertFails(l) \/ SaveMessage(l)
                      \/ ShowMessage(l) \/ ShowFails(l)

Next ==
    \/ AppStep \/ DialogStep
    \/ CloseChat \/ OpenDialog \/ Restart
    \/ \E p \in Peer : SelectConversation(p)
    \/ \E p \in DialogPeer : SubmitPeer(p)
    \/ \E m \in Sent : SendMessage(m)
    \/ \E l \in Listener :
          \/ ListenerStep(l) \/ Connect(l) \/ Disconnect(l)
          \/ \E m \in Sent : \E st \in {"relayed", "delivered"} : ReadAck(l, m, st)
          \/ \E m \in Received : ReadMessage(l, m)

Spec == Init /\ [][Next]_vars

-----------------------------------------------------------------------------
(* Properties.                                                             *)

IsCallback(f) ==
    \/ f[1] = "status" /\ f[2] \in Sent /\ f[3] \in {"relayed", "delivered"}
    \/ f[1] = "bubble" /\ f[2] \in Received

TypeOK ==
    /\ conversations \in SUBSET Peer
    /\ \A p \in Peer : ToSet(rows[p]) \subseteq {m \in Sent \union Received : PeerOf[m] = p}
    /\ delivered \in [Sent -> 0..2 \union {None}]
    /\ copies \in [Received -> Nat]
    /\ unread \in [Peer -> Nat]
    /\ locked \in BOOLEAN
    /\ currentPeer \in Peer \union {None}
    /\ \A k \in DOMAIN bubbles :
          bubbles[k] \in [message : Sent \union Received,
                          status : {"pending", "relayed", "delivered", "failed", "received"}]
    /\ app[1] \in {"idle", "send", "load", "mount", "markread"}
    /\ dialog[1] \in {"closed", "open", "load", "mount", "select", "insert"}
    /\ \A l \in Listener : listener[l][1] \in
          {"off", "idle", "mark", "tell", "select", "insert", "save", "show"}
    /\ \A f \in ToSet(due) \union ToSet(later) : IsCallback(f)
    /\ ToSet(recent) \subseteq Received /\ Len(recent) <= RecentLength
    /\ connected \in BOOLEAN
    /\ {frames, restarts} \subseteq Nat
    /\ published \in SUBSET Sent /\ relayAcked \in SUBSET Sent
    /\ {acked, early, lost, seen, left, unshown} \subseteq SUBSET Received
    /\ forgotten \in [Received -> Nat]
    /\ dialogLoaded \in BOOLEAN

Quiet ==
    /\ app = Idle /\ due = <<>> /\ later = <<>> /\ dialog = Closed
    /\ \A l \in Listener : listener[l] \in {Off, Idle}

Shown == {bubbles[k] : k \in DOMAIN bubbles}

(* The received messages among the rows that a conversation is loaded with.*)
Loadable(p) == {m \in Received : \E k \in DOMAIN rows[p] : k > Older(p) /\ rows[p][k] = m}

(* The status of a row never goes back, although a relay_ack may be read   *)
(* after the delivery_ack of its message, and after a restart.             *)
StatusNeverRegresses ==
    [][\A m \in Sent : delivered[m] # None =>
          delivered'[m] # None /\ delivered'[m] >= delivered[m]]_delivered

(* A bubble never shows more than the database knows: whatever is on the   *)
(* screen would be there again after a restart.                            *)
NoFalseTick ==
    \A b \in Shown :
        /\ b.status = "relayed" => delivered[b.message] \in {1, 2}
        /\ b.status = "delivered" => delivered[b.message] = 2

(* When everything has been handled, the bubbles of sent messages show     *)
(* that the relay has them if the database says so, although the pane may  *)
(* be cleared and loaded between the marking of a row and its callback.    *)
(* (When the dialog has opened the conversation this does not hold.)       *)
TicksAgree ==
    Quiet /\ ~dialogLoaded => \A b \in Shown : b.message \in Sent =>
        (b.status \in {"relayed", "delivered"} <=> delivered[b.message] \in {1, 2})

(* A received message among the last Limit rows of a conversation is in    *)
(* the pane that shows the conversation, whether it was saved before,      *)
(* during or after the loading, and by whichever listener; unless it could *)
(* not be shown.  (Of older rows only those that were mounted when they    *)
(* were new are in the pane: storage.py:252.)                              *)
ShownIfSaved ==
    Quiet /\ currentPeer # None => \A m \in Loadable(currentPeer) :
        Bubble(m, "received") \in Shown \/ m \in unshown

(* A message that arrives again is not saved again, except after a restart *)
(* or once RecentLength others have been read since.                       *)
SavedOncePerSession == \A m \in Received : copies[m] <= 1 + restarts + forgotten[m]

(* A message among the last Limit rows of a conversation is not            *)
(* overlooked: when the conversation is not unread, it was or will be in   *)
(* the pane, although conversations are marked as read after their rows    *)
(* were read.  (It may be overlooked when the conversation is left, or the *)
(* app ends, between the saving of the message and its showing, or when it *)
(* could not be shown; and always when Limit others came after it.)        *)
NothingOverlooked ==
    \A p \in Peer : unread[p] = 0 => Loadable(p) \subseteq seen \union left \union InFlight

(* A delivery receipt is only sent for a message that is saved, one that   *)
(* could not be, or one that another listener is still saving.             *)
AckedIsSavedOrLost ==
    \A m \in acked : copies[m] > 0 \/ m \in lost \/ m \in early \intersect BeingSaved

=============================================================================
