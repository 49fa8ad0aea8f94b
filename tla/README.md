# cli-social: specifications, model checking and proofs

cli-social is a peer-to-peer chat for the terminal. Clients find each other in
a Kademlia DHT and exchange encrypted messages through a mesh of relays, which
keep messages for peers that are offline. Everything runs in asyncio event
loops: no two pieces of code run at once, but every `await` lets another task
run, and most of what can go wrong here goes wrong at an `await`.

This directory holds TLA+ models of the relay, the relay mesh, the streams
between a relay and its clients, the client's connection to its relay, its
handling of messages, the presence of peers and the files of an identity; TLC
configurations that check them on small instances; and TLAPS proofs, for every
value of the parameters, of the safety properties of all of them. All paths below
are relative to `src/cli_social/`.

## 1. Inventory

| Component | State | Operations | Modelled in |
|---|---|---|---|
| relay, client service (`p2p/relay.py`) | `_online`, `_ip_conns`, a `RelayConnection` per client, tables `store` and `pending_acks` | `_handle_client`, `_handle_publish`, `_handle_client_ack`, `_flush_stored`, `_flush_pending_acks`, `_store_payload`, `_store_pending_ack` | `Relay`, `Mailbox` |
| relay mesh (`p2p/relay.py`) | `_mesh_conns`, `_mesh_presence`, `_trusted_relay_ids` | `_mesh_mngr`, `_dial_mesh_relay`, `_handle_mesh_reg`, `_handle_mesh_message`, `_broadcast_mesh` | `Mesh` |
| client, connection (`p2p/daemon.py`) | `_running`, `relay_host`, `cached_relay`, `_relay_writer`, `_relay_task` | `start`, `stop`, `_run_relay_mngr`, `_discover_and_connect_relay`, `_connect_to_relay`, `_listen_relay` | `Daemon` |
| registry of relays (`p2p/registry.py`) | none | `fetch_and_vrfy_registry` | `Daemon` (`RegistryAccepted`) |
| client, messages (`p2p/daemon.py`, `storage.py`) | `_recent_message_ids`, tables `conversations` and `messages`, the open transaction of a connection | `_on_message`, `send_chat_msg`, `save_message`, `mark_read`, `mark_relayed`, `mark_delivered`, `get_or_create_conversation` | `Chat` |
| client, view (`tui/app.py`) | `current_peer_id`, the message bubbles, the app's and the dialog's message pump, the presence dot | `_send_message`, `load_messages`, `on_list_view_selected`, `handle_incoming`, `_apply_status`, `close_chat`, `start_conversation`, `on_existing_conversation`, `_presence_refresh` | `Chat`, `Presence` |
| presence in the DHT (`p2p/dht.py`) | the record this client publishes | `announce`, `lookup`, `is_online` | `Presence` |
| framing (`p2p/utils.py`) | position in the byte stream, what a transport holds | `read_frame`, `write_frame`, `drain` | `Wire` |
| encryption (`p2p/transport.py`) | none | Noise | no |
| identity and commands (`identity.py`, `cmds/cli.py`) | key file, database file and journal, `state.json`, log | `generate_identity`, `load_identity`, `init`, `whoami`, `tui`, `daemon`, `nuke` | `Identity` |

**How they interact.** A client registers at a relay (challenge and response)
and then sends `publish`, `client_ack` and `ping` frames. A relay that reads a
`publish` writes a `push` to the recipient's connection if the recipient is in
`_online`, passes it on in a `mesh_forward` if `_mesh_presence` knows the
recipient's relay, and stores it otherwise; it answers the sender with
`relay_ack`. The recipient saves the message and answers with `client_ack`,
which travels back the same way and becomes a `delivery_ack`. Relays announce
their clients to each other with `mesh_add` and `mesh_remove`. In the client
the daemon's listener task calls back into the app, which hands the work to its
message pump with `call_next`.

**What is hard.** Handlers of different connections write to each other's
transports; a write that raises ends the handler of another client. One peer
may have several connections, and the maps are keyed by peer. Database inserts
run as background tasks, after the answer. Flushes select, write and delete with
waits in between. Two relays may dial each other at once. In the client three
kinds of tasks connect, and a listener's `finally` block reconnects. The pane
shows what the database held some awaits ago. Two connections to the database
lock each other out. Reads are cancelled by timeouts in the middle of a frame,
and everyone who writes waits for someone to read. Presence is a race of
announcements against the age at which a record counts as offline. Commands
work on the same files at the same time, and may be interrupted.

**What makes each component correct.**

* Relay: the registry names live connections of the right peer; the limit per
  address is exact and never leaks; a message that was answered is handed over
  or kept; a row leaves the database only after it was written; a connection that
  broke gives its slot back.
* Mesh: accepted mail stays in some relay's custody; a registered link is read;
  a presence entry belongs to a link that is up, and is right once everything
  announced has been read.
* Client connection: what is written to is also read from; all connections go to
  the announced relay; connections do not multiply without cause; the client
  is connected again after faults and is not after `stop()`.
* Messages and view: the status of a message never regresses; the screen never
  claims more than the database; a saved message, as long as it is among the last
  rows of its conversation, is shown or the conversation is unread; a receipt is
  sent only for what was saved or is in hand.
* Streams: frames are handled in the order they were written or not at all; a
  message that was written is answered or its connection ends, unless those who
  would answer wait for each other.
* Presence: a connected peer is seen as online, one that left is not, and the
  dot of the conversation that is shown says so.
* Identity: a key is not written over, and of the files that a nuke deletes
  nothing comes back.

The hazards this code is exposed to are listed, each at its line, in
`PROJECT.json`.

## 2. Modules

`Relay.tla` is the core. `Mailbox.tla` is its abstract specification.
`Mesh.tla`, `Wire.tla`, `Daemon.tla`,
`Chat.tla`, `Presence.tla` and `Identity.tla` are models of their own, each with
a coarse version of its neighbours: a model that composed them all would be out
of reach of TLC. The proofs about each are in a module of its name
(`RelayProofs.tla`, `MeshProofs.tla` and so on); `SequenceLemmas.tla` has what the
proofs about streams, callbacks and frames need to know of sequences. The `MC*.tla` modules name the
model values of the instances.

Code between two awaits that can suspend is one action. An `await` on something
that is ready does not suspend; a `write` puts the frame on its way at once, and
the `drain` that follows is where the handler waits.

### Relay

`pc[c]` says where the handler of connection `c` is suspended: in the handshake,
draining the "ok", before a SELECT, in the sending of rows, reading the next
frame (`loop`), draining another connection's transport (`drain`), about to break
out over the rate limit, or done. `link[c]` is what the relay knows of the
transport: `eof` ends reads but not writes, `reset` ends both. The rest is the
code's own state: `online` (`_online`), `ipConns` (`_ip_conns`), `rate`, `batch`
and `sent` (the rows of a flush and its `s_ids`), `rows` (the two tables) and
`saves` (the `_save()` tasks that are still to insert). Five history variables
remember what was read and written.

| Action | Code (`p2p/relay.py`) |
|---|---|
| `Refuse`, `Accept`, `FailHandshake`, `Register`, `Welcome` | `_handle_client` up to the loop |
| `Close`, with `Leave` | the ends of `_handle_client` and its `finally` block |
| `Select`, `SendRow`, `DeleteSent` | `_flush_stored`, then `_flush_pending_acks` |
| `Publish`, `ClientAck`, `Drained` | the loop with `_handle_publish` and `_handle_client_ack` |
| `InsertRow` | `_save()` of `_store_payload` and `_store_pending_ack` |
| `LoseLink`, `Crash` | the network and the process |

Rows are identified by their message and the connection whose handler created
them, which stands for the autoincrement id. The order in which SELECT returns
rows is left open. An INSERT and its commit are one step. The rate window may
have run out at any publish. `ping` and `pong` change nothing and are left out, and
so are frames that the client of this repository never writes: a `publish` or
`client_ack` without a recipient or a content, which is read and never answered
(`relay.py:383`, `relay.py:405`), and a `publish` whose content is not hexadecimal,
at which the handler raises and ends (`relay.py:399`).

`Mailbox` is what a relay promises: a message goes from unread to held or handed,
from held to handed, it is answered only when held or handed, and it is lost only
if the process dies before its insertion was committed. `Relay` maps to it with
`Fate`.

### Mesh

A link is one TCP connection between relays. `dial[l]` follows the dialer,
`ends` holds the ends whose reader runs, `wire[l][r]` the frames under way,
`shut` the links that are closed or cut. `meshConn` and `presence` are the code's
maps. `adding` holds the rows that a `mesh_add` selected and is about to send on.
Clients are coarse: one connection per relay, and registration includes the
flush; `broken` are clients whose transport is reset while they are still in
`_online`. Messages and receipts are both "mail". `Dial`, `HandleMeshReg`,
`BreakAnnouncing`, `Established`, `LinkEnds` are the life of a link;
`ReadAdd`, `ForwardStored`, `ReadRemove`, `ReadMail`, `ReadMailBroken` are
`_handle_mesh_message`; `Join`, `Quit`, `Submit` are what `_handle_client` does to
the mesh. `dropped` records mail that was lost with a link or a client's
connection, `orphaned` the links an acceptor registered and then failed to
announce its peers on: their entry stays in `_mesh_conns` without a reader.

### Wire

The streams between one relay and its clients: `up[c]` and `down[c]` hold the
frames that were written and not read. `ReadHeader` and `ReadBody` are the two
reads of `read_frame`; between them `Timeout` may cancel the read, and what
`Remaining` leaves is a body without its header, whose first bytes, being text,
make a length that exceeds the limit. A write appends and is followed by a drain
that waits while more than `HighWater` frames are unread: `Drained` for a handler,
`Listened` for the client's listener, `Sent` for its app. `handler[c].to` says whose
stream a handler waits for. A handler that ends leaves the frames its client has
yet to read. Registration, storing and reconnection are in `Relay` and `Daemon`.

### Daemon

Tasks are `start()`, the relay manager and one listener per connection; `trying`
is the connection a task has in `_connect_to_relay`. `phase` is how far a
connection is, and `serving` what the relays hold. A relay forgets the client when
any of its connections ends, as `Relay.GoOffline` does, which is not repeated here.
A listener that ends by an exception keeps its streams
open until its `finally` block has finished, which includes sleeping and
connecting again. `CachedTimeout` is `wait_for` giving up the cached relay.
`cached` and `host` start with any relay of `Known` or none, as the saved state and
the command line may give them. Which relay is fastest is data: discovery picks any that runs.
`dhtCopy` is what `relays.v1` in the DHT holds: nothing that parses, in which case
the published copy is fetched, a registry with a trusted signature, or one
without, which is rejected with no second try. It does not change; the published
copy may fail to arrive at any time, as a fault.

### Chat

One client: the app's pump (`app`), the dialog's pump (`dialog`) and the listeners
(`listener`) interleave at their database calls. There may be several listeners,
since connections multiply (`Daemon`); they share the list of recent ids (`recent`)
and the daemon's connection to the database. `conversations`, `rows`, `delivered` and
`copies` are the database; `bubbles` is the pane; `later` and `due` are the
callbacks given to `call_next`, which run when the pump has finished the message
it handles. Relays and peers are coarse: a `relay_ack` comes once and a
`delivery_ack` any time after the message was published, in either order, and any
message may arrive more than once, at any listener.

`rows[p]` are the messages of a conversation, the oldest first; a conversation is
loaded with the last `Limit` of them (`Messages`; 50 in the code). The code orders
them by `sent_at`, which for received messages is the time they were saved, so that the
order is that of saving as long as the clock does not go back. `unread` is
`unread_count`: `SaveMessage` raises it, `MarkRead` resets it when the rows have been
mounted, those that were too old to be loaded included.

A listener that reads an id which is in `recent` acknowledges it at once, also when
another listener is still saving that message (`early`). `locked` says that the daemon's
connection has a transaction open: an INSERT that fails begins one, and nothing ends
it before the next commit (`InsertFails`), which may be that of another listener;
until then the app's writes fail, which ends it (`LockedOut`). `ShowFails` is a
`handle_incoming` that raises: the message is saved, neither shown nor acknowledged.
`lost`, `forgotten`, `seen`, `left`, `unshown` and `dialogLoaded` are history that the
properties need to say how far they go. An INSERT and its commit are one step, and a
crash between them is the crash before.

### Presence

The manager of one daemon, the record it stores in the DHT, and the app of another
user that shows a dot. Time passes in ticks of 30 seconds, and not while something
is overdue; `record`, `steady`, `calm` and `shownFor` count ticks up to the limits
that the properties tell apart, so that behaviours may be of any length. The
constants are the code's 90, 60 and 30 seconds, with the duration of an attempt to
connect, of storing and of a lookup as upper bounds. An announcement or a record
may be lost and a lookup fail (`calm` is the time since). The viewer selects, opens
by the dialog and closes conversations; `fetch_presence` looks again which one is
shown, `_presence_refresh` does not. An answer is about the record at the end of the
lookup (section 6).

### Identity

Files are known by whose data is in them: `key` (`identity.enc`), `db` (the owners
of its rows), `state` (`state.json`), each of which may be missing, and `Torn` when
it was opened for writing and is not whole. `log` is `debug.log`, which the app opens
to append and nothing deletes; `journal` is `data.db-journal`, which a process killed in a
transaction leaves and SQLite removes when a database of that name is next used
(`UsesDb`). Commands are processes that run beside
each other: `init` looks for the key file, derives the key and writes it; the others
load it; `tui` and `daemon` open the database; `nuke` deletes one file after the
other. A file that is deleted stays with those who have it open (`keyOpen`,
`dbOpen`). `Kill` ends a process anywhere. `disorder` records what the guarantees of
`nuke` exclude: a command beside it, an interruption that no later nuke repaired,
and two inits at once.

## 3. Runs

All numbers are distinct states. Deadlock is checked in `presence_dot` only: the
other systems really stop when their bounded events (connections, frames, faults) are
used up, time does not.

| Run | Checks | Instance |
|---|---|---|
| `relay_safety` | registry, accounting, custody of messages and receipts, deletion, and the refinement of `Mailbox` | a sender, a recipient with two overlapping connections, one message, one restart; 194 000 |
| `relay_live` | under fairness: a broken connection ends unless its handler waits for ever for another client, rows found are written | two messages, one connection at a time per address, so that the rate limit and the address limit are reached; 138 000 |
| `relay_stale_close` | violated: `ForwardedIfServed` | as `relay_safety`, no restart |
| `relay_stranded_row` | violated: `OfflineDelivery` | two connections of the recipient |
| `mesh_pair` | custody, links and presence entries, agreement and convergence of presence | two relays, one link, a message and a receipt, three registrations, one reset, one cut; 334 000 |
| `mesh_move` | violated: `PresenceAgrees` | three relays, a peer that moves |
| `wire_streams` | order of frames, one-way traffic goes on; under fairness: a message is answered, or its connection ends, or all wait | two clients, three messages one way, one of them too large, one the other way, drains that always wait, two timeouts; 300 000 |
| `daemon_links` | writer, home relay, number of listeners; connected for good, disconnected for good | two relays, one of which may be configured or saved, four connections at a time, two faults, `stop()`, every copy of the registry; 299 000 |
| `chat_store` | status, ticks, pane, unread marks, duplicates and receipts against the database | one sent and two received messages, these of one peer, two peers, one of them without a conversation, two listeners, two frames, loading of the last row, the dialog, one restart, one recent id; 2 342 000 |
| `presence_dot` | records are fresh while connected, dots correct themselves | one peer, another conversation, ticks of 30 seconds: threshold 3, period 2, retry 1, an attempt up to 1, a lookup up to 1, storing within a tick; 1 836 000 |
| `identity_files` | of the files that it deletes a nuke leaves nothing, a key is not written over | two processes, three identities, five commands, each of which may be killed; 661 000 |
| `identity_ghost` | violated: `EverythingNuked` | one process, one identity, two commands; 288 |

**Why the bounds are enough.** The interesting cases need two connections of one
peer (an old one that closes after a new one), one connection in the middle of a
flush while a message arrives, a link that is registered, breaks and is dialled again,
a peer that moves once or twice, a listener and a manager that both reconnect, a
message that arrives twice, at two listeners at once or with a restart in between, a
conversation with one row more than is loaded, two clients that wait for each other, a
read that is cancelled between header and body, a nuke that is interrupted and
repeated; all of these occur. Every action fires.
The limit per address, the rate limit, the capacity, the recent list and the limit of
rows are reached (with limits of one or two). Two links between the same relays are
left to the proof: `TablesNameLinks` is for any. The proofs of section 5 show that no invariant
depends on the bounds; what still does is liveness, and `PresenceAgrees` is only
true, and proved, of two relays with one link.

**Fairness.** In `Relay` every handler that can go on does: asyncio runs ready
tasks; a handshake ends because both of its reads have a timeout; a client
reads what is flushed to it, unless its connection breaks. Of a drain nothing is
assumed but that it ends when the transport it waits for is reset: it has no timeout
(`utils.py:18`), and a client that stays connected and does not read blocks the handlers
that write to it for ever (`Blocked`). `BrokenConnectionEnds` makes this its exception,
and there is no property that a publish is eventually answered. `Wire` shows how clients
come to block each other: there the handlers and listeners do what they can, and nothing
obliges apps to send or reads to time out. In `Mesh` readers, handshakes and inserts go on. In
`Daemon` tasks and timers get their turn and a running relay answers or refuses.
Nothing obliges clients, users or the network to do anything, and no fairness is
asked of faults. `Reconnected` assumes that all relays come back; with only some
it is false, since the manager stays with the relay it once chose. Its other
exception is a daemon that has to discover a relay while the DHT holds a registry
that is rejected.

## 4. Where the code and its documentation differ

* `relay_stale_close`: an old connection of a peer that closes after the peer
  reconnected takes the peer out of `_online`; messages are then stored while the
  peer is connected.
* `relay_stranded_row`: a message is answered while its INSERT is still to run; a
  recipient that registers and flushes in between is never sent the row while it
  stays connected.
* `mesh_move`: `mesh_remove` forgets a peer wherever it is noted, so the farewell
  of the old relay erases the entry of the new one.
* `identity_ghost`: `nuke` deletes the key file, the database and `state.json`.
  `debug.log`, in which the app names its peer, and the journal of a client that was
  killed in a transaction stay, although "everything is nuked".

Seen while modelling, and stated by no run of its own:

* The end of an old listener clears the writer of a newer connection
  (`p2p/daemon.py:254`): sending fails with "Not connected to relay network" although
  a connection is served (`Daemon`, `ClearWriter`).
* The id of a message is remembered before it is saved (`p2p/daemon.py:101`); if
  saving fails, as it does when the dialog or another listener inserts the same
  conversation, a second arrival is acknowledged and the sender is shown a delivery of a
  message that nobody has (`lost` in `AckedIsSavedOrLost`). A second listener
  acknowledges a message while the first is still saving it (`early`).
* A conversation is loaded with its last 50 rows and then marked as read as a whole
  (`storage.py:252`, `tui/app.py:570`): of more than 50 unread messages the oldest are
  never shown (`Loadable` in `ShownIfSaved` and `NothingOverlooked`).
* A message is saved and then handed to the app; if the app raises
  (`p2p/daemon.py:214`), it is unread, not shown, not acknowledged, and when it
  comes again, a duplicate that is acknowledged (`unshown` in `ShownIfSaved`).
* Two clients that send to each other and do not read while they acknowledge
  may leave both handlers and both listeners waiting for each other; no timeout
  covers a drain (`Jammed` in `Wire`).
* A message that is saved while its conversation is being left is marked as read
  and was never shown (`left` in `NothingOverlooked`).
* `nuke` beside a running client, or killed half-way, leaves data of the old
  identity in the files it deletes too, which a new one then finds (`disorder` in
  `NothingSurvives`).
* A dot may show the presence of the conversation that was open before, until the
  next refresh (`RefreshEnds` in `Presence`).

The properties say in their comments how far the guarantees go: `TicksAgree`
does not tell relayed from delivered, because a `relay_ack` that is read after
the `delivery_ack` turns the bubble back; `MeshCustody` allows mail to be dropped
with a client connection that was reset.

## 5. Proofs

### The relay

`RelayProofs.tla` proves, for any finite set of connections and any peers,
addresses, messages and limits, with any number of restarts up to any bound:

| Theorem | Says |
|---|---|
| `TypesHold` | the type invariant `TypeOK` |
| `RegistryIsSound` | `OnlineIsServing` |
| `AccountingIsExact` | `IpAccounting` |
| `DeletionIsSafe` | `RowsLeaveOnlyWritten` |
| `CustodyHolds` | `Custody` |
| `ReceiptCustodyHolds` | `ReceiptCustody` |
| `PublishesAreAnswered` | `EveryPublishAnswered` |
| `RelayImplementsMailbox` | `ImplementsMailbox`, the refinement |

*Assumptions.* `ConnAssumption` (finitely many connections, each with a client and
an address), `MsgAssumption` (a message has a sender and a recipient),
`LimitAssumption` (limits are positive) and `NoneAssumption` (`None` is no
connection). TLC evaluates them in every run of the module.

*Argument.* `TypeInv` is `TypeOK` with the fact that a handler in `drain` has a
job; it is inductive. `OnlineIsServing` and `IpAccounting` are inductive on top of
it: all steps but five kinds leave the registry and the counts alone (`Quiet`), and
the handlers of an address are one set that grows and shrinks by one element,
which is where finiteness is needed.

The properties of messages are not inductive: a flush deletes `sent`, so one must
know that what is in `sent` was written, and to the right peer. `FlowInv` adds
this: what a handler selected and sent is for its own client, what it sent is in
`out`, and what it waits for was written to the peer it is for. With it
`DeletedIsHanded` shows that a deleted row was handed over; from there a message
that is handed, held or lost stays so (`KeptGrows`), and `Custody` and
`ReceiptCustody` follow. `PublishesAreAnswered` follows one message and the
handler that owes its answer.

The refinement needs `MailInv` too: a row selected by a flush is still in its
table or was handed over, so that `SendRow` is a `Hand` or a stutter and never
brings back something lost, and a message that was never published is nowhere, so
that `Publish` starts from `unread`. Each step of the relay is then a `Keep`,
`Hand`, `Answer` or `Lose` or a stutter.

### The client's connection

`DaemonProofs.tla` proves, for any relays, any number of connections at a time and
any number of faults:

| Theorem | Says |
|---|---|
| `TypesHold` | `TypeOK`; in particular, whoever connects has a relay to go to |
| `WriterHasListener` | `WriterIsListened` |
| `OneHomeRelay` | `HomeRelayIsServed` |
| `ListenersArePaidFor` | `ListenersBounded` |

*Assumption.* `DaemonAssumption`: `None` is neither a relay nor a connection, the
relays that may be named exist, and the bounds are numbers.

*Argument.* `TaskInv` says that a task which connects is at one of the places
where it does, that a connection has one user, and that the manager only exists
when `start()` is over. It keeps the writer listened to: a connection that is being
made belongs to nobody else, and whoever ends clears the writer. `HomeInv` says
that all connections, made or being made, go to `relay_host`, which changes only
while there are none: discovery begins, and the cached relay is tried and given up,
only when no relay is chosen. The types need this too, as a listener that connects
again takes `relay_host`. For the number of listeners, `BoundInv` counts `start()`
or the manager as one more while it may add a listener (`MayAdd`): they set out only
without a writer, and there is none only at first or because a listener ended.

### The files of an identity

`IdentityProofs.tla` proves, for any processes, identities and commands:

| Theorem | Says |
|---|---|
| `TypesHold` | `TypeOK` |
| `NukeIsThorough` | `NothingSurvives` |
| `KeysAreKept` | `KeyIsKept` |

*Assumption.* `IdentityAssumption`: the values that stand for "no file" and "not
whole" are no identities.

*Argument.* `KeyInv` is why a key is not written over: who derives a key found none
and finds none, and who writes the file has it open alone, unless another `init`
does the same. It also says that a nuke that is alone is: every other process is
off. `Deleted` says which files such a nuke is done with. `Ordered` says that as
long as nothing disturbed the order every nuke is alone, a key is written next to no
other file, and clients use the key that is in the file; then neither an open file
nor a loaded identity brings anything back, which is `NothingSurvives`. That it
speaks of three files only is no accident: of all files, `EverythingNuked`, it is
false (`identity_ghost`).

### The messages and the view

`ChatProofs.tla` proves, for any peers, messages, listeners, number of frames and
restarts, length of the list of recent ids and limit of rows:

| Theorem | Says |
|---|---|
| `TypesHold` | `TypeOK` |
| `NoStatusRegresses` | `StatusNeverRegresses`, of every step |
| `MessagesSavedOnce` | `SavedOncePerSession` |
| `AcksAreSaved` | `AckedIsSavedOrLost` |
| `NoTickIsFalse` | `NoFalseTick` |
| `TicksAgreeAtRest` | `TicksAgree` |
| `SavedIsShown` | `ShownIfSaved` |
| `NothingIsOverlooked` | `NothingOverlooked` |

*Assumption.* `ChatAssumption`: a message is either sent or received and has a
peer, `None` is neither a peer nor a status, the recent list holds at least one id
and a conversation is loaded with at least one row.

*Argument.* `TypeInv` adds to `TypeOK` what the rows of a conversation are
(`RowsMatch`): messages of its peer, each of which the database counts, and every
sent one that it counts. For the listeners: `OnceInv` bounds the copies of a message and
the listeners that are about to save it together (`Saving`), against the restarts, the
times it was forgotten, and its being in the recent list. A listener begins to save
only what it did not find there, so that only one does between two times it was
forgotten, however many there are. `AckInv` says that what is remembered is saved, being
saved or lost, which is what a duplicate relies on when it is acknowledged, by the same
listener or by another.

For the pane, a value travels from the database to a bubble by a load or by a
callback, and the invariants follow it all the way. `TickInv` says of bubbles, of
rows that are loaded and not mounted, of callbacks and of what the listeners hold
that the database knows as much. `AgreeInv` says the opposite direction: a row that
is marked while its bubble is not is still being told (`Telling`). It needs that a
sent message has one bubble (`Single`) and a row, and that the dialog has loaded
nothing, for a dialog may mount a message twice. `ShowInv` says the same of the
received messages that the conversation would now be loaded with (`Loadable`): shown, or
coming by a listener, a callback or a load (`Coming`), or not to be shown (`unshown`).
Such a message was loadable before it, too, unless it is the one that is saved, since rows
are only added at the end. `SeenInv` adds that a message a listener is about to show is
unread unless its conversation is open or was left meanwhile.

### The mesh

`MeshProofs.tla` proves, for any relays, links, peers and mails:

| Theorem | Says |
|---|---|
| `TypesHold` | `TypeOK` |
| `TablesNameLinks` | `LinkTables`, whatever links join the relays |
| `AcceptedIsKept` | `MeshCustody`, likewise |
| `PeersAreKnown` | `PresenceAgrees`, if there are two relays and one link (`OnePair`) |

*Assumption.* `MeshAssumption`: a link joins two different relays, a mail has a
source and a destination, `None` is neither a relay nor a link. `PeersAreKnown` has
`OnePair` as well, because with a third relay `PresenceAgrees` is false (`mesh_move`).

*Argument.* `TypeInv` adds to `TypeOK` the frames on the wires and that the sets
which are put in sequences are finite. `LinkInv` adds to `LinkTables` that each
end of a link that nobody has shut reads from its registration on (`LinkUp`); that the clean-up goes by the
relay and not by the link only ever removes too much, and what it leaves is still
read. `CustodyInv` adds that mail is only under way to an end that reads, or to a
dialer that is about to (`Delivered`): whoever stops reading drops what was on its way.

`PairInv` relates a relay's table to what is still under way: a peer is connected to
the other relay exactly if it will be noted when all frames have been read (`Noted`,
`Told`), from when the other relay has registered the link until the link is shut.
Each frame about a peer that is sent, and each that is read, keeps this.

### The streams

`WireProofs.tla` proves, for any clients, messages, sizes of buffers and number of
timeouts:

| Theorem | Says |
|---|---|
| `TypesHold` | `TypeOK` |
| `FramesInOrder` | `HandledInOrder` |
| `OneWayFlows` | `OneWayNeverJams` |

*Assumption.* `WireAssumption`: a message has a sender and a recipient, and the
bounds are numbers.

*Argument.* `OrderInv` says that what was handled is what was written first, and that
while the handler runs the rest is what is unread, except that the first unread
frame may have lost its header. `FlowInv` says why a frame is where it is: who wrote
it, for which published message, and whose stream a handler waits for. If one client
publishes, and to others, its own listener has nothing to answer and never waits;
the handlers of the others only wait for its stream; and its handler waits for one of
theirs at most. Every chain of waiting ends at a listener that reads.

### Presence

`PresenceProofs.tla` proves, for any peers and for every threshold, period, pause
and duration:

| Theorem | Says |
|---|---|
| `TypesHold` | `TypeOK` |
| `RecordsAreFresh` | `PresenceIsFresh` |
| `DotsAreRight` | `DotCorrectsItself` |

*Assumptions.* `PresenceAssumption` (pauses are positive, durations are numbers) and
`TimingAssumption`: a period and two times of storing are less than the threshold. The
code has 60 and 90 seconds, so that storing may take up to 15.

*Argument.* `ManagerInv` says for each place of the manager how the age of the record
and the time the place has left add up: asleep, the record is young enough to live
until the next announcement, unless the client connected, or the network failed, so
recently that the announcement is still to come. Its parts were found from
counterexamples with other parameters than the run's. `Refreshing` says that the dot
is what was true when the last refresh looked (`RightSince`), or that the refresh that
will look is near enough.

*Only model-checked.* Liveness, since neither fairness nor `ENABLED` is in reach of
the provers: `BrokenConnectionEnds`, `FoundRowsAreWritten`,
`PresenceConverges`, `Settles`, `Reconnected` and `StoppedForGood`. All other
properties of the passing runs are proved.

## 6. Not modelled, and why

* Backpressure between relays: `Wire` has the streams of clients only. `_online`
  may change while a loop that announces its peers to another relay waits
  (`relay.py:178`, `relay.py:436`), which raises; in `Mesh` the acceptor's failure is a
  step of its own, the dialer's ends the link. That a message wrapped as
  `mesh_forward` no longer fits a frame is not in `Mesh` either, where sizes are data.
* A connection that is silent without an end: `Daemon` assumes that a relay which
  accepts answers or ends. The handshake has no timeout (`p2p/daemon.py:175`), so the
  manager would wait for ever.
* A mesh dial that is refused leaves nothing behind and is not a step of `Mesh`. On a
  `mesh_add`, the code selects the stored messages, sends them, and then does the
  same with the receipts (`relay.py:217`, `relay.py:230`); in `Mesh` both are selected at
  once (`ReadAdd`) and sent at once (`ForwardStored`), so that a row inserted between the two
  SELECTs is left for a later announcement.
* A lookup that found a record just before it was replaced may say that a peer is
  offline whose new record is fresh: the code ages the value it found
  (`p2p/dht.py:144`), while `Answer` takes the record at the end of the lookup. The two
  differ by the duration of a lookup at most, and the next refresh finds the new record.
* Signatures are valid or not. A registry has no version, so that an old one with
  a valid signature is as good as a new one; the clocks of users agree.
* `registry sign` writes one file, `node` starts a relay or a DHT node, and neither
  touches the files of `Identity` but to read the key.
* The passphrase, Argon2 and the encryption of contents are functions of their
  input; a wrong passphrase is a load that fails.
* The Kademlia network, Noise and SQLite are libraries. Usernames, fingerprints,
  the widgets of the sidebar and all layout are data no property depends on.

## 7. Plan

Done, in this order: `Relay` with `Mailbox` and its proofs; `Mesh`; `Daemon` with
the choice of the registry; `Chat` with unread marks, the locked database and
several listeners;
`Identity`; `Presence`; `Wire`; the proofs about `Identity` and `Daemon`; the proofs
about `Wire`, `Chat`, `Mesh` and `Presence`.

Next:

1. The steps on which the liveness properties rest, as invariants and action
   properties that can be proved: that a handler which ends leaves nothing that
   waits for it (`Relay`), that a connection whose listener ended is replaced by the
   task that has it in hand (`Daemon`).
2. `PresenceAgrees` for relays that are joined in pairs, of peers that do not move.
3. An abstract specification of what the client promises for a received message,
   from read to saved to shown, and `Chat` as its refinement.
