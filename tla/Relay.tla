------------------------------- MODULE Relay -------------------------------
(***************************************************************************)
(* One relay server (cli_social/p2p/relay.py) and its client connections.  *)
(*                                                                         *)
(* Every accepted TCP connection is served by one asyncio task running     *)
(* _handle_client.  Tasks interleave only where they await, so an action   *)
(* here is the code between two awaits that can suspend: a read, a database*)
(* call, or the drain() of a write.  The relay has no mesh links in this   *)
(* module (_mesh_conns is empty, as it is until a registry is fetched);    *)
(* Mesh.tla models the links.                                              *)
(*                                                                         *)
(* Clients and the network are the environment: a client may open a        *)
(* connection, pass or fail the handshake, publish, acknowledge what was   *)
(* written to it, and disappear at any moment.  It is the client of this   *)
(* repository: its frames have a target and a payload in hexadecimal.  One *)
(* without a target or a payload would be read and never answered, and one *)
(* that is no hexadecimal would end the handler when it is to be stored.   *)
(***************************************************************************)
EXTENDS Naturals, FiniteSets

CONSTANTS
    Peer,         \* peer ids
    Conn,         \* TCP connections, each opened at most once
    Ip,           \* client addresses
    Msg,          \* messages; a message id is a fresh uuid, so it names one message
    None,         \* "no value"
    Client,       \* the peer that opens a connection
    Addr,         \* the address it is opened from
    Sender,       \* the peer that publishes a message
    Recipient,    \* the peer it is addressed to
    MaxPerIp,     \* self._max_per_ip
    Capacity,     \* MAX_CONCURRENT_CONN
    RateLimit,    \* messages a connection may publish in one window
    MaxCrashes    \* bound: how often the relay process dies and restarts

ASSUME NoneAssumption == None \notin Conn
ASSUME ConnAssumption ==
    /\ IsFiniteSet(Conn)
    /\ Client \in [Conn -> Peer]
    /\ Addr \in [Conn -> Ip]
ASSUME MsgAssumption ==
    /\ Sender \in [Msg -> Peer]
    /\ Recipient \in [Msg -> Peer]
ASSUME LimitAssumption ==
    /\ MaxPerIp \in Nat \ {0}
    /\ Capacity \in Nat \ {0}
    /\ RateLimit \in Nat \ {0}
    /\ MaxCrashes \in Nat

(* The two database tables: stored messages and undelivered receipts. *)
Table == {"store", "pending_acks"}

(* A row is identified by its message and the connection whose handler     *)
(* created it, which stand for the AUTOINCREMENT id.                       *)
Row == Msg \X Conn

Stage == {"new", "handshake", "welcome", "select", "send", "loop", "drain",
          "limited", "done"}

Job == [table : Table, msg : Msg, to : Conn]

(* What the relay knows of a transport: after "eof" reads end but writes   *)
(* are still accepted; after "reset" both raise.                           *)
Transport == {"up", "eof", "reset"}

VARIABLES
    pc,        \* where the handler of a connection is suspended
    link,      \* what the relay knows of the transport of a connection
    online,    \* self._online
    ipConns,   \* self._ip_conns
    rate,      \* conn.msg_count_wind
    table,     \* the table a handler is flushing
    batch,     \* rows it selected and has not written yet
    sent,      \* s_ids: rows it wrote and has not deleted yet
    job,       \* what a handler in "drain" was forwarding, and to whom
    rows,      \* the database
    saves,     \* _save() tasks that have not inserted their row yet
    crashes,
    \* History: what was read from and written to connections.
    via,       \* the connection a message was published on
    acked,     \* messages whose relay_ack was written
    receipts,  \* client_acks read on a connection
    out,       \* frames written to a connection, by the table they belong to
    lostSaves  \* rows whose _save() task died with the process

server   == <<online, ipConns>>
flushing == <<table, batch, sent>>
dbase    == <<rows, saves>>
history  == <<via, acked, receipts, out, lostSaves>>
vars == <<pc, link, server, rate, flushing, job, dbase, crashes, history>>

(* The peer a row of a table is for: a message goes to its recipient, a    *)
(* receipt to the sender of the message.                                   *)
Dest(t, m) == IF t = "store" THEN Recipient[m] ELSE Sender[m]

Serving(c) == pc[c] \notin {"new", "handshake", "done"}

(* Handlers counted by _ip_conns, and the peers in self._online. *)
Handlers(i) == {c \in Conn : Addr[c] = i /\ pc[c] \notin {"new", "done"}}
OnlinePeers == {p \in Peer : online[p] # None}

(* self._online.get(p), if it is alive: close() runs only at the very end  *)
(* of a handler, so a connection is alive until its handler is done.       *)
Target(p) == IF online[p] # None /\ pc[online[p]] # "done"
             THEN online[p] ELSE None

Init ==
    /\ pc = [c \in Conn |-> "new"]
    /\ link = [c \in Conn |-> "up"]
    /\ online = [p \in Peer |-> None]
    /\ ipConns = [i \in Ip |-> 0]
    /\ rate = [c \in Conn |-> 0]
    /\ table = [c \in Conn |-> "store"]
    /\ batch = [c \in Conn |-> {}]
    /\ sent = [c \in Conn |-> {}]
    /\ job = [c \in Conn |-> None]
    /\ rows = [t \in Table |-> {}]
    /\ saves = [t \in Table |-> {}]
    /\ crashes = 0
    /\ via = [m \in Msg |-> None]
    /\ acked = {}
    /\ receipts = [c \in Conn |-> {}]
    /\ out = [c \in Conn |-> [t \in Table |-> {}]]
    /\ lostSaves = [t \in Table |-> {}]

Goto(c, stage) == pc' = [pc EXCEPT ![c] = stage]

-----------------------------------------------------------------------------
(* Admission, handshake and the end of a handler.                          *)

HasSlot(c) == ipConns[Addr[c]] < MaxPerIp

AtCapacity == Cardinality(OnlinePeers) >= Capacity

(* A connection over the capacity or over the address's limit is dropped.  *)
Refuse(c) ==
    /\ pc[c] = "new"
    /\ AtCapacity \/ ~HasSlot(c)
    /\ Goto(c, "done")
    /\ UNCHANGED <<link, server, rate, flushing, job, dbase, crashes, history>>

Accept(c) ==
    /\ pc[c] = "new"
    /\ ~AtCapacity /\ HasSlot(c)
    /\ ipConns' = [ipConns EXCEPT ![Addr[c]] = @ + 1]
    /\ Goto(c, "handshake")
    /\ UNCHANGED <<link, online, rate, flushing, job, dbase, crashes, history>>

(* Mutant: an early return of the handshake does not give the slot back. *)
GiveSlotBack_Registered(c) ==
    ipConns' = IF pc[c] = "handshake" THEN ipConns
               ELSE [ipConns EXCEPT ![Addr[c]] = IF @ > 0 THEN @ - 1 ELSE 0]

GiveSlotBack(c) ==
    ipConns' = [ipConns EXCEPT ![Addr[c]] = IF @ > 0 THEN @ - 1 ELSE 0]

(* Mutant: the peer is not taken out of self._online. *)
GoOffline_Never(c) == UNCHANGED online

(* self._online.pop(conn.peer_id, None), whichever connection it holds; no *)
(* connection exists before the handshake has succeeded.                   *)
GoOffline(c) ==
    online' = IF pc[c] = "handshake" THEN online
              ELSE [online EXCEPT ![Client[c]] = None]

(* The finally block of _handle_client. *)
Leave(c) == Goto(c, "done") /\ GiveSlotBack(c) /\ GoOffline(c)

(* A bad first message, a wrong key or signature, a timeout or an EOF ends *)
(* the handler before a RelayConnection exists.                            *)
FailHandshake(c) ==
    /\ pc[c] = "handshake"
    /\ Leave(c)
    /\ UNCHANGED <<link, rate, flushing, job, dbase, crashes, history>>

(* The challenge was answered: the connection becomes the peer's online    *)
(* connection, replacing any other one, and "ok" is written.               *)
Register(c) ==
    /\ pc[c] = "handshake"
    /\ online' = [online EXCEPT ![Client[c]] = c]
    /\ Goto(c, "welcome")
    /\ UNCHANGED <<link, ipConns, rate, flushing, job, dbase, crashes, history>>

(* "ok" is drained; _flush_stored starts. *)
Welcome(c) ==
    /\ pc[c] = "welcome"
    /\ link[c] # "reset"
    /\ Goto(c, "select")
    /\ UNCHANGED <<link, server, rate, flushing, job, dbase, crashes, history>>

(* Mutant: the service loop ignores an EOF. *)
Ends_IgnoresEof(c) ==
    \/ pc[c] \in {"welcome", "loop"} /\ link[c] = "reset"
    \/ pc[c] = "limited"
    \/ pc[c] = "drain" /\ "reset" \in {link[job[c].to], link[c]}

(* The read hits EOF; the drain of the "ok", of the target it forwards to, *)
(* or of the relay_ack raises ConnectionResetError; or the handler breaks  *)
(* out over the rate limit.                                                *)
Ends(c) ==
    \/ pc[c] = "loop" /\ link[c] # "up"
    \/ pc[c] = "welcome" /\ link[c] = "reset"
    \/ pc[c] = "limited"
    \/ /\ pc[c] = "drain"
       /\ \/ link[job[c].to] = "reset"
          \/ job[c].table = "store" /\ link[c] = "reset"

Close(c) ==
    /\ Ends(c)
    /\ Leave(c)
    /\ job' = [job EXCEPT ![c] = None]
    /\ UNCHANGED <<link, rate, flushing, dbase, crashes, history>>

-----------------------------------------------------------------------------
(* _flush_stored and then _flush_pending_acks.                             *)

(* Mutant: the rows are looked up by the peer that sent them. *)
Stored_BySender(c) == {r \in rows[table[c]] : Sender[r[1]] = Client[c]}

(* SELECT ... WHERE peer_id = ? *)
Stored(c) == {r \in rows[table[c]] : Dest(table[c], r[1]) = Client[c]}

Select(c) ==
    /\ pc[c] = "select"
    /\ batch' = [batch EXCEPT ![c] = Stored(c)]
    /\ Goto(c, "send")
    /\ UNCHANGED <<link, server, rate, table, sent, job, dbase, crashes, history>>

(* A row is written.  It joins s_ids once the write is drained; if the     *)
(* drain raises, the row stays in the database although it was written.    *)
SendRow(c, r) ==
    /\ pc[c] = "send"
    /\ link[c] # "reset"
    /\ r \in batch[c]
    /\ out' = [out EXCEPT ![c][table[c]] = @ \union {r[1]}]
    /\ batch' = [batch EXCEPT ![c] = @ \ {r}]
    /\ \/ sent' = [sent EXCEPT ![c] = @ \union {r}] /\ UNCHANGED link
       \/ link' = [link EXCEPT ![c] = "reset"] /\ UNCHANGED sent
    /\ UNCHANGED <<pc, server, rate, table, job, dbase, crashes,
                   via, acked, receipts, lostSaves>>

(* Mutant: everything that was selected is deleted. *)
Deleted_Selected(c) == sent[c] \union batch[c]

(* Mutant: the rows of the peer are deleted, not those that were written.  *)
Deleted_ByPeer(c) == Stored(c)

(* DELETE ... WHERE id IN s_ids *)
Deleted(c) == sent[c]

(* All rows are written, or a write failed: what was written is deleted,   *)
(* and the flush of the other table or the service loop begins.            *)
DeleteSent(c) ==
    /\ pc[c] = "send"
    /\ batch[c] = {} \/ link[c] = "reset"
    /\ rows' = [rows EXCEPT ![table[c]] = @ \ Deleted(c)]
    /\ batch' = [batch EXCEPT ![c] = {}]
    /\ sent' = [sent EXCEPT ![c] = {}]
    /\ IF table[c] = "store"
       THEN table' = [table EXCEPT ![c] = "pending_acks"] /\ Goto(c, "select")
       ELSE UNCHANGED table /\ Goto(c, "loop")
    /\ UNCHANGED <<link, server, rate, job, saves, crashes, history>>

-----------------------------------------------------------------------------
(* The service loop.                                                       *)

(* Mutant: the handler waits for the online connection of its own client.  *)
Await_OwnEntry(c, t, m, target) ==
    job' = [job EXCEPT ![c] = [table |-> t, msg |-> m, to |-> online[Client[c]]]]

Await(c, t, m, target) ==
    job' = [job EXCEPT ![c] = [table |-> t, msg |-> m, to |-> target]]

(* await target.send_msg(...): the frame is written and c waits for the    *)
(* drain of the target; if the target's transport is already reset the     *)
(* call raises in the handler of c.                                        *)
Forward(c, t, m, target) ==
    \/ /\ link[target] # "reset"
       /\ out' = [out EXCEPT ![target][t] = @ \union {m}]
       /\ Await(c, t, m, target)
       /\ Goto(c, "drain")
       /\ UNCHANGED server
    \/ /\ link[target] = "reset"
       /\ Leave(c)
       /\ UNCHANGED <<out, job>>

(* _store_payload and _store_pending_ack start a task that will insert. *)
Save(c, t, m) == saves' = [saves EXCEPT ![t] = @ \union {<<m, c>>}]

(* _handle_publish of a message that has a target and a payload. *)
HandlePublish(c, m) ==
    \/ /\ Target(Recipient[m]) # None
       /\ Forward(c, "store", m, Target(Recipient[m]))
       /\ UNCHANGED <<saves, acked>>
    \/ /\ Target(Recipient[m]) = None
       /\ Save(c, "store", m)
       /\ acked' = acked \union {m}
       /\ UNCHANGED <<pc, server, job, out>>

(* The error is written and the handler is about to break out. *)
DropClient(c) == Goto(c, "limited")

(* A publish frame is read.  The rate window may or may not have run out.  *)
Publish(c, m) ==
    /\ pc[c] = "loop"
    /\ link[c] # "reset"
    /\ Client[c] = Sender[m]
    /\ via[m] = None
    /\ via' = [via EXCEPT ![m] = c]
    /\ \E base \in {0, rate[c]} : rate' = [rate EXCEPT ![c] = base + 1]
    /\ \/ /\ rate'[c] > RateLimit
          /\ DropClient(c)
          /\ UNCHANGED <<server, job, saves, acked, out>>
       \/ /\ rate'[c] <= RateLimit
          /\ HandlePublish(c, m)
    /\ UNCHANGED <<link, flushing, rows, crashes, receipts, lostSaves>>

(* Mutant: a receipt for a peer that is offline is not kept. *)
SaveReceipt_Never(c, m) == UNCHANGED saves

SaveReceipt(c, m) == Save(c, "pending_acks", m)

(* A client_ack is read: the client acknowledges, once per connection, a   *)
(* message that was written to it.                                         *)
ClientAck(c, m) ==
    /\ pc[c] = "loop"
    /\ link[c] # "reset"
    /\ m \in out[c]["store"] \ receipts[c]
    /\ receipts' = [receipts EXCEPT ![c] = @ \union {m}]
    /\ \/ /\ Target(Sender[m]) # None
          /\ Forward(c, "pending_acks", m, Target(Sender[m]))
          /\ UNCHANGED saves
       \/ /\ Target(Sender[m]) = None
          /\ SaveReceipt(c, m)
          /\ UNCHANGED <<pc, server, job, out>>
    /\ UNCHANGED <<link, rate, flushing, rows, crashes, via, acked, lostSaves>>

(* Mutant: the publish is answered only if the target is still there. *)
Answered_IfTargetLives(c) ==
    IF pc[job[c].to] = "done" THEN acked ELSE acked \union {job[c].msg}

Answered(c) == acked \union {job[c].msg}

(* The wait for the target ends.  (It ends without an error, too, when the *)
(* transport of the target is closed by its own handler.)  A publish is    *)
(* then answered with relay_ack.                                           *)
Drained(c) ==
    /\ pc[c] = "drain"
    /\ \/ /\ job[c].table = "store"
          /\ link[c] # "reset"
          /\ acked' = Answered(c)
       \/ /\ job[c].table = "pending_acks"
          /\ UNCHANGED acked
    /\ job' = [job EXCEPT ![c] = None]
    /\ Goto(c, "loop")
    /\ UNCHANGED <<link, server, rate, flushing, dbase, crashes,
                   via, receipts, out, lostSaves>>

-----------------------------------------------------------------------------
(* Background tasks, the network, and the process itself.                  *)

(* A _save() task inserts its row and commits. *)
InsertRow(t, r) ==
    /\ r \in saves[t]
    /\ rows' = [rows EXCEPT ![t] = @ \union {r}]
    /\ saves' = [saves EXCEPT ![t] = @ \ {r}]
    /\ UNCHANGED <<pc, link, server, rate, flushing, job, crashes, history>>

(* The client closes its side, or the connection breaks. *)
LoseLink(c) ==
    /\ pc[c] \notin {"new", "done"}
    /\ \/ link[c] = "up" /\ link' = [link EXCEPT ![c] = "eof"]
       \/ link[c] # "reset" /\ link' = [link EXCEPT ![c] = "reset"]
    /\ UNCHANGED <<pc, server, rate, flushing, job, dbase, crashes, history>>

(* Mutant: the store is only in memory. *)
Restored_Empty == [t \in Table |-> {}]

(* What the database holds after a restart. *)
Restored == rows

(* The process dies and is started again: only the database survives. *)
Crash ==
    /\ crashes < MaxCrashes
    /\ crashes' = crashes + 1
    /\ pc' = [c \in Conn |-> IF pc[c] = "new" THEN "new" ELSE "done"]
    /\ online' = [p \in Peer |-> None]
    /\ ipConns' = [i \in Ip |-> 0]
    /\ batch' = [c \in Conn |-> {}]
    /\ sent' = [c \in Conn |-> {}]
    /\ job' = [c \in Conn |-> None]
    /\ rows' = Restored
    /\ lostSaves' = [t \in Table |-> lostSaves[t] \union saves[t]]
    /\ saves' = [t \in Table |-> {}]
    /\ UNCHANGED <<link, rate, table, via, acked, receipts, out>>

Flush(c) == Select(c) \/ DeleteSent(c) \/ \E r \in batch[c] : SendRow(c, r)

Next ==
    \/ \E c \in Conn :
          \/ Refuse(c) \/ Accept(c) \/ FailHandshake(c) \/ Register(c)
          \/ Welcome(c) \/ Flush(c) \/ Drained(c) \/ Close(c) \/ LoseLink(c)
          \/ \E m \in Msg : Publish(c, m) \/ ClientAck(c, m)
    \/ \E t \in Table : \E r \in saves[t] : InsertRow(t, r)
    \/ Crash

Spec == Init /\ [][Next]_vars

(* The drain a handler waits for has no timeout: it ends for certain only  *)
(* when the transport of the target breaks.  (One that is closed while it  *)
(* is full first waits for its client to read, too.)                       *)
Blocked(c) == pc[c] = "drain" /\ link[job[c].to] # "reset"

(* asyncio runs every ready task.  The handshake ends because both of its  *)
(* reads have a timeout.  A client reads what is flushed to it while it    *)
(* registers, as the listener of the daemon does; nobody else is obliged   *)
(* to read, and a handler may wait for ever for a target that does not.    *)
(* Clients and the network owe nothing else.                               *)
Fairness ==
    /\ \A c \in Conn :
          /\ WF_vars(FailHandshake(c) \/ Register(c))
          /\ WF_vars(Welcome(c) \/ Flush(c))
          /\ WF_vars(~Blocked(c) /\ (Drained(c) \/ Close(c)))
    /\ WF_vars(\E t \in Table : \E r \in saves[t] : InsertRow(t, r))

FairSpec == Spec /\ Fairness

-----------------------------------------------------------------------------
(* Properties.                                                             *)

(* Every variable holds a value of its kind. *)
TypeOK ==
    /\ pc \in [Conn -> Stage]
    /\ link \in [Conn -> Transport]
    /\ online \in [Peer -> Conn \union {None}]
    /\ ipConns \in [Ip -> Nat]
    /\ rate \in [Conn -> Nat]
    /\ table \in [Conn -> Table]
    /\ batch \in [Conn -> SUBSET Row]
    /\ sent \in [Conn -> SUBSET Row]
    /\ job \in [Conn -> Job \union {None}]
    /\ rows \in [Table -> SUBSET Row]
    /\ saves \in [Table -> SUBSET Row]
    /\ crashes \in Nat
    /\ via \in [Msg -> Conn \union {None}]
    /\ acked \in SUBSET Msg
    /\ receipts \in [Conn -> SUBSET Msg]
    /\ out \in [Conn -> [Table -> SUBSET Msg]]
    /\ lostSaves \in [Table -> SUBSET Row]

(* The registry never points at a connection of another peer, nor at one   *)
(* whose handler has ended: _handle_publish would write into a closed      *)
(* transport and answer "relayed".  The finally block pops by peer, so     *)
(* this depends on the order of registrations and closings.                *)
OnlineIsServing ==
    \A p \in Peer : online[p] # None =>
        Client[online[p]] = p /\ Serving(online[p])

(* _ip_conns counts exactly the handlers that run for an address, on every *)
(* path out of _handle_client, and never exceeds the limit; a leaked count *)
(* would lock an address out for ever.                                     *)
IpAccounting ==
    \A i \in Ip : /\ ipConns[i] = Cardinality(Handlers(i))
                  /\ ipConns[i] <= MaxPerIp

Handed(t, m) == \E c \in Conn : Client[c] = Dest(t, m) /\ m \in out[c][t]
Held(t, m) == \E c \in Conn : <<m, c>> \in saves[t] \union rows[t]
Lost(t, m) == \E c \in Conn : <<m, c>> \in lostSaves[t]

(* A message the relay answered with relay_ack was written to a connection *)
(* of its recipient, or is in the store (or in a task about to insert it), *)
(* or its insertion died with the process, whatever flushes, deletions and *)
(* disconnections happened meanwhile.                                      *)
Custody == \A m \in acked : Handed("store", m) \/ Held("store", m) \/ Lost("store", m)

(* A publish that was read is answered, unless the handler is still        *)
(* waiting to answer it, ended without answering, or is dropping the       *)
(* connection for its rate.                                                *)
EveryPublishAnswered ==
    \A m \in Msg : via[m] # None =>
        \/ m \in acked
        \/ pc[via[m]] \in {"limited", "done"}
        \/ /\ pc[via[m]] = "drain"
           /\ job[via[m]].table = "store"
           /\ job[via[m]].msg = m

(* A receipt that was read is written to the sender of the message or kept *)
(* for it, unless the handler that read it died forwarding it.             *)
ReceiptCustody ==
    \A c \in Conn : \A m \in receipts[c] :
        \/ Handed("pending_acks", m)
        \/ Held("pending_acks", m)
        \/ Lost("pending_acks", m)
        \/ pc[c] = "done"

(* A row leaves the database only after its frame was written to a         *)
(* connection of the peer it is for, even when two connections of the peer *)
(* flush at the same time and one of them breaks half way.                 *)
RowsLeaveOnlyWritten ==
    [][\A t \in Table : \A r \in rows[t] \ rows'[t] : Handed(t, r[1])]_vars

(* The handler of a broken connection ends, and gives its slot back,       *)
(* unless it waits for ever for a target whose transport is not broken:    *)
(* also when it is in the middle of a flush, of a forward to a connection  *)
(* that breaks or is closed as well, or has frames left to read.           *)
BrokenConnectionEnds ==
    \A c \in Conn : (pc[c] # "new" /\ link[c] # "up")
        ~> (pc[c] = "done" \/ []Blocked(c))

(* A row found when a connection of its peer starts to flush is written to *)
(* that peer, unless the connection breaks, while other handlers write to  *)
(* the same connection, insert rows or wait for ever.                      *)
FoundRowsAreWritten ==
    \A m \in Msg : \A c \in {d \in Conn : Client[d] = Recipient[m]} :
        (pc[c] = "select" /\ table[c] = "store"
            /\ \E d \in Conn : <<m, d>> \in rows["store"])
        ~> (Handed("store", m) \/ link[c] = "reset" \/ pc[c] = "done")

(* README.md says that Person A's relay "forwards it to them if they are   *)
(* online, or stores it in a local database if he is offline": a message   *)
(* is not stored while a connection of its recipient is in its service     *)
(* loop and its transport works.                                           *)
ForwardedIfServed ==
    [][\A m \in Msg, c \in Conn :
          <<m, c>> \in saves'["store"] \ saves["store"] =>
             ~ \E d \in Conn : /\ Client[d] = Recipient[m]
                              /\ pc[d] = "loop" /\ link[d] = "up"]_vars

(* README.md says that the relays "solve NAT traversal and offline         *)
(* delivery": a message that was answered is written to its recipient once *)
(* the recipient has a connection that stays.                              *)
OfflineDelivery ==
    \A m \in Msg, c \in Conn :
        (m \in acked /\ Client[c] = Recipient[m] /\ Serving(c))
        ~> (Handed("store", m) \/ Lost("store", m)
              \/ link[c] # "up" \/ pc[c] = "done")

(* What Mailbox.tla sees of the relay. *)
Fate(m) == IF Handed("store", m) THEN "handed"
           ELSE IF Held("store", m) THEN "held"
           ELSE IF Lost("store", m) THEN "lost"
           ELSE "unread"

M == INSTANCE Mailbox WITH fate <- [m \in Msg |-> Fate(m)], acked <- acked

(* The relay keeps the promise of Mailbox.tla. *)
ImplementsMailbox == M!Spec

=============================================================================
