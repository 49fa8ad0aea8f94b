-------------------------------- MODULE Mesh --------------------------------
(***************************************************************************)
(* The relay mesh (cli_social/p2p/relay.py): relays dial each other, tell  *)
(* each other which peers are connected to them, and pass messages and     *)
(* receipts on.                                                            *)
(*                                                                         *)
(* The clients are coarse here: a peer has at most one connection per      *)
(* relay, and its registration, with the flush of what is stored for it,   *)
(* is one step.  Relay.tla has the detail.  Messages and receipts are both *)
(* "mail": they are looked up, forwarded, stored and flushed alike.        *)
(***************************************************************************)
EXTENDS Naturals, FiniteSets, Sequences, SequencesExt

CONSTANTS
    Relay,       \* relay ids
    Peer,        \* peer ids
    Mail,        \* messages and delivery receipts
    Link,        \* mesh connections, each dialled at most once
    None,        \* "no value"
    Dialer,      \* the relay that dials a link
    Acceptor,    \* the relay it is dialled to
    Source,      \* the relay a mail is given to by its client
    Dest,        \* the peer it is for
    Receipts,    \* the mails that are receipts
    MaxJoins,    \* bound: how often peers connect to relays
    MaxResets,   \* bound: how often a client connection breaks
    MaxCuts      \* bound: how often the network breaks a link

ASSUME MeshAssumption ==
    /\ None \notin Relay \union Link
    /\ Dialer \in [Link -> Relay]
    /\ Acceptor \in [Link -> Relay]
    /\ \A l \in Link : Dialer[l] # Acceptor[l]
    /\ Source \in [Mail -> Relay]
    /\ Dest \in [Mail -> Peer]
    /\ Receipts \subseteq Mail
    /\ {MaxJoins, MaxResets, MaxCuts} \subseteq Nat

VARIABLES
    trusted,    \* the relays that have read the registry (_trusted_relay_ids)
    dial,       \* how far a link is: "idle", "dialing", "ok", "open", "over"
    ends,       \* <<l, r>> for every end of a link whose reader runs
    shut,       \* links that are cut, or closed by one of their ends
    wire,       \* wire[l][r]: the frames under way to relay r on link l
    meshConn,   \* self._mesh_conns
    presence,   \* self._mesh_presence
    adding,     \* the rows a reader selected for a mesh_add, and for whom
    online,     \* self._online
    broken,     \* clients in self._online whose transport is reset
    rows,       \* the database
    saves,      \* _save() tasks that have not inserted their row yet
    joins, resets, cuts,
    orphaned,   \* links registered by a handler that ended while announcing
    \* History.
    given,      \* mails a client gave to its relay
    answered,   \* mails the relay accepted
    handed,     \* mails written to a connection of their peer
    dropped     \* mails lost with the link they were on

links   == <<dial, ends, shut, wire, meshConn>>
clients == <<online, broken>>
dbase   == <<rows, saves>>
bounds  == <<joins, resets, cuts, orphaned>>
history == <<given, answered, handed, dropped>>
vars == <<trusted, links, presence, adding, clients, dbase, bounds, history>>

End == {e \in Link \X Relay : e[2] \in {Dialer[e[1]], Acceptor[e[1]]}}
Other(l, r) == IF r = Dialer[l] THEN Acceptor[l] ELSE Dialer[l]

(* Frames: what they are and the peer or the mail they carry.  The relay   *)
(* id of a mesh_add is always the one of the sending end.                  *)
MeshAdd(p) == <<"mesh_add", p>>
MeshRemove(p) == <<"mesh_remove", p>>
MeshForward(m) == IF m \in Receipts THEN <<"mesh_ack", m>> ELSE <<"mesh_forward", m>>
StoredForward(m) == IF m \in Receipts THEN <<"mesh_ack", m>>
                    ELSE <<"mesh_stored_forward", m>>

Carried(l, r) == {f[2] : f \in {g \in ToSet(wire[l][r]) :
    g[1] \in {"mesh_forward", "mesh_ack", "mesh_stored_forward"}}}

Init ==
    /\ trusted = {}
    /\ dial = [l \in Link |-> "idle"]
    /\ ends = {}
    /\ shut = {}
    /\ wire = [l \in Link |-> [r \in Relay |-> <<>>]]
    /\ meshConn = [r \in Relay |-> [s \in Relay |-> None]]
    /\ presence = [r \in Relay |-> [p \in Peer |-> None]]
    /\ adding = [e \in End |-> None]
    /\ online = [r \in Relay |-> {}]
    /\ broken = [r \in Relay |-> {}]
    /\ rows = [r \in Relay |-> {}]
    /\ saves = [r \in Relay |-> {}]
    /\ joins = 0 /\ resets = 0 /\ cuts = 0
    /\ orphaned = {}
    /\ given = {} /\ answered = {} /\ handed = {} /\ dropped = {}

(* Frames put on the wires: sends[l][r] to relay r on link l. *)
Put(sends) == wire' = [l \in Link |-> [r \in Relay |-> wire[l][r] \o sends[l][r]]]

(* The links of relay r in self._mesh_conns, and one frame to each of them *)
(* (_broadcast_mesh); a frame to a link that is shut goes nowhere.         *)
Conns(r) == {meshConn[r][s] : s \in Relay} \ {None}
Broadcast(r, f) ==
    Put([l \in Link |-> [s \in Relay |->
        IF l \in Conns(r) \ shut /\ s = Other(l, r) THEN <<f>> ELSE <<>>]])
SendOn(l, r, fs) == wire' = [wire EXCEPT ![l][Other(l, r)] = @ \o fs]

-----------------------------------------------------------------------------
(* Links: _mesh_mngr, _dial_mesh_relay and _handle_mesh_reg.               *)

FetchRegistry(r) ==
    /\ r \notin trusted
    /\ trusted' = trusted \union {r}
    /\ UNCHANGED <<links, presence, adding, clients, dbase, bounds, history>>

(* No link to the relay is registered, and no dial to it is under way.  (A *)
(* dial that is refused changes nothing; the manager tries again later.)   *)
Dial(l) ==
    LET r == Dialer[l] IN
    /\ dial[l] = "idle"
    /\ r \in trusted
    /\ meshConn[r][Acceptor[l]] = None
    /\ ~ \E k \in Link : /\ Dialer[k] = r /\ Acceptor[k] = Acceptor[l]
                         /\ dial[k] \in {"dialing", "ok", "open"}
    /\ dial' = [dial EXCEPT ![l] = "dialing"]
    /\ UNCHANGED <<trusted, ends, shut, wire, meshConn, presence, adding, clients,
                   dbase, bounds, history>>

Adds(r) == SetToSeq({MeshAdd(p) : p \in online[r]})

(* The dialled relay answers mesh_ok, registers the link, whatever link to *)
(* the dialer it had, and announces its peers; or it does not trust the    *)
(* dialer yet and closes.                                                  *)
HandleMeshReg(l) ==
    LET r == Acceptor[l] IN
    /\ dial[l] = "dialing"
    /\ \/ /\ r \in trusted
          /\ dial' = [dial EXCEPT ![l] = "ok"]
          /\ meshConn' = [meshConn EXCEPT ![r][Dialer[l]] = l]
          /\ ends' = ends \union {<<l, r>>}
          /\ SendOn(l, r, Adds(r))
       \/ /\ r \notin trusted
          /\ dial' = [dial EXCEPT ![l] = "over"]
          /\ UNCHANGED <<meshConn, ends, wire>>
    /\ UNCHANGED <<trusted, shut, presence, adding, clients, dbase, bounds, history>>

(* The connection breaks while the acceptor announces its peers: a write    *)
(* raises outside the try block, the handler ends, and the link stays in   *)
(* _mesh_conns.                                                            *)
BreakAnnouncing(l) ==
    LET r == Acceptor[l] IN
    /\ dial[l] = "dialing"
    /\ r \in trusted
    /\ cuts < MaxCuts
    /\ cuts' = cuts + 1
    /\ dial' = [dial EXCEPT ![l] = "ok"]
    /\ meshConn' = [meshConn EXCEPT ![r][Dialer[l]] = l]
    /\ shut' = shut \union {l}
    /\ orphaned' = orphaned \union {l}
    /\ \E n \in 1..Len(Adds(r)) : SendOn(l, r, SubSeq(Adds(r), 1, n - 1))
    /\ UNCHANGED <<trusted, ends, presence, adding, clients, dbase, joins, resets,
                   history>>

(* The dialer reads mesh_ok, registers the link and announces its peers;   *)
(* or the link is shut before.                                             *)
Established(l) ==
    LET r == Dialer[l] IN
    /\ dial[l] = "ok"
    /\ \/ /\ dial' = [dial EXCEPT ![l] = "open"]
          /\ meshConn' = [meshConn EXCEPT ![r][Acceptor[l]] = l]
          /\ ends' = ends \union {<<l, r>>}
          /\ IF l \in shut THEN UNCHANGED wire ELSE SendOn(l, r, Adds(r))
          /\ UNCHANGED <<presence, dropped>>
       \/ /\ l \in shut
          /\ dial' = [dial EXCEPT ![l] = "over"]
          /\ dropped' = dropped \union Carried(l, r)
          /\ wire' = [wire EXCEPT ![l][r] = <<>>]
          /\ UNCHANGED <<meshConn, ends, presence>>
    /\ UNCHANGED <<trusted, shut, adding, clients, dbase, bounds, given, answered, handed>>

(* All that the relay at the other end announced is forgotten, by whatever *)
(* link it was announced.                                                  *)
Forget(l, r) ==
    presence' = [presence EXCEPT ![r] =
        [p \in Peer |-> IF @[p] = Other(l, r) THEN None ELSE @[p]]]

(* Mutant: the dialer leaves the registration to the acceptor. *)
Unregister_AcceptorOnly(l, r) ==
    meshConn' = [meshConn EXCEPT ![r] =
        [s \in Relay |-> IF r = Acceptor[l] /\ s = Other(l, r) THEN None ELSE @[s]]]

(* The acceptor takes the other relay out of _mesh_conns, the dialer only  *)
(* this link.                                                              *)
Unregister(l, r) ==
    meshConn' = [meshConn EXCEPT ![r] =
        [s \in Relay |-> IF \/ r = Acceptor[l] /\ s = Other(l, r)
                            \/ r = Dialer[l] /\ @[s] = l
                         THEN None ELSE @[s]]]

(* The reader of an end stops: the finally blocks of the two handlers.     *)
StopReading(l, r) ==
    /\ Forget(l, r)
    /\ Unregister(l, r)
    /\ ends' = ends \ {<<l, r>>}
    /\ shut' = shut \union {l}
    /\ dial' = IF r = Dialer[l] THEN [dial EXCEPT ![l] = "over"] ELSE dial
    /\ wire' = [wire EXCEPT ![l][r] = <<>>]
    /\ adding' = [adding EXCEPT ![<<l, r>>] = None]

(* The end of a link that is shut notices it. *)
LinkEnds(l, r) ==
    /\ <<l, r>> \in ends
    /\ l \in shut
    /\ adding[<<l, r>>] = None
    /\ StopReading(l, r)
    /\ dropped' = dropped \union Carried(l, r)
    /\ UNCHANGED <<trusted, clients, dbase, bounds, given, answered, handed>>

(* The network breaks a link; the frames under way may still arrive. *)
Cut(l) ==
    /\ cuts < MaxCuts
    /\ dial[l] \in {"ok", "open"}
    /\ l \notin shut
    /\ cuts' = cuts + 1
    /\ shut' = shut \union {l}
    /\ UNCHANGED <<trusted, dial, ends, wire, meshConn, presence, adding, clients,
                   dbase, joins, resets, orphaned, history>>

-----------------------------------------------------------------------------
(* Frames: _handle_mesh_message.                                           *)

NextFrame(l, r) == Head(wire[l][r])
Take(l, r) == wire' = [wire EXCEPT ![l][r] = Tail(@)]

(* A reader takes the next frame when it is done with the last one.        *)
CanRead(l, r) == /\ <<l, r>> \in ends
                 /\ wire[l][r] # <<>>
                 /\ adding[<<l, r>>] = None

StoredFor(r, p) == {m \in rows[r] : Dest[m] = p}

(* Mutant: a peer is noted at the connection, not at its relay. *)
NotedAt_Link(l, r) == l

(* The relay id of the frame, under which the other relay is registered.   *)
NotedAt(l, r) == Other(l, r)

(* mesh_add: the peer is noted and the rows stored for it are selected.    *)
ReadAdd(l, r, p) ==
    /\ CanRead(l, r)
    /\ NextFrame(l, r) = MeshAdd(p)
    /\ Take(l, r)
    /\ presence' = [presence EXCEPT ![r][p] = NotedAt(l, r)]
    /\ adding' = [adding EXCEPT ![<<l, r>>] = StoredFor(r, p)]
    /\ UNCHANGED <<trusted, dial, ends, shut, meshConn, clients, dbase, bounds, history>>

(* The rows that leave for the other relay: all that were selected, if     *)
(* some link to it is registered.                                          *)
Moved(l, r) == IF meshConn[r][Other(l, r)] = None THEN {} ELSE adding[<<l, r>>]

(* Mutant: the rows are deleted by their peer, as they are selected.       *)
Deleted_ByPeer(l, r) ==
    {m \in rows[r] : \E x \in Moved(l, r) : Dest[x] = Dest[m]}

(* The rows that are deleted. *)
Deleted(l, r) == Moved(l, r)

(* The selected rows are sent on the registered link and deleted, whatever *)
(* becomes of the frames.  In the code the link is looked up when the rows *)
(* have been selected, and the receipts are selected, sent on that link    *)
(* and deleted after the messages; here it is one step for both tables.    *)
ForwardStored(l, r) ==
    LET k == meshConn[r][Other(l, r)] IN
    /\ <<l, r>> \in ends
    /\ adding[<<l, r>>] # None
    /\ adding' = [adding EXCEPT ![<<l, r>>] = None]
    /\ rows' = [rows EXCEPT ![r] = @ \ Deleted(l, r)]
    /\ IF k = None THEN UNCHANGED <<wire, dropped>>
       ELSE IF k \in shut
       THEN dropped' = dropped \union Moved(l, r) /\ UNCHANGED wire
       ELSE /\ SendOn(k, r, SetToSeq({StoredForward(m) : m \in Moved(l, r)}))
            /\ UNCHANGED dropped
    /\ UNCHANGED <<trusted, dial, ends, shut, meshConn, presence, clients, saves,
                   bounds, given, answered, handed>>

(* mesh_remove: the peer is forgotten, wherever it is noted to be. *)
ReadRemove(l, r, p) ==
    /\ CanRead(l, r)
    /\ NextFrame(l, r) = MeshRemove(p)
    /\ Take(l, r)
    /\ presence' = [presence EXCEPT ![r][p] = None]
    /\ UNCHANGED <<trusted, dial, ends, shut, meshConn, adding, clients, dbase,
                   bounds, history>>

(* A mail arrives: it is written to the peer's connection or stored.       *)
ReadMail(l, r, m) ==
    /\ CanRead(l, r)
    /\ NextFrame(l, r) \in {MeshForward(m), StoredForward(m)}
    /\ Dest[m] \in online[r] => Dest[m] \notin broken[r]
    /\ Take(l, r)
    /\ IF Dest[m] \in online[r]
       THEN handed' = handed \union {m} /\ UNCHANGED saves
       ELSE saves' = [saves EXCEPT ![r] = @ \union {m}] /\ UNCHANGED handed
    /\ UNCHANGED <<trusted, dial, ends, shut, meshConn, presence, adding, clients,
                   rows, bounds, given, answered, dropped>>

(* The peer's connection is reset.  A mesh_stored_forward is written by a  *)
(* task of its own and is only lost; the write of the others raises in the *)
(* reader, which ends the link.                                            *)
ReadMailBroken(l, r, m) ==
    /\ CanRead(l, r)
    /\ NextFrame(l, r) \in {MeshForward(m), StoredForward(m)}
    /\ Dest[m] \in broken[r]
    /\ IF NextFrame(l, r)[1] = "mesh_stored_forward"
       THEN /\ Take(l, r)
            /\ dropped' = dropped \union {m}
            /\ UNCHANGED <<dial, ends, shut, meshConn, presence, adding>>
       ELSE /\ StopReading(l, r)
            /\ dropped' = dropped \union Carried(l, r)
    /\ UNCHANGED <<trusted, clients, dbase, bounds, given, answered, handed>>

-----------------------------------------------------------------------------
(* Clients.                                                                *)

(* Mutant: the peer is announced only on the links the relay dialled.      *)
Announce_Dialled(r, f) ==
    Put([l \in Link |-> [s \in Relay |->
        IF l \in Conns(r) \ shut /\ r = Dialer[l] /\ s = Other(l, r)
        THEN <<f>> ELSE <<>>]])

Announce(r, f) == Broadcast(r, f)

(* A peer registers: it is announced and gets what is stored for it. *)
Join(r, p) ==
    /\ joins < MaxJoins
    /\ p \notin online[r]
    /\ joins' = joins + 1
    /\ online' = [online EXCEPT ![r] = @ \union {p}]
    /\ Announce(r, MeshAdd(p))
    /\ rows' = [rows EXCEPT ![r] = @ \ StoredFor(r, p)]
    /\ handed' = handed \union StoredFor(r, p)
    /\ UNCHANGED <<trusted, dial, ends, shut, meshConn, presence, adding, broken,
                   saves, resets, cuts, orphaned, given, answered, dropped>>

Reset(r, p) ==
    /\ resets < MaxResets
    /\ p \in online[r] \ broken[r]
    /\ resets' = resets + 1
    /\ broken' = [broken EXCEPT ![r] = @ \union {p}]
    /\ UNCHANGED <<trusted, links, presence, adding, online, dbase, joins, cuts,
                   orphaned, history>>

(* The finally block of the client's handler. *)
Quit(r, p) ==
    /\ p \in online[r]
    /\ online' = [online EXCEPT ![r] = @ \ {p}]
    /\ broken' = [broken EXCEPT ![r] = @ \ {p}]
    /\ Announce(r, MeshRemove(p))
    /\ UNCHANGED <<trusted, dial, ends, shut, meshConn, presence, adding, dbase,
                   bounds, history>>

(* The link a mail for a peer is forwarded on. *)
Route(r, p) == IF presence[r][p] = None THEN None ELSE meshConn[r][presence[r][p]]

(* _handle_publish and _handle_client_ack: the mail is written to the      *)
(* peer's connection, or forwarded, or stored.  On a link that is shut the *)
(* write may still be accepted; otherwise it raises in the handler of the  *)
(* client, and the mail is not answered.                                   *)
Submit(r, m) ==
    LET k == Route(r, Dest[m]) IN
    /\ Source[m] = r
    /\ m \notin given
    /\ given' = given \union {m}
    /\ \/ /\ Dest[m] \in online[r]
          /\ IF Dest[m] \in broken[r] THEN UNCHANGED <<handed, answered>>
             ELSE handed' = handed \union {m} /\ answered' = answered \union {m}
          /\ UNCHANGED <<wire, saves, dropped>>
       \/ /\ Dest[m] \notin online[r] /\ k # None /\ k \notin shut
          /\ SendOn(k, r, <<MeshForward(m)>>)
          /\ answered' = answered \union {m}
          /\ UNCHANGED <<saves, handed, dropped>>
       \/ /\ Dest[m] \notin online[r] /\ k # None /\ k \in shut
          /\ \/ answered' = answered \union {m} /\ dropped' = dropped \union {m}
             \/ UNCHANGED <<answered, dropped>>
          /\ UNCHANGED <<wire, saves, handed>>
       \/ /\ Dest[m] \notin online[r] /\ k = None
          /\ saves' = [saves EXCEPT ![r] = @ \union {m}]
          /\ answered' = answered \union {m}
          /\ UNCHANGED <<wire, handed, dropped>>
    /\ UNCHANGED <<trusted, dial, ends, shut, meshConn, presence, adding, clients,
                   rows, bounds>>

InsertRow(r, m) ==
    /\ m \in saves[r]
    /\ rows' = [rows EXCEPT ![r] = @ \union {m}]
    /\ saves' = [saves EXCEPT ![r] = @ \ {m}]
    /\ UNCHANGED <<trusted, links, presence, adding, clients, bounds, history>>

Read(l, r) ==
    \/ \E p \in Peer : ReadAdd(l, r, p) \/ ReadRemove(l, r, p)
    \/ \E m \in Mail : ReadMail(l, r, m) \/ ReadMailBroken(l, r, m)
    \/ ForwardStored(l, r)

Next ==
    \/ \E r \in Relay :
          \/ FetchRegistry(r)
          \/ \E p \in Peer : Join(r, p) \/ Reset(r, p) \/ Quit(r, p)
          \/ \E m \in Mail : Submit(r, m) \/ InsertRow(r, m)
    \/ \E l \in Link : 
          Dial(l) \/ HandleMeshReg(l) \/ BreakAnnouncing(l) \/ Established(l) \/ Cut(l)
    \/ \E e \in End : Read(e[1], e[2]) \/ LinkEnds(e[1], e[2])

Spec == Init /\ [][Next]_vars

(* The event loops run every ready task; the network and the clients owe   *)
(* nothing.                                                                *)
Fairness ==
    /\ \A l \in Link : WF_vars(HandleMeshReg(l)) /\ WF_vars(Established(l))
    /\ \A e \in End : WF_vars(Read(e[1], e[2]) \/ LinkEnds(e[1], e[2]))
    /\ \A r \in Relay : WF_vars(\E m \in Mail : InsertRow(r, m))

FairSpec == Spec /\ Fairness

-----------------------------------------------------------------------------
(* Properties.                                                             *)

TypeOK ==
    /\ trusted \in SUBSET Relay
    /\ dial \in [Link -> {"idle", "dialing", "ok", "open", "over"}]
    /\ ends \in SUBSET End
    /\ shut \in SUBSET Link
    /\ meshConn \in [Relay -> [Relay -> Link \union {None}]]
    /\ presence \in [Relay -> [Peer -> Relay \union {None}]]
    /\ adding \in [End -> (SUBSET Mail) \union {None}]
    /\ online \in [Relay -> SUBSET Peer]
    /\ broken \in [Relay -> SUBSET Peer]
    /\ rows \in [Relay -> SUBSET Mail]
    /\ saves \in [Relay -> SUBSET Mail]
    /\ {joins, resets, cuts} \subseteq Nat
    /\ orphaned \in SUBSET Link
    /\ given \in SUBSET Mail /\ answered \in SUBSET Mail
    /\ handed \in SUBSET Mail /\ dropped \in SUBSET Mail

(* A mail the mesh has accepted is with its peer, in the keeping of some   *)
(* relay, under way on a link that will be read, or was lost together with *)
(* the link or the client connection it was written to.                    *)
MeshCustody ==
    \A m \in answered :
        \/ m \in handed \union dropped
        \/ \E r \in Relay : m \in rows[r] \union saves[r]
        \/ \E e \in End : /\ m \in Carried(e[1], e[2])
                          /\ e \in ends \/ dial[e[1]] = "ok"

(* A link in _mesh_conns is one whose reader runs; only a link whose       *)
(* acceptor failed while announcing its peers stays without a reader.      *)
RegisteredIsRead ==
    \A r, s \in Relay :
        LET l == meshConn[r][s] IN
        l # None => /\ Other(l, r) = s
                    /\ <<l, r>> \in ends \/ (l \in orphaned /\ r = Acceptor[l])

(* A relay that is given as the place of a peer is one that some link to   *)
(* this relay is up with: no peer stays noted at a relay that went away.   *)
PresenceHasLink ==
    \A r \in Relay, p \in Peer : presence[r][p] # None =>
        \E l \in Link : <<l, r>> \in ends /\ Other(l, r) = presence[r][p]

(* The two tables of the mesh only name relays that can be reached, when   *)
(* two links join the same relays and the clean-up of either goes by the   *)
(* id of the relay, not by the link.                                       *)
LinkTables == RegisteredIsRead /\ PresenceHasLink

(* All that was said to relay r has been read, and r has a working link to *)
(* every relay in S.                                                       *)
Settled(r, S) ==
    /\ \A l \in Link : wire[l][r] = <<>>
    /\ \A s \in S : \E l \in Link \ shut : dial[l] = "open" /\ {Dialer[l], Acceptor[l]} = {r, s}

(* README.md: a message "passes to Person A's home relay through the relay *)
(* mesh links".  When a relay has read all it was sent, a peer connected   *)
(* to another relay it is linked with is noted where it is connected, and  *)
(* no other peer is noted there.                                           *)
PresenceAgrees ==
    \A r \in Relay, p \in Peer :
        LET homes == {s \in Relay \ {r} : p \in online[s]} IN
        Settled(r, homes) =>
            /\ homes # {} => presence[r][p] \in homes
            /\ homes = {} /\ Settled(r, Relay \ {r}) => presence[r][p] = None

(* A peer that stays connected to a relay becomes known at the relay it    *)
(* stays linked with.                                                      *)
PresenceConverges ==
    \A l \in Link : \A p \in Peer :
        LET a == Acceptor[l]  d == Dialer[l] IN
        <>[](dial[l] = "open" /\ l \notin shut /\ p \in online[a])
            => <>[](presence[d][p] = a)
=============================================================================
