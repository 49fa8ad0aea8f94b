------------------------------ MODULE Presence ------------------------------
(***************************************************************************)
(* The presence of a peer, from the manager of its daemon, which announces *)
(* it in the DHT (p2p/daemon.py, p2p/dht.py), to the dot in the header of  *)
(* the chat pane of another user's app (tui/app.py).                       *)
(*                                                                         *)
(* Time passes in ticks, and only when nothing is overdue.  What a moment  *)
(* is compared with is kept as the number of ticks that have passed since, *)
(* up to a limit, so that the behaviours need no bound.  The clocks of the *)
(* two users agree.                                                        *)
(*                                                                         *)
(* The network may lose an announcement or the stored record, and a lookup *)
(* may find nothing.                                                       *)
(***************************************************************************)
EXTENDS Integers, FiniteSetsExt

CONSTANTS
    Other,      \* the other conversations of the viewer
    None,       \* "no conversation", "no record", "no lookup"
    Threshold,  \* age from which a record is offline (90 seconds)
    Period,     \* pause after an announcement, and between refreshes (60)
    Retry,      \* pause after a failed attempt to connect (30)
    Attempt,    \* what an attempt to connect takes at most
    Store,      \* what storing an announcement takes at most
    Find        \* what a lookup takes at most

ASSUME PresenceAssumption ==
    /\ {Threshold, Period, Retry} \subseteq Nat \ {0}
    /\ {Attempt, Store, Find} \subseteq Nat
    /\ "remote" \notin Other /\ None \notin Other \union {"remote"}
    /\ None \notin Int

(* A record does not become too old while the next one is being stored. *)
ASSUME TimingAssumption == Period + 2 * Store < Threshold

VARIABLES
    manager,    \* what the remote daemon is doing, and its ticks left
    connected,  \* it has a _relay_writer
    retrying,   \* its listener is going to connect again
    record,     \* ticks since last_seen of the record in the DHT
    shown,      \* ChatPane.current_peer_id
    dot,        \* the dot in the header
    fetch,      \* ticks left of fetch_presence() for a conversation
    refresh,    \* what _presence_refresh is doing, and its ticks left
    \* History.
    steady,     \* ticks since connected changed
    calm,       \* ticks since the network last failed
    shownFor    \* ticks since the conversation was opened

remote == <<manager, connected, retrying>>
viewer == <<shown, dot, fetch, refresh>>
ticks == <<steady, calm, shownFor>>
vars == <<remote, record, viewer, ticks>>

Peer == {"remote"} \union Other

Job(j, n) == [job |-> j, left |-> n]
Looking(p, n) == [job |-> "look", left |-> n, for |-> p]

(* What it takes until a connected peer has been announced, and until a    *)
(* record that was lost is replaced.                                       *)
Settled == Max({Attempt, Retry}) + Store
Renewed == Period + 2 * Store

(* What the dot may be behind: a refresh that began before the             *)
(* conversation was opened may set it, and the next ends this much later.  *)
Behind == Period + 2 * Find

(* What the properties tell apart. *)
MaxSteady == Max({Settled, Threshold}) + Behind + 1
MaxCalm == Renewed + Behind + 1
MaxShown == Behind + 1

Init ==
    /\ manager = Job("off", 0)
    /\ connected = FALSE /\ retrying = FALSE
    /\ record = None
    /\ shown = None /\ dot = "dim"
    /\ fetch = [p \in Peer |-> None]
    /\ refresh = Job("sleep", Period)
    /\ steady = MaxSteady /\ calm = MaxCalm /\ shownFor = 0

-----------------------------------------------------------------------------
(* Time.                                                                   *)

Later(n, max) == Min({n + 1, max})
Sooner(t) == IF t = None THEN None ELSE t - 1

Overdue ==
    \/ manager.job # "off" /\ manager.left = 0
    \/ refresh.left = 0
    \/ \E p \in Peer : fetch[p] = 0

Tick ==
    /\ ~Overdue
    /\ manager' = IF manager.job = "off" THEN manager ELSE [manager EXCEPT !.left = @ - 1]
    /\ refresh' = [refresh EXCEPT !.left = @ - 1]
    /\ fetch' = [p \in Peer |-> Sooner(fetch[p])]
    /\ record' = IF record = None THEN None ELSE Later(record, Threshold)
    /\ steady' = Later(steady, MaxSteady)
    /\ calm' = Later(calm, MaxCalm)
    /\ shownFor' = Later(shownFor, MaxShown)
    /\ UNCHANGED <<connected, retrying, shown, dot>>

SetConnected(c) ==
    /\ connected' = c
    /\ steady' = IF c = connected THEN steady ELSE 0

-----------------------------------------------------------------------------
(* The remote daemon.                                                      *)

(* start(): first an attempt to connect, ... *)
Start ==
    /\ manager.job = "off"
    /\ manager' = Job("start", Attempt)
    /\ UNCHANGED <<connected, retrying, record, viewer, ticks>>

(* ... then, connected or not, the presence is announced: the record is    *)
(* stored, or lost.  The manager begins.                                   *)
StartEnds ==
    /\ manager.job = "start"
    /\ manager' = Job("sleep", 0)
    /\ \E c \in BOOLEAN : connected' = c
    /\ steady' = 0
    /\ \/ record' = 0 /\ UNCHANGED calm
       \/ record' = record /\ calm' = 0
    /\ UNCHANGED <<retrying, viewer, shownFor>>

Announces == Job("announce", Store)

(* Mutant: only a connection that the manager has made is announced. *)
AfterWaking_OwnOnly == IF connected THEN Job("sleep", Period) ELSE Job("connect", Attempt)

AfterWaking == IF connected THEN Announces ELSE Job("connect", Attempt)

ManagerWakes ==
    /\ manager = Job("sleep", 0)
    /\ manager' = AfterWaking
    /\ UNCHANGED <<connected, retrying, record, viewer, ticks>>

(* Mutant: after a failed attempt the manager waits until it is offline. *)
AfterAttempt_Threshold == IF connected' THEN Announces ELSE Job("sleep", Threshold)

AfterAttempt == IF connected' THEN Announces ELSE Job("sleep", Retry)

(* The listener may have connected in the meantime. *)
AttemptEnds ==
    /\ manager.job = "connect"
    /\ \/ SetConnected(TRUE)
       \/ UNCHANGED <<connected, steady>>
    /\ manager' = AfterAttempt
    /\ UNCHANGED <<retrying, record, viewer, calm, shownFor>>

(* The record carries the time at which announce() was called.             *)
AnnounceEnds ==
    /\ manager.job = "announce"
    /\ \/ record' = Store - manager.left /\ UNCHANGED calm
       \/ record' = record /\ calm' = 0
    /\ manager' = Job("sleep", Period)
    /\ UNCHANGED <<connected, retrying, viewer, steady, shownFor>>

(* The end of a connection is noticed by its listener, which tries once to *)
(* connect again.                                                          *)
ConnectionEnds ==
    /\ connected
    /\ SetConnected(FALSE)
    /\ retrying' = TRUE
    /\ UNCHANGED <<manager, record, viewer, calm, shownFor>>

ListenerReconnects ==
    /\ retrying
    /\ retrying' = FALSE
    /\ \/ SetConnected(TRUE)
       \/ UNCHANGED <<connected, steady>>
    /\ UNCHANGED <<manager, record, viewer, calm, shownFor>>

(* stop(), or the process ends. *)
Stop ==
    /\ manager.job # "off"
    /\ manager' = Job("off", 0)
    /\ connected' = FALSE /\ retrying' = FALSE
    /\ steady' = 0
    /\ UNCHANGED <<record, viewer, calm, shownFor>>

(* The nodes that stored the record leave, or it is replaced by one whose  *)
(* signature is not valid.                                                 *)
RecordIsLost ==
    /\ record # None
    /\ record' = None
    /\ calm' = 0
    /\ UNCHANGED <<remote, viewer, steady, shownFor>>

-----------------------------------------------------------------------------
(* The viewer.                                                             *)

(* is_online() *)
Online == record # None /\ record < Threshold

(* A lookup ends: the answer about p is "ok" or "error".  Nothing is said  *)
(* here of what the others announce.  The answer is of the record as it is *)
(* then; the code ages the value that the lookup found, which may be one   *)
(* that was replaced before the lookup ended (dht.py:128).                 *)
Answer(p, a) ==
    IF p = "remote"
    THEN \/ a = (IF Online THEN "ok" ELSE "error") /\ UNCHANGED calm
         \/ a = "error" /\ calm' = 0
    ELSE UNCHANGED calm

(* on_list_view_selected *)
Select(p) ==
    /\ shown' = p
    /\ dot' = "connecting"
    /\ fetch' = [fetch EXCEPT ![p] = Find]
    /\ shownFor' = 0
    /\ UNCHANGED <<remote, record, refresh, steady, calm>>

(* The dialog opens a conversation without asking for its presence. *)
DialogOpens(p) ==
    /\ shown' = p
    /\ dot' = "dim"
    /\ shownFor' = 0
    /\ UNCHANGED <<remote, record, fetch, refresh, steady, calm>>

CloseChat ==
    /\ shown # None
    /\ shown' = None /\ dot' = "dim"
    /\ shownFor' = 0
    /\ UNCHANGED <<remote, record, fetch, refresh, steady, calm>>

(* fetch_presence() looks again which conversation is shown, ... *)
FetchEnds(p) ==
    /\ fetch[p] # None
    /\ fetch' = [fetch EXCEPT ![p] = None]
    /\ \E a \in {"ok", "error"} :
          /\ Answer(p, a)
          /\ dot' = IF shown = p THEN a ELSE dot
    /\ UNCHANGED <<remote, record, shown, refresh, steady, shownFor>>

(* Mutant: only a dot that is dim is refreshed. *)
Refreshed_IfDim == IF dot = "dim" THEN shown ELSE None

Refreshed == shown

RefreshBegins ==
    /\ refresh = Job("sleep", 0)
    /\ refresh' = IF Refreshed = None THEN Job("sleep", Period)
                  ELSE Looking(Refreshed, Find)
    /\ UNCHANGED <<remote, record, shown, dot, fetch, ticks>>

(* ... _presence_refresh does not: the dot is set whatever is shown.       *)
RefreshEnds ==
    /\ refresh.job = "look"
    /\ refresh' = Job("sleep", Period)
    /\ \E a \in {"ok", "error"} : Answer(refresh.for, a) /\ dot' = a
    /\ UNCHANGED <<remote, record, shown, fetch, steady, shownFor>>

Next ==
    \/ Tick
    \/ Start \/ StartEnds \/ ManagerWakes \/ AttemptEnds \/ AnnounceEnds
    \/ ConnectionEnds \/ ListenerReconnects \/ Stop
    \/ RecordIsLost
    \/ \E p \in Peer : Select(p) \/ DialogOpens(p) \/ FetchEnds(p)
    \/ CloseChat \/ RefreshBegins \/ RefreshEnds

Spec == Init /\ [][Next]_vars

-----------------------------------------------------------------------------
(* Properties.                                                             *)

TypeOK ==
    /\ manager.job \in {"off", "start", "sleep", "connect", "announce"}
    /\ manager.left \in 0..Max({Period, Retry, Attempt, Store})
    /\ connected \in BOOLEAN /\ retrying \in BOOLEAN
    /\ record \in 0..Threshold \union {None}
    /\ shown \in Peer \union {None}
    /\ dot \in {"dim", "connecting", "ok", "error"}
    /\ fetch \in [Peer -> 0..Find \union {None}]
    /\ refresh.job \in {"sleep", "look"} /\ refresh.left \in 0..Max({Period, Find})
    /\ steady \in 0..MaxSteady /\ calm \in 0..MaxCalm /\ shownFor \in 0..MaxShown

(* The announcements of a daemon that stays connected follow each other so *)
(* closely that its peers always see it online, from when the manager must *)
(* have noticed the connection; a peer that is disconnected is offline     *)
(* when its last record has become too old.                                *)
PresenceIsFresh ==
    /\ connected /\ steady > Settled /\ calm > Renewed => Online
    /\ ~connected /\ steady >= Threshold => ~Online

(* A dot that is wrong, be it that the peer came or went, that the answer  *)
(* was about another conversation (app.py:680 sets it whatever is shown),  *)
(* or that nobody asked, is corrected by the refresh.                      *)
DotCorrectsItself ==
    shown = "remote" /\ shownFor > Behind =>
        /\ connected /\ steady > Settled + Behind /\ calm > Renewed + Behind => dot = "ok"
        /\ ~connected /\ steady > Threshold + Behind => dot = "error"

=============================================================================
