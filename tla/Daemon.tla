------------------------------- MODULE Daemon -------------------------------
(***************************************************************************)
(* The connection of a client to its relay (cli_social/p2p/daemon.py): how *)
(* the daemon chooses a relay, connects, notices that a connection ended   *)
(* and connects again.                                                     *)
(*                                                                         *)
(* Three kinds of tasks connect: start(), the relay manager, and the       *)
(* listener of every connection, in its finally block.  The relays are     *)
(* coarse here: which connections of the client they serve.  Which of them *)
(* is in _online is in Relay.tla.                                          *)
(***************************************************************************)
EXTENDS Naturals, FiniteSets

CONSTANTS
    Host,        \* relays
    Known,       \* relays that the command line or state.json may name
    MaxConns,    \* bound: connections that exist at a time
    MaxFaults,   \* bound: refused or broken connections, failing listeners, crashes
    None         \* "no value"

ASSUME DaemonAssumption ==
    /\ None \notin Host /\ Known \subseteq Host
    /\ MaxConns \in Nat /\ MaxFaults \in Nat
    /\ None \notin 1..MaxConns

VARIABLES
    running,     \* self._running
    host,        \* self.relay_host
    cached,      \* self.cached_relay
    writer,      \* self._relay_writer
    lastTask,    \* self._relay_task, by its connection
    start,       \* where start() is
    manager,     \* where _run_relay_mngr() is
    first,       \* is_first_run
    listener,    \* where the _listen_relay() of a connection is
    trying,      \* the connection a task has in _connect_to_relay()
    phase,       \* how far a connection is
    at,          \* the relay it goes to
    up,          \* the relays that run
    serving,     \* connections whose handler at the relay has registered them
    announced,   \* the home relay last announced to the DHT
    dhtCopy,     \* the copy of the relay registry that the DHT holds
    faults,
    ended        \* history: how many listeners have ended, counted up to MaxConns

daemon == <<running, host, cached, first, lastTask, announced>>
tasks  == <<start, manager, listener, trying>>
relays == <<up, serving, dhtCopy>>
vars == <<daemon, writer, tasks, phase, at, relays, faults, ended>>

Conn == 1..MaxConns
Starter == <<"start", 0>>
Manager == <<"manager", 0>>
Listening(c) == <<"listener", c>>
Task == {Starter, Manager} \union {Listening(c) : c \in Conn}

(* A copy of the registry is only asked for when no relay is configured. *)
Init ==
    /\ running = TRUE
    /\ host \in Known \union {None}
    /\ cached \in Known \union {None}
    /\ writer = None
    /\ lastTask = None
    /\ start = "begin"
    /\ manager = "off"
    /\ first = TRUE
    /\ listener = [c \in Conn |-> "off"]
    /\ trying = [t \in Task |-> None]
    /\ phase = [c \in Conn |-> "closed"]
    /\ at = [c \in Conn |-> None]
    /\ up = Host
    /\ serving = {}
    /\ announced = None
    /\ dhtCopy \in IF host = None THEN {"none", "signed", "rejected"} ELSE {"none"}
    /\ faults = 0
    /\ ended = 0

-----------------------------------------------------------------------------
(* _connect_to_relay(), called by any task.                                *)

Free == {c \in Conn : /\ phase[c] = "closed" /\ listener[c] = "off"
                      /\ c \notin serving /\ \A t \in Task : trying[t] # c}

(* Task t calls open_connection for relay h. *)
Connect(t, h) ==
    /\ Free # {}
    /\ LET c == CHOOSE c \in Free : TRUE IN
       /\ trying' = [trying EXCEPT ![t] = c]
       /\ phase' = [phase EXCEPT ![c] = "opening"]
       /\ at' = [at EXCEPT ![c] = h]

(* The relay accepts the connection. *)
Open(c) ==
    /\ phase[c] = "opening"
    /\ at[c] \in up
    /\ phase' = [phase EXCEPT ![c] = "open"]
    /\ UNCHANGED <<daemon, writer, tasks, at, relays, faults, ended>>

(* The challenge is answered, the relay registers the client and writes ok. *)
Welcome(c) ==
    /\ phase[c] = "open"
    /\ at[c] \in up
    /\ phase' = [phase EXCEPT ![c] = "welcomed"]
    /\ serving' = serving \union {c}
    /\ UNCHANGED <<daemon, writer, tasks, at, up, dhtCopy, faults, ended>>

(* What a task is doing when _connect_to_relay() has returned.             *)
Returned(t) ==
    /\ start' = IF t = Starter THEN "connected" ELSE start
    /\ manager' = IF t = Manager THEN "connected" ELSE manager
    /\ trying' = [trying EXCEPT ![t] = None]

(* The ok is read: the listener is started. *)
Registered(t) ==
    LET c == trying[t] IN
    /\ c # None
    /\ phase[c] = "welcomed"
    /\ writer' = c
    /\ lastTask' = c
    /\ Returned(t)
    /\ listener' = [d \in Conn |-> IF d = c THEN "reading"
                                   ELSE IF t = Listening(d) THEN "off" ELSE listener[d]]
    /\ phase' = [d \in Conn |-> IF t = Listening(d) THEN "closed" ELSE phase[d]]
    /\ UNCHANGED <<running, host, cached, first, announced, at, relays, faults, ended>>

(* The connection is refused or ends before: the error is logged, and the  *)
(* streams, which nobody refers to any more, are closed.                   *)
ConnectFails(t) ==
    LET c == trying[t] IN
    /\ c # None
    /\ \/ phase[c] = "closed" /\ UNCHANGED faults
       \/ phase[c] = "opening" /\ at[c] \notin up /\ UNCHANGED faults
       \/ phase[c] \in {"opening", "open"} /\ faults < MaxFaults /\ faults' = faults + 1
    /\ Returned(t)
    /\ listener' = [d \in Conn |-> IF t = Listening(d) THEN "off" ELSE listener[d]]
    /\ phase' = [d \in Conn |-> IF d = c \/ t = Listening(d) THEN "closed" ELSE phase[d]]
    /\ UNCHANGED <<daemon, writer, at, relays, ended>>

-----------------------------------------------------------------------------
(* start() and the relay manager.                                          *)

(* Mutant: only the copy of the DHT is looked at. *)
RegistryAccepted_DhtOnly == dhtCopy = "signed"

(* fetch_and_vrfy_registry(): a copy of the DHT that parses is the one     *)
(* whose signatures count; the published one is fetched without such a     *)
(* copy, and not when the copy is rejected.                                *)
RegistryAccepted == dhtCopy # "rejected"

(* _discover_and_connect_relay(): the fastest relay of the registry that   *)
(* answers is connected to, if the registry can be had and any does.       *)
Discover(t) ==
    \/ /\ RegistryAccepted
       /\ \E h \in up : host' = h /\ Connect(t, h)
       /\ UNCHANGED <<start, manager, faults>>
    \/ LET fails == up = {} \/ ~RegistryAccepted IN
       /\ fails \/ faults < MaxFaults
       /\ faults' = IF fails THEN faults ELSE faults + 1
       /\ Returned(t)
       /\ UNCHANGED <<host, phase, at>>

Start ==
    /\ start = "begin"
    /\ start' = IF host # None THEN "connecting" ELSE "discovering"
    /\ IF host # None THEN Connect(Starter, host)
       ELSE UNCHANGED <<trying, phase, at>>
    /\ UNCHANGED <<daemon, writer, manager, listener, relays, faults, ended>>

StartDiscovers ==
    /\ start = "discovering"
    /\ trying[Starter] = None
    /\ Discover(Starter)
    /\ UNCHANGED <<running, cached, first, lastTask, announced, writer, listener,
                   relays, ended>>

(* The manager is created, the configured or chosen relay announced. *)
StartEnds ==
    /\ start = "connected"
    /\ start' = "over"
    /\ manager' = IF running THEN "awake" ELSE "off"
    /\ announced' = host
    /\ UNCHANGED <<running, host, cached, first, lastTask, writer, listener, trying,
                   phase, at, relays, faults, ended>>

(* Mutant: the manager connects whether or not there is a connection. *)
IsConnected_Never == FALSE

IsConnected == writer # None

(* Mutant: the manager looks for the fastest relay every time. *)
KeepsRelay_Never == FALSE

(* Mutant: the manager connects even if no relay was ever chosen. *)
KeepsRelay_Always == TRUE

KeepsRelay == host # None

(* A turn of the manager's loop begins. *)
ManagerWakes ==
    /\ manager = "awake"
    /\ \/ /\ IsConnected
          /\ manager' = "connected"
          /\ UNCHANGED <<host, trying, phase, at>>
       \/ /\ ~IsConnected /\ KeepsRelay
          /\ manager' = "connecting"
          /\ Connect(Manager, host)
          /\ UNCHANGED host
       \/ /\ ~IsConnected /\ ~KeepsRelay /\ first /\ cached # None
          /\ manager' = "cached"
          /\ host' = cached
          /\ Connect(Manager, cached)
       \/ /\ ~IsConnected /\ ~KeepsRelay /\ ~(first /\ cached # None)
          /\ manager' = "discovering"
          /\ UNCHANGED <<host, trying, phase, at>>
    /\ UNCHANGED <<running, cached, first, lastTask, announced, writer, start,
                   listener, relays, faults, ended>>

ManagerDiscovers ==
    /\ manager = "discovering"
    /\ trying[Manager] = None
    /\ Discover(Manager)
    /\ UNCHANGED <<running, cached, first, lastTask, announced, writer, listener,
                   relays, ended>>

(* wait_for gives the cached relay up after three seconds and cancels      *)
(* _connect_to_relay() where it waits.                                     *)
CachedTimeout ==
    LET c == trying[Manager] IN
    /\ manager = "cached"
    /\ c # None
    /\ host' = None
    /\ cached' = None
    /\ Returned(Manager)
    /\ phase' = [phase EXCEPT ![c] = "closed"]
    /\ UNCHANGED <<running, first, lastTask, announced, writer, listener, at, relays,
                   faults, ended>>

(* The rest of the turn: with a connection the relay is announced. *)
ManagerSleeps ==
    /\ manager = "connected"
    /\ manager' = "asleep"
    /\ first' = (first /\ writer = None)
    /\ announced' = IF writer # None THEN host ELSE announced
    /\ UNCHANGED <<running, host, cached, lastTask, writer, start, listener, trying,
                   phase, at, relays, faults, ended>>

ManagerTimer ==
    /\ manager = "asleep"
    /\ manager' = IF running THEN "awake" ELSE "off"
    /\ UNCHANGED <<daemon, writer, start, listener, trying, phase, at, relays, faults,
                   ended>>

-----------------------------------------------------------------------------
(* _listen_relay().                                                        *)

(* Mutant: only the manager and the listeners of other connections may     *)
(* clear the writer: a listener that is to connect again keeps it.         *)
ClearWriter_IfStopped == writer' = IF running THEN writer ELSE None

(* Mutant: after stop() the writer is left to stop(). *)
ClearWriter_IfRunning == writer' = IF running THEN None ELSE writer

(* The finally block forgets the writer, whichever connection it is of.    *)
ClearWriter == writer' = None

Reconnects == running

(* The connection ended, or the listener's loop sees that the daemon was   *)
(* stopped, or the handling of a frame raised: then the streams stay open  *)
(* until the finally block is through.                                     *)
ListenerEnds(c) ==
    /\ listener[c] = "reading"
    /\ \/ phase[c] = "closed" /\ UNCHANGED faults
       \/ ~running /\ UNCHANGED faults
       \/ running /\ phase[c] = "welcomed" /\ faults < MaxFaults /\ faults' = faults + 1
    /\ ended' = IF ended < MaxConns THEN ended + 1 ELSE ended
    /\ ClearWriter
    /\ listener' = [listener EXCEPT ![c] = IF Reconnects THEN "sleeping" ELSE "off"]
    /\ phase' = [phase EXCEPT ![c] = IF Reconnects THEN @ ELSE "closed"]
    /\ UNCHANGED <<daemon, start, manager, trying, at, relays>>

(* Three seconds later it connects again, to the relay chosen by then.     *)
ListenerReconnects(c) ==
    /\ listener[c] = "sleeping"
    /\ listener' = [listener EXCEPT ![c] = "connecting"]
    /\ Connect(Listening(c), host)
    /\ UNCHANGED <<daemon, writer, start, manager, relays, faults, ended>>

(* stop(): the manager and the last listener are cancelled wherever they   *)
(* are, and the writer is closed; other listeners go on.                   *)
Stop ==
    LET cancelled == {Manager} \union {Listening(c) : c \in {lastTask} \ {None}}
        abandoned == {trying[t] : t \in cancelled} \ {None} IN
    /\ running
    /\ start # "begin"
    /\ running' = FALSE
    /\ manager' = "off"
    /\ listener' = [c \in Conn |-> IF c = lastTask THEN "off" ELSE listener[c]]
    /\ trying' = [t \in Task |-> IF t \in cancelled THEN None ELSE trying[t]]
    /\ phase' = [c \in Conn |-> IF c \in abandoned \union {lastTask, writer}
                                THEN "closed" ELSE phase[c]]
    /\ writer' = IF lastTask # None /\ listener[lastTask] = "reading" THEN None ELSE writer
    /\ UNCHANGED <<host, cached, first, lastTask, announced, start, at, relays,
                   faults, ended>>

-----------------------------------------------------------------------------
(* The relays and the network.                                             *)

(* The handler of a connection that ended notices it. *)
RelayLeaves(c) ==
    /\ c \in serving
    /\ phase[c] = "closed"
    /\ serving' = serving \ {c}
    /\ UNCHANGED <<daemon, writer, tasks, phase, at, up, dhtCopy, faults, ended>>

Break(c) ==
    /\ phase[c] \in {"open", "welcomed"}
    /\ faults < MaxFaults
    /\ faults' = faults + 1
    /\ phase' = [phase EXCEPT ![c] = "closed"]
    /\ UNCHANGED <<daemon, writer, tasks, at, relays, ended>>

RelayCrashes(h) ==
    /\ h \in up
    /\ faults < MaxFaults
    /\ faults' = faults + 1
    /\ up' = up \ {h}
    /\ serving' = {c \in serving : at[c] # h}
    /\ phase' = [c \in Conn |-> IF at[c] = h /\ phase[c] \in {"open", "welcomed"}
                                THEN "closed" ELSE phase[c]]
    /\ UNCHANGED <<daemon, writer, tasks, at, dhtCopy, ended>>

RelayReturns(h) ==
    /\ h \notin up
    /\ up' = up \union {h}
    /\ UNCHANGED <<daemon, writer, tasks, phase, at, serving, dhtCopy, faults, ended>>

Attempt(t) == Registered(t) \/ ConnectFails(t)
Manage == ManagerWakes \/ ManagerDiscovers \/ ManagerSleeps \/ ManagerTimer

Next ==
    \/ Start \/ StartDiscovers \/ StartEnds \/ Manage \/ CachedTimeout \/ Stop
    \/ \E t \in Task : Attempt(t)
    \/ \E c \in Conn : \/ Open(c) \/ Welcome(c) \/ RelayLeaves(c) \/ Break(c)
                       \/ ListenerEnds(c) \/ ListenerReconnects(c)
    \/ \E h \in Host : RelayCrashes(h) \/ RelayReturns(h)

Spec == Init /\ [][Next]_vars

(* Every task and every timer gets its turn, and a relay that runs answers *)
(* or refuses; nothing obliges the network to break anything.              *)
Fairness ==
    /\ WF_vars(Start) /\ WF_vars(StartDiscovers) /\ WF_vars(StartEnds)
    /\ WF_vars(Manage)
    /\ \A t \in Task : WF_vars(Attempt(t))
    /\ \A c \in Conn : /\ WF_vars(Open(c) \/ Welcome(c) \/ RelayLeaves(c))
                       /\ WF_vars(ListenerEnds(c) \/ ListenerReconnects(c))

FairSpec == Spec /\ Fairness

-----------------------------------------------------------------------------
(* Properties.                                                             *)

TypeOK ==
    /\ running \in BOOLEAN /\ first \in BOOLEAN
    /\ {host, cached, announced} \subseteq Host \union {None}
    /\ {writer, lastTask} \subseteq Conn \union {None}
    /\ start \in {"begin", "connecting", "discovering", "connected", "over"}
    /\ manager \in {"off", "awake", "connecting", "cached", "discovering",
                    "connected", "asleep"}
    /\ listener \in [Conn -> {"off", "reading", "sleeping", "connecting"}]
    /\ trying \in [Task -> Conn \union {None}]
    /\ phase \in [Conn -> {"opening", "open", "welcomed", "closed"}]
    /\ at \in [Conn -> Host \union {None}]
    /\ \A c \in Conn : phase[c] # "closed" => at[c] \in Host
    /\ up \in SUBSET Host
    /\ serving \in SUBSET Conn
    /\ dhtCopy \in {"none", "signed", "rejected"}
    /\ {faults, ended} \subseteq Nat

(* The writer that messages are sent on belongs to a connection whose      *)
(* listener reads the answers, although any listener may clear it and any  *)
(* task may replace it.                                                    *)
WriterIsListened == writer # None => listener[writer] = "reading"

(* All connections go to the relay that self.relay_host names, which is    *)
(* the one that is announced and saved for the next start, although three  *)
(* kinds of tasks choose it and connect at their own times.                *)
HomeRelayIsServed ==
    \A c \in Conn : listener[c] \in {"reading", "sleeping"} => at[c] = host

(* Connections multiply: a listener and the manager may both replace a     *)
(* connection that ended.  But every one beyond the first is paid for by   *)
(* a listener that ended.                                                  *)
ListenersBounded ==
    Cardinality({c \in Conn : listener[c] # "off"}) <= 1 + ended

Connected == \E c \in Conn : writer = c /\ phase[c] = "welcomed"

(* If the relays stay up and the daemon is not stopped, it is connected    *)
(* for good, whatever broke before, unless it has to find a relay and the  *)
(* DHT holds a registry that is rejected.                                  *)
Reconnected ==
    dhtCopy # "rejected" /\ [](running) /\ <>[](up = Host) => <>[]Connected

(* After stop() the daemon is disconnected for good, although listeners    *)
(* that were about to connect again do.                                    *)
StoppedForGood == [](~running => <>[](writer = None))

=============================================================================
