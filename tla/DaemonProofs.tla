---------------------------- MODULE DaemonProofs ----------------------------
(***************************************************************************)
(* Theorems about Daemon.tla, for any relays, connections and faults.      *)
(***************************************************************************)
EXTENDS Daemon, FiniteSetTheorems, TLAPS

(* A connection that is used goes to a relay. *)
TypeInv ==
    /\ TypeOK
    /\ \A c \in Conn : listener[c] # "off" => at[c] \in Host
    /\ \A t \in Task : trying[t] # None => at[trying[t]] \in Host

(* A task that connects is where it connects, and a connection has one     *)
(* user at a time.                                                         *)
TaskInv ==
    /\ trying[Starter] # None => start \in {"connecting", "discovering"}
    /\ trying[Manager] # None => manager \in {"connecting", "cached", "discovering"}
    /\ \A c \in Conn : trying[Listening(c)] # None => listener[c] = "connecting"
    /\ \A t \in Task : trying[t] # None => listener[trying[t]] = "off"
    /\ \A t, u \in Task : trying[t] # None /\ trying[t] = trying[u] => t = u
    /\ manager # "off" => start = "over"
    /\ start \in {"begin", "connecting", "discovering"} =>
         \A c \in Conn : listener[c] = "off"
    /\ WriterIsListened

(* As long as no relay is chosen nothing is connected or connecting, and   *)
(* discovery begins, or the cached relay is tried, only then.              *)
HomeInv ==
    /\ HomeRelayIsServed
    /\ \A t \in Task : trying[t] # None => at[trying[t]] = host
    /\ \A c \in Conn : listener[c] # "off" => host # None
    /\ start = "discovering" /\ trying[Starter] = None => host = None
    /\ manager = "discovering" /\ trying[Manager] = None => host = None
    /\ manager = "cached" => /\ \A c \in Conn : listener[c] = "off"
                             /\ \A t \in Task \ {Manager} : trying[t] = None

-----------------------------------------------------------------------------
(* Tasks have names of their own, and no connection is called None.        *)
LEMMA Names ==
    /\ None \notin Conn
    /\ Starter \in Task /\ Manager \in Task /\ Starter # Manager
    /\ \A c \in Conn : /\ Listening(c) \in Task
                       /\ Listening(c) \notin {Starter, Manager}
    /\ \A c, d \in Conn : Listening(c) = Listening(d) => c = d
    /\ \A t \in Task : t \in {Starter, Manager} \/ \E c \in Conn : t = Listening(c)
BY DaemonAssumption DEF Conn, Task, Starter, Manager, Listening

(* What Connect(t, h) does with a connection c that nobody uses. *)
Picks(t, h, c) ==
    /\ phase[c] = "closed" /\ listener[c] = "off" /\ \A u \in Task : trying[u] # c
    /\ trying' = [trying EXCEPT ![t] = c]
    /\ phase' = [phase EXCEPT ![c] = "opening"]
    /\ at' = [at EXCEPT ![c] = h]

(* Whoever goes to connect has taken a connection that is not in use.      *)
LEMMA ConnectPicks ==
    ASSUME NEW t, NEW h, Connect(t, h)
    PROVE  \E c \in Conn : Picks(t, h, c)
<1> DEFINE picked == CHOOSE c \in Free : TRUE
<1>1. picked \in Free
  BY DEF Connect
<1> QED BY <1>1 DEF Connect, Free, Picks

(* Every step keeps the types: who connects again has a relay to go to. *)
LEMMA TypeStep ==
    ASSUME TypeInv, HomeInv, [Next]_vars
    PROVE  TypeInv'
<1> USE Names, DaemonAssumption DEF TypeInv, TypeOK, daemon, tasks, relays
<1>1. CASE Start
  BY <1>1, ConnectPicks DEF Start, Picks
<1>2. CASE StartDiscovers
  BY <1>2, ConnectPicks DEF StartDiscovers, Discover, Returned, Picks
<1>3. CASE StartEnds
  BY <1>3 DEF StartEnds
<1>4. CASE ManagerWakes
  BY <1>4, ConnectPicks DEF ManagerWakes, IsConnected, KeepsRelay, Picks
<1>5. CASE ManagerDiscovers
  BY <1>5, ConnectPicks DEF ManagerDiscovers, Discover, Returned, Picks
<1>6. CASE ManagerSleeps
  BY <1>6 DEF ManagerSleeps
<1>7. CASE ManagerTimer
  BY <1>7 DEF ManagerTimer
<1>8. CASE CachedTimeout
  BY <1>8 DEF CachedTimeout, Returned
<1>9. CASE Stop
  BY <1>9 DEF Stop
<1>10. ASSUME NEW t \in Task, Registered(t) PROVE TypeInv'
  BY <1>10 DEF Registered, Returned
<1>11. ASSUME NEW t \in Task, ConnectFails(t) PROVE TypeInv'
  BY <1>11 DEF ConnectFails, Returned
<1>12. ASSUME NEW c \in Conn, Open(c) PROVE TypeInv'
  BY <1>12 DEF Open
<1>13. ASSUME NEW c \in Conn, Welcome(c) PROVE TypeInv'
  BY <1>13 DEF Welcome
<1>14. ASSUME NEW c \in Conn, RelayLeaves(c) PROVE TypeInv'
  BY <1>14 DEF RelayLeaves
<1>15. ASSUME NEW c \in Conn, Break(c) PROVE TypeInv'
  BY <1>15 DEF Break
<1>16. ASSUME NEW c \in Conn, ListenerEnds(c) PROVE TypeInv'
  BY <1>16 DEF ListenerEnds, ClearWriter, Reconnects
<1>17. ASSUME NEW c \in Conn, ListenerReconnects(c) PROVE TypeInv'
  BY <1>17, ConnectPicks DEF ListenerReconnects, HomeInv, Picks
<1>18. ASSUME NEW h \in Host, RelayCrashes(h) PROVE TypeInv'
  BY <1>18 DEF RelayCrashes
<1>19. ASSUME NEW h \in Host, RelayReturns(h) PROVE TypeInv'
  BY <1>19 DEF RelayReturns
<1>20. CASE UNCHANGED vars
  BY <1>20 DEF vars
<1> QED BY <1>1, <1>2, <1>3, <1>4, <1>5, <1>6, <1>7, <1>8, <1>9, <1>10, <1>11,
    <1>12, <1>13, <1>14, <1>15, <1>16, <1>17, <1>18, <1>19, <1>20 DEF Next,
    Attempt, Manage

(* Every step keeps the tasks apart. *)
LEMMA TaskStep ==
    ASSUME TypeInv, TypeInv', TaskInv, [Next]_vars
    PROVE  TaskInv'
<1> USE Names, DaemonAssumption DEF TaskInv, WriterIsListened, TypeInv, TypeOK,
    daemon, tasks, relays
<1>1. CASE Start
  BY <1>1, ConnectPicks DEF Start, Picks
<1>2. CASE StartDiscovers
  BY <1>2, ConnectPicks DEF StartDiscovers, Discover, Returned, Picks
<1>3. CASE StartEnds
  BY <1>3 DEF StartEnds
<1>4. CASE ManagerWakes
  BY <1>4, ConnectPicks DEF ManagerWakes, IsConnected, KeepsRelay, Picks
<1>5. CASE ManagerDiscovers
  BY <1>5, ConnectPicks DEF ManagerDiscovers, Discover, Returned, Picks
<1>6. CASE ManagerSleeps
  BY <1>6 DEF ManagerSleeps
<1>7. CASE ManagerTimer
  BY <1>7 DEF ManagerTimer
<1>8. CASE CachedTimeout
  BY <1>8 DEF CachedTimeout, Returned
<1>9. CASE Stop
  BY <1>9 DEF Stop
<1>10. ASSUME NEW t \in Task, Registered(t) PROVE TaskInv'
  BY <1>10 DEF Registered, Returned
<1>11. ASSUME NEW t \in Task, ConnectFails(t) PROVE TaskInv'
  BY <1>11 DEF ConnectFails, Returned
<1>12. ASSUME NEW c \in Conn, Open(c) PROVE TaskInv'
  BY <1>12 DEF Open
<1>13. ASSUME NEW c \in Conn, Welcome(c) PROVE TaskInv'
  BY <1>13 DEF Welcome
<1>14. ASSUME NEW c \in Conn, RelayLeaves(c) PROVE TaskInv'
  BY <1>14 DEF RelayLeaves
<1>15. ASSUME NEW c \in Conn, Break(c) PROVE TaskInv'
  BY <1>15 DEF Break
<1>16. ASSUME NEW c \in Conn, ListenerEnds(c) PROVE TaskInv'
  BY <1>16 DEF ListenerEnds, ClearWriter, Reconnects
<1>17. ASSUME NEW c \in Conn, ListenerReconnects(c) PROVE TaskInv'
  BY <1>17, ConnectPicks DEF ListenerReconnects, Picks
<1>18. ASSUME NEW h \in Host, RelayCrashes(h) PROVE TaskInv'
  BY <1>18 DEF RelayCrashes
<1>19. ASSUME NEW h \in Host, RelayReturns(h) PROVE TaskInv'
  BY <1>19 DEF RelayReturns
<1>20. CASE UNCHANGED vars
  BY <1>20 DEF vars
<1> QED BY <1>1, <1>2, <1>3, <1>4, <1>5, <1>6, <1>7, <1>8, <1>9, <1>10, <1>11,
    <1>12, <1>13, <1>14, <1>15, <1>16, <1>17, <1>18, <1>19, <1>20 DEF Next,
    Attempt, Manage

(* Every step keeps all connections at the chosen relay. *)
LEMMA HomeStep ==
    ASSUME TypeInv, TypeInv', TaskInv, TaskInv', HomeInv, [Next]_vars
    PROVE  HomeInv'
<1> USE Names, DaemonAssumption DEF HomeInv, HomeRelayIsServed, TaskInv,
    TypeInv, TypeOK, daemon, tasks, relays
<1>1. CASE Start
  BY <1>1, ConnectPicks DEF Start, Picks
<1>2. CASE StartDiscovers
  BY <1>2, ConnectPicks DEF StartDiscovers, Discover, Returned, Picks
<1>3. CASE StartEnds
  BY <1>3 DEF StartEnds
<1>4. CASE ManagerWakes
  BY <1>4, ConnectPicks DEF ManagerWakes, IsConnected, KeepsRelay, Picks
<1>5. CASE ManagerDiscovers
  BY <1>5, ConnectPicks DEF ManagerDiscovers, Discover, Returned, Picks
<1>6. CASE ManagerSleeps
  BY <1>6 DEF ManagerSleeps
<1>7. CASE ManagerTimer
  BY <1>7 DEF ManagerTimer
<1>8. CASE CachedTimeout
  BY <1>8 DEF CachedTimeout, Returned
<1>9. CASE Stop
  BY <1>9 DEF Stop
<1>10. ASSUME NEW t \in Task, Registered(t) PROVE HomeInv'
  BY <1>10 DEF Registered, Returned
<1>11. ASSUME NEW t \in Task, ConnectFails(t) PROVE HomeInv'
  BY <1>11 DEF ConnectFails, Returned
<1>12. ASSUME NEW c \in Conn, Open(c) PROVE HomeInv'
  BY <1>12 DEF Open
<1>13. ASSUME NEW c \in Conn, Welcome(c) PROVE HomeInv'
  BY <1>13 DEF Welcome
<1>14. ASSUME NEW c \in Conn, RelayLeaves(c) PROVE HomeInv'
  BY <1>14 DEF RelayLeaves
<1>15. ASSUME NEW c \in Conn, Break(c) PROVE HomeInv'
  BY <1>15 DEF Break
<1>16. ASSUME NEW c \in Conn, ListenerEnds(c) PROVE HomeInv'
  BY <1>16 DEF ListenerEnds, ClearWriter, Reconnects
<1>17. ASSUME NEW c \in Conn, ListenerReconnects(c) PROVE HomeInv'
  BY <1>17, ConnectPicks DEF ListenerReconnects, Picks
<1>18. ASSUME NEW h \in Host, RelayCrashes(h) PROVE HomeInv'
  BY <1>18 DEF RelayCrashes
<1>19. ASSUME NEW h \in Host, RelayReturns(h) PROVE HomeInv'
  BY <1>19 DEF RelayReturns
<1>20. CASE UNCHANGED vars
  BY <1>20 DEF vars
<1> QED BY <1>1, <1>2, <1>3, <1>4, <1>5, <1>6, <1>7, <1>8, <1>9, <1>10, <1>11,
    <1>12, <1>13, <1>14, <1>15, <1>16, <1>17, <1>18, <1>19, <1>20 DEF Next,
    Attempt, Manage

(* The three invariants hold together. *)
LEMMA InvHolds == Spec => [](TypeInv /\ TaskInv /\ HomeInv)
<1>1. Init => TypeInv /\ TaskInv /\ HomeInv
  <2> SUFFICES ASSUME Init PROVE TypeInv /\ TaskInv /\ HomeInv
    OBVIOUS
  <2> USE Names, DaemonAssumption DEF Init
  <2>1. TypeInv
    BY DEF TypeInv, TypeOK
  <2>2. TaskInv
    BY DEF TaskInv, WriterIsListened
  <2>3. HomeInv
    BY DEF HomeInv, HomeRelayIsServed
  <2> QED BY <2>1, <2>2, <2>3
<1>2. TypeInv /\ TaskInv /\ HomeInv /\ [Next]_vars => (TypeInv /\ TaskInv /\ HomeInv)'
  BY TypeStep, TaskStep, HomeStep
<1> QED BY <1>1, <1>2, PTL DEF Spec

(* The variables of the daemon and the relays keep their types: in         *)
(* particular, whoever connects has a relay to connect to.                 *)
THEOREM TypesHold == Spec => []TypeOK
BY InvHolds, PTL DEF TypeInv

(* However connections end, are replaced and are made again, the writer    *)
(* belongs to one whose listener reads.                                    *)
THEOREM WriterHasListener == Spec => []WriterIsListened
BY InvHolds, PTL DEF TaskInv

(* All connections that listeners hold go to the relay in relay_host.      *)
THEOREM OneHomeRelay == Spec => []HomeRelayIsServed
BY InvHolds, PTL DEF HomeInv

-----------------------------------------------------------------------------
(* The number of listeners.                                                *)

Listened == {c \in Conn : listener[c] # "off"}

(* A listener may be added by start() or the manager, which connect only   *)
(* while there is no writer. *)
MayAdd == writer = None \/ trying[Starter] # None \/ trying[Manager] # None

(* Whoever may add a listener counts as one. *)
BoundInv == Cardinality(Listened) + (IF MayAdd THEN 1 ELSE 0) <= 1 + ended

(* The connections that are listened to are one finite set, which grows    *)
(* and shrinks by one. *)
LEMMA Counting ==
    ASSUME TypeInv
    PROVE  /\ Cardinality(Listened) \in Nat
           /\ Cardinality(Listened) <= MaxConns
           /\ \A c \in Conn \ Listened :
                Cardinality(Listened \union {c}) = Cardinality(Listened) + 1
           /\ \A c \in Listened :
                /\ Cardinality(Listened \ {c}) = Cardinality(Listened) - 1
                /\ \A d \in Conn \ Listened :
                     Cardinality((Listened \ {c}) \union {d}) = Cardinality(Listened)
<1> USE DaemonAssumption
<1>1. IsFiniteSet(Conn) /\ Cardinality(Conn) = MaxConns
  BY FS_Interval DEF Conn
<1>2. Listened \subseteq Conn
  BY DEF Listened
<1>3. /\ IsFiniteSet(Listened)
      /\ Cardinality(Listened) \in Nat
      /\ Cardinality(Listened) <= MaxConns
  BY <1>1, <1>2, FS_Subset, FS_CardinalityType
<1>4. \A c \in Listened : /\ IsFiniteSet(Listened \ {c})
                          /\ Cardinality(Listened \ {c}) = Cardinality(Listened) - 1
  BY <1>3, FS_RemoveElement
<1>5. \A c \in Conn \ Listened :
        Cardinality(Listened \union {c}) = Cardinality(Listened) + 1
  BY <1>3, FS_AddElement
<1>6. ASSUME NEW c \in Listened, NEW d \in Conn \ Listened
      PROVE  Cardinality((Listened \ {c}) \union {d}) = Cardinality(Listened)
  <2>1. d \notin Listened \ {c} /\ IsFiniteSet(Listened \ {c})
    BY <1>4
  <2>2. Cardinality((Listened \ {c}) \union {d}) = Cardinality(Listened \ {c}) + 1
    BY <2>1, FS_AddElement
  <2> QED BY <1>3, <1>4, <2>2
<1> QED BY <1>3, <1>4, <1>5, <1>6

(* Every step keeps the bound. *)
LEMMA BoundStep ==
    ASSUME TypeInv, TypeInv', TaskInv, TaskInv', HomeInv, BoundInv, [Next]_vars
    PROVE  BoundInv'
<1> USE Names, DaemonAssumption DEF TypeInv, TypeOK, daemon, tasks, relays
<1>1. ASSUME Cardinality(Listened') <= Cardinality(Listened),
             Cardinality(Listened') \in Int, ended' = ended, MayAdd' => MayAdd
      PROVE  BoundInv'
  BY <1>1, Counting DEF BoundInv
<1>2. ASSUME Listened' = Listened, ended' = ended, MayAdd' => MayAdd
      PROVE  BoundInv'
  BY <1>1, <1>2, Counting
<1>3. CASE UNCHANGED <<listener, writer, trying, ended>>
  BY <1>2, <1>3 DEF Listened, MayAdd
<1>4. start \in {"begin", "discovering"} => MayAdd
  BY DEF TaskInv, WriterIsListened, MayAdd
<1>5. manager = "discovering" => MayAdd
  BY DEF TaskInv, WriterIsListened, HomeInv, MayAdd
<1>6. CASE Start
  BY <1>2, <1>4, <1>6 DEF Start, Listened
<1>7. CASE StartDiscovers
  BY <1>2, <1>4, <1>7 DEF StartDiscovers, Listened
<1>8. CASE ManagerWakes
  BY <1>2, <1>8 DEF ManagerWakes, IsConnected, Listened, MayAdd
<1>9. CASE ManagerDiscovers
  BY <1>2, <1>5, <1>9 DEF ManagerDiscovers, Listened
<1>10. CASE CachedTimeout
  BY <1>2, <1>10 DEF CachedTimeout, Returned, Listened, MayAdd
<1>11. CASE Stop
  <2>1. trying'[Starter] = trying[Starter] /\ trying'[Manager] = None
    BY <1>11 DEF Stop
  <2>2. CASE lastTask # None /\ listener[lastTask] = "reading"
    <3>1. Listened' = Listened \ {lastTask} /\ lastTask \in Listened
      BY <1>11, <2>2 DEF Stop, Listened
    <3> QED BY <1>11, <3>1, Counting DEF Stop, BoundInv
  <2>3. CASE ~(lastTask # None /\ listener[lastTask] = "reading")
    <3>1. MayAdd' => MayAdd
      BY <1>11, <2>1, <2>3 DEF Stop, MayAdd
    <3>2. \/ Listened' = Listened
          \/ lastTask \in Listened /\ Listened' = Listened \ {lastTask}
      BY <1>11 DEF Stop, Listened
    <3> QED BY <1>1, <1>11, <3>1, <3>2, Counting DEF Stop
  <2> QED BY <2>2, <2>3
<1>12. ASSUME NEW t \in Task, Registered(t) PROVE BoundInv'
  <2>1. PICK c \in Conn \ Listened : c = trying[t]
    BY <1>12 DEF Registered, TaskInv, Listened
  <2>2. CASE t \in {Starter, Manager}
    <3>1. Listened' = Listened \union {c}
      BY <1>12, <2>1, <2>2 DEF Registered, Listened
    <3>2. MayAdd /\ ~MayAdd'
      BY <1>12, <2>1, <2>2 DEF Registered, Returned, TaskInv, MayAdd
    <3> QED BY <1>12, <2>1, <3>1, <3>2, Counting DEF Registered, BoundInv
  <2>3. ASSUME NEW d \in Conn, t = Listening(d) PROVE BoundInv'
    <3>1. d \in Listened /\ Listened' = (Listened \ {d}) \union {c}
      BY <1>12, <2>1, <2>3 DEF Registered, TaskInv, Listened
    <3>2. MayAdd' => MayAdd
      BY <1>12, <2>1, <2>3 DEF Registered, Returned, MayAdd
    <3>3. Cardinality(Listened') = Cardinality(Listened)
      BY <2>1, <3>1, Counting
    <3> QED BY <1>1, <1>12, <3>2, <3>3, Counting DEF Registered
  <2> QED BY <2>2, <2>3
<1>13. ASSUME NEW t \in Task, ConnectFails(t) PROVE BoundInv'
  <2>1. MayAdd' => MayAdd
    BY <1>13 DEF ConnectFails, Returned, MayAdd
  <2>2. CASE t \in {Starter, Manager}
    <3>1. Listened' = Listened
      BY <1>13, <2>2 DEF ConnectFails, Listened
    <3> QED BY <1>2, <1>13, <2>1, <3>1 DEF ConnectFails
  <2>3. ASSUME NEW d \in Conn, t = Listening(d) PROVE BoundInv'
    <3>1. d \in Listened /\ Listened' = Listened \ {d}
      BY <1>13, <2>3 DEF ConnectFails, TaskInv, Listened
    <3> QED BY <1>1, <1>13, <2>1, <3>1, Counting DEF ConnectFails
  <2> QED BY <2>2, <2>3
<1>14. ASSUME NEW c \in Conn, ListenerEnds(c) PROVE BoundInv'
  <2>1. c \in Listened /\ (Listened' = Listened \/ Listened' = Listened \ {c})
    BY <1>14 DEF ListenerEnds, Reconnects, Listened
  <2>2. /\ Cardinality(Listened') \in Int
        /\ Cardinality(Listened') <= Cardinality(Listened)
    BY <2>1, Counting
  <2>3. ended' = ended + 1 \/ (ended' = ended /\ MaxConns <= ended)
    BY <1>14 DEF ListenerEnds
  <2> QED BY <2>2, <2>3, Counting DEF BoundInv
<1>15. ASSUME NEW c \in Conn, ListenerReconnects(c) PROVE BoundInv'
  <2>1. Listened' = Listened
    BY <1>15 DEF ListenerReconnects, Listened
  <2>2. trying'[Starter] = trying[Starter] /\ trying'[Manager] = trying[Manager]
    BY <1>15, ConnectPicks DEF ListenerReconnects, Picks
  <2> QED BY <1>2, <1>15, <2>1, <2>2 DEF ListenerReconnects, MayAdd
<1>16. CASE StartEnds \/ ManagerSleeps \/ ManagerTimer
  BY <1>3, <1>16 DEF StartEnds, ManagerSleeps, ManagerTimer
<1>17. ASSUME NEW c \in Conn, Open(c) \/ Welcome(c) \/ RelayLeaves(c) \/ Break(c)
       PROVE  BoundInv'
  BY <1>3, <1>17 DEF Open, Welcome, RelayLeaves, Break
<1>18. ASSUME NEW h \in Host, RelayCrashes(h) \/ RelayReturns(h)
       PROVE  BoundInv'
  BY <1>3, <1>18 DEF RelayCrashes, RelayReturns
<1>19. CASE UNCHANGED vars
  BY <1>3, <1>19 DEF vars
<1> QED BY <1>6, <1>7, <1>8, <1>9, <1>10, <1>11, <1>12, <1>13, <1>14, <1>15,
           <1>16, <1>17, <1>18, <1>19 DEF Next, Attempt, Manage

(* Every connection beyond the first is paid for by a listener that ended, *)
(* so that connections do not multiply by themselves.                      *)
THEOREM ListenersArePaidFor == Spec => []ListenersBounded
<1>1. Init => BoundInv
  <2>1. ASSUME Init PROVE Listened = {}
    BY <2>1 DEF Init, Listened
  <2> QED BY <2>1, FS_EmptySet DEF Init, BoundInv
<1>2. TypeInv /\ TaskInv /\ HomeInv /\ (TypeInv /\ TaskInv /\ HomeInv)'
        /\ BoundInv /\ [Next]_vars => BoundInv'
  BY BoundStep
<1>3. TypeInv /\ BoundInv => ListenersBounded
  BY Counting DEF TypeInv, TypeOK, BoundInv, ListenersBounded, Listened
<1> QED BY <1>1, <1>2, <1>3, InvHolds, PTL DEF Spec

=============================================================================
