--------------------------- MODULE PresenceProofs ---------------------------
(***************************************************************************)
(* Theorems about Presence.tla, for any conversations and any pauses and   *)
(* times with which it is checked (PresenceAssumption, TimingAssumption).  *)
(***************************************************************************)
EXTENDS Presence, TLAPS

-----------------------------------------------------------------------------
(* The constants, and the largest and smallest of few numbers.             *)

(* The larger of two. *)
LEMMA MaxOfTwo ==
    ASSUME NEW a \in Int, NEW b \in Int
    PROVE  /\ Max({a, b}) \in {a, b}
           /\ Max({a, b}) >= a /\ Max({a, b}) >= b
<1>1. \E x \in {a, b} : \A y \in {a, b} : x >= y
  <2>1. CASE a >= b
    BY <2>1
  <2>2. CASE b >= a
    BY <2>2
  <2> QED BY <2>1, <2>2
<1>2. Max({a, b}) \in {a, b} /\ \A y \in {a, b} : Max({a, b}) >= y
  BY <1>1 DEF Max
<1> QED BY <1>2

(* The largest of four. *)
LEMMA MaxOfFour ==
    ASSUME NEW a \in Int, NEW b \in Int, NEW c \in Int, NEW d \in Int
    PROVE  /\ Max({a, b, c, d}) \in {a, b, c, d}
           /\ Max({a, b, c, d}) >= a /\ Max({a, b, c, d}) >= b
           /\ Max({a, b, c, d}) >= c /\ Max({a, b, c, d}) >= d
<1> DEFINE S == {a, b, c, d}
<1>1. \E x \in S : \A y \in S : x >= y
  <2>1. PICK x \in {a, b} : x >= a /\ x >= b
    OBVIOUS
  <2>2. PICK y \in {c, d} : y >= c /\ y >= d
    OBVIOUS
  <2>3. CASE x >= y
    <3>1. x \in S /\ \A z \in S : x >= z
      BY <2>1, <2>2, <2>3
    <3> QED BY <3>1
  <2>4. CASE y >= x
    <3>1. y \in S /\ \A z \in S : y >= z
      BY <2>1, <2>2, <2>4
    <3> QED BY <3>1
  <2> QED BY <2>1, <2>2, <2>3, <2>4
<1>2. Max(S) \in S /\ \A y \in S : Max(S) >= y
  BY <1>1 DEF Max
<1> QED BY <1>2

(* A count of ticks goes on, up to its limit. *)
LEMMA LaterIs ==
    ASSUME NEW n \in Nat, NEW m \in Nat
    PROVE  Later(n, m) = IF n + 1 <= m THEN n + 1 ELSE m
<1> DEFINE S == {n + 1, m}
<1>1. \E x \in S : \A y \in S : x <= y
  <2>1. CASE n + 1 <= m
    BY <2>1
  <2>2. CASE m <= n + 1
    BY <2>2
  <2> QED BY <2>1, <2>2
<1>2. Min(S) \in S /\ \A y \in S : Min(S) <= y
  BY <1>1 DEF Min
<1> QED BY <1>2 DEF Later

(* What follows from the assumptions. *)
LEMMA Numbers ==
    /\ Threshold \in Nat /\ Period \in Nat /\ Retry \in Nat
    /\ Attempt \in Nat /\ Store \in Nat /\ Find \in Nat
    /\ Threshold > 0 /\ Period > 0 /\ Retry > 0
    /\ Period + Store + Store < Threshold
    /\ Settled \in Nat /\ Settled >= Attempt + Store /\ Settled >= Retry + Store
    /\ Renewed = Period + Store + Store /\ Renewed \in Nat
    /\ Behind = Period + Find + Find /\ Behind \in Nat
    /\ MaxSteady \in Nat /\ MaxSteady > Settled + Behind /\ MaxSteady > Threshold + Behind
    /\ MaxCalm \in Nat /\ MaxShown \in Nat
    /\ None \notin Int
<1>1. /\ Threshold \in Nat /\ Period \in Nat /\ Retry \in Nat
      /\ Attempt \in Nat /\ Store \in Nat /\ Find \in Nat
      /\ Threshold > 0 /\ Period > 0 /\ Retry > 0
      /\ Period + Store + Store < Threshold /\ None \notin Int
  BY PresenceAssumption, TimingAssumption
<1>2. /\ Renewed = Period + Store + Store /\ Renewed \in Nat
      /\ Behind = Period + Find + Find /\ Behind \in Nat
  BY <1>1 DEF Renewed, Behind
<1>3. Settled \in Nat /\ Settled >= Attempt + Store /\ Settled >= Retry + Store
  <2>1. /\ Max({Attempt, Retry}) \in {Attempt, Retry}
        /\ Max({Attempt, Retry}) >= Attempt /\ Max({Attempt, Retry}) >= Retry
    BY <1>1, MaxOfTwo
  <2> QED BY <1>1, <2>1 DEF Settled
<1>4. MaxSteady \in Nat /\ MaxSteady > Settled + Behind /\ MaxSteady > Threshold + Behind
  <2>1. /\ Max({Settled, Threshold}) \in {Settled, Threshold}
        /\ Max({Settled, Threshold}) >= Settled /\ Max({Settled, Threshold}) >= Threshold
    BY <1>1, <1>3, MaxOfTwo
  <2> QED BY <1>1, <1>2, <1>3, <2>1 DEF MaxSteady
<1>5. MaxCalm \in Nat /\ MaxShown \in Nat
  BY <1>2 DEF MaxCalm, MaxShown
<1> QED BY <1>1, <1>2, <1>3, <1>4, <1>5

-----------------------------------------------------------------------------
(* The types.                                                              *)

Jobs == {"off", "start", "sleep", "connect", "announce"}

RefreshState ==
    [job : {"sleep"}, left : 0..Period]
      \union [job : {"look"}, left : 0..Find, for : Peer]

(* How long each job of the manager takes at most. *)
ManagerType ==
    /\ manager \in [job : Jobs, left : Nat]
    /\ manager.job = "off" => manager.left = 0
    /\ manager.job \in {"start", "connect"} => manager.left <= Attempt
    /\ manager.job = "sleep" => manager.left <= Period \/ manager.left <= Retry
    /\ manager.job = "announce" => manager.left <= Store

TypeInv ==
    /\ ManagerType
    /\ connected \in BOOLEAN /\ retrying \in BOOLEAN
    /\ record \in 0..Threshold \union {None}
    /\ shown \in Peer \union {None}
    /\ dot \in {"dim", "connecting", "ok", "error"}
    /\ fetch \in [Peer -> 0..Find \union {None}]
    /\ refresh \in RefreshState
    /\ steady \in 0..MaxSteady /\ calm \in 0..MaxCalm /\ shownFor \in 0..MaxShown

(* A job as the manager takes it up. *)
LEMMA JobIs ==
    /\ \A j \in Jobs, n \in Nat : /\ Job(j, n) \in [job : Jobs, left : Nat]
                                  /\ Job(j, n).job = j /\ Job(j, n).left = n
    /\ \A n \in 0..Period : /\ Job("sleep", n) \in RefreshState
                            /\ Job("sleep", n).job = "sleep" /\ Job("sleep", n).left = n
    /\ \A p \in Peer, n \in 0..Find :
         /\ Looking(p, n) \in RefreshState /\ Looking(p, n).job = "look"
         /\ Looking(p, n).left = n /\ Looking(p, n).for = p
BY DEF Job, Looking, Jobs, RefreshState

(* What is left of a refresh. *)
LEMMA RefreshIs ==
    ASSUME refresh \in RefreshState
    PROVE  /\ refresh.left \in Nat
           /\ \/ refresh.job = "sleep" /\ refresh.left <= Period
              \/ refresh.job = "look" /\ refresh.left <= Find /\ refresh.for \in Peer
<1>1. CASE refresh \in [job : {"sleep"}, left : 0..Period]
  BY <1>1, Numbers
<1>2. CASE refresh \in [job : {"look"}, left : 0..Find, for : Peer]
  BY <1>2, Numbers
<1> QED BY <1>1, <1>2 DEF RefreshState

(* A tick of the manager and of the refresh. *)
LEMMA TickIs ==
    ASSUME TypeInv, Tick
    PROVE  /\ manager'.job = manager.job
           /\ manager.job = "off" => manager'.left = 0
           /\ manager.job # "off" => manager.left > 0 /\ manager'.left = manager.left - 1
           /\ manager' \in [job : Jobs, left : Nat]
           /\ refresh' \in RefreshState /\ refresh'.job = refresh.job
           /\ refresh.left > 0 /\ refresh'.left = refresh.left - 1
           /\ refresh.job = "look" => refresh'.for = refresh.for
           /\ record' = IF record = None THEN None
                        ELSE IF record + 1 <= Threshold THEN record + 1 ELSE Threshold
           /\ steady' = IF steady + 1 <= MaxSteady THEN steady + 1 ELSE MaxSteady
           /\ calm' = IF calm + 1 <= MaxCalm THEN calm + 1 ELSE MaxCalm
           /\ shownFor' = IF shownFor + 1 <= MaxShown THEN shownFor + 1 ELSE MaxShown
<1>1. /\ manager \in [job : Jobs, left : Nat]
      /\ manager.job = "off" => manager.left = 0
      /\ manager' = IF manager.job = "off" THEN manager
                    ELSE [manager EXCEPT !.left = manager.left - 1]
      /\ manager.job # "off" => manager.left # 0
  BY DEF TypeInv, ManagerType, Tick, Overdue
<1>2. /\ manager'.job = manager.job
      /\ manager.job = "off" => manager'.left = 0
      /\ manager.job # "off" => manager.left > 0 /\ manager'.left = manager.left - 1
      /\ manager' \in [job : Jobs, left : Nat]
  <2>1. CASE manager.job = "off"
    BY <1>1, <2>1
  <2>2. CASE manager.job # "off"
    <3>1. manager.left - 1 \in Nat
      BY <1>1, <2>2
    <3> QED BY <1>1, <2>2, <3>1
  <2> QED BY <2>1, <2>2
<1>3. /\ refresh' = [refresh EXCEPT !.left = refresh.left - 1] /\ refresh.left # 0
      /\ refresh \in RefreshState
  BY DEF TypeInv, Tick, Overdue
<1>4. /\ refresh' \in RefreshState /\ refresh'.job = refresh.job
      /\ refresh.left > 0 /\ refresh'.left = refresh.left - 1
      /\ refresh.job = "look" => refresh'.for = refresh.for
  <2>1. CASE refresh \in [job : {"sleep"}, left : 0..Period]
    <3>1. refresh.left - 1 \in 0..Period /\ refresh.left > 0
      BY <1>3, <2>1, Numbers
    <3>2. refresh' \in [job : {"sleep"}, left : 0..Period]
      BY <1>3, <2>1, <3>1
    <3> QED BY <1>3, <2>1, <3>1, <3>2 DEF RefreshState
  <2>2. CASE refresh \in [job : {"look"}, left : 0..Find, for : Peer]
    <3>1. refresh.left - 1 \in 0..Find /\ refresh.left > 0
      BY <1>3, <2>2, Numbers
    <3>2. refresh' \in [job : {"look"}, left : 0..Find, for : Peer]
      BY <1>3, <2>2, <3>1
    <3> QED BY <1>3, <2>2, <3>1, <3>2 DEF RefreshState
  <2> QED BY <1>3, <2>1, <2>2 DEF RefreshState
<1>5. /\ record # None => record \in Nat
      /\ steady \in Nat /\ calm \in Nat /\ shownFor \in Nat
  BY Numbers DEF TypeInv
<1>6. /\ record' = IF record = None THEN None ELSE Later(record, Threshold)
      /\ steady' = Later(steady, MaxSteady) /\ calm' = Later(calm, MaxCalm)
      /\ shownFor' = Later(shownFor, MaxShown)
  BY DEF Tick
<1>7. /\ record # None => Later(record, Threshold) =
                            IF record + 1 <= Threshold THEN record + 1 ELSE Threshold
      /\ Later(steady, MaxSteady) = IF steady + 1 <= MaxSteady THEN steady + 1 ELSE MaxSteady
      /\ Later(calm, MaxCalm) = IF calm + 1 <= MaxCalm THEN calm + 1 ELSE MaxCalm
      /\ Later(shownFor, MaxShown) =
           IF shownFor + 1 <= MaxShown THEN shownFor + 1 ELSE MaxShown
  BY <1>5, LaterIs, Numbers
<1> QED BY <1>2, <1>4, <1>6, <1>7

(* The manager's jobs begin with at most their time. *)
LEMMA ManagerKeepsType ==
    ASSUME TypeInv, Next
    PROVE  ManagerType'
<1>0. /\ ManagerType /\ manager \in [job : Jobs, left : Nat]
      /\ Threshold \in Nat /\ Period \in Nat /\ Retry \in Nat /\ Attempt \in Nat /\ Store \in Nat
  BY Numbers DEF TypeInv, ManagerType
<1>1. CASE Tick
  <2>1. /\ manager'.job = manager.job
        /\ manager.job = "off" => manager'.left = 0
        /\ manager.job # "off" => manager'.left = manager.left - 1
        /\ manager' \in [job : Jobs, left : Nat]
    BY <1>1, TickIs
  <2> QED BY <1>0, <2>1 DEF ManagerType
<1>2. CASE UNCHANGED manager
  BY <1>0, <1>2 DEF ManagerType
<1>3. CASE \/ manager' = Job("start", Attempt) \/ manager' = Job("connect", Attempt)
           \/ manager' = Job("announce", Store) \/ manager' = Job("off", 0)
           \/ manager' = Job("sleep", 0) \/ manager' = Job("sleep", Period)
           \/ manager' = Job("sleep", Retry)
  BY <1>0, <1>3, JobIs DEF ManagerType, Jobs
<1> QED
  BY <1>1, <1>2, <1>3 DEF Next, Start, StartEnds, ManagerWakes, AttemptEnds, AnnounceEnds,
     ConnectionEnds, ListenerReconnects, Stop, RecordIsLost, Select, DialogOpens, FetchEnds,
     CloseChat, RefreshBegins, RefreshEnds, remote, AfterWaking, AfterAttempt, Announces

(* What a lookup may answer; it is noted when the network fails. *)
LEMMA AnswerIs ==
    ASSUME NEW p, NEW a, Answer(p, a)
    PROVE  /\ calm' = calm \/ calm' = 0
           /\ p = "remote" => \/ a = (IF Online THEN "ok" ELSE "error")
                              \/ a = "error" /\ calm' = 0
BY DEF Answer

(* Every step keeps the types. *)
LEMMA TypesAreKept ==
    ASSUME TypeInv, [Next]_vars
    PROVE  TypeInv'
<1>0. /\ Threshold \in Nat /\ Threshold > 0 /\ Store \in Nat /\ Store < Threshold
      /\ MaxSteady \in Nat /\ MaxCalm \in Nat /\ MaxShown \in Nat
      /\ Find \in Nat /\ Period \in Nat /\ None \notin Int
  BY Numbers
<1>1. CASE UNCHANGED vars
  BY <1>1 DEF TypeInv, ManagerType, vars, remote, viewer, ticks
<1>2. CASE Next
  <2>1. ManagerType'
    BY <1>2, ManagerKeepsType
  <2>2. connected' \in BOOLEAN /\ retrying' \in BOOLEAN
    BY <1>2 DEF Next, TypeInv, Tick, Start, StartEnds, ManagerWakes, AttemptEnds, AnnounceEnds,
       ConnectionEnds, ListenerReconnects, Stop, RecordIsLost, Select, DialogOpens, FetchEnds,
       CloseChat, RefreshBegins, RefreshEnds, remote, SetConnected
  <2>3. /\ record' \in 0..Threshold \union {None}
        /\ steady' \in 0..MaxSteady /\ calm' \in 0..MaxCalm /\ shownFor' \in 0..MaxShown
    <3>1. CASE Tick
      <4>1. /\ record \in 0..Threshold \union {None}
            /\ steady \in 0..MaxSteady /\ calm \in 0..MaxCalm /\ shownFor \in 0..MaxShown
        BY DEF TypeInv
      <4> QED BY <1>0, <3>1, <4>1, TickIs
    <3>2. CASE ~Tick
      <4>1. record' \in {record, None, 0, Store - manager.left}
            /\ (record' = Store - manager.left => manager.job = "announce" \/ record' = record
                                                  \/ record' = None \/ record' = 0)
        BY <1>2, <3>2 DEF Next, Start, StartEnds, ManagerWakes, AttemptEnds, AnnounceEnds,
           ConnectionEnds, ListenerReconnects, Stop, RecordIsLost, Select, DialogOpens,
           FetchEnds, CloseChat, RefreshBegins, RefreshEnds, viewer
      <4>2. record' \in 0..Threshold \union {None}
        BY <1>0, <4>1 DEF TypeInv, ManagerType
      <4>3. steady' \in {steady, 0}
        BY <1>2, <3>2 DEF Next, Start, StartEnds, ManagerWakes, AttemptEnds, AnnounceEnds,
           ConnectionEnds, ListenerReconnects, Stop, RecordIsLost, Select, DialogOpens,
           FetchEnds, CloseChat, RefreshBegins, RefreshEnds, ticks, SetConnected
      <4>4. calm' \in {calm, 0}
        BY <1>2, <3>2, AnswerIs DEF Next, Start, StartEnds, ManagerWakes, AttemptEnds,
           AnnounceEnds, ConnectionEnds, ListenerReconnects, Stop, RecordIsLost, Select,
           DialogOpens, FetchEnds, CloseChat, RefreshBegins, RefreshEnds, ticks
      <4>5. shownFor' \in {shownFor, 0}
        BY <1>2, <3>2 DEF Next, Start, StartEnds, ManagerWakes, AttemptEnds, AnnounceEnds,
           ConnectionEnds, ListenerReconnects, Stop, RecordIsLost, Select, DialogOpens,
           FetchEnds, CloseChat, RefreshBegins, RefreshEnds, ticks
      <4> QED BY <1>0, <4>2, <4>3, <4>4, <4>5 DEF TypeInv
    <3> QED BY <3>1, <3>2
  <2>4. shown' \in Peer \union {None} /\ dot' \in {"dim", "connecting", "ok", "error"}
    BY <1>2 DEF Next, TypeInv, Tick, Start, StartEnds, ManagerWakes, AttemptEnds, AnnounceEnds,
       ConnectionEnds, ListenerReconnects, Stop, RecordIsLost, Select, DialogOpens, FetchEnds,
       CloseChat, RefreshBegins, RefreshEnds, viewer
  <2>5. fetch' \in [Peer -> 0..Find \union {None}]
    <3>1. CASE Tick
      <4>1. fetch' = [p \in Peer |-> Sooner(fetch[p])] /\ \A p \in Peer : fetch[p] # 0
        BY <3>1 DEF Tick, Overdue
      <4>2. \A p \in Peer : Sooner(fetch[p]) \in 0..Find \union {None}
        BY <1>0, <4>1 DEF TypeInv, Sooner
      <4> QED BY <4>1, <4>2
    <3>2. CASE ~Tick
      <4>1. \/ UNCHANGED fetch
            \/ \E p \in Peer : fetch' = [fetch EXCEPT ![p] = Find]
            \/ \E p \in Peer : fetch' = [fetch EXCEPT ![p] = None]
        BY <1>2, <3>2 DEF Next, Start, StartEnds, ManagerWakes, AttemptEnds, AnnounceEnds,
           ConnectionEnds, ListenerReconnects, Stop, RecordIsLost, Select, DialogOpens,
           FetchEnds, CloseChat, RefreshBegins, RefreshEnds, viewer
      <4> QED BY <1>0, <4>1 DEF TypeInv
    <3> QED BY <3>1, <3>2
  <2>6. refresh' \in RefreshState
    <3>1. CASE Tick
      BY <3>1, TickIs
    <3>2. CASE ~Tick
      <4>1. \/ UNCHANGED refresh
            \/ refresh' = Job("sleep", Period)
            \/ shown # None /\ refresh' = Looking(shown, Find)
        BY <1>2, <3>2 DEF Next, Start, StartEnds, ManagerWakes, AttemptEnds, AnnounceEnds,
           ConnectionEnds, ListenerReconnects, Stop, RecordIsLost, Select, DialogOpens,
           FetchEnds, CloseChat, RefreshBegins, RefreshEnds, viewer, Refreshed
      <4>2. Period \in 0..Period /\ Find \in 0..Find
        BY <1>0
      <4> QED BY <4>1, <4>2, JobIs DEF TypeInv
    <3> QED BY <3>1, <3>2
  <2> QED BY <2>1, <2>2, <2>3, <2>4, <2>5, <2>6 DEF TypeInv
<1> QED BY <1>1, <1>2

(* The types of the initial values. *)
LEMMA TypesBegin == Init => TypeInv
<1> SUFFICES ASSUME Init PROVE TypeInv
  OBVIOUS
<1>0. /\ MaxSteady \in Nat /\ MaxCalm \in Nat /\ MaxShown \in Nat /\ Period \in Nat
  BY Numbers
<1>1. ManagerType
  BY JobIs DEF Init, ManagerType, Jobs
<1>2. refresh \in RefreshState
  BY <1>0, JobIs DEF Init
<1>3. fetch \in [Peer -> 0..Find \union {None}]
  BY DEF Init
<1>4. /\ connected = FALSE /\ retrying = FALSE /\ record = None /\ shown = None /\ dot = "dim"
      /\ steady = MaxSteady /\ calm = MaxCalm /\ shownFor = 0
  BY DEF Init
<1>5. steady \in 0..MaxSteady /\ calm \in 0..MaxCalm /\ shownFor \in 0..MaxShown
  BY <1>0, <1>4
<1> QED BY <1>1, <1>2, <1>3, <1>4, <1>5 DEF TypeInv

(* TypeOK, for any pauses and times. *)
THEOREM TypesHold == Spec => []TypeOK
<1>1. ASSUME TypeInv PROVE TypeOK
  <2> DEFINE L == Max({Period, Retry, Attempt, Store})
             F == Max({Period, Find})
  <2>1. /\ L \in Nat /\ L >= Period /\ L >= Retry /\ L >= Attempt /\ L >= Store
    <3>0. Period \in Nat /\ Retry \in Nat /\ Attempt \in Nat /\ Store \in Nat
      BY Numbers
    <3>1. Period \in Int /\ Retry \in Int /\ Attempt \in Int /\ Store \in Int
      BY <3>0
    <3>2. /\ L \in {Period, Retry, Attempt, Store}
          /\ L >= Period /\ L >= Retry /\ L >= Attempt /\ L >= Store
      BY <3>1, MaxOfFour
    <3> QED BY <3>0, <3>2
  <2>2. F \in Nat /\ F >= Period /\ F >= Find
    <3>0. Period \in Nat /\ Find \in Nat
      BY Numbers
    <3>1. Period \in Int /\ Find \in Int
      BY <3>0
    <3>2. F \in {Period, Find} /\ F >= Period /\ F >= Find
      BY <3>1, MaxOfTwo
    <3> QED BY <3>0, <3>2
  <2> HIDE DEF L, F
  <2>3. manager.job \in Jobs /\ manager.left \in 0..L
    BY <1>1, <2>1, Numbers DEF TypeInv, ManagerType, Jobs
  <2>4. refresh.job \in {"sleep", "look"} /\ refresh.left \in 0..F
    BY <1>1, <2>2, RefreshIs, Numbers DEF TypeInv
  <2> QED BY <1>1, <2>3, <2>4 DEF TypeInv, TypeOK, Jobs, L, F
<1> QED BY <1>1, TypesBegin, TypesAreKept, PTL DEF Spec

-----------------------------------------------------------------------------
(* The daemon and its record.                                              *)

(* The record of a daemon that sleeps or announces is young, unless it     *)
(* connected or the network failed so shortly ago that the manager is      *)
(* still to announce; a peer that is connected while its manager connects  *)
(* was connected by the listener in the meantime.                          *)
Sleeping ==
    manager.job = "sleep" =>
        \/ (IF connected THEN steady ELSE 0) + manager.left <= Retry
        \/ record # None /\ record + manager.left <= Store + Period /\ manager.left <= Period
        \/ calm + manager.left <= Period

Connecting ==
    manager.job = "connect" /\ connected => steady + manager.left <= Attempt

Announcing ==
    manager.job = "announce" =>
        \/ connected /\ steady + manager.left <= Settled
        \/ connected /\ record # None /\ record + manager.left <= Renewed
        \/ connected /\ calm + manager.left <= Period + Store
        \/ ~connected /\ steady + manager.left <= Store

(* A daemon that is off, or that starts, is not connected.                 *)
Idle ==
    manager.job \in {"off", "start"} => ~connected /\ ~retrying

(* A peer that is not connected announced itself before it went.           *)
Gone ==
    ~connected => record = None \/ record = Threshold \/ record >= steady

ManagerInv == Sleeping /\ Connecting /\ Announcing /\ Idle /\ Gone

(* What the steps start from. *)
LEMMA Values ==
    ASSUME TypeInv
    PROVE  /\ manager.job \in Jobs /\ manager.left \in Nat
           /\ connected \in BOOLEAN /\ retrying \in BOOLEAN
           /\ record # None => record \in Nat /\ record <= Threshold
           /\ steady \in Nat /\ calm \in Nat /\ shownFor \in Nat
           /\ manager.job = "off" => manager.left = 0
           /\ manager.job \in {"start", "connect"} => manager.left <= Attempt
           /\ manager.job = "sleep" => manager.left <= Period \/ manager.left <= Retry
           /\ manager.job = "announce" => manager.left <= Store
BY Numbers DEF TypeInv, ManagerType

(* Time passes. *)
LEMMA TickKeepsManager ==
    ASSUME TypeInv, ManagerInv, Tick
    PROVE  ManagerInv'
<1>1. /\ manager'.job = manager.job
      /\ manager.job # "off" => manager.left > 0 /\ manager'.left = manager.left - 1
      /\ record' = IF record = None THEN None
                   ELSE IF record + 1 <= Threshold THEN record + 1 ELSE Threshold
      /\ steady' = IF steady + 1 <= MaxSteady THEN steady + 1 ELSE MaxSteady
      /\ calm' = IF calm + 1 <= MaxCalm THEN calm + 1 ELSE MaxCalm
  BY TickIs
<1>2. UNCHANGED <<connected, retrying>>
  BY DEF Tick
<1>3. /\ MaxSteady \in Nat /\ MaxCalm \in Nat /\ Threshold \in Nat /\ None \notin Int
      /\ Retry \in Nat /\ Period \in Nat /\ Store \in Nat /\ Attempt \in Nat
      /\ Settled \in Nat /\ Renewed \in Nat
  BY Numbers
<1>4. /\ manager.left \in Nat /\ steady \in Nat /\ calm \in Nat
      /\ record # None => record \in Nat /\ record <= Threshold
  BY Values
<1>5. steady' \in Nat /\ steady' <= steady + 1 /\ calm' \in Nat /\ calm' <= calm + 1
  BY <1>1, <1>3, <1>4
<1>6. /\ record = None <=> record' = None
      /\ record # None => record' \in Nat /\ record' <= record + 1
                          /\ (record' = Threshold \/ record' = record + 1)
  BY <1>1, <1>3, <1>4
<1>7. Sleeping'
  BY <1>1, <1>2, <1>3, <1>4, <1>5, <1>6 DEF ManagerInv, Sleeping
<1>8. Connecting'
  BY <1>1, <1>2, <1>3, <1>4, <1>5 DEF ManagerInv, Connecting
<1>9. Announcing'
  BY <1>1, <1>2, <1>3, <1>4, <1>5, <1>6 DEF ManagerInv, Announcing
<1>10. Idle'
  BY <1>1, <1>2 DEF ManagerInv, Idle
<1>11. Gone'
  BY <1>1, <1>2, <1>3, <1>4, <1>5, <1>6 DEF ManagerInv, Gone
<1> QED BY <1>7, <1>8, <1>9, <1>10, <1>11 DEF ManagerInv

(* Steps that leave the daemon alone: the network may fail. *)
LEMMA NetworkKeepsManager ==
    ASSUME TypeInv, ManagerInv, UNCHANGED <<manager, connected, retrying, steady>>,
           \/ record' = record /\ calm' \in {calm, 0}
           \/ record' = None /\ calm' = 0
    PROVE  ManagerInv'
<1>1. /\ Retry \in Nat /\ Period \in Nat /\ Store \in Nat /\ Attempt \in Nat
      /\ Settled \in Nat /\ Renewed = Period + Store + Store /\ Threshold \in Nat
  BY Numbers
<1>2. /\ manager.left \in Nat /\ steady \in Nat /\ calm \in Nat
      /\ record # None => record \in Nat
      /\ manager.job = "announce" => manager.left <= Store
  BY Values
<1>3. Sleeping'
  BY <1>1, <1>2 DEF ManagerInv, Sleeping
<1>4. Announcing'
  BY <1>1, <1>2 DEF ManagerInv, Announcing
<1>5. Connecting' /\ Idle' /\ Gone'
  BY DEF ManagerInv, Connecting, Idle, Gone
<1> QED BY <1>3, <1>4, <1>5 DEF ManagerInv

(* The steps of the manager. *)
LEMMA DaemonKeepsManager ==
    ASSUME TypeInv, ManagerInv,
           Start \/ StartEnds \/ ManagerWakes \/ AttemptEnds \/ AnnounceEnds \/ Stop
    PROVE  ManagerInv'
<1>1. /\ Retry \in Nat /\ Period \in Nat /\ Store \in Nat /\ Attempt \in Nat
      /\ Settled \in Nat /\ Renewed = Period + Store + Store /\ Threshold \in Nat
      /\ Settled >= Attempt + Store /\ Settled >= Retry + Store
      /\ None \notin Int
  BY Numbers
<1>2. /\ manager.job \in Jobs /\ manager.left \in Nat /\ steady \in Nat /\ calm \in Nat
      /\ connected \in BOOLEAN /\ retrying \in BOOLEAN
      /\ record # None => record \in Nat
      /\ manager.job = "announce" => manager.left <= Store
  BY Values
<1>3. \A j \in Jobs, n \in Nat : Job(j, n).job = j /\ Job(j, n).left = n
  BY JobIs
<1> USE DEF ManagerInv, Sleeping, Connecting, Announcing, Idle, Gone, Jobs
<1>4. CASE Start
  <2>1. /\ manager.job = "off" /\ manager'.job = "start"
        /\ UNCHANGED <<connected, retrying, record, steady>>
    BY <1>1, <1>3, <1>4 DEF Start, ticks
  <2> QED BY <2>1
<1>5. CASE StartEnds
  <2>1. /\ manager.job = "start" /\ manager'.job = "sleep" /\ manager'.left = 0
        /\ steady' = 0 /\ UNCHANGED retrying
        /\ record' = 0 \/ record' = record
    BY <1>3, <1>5 DEF StartEnds
  <2> QED BY <1>1, <1>2, <2>1
<1>6. CASE ManagerWakes
  <2>1. /\ manager.job = "sleep" /\ manager.left = 0
        /\ UNCHANGED <<connected, retrying, record, steady, calm>>
        /\ IF connected THEN manager'.job = "announce" /\ manager'.left = Store
           ELSE manager'.job = "connect" /\ manager'.left = Attempt
    BY <1>1, <1>3, <1>6 DEF ManagerWakes, ticks, AfterWaking, Announces
  <2> QED BY <1>1, <1>2, <2>1
<1>7. CASE AttemptEnds
  <2>1. /\ manager.job = "connect" /\ UNCHANGED <<retrying, record, calm>>
        /\ IF connected' THEN manager'.job = "announce" /\ manager'.left = Store
           ELSE manager'.job = "sleep" /\ manager'.left = Retry
        /\ \/ connected' = TRUE /\ steady' = IF connected THEN steady ELSE 0
           \/ UNCHANGED <<connected, steady>>
    BY <1>1, <1>2, <1>3, <1>7 DEF AttemptEnds, AfterAttempt, Announces, SetConnected
  <2> QED BY <1>1, <1>2, <2>1
<1>8. CASE AnnounceEnds
  <2>1. /\ manager.job = "announce" /\ manager'.job = "sleep" /\ manager'.left = Period
        /\ UNCHANGED <<connected, retrying, steady>>
        /\ \/ record' = Store - manager.left
           \/ record' = record /\ calm' = 0
    BY <1>1, <1>3, <1>8 DEF AnnounceEnds
  <2>2. Store - manager.left \in Nat
    BY <1>1, <1>2, <2>1
  <2>3. Sleeping'
    BY <1>1, <1>2, <2>1, <2>2
  <2>4. Gone'
    BY <1>1, <1>2, <2>1, <2>2
  <2>5. Connecting' /\ Announcing' /\ Idle'
    BY <2>1
  <2> QED BY <2>3, <2>4, <2>5
<1>9. CASE Stop
  <2>1. /\ manager'.job = "off" /\ connected' = FALSE /\ retrying' = FALSE
        /\ steady' = 0 /\ UNCHANGED record
    BY <1>3, <1>9 DEF Stop
  <2> QED BY <1>1, <1>2, <2>1
<1> QED BY <1>4, <1>5, <1>6, <1>7, <1>8, <1>9

(* The steps of the listener. *)
LEMMA ListenerKeepsManager ==
    ASSUME TypeInv, ManagerInv, ConnectionEnds \/ ListenerReconnects
    PROVE  ManagerInv'
<1>1. /\ Retry \in Nat /\ Period \in Nat /\ Store \in Nat /\ Attempt \in Nat
      /\ Settled \in Nat /\ Settled >= Attempt + Store /\ Settled >= Retry + Store
      /\ Renewed \in Nat /\ Threshold \in Nat
  BY Numbers
<1>2. /\ manager.job \in Jobs /\ manager.left \in Nat /\ steady \in Nat /\ calm \in Nat
      /\ connected \in BOOLEAN /\ retrying \in BOOLEAN
      /\ record # None => record \in Nat
      /\ manager.job = "announce" => manager.left <= Store
      /\ manager.job = "connect" => manager.left <= Attempt
  BY Values
<1> USE DEF ManagerInv, Sleeping, Connecting, Announcing, Idle, Gone, Jobs
<1>3. CASE ConnectionEnds
  <2>1. /\ connected /\ ~connected' /\ steady' = 0 /\ retrying' = TRUE
        /\ UNCHANGED <<manager, record, calm>>
    BY <1>2, <1>3 DEF ConnectionEnds, SetConnected
  <2> QED BY <1>1, <1>2, <2>1
<1>4. CASE ListenerReconnects
  <2>1. /\ retrying /\ UNCHANGED <<manager, record, calm>>
        /\ \/ connected' = TRUE /\ steady' = IF connected THEN steady ELSE 0
           \/ UNCHANGED <<connected, steady>>
    BY <1>2, <1>4 DEF ListenerReconnects, SetConnected
  <2>2. manager.job \notin {"off", "start"}
    BY <2>1
  <2> QED BY <1>1, <1>2, <2>1, <2>2
<1> QED BY <1>3, <1>4

(* Every step keeps what is known of the daemon. *)
LEMMA ManagerIsKept ==
    ASSUME TypeInv, ManagerInv, [Next]_vars
    PROVE  ManagerInv'
<1>1. CASE \/ UNCHANGED vars \/ RecordIsLost \/ CloseChat \/ RefreshBegins \/ RefreshEnds
           \/ \E p \in Peer : Select(p) \/ DialogOpens(p) \/ FetchEnds(p)
  <2>1. /\ UNCHANGED <<manager, connected, retrying, steady>>
        /\ \/ record' = record /\ calm' \in {calm, 0}
           \/ record' = None /\ calm' = 0
    BY <1>1, AnswerIs DEF vars, remote, ticks, RecordIsLost, CloseChat, RefreshBegins,
       RefreshEnds, Select, DialogOpens, FetchEnds
  <2> QED BY <2>1, NetworkKeepsManager
<1> QED BY <1>1, TickKeepsManager, DaemonKeepsManager, ListenerKeepsManager DEF Next

(* A daemon that is off. *)
LEMMA ManagerBegins == Init => ManagerInv
BY JobIs DEF Init, ManagerInv, Sleeping, Connecting, Announcing, Idle, Gone, Jobs

(* When a record must be seen, and when it must not. *)
LEMMA FreshWhen ==
    ASSUME TypeInv, ManagerInv
    PROVE  PresenceIsFresh
<1>1. /\ Retry \in Nat /\ Period \in Nat /\ Store \in Nat /\ Attempt \in Nat
      /\ Settled \in Nat /\ Settled >= Attempt + Store /\ Settled >= Retry + Store
      /\ Renewed = Period + Store + Store /\ Threshold \in Nat
      /\ Period + Store + Store < Threshold /\ None \notin Int
  BY Numbers
<1>2. /\ manager.job \in Jobs /\ manager.left \in Nat /\ steady \in Nat /\ calm \in Nat
      /\ record # None => record \in Nat /\ record <= Threshold
  BY Values
<1>3. ASSUME connected, steady > Settled, calm > Renewed PROVE Online
  <2>1. CASE manager.job = "sleep"
    BY <1>1, <1>2, <1>3, <2>1 DEF ManagerInv, Sleeping, Online
  <2>2. CASE manager.job = "announce"
    BY <1>1, <1>2, <1>3, <2>2 DEF ManagerInv, Announcing, Online
  <2>3. CASE manager.job = "connect"
    BY <1>1, <1>2, <1>3, <2>3 DEF ManagerInv, Connecting
  <2>4. manager.job \notin {"off", "start"}
    BY <1>3 DEF ManagerInv, Idle
  <2> QED BY <1>2, <2>1, <2>2, <2>3, <2>4 DEF Jobs
<1>4. ASSUME ~connected, steady >= Threshold PROVE ~Online
  BY <1>1, <1>2, <1>4 DEF ManagerInv, Gone, Online
<1> QED BY <1>3, <1>4 DEF PresenceIsFresh

(* PresenceIsFresh, for any pauses and times: a record does not become too *)
(* old while its daemon is connected, and does when it is not.             *)
THEOREM RecordsAreFresh == Spec => []PresenceIsFresh
<1>1. Init => TypeInv /\ ManagerInv
  BY TypesBegin, ManagerBegins
<1>2. TypeInv /\ ManagerInv /\ [Next]_vars => (TypeInv /\ ManagerInv)'
  BY TypesAreKept, ManagerIsKept
<1>3. TypeInv /\ ManagerInv => PresenceIsFresh
  BY FreshWhen
<1> QED BY <1>1, <1>2, <1>3, PTL DEF Spec

-----------------------------------------------------------------------------
(* The dot of the viewer.                                                  *)

(* Whether a peer came, or went, so long ago that what was said of it t    *)
(* ticks ago must have been right.                                         *)
CameBefore(t) == connected /\ steady > Settled + t /\ calm > Renewed + t
WentBefore(t) == ~connected /\ steady >= Threshold + t

(* The dot says what was true t ticks ago.                                 *)
RightSince(t) == (CameBefore(t) => dot = "ok") /\ (WentBefore(t) => dot = "error")

(* While the conversation is shown, either the first refresh that looks    *)
(* for it is still to end, or the dot is what the last one said, or is     *)
(* newer.                                                                  *)
Refreshing ==
    shown = "remote" =>
        \/ /\ refresh.job = "sleep"
           /\ \/ shownFor + refresh.left <= Period + Find
              \/ RightSince(Period - refresh.left)
        \/ /\ refresh.job = "look" /\ refresh.for # "remote"
           /\ shownFor + refresh.left <= Find
        \/ /\ refresh.job = "look" /\ refresh.for = "remote"
           /\ \/ shownFor + refresh.left <= Period + 2 * Find
              \/ RightSince(Period + Find - refresh.left)

(* What was said of a peer that came, or went, long enough ago is true.    *)
LEMMA AnswersAreRight ==
    ASSUME TypeInv, ManagerInv, NEW a, Answer("remote", a), NEW t \in Nat,
           UNCHANGED <<connected, steady>>, dot' = a
    PROVE  RightSince(t)'
<1>1. /\ Settled \in Nat /\ Renewed \in Nat /\ Threshold \in Nat
      /\ steady \in Nat /\ calm \in Nat
  BY Numbers, Values
<1>2. PresenceIsFresh
  BY FreshWhen
<1>3. ASSUME connected', steady' > Settled + t, calm' > Renewed + t
      PROVE  dot' = "ok"
  <2>1. calm' = calm /\ a = (IF Online THEN "ok" ELSE "error")
    BY <1>1, <1>3, AnswerIs
  <2>2. connected /\ steady > Settled /\ calm > Renewed
    BY <1>1, <1>3, <2>1
  <2> QED BY <1>2, <2>1, <2>2 DEF PresenceIsFresh
<1>4. ASSUME ~connected', steady' >= Threshold + t
      PROVE  dot' = "error"
  <2>1. ~connected /\ steady >= Threshold
    BY <1>1, <1>4
  <2>2. ~Online
    BY <1>2, <2>1 DEF PresenceIsFresh
  <2> QED BY <2>2, AnswerIs
<1> QED BY <1>3, <1>4 DEF RightSince, CameBefore, WentBefore

(* The dot stays right when nothing is heard, whatever happens to the      *)
(* daemon or in the network.                                               *)
LEMMA RightStays ==
    ASSUME TypeInv, NEW t \in Nat, RightSince(t), dot' = dot,
           \/ connected' = connected /\ steady' = steady
           \/ steady' = 0,
           calm' \in {calm, 0}
    PROVE  RightSince(t)'
<1>1. /\ Settled \in Nat /\ Renewed \in Nat /\ Threshold \in Nat /\ Threshold > 0
      /\ steady \in Nat /\ calm \in Nat
  BY Numbers, Values
<1>2. CameBefore(t)' => CameBefore(t)
  <2>1. SUFFICES ASSUME connected', steady' > Settled + t, calm' > Renewed + t
                 PROVE  connected /\ steady > Settled + t /\ calm > Renewed + t
    BY DEF CameBefore
  <2>2. steady' # 0 /\ calm' = calm
    BY <1>1, <2>1
  <2> QED BY <2>1, <2>2
<1>3. WentBefore(t)' => WentBefore(t)
  BY <1>1 DEF WentBefore
<1> QED BY <1>2, <1>3 DEF RightSince

(* Time passes. *)
LEMMA TickKeepsDot ==
    ASSUME TypeInv, Refreshing, Tick
    PROVE  Refreshing'
<1>0. /\ refresh'.job = refresh.job
      /\ refresh.left > 0 /\ refresh'.left = refresh.left - 1
      /\ refresh.job = "look" => refresh'.for = refresh.for
      /\ steady' = IF steady + 1 <= MaxSteady THEN steady + 1 ELSE MaxSteady
      /\ calm' = IF calm + 1 <= MaxCalm THEN calm + 1 ELSE MaxCalm
      /\ shownFor' = IF shownFor + 1 <= MaxShown THEN shownFor + 1 ELSE MaxShown
  BY TickIs
<1>1. /\ Settled \in Nat /\ Renewed \in Nat /\ Threshold \in Nat
      /\ MaxSteady \in Nat /\ MaxCalm \in Nat /\ MaxShown \in Nat
      /\ Period \in Nat /\ Find \in Nat
  BY Numbers
<1>2. /\ steady \in Nat /\ calm \in Nat /\ shownFor \in Nat
  BY Values
<1>3. /\ refresh.left \in Nat
      /\ \/ refresh.job = "sleep" /\ refresh.left <= Period
         \/ refresh.job = "look" /\ refresh.left <= Find
  BY RefreshIs DEF TypeInv
<1>4. UNCHANGED <<shown, dot, connected>>
  BY DEF Tick
<1>5. /\ steady' \in Nat /\ steady' <= steady + 1
      /\ calm' \in Nat /\ calm' <= calm + 1
      /\ shownFor' \in Nat /\ shownFor' <= shownFor + 1
  BY <1>0, <1>1, <1>2
<1>6. ASSUME NEW t \in Nat, RightSince(t) PROVE RightSince(t + 1)'
  <2>1. CameBefore(t + 1)' => CameBefore(t)
    BY <1>1, <1>2, <1>4, <1>5 DEF CameBefore
  <2>2. WentBefore(t + 1)' => WentBefore(t)
    BY <1>1, <1>2, <1>4, <1>5 DEF WentBefore
  <2> QED BY <1>4, <1>6, <2>1, <2>2 DEF RightSince
<1>7. SUFFICES ASSUME shown = "remote" PROVE Refreshing'
  BY <1>4 DEF Refreshing
<1>8. CASE refresh.job = "sleep"
  <2>1. PICK n : n = refresh.left
    OBVIOUS
  <2>2. n \in Nat /\ n <= Period /\ n > 0 /\ refresh'.left = n - 1 /\ refresh'.job = "sleep"
    BY <1>0, <1>3, <1>8, <2>1
  <2>3. CASE shownFor + n <= Period + Find
    <3>1. shownFor' + refresh'.left <= Period + Find
      <4>1. shownFor' + (n - 1) <= shownFor + n
        <5>1. \A i, j, k \in Nat : i <= j + 1 => i + (k - 1) <= j + k
          OBVIOUS
        <5>2. shownFor' \in Nat /\ shownFor' <= shownFor + 1
          BY <1>5
        <5> QED BY <1>2, <2>2, <5>1, <5>2
      <4>2. shownFor' + (n - 1) \in Int /\ shownFor + n \in Int /\ Period + Find \in Int
        BY <1>1, <1>2, <1>5, <2>2
      <4>3. shownFor' + (n - 1) <= Period + Find
        BY <2>3, <4>1, <4>2
      <4> QED BY <2>2, <4>3
    <3>2. refresh'.job = "sleep"
      BY <2>2
    <3> QED BY <3>1, <3>2 DEF Refreshing
  <2>4. CASE RightSince(Period - n)
    <3>1. PICK t \in Nat : t = Period - n
      BY <1>1, <2>2
    <3>2. RightSince(t + 1)'
      BY <1>6, <2>4, <3>1
    <3>3. t + 1 = Period - (n - 1)
      BY <1>1, <2>2, <3>1
    <3>4. RightSince(Period - refresh.left)'
      BY <2>2, <3>2, <3>3 DEF RightSince, CameBefore, WentBefore
    <3> QED BY <2>2, <3>4 DEF Refreshing, RightSince, CameBefore, WentBefore
  <2> QED BY <1>7, <1>8, <2>1, <2>3, <2>4 DEF Refreshing
<1>9. CASE refresh.job = "look" /\ refresh.for # "remote"
  <2>1. shownFor' + refresh'.left <= Find
    BY <1>0, <1>1, <1>2, <1>3, <1>5, <1>7, <1>9 DEF Refreshing
  <2> QED BY <1>0, <1>9, <2>1 DEF Refreshing
<1>10. CASE refresh.job = "look" /\ refresh.for = "remote"
  <2>1. PICK n : n = refresh.left
    OBVIOUS
  <2>2. /\ n \in Nat /\ n <= Find /\ n > 0 /\ refresh'.left = n - 1
        /\ refresh'.job = "look" /\ refresh'.for = "remote"
    BY <1>0, <1>3, <1>10, <2>1
  <2>3. CASE shownFor + n <= Period + 2 * Find
    <3>1. shownFor' + refresh'.left <= Period + 2 * Find
      <4>1. shownFor' + (n - 1) <= shownFor + n
        <5>1. \A i, j, k \in Nat : i <= j + 1 => i + (k - 1) <= j + k
          OBVIOUS
        <5>2. shownFor' \in Nat /\ shownFor' <= shownFor + 1
          BY <1>5
        <5> QED BY <1>2, <2>2, <5>1, <5>2
      <4>2. shownFor' + (n - 1) \in Int /\ shownFor + n \in Int /\ Period + 2 * Find \in Int
        BY <1>1, <1>2, <1>5, <2>2
      <4>3. shownFor' + (n - 1) <= Period + 2 * Find
        BY <2>3, <4>1, <4>2
      <4> QED BY <2>2, <4>3
    <3>2. refresh'.job = "look" /\ refresh'.for = "remote"
      BY <2>2
    <3> QED BY <3>1, <3>2 DEF Refreshing
  <2>4. CASE RightSince(Period + Find - n)
    <3>1. PICK t \in Nat : t = Period + Find - n
      BY <1>1, <2>2
    <3>2. RightSince(t + 1)'
      BY <1>6, <2>4, <3>1
    <3>3. t + 1 = Period + Find - (n - 1)
      BY <1>1, <2>2, <3>1
    <3>4. RightSince(Period + Find - refresh.left)'
      BY <2>2, <3>2, <3>3 DEF RightSince, CameBefore, WentBefore
    <3> QED BY <2>2, <3>4 DEF Refreshing, RightSince, CameBefore, WentBefore
  <2> QED BY <1>7, <1>10, <2>1, <2>3, <2>4 DEF Refreshing
<1> QED BY <1>3, <1>8, <1>9, <1>10

(* Steps that touch neither the refresh nor what is shown: the dot stays,  *)
(* or it is set to an answer about the peer.                               *)
LEMMA OthersKeepDot ==
    ASSUME TypeInv, Refreshing, UNCHANGED <<refresh, shown, shownFor>>,
           shown = "remote" =>
               \A t \in Nat : RightSince(t) => RightSince(t)'
    PROVE  Refreshing'
<1>1. Period \in Nat /\ Find \in Nat
  BY Numbers
<1>2. /\ refresh.left \in Nat
      /\ \/ refresh.job = "sleep" /\ refresh.left <= Period
         \/ refresh.job = "look" /\ refresh.left <= Find
  BY RefreshIs DEF TypeInv
<1>3. SUFFICES ASSUME shown = "remote" PROVE Refreshing'
  BY DEF Refreshing
<1>4. PICK n : n = refresh.left
  OBVIOUS
<1>5. CASE refresh.job = "sleep"
  <2>1. PICK t \in Nat : t = Period - n
    BY <1>1, <1>2, <1>4, <1>5
  <2>2. RightSince(t) => RightSince(t)'
    BY <1>3
  <2>3. shownFor + n <= Period + Find \/ RightSince(Period - n)
    BY <1>3, <1>4, <1>5 DEF Refreshing
  <2>4. RightSince(t)' => RightSince(Period - refresh.left)'
    BY <1>4, <2>1 DEF RightSince, CameBefore, WentBefore
  <2> QED BY <1>4, <1>5, <2>1, <2>2, <2>3, <2>4
          DEF Refreshing, RightSince, CameBefore, WentBefore
<1>6. CASE refresh.job = "look" /\ refresh.for # "remote"
  BY <1>3, <1>6 DEF Refreshing
<1>7. CASE refresh.job = "look" /\ refresh.for = "remote"
  <2>1. PICK t \in Nat : t = Period + Find - n
    BY <1>1, <1>2, <1>4, <1>7
  <2>2. RightSince(t) => RightSince(t)'
    BY <1>3
  <2>3. shownFor + n <= Period + 2 * Find \/ RightSince(Period + Find - n)
    BY <1>3, <1>4, <1>7 DEF Refreshing
  <2>4. RightSince(t)' => RightSince(Period + Find - refresh.left)'
    BY <1>4, <2>1 DEF RightSince, CameBefore, WentBefore
  <2> QED BY <1>4, <1>7, <2>1, <2>2, <2>3, <2>4
          DEF Refreshing, RightSince, CameBefore, WentBefore
<1> QED BY <1>2, <1>5, <1>6, <1>7

(* A conversation is opened: the first refresh is still to end. *)
LEMMA OpeningKeepsDot ==
    ASSUME TypeInv, shownFor' = 0, UNCHANGED refresh
    PROVE  Refreshing'
<1>1. Period \in Nat /\ Find \in Nat
  BY Numbers
<1>2. /\ refresh.left \in Nat
      /\ \/ refresh.job = "sleep" /\ refresh.left <= Period
         \/ refresh.job = "look" /\ refresh.left <= Find
  BY RefreshIs DEF TypeInv
<1>3. shownFor' + refresh'.left = refresh.left
  BY <1>2
<1> QED BY <1>1, <1>2, <1>3 DEF Refreshing

(* The steps of the refresh. *)
LEMMA RefreshKeepsDot ==
    ASSUME TypeInv, ManagerInv, Refreshing, RefreshBegins \/ RefreshEnds
    PROVE  Refreshing'
<1>1. Period \in Nat /\ Find \in Nat /\ None \notin Int
  BY Numbers
<1>2. /\ refresh.left \in Nat
      /\ \/ refresh.job = "sleep" /\ refresh.left <= Period
         \/ refresh.job = "look" /\ refresh.left <= Find /\ refresh.for \in Peer
      /\ shownFor \in Nat
  BY RefreshIs, Values DEF TypeInv
<1>3. CASE RefreshBegins
  <2>1. /\ refresh.job = "sleep" /\ refresh.left = 0
        /\ UNCHANGED <<shown, shownFor, dot, connected, steady, calm>>
        /\ refresh' = IF shown = None THEN Job("sleep", Period) ELSE Looking(shown, Find)
    BY <1>1, <1>3, JobIs DEF RefreshBegins, Refreshed, remote, ticks
  <2>2. SUFFICES ASSUME shown = "remote" PROVE Refreshing'
    BY <2>1 DEF Refreshing
  <2>3. /\ refresh'.job = "look" /\ refresh'.left = Find /\ refresh'.for = "remote"
    BY <1>1, <2>1, <2>2, PresenceAssumption DEF Looking
  <2>4. CASE shownFor <= Period + Find
    <3>1. shownFor' + refresh'.left <= Period + 2 * Find
      BY <1>1, <1>2, <2>1, <2>3, <2>4
    <3> QED BY <2>3, <3>1 DEF Refreshing
  <2>5. CASE RightSince(Period)
    <3>1. RightSince(Period)'
      BY <2>1, <2>5 DEF RightSince, CameBefore, WentBefore
    <3>2. Period + Find - refresh'.left = Period
      BY <1>1, <2>3
    <3>3. RightSince(Period + Find - refresh.left)'
      BY <3>1, <3>2 DEF RightSince, CameBefore, WentBefore
    <3> QED BY <2>3, <3>3 DEF Refreshing, RightSince, CameBefore, WentBefore
  <2>6. shownFor <= Period + Find \/ RightSince(Period)
    <3>1. Period - refresh.left = Period /\ shownFor + refresh.left = shownFor
      BY <1>1, <1>2, <2>1
    <3> QED BY <2>1, <2>2, <3>1 DEF Refreshing
  <2> QED BY <2>4, <2>5, <2>6
<1>4. CASE RefreshEnds
  <2>1. /\ refresh.job = "look" /\ refresh'.job = "sleep" /\ refresh'.left = Period
        /\ UNCHANGED <<shown, shownFor, connected, steady>>
    BY <1>1, <1>4, JobIs DEF RefreshEnds, remote
  <2>2. PICK a : Answer(refresh.for, a) /\ dot' = a
    BY <1>4 DEF RefreshEnds
  <2>3. SUFFICES ASSUME shown = "remote" PROVE Refreshing'
    BY <2>1 DEF Refreshing
  <2>4. CASE refresh.for = "remote"
    <3>1. RightSince(0)'
      BY <2>1, <2>2, <2>4, AnswersAreRight
    <3>2. Period - refresh'.left = 0
      BY <1>1, <2>1
    <3>3. RightSince(Period - refresh.left)'
      BY <3>1, <3>2 DEF RightSince, CameBefore, WentBefore
    <3> QED BY <2>1, <3>3 DEF Refreshing, RightSince, CameBefore, WentBefore
  <2>5. CASE refresh.for # "remote"
    <3>1. shownFor + refresh.left <= Find
      BY <2>1, <2>3, <2>5 DEF Refreshing
    <3>2. shownFor' + refresh'.left <= Period + Find
      BY <1>1, <1>2, <2>1, <3>1
    <3> QED BY <2>1, <3>2 DEF Refreshing
  <2> QED BY <2>4, <2>5
<1> QED BY <1>3, <1>4

(* Every step keeps what is known of the dot. *)
LEMMA DotIsKept ==
    ASSUME TypeInv, ManagerInv, Refreshing, [Next]_vars
    PROVE  Refreshing'
<1>1. CASE \/ UNCHANGED vars \/ RecordIsLost
           \/ Start \/ StartEnds \/ ManagerWakes \/ AttemptEnds \/ AnnounceEnds
           \/ ConnectionEnds \/ ListenerReconnects \/ Stop
  <2>1. UNCHANGED <<refresh, shown, dot, shownFor>>
    BY <1>1 DEF vars, viewer, ticks, RecordIsLost, Start, StartEnds, ManagerWakes,
       AttemptEnds, AnnounceEnds, ConnectionEnds, ListenerReconnects, Stop
  <2>2. /\ (connected' = connected /\ steady' = steady) \/ steady' = 0
        /\ calm' \in {calm, 0}
    BY <1>1 DEF vars, remote, ticks, RecordIsLost, Start, StartEnds, ManagerWakes,
       AttemptEnds, AnnounceEnds, ConnectionEnds, ListenerReconnects, Stop, SetConnected
  <2>3. \A t \in Nat : RightSince(t) => RightSince(t)'
    BY <2>1, <2>2, RightStays
  <2> QED BY <2>1, <2>3, OthersKeepDot
<1>2. CASE CloseChat \/ \E p \in Peer : Select(p) \/ DialogOpens(p)
  <2>1. shownFor' = 0 /\ UNCHANGED refresh
    BY <1>2 DEF CloseChat, Select, DialogOpens
  <2> QED BY <2>1, OpeningKeepsDot
<1>3. CASE \E p \in Peer : FetchEnds(p)
  <2>1. PICK p \in Peer : FetchEnds(p)
    BY <1>3
  <2>2. PICK a : Answer(p, a) /\ dot' = IF shown = p THEN a ELSE dot
    BY <2>1 DEF FetchEnds
  <2>3. UNCHANGED <<connected, steady, refresh, shown, shownFor>> /\ calm' \in {calm, 0}
    BY <2>1, <2>2, AnswerIs DEF FetchEnds, remote
  <2>4. ASSUME shown = "remote", NEW t \in Nat, RightSince(t) PROVE RightSince(t)'
    <3>1. CASE p = "remote"
      BY <2>2, <2>3, <2>4, <3>1, AnswersAreRight
    <3>2. CASE p # "remote"
      BY <2>2, <2>3, <2>4, <3>2, RightStays
    <3> QED BY <3>1, <3>2
  <2> QED BY <2>3, <2>4, OthersKeepDot
<1> QED BY <1>1, <1>2, <1>3, TickKeepsDot, RefreshKeepsDot DEF Next

(* DotCorrectsItself, for any pauses and times: when a conversation has    *)
(* been shown for a period and two lookups, its dot is right, unless the   *)
(* peer came or went, or the network failed, in that time.                 *)
THEOREM DotsAreRight == Spec => []DotCorrectsItself
<1>1. Init => TypeInv /\ ManagerInv /\ Refreshing
  <2>1. Init => Refreshing
    BY PresenceAssumption DEF Init, Refreshing
  <2> QED BY <2>1, TypesBegin, ManagerBegins
<1>2. TypeInv /\ ManagerInv /\ Refreshing /\ [Next]_vars
        => (TypeInv /\ ManagerInv /\ Refreshing)'
  BY TypesAreKept, ManagerIsKept, DotIsKept
<1>3. ASSUME TypeInv, Refreshing PROVE DotCorrectsItself
  <2>1. /\ Period \in Nat /\ Find \in Nat /\ Behind = Period + Find + Find
        /\ Settled \in Nat /\ Renewed \in Nat /\ Threshold \in Nat
    BY Numbers
  <2>2. /\ refresh.left \in Nat
        /\ \/ refresh.job = "sleep" /\ refresh.left <= Period
           \/ refresh.job = "look" /\ refresh.left <= Find
        /\ shownFor \in Nat /\ steady \in Nat /\ calm \in Nat
    BY <1>3, RefreshIs, Values DEF TypeInv
  <2>3. SUFFICES ASSUME shown = "remote", shownFor > Behind
        PROVE  /\ connected /\ steady > Settled + Behind /\ calm > Renewed + Behind => dot = "ok"
               /\ ~connected /\ steady > Threshold + Behind => dot = "error"
    BY DEF DotCorrectsItself
  <2>4. PICK t \in Nat : t <= Behind /\ RightSince(t)
    <3>1. CASE refresh.job = "sleep"
      <4>1. RightSince(Period - refresh.left)
        BY <1>3, <2>1, <2>2, <2>3, <3>1 DEF Refreshing
      <4>2. Period - refresh.left \in Nat /\ Period - refresh.left <= Behind
        BY <2>1, <2>2, <3>1
      <4> QED BY <4>1, <4>2
    <3>2. CASE refresh.job = "look"
      <4>1. RightSince(Period + Find - refresh.left)
        BY <1>3, <2>1, <2>2, <2>3, <3>2 DEF Refreshing
      <4>2. /\ Period + Find - refresh.left \in Nat
            /\ Period + Find - refresh.left <= Behind
        BY <2>1, <2>2, <3>2
      <4> QED BY <4>1, <4>2
    <3> QED BY <2>2, <3>1, <3>2
  <2>5. ASSUME connected, steady > Settled + Behind, calm > Renewed + Behind
        PROVE  dot = "ok"
    BY <2>1, <2>2, <2>4, <2>5 DEF RightSince, CameBefore
  <2>6. ASSUME ~connected, steady > Threshold + Behind
        PROVE  dot = "error"
    BY <2>1, <2>2, <2>4, <2>6 DEF RightSince, WentBefore
  <2> QED BY <2>5, <2>6
<1> QED BY <1>1, <1>2, <1>3, PTL DEF Spec
=============================================================================
