---------------------------- MODULE RelayProofs ----------------------------
(***************************************************************************)
(* Theorems about Relay.tla, for every number of peers, connections,       *)
(* addresses and messages and for every limit.                             *)
(***************************************************************************)
EXTENDS Relay, FiniteSetTheorems, TLAPS

(* A handler that waits knows what for. *)
TypeInv == /\ TypeOK
           /\ \A c \in Conn : pc[c] = "drain" => job[c] \in Job

(* The registered connection that is used as a target is a connection. *)
LEMMA TargetIsConn ==
    ASSUME TypeOK, NEW p \in Peer, Target(p) # None
    PROVE  Target(p) \in Conn
BY DEF TypeOK, Target

(* The finally block keeps the types, whatever it counts down. *)
LEMMA LeaveTyped ==
    ASSUME TypeOK, NEW c \in Conn, Leave(c)
    PROVE  /\ pc' \in [Conn -> Stage] /\ pc' = [pc EXCEPT ![c] = "done"]
           /\ ipConns' \in [Ip -> Nat]
           /\ online' \in [Peer -> Conn \union {None}]
<1>1. Addr[c] \in Ip /\ Client[c] \in Peer
  BY ConnAssumption
<1>2. ipConns' \in [Ip -> Nat]
  BY <1>1 DEF TypeOK, Leave, GiveSlotBack
<1>3. online' \in [Peer -> Conn \union {None}]
  BY <1>1 DEF TypeOK, Leave, GoOffline
<1> QED BY <1>2, <1>3 DEF TypeOK, Leave, Goto, Stage

(* Forwarding keeps the types, and gives a waiting handler its job. *)
LEMMA ForwardTyped ==
    ASSUME TypeInv, NEW c \in Conn, NEW t \in Table, NEW m \in Msg,
           NEW d \in Conn, Forward(c, t, m, d), pc[c] = "loop"
    PROVE  /\ pc' \in [Conn -> Stage]
           /\ ipConns' \in [Ip -> Nat]
           /\ online' \in [Peer -> Conn \union {None}]
           /\ job' \in [Conn -> Job \union {None}]
           /\ out' \in [Conn -> [Table -> SUBSET Msg]]
           /\ \A b \in Conn : pc'[b] = "drain" => job'[b] \in Job
<1>1. CASE link[d] # "reset"
  <2>1. /\ out' = [out EXCEPT ![d][t] = @ \union {m}]
        /\ job' = [job EXCEPT ![c] = [table |-> t, msg |-> m, to |-> d]]
        /\ pc' = [pc EXCEPT ![c] = "drain"]
        /\ UNCHANGED server
    BY <1>1 DEF Forward, Await, Goto
  <2>2. [table |-> t, msg |-> m, to |-> d] \in Job
    BY DEF Job
  <2> QED BY <2>1, <2>2 DEF TypeInv, TypeOK, server, Stage
<1>2. CASE link[d] = "reset"
  <2>1. Leave(c) /\ UNCHANGED <<out, job>>
    BY <1>2 DEF Forward
  <2> QED BY <2>1, LeaveTyped DEF TypeInv, TypeOK
<1> QED BY <1>1, <1>2

(* Every variable keeps its type on every step of every handler. *)
THEOREM TypeCorrect == Spec => []TypeInv
<1>1. Init => TypeInv
  BY DEF Init, TypeInv, TypeOK, Stage, Transport, Table
<1>2. TypeInv /\ [Next]_vars => TypeInv'
  <2> SUFFICES ASSUME TypeInv, [Next]_vars PROVE TypeInv'
    OBVIOUS
  <2> USE DEF TypeInv
  <2>1. CASE UNCHANGED vars
    BY <2>1 DEF TypeOK, vars, server, flushing, dbase, history
  <2>2. ASSUME NEW c \in Conn, Refuse(c) PROVE TypeInv'
    BY <2>2 DEF TypeOK, Refuse, Goto, Stage, server, flushing, dbase, history
  <2>3. ASSUME NEW c \in Conn, Accept(c) PROVE TypeInv'
    <3>1. Addr[c] \in Ip
      BY ConnAssumption
    <3>2. ipConns' \in [Ip -> Nat]
      BY <2>3, <3>1 DEF TypeOK, Accept
    <3> QED BY <2>3, <3>2 DEF TypeOK, Accept, Goto, Stage, flushing, dbase, history
  <2>4. ASSUME NEW c \in Conn, FailHandshake(c) PROVE TypeInv'
    BY <2>4, LeaveTyped DEF TypeOK, FailHandshake, flushing, dbase, history
  <2>5. ASSUME NEW c \in Conn, Register(c) PROVE TypeInv'
    BY <2>5, ConnAssumption DEF TypeOK, Register, Goto, Stage, flushing, dbase, history
  <2>6. ASSUME NEW c \in Conn, Welcome(c) PROVE TypeInv'
    BY <2>6 DEF TypeOK, Welcome, Goto, Stage, server, flushing, dbase, history
  <2>7. ASSUME NEW c \in Conn, Close(c) PROVE TypeInv'
    BY <2>7, LeaveTyped DEF TypeOK, Close, flushing, dbase, history
  <2>8. ASSUME NEW c \in Conn, Select(c) PROVE TypeInv'
    BY <2>8 DEF TypeOK, Select, Stored, Goto, Stage, server, dbase, history
  <2>9. ASSUME NEW c \in Conn, NEW r \in batch[c], SendRow(c, r) PROVE TypeInv'
    <3>1. r \in Row /\ r[1] \in Msg
      BY DEF TypeOK, Row
    <3>2. out' \in [Conn -> [Table -> SUBSET Msg]]
      BY <2>9, <3>1 DEF TypeOK, SendRow
    <3>3. link' \in [Conn -> Transport]
      BY <2>9 DEF TypeOK, SendRow, Transport
    <3>4. batch' \in [Conn -> SUBSET Row]
      BY <2>9, <3>1 DEF TypeOK, SendRow
    <3>5. sent' = sent \/ sent' = [sent EXCEPT ![c] = @ \union {r}]
      BY <2>9 DEF SendRow
    <3>6. sent' \in [Conn -> SUBSET Row]
      BY <3>1, <3>5 DEF TypeOK
    <3> QED BY <2>9, <3>2, <3>3, <3>4, <3>6 DEF TypeOK, SendRow, server, dbase
  <2>10. ASSUME NEW c \in Conn, DeleteSent(c) PROVE TypeInv'
    BY <2>10 DEF TypeOK, DeleteSent, Deleted, Goto, Stage, Table, server, history
  <2>11. ASSUME NEW c \in Conn, NEW m \in Msg, Publish(c, m) PROVE TypeInv'
    <3>1. /\ rate' \in [Conn -> Nat] /\ via' \in [Msg -> Conn \union {None}]
          /\ UNCHANGED <<link, flushing, rows, crashes, receipts, lostSaves>>
          /\ pc[c] = "loop"
      BY <2>11 DEF TypeOK, Publish
    <3>2. CASE DropClient(c) /\ UNCHANGED <<server, job, saves, acked, out>>
      BY <3>1, <3>2 DEF TypeOK, DropClient, Goto, Stage, server, flushing
    <3>3. CASE Target(Recipient[m]) # None /\ UNCHANGED <<saves, acked>>
               /\ Forward(c, "store", m, Target(Recipient[m]))
      <4>1. Target(Recipient[m]) \in Conn
        BY <3>3, TargetIsConn, MsgAssumption
      <4>2. /\ pc' \in [Conn -> Stage]
            /\ ipConns' \in [Ip -> Nat]
            /\ online' \in [Peer -> Conn \union {None}]
            /\ job' \in [Conn -> Job \union {None}]
            /\ out' \in [Conn -> [Table -> SUBSET Msg]]
            /\ \A b \in Conn : pc'[b] = "drain" => job'[b] \in Job
        BY <3>1, <3>3, <4>1, ForwardTyped DEF Table
      <4> QED BY <3>1, <3>3, <4>2 DEF TypeOK, flushing
    <3>4. CASE Save(c, "store", m) /\ acked' = acked \union {m}
               /\ UNCHANGED <<pc, server, job, out>>
      BY <3>1, <3>4 DEF TypeOK, Save, Row, Table, server, flushing
    <3> QED BY <2>11, <3>2, <3>3, <3>4 DEF Publish, HandlePublish
  <2>12. ASSUME NEW c \in Conn, NEW m \in Msg, ClientAck(c, m) PROVE TypeInv'
    <3>1. /\ receipts' \in [Conn -> SUBSET Msg]
          /\ UNCHANGED <<link, rate, flushing, rows, crashes, via, acked, lostSaves>>
          /\ pc[c] = "loop"
      BY <2>12 DEF TypeOK, ClientAck
    <3>2. CASE Target(Sender[m]) # None /\ UNCHANGED saves
               /\ Forward(c, "pending_acks", m, Target(Sender[m]))
      <4>1. Target(Sender[m]) \in Conn
        BY <3>2, TargetIsConn, MsgAssumption
      <4>2. /\ pc' \in [Conn -> Stage]
            /\ ipConns' \in [Ip -> Nat]
            /\ online' \in [Peer -> Conn \union {None}]
            /\ job' \in [Conn -> Job \union {None}]
            /\ out' \in [Conn -> [Table -> SUBSET Msg]]
            /\ \A b \in Conn : pc'[b] = "drain" => job'[b] \in Job
        BY <3>1, <3>2, <4>1, ForwardTyped DEF Table
      <4> QED BY <3>1, <3>2, <4>2 DEF TypeOK, flushing
    <3>3. CASE SaveReceipt(c, m) /\ UNCHANGED <<pc, server, job, out>>
      BY <3>1, <3>3 DEF TypeOK, SaveReceipt, Save, Row, Table, server, flushing
    <3> QED BY <2>12, <3>2, <3>3 DEF ClientAck
  <2>13. ASSUME NEW c \in Conn, Drained(c) PROVE TypeInv'
    <3>1. acked' \in SUBSET Msg
      BY <2>13 DEF TypeOK, Drained, Answered, Job
    <3> QED BY <2>13, <3>1 DEF TypeOK, Drained, Goto, Stage, server, flushing, dbase
  <2>14. ASSUME NEW c \in Conn, LoseLink(c) PROVE TypeInv'
    BY <2>14 DEF TypeOK, LoseLink, Transport, server, flushing, dbase, history
  <2>15. ASSUME NEW t \in Table, NEW r \in saves[t], InsertRow(t, r) PROVE TypeInv'
    BY <2>15 DEF TypeOK, InsertRow, server, flushing, history
  <2>16. CASE Crash
    BY <2>16 DEF TypeOK, Crash, Restored, Stage
  <2> QED
    BY <2>1, <2>2, <2>3, <2>4, <2>5, <2>6, <2>7, <2>8, <2>9, <2>10, <2>11,
       <2>12, <2>13, <2>14, <2>15, <2>16 DEF Next, Flush
<1> QED BY <1>1, <1>2, PTL DEF Spec

(* Every variable of the relay holds a value of its kind: no handler, flush *)
(* or crash puts a foreign value into the registry, the counts or the      *)
(* tables.                                                                 *)
THEOREM TypesHold == Spec => []TypeOK
<1>1. TypeInv => TypeOK
  BY DEF TypeInv
<1> QED BY <1>1, TypeCorrect, PTL

-----------------------------------------------------------------------------
(* The registry and the accounting.  Only five kinds of steps matter to    *)
(* them: the quiet ones, which move a handler within the served stages or  *)
(* refuse a connection, and the four that change self._online or _ip_conns.*)

Quiet ==
    /\ UNCHANGED server
    /\ \A c \in Conn :
          \/ pc'[c] = pc[c]
          \/ Serving(c) /\ pc'[c] \notin {"new", "handshake", "done"}
          \/ pc[c] = "new" /\ pc'[c] = "done"

LeaveStep(c) == Leave(c) /\ pc[c] \notin {"new", "done"}

(* Forwarding to a peer either leaves the registry alone or ends the handler. *)
LEMMA ForwardEffect ==
    ASSUME TypeInv, NEW c \in Conn, NEW t \in Table, NEW m \in Msg,
           NEW d \in Conn, Forward(c, t, m, d), pc[c] = "loop"
    PROVE  Quiet \/ LeaveStep(c)
BY DEF TypeInv, TypeOK, Forward, Goto, Quiet, LeaveStep, Serving

(* Every step is quiet or one of the four that change the registry. *)
LEMMA ServerEffect ==
    ASSUME TypeInv, [Next]_vars
    PROVE  \/ Quiet
           \/ \E c \in Conn : Accept(c)
           \/ \E c \in Conn : Register(c)
           \/ \E c \in Conn : LeaveStep(c)
           \/ Crash
<1> USE DEF TypeInv
<1>1. CASE UNCHANGED vars
  BY <1>1 DEF vars, Quiet
<1>2. ASSUME NEW c \in Conn, Refuse(c) PROVE Quiet
  BY <1>2 DEF TypeOK, Refuse, Goto, Quiet
<1>3. ASSUME NEW c \in Conn, FailHandshake(c) PROVE LeaveStep(c)
  BY <1>3 DEF FailHandshake, LeaveStep
<1>4. ASSUME NEW c \in Conn, Welcome(c) PROVE Quiet
  BY <1>4 DEF TypeOK, Welcome, Goto, Quiet, Serving
<1>5. ASSUME NEW c \in Conn, Close(c) PROVE LeaveStep(c)
  BY <1>5 DEF Close, Ends, LeaveStep
<1>6. ASSUME NEW c \in Conn, Select(c) PROVE Quiet
  BY <1>6 DEF TypeOK, Select, Goto, Quiet, Serving
<1>7. ASSUME NEW c \in Conn, NEW r \in batch[c], SendRow(c, r) PROVE Quiet
  BY <1>7 DEF SendRow, Quiet
<1>8. ASSUME NEW c \in Conn, DeleteSent(c) PROVE Quiet
  BY <1>8 DEF TypeOK, DeleteSent, Goto, Quiet, Serving
<1>9. ASSUME NEW c \in Conn, NEW m \in Msg, Publish(c, m)
      PROVE  Quiet \/ LeaveStep(c)
  <2>1. CASE DropClient(c) /\ UNCHANGED server /\ pc[c] = "loop"
    BY <2>1 DEF TypeOK, DropClient, Goto, Quiet, Serving
  <2>2. CASE /\ Target(Recipient[m]) # None /\ pc[c] = "loop"
             /\ Forward(c, "store", m, Target(Recipient[m]))
    BY <2>2, ForwardEffect, TargetIsConn, MsgAssumption DEF Table
  <2>3. CASE UNCHANGED <<pc, server>>
    BY <2>3 DEF Quiet
  <2> QED BY <1>9, <2>1, <2>2, <2>3 DEF Publish, HandlePublish
<1>10. ASSUME NEW c \in Conn, NEW m \in Msg, ClientAck(c, m)
       PROVE  Quiet \/ LeaveStep(c)
  <2>1. CASE /\ Target(Sender[m]) # None /\ pc[c] = "loop"
             /\ Forward(c, "pending_acks", m, Target(Sender[m]))
    BY <2>1, ForwardEffect, TargetIsConn, MsgAssumption DEF Table
  <2>2. CASE UNCHANGED <<pc, server>>
    BY <2>2 DEF Quiet
  <2> QED BY <1>10, <2>1, <2>2 DEF ClientAck
<1>11. ASSUME NEW c \in Conn, Drained(c) PROVE Quiet
  BY <1>11 DEF TypeOK, Drained, Goto, Quiet, Serving
<1>12. ASSUME NEW c \in Conn, LoseLink(c) PROVE Quiet
  BY <1>12 DEF LoseLink, Quiet
<1>13. ASSUME NEW t \in Table, NEW r \in saves[t], InsertRow(t, r) PROVE Quiet
  BY <1>13 DEF InsertRow, Quiet
<1> QED
  BY <1>1, <1>2, <1>3, <1>4, <1>5, <1>6, <1>7, <1>8, <1>9, <1>10, <1>11,
     <1>12, <1>13 DEF Next, Flush

(* The registry stays sound on every step. *)
LEMMA OnlineStep ==
    ASSUME TypeInv, OnlineIsServing, [Next]_vars
    PROVE  OnlineIsServing'
<1> USE NoneAssumption, ConnAssumption DEF TypeInv, TypeOK, OnlineIsServing, Serving
<1>1. CASE Quiet
  BY <1>1 DEF Quiet, server
<1>2. ASSUME NEW c \in Conn, Accept(c) PROVE OnlineIsServing'
  BY <1>2 DEF Accept, Goto
<1>3. ASSUME NEW c \in Conn, Register(c) PROVE OnlineIsServing'
  BY <1>3 DEF Register, Goto
<1>4. ASSUME NEW c \in Conn, LeaveStep(c) PROVE OnlineIsServing'
  BY <1>4 DEF LeaveStep, Leave, GoOffline, Goto
<1>5. CASE Crash
  BY <1>5 DEF Crash
<1> QED BY <1>1, <1>2, <1>3, <1>4, <1>5, ServerEffect

(* The registry never points at a closed connection or at another peer's.  *)
THEOREM RegistryIsSound == Spec => []OnlineIsServing
<1>1. Init => OnlineIsServing
  BY DEF Init, OnlineIsServing
<1>2. TypeInv /\ OnlineIsServing /\ [Next]_vars => OnlineIsServing'
  BY OnlineStep
<1> QED BY <1>1, <1>2, TypeCorrect, PTL DEF Spec

(* An address has a number of handlers. *)
LEMMA HandlersFinite ==
    ASSUME NEW i \in Ip
    PROVE  IsFiniteSet(Handlers(i)) /\ Cardinality(Handlers(i)) \in Nat
BY ConnAssumption, FS_Subset, FS_CardinalityType DEF Handlers

(* The count of an address stays exact on every step. *)
LEMMA IpStep ==
    ASSUME TypeInv, IpAccounting, [Next]_vars
    PROVE  IpAccounting'
<1> SUFFICES ASSUME NEW i \in Ip
             PROVE  /\ ipConns'[i] = Cardinality(Handlers(i)')
                    /\ ipConns'[i] <= MaxPerIp
  BY DEF IpAccounting
<1> USE DEF TypeInv
<1>0. /\ IsFiniteSet(Handlers(i)) /\ Cardinality(Handlers(i)) \in Nat
      /\ ipConns[i] = Cardinality(Handlers(i)) /\ ipConns[i] <= MaxPerIp
      /\ MaxPerIp \in Nat
  BY HandlersFinite, LimitAssumption DEF IpAccounting
<1>1. CASE Quiet
  <2>1. Handlers(i)' = Handlers(i)
    BY <1>1 DEF Quiet, Handlers, Serving
  <2> QED BY <1>0, <1>1, <2>1 DEF Quiet, server
<1>2. ASSUME NEW c \in Conn, Accept(c)
      PROVE  ipConns'[i] = Cardinality(Handlers(i)') /\ ipConns'[i] <= MaxPerIp
  <2>1. CASE Addr[c] = i
    <3>1. Handlers(i)' = Handlers(i) \union {c} /\ c \notin Handlers(i)
      BY <1>2, <2>1 DEF Accept, Goto, Handlers, TypeOK
    <3>2. Cardinality(Handlers(i)') = Cardinality(Handlers(i)) + 1
      BY <1>0, <3>1, FS_AddElement
    <3>3. ipConns'[i] = ipConns[i] + 1 /\ ipConns[i] < MaxPerIp
      BY <1>2, <2>1 DEF Accept, HasSlot, TypeOK
    <3> QED BY <1>0, <3>2, <3>3
  <2>2. CASE Addr[c] # i
    <3>1. Handlers(i)' = Handlers(i)
      BY <1>2, <2>2 DEF Accept, Goto, Handlers, TypeOK
    <3>2. ipConns'[i] = ipConns[i]
      BY <1>2, <2>2 DEF Accept, TypeOK
    <3> QED BY <1>0, <3>1, <3>2
  <2> QED BY <2>1, <2>2
<1>3. ASSUME NEW c \in Conn, Register(c)
      PROVE  ipConns'[i] = Cardinality(Handlers(i)') /\ ipConns'[i] <= MaxPerIp
  <2>1. Handlers(i)' = Handlers(i)
    BY <1>3 DEF Register, Goto, Handlers, TypeOK
  <2> QED BY <1>0, <1>3, <2>1 DEF Register
<1>4. ASSUME NEW c \in Conn, LeaveStep(c)
      PROVE  ipConns'[i] = Cardinality(Handlers(i)') /\ ipConns'[i] <= MaxPerIp
  <2>1. CASE Addr[c] = i
    <3>1. Handlers(i)' = Handlers(i) \ {c} /\ c \in Handlers(i)
      BY <1>4, <2>1 DEF LeaveStep, Leave, Goto, Handlers, TypeOK
    <3>2. Cardinality(Handlers(i)') = Cardinality(Handlers(i)) - 1
      BY <1>0, <3>1, FS_RemoveElement
    <3>3. Cardinality(Handlers(i)') \in Nat
      BY <1>0, <3>1, FS_RemoveElement, FS_CardinalityType
    <3>4. ipConns'[i] = ipConns[i] - 1
      BY <1>0, <1>4, <2>1, <3>2, <3>3 DEF LeaveStep, Leave, GiveSlotBack, TypeOK
    <3> QED BY <1>0, <3>2, <3>4
  <2>2. CASE Addr[c] # i
    <3>1. Handlers(i)' = Handlers(i)
      BY <1>4, <2>2 DEF LeaveStep, Leave, Goto, Handlers, TypeOK
    <3>2. ipConns'[i] = ipConns[i]
      BY <1>4, <2>2 DEF LeaveStep, Leave, GiveSlotBack, TypeOK
    <3> QED BY <1>0, <3>1, <3>2
  <2> QED BY <2>1, <2>2
<1>5. CASE Crash
  <2>1. Handlers(i)' = {}
    BY <1>5 DEF Crash, Handlers
  <2> QED BY <1>0, <1>5, <2>1, FS_EmptySet DEF Crash
<1> QED BY <1>1, <1>2, <1>3, <1>4, <1>5, ServerEffect

(* The count of an address is the number of its handlers, within the limit.*)
THEOREM AccountingIsExact == Spec => []IpAccounting
<1>1. Init => IpAccounting
  <2> SUFFICES ASSUME Init, NEW i \in Ip
               PROVE  ipConns[i] = Cardinality(Handlers(i)) /\ ipConns[i] <= MaxPerIp
    BY DEF IpAccounting
  <2>1. Handlers(i) = {}
    BY DEF Init, Handlers
  <2>2. Cardinality(Handlers(i)) = 0
    BY <2>1, FS_EmptySet
  <2>3. ipConns[i] = 0 /\ 0 <= MaxPerIp
    BY LimitAssumption DEF Init
  <2> QED BY <2>2, <2>3
<1>2. TypeInv /\ IpAccounting /\ [Next]_vars => IpAccounting'
  BY IpStep
<1> QED BY <1>1, <1>2, TypeCorrect, PTL DEF Spec

-----------------------------------------------------------------------------
(* Custody.  What a handler has in hand was looked up for its own client,  *)
(* what it is about to delete has been written to that client, and what it *)
(* waits for has been written to the peer it is for.                       *)

RowTo(c, r) == Client[c] = Dest(table[c], r[1])

FlowInv ==
    /\ \A c \in Conn : \A r \in batch[c] : RowTo(c, r)
    /\ \A c \in Conn : \A r \in sent[c] : RowTo(c, r) /\ r[1] \in out[c][table[c]]
    /\ \A c \in Conn : pc[c] = "drain" =>
          /\ Client[job[c].to] = Dest(job[c].table, job[c].msg)
          /\ job[c].msg \in out[job[c].to][job[c].table]

OutGrows == \A c \in Conn : \A t \in Table : out[c][t] \subseteq out'[c][t]

(* The steps, as far as frames are concerned. *)
ForwardFrame(c, t, m, d) ==
    /\ out' = [out EXCEPT ![d][t] = @ \union {m}]
    /\ job' = [job EXCEPT ![c] = [table |-> t, msg |-> m, to |-> d]]
    /\ pc' = [pc EXCEPT ![c] = "drain"]
    /\ Client[d] = Dest(t, m)

NoForward ==
    /\ UNCHANGED out
    /\ \A c \in Conn : pc'[c] = "drain" => pc[c] = "drain" /\ job'[c] = job[c]

(* A frame for a peer is written to a connection of that peer. *)
LEMMA ForwardFlow ==
    ASSUME TypeInv, OnlineIsServing,
           NEW c \in Conn, NEW t \in Table, NEW m \in Msg, pc[c] = "loop",
           Target(Dest(t, m)) # None, Forward(c, t, m, Target(Dest(t, m)))
    PROVE  /\ Target(Dest(t, m)) \in Conn
           /\ ForwardFrame(c, t, m, Target(Dest(t, m))) \/ NoForward
<1>1. Dest(t, m) \in Peer
  BY MsgAssumption DEF Dest
<1>2. Target(Dest(t, m)) \in Conn /\ Client[Target(Dest(t, m))] = Dest(t, m)
  BY <1>1, TargetIsConn DEF Target, OnlineIsServing, TypeInv
<1> QED
  BY <1>2 DEF Forward, Await, Goto, Leave, ForwardFrame, NoForward, TypeInv, TypeOK

(* A step writes at most one frame that is not a stored row. *)
LEMMA FrameEffect ==
    ASSUME TypeInv, OnlineIsServing, [Next]_vars
    PROVE  \/ NoForward
           \/ \E c \in Conn : \E r \in batch[c] : SendRow(c, r)
           \/ \E c \in Conn, t \in Table, m \in Msg, d \in Conn :
                 pc[c] = "loop" /\ ForwardFrame(c, t, m, d)
<1> USE DEF TypeInv
<1>1. CASE UNCHANGED vars
  BY <1>1 DEF vars, history, NoForward
<1>2. ASSUME NEW c \in Conn,
             Refuse(c) \/ Accept(c) \/ FailHandshake(c) \/ Register(c)
               \/ Welcome(c) \/ Close(c) \/ Select(c) \/ DeleteSent(c)
               \/ Drained(c) \/ LoseLink(c)
      PROVE  NoForward
  BY <1>2 DEF TypeOK, Refuse, Accept, FailHandshake, Register, Welcome, Close,
     Select, DeleteSent, Drained, LoseLink, Leave, Goto, history, NoForward
<1>3. ASSUME NEW c \in Conn, NEW m \in Msg, Publish(c, m)
      PROVE  \/ NoForward
             \/ \E t \in Table, d \in Conn : pc[c] = "loop" /\ ForwardFrame(c, t, m, d)
  <2>1. CASE DropClient(c) /\ UNCHANGED <<job, out>>
    BY <2>1 DEF TypeOK, DropClient, Goto, NoForward
  <2>2. CASE /\ Target(Recipient[m]) # None /\ pc[c] = "loop"
             /\ Forward(c, "store", m, Target(Recipient[m]))
    BY <2>2, ForwardFlow DEF Dest, Table
  <2>3. CASE UNCHANGED <<pc, job, out>>
    BY <2>3 DEF NoForward
  <2> QED BY <1>3, <2>1, <2>2, <2>3 DEF Publish, HandlePublish
<1>4. ASSUME NEW c \in Conn, NEW m \in Msg, ClientAck(c, m)
      PROVE  \/ NoForward
             \/ \E t \in Table, d \in Conn : pc[c] = "loop" /\ ForwardFrame(c, t, m, d)
  <2>1. CASE /\ Target(Sender[m]) # None /\ pc[c] = "loop"
             /\ Forward(c, "pending_acks", m, Target(Sender[m]))
    BY <2>1, ForwardFlow DEF Dest, Table
  <2>2. CASE UNCHANGED <<pc, job, out>>
    BY <2>2 DEF NoForward
  <2> QED BY <1>4, <2>1, <2>2 DEF ClientAck
<1>5. ASSUME NEW t \in Table, NEW r \in saves[t], InsertRow(t, r) PROVE NoForward
  BY <1>5 DEF InsertRow, history, NoForward
<1>6. CASE Crash
  BY <1>6 DEF Crash, NoForward
<1> QED BY <1>1, <1>2, <1>3, <1>4, <1>5, <1>6 DEF Next, Flush

(* Only three actions and a crash touch what a flush has selected. *)
LEMMA FlushEffect ==
    ASSUME [Next]_vars
    PROVE  \/ UNCHANGED flushing
           \/ \E c \in Conn : Select(c) \/ DeleteSent(c) \/ \E r \in batch[c] : SendRow(c, r)
           \/ Crash
<1>1. CASE UNCHANGED vars
  BY <1>1 DEF vars
<1>2. ASSUME NEW c \in Conn,
             Refuse(c) \/ Accept(c) \/ FailHandshake(c) \/ Register(c)
               \/ Welcome(c) \/ Close(c) \/ Drained(c) \/ LoseLink(c)
      PROVE  UNCHANGED flushing
  BY <1>2 DEF Refuse, Accept, FailHandshake, Register, Welcome, Close, Drained, LoseLink
<1>3. ASSUME NEW c \in Conn, NEW m \in Msg, Publish(c, m) \/ ClientAck(c, m)
      PROVE  UNCHANGED flushing
  BY <1>3 DEF Publish, ClientAck
<1>4. ASSUME NEW t \in Table, NEW r \in saves[t], InsertRow(t, r)
      PROVE  UNCHANGED flushing
  BY <1>4 DEF InsertRow
<1> QED BY <1>1, <1>2, <1>3, <1>4 DEF Next, Flush

(* What was written stays written. *)
LEMMA OutStep ==
    ASSUME TypeInv, OnlineIsServing, [Next]_vars
    PROVE  OutGrows
<1> USE DEF TypeInv, TypeOK, OutGrows
<1>1. CASE NoForward
  BY <1>1 DEF NoForward
<1>2. ASSUME NEW c \in Conn, NEW r \in batch[c], SendRow(c, r) PROVE OutGrows
  BY <1>2 DEF SendRow
<1>3. ASSUME NEW c \in Conn, NEW t \in Table, NEW m \in Msg, NEW d \in Conn,
             ForwardFrame(c, t, m, d)
      PROVE  OutGrows
  BY <1>3 DEF ForwardFrame
<1> QED BY <1>1, <1>2, <1>3, FrameEffect

(* Rows and frames keep going to the peer they are for. *)
LEMMA FlowStep ==
    ASSUME TypeInv, OnlineIsServing, FlowInv, [Next]_vars
    PROVE  FlowInv'
<1> USE DEF TypeInv
<1> DEFINE Rows == /\ \A c \in Conn : \A r \in batch'[c] : RowTo(c, r)'
                   /\ \A c \in Conn : \A r \in sent'[c] :
                         RowTo(c, r)' /\ r[1] \in out'[c][table'[c]]
           Waits(c) == /\ Client[job'[c].to] = Dest(job'[c].table, job'[c].msg)
                       /\ job'[c].msg \in out'[job'[c].to][job'[c].table]
<1>0. OutGrows
  BY OutStep
<1>1. Rows
  <2>1. CASE UNCHANGED flushing
    BY <1>0, <2>1 DEF FlowInv, RowTo, Dest, flushing, OutGrows, TypeOK
  <2>2. ASSUME NEW b \in Conn, Select(b) PROVE Rows
    BY <1>0, <2>2 DEF Select, Stored, FlowInv, RowTo, Dest, OutGrows, TypeOK
  <2>3. ASSUME NEW b \in Conn, DeleteSent(b) PROVE Rows
    BY <1>0, <2>3 DEF DeleteSent, FlowInv, RowTo, Dest, OutGrows, TypeOK
  <2>4. ASSUME NEW b \in Conn, NEW q \in batch[b], SendRow(b, q) PROVE Rows
    <3>1. q[1] \in out'[b][table[b]]
      BY <2>4 DEF SendRow, TypeOK
    <3>2. /\ UNCHANGED table
          /\ \A c \in Conn : batch'[c] \subseteq batch[c]
          /\ \A c \in Conn : sent'[c] \subseteq sent[c] \union (IF c = b THEN {q} ELSE {})
      BY <2>4 DEF SendRow, TypeOK
    <3> QED BY <1>0, <3>1, <3>2 DEF FlowInv, RowTo, Dest, OutGrows, TypeOK
  <2>5. CASE Crash
    BY <2>5 DEF Crash
  <2> QED BY <2>1, <2>2, <2>3, <2>4, <2>5, FlushEffect
<1>2. ASSUME NEW c \in Conn, pc'[c] = "drain"
      PROVE  Waits(c)
  <2>1. CASE NoForward
    <3>1. pc[c] = "drain" /\ job'[c] = job[c] /\ job[c] \in Job
      BY <1>2, <2>1 DEF NoForward
    <3>2. job[c].to \in Conn /\ job[c].table \in Table
      BY <3>1 DEF Job
    <3> QED BY <1>0, <3>1, <3>2 DEF FlowInv, OutGrows
  <2>2. ASSUME NEW b \in Conn, NEW r \in batch[b], SendRow(b, r) PROVE Waits(c)
    <3>1. pc[c] = "drain" /\ job'[c] = job[c] /\ job[c] \in Job
      BY <1>2, <2>2 DEF SendRow
    <3>2. job[c].to \in Conn /\ job[c].table \in Table
      BY <3>1 DEF Job
    <3> QED BY <1>0, <3>1, <3>2 DEF FlowInv, OutGrows
  <2>3. ASSUME NEW b \in Conn, NEW t \in Table, NEW m \in Msg, NEW d \in Conn,
               ForwardFrame(b, t, m, d)
        PROVE  Waits(c)
    <3>1. CASE c = b
      <4>1. job'[c] = [table |-> t, msg |-> m, to |-> d]
        BY <2>3, <3>1 DEF ForwardFrame, TypeOK
      <4>2. m \in out'[d][t] /\ Client[d] = Dest(t, m)
        BY <2>3 DEF ForwardFrame, TypeOK
      <4> QED BY <4>1, <4>2
    <3>2. CASE c # b
      <4>1. pc[c] = "drain" /\ job'[c] = job[c] /\ job[c] \in Job
        BY <1>2, <2>3, <3>2 DEF ForwardFrame, TypeOK
      <4>2. job[c].to \in Conn /\ job[c].table \in Table
        BY <4>1 DEF Job
      <4> QED BY <1>0, <4>1, <4>2 DEF FlowInv, OutGrows
    <3> QED BY <3>1, <3>2
  <2> QED BY <2>1, <2>2, <2>3, FrameEffect
<1> QED BY <1>1, <1>2 DEF FlowInv

FullInv == TypeInv /\ OnlineIsServing /\ FlowInv

(* Rows are only flushed, and frames only written, to the peer they are for. *)
THEOREM FlowCorrect == Spec => []FullInv
<1>1. Init => FullInv
  <2>1. Init => TypeInv
    BY DEF Init, TypeInv, TypeOK, Stage, Transport, Table
  <2>2. Init => OnlineIsServing /\ FlowInv
    BY DEF Init, OnlineIsServing, FlowInv
  <2> QED BY <2>1, <2>2 DEF FullInv
<1>2. FullInv /\ TypeInv' /\ [Next]_vars => FullInv'
  BY OnlineStep, FlowStep DEF FullInv
<1> QED BY <1>1, <1>2, TypeCorrect, PTL DEF Spec

Kept(t, m) == Handed(t, m) \/ Held(t, m) \/ Lost(t, m)

(* A new task to insert a row takes nothing away. *)
LEMMA SaveGrows ==
    ASSUME TypeInv, NEW c \in Conn, NEW t \in Table, NEW m \in Msg, Save(c, t, m)
    PROVE  \A u \in Table : saves[u] \subseteq saves'[u]
<1> TAKE u \in Table
<1>1. CASE u = t
  BY <1>1 DEF Save, TypeInv, TypeOK
<1>2. CASE u # t
  BY <1>2 DEF Save, TypeInv, TypeOK
<1> QED BY <1>1, <1>2

(* What a step does to the database and to the tasks that insert into it.  *)
LEMMA StoreEffect ==
    ASSUME TypeInv, [Next]_vars
    PROVE  \/ /\ UNCHANGED <<rows, lostSaves>>
              /\ \A t \in Table : saves[t] \subseteq saves'[t]
           \/ \E t \in Table : \E r \in saves[t] : InsertRow(t, r)
           \/ \E c \in Conn : DeleteSent(c)
           \/ Crash
<1> DEFINE Saving == /\ UNCHANGED <<rows, lostSaves>>
                     /\ \A t \in Table : saves[t] \subseteq saves'[t]
<1>1. CASE UNCHANGED vars
  BY <1>1 DEF vars, dbase, history
<1>2. ASSUME NEW c \in Conn,
             Refuse(c) \/ Accept(c) \/ FailHandshake(c) \/ Register(c)
               \/ Welcome(c) \/ Close(c) \/ Select(c) \/ Drained(c) \/ LoseLink(c)
      PROVE  Saving
  BY <1>2 DEF Refuse, Accept, FailHandshake, Register, Welcome, Close, Select,
     Drained, LoseLink, dbase, history
<1>3. ASSUME NEW c \in Conn, NEW r \in batch[c], SendRow(c, r) PROVE Saving
  BY <1>3 DEF SendRow, dbase
<1>4. ASSUME NEW c \in Conn, NEW m \in Msg, Publish(c, m) PROVE Saving
  BY <1>4, SaveGrows DEF Publish, HandlePublish, Table
<1>5. ASSUME NEW c \in Conn, NEW m \in Msg, ClientAck(c, m) PROVE Saving
  BY <1>5, SaveGrows DEF ClientAck, SaveReceipt, Table
<1> QED BY <1>1, <1>2, <1>3, <1>4, <1>5 DEF Next, Flush

(* A row that a flush has sent was written to its peer. *)
LEMMA DeletedIsHanded ==
    ASSUME FullInv, NEW c \in Conn, NEW r \in sent[c]
    PROVE  Handed(table[c], r[1])
BY DEF FullInv, FlowInv, RowTo, Handed

(* A message or receipt that is kept or handed over remains so. *)
LEMMA KeptGrows ==
    ASSUME FullInv, [Next]_vars, NEW t \in Table, NEW m \in Msg, Kept(t, m)
    PROVE  Kept(t, m)'
<1> USE DEF FullInv
<1>1. Handed(t, m) => Handed(t, m)'
  BY OutStep DEF Handed, OutGrows, Dest
<1>2. CASE /\ UNCHANGED <<rows, lostSaves>>
           /\ \A u \in Table : saves[u] \subseteq saves'[u]
  BY <1>1, <1>2 DEF Kept, Held, Lost
<1>3. ASSUME NEW u \in Table, NEW r \in saves[u], InsertRow(u, r)
      PROVE  Kept(t, m)'
  BY <1>1, <1>3 DEF Kept, Held, Lost, InsertRow, history, TypeInv, TypeOK
<1>4. ASSUME NEW c \in Conn, DeleteSent(c)
      PROVE  Kept(t, m)'
  <2>1. CASE t = table[c] /\ \E d \in Conn : <<m, d>> \in sent[c]
    <3>1. Handed(t, m)
      BY <2>1, DeletedIsHanded
    <3> QED BY <1>1, <3>1 DEF Kept
  <2>2. CASE ~(t = table[c] /\ \E d \in Conn : <<m, d>> \in sent[c])
    BY <1>1, <1>4, <2>2 DEF Kept, Held, Lost, DeleteSent, Deleted, history, TypeInv, TypeOK
  <2> QED BY <2>1, <2>2
<1>5. CASE Crash
  BY <1>1, <1>5 DEF Kept, Held, Lost, Crash, Restored, TypeInv, TypeOK
<1> QED BY <1>2, <1>3, <1>4, <1>5, StoreEffect

(* A row leaves the database only after it was written to its peer. *)
LEMMA DeletionStep ==
    ASSUME FullInv, [Next]_vars, NEW t \in Table, NEW r \in rows[t] \ rows'[t]
    PROVE  Handed(t, r[1])
<1> USE DEF FullInv
<1>1. CASE UNCHANGED rows
  BY <1>1
<1>2. ASSUME NEW u \in Table, NEW q \in saves[u], InsertRow(u, q)
      PROVE  Handed(t, r[1])
  BY <1>2 DEF InsertRow, TypeInv, TypeOK
<1>3. ASSUME NEW c \in Conn, DeleteSent(c) PROVE Handed(t, r[1])
  <2>1. t = table[c] /\ r \in sent[c]
    BY <1>3 DEF DeleteSent, Deleted, TypeInv, TypeOK
  <2> QED BY <2>1, DeletedIsHanded
<1>4. CASE Crash
  BY <1>4 DEF Crash, Restored
<1> QED BY <1>1, <1>2, <1>3, <1>4, StoreEffect

(* A row leaves the database only after it was written to its peer. *)
THEOREM DeletionIsSafe == Spec => RowsLeaveOnlyWritten
<1>1. FullInv /\ [Next]_vars =>
        [\A t \in Table : \A r \in rows[t] \ rows'[t] : Handed(t, r[1])]_vars
  BY DeletionStep
<1> QED BY <1>1, FlowCorrect, PTL DEF Spec, RowsLeaveOnlyWritten

(* relay_ack is given only for a message that is kept or handed over. *)
LEMMA AckEffect ==
    ASSUME FullInv, [Next]_vars, NEW m \in acked' \ acked
    PROVE  Kept("store", m)'
<1> USE DEF FullInv
<1>1. CASE UNCHANGED acked
  BY <1>1
<1>2. ASSUME NEW c \in Conn, NEW n \in Msg, Publish(c, n)
      PROVE  Kept("store", m)'
  <2>1. /\ m = n
        /\ saves' = [saves EXCEPT !["store"] = @ \union {<<m, c>>}]
    BY <1>2 DEF Publish, HandlePublish, Save
  <2>2. <<m, c>> \in saves'["store"]
    BY <2>1 DEF TypeInv, TypeOK, Table
  <2> QED BY <2>2 DEF Kept, Held
<1>3. ASSUME NEW c \in Conn, Drained(c)
      PROVE  Kept("store", m)'
  <2>1. /\ pc[c] = "drain" /\ job[c].table = "store" /\ m = job[c].msg
        /\ UNCHANGED out
    BY <1>3 DEF Drained, Answered
  <2>2. job[c].to \in Conn
    BY <2>1 DEF TypeInv, Job
  <2> QED BY <2>1, <2>2 DEF Kept, Handed, FlowInv, Dest
<1>4. ASSUME NEW c \in Conn,
             Refuse(c) \/ Accept(c) \/ FailHandshake(c) \/ Register(c)
               \/ Welcome(c) \/ Close(c) \/ Select(c) \/ DeleteSent(c) \/ LoseLink(c)
      PROVE  UNCHANGED acked
  BY <1>4 DEF Refuse, Accept, FailHandshake, Register, Welcome, Close, Select,
     DeleteSent, LoseLink, history
<1>5. ASSUME NEW c \in Conn, NEW n \in Msg, ClientAck(c, n) PROVE UNCHANGED acked
  BY <1>5 DEF ClientAck
<1>6. ASSUME NEW c \in Conn, NEW r \in batch[c], SendRow(c, r) PROVE UNCHANGED acked
  BY <1>6 DEF SendRow
<1>7. ASSUME NEW t \in Table, NEW r \in saves[t], InsertRow(t, r) PROVE UNCHANGED acked
  BY <1>7 DEF InsertRow, history
<1>8. CASE Crash \/ UNCHANGED vars
  BY <1>8 DEF Crash, vars, history
<1> QED BY <1>1, <1>2, <1>3, <1>4, <1>5, <1>6, <1>7, <1>8 DEF Next, Flush

(* An answered message was written to its recipient, is held for it, or    *)
(* was lost with the process before it was inserted.                       *)
THEOREM CustodyHolds == Spec => []Custody
<1>1. Init => Custody
  BY DEF Init, Custody
<1>2. FullInv /\ Custody /\ [Next]_vars => Custody'
  <2> SUFFICES ASSUME FullInv, Custody, [Next]_vars, NEW m \in acked'
               PROVE  Kept("store", m)'
    BY DEF Custody, Kept
  <2>1. CASE m \in acked
    BY <2>1, KeptGrows DEF Custody, Kept, Table, FullInv, TypeInv, TypeOK
  <2>2. CASE m \notin acked
    BY <2>2, AckEffect
  <2> QED BY <2>1, <2>2
<1> QED BY <1>1, <1>2, FlowCorrect, PTL DEF Spec

(* A handler that has ended stays ended. *)
LEMMA DoneStays ==
    ASSUME TypeInv, [Next]_vars, NEW c \in Conn, pc[c] = "done"
    PROVE  pc'[c] = "done"
<1> USE DEF TypeInv, TypeOK
<1>1. CASE Quiet
  BY <1>1 DEF Quiet, Serving
<1>2. ASSUME NEW d \in Conn, Accept(d) \/ Register(d) \/ LeaveStep(d)
      PROVE  pc'[c] = "done"
  BY <1>2 DEF Accept, Register, LeaveStep, Leave, Goto
<1>3. CASE Crash
  BY <1>3 DEF Crash
<1> QED BY <1>1, <1>2, <1>3, ServerEffect

(* A receipt that is read is kept or handed over, or its reader ends. *)
LEMMA ReceiptEffect ==
    ASSUME FullInv, [Next]_vars, NEW c \in Conn, NEW m \in receipts'[c] \ receipts[c]
    PROVE  Kept("pending_acks", m)' \/ pc'[c] = "done"
<1> USE DEF FullInv
<1>1. ASSUME NEW d \in Conn, NEW n \in Msg, ClientAck(d, n)
      PROVE  Kept("pending_acks", m)' \/ pc'[c] = "done"
  <2>1. c = d /\ m = n /\ pc[c] = "loop"
    BY <1>1 DEF ClientAck, TypeInv, TypeOK
  <2>2. CASE /\ Target(Sender[m]) # None
             /\ Forward(c, "pending_acks", m, Target(Sender[m]))
    <3> DEFINE b == Target(Sender[m])
    <3>0. Sender[m] \in Peer /\ Dest("pending_acks", m) = Sender[m]
      BY <2>1, MsgAssumption DEF Dest
    <3>1. b \in Conn /\ Client[b] = Dest("pending_acks", m)
      BY <2>2, <3>0, TargetIsConn DEF Target, OnlineIsServing, TypeInv
    <3>2. m \in out'[b]["pending_acks"] \/ pc'[c] = "done"
      BY <2>2, <3>1 DEF Forward, Leave, Goto, TypeInv, TypeOK, Table
    <3> QED BY <3>1, <3>2 DEF Kept, Handed, Dest
  <2>3. CASE Save(c, "pending_acks", m)
    <3>1. <<m, c>> \in saves'["pending_acks"]
      BY <2>3 DEF Save, TypeInv, TypeOK, Table
    <3> QED BY <3>1 DEF Kept, Held
  <2> QED BY <1>1, <2>1, <2>2, <2>3 DEF ClientAck, SaveReceipt
<1>2. ASSUME NEW d \in Conn,
             Refuse(d) \/ Accept(d) \/ FailHandshake(d) \/ Register(d) \/ Drained(d)
               \/ Welcome(d) \/ Close(d) \/ Select(d) \/ DeleteSent(d) \/ LoseLink(d)
      PROVE  UNCHANGED receipts
  BY <1>2 DEF Refuse, Accept, FailHandshake, Register, Welcome, Close, Select,
     DeleteSent, LoseLink, Drained, history
<1>3. ASSUME NEW d \in Conn, NEW n \in Msg, Publish(d, n) PROVE UNCHANGED receipts
  BY <1>3 DEF Publish
<1>4. ASSUME NEW d \in Conn, NEW r \in batch[d], SendRow(d, r) PROVE UNCHANGED receipts
  BY <1>4 DEF SendRow
<1>5. ASSUME NEW t \in Table, NEW r \in saves[t], InsertRow(t, r) PROVE UNCHANGED receipts
  BY <1>5 DEF InsertRow, history
<1>6. CASE Crash \/ UNCHANGED vars
  BY <1>6 DEF Crash, vars, history
<1> QED BY <1>1, <1>2, <1>3, <1>4, <1>5, <1>6 DEF Next, Flush

(* A receipt that was read is passed on or kept, unless its reader died.   *)
THEOREM ReceiptCustodyHolds == Spec => []ReceiptCustody
<1>1. Init => ReceiptCustody
  BY DEF Init, ReceiptCustody
<1>2. FullInv /\ ReceiptCustody /\ [Next]_vars => ReceiptCustody'
  <2> SUFFICES ASSUME FullInv, ReceiptCustody, [Next]_vars,
                      NEW c \in Conn, NEW m \in receipts'[c]
               PROVE  Kept("pending_acks", m)' \/ pc'[c] = "done"
    BY DEF ReceiptCustody, Kept
  <2>1. CASE m \in receipts[c]
    <3>1. m \in Msg /\ "pending_acks" \in Table
      BY <2>1 DEF FullInv, TypeInv, TypeOK, Table
    <3>2. Kept("pending_acks", m) \/ pc[c] = "done"
      BY <2>1 DEF ReceiptCustody, Kept
    <3> QED BY <3>1, <3>2, KeptGrows, DoneStays DEF FullInv
  <2>2. CASE m \notin receipts[c]
    BY <2>2, ReceiptEffect
  <2> QED BY <2>1, <2>2
<1> QED BY <1>1, <1>2, FlowCorrect, PTL DEF Spec

Answering(m, c) ==
    \/ m \in acked
    \/ pc[c] \in {"limited", "done"}
    \/ pc[c] = "drain" /\ job[c].table = "store" /\ job[c].msg = m

(* A handler that owes an answer keeps owing it until it gives it or ends. *)
LEMMA AnswerStep ==
    ASSUME FullInv, [Next]_vars, NEW m \in Msg, NEW c \in Conn, Answering(m, c)
    PROVE  Answering(m, c)'
<1> USE DEF FullInv, TypeInv, TypeOK, Answering
<1>1. CASE UNCHANGED vars
  BY <1>1 DEF vars, history
<1>2. ASSUME NEW d \in Conn,
             Refuse(d) \/ Accept(d) \/ FailHandshake(d) \/ Register(d) \/ Welcome(d)
      PROVE  Answering(m, c)'
  BY <1>2 DEF Refuse, Accept, FailHandshake, Register, Welcome, Leave, Goto, history
<1>3. ASSUME NEW d \in Conn, Close(d) PROVE Answering(m, c)'
  BY <1>3 DEF Close, Ends, Leave, Goto, history
<1>4. ASSUME NEW d \in Conn, Select(d) \/ DeleteSent(d) \/ LoseLink(d)
      PROVE  Answering(m, c)'
  BY <1>4 DEF Select, DeleteSent, LoseLink, Goto, history
<1>5. ASSUME NEW d \in Conn, NEW r \in batch[d], SendRow(d, r)
      PROVE  Answering(m, c)'
  BY <1>5 DEF SendRow
<1>6. ASSUME NEW d \in Conn, NEW n \in Msg, Publish(d, n) PROVE Answering(m, c)'
  <2>1. pc[d] = "loop" /\ acked \subseteq acked'
    BY <1>6 DEF Publish, HandlePublish
  <2>2. \A b \in Conn : b # d => pc'[b] = pc[b] /\ job'[b] = job[b]
    BY <1>6 DEF Publish, HandlePublish, Forward, Await, DropClient, Leave, Goto
  <2> QED BY <2>1, <2>2
<1>7. ASSUME NEW d \in Conn, NEW n \in Msg, ClientAck(d, n) PROVE Answering(m, c)'
  <2>1. pc[d] = "loop" /\ acked = acked'
    BY <1>7 DEF ClientAck
  <2>2. \A b \in Conn : b # d => pc'[b] = pc[b] /\ job'[b] = job[b]
    BY <1>7 DEF ClientAck, Forward, Await, Leave, Goto
  <2> QED BY <2>1, <2>2
<1>8. ASSUME NEW d \in Conn, Drained(d) PROVE Answering(m, c)'
  <2>1. acked \subseteq acked' /\ pc[d] = "drain"
    BY <1>8 DEF Drained, Answered
  <2>2. job[d].table = "store" => job[d].msg \in acked'
    BY <1>8 DEF Drained, Answered
  <2>3. \A b \in Conn : b # d => pc'[b] = pc[b] /\ job'[b] = job[b]
    BY <1>8 DEF Drained, Goto
  <2> QED BY <2>1, <2>2, <2>3
<1>9. ASSUME NEW t \in Table, NEW r \in saves[t], InsertRow(t, r)
      PROVE  Answering(m, c)'
  BY <1>9 DEF InsertRow, history
<1>10. CASE Crash
  BY <1>10 DEF Crash
<1> QED BY <1>1, <1>2, <1>3, <1>4, <1>5, <1>6, <1>7, <1>8, <1>9, <1>10 DEF Next, Flush

(* Only a publish reads a message. *)
LEMMA ViaEffect ==
    ASSUME FullInv, [Next]_vars, NEW m \in Msg, via'[m] # via[m]
    PROVE  \E c \in Conn : Publish(c, m)
<1> USE DEF FullInv
<1>1. ASSUME NEW c \in Conn, NEW n \in Msg, Publish(c, n) PROVE n = m
  BY <1>1 DEF Publish, TypeInv, TypeOK
<1>2. ASSUME NEW d \in Conn,
             Refuse(d) \/ Accept(d) \/ FailHandshake(d) \/ Register(d) \/ Drained(d)
               \/ Welcome(d) \/ Close(d) \/ Select(d) \/ DeleteSent(d) \/ LoseLink(d)
      PROVE  FALSE
  BY <1>2 DEF Refuse, Accept, FailHandshake, Register, Welcome, Close, Select,
     DeleteSent, LoseLink, Drained, history
<1>3. ASSUME NEW c \in Conn, NEW n \in Msg, ClientAck(c, n) PROVE FALSE
  BY <1>3 DEF ClientAck
<1>4. ASSUME NEW d \in Conn, NEW r \in batch[d], SendRow(d, r) PROVE FALSE
  BY <1>4 DEF SendRow
<1>5. ASSUME NEW t \in Table, NEW r \in saves[t], InsertRow(t, r) PROVE FALSE
  BY <1>5 DEF InsertRow, history
<1>6. ~Crash /\ ~UNCHANGED vars
  BY DEF Crash, vars, history
<1> QED BY <1>1, <1>2, <1>3, <1>4, <1>5, <1>6 DEF Next, Flush

(* A publish that was read is answered, or its handler is about to answer  *)
(* or to end, or has ended.                                                *)
THEOREM PublishesAreAnswered == Spec => []EveryPublishAnswered
<1>1. Init => EveryPublishAnswered
  BY DEF Init, EveryPublishAnswered
<1>2. FullInv /\ EveryPublishAnswered /\ [Next]_vars => EveryPublishAnswered'
  <2> SUFFICES ASSUME FullInv, EveryPublishAnswered, [Next]_vars,
                      NEW m \in Msg, via'[m] # None
               PROVE  Answering(m, via[m])'
    BY DEF EveryPublishAnswered, Answering
  <2>1. CASE via'[m] = via[m]
    <3>1. via[m] \in Conn /\ Answering(m, via[m])
      BY <2>1 DEF FullInv, TypeInv, TypeOK, EveryPublishAnswered, Answering
    <3> QED BY <2>1, <3>1, AnswerStep DEF Answering
  <2>2. CASE via'[m] # via[m]
    <3>1. PICK c \in Conn : Publish(c, m)
      BY <2>2, ViaEffect
    <3>2. via'[m] = c
      BY <3>1 DEF Publish, FullInv, TypeInv, TypeOK
    <3>3. Answering(m, c)'
      <4> USE DEF FullInv, TypeInv, TypeOK, Answering
      <4>1. CASE DropClient(c)
        BY <4>1 DEF DropClient, Goto
      <4>2. CASE acked' = acked \union {m}
        BY <4>2
      <4>3. CASE /\ Target(Recipient[m]) # None
                 /\ Forward(c, "store", m, Target(Recipient[m]))
        BY <4>3 DEF Forward, Await, Leave, Goto
      <4> QED BY <3>1, <4>1, <4>2, <4>3 DEF Publish, HandlePublish
    <3> QED BY <3>2, <3>3 DEF Answering
  <2> QED BY <2>1, <2>2
<1> QED BY <1>1, <1>2, FlowCorrect, PTL DEF Spec

-----------------------------------------------------------------------------
(* Refinement of Mailbox.tla.                                              *)

(* A selected row is still in its table, or another connection of the peer *)
(* wrote and deleted it; a message that was not published is nowhere.      *)
MailInv ==
    /\ \A c \in Conn : \A r \in batch[c] :
          r \in rows[table[c]] \/ Handed(table[c], r[1])
    /\ \A m \in Msg : via[m] = None => ~Kept("store", m)

(* A selected row stays in its table until it is handed over. *)
LEMMA BatchStep ==
    ASSUME FullInv, MailInv, [Next]_vars,
           NEW c \in Conn, NEW r \in batch'[c]
    PROVE  r \in rows'[table'[c]] \/ Handed(table[c], r[1])'
<1> USE DEF FullInv
<1>0. \A t \in Table, m \in Msg : Handed(t, m) => Handed(t, m)'
  BY OutStep DEF Handed, OutGrows, Dest
<1>1. CASE UNCHANGED flushing
  <2>1. r \in batch[c] /\ r[1] \in Msg /\ table[c] \in Table /\ table' = table
    BY <1>1 DEF flushing, TypeInv, TypeOK, Row
  <2>2. r \in rows'[table[c]] \/ ~(r \in rows[table[c]]) \/ Handed(table[c], r[1])
    BY <2>1, DeletionStep
  <2> QED BY <1>0, <2>1, <2>2 DEF MailInv
<1>2. ASSUME NEW b \in Conn, Select(b)
      PROVE  r \in rows'[table'[c]] \/ Handed(table[c], r[1])'
  <2>1. CASE b = c
    BY <1>2, <2>1 DEF Select, Stored, dbase, TypeInv, TypeOK
  <2>2. CASE b # c
    <3>1. r \in batch[c] /\ r[1] \in Msg /\ table[c] \in Table
      BY <1>2, <2>2 DEF Select, TypeInv, TypeOK, Row
    <3> QED BY <1>0, <1>2, <3>1 DEF Select, dbase, MailInv
  <2> QED BY <2>1, <2>2
<1>3. ASSUME NEW b \in Conn, DeleteSent(b)
      PROVE  r \in rows'[table'[c]] \/ Handed(table[c], r[1])'
  <2>1. b # c /\ r \in batch[c] /\ r[1] \in Msg /\ table[c] \in Table
        /\ table'[c] = table[c]
    BY <1>3 DEF DeleteSent, TypeInv, TypeOK, Row
  <2>2. r \in rows'[table[c]] \/ ~(r \in rows[table[c]]) \/ Handed(table[c], r[1])
    BY <2>1, DeletionStep
  <2> QED BY <1>0, <2>1, <2>2 DEF MailInv
<1>4. ASSUME NEW b \in Conn, NEW q \in batch[b], SendRow(b, q)
      PROVE  r \in rows'[table'[c]] \/ Handed(table[c], r[1])'
  <2>1. r \in batch[c] /\ r[1] \in Msg /\ table[c] \in Table
        /\ UNCHANGED <<rows, table>>
    BY <1>4 DEF SendRow, dbase, TypeInv, TypeOK, Row
  <2> QED BY <1>0, <2>1 DEF MailInv
<1>5. CASE Crash
  BY <1>5 DEF Crash
<1> QED BY <1>1, <1>2, <1>3, <1>4, <1>5, FlushEffect

(* What becomes of a message in a step. *)
Same(m) == /\ Handed("store", m)' = Handed("store", m)
           /\ Held("store", m)' = Held("store", m)
           /\ Lost("store", m)' = Lost("store", m)

Silent == UNCHANGED <<acked, via>> /\ \A m \in Msg : Same(m)

(* Unchanged tables and frames leave the fate of a message unchanged. *)
LEMMA SameIfUnchanged ==
    ASSUME NEW m \in Msg,
           \A c \in Conn : out'[c]["store"] = out[c]["store"],
           saves'["store"] \union rows'["store"] = saves["store"] \union rows["store"],
           lostSaves'["store"] = lostSaves["store"]
    PROVE  Same(m)
BY DEF Same, Handed, Held, Lost, Dest

(* Connections come and go without a change to any message. *)
LEMMA QuietIsSilent ==
    ASSUME NEW c \in Conn,
           Refuse(c) \/ Accept(c) \/ FailHandshake(c) \/ Register(c)
             \/ Welcome(c) \/ Close(c) \/ Select(c) \/ LoseLink(c)
    PROVE  Silent
<1>1. UNCHANGED <<rows, saves, via, acked, out, lostSaves>>
  BY DEF Refuse, Accept, FailHandshake, Register, Welcome, Close, Select,
     LoseLink, dbase, history
<1> QED BY <1>1, SameIfUnchanged DEF Silent

(* Deleting what was sent changes nothing for messages not handed over. *)
LEMMA DeleteIsSilent ==
    ASSUME FullInv, NEW c \in Conn, DeleteSent(c), NEW m \in Msg
    PROVE  /\ UNCHANGED <<acked, via>>
           /\ Handed("store", m)' = Handed("store", m)
           /\ Lost("store", m)' = Lost("store", m)
           /\ Handed("store", m) \/ Held("store", m)' = Held("store", m)
<1>1. UNCHANGED <<saves, via, acked, out, lostSaves>>
  BY DEF DeleteSent, history
<1>2. Handed("store", m)' = Handed("store", m) /\ Lost("store", m)' = Lost("store", m)
  BY <1>1 DEF Handed, Lost, Dest
<1>3. CASE ~Handed("store", m)
  <2>1. \A d \in Conn : <<m, d>> \in rows["store"] => <<m, d>> \in rows'["store"]
    <3> SUFFICES ASSUME NEW d \in Conn, <<m, d>> \in rows["store"],
                        <<m, d>> \notin rows'["store"]
                 PROVE  FALSE
      OBVIOUS
    <3>1. table[c] = "store" /\ <<m, d>> \in sent[c]
      BY DEF DeleteSent, Deleted, FullInv, TypeInv, TypeOK, Table
    <3> QED BY <1>3, <3>1, DeletedIsHanded
  <2>2. rows'["store"] \subseteq rows["store"]
    BY DEF DeleteSent, FullInv, TypeInv, TypeOK, Table
  <2> QED BY <1>1, <1>2, <2>1, <2>2 DEF Held
<1> QED BY <1>1, <1>2, <1>3

(* A row that is inserted was held before. *)
LEMMA InsertIsSilent ==
    ASSUME FullInv, NEW t \in Table, NEW r \in saves[t], InsertRow(t, r)
    PROVE  Silent
<1>1. UNCHANGED <<via, acked, out, lostSaves>>
  BY DEF InsertRow, history
<1>2. saves'["store"] \union rows'["store"] = saves["store"] \union rows["store"]
  BY DEF InsertRow, FullInv, TypeInv, TypeOK, Table
<1> QED BY <1>1, <1>2, SameIfUnchanged DEF Silent

(* A receipt changes no message. *)
LEMMA ReceiptIsSilent ==
    ASSUME FullInv, NEW c \in Conn, NEW m \in Msg, ClientAck(c, m)
    PROVE  Silent
<1> USE DEF FullInv, TypeInv, TypeOK, Table
<1>1. UNCHANGED <<via, acked, lostSaves, rows>>
  BY DEF ClientAck
<1>2. saves'["store"] = saves["store"]
  BY DEF ClientAck, SaveReceipt, Save
<1>3. \A d \in Conn : out'[d]["store"] = out[d]["store"]
  BY DEF ClientAck, Forward
<1> QED BY <1>1, <1>2, <1>3, SameIfUnchanged DEF Silent

(* A handler that has waited answers a message that is handed over. *)
LEMMA DrainedEffect ==
    ASSUME FullInv, NEW c \in Conn, Drained(c)
    PROVE  /\ \A m \in Msg : Same(m)
           /\ UNCHANGED via
           /\ \/ UNCHANGED acked
              \/ \E m \in Msg : acked' = acked \union {m} /\ Handed("store", m)
<1>1. UNCHANGED <<rows, saves, via, out, lostSaves>>
  BY DEF Drained, dbase
<1>2. CASE job[c].table = "store"
  <2>1. /\ job[c].to \in Conn /\ job[c].msg \in Msg
        /\ job[c].msg \in out[job[c].to]["store"]
        /\ Client[job[c].to] = Recipient[job[c].msg]
    BY <1>2 DEF Drained, FullInv, TypeInv, FlowInv, Job, Dest
  <2>2. Handed("store", job[c].msg)
    BY <2>1 DEF Handed, Dest
  <2> QED BY <1>1, <1>2, <2>1, <2>2, SameIfUnchanged DEF Drained, Answered
<1>3. CASE job[c].table # "store"
  BY <1>1, <1>3, SameIfUnchanged DEF Drained
<1> QED BY <1>2, <1>3

(* A row is written: its message is handed over, and no other changes.     *)
LEMMA SendEffect ==
    ASSUME FullInv, NEW c \in Conn, NEW r \in batch[c], SendRow(c, r)
    PROVE  /\ UNCHANGED <<acked, via>>
           /\ \/ \A m \in Msg : Same(m)
              \/ /\ table[c] = "store" /\ r[1] \in Msg /\ Handed("store", r[1])'
                 /\ \A m \in Msg \ {r[1]} : Same(m)
<1> USE DEF FullInv, TypeInv, TypeOK
<1>0. r[1] \in Msg
  BY DEF Row
<1>1. UNCHANGED <<rows, saves, via, acked, lostSaves>>
  BY DEF SendRow, dbase
<1>2. CASE table[c] # "store"
  <2>1. \A d \in Conn : out'[d]["store"] = out[d]["store"]
    BY <1>2 DEF SendRow, Table
  <2> QED BY <1>1, <2>1, SameIfUnchanged
<1>3. CASE table[c] = "store"
  <2>1. r[1] \in out'[c]["store"] /\ Client[c] = Recipient[r[1]]
    BY <1>3 DEF SendRow, Table, FlowInv, RowTo, Dest
  <2>2. \A d \in Conn : out'[d]["store"] \ {r[1]} = out[d]["store"] \ {r[1]}
    BY <1>3 DEF SendRow, Table
  <2>3. \A m \in Msg \ {r[1]} : Same(m)
    BY <1>1, <2>2 DEF Same, Handed, Held, Lost, Dest
  <2> QED BY <1>0, <1>1, <1>3, <2>1, <2>3 DEF Handed, Dest
<1> QED BY <1>2, <1>3


(* A publish hands its message over, holds it, or leaves it unread. *)
LEMMA PublishEffect ==
    ASSUME FullInv, NEW c \in Conn, NEW m \in Msg, Publish(c, m)
    PROVE  /\ via[m] = None /\ via'[m] # None
           /\ \A n \in Msg \ {m} : via'[n] = via[n] /\ Same(n)
           /\ \/ UNCHANGED acked /\ Same(m)
              \/ UNCHANGED acked /\ Handed("store", m)'
              \/ /\ acked' = acked \union {m} /\ Held("store", m)'
                 /\ Handed("store", m)' = Handed("store", m)
<1> USE DEF FullInv, TypeInv, TypeOK
<1>0. /\ via[m] = None /\ via'[m] # None /\ UNCHANGED <<rows, lostSaves>>
      /\ \A n \in Msg \ {m} : via'[n] = via[n]
  BY NoneAssumption DEF Publish
<1>1. CASE UNCHANGED <<saves, acked, out>>
  BY <1>0, <1>1, SameIfUnchanged
<1>2. CASE /\ Target(Recipient[m]) # None /\ UNCHANGED <<saves, acked>>
           /\ Forward(c, "store", m, Target(Recipient[m]))
  <2> DEFINE b == Target(Recipient[m])
  <2>1. b \in Conn /\ Client[b] = Recipient[m]
    BY <1>2, TargetIsConn, MsgAssumption DEF Target, OnlineIsServing
  <2>2. CASE UNCHANGED out
    BY <1>0, <1>2, <2>2, SameIfUnchanged
  <2>3. CASE out' = [out EXCEPT ![b]["store"] = @ \union {m}]
    <3>1. m \in out'[b]["store"]
      BY <2>1, <2>3 DEF Table
    <3>2. \A d \in Conn : out'[d]["store"] \ {m} = out[d]["store"] \ {m}
      BY <2>1, <2>3 DEF Table
    <3>3. \A n \in Msg \ {m} : Same(n)
      BY <1>0, <1>2, <3>2 DEF Same, Handed, Held, Lost, Dest
    <3>4. Handed("store", m)'
      BY <2>1, <3>1 DEF Handed, Dest
    <3> QED BY <1>0, <1>2, <3>3, <3>4
  <2> QED BY <1>2, <2>2, <2>3 DEF Forward
<1>3. CASE /\ Save(c, "store", m) /\ acked' = acked \union {m} /\ UNCHANGED out
  <2>1. saves'["store"] = saves["store"] \union {<<m, c>>}
    BY <1>3 DEF Save, Table
  <2>2. Held("store", m)' /\ Handed("store", m)' = Handed("store", m)
    BY <1>3, <2>1 DEF Held, Handed, Dest
  <2>3. \A n \in Msg \ {m} : Same(n)
    BY <1>0, <1>3, <2>1 DEF Same, Handed, Held, Lost, Dest
  <2> QED BY <1>0, <1>3, <2>2, <2>3
<1> QED BY <1>1, <1>2, <1>3 DEF Publish, HandlePublish

(* A crash loses only messages that are still being inserted. *)
LEMMA CrashEffect ==
    ASSUME FullInv, Crash, NEW m \in Msg
    PROVE  /\ UNCHANGED <<acked, via>>
           /\ Handed("store", m)' = Handed("store", m)
           /\ Held("store", m) => Held("store", m)' \/ Lost("store", m)'
           /\ Held("store", m)' => Held("store", m)
           /\ Lost("store", m) => Lost("store", m)'
           /\ Lost("store", m)' => Lost("store", m) \/ Held("store", m)
<1>1. /\ UNCHANGED <<acked, via, out, rows>>
      /\ saves'["store"] = {} /\ lostSaves'["store"] = lostSaves["store"] \union saves["store"]
  BY DEF Crash, Restored, Table
<1>2. Handed("store", m)' = Handed("store", m)
  BY <1>1 DEF Handed, Dest
<1> QED BY <1>1, <1>2 DEF Held, Lost

(* A message that was not published is nowhere. *)
LEMMA OnceStep ==
    ASSUME FullInv, MailInv, [Next]_vars, NEW m \in Msg, via'[m] = None
    PROVE  ~Kept("store", m)'
<1> USE DEF FullInv, MailInv, Kept
<1>1. CASE Silent
  BY <1>1 DEF Silent, Same
<1>2. CASE UNCHANGED vars
  BY <1>2, SameIfUnchanged DEF vars, dbase, history, Same
<1>3. ASSUME NEW c \in Conn, DeleteSent(c) PROVE ~Kept("store", m)'
  BY <1>3, DeleteIsSilent
<1>4. ASSUME NEW c \in Conn, Drained(c) PROVE ~Kept("store", m)'
  BY <1>4, DrainedEffect DEF Same
<1>5. ASSUME NEW c \in Conn, NEW r \in batch[c], SendRow(c, r)
      PROVE  ~Kept("store", m)'
  <2>1. ~Kept("store", m)
    BY <1>5, SendEffect
  <2>2. table[c] = "store" /\ r \in Row => Kept("store", r[1])
    <3> SUFFICES ASSUME table[c] = "store", r \in Row PROVE Kept("store", r[1])
      OBVIOUS
    <3>1. r[1] \in Msg /\ r[2] \in Conn /\ r = <<r[1], r[2]>>
      BY DEF Row
    <3> QED BY <3>1 DEF Held
  <2>3. r \in Row
    BY DEF TypeInv, TypeOK
  <2> QED BY <1>5, <2>1, <2>2, <2>3, SendEffect DEF Same
<1>6. ASSUME NEW c \in Conn, NEW n \in Msg, Publish(c, n) PROVE ~Kept("store", m)'
  BY <1>6, PublishEffect DEF Same
<1>7. CASE Crash
  BY <1>7, CrashEffect
<1> QED
  BY <1>1, <1>2, <1>3, <1>4, <1>5, <1>6, <1>7, QuietIsSilent, InsertIsSilent,
     ReceiptIsSilent DEF Next, Flush

(* Selected rows are kept or handed over, unpublished messages are nowhere. *)
THEOREM MailCorrect == Spec => []MailInv
<1>1. Init => MailInv
  BY DEF Init, MailInv, Kept, Handed, Held, Lost, Table
<1>2. FullInv /\ MailInv /\ [Next]_vars => MailInv'
  BY BatchStep, OnceStep DEF MailInv
<1> QED BY <1>1, <1>2, FlowCorrect, PTL DEF Spec

(* The relay keeps the promise of Mailbox.tla: every step of it is a step  *)
(* of the mailbox, or changes nothing the mailbox knows of.                *)
THEOREM RelayImplementsMailbox == Spec => ImplementsMailbox
<1> DEFINE F == [m \in Msg |-> Fate(m)]
<1>1. Init => M!Init
  BY DEF Init, M!Init, Fate, Handed, Held, Lost, Table
<1>2. FullInv /\ MailInv /\ [Next]_vars => [M!Next]_M!vars
  <2> SUFFICES ASSUME FullInv, MailInv, [Next]_vars PROVE M!Next \/ UNCHANGED M!vars
    OBVIOUS
  <2> HIDE DEF F
  <2>0. \A m \in Msg : F[m] = Fate(m) /\ F'[m] = Fate(m)'
    BY DEF F
  <2>a. ASSUME \A m \in Msg : Fate(m)' = Fate(m) PROVE F' = F
    BY <2>a DEF F
  <2>b. ASSUME NEW m \in Msg, Same(m) PROVE Fate(m)' = Fate(m)
    BY <2>b DEF Same, Fate
  <2>1. CASE Silent
    BY <2>1, <2>a, <2>b DEF Silent, M!vars, F
  <2>2. CASE UNCHANGED vars
    BY <2>2, <2>a, <2>b, SameIfUnchanged DEF vars, dbase, history, M!vars, F
  <2>3. ASSUME NEW c \in Conn, DeleteSent(c) PROVE UNCHANGED M!vars
    <3>1. \A m \in Msg : Fate(m)' = Fate(m)
      BY <2>3, DeleteIsSilent DEF Fate
    <3> QED BY <2>3, <2>a, <3>1 DEF DeleteSent, history, M!vars, F
  <2>4. ASSUME NEW c \in Conn, Drained(c) PROVE M!Next \/ UNCHANGED M!vars
    <3>1. F' = F
      BY <2>4, <2>a, <2>b, DrainedEffect
    <3>2. CASE UNCHANGED acked
      BY <3>1, <3>2 DEF M!vars, F
    <3>3. ASSUME NEW m \in Msg, acked' = acked \union {m}, Handed("store", m)
          PROVE  M!Answer(m)
      <4>1. F[m] = "handed"
        BY <2>0, <3>3 DEF Fate
      <4> QED BY <3>1, <3>3, <4>1 DEF M!Answer, F
    <3> QED BY <2>4, <3>2, <3>3, DrainedEffect DEF M!Next
  <2>5. ASSUME NEW m \in Msg, F[m] \in {"unread", "held"}, Handed("store", m)',
               \A n \in Msg \ {m} : Same(n), UNCHANGED acked
        PROVE  M!Hand(m)
    <3>1. F' = [F EXCEPT ![m] = "handed"]
      BY <2>5, <2>b DEF F, Fate
    <3> QED BY <2>5, <3>1 DEF M!Hand, F
  <2>6. ASSUME NEW c \in Conn, NEW r \in batch[c], SendRow(c, r)
        PROVE  M!Next \/ UNCHANGED M!vars
    <3>1. CASE \A m \in Msg : Same(m)
      BY <2>6, <2>a, <2>b, <3>1, SendEffect DEF M!vars, F
    <3>2. CASE /\ table[c] = "store" /\ r[1] \in Msg /\ Handed("store", r[1])'
               /\ \A m \in Msg \ {r[1]} : Same(m)
      <4>1. r = <<r[1], r[2]>> /\ r[2] \in Conn
        BY DEF FullInv, TypeInv, TypeOK, Row
      <4>2. Handed("store", r[1]) \/ Held("store", r[1])
        BY <3>2, <4>1 DEF MailInv, Held
      <4>3. CASE Handed("store", r[1])
        <5>1. \A m \in Msg : Fate(m)' = Fate(m)
          BY <2>b, <3>2, <4>3 DEF Fate
        <5> QED BY <2>6, <2>a, <5>1, SendEffect DEF M!vars, F
      <4>4. CASE ~Handed("store", r[1])
        <5>1. F[r[1]] = "held"
          BY <2>0, <3>2, <4>2, <4>4 DEF Fate
        <5> QED BY <2>5, <2>6, <3>2, <5>1, SendEffect DEF M!Next
      <4> QED BY <4>3, <4>4
    <3> QED BY <2>6, <3>1, <3>2, SendEffect
  <2>7. ASSUME NEW c \in Conn, NEW m \in Msg, Publish(c, m)
        PROVE  M!Next \/ UNCHANGED M!vars
    <3>1. F[m] = "unread" /\ ~Handed("store", m)
      BY <2>0, <2>7, PublishEffect DEF MailInv, Kept, Fate
    <3>2. \A n \in Msg \ {m} : Same(n)
      BY <2>7, PublishEffect
    <3>3. CASE UNCHANGED acked /\ Same(m)
      BY <2>a, <2>b, <3>2, <3>3 DEF M!vars, F
    <3>4. CASE UNCHANGED acked /\ Handed("store", m)'
      BY <2>5, <3>1, <3>2, <3>4 DEF M!Next
    <3>5. CASE /\ acked' = acked \union {m} /\ Held("store", m)'
               /\ Handed("store", m)' = Handed("store", m)
      <4>1. F' = [F EXCEPT ![m] = "held"]
        BY <2>b, <3>1, <3>2, <3>5 DEF F, Fate
      <4> QED BY <3>1, <3>5, <4>1 DEF M!Next, M!Keep, F
    <3> QED BY <2>7, <3>3, <3>4, <3>5, PublishEffect
  <2>8. CASE Crash
    <3> DEFINE L == {m \in Msg : F[m] = "held" /\ F'[m] # "held"}
    <3>1. \A m \in Msg : F'[m] = IF m \in L THEN "lost" ELSE F[m]
      BY <2>0, <2>8, CrashEffect DEF Fate
    <3>2. F' = [m \in Msg |-> IF m \in L THEN "lost" ELSE F[m]]
      BY <3>1 DEF F
    <3>3. UNCHANGED acked
      BY <2>8 DEF Crash
    <3> HIDE DEF L
    <3>4. L \in SUBSET Msg /\ \A m \in L : F[m] = "held"
      BY DEF L
    <3>5. M!Lose(L)
      BY <3>2, <3>3, <3>4 DEF M!Lose, F
    <3> QED BY <3>4, <3>5 DEF M!Next
  <2> QED
    BY <2>1, <2>2, <2>3, <2>4, <2>6, <2>7, <2>8, QuietIsSilent, InsertIsSilent,
       ReceiptIsSilent DEF Next, Flush
<1> QED BY <1>1, <1>2, FlowCorrect, MailCorrect, PTL DEF Spec, ImplementsMailbox, M!Spec
=============================================================================
