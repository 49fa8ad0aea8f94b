----------------------------- MODULE WireProofs -----------------------------
(***************************************************************************)
(* Theorems about Wire.tla, for any clients, messages, sizes of buffers    *)
(* and number of timeouts.                                                 *)
(***************************************************************************)
EXTENDS Wire, SequenceLemmas

(* What is in the stream to the relay: frames, and a body without header.  *)
Unread == UpFrame \union {Signal("body")}

(* What may follow a drain. *)
Follows == {<<>>} \union {<<Frame("relay_ack", m)>> : m \in Message}

HandlerState ==
    [at : {"header", "body", "ended"}]
      \union [at : {"drain"}, to : Client, frame : DownFrame, next : Follows]

TypeInv ==
    /\ up \in [Client -> Seq(Unread)]
    /\ down \in [Client -> Seq(DownFrame)]
    /\ handler \in [Client -> HandlerState]
    /\ listener \in [Client -> {"read", "drain"}]
    /\ sending \in SUBSET Client
    /\ timeouts \in 0..MaxTimeouts
    /\ written \in [Client -> Seq(UpFrame)]
    /\ handled \in [Client -> Seq(UpFrame)]
    /\ answered \in SUBSET Message
    /\ \A c \in Client : handler[c].at = "body" => up[c] # <<>> /\ Head(up[c]) # Signal("body")

(* Frames to the relay. *)
LEMMA UpFrames ==
    /\ \A m \in Message : /\ Frame("publish", m) \in UpFrame
                          /\ Frame("client_ack", m) \in UpFrame
    /\ Signal("pong") \in UpFrame
    /\ \A f \in UpFrame : f # Signal("body")
    /\ \A f \in UpFrame : f.type \in {"publish", "client_ack"} => f.message \in Message
BY DEF Frame, Signal, UpFrame

(* What is unread is frames and a body without its header.               *)
LEMMA UnreadFrames ==
    /\ \A f \in UpFrame : f \in Unread
    /\ Signal("body") \in Unread
    /\ \A f \in Unread : f \in UpFrame \/ f = Signal("body")
    /\ Signal("body").type = "body"
BY DEF Unread, Signal

(* Frames to a client. *)
LEMMA DownFrames ==
    /\ \A m \in Message : /\ Frame("push", m) \in DownFrame
                          /\ Frame("relay_ack", m) \in DownFrame
                          /\ Frame("delivery_ack", m) \in DownFrame
    /\ Signal("ping") \in DownFrame
    /\ \A f \in DownFrame : f.type # "ping" => f.message \in Message
BY DEF Frame, Signal, DownFrame

(* What follows a drain is nothing, or an answer to the sender.            *)
LEMMA FollowingFrames ==
    /\ <<>> \in Follows
    /\ \A m \in Message : <<Frame("relay_ack", m)>> \in Follows
BY DEF Follows

(* The states of a handler. *)
LEMMA States ==
    /\ Reading \in HandlerState /\ Reading.at = "header"
    /\ [at |-> "body"] \in HandlerState
    /\ [at |-> "ended"] \in HandlerState
    /\ \A c \in Client, f \in DownFrame, next \in Follows :
         /\ Waiting(c, f, next) \in HandlerState
         /\ Waiting(c, f, next).at = "drain"
         /\ Waiting(c, f, next).to = c
         /\ Waiting(c, f, next).frame = f
         /\ Waiting(c, f, next).next = next
    /\ \A h \in HandlerState : h.at = "drain" => 
         h.to \in Client /\ h.frame \in DownFrame /\ h.next \in Follows
    /\ \A h \in HandlerState : h.at \in {"header", "body", "drain", "ended"}
BY DEF Reading, Waiting, HandlerState

(* A listener replies with a frame to the relay. *)
LEMMA Replies ==
    ASSUME NEW f \in DownFrame, Reply(f) # <<>>
    PROVE  Reply(f)[1] \in UpFrame
BY UpFrames, DownFrames DEF Reply

(* A frame that a client writes keeps the types of the streams. *)
LEMMA WriteTyped ==
    ASSUME TypeInv, NEW c \in Client, NEW f \in UpFrame, Write(c, f)
    PROVE  /\ up' \in [Client -> Seq(Unread)]
           /\ written' \in [Client -> Seq(UpFrame)]
           /\ \A d \in Client : up[d] # <<>> => up'[d] # <<>> /\ Head(up'[d]) = Head(up[d])
<1>1. f \in Unread
  BY UnreadFrames
<1>2. /\ up \in [Client -> Seq(Unread)] /\ written \in [Client -> Seq(UpFrame)]
      /\ up' = [up EXCEPT ![c] = Append(@, f)]
      /\ written' = [written EXCEPT ![c] = Append(@, f)]
  BY DEF TypeInv, Write
<1>3. /\ up' \in [Client -> Seq(Unread)]
      /\ written' \in [Client -> Seq(UpFrame)]
  BY <1>1, <1>2
<1>4. ASSUME NEW d \in Client, up[d] # <<>>
      PROVE  up'[d] # <<>> /\ Head(up'[d]) = Head(up[d])
  BY <1>1, <1>2, <1>4
<1> QED BY <1>3, <1>4

(* So does a frame that a handler writes, and the handler then waits. *)
LEMMA SendTyped ==
    ASSUME TypeInv, NEW c \in Client, NEW to \in Client, NEW f \in DownFrame,
           NEW next \in Follows, Send(c, to, f, next)
    PROVE  /\ down' \in [Client -> Seq(DownFrame)]
           /\ handler' \in [Client -> HandlerState]
           /\ handler'[c] = Waiting(to, f, next) /\ handler'[c].at = "drain"
           /\ \A d \in Client \ {c} : handler'[d] = handler[d]
<1>1. down' = [down EXCEPT ![to] = Append(@, f)] /\ down \in [Client -> Seq(DownFrame)]
  BY DEF Send, TypeInv
<1>2. /\ handler' = [handler EXCEPT ![c] = Waiting(to, f, next)]
      /\ handler \in [Client -> HandlerState]
  BY DEF Send, TypeInv
<1>3. Waiting(to, f, next) \in HandlerState /\ Waiting(to, f, next).at = "drain"
  BY States
<1>4. down' \in [Client -> Seq(DownFrame)]
  BY <1>1
<1> QED BY <1>2, <1>3, <1>4

(* A handler that ends leaves nothing in the stream. *)
LEMMA EndTyped ==
    ASSUME TypeInv, NEW c \in Client, Ends(c)
    PROVE  /\ up' \in [Client -> Seq(Unread)] /\ up'[c] = <<>>
           /\ \A d \in Client \ {c} : up'[d] = up[d]
           /\ handler' \in [Client -> HandlerState] /\ handler'[c].at = "ended"
           /\ \A d \in Client \ {c} : handler'[d] = handler[d]
BY States DEF Ends, TypeInv

(* A body that is read behind its header is a frame that is handled. *)
LEMMA BodyRead ==
    ASSUME TypeInv, NEW c \in Client, ReadBody(c)
    PROVE  /\ up[c] # <<>> /\ Head(up[c]) \in UpFrame
           /\ handled' = [handled EXCEPT ![c] = Append(@, Head(up[c]))]
           /\ handled' \in [Client -> Seq(UpFrame)]
           /\ up' = [up EXCEPT ![c] = Tail(@)]
           /\ up' \in [Client -> Seq(Unread)]
           /\ \A d \in Client \ {c} : up'[d] = up[d]
<1>1. /\ up[c] # <<>> /\ up[c] \in Seq(Unread)
      /\ up \in [Client -> Seq(Unread)] /\ handled \in [Client -> Seq(UpFrame)]
      /\ Head(up[c]) # Signal("body")
  BY DEF ReadBody, TypeInv
<1>2. Head(up[c]) \in Unread
  BY <1>1
<1>3. Head(up[c]) \in UpFrame
  BY <1>1, <1>2, UnreadFrames
<1>4. /\ handled' = [handled EXCEPT ![c] = Append(@, Head(up[c]))]
      /\ up' = [up EXCEPT ![c] = Tail(@)]
  BY DEF ReadBody
<1> QED BY <1>1, <1>3, <1>4

(* The handler of a frame writes another, or reads the next. *)
LEMMA BodyHandled ==
    ASSUME TypeInv, NEW c \in Client, ReadBody(c)
    PROVE  /\ handler' \in [Client -> HandlerState]
           /\ handler'[c].at # "body"
           /\ \A d \in Client \ {c} : handler'[d] = handler[d]
           /\ down' \in [Client -> Seq(DownFrame)]
<1> DEFINE f == Head(up[c])
<1>1. f \in UpFrame
  BY BodyRead
<1>2. CASE f.type = "publish"
  <2> DEFINE m == f.message
  <2>1. m \in Message
    BY <1>1, <1>2, UpFrames
  <2>2. CASE Alive(To[m])
    <3>1. Send(c, To[m], Frame("push", m), <<Frame("relay_ack", m)>>)
      BY <1>2, <2>2 DEF ReadBody
    <3> HIDE DEF m
    <3> QED BY <2>1, <3>1, WireAssumption, DownFrames, FollowingFrames, SendTyped
  <2>3. CASE ~Alive(To[m])
    <3>1. Send(c, c, Frame("relay_ack", m), <<>>)
      BY <1>2, <2>3 DEF ReadBody
    <3> HIDE DEF m
    <3> QED BY <2>1, <3>1, DownFrames, FollowingFrames, SendTyped
  <2> QED BY <2>2, <2>3
<1>3. CASE f.type = "client_ack" /\ Alive(From[f.message])
  <2> DEFINE m == f.message
  <2>1. m \in Message
    BY <1>1, <1>3, UpFrames
  <2>2. Send(c, From[m], Frame("delivery_ack", m), <<>>)
    BY <1>3 DEF ReadBody
  <2> HIDE DEF m
  <2> QED BY <2>1, <2>2, WireAssumption, DownFrames, FollowingFrames, SendTyped
<1>4. CASE f.type # "publish" /\ ~(f.type = "client_ack" /\ Alive(From[f.message]))
  <2>1. handler' = [handler EXCEPT ![c] = Reading] /\ UNCHANGED down
    BY <1>4 DEF ReadBody
  <2> QED BY <2>1, States DEF TypeInv
<1> QED BY <1>2, <1>3, <1>4

(* Every variable keeps its type; a body is read behind its header only. *)
LEMMA TypesAreKept == Spec => []TypeInv
<1>1. Init => TypeInv
  <2> SUFFICES ASSUME Init PROVE TypeInv
    OBVIOUS
  <2> QED BY WireAssumption, States DEF Init, TypeInv
<1>2. ASSUME TypeInv, [Next]_vars PROVE TypeInv'
  <2>1. ASSUME NEW m \in Message, Publish(m) PROVE TypeInv'
    <3> DEFINE f == Frame("publish", m)
    <3>1. From[m] \in Client /\ f \in UpFrame
      BY WireAssumption, UpFrames
    <3>2. /\ Write(From[m], f)
          /\ UNCHANGED <<down, handler, listener, timeouts, handled, answered>>
          /\ sending' = sending \union {From[m]}
      BY <2>1 DEF Publish
    <3> HIDE DEF f
    <3> QED BY <1>2, <3>1, <3>2, WriteTyped DEF TypeInv
  <2>2. ASSUME NEW c \in Client, Sent(c) PROVE TypeInv'
    BY <1>2, <2>2 DEF TypeInv, Sent, streams, history
  <2>3. ASSUME NEW c \in Client, Listen(c) PROVE TypeInv'
    <3> DEFINE f == Head(down[c])
    <3>1. f \in DownFrame /\ down' \in [Client -> Seq(DownFrame)]
      BY <1>2, <2>3 DEF Listen, TypeInv
    <3>2. answered' \in SUBSET Message
      BY <1>2, <2>3, <3>1, DownFrames DEF Listen, TypeInv
    <3> HIDE DEF f
    <3>3. UNCHANGED <<handler, sending, timeouts, handled>>
      BY <2>3 DEF Listen
    <3>4. CASE Alive(c) /\ Reply(f) # <<>>
      <4> DEFINE r == Reply(f)[1]
      <4>1. r \in UpFrame
        BY <3>1, <3>4, Replies
      <4>2. Write(c, r) /\ listener' = [listener EXCEPT ![c] = "drain"]
        BY <2>3, <3>4 DEF Listen, f
      <4> HIDE DEF r
      <4> QED BY <1>2, <3>1, <3>2, <3>3, <4>1, <4>2, WriteTyped DEF TypeInv
    <3>5. CASE ~(Alive(c) /\ Reply(f) # <<>>)
      <4>1. UNCHANGED <<up, written, listener>>
        BY <2>3, <3>5 DEF Listen, f
      <4> QED BY <1>2, <3>1, <3>2, <3>3, <4>1 DEF TypeInv
    <3> QED BY <3>4, <3>5
  <2>4. ASSUME NEW c \in Client, Listened(c) PROVE TypeInv'
    BY <1>2, <2>4 DEF TypeInv, Listened, streams, history
  <2>5. ASSUME NEW c \in Client, ReadHeader(c) PROVE TypeInv'
    <3>1. CASE TooLarge(Head(up[c]))
      <4>1. Ends(c)
        BY <2>5, <3>1 DEF ReadHeader
      <4> QED BY <1>2, <2>5, <4>1, EndTyped DEF ReadHeader, TypeInv, history
    <3>2. CASE ~TooLarge(Head(up[c]))
      <4>1. up[c] # <<>> /\ Head(up[c]) # Signal("body")
        BY <2>5, <3>2, UnreadFrames DEF ReadHeader, TooLarge
      <4>2. handler' = [handler EXCEPT ![c] = [at |-> "body"]] /\ UNCHANGED up
        BY <2>5, <3>2 DEF ReadHeader
      <4>3. UNCHANGED <<down, listener, sending, timeouts, history>>
        BY <2>5 DEF ReadHeader
      <4> QED BY <1>2, <4>1, <4>2, <4>3, States DEF TypeInv, history
    <3> QED BY <3>1, <3>2
  <2>6. ASSUME NEW c \in Client, ReadBody(c) PROVE TypeInv'
    <3>1. /\ handled' \in [Client -> Seq(UpFrame)]
          /\ up' \in [Client -> Seq(Unread)]
          /\ \A d \in Client \ {c} : up'[d] = up[d]
      BY <1>2, <2>6, BodyRead DEF TypeInv
    <3>2. /\ handler' \in [Client -> HandlerState]
          /\ handler'[c].at # "body"
          /\ \A d \in Client \ {c} : handler'[d] = handler[d]
          /\ down' \in [Client -> Seq(DownFrame)]
      BY <1>2, <2>6, BodyHandled
    <3>3. UNCHANGED <<listener, sending, timeouts, written, answered>>
      BY <2>6 DEF ReadBody
    <3> QED BY <1>2, <3>1, <3>2, <3>3 DEF TypeInv
  <2>7. ASSUME NEW c \in Client, Drained(c) PROVE TypeInv'
    <3>1. UNCHANGED <<up, listener, sending, timeouts, history>>
      BY <2>7 DEF Drained
    <3>2. CASE handler[c].next = <<>>
      <4>1. handler' = [handler EXCEPT ![c] = Reading] /\ UNCHANGED down
        BY <2>7, <3>2 DEF Drained
      <4> QED BY <1>2, <3>1, <4>1, States DEF TypeInv, history
    <3>3. CASE handler[c].next # <<>>
      <4>1. handler[c] \in HandlerState /\ handler[c].at = "drain"
        BY <1>2, <2>7 DEF Drained, TypeInv
      <4>2. handler[c].next \in Follows
        BY <4>1, States
      <4>3. PICK m \in Message : handler[c].next = <<Frame("relay_ack", m)>>
        BY <3>3, <4>2 DEF Follows
      <4>4. Send(c, c, handler[c].next[1], <<>>)
        BY <2>7, <3>3 DEF Drained
      <4>5. handler[c].next[1] = Frame("relay_ack", m)
        BY <4>3
      <4>6. Send(c, c, Frame("relay_ack", m), <<>>)
        BY <4>4, <4>5
      <4> QED BY <1>2, <3>1, <4>6, DownFrames, FollowingFrames, SendTyped DEF TypeInv, history
    <3> QED BY <3>2, <3>3
  <2>8. ASSUME NEW c \in Client, DrainFails(c) PROVE TypeInv'
    BY <1>2, <2>8, EndTyped DEF DrainFails, TypeInv, history
  <2>9. ASSUME NEW c \in Client, Timeout(c) PROVE TypeInv'
    <3>1. Remaining(c) \in Seq(Unread)
      BY <1>2, <2>9, UnreadFrames DEF Remaining, Timeout, TypeInv
    <3>2. up' = [up EXCEPT ![c] = Remaining(c)]
      BY <2>9 DEF Timeout
    <3>3. /\ Send(c, c, Signal("ping"), <<>>)
          /\ UNCHANGED <<listener, sending, history>> /\ timeouts' \in 0..MaxTimeouts
      BY <1>2, <2>9, WireAssumption DEF Timeout, TypeInv
    <3> QED BY <1>2, <3>1, <3>2, <3>3, DownFrames, FollowingFrames, SendTyped DEF TypeInv, history
  <2>10. CASE UNCHANGED vars
    BY <1>2, <2>10 DEF TypeInv, vars, streams, history
  <2> QED BY <1>2, <2>1, <2>2, <2>3, <2>4, <2>5, <2>6, <2>7, <2>8, <2>9, <2>10
          DEF Next, Listener, Handler
<1> QED BY <1>1, <1>2, PTL DEF Spec

(* TypeOK, for any clients and messages. *)
THEOREM TypesHold == Spec => []TypeOK
<1>1. TypeInv => TypeOK
  <2> SUFFICES ASSUME TypeInv PROVE TypeOK
    OBVIOUS
  <2>1. ASSUME NEW c \in Client
        PROVE  /\ ToSet(up[c]) \subseteq UpFrame \union {Signal("body")}
               /\ ToSet(down[c]) \subseteq DownFrame
               /\ ToSet(written[c]) \union ToSet(handled[c]) \subseteq UpFrame
    <3>1. /\ up[c] \in Seq(Unread) /\ down[c] \in Seq(DownFrame)
          /\ written[c] \in Seq(UpFrame) /\ handled[c] \in Seq(UpFrame)
      BY DEF TypeInv
    <3>2. ToSet(up[c]) \subseteq Unread
      BY <3>1, ElementsOf
    <3>3. ToSet(down[c]) \subseteq DownFrame
      BY <3>1, ElementsOf
    <3>4. ToSet(written[c]) \subseteq UpFrame /\ ToSet(handled[c]) \subseteq UpFrame
      BY <3>1, ElementsOf
    <3> QED BY <3>2, <3>3, <3>4 DEF Unread
  <2>2. ASSUME NEW c \in Client
        PROVE  handler[c].at \in {"header", "body", "drain", "ended"}
    BY States DEF TypeInv
  <2> QED BY <2>1, <2>2 DEF TypeInv, TypeOK
<1> QED BY <1>1, TypesAreKept, PTL

-----------------------------------------------------------------------------
(* The order of frames.                                                    *)

(* What was written is what was handled and, while the connection is open, *)
(* what has not been read; of the first frame of that, a body may be left. *)
Ordered(c) ==
    /\ Len(handled[c]) <= Len(written[c])
    /\ \A i \in 1..Len(handled[c]) : handled[c][i] = written[c][i]
    /\ Alive(c) =>
         /\ Len(written[c]) = Len(handled[c]) + Len(up[c])
         /\ \A i \in 1..Len(up[c]) : \/ up[c][i] = written[c][Len(handled[c]) + i]
                                     \/ (i = 1 /\ up[c][i] = Signal("body"))

OrderInv == \A c \in Client : Ordered(c)

(* A frame that a client writes comes after those it has written. *)
LEMMA WriteOrdered ==
    ASSUME TypeInv, NEW c \in Client, NEW f \in UpFrame, Write(c, f), Ordered(c),
           UNCHANGED <<handler, handled>>
    PROVE  Ordered(c)'
<1> DEFINE u == up[c]
           w == written[c]
           h == handled[c]
<1>1. u \in Seq(Unread) /\ w \in Seq(UpFrame) /\ h \in Seq(UpFrame) /\ f \in Unread
  BY UnreadFrames DEF TypeInv
<1>2. up'[c] = Append(u, f) /\ written'[c] = Append(w, f) /\ handled'[c] = h
  BY DEF TypeInv, Write
<1>3. Alive(c)' <=> Alive(c)
  BY DEF Alive
<1>4. /\ Len(h) <= Len(w)
      /\ \A i \in 1..Len(h) : h[i] = w[i]
      /\ Alive(c) => /\ Len(w) = Len(h) + Len(u)
                     /\ \A i \in 1..Len(u) : u[i] = w[Len(h) + i] \/ (i = 1 /\ u[i] = Signal("body"))
  BY DEF Ordered
<1> HIDE DEF u, w, h
<1> DEFINE a == Append(u, f)
           b == Append(w, f)
<1>5. /\ a \in Seq(Unread) /\ Len(a) = Len(u) + 1 /\ a[Len(u) + 1] = f
      /\ \A i \in 1..Len(u) : a[i] = u[i]
      /\ b \in Seq(UpFrame) /\ Len(b) = Len(w) + 1 /\ b[Len(w) + 1] = f
      /\ \A i \in 1..Len(w) : b[i] = w[i]
  BY <1>1, AppendProperties
<1>6. Len(u) \in Nat /\ Len(w) \in Nat /\ Len(h) \in Nat
  BY <1>1
<1> HIDE DEF a, b
<1>7. Len(h) <= Len(b) /\ \A i \in 1..Len(h) : h[i] = b[i]
  BY <1>4, <1>5, <1>6
<1>8. ASSUME Alive(c)
      PROVE  /\ Len(b) = Len(h) + Len(a)
             /\ \A i \in 1..Len(a) : a[i] = b[Len(h) + i] \/ (i = 1 /\ a[i] = Signal("body"))
  <2>1. Len(b) = Len(h) + Len(a)
    BY <1>4, <1>5, <1>6, <1>8
  <2>2. ASSUME NEW i \in 1..Len(a)
        PROVE  a[i] = b[Len(h) + i] \/ (i = 1 /\ a[i] = Signal("body"))
    <3>1. CASE i = Len(u) + 1
      BY <1>4, <1>5, <1>6, <1>8, <3>1
    <3>2. CASE i # Len(u) + 1
      <4>1. i \in 1..Len(u) /\ Len(h) + i \in 1..Len(w)
        BY <1>4, <1>5, <1>6, <1>8, <3>2
      <4>2. a[i] = u[i] /\ b[Len(h) + i] = w[Len(h) + i]
        BY <1>5, <4>1
      <4> QED BY <1>4, <1>8, <4>1, <4>2
    <3> QED BY <3>1, <3>2
  <2> QED BY <2>1, <2>2
<1> QED BY <1>2, <1>3, <1>7, <1>8 DEF Ordered, a, b

(* The frame that is handled is the one that was written after those that  *)
(* were handled before.                                                    *)
LEMMA HandleOrdered ==
    ASSUME TypeInv, NEW c \in Client, ReadBody(c), Ordered(c)
    PROVE  Ordered(c)'
<1> DEFINE u == up[c]
           w == written[c]
           h == handled[c]
           f == Head(u)
<1>1. u \in Seq(Unread) /\ w \in Seq(UpFrame) /\ h \in Seq(UpFrame) /\ u # <<>> /\ f \in UpFrame
  BY BodyRead DEF TypeInv
<1>2. up'[c] = Tail(u) /\ written'[c] = w /\ handled'[c] = Append(h, f)
  BY BodyRead DEF TypeInv, ReadBody
<1>3. Alive(c) /\ f # Signal("body")
  BY BodyRead, UpFrames DEF Alive, ReadBody
<1>4. /\ Len(h) <= Len(w)
      /\ \A i \in 1..Len(h) : h[i] = w[i]
      /\ Len(w) = Len(h) + Len(u)
      /\ \A i \in 1..Len(u) : u[i] = w[Len(h) + i] \/ (i = 1 /\ u[i] = Signal("body"))
  BY <1>3 DEF Ordered
<1>5. f = u[1] /\ 1 \in 1..Len(u)
  BY <1>1
<1> HIDE DEF u, w, h, f
<1> DEFINE t == Tail(u)
           b == Append(h, f)
<1>6. /\ t \in Seq(Unread) /\ Len(t) = Len(u) - 1
      /\ \A i \in 1..Len(t) : t[i] = u[i + 1]
  BY <1>1, HeadTailProperties
<1>7. /\ b \in Seq(UpFrame) /\ Len(b) = Len(h) + 1 /\ b[Len(h) + 1] = f
      /\ \A i \in 1..Len(h) : b[i] = h[i]
  BY <1>1, AppendProperties
<1>8. Len(u) \in Nat \ {0} /\ Len(w) \in Nat /\ Len(h) \in Nat
  BY <1>1
<1> HIDE DEF t, b
<1>9. f = w[Len(h) + 1]
  BY <1>3, <1>4, <1>5
<1>10. Len(b) <= Len(w) /\ Len(w) = Len(b) + Len(t)
  BY <1>4, <1>6, <1>7, <1>8
<1>11. ASSUME NEW i \in 1..Len(b) PROVE b[i] = w[i]
  <2>1. CASE i = Len(h) + 1
    BY <1>7, <1>9, <2>1
  <2>2. CASE i # Len(h) + 1
    <3>1. i \in 1..Len(h)
      BY <1>7, <1>8, <2>2
    <3> QED BY <1>4, <1>7, <3>1
  <2> QED BY <2>1, <2>2
<1>12. ASSUME NEW i \in 1..Len(t) PROVE t[i] = w[Len(b) + i]
  <2>1. i + 1 \in 1..Len(u) /\ i + 1 # 1 /\ Len(b) + i = Len(h) + (i + 1)
    BY <1>6, <1>7, <1>8
  <2> QED BY <1>4, <1>6, <2>1
<1> QED BY <1>2, <1>10, <1>11, <1>12 DEF Ordered, t, b

(* A read that is cancelled leaves a body at most. *)
LEMMA TimeoutOrdered ==
    ASSUME TypeInv, NEW c \in Client, Timeout(c), Ordered(c)
    PROVE  Ordered(c)'
<1> DEFINE u == up[c]
           w == written[c]
           h == handled[c]
           r == Remaining(c)
<1>1. u \in Seq(Unread) /\ w \in Seq(UpFrame) /\ h \in Seq(UpFrame)
  BY DEF TypeInv
<1>2. up'[c] = r /\ written'[c] = w /\ handled'[c] = h
  BY DEF TypeInv, Timeout, history
<1>3. Alive(c)
  BY DEF Alive, Timeout
<1>4. /\ Len(h) <= Len(w)
      /\ \A i \in 1..Len(h) : h[i] = w[i]
      /\ Len(w) = Len(h) + Len(u)
      /\ \A i \in 1..Len(u) : u[i] = w[Len(h) + i] \/ (i = 1 /\ u[i] = Signal("body"))
  BY <1>3 DEF Ordered
<1>5. r = u \/ (r = <<Signal("body")>> \o Tail(u) /\ u # <<>>)
  BY DEF Remaining, TypeInv
<1> HIDE DEF u, w, h, r
<1>6. /\ Len(r) = Len(u)
      /\ \A i \in 1..Len(u) : r[i] = u[i] \/ (i = 1 /\ r[i] = Signal("body"))
  <2>1. CASE r = u
    BY <2>1
  <2>2. CASE r = <<Signal("body")>> \o Tail(u) /\ u # <<>>
    <3> DEFINE t == Tail(u)
               e == Signal("body")
    <3>1. /\ t \in Seq(Unread) /\ Len(t) = Len(u) - 1
          /\ \A i \in 1..Len(t) : t[i] = u[i + 1]
      BY <1>1, <2>2, HeadTailProperties
    <3>2. e \in Unread
      BY UnreadFrames
    <3>3. Len(u) \in Nat
      BY <1>1
    <3> HIDE DEF t, e
    <3> DEFINE b == <<e>> \o t
    <3>4. Len(b) = Len(t) + 1 /\ b[1] = e /\ \A i \in 1..Len(t) : b[i + 1] = t[i]
      BY <3>1, <3>2, PlacesOfPrepend
    <3> HIDE DEF b
    <3>5. ASSUME NEW i \in 1..Len(u), i # 1 PROVE b[i] = u[i]
      <4>1. i - 1 \in 1..Len(t) /\ (i - 1) + 1 = i
        BY <3>1, <3>3, <3>5
      <4> QED BY <3>1, <3>4, <4>1
    <3>6. Len(b) = Len(u)
      BY <3>1, <3>3, <3>4
    <3> QED BY <2>2, <3>4, <3>5, <3>6 DEF t, e, b
  <2> QED BY <1>5, <2>1, <2>2
<1>7. \A i \in 1..Len(r) : r[i] = w[Len(h) + i] \/ (i = 1 /\ r[i] = Signal("body"))
  BY <1>4, <1>6
<1> QED BY <1>2, <1>4, <1>6, <1>7 DEF Ordered

(* Nothing is handled out of order, by any step of any client. *)
LEMMA OrderIsKept ==
    ASSUME TypeInv, OrderInv, [Next]_vars
    PROVE  OrderInv'
<1> SUFFICES ASSUME NEW c \in Client PROVE Ordered(c)'
  BY DEF OrderInv
<1>0. Ordered(c)
  BY DEF OrderInv
<1>1. ASSUME UNCHANGED <<up[c], written[c], handled[c], handler[c]>>
      PROVE  Ordered(c)'
  BY <1>0, <1>1 DEF Ordered, Alive
<1>2. ASSUME NEW m \in Message, Publish(m) PROVE Ordered(c)'
  <2> DEFINE f == Frame("publish", m)
  <2>1. /\ From[m] \in Client /\ f \in UpFrame /\ Write(From[m], f)
        /\ UNCHANGED <<handler, handled>>
    BY <1>2, WireAssumption, UpFrames DEF Publish
  <2> HIDE DEF f
  <2>2. CASE c = From[m]
    BY <1>0, <2>1, <2>2, WriteOrdered
  <2>3. CASE c # From[m]
    BY <1>1, <2>1, <2>3 DEF Write, TypeInv
  <2> QED BY <2>2, <2>3
<1>3. ASSUME NEW d \in Client, Listen(d) PROVE Ordered(c)'
  <2>1. Head(down[d]) \in DownFrame /\ UNCHANGED <<handler, handled>>
    BY <1>3 DEF Listen, TypeInv
  <2>2. CASE UNCHANGED <<up, written>>
    BY <1>1, <2>1, <2>2
  <2>3. CASE ~UNCHANGED <<up, written>>
    <3> DEFINE f == Reply(Head(down[d]))[1]
    <3>1. Reply(Head(down[d])) # <<>> /\ Write(d, f)
      BY <1>3, <2>3 DEF Listen
    <3>2. f \in UpFrame
      BY <2>1, <3>1, Replies
    <3> HIDE DEF f
    <3>3. CASE c = d
      BY <1>0, <2>1, <3>1, <3>2, <3>3, WriteOrdered
    <3>4. CASE c # d
      BY <1>1, <2>1, <3>1, <3>4 DEF Write, TypeInv
    <3> QED BY <3>3, <3>4
  <2> QED BY <2>2, <2>3
<1>4. ASSUME NEW d \in Client, Ends(d), UNCHANGED history PROVE Ordered(c)'
  <2>1. CASE c = d
    <3>1. ~Alive(c)'
      BY <1>4, <2>1, EndTyped DEF Alive
    <3>2. UNCHANGED <<written, handled>>
      BY <1>4 DEF history
    <3> QED BY <1>0, <3>1, <3>2 DEF Ordered
  <2>2. CASE c # d
    BY <1>1, <1>4, <2>2, EndTyped DEF history
  <2> QED BY <2>1, <2>2
<1>5. ASSUME NEW d \in Client, ReadHeader(d) PROVE Ordered(c)'
  <2>1. CASE Ends(d)
    BY <1>4, <1>5, <2>1 DEF ReadHeader
  <2>2. CASE ~Ends(d)
    <3>1. handler' = [handler EXCEPT ![d] = [at |-> "body"]] /\ UNCHANGED <<up, written, handled>>
      BY <1>5, <2>2 DEF ReadHeader, history
    <3>2. Alive(c)' <=> Alive(c)
      BY <1>5, <3>1, States DEF Alive, ReadHeader, TypeInv
    <3> QED BY <1>0, <3>1, <3>2 DEF Ordered
  <2> QED BY <2>1, <2>2
<1>6. ASSUME NEW d \in Client, ReadBody(d) PROVE Ordered(c)'
  <2>1. CASE c = d
    BY <1>0, <1>6, <2>1, HandleOrdered
  <2>2. CASE c # d
    <3>1. handler'[c] = handler[c] /\ up'[c] = up[c]
      BY <1>6, <2>2, BodyRead, BodyHandled
    <3>2. handled'[c] = handled[c] /\ written'[c] = written[c]
      BY <1>6, <2>2 DEF ReadBody, TypeInv
    <3> QED BY <1>1, <3>1, <3>2
  <2> QED BY <2>1, <2>2
<1>7. ASSUME NEW d \in Client, Drained(d) PROVE Ordered(c)'
  <2>1. UNCHANGED <<up, written, handled>>
    BY <1>7 DEF Drained, history
  <2>2. handler'[c] = handler[c] \/ (handler[c].at = "drain" /\ handler'[c].at \in {"header", "drain"})
    BY <1>7, States DEF Drained, Send, Waiting, TypeInv
  <2>3. Alive(c)' <=> Alive(c)
    BY <2>2 DEF Alive
  <2> QED BY <1>0, <2>1, <2>3 DEF Ordered
<1>8. ASSUME NEW d \in Client, Timeout(d) PROVE Ordered(c)'
  <2>1. CASE c = d
    BY <1>0, <1>8, <2>1, TimeoutOrdered
  <2>2. CASE c # d
    <3>1. UNCHANGED <<up[c], handler[c], written[c], handled[c]>>
      BY <1>8, <2>2 DEF Timeout, Send, history, TypeInv
    <3> QED BY <1>1, <3>1
  <2> QED BY <2>1, <2>2
<1>9. ASSUME NEW d \in Client, Sent(d) \/ Listened(d) PROVE Ordered(c)'
  BY <1>1, <1>9 DEF Sent, Listened, streams, history
<1>10. ASSUME NEW d \in Client, DrainFails(d) PROVE Ordered(c)'
  BY <1>4, <1>10 DEF DrainFails
<1>11. CASE UNCHANGED vars
  BY <1>1, <1>11 DEF vars, streams, history
<1> QED BY <1>2, <1>3, <1>5, <1>6, <1>7, <1>8, <1>9, <1>10, <1>11 DEF Next, Listener, Handler

(* HandledInOrder: the relay handles a client's frames in the order they   *)
(* were written and none behind one that it has not handled, however often *)
(* its reads are cancelled in the middle of a frame.                       *)
THEOREM FramesInOrder == Spec => []HandledInOrder
<1>1. Init => OrderInv
  BY DEF Init, OrderInv, Ordered
<1>2. TypeInv /\ OrderInv => HandledInOrder
  <2> SUFFICES ASSUME TypeInv, OrderInv, NEW c \in Client
               PROVE  IsPrefix(handled[c], written[c])
    BY DEF HandledInOrder
  <2> DEFINE h == handled[c]
             w == written[c]
  <2>1. /\ h \in Seq(UpFrame) /\ w \in Seq(UpFrame)
        /\ Len(h) <= Len(w) /\ \A i \in 1..Len(h) : h[i] = w[i]
    BY DEF TypeInv, OrderInv, Ordered
  <2> HIDE DEF h, w
  <2>2. SubSeq(h, 1, Len(h)) = SubSeq(w, 1, Len(h))
    BY <2>1
  <2> QED BY <2>1, <2>2 DEF IsPrefix, h, w
<1> QED BY <1>1, <1>2, OrderIsKept, TypesAreKept, PTL DEF Spec

-----------------------------------------------------------------------------
(* What frames are there for.                                              *)

(* A client writes its own messages, and acknowledges published ones. *)
UpCause(c, f) ==
    /\ f.type = "publish" => From[f.message] = c
    /\ f.type \in {"publish", "client_ack"} => f.message \in Published

(* The relay pings after a timeout; the rest is about published messages.  *)
DownCause(c, f) ==
    /\ f.type = "ping" => timeouts > 0
    /\ f.type # "ping" => f.message \in Published
    /\ f.type = "push" => To[f.message] = c

(* A handler waits for the stream of its own client, of the recipient of a *)
(* message of its client, or of the sender of one that was acknowledged.   *)
DrainCause(c, h) ==
    /\ DownCause(h.to, h.frame)
    /\ h.frame.type \in {"push", "relay_ack"} => From[h.frame.message] = c
    /\ h.frame.type = "delivery_ack" => h.to = From[h.frame.message]
    /\ h.next # <<>> => /\ h.frame.type = "push"
                        /\ h.next = <<Frame("relay_ack", h.frame.message)>>

(* A listener writes for what was pushed to it, or a ping. *)
ListenerCause(c) == timeouts > 0 \/ \E m \in Published : To[m] = c

UpFlow(c) == \A f \in ToSet(up[c]) : UpCause(c, f)
DownFlow(c) == \A f \in ToSet(down[c]) : DownCause(c, f)
DrainFlow(c) == handler[c].at = "drain" => DrainCause(c, handler[c])
ListenFlow(c) == listener[c] = "drain" => ListenerCause(c)

Flow(c) == UpFlow(c) /\ DownFlow(c) /\ DrainFlow(c) /\ ListenFlow(c)
FlowInv == \A c \in Client : Flow(c)

(* The fields of the frames. *)
LEMMA FrameFields ==
    /\ \A t, m : Frame(t, m).type = t /\ Frame(t, m).message = m
    /\ \A t : Signal(t).type = t
BY DEF Frame, Signal

(* What a client writes is among what it has written, and in its stream.   *)
LEMMA WriteAdds ==
    ASSUME TypeInv, NEW c \in Client, NEW f \in UpFrame, Write(c, f)
    PROVE  /\ ToSet(written'[c]) = ToSet(written[c]) \union {f}
           /\ ToSet(up'[c]) = ToSet(up[c]) \union {f}
           /\ \A d \in Client \ {c} : written'[d] = written[d] /\ up'[d] = up[d]
<1>1. f \in Unread /\ up[c] \in Seq(Unread) /\ written[c] \in Seq(UpFrame)
  BY UnreadFrames DEF TypeInv
<1>2. up'[c] = Append(up[c], f) /\ written'[c] = Append(written[c], f)
  BY DEF Write, TypeInv
<1>3. \A d \in Client \ {c} : written'[d] = written[d] /\ up'[d] = up[d]
  BY DEF Write, TypeInv
<1>4. ToSet(Append(up[c], f)) = ToSet(up[c]) \union {f}
  BY <1>1, ElementsOfAppend
<1>5. ToSet(Append(written[c], f)) = ToSet(written[c]) \union {f}
  BY <1>1, ElementsOfAppend
<1> QED BY <1>2, <1>3, <1>4, <1>5

(* What the relay sends is in the stream to the client it is for. *)
LEMMA SendAdds ==
    ASSUME TypeInv, NEW c \in Client, NEW to \in Client, NEW f \in DownFrame,
           NEW next, Send(c, to, f, next)
    PROVE  /\ ToSet(down'[to]) = ToSet(down[to]) \union {f}
           /\ \A d \in Client \ {to} : down'[d] = down[d]
<1>1. down[to] \in Seq(DownFrame)
  BY DEF TypeInv
<1>2. /\ down'[to] = Append(down[to], f)
      /\ \A d \in Client \ {to} : down'[d] = down[d]
  BY DEF Send, TypeInv
<1>3. ToSet(Append(down[to], f)) = ToSet(down[to]) \union {f}
  BY <1>1, ElementsOfAppend
<1> QED BY <1>2, <1>3

(* Messages that were published stay so, and timeouts do not go back.      *)
LEMMA PublishedStay ==
    ASSUME TypeInv, [Next]_vars
    PROVE  Published \subseteq Published' /\ (timeouts > 0 => timeouts' > 0)
<1> USE DEF Published
<1>1. CASE UNCHANGED written /\ (timeouts' = timeouts \/ timeouts' = timeouts + 1)
  BY <1>1 DEF TypeInv
<1>2. ASSUME NEW c \in Client, NEW f \in UpFrame, Write(c, f), UNCHANGED timeouts
      PROVE  Published \subseteq Published' /\ (timeouts > 0 => timeouts' > 0)
  <2>1. \A d \in Client : ToSet(written[d]) \subseteq ToSet(written'[d])
    BY <1>2, WriteAdds
  <2> QED BY <1>2, <2>1, WireAssumption
<1>3. ASSUME NEW m \in Message, Publish(m)
      PROVE  Published \subseteq Published' /\ (timeouts > 0 => timeouts' > 0)
  BY <1>2, <1>3, WireAssumption, UpFrames DEF Publish
<1>4. ASSUME NEW c \in Client, Listen(c)
      PROVE  Published \subseteq Published' /\ (timeouts > 0 => timeouts' > 0)
  <2>1. Head(down[c]) \in DownFrame
    BY <1>4 DEF Listen, TypeInv
  <2>2. CASE UNCHANGED written
    BY <1>1, <1>4, <2>2 DEF Listen
  <2>3. CASE ~UNCHANGED written
    <3>1. Reply(Head(down[c])) # <<>> /\ Write(c, Reply(Head(down[c]))[1])
      BY <1>4, <2>3 DEF Listen
    <3> QED BY <1>2, <1>4, <2>1, <3>1, Replies DEF Listen
  <2> QED BY <2>2, <2>3
<1>5. ASSUME NEW c \in Client,
             Sent(c) \/ Listened(c) \/ Handler(c) \/ DrainFails(c) \/ Timeout(c)
      PROVE  Published \subseteq Published' /\ (timeouts > 0 => timeouts' > 0)
  <2>1. UNCHANGED written /\ (timeouts' = timeouts \/ timeouts' = timeouts + 1)
    BY <1>5 DEF Sent, Listened, Handler, ReadHeader, ReadBody, Drained, DrainFails,
                Timeout, history
  <2> QED BY <1>1, <2>1
<1>6. CASE UNCHANGED vars
  BY <1>1, <1>6 DEF vars, history
<1> QED BY <1>3, <1>4, <1>5, <1>6 DEF Next, Listener

(* So what was there for a reason still is. *)
LEMMA CausesStay ==
    ASSUME Published \subseteq Published', timeouts > 0 => timeouts' > 0
    PROVE  /\ \A c, f : UpCause(c, f) => UpCause(c, f)'
           /\ \A c, f : DownCause(c, f) => DownCause(c, f)'
           /\ \A c, h : DrainCause(c, h) => DrainCause(c, h)'
           /\ \A c : ListenerCause(c) => ListenerCause(c)'
<1>1. \A c, f : UpCause(c, f) => UpCause(c, f)'
  BY DEF UpCause
<1>2. \A c, f : DownCause(c, f) => DownCause(c, f)'
  BY DEF DownCause
<1>3. \A c, h : DrainCause(c, h) => DrainCause(c, h)'
  BY <1>2 DEF DrainCause
<1>4. \A c : ListenerCause(c) => ListenerCause(c)'
  BY DEF ListenerCause
<1> QED BY <1>1, <1>2, <1>3, <1>4

(* A handler that sends for a reason waits for one. *)
LEMMA SendFlows ==
    ASSUME TypeInv, FlowInv, [Next]_vars,
           NEW c \in Client, NEW to \in Client, NEW f \in DownFrame, NEW next \in Follows,
           Send(c, to, f, next), DrainCause(c, Waiting(to, f, next))',
           NEW d \in Client
    PROVE  DownFlow(d)' /\ DrainFlow(d)'
<1>1. Waiting(to, f, next).to = to /\ Waiting(to, f, next).frame = f
  BY States
<1>2. DownCause(to, f)'
  BY <1>1 DEF DrainCause
<1>3. /\ \A a, b : DownCause(a, b) => DownCause(a, b)'
      /\ \A a, b : DrainCause(a, b) => DrainCause(a, b)'
  BY PublishedStay, CausesStay
<1>4. DownFlow(d)'
  <2>1. \A b \in ToSet(down[d]) : DownCause(d, b)'
    BY <1>3 DEF FlowInv, Flow, DownFlow
  <2>2. CASE d = to
    <3>1. ToSet(down'[d]) = ToSet(down[d]) \union {f}
      BY <2>2, SendAdds
    <3> QED BY <1>2, <2>1, <2>2, <3>1 DEF DownFlow
  <2>3. CASE d # to
    <3>1. down'[d] = down[d]
      BY <2>3, SendAdds
    <3> QED BY <2>1, <3>1 DEF DownFlow
  <2> QED BY <2>2, <2>3
<1>5. DrainFlow(d)'
  <2>1. CASE d = c
    BY <2>1, SendTyped DEF DrainFlow
  <2>2. CASE d # c
    <3>1. PICK h : h = handler[d]
      OBVIOUS
    <3>2. handler'[d] = h
      BY <2>2, <3>1, SendTyped
    <3>3. h.at = "drain" => DrainCause(d, h)
      BY <3>1 DEF FlowInv, Flow, DrainFlow
    <3>4. h.at = "drain" => DrainCause(d, h)'
      BY <1>3, <3>3
    <3> QED BY <3>2, <3>4 DEF DrainFlow
  <2> QED BY <2>1, <2>2
<1> QED BY <1>4, <1>5

(* Every frame, and everyone that waits, has a reason after any step.      *)
LEMMA FlowIsKept ==
    ASSUME TypeInv, FlowInv, [Next]_vars
    PROVE  FlowInv'
<1> SUFFICES ASSUME NEW c \in Client PROVE Flow(c)'
  BY DEF FlowInv
<1>0. /\ \A d \in Client : UpFlow(d) /\ DownFlow(d) /\ DrainFlow(d) /\ ListenFlow(d)
      /\ \A a, b : UpCause(a, b) => UpCause(a, b)'
      /\ \A a, b : DownCause(a, b) => DownCause(a, b)'
      /\ \A a, b : DrainCause(a, b) => DrainCause(a, b)'
      /\ \A a : ListenerCause(a) => ListenerCause(a)'
  BY PublishedStay, CausesStay DEF FlowInv, Flow
<1>1. ASSUME ToSet(up'[c]) \subseteq ToSet(up[c]) \/ ToSet(up'[c]) \subseteq ToSet(up[c]) \union {Signal("body")}
      PROVE  UpFlow(c)'
  <2>1. \A a : UpCause(a, Signal("body"))'
    BY FrameFields DEF UpCause
  <2> QED BY <1>0, <1>1, <2>1 DEF UpFlow
<1>2. ASSUME ToSet(down'[c]) \subseteq ToSet(down[c]) PROVE DownFlow(c)'
  BY <1>0, <1>2 DEF DownFlow
<1>3. ASSUME handler'[c] = handler[c] \/ handler'[c].at # "drain" PROVE DrainFlow(c)'
  BY <1>0, <1>3 DEF DrainFlow
<1>4. ASSUME listener'[c] = listener[c] \/ listener'[c] # "drain" PROVE ListenFlow(c)'
  BY <1>0, <1>4 DEF ListenFlow
<1>5. ASSUME NEW m \in Message, Publish(m) PROVE Flow(c)'
  <2> DEFINE f == Frame("publish", m)
  <2>1. /\ From[m] \in Client /\ f \in UpFrame /\ Write(From[m], f)
        /\ UNCHANGED <<down, handler, listener>>
    BY <1>5, WireAssumption, UpFrames DEF Publish
  <2>2. UpFlow(c)'
    <3>1. CASE c = From[m]
      <4>1. ToSet(up'[c]) = ToSet(up[c]) \union {f} /\ f \in ToSet(written'[c])
        BY <2>1, <3>1, WriteAdds
      <4>2. UpCause(c, f)'
        BY <3>1, <4>1, FrameFields DEF UpCause, Published
      <4> QED BY <1>0, <4>1, <4>2 DEF UpFlow
    <3>2. CASE c # From[m]
      BY <1>1, <2>1, <3>2, WriteAdds
    <3> QED BY <3>1, <3>2
  <2> QED BY <1>2, <1>3, <1>4, <2>1, <2>2 DEF Flow
<1>6. ASSUME NEW d \in Client, Listen(d) PROVE Flow(c)'
  <2> DEFINE f == Head(down[d])
  <2>1. /\ f \in DownFrame /\ f \in ToSet(down[d])
        /\ ToSet(down'[c]) \subseteq ToSet(down[c])
        /\ UNCHANGED handler
    <3>1. down[d] \in Seq(DownFrame) /\ down[d] # <<>>
      BY <1>6 DEF Listen, TypeInv
    <3>2. /\ f \in ToSet(down[d]) /\ ToSet(down[d]) = {f} \union ToSet(Tail(down[d]))
          /\ f \in DownFrame
      BY <3>1, ElementsOfTail
    <3>3. down' = [down EXCEPT ![d] = Tail(@)] /\ UNCHANGED handler
      BY <1>6 DEF Listen
    <3> QED BY <3>2, <3>3 DEF TypeInv
  <2>2. DownCause(d, f)
    BY <1>0, <2>1 DEF DownFlow
  <2> HIDE DEF f
  <2>3. CASE UNCHANGED <<up, listener>>
    BY <1>1, <1>2, <1>3, <1>4, <2>1, <2>3 DEF Flow
  <2>4. CASE ~UNCHANGED <<up, listener>>
    <3>0. PICK r : r = Reply(f)[1]
      OBVIOUS
    <3>1. Reply(f) # <<>> /\ Write(d, r) /\ listener' = [listener EXCEPT ![d] = "drain"]
      BY <1>6, <2>4, <3>0 DEF Listen, f
    <3>2. r \in UpFrame /\ UpCause(d, r)' /\ ListenerCause(d)'
      <4>1. CASE f.type = "push"
        <5>0. PICK m : m = f.message
          OBVIOUS
        <5>1. r = Frame("client_ack", m)
          BY <3>0, <4>1, <5>0 DEF Reply
        <5>2. m \in Published /\ To[m] = d
          BY <2>2, <4>1, <5>0 DEF DownCause
        <5>3. m \in Message
          BY <5>2 DEF Published
        <5>4. UpCause(d, r) /\ ListenerCause(d)
          BY <5>1, <5>2, FrameFields DEF UpCause, ListenerCause
        <5> QED BY <1>0, <5>1, <5>3, <5>4, UpFrames
      <4>2. CASE f.type = "ping"
        <5>1. r = Signal("pong")
          BY <3>0, <4>2 DEF Reply
        <5>2. UpCause(d, r) /\ ListenerCause(d)
          BY <2>2, <4>2, <5>1, FrameFields DEF UpCause, ListenerCause, DownCause
        <5> QED BY <1>0, <5>1, <5>2, UpFrames
      <4> QED BY <3>1, <4>1, <4>2 DEF Reply
    <3>3. UpFlow(c)'
      <4>1. CASE c = d
        <5>1. ToSet(up'[c]) = ToSet(up[c]) \union {r}
          BY <3>1, <3>2, <4>1, WriteAdds
        <5> QED BY <1>0, <3>2, <4>1, <5>1 DEF UpFlow
      <4>2. CASE c # d
        BY <1>1, <3>1, <3>2, <4>2, WriteAdds
      <4> QED BY <4>1, <4>2
    <3>4. ListenFlow(c)'
      <4>1. CASE c = d
        BY <3>2, <4>1 DEF ListenFlow
      <4>2. CASE c # d
        BY <1>4, <3>1, <4>2 DEF TypeInv
      <4> QED BY <4>1, <4>2
    <3> QED BY <1>2, <1>3, <2>1, <3>3, <3>4 DEF Flow
  <2> QED BY <2>3, <2>4
<1>7. ASSUME NEW d \in Client, Ends(d), UNCHANGED <<down, listener>> PROVE Flow(c)'
  <2>1. up'[d] = <<>> /\ (c # d => up'[c] = up[c] /\ handler'[c] = handler[c])
        /\ handler'[d].at = "ended"
    BY <1>7, EndTyped
  <2>2. UpFlow(c)'
    BY <1>1, <2>1, NoElements
  <2>3. DrainFlow(c)'
    BY <1>3, <2>1
  <2> QED BY <1>2, <1>4, <1>7, <2>2, <2>3 DEF Flow
<1>8. ASSUME NEW d \in Client, ReadHeader(d) PROVE Flow(c)'
  <2>1. CASE Ends(d)
    BY <1>7, <1>8, <2>1 DEF ReadHeader
  <2>2. CASE ~Ends(d)
    <3>1. /\ handler' = [handler EXCEPT ![d] = [at |-> "body"]]
          /\ UNCHANGED <<up, down, listener>>
      BY <1>8, <2>2 DEF ReadHeader
    <3>2. handler'[c] = handler[c] \/ handler'[c].at # "drain"
      BY <3>1 DEF TypeInv
    <3> QED BY <1>1, <1>2, <1>3, <1>4, <3>1, <3>2 DEF Flow
  <2> QED BY <2>1, <2>2
<1>9. ASSUME NEW d \in Client, ReadBody(d) PROVE Flow(c)'
  <2> DEFINE f == Head(up[d])
  <2>0. PICK m : m = f.message
    OBVIOUS
  <2>1. UpFlow(c)' /\ f \in UpFrame /\ UpCause(d, f)
    <3>1. /\ up[d] # <<>> /\ up[d] \in Seq(Unread) /\ f \in UpFrame
          /\ up' = [up EXCEPT ![d] = Tail(@)]
          /\ \A e \in Client \ {d} : up'[e] = up[e]
      BY <1>9, BodyRead DEF TypeInv
    <3>2. f \in ToSet(up[d]) /\ ToSet(Tail(up[d])) \subseteq ToSet(up[d])
      BY <3>1, ElementsOfTail
    <3>3. up'[d] = Tail(up[d])
      BY <3>1 DEF TypeInv
    <3> QED BY <1>0, <1>1, <3>1, <3>2, <3>3 DEF UpFlow
  <2>2. ListenFlow(c)'
    BY <1>4, <1>9 DEF ReadBody
  <2>3. CASE f.type = "publish"
    <3>1. m \in Message /\ m \in Published /\ From[m] = d
      BY <2>0, <2>1, <2>3, UpFrames DEF UpCause
    <3>2. CASE Alive(To[m])
      <4> DEFINE p == Frame("push", m)
                 w == Waiting(To[m], p, <<Frame("relay_ack", m)>>)
      <4>1. Send(d, To[m], p, <<Frame("relay_ack", m)>>)
        BY <1>9, <2>0, <2>3, <3>2 DEF ReadBody
      <4>2. To[m] \in Client /\ p \in DownFrame /\ <<Frame("relay_ack", m)>> \in Follows
        BY <3>1, WireAssumption, DownFrames, FollowingFrames
      <4>3. p.type = "push" /\ p.message = m
        BY FrameFields
      <4>4. w.to = To[m] /\ w.frame = p /\ w.next = <<Frame("relay_ack", m)>>
        BY <4>2, States
      <4> HIDE DEF p, w
      <4>5. DrainCause(d, w)
        BY <3>1, <4>3, <4>4 DEF DrainCause, DownCause
      <4>6. DrainCause(d, w)'
        BY <1>0, <4>5
      <4>7. DownFlow(c)' /\ DrainFlow(c)'
        BY <4>1, <4>2, <4>6, SendFlows DEF w
      <4> QED BY <2>1, <2>2, <4>7 DEF Flow
    <3>3. CASE ~Alive(To[m])
      <4> DEFINE p == Frame("relay_ack", m)
                 w == Waiting(d, p, <<>>)
      <4>1. Send(d, d, p, <<>>)
        BY <1>9, <2>0, <2>3, <3>3 DEF ReadBody
      <4>2. p \in DownFrame /\ <<>> \in Follows
        BY <3>1, DownFrames, FollowingFrames
      <4>3. p.type = "relay_ack" /\ p.message = m
        BY FrameFields
      <4>4. w.to = d /\ w.frame = p /\ w.next = <<>>
        BY <4>2, States
      <4> HIDE DEF p, w
      <4>5. DrainCause(d, w)
        BY <3>1, <4>3, <4>4 DEF DrainCause, DownCause
      <4>6. DrainCause(d, w)'
        BY <1>0, <4>5
      <4>7. DownFlow(c)' /\ DrainFlow(c)'
        BY <4>1, <4>2, <4>6, SendFlows DEF w
      <4> QED BY <2>1, <2>2, <4>7 DEF Flow
    <3> QED BY <3>2, <3>3
  <2>4. CASE f.type = "client_ack" /\ Alive(From[m])
    <3>1. m \in Message /\ m \in Published
      BY <2>0, <2>1, <2>4, UpFrames DEF UpCause
    <3> DEFINE p == Frame("delivery_ack", m)
               w == Waiting(From[m], p, <<>>)
    <3>2. Send(d, From[m], p, <<>>)
      BY <1>9, <2>0, <2>4 DEF ReadBody
    <3>3. From[m] \in Client /\ p \in DownFrame /\ <<>> \in Follows
      BY <3>1, WireAssumption, DownFrames, FollowingFrames
    <3>4. p.type = "delivery_ack" /\ p.message = m
      BY FrameFields
    <3>5. w.to = From[m] /\ w.frame = p /\ w.next = <<>>
      BY <3>3, States
    <3> HIDE DEF p, w
    <3>6. DrainCause(d, w)
      BY <3>1, <3>4, <3>5 DEF DrainCause, DownCause
    <3>7. DrainCause(d, w)'
      BY <1>0, <3>6
    <3>8. DownFlow(c)' /\ DrainFlow(c)'
      BY <3>2, <3>3, <3>7, SendFlows DEF w
    <3> QED BY <2>1, <2>2, <3>8 DEF Flow
  <2>5. CASE f.type # "publish" /\ ~(f.type = "client_ack" /\ Alive(From[m]))
    <3>1. handler' = [handler EXCEPT ![d] = Reading] /\ UNCHANGED down
      BY <1>9, <2>0, <2>5 DEF ReadBody
    <3>2. handler'[c] = handler[c] \/ handler'[c].at # "drain"
      BY <3>1, States DEF TypeInv
    <3> QED BY <1>2, <1>3, <2>1, <2>2, <3>1, <3>2 DEF Flow
  <2> QED BY <2>3, <2>4, <2>5
<1>10. ASSUME NEW d \in Client, Drained(d) PROVE Flow(c)'
  <2>1. UNCHANGED <<up, listener>>
    BY <1>10 DEF Drained
  <2>2. UpFlow(c)' /\ ListenFlow(c)'
    BY <1>1, <1>4, <2>1
  <2>3. CASE handler[d].next = <<>>
    <3>1. handler' = [handler EXCEPT ![d] = Reading] /\ UNCHANGED down
      BY <1>10, <2>3 DEF Drained
    <3>2. handler'[c] = handler[c] \/ handler'[c].at # "drain"
      BY <3>1, States DEF TypeInv
    <3> QED BY <1>2, <1>3, <2>2, <3>1, <3>2 DEF Flow
  <2>4. CASE handler[d].next # <<>>
    <3>0. PICK m : m = handler[d].frame.message
      OBVIOUS
    <3> DEFINE p == Frame("relay_ack", m)
               w == Waiting(d, p, <<>>)
    <3>1. handler[d].at = "drain" /\ Send(d, d, handler[d].next[1], <<>>)
      BY <1>10, <2>4 DEF Drained
    <3>2. DrainCause(d, handler[d])
      BY <1>0, <3>1 DEF DrainFlow
    <3>3. handler[d].frame.type = "push" /\ handler[d].next = <<p>>
      BY <2>4, <3>0, <3>2 DEF DrainCause
    <3>4. From[m] = d /\ m \in Published
      BY <3>0, <3>2, <3>3 DEF DrainCause, DownCause
    <3>5. m \in Message
      BY <3>4 DEF Published
    <3>6. Send(d, d, p, <<>>)
      BY <3>1, <3>3
    <3>7. p.type = "relay_ack" /\ p.message = m
      BY FrameFields
    <3>8. p \in DownFrame /\ <<>> \in Follows
      BY <3>5, DownFrames, FollowingFrames
    <3>9. w.to = d /\ w.frame = p /\ w.next = <<>>
      BY <3>8, States
    <3> HIDE DEF p, w
    <3>10. DrainCause(d, w)
      BY <3>4, <3>7, <3>9 DEF DrainCause, DownCause
    <3>11. DrainCause(d, w)'
      BY <1>0, <3>10
    <3>12. DownFlow(c)' /\ DrainFlow(c)'
      BY <3>6, <3>8, <3>11, SendFlows DEF w
    <3> QED BY <2>2, <3>12 DEF Flow
  <2> QED BY <2>3, <2>4
<1>11. ASSUME NEW d \in Client, Timeout(d) PROVE Flow(c)'
  <2> DEFINE p == Signal("ping")
             w == Waiting(d, p, <<>>)
  <2>1. Send(d, d, p, <<>>) /\ UNCHANGED listener /\ timeouts' > 0
    BY <1>11 DEF Timeout, TypeInv
  <2>2. p.type = "ping" /\ p \in DownFrame /\ <<>> \in Follows
    BY FrameFields, DownFrames, FollowingFrames
  <2>3. w.to = d /\ w.frame = p /\ w.next = <<>>
    BY <2>2, States
  <2>4. UpFlow(c)'
    <3>1. CASE c = d
      <4>1. up'[c] = Remaining(c) /\ up[c] \in Seq(Unread)
        BY <1>11, <3>1 DEF Timeout, TypeInv
      <4>2. CASE handler[c].at = "body"
        <5>1. up[c] # <<>>
          BY <4>2 DEF TypeInv
        <5>2. Tail(up[c]) \in Seq(Unread) /\ ToSet(Tail(up[c])) \subseteq ToSet(up[c])
          BY <4>1, <5>1, ElementsOfTail
        <5>3. up'[c] = <<Signal("body")>> \o Tail(up[c])
          BY <4>1, <4>2 DEF Remaining
        <5>4. <<Signal("body")>> \in Seq(Unread) /\ ToSet(<<Signal("body")>>) = {Signal("body")}
          BY UnreadFrames DEF ToSet
        <5> DEFINE b == <<Signal("body")>>
                   t == Tail(up[c])
        <5>5. b \in Seq(Unread) /\ t \in Seq(Unread)
          BY <5>2, <5>4
        <5> HIDE DEF b, t
        <5>6. ToSet(b \o t) = ToSet(b) \union ToSet(t)
          BY <5>5, ElementsOfConcat
        <5>7. ToSet(up'[c]) = {Signal("body")} \union ToSet(Tail(up[c]))
          BY <5>3, <5>4, <5>6 DEF b, t
        <5> QED BY <1>1, <5>2, <5>7
      <4>3. CASE handler[c].at # "body"
        BY <1>1, <4>1, <4>3 DEF Remaining
      <4> QED BY <4>2, <4>3
    <3>2. CASE c # d
      <4>1. up'[c] = up[c]
        BY <1>11, <3>2 DEF Timeout, TypeInv
      <4> QED BY <1>1, <4>1
    <3> QED BY <3>1, <3>2
  <2> HIDE DEF p, w
  <2>5. DrainCause(d, w)'
    BY <2>1, <2>2, <2>3 DEF DrainCause, DownCause
  <2>6. DownFlow(c)' /\ DrainFlow(c)'
    BY <2>1, <2>2, <2>5, SendFlows DEF w
  <2> QED BY <1>4, <2>1, <2>4, <2>6 DEF Flow
<1>12. ASSUME NEW d \in Client, Sent(d) \/ Listened(d) PROVE Flow(c)'
  <2>1. UNCHANGED <<up, down, handler>> /\ (listener'[c] = listener[c] \/ listener'[c] # "drain")
    BY <1>12 DEF Sent, Listened, streams, TypeInv
  <2> QED BY <1>1, <1>2, <1>3, <1>4, <2>1 DEF Flow
<1>13. ASSUME NEW d \in Client, DrainFails(d) PROVE Flow(c)'
  BY <1>7, <1>13 DEF DrainFails
<1>14. CASE UNCHANGED vars
  BY <1>1, <1>2, <1>3, <1>4, <1>14 DEF Flow, vars, streams
<1> QED BY <1>5, <1>6, <1>8, <1>9, <1>10, <1>11, <1>12, <1>13, <1>14
        DEF Next, Listener, Handler

(* When one client sends and nobody was pinged, a listener that waits is a *)
(* recipient's, so the handlers that are waited for cannot wait for it.    *)
LEMMA NoJam ==
    ASSUME TypeInv, FlowInv, timeouts = 0,
           NEW a \in Client, \A m \in Published : From[m] = a /\ To[m] # a,
           NEW S \in SUBSET Client, S # {}, Jam(S)
    PROVE  FALSE
<1>1. ASSUME NEW c \in S PROVE c # a
  <2>1. ListenerCause(c)
    BY DEF Jam, FlowInv, Flow, ListenFlow
  <2> QED BY <2>1 DEF ListenerCause
<1>2. PICK c \in S : TRUE
  OBVIOUS
<1> DEFINE h == handler[c]
<1>3. h \in HandlerState /\ h.at = "drain" /\ h.to \in S /\ DrainCause(c, h)
  BY DEF Jam, FlowInv, Flow, DrainFlow, TypeInv
<1>4. h.frame \in DownFrame
  BY <1>3, States
<1> HIDE DEF h
<1>5. h.frame.type \in {"push", "relay_ack", "delivery_ack", "ping"}
  BY <1>4 DEF DownFrame, Signal
<1>6. h.frame.type # "ping" /\ h.frame.message \in Published
  BY <1>3 DEF DrainCause, DownCause
<1>7. CASE h.frame.type \in {"push", "relay_ack"}
  BY <1>1, <1>3, <1>6, <1>7 DEF DrainCause
<1>8. CASE h.frame.type = "delivery_ack"
  BY <1>1, <1>3, <1>6, <1>8 DEF DrainCause
<1> QED BY <1>5, <1>6, <1>7, <1>8

(* OneWayNeverJams: as long as one client sends, to others, and no read of *)
(* the relay has timed out, no listeners and handlers wait for each other  *)
(* for ever, however small the buffers and however many recipients.        *)
THEOREM OneWayFlows == Spec => []OneWayNeverJams
<1>1. Init => FlowInv
  <2> SUFFICES ASSUME Init, NEW c \in Client PROVE Flow(c)
    BY DEF FlowInv
  <2>1. /\ up[c] = <<>> /\ down[c] = <<>> /\ handler[c].at = "header"
        /\ listener[c] = "read"
    BY States DEF Init
  <2> QED BY <2>1, NoElements DEF Flow, UpFlow, DownFlow, DrainFlow, ListenFlow
<1>2. TypeInv /\ FlowInv => OneWayNeverJams
  BY NoJam DEF OneWayNeverJams, Jammed
<1> QED BY <1>1, <1>2, FlowIsKept, TypesAreKept, PTL DEF Spec

=============================================================================
