----------------------------- MODULE ChatProofs -----------------------------
(***************************************************************************)
(* Theorems about Chat.tla, for any peers, messages and frames.            *)
(***************************************************************************)
EXTENDS Chat, SequenceLemmas

SentBubble == [message : Sent, status : {"pending", "relayed", "delivered", "failed"}]
ReceivedBubble == [message : Received, status : {"received"}]
Bubbles == SentBubble \union ReceivedBubble

Acks == {"relayed", "delivered"}

Callback == ({"status"} \X Sent \X Acks) \union ({"bubble"} \X Received)

AppState ==
    {Idle} \union ({"send"} \X Sent) \union ({"load", "markread"} \X Peer)
      \union ({"mount"} \X Peer \X Seq(Bubbles))

DialogState ==
    {Closed, <<"open">>} \union ({"load", "select", "insert"} \X Peer)
      \union ({"mount"} \X Seq(Bubbles))

ListenerState ==
    {Off, Idle} \union ({"mark", "tell"} \X Sent \X Acks)
      \union ({"select", "insert", "save", "show"} \X Received)

Rows == {m \in Sent : delivered[m] # None}
Saved == {m \in Received : copies[m] > 0}

(* The rows of a conversation are of messages of its peer, each row is of  *)
(* a message with a status or a count, and each sent message has one.      *)
Match(s, p) ==
    /\ \A k \in 1..Len(s) : PeerOf[s[k]] = p /\ s[k] \in Rows \union Saved
    /\ \A j, k \in 1..Len(s) : s[j] \in Sent /\ s[j] = s[k] => j = k
RowsMatch == \A p \in Peer : Match(rows[p], p)

(* The types. *)
TypeInv ==
    /\ conversations \in SUBSET Peer
    /\ rows \in [Peer -> Seq(Sent \union Received)] /\ RowsMatch
    /\ delivered \in [Sent -> 0..2 \union {None}]
    /\ copies \in [Received -> Nat]
    /\ unread \in [Peer -> Nat]
    /\ locked \in BOOLEAN
    /\ currentPeer \in Peer \union {None}
    /\ bubbles \in Seq(Bubbles)
    /\ app \in AppState
    /\ due \in Seq(Callback) /\ later \in Seq(Callback)
    /\ dialog \in DialogState
    /\ listener \in [Listener -> ListenerState]
    /\ recent \in Seq(Received) /\ Len(recent) <= RecentLength
    /\ connected \in BOOLEAN
    /\ frames \in 0..MaxFrames /\ restarts \in Nat
    /\ published \in SUBSET Sent /\ relayAcked \in SUBSET Sent
    /\ acked \in SUBSET Received /\ early \in SUBSET Received /\ lost \in SUBSET Received
    /\ forgotten \in [Received -> Nat]
    /\ seen \in SUBSET Received /\ left \in SUBSET Received /\ unshown \in SUBSET Received
    /\ dialogLoaded \in BOOLEAN

-----------------------------------------------------------------------------
(* The values of the variables.                                            *)

(* Bubbles are of sent or of received messages, and show which. *)
LEMMA BubbleTypes ==
    /\ \A m \in Sent, st \in {"pending", "relayed", "delivered", "failed"} :
         Bubble(m, st) \in Bubbles
    /\ \A m \in Received : Bubble(m, "received") \in Bubbles
    /\ \A m, st : Bubble(m, st).message = m /\ Bubble(m, st).status = st
    /\ \A b \in Bubbles : b = Bubble(b.message, b.status)
    /\ \A b \in Bubbles : b.message \in Sent \union Received
    /\ \A b \in Bubbles : b.message \in Received <=> b.status = "received"
    /\ \A b \in Bubbles : b.message \in Sent =>
          b.status \in {"pending", "relayed", "delivered", "failed"}
    /\ \A m \in Sent : m \notin Received
BY ChatAssumption DEF Bubble, Bubbles, SentBubble, ReceivedBubble

(* A callback is a status or a bubble. *)
LEMMA CallbackTypes ==
    /\ \A m \in Sent, st \in Acks : <<"status", m, st>> \in Callback
    /\ \A m \in Received : <<"bubble", m>> \in Callback
    /\ \A f \in Callback :
         \/ \E m \in Sent, st \in Acks : f = <<"status", m, st>>
         \/ \E m \in Received : f = <<"bubble", m>>
BY DEF Callback

(* What the app's pump may be doing, ... *)
LEMMA AppTypes ==
    /\ Idle \in AppState
    /\ \A m \in Sent : <<"send", m>> \in AppState
    /\ \A p \in Peer : <<"load", p>> \in AppState /\ <<"markread", p>> \in AppState
    /\ \A p \in Peer, s \in Seq(Bubbles) : <<"mount", p, s>> \in AppState
BY DEF AppState

(* ... and which it is, from its name. *)
LEMMA AppCases ==
    ASSUME NEW a \in AppState
    PROVE  /\ a[1] = "idle" => a = Idle
           /\ a[1] = "send" => a[2] \in Sent /\ a = <<"send", a[2]>>
           /\ a[1] = "load" => a[2] \in Peer /\ a = <<"load", a[2]>>
           /\ a[1] = "mount" => a[2] \in Peer /\ a[3] \in Seq(Bubbles) /\ a = <<"mount", a[2], a[3]>>
           /\ a[1] = "markread" => a[2] \in Peer /\ a = <<"markread", a[2]>>
           /\ a[1] \in {"idle", "send", "load", "mount", "markread"}
<1>1. CASE a = Idle
  BY <1>1 DEF Idle
<1>2. CASE a \in {"send"} \X Sent
  BY <1>2
<1>3. CASE a \in {"load", "markread"} \X Peer
  BY <1>3
<1>4. CASE a \in {"mount"} \X Peer \X Seq(Bubbles)
  <2>1. PICK p \in Peer, s \in Seq(Bubbles) : a = <<"mount", p, s>>
    BY <1>4
  <2> QED BY <2>1
<1> QED BY <1>1, <1>2, <1>3, <1>4 DEF AppState

(* What the dialog may be doing, ... *)
LEMMA DialogTypes ==
    /\ Closed \in DialogState /\ <<"open">> \in DialogState
    /\ \A p \in Peer : /\ <<"load", p>> \in DialogState
                       /\ <<"select", p>> \in DialogState
                       /\ <<"insert", p>> \in DialogState
    /\ \A s \in Seq(Bubbles) : <<"mount", s>> \in DialogState
BY DEF DialogState

(* ... and which it is. *)
LEMMA DialogCases ==
    ASSUME NEW d \in DialogState
    PROVE  /\ d[1] \in {"load", "select", "insert"} => d[2] \in Peer /\ d = <<d[1], d[2]>>
           /\ d[1] = "mount" => d[2] \in Seq(Bubbles) /\ d = <<"mount", d[2]>>
           /\ d[1] \in {"closed", "open", "load", "mount", "select", "insert"}
           /\ d[1] = "closed" => d = Closed
<1>1. CASE d \in {Closed, <<"open">>}
  BY <1>1 DEF Closed
<1>2. CASE d \in {"load", "select", "insert"} \X Peer
  BY <1>2
<1>3. CASE d \in {"mount"} \X Seq(Bubbles)
  <2>1. PICK s \in Seq(Bubbles) : d = <<"mount", s>>
    BY <1>3
  <2> QED BY <2>1
<1> QED BY <1>1, <1>2, <1>3 DEF DialogState

(* What a listener may be doing, ... *)
LEMMA ListenerTypes ==
    /\ Off \in ListenerState /\ Idle \in ListenerState
    /\ \A m \in Sent, st \in Acks : /\ <<"mark", m, st>> \in ListenerState
                                    /\ <<"tell", m, st>> \in ListenerState
    /\ \A m \in Received : /\ <<"select", m>> \in ListenerState
                           /\ <<"insert", m>> \in ListenerState
                           /\ <<"save", m>> \in ListenerState
                           /\ <<"show", m>> \in ListenerState
BY DEF ListenerState

(* ... and which it is. *)
LEMMA ListenerCases ==
    ASSUME NEW h \in ListenerState
    PROVE  /\ h[1] \in {"mark", "tell"} => /\ h[2] \in Sent /\ h[3] \in Acks
                                           /\ h = <<h[1], h[2], h[3]>>
           /\ h[1] \in {"select", "insert", "save", "show"} =>
                h[2] \in Received /\ h = <<h[1], h[2]>>
           /\ h[1] \in {"off", "idle", "mark", "tell", "select", "insert", "save", "show"}
           /\ h[1] = "idle" => h = Idle
           /\ h[1] = "off" => h = Off
<1>1. CASE h \in {Off, Idle}
  BY <1>1 DEF Idle, Off
<1>2. CASE h \in {"mark", "tell"} \X Sent \X Acks
  <2>1. PICK t \in {"mark", "tell"}, m \in Sent, st \in Acks : h = <<t, m, st>>
    BY <1>2
  <2> QED BY <2>1
<1>3. CASE h \in {"select", "insert", "save", "show"} \X Received
  BY <1>3
<1> QED BY <1>1, <1>2, <1>3 DEF ListenerState

-----------------------------------------------------------------------------
(* The rows of a conversation as bubbles.                                  *)

(* A sent message has one bubble at most. *)
Single(s) == \A i, j \in 1..Len(s) :
    s[i].message \in Sent /\ s[i].message = s[j].message => i = j

(* A row becomes a bubble with the status that the database knows. *)
LEMMA Statuses ==
    ASSUME TypeInv, NEW m \in Rows
    PROVE  /\ Status(delivered[m]) \in {"pending", "relayed", "delivered"}
           /\ Status(delivered[m]) = "pending" <=> delivered[m] = 0
           /\ Status(delivered[m]) = "relayed" <=> delivered[m] = 1
           /\ Status(delivered[m]) = "delivered" <=> delivered[m] = 2
<1>1. delivered[m] \in 0..2
  BY DEF Rows, TypeInv
<1>2. delivered[m] = 0 \/ delivered[m] = 1 \/ delivered[m] = 2
  BY <1>1
<1> QED BY <1>2 DEF Status

(* The rows that are too old to be loaded. *)
LEMMA OlderIs ==
    ASSUME TypeInv, NEW p \in Peer
    PROVE  /\ rows[p] \in Seq(Sent \union Received) /\ Len(rows[p]) \in Nat
           /\ Older(p) \in Nat /\ Older(p) <= Len(rows[p])
<1>1. rows[p] \in Seq(Sent \union Received)
  BY DEF TypeInv
<1>2. Len(rows[p]) \in Nat /\ Limit \in Nat \ {0}
  BY <1>1, ChatAssumption
<1>3. Older(p) \in Nat /\ Older(p) <= Len(rows[p])
  <2>1. PICK n \in Nat : n = Len(rows[p])
    BY <1>2
  <2>2. Older(p) = IF n > Limit THEN n - Limit ELSE 0
    BY <2>1 DEF Older
  <2> QED BY <1>2, <2>1, <2>2
<1> QED BY <1>1, <1>2, <1>3

(* A row as a bubble. *)
LEMMA RowBubbles ==
    ASSUME TypeInv, NEW m \in Rows \union Saved
    PROVE  /\ RowBubble(m) \in Bubbles /\ RowBubble(m).message = m
           /\ m \in Sent => m \in Rows /\ RowBubble(m) = Bubble(m, Status(delivered[m]))
           /\ m \in Received => m \in Saved /\ RowBubble(m) = Bubble(m, "received")
<1>1. CASE m \in Rows
  <2>1. m \in Sent /\ m \notin Received
    BY <1>1, BubbleTypes DEF Rows
  <2>2. RowBubble(m) = Bubble(m, Status(delivered[m]))
    BY <2>1 DEF RowBubble
  <2>3. Status(delivered[m]) \in {"pending", "relayed", "delivered"}
    BY <1>1, Statuses
  <2> QED BY <1>1, <2>1, <2>2, <2>3, BubbleTypes
<1>2. CASE m \in Saved
  <2>1. m \in Received /\ m \notin Sent
    BY <1>2, BubbleTypes DEF Saved
  <2>2. RowBubble(m) = Bubble(m, "received")
    BY <2>1 DEF RowBubble
  <2> QED BY <1>2, <2>1, <2>2, BubbleTypes
<1> QED BY <1>1, <1>2

(* What Messages(p) returns: bubbles of rows of the conversation, one only *)
(* for each sent message, and one for every received message among the     *)
(* last rows.                                                              *)
LEMMA MessagesAre ==
    ASSUME TypeInv, NEW p \in Peer
    PROVE  /\ Messages(p) \in Seq(Bubbles)
           /\ \A b \in ToSet(Messages(p)) :
                /\ PeerOf[b.message] = p
                /\ b.message \in Sent =>
                     /\ b.message \in Rows
                     /\ b = Bubble(b.message, Status(delivered[b.message]))
                /\ b.message \in Received => b.message \in Saved
           /\ \A m \in Loadable(p) : Bubble(m, "received") \in ToSet(Messages(p))
           /\ Single(Messages(p))
<1>1. PICK s \in Seq(Sent \union Received), old \in Nat :
         s = rows[p] /\ old = Older(p) /\ old <= Len(s)
  BY OlderIs
<1>2. Len(s) \in Nat /\ Len(s) - old \in Nat
  BY <1>1
<1>3. /\ \A k \in 1..Len(s) : PeerOf[s[k]] = p /\ s[k] \in Rows \union Saved
      /\ \A j, k \in 1..Len(s) : s[j] \in Sent /\ s[j] = s[k] => j = k
  BY <1>1 DEF TypeInv, RowsMatch, Match
<1> DEFINE n == Len(s) - old
           q == Messages(p)
<1>4. q = [k \in 1..n |-> RowBubble(s[old + k])]
  BY <1>1 DEF Messages
<1>5. \A k \in 1..n : old + k \in 1..Len(s)
  BY <1>2
<1> HIDE DEF q
<1>6. \A k \in 1..n : RowBubble(s[old + k]) \in Bubbles /\ RowBubble(s[old + k]).message = s[old + k]
  BY <1>3, <1>5, RowBubbles
<1>7. q \in [1..n -> Bubbles]
  BY <1>4, <1>6
<1>8. n \in Nat
  BY <1>2
<1> HIDE DEF n
<1>9. q \in Seq(Bubbles) /\ Len(q) = n
  BY <1>7, <1>8
<1>10. \A k \in 1..n : q[k] = RowBubble(s[old + k])
  BY <1>4
<1>11. ASSUME NEW b \in ToSet(q)
       PROVE  /\ PeerOf[b.message] = p
              /\ b.message \in Sent => /\ b.message \in Rows
                                       /\ b = Bubble(b.message, Status(delivered[b.message]))
              /\ b.message \in Received => b.message \in Saved
  <2>1. PICK k \in 1..n : q[k] = b
    BY <1>9, ElementsOf
  <2>2. PICK m \in Rows \union Saved : m = s[old + k] /\ PeerOf[m] = p
    BY <1>3, <1>5
  <2>3. b = RowBubble(m)
    BY <1>10, <2>1, <2>2
  <2> QED BY <2>2, <2>3, RowBubbles
<1>12. ASSUME NEW m \in Loadable(p) PROVE Bubble(m, "received") \in ToSet(q)
  <2>1. PICK k \in 1..Len(s) : k > old /\ s[k] = m /\ m \in Received
    BY <1>1 DEF Loadable
  <2>2. k - old \in 1..n /\ old + (k - old) = k
    BY <1>2, <2>1 DEF n
  <2>3. q[k - old] = RowBubble(m)
    BY <1>10, <2>1, <2>2
  <2>4. m \in Rows \union Saved
    BY <1>3, <2>1
  <2> QED BY <1>9, <2>1, <2>2, <2>3, <2>4, RowBubbles, ElementsOf
<1>13. Single(q)
  <2> SUFFICES ASSUME NEW i \in 1..n, NEW j \in 1..n, q[i].message \in Sent,
                      q[i].message = q[j].message
               PROVE  i = j
    BY <1>9 DEF Single
  <2>1. q[i].message = s[old + i] /\ q[j].message = s[old + j]
    BY <1>6, <1>10
  <2>2. old + i \in 1..Len(s) /\ old + j \in 1..Len(s)
    BY <1>5
  <2>3. old + i = old + j
    BY <1>3, <2>1, <2>2
  <2> QED BY <1>1, <1>8, <2>3
<1> QED BY <1>9, <1>11, <1>12, <1>13 DEF q

-----------------------------------------------------------------------------
(* What the operations on the pane and the queues do.                      *)

(* SetAll changes the bubbles of a message, and those only.                *)
LEMMA SetAllChanges ==
    ASSUME bubbles \in Seq(Bubbles), NEW m \in Sent
    PROVE  /\ SetAll(m, "failed") \in Seq(Bubbles)
           /\ Len(SetAll(m, "failed")) = Len(bubbles)
           /\ \A k \in 1..Len(bubbles) :
                SetAll(m, "failed")[k] = IF bubbles[k].message = m THEN Bubble(m, "failed")
                                         ELSE bubbles[k]
<1> DEFINE q == SetAll(m, "failed")
<1>1. DOMAIN bubbles = 1..Len(bubbles) /\ Len(bubbles) \in Nat
  OBVIOUS
<1>2. q = [k \in 1..Len(bubbles) |-> IF bubbles[k].message = m THEN Bubble(m, "failed")
                                     ELSE bubbles[k]]
  BY <1>1 DEF SetAll
<1>3. Bubble(m, "failed") \in Bubbles
  BY BubbleTypes
<1> HIDE DEF q
<1>4. q \in [1..Len(bubbles) -> Bubbles]
  BY <1>2, <1>3
<1>5. q \in Seq(Bubbles) /\ Len(q) = Len(bubbles)
  BY <1>1, <1>4
<1> QED BY <1>2, <1>5 DEF q

(* SetFirst changes one bubble of the message, if there is any.            *)
LEMMA SetFirstChanges ==
    ASSUME bubbles \in Seq(Bubbles), NEW m \in Sent, NEW st \in Acks
    PROVE  /\ SetFirst(m, st) \in Seq(Bubbles)
           /\ Len(SetFirst(m, st)) = Len(bubbles)
           /\ \A k \in 1..Len(bubbles) :
                \/ SetFirst(m, st)[k] = bubbles[k]
                \/ bubbles[k].message = m /\ SetFirst(m, st)[k] = Bubble(m, st)
           /\ \A k \in 1..Len(bubbles) :
                bubbles[k].message = m
                /\ (\A j \in 1..Len(bubbles) : bubbles[j].message = m => j = k)
                => SetFirst(m, st)[k] = Bubble(m, st)
<1> DEFINE q == SetFirst(m, st)
           mine == {k \in 1..Len(bubbles) : bubbles[k].message = m}
<1>1. DOMAIN bubbles = 1..Len(bubbles) /\ Len(bubbles) \in Nat
  OBVIOUS
<1>2. q = [k \in 1..Len(bubbles) |-> IF k \in mine /\ \A j \in mine : k <= j
                                     THEN Bubble(m, st) ELSE bubbles[k]]
  BY <1>1 DEF SetFirst
<1>3. Bubble(m, st) \in Bubbles
  BY BubbleTypes DEF Acks
<1> HIDE DEF q
<1>4. q \in [1..Len(bubbles) -> Bubbles]
  BY <1>2, <1>3
<1>5. q \in Seq(Bubbles) /\ Len(q) = Len(bubbles)
  BY <1>1, <1>4
<1>6. \A k \in 1..Len(bubbles) : q[k] = bubbles[k] \/ (bubbles[k].message = m /\ q[k] = Bubble(m, st))
  BY <1>2
<1>7. ASSUME NEW k \in 1..Len(bubbles), bubbles[k].message = m,
             \A j \in 1..Len(bubbles) : bubbles[j].message = m => j = k
      PROVE  q[k] = Bubble(m, st)
  <2>1. k \in mine /\ \A j \in mine : k <= j
    BY <1>1, <1>7
  <2> QED BY <1>2, <2>1
<1> QED BY <1>5, <1>6, <1>7 DEF q

(* A callback changes bubbles of its message to its status, or appends the *)
(* bubble of a received message.                                           *)
LEMMA ApplyChanges ==
    ASSUME bubbles \in Seq(Bubbles), NEW f \in Callback
    PROVE  /\ Apply(f) \in Seq(Bubbles)
           /\ \A b \in ToSet(Apply(f)) :
                \/ b \in ToSet(bubbles)
                \/ b = Bubble(f[2], f[3]) /\ f[1] = "status"
                \/ b = Bubble(f[2], "received") /\ f[1] = "bubble"
           /\ \A b \in ToSet(bubbles) : b.message \in Received => b \in ToSet(Apply(f))
           /\ f[1] = "bubble" => Bubble(f[2], "received") \in ToSet(Apply(f))
<1>1. CASE \E m \in Sent, st \in Acks : f = <<"status", m, st>>
  <2>1. PICK m \in Sent, st \in Acks : f = <<"status", m, st>>
    BY <1>1
  <2> DEFINE q == SetFirst(m, st)
  <2>2. Apply(f) = q
    BY <2>1 DEF Apply
  <2>3. /\ q \in Seq(Bubbles) /\ Len(q) = Len(bubbles)
        /\ \A k \in 1..Len(bubbles) : \/ q[k] = bubbles[k]
                                      \/ (bubbles[k].message = m /\ q[k] = Bubble(m, st))
    BY SetFirstChanges
  <2> HIDE DEF q
  <2>4. ASSUME NEW b \in ToSet(q) PROVE b \in ToSet(bubbles) \/ b = Bubble(m, st)
    <3>1. PICK k \in 1..Len(q) : q[k] = b
      BY <2>3, ElementsOf
    <3> QED BY <2>3, <3>1, ElementsOf
  <2>5. ASSUME NEW b \in ToSet(bubbles), b.message \in Received PROVE b \in ToSet(q)
    <3>1. PICK k \in 1..Len(bubbles) : bubbles[k] = b
      BY ElementsOf
    <3>2. q[k] = b
      BY <2>3, <2>5, <3>1, BubbleTypes
    <3> QED BY <2>3, <3>2, ElementsOf
  <2> QED BY <2>1, <2>2, <2>3, <2>4, <2>5
<1>2. CASE \E m \in Received : f = <<"bubble", m>>
  <2>1. PICK m \in Received : f = <<"bubble", m>>
    BY <1>2
  <2>2. Apply(f) = Append(bubbles, Bubble(m, "received"))
    BY <2>1 DEF Apply
  <2>3. /\ Append(bubbles, Bubble(m, "received")) \in Seq(Bubbles)
        /\ ToSet(Append(bubbles, Bubble(m, "received")))
             = ToSet(bubbles) \union {Bubble(m, "received")}
    BY BubbleTypes, ElementsOfAppend
  <2> QED BY <2>1, <2>2, <2>3
<1> QED BY <1>1, <1>2, CallbackTypes

(* The ids that are remembered: the new one, and the others but the oldest.*)
LEMMA RememberKeeps ==
    ASSUME TypeInv, NEW m \in Received
    PROVE  /\ Remember(m) \in Seq(Received) /\ Len(Remember(m)) <= RecentLength
           /\ m \in ToSet(Remember(m))
           /\ ToSet(Remember(m)) \subseteq ToSet(recent) \union {m}
           /\ \A r \in ToSet(recent) :
                \/ r \in ToSet(Remember(m))
                \/ Len(recent) = RecentLength /\ r = Head(recent)
<1>1. RecentLength \in Nat \ {0} /\ recent \in Seq(Received) /\ Len(recent) <= RecentLength
  BY ChatAssumption DEF TypeInv
<1>2. CASE Len(recent) = RecentLength
  <2> DEFINE t == Tail(recent)
  <2>1. recent # <<>>
    BY <1>1, <1>2
  <2>2. t \in Seq(Received) /\ ToSet(recent) = {Head(recent)} \union ToSet(t)
    BY <1>1, <2>1, ElementsOfTail
  <2>3. Len(t) = Len(recent) - 1
    BY <1>1, <2>1
  <2>4. Remember(m) = Append(t, m)
    BY <1>2 DEF Remember
  <2> HIDE DEF t
  <2>5. ToSet(Append(t, m)) = ToSet(t) \union {m} /\ Append(t, m) \in Seq(Received)
    BY <2>2, ElementsOfAppend
  <2>6. Len(Append(t, m)) = Len(recent)
    BY <1>1, <2>2, <2>3
  <2> QED BY <1>2, <2>2, <2>4, <2>5, <2>6
<1>3. CASE Len(recent) # RecentLength
  <2>1. Remember(m) = Append(recent, m)
    BY <1>3 DEF Remember
  <2>2. ToSet(Append(recent, m)) = ToSet(recent) \union {m} /\ Append(recent, m) \in Seq(Received)
    BY <1>1, ElementsOfAppend
  <2>3. Len(Append(recent, m)) <= RecentLength
    BY <1>1, <1>3
  <2> QED BY <2>1, <2>2, <2>3
<1> QED BY <1>2, <1>3

-----------------------------------------------------------------------------
(* The types.                                                              *)

(* The rows stay in order when none is added and none is forgotten, ... *)
LEMMA MatchStays ==
    ASSUME Rows \subseteq Rows', Saved \subseteq Saved', NEW s, NEW p, Match(s, p)
    PROVE  Match(s, p)'
BY DEF Match

LEMMA RowsMatchStays ==
    ASSUME TypeInv, rows' = rows, Rows \subseteq Rows', Saved \subseteq Saved'
    PROVE  RowsMatch'
<1> SUFFICES ASSUME NEW p \in Peer PROVE Match(rows[p], p)'
  BY DEF RowsMatch
<1>1. PICK s : s = rows[p] /\ s = rows'[p]
  OBVIOUS
<1>2. Match(s, p)
  BY <1>1 DEF TypeInv, RowsMatch
<1> QED BY <1>1, <1>2, MatchStays DEF Match

LEMMA RowsMatchSame ==
    ASSUME TypeInv, UNCHANGED <<rows, delivered, copies>>
    PROVE  RowsMatch'
BY RowsMatchStays DEF Rows, Saved

(* ... and when one is added. *)
LEMMA RowsMatchAppend ==
    ASSUME TypeInv, Rows \subseteq Rows', Saved \subseteq Saved',
           NEW n \in Sent \union Received, n \in Rows' \union Saved', n \notin Rows,
           rows' = [rows EXCEPT ![PeerOf[n]] = Append(@, n)]
    PROVE  rows' \in [Peer -> Seq(Sent \union Received)] /\ RowsMatch'
<1>0. rows \in [Peer -> Seq(Sent \union Received)]
  BY DEF TypeInv
<1>1. PICK p \in Peer, s \in Seq(Sent \union Received) : p = PeerOf[n] /\ s = rows[p]
  BY <1>0, ChatAssumption
<1> DEFINE t == Append(s, n)
<1>2. /\ t \in Seq(Sent \union Received) /\ Len(t) = Len(s) + 1 /\ t[Len(s) + 1] = n
      /\ \A k \in 1..Len(s) : t[k] = s[k]
      /\ Len(s) \in Nat
  BY AppendProperties
<1>3. rows' = [rows EXCEPT ![p] = t]
  BY <1>1
<1> HIDE DEF t
<1>4. Match(s, p)
  BY <1>1 DEF TypeInv, RowsMatch
<1>5. \A q \in Peer : q # p => rows'[q] = rows[q]
  BY <1>0, <1>3
<1>6. rows'[p] = t /\ rows' \in [Peer -> Seq(Sent \union Received)]
  BY <1>0, <1>2, <1>3
<1>7. \A k \in 1..Len(t) : k \in 1..Len(s) \/ k = Len(s) + 1
  BY <1>2
<1>8. ASSUME NEW k \in 1..Len(s), n \in Sent PROVE s[k] # n
  BY <1>4, <1>8, BubbleTypes DEF Match, Saved
<1>9. Match(t, p)'
  <2>1. \A k \in 1..Len(t) : PeerOf[t[k]] = p /\ t[k] \in Rows' \union Saved'
    BY <1>1, <1>2, <1>4, <1>7 DEF Match
  <2>2. \A j, k \in 1..Len(t) : t[j] \in Sent /\ t[j] = t[k] => j = k
    BY <1>2, <1>4, <1>7, <1>8 DEF Match
  <2> QED BY <2>1, <2>2 DEF Match
<1>10. ASSUME NEW q \in Peer PROVE Match(rows[q], q)'
  <2>1. PICK u : u = rows'[q]
    OBVIOUS
  <2>2. CASE q = p
    <3>1. u = t
      BY <1>6, <2>1, <2>2
    <3> QED BY <1>9, <2>1, <2>2, <3>1
  <2>3. CASE q # p
    <3>1. u = rows[q] /\ Match(u, q)
      BY <1>5, <2>1, <2>3 DEF TypeInv, RowsMatch
    <3>2. Match(u, q)'
      BY <3>1, MatchStays
    <3> QED BY <2>1, <3>2
  <2> QED BY <2>2, <2>3
<1> QED BY <1>6, <1>10 DEF RowsMatch

(* A listener goes over to a job. *)
LEMMA DoesJob ==
    ASSUME TypeInv, NEW l \in Listener, NEW job \in ListenerState, Does(l, job)
    PROVE  /\ listener' \in [Listener -> ListenerState]
           /\ listener'[l] = job
           /\ \A k \in Listener : k # l => listener'[k] = listener[k]
           /\ listener[l] \in ListenerState
BY DEF Does, TypeInv

(* The pane gets bubbles of the messages, and their ids are noted. *)
LEMMA MountTyped ==
    ASSUME TypeInv, NEW bs \in Seq(Bubbles), Mount(bs)
    PROVE  bubbles' \in Seq(Bubbles) /\ seen' \in SUBSET Received
BY DEF Mount, TypeInv

(* The pane is emptied. *)
LEMMA LeaveTyped ==
    ASSUME TypeInv, NEW p \in Peer \union {None}, Leave(p)
    PROVE  /\ currentPeer' \in Peer \union {None} /\ bubbles' \in Seq(Bubbles)
           /\ left' \in SUBSET Received /\ unshown' \in SUBSET Received
BY DEF Leave, TypeInv, BeingShown

(* When a job ends, the callbacks that wait are due. *)
LEMMA JobEndsTyped ==
    ASSUME TypeInv, JobEnds
    PROVE  app' \in AppState /\ due' \in Seq(Callback) /\ later' \in Seq(Callback)
BY AppTypes DEF JobEnds, TypeInv

(* A callback is added to those that wait. *)
LEMMA CallNextTyped ==
    ASSUME TypeInv, NEW f \in Callback, CallNext(f)
    PROVE  later' \in Seq(Callback) /\ ToSet(later') = ToSet(later) \union {f}
<1>1. later \in Seq(Callback) /\ later' = Append(later, f)
  BY DEF TypeInv, CallNext
<1>2. Append(later, f) \in Seq(Callback) /\ ToSet(Append(later, f)) = ToSet(later) \union {f}
  BY <1>1, ElementsOfAppend
<1> QED BY <1>1, <1>2

(* The process is started again. *)
LEMMA StartsAgainTyped ==
    ASSUME TypeInv, StartsAgain
    PROVE  TypeInv'
<1> USE DEF TypeInv, StartsAgain
<1>1. InFlight \subseteq Received
  BY DEF InFlight, BeingShown
<1>2. RowsMatch'
  BY RowsMatchSame
<1>3. app' \in AppState /\ dialog' \in DialogState /\ listener' \in [Listener -> ListenerState]
  BY AppTypes, DialogTypes, ListenerTypes
<1>4. recent' \in Seq(Received) /\ Len(recent') <= RecentLength
  BY ChatAssumption
<1>5. /\ bubbles' \in Seq(Bubbles) /\ due' \in Seq(Callback) /\ later' \in Seq(Callback)
      /\ left' \in SUBSET Received /\ unshown' \in SUBSET Received
      /\ lost' \in SUBSET Received /\ restarts' \in Nat
  BY <1>1 DEF BeingSaved
<1>6. UNCHANGED <<conversations, rows, delivered, copies, unread, seen, forgotten, published,
                  relayAcked, acked, early, frames>>
  OBVIOUS
<1> QED BY <1>2, <1>3, <1>4, <1>5, <1>6

(* The steps of the app's pump. *)
LEMMA AppKeepsTypes ==
    ASSUME TypeInv
    PROVE  /\ AppStep => TypeInv'
           /\ CloseChat => TypeInv'
           /\ \A p \in Peer : SelectConversation(p) => TypeInv'
           /\ \A m \in Sent : SendMessage(m) => TypeInv'
<1> USE DEF TypeInv, store, pane, calls, recency, net, bounds
<1>1. ASSUME NEW m \in Sent, SendMessage(m) PROVE TypeInv'
  <2>1. bubbles' \in Seq(Bubbles)
    BY <1>1, BubbleTypes DEF SendMessage
  <2>2. delivered' \in [Sent -> 0..2 \union {None}]
    BY <1>1 DEF SendMessage
  <2>3. rows' \in [Peer -> Seq(Sent \union Received)] /\ RowsMatch'
    <3>1. m \notin Rows /\ delivered'[m] # None /\ \A n \in Sent : n # m => delivered'[n] = delivered[n]
      BY <1>1, ChatAssumption DEF SendMessage, Rows
    <3>2. Rows \subseteq Rows' /\ m \in Rows' /\ Saved' = Saved
      BY <1>1, <3>1 DEF Rows, Saved, SendMessage
    <3>3. rows' = [rows EXCEPT ![PeerOf[m]] = Append(@, m)]
      BY <1>1 DEF SendMessage
    <3> HIDE DEF TypeInv
    <3> QED BY <3>1, <3>2, <3>3, RowsMatchAppend
  <2>4. app' \in AppState
    BY <1>1, AppTypes DEF SendMessage
  <2> QED BY <1>1, <2>1, <2>2, <2>3, <2>4 DEF SendMessage
<1>2. ASSUME NEW m \in Sent, SendSucceeds(m) PROVE TypeInv'
  <2>1. RowsMatch'
    BY <1>2, RowsMatchSame DEF SendSucceeds
  <2> QED BY <1>2, <2>1, JobEndsTyped DEF SendSucceeds
<1>3. ASSUME NEW m \in Sent, SendFails(m) PROVE TypeInv'
  <2>1. RowsMatch'
    BY <1>3, RowsMatchSame DEF SendFails
  <2>2. bubbles' \in Seq(Bubbles)
    BY <1>3, SetAllChanges DEF SendFails
  <2> QED BY <1>3, <2>1, <2>2, JobEndsTyped DEF SendFails
<1>4. ASSUME NEW p \in Peer, SelectConversation(p) PROVE TypeInv'
  <2>1. RowsMatch'
    BY <1>4, RowsMatchSame DEF SelectConversation
  <2>2. app' \in AppState
    BY <1>4, AppTypes DEF SelectConversation
  <2>3. /\ currentPeer' \in Peer \union {None} /\ bubbles' \in Seq(Bubbles)
        /\ left' \in SUBSET Received /\ unshown' \in SUBSET Received
    <3>1. Leave(p)
      BY <1>4 DEF SelectConversation
    <3> HIDE DEF TypeInv
    <3> QED BY <3>1, LeaveTyped
  <2>4. dialogLoaded' \in BOOLEAN
    BY <1>4 DEF SelectConversation
  <2>5. UNCHANGED <<store, seen, calls, dialog, listener, recency, net, bounds>>
    BY <1>4 DEF SelectConversation
  <2> QED BY <2>1, <2>2, <2>3, <2>4, <2>5
<1>5. ASSUME ReadRows PROVE TypeInv'
  <2>1. RowsMatch'
    BY <1>5, RowsMatchSame DEF ReadRows
  <2>2. app' \in AppState
    BY <1>5, AppTypes, AppCases, MessagesAre DEF ReadRows
  <2> QED BY <1>5, <2>1, <2>2 DEF ReadRows
<1>6. ASSUME MountRows PROVE TypeInv'
  <2>1. RowsMatch'
    BY <1>6, RowsMatchSame DEF MountRows
  <2>2. app[2] \in Peer /\ app[3] \in Seq(Bubbles)
    BY <1>6, AppCases DEF MountRows
  <2>3. app' \in AppState
    BY <1>6, <2>2, AppTypes DEF MountRows
  <2>4. bubbles \o app[3] \in Seq(Bubbles)
    BY <2>2
  <2>5. bubbles' \in Seq(Bubbles) /\ seen' \in SUBSET Received
    BY <1>6, <2>4, MountTyped DEF MountRows
  <2> QED BY <1>6, <2>1, <2>3, <2>5 DEF MountRows
<1>7. ASSUME MarkRead PROVE TypeInv'
  <2>1. RowsMatch'
    BY <1>7, RowsMatchSame DEF MarkRead
  <2>2. unread' \in [Peer -> Nat]
    BY <1>7 DEF MarkRead, MarkedRead
  <2> QED BY <1>7, <2>1, <2>2, JobEndsTyped DEF MarkRead
<1>8. ASSUME CloseChat PROVE TypeInv'
  <2>1. RowsMatch'
    BY <1>8, RowsMatchSame DEF CloseChat
  <2>2. /\ currentPeer' \in Peer \union {None} /\ bubbles' \in Seq(Bubbles)
        /\ left' \in SUBSET Received /\ unshown' \in SUBSET Received
    <3>1. Leave(None)
      BY <1>8 DEF CloseChat
    <3> HIDE DEF TypeInv
    <3> QED BY <3>1, LeaveTyped
  <2>3. due' \in Seq(Callback) /\ later' \in Seq(Callback)
    BY <1>8 DEF CloseChat
  <2>4. UNCHANGED <<store, seen, dialogLoaded, app, dialog, listener, recency, net, bounds>>
    BY <1>8 DEF CloseChat
  <2> QED BY <2>1, <2>2, <2>3, <2>4
<1>9. ASSUME Prompt PROVE TypeInv'
  <2>1. RowsMatch'
    BY <1>9, RowsMatchSame DEF Prompt
  <2> QED BY <1>9, <2>1 DEF Prompt
<1>10. ASSUME RunCallback PROVE TypeInv'
  <2>1. RowsMatch'
    BY <1>10, RowsMatchSame DEF RunCallback
  <2>2. Head(due) \in Callback /\ due' \in Seq(Callback)
    BY <1>10 DEF RunCallback
  <2>3. Apply(Head(due)) \in Seq(Bubbles)
    BY <2>2, ApplyChanges
  <2>4. bubbles' \in Seq(Bubbles) /\ seen' \in SUBSET Received
    BY <1>10, <2>3, MountTyped DEF RunCallback
  <2> QED BY <1>10, <2>1, <2>2, <2>4 DEF RunCallback
<1>11. ASSUME LockedOut PROVE TypeInv'
  BY <1>11, StartsAgainTyped DEF LockedOut
<1> QED BY <1>1, <1>2, <1>3, <1>4, <1>5, <1>6, <1>7, <1>8, <1>9, <1>10, <1>11 DEF AppStep

(* The steps of the dialog. *)
LEMMA DialogKeepsTypes ==
    ASSUME TypeInv
    PROVE  /\ OpenDialog \/ DialogStep => TypeInv'
           /\ \A p \in DialogPeer : SubmitPeer(p) => TypeInv'
<1> USE DEF TypeInv, store, pane, calls, recency, net, bounds
<1>1. ASSUME OpenDialog PROVE TypeInv'
  <2>1. RowsMatch'
    BY <1>1, RowsMatchSame DEF OpenDialog
  <2> QED BY <1>1, <2>1, DialogTypes DEF OpenDialog
<1>2. ASSUME NEW p \in DialogPeer, SubmitPeer(p) PROVE TypeInv'
  <2>1. RowsMatch'
    BY <1>2, RowsMatchSame DEF SubmitPeer
  <2>2. dialog' \in DialogState
    <3>1. dialog' = <<"load", p>> \/ dialog' = <<"select", p>>
      BY <1>2 DEF SubmitPeer
    <3>2. p \in Peer
      BY ChatAssumption
    <3>3. <<"load", p>> \in DialogState /\ <<"select", p>> \in DialogState
      BY <3>2, DialogTypes
    <3> QED BY <3>1, <3>3
  <2>3. p \in Peer \union {None}
    BY ChatAssumption
  <2>4. /\ currentPeer' \in Peer \union {None} /\ bubbles' \in Seq(Bubbles)
        /\ left' \in SUBSET Received /\ unshown' \in SUBSET Received
        /\ dialogLoaded' \in BOOLEAN /\ seen' \in SUBSET Received
    BY <1>2, <2>3, LeaveTyped DEF SubmitPeer
  <2> QED BY <1>2, <2>1, <2>2, <2>4 DEF SubmitPeer
<1>3. ASSUME DialogReadsRows PROVE TypeInv'
  <2>1. RowsMatch'
    BY <1>3, RowsMatchSame DEF DialogReadsRows
  <2>2. dialog' \in DialogState
    BY <1>3, DialogTypes, DialogCases, MessagesAre DEF DialogReadsRows
  <2> QED BY <1>3, <2>1, <2>2 DEF DialogReadsRows
<1>4. ASSUME DialogMountsRows PROVE TypeInv'
  <2>1. RowsMatch'
    BY <1>4, RowsMatchSame DEF DialogMountsRows
  <2>2. dialog[2] \in Seq(Bubbles)
    BY <1>4, DialogCases DEF DialogMountsRows
  <2>3. bubbles \o dialog[2] \in Seq(Bubbles)
    BY <2>2
  <2>4. bubbles' \in Seq(Bubbles) /\ seen' \in SUBSET Received
    BY <1>4, <2>3, MountTyped DEF DialogMountsRows
  <2> QED BY <1>4, <2>1, <2>4, DialogTypes DEF DialogMountsRows
<1>5. ASSUME DialogSelects PROVE TypeInv'
  <2>1. RowsMatch'
    BY <1>5, RowsMatchSame DEF DialogSelects
  <2>2. dialog' \in DialogState
    BY <1>5, DialogTypes, DialogCases DEF DialogSelects
  <2> QED BY <1>5, <2>1, <2>2 DEF DialogSelects
<1>6. ASSUME DialogInserts PROVE TypeInv'
  <2>1. RowsMatch'
    BY <1>6, RowsMatchSame DEF DialogInserts
  <2>2. dialog' \in DialogState /\ conversations' \in SUBSET Peer
    BY <1>6, DialogTypes, DialogCases DEF DialogInserts
  <2> QED BY <1>6, <2>1, <2>2 DEF DialogInserts
<1>7. ASSUME DialogFails PROVE TypeInv'
  BY <1>7, StartsAgainTyped DEF DialogFails
<1> QED BY <1>1, <1>2, <1>3, <1>4, <1>5, <1>6, <1>7 DEF DialogStep

(* A message is saved. *)
LEMMA SavingKeepsTypes ==
    ASSUME TypeInv, NEW l \in Listener, SaveMessage(l)
    PROVE  /\ copies' \in [Received -> Nat] /\ unread' \in [Peer -> Nat]
           /\ rows' \in [Peer -> Seq(Sent \union Received)] /\ RowsMatch'
           /\ listener' \in [Listener -> ListenerState]
<1>0. /\ copies \in [Received -> Nat] /\ unread \in [Peer -> Nat]
      /\ listener[l] \in ListenerState
  BY DEF TypeInv
<1>1. PICK m \in Received : m = listener[l][2] /\ PeerOf[m] \in Peer
  <2>1. listener[l][2] \in Received
    BY <1>0, ListenerCases DEF SaveMessage
  <2> QED BY <2>1, ChatAssumption
<1>2. /\ copies' = [copies EXCEPT ![m] = @ + 1]
      /\ unread' = [unread EXCEPT ![PeerOf[m]] = @ + 1]
      /\ rows' = [rows EXCEPT ![PeerOf[m]] = Append(@, m)]
      /\ Does(l, <<"show", m>>) /\ delivered' = delivered
  BY <1>1 DEF SaveMessage
<1>3. copies' \in [Received -> Nat] /\ unread' \in [Peer -> Nat]
  BY <1>0, <1>1, <1>2
<1>4. copies'[m] > 0 /\ \A n \in Received : copies[n] > 0 => copies'[n] > 0
  BY <1>0, <1>2
<1>5. Rows' = Rows /\ Saved \subseteq Saved' /\ m \in Saved' /\ m \notin Rows
  BY <1>2, <1>4, BubbleTypes DEF Rows, Saved
<1>6. rows' \in [Peer -> Seq(Sent \union Received)] /\ RowsMatch'
  BY <1>2, <1>5, RowsMatchAppend
<1>7. listener' \in [Listener -> ListenerState]
  BY <1>2, ListenerTypes, DoesJob
<1> QED BY <1>3, <1>6, <1>7

(* The steps of a listener. *)
Acts(l) ==
    \/ ListenerStep(l) \/ Connect(l) \/ Disconnect(l)
    \/ \E m \in Sent : \E st \in Acks : ReadAck(l, m, st)
    \/ \E m \in Received : ReadMessage(l, m)

(* They keep the types. *)
LEMMA ListenerKeepsTypes ==
    ASSUME TypeInv, NEW l \in Listener, Acts(l)
    PROVE  TypeInv'
<1> USE DEF TypeInv, store, pane, calls, recency, net, bounds
<1>0. listener[l] \in ListenerState
  OBVIOUS
<1>1. ASSUME NEW m \in Sent, NEW st \in Acks, ReadAck(l, m, st) PROVE TypeInv'
  <2>1. RowsMatch'
    BY <1>1, RowsMatchSame DEF ReadAck
  <2>2. listener' \in [Listener -> ListenerState]
    BY <1>1, ListenerTypes, DoesJob DEF ReadAck
  <2>3. frames' \in 0..MaxFrames
    BY <1>1, ChatAssumption DEF ReadAck, ReadFrame
  <2> QED BY <1>1, <2>1, <2>2, <2>3 DEF ReadAck, ReadFrame
<1>2. ASSUME MarkRow(l) PROVE TypeInv'
  <2>1. PICK m \in Sent, st \in Acks : m = listener[l][2] /\ st = listener[l][3]
    BY <1>0, <1>2, ListenerCases DEF MarkRow
  <2>2. delivered' = [delivered EXCEPT ![m] = Mark(m, st)] /\ Does(l, <<"tell", m, st>>)
    BY <1>2, <2>1 DEF MarkRow
  <2>3. delivered[m] \in 0..2 \union {None} /\ Mark(m, st) \in 0..2 \union {None}
    BY DEF Mark
  <2>4. /\ delivered' \in [Sent -> 0..2 \union {None}]
        /\ delivered'[m] = Mark(m, st)
        /\ \A n \in Sent : n # m => delivered'[n] = delivered[n]
    BY <2>2, <2>3
  <2>5. Rows \subseteq Rows' /\ Saved' = Saved /\ rows' = rows
    <3>1. delivered[m] # None => Mark(m, st) # None
      BY <2>3, ChatAssumption DEF Mark
    <3> QED BY <1>2, <2>4, <3>1 DEF Rows, Saved, MarkRow
  <2>6. RowsMatch'
    BY <2>5, RowsMatchStays
  <2>7. listener' \in [Listener -> ListenerState]
    BY <2>2, ListenerTypes, DoesJob
  <2> QED BY <1>2, <2>4, <2>6, <2>7 DEF MarkRow
<1>3. ASSUME TellApp(l) PROVE TypeInv'
  <2>1. RowsMatch'
    BY <1>3, RowsMatchSame DEF TellApp
  <2>2. <<"status", listener[l][2], listener[l][3]>> \in Callback
    BY <1>0, <1>3, ListenerCases, CallbackTypes DEF TellApp
  <2>3. later' \in Seq(Callback)
    BY <1>3, <2>2 DEF TellApp, CallNext
  <2>4. listener' \in [Listener -> ListenerState]
    BY <1>3, ListenerTypes, DoesJob DEF TellApp
  <2> QED BY <1>3, <2>1, <2>3, <2>4 DEF TellApp
<1>4. ASSUME NEW m \in Received, ReadMessage(l, m) PROVE TypeInv'
  <2>1. RowsMatch'
    BY <1>4, RowsMatchSame DEF ReadMessage
  <2>2. frames' \in 0..MaxFrames
    BY <1>4, ChatAssumption DEF ReadMessage, ReadFrame
  <2>3. CASE m \in ToSet(recent)
    <3>1. acked' \in SUBSET Received /\ early' \in SUBSET Received
      BY <1>4, <2>3 DEF ReadMessage
    <3> QED BY <1>4, <2>1, <2>2, <2>3, <3>1 DEF ReadMessage
  <2>4. CASE m \notin ToSet(recent)
    <3>1. recent' \in Seq(Received) /\ Len(recent') <= RecentLength
      BY <1>4, <2>4, RememberKeeps DEF ReadMessage
    <3>2. forgotten' \in [Received -> Nat]
      <4>1. forgotten' = [r \in Received |-> forgotten[r] +
                            IF Len(recent) = RecentLength /\ r = Head(recent) THEN 1 ELSE 0]
        BY <1>4, <2>4 DEF ReadMessage
      <4>2. ASSUME NEW r \in Received
            PROVE  forgotten[r] + (IF Len(recent) = RecentLength /\ r = Head(recent)
                                   THEN 1 ELSE 0) \in Nat
        BY DEF TypeInv
      <4> QED BY <4>1, <4>2
    <3>3. listener' \in [Listener -> ListenerState]
      BY <1>4, <2>4, ListenerTypes, DoesJob DEF ReadMessage
    <3> QED BY <1>4, <2>1, <2>2, <2>4, <3>1, <3>2, <3>3 DEF ReadMessage, AckNew
  <2> QED BY <2>3, <2>4
<1>5. ASSUME SelectConversationRow(l) PROVE TypeInv'
  <2>1. RowsMatch'
    BY <1>5, RowsMatchSame DEF SelectConversationRow
  <2>2. PICK m \in Received : m = listener[l][2]
    BY <1>0, <1>5, ListenerCases DEF SelectConversationRow
  <2>3. Does(l, <<"save", m>>) \/ Does(l, <<"insert", m>>)
    BY <1>5, <2>2 DEF SelectConversationRow
  <2>4. listener' \in [Listener -> ListenerState]
    BY <2>3, ListenerTypes, DoesJob
  <2> QED BY <1>5, <2>1, <2>4 DEF SelectConversationRow
<1>6. ASSUME InsertConversation(l) PROVE TypeInv'
  <2>1. RowsMatch'
    BY <1>6, RowsMatchSame DEF InsertConversation
  <2>2. PICK m \in Received : m = listener[l][2] /\ PeerOf[m] \in Peer
    BY <1>0, <1>6, ListenerCases, ChatAssumption DEF InsertConversation
  <2>3. listener' \in [Listener -> ListenerState]
    BY <1>6, <2>2, ListenerTypes, DoesJob DEF InsertConversation
  <2> QED BY <1>6, <2>1, <2>2, <2>3 DEF InsertConversation
<1>7. ASSUME InsertFails(l) PROVE TypeInv'
  <2>1. RowsMatch'
    BY <1>7, RowsMatchSame DEF InsertFails
  <2>2. PICK m \in Received : m = listener[l][2]
    BY <1>0, <1>7, ListenerCases DEF InsertFails
  <2>3. listener' \in [Listener -> ListenerState]
    BY <1>7, ListenerTypes, DoesJob DEF InsertFails
  <2>4. locked' \in BOOLEAN /\ lost' \in SUBSET Received
    BY <1>7, <2>2 DEF InsertFails
  <2> QED BY <1>7, <2>1, <2>3, <2>4 DEF InsertFails
<1>8. ASSUME SaveMessage(l) PROVE TypeInv'
  <2> HIDE DEF TypeInv
  <2>1. /\ copies' \in [Received -> Nat] /\ unread' \in [Peer -> Nat]
        /\ rows' \in [Peer -> Seq(Sent \union Received)] /\ RowsMatch'
        /\ listener' \in [Listener -> ListenerState]
    BY <1>8, SavingKeepsTypes
  <2> QED BY <1>8, <2>1 DEF SaveMessage, TypeInv
<1>9. ASSUME ShowMessage(l) PROVE TypeInv'
  <2>1. RowsMatch'
    BY <1>9, RowsMatchSame DEF ShowMessage
  <2>2. PICK m \in Received : m = listener[l][2]
    BY <1>0, <1>9, ListenerCases DEF ShowMessage
  <2>3. later' \in Seq(Callback)
    <3>1. <<"bubble", m>> \in Callback
      BY CallbackTypes
    <3>2. CASE IsShown(m)
      BY <1>9, <2>2, <3>1, <3>2, CallNextTyped DEF ShowMessage
    <3>3. CASE ~IsShown(m)
      BY <1>9, <2>2, <3>3 DEF ShowMessage
    <3> QED BY <3>2, <3>3
  <2>4. listener' \in [Listener -> ListenerState] /\ acked' \in SUBSET Received
    BY <1>9, <2>2, ListenerTypes, DoesJob DEF ShowMessage
  <2> QED BY <1>9, <2>1, <2>3, <2>4 DEF ShowMessage
<1>10. ASSUME ShowFails(l) PROVE TypeInv'
  <2>1. RowsMatch'
    BY <1>10, RowsMatchSame DEF ShowFails
  <2>2. PICK m \in Received : m = listener[l][2]
    BY <1>0, <1>10, ListenerCases DEF ShowFails
  <2>3. /\ listener' \in [Listener -> ListenerState]
        /\ left' \in SUBSET Received /\ unshown' \in SUBSET Received
    BY <1>10, <2>2, ListenerTypes, DoesJob DEF ShowFails
  <2> QED BY <1>10, <2>1, <2>3 DEF ShowFails
<1>11. ASSUME Connect(l) \/ Disconnect(l) PROVE TypeInv'
  <2>1. RowsMatch'
    BY <1>11, RowsMatchSame DEF Connect, Disconnect
  <2>2. listener' \in [Listener -> ListenerState]
    BY <1>11, ListenerTypes, DoesJob DEF Connect, Disconnect
  <2> QED BY <1>11, <2>1, <2>2 DEF Connect, Disconnect
<1> QED BY <1>1, <1>2, <1>3, <1>4, <1>5, <1>6, <1>7, <1>8, <1>9, <1>10, <1>11
        DEF Acts, ListenerStep

(* Every step keeps the types. *)
LEMMA TypesAreKept ==
    ASSUME TypeInv, [Next]_vars
    PROVE  TypeInv'
<1>1. CASE Next
  BY <1>1, AppKeepsTypes, DialogKeepsTypes, ListenerKeepsTypes, StartsAgainTyped
  DEF Next, Restart, Acts, Acks
<1>2. CASE UNCHANGED vars
  <2>1. RowsMatch'
    BY <1>2, RowsMatchSame DEF vars, store
  <2> QED BY <1>2, <2>1 DEF TypeInv, vars, store, pane, calls, recency, net, bounds
<1> QED BY <1>1, <1>2

(* The types of the initial values. *)
LEMMA TypesBegin == Init => TypeInv
<1> SUFFICES ASSUME Init PROVE TypeInv
  OBVIOUS
<1>1. \A p \in Peer : rows[p] = <<>>
  BY DEF Init
<1>2. rows \in [Peer -> Seq(Sent \union Received)] /\ RowsMatch
  BY <1>1 DEF Init, RowsMatch, Match
<1>3. Idle \in AppState /\ Closed \in DialogState /\ Off \in ListenerState
  BY AppTypes, DialogTypes, ListenerTypes
<1>4. bubbles \in Seq(Bubbles) /\ due \in Seq(Callback) /\ later \in Seq(Callback)
  BY DEF Init
<1>5. recent \in Seq(Received) /\ Len(recent) <= RecentLength
  BY ChatAssumption DEF Init
<1>6. /\ conversations \in SUBSET Peer /\ currentPeer \in Peer \union {None}
      /\ delivered \in [Sent -> 0..2 \union {None}]
      /\ copies \in [Received -> Nat] /\ forgotten \in [Received -> Nat]
      /\ unread \in [Peer -> Nat] /\ frames \in 0..MaxFrames
  BY ChatAssumption DEF Init
<1>7. app \in AppState /\ dialog \in DialogState /\ listener \in [Listener -> ListenerState]
  BY <1>3 DEF Init
<1> QED BY <1>2, <1>4, <1>5, <1>6, <1>7 DEF Init, TypeInv

(* TypeOK, for any peers, messages and frames. *)
THEOREM TypesHold == Spec => []TypeOK
<1>1. TypeInv => TypeOK
  <2> SUFFICES ASSUME TypeInv PROVE TypeOK
    OBVIOUS
  <2>1. \A k \in DOMAIN bubbles :
          bubbles[k] \in [message : Sent \union Received,
                          status : {"pending", "relayed", "delivered", "failed", "received"}]
    <3>1. \A k \in DOMAIN bubbles : bubbles[k] \in Bubbles
      BY DEF TypeInv
    <3> QED BY <3>1 DEF Bubbles, SentBubble, ReceivedBubble
  <2>2. \A f \in ToSet(due) \union ToSet(later) : IsCallback(f)
    <3>1. ToSet(due) \subseteq Callback /\ ToSet(later) \subseteq Callback
      BY ElementsOf DEF TypeInv
    <3>2. \A f \in Callback : IsCallback(f)
      BY CallbackTypes DEF IsCallback, Acks
    <3> QED BY <3>1, <3>2
  <2>3. ToSet(recent) \subseteq Received
    BY ElementsOf DEF TypeInv
  <2>4. /\ app[1] \in {"idle", "send", "load", "mount", "markread"}
        /\ dialog[1] \in {"closed", "open", "load", "mount", "select", "insert"}
        /\ \A l \in Listener : listener[l][1] \in
             {"off", "idle", "mark", "tell", "select", "insert", "save", "show"}
    BY AppCases, DialogCases, ListenerCases DEF TypeInv
  <2>5. ASSUME NEW p \in Peer
        PROVE  ToSet(rows[p]) \subseteq {m \in Sent \union Received : PeerOf[m] = p}
    <3>1. /\ rows[p] \in Seq(Sent \union Received)
          /\ \A k \in 1..Len(rows[p]) : PeerOf[rows[p][k]] = p
      BY DEF TypeInv, RowsMatch, Match
    <3> QED BY <3>1, ElementsOf
  <2> QED BY <2>1, <2>2, <2>3, <2>4, <2>5, ChatAssumption DEF TypeInv, TypeOK
<1> QED BY <1>1, TypesBegin, TypesAreKept, PTL DEF Spec

-----------------------------------------------------------------------------
(* What the steps do.                                                      *)

(* The steps of the listeners, the end of the process, and the others.     *)
LEMMA StepsAre ==
    ASSUME [Next]_vars
    PROVE  \/ StartsAgain
           \/ \E l \in Listener : Acts(l)
           \/ /\ UNCHANGED <<listener, copies, recent, forgotten, acked, early, lost, restarts>>
              /\ UNCHANGED <<rows, delivered>> \/ \E m \in Sent : SendMessage(m)
              /\ UNCHANGED unread \/ MarkRead
<1> USE DEF store, recency, net, bounds
<1>1. CASE AppStep \/ CloseChat
  BY <1>1 DEF AppStep, ReadRows, MountRows, MarkRead, LockedOut, Prompt, RunCallback, CloseChat,
              SendSucceeds, SendFails
<1>2. CASE \E p \in Peer : SelectConversation(p)
  BY <1>2 DEF SelectConversation
<1>3. CASE DialogStep \/ OpenDialog \/ \E p \in DialogPeer : SubmitPeer(p)
  BY <1>3 DEF DialogStep, DialogReadsRows, DialogMountsRows, DialogSelects, DialogInserts,
              DialogFails, OpenDialog, SubmitPeer
<1>4. CASE Restart \/ UNCHANGED vars
  BY <1>4 DEF Restart, vars
<1>5. CASE \E m \in Sent : SendMessage(m)
  BY <1>5 DEF SendMessage
<1> QED BY <1>1, <1>2, <1>3, <1>4, <1>5 DEF Next, Acts, Acks

(* The listeners that are about to save a message, and to show it. *)
SavingJobs(m) == {<<"select", m>>, <<"insert", m>>, <<"save", m>>}
Saving(m) == {l \in Listener : listener[l] \in SavingJobs(m)}
Showing(m) == {l \in Listener : listener[l] = <<"show", m>>}

LEMMA BeingIs ==
    /\ \A m \in Received : m \in BeingSaved <=> Saving(m) # {}
    /\ \A m \in Received : m \in BeingShown <=> Showing(m) # {}
    /\ BeingSaved \subseteq Received /\ BeingShown \subseteq Received
BY DEF BeingSaved, BeingShown, Saving, Showing, SavingJobs

(* A listener goes over to a job. *)
LEMMA DoesChanges ==
    ASSUME TypeInv, NEW l \in Listener, NEW job, Does(l, job), NEW m
    PROVE  /\ Saving(m)' = (Saving(m) \ {l}) \union (IF job \in SavingJobs(m) THEN {l} ELSE {})
           /\ Showing(m)' = (Showing(m) \ {l}) \union (IF job = <<"show", m>> THEN {l} ELSE {})
           /\ l \in Saving(m) <=> listener[l] \in SavingJobs(m)
           /\ l \in Showing(m) <=> listener[l] = <<"show", m>>
<1>1. \A k \in Listener : listener'[k] = IF k = l THEN job ELSE listener[k]
  BY DEF Does, TypeInv
<1> HIDE DEF SavingJobs
<1>2. Saving(m)' = (Saving(m) \ {l}) \union (IF job \in SavingJobs(m) THEN {l} ELSE {})
  BY <1>1 DEF Saving, SavingJobs
<1>3. Showing(m)' = (Showing(m) \ {l}) \union (IF job = <<"show", m>> THEN {l} ELSE {})
  BY <1>1 DEF Showing
<1> QED BY <1>2, <1>3 DEF Saving, Showing

(* A listener that neither saves nor shows goes over to such a job. *)
Silent(l) == \A m \in Received : /\ Saving(m)' = Saving(m) /\ Showing(m)' = Showing(m)
                                 /\ l \notin Saving(m) /\ l \notin Showing(m)

LEMMA SilentJobs ==
    ASSUME TypeInv, NEW l \in Listener, NEW job, Does(l, job),
           listener[l][1] \notin {"select", "insert", "save", "show"},
           job[1] \notin {"select", "insert", "save", "show"}
    PROVE  Silent(l)
<1> SUFFICES ASSUME NEW m \in Received
             PROVE  /\ Saving(m)' = Saving(m) /\ Showing(m)' = Showing(m)
                    /\ l \notin Saving(m) /\ l \notin Showing(m)
  BY DEF Silent
<1>1. listener[l] \notin SavingJobs(m) /\ listener[l] # <<"show", m>>
  BY DEF SavingJobs
<1>2. job \notin SavingJobs(m) /\ job # <<"show", m>>
  BY DEF SavingJobs
<1> QED BY <1>1, <1>2, DoesChanges

(* What a step of a listener does to what is saved: nothing, or it is one  *)
(* of the steps of handling a received message.                            *)
LEMMA ListenerActs ==
    ASSUME TypeInv, NEW l \in Listener, Acts(l)
    PROVE  \/ /\ Silent(l)
              /\ UNCHANGED <<rows, copies, unread, recent, forgotten, acked, early, lost,
                             left, unshown>>
           \/ \E n \in Received :
                \/ /\ ReadMessage(l, n) /\ n \in ToSet(recent)
                   /\ Silent(l)
                   /\ acked' = acked \union {n}
                   /\ early' = early \union (BeingSaved \intersect {n})
                   /\ UNCHANGED <<rows, copies, unread, recent, forgotten, lost, left, unshown>>
                \/ /\ ReadMessage(l, n) /\ n \notin ToSet(recent)
                   /\ listener[l] = Idle /\ Does(l, <<"select", n>>)
                   /\ recent' = Remember(n)
                   /\ forgotten' = [r \in Received |-> forgotten[r] +
                         IF Len(recent) = RecentLength /\ r = Head(recent) THEN 1 ELSE 0]
                   /\ UNCHANGED <<rows, copies, unread, acked, early, lost, left, unshown>>
                \/ /\ SelectConversationRow(l) \/ InsertConversation(l)
                   /\ listener[l] \in {<<"select", n>>, <<"insert", n>>}
                   /\ Does(l, <<"insert", n>>) \/ Does(l, <<"save", n>>)
                   /\ UNCHANGED <<rows, copies, unread, recent, forgotten, acked, early, lost,
                                  left, unshown>>
                \/ /\ InsertFails(l)
                   /\ listener[l] = <<"insert", n>> /\ Does(l, Idle)
                   /\ lost' = lost \union {n}
                   /\ UNCHANGED <<rows, copies, unread, recent, forgotten, acked, early,
                                  left, unshown>>
                \/ /\ SaveMessage(l)
                   /\ listener[l] = <<"save", n>> /\ Does(l, <<"show", n>>)
                   /\ rows' = [rows EXCEPT ![PeerOf[n]] = Append(@, n)]
                   /\ copies' = [copies EXCEPT ![n] = @ + 1]
                   /\ unread' = [unread EXCEPT ![PeerOf[n]] = @ + 1]
                   /\ UNCHANGED <<recent, forgotten, acked, early, lost, left, unshown>>
                \/ /\ ShowMessage(l)
                   /\ listener[l] = <<"show", n>> /\ Does(l, Idle)
                   /\ acked' = acked \union {n}
                   /\ UNCHANGED <<rows, copies, unread, recent, forgotten, early, lost,
                                  left, unshown>>
                \/ /\ ShowFails(l)
                   /\ listener[l] = <<"show", n>> /\ Does(l, Idle)
                   /\ left' = left \union {n} /\ unshown' = unshown \union {n}
                   /\ UNCHANGED <<rows, copies, unread, recent, forgotten, acked, early, lost>>
<1> USE DEF store, recency, net, bounds, pane
<1>0. listener[l] \in ListenerState
  BY DEF TypeInv
<1>1. CASE MarkRow(l) \/ TellApp(l) \/ Connect(l) \/ Disconnect(l)
           \/ \E m \in Sent : \E st \in Acks : ReadAck(l, m, st)
  <2>1. PICK job : Does(l, job) /\ job[1] \in {"mark", "tell", "idle", "off"}
    <3>1. ASSUME MarkRow(l) PROVE Does(l, <<"tell", listener[l][2], listener[l][3]>>)
      BY <3>1 DEF MarkRow
    <3>2. TellApp(l) \/ Connect(l) => Does(l, Idle)
      BY DEF TellApp, Connect
    <3>3. Disconnect(l) => Does(l, Off)
      BY DEF Disconnect
    <3>4. ASSUME NEW m, NEW st, ReadAck(l, m, st) PROVE Does(l, <<"mark", m, st>>)
      BY <3>4 DEF ReadAck
    <3>5. /\ Idle[1] = "idle" /\ Off[1] = "off"
          /\ \A m, st : <<"mark", m, st>>[1] = "mark" /\ <<"tell", m, st>>[1] = "tell"
      BY DEF Idle, Off
    <3> HIDE DEF Does, Idle, Off
    <3> QED BY <1>1, <3>1, <3>2, <3>3, <3>4, <3>5
  <2>2. listener[l][1] \in {"mark", "tell", "idle", "off"}
    <3>1. MarkRow(l) \/ TellApp(l) => listener[l][1] \in {"mark", "tell"}
      BY DEF MarkRow, TellApp
    <3>2. Connect(l) \/ Disconnect(l) => listener[l] \in {Off, Idle}
      BY DEF Connect, Disconnect
    <3>3. ASSUME NEW m, NEW st, ReadAck(l, m, st) PROVE listener[l] = Idle
      BY <3>3 DEF ReadAck, ReadFrame
    <3>4. Idle[1] = "idle" /\ Off[1] = "off"
      BY DEF Idle, Off
    <3> QED BY <1>1, <3>1, <3>2, <3>3, <3>4
  <2>3. UNCHANGED <<rows, copies, unread, recent, forgotten, acked, early, lost, left, unshown>>
    BY <1>1 DEF MarkRow, TellApp, Connect, Disconnect, ReadAck
  <2> QED BY <2>1, <2>2, <2>3, SilentJobs
<1>2. ASSUME NEW n \in Received, ReadMessage(l, n), n \in ToSet(recent)
      PROVE  /\ Silent(l)
             /\ acked' = acked \union {n}
             /\ early' = early \union (BeingSaved \intersect {n})
             /\ UNCHANGED <<rows, copies, unread, recent, forgotten, lost, left, unshown>>
  <2>1. listener[l] = Idle /\ UNCHANGED listener
    BY <1>2 DEF ReadMessage, ReadFrame
  <2>2. Does(l, Idle)
    BY <2>1 DEF Does, TypeInv
  <2>3. Silent(l)
    BY <2>1, <2>2, SilentJobs DEF Idle
  <2> QED BY <1>2, <2>3 DEF ReadMessage
<1>3. ASSUME NEW n \in Received, ReadMessage(l, n), n \notin ToSet(recent)
      PROVE  /\ listener[l] = Idle /\ Does(l, <<"select", n>>)
             /\ recent' = Remember(n)
             /\ forgotten' = [r \in Received |-> forgotten[r] +
                   IF Len(recent) = RecentLength /\ r = Head(recent) THEN 1 ELSE 0]
             /\ UNCHANGED <<rows, copies, unread, acked, early, lost, left, unshown>>
  BY <1>3 DEF ReadMessage, ReadFrame, AckNew
<1>4. CASE SelectConversationRow(l) \/ InsertConversation(l)
  <2>1. PICK n \in Received : n = listener[l][2] /\ listener[l] \in {<<"select", n>>, <<"insert", n>>}
    <3>1. listener[l][2] \in Received /\ listener[l] = <<listener[l][1], listener[l][2]>>
          /\ listener[l][1] \in {"select", "insert"}
      BY <1>0, <1>4, ListenerCases DEF SelectConversationRow, InsertConversation
    <3> QED BY <3>1
  <2>2. Does(l, <<"insert", n>>) \/ Does(l, <<"save", n>>)
    BY <1>4, <2>1 DEF SelectConversationRow, InsertConversation
  <2>3. UNCHANGED <<rows, copies, unread, recent, forgotten, acked, early, lost, left, unshown>>
    BY <1>4 DEF SelectConversationRow, InsertConversation
  <2> QED BY <1>4, <2>1, <2>2, <2>3
<1>5. CASE InsertFails(l)
  <2>1. PICK n \in Received : n = listener[l][2] /\ listener[l] = <<"insert", n>>
    BY <1>0, <1>5, ListenerCases DEF InsertFails
  <2>2. /\ Does(l, Idle) /\ lost' = lost \union {n}
        /\ UNCHANGED <<rows, copies, unread, recent, forgotten, acked, early, left, unshown>>
    BY <1>5, <2>1 DEF InsertFails
  <2> QED BY <1>5, <2>1, <2>2
<1>6. CASE SaveMessage(l)
  <2>1. PICK n \in Received : n = listener[l][2] /\ listener[l] = <<"save", n>>
    BY <1>0, <1>6, ListenerCases DEF SaveMessage
  <2>2. /\ Does(l, <<"show", n>>)
        /\ rows' = [rows EXCEPT ![PeerOf[n]] = Append(@, n)]
        /\ copies' = [copies EXCEPT ![n] = @ + 1]
        /\ unread' = [unread EXCEPT ![PeerOf[n]] = @ + 1]
        /\ UNCHANGED <<recent, forgotten, acked, early, lost, left, unshown>>
    BY <1>6, <2>1 DEF SaveMessage
  <2> QED BY <1>6, <2>1, <2>2
<1>7. CASE ShowMessage(l) \/ ShowFails(l)
  <2>1. PICK n \in Received : n = listener[l][2] /\ listener[l] = <<"show", n>>
    BY <1>0, <1>7, ListenerCases DEF ShowMessage, ShowFails
  <2>2. CASE ShowMessage(l)
    <3>1. /\ Does(l, Idle) /\ acked' = acked \union {n}
          /\ UNCHANGED <<rows, copies, unread, recent, forgotten, early, lost, left, unshown>>
      BY <2>1, <2>2 DEF ShowMessage
    <3> QED BY <2>1, <2>2, <3>1
  <2>3. CASE ShowFails(l)
    <3>1. /\ Does(l, Idle)
          /\ left' = left \union {n} /\ unshown' = unshown \union {n}
          /\ UNCHANGED <<rows, copies, unread, recent, forgotten, acked, early, lost>>
      BY <2>1, <2>3 DEF ShowFails
    <3> QED BY <2>1, <2>3, <3>1
  <2> QED BY <1>7, <2>2, <2>3
<1> HIDE DEF store, recency, net, bounds, pane
<1>8. CASE \E n \in Received : ReadMessage(l, n)
  <2>1. PICK n \in Received : ReadMessage(l, n)
    BY <1>8
  <2>2. CASE n \in ToSet(recent)
    BY <1>2, <2>1, <2>2
  <2>3. CASE n \notin ToSet(recent)
    BY <1>3, <2>1, <2>3
  <2> QED BY <2>2, <2>3
<1> QED BY <1>1, <1>4, <1>5, <1>6, <1>7, <1>8 DEF Acts, ListenerStep

(* What all of them leave alone. *)
LEMMA ListenerLeaves ==
    ASSUME TypeInv, NEW l \in Listener, Acts(l)
    PROVE  /\ UNCHANGED <<app, due, dialog, currentPeer, bubbles, seen, dialogLoaded,
                          published, restarts>>
           /\ \A k \in Listener : k # l => listener'[k] = listener[k]
           /\ ~MarkRow(l) => UNCHANGED delivered
           /\ ~TellApp(l) /\ ~ShowMessage(l) => UNCHANGED later
<1> USE DEF store, pane, calls, net, bounds
<1>1. CASE ListenerStep(l) \/ Connect(l) \/ Disconnect(l)
  <2>1. /\ UNCHANGED <<app, due, dialog, currentPeer, bubbles, seen, dialogLoaded, published,
                       restarts>>
        /\ ~MarkRow(l) => UNCHANGED delivered
        /\ ~TellApp(l) /\ ~ShowMessage(l) => UNCHANGED later
    BY <1>1 DEF ListenerStep, MarkRow, TellApp, SelectConversationRow, InsertConversation,
           InsertFails, SaveMessage, ShowMessage, ShowFails, Connect, Disconnect
  <2>2. \E job : Does(l, job)
    BY <1>1 DEF ListenerStep, MarkRow, TellApp, SelectConversationRow, InsertConversation,
           InsertFails, SaveMessage, ShowMessage, ShowFails, Connect, Disconnect
  <2>3. \A k \in Listener : k # l => listener'[k] = listener[k]
    BY <2>2 DEF Does, TypeInv
  <2> QED BY <2>1, <2>3
<1>2. ASSUME NEW m \in Sent, NEW st \in Acks, ReadAck(l, m, st)
      PROVE  /\ UNCHANGED <<app, due, later, dialog, currentPeer, bubbles, seen, dialogLoaded,
                            published, delivered, restarts>>
             /\ \A k \in Listener : k # l => listener'[k] = listener[k]
  BY <1>2 DEF ReadAck, Does, TypeInv
<1>3. ASSUME NEW m \in Received, ReadMessage(l, m)
      PROVE  /\ UNCHANGED <<app, due, later, dialog, currentPeer, bubbles, seen, dialogLoaded,
                            published, delivered, restarts>>
             /\ \A k \in Listener : k # l => listener'[k] = listener[k]
  <2>1. \A k \in Listener : k # l => listener'[k] = listener[k]
    BY <1>3 DEF ReadMessage, Does, TypeInv
  <2> QED BY <1>3, <2>1 DEF ReadMessage
<1> QED BY <1>1, <1>2, <1>3 DEF Acts

-----------------------------------------------------------------------------
(* The status of rows.                                                     *)

(* A listener marks a row. *)
LEMMA MarkingIs ==
    ASSUME TypeInv, NEW l \in Listener, MarkRow(l)
    PROVE  \E m \in Sent, st \in Acks :
              /\ listener[l] = <<"mark", m, st>> /\ Does(l, <<"tell", m, st>>)
              /\ delivered'[m] = Mark(m, st)
              /\ \A n \in Sent : n # m => delivered'[n] = delivered[n]
<1>1. listener[l] \in ListenerState /\ delivered \in [Sent -> 0..2 \union {None}]
  BY DEF TypeInv
<1>2. PICK m \in Sent, st \in Acks : listener[l] = <<"mark", m, st>>
  BY <1>1, ListenerCases DEF MarkRow
<1>3. delivered' = [delivered EXCEPT ![m] = Mark(m, st)] /\ Does(l, <<"tell", m, st>>)
  BY <1>2 DEF MarkRow
<1> QED BY <1>1, <1>2, <1>3

(* The rows advance. *)
LEMMA RowsAdvance ==
    ASSUME TypeInv, [Next]_vars
    PROVE  \A m \in Sent : delivered[m] # None =>
             delivered'[m] # None /\ delivered'[m] >= delivered[m]
<1> DEFINE P == \A m \in Sent : delivered[m] # None =>
                   delivered'[m] # None /\ delivered'[m] >= delivered[m]
<1>0. \A m \in Sent : delivered[m] # None => delivered[m] \in 0..2
  BY DEF TypeInv
<1>1. CASE UNCHANGED delivered
  BY <1>0, <1>1
<1>2. ASSUME NEW m \in Sent, SendMessage(m) PROVE P
  <2>1. delivered[m] = None /\ delivered' = [delivered EXCEPT ![m] = 0]
    BY <1>2 DEF SendMessage
  <2>2. \A n \in Sent \ {m} : delivered'[n] = delivered[n]
    BY <2>1 DEF TypeInv
  <2> QED BY <1>0, <2>1, <2>2
<1>3. ASSUME NEW l \in Listener, MarkRow(l) PROVE P
  <2>1. PICK n \in Sent, st \in Acks :
           /\ delivered'[n] = Mark(n, st)
           /\ \A m \in Sent : m # n => delivered'[m] = delivered[m]
    BY <1>3, MarkingIs
  <2>2. delivered[n] # None => Mark(n, st) # None /\ Mark(n, st) >= delivered[n]
    <3>1. ASSUME delivered[n] \in 0..2
          PROVE  Mark(n, st) \in 0..2 /\ Mark(n, st) >= delivered[n]
      BY <3>1 DEF Mark
    <3> QED BY <1>0, <2>1, <3>1, ChatAssumption
  <2> QED BY <1>0, <2>1, <2>2
<1>4. CASE StartsAgain
  BY <1>1, <1>4 DEF StartsAgain
<1>5. ASSUME NEW l \in Listener, Acts(l) PROVE P
  BY <1>1, <1>3, <1>5, ListenerLeaves
<1> QED BY <1>1, <1>2, <1>4, <1>5, StepsAre

(* StatusNeverRegresses: the status of a row never goes back, although     *)
(* acknowledgements may arrive in any order, again, and after a restart.   *)
THEOREM NoStatusRegresses == Spec => StatusNeverRegresses
<1> DEFINE P == \A m \in Sent : delivered[m] # None =>
                   delivered'[m] # None /\ delivered'[m] >= delivered[m]
<1>1. TypeInv /\ [Next]_vars => [P]_delivered
  BY RowsAdvance
<1> QED BY <1>1, TypesBegin, TypesAreKept, PTL DEF Spec, StatusNeverRegresses

-----------------------------------------------------------------------------
(* How often a message is saved, and what is acknowledged.                 *)

One(b) == IF b THEN 1 ELSE 0

(* What is saved, or is about to be, was read as an unknown message: first *)
(* in a session, or after it was forgotten, or it is remembered now.       *)
Once(m) ==
    /\ IsFiniteSet(Saving(m))
    /\ copies[m] + Cardinality(Saving(m)) <= restarts + forgotten[m] + One(m \in ToSet(recent))
OnceInv == \A m \in Received : Once(m)

(* A message is remembered as soon as it is read, before it is saved, and  *)
(* acknowledged when it is saved or remembered.                            *)
AckInv ==
    /\ \A m \in ToSet(recent) : copies[m] > 0 \/ m \in lost \/ m \in BeingSaved
    /\ \A m \in BeingShown : copies[m] > 0
    /\ AckedIsSavedOrLost

(* What each step of a listener does to those that save and show.          *)
LEMMA BeginsSaving ==
    ASSUME TypeInv, NEW l \in Listener, NEW n \in Received, NEW r \in Received,
           listener[l] = Idle, Does(l, <<"select", n>>)
    PROVE  /\ l \notin Saving(r) /\ Showing(r)' = Showing(r)
           /\ Saving(r)' = Saving(r) \union (IF r = n THEN {l} ELSE {})
<1>1. /\ Saving(r)' = (Saving(r) \ {l}) \union (IF <<"select", n>> \in SavingJobs(r) THEN {l} ELSE {})
      /\ Showing(r)' = (Showing(r) \ {l}) \union (IF <<"select", n>> = <<"show", r>> THEN {l} ELSE {})
      /\ l \in Saving(r) <=> listener[l] \in SavingJobs(r)
      /\ l \in Showing(r) <=> listener[l] = <<"show", r>>
  BY DoesChanges
<1>2. /\ l \in Saving(n) <=> listener[l] \in SavingJobs(n)
      /\ l \in Showing(n) <=> listener[l] = <<"show", n>>
  BY DEF Saving, Showing
<1>3. /\ <<"select", n>> \in SavingJobs(r) <=> r = n
      /\ <<"select", n>> # <<"show", r>>
      /\ Idle \notin SavingJobs(r) /\ Idle # <<"show", r>>
  BY DEF SavingJobs, Idle
<1> QED BY <1>1, <1>2, <1>3

LEMMA GoesOnSaving ==
    ASSUME TypeInv, NEW l \in Listener, NEW n \in Received, NEW r \in Received,
           listener[l] \in {<<"select", n>>, <<"insert", n>>},
           Does(l, <<"insert", n>>) \/ Does(l, <<"save", n>>)
    PROVE  Saving(r)' = Saving(r) /\ Showing(r)' = Showing(r)
<1>1. PICK job \in {<<"insert", n>>, <<"save", n>>} : Does(l, job)
  OBVIOUS
<1>2. /\ Saving(r)' = (Saving(r) \ {l}) \union (IF job \in SavingJobs(r) THEN {l} ELSE {})
      /\ Showing(r)' = (Showing(r) \ {l}) \union (IF job = <<"show", r>> THEN {l} ELSE {})
      /\ l \in Saving(r) <=> listener[l] \in SavingJobs(r)
      /\ l \in Showing(r) <=> listener[l] = <<"show", r>>
  BY <1>1, DoesChanges
<1>3. /\ <<"select", n>> \in SavingJobs(r) <=> r = n
      /\ <<"insert", n>> \in SavingJobs(r) <=> r = n
      /\ <<"save", n>> \in SavingJobs(r) <=> r = n
      /\ <<"select", n>> # <<"show", r>> /\ <<"insert", n>> # <<"show", r>>
      /\ <<"save", n>> # <<"show", r>>
  BY DEF SavingJobs, Idle
<1> QED BY <1>1, <1>2, <1>3

LEMMA FailsSaving ==
    ASSUME TypeInv, NEW l \in Listener, NEW n \in Received, NEW r \in Received,
           listener[l] = <<"insert", n>>, Does(l, Idle)
    PROVE  /\ l \in Saving(n) /\ Showing(r)' = Showing(r)
           /\ Saving(r)' = Saving(r) \ (IF r = n THEN {l} ELSE {})
<1>1. /\ Saving(r)' = (Saving(r) \ {l}) \union (IF Idle \in SavingJobs(r) THEN {l} ELSE {})
      /\ Showing(r)' = (Showing(r) \ {l}) \union (IF Idle = <<"show", r>> THEN {l} ELSE {})
      /\ l \in Saving(r) <=> listener[l] \in SavingJobs(r)
      /\ l \in Showing(r) <=> listener[l] = <<"show", r>>
  BY DoesChanges
<1>2. /\ l \in Saving(n) <=> listener[l] \in SavingJobs(n)
      /\ l \in Showing(n) <=> listener[l] = <<"show", n>>
  BY DEF Saving, Showing
<1>3. /\ <<"insert", n>> \in SavingJobs(r) <=> r = n
      /\ <<"insert", n>> \in SavingJobs(n) /\ <<"insert", n>> # <<"show", r>>
      /\ Idle \notin SavingJobs(r) /\ Idle # <<"show", r>>
  BY DEF SavingJobs, Idle
<1> QED BY <1>1, <1>2, <1>3

LEMMA EndsSaving ==
    ASSUME TypeInv, NEW l \in Listener, NEW n \in Received, NEW r \in Received,
           listener[l] = <<"save", n>>, Does(l, <<"show", n>>)
    PROVE  /\ l \in Saving(n)
           /\ Saving(r)' = Saving(r) \ (IF r = n THEN {l} ELSE {})
           /\ Showing(r)' = Showing(r) \union (IF r = n THEN {l} ELSE {})
<1>1. /\ Saving(r)' = (Saving(r) \ {l}) \union (IF <<"show", n>> \in SavingJobs(r) THEN {l} ELSE {})
      /\ Showing(r)' = (Showing(r) \ {l}) \union (IF <<"show", n>> = <<"show", r>> THEN {l} ELSE {})
      /\ l \in Saving(r) <=> listener[l] \in SavingJobs(r)
      /\ l \in Showing(r) <=> listener[l] = <<"show", r>>
  BY DoesChanges
<1>2. /\ l \in Saving(n) <=> listener[l] \in SavingJobs(n)
      /\ l \in Showing(n) <=> listener[l] = <<"show", n>>
  BY DEF Saving, Showing
<1>3. /\ <<"save", n>> \in SavingJobs(r) <=> r = n
      /\ <<"save", n>> \in SavingJobs(n) /\ <<"save", n>> # <<"show", r>>
      /\ <<"show", n>> \notin SavingJobs(r)
      /\ <<"show", n>> = <<"show", r>> <=> r = n
  BY DEF SavingJobs, Idle
<1> QED BY <1>1, <1>2, <1>3

LEMMA EndsShowing ==
    ASSUME TypeInv, NEW l \in Listener, NEW n \in Received, NEW r \in Received,
           listener[l] = <<"show", n>>, Does(l, Idle)
    PROVE  /\ l \in Showing(n) /\ Saving(r)' = Saving(r)
           /\ Showing(r)' = Showing(r) \ (IF r = n THEN {l} ELSE {})
<1>1. /\ Saving(r)' = (Saving(r) \ {l}) \union (IF Idle \in SavingJobs(r) THEN {l} ELSE {})
      /\ Showing(r)' = (Showing(r) \ {l}) \union (IF Idle = <<"show", r>> THEN {l} ELSE {})
      /\ l \in Saving(r) <=> listener[l] \in SavingJobs(r)
      /\ l \in Showing(r) <=> listener[l] = <<"show", r>>
  BY DoesChanges
<1>2. /\ l \in Saving(n) <=> listener[l] \in SavingJobs(n)
      /\ l \in Showing(n) <=> listener[l] = <<"show", n>>
  BY DEF Saving, Showing
<1>3. /\ <<"show", n>> \notin SavingJobs(r)
      /\ <<"show", n>> = <<"show", r>> <=> r = n
      /\ Idle \notin SavingJobs(r) /\ Idle # <<"show", r>>
  BY DEF SavingJobs, Idle
<1> QED BY <1>1, <1>2, <1>3

(* The count of those that save. *)
LEMMA SavingCount ==
    ASSUME NEW S, IsFiniteSet(S), NEW l
    PROVE  /\ Cardinality(S) \in Nat
           /\ IsFiniteSet(S \union {l}) /\ IsFiniteSet(S \ {l})
           /\ l \notin S => Cardinality(S \union {l}) = Cardinality(S) + 1
           /\ l \in S => Cardinality(S \ {l}) = Cardinality(S) - 1
BY FS_CardinalityType, FS_AddElement, FS_RemoveElement

(* The count stays. *)
LEMMA OnceIsKept ==
    ASSUME TypeInv, OnceInv, [Next]_vars
    PROVE  OnceInv'
<1> SUFFICES ASSUME NEW r \in Received PROVE Once(r)'
  BY DEF OnceInv
<1>0. /\ copies[r] \in Nat /\ forgotten[r] \in Nat /\ restarts \in Nat
      /\ IsFiniteSet(Saving(r)) /\ Cardinality(Saving(r)) \in Nat
      /\ copies[r] + Cardinality(Saving(r)) <= restarts + forgotten[r] + One(r \in ToSet(recent))
  BY SavingCount DEF TypeInv, OnceInv, Once
<1>1. ASSUME copies'[r] = copies[r], UNCHANGED <<recent, forgotten, restarts>>, Saving(r)' = Saving(r)
      PROVE  Once(r)'
  BY <1>0, <1>1 DEF Once
<1>2. CASE StartsAgain
  <2>1. /\ copies' = copies /\ forgotten' = forgotten /\ restarts' = restarts + 1
        /\ Saving(r)' = {}
    BY <1>2 DEF StartsAgain, Saving, SavingJobs, Off
  <2>2. IsFiniteSet(Saving(r)') /\ Cardinality(Saving(r)') = 0
    BY <2>1, FS_EmptySet
  <2> QED BY <1>0, <2>1, <2>2 DEF Once, One
<1>3. ASSUME NEW l \in Listener, NEW n \in Received,
             listener[l] = Idle, Does(l, <<"select", n>>), n \notin ToSet(recent),
             recent' = Remember(n), UNCHANGED <<copies, restarts>>,
             forgotten' = [k \in Received |-> forgotten[k] +
                IF Len(recent) = RecentLength /\ k = Head(recent) THEN 1 ELSE 0]
      PROVE  Once(r)'
  <2>1. /\ l \notin Saving(r)
        /\ Saving(r)' = Saving(r) \union (IF r = n THEN {l} ELSE {})
    BY <1>3, BeginsSaving
  <2>2. /\ forgotten'[r] = forgotten[r] +
             IF Len(recent) = RecentLength /\ r = Head(recent) THEN 1 ELSE 0
        /\ copies'[r] = copies[r]
    BY <1>3
  <2>3. /\ n \in ToSet(recent')
        /\ r \in ToSet(recent) =>
             r \in ToSet(recent') \/ (Len(recent) = RecentLength /\ r = Head(recent))
    BY <1>3, RememberKeeps
  <2>4. CASE r = n
    <3>1. Saving(r)' = Saving(r) \union {l}
      BY <2>1, <2>4
    <3>2. IsFiniteSet(Saving(r)') /\ Cardinality(Saving(r)') = Cardinality(Saving(r)) + 1
      BY <1>0, <2>1, <3>1, SavingCount
    <3> QED BY <1>0, <1>3, <2>2, <2>3, <2>4, <3>2 DEF Once, One
  <2>5. CASE r # n
    <3>1. Saving(r)' = Saving(r)
      BY <2>1, <2>5
    <3> QED BY <1>0, <1>3, <2>2, <2>3, <3>1 DEF Once, One
  <2> QED BY <2>4, <2>5
<1>4. ASSUME NEW l \in Listener, NEW n \in Received, l \in Saving(n),
             UNCHANGED <<recent, forgotten, restarts>>,
             Saving(r)' = Saving(r) \ (IF r = n THEN {l} ELSE {}),
             copies' = copies \/ copies' = [copies EXCEPT ![n] = @ + 1]
      PROVE  Once(r)'
  <2>1. CASE r = n
    <3>1. Saving(r)' = Saving(r) \ {l} /\ l \in Saving(r)
      BY <1>4, <2>1
    <3>2. IsFiniteSet(Saving(r)') /\ Cardinality(Saving(r)') = Cardinality(Saving(r)) - 1
      BY <1>0, <3>1, SavingCount
    <3>3. copies'[r] = copies[r] \/ copies'[r] = copies[r] + 1
      BY <1>4, <2>1 DEF TypeInv
    <3> QED BY <1>0, <1>4, <3>2, <3>3 DEF Once, One
  <2>2. CASE r # n
    <3>1. Saving(r)' = Saving(r) /\ copies'[r] = copies[r]
      BY <1>4, <2>2 DEF TypeInv
    <3> QED BY <1>1, <1>4, <3>1
  <2> QED BY <2>1, <2>2
<1>5. ASSUME NEW l \in Listener, Acts(l) PROVE Once(r)'
  <2>0. restarts' = restarts
    BY <1>5, ListenerLeaves
  <2>1. CASE Silent(l) /\ UNCHANGED <<copies, recent, forgotten>>
    BY <1>1, <2>0, <2>1 DEF Silent
  <2>2. ASSUME NEW n \in Received,
               listener[l] \in {<<"select", n>>, <<"insert", n>>},
               Does(l, <<"insert", n>>) \/ Does(l, <<"save", n>>),
               UNCHANGED <<copies, recent, forgotten>>
        PROVE  Once(r)'
    BY <1>1, <2>0, <2>2, GoesOnSaving
  <2>3. ASSUME NEW n \in Received, listener[l] = <<"insert", n>>, Does(l, Idle),
               UNCHANGED <<copies, recent, forgotten>>
        PROVE  Once(r)'
    <3>1. l \in Saving(n) /\ Saving(r)' = Saving(r) \ (IF r = n THEN {l} ELSE {})
      BY <2>3, FailsSaving
    <3> QED BY <1>4, <2>0, <2>3, <3>1
  <2>4. ASSUME NEW n \in Received, listener[l] = <<"save", n>>, Does(l, <<"show", n>>),
               copies' = [copies EXCEPT ![n] = @ + 1],
               UNCHANGED <<recent, forgotten>>
        PROVE  Once(r)'
    <3>1. l \in Saving(n) /\ Saving(r)' = Saving(r) \ (IF r = n THEN {l} ELSE {})
      BY <2>4, EndsSaving
    <3> QED BY <1>4, <2>0, <2>4, <3>1
  <2>5. ASSUME NEW n \in Received, listener[l] = <<"show", n>>, Does(l, Idle),
               UNCHANGED <<copies, recent, forgotten>>
        PROVE  Once(r)'
    BY <1>1, <2>0, <2>5, EndsShowing
  <2> HIDE DEF Does
  <2> QED BY <1>3, <1>5, <2>0, <2>1, <2>2, <2>3, <2>4, <2>5, ListenerActs
<1>6. CASE UNCHANGED <<listener, copies, recent, forgotten, restarts>>
  <2>1. Saving(r)' = Saving(r)
    BY <1>6 DEF Saving, SavingJobs
  <2> QED BY <1>1, <1>6, <2>1
<1> QED BY <1>2, <1>5, <1>6, StepsAre

(* SavedOncePerSession: a message is saved once, and once more at most for *)
(* every restart and every time it was forgotten, whichever listeners      *)
(* read it.                                                                *)
THEOREM MessagesSavedOnce == Spec => []SavedOncePerSession
<1>1. Init => OnceInv
  <2> SUFFICES ASSUME Init, NEW m \in Received PROVE Once(m)
    BY DEF OnceInv
  <2>1. Saving(m) = {}
    BY DEF Init, Saving, SavingJobs, Off
  <2> QED BY <2>1, FS_EmptySet DEF Init, Once, One
<1>2. TypeInv /\ OnceInv => SavedOncePerSession
  <2> SUFFICES ASSUME TypeInv, OnceInv, NEW m \in Received
               PROVE  copies[m] <= 1 + restarts + forgotten[m]
    BY DEF SavedOncePerSession
  <2>1. /\ copies[m] \in Nat /\ forgotten[m] \in Nat /\ restarts \in Nat
        /\ Cardinality(Saving(m)) \in Nat /\ Once(m)
    BY FS_CardinalityType DEF TypeInv, OnceInv, Once
  <2> QED BY <2>1 DEF Once, One
<1> QED BY <1>1, <1>2, TypesBegin, TypesAreKept, OnceIsKept, PTL DEF Spec

(* What is remembered or acknowledged stays accounted for. *)
LEMMA AcksAreKept ==
    ASSUME TypeInv, AckInv, [Next]_vars
    PROVE  AckInv'
<1>0. /\ \A m \in ToSet(recent) : m \in Received
      /\ \A m \in Received : copies[m] \in Nat
      /\ acked \in SUBSET Received
      /\ copies \in [Received -> Nat]
  BY ElementsOf DEF TypeInv
<1> USE DEF AckInv, AckedIsSavedOrLost
<1>1. CASE StartsAgain
  <2>1. /\ lost' = lost \union BeingSaved /\ UNCHANGED <<copies, acked, early>>
        /\ ToSet(recent') = {}
    BY <1>1, NoElements DEF StartsAgain
  <2>2. BeingShown' = {}
    BY <1>1 DEF StartsAgain, BeingShown, Off
  <2> QED BY <1>0, <2>1, <2>2
<1>2. ASSUME BeingSaved' = BeingSaved, BeingShown' \subseteq BeingShown,
             UNCHANGED <<copies, recent, acked, early, lost>>
      PROVE  AckInv'
  BY <1>2
<1>3. ASSUME NEW l \in Listener, Acts(l) PROVE AckInv'
  <2>0. /\ \A m \in Received : m \in BeingSaved <=> Saving(m) # {}
        /\ \A m \in Received : m \in BeingShown <=> Showing(m) # {}
        /\ BeingSaved \subseteq Received /\ BeingShown \subseteq Received
        /\ \A m \in Received : m \in BeingSaved' <=> Saving(m)' # {}
        /\ \A m \in Received : m \in BeingShown' <=> Showing(m)' # {}
        /\ BeingSaved' \subseteq Received /\ BeingShown' \subseteq Received
    <3>1. /\ \A m \in Received : m \in BeingSaved' <=> Saving(m)' # {}
          /\ \A m \in Received : m \in BeingShown' <=> Showing(m)' # {}
          /\ BeingSaved' \subseteq Received /\ BeingShown' \subseteq Received
      BY DEF BeingSaved, BeingShown, Saving, Showing, SavingJobs
    <3> QED BY <3>1, BeingIs
  <2>1. ASSUME \A m \in Received : Saving(m)' = Saving(m) /\ Showing(m)' \subseteq Showing(m)
        PROVE  BeingSaved' = BeingSaved /\ BeingShown' \subseteq BeingShown
    BY <2>0, <2>1
  <2>2. CASE Silent(l) /\ UNCHANGED <<copies, recent, acked, early, lost>>
    BY <1>2, <2>1, <2>2 DEF Silent
  <2>3. ASSUME NEW n \in Received, Silent(l), n \in ToSet(recent), acked' = acked \union {n},
               early' = early \union (BeingSaved \intersect {n}), UNCHANGED <<copies, recent, lost>>
        PROVE  AckInv'
    <3>1. BeingSaved' = BeingSaved /\ BeingShown' \subseteq BeingShown
      BY <2>1, <2>3 DEF Silent
    <3>2. copies[n] > 0 \/ n \in lost \/ n \in BeingSaved
      BY <2>3
    <3> QED BY <2>3, <3>1, <3>2
  <2>4. ASSUME NEW n \in Received, listener[l] = Idle, Does(l, <<"select", n>>),
               recent' = Remember(n), UNCHANGED <<copies, acked, early, lost>>
        PROVE  AckInv'
    <3>1. \A m \in Received : /\ Saving(m)' = Saving(m) \union (IF m = n THEN {l} ELSE {})
                              /\ Showing(m)' = Showing(m)
      BY <2>4, BeginsSaving
    <3>2. BeingSaved' = BeingSaved \union {n} /\ BeingShown' = BeingShown
      BY <2>0, <3>1
    <3>3. ToSet(recent') \subseteq ToSet(recent) \union {n}
      BY <2>4, RememberKeeps
    <3> QED BY <2>4, <3>2, <3>3
  <2>5. ASSUME NEW n \in Received,
               listener[l] \in {<<"select", n>>, <<"insert", n>>},
               Does(l, <<"insert", n>>) \/ Does(l, <<"save", n>>),
               UNCHANGED <<copies, recent, acked, early, lost>>
        PROVE  AckInv'
    BY <1>2, <2>1, <2>5, GoesOnSaving
  <2>6. ASSUME NEW n \in Received, listener[l] = <<"insert", n>>, Does(l, Idle),
               lost' = lost \union {n}, UNCHANGED <<copies, recent, acked, early>>
        PROVE  AckInv'
    <3>1. \A m \in Received : /\ m # n => Saving(m)' = Saving(m)
                              /\ Showing(m)' = Showing(m)
      <4> SUFFICES ASSUME NEW m \in Received
                   PROVE  (m # n => Saving(m)' = Saving(m)) /\ Showing(m)' = Showing(m)
        OBVIOUS
      <4>1. Saving(m)' = Saving(m) \ (IF m = n THEN {l} ELSE {}) /\ Showing(m)' = Showing(m)
        BY <2>6, FailsSaving
      <4> QED BY <4>1
    <3>2. (\A m \in BeingSaved : m # n => m \in BeingSaved') /\ BeingShown' = BeingShown
      BY <2>0, <3>1
    <3> QED BY <2>6, <3>2
  <2>7. ASSUME NEW n \in Received, listener[l] = <<"save", n>>, Does(l, <<"show", n>>),
               copies' = [copies EXCEPT ![n] = @ + 1],
               UNCHANGED <<recent, acked, early, lost>>
        PROVE  AckInv'
    <3>1. \A m \in Received : /\ m # n => Saving(m)' = Saving(m) /\ Showing(m)' = Showing(m)
      BY <2>7, EndsSaving
    <3>2. /\ \A m \in BeingSaved : m # n => m \in BeingSaved'
          /\ BeingShown' \subseteq BeingShown \union {n}
      BY <2>0, <3>1
    <3>3. copies'[n] > 0 /\ \A m \in Received : copies[m] > 0 => copies'[m] > 0
      BY <1>0, <2>7
    <3> QED BY <1>0, <2>0, <2>7, <3>2, <3>3
  <2>8. ASSUME NEW n \in Received, listener[l] = <<"show", n>>, Does(l, Idle),
               acked' = acked \/ acked' = acked \union {n},
               UNCHANGED <<copies, recent, early, lost>>
        PROVE  AckInv'
    <3>1. /\ n \in BeingShown
          /\ \A m \in Received : Saving(m)' = Saving(m) /\ Showing(m)' \subseteq Showing(m)
      BY <2>0, <2>8, EndsShowing
    <3>2. BeingSaved' = BeingSaved /\ BeingShown' \subseteq BeingShown
      BY <2>1, <3>1
    <3> QED BY <2>8, <3>1, <3>2
  <2> HIDE DEF Does, AckInv, AckedIsSavedOrLost
  <2> QED BY <1>3, <2>2, <2>3, <2>4, <2>5, <2>6, <2>7, <2>8, ListenerActs
<1>4. CASE UNCHANGED <<listener, copies, recent, acked, early, lost>>
  <2>1. BeingSaved' = BeingSaved /\ BeingShown' = BeingShown
    BY <1>4 DEF BeingSaved, BeingShown
  <2> QED BY <1>2, <1>4, <2>1
<1> QED BY <1>1, <1>3, <1>4, StepsAre

(* AckedIsSavedOrLost: a delivery receipt is sent for a message that is    *)
(* saved, for one that could not be, or, by a second listener, for one     *)
(* that another is still saving, and for no other.                         *)
THEOREM AcksAreSaved == Spec => []AckedIsSavedOrLost
<1>1. Init => AckInv
  <2> SUFFICES ASSUME Init PROVE AckInv
    OBVIOUS
  <2>1. BeingShown = {}
    BY DEF Init, BeingShown, Off
  <2> QED BY <2>1, NoElements DEF Init, AckInv, AckedIsSavedOrLost
<1>2. AckInv => AckedIsSavedOrLost
  BY DEF AckInv
<1> QED BY <1>1, <1>2, TypesBegin, TypesAreKept, AcksAreKept, PTL DEF Spec

-----------------------------------------------------------------------------
(* The pane, the app's pump and the dialog.                                *)

(* The app does one thing at a time: when it sends or loads, no callback   *)
(* is due and the dialog is closed; a pane that is being loaded is empty   *)
(* and shows the conversation that is loaded.                              *)
PaneInv ==
    /\ app # Idle => due = <<>> /\ dialog = Closed
    /\ app[1] \in {"load", "mount", "markread"} => currentPeer = app[2]
    /\ app[1] \in {"load", "mount"} => bubbles = <<>>
    /\ dialog[1] = "load" => currentPeer \in {dialog[2], None}
    /\ dialog[1] \in {"load", "mount"} => dialogLoaded

(* A step of the app is kept to its place. *)
LEMMA AppKeepsPane ==
    ASSUME TypeInv, PaneInv
    PROVE  /\ AppStep => PaneInv'
           /\ CloseChat => PaneInv'
           /\ \A p \in Peer : SelectConversation(p) => PaneInv'
           /\ \A m \in Sent : SendMessage(m) => PaneInv'
<1> USE DEF PaneInv, store, pane, calls, Idle, Closed, CanBegin, Leave
<1>1. ASSUME NEW m \in Sent, SendMessage(m) PROVE PaneInv'
  BY <1>1 DEF SendMessage
<1>2. ASSUME NEW m \in Sent, SendSucceeds(m) \/ SendFails(m) PROVE PaneInv'
  BY <1>2 DEF SendSucceeds, SendFails, JobEnds
<1>3. ASSUME NEW p \in Peer, SelectConversation(p) PROVE PaneInv'
  BY <1>3 DEF SelectConversation
<1>4. ASSUME ReadRows PROVE PaneInv'
  BY <1>4 DEF ReadRows
<1>5. ASSUME MountRows PROVE PaneInv'
  BY <1>5 DEF MountRows
<1>6. ASSUME MarkRead PROVE PaneInv'
  BY <1>6 DEF MarkRead, JobEnds
<1>7. ASSUME CloseChat PROVE PaneInv'
  BY <1>7 DEF CloseChat
<1>8. ASSUME Prompt \/ RunCallback PROVE PaneInv'
  BY <1>8 DEF Prompt, RunCallback
<1>9. ASSUME StartsAgain PROVE PaneInv'
  BY <1>9 DEF StartsAgain
<1> QED BY <1>1, <1>2, <1>3, <1>4, <1>5, <1>6, <1>7, <1>8, <1>9 DEF AppStep, LockedOut

(* So is one of the dialog. *)
LEMMA DialogKeepsPane ==
    ASSUME TypeInv, PaneInv
    PROVE  /\ OpenDialog \/ DialogStep => PaneInv'
           /\ \A p \in DialogPeer : SubmitPeer(p) => PaneInv'
<1> USE DEF PaneInv, store, pane, calls, Idle, Closed, CanBegin, Leave
<1>1. ASSUME OpenDialog PROVE PaneInv'
  BY <1>1 DEF OpenDialog
<1>2. ASSUME NEW p \in DialogPeer, SubmitPeer(p) PROVE PaneInv'
  BY <1>2 DEF SubmitPeer
<1>3. ASSUME DialogReadsRows \/ DialogMountsRows PROVE PaneInv'
  BY <1>3 DEF DialogReadsRows, DialogMountsRows
<1>4. ASSUME DialogSelects \/ DialogInserts PROVE PaneInv'
  BY <1>4 DEF DialogSelects, DialogInserts
<1>5. ASSUME StartsAgain PROVE PaneInv'
  BY <1>5 DEF StartsAgain
<1> QED BY <1>1, <1>2, <1>3, <1>4, <1>5 DEF DialogStep, DialogFails

(* Every step keeps the pane in order. *)
LEMMA PaneIsKept ==
    ASSUME TypeInv, PaneInv, [Next]_vars
    PROVE  PaneInv'
<1>1. CASE UNCHANGED <<app, due, dialog, currentPeer, bubbles, dialogLoaded>>
  BY <1>1 DEF PaneInv
<1>2. CASE UNCHANGED vars
  BY <1>1, <1>2 DEF vars, pane, calls
<1>3. CASE StartsAgain
  BY <1>3 DEF StartsAgain, PaneInv, Idle, Closed
<1>4. ASSUME NEW l \in Listener, Acts(l) PROVE PaneInv'
  BY <1>1, <1>4, ListenerLeaves
<1> QED BY <1>2, <1>3, <1>4, AppKeepsPane, DialogKeepsPane DEF Next, Restart, Acts, Acks

-----------------------------------------------------------------------------
(* The rows that were written to the relay.                                *)

(* Only messages with rows are sent, each once, and only written ones are  *)
(* acknowledged.                                                           *)
RowInv ==
    /\ published \subseteq Rows
    /\ \A m \in Rows \ published : delivered[m] = 0
    /\ app[1] = "send" => app[2] \in Rows \ published
    /\ \A l \in Listener : listener[l][1] \in {"mark", "tell"} => listener[l][2] \in published

(* The steps that change rows, or what is written or acknowledged. *)
LEMMA RowSteps ==
    ASSUME TypeInv, [Next]_vars
    PROVE  \/ StartsAgain
           \/ \E m \in Sent : SendMessage(m) \/ SendSucceeds(m) \/ SendFails(m)
           \/ \E l \in Listener : Acts(l)
           \/ /\ UNCHANGED <<published, delivered, listener>>
              /\ app'[1] # "send" \/ app' = app
<1> USE DEF store, pane, net, Idle
<1>1. CASE AppStep \/ CloseChat \/ \E p \in Peer : SelectConversation(p)
  BY <1>1 DEF AppStep, ReadRows, MountRows, MarkRead, LockedOut, Prompt, RunCallback,
              JobEnds, CloseChat, SelectConversation
<1>2. CASE DialogStep \/ OpenDialog \/ \E p \in DialogPeer : SubmitPeer(p)
  BY <1>2 DEF DialogStep, DialogReadsRows, DialogMountsRows, DialogSelects, DialogInserts,
              DialogFails, OpenDialog, SubmitPeer
<1>3. CASE Restart \/ UNCHANGED vars
  BY <1>3 DEF Restart, vars
<1> QED BY <1>1, <1>2, <1>3 DEF Next, Acts, Acks

(* What a listener marks and tells was written to the relay. *)
LEMMA MarksAre ==
    ASSUME TypeInv, NEW l \in Listener, Acts(l)
    PROVE  /\ listener'[l][1] \notin {"mark", "tell"}
              \/ (listener[l][1] = "mark" /\ listener'[l][2] = listener[l][2])
              \/ listener'[l][2] \in published
           /\ listener'[l][1] = "tell" => MarkRow(l)
           /\ listener[l][1] = "tell" => TellApp(l)
<1>0. \A job : Does(l, job) => listener'[l] = job
  BY DEF Does, TypeInv
<1> USE DEF Idle, Off
<1>1. CASE MarkRow(l)
  <2>1. Does(l, <<"tell", listener[l][2], listener[l][3]>>) /\ listener[l][1] = "mark"
    BY <1>1 DEF MarkRow
  <2> QED BY <1>0, <1>1, <2>1
<1>2. CASE TellApp(l) \/ Connect(l) \/ Disconnect(l)
  <2>1. Does(l, Idle) \/ Does(l, Off)
    BY <1>2 DEF TellApp, Connect, Disconnect
  <2>2. listener[l][1] = "tell" => TellApp(l)
    BY <1>2 DEF Connect, Disconnect
  <2> QED BY <1>0, <2>1, <2>2
<1>3. ASSUME NEW m \in Sent, NEW st \in Acks, ReadAck(l, m, st)
      PROVE  /\ listener'[l] = <<"mark", m, st>> /\ m \in published
             /\ listener[l] = Idle
  <2>1. Does(l, <<"mark", m, st>>) /\ m \in published /\ listener[l] = Idle
    BY <1>3 DEF ReadAck, ReadFrame
  <2> QED BY <1>0, <2>1
<1>4. CASE SelectConversationRow(l) \/ InsertConversation(l) \/ InsertFails(l) \/ SaveMessage(l)
           \/ ShowMessage(l) \/ ShowFails(l)
  <2>1. PICK job : Does(l, job) /\ job[1] \in {"insert", "save", "idle", "show"}
    <3> DEFINE n == listener[l][2]
    <3>1. SelectConversationRow(l) => Does(l, <<"insert", n>>) \/ Does(l, <<"save", n>>)
      BY DEF SelectConversationRow
    <3>2. InsertConversation(l) => Does(l, <<"save", n>>)
      BY DEF InsertConversation
    <3>3. InsertFails(l) \/ ShowMessage(l) \/ ShowFails(l) => Does(l, Idle)
      BY DEF InsertFails, ShowMessage, ShowFails
    <3>4. SaveMessage(l) => Does(l, <<"show", n>>)
      BY DEF SaveMessage
    <3> HIDE DEF n
    <3> QED BY <1>4, <3>1, <3>2, <3>3, <3>4
  <2>2. listener[l][1] # "tell"
    BY <1>4 DEF SelectConversationRow, InsertConversation, InsertFails, SaveMessage, ShowMessage,
                ShowFails
  <2> QED BY <1>0, <2>1, <2>2
<1>5. ASSUME NEW m \in Received, ReadMessage(l, m)
      PROVE  listener'[l] \in {Idle, <<"select", m>>} /\ listener[l] = Idle
  <2>1. listener[l] = Idle /\ (UNCHANGED listener \/ Does(l, <<"select", m>>))
    BY <1>5 DEF ReadMessage, ReadFrame
  <2> QED BY <1>0, <2>1
<1> QED BY <1>1, <1>2, <1>3, <1>4, <1>5 DEF Acts, ListenerStep

(* A row that is sent, marked or saved. *)
LEMMA RowsAreKept ==
    ASSUME TypeInv, RowInv, [Next]_vars
    PROVE  RowInv'
<1> USE DEF RowInv
<1>0. /\ \A m \in Sent : delivered[m] \in 0..2 \union {None}
      /\ None \notin 0..2 /\ published \subseteq Sent
      /\ delivered \in [Sent -> 0..2 \union {None}]
  BY ChatAssumption DEF TypeInv
<1>1. CASE StartsAgain
  BY <1>1 DEF StartsAgain, Rows, Idle, Off
<1>2. ASSUME NEW m \in Sent, SendMessage(m) PROVE RowInv'
  <2>1. /\ delivered[m] = None /\ delivered' = [delivered EXCEPT ![m] = 0]
        /\ app' = <<"send", m>> /\ UNCHANGED <<published, listener>>
    BY <1>2 DEF SendMessage, net
  <2>2. delivered'[m] = 0 /\ \A n \in Sent \ {m} : delivered'[n] = delivered[n]
    BY <1>0, <2>1
  <2>3. Rows' = Rows \union {m} /\ m \notin Rows
    BY <1>0, <2>1, <2>2 DEF Rows
  <2> QED BY <2>1, <2>2, <2>3 DEF Rows
<1>3. ASSUME NEW m \in Sent, SendSucceeds(m) \/ SendFails(m) PROVE RowInv'
  <2>1. /\ app = <<"send", m>> /\ app' = Idle /\ UNCHANGED <<delivered, listener>>
        /\ published' \in {published, published \union {m}}
    BY <1>3 DEF SendSucceeds, SendFails, JobEnds, store
  <2>2. m \in Rows /\ Rows' = Rows
    BY <2>1 DEF Rows
  <2> QED BY <2>1, <2>2 DEF Idle
<1>4. ASSUME NEW l \in Listener, Acts(l) PROVE RowInv'
  <2>1. UNCHANGED <<app, published>> /\ \A k \in Listener : k # l => listener'[k] = listener[k]
    BY <1>4, ListenerLeaves
  <2>2. \A k \in Listener : listener'[k][1] \in {"mark", "tell"} => listener'[k][2] \in published
    BY <1>4, <2>1, MarksAre
  <2>3. CASE MarkRow(l)
    <3>1. PICK m \in Sent, st \in Acks :
             /\ listener[l] = <<"mark", m, st>>
             /\ delivered'[m] = Mark(m, st)
             /\ \A n \in Sent : n # m => delivered'[n] = delivered[n]
      BY <2>3, MarkingIs
    <3>2. m \in published /\ m \in Rows /\ delivered[m] \in 0..2
      BY <1>0, <3>1 DEF Rows
    <3>3. Mark(m, st) \in 0..2
      BY <3>2 DEF Mark
    <3>4. Rows' = Rows
      BY <1>0, <3>1, <3>2, <3>3 DEF Rows
    <3>5. \A n \in Rows \ published : delivered'[n] = 0
      BY <3>1, <3>2 DEF Rows
    <3> QED BY <2>1, <2>2, <3>4, <3>5
  <2>4. CASE delivered' = delivered
    <3>1. Rows' = Rows
      BY <2>4 DEF Rows
    <3> QED BY <2>1, <2>2, <2>4, <3>1
  <2> QED BY <1>4, <2>3, <2>4, ListenerLeaves
<1>5. CASE /\ UNCHANGED <<published, delivered, listener>>
           /\ app'[1] # "send" \/ app' = app
  BY <1>5 DEF Rows
<1> QED BY <1>1, <1>2, <1>3, <1>4, <1>5, RowSteps

-----------------------------------------------------------------------------
(* Where what is shown, and what is to be shown, comes from.               *)

(* What the app's pump is to do for the listeners. *)
Calls == ToSet(due) \union ToSet(later)

(* A listener adds a callback, at most. *)
LEMMA CallsOfListener ==
    ASSUME TypeInv, NEW l \in Listener, Acts(l)
    PROVE  /\ Calls \subseteq Calls'
           /\ \A m, st : <<"status", m, st>> \in Calls' =>
                <<"status", m, st>> \in Calls \/ (TellApp(l) /\ listener[l] = <<"tell", m, st>>)
           /\ \A m \in Sent, st \in Acks : TellApp(l) /\ listener[l] = <<"tell", m, st>> =>
                <<"status", m, st>> \in Calls'
           /\ \A m \in Received : ShowMessage(l) /\ listener[l] = <<"show", m>> /\ IsShown(m) =>
                <<"bubble", m>> \in Calls'
<1>0. due \in Seq(Callback) /\ later \in Seq(Callback) /\ listener[l] \in ListenerState
  BY DEF TypeInv
<1>1. due' = due /\ (~TellApp(l) /\ ~ShowMessage(l) => UNCHANGED later)
  BY ListenerLeaves
<1>2. CASE TellApp(l)
  <2>1. PICK n \in Sent, s \in Acks : listener[l] = <<"tell", n, s>>
    BY <1>0, <1>2, ListenerCases DEF TellApp
  <2>2. <<"status", n, s>> \in Callback
    BY CallbackTypes
  <2>3. CallNext(<<"status", n, s>>)
    BY <1>2, <2>1 DEF TellApp
  <2>4. ToSet(later') = ToSet(later) \union {<<"status", n, s>>}
    BY <2>2, <2>3, CallNextTyped
  <2> QED BY <1>1, <1>2, <2>1, <2>4 DEF Calls
<1>3. CASE ShowMessage(l)
  <2>1. PICK n \in Received : listener[l] = <<"show", n>>
    BY <1>0, <1>3, ListenerCases DEF ShowMessage
  <2>2. <<"bubble", n>> \in Callback
    BY CallbackTypes
  <2>3. IF IsShown(n) THEN CallNext(<<"bubble", n>>) ELSE UNCHANGED later
    BY <1>3, <2>1 DEF ShowMessage
  <2>4. ToSet(later') = ToSet(later) \union (IF IsShown(n) THEN {<<"bubble", n>>} ELSE {})
    BY <2>2, <2>3, CallNextTyped
  <2> QED BY <1>1, <1>3, <2>1, <2>4 DEF Calls
<1>4. CASE ~TellApp(l) /\ ~ShowMessage(l)
  BY <1>1, <1>4 DEF Calls
<1> QED BY <1>2, <1>3, <1>4

(* Callbacks are those that waited and the one that is added; one leaves   *)
(* when it is run.                                                         *)
LEMMA CallSteps ==
    ASSUME TypeInv, PaneInv, [Next]_vars
    PROVE  \/ StartsAgain
           \/ /\ RunCallback /\ Head(due) \in Callback
              /\ Calls = Calls' \union {Head(due)}
           \/ \E l \in Listener : Acts(l) /\ Calls \subseteq Calls'
           \/ Calls' = Calls /\ ~RunCallback
<1> USE DEF Calls
<1>0. due \in Seq(Callback) /\ later \in Seq(Callback)
  BY DEF TypeInv
<1>1. CASE RunCallback
  <2>1. due # <<>> /\ due' = Tail(due) /\ later' = later
    BY <1>1 DEF RunCallback
  <2>2. Head(due) \in Callback /\ ToSet(due) = {Head(due)} \union ToSet(Tail(due))
    BY <1>0, <2>1, ElementsOfTail
  <2> QED BY <1>1, <2>1, <2>2
<1>2. ASSUME NEW l \in Listener, Acts(l) PROVE Calls \subseteq Calls'
  BY <1>2, CallsOfListener
<1>3. ASSUME due = <<>>, due' = later, later' = <<>> PROVE Calls' = Calls
  BY <1>3, NoElements
<1>4. ASSUME UNCHANGED <<due, later>> PROVE Calls' = Calls
  BY <1>4
<1>5. ASSUME ~RunCallback, ~StartsAgain, ~\E l \in Listener : Acts(l)
      PROVE  \/ UNCHANGED <<due, later>>
             \/ due = <<>> /\ due' = later /\ later' = <<>>
  <2> USE <1>5 DEF calls
  <2>1. CASE AppStep \/ CloseChat \/ \E p \in Peer : SelectConversation(p)
    BY <2>1 DEF AppStep, ReadRows, MountRows, MarkRead, LockedOut, Prompt, JobEnds, CloseChat,
                SelectConversation, SendSucceeds, SendFails, PaneInv, CanBegin, Idle
  <2>2. CASE DialogStep \/ OpenDialog \/ \E p \in DialogPeer : SubmitPeer(p)
    BY <2>2 DEF DialogStep, DialogReadsRows, DialogMountsRows, DialogSelects, DialogInserts,
                DialogFails, OpenDialog, SubmitPeer
  <2>3. CASE Restart \/ UNCHANGED vars \/ \E m \in Sent : SendMessage(m)
    BY <2>3 DEF Restart, vars, SendMessage
  <2> QED BY <1>5, <2>1, <2>2, <2>3 DEF Next, Acts, Acks
<1> QED BY <1>1, <1>2, <1>3, <1>4, <1>5

(* The pane is left, gets bubbles, or stays as it is. *)
LEMMA PaneSteps ==
    ASSUME TypeInv, PaneInv, [Next]_vars
    PROVE  \/ StartsAgain
           \/ \E p \in Peer : /\ Leave(p) /\ SelectConversation(p)
                              /\ app' = <<"load", p>> /\ dialogLoaded' = FALSE
                              /\ UNCHANGED <<seen, listener>>
           \/ \E p \in Peer : /\ Leave(p) /\ \E q \in DialogPeer : SubmitPeer(q)
                              /\ dialog' = <<"load", p>> /\ dialogLoaded' = TRUE
                              /\ UNCHANGED <<seen, listener>>
           \/ /\ Leave(None) /\ CloseChat
              /\ UNCHANGED <<seen, listener, dialogLoaded, app, dialog>>
           \/ \E m \in Sent : SendMessage(m) \/ SendFails(m)
           \/ MountRows \/ DialogMountsRows \/ RunCallback
           \/ /\ UNCHANGED <<currentPeer, bubbles, seen, dialogLoaded>>
              /\ \/ UNCHANGED <<left, unshown>>
                 \/ \E n : left' = left \union {n} /\ unshown' = unshown \union {n}
<1> USE DEF store, pane
<1>1. ASSUME NEW p \in Peer, SelectConversation(p)
      PROVE  /\ Leave(p) /\ app' = <<"load", p>> /\ dialogLoaded' = FALSE
             /\ UNCHANGED <<seen, listener>>
  BY <1>1 DEF SelectConversation
<1>2. ASSUME NEW p \in DialogPeer, SubmitPeer(p)
      PROVE  \/ /\ Leave(p) /\ dialog' = <<"load", p>> /\ dialogLoaded' = TRUE
                /\ UNCHANGED <<seen, listener>>
             \/ UNCHANGED pane
  BY <1>2 DEF SubmitPeer
<1>3. CASE CloseChat
  BY <1>3 DEF CloseChat
<1>4. CASE AppStep
  BY <1>4 DEF AppStep, ReadRows, MarkRead, LockedOut, Prompt, SendSucceeds
<1>5. CASE DialogStep \/ OpenDialog
  BY <1>5 DEF DialogStep, DialogReadsRows, DialogSelects, DialogInserts, DialogFails, OpenDialog
<1>6. ASSUME NEW l \in Listener, Acts(l)
      PROVE  /\ UNCHANGED <<currentPeer, bubbles, seen, dialogLoaded>>
             /\ \/ UNCHANGED <<left, unshown>>
                \/ \E n : left' = left \union {n} /\ unshown' = unshown \union {n}
  <2>1. UNCHANGED <<currentPeer, bubbles, seen, dialogLoaded>>
    BY <1>6, ListenerLeaves
  <2>2. UNCHANGED <<left, unshown>> \/ \E n : left' = left \union {n} /\ unshown' = unshown \union {n}
    BY <1>6, ListenerActs
  <2> QED BY <2>1, <2>2
<1>7. CASE Restart \/ UNCHANGED vars
  BY <1>7 DEF Restart, vars
<1>8. DialogPeer \subseteq Peer
  BY ChatAssumption
<1> QED
  <2>1. CASE \E p \in DialogPeer : SubmitPeer(p)
    <3>1. PICK p \in DialogPeer : SubmitPeer(p)
      BY <2>1
    <3>2. p \in Peer
      BY <1>8
    <3> QED BY <1>2, <3>1, <3>2
  <2>2. CASE \E p \in Peer : SelectConversation(p)
    BY <1>1, <2>2
  <2> QED BY <1>3, <1>4, <1>5, <1>6, <1>7, <2>1, <2>2 DEF Next, Acts, Acks

(* Rows are read, and then mounted. *)
LEMMA LoadSteps ==
    ASSUME TypeInv, [Next]_vars
    PROVE  /\ app'[1] = "mount" => app' = app \/ ReadRows
           /\ dialog'[1] = "mount" => dialog' = dialog \/ DialogReadsRows
           /\ app[1] = "load" => app' = app \/ ReadRows \/ StartsAgain
           /\ app[1] = "mount" => app' = app \/ MountRows \/ StartsAgain
           /\ dialog[1] = "load" => dialog' = dialog \/ DialogReadsRows \/ StartsAgain
           /\ dialog[1] = "mount" => dialog' = dialog \/ DialogMountsRows \/ StartsAgain
<1>1. CASE AppStep \/ CloseChat \/ \E p \in Peer : SelectConversation(p)
  BY <1>1 DEF AppStep, ReadRows, MountRows, MarkRead, LockedOut, Prompt, JobEnds, CloseChat,
              SelectConversation, SendSucceeds, SendFails, CanBegin, Idle, RunCallback,
              StartsAgain, Closed
<1>2. CASE DialogStep \/ OpenDialog \/ \E p \in DialogPeer : SubmitPeer(p)
  BY <1>2 DEF DialogStep, DialogReadsRows, DialogMountsRows, DialogSelects, DialogInserts,
              DialogFails, OpenDialog, SubmitPeer, Closed, Idle, StartsAgain
<1>3. CASE \E l \in Listener : Acts(l)
  BY <1>3, ListenerLeaves
<1>4. CASE Restart \/ UNCHANGED vars
  BY <1>4 DEF Restart, StartsAgain, Idle, Closed, vars
<1>5. CASE \E m \in Sent : SendMessage(m)
  BY <1>5 DEF SendMessage, CanBegin, Idle
<1> QED BY <1>1, <1>2, <1>3, <1>4, <1>5 DEF Next, Acts, Acks

(* A bubble was there, is mounted, or is changed by a callback. *)
LEMMA BubblesComeFrom ==
    ASSUME TypeInv, PaneInv, [Next]_vars, NEW b \in ToSet(bubbles')
    PROVE  /\ b \in Bubbles
           /\ \/ b \in ToSet(bubbles)
              \/ b.message \in Sent /\ b.status \in {"pending", "failed"}
              \/ app[1] = "mount" /\ b \in ToSet(app[3])
              \/ dialog[1] = "mount" /\ b \in ToSet(dialog[2])
              \/ <<"status", b.message, b.status>> \in Calls
              \/ <<"bubble", b.message>> \in Calls /\ b.status = "received"
<1>0. bubbles \in Seq(Bubbles) /\ bubbles' \in Seq(Bubbles) /\ ToSet(bubbles') \subseteq Bubbles
  <2>1. bubbles \in Seq(Bubbles) /\ bubbles' \in Seq(Bubbles)
    BY TypesAreKept DEF TypeInv
  <2> QED BY <2>1, ElementsOf
<1>1. CASE bubbles' = <<>>
  BY <1>1, NoElements
<1>2. CASE bubbles' = bubbles
  BY <1>0, <1>2
<1>3. ASSUME NEW m \in Sent, SendMessage(m)
      PROVE  b \in ToSet(bubbles) \/ b = Bubble(m, "pending")
  <2>1. bubbles' = Append(bubbles, Bubble(m, "pending"))
    BY <1>3 DEF SendMessage
  <2> QED BY <1>0, <2>1, BubbleTypes, ElementsOfAppend
<1>4. ASSUME NEW m \in Sent, SendFails(m)
      PROVE  b \in ToSet(bubbles) \/ b = Bubble(m, "failed")
  <2>1. bubbles' = SetAll(m, "failed")
    BY <1>4 DEF SendFails
  <2>2. PICK k \in 1..Len(bubbles') : bubbles'[k] = b
    BY <1>0, ElementsOf
  <2>3. k \in 1..Len(bubbles) /\ (b = Bubble(m, "failed") \/ b = bubbles[k])
    BY <1>0, <2>1, <2>2, SetAllChanges
  <2> QED BY <1>0, <2>3, ElementsOf
<1>5. ASSUME MountRows PROVE app[1] = "mount" /\ b \in ToSet(app[3])
  <2>1. app[3] \in Seq(Bubbles) /\ bubbles' = bubbles \o app[3] /\ app[1] = "mount"
    BY <1>5, AppCases DEF MountRows, Mount, TypeInv
  <2>2. bubbles = <<>>
    BY <2>1 DEF PaneInv
  <2> QED BY <2>1, <2>2
<1>6. ASSUME DialogMountsRows
      PROVE  b \in ToSet(bubbles) \/ (dialog[1] = "mount" /\ b \in ToSet(dialog[2]))
  <2>1. dialog[2] \in Seq(Bubbles) /\ bubbles' = bubbles \o dialog[2] /\ dialog[1] = "mount"
    BY <1>6, DialogCases DEF DialogMountsRows, Mount, TypeInv
  <2> QED BY <1>0, <2>1, ElementsOfConcat
<1>7. ASSUME RunCallback
      PROVE  \/ b \in ToSet(bubbles)
             \/ <<"status", b.message, b.status>> \in Calls
             \/ <<"bubble", b.message>> \in Calls /\ b.status = "received"
  <2> DEFINE f == Head(due)
  <2>1. f \in Callback /\ f \in Calls /\ bubbles' = Apply(f)
    <3>1. due # <<>> /\ due \in Seq(Callback) /\ bubbles' = Apply(f)
      BY <1>7 DEF RunCallback, Mount, TypeInv
    <3>2. f \in Callback /\ f \in ToSet(due)
      BY <3>1, ElementsOfTail
    <3> QED BY <3>1, <3>2 DEF Calls
  <2> HIDE DEF f
  <2>2. \/ b \in ToSet(bubbles)
        \/ b = Bubble(f[2], f[3]) /\ f[1] = "status"
        \/ b = Bubble(f[2], "received") /\ f[1] = "bubble"
    BY <1>0, <2>1, ApplyChanges
  <2>3. /\ f[1] = "status" => f = <<"status", f[2], f[3]>>
        /\ f[1] = "bubble" => f = <<"bubble", f[2]>>
    BY <2>1, CallbackTypes
  <2> QED BY <2>1, <2>2, <2>3, BubbleTypes
<1>8. ASSUME NEW m \in Sent, b = Bubble(m, "pending") \/ b = Bubble(m, "failed")
      PROVE  b.message \in Sent /\ b.status \in {"pending", "failed"}
  BY <1>8, BubbleTypes
<1>9. StartsAgain \/ (\E p : Leave(p)) => bubbles' = <<>>
  BY DEF StartsAgain, Leave
<1> QED BY <1>0, <1>1, <1>2, <1>3, <1>4, <1>5, <1>6, <1>7, <1>8, <1>9, PaneSteps

-----------------------------------------------------------------------------
(* What the bubbles say.                                                   *)

(* The database knows what a status says. *)
Known(m, st) == /\ st = "relayed" => delivered[m] \in {1, 2}
                /\ st = "delivered" => delivered[m] = 2

AllKnown(s) == \A b \in ToSet(s) : Known(b.message, b.status)

(* It does for the bubbles, for those that are loaded and for what is on   *)
(* its way to them.                                                        *)
TickInv ==
    /\ AllKnown(bubbles)
    /\ \A m \in Sent, st \in Acks : <<"status", m, st>> \in Calls => Known(m, st)
    /\ app[1] = "mount" => AllKnown(app[3])
    /\ dialog[1] = "mount" => AllKnown(dialog[2])
    /\ \A l \in Listener : listener[l][1] = "tell" => Known(listener[l][2], listener[l][3])

(* What it knows it does not forget. *)
LEMMA KnownStays ==
    ASSUME TypeInv, [Next]_vars
    PROVE  /\ \A m \in Sent, st \in Acks : Known(m, st) => Known(m, st)'
           /\ \A b \in Bubbles : Known(b.message, b.status) => Known(b.message, b.status)'
<1>1. \A m \in Sent : delivered'[m] \in 0..2 \union {None}
  BY TypesAreKept DEF TypeInv
<1>2. ASSUME NEW m \in Sent, delivered[m] \in 1..2
      PROVE  delivered'[m] \in 1..2 /\ delivered'[m] >= delivered[m]
  <2>1. delivered[m] # None
    BY <1>2, ChatAssumption
  <2>2. delivered'[m] \in 0..2 /\ delivered'[m] >= delivered[m]
    BY <1>1, <2>1, RowsAdvance
  <2> QED BY <1>2, <2>2
<1>3. ASSUME NEW m \in Sent, NEW st, Known(m, st) PROVE Known(m, st)'
  <2>1. st = "relayed" => delivered'[m] \in {1, 2}
    BY <1>2, <1>3 DEF Known
  <2>2. st = "delivered" => delivered'[m] = 2
    BY <1>2, <1>3 DEF Known
  <2> QED BY <2>1, <2>2 DEF Known
<1>4. ASSUME NEW b \in Bubbles, Known(b.message, b.status) PROVE Known(b.message, b.status)'
  <2>1. CASE b.message \in Sent
    BY <1>3, <1>4, <2>1
  <2>2. CASE b.message \notin Sent
    <3>1. b.status = "received"
      BY <2>2, BubbleTypes
    <3> QED BY <3>1 DEF Known
  <2> QED BY <2>1, <2>2
<1> QED BY <1>3, <1>4

(* The rows of a conversation say what the database knows. *)
LEMMA MessagesKnown ==
    ASSUME TypeInv, NEW p \in Peer
    PROVE  AllKnown(Messages(p))
<1> SUFFICES ASSUME NEW b \in ToSet(Messages(p)) PROVE Known(b.message, b.status)
  BY DEF AllKnown
<1>1. b \in Bubbles
  BY MessagesAre, ElementsOf
<1>2. CASE b.message \in Sent
  <2>1. b.message \in Rows /\ b = Bubble(b.message, Status(delivered[b.message]))
    BY <1>2, MessagesAre
  <2>2. b.status = Status(delivered[b.message])
    BY <2>1, BubbleTypes
  <2> QED BY <2>1, <2>2, Statuses DEF Known
<1>3. CASE b.message \notin Sent
  <2>1. b.status = "received"
    BY <1>1, <1>3, BubbleTypes
  <2> QED BY <2>1 DEF Known
<1> QED BY <1>2, <1>3

(* Every step keeps this. *)
LEMMA TicksAreKept ==
    ASSUME TypeInv, PaneInv, RowInv, TickInv, [Next]_vars
    PROVE  TickInv'
<1>1. AllKnown(bubbles)'
  <2> SUFFICES ASSUME NEW b \in ToSet(bubbles') PROVE Known(b.message, b.status)'
    BY DEF AllKnown
  <2>1. b \in Bubbles
    BY BubblesComeFrom
  <2>2. CASE b \in ToSet(bubbles) \/ (app[1] = "mount" /\ b \in ToSet(app[3]))
             \/ (dialog[1] = "mount" /\ b \in ToSet(dialog[2]))
    BY <2>1, <2>2, KnownStays DEF TickInv, AllKnown
  <2>3. CASE b.status \in {"pending", "failed", "received"}
    BY <2>3 DEF Known
  <2>4. CASE <<"status", b.message, b.status>> \in Calls /\ b.status \in Acks
    <3>1. b.message \in Sent
      BY <2>1, <2>4, BubbleTypes DEF Acks
    <3> QED BY <2>1, <2>4, <3>1, KnownStays DEF TickInv
  <2>5. b.status \in {"pending", "failed", "received"} \union Acks
    BY <2>1 DEF Bubbles, SentBubble, ReceivedBubble, Acks
  <2> QED BY <2>2, <2>3, <2>4, <2>5, BubblesComeFrom
<1>2. ASSUME NEW m \in Sent, NEW st \in Acks, <<"status", m, st>> \in Calls'
      PROVE  Known(m, st)'
  <2>1. CASE <<"status", m, st>> \in Calls
    BY <2>1, KnownStays DEF TickInv
  <2>2. ASSUME NEW l \in Listener, listener[l] = <<"tell", m, st>> PROVE Known(m, st)'
    BY <2>2, KnownStays DEF TickInv
  <2>3. ASSUME StartsAgain PROVE FALSE
    <3>1. Calls' = {}
      BY <2>3, NoElements DEF StartsAgain, Calls
    <3> QED BY <1>2, <3>1
  <2>4. ASSUME NEW l \in Listener, Acts(l) PROVE Known(m, st)'
    BY <1>2, <2>1, <2>2, <2>4, CallsOfListener
  <2> QED BY <1>2, <2>1, <2>3, <2>4, CallSteps
<1>3. ASSUME app'[1] = "mount" PROVE AllKnown(app[3])'
  <2>1. app' = app \/ ReadRows
    BY <1>3, LoadSteps
  <2>2. CASE app' = app
    <3>1. app[1] = "mount" /\ app[3] \in Seq(Bubbles)
      BY <1>3, <2>2, AppCases DEF TypeInv
    <3>2. \A b \in ToSet(app[3]) : b \in Bubbles /\ Known(b.message, b.status)
      BY <3>1, ElementsOf DEF TickInv, AllKnown
    <3>3. \A b \in ToSet(app'[3]) : Known(b.message, b.status)'
      BY <2>2, <3>2, KnownStays
    <3> QED BY <3>3 DEF AllKnown
  <2>3. CASE ReadRows
    <3>1. app'[3] = Messages(app[2]) /\ delivered' = delivered /\ app[2] \in Peer
      BY <2>3, AppCases DEF ReadRows, store, TypeInv
    <3>2. AllKnown(app'[3])
      BY <3>1, MessagesKnown
    <3> QED BY <3>1, <3>2 DEF AllKnown, Known
  <2> QED BY <2>1, <2>2, <2>3
<1>4. ASSUME dialog'[1] = "mount" PROVE AllKnown(dialog[2])'
  <2>1. dialog' = dialog \/ DialogReadsRows
    BY <1>4, LoadSteps
  <2>2. CASE dialog' = dialog
    <3>1. dialog[1] = "mount" /\ dialog[2] \in Seq(Bubbles)
      BY <1>4, <2>2, DialogCases DEF TypeInv
    <3>2. \A b \in ToSet(dialog[2]) : b \in Bubbles /\ Known(b.message, b.status)
      BY <3>1, ElementsOf DEF TickInv, AllKnown
    <3>3. \A b \in ToSet(dialog'[2]) : Known(b.message, b.status)'
      BY <2>2, <3>2, KnownStays
    <3> QED BY <3>3 DEF AllKnown
  <2>3. CASE DialogReadsRows
    <3>1. dialog'[2] = Messages(dialog[2]) /\ delivered' = delivered /\ dialog[2] \in Peer
      BY <2>3, DialogCases DEF DialogReadsRows, store, TypeInv
    <3>2. AllKnown(dialog'[2])
      BY <3>1, MessagesKnown
    <3> QED BY <3>1, <3>2 DEF AllKnown, Known
  <2> QED BY <2>1, <2>2, <2>3
<1>5. ASSUME NEW l \in Listener, listener'[l][1] = "tell"
      PROVE  Known(listener[l][2], listener[l][3])'
  <2>0. listener \in [Listener -> ListenerState]
    BY DEF TypeInv
  <2>1. CASE listener'[l] = listener[l]
    <3>1. PICK m \in Sent, st \in Acks : listener[l] = <<"tell", m, st>>
      BY <1>5, <2>0, <2>1, ListenerCases
    <3>2. Known(m, st)
      BY <3>1 DEF TickInv
    <3>3. Known(m, st)'
      BY <3>2, KnownStays
    <3>4. listener'[l] = <<"tell", m, st>>
      BY <2>1, <3>1
    <3> QED BY <3>3, <3>4 DEF Known
  <2>2. CASE MarkRow(l)
    <3>1. PICK m \in Sent, st \in Acks :
             /\ listener[l] = <<"mark", m, st>> /\ Does(l, <<"tell", m, st>>)
             /\ delivered'[m] = Mark(m, st)
      BY <2>2, MarkingIs
    <3>7. m \in Rows
      BY <3>1 DEF RowInv
    <3>2. delivered[m] \in 0..2
      BY <3>7 DEF Rows, TypeInv
    <3>3. listener'[l] = <<"tell", m, st>>
      BY <2>0, <3>1 DEF Does
    <3>4. st = "relayed" => Mark(m, st) \in {1, 2}
      BY <3>2 DEF Mark
    <3>5. st = "delivered" => Mark(m, st) = 2
      BY DEF Mark
    <3>6. Known(m, st)'
      BY <3>1, <3>4, <3>5 DEF Known
    <3> QED BY <3>3, <3>6 DEF Known
  <2>3. CASE StartsAgain
    BY <1>5, <2>3 DEF StartsAgain, Off
  <2>4. ASSUME NEW k \in Listener, Acts(k) PROVE listener'[l] = listener[l] \/ MarkRow(l)
    <3>1. CASE k = l
      BY <1>5, <2>4, <3>1, MarksAre
    <3>2. CASE k # l
      BY <2>4, <3>2, ListenerLeaves
    <3> QED BY <3>1, <3>2
  <2>5. UNCHANGED listener \/ StartsAgain \/ \E k \in Listener : Acts(k)
    BY StepsAre
  <2> QED BY <2>1, <2>2, <2>3, <2>4, <2>5
<1> QED BY <1>1, <1>2, <1>3, <1>4, <1>5 DEF TickInv

(* To begin with, everything is empty. *)
LEMMA PaneBegins == Init => PaneInv /\ RowInv /\ TickInv
<1> SUFFICES ASSUME Init PROVE PaneInv /\ RowInv /\ TickInv
  OBVIOUS
<1>1. PaneInv
  BY DEF Init, PaneInv, Idle, Closed
<1>2. Rows = {} /\ published = {}
  BY DEF Init, Rows
<1>3. RowInv
  BY <1>2 DEF Init, RowInv, Idle, Off
<1>4. ToSet(bubbles) = {} /\ Calls = {}
  BY NoElements DEF Init, Calls
<1>5. TickInv
  BY <1>4 DEF Init, TickInv, AllKnown, Idle, Off, Closed
<1> QED BY <1>1, <1>3, <1>5

(* NoFalseTick: a bubble never shows more than the database knows, however *)
(* acknowledgements, loads and callbacks interleave.                       *)
THEOREM NoTickIsFalse == Spec => []NoFalseTick
<1>1. TypeInv /\ TickInv => NoFalseTick
  <2> SUFFICES ASSUME TypeInv, TickInv, NEW b \in Shown
               PROVE  /\ b.status = "relayed" => delivered[b.message] \in {1, 2}
                      /\ b.status = "delivered" => delivered[b.message] = 2
    BY DEF NoFalseTick
  <2>1. b \in ToSet(bubbles)
    BY ElementsOf DEF Shown, TypeInv
  <2> QED BY <2>1 DEF TickInv, AllKnown, Known
<1> QED BY <1>1, TypesBegin, PaneBegins, TypesAreKept, PaneIsKept, RowsAreKept, TicksAreKept,
           PTL DEF Spec

-----------------------------------------------------------------------------
(* What the bubbles do not say yet.                                        *)

(* A status is on its way to the bubble of a message. *)
Telling(m) == \E st \in Acks :
    <<"status", m, st>> \in Calls \/ \E l \in Listener : listener[l] = <<"tell", m, st>>

Told(b) == b.message \in Sent /\ delivered[b.message] \in {1, 2} =>
              b.status \in Acks \/ Telling(b.message)

(* One bubble for each message that was sent, with the status that the     *)
(* database knows, or that will be told.                                   *)
Agrees(s) ==
    /\ Single(s)
    /\ \A b \in ToSet(s) : Told(b) /\ (b.message \in Sent => b.message \in Rows)

(* This holds for the bubbles and for those that are loaded, unless the    *)
(* dialog has loaded them: it may mount a message that was sent meanwhile  *)
(* a second time.                                                          *)
AgreeInv == ~dialogLoaded => Agrees(bubbles) /\ (app[1] = "mount" => Agrees(app[3]))

(* What is on its way stays so until it is applied. *)
LEMMA TellingStays ==
    ASSUME TypeInv, PaneInv, [Next]_vars, ~StartsAgain, NEW m \in Sent, Telling(m)
    PROVE  \/ Telling(m)'
           \/ RunCallback /\ \E st \in Acks : Head(due) = <<"status", m, st>>
<1>1. PICK st \in Acks :
         <<"status", m, st>> \in Calls \/ \E l \in Listener : listener[l] = <<"tell", m, st>>
  BY DEF Telling
<1>2. CASE <<"status", m, st>> \in Calls'
  BY <1>2 DEF Telling
<1>3. CASE <<"status", m, st>> \in Calls
  BY <1>2, <1>3, CallSteps
<1>4. ASSUME NEW l \in Listener, listener[l] = <<"tell", m, st>> PROVE Telling(m)'
  <2>1. CASE listener'[l] = listener[l]
    BY <1>4, <2>1 DEF Telling
  <2>2. CASE Acts(l)
    <3>1. TellApp(l)
      BY <1>4, <2>2, MarksAre
    <3>2. <<"status", m, st>> \in Calls'
      BY <1>4, <2>2, <3>1, CallsOfListener
    <3> QED BY <3>2 DEF Telling
  <2>3. ASSUME NEW k \in Listener, Acts(k) PROVE listener'[l] = listener[l] \/ k = l
    BY <2>3, ListenerLeaves
  <2> QED BY <2>1, <2>2, <2>3, StepsAre
<1> QED BY <1>1, <1>3, <1>4

(* A row changes when a message is sent, to pending, or when it is marked, *)
(* and then the app is told.                                               *)
LEMMA DeliveredSteps ==
    ASSUME TypeInv, RowInv, [Next]_vars, NEW m \in Sent, delivered'[m] \in {1, 2}
    PROVE  /\ delivered[m] \in {1, 2} \/ Telling(m)'
           /\ m \in Rows
<1>0. /\ None \notin {1, 2} /\ delivered \in [Sent -> 0..2 \union {None}]
  BY ChatAssumption DEF TypeInv
<1>1. CASE delivered' = delivered
  BY <1>0, <1>1 DEF Rows
<1>2. ASSUME NEW n \in Sent, SendMessage(n) PROVE delivered'[m] = delivered[m]
  <2>1. delivered' = [delivered EXCEPT ![n] = 0]
    BY <1>2 DEF SendMessage
  <2> QED BY <1>0, <2>1
<1>3. ASSUME NEW l \in Listener, MarkRow(l)
      PROVE  delivered'[m] = delivered[m] \/ (m \in Rows /\ Telling(m)')
  <2>1. PICK n \in Sent, st \in Acks :
           /\ listener[l] = <<"mark", n, st>> /\ Does(l, <<"tell", n, st>>)
           /\ \A k \in Sent : k # n => delivered'[k] = delivered[k]
    BY <1>3, MarkingIs
  <2>2. n \in Rows
    BY <2>1 DEF RowInv
  <2>4. listener'[l] = <<"tell", n, st>>
    BY <2>1 DEF TypeInv, Does
  <2>3. m = n => Telling(m)'
    BY <2>4 DEF Telling
  <2> QED BY <2>1, <2>2, <2>3
<1>4. ASSUME NEW l \in Listener, Acts(l)
      PROVE  delivered'[m] = delivered[m] \/ (m \in Rows /\ Telling(m)')
  BY <1>3, <1>4, ListenerLeaves
<1>5. CASE delivered'[m] = delivered[m]
  BY <1>0, <1>5 DEF Rows
<1>6. StartsAgain => delivered' = delivered
  BY DEF StartsAgain
<1> QED BY <1>1, <1>2, <1>4, <1>5, <1>6, StepsAre

(* A bubble that is told stays so, unless its status is being applied. *)
LEMMA ToldStays ==
    ASSUME TypeInv, PaneInv, RowInv, [Next]_vars, ~StartsAgain, NEW b \in Bubbles, Told(b)
    PROVE  \/ Told(b)'
           \/ RunCallback /\ \E st \in Acks : Head(due) = <<"status", b.message, st>>
<1> SUFFICES ASSUME b.message \in Sent, delivered'[b.message] \in {1, 2}, b.status \notin Acks,
                    ~Telling(b.message)'
             PROVE  RunCallback /\ \E st \in Acks : Head(due) = <<"status", b.message, st>>
  <2>1. PICK m : m = b.message
    OBVIOUS
  <2>2. Telling(m)' <=> Telling(b.message)'
    BY <2>1 DEF Telling
  <2> QED BY <2>1, <2>2 DEF Told
<1>1. PICK m \in Sent : m = b.message
  OBVIOUS
<1>2. ~Telling(m)'
  BY <1>1 DEF Telling
<1>3. delivered[m] \in {1, 2}
  BY <1>1, <1>2, DeliveredSteps
<1>4. Telling(m)
  BY <1>1, <1>3 DEF Told
<1> QED BY <1>1, <1>2, <1>4, TellingStays

(* Rows stay. *)
LEMMA RowsStay ==
    ASSUME TypeInv, [Next]_vars
    PROVE  Rows \subseteq Rows'
BY RowsAdvance DEF Rows

(* The rows of a conversation agree with the database. *)
LEMMA MessagesAgree ==
    ASSUME TypeInv, NEW p \in Peer
    PROVE  /\ Single(Messages(p))
           /\ \A b \in ToSet(Messages(p)) :
                /\ b.message \in Sent => b.message \in Rows
                /\ b.message \in Sent /\ delivered[b.message] \in {1, 2} => b.status \in Acks
<1> SUFFICES ASSUME NEW b \in ToSet(Messages(p)), b.message \in Sent
             PROVE  b.message \in Rows /\ (delivered[b.message] \in {1, 2} => b.status \in Acks)
  BY MessagesAre
<1>1. b.message \in Rows /\ b = Bubble(b.message, Status(delivered[b.message]))
  BY MessagesAre
<1>2. b.status = Status(delivered[b.message])
  BY <1>1, BubbleTypes
<1> QED BY <1>1, <1>2, Statuses DEF Acks

(* A bubble that is appended is the only one of its message if no bubble   *)
(* was, or if it is of a received message.                                 *)
LEMMA SingleAppend ==
    ASSUME NEW s \in Seq(Bubbles), Single(s), NEW c \in Bubbles,
           c.message \in Sent => \A b \in ToSet(s) : b.message # c.message
    PROVE  Single(Append(s, c))
<1> DEFINE q == Append(s, c)
<1>1. /\ q \in Seq(Bubbles) /\ Len(q) = Len(s) + 1 /\ q[Len(s) + 1] = c
      /\ \A i \in 1..Len(s) : q[i] = s[i]
  BY AppendProperties
<1>2. \A i \in 1..Len(q) : i \in 1..Len(s) \/ i = Len(s) + 1
  BY <1>1
<1>3. \A i \in 1..Len(s) : s[i] \in ToSet(s)
  BY ElementsOf
<1> HIDE DEF q
<1> QED BY <1>1, <1>2, <1>3 DEF Single, q

(* A sequence with the same messages at the same places. *)
LEMMA SingleSame ==
    ASSUME NEW s, NEW q, Single(s), Len(q) = Len(s),
           \A i \in 1..Len(s) : q[i].message = s[i].message
    PROVE  Single(q)
BY DEF Single

(* A message is sent, and fails to be sent. *)
LEMMA SendingAgrees ==
    ASSUME TypeInv, PaneInv, RowInv, AgreeInv, [Next]_vars, ~StartsAgain, ~dialogLoaded,
           NEW m \in Sent, SendMessage(m) \/ SendFails(m)
    PROVE  Agrees(bubbles)'
<1>0. /\ bubbles \in Seq(Bubbles) /\ Agrees(bubbles) /\ None \notin 0..2
      /\ delivered \in [Sent -> 0..2 \union {None}] /\ Rows \subseteq Rows'
  BY ChatAssumption, RowsStay DEF TypeInv, AgreeInv
<1>1. ~RunCallback
  BY DEF SendMessage, SendFails, RunCallback, Idle, CanBegin
<1>2. ASSUME NEW b \in ToSet(bubbles)
      PROVE  Told(b)' /\ (b.message \in Sent => b.message \in Rows') /\ b \in Bubbles
  BY <1>0, <1>1, <1>2, ToldStays, ElementsOf DEF Agrees
<1>3. CASE SendMessage(m)
  <2> DEFINE c == Bubble(m, "pending")
  <2>1. delivered[m] = None /\ delivered' = [delivered EXCEPT ![m] = 0] /\ bubbles' = Append(bubbles, c)
    BY <1>3 DEF SendMessage
  <2>2. delivered'[m] = 0 /\ m \in Rows' /\ m \notin Rows
    BY <1>0, <2>1 DEF Rows
  <2>3. c \in Bubbles /\ c.message = m
    BY BubbleTypes
  <2> HIDE DEF c
  <2>4. Told(c)' /\ c.message \in Rows'
    BY <2>2, <2>3 DEF Told
  <2>5. \A b \in ToSet(bubbles) : b.message # c.message
    BY <1>0, <2>2, <2>3 DEF Agrees
  <2>6. Single(Append(bubbles, c))
    BY <1>0, <2>3, <2>5, SingleAppend DEF Agrees
  <2>7. ToSet(Append(bubbles, c)) = ToSet(bubbles) \union {c}
    BY <1>0, <2>3, ElementsOfAppend
  <2>8. \A b \in ToSet(bubbles') : Told(b)' /\ (b.message \in Sent => b.message \in Rows')
    BY <1>2, <2>1, <2>4, <2>7
  <2> QED BY <2>1, <2>6, <2>8 DEF Agrees
<1>4. CASE SendFails(m)
  <2> DEFINE q == SetAll(m, "failed")
             c == Bubble(m, "failed")
  <2>1. bubbles' = q /\ UNCHANGED delivered /\ app = <<"send", m>>
    BY <1>4 DEF SendFails, store
  <2>2. m \in Rows /\ delivered[m] = 0
    BY <2>1 DEF RowInv
  <2>3. c.message = m
    BY BubbleTypes
  <2>4. /\ q \in Seq(Bubbles) /\ Len(q) = Len(bubbles)
        /\ \A k \in 1..Len(bubbles) : q[k] = IF bubbles[k].message = m THEN c ELSE bubbles[k]
    BY <1>0, SetAllChanges
  <2> HIDE DEF q, c
  <2>5. Single(q)
    <3>1. \A k \in 1..Len(bubbles) : q[k].message = bubbles[k].message
      BY <2>3, <2>4
    <3> QED BY <1>0, <2>4, <3>1, SingleSame DEF Agrees
  <2>6. Told(c)' /\ c.message \in Rows'
    BY <1>0, <2>1, <2>2, <2>3 DEF Told
  <2>7. ASSUME NEW b \in ToSet(q) PROVE b = c \/ b \in ToSet(bubbles)
    <3>1. PICK k \in 1..Len(q) : q[k] = b
      BY <2>4, ElementsOf
    <3> QED BY <1>0, <2>4, <3>1, ElementsOf
  <2>8. \A b \in ToSet(bubbles') : Told(b)' /\ (b.message \in Sent => b.message \in Rows')
    BY <1>2, <2>1, <2>6, <2>7
  <2> QED BY <2>1, <2>5, <2>8 DEF Agrees
<1> QED BY <1>3, <1>4

(* A callback is applied. *)
LEMMA CallbackAgrees ==
    ASSUME TypeInv, PaneInv, RowInv, AgreeInv, [Next]_vars, ~StartsAgain, ~dialogLoaded,
           RunCallback
    PROVE  Agrees(bubbles)'
<1> DEFINE h == Head(due)
<1>0. /\ bubbles \in Seq(Bubbles) /\ Agrees(bubbles) /\ Rows \subseteq Rows'
  BY RowsStay DEF TypeInv, AgreeInv
<1>1. h \in Callback /\ bubbles' = Apply(h)
  BY DEF RunCallback, Mount, TypeInv
<1>2. PICK f \in Callback : f = h
  BY <1>1
<1> HIDE DEF h
<1>3. bubbles' = Apply(f) /\ f = Head(due)
  BY <1>1, <1>2 DEF h
<1>4. ASSUME NEW b \in ToSet(bubbles)
      PROVE  /\ b \in Bubbles /\ (b.message \in Sent => b.message \in Rows')
             /\ Told(b)' \/ (f[1] = "status" /\ f[2] = b.message)
  <2>1. b \in Bubbles /\ Told(b) /\ (b.message \in Sent => b.message \in Rows')
    BY <1>0, ElementsOf DEF Agrees
  <2>2. Told(b)' \/ \E st \in Acks : f = <<"status", b.message, st>>
    BY <1>3, <2>1, ToldStays
  <2> QED BY <2>1, <2>2
<1>5. CASE \E m \in Sent, st \in Acks : f = <<"status", m, st>>
  <2>1. PICK m \in Sent, st \in Acks : f = <<"status", m, st>>
    BY <1>5
  <2> DEFINE q == SetFirst(m, st)
             c == Bubble(m, st)
  <2>2. bubbles' = q
    BY <1>3, <2>1 DEF Apply
  <2>3. /\ q \in Seq(Bubbles) /\ Len(q) = Len(bubbles)
        /\ \A k \in 1..Len(bubbles) : q[k] = bubbles[k] \/ (bubbles[k].message = m /\ q[k] = c)
        /\ \A k \in 1..Len(bubbles) :
             bubbles[k].message = m
             /\ (\A j \in 1..Len(bubbles) : bubbles[j].message = m => j = k) => q[k] = c
    BY <1>0, SetFirstChanges
  <2>4. c.message = m /\ c.status = st
    BY BubbleTypes
  <2> HIDE DEF q, c
  <2>5. Single(q)
    <3>1. \A k \in 1..Len(bubbles) : q[k].message = bubbles[k].message
      BY <2>3, <2>4
    <3> QED BY <1>0, <2>3, <3>1, SingleSame DEF Agrees
  <2>6. Told(c)'
    BY <2>4 DEF Told
  <2>7. ASSUME NEW b \in ToSet(q)
        PROVE  Told(b)' /\ (b.message \in Sent => b.message \in Rows')
    <3>1. PICK k \in 1..Len(bubbles) : q[k] = b
      BY <2>3, ElementsOf
    <3>2. bubbles[k] \in ToSet(bubbles)
      BY <1>0, ElementsOf
    <3>3. CASE bubbles[k].message = m
      <4>1. \A j \in 1..Len(bubbles) : bubbles[j].message = m => j = k
        BY <1>0, <3>3 DEF Agrees, Single
      <4>2. b = c
        BY <2>3, <3>1, <3>3, <4>1
      <4> QED BY <1>4, <2>4, <2>6, <3>2, <3>3, <4>2
    <3>4. CASE bubbles[k].message # m
      <4>1. b = bubbles[k]
        BY <2>3, <3>1, <3>4
      <4> QED BY <1>4, <2>1, <3>2, <3>4, <4>1
    <3> QED BY <3>3, <3>4
  <2> QED BY <2>2, <2>5, <2>7 DEF Agrees
<1>6. CASE \E m \in Received : f = <<"bubble", m>>
  <2>1. PICK m \in Received : f = <<"bubble", m>>
    BY <1>6
  <2> DEFINE c == Bubble(m, "received")
  <2>2. bubbles' = Append(bubbles, c)
    BY <1>3, <2>1 DEF Apply
  <2>3. c \in Bubbles /\ c.message = m /\ m \notin Sent
    BY BubbleTypes
  <2> HIDE DEF c
  <2>4. Single(Append(bubbles, c))
    BY <1>0, <2>3, SingleAppend DEF Agrees
  <2>5. ToSet(Append(bubbles, c)) = ToSet(bubbles) \union {c}
    BY <1>0, <2>3, ElementsOfAppend
  <2>6. Told(c)'
    BY <2>3 DEF Told
  <2>7. \A b \in ToSet(bubbles') : Told(b)' /\ (b.message \in Sent => b.message \in Rows')
    BY <1>4, <2>1, <2>2, <2>3, <2>5, <2>6
  <2> QED BY <2>2, <2>4, <2>7 DEF Agrees
<1> QED BY <1>5, <1>6, CallbackTypes

(* The bubbles that wait to be mounted, and those that stay. *)
LEMMA WaitingAgrees ==
    ASSUME TypeInv, PaneInv, RowInv, [Next]_vars, ~StartsAgain, ~RunCallback,
           NEW s \in Seq(Bubbles), Agrees(s)
    PROVE  /\ Single(s)
           /\ \A b \in ToSet(s) : Told(b)' /\ (b.message \in Sent => b.message \in Rows')
<1> SUFFICES ASSUME NEW b \in ToSet(s)
             PROVE  Told(b)' /\ (b.message \in Sent => b.message \in Rows')
  BY DEF Agrees
<1>1. b \in Bubbles /\ Told(b) /\ (b.message \in Sent => b.message \in Rows)
  BY ElementsOf DEF Agrees
<1> QED BY <1>1, ToldStays, RowsStay

(* Every step keeps the agreement. *)
LEMMA AgreementIsKept ==
    ASSUME TypeInv, PaneInv, RowInv, AgreeInv, [Next]_vars
    PROVE  AgreeInv'
<1> SUFFICES ASSUME ~dialogLoaded'
             PROVE  Agrees(bubbles)' /\ (app'[1] = "mount" => Agrees(app[3])')
  BY DEF AgreeInv
<1>1. ASSUME bubbles' = <<>> PROVE Agrees(bubbles)'
  <2>1. Single(bubbles') /\ ToSet(bubbles') = {}
    BY <1>1, NoElements DEF Single
  <2> QED BY <2>1 DEF Agrees
<1>2. CASE StartsAgain
  BY <1>1, <1>2 DEF StartsAgain, Idle
<1>3. CASE \E p \in Peer : Leave(p) /\ app' = <<"load", p>>
  BY <1>1, <1>3 DEF Leave
<1>4. CASE dialogLoaded /\ ~StartsAgain
  <2>1. ASSUME NEW m, SendMessage(m) \/ SendFails(m) PROVE FALSE
    BY <1>4, <2>1 DEF SendMessage, SendFails
  <2>2. ~MountRows /\ ~DialogMountsRows /\ ~RunCallback
    BY <1>4 DEF MountRows, DialogMountsRows, RunCallback
  <2> QED BY <1>3, <1>4, <2>1, <2>2, PaneSteps
<1>5. CASE ~dialogLoaded /\ ~StartsAgain
  <2>0. Agrees(bubbles) /\ (app[1] = "mount" => Agrees(app[3])) /\ bubbles \in Seq(Bubbles)
    BY <1>5 DEF AgreeInv, TypeInv
  <2>1. ASSUME app'[1] = "mount" PROVE Agrees(app[3])'
    <3>1. CASE app' = app
      <4>1. ~RunCallback
        BY <2>1, <3>1 DEF RunCallback, Idle
      <4>2. PICK s \in Seq(Bubbles) : s = app[3]
        BY <2>1, <3>1, AppCases DEF TypeInv
      <4>3. Agrees(s)
        BY <2>0, <2>1, <3>1, <4>2
      <4>4. /\ Single(s)
            /\ \A b \in ToSet(s) : Told(b)' /\ (b.message \in Sent => b.message \in Rows')
        BY <1>5, <4>1, <4>3, WaitingAgrees
      <4> QED BY <3>1, <4>2, <4>4 DEF Agrees
    <3>2. CASE ReadRows
      <4>1. /\ app' = <<"mount", app[2], Messages(app[2])>>
            /\ UNCHANGED delivered
        BY <3>2 DEF ReadRows, store
      <4>0. app[2] \in Peer
        BY <3>2, AppCases DEF ReadRows, TypeInv
      <4>2. PICK s : s = Messages(app[2])
        OBVIOUS
      <4>3. /\ Single(s)
            /\ \A b \in ToSet(s) :
                 /\ b.message \in Sent => b.message \in Rows
                 /\ b.message \in Sent /\ delivered[b.message] \in {1, 2} => b.status \in Acks
        BY <4>0, <4>2, MessagesAgree
      <4>4. app'[3] = s /\ Rows' = Rows
        BY <4>1, <4>2 DEF Rows
      <4>5. \A b \in ToSet(s) : Told(b)' /\ (b.message \in Sent => b.message \in Rows')
        BY <4>1, <4>3, <4>4 DEF Told
      <4> QED BY <4>3, <4>4, <4>5 DEF Agrees
    <3> QED BY <2>1, <3>1, <3>2, LoadSteps
  <2>2. Agrees(bubbles)'
    <3>1. CASE RunCallback
      BY <1>5, <3>1, CallbackAgrees
    <3>2. CASE \E m \in Sent : SendMessage(m) \/ SendFails(m)
      BY <1>5, <3>2, SendingAgrees
    <3>3. CASE bubbles' = bubbles /\ ~RunCallback
      <4>1. PICK s \in Seq(Bubbles) : s = bubbles
        BY <2>0
      <4>2. /\ Single(s)
            /\ \A b \in ToSet(s) : Told(b)' /\ (b.message \in Sent => b.message \in Rows')
        BY <1>5, <2>0, <3>3, <4>1, WaitingAgrees
      <4> QED BY <3>3, <4>1, <4>2 DEF Agrees
    <3>4. CASE MountRows
      <4>1. app[1] = "mount" /\ app[3] \in Seq(Bubbles) /\ bubbles' = bubbles \o app[3]
        BY <3>4, AppCases DEF MountRows, Mount, TypeInv
      <4>2. bubbles = <<>> /\ ~RunCallback
        BY <4>1 DEF PaneInv, RunCallback, Idle
      <4>3. PICK s \in Seq(Bubbles) : s = app[3]
        BY <4>1
      <4>4. bubbles' = s
        BY <4>1, <4>2, <4>3
      <4>5. /\ Single(s)
            /\ \A b \in ToSet(s) : Told(b)' /\ (b.message \in Sent => b.message \in Rows')
        BY <1>5, <2>0, <4>1, <4>2, <4>3, WaitingAgrees
      <4> QED BY <4>4, <4>5 DEF Agrees
    <3>5. ~DialogMountsRows
      BY <1>5 DEF DialogMountsRows, PaneInv
    <3>6. CASE \E p : Leave(p)
      BY <1>1, <3>6 DEF Leave
    <3> QED BY <1>5, <3>1, <3>2, <3>3, <3>4, <3>5, <3>6, PaneSteps
  <2> QED BY <2>1, <2>2
<1> QED BY <1>2, <1>4, <1>5

(* TicksAgree: when everything has been handled the bubbles of sent        *)
(* messages show what the database knows, wherever the marking of a row    *)
(* fell between the clearing of the pane, its loading and its callbacks.   *)
THEOREM TicksAgreeAtRest == Spec => []TicksAgree
<1>1. Init => AgreeInv
  <2> SUFFICES ASSUME Init PROVE AgreeInv
    OBVIOUS
  <2>1. Single(bubbles) /\ ToSet(bubbles) = {} /\ app[1] # "mount"
    BY NoElements DEF Init, Single, Idle
  <2> QED BY <2>1 DEF AgreeInv, Agrees
<1>2. TypeInv /\ TickInv /\ AgreeInv => TicksAgree
  <2> SUFFICES ASSUME TypeInv, TickInv, AgreeInv, Quiet, ~dialogLoaded,
                      NEW b \in Shown, b.message \in Sent
               PROVE  b.status \in Acks <=> delivered[b.message] \in {1, 2}
    BY DEF TicksAgree, Acks
  <2>1. b \in ToSet(bubbles)
    BY ElementsOf DEF Shown, TypeInv
  <2>2. ~Telling(b.message)
    <3>1. Calls = {} /\ \A l \in Listener : listener[l] \in {Off, Idle}
      BY NoElements DEF Quiet, Calls
    <3> QED BY <3>1 DEF Telling, Idle, Off
  <2>3. delivered[b.message] \in {1, 2} => b.status \in Acks
    BY <2>1, <2>2 DEF AgreeInv, Agrees, Told
  <2>4. b.status \in Acks => delivered[b.message] \in {1, 2}
    BY <2>1 DEF TickInv, AllKnown, Known, Acks
  <2> QED BY <2>3, <2>4
<1> QED BY <1>1, <1>2, TypesBegin, PaneBegins, TypesAreKept, PaneIsKept, RowsAreKept,
           TicksAreKept, AgreementIsKept, PTL DEF Spec

-----------------------------------------------------------------------------
(* Received messages reach the pane.                                       *)

Mine(m) == Bubble(m, "received")

(* The app or the dialog is about to load the message, or has loaded it.   *)
Loading(m) ==
    \/ app = <<"load", PeerOf[m]>>
    \/ app[1] = "mount" /\ Mine(m) \in ToSet(app[3])
    \/ dialog = <<"load", PeerOf[m]>>
    \/ dialog[1] = "mount" /\ Mine(m) \in ToSet(dialog[2])

(* A saved message is on its way to the pane that shows its conversation.  *)
Coming(m) == Showing(m) # {} \/ <<"bubble", m>> \in Calls \/ Loading(m)

ShowInv == \A m \in Received : m \in Loadable(PeerOf[m]) /\ currentPeer = PeerOf[m] =>
              Mine(m) \in ToSet(bubbles) \/ Coming(m) \/ m \in unshown

(* A loadable message is one of the conversation. *)
LEMMA LoadableIs ==
    ASSUME TypeInv, NEW p \in Peer, NEW m \in Loadable(p)
    PROVE  m \in Received /\ PeerOf[m] = p
<1>1. m \in Received /\ \E k \in DOMAIN rows[p] : rows[p][k] = m
  BY DEF Loadable
<1>2. PICK s \in Seq(Sent \union Received) : s = rows[p] /\ Match(s, p)
  BY DEF TypeInv, RowsMatch
<1>3. PICK k \in 1..Len(s) : s[k] = m
  BY <1>1, <1>2
<1> QED BY <1>1, <1>2, <1>3 DEF Match

(* A message that is loadable after a row was added was before, or the row *)
(* is its own.                                                             *)
LEMMA LoadableAppend ==
    ASSUME TypeInv, NEW p \in Peer, NEW n \in Sent \union Received,
           rows'[p] = Append(rows[p], n), NEW m \in Received, m \in Loadable(p)'
    PROVE  m \in Loadable(p) \/ m = n
<1>1. PICK s \in Seq(Sent \union Received) : s = rows[p]
  BY OlderIs
<1>2. PICK t \in Seq(Sent \union Received) : t = Append(s, n) /\ t = rows'[p]
  <2>1. Append(s, n) \in Seq(Sent \union Received)
    BY AppendProperties
  <2>2. rows'[p] = Append(s, n)
    BY <1>1
  <2> QED BY <2>1, <2>2
<1>3. /\ Len(s) \in Nat /\ Len(t) = Len(s) + 1 /\ t[Len(s) + 1] = n
      /\ DOMAIN s = 1..Len(s) /\ DOMAIN t = 1..Len(t)
      /\ \A i \in 1..Len(s) : t[i] = s[i]
  <2>1. Len(s) \in Nat /\ DOMAIN s = 1..Len(s) /\ DOMAIN t = 1..Len(t)
    OBVIOUS
  <2>2. /\ Len(Append(s, n)) = Len(s) + 1 /\ Append(s, n)[Len(s) + 1] = n
        /\ \A i \in 1..Len(s) : Append(s, n)[i] = s[i]
    BY AppendProperties
  <2> QED BY <1>2, <2>1, <2>2
<1>4. PICK k \in 1..Len(t) : k > (IF Len(t) > Limit THEN Len(t) - Limit ELSE 0) /\ t[k] = m
  BY <1>2, <1>3 DEF Loadable, Older
<1>5. CASE k = Len(s) + 1
  BY <1>3, <1>4, <1>5
<1>6. CASE k # Len(s) + 1
  <2>1. k \in 1..Len(s) /\ s[k] = m
    BY <1>3, <1>4, <1>6
  <2>2. k > (IF Len(s) > Limit THEN Len(s) - Limit ELSE 0)
    BY <1>3, <1>4, ChatAssumption
  <2> QED BY <1>1, <1>3, <2>1, <2>2 DEF Loadable, Older
<1> QED BY <1>5, <1>6

(* A message becomes loadable when it is saved. *)
LEMMA LoadableSteps ==
    ASSUME TypeInv, [Next]_vars, NEW p \in Peer, NEW m \in Received, m \in Loadable(p)'
    PROVE  \/ m \in Loadable(p)
           \/ ~StartsAgain /\ \E l \in Listener : listener'[l] = <<"show", m>>
<1>0. rows \in [Peer -> Seq(Sent \union Received)] /\ m \notin Sent
  BY BubbleTypes DEF TypeInv
<1>1. ASSUME rows'[p] = rows[p] PROVE m \in Loadable(p)
  BY <1>1 DEF Loadable, Older
<1>2. ASSUME NEW n \in Sent \union Received, rows' = [rows EXCEPT ![PeerOf[n]] = Append(@, n)]
      PROVE  m \in Loadable(p) \/ m = n
  <2>1. CASE p = PeerOf[n]
    <3>1. rows'[p] = Append(rows[p], n)
      BY <1>0, <1>2, <2>1
    <3> QED BY <3>1, LoadableAppend
  <2>2. CASE p # PeerOf[n]
    <3>1. rows'[p] = rows[p]
      BY <1>0, <1>2, <2>2
    <3> QED BY <1>1, <3>1
  <2> QED BY <2>1, <2>2
<1>3. CASE StartsAgain
  BY <1>1, <1>3 DEF StartsAgain
<1>4. ASSUME NEW n \in Sent, SendMessage(n) PROVE m \in Loadable(p)
  <2>1. rows' = [rows EXCEPT ![PeerOf[n]] = Append(@, n)]
    BY <1>4 DEF SendMessage
  <2> QED BY <1>0, <1>2, <2>1
<1>5. ASSUME NEW l \in Listener, Acts(l), ~StartsAgain
      PROVE  m \in Loadable(p) \/ listener'[l] = <<"show", m>>
  <2>1. CASE UNCHANGED rows
    BY <1>1, <2>1
  <2>2. ASSUME NEW n \in Received, Does(l, <<"show", n>>),
               rows' = [rows EXCEPT ![PeerOf[n]] = Append(@, n)]
        PROVE  m \in Loadable(p) \/ listener'[l] = <<"show", m>>
    <3>1. listener'[l] = <<"show", n>>
      BY <2>2 DEF Does, TypeInv
    <3>2. m \in Loadable(p) \/ m = n
      BY <1>2, <2>2
    <3> QED BY <3>1, <3>2
  <2> QED BY <1>5, <2>1, <2>2, ListenerActs
<1>6. UNCHANGED rows => m \in Loadable(p)
  BY <1>1
<1> QED BY <1>3, <1>4, <1>5, <1>6, StepsAre

(* The pane is left for a conversation that is loaded, or closed. *)
Leaves(p) == Leave(p) /\ (app' = <<"load", p>> \/ dialog' = <<"load", p>> \/ p = None)

(* The bubble of a received message stays until the pane is left; what is  *)
(* mounted and what is applied is in the pane.                             *)
LEMMA ReceivedStays ==
    ASSUME TypeInv, PaneInv, [Next]_vars, NEW m \in Received
    PROVE  /\ Mine(m) \in ToSet(bubbles) =>
                Mine(m) \in ToSet(bubbles') \/ StartsAgain \/ \E p \in Peer \union {None} : Leaves(p)
           /\ MountRows /\ Mine(m) \in ToSet(app[3]) => Mine(m) \in ToSet(bubbles')
           /\ DialogMountsRows /\ Mine(m) \in ToSet(dialog[2]) => Mine(m) \in ToSet(bubbles')
           /\ RunCallback /\ Head(due) = <<"bubble", m>> => Mine(m) \in ToSet(bubbles')
<1> DEFINE c == Mine(m)
<1>0. /\ c \in Bubbles /\ c.message = m /\ c.status = "received" /\ m \notin Sent
      /\ bubbles \in Seq(Bubbles) /\ bubbles' \in Seq(Bubbles)
  BY BubbleTypes, TypesAreKept DEF TypeInv, Mine
<1> HIDE DEF c
<1>1. ASSUME MountRows
      PROVE  ToSet(bubbles') = ToSet(bubbles) \union ToSet(app[3])
  <2>1. app[3] \in Seq(Bubbles) /\ bubbles' = bubbles \o app[3]
    BY <1>1, AppCases DEF MountRows, Mount, TypeInv
  <2> QED BY <1>0, <2>1, ElementsOfConcat
<1>2. ASSUME DialogMountsRows
      PROVE  ToSet(bubbles') = ToSet(bubbles) \union ToSet(dialog[2])
  <2>1. dialog[2] \in Seq(Bubbles) /\ bubbles' = bubbles \o dialog[2]
    BY <1>2, DialogCases DEF DialogMountsRows, Mount, TypeInv
  <2> QED BY <1>0, <2>1, ElementsOfConcat
<1>3. ASSUME RunCallback
      PROVE  /\ c \in ToSet(bubbles) => c \in ToSet(bubbles')
             /\ Head(due) = <<"bubble", m>> => c \in ToSet(bubbles')
  <2>1. Head(due) \in Callback /\ bubbles' = Apply(Head(due))
    BY <1>3 DEF RunCallback, Mount, TypeInv
  <2>2. PICK f \in Callback : f = Head(due)
    BY <2>1
  <2>3. bubbles' = Apply(f)
    BY <2>1, <2>2
  <2>4. /\ \A b \in ToSet(bubbles) : b.message \in Received => b \in ToSet(Apply(f))
        /\ f[1] = "bubble" => Bubble(f[2], "received") \in ToSet(Apply(f))
    BY <1>0, ApplyChanges
  <2> QED BY <1>0, <2>2, <2>3, <2>4 DEF c, Mine
<1>4. ASSUME NEW n \in Sent, SendMessage(n), c \in ToSet(bubbles) PROVE c \in ToSet(bubbles')
  <2>1. bubbles' = Append(bubbles, Bubble(n, "pending"))
    BY <1>4 DEF SendMessage
  <2> QED BY <1>0, <1>4, <2>1, BubbleTypes, ElementsOfAppend
<1>5. ASSUME NEW n \in Sent, SendFails(n), c \in ToSet(bubbles) PROVE c \in ToSet(bubbles')
  <2>1. bubbles' = SetAll(n, "failed")
    BY <1>5 DEF SendFails
  <2>2. PICK k \in 1..Len(bubbles) : bubbles[k] = c
    BY <1>0, <1>5, ElementsOf
  <2>3. k \in 1..Len(bubbles') /\ bubbles'[k] = c
    BY <1>0, <2>1, <2>2, SetAllChanges
  <2> QED BY <1>0, <2>3, ElementsOf
<1>6. c \in ToSet(bubbles) =>
        c \in ToSet(bubbles') \/ StartsAgain \/ \E p \in Peer \union {None} : Leaves(p)
  BY <1>1, <1>2, <1>3, <1>4, <1>5, PaneSteps DEF pane, Leaves
<1> QED BY <1>1, <1>2, <1>3, <1>6 DEF c

(* What the app and the dialog load is loaded, or they are gone.           *)
LEMMA LoadingStays ==
    ASSUME TypeInv, PaneInv, [Next]_vars, ~StartsAgain,
           NEW m \in Received, m \in Loadable(PeerOf[m]), Loading(m)
    PROVE  Loading(m)' \/ Mine(m) \in ToSet(bubbles')
<1>1. PeerOf[m] \in Peer
  BY ChatAssumption
<1>2. CASE app = <<"load", PeerOf[m]>>
  <2>1. CASE ReadRows
    <3>1. app' = <<"mount", PeerOf[m], Messages(PeerOf[m])>>
      BY <1>2, <2>1 DEF ReadRows
    <3>2. Mine(m) \in ToSet(Messages(PeerOf[m]))
      BY <1>1, MessagesAre DEF Mine
    <3> QED BY <3>1, <3>2 DEF Loading, Mine
  <2> QED BY <1>2, <2>1, LoadSteps DEF Loading
<1>3. CASE app[1] = "mount" /\ Mine(m) \in ToSet(app[3])
  BY <1>3, LoadSteps, ReceivedStays DEF Loading, Mine
<1>4. CASE dialog = <<"load", PeerOf[m]>>
  <2>1. CASE DialogReadsRows
    <3>1. dialog' = <<"mount", Messages(PeerOf[m])>>
      BY <1>4, <2>1 DEF DialogReadsRows
    <3>2. Mine(m) \in ToSet(Messages(PeerOf[m]))
      BY <1>1, MessagesAre DEF Mine
    <3> QED BY <3>1, <3>2 DEF Loading, Mine
  <2> QED BY <1>4, <2>1, LoadSteps DEF Loading
<1>5. CASE dialog[1] = "mount" /\ Mine(m) \in ToSet(dialog[2])
  BY <1>5, LoadSteps, ReceivedStays DEF Loading, Mine
<1> QED BY <1>2, <1>3, <1>4, <1>5 DEF Loading

(* A listener shows a message that it has saved, or fails to.              *)
LEMMA ShowSteps ==
    ASSUME TypeInv, [Next]_vars, ~StartsAgain, NEW l \in Listener, NEW m \in Received
    PROVE  /\ listener[l] = <<"show", m>> =>
                \/ listener'[l] = listener[l]
                \/ Acts(l) /\ ShowMessage(l)
                \/ Acts(l) /\ m \in left' /\ m \in unshown'
           /\ listener'[l] = <<"show", m>> =>
                \/ listener'[l] = listener[l]
                \/ unread' = [unread EXCEPT ![PeerOf[m]] = @ + 1]
<1>1. ASSUME NEW k \in Listener, Acts(k), k # l PROVE listener'[l] = listener[l]
  BY <1>1, ListenerLeaves
<1>2. \A job : Does(l, job) => listener'[l] = job
  BY DEF Does, TypeInv
<1>3. ASSUME Acts(l), listener[l] = <<"show", m>>
      PROVE  ShowMessage(l) \/ (m \in left' /\ m \in unshown')
  <2>1. ~Silent(l) /\ listener[l] # Idle
    BY <1>3 DEF Silent, Showing, Idle
  <2>2. \A n : listener[l] # <<"select", n>> /\ listener[l] # <<"insert", n>> /\ listener[l] # <<"save", n>>
    BY <1>3
  <2>3. \A n : listener[l] = <<"show", n>> => n = m
    BY <1>3
  <2> QED BY <1>3, <2>1, <2>2, <2>3, ListenerActs
<1>4. ASSUME Acts(l), listener'[l] = <<"show", m>>
      PROVE  unread' = [unread EXCEPT ![PeerOf[m]] = @ + 1]
  <2>1. ~Silent(l)
    BY <1>4 DEF Silent, Showing
  <2>2. \A n : ~Does(l, <<"select", n>>) /\ ~Does(l, <<"insert", n>>) /\ ~Does(l, <<"save", n>>)
    BY <1>2, <1>4
  <2>3. ~Does(l, Idle)
    BY <1>2, <1>4 DEF Idle
  <2>4. \A n : Does(l, <<"show", n>>) => n = m
    BY <1>2, <1>4
  <2> QED BY <1>4, <2>1, <2>2, <2>3, <2>4, ListenerActs
<1>5. UNCHANGED listener \/ \E k \in Listener : Acts(k)
  BY StepsAre
<1> QED BY <1>1, <1>3, <1>4, <1>5

(* The conversation stays open unless the pane is left. *)
LEMMA PaneStays ==
    ASSUME TypeInv, PaneInv, [Next]_vars, ~StartsAgain,
           ~\E p \in Peer \union {None} : Leaves(p)
    PROVE  currentPeer' = currentPeer /\ unshown \subseteq unshown'
<1>1. \A n : SendMessage(n) \/ SendFails(n) => UNCHANGED <<currentPeer, unshown>>
  BY DEF SendMessage, SendFails
<1>2. MountRows \/ DialogMountsRows \/ RunCallback => UNCHANGED <<currentPeer, unshown>>
  BY DEF MountRows, DialogMountsRows, RunCallback
<1> QED BY <1>1, <1>2, PaneSteps DEF Leaves

(* Every step keeps it on its way. *)
LEMMA ShowingIsKept ==
    ASSUME TypeInv, PaneInv, ShowInv, [Next]_vars
    PROVE  ShowInv'
<1> SUFFICES ASSUME NEW m \in Received, m \in Loadable(PeerOf[m])', currentPeer' = PeerOf[m]
             PROVE  Mine(m) \in ToSet(bubbles') \/ Coming(m)' \/ m \in unshown'
  BY DEF ShowInv, Mine
<1>0. PeerOf[m] \in Peer /\ PeerOf[m] # None
  BY ChatAssumption
<1>1. ~StartsAgain
  BY <1>0 DEF StartsAgain
<1>2. CASE m \notin Loadable(PeerOf[m])
  <2>1. PICK l \in Listener : listener'[l] = <<"show", m>>
    BY <1>0, <1>2, LoadableSteps
  <2> QED BY <2>1 DEF Coming, Showing
<1>3. ASSUME NEW p \in Peer \union {None}, Leaves(p) PROVE Loading(m)'
  BY <1>0, <1>3 DEF Leaves, Leave, Loading
<1>4. CASE m \in Loadable(PeerOf[m]) /\ ~\E p \in Peer \union {None} : Leaves(p)
  <2>1. currentPeer' = currentPeer /\ unshown \subseteq unshown'
    BY <1>1, <1>4, PaneStays
  <2>2. Mine(m) \in ToSet(bubbles) \/ Coming(m) \/ m \in unshown
    BY <1>4, <2>1 DEF ShowInv
  <2>3. CASE Mine(m) \in ToSet(bubbles)
    BY <1>1, <1>4, <2>3, ReceivedStays
  <2>4. ASSUME NEW l \in Listener, listener[l] = <<"show", m>>
        PROVE  Coming(m)' \/ m \in unshown'
    <3>1. CASE listener'[l] = listener[l]
      BY <2>4, <3>1 DEF Coming, Showing
    <3>2. CASE Acts(l) /\ ShowMessage(l)
      <4>1. IsShown(m)
        BY <2>1 DEF IsShown
      <4>2. <<"bubble", m>> \in Calls'
        BY <2>4, <3>2, <4>1, CallsOfListener
      <4> QED BY <4>2 DEF Coming
    <3> QED BY <1>1, <2>4, <3>1, <3>2, ShowSteps
  <2>5. CASE <<"bubble", m>> \in Calls
    BY <1>1, <2>5, CallSteps, ReceivedStays DEF Coming
  <2>6. CASE Loading(m)
    BY <1>1, <1>4, <2>6, LoadingStays DEF Coming
  <2> QED BY <2>1, <2>2, <2>3, <2>4, <2>5, <2>6 DEF Coming, Showing
<1> QED BY <1>2, <1>3, <1>4 DEF Coming

(* ShownIfSaved: when everything has been handled, a received message      *)
(* among the last Limit rows of a conversation is in the pane that shows   *)
(* it, whether it was saved before, during or after the loading, and by    *)
(* whichever listener, unless it could not be shown.                       *)
THEOREM SavedIsShown == Spec => []ShownIfSaved
<1>1. Init => ShowInv
  <2> SUFFICES ASSUME Init, NEW m \in Received PROVE currentPeer # PeerOf[m]
    BY DEF ShowInv
  <2> QED BY ChatAssumption DEF Init
<1>2. TypeInv /\ ShowInv => ShownIfSaved
  <2> SUFFICES ASSUME TypeInv, ShowInv, Quiet, currentPeer # None, NEW m \in Loadable(currentPeer)
               PROVE  Mine(m) \in Shown \/ m \in unshown
    BY DEF ShownIfSaved, Mine
  <2>0. m \in Received /\ currentPeer = PeerOf[m]
    <3>1. PICK p \in Peer : p = currentPeer
      BY DEF TypeInv
    <3> QED BY <3>1, LoadableIs
  <2>1. ~Coming(m)
    <3>1. Calls = {} /\ Showing(m) = {}
      BY NoElements DEF Quiet, Calls, Showing, Idle, Off
    <3> QED BY <3>1 DEF Quiet, Coming, Loading, Idle, Closed
  <2>2. Mine(m) \in ToSet(bubbles) \/ m \in unshown
    BY <2>0, <2>1 DEF ShowInv
  <2>3. CASE Mine(m) \in ToSet(bubbles)
    <3>1. PICK k \in 1..Len(bubbles) : bubbles[k] = Mine(m)
      BY <2>3, ElementsOf DEF TypeInv
    <3> QED BY <3>1 DEF Shown, TypeInv
  <2> QED BY <2>2, <2>3
<1> QED BY <1>1, <1>2, TypesBegin, PaneBegins, TypesAreKept, PaneIsKept, ShowingIsKept,
           PTL DEF Spec

-----------------------------------------------------------------------------
(* Nothing is overlooked.                                                  *)

(* What is in the pane was seen, what could not be shown was left.  A      *)
(* message that is about to be shown is unread, or its conversation is     *)
(* open, or was left.                                                      *)
SeenInv ==
    /\ \A m \in Received : Mine(m) \in ToSet(bubbles) => m \in seen
    /\ unshown \subseteq left
    /\ \A l \in Listener, m \in Received : listener[l] = <<"show", m>> =>
          currentPeer = PeerOf[m] \/ m \in left \/ unread[PeerOf[m]] > 0
    /\ NothingOverlooked

(* What is mounted is seen. *)
LEMMA MountIsSeen ==
    ASSUME NEW bs, Mount(bs), NEW m \in Received, Mine(m) \in ToSet(bubbles')
    PROVE  m \in seen'
<1>1. bubbles' = bs /\ Mine(m).message = m
  BY BubbleTypes DEF Mount, Mine
<1>2. m \in {b.message : b \in ToSet(bs)}
  BY <1>1
<1> QED BY <1>2 DEF Mount

(* What was seen or left stays so, and what is in the pane is seen. *)
LEMMA SeenStays ==
    ASSUME TypeInv, PaneInv, SeenInv, [Next]_vars
    PROVE  /\ seen \subseteq seen' /\ left \subseteq left' /\ unshown' \subseteq left'
           /\ \A m \in Received : Mine(m) \in ToSet(bubbles') => m \in seen'
<1> DEFINE Lefts == left \subseteq left' /\ unshown' \subseteq left'
<1>0. bubbles \in Seq(Bubbles) /\ bubbles' \in Seq(Bubbles)
  BY TypesAreKept DEF TypeInv
<1>1. CASE StartsAgain
  BY <1>1, NoElements DEF StartsAgain
<1>2. ASSUME NEW p, Leave(p)
      PROVE  Lefts /\ ToSet(bubbles') = {}
  BY <1>2, NoElements DEF Leave
<1>3. CASE MountRows
  <2>1. Mount(bubbles \o app[3]) /\ UNCHANGED <<left, unshown>>
    BY <1>3 DEF MountRows
  <2>2. seen \subseteq seen'
    BY <2>1 DEF Mount
  <2>3. Lefts
    BY <2>1 DEF SeenInv
  <2> QED BY <2>1, <2>2, <2>3, MountIsSeen
<1>4. CASE DialogMountsRows
  <2>1. Mount(bubbles \o dialog[2]) /\ UNCHANGED <<left, unshown>>
    BY <1>4 DEF DialogMountsRows
  <2>2. seen \subseteq seen'
    BY <2>1 DEF Mount
  <2>3. Lefts
    BY <2>1 DEF SeenInv
  <2> QED BY <2>1, <2>2, <2>3, MountIsSeen
<1>5. CASE RunCallback
  <2>1. Mount(Apply(Head(due))) /\ UNCHANGED <<left, unshown>>
    BY <1>5 DEF RunCallback
  <2>2. seen \subseteq seen'
    BY <2>1 DEF Mount
  <2>3. Lefts
    BY <2>1 DEF SeenInv
  <2> QED BY <2>1, <2>2, <2>3, MountIsSeen
<1>6. ASSUME NEW n \in Sent, SendMessage(n), NEW m \in Received, Mine(m) \in ToSet(bubbles')
      PROVE  Mine(m) \in ToSet(bubbles)
  <2>1. bubbles' = Append(bubbles, Bubble(n, "pending"))
    BY <1>6 DEF SendMessage
  <2>2. ToSet(bubbles') = ToSet(bubbles) \union {Bubble(n, "pending")}
    BY <1>0, <2>1, BubbleTypes, ElementsOfAppend
  <2>3. Mine(m) # Bubble(n, "pending")
    BY DEF Mine, Bubble
  <2> QED BY <1>6, <2>2, <2>3
<1>7. ASSUME NEW n \in Sent, SendFails(n), NEW m \in Received, Mine(m) \in ToSet(bubbles')
      PROVE  Mine(m) \in ToSet(bubbles)
  <2>1. bubbles' = SetAll(n, "failed")
    BY <1>7 DEF SendFails
  <2>2. PICK k \in 1..Len(bubbles') : bubbles'[k] = Mine(m)
    BY <1>0, <1>7, ElementsOf
  <2>3. Mine(m) # Bubble(n, "failed")
    BY DEF Mine, Bubble
  <2>4. k \in 1..Len(bubbles) /\ bubbles[k] = Mine(m)
    BY <1>0, <2>1, <2>2, <2>3, SetAllChanges
  <2> QED BY <1>0, <2>4, ElementsOf
<1>8. \A n \in Sent : SendMessage(n) \/ SendFails(n) => UNCHANGED <<seen, left, unshown>>
  BY DEF SendMessage, SendFails
<1>9. UNCHANGED <<left, unshown>> => Lefts
  BY DEF SeenInv
<1>10. CASE /\ UNCHANGED <<bubbles, seen>>
            /\ \/ UNCHANGED <<left, unshown>>
               \/ \E n : left' = left \union {n} /\ unshown' = unshown \union {n}
  <2>1. Lefts
    BY <1>10 DEF SeenInv
  <2> QED BY <1>10, <2>1 DEF SeenInv
<1> QED BY <1>1, <1>2, <1>3, <1>4, <1>5, <1>6, <1>7, <1>8, <1>9, <1>10, PaneSteps DEF SeenInv

(* The count of unread messages goes up when a message is saved, and only  *)
(* the conversation that is open is marked as read.                        *)
LEMMA UnreadSteps ==
    ASSUME TypeInv, PaneInv, [Next]_vars, NEW p \in Peer
    PROVE  unread'[p] >= unread[p] \/ (MarkRead /\ p = app[2] /\ currentPeer = p)
<1>0. unread \in [Peer -> Nat]
  BY DEF TypeInv
<1>1. CASE MarkRead
  <2>1. unread' = [unread EXCEPT ![app[2]] = 0] /\ currentPeer = app[2]
    BY <1>1 DEF MarkRead, MarkedRead, PaneInv
  <2> QED BY <1>0, <1>1, <2>1
<1>2. ASSUME NEW q, unread' = [unread EXCEPT ![q] = @ + 1]
      PROVE  unread'[p] >= unread[p]
  BY <1>0, <1>2
<1>3. CASE UNCHANGED unread
  BY <1>0, <1>3
<1>4. ASSUME NEW l \in Listener, Acts(l)
      PROVE  UNCHANGED unread \/ \E q : unread' = [unread EXCEPT ![q] = @ + 1]
  BY <1>4, ListenerActs
<1>5. StartsAgain => UNCHANGED unread
  BY DEF StartsAgain
<1> QED BY <1>1, <1>2, <1>3, <1>4, <1>5, StepsAre

(* The open conversation stays open, or is left. *)
LEMMA OpenStays ==
    ASSUME TypeInv, PaneInv, [Next]_vars, ~StartsAgain, NEW m \in Received,
           NEW l \in Listener, listener[l] = <<"show", m>>, currentPeer = PeerOf[m]
    PROVE  currentPeer' = PeerOf[m] \/ m \in left'
<1>1. \A p : Leave(p) => m \in left'
  BY DEF Leave, BeingShown
<1>2. \A n : SendMessage(n) \/ SendFails(n) => currentPeer' = currentPeer
  BY DEF SendMessage, SendFails
<1>3. MountRows \/ DialogMountsRows \/ RunCallback => currentPeer' = currentPeer
  BY DEF MountRows, DialogMountsRows, RunCallback
<1> QED BY <1>1, <1>2, <1>3, PaneSteps

(* A message in flight stays so, is seen, or is left. *)
LEMMA FlightEnds ==
    ASSUME TypeInv, PaneInv, SeenInv, [Next]_vars, NEW m \in Received, m \in InFlight
    PROVE  \/ m \in seen' \union left' \union InFlight'
           \/ /\ ~MarkRead /\ currentPeer # PeerOf[m]
              /\ \E l \in Listener : listener[l] = <<"show", m>>
<1>0. \A k \in Received : k \in InFlight' <=>
        \/ \E l \in Listener : listener'[l] = <<"show", k>>
        \/ <<"bubble", k>> \in Calls'
        \/ app'[1] = "mount" /\ Mine(k) \in ToSet(app'[3])
  BY DEF InFlight, BeingShown, Calls, Mine
<1>1. CASE StartsAgain
  BY <1>1 DEF StartsAgain
<1>2. ASSUME NEW l \in Listener, listener[l] = <<"show", m>>, ~StartsAgain
      PROVE  \/ m \in left' \union InFlight'
             \/ ~MarkRead /\ currentPeer # PeerOf[m]
  <2>1. CASE listener'[l] = listener[l]
    BY <1>0, <1>2, <2>1
  <2>2. CASE Acts(l) /\ ShowMessage(l) /\ currentPeer = PeerOf[m]
    <3>1. <<"bubble", m>> \in Calls'
      BY <1>2, <2>2, CallsOfListener DEF IsShown
    <3> QED BY <1>0, <3>1
  <2>3. CASE Acts(l) /\ ShowMessage(l) /\ currentPeer # PeerOf[m]
    <3>1. app' = app
      BY <2>3, ListenerLeaves
    <3>2. ~MarkRead
      BY <3>1 DEF MarkRead, JobEnds, Idle
    <3> QED BY <2>3, <3>2
  <2> QED BY <1>2, <2>1, <2>2, <2>3, ShowSteps
<1>3. CASE <<"bubble", m>> \in Calls /\ ~StartsAgain
  <2>1. <<"bubble", m>> \in Calls' \/ (RunCallback /\ Head(due) = <<"bubble", m>>)
    BY <1>3, CallSteps
  <2> QED BY <1>0, <2>1, ReceivedStays, SeenStays
<1>4. CASE app[1] = "mount" /\ Mine(m) \in ToSet(app[3]) /\ ~StartsAgain
  BY <1>0, <1>4, LoadSteps, ReceivedStays, SeenStays
<1>5. \/ \E l \in Listener : listener[l] = <<"show", m>>
      \/ <<"bubble", m>> \in Calls
      \/ app[1] = "mount" /\ Mine(m) \in ToSet(app[3])
  BY DEF InFlight, BeingShown, Calls, Mine
<1> QED BY <1>1, <1>2, <1>3, <1>4, <1>5

(* Every step keeps this. *)
LEMMA SeeingIsKept ==
    ASSUME TypeInv, PaneInv, ShowInv, SeenInv, [Next]_vars
    PROVE  SeenInv'
<1>0. /\ \A m \in Received : PeerOf[m] \in Peer
      /\ \A p \in Peer : unread[p] \in Nat /\ unread'[p] \in Nat
  BY ChatAssumption, TypesAreKept DEF TypeInv
<1>1. ASSUME NEW l \in Listener, NEW m \in Received, listener'[l] = <<"show", m>>
      PROVE  currentPeer' = PeerOf[m] \/ m \in left' \/ unread'[PeerOf[m]] > 0
  <2>1. ~StartsAgain
    BY <1>1 DEF StartsAgain, Off
  <2>2. CASE listener'[l] # listener[l]
    <3>1. unread' = [unread EXCEPT ![PeerOf[m]] = @ + 1]
      BY <1>1, <2>1, <2>2, ShowSteps
    <3>2. unread \in [Peer -> Nat]
      BY DEF TypeInv
    <3>3. unread'[PeerOf[m]] = unread[PeerOf[m]] + 1
      BY <1>0, <3>1, <3>2
    <3> QED BY <1>0, <3>3
  <2>3. CASE listener'[l] = listener[l]
    <3>1. CASE m \in left
      BY <3>1, SeenStays
    <3>2. CASE currentPeer = PeerOf[m]
      BY <1>1, <2>1, <2>3, <3>2, OpenStays
    <3>3. CASE unread[PeerOf[m]] > 0 /\ currentPeer # PeerOf[m]
      <4>1. unread'[PeerOf[m]] >= unread[PeerOf[m]]
        BY <1>0, <3>3, UnreadSteps
      <4> QED BY <1>0, <3>3, <4>1
    <3> QED BY <1>1, <2>3, <3>1, <3>2, <3>3 DEF SeenInv
  <2> QED BY <2>2, <2>3
<1>2. ASSUME NEW p \in Peer, unread'[p] = 0, NEW m \in Received, m \in Loadable(p)'
      PROVE  m \in seen' \union left' \union InFlight'
  <2>1. CASE m \notin Loadable(p)
    <3>1. \E l \in Listener : listener'[l] = <<"show", m>>
      BY <1>2, <2>1, LoadableSteps
    <3> QED BY <3>1 DEF InFlight, BeingShown
  <2>2. CASE m \in Loadable(p) /\ MarkRead /\ currentPeer = p
    <3>0. PeerOf[m] = p
      BY <2>2, LoadableIs
    <3>1. Mine(m) \in ToSet(bubbles) \/ Coming(m) \/ m \in unshown
      BY <2>2, <3>0 DEF ShowInv
    <3>2. app[1] = "markread" /\ dialog = Closed
      BY <2>2 DEF MarkRead, PaneInv, Idle
    <3>3. ~Loading(m)
      BY <3>2 DEF Loading, Closed
    <3>4. CASE Mine(m) \in ToSet(bubbles)
      BY <3>4, SeenStays DEF SeenInv
    <3>5. CASE m \in unshown
      BY <3>5, SeenStays DEF SeenInv
    <3>6. CASE Showing(m) # {} \/ <<"bubble", m>> \in Calls
      <4>1. m \in InFlight
        BY <3>6 DEF InFlight, BeingShown, Showing, Calls
      <4> QED BY <2>2, <4>1, FlightEnds
    <3> QED BY <3>1, <3>3, <3>4, <3>5, <3>6 DEF Coming
  <2>3. CASE m \in Loadable(p) /\ ~(MarkRead /\ currentPeer = p)
    <3>0. PeerOf[m] = p
      BY <2>3, LoadableIs
    <3>1. unread[p] = 0
      BY <1>0, <1>2, <2>3, UnreadSteps
    <3>2. m \in seen \union left \union InFlight
      BY <2>3, <3>1 DEF SeenInv, NothingOverlooked
    <3>3. CASE m \in seen \union left
      BY <3>3, SeenStays
    <3>4. CASE m \in InFlight
      <4>1. ASSUME NEW l \in Listener, listener[l] = <<"show", m>>, currentPeer # PeerOf[m]
            PROVE  m \in left'
        <5>1. m \in left
          BY <1>0, <3>0, <3>1, <4>1 DEF SeenInv
        <5> QED BY <5>1, SeenStays
      <4> QED BY <3>4, <4>1, FlightEnds
    <3> QED BY <3>2, <3>3, <3>4
  <2> QED BY <2>1, <2>2, <2>3
<1>3. /\ \A m \in Received : Mine(m) \in ToSet(bubbles') => m \in seen'
      /\ unshown' \subseteq left'
  BY SeenStays
<1>4. NothingOverlooked'
  <2> SUFFICES ASSUME NEW p \in Peer, unread'[p] = 0, NEW m, m \in Loadable(p)'
               PROVE  m \in seen' \union left' \union InFlight'
    BY DEF NothingOverlooked
  <2>1. m \in Received
    BY DEF Loadable
  <2> QED BY <1>2, <2>1
<1> QED BY <1>1, <1>3, <1>4 DEF SeenInv, Mine

(* NothingOverlooked: a message among the last Limit rows of a             *)
(* conversation that is not unread was or will be in the pane, or was      *)
(* left, although conversations are marked as read after their rows were   *)
(* read.                                                                   *)
THEOREM NothingIsOverlooked == Spec => []NothingOverlooked
<1>1. Init => SeenInv /\ ShowInv
  <2> SUFFICES ASSUME Init PROVE SeenInv /\ ShowInv
    OBVIOUS
  <2>1. ToSet(bubbles) = {} /\ unshown = {}
    BY NoElements DEF Init
  <2>2. \A p \in Peer : Loadable(p) = {}
    BY DEF Init, Loadable
  <2>3. NothingOverlooked
    BY <2>2 DEF NothingOverlooked
  <2>4. \A l \in Listener, m \in Received : listener[l] # <<"show", m>>
    BY DEF Init, Off
  <2>5. ShowInv
    BY ChatAssumption DEF Init, ShowInv
  <2> QED BY <2>1, <2>3, <2>4, <2>5 DEF SeenInv
<1>2. SeenInv => NothingOverlooked
  BY DEF SeenInv
<1> QED BY <1>1, <1>2, TypesBegin, PaneBegins, TypesAreKept, PaneIsKept,
           ShowingIsKept, SeeingIsKept, PTL DEF Spec

=============================================================================
