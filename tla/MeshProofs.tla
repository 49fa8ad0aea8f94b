----------------------------- MODULE MeshProofs -----------------------------
(***************************************************************************)
(* Theorems about Mesh.tla, for any relays, links, peers and mails.        *)
(***************************************************************************)
EXTENDS Mesh, SequenceLemmas

MailKind == {"mesh_forward", "mesh_ack", "mesh_stored_forward"}
Frame == ({"mesh_add", "mesh_remove"} \X Peer) \union (MailKind \X Mail)
Wires == [Link -> [Relay -> Seq(Frame)]]

(* The types.  What is put in a sequence is finite: the peers of a relay   *)
(* and the rows that are selected.                                         *)
TypeInv ==
    /\ TypeOK
    /\ wire \in Wires
    /\ \A r \in Relay : IsFiniteSet(online[r]) /\ IsFiniteSet(rows[r])
    /\ \A e \in End : adding[e] # None => IsFiniteSet(adding[e])

-----------------------------------------------------------------------------
(* Links and their ends.                                                   *)

(* The relay at the other end. *)
LEMMA OtherEnd ==
    ASSUME NEW l \in Link, NEW r \in Relay
    PROVE  /\ Other(l, r) \in Relay
           /\ <<l, r>> \in End <=> r \in {Dialer[l], Acceptor[l]}
           /\ <<l, Other(l, r)>> \in End
BY MeshAssumption DEF Other, End

(* The two relays of a link. *)
LEMMA Both ==
    ASSUME NEW l \in Link
    PROVE  /\ Other(l, Dialer[l]) = Acceptor[l] /\ Other(l, Acceptor[l]) = Dialer[l]
           /\ Dialer[l] \in Relay /\ Acceptor[l] \in Relay /\ Dialer[l] # Acceptor[l]
           /\ <<l, Dialer[l]>> \in End /\ <<l, Acceptor[l]>> \in End
BY MeshAssumption DEF Other, End

(* An end is a link and one of its relays. *)
LEMMA Ends ==
    ASSUME NEW e \in End
    PROVE  /\ e[1] \in Link /\ e[2] \in Relay /\ e = <<e[1], e[2]>>
           /\ e[2] \in {Dialer[e[1]], Acceptor[e[1]]}
BY DEF End

-----------------------------------------------------------------------------
(* The mails that frames carry.                                            *)

MailsOf(s) == {f[2] : f \in {g \in ToSet(s) : g[1] \in MailKind}}

(* Carried(l, r) is what the frames under way carry. *)
LEMMA CarriedIs == \A l, r : Carried(l, r) = MailsOf(wire[l][r])
BY DEF Carried, MailsOf, MailKind

(* Frames that announce a peer carry none, the others one.                 *)
LEMMA Frames ==
    /\ \A p \in Peer : MeshAdd(p) \in Frame /\ MeshRemove(p) \in Frame
    /\ \A m \in Mail : MeshForward(m) \in Frame /\ StoredForward(m) \in Frame
    /\ \A p : MeshAdd(p)[1] \notin MailKind /\ MeshRemove(p)[1] \notin MailKind
    /\ \A m : /\ MeshForward(m)[1] \in MailKind /\ MeshForward(m)[2] = m
              /\ StoredForward(m)[1] \in MailKind /\ StoredForward(m)[2] = m
BY DEF MeshAdd, MeshRemove, MeshForward, StoredForward, Frame, MailKind

(* The mails of frames are mails. *)
LEMMA MailsAreMail ==
    ASSUME NEW s \in Seq(Frame)
    PROVE  MailsOf(s) \in SUBSET Mail
<1>1. ToSet(s) \subseteq Frame
  BY ElementsOf
<1>2. \A f \in Frame : f[1] \in MailKind => f[2] \in Mail
  BY DEF Frame, MailKind
<1> QED BY <1>1, <1>2 DEF MailsOf

(* Frames that are sent, and frames that are taken. *)
LEMMA MailsOfFrames ==
    /\ MailsOf(<<>>) = {}
    /\ \A s, t \in Seq(Frame) : MailsOf(s \o t) = MailsOf(s) \union MailsOf(t)
    /\ \A f \in Frame : /\ <<f>> \in Seq(Frame)
                        /\ MailsOf(<<f>>) = IF f[1] \in MailKind THEN {f[2]} ELSE {}
    /\ \A s \in Seq(Frame) : s # <<>> =>
         /\ Tail(s) \in Seq(Frame) /\ Head(s) \in Frame
         /\ MailsOf(s) = MailsOf(Tail(s)) \union
              (IF Head(s)[1] \in MailKind THEN {Head(s)[2]} ELSE {})
<1>1. MailsOf(<<>>) = {}
  BY NoElements DEF MailsOf
<1>2. ASSUME NEW s \in Seq(Frame), NEW t \in Seq(Frame)
      PROVE  MailsOf(s \o t) = MailsOf(s) \union MailsOf(t)
  <2>1. ToSet(s \o t) = ToSet(s) \union ToSet(t)
    BY ElementsOfConcat
  <2> QED BY <2>1 DEF MailsOf
<1>3. ASSUME NEW f \in Frame
      PROVE  /\ <<f>> \in Seq(Frame)
             /\ MailsOf(<<f>>) = IF f[1] \in MailKind THEN {f[2]} ELSE {}
  <2> DEFINE s == <<f>>
  <2>1. s \in Seq(Frame) /\ Len(s) = 1 /\ s[1] = f
    OBVIOUS
  <2> HIDE DEF s
  <2>2. ToSet(s) = {f}
    BY <2>1, ElementsOf
  <2>3. MailsOf(s) = IF f[1] \in MailKind THEN {f[2]} ELSE {}
    BY <2>2 DEF MailsOf
  <2> QED BY <2>1, <2>3 DEF s
<1>4. ASSUME NEW s \in Seq(Frame), s # <<>>
      PROVE  /\ Tail(s) \in Seq(Frame) /\ Head(s) \in Frame
             /\ MailsOf(s) = MailsOf(Tail(s)) \union
                  (IF Head(s)[1] \in MailKind THEN {Head(s)[2]} ELSE {})
  <2>1. /\ Tail(s) \in Seq(Frame) /\ Head(s) \in ToSet(s)
        /\ ToSet(s) = {Head(s)} \union ToSet(Tail(s)) /\ ToSet(s) \subseteq Frame
    BY <1>4, ElementsOfTail, ElementsOf
  <2>2. PICK h : h = Head(s)
    OBVIOUS
  <2>3. PICK t : t = Tail(s)
    OBVIOUS
  <2>4. MailsOf(s) = MailsOf(t) \union (IF h[1] \in MailKind THEN {h[2]} ELSE {})
    BY <2>1, <2>2, <2>3 DEF MailsOf
  <2> QED BY <2>1, <2>2, <2>3, <2>4
<1> QED BY <1>1, <1>2, <1>3, <1>4

(* The peers that a relay announces are no mail. *)
LEMMA AddsCarryNothing ==
    ASSUME TypeInv, NEW r \in Relay
    PROVE  /\ Adds(r) \in Seq(Frame) /\ MailsOf(Adds(r)) = {}
           /\ \A n \in 1..Len(Adds(r)) : /\ SubSeq(Adds(r), 1, n - 1) \in Seq(Frame)
                                         /\ MailsOf(SubSeq(Adds(r), 1, n - 1)) = {}
<1> DEFINE S == {MeshAdd(p) : p \in online[r]}
           f == [p \in Peer |-> MeshAdd(p)]
           q == SetToSeq(S)
<1>0. online[r] \in SUBSET Peer /\ IsFiniteSet(online[r])
  BY DEF TypeInv, TypeOK
<1>1. S = {f[p] : p \in online[r]}
  BY <1>0
<1>2. S \in SUBSET Frame /\ \A g \in S : g[1] \notin MailKind
  BY <1>0, Frames
<1> HIDE DEF f
<1>3. IsFiniteSet({f[p] : p \in online[r]})
  BY <1>0, FiniteValues
<1>4. IsFiniteSet(S)
  BY <1>1, <1>3
<1> HIDE DEF S
<1>5. q \in Seq(S) /\ ToSet(q) = S
  BY <1>4, ElementsOfSetToSeq
<1> HIDE DEF q
<1>6. q \in Seq(Frame)
  BY <1>2, <1>5
<1>7. ASSUME NEW n \in 1..Len(q)
      PROVE  SubSeq(q, 1, n - 1) \in Seq(Frame) /\ MailsOf(SubSeq(q, 1, n - 1)) = {}
  <2>1. n - 1 \in Nat /\ n - 1 <= Len(q)
    BY <1>6
  <2>2. SubSeq(q, 1, n - 1) \in Seq(Frame) /\ ToSet(SubSeq(q, 1, n - 1)) \subseteq ToSet(q)
    BY <1>6, <2>1, ElementsOfSubSeq
  <2> QED BY <1>2, <1>5, <2>2 DEF MailsOf
<1>8. MailsOf(q) = {}
  BY <1>2, <1>5 DEF MailsOf
<1>9. Adds(r) = q
  BY DEF Adds, q, S
<1> QED BY <1>6, <1>7, <1>8, <1>9

(* The frames in which stored mails leave carry all of them. *)
LEMMA StoredFrames ==
    ASSUME NEW S \in SUBSET Mail, IsFiniteSet(S)
    PROVE  /\ SetToSeq({StoredForward(m) : m \in S}) \in Seq(Frame)
           /\ MailsOf(SetToSeq({StoredForward(m) : m \in S})) = S
<1> DEFINE T == {StoredForward(m) : m \in S}
           f == [m \in Mail |-> StoredForward(m)]
           q == SetToSeq(T)
<1>1. T = {f[m] : m \in S}
  OBVIOUS
<1>2. T \in SUBSET Frame
  BY Frames
<1> HIDE DEF f
<1>3. IsFiniteSet({f[m] : m \in S})
  BY FiniteValues
<1>4. IsFiniteSet(T)
  BY <1>1, <1>3
<1>5. {g[2] : g \in {h \in T : h[1] \in MailKind}} = S
  <2>1. \A g \in T : g[1] \in MailKind /\ g[2] \in S
    BY Frames
  <2>2. \A m \in S : \E g \in T : g[1] \in MailKind /\ g[2] = m
    BY Frames
  <2> HIDE DEF T
  <2> QED BY <2>1, <2>2
<1> HIDE DEF T
<1>6. q \in Seq(T) /\ ToSet(q) = T
  BY <1>4, ElementsOfSetToSeq
<1> HIDE DEF q
<1>7. q \in Seq(Frame)
  BY <1>2, <1>6
<1>8. MailsOf(q) = S
  BY <1>5, <1>6 DEF MailsOf
<1> QED BY <1>7, <1>8 DEF q, T

-----------------------------------------------------------------------------
(* What the operations on wires do.                                        *)

(* Frames are sent on one link, in one direction. *)
LEMMA SendOnWires ==
    ASSUME TypeInv, NEW k \in Link, NEW r \in Relay, NEW fs \in Seq(Frame), SendOn(k, r, fs)
    PROVE  /\ wire' \in Wires
           /\ \A l \in Link, s \in Relay :
                MailsOf(wire'[l][s]) = MailsOf(wire[l][s]) \union
                    (IF l = k /\ s = Other(k, r) THEN MailsOf(fs) ELSE {})
<1> DEFINE o == Other(k, r)
<1>0. wire \in Wires /\ o \in Relay
  BY OtherEnd DEF TypeInv
<1>1. wire' = [wire EXCEPT ![k] = [wire[k] EXCEPT ![o] = wire[k][o] \o fs]]
  BY DEF SendOn
<1> HIDE DEF o
<1>2. wire[k][o] \o fs \in Seq(Frame)
  BY <1>0 DEF Wires
<1>3. wire' \in Wires
  BY <1>0, <1>1, <1>2 DEF Wires
<1>4. ASSUME NEW l \in Link, NEW s \in Relay
      PROVE  wire'[l][s] = IF l = k /\ s = o THEN wire[l][s] \o fs ELSE wire[l][s]
  BY <1>0, <1>1 DEF Wires
<1>5. \A l \in Link, s \in Relay : wire[l][s] \in Seq(Frame)
  BY <1>0 DEF Wires
<1> QED BY <1>3, <1>4, <1>5, MailsOfFrames DEF o

(* A frame about a peer is sent to all; it carries no mail. *)
LEMMA BroadcastWires ==
    ASSUME TypeInv, NEW r \in Relay, NEW f \in Frame, f[1] \notin MailKind, Broadcast(r, f)
    PROVE  /\ wire' \in Wires
           /\ \A l \in Link, s \in Relay : MailsOf(wire'[l][s]) = MailsOf(wire[l][s])
<1> DEFINE g(l, s) == IF l \in Conns(r) \ shut /\ s = Other(l, r) THEN <<f>> ELSE <<>>
<1>0. \A l \in Link, s \in Relay : wire[l][s] \in Seq(Frame)
  BY DEF TypeInv, Wires
<1>1. wire' = [l \in Link |-> [s \in Relay |-> wire[l][s] \o g(l, s)]]
  BY DEF Broadcast, Put
<1>2. ASSUME NEW l \in Link, NEW s \in Relay
      PROVE  g(l, s) \in Seq(Frame) /\ MailsOf(g(l, s)) = {}
  <2>1. /\ <<f>> \in Seq(Frame) /\ MailsOf(<<f>>) = {}
        /\ <<>> \in Seq(Frame) /\ MailsOf(<<>>) = {}
    <3>1. <<>> \in Seq(Frame)
      OBVIOUS
    <3>2. MailsOf(<<>>) = {}
      BY MailsOfFrames
    <3>3. <<f>> \in Seq(Frame)
      BY MailsOfFrames
    <3>4. MailsOf(<<f>>) = {}
      BY MailsOfFrames
    <3> QED BY <3>1, <3>2, <3>3, <3>4
  <2>2. g(l, s) = <<f>> \/ g(l, s) = <<>>
    OBVIOUS
  <2> HIDE DEF g
  <2> QED BY <2>1, <2>2
<1> HIDE DEF g
<1>3. \A l \in Link, s \in Relay : wire[l][s] \o g(l, s) \in Seq(Frame)
  BY <1>0, <1>2
<1>4. wire' \in Wires
  BY <1>1, <1>3 DEF Wires
<1>5. \A l \in Link, s \in Relay : wire'[l][s] = wire[l][s] \o g(l, s)
  BY <1>1
<1>6. ASSUME NEW l \in Link, NEW s \in Relay
      PROVE  MailsOf(wire[l][s] \o g(l, s)) = MailsOf(wire[l][s])
  <2>1. MailsOf(wire[l][s] \o g(l, s)) = MailsOf(wire[l][s]) \union MailsOf(g(l, s))
    BY <1>0, <1>2, MailsOfFrames
  <2> QED BY <1>2, <2>1
<1> QED BY <1>4, <1>5, <1>6

(* A frame is taken. *)
LEMMA TakeWires ==
    ASSUME TypeInv, NEW k \in Link, NEW r \in Relay, Take(k, r), wire[k][r] # <<>>
    PROVE  /\ wire' \in Wires /\ Head(wire[k][r]) \in Frame
           /\ \A l \in Link, s \in Relay :
                MailsOf(wire[l][s]) = MailsOf(wire'[l][s]) \union
                    (IF l = k /\ s = r /\ Head(wire[k][r])[1] \in MailKind
                     THEN {Head(wire[k][r])[2]} ELSE {})
<1> DEFINE t == Tail(wire[k][r])
<1>0. /\ wire \in Wires /\ \A l \in Link, s \in Relay : wire[l][s] \in Seq(Frame)
      /\ t \in Seq(Frame) /\ Head(wire[k][r]) \in Frame
      /\ MailsOf(wire[k][r]) = MailsOf(t) \union
           (IF Head(wire[k][r])[1] \in MailKind THEN {Head(wire[k][r])[2]} ELSE {})
  BY MailsOfFrames DEF TypeInv, Wires
<1>1. wire' = [wire EXCEPT ![k] = [wire[k] EXCEPT ![r] = t]]
  BY DEF Take
<1> HIDE DEF t
<1>2. wire' \in Wires
  BY <1>0, <1>1 DEF Wires
<1>3. \A l \in Link, s \in Relay :
        wire'[l][s] = IF l = k /\ s = r THEN t ELSE wire[l][s]
  BY <1>0, <1>1 DEF Wires
<1> QED BY <1>0, <1>2, <1>3

(* What is under way to an end that stops reading is gone. *)
LEMMA ClearWires ==
    ASSUME TypeInv, NEW k \in Link, NEW r \in Relay, wire' = [wire EXCEPT ![k][r] = <<>>]
    PROVE  /\ wire' \in Wires
           /\ \A l \in Link, s \in Relay :
                MailsOf(wire'[l][s]) = IF l = k /\ s = r THEN {} ELSE MailsOf(wire[l][s])
<1>0. wire \in Wires /\ <<>> \in Seq(Frame)
  BY DEF TypeInv
<1>1. wire' = [wire EXCEPT ![k] = [wire[k] EXCEPT ![r] = <<>>]]
  OBVIOUS
<1>2. wire' \in Wires
  BY <1>0, <1>1 DEF Wires
<1>3. \A l \in Link, s \in Relay :
        wire'[l][s] = IF l = k /\ s = r THEN <<>> ELSE wire[l][s]
  BY <1>0, <1>1 DEF Wires
<1>4. MailsOf(<<>>) = {}
  BY MailsOfFrames
<1> QED BY <1>2, <1>3, <1>4

-----------------------------------------------------------------------------
(* The types.                                                              *)

(* The reader of an end stops. *)
LEMMA StopTyped ==
    ASSUME TypeInv, NEW l \in Link, NEW r \in Relay, <<l, r>> \in End, StopReading(l, r)
    PROVE  /\ presence' \in [Relay -> [Peer -> Relay \union {None}]]
           /\ meshConn' \in [Relay -> [Relay -> Link \union {None}]]
           /\ ends' \in SUBSET End /\ shut' \in SUBSET Link
           /\ dial' \in [Link -> {"idle", "dialing", "ok", "open", "over"}]
           /\ wire' \in Wires
           /\ adding' \in [End -> (SUBSET Mail) \union {None}]
           /\ \A e \in End : adding'[e] # None => IsFiniteSet(adding'[e])
<1> USE DEF TypeInv, TypeOK
<1>1. presence' \in [Relay -> [Peer -> Relay \union {None}]]
  <2>1. \A p \in Peer :
          (IF presence[r][p] = Other(l, r) THEN None ELSE presence[r][p]) \in Relay \union {None}
    OBVIOUS
  <2>2. presence' = [presence EXCEPT ![r] =
          [p \in Peer |-> IF presence[r][p] = Other(l, r) THEN None ELSE presence[r][p]]]
    BY DEF StopReading, Forget
  <2> QED BY <2>1, <2>2
<1>2. meshConn' \in [Relay -> [Relay -> Link \union {None}]]
  <2>1. meshConn' = [meshConn EXCEPT ![r] =
          [s \in Relay |-> IF (r = Acceptor[l] /\ s = Other(l, r))
                              \/ (r = Dialer[l] /\ meshConn[r][s] = l)
                           THEN None ELSE meshConn[r][s]]]
    BY DEF StopReading, Unregister
  <2> QED BY <2>1
<1>3. /\ ends' \in SUBSET End /\ shut' \in SUBSET Link
      /\ dial' \in [Link -> {"idle", "dialing", "ok", "open", "over"}]
  BY DEF StopReading
<1>4. wire' \in Wires
  BY ClearWires DEF StopReading
<1>5. /\ adding' \in [End -> (SUBSET Mail) \union {None}]
      /\ \A e \in End : adding'[e] = adding[e] \/ adding'[e] = None
  BY DEF StopReading
<1> QED BY <1>1, <1>2, <1>3, <1>4, <1>5

(* A link is registered. *)
LEMMA RegisterTyped ==
    ASSUME TypeInv, NEW l \in Link, NEW r \in Relay, NEW s \in Relay
    PROVE  [meshConn EXCEPT ![r][s] = l] \in [Relay -> [Relay -> Link \union {None}]]
BY DEF TypeInv, TypeOK

(* A mail is saved. *)
LEMMA SaveTyped ==
    ASSUME TypeInv, NEW r \in Relay, NEW m \in Mail,
           saves' = saves \/ saves' = [saves EXCEPT ![r] = saves[r] \union {m}]
    PROVE  saves' \in [Relay -> SUBSET Mail]
<1>1. saves \in [Relay -> SUBSET Mail]
  BY DEF TypeInv, TypeOK
<1> QED BY <1>1

(* The steps on links. *)
LEMMA LinksKeepTypes ==
    ASSUME TypeInv, NEW l \in Link
    PROVE  Dial(l) \/ HandleMeshReg(l) \/ BreakAnnouncing(l) \/ Established(l) \/ Cut(l)
             => TypeInv'
<1>0. /\ Dialer[l] \in Relay /\ Acceptor[l] \in Relay
      /\ <<l, Dialer[l]>> \in End /\ <<l, Acceptor[l]>> \in End
  BY Both
<1>6. /\ meshConn \in [Relay -> [Relay -> Link \union {None}]]
      /\ [meshConn EXCEPT ![Acceptor[l]][Dialer[l]] = l]
            \in [Relay -> [Relay -> Link \union {None}]]
      /\ [meshConn EXCEPT ![Dialer[l]][Acceptor[l]] = l]
            \in [Relay -> [Relay -> Link \union {None}]]
  BY <1>0, RegisterTyped DEF TypeInv, TypeOK
<1> USE DEF TypeInv, TypeOK, clients, dbase, bounds, history, links
<1>1. ASSUME Dial(l) PROVE TypeInv'
  BY <1>1 DEF Dial
<1>2. ASSUME HandleMeshReg(l) PROVE TypeInv'
  <2>1. wire' \in Wires
    BY <1>0, <1>2, SendOnWires, AddsCarryNothing DEF HandleMeshReg
  <2>2. meshConn' \in [Relay -> [Relay -> Link \union {None}]]
    <3>1. \/ meshConn' = meshConn
          \/ meshConn' = [meshConn EXCEPT ![Acceptor[l]][Dialer[l]] = l]
      BY <1>2 DEF HandleMeshReg
    <3> QED BY <1>6, <3>1
  <2>3. /\ dial' \in [Link -> {"idle", "dialing", "ok", "open", "over"}]
        /\ ends' \in SUBSET End
    BY <1>0, <1>2 DEF HandleMeshReg
  <2> QED BY <1>2, <2>1, <2>2, <2>3 DEF HandleMeshReg
<1>3. ASSUME BreakAnnouncing(l) PROVE TypeInv'
  <2>1. wire' \in Wires
    <3>1. PICK n \in 1..Len(Adds(Acceptor[l])) :
             SendOn(l, Acceptor[l], SubSeq(Adds(Acceptor[l]), 1, n - 1))
      BY <1>3 DEF BreakAnnouncing
    <3>2. SubSeq(Adds(Acceptor[l]), 1, n - 1) \in Seq(Frame)
      BY <1>0, AddsCarryNothing
    <3> QED BY <1>0, <3>1, <3>2, SendOnWires
  <2>2. /\ meshConn' \in [Relay -> [Relay -> Link \union {None}]]
        /\ dial' \in [Link -> {"idle", "dialing", "ok", "open", "over"}]
        /\ shut' \in SUBSET Link /\ orphaned' \in SUBSET Link /\ cuts' \in Nat
    BY <1>0, <1>3 DEF BreakAnnouncing
  <2> QED BY <1>3, <2>1, <2>2 DEF BreakAnnouncing
<1>4. ASSUME Established(l) PROVE TypeInv'
  <2>1. wire' \in Wires
    <3>1. CASE UNCHANGED wire
      BY <3>1
    <3>2. CASE SendOn(l, Dialer[l], Adds(Dialer[l]))
      BY <1>0, <3>2, SendOnWires, AddsCarryNothing
    <3>3. CASE wire' = [wire EXCEPT ![l][Dialer[l]] = <<>>]
      BY <1>0, <3>3, ClearWires
    <3> QED BY <1>4, <3>1, <3>2, <3>3 DEF Established
  <2>2. Carried(l, Dialer[l]) \in SUBSET Mail
    <3>1. wire[l][Dialer[l]] \in Seq(Frame)
      BY <1>0 DEF Wires
    <3> QED BY <3>1, CarriedIs, MailsAreMail
  <2>3. meshConn' \in [Relay -> [Relay -> Link \union {None}]]
    <3>1. \/ meshConn' = meshConn
          \/ meshConn' = [meshConn EXCEPT ![Dialer[l]][Acceptor[l]] = l]
      BY <1>4 DEF Established
    <3> QED BY <1>6, <3>1
  <2>5. /\ dial' \in [Link -> {"idle", "dialing", "ok", "open", "over"}]
        /\ ends' \in SUBSET End
    BY <1>0, <1>4 DEF Established
  <2>4. dropped' \in SUBSET Mail
    BY <1>4, <2>2 DEF Established
  <2> QED BY <1>4, <2>1, <2>3, <2>4, <2>5 DEF Established
<1>5. ASSUME Cut(l) PROVE TypeInv'
  BY <1>5 DEF Cut
<1> QED BY <1>1, <1>2, <1>3, <1>4, <1>5

(* The steps of readers. *)
LEMMA ReadersKeepTypes ==
    ASSUME TypeInv, NEW l \in Link, NEW r \in Relay, <<l, r>> \in End
    PROVE  Read(l, r) \/ LinkEnds(l, r) => TypeInv'
<1> USE DEF TypeInv, TypeOK, clients, dbase, bounds, history, links
<1>0. Other(l, r) \in Relay /\ Carried(l, r) \in SUBSET Mail
  <2>1. wire[l][r] \in Seq(Frame)
    BY DEF Wires
  <2> QED BY <2>1, CarriedIs, MailsAreMail, OtherEnd
<1>1. ASSUME NEW p \in Peer, ReadAdd(l, r, p) PROVE TypeInv'
  <2>1. wire' \in Wires
    BY <1>1, TakeWires DEF ReadAdd, CanRead
  <2>2. presence' \in [Relay -> [Peer -> Relay \union {None}]]
    BY <1>0, <1>1 DEF ReadAdd, NotedAt
  <2>3. StoredFor(r, p) \in SUBSET rows[r]
    BY DEF StoredFor
  <2>4. StoredFor(r, p) \in SUBSET Mail /\ IsFiniteSet(StoredFor(r, p))
    BY <2>3, FS_Subset
  <2>5. /\ adding' \in [End -> (SUBSET Mail) \union {None}]
        /\ \A e \in End : adding'[e] # None => IsFiniteSet(adding'[e])
    BY <1>1, <2>4 DEF ReadAdd
  <2> QED BY <1>1, <2>1, <2>2, <2>5 DEF ReadAdd
<1>2. ASSUME NEW p \in Peer, ReadRemove(l, r, p) PROVE TypeInv'
  <2>1. wire' \in Wires
    BY <1>2, TakeWires DEF ReadRemove, CanRead
  <2>2. presence' \in [Relay -> [Peer -> Relay \union {None}]]
    BY <1>2 DEF ReadRemove
  <2> QED BY <1>2, <2>1, <2>2 DEF ReadRemove
<1>3. ASSUME NEW m \in Mail, ReadMail(l, r, m) PROVE TypeInv'
  <2>1. wire' \in Wires
    BY <1>3, TakeWires DEF ReadMail, CanRead
  <2>2. /\ saves' = saves \/ saves' = [saves EXCEPT ![r] = @ \union {m}]
        /\ handed' = handed \/ handed' = handed \union {m}
    BY <1>3 DEF ReadMail
  <2>3. saves' \in [Relay -> SUBSET Mail] /\ handed' \in SUBSET Mail
    BY <2>2, SaveTyped
  <2> QED BY <1>3, <2>1, <2>3 DEF ReadMail
<1>4. ASSUME NEW m \in Mail, ReadMailBroken(l, r, m) PROVE TypeInv'
  <2>1. CASE NextFrame(l, r)[1] = "mesh_stored_forward"
    <3>1. wire' \in Wires
      BY <1>4, <2>1, TakeWires DEF ReadMailBroken, CanRead
    <3> QED BY <1>4, <2>1, <3>1 DEF ReadMailBroken
  <2>2. CASE NextFrame(l, r)[1] # "mesh_stored_forward"
    <3>1. StopReading(l, r) /\ dropped' \in SUBSET Mail
      BY <1>0, <1>4, <2>2 DEF ReadMailBroken
    <3> QED BY <1>4, <3>1, StopTyped DEF ReadMailBroken
  <2> QED BY <2>1, <2>2
<1>5. ASSUME ForwardStored(l, r) PROVE TypeInv'
  <2>1. Moved(l, r) \in SUBSET Mail /\ IsFiniteSet(Moved(l, r))
    BY <1>5, FS_EmptySet DEF ForwardStored, Moved
  <2> DEFINE k == meshConn[r][Other(l, r)]
             fs == SetToSeq({StoredForward(m) : m \in Moved(l, r)})
  <2>2. fs \in Seq(Frame)
    BY <2>1, StoredFrames
  <2>3. k \in Link \union {None}
    BY <1>0
  <2>4. UNCHANGED wire \/ (k # None /\ SendOn(k, r, fs))
    BY <1>5 DEF ForwardStored
  <2> HIDE DEF k, fs
  <2>5. wire' \in Wires
    BY <2>2, <2>3, <2>4, SendOnWires
  <2>6. /\ rows' \in [Relay -> SUBSET Mail]
        /\ \A s \in Relay : rows'[s] \in SUBSET rows[s]
    BY <1>5 DEF ForwardStored
  <2>7. \A s \in Relay : IsFiniteSet(rows'[s])
    BY <2>6, FS_Subset
  <2>8. /\ adding' \in [End -> (SUBSET Mail) \union {None}]
        /\ \A e \in End : adding'[e] # None => IsFiniteSet(adding'[e])
    BY <1>5 DEF ForwardStored
  <2>9. dropped' \in SUBSET Mail
    BY <1>5, <2>1 DEF ForwardStored
  <2> QED BY <1>5, <2>5, <2>6, <2>7, <2>8, <2>9 DEF ForwardStored
<1>6. ASSUME LinkEnds(l, r) PROVE TypeInv'
  <2>1. StopReading(l, r) /\ dropped' \in SUBSET Mail
    BY <1>0, <1>6 DEF LinkEnds
  <2> QED BY <1>6, <2>1, StopTyped DEF LinkEnds
<1> QED BY <1>1, <1>2, <1>3, <1>4, <1>5, <1>6 DEF Read

(* The steps of clients and of the database. *)
LEMMA ClientsKeepTypes ==
    ASSUME TypeInv, NEW r \in Relay
    PROVE  /\ FetchRegistry(r) => TypeInv'
           /\ \A p \in Peer : Join(r, p) \/ Reset(r, p) \/ Quit(r, p) => TypeInv'
           /\ \A m \in Mail : Submit(r, m) \/ InsertRow(r, m) => TypeInv'
<1> USE DEF TypeInv, TypeOK, clients, dbase, bounds, history, links
<1>1. ASSUME FetchRegistry(r) PROVE TypeInv'
  BY <1>1 DEF FetchRegistry
<1>2. ASSUME NEW p \in Peer, Join(r, p) PROVE TypeInv'
  <2>1. wire' \in Wires
    BY <1>2, BroadcastWires, Frames DEF Join, Announce
  <2>2. /\ online' \in [Relay -> SUBSET Peer]
        /\ online'[r] = online[r] \union {p} /\ \A s \in Relay \ {r} : online'[s] = online[s]
    BY <1>2 DEF Join
  <2>3. \A s \in Relay : IsFiniteSet(online'[s])
    <3>1. IsFiniteSet(online[r] \union {p})
      BY FS_AddElement
    <3> QED BY <2>2, <3>1
  <2>4. /\ rows' \in [Relay -> SUBSET Mail]
        /\ \A s \in Relay : rows'[s] \in SUBSET rows[s]
    BY <1>2 DEF Join
  <2>5. \A s \in Relay : IsFiniteSet(rows'[s])
    BY <2>4, FS_Subset
  <2>6. handed' \in SUBSET Mail /\ joins' \in Nat
    BY <1>2 DEF Join, StoredFor
  <2> QED BY <1>2, <2>1, <2>2, <2>3, <2>4, <2>5, <2>6 DEF Join
<1>3. ASSUME NEW p \in Peer, Reset(r, p) PROVE TypeInv'
  BY <1>3 DEF Reset
<1>4. ASSUME NEW p \in Peer, Quit(r, p) PROVE TypeInv'
  <2>1. wire' \in Wires
    BY <1>4, BroadcastWires, Frames DEF Quit, Announce
  <2>2. /\ online' \in [Relay -> SUBSET Peer] /\ broken' \in [Relay -> SUBSET Peer]
        /\ \A s \in Relay : online'[s] \in SUBSET online[s]
    BY <1>4 DEF Quit
  <2>3. \A s \in Relay : IsFiniteSet(online'[s])
    BY <2>2, FS_Subset
  <2> QED BY <1>4, <2>1, <2>2, <2>3 DEF Quit
<1>5. ASSUME NEW m \in Mail, Submit(r, m) PROVE TypeInv'
  <2> DEFINE k == Route(r, Dest[m])
  <2>1. k \in Link \union {None}
    BY MeshAssumption DEF Route
  <2>2. UNCHANGED wire \/ (k # None /\ SendOn(k, r, <<MeshForward(m)>>))
    BY <1>5 DEF Submit
  <2> HIDE DEF k
  <2>3. wire' \in Wires
    <3>1. <<MeshForward(m)>> \in Seq(Frame)
      BY Frames, MailsOfFrames
    <3> QED BY <2>1, <2>2, <3>1, SendOnWires
  <2>4. /\ saves' = saves \/ saves' = [saves EXCEPT ![r] = @ \union {m}]
        /\ handed' \in {handed, handed \union {m}}
        /\ dropped' \in {dropped, dropped \union {m}}
        /\ answered' \in {answered, answered \union {m}}
        /\ given' = given \union {m}
    BY <1>5 DEF Submit
  <2>5. /\ saves' \in [Relay -> SUBSET Mail] /\ handed' \in SUBSET Mail
        /\ dropped' \in SUBSET Mail /\ answered' \in SUBSET Mail /\ given' \in SUBSET Mail
    <3>1. saves' \in [Relay -> SUBSET Mail]
      BY <2>4, SaveTyped
    <3> QED BY <2>4, <3>1
  <2> QED BY <1>5, <2>3, <2>5 DEF Submit
<1>6. ASSUME NEW m \in Mail, InsertRow(r, m) PROVE TypeInv'
  <2>1. /\ rows' \in [Relay -> SUBSET Mail] /\ saves' \in [Relay -> SUBSET Mail]
        /\ rows'[r] = rows[r] \union {m} /\ \A s \in Relay \ {r} : rows'[s] = rows[s]
    BY <1>6 DEF InsertRow
  <2>2. \A s \in Relay : IsFiniteSet(rows'[s])
    <3>1. IsFiniteSet(rows[r] \union {m})
      BY FS_AddElement
    <3> QED BY <2>1, <3>1
  <2> QED BY <1>6, <2>1, <2>2 DEF InsertRow
<1> QED BY <1>1, <1>2, <1>3, <1>4, <1>5, <1>6

(* Every step keeps the types. *)
LEMMA TypesAreKept ==
    ASSUME TypeInv, [Next]_vars
    PROVE  TypeInv'
<1>1. CASE \E e \in End : Read(e[1], e[2]) \/ LinkEnds(e[1], e[2])
  BY <1>1, Ends, ReadersKeepTypes
<1>2. CASE UNCHANGED vars
  BY <1>2 DEF vars, TypeInv, TypeOK, clients, dbase, bounds, history, links
<1> QED BY <1>1, <1>2, LinksKeepTypes, ClientsKeepTypes DEF Next

(* The types of the initial values. *)
LEMMA TypesBegin == Init => TypeInv
<1> SUFFICES ASSUME Init PROVE TypeInv
  OBVIOUS
<1>1. TypeOK
  BY DEF Init, TypeOK
<1>2. wire \in Wires
  <2>1. <<>> \in Seq(Frame)
    OBVIOUS
  <2> QED BY <2>1 DEF Init, Wires
<1>3. \A r \in Relay : IsFiniteSet(online[r]) /\ IsFiniteSet(rows[r])
  BY FS_EmptySet DEF Init
<1>4. \A e \in End : adding[e] = None
  BY DEF Init
<1> QED BY <1>1, <1>2, <1>3, <1>4 DEF TypeInv

(* TypeOK, for any relays, links, peers and mails. *)
THEOREM TypesHold == Spec => []TypeOK
<1>1. TypeInv => TypeOK
  BY DEF TypeInv
<1> QED BY <1>1, TypesBegin, TypesAreKept, PTL DEF Spec

-----------------------------------------------------------------------------
(* The tables of the links.                                                *)

(* A link that is registered is between the relays it is registered for,   *)
(* and has a reader unless its handler failed while announcing.            *)
Registered ==
    \A r, s \in Relay :
        LET l == meshConn[r][s] IN
        l # None => /\ Other(l, r) = s
                    /\ <<l, r>> \in End
                    /\ <<l, r>> \in ends \/ (l \in orphaned /\ r = Acceptor[l])

(* How far a link is, and who reads it.  On a link that nobody has shut    *)
(* the acceptor reads from its mesh_ok on and the dialer from its own      *)
(* registration on; the dialer never reads before.                         *)
LinkUp ==
    /\ orphaned \subseteq shut
    /\ \A l \in Link : <<l, Dialer[l]>> \in ends => dial[l] = "open"
    /\ \A l \in Link \ shut :
         /\ dial[l] \in {"ok", "open"} <=> <<l, Acceptor[l]>> \in ends
         /\ dial[l] = "open" => <<l, Dialer[l]>> \in ends

LinkInv == TypeInv /\ Registered /\ PresenceHasLink /\ LinkUp

(* A link is registered by an end that begins to read, or by a handler     *)
(* that failed.                                                            *)
LEMMA RegisterKeeps ==
    ASSUME TypeInv, Registered, NEW k \in Link, NEW o \in Relay, <<k, o>> \in End,
           meshConn' = [meshConn EXCEPT ![o][Other(k, o)] = k],
           ends \subseteq ends', orphaned \subseteq orphaned',
           <<k, o>> \in ends' \/ (k \in orphaned' /\ o = Acceptor[k])
    PROVE  Registered'
<1>1. meshConn \in [Relay -> [Relay -> Link \union {None}]] /\ Other(k, o) \in Relay
  BY OtherEnd DEF TypeInv, TypeOK
<1>2. ASSUME NEW r \in Relay, NEW s \in Relay
      PROVE  meshConn'[r][s] = IF r = o /\ s = Other(k, o) THEN k ELSE meshConn[r][s]
  BY <1>1
<1>3. SUFFICES ASSUME NEW r \in Relay, NEW s \in Relay, NEW l, l = meshConn'[r][s], l # None
      PROVE  /\ Other(l, r) = s
             /\ <<l, r>> \in End
             /\ <<l, r>> \in ends' \/ (l \in orphaned' /\ r = Acceptor[l])
  BY DEF Registered, Other
<1>4. CASE r = o /\ s = Other(k, o)
  BY <1>2, <1>3, <1>4
<1>5. CASE ~ (r = o /\ s = Other(k, o))
  BY <1>2, <1>3, <1>5 DEF Registered
<1> QED BY <1>4, <1>5

(* A reader that stops takes its link out of the tables. *)
LEMMA StopKeepsTables ==
    ASSUME TypeInv, Registered, PresenceHasLink, LinkUp,
           NEW k \in Link, NEW o \in Relay, <<k, o>> \in End, StopReading(k, o),
           UNCHANGED orphaned
    PROVE  Registered' /\ PresenceHasLink' /\ LinkUp'
<1>0. /\ meshConn \in [Relay -> [Relay -> Link \union {None}]]
      /\ presence \in [Relay -> [Peer -> Relay \union {None}]]
      /\ dial \in [Link -> {"idle", "dialing", "ok", "open", "over"}]
      /\ None \notin Link /\ None \notin Relay
  BY MeshAssumption DEF TypeInv, TypeOK
<1>1. ends' = ends \ {<<k, o>>} /\ shut' = shut \union {k}
  BY DEF StopReading
<1>2. ASSUME NEW r \in Relay, NEW s \in Relay, meshConn'[r][s] # None
      PROVE  /\ meshConn'[r][s] = meshConn[r][s]
             /\ r = o => ~ (o = Acceptor[k] /\ s = Other(k, o))
                         /\ ~ (o = Dialer[k] /\ meshConn[r][s] = k)
  <2>1. meshConn' = [meshConn EXCEPT ![o] =
          [q \in Relay |-> IF (o = Acceptor[k] /\ q = Other(k, o))
                              \/ (o = Dialer[k] /\ meshConn[o][q] = k)
                           THEN None ELSE meshConn[o][q]]]
    BY DEF StopReading, Unregister
  <2> QED BY <1>0, <1>2, <2>1
<1>3. Registered'
  <2>1. SUFFICES ASSUME NEW r \in Relay, NEW s \in Relay, NEW l, l = meshConn'[r][s], l # None
        PROVE  /\ Other(l, r) = s
               /\ <<l, r>> \in End
               /\ <<l, r>> \in ends' \/ (l \in orphaned' /\ r = Acceptor[l])
    BY DEF Registered, Other
  <2>2. /\ l = meshConn[r][s] /\ Other(l, r) = s /\ <<l, r>> \in End
        /\ <<l, r>> \in ends \/ (l \in orphaned /\ r = Acceptor[l])
    BY <1>2, <2>1 DEF Registered
  <2>3. <<l, r>> # <<k, o>>
    <3>1. o \in {Dialer[k], Acceptor[k]}
      BY OtherEnd
    <3> QED BY <1>2, <2>1, <2>2, <3>1
  <2> QED BY <1>1, <2>2, <2>3
<1>4. PresenceHasLink'
  <2>1. presence' = [presence EXCEPT ![o] =
          [p \in Peer |-> IF presence[o][p] = Other(k, o) THEN None ELSE presence[o][p]]]
    BY DEF StopReading, Forget
  <2>2. ASSUME NEW r \in Relay, NEW p \in Peer, presence'[r][p] # None
        PROVE  /\ presence'[r][p] = presence[r][p]
               /\ r = o => presence[r][p] # Other(k, o)
    BY <1>0, <2>1, <2>2
  <2>3. SUFFICES ASSUME NEW r \in Relay, NEW p \in Peer, NEW s, s = presence'[r][p], s # None
        PROVE  \E l \in Link : <<l, r>> \in ends' /\ Other(l, r) = s
    BY DEF PresenceHasLink, Other
  <2>4. s = presence[r][p] /\ (r = o => s # Other(k, o))
    BY <2>2, <2>3
  <2>5. PICK l \in Link : <<l, r>> \in ends /\ Other(l, r) = s
    BY <2>3, <2>4 DEF PresenceHasLink
  <2> QED BY <1>1, <2>4, <2>5
<1>5. LinkUp'
  <2>1. dial' = IF o = Dialer[k] THEN [dial EXCEPT ![k] = "over"] ELSE dial
    BY DEF StopReading
  <2>2. \A l \in Link : l # k => dial'[l] = dial[l]
    BY <1>0, <2>1
  <2>3. orphaned' \subseteq shut'
    BY <1>1 DEF LinkUp
  <2>4. ASSUME NEW l \in Link, <<l, Dialer[l]>> \in ends'
        PROVE  dial'[l] = "open"
    BY <1>0, <1>1, <2>1, <2>4 DEF LinkUp
  <2>5. ASSUME NEW l \in Link \ shut'
        PROVE  /\ dial'[l] \in {"ok", "open"} <=> <<l, Acceptor[l]>> \in ends'
               /\ dial'[l] = "open" => <<l, Dialer[l]>> \in ends'
    <3>1. l \in Link \ shut /\ l # k
      BY <1>1
    <3> QED BY <1>1, <2>2, <3>1 DEF LinkUp
  <2> QED BY <2>3, <2>4, <2>5 DEF LinkUp
<1> QED BY <1>3, <1>4, <1>5

(* Steps that leave the tables alone. *)
LEMMA TablesStill ==
    ASSUME Registered, PresenceHasLink, LinkUp,
           UNCHANGED <<dial, ends, shut, meshConn, presence, orphaned>>
    PROVE  Registered' /\ PresenceHasLink' /\ LinkUp'
BY DEF Registered, PresenceHasLink, LinkUp, Other

(* The steps on links. *)
LEMMA LinksKeepTables ==
    ASSUME LinkInv, NEW k \in Link,
           Dial(k) \/ HandleMeshReg(k) \/ BreakAnnouncing(k) \/ Established(k) \/ Cut(k)
    PROVE  Registered' /\ PresenceHasLink' /\ LinkUp'
<1> DEFINE a == Acceptor[k]
           d == Dialer[k]
<1>0. /\ TypeInv /\ Registered /\ PresenceHasLink /\ LinkUp
      /\ dial \in [Link -> {"idle", "dialing", "ok", "open", "over"}]
  BY DEF LinkInv, TypeInv, TypeOK
<1>1. /\ a \in Relay /\ d \in Relay /\ <<k, d>> \in End /\ <<k, a>> \in End /\ a # d
      /\ Other(k, a) = d /\ Other(k, d) = a
  BY Both
<1> HIDE DEF a, d
<1>2. ASSUME UNCHANGED <<ends, presence>> PROVE PresenceHasLink'
  BY <1>0, <1>2 DEF PresenceHasLink, Other
<1>3. ASSUME ends \subseteq ends', UNCHANGED presence PROVE PresenceHasLink'
  <2>1. ASSUME NEW r \in Relay, NEW p \in Peer, presence[r][p] # None
        PROVE  \E l \in Link : <<l, r>> \in ends' /\ Other(l, r) = presence[r][p]
    BY <1>0, <1>3, <2>1 DEF PresenceHasLink
  <2> QED BY <1>3, <2>1 DEF PresenceHasLink, Other
<1>4. ASSUME UNCHANGED <<meshConn, ends, orphaned>> PROVE Registered'
  BY <1>0, <1>4 DEF Registered, Other
<1>5. CASE Dial(k)
  <2>1. dial[k] = "idle" /\ dial' = [dial EXCEPT ![k] = "dialing"]
        /\ UNCHANGED <<ends, shut, meshConn, presence, orphaned>>
    BY <1>5 DEF Dial, bounds
  <2>2. LinkUp'
    BY <1>0, <2>1 DEF LinkUp
  <2> QED BY <1>2, <1>4, <2>1, <2>2
<1>6. CASE HandleMeshReg(k)
  <2>0. dial[k] = "dialing" /\ UNCHANGED <<shut, presence, orphaned>>
    BY <1>6 DEF HandleMeshReg, bounds
  <2>1. CASE dial' = [dial EXCEPT ![k] = "over"] /\ UNCHANGED <<meshConn, ends>>
    <3>1. LinkUp'
      BY <1>0, <2>0, <2>1 DEF LinkUp
    <3> QED BY <1>2, <1>4, <2>0, <2>1, <3>1
  <2>2. CASE /\ dial' = [dial EXCEPT ![k] = "ok"]
             /\ meshConn' = [meshConn EXCEPT ![a][d] = k]
             /\ ends' = ends \union {<<k, a>>}
    <3>1. LinkUp'
      BY <1>0, <1>1, <2>0, <2>2 DEF LinkUp, a, d
    <3>2. Registered'
      BY <1>0, <1>1, <2>0, <2>2, RegisterKeeps
    <3> QED BY <1>3, <2>0, <2>2, <3>1, <3>2
  <2> QED BY <1>6, <2>1, <2>2 DEF HandleMeshReg, a, d
<1>7. CASE BreakAnnouncing(k)
  <2>1. /\ dial[k] = "dialing" /\ dial' = [dial EXCEPT ![k] = "ok"]
        /\ meshConn' = [meshConn EXCEPT ![a][d] = k]
        /\ shut' = shut \union {k} /\ orphaned' = orphaned \union {k}
        /\ UNCHANGED <<ends, presence>>
    BY <1>7 DEF BreakAnnouncing, a, d
  <2>2. LinkUp'
    BY <1>0, <1>1, <2>1 DEF LinkUp, a, d
  <2>3. Registered'
    <3>1. k \in orphaned' /\ a = Acceptor[k]
      BY <2>1 DEF a
    <3> QED BY <1>0, <1>1, <2>1, <3>1, RegisterKeeps
  <2> QED BY <1>2, <2>1, <2>2, <2>3
<1>8. CASE Established(k)
  <2>0. dial[k] = "ok" /\ UNCHANGED <<shut, presence, orphaned>>
    BY <1>8 DEF Established, bounds
  <2>1. CASE k \in shut /\ dial' = [dial EXCEPT ![k] = "over"] /\ UNCHANGED <<meshConn, ends>>
    <3>1. LinkUp'
      BY <1>0, <2>0, <2>1 DEF LinkUp
    <3> QED BY <1>2, <1>4, <2>0, <2>1, <3>1
  <2>2. CASE /\ dial' = [dial EXCEPT ![k] = "open"]
             /\ meshConn' = [meshConn EXCEPT ![d][a] = k]
             /\ ends' = ends \union {<<k, d>>}
    <3>1. LinkUp'
      BY <1>0, <1>1, <2>0, <2>2 DEF LinkUp, a, d
    <3>2. Registered'
      BY <1>0, <1>1, <2>0, <2>2, RegisterKeeps
    <3> QED BY <1>3, <2>0, <2>2, <3>1, <3>2
  <2> QED BY <1>8, <2>1, <2>2 DEF Established, a, d
<1>9. CASE Cut(k)
  <2>1. /\ shut' = shut \union {k}
        /\ UNCHANGED <<dial, ends, meshConn, presence, orphaned>>
    BY <1>9 DEF Cut
  <2>2. LinkUp'
    BY <1>0, <2>1 DEF LinkUp
  <2> QED BY <1>2, <1>4, <2>1, <2>2
<1> QED BY <1>5, <1>6, <1>7, <1>8, <1>9

(* The steps of readers. *)
LEMMA ReadersKeepTables ==
    ASSUME LinkInv, NEW k \in Link, NEW o \in Relay, <<k, o>> \in End,
           Read(k, o) \/ LinkEnds(k, o)
    PROVE  Registered' /\ PresenceHasLink' /\ LinkUp'
<1>0. /\ TypeInv /\ Registered /\ PresenceHasLink /\ LinkUp
      /\ presence \in [Relay -> [Peer -> Relay \union {None}]]
  BY DEF LinkInv, TypeInv, TypeOK
<1>1. ASSUME NEW p \in Peer, ReadAdd(k, o, p) \/ ReadRemove(k, o, p)
      PROVE  Registered' /\ PresenceHasLink' /\ LinkUp'
  <2>1. /\ UNCHANGED <<dial, ends, shut, meshConn, orphaned>>
        /\ <<k, o>> \in ends
        /\ \/ presence' = [presence EXCEPT ![o][p] = Other(k, o)]
           \/ presence' = [presence EXCEPT ![o][p] = None]
    BY <1>1 DEF ReadAdd, ReadRemove, bounds, CanRead, NotedAt
  <2>2. Registered' /\ LinkUp'
    BY <1>0, <2>1 DEF Registered, LinkUp, Other
  <2>3. SUFFICES ASSUME NEW r \in Relay, NEW q \in Peer, NEW s, s = presence'[r][q], s # None
        PROVE  \E l \in Link : <<l, r>> \in ends' /\ Other(l, r) = s
    BY <2>2 DEF PresenceHasLink, Other
  <2>4. s = presence[r][q] \/ (r = o /\ s = Other(k, o))
    BY <1>0, <2>1, <2>3
  <2> QED BY <1>0, <2>1, <2>3, <2>4 DEF PresenceHasLink
<1>2. ASSUME NEW m \in Mail, ReadMail(k, o, m)
      PROVE  Registered' /\ PresenceHasLink' /\ LinkUp'
  BY <1>0, <1>2, TablesStill DEF ReadMail, bounds
<1>3. ASSUME NEW m \in Mail, ReadMailBroken(k, o, m)
      PROVE  Registered' /\ PresenceHasLink' /\ LinkUp'
  <2>1. UNCHANGED orphaned
        /\ (StopReading(k, o) \/ UNCHANGED <<dial, ends, shut, meshConn, presence>>)
    BY <1>3 DEF ReadMailBroken, bounds
  <2> QED BY <1>0, <2>1, TablesStill, StopKeepsTables
<1>4. ASSUME ForwardStored(k, o)
      PROVE  Registered' /\ PresenceHasLink' /\ LinkUp'
  BY <1>0, <1>4, TablesStill DEF ForwardStored, bounds
<1>5. ASSUME LinkEnds(k, o)
      PROVE  Registered' /\ PresenceHasLink' /\ LinkUp'
  BY <1>0, <1>5, StopKeepsTables DEF LinkEnds, bounds
<1> QED BY <1>1, <1>2, <1>3, <1>4, <1>5 DEF Read

(* The other steps do not touch the tables. *)
LEMMA ClientsKeepTables ==
    ASSUME LinkInv, NEW r \in Relay,
           \/ FetchRegistry(r)
           \/ \E p \in Peer : Join(r, p) \/ Reset(r, p) \/ Quit(r, p)
           \/ \E m \in Mail : Submit(r, m) \/ InsertRow(r, m)
    PROVE  Registered' /\ PresenceHasLink' /\ LinkUp'
<1>1. UNCHANGED <<dial, ends, shut, meshConn, presence, orphaned>>
  BY DEF FetchRegistry, Join, Reset, Quit, Submit, InsertRow, links, bounds
<1> QED BY <1>1, TablesStill DEF LinkInv

(* Every step keeps the tables. *)
LEMMA TablesAreKept ==
    ASSUME LinkInv, [Next]_vars
    PROVE  LinkInv'
<1>1. TypeInv'
  BY TypesAreKept DEF LinkInv
<1>2. CASE \E e \in End : Read(e[1], e[2]) \/ LinkEnds(e[1], e[2])
  BY <1>1, <1>2, Ends, ReadersKeepTables DEF LinkInv
<1>3. CASE UNCHANGED vars
  BY <1>1, <1>3, TablesStill DEF vars, links, bounds, LinkInv
<1> QED BY <1>1, <1>2, <1>3, LinksKeepTables, ClientsKeepTables DEF Next, LinkInv

(* The tables are empty at first. *)
LEMMA TablesBegin == Init => LinkInv
<1> SUFFICES ASSUME Init PROVE LinkInv
  OBVIOUS
<1>1. Registered /\ PresenceHasLink
  BY DEF Init, Registered, PresenceHasLink
<1>2. LinkUp
  BY DEF Init, LinkUp
<1> QED BY <1>1, <1>2, TypesBegin DEF LinkInv

(* LinkTables: whatever links join the relays, a registered link is one    *)
(* that is read (or whose handler failed while announcing), and no peer is *)
(* noted at a relay without a link.                                        *)
THEOREM TablesNameLinks == Spec => []LinkTables
<1>1. LinkInv => LinkTables
  BY DEF LinkInv, LinkTables, Registered, RegisteredIsRead
<1> QED BY <1>1, TablesBegin, TablesAreKept, PTL DEF Spec

-----------------------------------------------------------------------------
(* Custody: where an accepted mail is.                                     *)

(* The end reads, or is a dialer that is about to. *)
Reads(l, r) == <<l, r>> \in ends \/ (dial[l] = "ok" /\ r = Dialer[l])

(* Mails are only under way to ends that read. *)
Delivered ==
    \A l \in Link, r \in Relay : Carried(l, r) # {} => Reads(l, r)

(* Where a mail may be. *)
Kept(m) ==
    \/ m \in handed \union dropped
    \/ \E r \in Relay : m \in rows[r] \union saves[r]
    \/ \E l \in Link, r \in Relay : m \in Carried(l, r)

CustodyInv == LinkInv /\ Delivered /\ \A m \in answered : Kept(m)

(* A step keeps all mails if those that leave a place get to another one.  *)
LEMMA MailsStayKept ==
    ASSUME CustodyInv,
           handed \subseteq handed', dropped \subseteq dropped',
           \A r \in Relay : \A m \in rows[r] \union saves[r] : Kept(m)',
           \A l \in Link, r \in Relay : \A m \in MailsOf(wire[l][r]) : Kept(m)',
           \A m \in answered' : m \in answered \/ Kept(m)'
    PROVE  \A m \in answered' : Kept(m)'
<1>1. SUFFICES ASSUME NEW m \in answered', m \in answered PROVE Kept(m)'
  OBVIOUS
<1>2. Kept(m)
  BY <1>1 DEF CustodyInv
<1>3. CASE m \in handed \union dropped
  BY <1>3 DEF Kept
<1>4. CASE \E r \in Relay : m \in rows[r] \union saves[r]
  BY <1>4
<1>5. CASE \E l \in Link, r \in Relay : m \in Carried(l, r)
  BY <1>5, CarriedIs
<1> QED BY <1>2, <1>3, <1>4, <1>5 DEF Kept

(* Where a mail is after a step. *)
LEMMA KeptNext ==
    /\ \A m : m \in handed' \union dropped' => Kept(m)'
    /\ \A m, r : r \in Relay /\ m \in rows'[r] \union saves'[r] => Kept(m)'
    /\ \A m, l, r : l \in Link /\ r \in Relay /\ m \in MailsOf(wire'[l][r]) => Kept(m)'
<1>1. \A l, r : Carried(l, r)' = MailsOf(wire'[l][r])
  BY DEF Carried, MailsOf, MailKind
<1> QED BY <1>1 DEF Kept

(* A registered link that nobody has shut leads to an end that reads. *)
LEMMA RouteReads ==
    ASSUME LinkInv, NEW r \in Relay, NEW s \in Relay, meshConn[r][s] # None,
           meshConn[r][s] \notin shut
    PROVE  Reads(meshConn[r][s], Other(meshConn[r][s], r))
<1>1. PICK k \in Link : k = meshConn[r][s]
  BY DEF LinkInv, TypeInv, TypeOK
<1>2. <<k, r>> \in End /\ <<k, r>> \in ends /\ k \notin shut
  BY <1>1 DEF LinkInv, Registered, LinkUp
<1>3. r \in {Dialer[k], Acceptor[k]}
  BY <1>2, OtherEnd
<1>4. CASE r = Acceptor[k]
  <2>1. dial[k] \in {"ok", "open"} /\ (dial[k] = "open" => <<k, Dialer[k]>> \in ends)
    BY <1>2, <1>4 DEF LinkInv, LinkUp
  <2>2. Other(k, r) = Dialer[k]
    BY <1>4, Both
  <2> QED BY <1>1, <2>1, <2>2 DEF Reads
<1>5. CASE r = Dialer[k]
  <2>1. <<k, Acceptor[k]>> \in ends
    BY <1>2, <1>5 DEF LinkInv, LinkUp
  <2>2. Other(k, r) = Acceptor[k]
    BY <1>5, Both
  <2> QED BY <1>1, <2>1, <2>2 DEF Reads
<1> QED BY <1>3, <1>4, <1>5

(* Steps after which every mail under way was under way before or is sent  *)
(* to an end that reads.                                                   *)
LEMMA DeliveredNext ==
    ASSUME Delivered,
           \A l \in Link, r \in Relay : MailsOf(wire'[l][r]) # {} =>
               /\ MailsOf(wire[l][r]) # {} \/ Reads(l, r)
               /\ Reads(l, r) => Reads(l, r)'
    PROVE  Delivered'
<1>1. \A l, r : Carried(l, r)' = MailsOf(wire'[l][r]) /\ Carried(l, r) = MailsOf(wire[l][r])
  BY DEF Carried, MailsOf, MailKind
<1> QED BY <1>1 DEF Delivered

(* Steps that send no mail. *)
LEMMA NothingLost ==
    ASSUME CustodyInv,
           handed \subseteq handed', dropped \subseteq dropped', answered' = answered,
           \A r \in Relay : \A m \in rows[r] \union saves[r] : Kept(m)',
           \A l \in Link, r \in Relay : \A m \in MailsOf(wire[l][r]) : Kept(m)',
           \A l \in Link, r \in Relay : MailsOf(wire'[l][r]) \subseteq MailsOf(wire[l][r]),
           \A l \in Link, r \in Relay :
               MailsOf(wire'[l][r]) # {} /\ Reads(l, r) => Reads(l, r)'
    PROVE  CustodyInv' \/ ~LinkInv'
<1>1. Delivered'
  BY DeliveredNext DEF CustodyInv
<1>2. \A m \in answered' : Kept(m)'
  BY MailsStayKept
<1> QED BY <1>1, <1>2 DEF CustodyInv

(* Steps that leave the mails alone, and the readers. *)
LEMMA QuietStep ==
    ASSUME CustodyInv, LinkInv', UNCHANGED <<rows, saves, handed, dropped, answered>>,
           \A l \in Link, r \in Relay : MailsOf(wire'[l][r]) = MailsOf(wire[l][r]),
           \A l \in Link, r \in Relay : Reads(l, r) => Reads(l, r)'
    PROVE  CustodyInv'
<1>1. \A r \in Relay : \A m \in rows[r] \union saves[r] : Kept(m)'
  BY KeptNext
<1>2. \A l \in Link, r \in Relay : \A m \in MailsOf(wire[l][r]) : Kept(m)'
  BY KeptNext
<1> QED BY <1>1, <1>2, NothingLost

(* A reader that stops loses what is under way to it. *)
LEMMA StopKeepsMails ==
    ASSUME CustodyInv, LinkInv', NEW k \in Link, NEW o \in Relay, <<k, o>> \in End,
           StopReading(k, o), dropped' = dropped \union Carried(k, o),
           UNCHANGED <<rows, saves, handed, answered>>
    PROVE  CustodyInv'
<1>0. /\ TypeInv /\ dial \in [Link -> {"idle", "dialing", "ok", "open", "over"}]
      /\ o \in {Dialer[k], Acceptor[k]} /\ Dialer[k] # Acceptor[k]
  BY OtherEnd, MeshAssumption DEF CustodyInv, LinkInv, TypeInv, TypeOK
<1>1. \A l \in Link, r \in Relay :
        MailsOf(wire'[l][r]) = IF l = k /\ r = o THEN {} ELSE MailsOf(wire[l][r])
  BY <1>0, ClearWires DEF StopReading
<1>2. \A r \in Relay : \A m \in rows[r] \union saves[r] : Kept(m)'
  BY KeptNext
<1>3. ASSUME NEW l \in Link, NEW r \in Relay, NEW m \in MailsOf(wire[l][r])
      PROVE  Kept(m)'
  <2>1. CASE l = k /\ r = o
    <3>1. m \in dropped'
      BY <1>3, <2>1, CarriedIs
    <3> QED BY <3>1, KeptNext
  <2>2. CASE ~ (l = k /\ r = o)
    <3>1. m \in MailsOf(wire'[l][r])
      BY <1>1, <1>3, <2>2
    <3> QED BY <3>1, KeptNext
  <2> QED BY <2>1, <2>2
<1>4. ASSUME NEW l \in Link, NEW r \in Relay, MailsOf(wire'[l][r]) # {}, Reads(l, r)
      PROVE  Reads(l, r)'
  <2>1. ~ (l = k /\ r = o)
    BY <1>1, <1>4
  <2>2. ends' = ends \ {<<k, o>>}
        /\ dial' = IF o = Dialer[k] THEN [dial EXCEPT ![k] = "over"] ELSE dial
    BY DEF StopReading
  <2>3. CASE <<l, r>> \in ends
    BY <2>1, <2>2, <2>3 DEF Reads
  <2>4. CASE dial[l] = "ok" /\ r = Dialer[l]
    <3>1. dial'[l] = "ok"
      BY <1>0, <2>1, <2>2, <2>4
    <3> QED BY <2>4, <3>1 DEF Reads
  <2> QED BY <1>4, <2>3, <2>4 DEF Reads
<1> QED BY <1>1, <1>2, <1>3, <1>4, NothingLost

(* Mails that a relay sends on a registered link that nobody has shut get  *)
(* to an end that reads.                                                   *)
LEMMA SendKeepsMails ==
    ASSUME CustodyInv, LinkInv', NEW r \in Relay, NEW s \in Relay,
           NEW k \in Link, k = meshConn[r][s], k \notin shut,
           NEW fs \in Seq(Frame), SendOn(k, r, fs),
           UNCHANGED <<dial, ends, dropped, handed, saves>>,
           \A q \in Relay : rows[q] \subseteq rows'[q] \union MailsOf(fs),
           answered' \subseteq answered \union MailsOf(fs)
    PROVE  CustodyInv'
<1>0. TypeInv /\ LinkInv /\ None \notin Link /\ Other(k, r) \in Relay
  BY OtherEnd, MeshAssumption DEF CustodyInv, LinkInv
<1>1. \A l \in Link, q \in Relay :
        MailsOf(wire'[l][q]) = MailsOf(wire[l][q]) \union
            (IF l = k /\ q = Other(k, r) THEN MailsOf(fs) ELSE {})
  BY <1>0, SendOnWires
<1>2. Reads(k, Other(k, r))
  BY <1>0, RouteReads
<1>3. \A l, q : Reads(l, q)' <=> Reads(l, q)
  BY DEF Reads
<1>4. Delivered'
  <2>1. ASSUME NEW l \in Link, NEW q \in Relay, MailsOf(wire'[l][q]) # {}
        PROVE  MailsOf(wire[l][q]) # {} \/ Reads(l, q)
    <3>1. CASE l = k /\ q = Other(k, r)
      BY <1>2, <3>1
    <3>2. CASE ~ (l = k /\ q = Other(k, r))
      <4>1. MailsOf(wire'[l][q]) = MailsOf(wire[l][q]) \union
              (IF l = k /\ q = Other(k, r) THEN MailsOf(fs) ELSE {})
        BY <1>1
      <4>2. MailsOf(wire'[l][q]) = MailsOf(wire[l][q])
        BY <3>2, <4>1
      <4> QED BY <2>1, <4>2
    <3> QED BY <3>1, <3>2
  <2> QED BY <1>3, <2>1, DeliveredNext DEF CustodyInv
<1>5. \A m \in MailsOf(fs) : Kept(m)'
  BY <1>0, <1>1, KeptNext
<1>6. \A q \in Relay : \A m \in rows[q] \union saves[q] : Kept(m)'
  BY <1>5, KeptNext
<1>7. \A l \in Link, q \in Relay : \A m \in MailsOf(wire[l][q]) : Kept(m)'
  <2>1. \A l \in Link, q \in Relay : MailsOf(wire[l][q]) \subseteq MailsOf(wire'[l][q])
    BY <1>1
  <2> QED BY <2>1, KeptNext
<1>8. \A m \in answered' : Kept(m)'
  BY <1>5, <1>6, <1>7, MailsStayKept
<1> QED BY <1>4, <1>8 DEF CustodyInv

(* Steps that put nothing on a wire and move no link. *)
LEMMA StoreKeepsMails ==
    ASSUME CustodyInv, LinkInv', UNCHANGED <<dial, ends, wire>>,
           handed \subseteq handed', dropped \subseteq dropped',
           \A r \in Relay : \A m \in rows[r] \union saves[r] : Kept(m)',
           \A m \in answered' : m \in answered \/ Kept(m)'
    PROVE  CustodyInv'
<1>1. Delivered'
  BY DeliveredNext DEF Reads, CustodyInv
<1>2. \A l \in Link, r \in Relay : \A m \in MailsOf(wire[l][r]) : Kept(m)'
  BY KeptNext
<1>3. \A m \in answered' : Kept(m)'
  BY <1>2, MailsStayKept
<1> QED BY <1>1, <1>3 DEF CustodyInv

(* A reader takes a frame; a mail in it is handed over, saved or lost.     *)
LEMMA TakeKeepsMails ==
    ASSUME CustodyInv, LinkInv', NEW k \in Link, NEW o \in Relay, wire[k][o] # <<>>,
           Take(k, o), UNCHANGED <<dial, ends, rows, answered>>,
           handed \subseteq handed', dropped \subseteq dropped',
           \A r \in Relay : saves[r] \subseteq saves'[r],
           NextFrame(k, o)[1] \in MailKind =>
               \/ NextFrame(k, o)[2] \in handed' \union dropped'
               \/ \E r \in Relay : NextFrame(k, o)[2] \in saves'[r]
    PROVE  CustodyInv'
<1>0. TypeInv
  BY DEF CustodyInv, LinkInv
<1>1. \A l \in Link, r \in Relay :
        MailsOf(wire[l][r]) = MailsOf(wire'[l][r]) \union
            (IF l = k /\ r = o /\ NextFrame(k, o)[1] \in MailKind
             THEN {NextFrame(k, o)[2]} ELSE {})
  BY <1>0, TakeWires DEF NextFrame
<1>2. PICK f : f = NextFrame(k, o)
  OBVIOUS
<1>3. f[1] \in MailKind => Kept(f[2])'
  BY <1>2, KeptNext
<1>4. \A l \in Link, r \in Relay : \A m \in MailsOf(wire[l][r]) : Kept(m)'
  BY <1>1, <1>2, <1>3, KeptNext
<1>5. \A r \in Relay : \A m \in rows[r] \union saves[r] : Kept(m)'
  BY KeptNext
<1>6. \A l, r : Reads(l, r)' <=> Reads(l, r)
  BY DEF Reads
<1> QED BY <1>1, <1>4, <1>5, <1>6, NothingLost

(* Frames that carry no mail are sent. *)
LEMMA SendNoMail ==
    ASSUME TypeInv, NEW k \in Link, NEW r \in Relay,
           NEW fs \in Seq(Frame), SendOn(k, r, fs)
    PROVE  MailsOf(fs) = {} =>
             \A l \in Link, q \in Relay : MailsOf(wire'[l][q]) = MailsOf(wire[l][q])
<1>1. \A l \in Link, q \in Relay :
        MailsOf(wire'[l][q]) = MailsOf(wire[l][q]) \union
            (IF l = k /\ q = Other(k, r) THEN MailsOf(fs) ELSE {})
  BY SendOnWires
<1> QED BY <1>1

(* The steps on links send no mail. *)
LEMMA LinksKeepMails ==
    ASSUME CustodyInv, LinkInv', NEW k \in Link,
           Dial(k) \/ HandleMeshReg(k) \/ BreakAnnouncing(k) \/ Established(k) \/ Cut(k)
    PROVE  CustodyInv'
<1> DEFINE a == Acceptor[k]
           d == Dialer[k]
<1>0. /\ TypeInv /\ LinkUp
      /\ dial \in [Link -> {"idle", "dialing", "ok", "open", "over"}]
  BY DEF CustodyInv, LinkInv, TypeInv, TypeOK
<1>1. a \in Relay /\ d \in Relay /\ a # d
  BY Both
<1>2. /\ Adds(a) \in Seq(Frame) /\ MailsOf(Adds(a)) = {}
      /\ Adds(d) \in Seq(Frame) /\ MailsOf(Adds(d)) = {}
      /\ \A n \in 1..Len(Adds(a)) : /\ SubSeq(Adds(a), 1, n - 1) \in Seq(Frame)
                                    /\ MailsOf(SubSeq(Adds(a), 1, n - 1)) = {}
  BY <1>0, <1>1, AddsCarryNothing
<1> HIDE DEF a, d
<1>3. ASSUME NEW r \in Relay, NEW fs \in Seq(Frame), MailsOf(fs) = {}, SendOn(k, r, fs)
      PROVE  \A l \in Link, q \in Relay : MailsOf(wire'[l][q]) = MailsOf(wire[l][q])
  BY <1>0, <1>3, SendNoMail
<1>4. CASE Dial(k)
  <2>1. \A l, r : Reads(l, r) => Reads(l, r)'
    BY <1>0, <1>4 DEF Dial, Reads
  <2>2. UNCHANGED <<wire, rows, saves, handed, dropped, answered>>
    BY <1>4 DEF Dial, dbase, history
  <2> QED BY <2>1, <2>2, QuietStep
<1>5. CASE HandleMeshReg(k)
  <2>0. /\ dial[k] = "dialing" /\ ends \subseteq ends'
        /\ \A l \in Link : l # k => dial'[l] = dial[l]
        /\ UNCHANGED <<rows, saves, handed, dropped, answered>>
    BY <1>0, <1>5 DEF HandleMeshReg, dbase, history
  <2>1. \A l \in Link, r \in Relay : Reads(l, r) => Reads(l, r)'
    BY <2>0 DEF Reads
  <2>2. UNCHANGED wire \/ SendOn(k, a, Adds(a))
    BY <1>5 DEF HandleMeshReg, a
  <2>3. \A l \in Link, r \in Relay : MailsOf(wire'[l][r]) = MailsOf(wire[l][r])
    BY <1>1, <1>2, <1>3, <2>2
  <2> QED BY <2>0, <2>1, <2>3, QuietStep
<1>6. CASE BreakAnnouncing(k)
  <2>0. /\ dial[k] = "dialing" /\ ends' = ends
        /\ \A l \in Link : l # k => dial'[l] = dial[l]
        /\ UNCHANGED <<rows, saves, handed, dropped, answered>>
    BY <1>0, <1>6 DEF BreakAnnouncing, dbase, history
  <2>1. \A l \in Link, r \in Relay : Reads(l, r) => Reads(l, r)'
    BY <2>0 DEF Reads
  <2>2. PICK n \in 1..Len(Adds(a)) : SendOn(k, a, SubSeq(Adds(a), 1, n - 1))
    BY <1>6 DEF BreakAnnouncing, a
  <2>3. \A l \in Link, r \in Relay : MailsOf(wire'[l][r]) = MailsOf(wire[l][r])
    BY <1>1, <1>2, <1>3, <2>2
  <2> QED BY <2>0, <2>1, <2>3, QuietStep
<1>7. CASE Established(k)
  <2>0. /\ dial[k] = "ok" /\ ends \subseteq ends'
        /\ \A l \in Link : l # k => dial'[l] = dial[l]
        /\ UNCHANGED <<rows, saves, handed, answered>>
    BY <1>0, <1>7 DEF Established, dbase
  <2>1. CASE /\ ends' = ends \union {<<k, d>>} /\ UNCHANGED dropped
             /\ UNCHANGED wire \/ SendOn(k, d, Adds(d))
    <3>1. \A l \in Link, r \in Relay : Reads(l, r) => Reads(l, r)'
      BY <2>0, <2>1 DEF Reads, d
    <3>2. \A l \in Link, r \in Relay : MailsOf(wire'[l][r]) = MailsOf(wire[l][r])
      BY <1>1, <1>2, <1>3, <2>1
    <3> QED BY <2>0, <2>1, <3>1, <3>2, QuietStep
  <2>2. CASE dropped' = dropped \union Carried(k, d) /\ wire' = [wire EXCEPT ![k][d] = <<>>]
    <3>1. \A l \in Link, r \in Relay :
            MailsOf(wire'[l][r]) = IF l = k /\ r = d THEN {} ELSE MailsOf(wire[l][r])
      BY <1>0, <1>1, <2>2, ClearWires
    <3>2. \A r \in Relay : \A m \in rows[r] \union saves[r] : Kept(m)'
      BY <2>0, KeptNext
    <3>3. ASSUME NEW l \in Link, NEW r \in Relay, NEW m \in MailsOf(wire[l][r])
          PROVE  Kept(m)'
      <4>1. CASE l = k /\ r = d
        <5>1. m \in dropped'
          BY <2>2, <3>3, <4>1, CarriedIs
        <5> QED BY <5>1, KeptNext
      <4>2. CASE ~ (l = k /\ r = d)
        <5>1. m \in MailsOf(wire'[l][r])
          BY <3>1, <3>3, <4>2
        <5> QED BY <5>1, KeptNext
      <4> QED BY <4>1, <4>2
    <3>4. ASSUME NEW l \in Link, NEW r \in Relay, MailsOf(wire'[l][r]) # {}, Reads(l, r)
          PROVE  Reads(l, r)'
      <4>1. ~ (l = k /\ r = d)
        BY <3>1, <3>4
      <4> QED BY <2>0, <3>4, <4>1 DEF Reads, d
    <3> QED BY <2>0, <2>2, <3>1, <3>2, <3>3, <3>4, NothingLost
  <2> QED BY <1>7, <2>1, <2>2 DEF Established, a, d
<1>8. CASE Cut(k)
  <2>1. \A l, r : Reads(l, r) => Reads(l, r)'
    BY <1>8 DEF Cut, Reads
  <2> QED BY <1>8, <2>1, QuietStep DEF Cut, dbase, history
<1> QED BY <1>4, <1>5, <1>6, <1>7, <1>8

(* The steps of readers. *)
LEMMA ReadersKeepMails ==
    ASSUME CustodyInv, LinkInv', NEW k \in Link, NEW o \in Relay, <<k, o>> \in End,
           Read(k, o) \/ LinkEnds(k, o)
    PROVE  CustodyInv'
<1>0. TypeInv /\ LinkInv
  BY DEF CustodyInv, LinkInv
<1>1. ASSUME NEW p \in Peer, ReadAdd(k, o, p) \/ ReadRemove(k, o, p) PROVE CustodyInv'
  <2>1. /\ UNCHANGED <<dial, ends, rows, saves, handed, dropped, answered>>
        /\ wire[k][o] # <<>> /\ Take(k, o)
        /\ NextFrame(k, o) \in {MeshAdd(p), MeshRemove(p)}
    BY <1>1 DEF ReadAdd, ReadRemove, CanRead, dbase, history
  <2>2. NextFrame(k, o)[1] \notin MailKind
    BY <2>1, Frames
  <2> QED BY <2>1, <2>2, TakeKeepsMails
<1>2. ASSUME NEW m \in Mail, ReadMail(k, o, m) PROVE CustodyInv'
  <2>1. /\ UNCHANGED <<dial, ends, rows, dropped, answered>>
        /\ wire[k][o] # <<>> /\ Take(k, o)
        /\ NextFrame(k, o) \in {MeshForward(m), StoredForward(m)}
        /\ \/ handed' = handed \union {m} /\ UNCHANGED saves
           \/ saves' = [saves EXCEPT ![o] = saves[o] \union {m}] /\ UNCHANGED handed
    BY <1>2 DEF ReadMail, CanRead
  <2>2. NextFrame(k, o)[2] = m
    BY <2>1, Frames
  <2>3. saves \in [Relay -> SUBSET Mail]
    BY <1>0 DEF TypeInv, TypeOK
  <2>4. /\ \A r \in Relay : saves[r] \subseteq saves'[r]
        /\ handed \subseteq handed'
        /\ m \in handed' \/ m \in saves'[o]
    BY <2>1, <2>3
  <2> QED BY <2>1, <2>2, <2>4, TakeKeepsMails
<1>3. ASSUME NEW m \in Mail, ReadMailBroken(k, o, m) PROVE CustodyInv'
  <2>1. CASE NextFrame(k, o)[1] = "mesh_stored_forward"
    <3>1. /\ UNCHANGED <<dial, ends, rows, saves, handed, answered>>
          /\ wire[k][o] # <<>> /\ Take(k, o)
          /\ NextFrame(k, o) \in {MeshForward(m), StoredForward(m)}
          /\ dropped' = dropped \union {m}
      BY <1>3, <2>1 DEF ReadMailBroken, CanRead, dbase
    <3>2. NextFrame(k, o)[2] = m
      BY <3>1, Frames
    <3> QED BY <3>1, <3>2, TakeKeepsMails
  <2>2. CASE NextFrame(k, o)[1] # "mesh_stored_forward"
    <3>1. /\ StopReading(k, o) /\ dropped' = dropped \union Carried(k, o)
          /\ UNCHANGED <<rows, saves, handed, answered>>
      BY <1>3, <2>2 DEF ReadMailBroken, dbase
    <3> QED BY <3>1, StopKeepsMails
  <2> QED BY <2>1, <2>2
<1>4. ASSUME ForwardStored(k, o) PROVE CustodyInv'
  <2> DEFINE c == meshConn[o][Other(k, o)]
             fs == SetToSeq({StoredForward(m) : m \in Moved(k, o)})
  <2>1. /\ UNCHANGED <<dial, ends, saves, handed, answered>>
        /\ rows' = [rows EXCEPT ![o] = rows[o] \ Moved(k, o)]
        /\ adding[<<k, o>>] # None
        /\ \/ c = None /\ UNCHANGED <<wire, dropped>>
           \/ c # None /\ c \in shut /\ dropped' = dropped \union Moved(k, o) /\ UNCHANGED wire
           \/ c # None /\ c \notin shut /\ SendOn(c, o, fs) /\ UNCHANGED dropped
    BY <1>4 DEF ForwardStored, Deleted
  <2>2. PICK M : M = Moved(k, o)
    OBVIOUS
  <2>3. /\ M \in SUBSET Mail /\ IsFiniteSet(M)
        /\ c = None => M = {}
    BY <1>0, <2>1, <2>2, FS_EmptySet DEF Moved, TypeInv, TypeOK
  <2>4. fs \in Seq(Frame) /\ MailsOf(fs) = M
    BY <2>2, <2>3, StoredFrames
  <2>5. PICK g \in Seq(Frame) : g = fs /\ MailsOf(g) = M
    BY <2>4
  <2>6. rows \in [Relay -> SUBSET Mail] /\ Other(k, o) \in Relay /\ c \in Link \union {None}
    <3>1. Other(k, o) \in Relay
      BY OtherEnd
    <3> QED BY <1>0, <3>1 DEF TypeInv, TypeOK
  <2>7. \A r \in Relay : rows[r] \subseteq rows'[r] \union M
    BY <2>1, <2>2, <2>6
  <2>8. CASE c = None
    <3>1. \A r \in Relay : rows[r] \subseteq rows'[r]
      BY <2>3, <2>7, <2>8
    <3>2. \A r \in Relay : \A m \in rows[r] \union saves[r] : Kept(m)'
      BY <2>1, <3>1, KeptNext
    <3> QED BY <2>1, <2>8, <3>2, StoreKeepsMails
  <2>9. CASE c # None /\ c \in shut
    <3>1. \A r \in Relay : \A m \in rows[r] \union saves[r] : Kept(m)'
      <4>1. dropped' = dropped \union M
        BY <2>1, <2>2, <2>9
      <4> QED BY <2>1, <2>7, <4>1, KeptNext
    <3> QED BY <2>1, <2>9, <3>1, StoreKeepsMails
  <2>10. CASE c # None /\ c \notin shut
    <3>1. c \in Link /\ SendOn(c, o, g) /\ UNCHANGED dropped
      BY <2>1, <2>5, <2>6, <2>10
    <3>2. PICK l \in Link : l = c
      BY <3>1
    <3> HIDE DEF fs
    <3>3. /\ \A r \in Relay : rows[r] \subseteq rows'[r] \union MailsOf(g)
          /\ answered' \subseteq answered \union MailsOf(g)
          /\ SendOn(l, o, g) /\ l \notin shut /\ l = meshConn[o][Other(k, o)]
      BY <2>1, <2>5, <2>7, <2>10, <3>1, <3>2
    <3> QED BY <2>1, <2>6, <3>1, <3>3, SendKeepsMails
  <2> QED BY <2>8, <2>9, <2>10
<1>5. ASSUME LinkEnds(k, o) PROVE CustodyInv'
  BY <1>5, StopKeepsMails DEF LinkEnds, dbase
<1> QED BY <1>1, <1>2, <1>3, <1>4, <1>5 DEF Read

(* The steps of clients and of the database. *)
LEMMA ClientsKeepMails ==
    ASSUME CustodyInv, LinkInv', NEW r \in Relay
    PROVE  /\ FetchRegistry(r) => CustodyInv'
           /\ \A p \in Peer : Join(r, p) \/ Reset(r, p) \/ Quit(r, p) => CustodyInv'
           /\ \A m \in Mail : Submit(r, m) \/ InsertRow(r, m) => CustodyInv'
<1>0. /\ TypeInv /\ LinkInv
      /\ rows \in [Relay -> SUBSET Mail] /\ saves \in [Relay -> SUBSET Mail]
      /\ meshConn \in [Relay -> [Relay -> Link \union {None}]]
      /\ presence \in [Relay -> [Peer -> Relay \union {None}]]
  BY DEF CustodyInv, LinkInv, TypeInv, TypeOK
<1>1. ASSUME FetchRegistry(r) PROVE CustodyInv'
  <2>1. \A l, q : Reads(l, q) => Reads(l, q)'
    BY <1>1 DEF FetchRegistry, links, Reads
  <2> QED BY <1>1, <2>1, QuietStep DEF FetchRegistry, links, dbase, history
<1>2. ASSUME NEW p \in Peer, Join(r, p) PROVE CustodyInv'
  <2>1. /\ UNCHANGED <<dial, ends, saves, dropped, answered>>
        /\ handed' = handed \union StoredFor(r, p)
        /\ rows' = [rows EXCEPT ![r] = rows[r] \ StoredFor(r, p)]
    BY <1>2 DEF Join
  <2>2. \A l \in Link, q \in Relay : MailsOf(wire'[l][q]) = MailsOf(wire[l][q])
    BY <1>0, <1>2, BroadcastWires, Frames DEF Join, Announce
  <2>3. \A q \in Relay : rows[q] \subseteq rows'[q] \union handed'
    BY <1>0, <2>1
  <2>4. \A q \in Relay : \A m \in rows[q] \union saves[q] : Kept(m)'
    BY <2>1, <2>3, KeptNext
  <2>5. \A l \in Link, q \in Relay : \A m \in MailsOf(wire[l][q]) : Kept(m)'
    BY <2>2, KeptNext
  <2>6. \A l, q : Reads(l, q)' <=> Reads(l, q)
    BY <2>1 DEF Reads
  <2> QED BY <2>1, <2>2, <2>4, <2>5, <2>6, NothingLost
<1>3. ASSUME NEW p \in Peer, Reset(r, p) PROVE CustodyInv'
  <2>1. \A l, q : Reads(l, q) => Reads(l, q)'
    BY <1>3 DEF Reset, links, Reads
  <2> QED BY <1>3, <2>1, QuietStep DEF Reset, links, dbase, history
<1>4. ASSUME NEW p \in Peer, Quit(r, p) PROVE CustodyInv'
  <2>1. \A l, q : Reads(l, q) => Reads(l, q)'
    BY <1>4 DEF Quit, Reads
  <2>2. \A l \in Link, q \in Relay : MailsOf(wire'[l][q]) = MailsOf(wire[l][q])
    BY <1>0, <1>4, BroadcastWires, Frames DEF Quit, Announce
  <2> QED BY <1>4, <2>1, <2>2, QuietStep DEF Quit, dbase, history
<1>5. ASSUME NEW m \in Mail, Submit(r, m) PROVE CustodyInv'
  <2> DEFINE k == Route(r, Dest[m])
             h == presence[r][Dest[m]]
  <2>1. UNCHANGED <<dial, ends, rows>>
    BY <1>5 DEF Submit
  <2>2. CASE UNCHANGED <<wire, saves, dropped>>
             /\ \/ UNCHANGED <<handed, answered>>
                \/ handed' = handed \union {m} /\ answered' = answered \union {m}
    <3>1. \A q \in Relay : \A x \in rows[q] \union saves[q] : Kept(x)'
      BY <2>1, <2>2, KeptNext
    <3>2. \A x \in answered' : x \in answered \/ Kept(x)'
      BY <2>2, KeptNext
    <3> QED BY <2>1, <2>2, <3>1, <3>2, StoreKeepsMails
  <2>3. CASE /\ k # None /\ k \notin shut
             /\ SendOn(k, r, <<MeshForward(m)>>)
             /\ answered' = answered \union {m}
             /\ UNCHANGED <<saves, handed, dropped>>
    <3>1. h \in Relay /\ k = meshConn[r][h] /\ k \in Link
      BY <1>0, <2>3, MeshAssumption DEF Route
    <3>2. PICK l \in Link, s \in Relay : l = k /\ s = h
      BY <3>1
    <3> DEFINE fs == <<MeshForward(m)>>
    <3>3. fs \in Seq(Frame) /\ MailsOf(fs) = {m}
      BY Frames, MailsOfFrames
    <3> HIDE DEF fs
    <3>4. /\ \A q \in Relay : rows[q] \subseteq rows'[q] \union MailsOf(fs)
          /\ answered' \subseteq answered \union MailsOf(fs)
          /\ SendOn(l, r, fs) /\ l \notin shut /\ l = meshConn[r][s]
          /\ UNCHANGED <<dial, ends, dropped, handed, saves>>
      BY <2>1, <2>3, <3>1, <3>2, <3>3 DEF fs
    <3> QED BY <3>3, <3>4, SendKeepsMails
  <2>4. CASE /\ \/ answered' = answered \union {m} /\ dropped' = dropped \union {m}
                \/ UNCHANGED <<answered, dropped>>
             /\ UNCHANGED <<wire, saves, handed>>
    <3>1. \A q \in Relay : \A x \in rows[q] \union saves[q] : Kept(x)'
      BY <2>1, <2>4, KeptNext
    <3>2. \A x \in answered' : x \in answered \/ Kept(x)'
      BY <2>4, KeptNext
    <3> QED BY <2>1, <2>4, <3>1, <3>2, StoreKeepsMails
  <2>5. CASE /\ saves' = [saves EXCEPT ![r] = saves[r] \union {m}]
             /\ answered' = answered \union {m}
             /\ UNCHANGED <<wire, handed, dropped>>
    <3>1. m \in saves'[r] /\ \A q \in Relay : saves[q] \subseteq saves'[q]
      BY <1>0, <2>5
    <3>2. \A q \in Relay : \A x \in rows[q] \union saves[q] : Kept(x)'
      BY <2>1, <3>1, KeptNext
    <3>3. \A x \in answered' : x \in answered \/ Kept(x)'
      BY <2>5, <3>1, KeptNext
    <3> QED BY <2>1, <2>5, <3>2, <3>3, StoreKeepsMails
  <2> QED BY <1>5, <2>2, <2>3, <2>4, <2>5 DEF Submit
<1>6. ASSUME NEW m \in Mail, InsertRow(r, m) PROVE CustodyInv'
  <2>1. /\ UNCHANGED <<dial, ends, wire, handed, dropped, answered>>
        /\ rows' = [rows EXCEPT ![r] = rows[r] \union {m}]
        /\ saves' = [saves EXCEPT ![r] = saves[r] \ {m}]
    BY <1>6 DEF InsertRow, links, history
  <2>2. \A q \in Relay : rows[q] \union saves[q] \subseteq rows'[q] \union saves'[q]
    BY <1>0, <2>1
  <2>3. \A q \in Relay : \A x \in rows[q] \union saves[q] : Kept(x)'
    BY <2>2, KeptNext
  <2> QED BY <2>1, <2>3, StoreKeepsMails
<1> QED BY <1>1, <1>2, <1>3, <1>4, <1>5, <1>6

(* Every step keeps the mails. *)
LEMMA CustodyIsKept ==
    ASSUME CustodyInv, [Next]_vars
    PROVE  CustodyInv'
<1>1. LinkInv'
  BY TablesAreKept DEF CustodyInv
<1>2. CASE \E e \in End : Read(e[1], e[2]) \/ LinkEnds(e[1], e[2])
  BY <1>1, <1>2, Ends, ReadersKeepMails
<1>3. CASE UNCHANGED vars
  <2>1. UNCHANGED <<dial, ends, wire, rows, saves, handed, dropped, answered>>
    BY <1>3 DEF vars, links, dbase, history
  <2>2. \A r \in Relay : \A m \in rows[r] \union saves[r] : Kept(m)'
    BY <2>1, KeptNext
  <2> QED BY <1>1, <2>1, <2>2, StoreKeepsMails
<1> QED BY <1>1, <1>2, <1>3, LinksKeepMails, ClientsKeepMails DEF Next

(* No mail is accepted at first. *)
LEMMA CustodyBegins == Init => CustodyInv
<1> SUFFICES ASSUME Init PROVE CustodyInv
  OBVIOUS
<1>1. \A l \in Link, r \in Relay : wire[l][r] = <<>>
  BY DEF Init
<1>2. Delivered
  BY <1>1, CarriedIs, MailsOfFrames DEF Delivered
<1>3. answered = {}
  BY DEF Init
<1> QED BY <1>2, <1>3, TablesBegin DEF CustodyInv

(* MeshCustody: whatever links join the relays, a mail that the mesh has   *)
(* accepted is with its peer, at some relay, under way on a link that is   *)
(* read, or lost with the link or the connection it was written to.        *)
THEOREM AcceptedIsKept == Spec => []MeshCustody
<1>1. ASSUME CustodyInv PROVE MeshCustody
  <2>1. SUFFICES ASSUME NEW m \in answered
                 PROVE  \/ m \in handed \union dropped
                        \/ \E r \in Relay : m \in rows[r] \union saves[r]
                        \/ \E e \in End : /\ m \in Carried(e[1], e[2])
                                          /\ e \in ends \/ dial[e[1]] = "ok"
    BY DEF MeshCustody
  <2>2. Kept(m)
    BY <1>1 DEF CustodyInv
  <2>3. ASSUME NEW l \in Link, NEW r \in Relay, m \in Carried(l, r)
        PROVE  \E e \in End : /\ m \in Carried(e[1], e[2])
                              /\ e \in ends \/ dial[e[1]] = "ok"
    <3>1. Reads(l, r)
      BY <1>1, <2>3 DEF CustodyInv, Delivered
    <3>2. <<l, r>> \in End
      BY <1>1, <3>1, OtherEnd DEF Reads, CustodyInv, LinkInv, TypeInv, TypeOK
    <3>3. PICK e \in End : e = <<l, r>>
      BY <3>2
    <3>4. e[1] = l /\ e[2] = r
      BY <3>3
    <3> QED BY <2>3, <3>1, <3>3, <3>4 DEF Reads
  <2> QED BY <2>2, <2>3 DEF Kept
<1> QED BY <1>1, CustodyBegins, CustodyIsKept, PTL DEF Spec

-----------------------------------------------------------------------------
(* What two relays with one link know of each other's peers.               *)

OnePair == \E l : Link = {l} /\ Relay = {Dialer[l], Acceptor[l]}

(* Whether a peer is noted when the frames in q have been read, if it is   *)
(* noted now or not.                                                       *)
Noted(q, p, now) ==
    \/ \E i \in 1..Len(q) : /\ q[i] = MeshAdd(p)
                            /\ \A j \in (i + 1)..Len(q) : q[j] # MeshRemove(p)
    \/ now /\ \A i \in 1..Len(q) : q[i] # MeshRemove(p)

(* What relay r is told on link l: nothing before the other relay has      *)
(* registered it, and then all that is to be known of its peers.           *)
Told(l, r) ==
    IF meshConn[Other(l, r)][r] = l
    THEN \A p \in Peer : p \in online[Other(l, r)] <=>
                         Noted(wire[l][r], p, presence[r][p] = Other(l, r))
    ELSE wire[l][r] = <<>> /\ \A p \in Peer : presence[r][p] = None

(* How far a link is, and who has registered it. *)
UpTo(l) ==
    /\ meshConn[Acceptor[l]][Dialer[l]] = l <=> dial[l] \in {"ok", "open"}
    /\ meshConn[Dialer[l]][Acceptor[l]] = l <=> dial[l] = "open"

PairInv(l) ==
    LinkInv /\ (l \notin shut => UpTo(l) /\ Told(l, Dialer[l]) /\ Told(l, Acceptor[l]))

(* The frames about a peer are told apart. *)
LEMMA FramesDiffer ==
    /\ \A p, q : MeshAdd(p) # MeshRemove(q)
    /\ \A p, q : MeshAdd(p) = MeshAdd(q) => p = q
    /\ \A p, q : MeshRemove(p) = MeshRemove(q) => p = q
    /\ \A m, p : MeshForward(m) # MeshAdd(p) /\ MeshForward(m) # MeshRemove(p)
    /\ \A m, p : StoredForward(m) # MeshAdd(p) /\ StoredForward(m) # MeshRemove(p)
BY DEF MeshAdd, MeshRemove, MeshForward, StoredForward

(* The frames of two sequences, one after the other. *)
LEMMA PlacesOfConcat ==
    ASSUME NEW q \in Seq(Frame), NEW t \in Seq(Frame)
    PROVE  /\ q \o t \in Seq(Frame) /\ Len(q \o t) = Len(q) + Len(t)
           /\ \A i \in 1..Len(q) : (q \o t)[i] = q[i]
           /\ \A i \in 1..Len(t) : (q \o t)[Len(q) + i] = t[i]
           /\ \A i \in 1..Len(q \o t) : i \in 1..Len(q) \/ i - Len(q) \in 1..Len(t)
<1> DEFINE c == q \o t
<1>1. /\ c \in Seq(Frame) /\ Len(c) = Len(q) + Len(t)
      /\ \A i \in 1..Len(q) + Len(t) :
           c[i] = IF i <= Len(q) THEN q[i] ELSE t[i - Len(q)]
  OBVIOUS
<1>2. Len(q) \in Nat /\ Len(t) \in Nat
  OBVIOUS
<1> HIDE DEF c
<1>3. \A i \in 1..Len(q) : c[i] = q[i]
  BY <1>1, <1>2
<1>4. ASSUME NEW i \in 1..Len(t) PROVE c[Len(q) + i] = t[i]
  <2>1. Len(q) + i \in 1..Len(q) + Len(t) /\ ~(Len(q) + i <= Len(q)) /\ Len(q) + i - Len(q) = i
    BY <1>2
  <2> QED BY <1>1, <2>1
<1>5. \A i \in 1..Len(c) : i \in 1..Len(q) \/ i - Len(q) \in 1..Len(t)
  BY <1>1, <1>2
<1> QED BY <1>1, <1>3, <1>4, <1>5 DEF c

(* Frames that are not about a peer change nothing for it. *)
LEMMA NotedOthers ==
    ASSUME NEW q \in Seq(Frame), NEW t \in Seq(Frame), NEW p, NEW now,
           \A i \in 1..Len(t) : t[i] # MeshAdd(p) /\ t[i] # MeshRemove(p)
    PROVE  Noted(q \o t, p, now) <=> Noted(q, p, now)
<1> DEFINE c == q \o t
<1>1. /\ Len(q) \in Nat /\ Len(t) \in Nat /\ Len(c) = Len(q) + Len(t)
      /\ \A i \in 1..Len(q) : c[i] = q[i]
      /\ \A i \in 1..Len(t) : c[Len(q) + i] = t[i]
      /\ \A i \in 1..Len(c) : i \in 1..Len(q) \/ i - Len(q) \in 1..Len(t)
  BY PlacesOfConcat
<1> HIDE DEF c
<1>2. \A i \in 1..Len(c) : i \notin 1..Len(q) => c[i] # MeshAdd(p) /\ c[i] # MeshRemove(p)
  <2>1. SUFFICES ASSUME NEW i \in 1..Len(c), i \notin 1..Len(q)
                 PROVE  c[i] # MeshAdd(p) /\ c[i] # MeshRemove(p)
    OBVIOUS
  <2>2. PICK n \in 1..Len(t) : n = i - Len(q)
    BY <1>1, <2>1
  <2>3. i = Len(q) + n
    BY <1>1, <2>2
  <2> QED BY <1>1, <2>3
<1>3. \A i \in 1..Len(q) : i \in 1..Len(c)
  BY <1>1
<1>4. (\A i \in 1..Len(c) : c[i] # MeshRemove(p))
        <=> (\A i \in 1..Len(q) : q[i] # MeshRemove(p))
  BY <1>1, <1>2, <1>3
<1>5. ASSUME NEW i \in 1..Len(q)
      PROVE  (\A j \in (i + 1)..Len(c) : c[j] # MeshRemove(p))
               <=> (\A j \in (i + 1)..Len(q) : q[j] # MeshRemove(p))
  <2>1. \A j \in (i + 1)..Len(q) : j \in 1..Len(q) /\ j \in (i + 1)..Len(c)
    BY <1>1
  <2>2. \A j \in (i + 1)..Len(c) : j \in 1..Len(c) /\ (j \in 1..Len(q) => j \in (i + 1)..Len(q))
    BY <1>1
  <2> QED BY <1>1, <1>2, <2>1, <2>2
<1>6. (\E i \in 1..Len(c) : /\ c[i] = MeshAdd(p)
                            /\ \A j \in (i + 1)..Len(c) : c[j] # MeshRemove(p))
        <=> (\E i \in 1..Len(q) : /\ q[i] = MeshAdd(p)
                                  /\ \A j \in (i + 1)..Len(q) : q[j] # MeshRemove(p))
  BY <1>1, <1>2, <1>3, <1>5
<1> QED BY <1>4, <1>6 DEF Noted, c

(* A frame about a peer that is sent. *)
LEMMA NotedSent ==
    ASSUME NEW q \in Seq(Frame), NEW p \in Peer, NEW now
    PROVE  /\ Noted(q \o <<MeshAdd(p)>>, p, now)
           /\ ~Noted(q \o <<MeshRemove(p)>>, p, now)
<1> DEFINE n == Len(q)
<1>0. n \in Nat
  OBVIOUS
<1>1. ASSUME NEW f \in Frame
      PROVE  /\ Len(q \o <<f>>) = n + 1 /\ (q \o <<f>>)[n + 1] = f
  <2> DEFINE t == <<f>>
  <2>1. t \in Seq(Frame) /\ Len(t) = 1 /\ t[1] = f
    OBVIOUS
  <2> HIDE DEF t
  <2>2. /\ Len(q \o t) = n + 1 /\ (q \o t)[n + 1] = f
    BY <2>1, PlacesOfConcat
  <2> QED BY <2>2 DEF t
<1>2. Noted(q \o <<MeshAdd(p)>>, p, now)
  <2> DEFINE c == q \o <<MeshAdd(p)>>
  <2>1. Len(c) = n + 1 /\ c[n + 1] = MeshAdd(p)
    BY <1>1, Frames
  <2> HIDE DEF c, n
  <2>2. n + 1 \in 1..Len(c) /\ (n + 1 + 1)..Len(c) = {}
    BY <1>0, <2>1
  <2>3. Noted(c, p, now)
    BY <2>1, <2>2 DEF Noted
  <2> QED BY <2>3 DEF c
<1>3. ~Noted(q \o <<MeshRemove(p)>>, p, now)
  <2> DEFINE c == q \o <<MeshRemove(p)>>
  <2>1. Len(c) = n + 1 /\ c[n + 1] = MeshRemove(p)
    BY <1>1, Frames
  <2> HIDE DEF c, n
  <2>2. ASSUME NEW i \in 1..Len(c), c[i] = MeshAdd(p)
        PROVE  n + 1 \in (i + 1)..Len(c)
    <3>1. i # n + 1
      BY <2>1, <2>2, FramesDiffer
    <3> QED BY <1>0, <2>1, <3>1
  <2>3. n + 1 \in 1..Len(c)
    BY <1>0, <2>1
  <2>4. ~Noted(c, p, now)
    BY <2>1, <2>2, <2>3 DEF Noted
  <2> QED BY <2>4 DEF c
<1> QED BY <1>2, <1>3

(* A frame that is read: what it says is known now. *)
LEMMA NotedRead ==
    ASSUME NEW q \in Seq(Frame), q # <<>>, NEW p \in Peer, NEW now \in BOOLEAN
    PROVE  Noted(q, p, now) <=>
             Noted(Tail(q), p, Head(q) = MeshAdd(p) \/ (now /\ Head(q) # MeshRemove(p)))
<1> DEFINE t == Tail(q)
           then == Head(q) = MeshAdd(p) \/ (now /\ Head(q) # MeshRemove(p))
<1>1. /\ Len(q) \in Nat /\ Len(q) > 0 /\ Len(t) = Len(q) - 1 /\ Head(q) = q[1]
      /\ \A i \in 1..Len(t) : t[i] = q[i + 1]
  OBVIOUS
<1>2. then <=> q[1] = MeshAdd(p) \/ (now /\ q[1] # MeshRemove(p))
  BY <1>1
<1> HIDE DEF t, then
<1>3. \A i \in 2..Len(q) : i - 1 \in 1..Len(t) /\ t[i - 1] = q[i]
  BY <1>1
<1>4. \A i \in 1..Len(t) : i + 1 \in 2..Len(q)
  BY <1>1
<1>5. (\A i \in 1..Len(t) : t[i] # MeshRemove(p))
        <=> (\A i \in 2..Len(q) : q[i] # MeshRemove(p))
  BY <1>1, <1>3, <1>4
<1>6. ASSUME NEW i \in 1..Len(t)
      PROVE  (\A j \in (i + 1)..Len(t) : t[j] # MeshRemove(p))
               <=> (\A j \in (i + 2)..Len(q) : q[j] # MeshRemove(p))
  <2>1. \A j \in (i + 1)..Len(t) : j + 1 \in (i + 2)..Len(q) /\ t[j] = q[j + 1]
    BY <1>1
  <2>2. \A j \in (i + 2)..Len(q) : j - 1 \in (i + 1)..Len(t) /\ t[j - 1] = q[j]
    BY <1>1
  <2> QED BY <2>1, <2>2
<1>7. ASSUME Noted(q, p, now) PROVE Noted(t, p, then)
  <2>1. CASE \E i \in 1..Len(q) : /\ q[i] = MeshAdd(p)
                                  /\ \A j \in (i + 1)..Len(q) : q[j] # MeshRemove(p)
    <3>1. PICK i \in 1..Len(q) : /\ q[i] = MeshAdd(p)
                                 /\ \A j \in (i + 1)..Len(q) : q[j] # MeshRemove(p)
      BY <2>1
    <3>2. CASE i = 1
      <4>1. \A j \in 2..Len(q) : q[j] # MeshRemove(p)
        BY <3>1, <3>2
      <4> QED BY <1>2, <1>5, <3>1, <3>2, <4>1 DEF Noted
    <3>3. CASE i # 1
      <4>1. i \in 2..Len(q) /\ i - 1 + 2 = i + 1
        BY <1>1, <3>3
      <4>2. i - 1 \in 1..Len(t) /\ t[i - 1] = MeshAdd(p)
        BY <1>3, <3>1, <4>1
      <4>3. \A j \in (i - 1 + 1)..Len(t) : t[j] # MeshRemove(p)
        BY <1>6, <3>1, <4>1, <4>2
      <4> QED BY <4>2, <4>3 DEF Noted
    <3> QED BY <3>2, <3>3
  <2>2. CASE now /\ \A i \in 1..Len(q) : q[i] # MeshRemove(p)
    <3>1. then /\ \A i \in 2..Len(q) : q[i] # MeshRemove(p)
      BY <1>1, <1>2, <2>2
    <3> QED BY <1>5, <3>1 DEF Noted
  <2> QED BY <1>7, <2>1, <2>2 DEF Noted
<1>8. ASSUME Noted(t, p, then) PROVE Noted(q, p, now)
  <2>1. CASE \E i \in 1..Len(t) : /\ t[i] = MeshAdd(p)
                                  /\ \A j \in (i + 1)..Len(t) : t[j] # MeshRemove(p)
    <3>1. PICK i \in 1..Len(t) : /\ t[i] = MeshAdd(p)
                                 /\ \A j \in (i + 1)..Len(t) : t[j] # MeshRemove(p)
      BY <2>1
    <3>2. i + 1 \in 1..Len(q) /\ q[i + 1] = MeshAdd(p) /\ i + 1 + 1 = i + 2
      BY <1>1, <3>1
    <3>3. \A j \in (i + 1 + 1)..Len(q) : q[j] # MeshRemove(p)
      BY <1>6, <3>1, <3>2
    <3> QED BY <3>2, <3>3 DEF Noted
  <2>2. CASE then /\ \A i \in 1..Len(t) : t[i] # MeshRemove(p)
    <3>1. \A i \in 2..Len(q) : q[i] # MeshRemove(p)
      BY <1>5, <2>2
    <3>2. 1 \in 1..Len(q) /\ \A i \in 1..Len(q) : i = 1 \/ i \in 2..Len(q)
      BY <1>1
    <3>3. CASE q[1] = MeshAdd(p)
      <4>1. \A j \in (1 + 1)..Len(q) : q[j] # MeshRemove(p)
        BY <3>1
      <4> QED BY <3>2, <3>3, <4>1 DEF Noted
    <3>4. CASE now /\ q[1] # MeshRemove(p)
      <4>1. \A i \in 1..Len(q) : q[i] # MeshRemove(p)
        BY <3>1, <3>2, <3>4
      <4> QED BY <3>4, <4>1 DEF Noted
    <3> QED BY <1>2, <2>2, <3>3, <3>4
  <2> QED BY <1>8, <2>1, <2>2 DEF Noted
<1> QED BY <1>7, <1>8 DEF t, then

(* The peers of a relay, as it announces them. *)
LEMMA NotedAdds ==
    ASSUME TypeInv, NEW r \in Relay, NEW p \in Peer
    PROVE  Noted(Adds(r), p, FALSE) <=> p \in online[r]
<1> DEFINE S == {MeshAdd(x) : x \in online[r]}
           q == SetToSeq(S)
           f == [x \in Peer |-> MeshAdd(x)]
<1>0. online[r] \in SUBSET Peer /\ IsFiniteSet(online[r])
  BY DEF TypeInv, TypeOK
<1>1. S = {f[x] : x \in online[r]}
  BY <1>0
<1>2. \A x \in Peer : MeshAdd(x) \in S <=> x \in online[r]
  BY <1>0, FramesDiffer
<1>3. \A g \in S : g # MeshRemove(p)
  BY FramesDiffer
<1> HIDE DEF f
<1>4. IsFiniteSet({f[x] : x \in online[r]})
  BY <1>0, FiniteValues
<1>5. IsFiniteSet(S)
  BY <1>1, <1>4
<1> HIDE DEF S
<1>6. q \in Seq(S) /\ ToSet(q) = S
  BY <1>5, ElementsOfSetToSeq
<1> HIDE DEF q
<1>7. /\ \A e : e \in S <=> \E i \in 1..Len(q) : q[i] = e
      /\ \A i \in 1..Len(q) : q[i] \in S
      /\ Len(q) \in Nat
  BY <1>6, ElementsOf
<1>8. \A i \in 1..Len(q) : q[i] # MeshRemove(p)
  BY <1>3, <1>7
<1>9. \A i \in 1..Len(q) : \A j \in (i + 1)..Len(q) : q[j] # MeshRemove(p)
  BY <1>7, <1>8
<1>10. Noted(q, p, FALSE) <=> \E i \in 1..Len(q) : q[i] = MeshAdd(p)
  BY <1>9 DEF Noted
<1>11. Adds(r) = q
  BY DEF Adds, q, S
<1> QED BY <1>2, <1>7, <1>10, <1>11

(* Where frames are put, and where one is taken. *)
LEMMA WirePlaces ==
    ASSUME TypeInv
    PROVE  /\ \A k, l \in Link, o, r \in Relay : wire[l][r] \in Seq(Frame)
           /\ \A k, l \in Link, o, r \in Relay, fs \in Seq(Frame) : SendOn(k, o, fs) =>
                wire'[l][r] = IF l = k /\ r = Other(k, o) THEN wire[l][r] \o fs ELSE wire[l][r]
           /\ \A k, l \in Link, o, r \in Relay : Take(k, o) =>
                wire'[l][r] = IF l = k /\ r = o THEN Tail(wire[l][r]) ELSE wire[l][r]
<1>1. wire \in Wires
  BY DEF TypeInv
<1>2. \A k, l \in Link, o, r \in Relay : wire[l][r] \in Seq(Frame)
  BY <1>1 DEF Wires
<1>3. ASSUME NEW k \in Link, NEW l \in Link, NEW o \in Relay, NEW r \in Relay,
             NEW fs \in Seq(Frame), SendOn(k, o, fs)
      PROVE  wire'[l][r] = IF l = k /\ r = Other(k, o) THEN wire[l][r] \o fs ELSE wire[l][r]
  <2> DEFINE x == Other(k, o)
  <2>1. wire' = [wire EXCEPT ![k] = [wire[k] EXCEPT ![x] = wire[k][x] \o fs]]
    BY <1>3 DEF SendOn
  <2>2. x \in Relay
    BY OtherEnd
  <2> HIDE DEF x
  <2>3. wire'[l][r] = IF l = k /\ r = x THEN wire[l][r] \o fs ELSE wire[l][r]
    BY <1>1, <2>1, <2>2 DEF Wires
  <2> QED BY <2>3 DEF x
<1>4. ASSUME NEW k \in Link, NEW l \in Link, NEW o \in Relay, NEW r \in Relay, Take(k, o)
      PROVE  wire'[l][r] = IF l = k /\ r = o THEN Tail(wire[l][r]) ELSE wire[l][r]
  <2>1. wire' = [wire EXCEPT ![k] = [wire[k] EXCEPT ![o] = Tail(wire[k][o])]]
    BY <1>4 DEF Take
  <2> QED BY <1>1, <2>1 DEF Wires
<1> QED BY <1>2, <1>3, <1>4

(* Whether a peer is noted depends on whether it is now, and on the frames. *)
LEMMA NotedAlike ==
    ASSUME NEW q, NEW p, NEW b \in BOOLEAN, NEW c \in BOOLEAN, b <=> c
    PROVE  Noted(q, p, b) <=> Noted(q, p, c)
<1>1. b = c
  OBVIOUS
<1> QED BY <1>1

(* What a relay is told, when the next state is given part by part. *)
LEMMA ToldThen ==
    ASSUME NEW l, NEW r, NEW s, s = Other(l, r),
           IF meshConn'[s][r] = l
           THEN \A p \in Peer : p \in online'[s]
             <=> Noted(wire'[l][r], p, presence'[r][p] = s)
           ELSE wire'[l][r] = <<>> /\ \A p \in Peer : presence'[r][p] = None
    PROVE  Told(l, r)'
<1>1. Other(l, r)' = s
  BY DEF Other
<1> QED BY <1>1 DEF Told, Noted

(* What a relay was told stays so while its parts stay. *)
LEMMA ToldStill ==
    ASSUME NEW l, NEW r, NEW s, s = Other(l, r), Told(l, r),
           meshConn'[s][r] = meshConn[s][r], online'[s] = online[s],
           wire'[l][r] = wire[l][r], presence'[r] = presence[r]
    PROVE  Told(l, r)'
<1>1. IF meshConn[s][r] = l
      THEN \A p \in Peer : p \in online[s] <=> Noted(wire[l][r], p, presence[r][p] = s)
      ELSE wire[l][r] = <<>> /\ \A p \in Peer : presence[r][p] = None
  BY DEF Told
<1>2. \A p \in Peer : Noted(wire'[l][r], p, presence'[r][p] = s)
                        <=> Noted(wire[l][r], p, presence[r][p] = s)
  OBVIOUS
<1>3. IF meshConn'[s][r] = l
      THEN \A p \in Peer : p \in online'[s] <=> Noted(wire'[l][r], p, presence'[r][p] = s)
      ELSE wire'[l][r] = <<>> /\ \A p \in Peer : presence'[r][p] = None
  BY <1>1, <1>2
<1> QED BY <1>3, ToldThen

(* A relay sends frames that are not about peers on a link it registered.  *)
LEMMA SendKeepsTold ==
    ASSUME TypeInv, NEW l \in Link, NEW o \in Relay, <<l, o>> \in End,
           meshConn[o][Other(l, o)] = l,
           NEW fs \in Seq(Frame), SendOn(l, o, fs),
           \A i \in 1..Len(fs), p \in Peer : fs[i] # MeshAdd(p) /\ fs[i] # MeshRemove(p),
           UNCHANGED <<meshConn, online, presence>>,
           NEW r \in {Dialer[l], Acceptor[l]}, Told(l, r)
    PROVE  Told(l, r)'
<1>0. /\ r \in Relay /\ o \in {Dialer[l], Acceptor[l]}
      /\ wire[l][r] \in Seq(Frame)
      /\ wire'[l][r] = IF r = Other(l, o) THEN wire[l][r] \o fs ELSE wire[l][r]
  <2>1. r \in Relay /\ o \in {Dialer[l], Acceptor[l]}
    BY Both, OtherEnd
  <2>2. \A k, n \in Link, x, y \in Relay, gs \in Seq(Frame) : SendOn(k, x, gs) =>
          wire'[n][y] = IF n = k /\ y = Other(k, x) THEN wire[n][y] \o gs ELSE wire[n][y]
    BY WirePlaces
  <2>3. wire'[l][r] = IF r = Other(l, o) THEN wire[l][r] \o fs ELSE wire[l][r]
    BY <2>1, <2>2
  <2>4. wire[l][r] \in Seq(Frame)
    BY <2>1, WirePlaces
  <2> QED BY <2>1, <2>3, <2>4
<1>1. CASE r # Other(l, o)
  <2>1. wire'[l][r] = wire[l][r]
    BY <1>0, <1>1
  <2> QED BY <2>1, ToldStill
<1>2. CASE r = Other(l, o)
  <2>1. Other(l, r) = o
    BY <1>0, <1>2, Both
  <2>2. \A p \in Peer : p \in online[o] <=> Noted(wire[l][r], p, presence[r][p] = o)
    BY <1>2, <2>1 DEF Told
  <2>3. \A p \in Peer : Noted(wire[l][r] \o fs, p, presence[r][p] = o)
                          <=> Noted(wire[l][r], p, presence[r][p] = o)
    BY <1>0, NotedOthers
  <2>4. wire'[l][r] = wire[l][r] \o fs
    BY <1>0, <1>2
  <2>5. \A p \in Peer : p \in online'[o] <=> Noted(wire'[l][r], p, presence'[r][p] = o)
    BY <2>2, <2>3, <2>4
  <2>6. meshConn'[o][r] = l
    BY <1>2
  <2> QED BY <2>1, <2>5, <2>6, ToldThen
<1> QED BY <1>1, <1>2

(* A relay reads a frame, and notes what it says. *)
LEMMA TakeKeepsTold ==
    ASSUME TypeInv, NEW l \in Link, NEW o \in Relay, <<l, o>> \in End,
           wire[l][o] # <<>>, Take(l, o),
           presence' \in [Relay -> [Peer -> Relay \union {None}]],
           \A r \in Relay \ {o} : presence'[r] = presence[r],
           \A p \in Peer : presence'[o][p] = Other(l, o) <=>
               \/ NextFrame(l, o) = MeshAdd(p)
               \/ presence[o][p] = Other(l, o) /\ NextFrame(l, o) # MeshRemove(p),
           UNCHANGED <<meshConn, online>>,
           NEW r \in {Dialer[l], Acceptor[l]}, Told(l, r)
    PROVE  Told(l, r)'
<1>0. /\ r \in Relay /\ wire[l][r] \in Seq(Frame)
      /\ wire'[l][r] = IF r = o THEN Tail(wire[l][r]) ELSE wire[l][r]
  <2>1. r \in Relay
    BY Both
  <2>2. \A k, n \in Link, x, y \in Relay : Take(k, x) =>
          wire'[n][y] = IF n = k /\ y = x THEN Tail(wire[n][y]) ELSE wire[n][y]
    BY WirePlaces
  <2>3. wire'[l][r] = IF r = o THEN Tail(wire[l][r]) ELSE wire[l][r]
    BY <2>1, <2>2
  <2>4. wire[l][r] \in Seq(Frame)
    BY <2>1, WirePlaces
  <2> QED BY <2>1, <2>3, <2>4
<1>1. CASE r # o
  <2>1. wire'[l][r] = wire[l][r] /\ presence'[r] = presence[r]
    BY <1>0, <1>1
  <2> QED BY <2>1, ToldStill
<1>2. CASE r = o
  <2> DEFINE s == Other(l, r)
  <2>1. meshConn[s][r] = l
    BY <1>2 DEF Told
  <2>2. \A p \in Peer : p \in online[s] <=> Noted(wire[l][r], p, presence[r][p] = s)
    BY <2>1 DEF Told
  <2>3. ASSUME NEW p \in Peer
        PROVE  Noted(wire[l][r], p, presence[r][p] = s)
                 <=> Noted(wire'[l][r], p, presence'[r][p] = s)
    <3>1. Noted(wire[l][r], p, presence[r][p] = s) <=>
            Noted(Tail(wire[l][r]), p, \/ Head(wire[l][r]) = MeshAdd(p)
                                       \/ (presence[r][p] = s /\ Head(wire[l][r]) # MeshRemove(p)))
      <4>1. PICK b \in BOOLEAN : b <=> presence[r][p] = s
        OBVIOUS
      <4>2. PICK q \in Seq(Frame) : q = wire[l][r] /\ q # <<>>
        BY <1>0, <1>2
      <4>3. Noted(q, p, b) <=>
              Noted(Tail(q), p, Head(q) = MeshAdd(p) \/ (b /\ Head(q) # MeshRemove(p)))
        BY <4>2, NotedRead
      <4>4. b = (presence[r][p] = s)
        BY <4>1
      <4> QED BY <4>2, <4>3, <4>4
    <3>2. presence'[r][p] = s <=>
            \/ Head(wire[l][r]) = MeshAdd(p)
            \/ presence[r][p] = s /\ Head(wire[l][r]) # MeshRemove(p)
      BY <1>2 DEF NextFrame
    <3>3. wire'[l][r] = Tail(wire[l][r])
      BY <1>0, <1>2
    <3>4. Noted(Tail(wire[l][r]), p, \/ Head(wire[l][r]) = MeshAdd(p)
                                     \/ (presence[r][p] = s /\ Head(wire[l][r]) # MeshRemove(p)))
            <=> Noted(Tail(wire[l][r]), p, presence'[r][p] = s)
      BY <3>2, NotedAlike
    <3> QED BY <3>1, <3>3, <3>4
  <2>4. \A p \in Peer : p \in online'[s] <=> Noted(wire'[l][r], p, presence'[r][p] = s)
    BY <2>2, <2>3
  <2>5. meshConn'[s][r] = l
    BY <2>1
  <2> QED BY <2>4, <2>5, ToldThen
<1> QED BY <1>1, <1>2

(* A relay announces that a peer came or went. *)
LEMMA AnnounceKeepsTold ==
    ASSUME TypeInv, Registered, NEW l \in Link, l \notin shut,
           NEW o \in Relay, <<l, o>> \in End, NEW p \in Peer,
           \/ Announce(o, MeshAdd(p)) /\ online' = [online EXCEPT ![o] = online[o] \union {p}]
           \/ Announce(o, MeshRemove(p)) /\ online' = [online EXCEPT ![o] = online[o] \ {p}],
           UNCHANGED <<meshConn, presence, shut>>,
           NEW r \in {Dialer[l], Acceptor[l]}, Told(l, r)
    PROVE  Told(l, r)'
<1> DEFINE s == Other(l, r)
<1>0. /\ r \in Relay /\ s \in Relay /\ wire[l][r] \in Seq(Frame)
      /\ o \in {Dialer[l], Acceptor[l]} /\ r # s /\ Other(l, s) = r
      /\ online \in [Relay -> SUBSET Peer] /\ None \notin Link
  <2>1. r \in Relay /\ o \in {Dialer[l], Acceptor[l]} /\ s \in Relay
    BY Both, OtherEnd
  <2>2. r # s /\ Other(l, s) = r
    BY Both
  <2>3. wire[l][r] \in Seq(Frame)
    BY <2>1, WirePlaces
  <2> QED BY <2>1, <2>2, <2>3, MeshAssumption DEF TypeInv, TypeOK
<1>1. l \in Conns(o) <=> meshConn[o][Other(l, o)] = l
  <2>1. ASSUME NEW x \in Relay, meshConn[o][x] = l PROVE x = Other(l, o)
    BY <1>0, <2>1 DEF Registered
  <2>2. Other(l, o) \in Relay
    BY OtherEnd
  <2> QED BY <1>0, <2>1, <2>2 DEF Conns
<1>2. PICK f \in Frame :
        /\ Broadcast(o, f)
        /\ \/ f = MeshAdd(p) /\ online' = [online EXCEPT ![o] = online[o] \union {p}]
           \/ f = MeshRemove(p) /\ online' = [online EXCEPT ![o] = online[o] \ {p}]
  BY Frames DEF Announce
<1>3. wire'[l][r] = wire[l][r] \o
        (IF l \in Conns(o) \ shut /\ r = Other(l, o) THEN <<f>> ELSE <<>>)
  BY <1>0, <1>2 DEF Broadcast, Put
<1>4. s = Other(l, r) /\ (r = Other(l, o) <=> s = o)
  BY <1>0, Both
<1> HIDE DEF s
<1>5. \A q \in Seq(Frame) : q \o <<>> = q
  OBVIOUS
<1>6. CASE o # s
  <2>1. wire'[l][r] = wire[l][r]
    <3>1. wire'[l][r] = wire[l][r] \o <<>>
      BY <1>3, <1>4, <1>6
    <3> QED BY <1>0, <1>5, <3>1
  <2>2. online'[s] = online[s]
    BY <1>0, <1>2, <1>6
  <2> QED BY <1>4, <2>1, <2>2, ToldStill
<1>7. CASE o = s /\ meshConn[s][r] # l
  <2>1. wire'[l][r] = wire[l][r]
    <3>1. l \notin Conns(o)
      BY <1>0, <1>1, <1>4, <1>7
    <3>2. wire'[l][r] = wire[l][r] \o <<>>
      BY <1>3, <3>1
    <3> QED BY <1>0, <1>5, <3>2
  <2>2. /\ wire[l][r] = <<>> /\ \A q \in Peer : presence[r][q] = None
    BY <1>4, <1>7 DEF Told
  <2> QED BY <1>4, <1>7, <2>1, <2>2, ToldThen
<1>8. CASE o = s /\ meshConn[s][r] = l
  <2>1. wire'[l][r] = wire[l][r] \o <<f>>
    BY <1>0, <1>1, <1>3, <1>4, <1>8
  <2>2. \A q \in Peer : q \in online[s] <=> Noted(wire[l][r], q, presence[r][q] = s)
    BY <1>4, <1>8 DEF Told
  <2>3. ASSUME NEW q \in Peer
        PROVE  q \in online'[s] <=> Noted(wire[l][r] \o <<f>>, q, presence[r][q] = s)
    <3>1. CASE q = p
      <4>1. p \in online'[s] <=> f = MeshAdd(p)
        BY <1>0, <1>2, <1>8, FramesDiffer
      <4>2. /\ Noted(wire[l][r] \o <<MeshAdd(p)>>, p, presence[r][q] = s)
            /\ ~Noted(wire[l][r] \o <<MeshRemove(p)>>, p, presence[r][q] = s)
        BY <1>0, NotedSent
      <4> QED BY <1>2, <3>1, <4>1, <4>2
    <3>2. CASE q # p
      <4>1. q \in online'[s] <=> q \in online[s]
        BY <1>0, <1>2, <1>8, <3>2
      <4> DEFINE t == <<f>>
      <4>2. t \in Seq(Frame) /\ Len(t) = 1 /\ t[1] = f
        OBVIOUS
      <4>3. f # MeshAdd(q) /\ f # MeshRemove(q)
        BY <1>2, <3>2, FramesDiffer
      <4> HIDE DEF t
      <4>4. \A i \in 1..Len(t) : t[i] # MeshAdd(q) /\ t[i] # MeshRemove(q)
        BY <4>2, <4>3
      <4>5. Noted(wire[l][r] \o t, q, presence[r][q] = s)
              <=> Noted(wire[l][r], q, presence[r][q] = s)
        BY <1>0, <4>2, <4>4, NotedOthers
      <4> QED BY <2>2, <4>1, <4>5 DEF t
    <3> QED BY <3>1, <3>2
  <2>4. \A q \in Peer : q \in online'[s] <=> Noted(wire'[l][r], q, presence'[r][q] = s)
    BY <2>1, <2>3
  <2> QED BY <1>4, <1>8, <2>4, ToldThen
<1> QED BY <1>6, <1>7, <1>8

(* What the relays know of each other while their link holds. *)
Knows(l) == UpTo(l) /\ Told(l, Dialer[l]) /\ Told(l, Acceptor[l])

(* A relay registers the link, and announces its peers on it. *)
LEMMA RegisterTells ==
    ASSUME TypeInv, NEW l \in Link, NEW o \in Relay, <<l, o>> \in End,
           meshConn[o][Other(l, o)] # l,
           meshConn' = [meshConn EXCEPT ![o][Other(l, o)] = l],
           SendOn(l, o, Adds(o)), UNCHANGED <<presence, online>>,
           NEW r \in {Dialer[l], Acceptor[l]}, Told(l, r)
    PROVE  Told(l, r)'
<1> DEFINE s == Other(l, r)
<1>1. /\ r \in Relay /\ s \in Relay /\ s # r /\ Other(l, s) = r
      /\ o = s \/ o = r
  <2>1. o \in {Dialer[l], Acceptor[l]}
    BY OtherEnd
  <2>2. r \in Relay /\ s \in Relay /\ s # r /\ Other(l, s) = r
    BY Both
  <2>3. s = Dialer[l] \/ s = Acceptor[l]
    BY Both
  <2> QED BY <2>1, <2>2, <2>3
<1>2. /\ meshConn \in [Relay -> [Relay -> Link \union {None}]]
      /\ presence \in [Relay -> [Peer -> Relay \union {None}]]
      /\ None \notin Relay
  BY MeshAssumption DEF TypeInv, TypeOK
<1>3. Adds(o) \in Seq(Frame)
  BY AddsCarryNothing
<1>4. wire[l][r] \in Seq(Frame)
  BY <1>1, WirePlaces
<1>5. wire'[l][r] = IF r = Other(l, o) THEN wire[l][r] \o Adds(o) ELSE wire[l][r]
  <2>1. \A k, n \in Link, x, y \in Relay, gs \in Seq(Frame) : SendOn(k, x, gs) =>
          wire'[n][y] = IF n = k /\ y = Other(k, x) THEN wire[n][y] \o gs ELSE wire[n][y]
    BY WirePlaces
  <2> QED BY <1>1, <1>3, <2>1
<1>6. CASE o = r
  <2>1. wire'[l][r] = wire[l][r] /\ meshConn'[s][r] = meshConn[s][r]
    BY <1>1, <1>2, <1>5, <1>6
  <2> QED BY <2>1, ToldStill
<1>7. CASE o = s
  <2>1. wire[l][r] = <<>> /\ \A p \in Peer : presence[r][p] = None
    BY <1>1, <1>7 DEF Told
  <2>2. wire'[l][r] = Adds(o)
    BY <1>1, <1>3, <1>5, <1>7, <2>1
  <2>3. meshConn'[s][r] = l
    BY <1>1, <1>2, <1>7
  <2>4. ASSUME NEW p \in Peer
        PROVE  p \in online'[s] <=> Noted(wire'[l][r], p, presence'[r][p] = s)
    <3>1. Noted(Adds(o), p, FALSE) <=> p \in online[o]
      BY NotedAdds
    <3>2. presence'[r][p] = None
      BY <2>1
    <3>3. (presence'[r][p] = s) = FALSE
      BY <1>1, <1>2, <3>2
    <3> QED BY <1>7, <2>2, <3>1, <3>3
  <2> QED BY <2>3, <2>4, ToldThen
<1> QED BY <1>1, <1>6, <1>7

(* Nothing that matters here changes. *)
LEMMA KnowsStill ==
    ASSUME NEW l, Knows(l), UNCHANGED <<dial, wire, meshConn, presence, online>>
    PROVE  Knows(l)'
<1>1. UpTo(l)'
  BY DEF Knows, UpTo
<1>2. ASSUME NEW r, Told(l, r) PROVE Told(l, r)'
  BY <1>2, ToldStill
<1> QED BY <1>1, <1>2 DEF Knows

(* The steps on the link. *)
LEMMA LinkStepTells ==
    ASSUME TypeInv, NEW l \in Link, l \notin shut, Knows(l), l \notin shut',
           Dial(l) \/ HandleMeshReg(l) \/ BreakAnnouncing(l) \/ Established(l) \/ Cut(l)
    PROVE  Knows(l)'
<1> DEFINE a == Acceptor[l]
           d == Dialer[l]
<1>1. /\ a \in Relay /\ d \in Relay /\ a # d /\ <<l, a>> \in End /\ <<l, d>> \in End
      /\ Other(l, d) = a /\ Other(l, a) = d
  BY Both
<1>2. /\ dial \in [Link -> {"idle", "dialing", "ok", "open", "over"}]
      /\ meshConn \in [Relay -> [Relay -> Link \union {None}]]
  BY DEF TypeInv, TypeOK
<1>3. /\ meshConn[a][d] = l <=> dial[l] \in {"ok", "open"}
      /\ meshConn[d][a] = l <=> dial[l] = "open"
      /\ Told(l, d) /\ Told(l, a)
  BY DEF Knows, UpTo
<1>4. ASSUME UNCHANGED <<wire, meshConn, presence, online>>,
             dial[l] \notin {"ok", "open"}, dial'[l] \notin {"ok", "open"}
      PROVE  Knows(l)'
  <2>1. UpTo(l)'
    BY <1>3, <1>4 DEF UpTo
  <2>2. ASSUME NEW r, Told(l, r) PROVE Told(l, r)'
    BY <1>4, <2>2, ToldStill
  <2> QED BY <1>3, <2>1, <2>2 DEF Knows
<1>5. ASSUME Dial(l) PROVE Knows(l)'
  <2>1. /\ dial[l] = "idle" /\ dial'[l] = "dialing"
        /\ UNCHANGED <<wire, meshConn, presence, online>>
    BY <1>2, <1>5 DEF Dial, clients
  <2> QED BY <1>4, <2>1
<1>6. ASSUME HandleMeshReg(l) PROVE Knows(l)'
  <2>1. CASE a \in trusted
    <3>1. /\ dial[l] = "dialing" /\ dial'[l] = "ok"
          /\ meshConn' = [meshConn EXCEPT ![a][d] = l] /\ SendOn(l, a, Adds(a))
          /\ UNCHANGED <<presence, online>>
      BY <1>2, <1>6, <2>1 DEF HandleMeshReg, clients
    <3>2. meshConn'[a][d] = l /\ meshConn'[d][a] = meshConn[d][a]
      BY <1>1, <1>2, <3>1
    <3>3. UpTo(l)'
      BY <1>3, <3>1, <3>2 DEF UpTo
    <3>4. meshConn[a][d] # l
      BY <1>3, <3>1
    <3>5. Told(l, d)' /\ Told(l, a)'
      BY <1>1, <1>3, <3>1, <3>4, RegisterTells
    <3> QED BY <3>3, <3>5 DEF Knows
  <2>2. CASE a \notin trusted
    <3>1. /\ dial[l] = "dialing" /\ dial'[l] = "over"
          /\ UNCHANGED <<wire, meshConn, presence, online>>
      BY <1>2, <1>6, <2>2 DEF HandleMeshReg, clients
    <3> QED BY <1>4, <3>1
  <2> QED BY <2>1, <2>2
<1>7. ASSUME Established(l) PROVE Knows(l)'
  <2>1. /\ dial[l] = "ok" /\ dial'[l] = "open"
        /\ meshConn' = [meshConn EXCEPT ![d][a] = l] /\ SendOn(l, d, Adds(d))
        /\ UNCHANGED <<presence, online>>
    BY <1>2, <1>7 DEF Established, clients
  <2>2. meshConn'[d][a] = l /\ meshConn'[a][d] = meshConn[a][d]
    BY <1>1, <1>2, <2>1
  <2>3. UpTo(l)'
    BY <1>3, <2>1, <2>2 DEF UpTo
  <2>4. meshConn[d][a] # l
    BY <1>3, <2>1
  <2>5. Told(l, d)' /\ Told(l, a)'
    BY <1>1, <1>3, <2>1, <2>4, RegisterTells
  <2> QED BY <2>3, <2>5 DEF Knows
<1>8. ~BreakAnnouncing(l) /\ ~Cut(l)
  BY DEF BreakAnnouncing, Cut
<1> QED BY <1>5, <1>6, <1>7, <1>8

(* The reader of an end notes what the frame it takes says. *)
LEMMA ReaderTells ==
    ASSUME LinkInv, NEW l \in Link, Link = {l}, l \notin shut, Knows(l), l \notin shut',
           NEW o \in Relay, <<l, o>> \in End, Read(l, o) \/ LinkEnds(l, o)
    PROVE  Knows(l)'
<1> DEFINE s == Other(l, o)
<1>1. /\ s \in Relay /\ s # o /\ None \notin Relay /\ None \notin Link /\ TypeInv /\ Registered
      /\ presence \in [Relay -> [Peer -> Relay \union {None}]]
      /\ meshConn \in [Relay -> [Relay -> Link \union {None}]]
      /\ adding \in [End -> (SUBSET Mail) \union {None}]
      /\ Dialer[l] \in Relay /\ Acceptor[l] \in Relay
  <2>1. s # o /\ Dialer[l] \in Relay /\ Acceptor[l] \in Relay
    BY Both, OtherEnd
  <2> QED BY <2>1, OtherEnd, MeshAssumption DEF LinkInv, TypeInv, TypeOK
<1>2. ~StopReading(l, o)
  BY DEF StopReading
<1>3. ~LinkEnds(l, o)
  BY DEF LinkEnds
<1>4. ASSUME UNCHANGED <<dial, meshConn>>, Told(l, Dialer[l])', Told(l, Acceptor[l])'
      PROVE  Knows(l)'
  <2>1. UpTo(l)'
    BY <1>4 DEF Knows, UpTo
  <2> QED BY <1>4, <2>1 DEF Knows
<1>5. ASSUME Take(l, o), wire[l][o] # <<>>, UNCHANGED <<dial, meshConn, online>>,
             presence' \in [Relay -> [Peer -> Relay \union {None}]],
             \A r \in Relay \ {o} : presence'[r] = presence[r],
             \A p \in Peer : presence'[o][p] = Other(l, o) <=>
                 \/ NextFrame(l, o) = MeshAdd(p)
                 \/ presence[o][p] = Other(l, o) /\ NextFrame(l, o) # MeshRemove(p)
      PROVE  Knows(l)'
  <2>1. Told(l, Dialer[l])' /\ Told(l, Acceptor[l])'
    BY <1>1, <1>5, TakeKeepsTold DEF Knows
  <2> QED BY <1>4, <1>5, <2>1
<1>6. ASSUME NEW p \in Peer, ReadAdd(l, o, p) PROVE Knows(l)'
  <2>1. /\ Take(l, o) /\ wire[l][o] # <<>> /\ UNCHANGED <<dial, meshConn, online>>
        /\ NextFrame(l, o) = MeshAdd(p)
        /\ presence' = [presence EXCEPT ![o][p] = s]
    BY <1>6 DEF ReadAdd, CanRead, NotedAt, clients
  <2>2. /\ presence' \in [Relay -> [Peer -> Relay \union {None}]]
        /\ \A r \in Relay \ {o} : presence'[r] = presence[r]
        /\ \A q \in Peer : presence'[o][q] = IF q = p THEN s ELSE presence[o][q]
    BY <1>1, <2>1
  <2>3. \A q \in Peer : /\ NextFrame(l, o) = MeshAdd(q) <=> q = p
                        /\ NextFrame(l, o) # MeshRemove(q)
    BY <2>1, FramesDiffer
  <2>4. \A q \in Peer : presence'[o][q] = s <=>
            \/ NextFrame(l, o) = MeshAdd(q)
            \/ presence[o][q] = s /\ NextFrame(l, o) # MeshRemove(q)
    BY <2>2, <2>3
  <2> QED BY <1>5, <2>1, <2>2, <2>4
<1>7. ASSUME NEW p \in Peer, ReadRemove(l, o, p) PROVE Knows(l)'
  <2>1. /\ Take(l, o) /\ wire[l][o] # <<>> /\ UNCHANGED <<dial, meshConn, online>>
        /\ NextFrame(l, o) = MeshRemove(p)
        /\ presence' = [presence EXCEPT ![o][p] = None]
    BY <1>7 DEF ReadRemove, CanRead, clients
  <2>2. /\ presence' \in [Relay -> [Peer -> Relay \union {None}]]
        /\ \A r \in Relay \ {o} : presence'[r] = presence[r]
        /\ \A q \in Peer : presence'[o][q] = IF q = p THEN None ELSE presence[o][q]
    BY <1>1, <2>1
  <2>3. \A q \in Peer : /\ NextFrame(l, o) # MeshAdd(q)
                        /\ NextFrame(l, o) = MeshRemove(q) <=> q = p
    BY <2>1, FramesDiffer
  <2>4. \A q \in Peer : presence'[o][q] = s <=>
            \/ NextFrame(l, o) = MeshAdd(q)
            \/ presence[o][q] = s /\ NextFrame(l, o) # MeshRemove(q)
    BY <1>1, <2>2, <2>3
  <2> QED BY <1>5, <2>1, <2>2, <2>4
<1>8. ASSUME NEW m \in Mail, ReadMail(l, o, m) \/ ReadMailBroken(l, o, m) PROVE Knows(l)'
  <2>1. /\ Take(l, o) /\ wire[l][o] # <<>> /\ UNCHANGED <<dial, meshConn, presence, online>>
        /\ NextFrame(l, o) \in {MeshForward(m), StoredForward(m)}
    BY <1>2, <1>8 DEF ReadMail, ReadMailBroken, CanRead, clients
  <2>2. \A q \in Peer : /\ NextFrame(l, o) # MeshAdd(q)
                        /\ NextFrame(l, o) # MeshRemove(q)
    BY <2>1, FramesDiffer
  <2>3. \A q \in Peer : presence'[o][q] = s <=>
            \/ NextFrame(l, o) = MeshAdd(q)
            \/ presence[o][q] = s /\ NextFrame(l, o) # MeshRemove(q)
    BY <2>1, <2>2
  <2> QED BY <1>1, <1>5, <2>1, <2>3
<1>9. ASSUME ForwardStored(l, o) PROVE Knows(l)'
  <2>1. UNCHANGED <<dial, meshConn, presence, online>> /\ adding[<<l, o>>] # None
    BY <1>9 DEF ForwardStored, clients
  <2>2. CASE meshConn[o][s] = None
    <3>1. UNCHANGED wire
      BY <1>9, <2>2 DEF ForwardStored
    <3> QED BY <2>1, <3>1, KnowsStill
  <2>3. CASE meshConn[o][s] # None
    <3>1. meshConn[o][s] = l
      BY <1>1, <2>3
    <3> DEFINE fs == SetToSeq({StoredForward(m) : m \in Moved(l, o)})
    <3>2. SendOn(l, o, fs)
      BY <1>9, <2>3, <3>1 DEF ForwardStored
    <3>3. Moved(l, o) \in SUBSET Mail /\ IsFiniteSet(Moved(l, o))
      BY <1>1, <2>1, <2>3 DEF Moved, TypeInv
    <3>4. fs \in Seq(Frame) /\ \A i \in 1..Len(fs) : \E m \in Mail : fs[i] = StoredForward(m)
      <4>1. PICK S \in SUBSET Mail : S = Moved(l, o) /\ IsFiniteSet(S)
        BY <3>3
      <4>2. PICK g : g = [m \in Mail |-> StoredForward(m)]
        OBVIOUS
      <4>3. PICK T : T = {StoredForward(m) : m \in S}
        OBVIOUS
      <4>4. T = {g[m] : m \in S}
        BY <4>2, <4>3
      <4>5. IsFiniteSet({g[m] : m \in S})
        BY <4>1, FiniteValues
      <4>6. PICK q : q = SetToSeq(T)
        OBVIOUS
      <4>7. q \in Seq(T) /\ ToSet(q) = T
        BY <4>4, <4>5, <4>6, ElementsOfSetToSeq
      <4>8. \A i \in 1..Len(q) : q[i] \in T
        BY <4>7
      <4>9. T \subseteq Frame
        BY <4>3, Frames
      <4>10. q \in Seq(Frame)
        BY <4>7, <4>9
      <4>11. fs = q
        BY <4>1, <4>3, <4>6
      <4> QED BY <4>3, <4>8, <4>10, <4>11
    <3> HIDE DEF fs
    <3>5. \A i \in 1..Len(fs), p \in Peer : fs[i] # MeshAdd(p) /\ fs[i] # MeshRemove(p)
      BY <3>4, FramesDiffer
    <3>6. Told(l, Dialer[l])' /\ Told(l, Acceptor[l])'
      BY <1>1, <2>1, <3>1, <3>2, <3>4, <3>5, SendKeepsTold DEF Knows
    <3> QED BY <1>4, <2>1, <3>6
  <2> QED BY <2>2, <2>3
<1> QED BY <1>3, <1>6, <1>7, <1>8, <1>9 DEF Read

(* The steps of the clients. *)
LEMMA ClientTells ==
    ASSUME LinkInv, NEW l \in Link, Link = {l}, l \notin shut, Knows(l),
           NEW o \in Relay, <<l, o>> \in End,
           \/ FetchRegistry(o)
           \/ \E p \in Peer : Join(o, p) \/ Reset(o, p) \/ Quit(o, p)
           \/ \E m \in Mail : Submit(o, m) \/ InsertRow(o, m)
    PROVE  Knows(l)'
<1>1. /\ TypeInv /\ Registered /\ None \notin Link
      /\ Dialer[l] \in Relay /\ Acceptor[l] \in Relay
      /\ meshConn \in [Relay -> [Relay -> Link \union {None}]]
      /\ presence \in [Relay -> [Peer -> Relay \union {None}]]
  BY Both, MeshAssumption DEF LinkInv, TypeInv, TypeOK
<1>2. UNCHANGED <<dial, meshConn, presence, shut>>
  BY DEF FetchRegistry, Join, Reset, Quit, Submit, InsertRow, links
<1>3. ASSUME Told(l, Dialer[l])', Told(l, Acceptor[l])'
      PROVE  Knows(l)'
  <2>1. UpTo(l)'
    BY <1>2 DEF Knows, UpTo
  <2> QED BY <1>3, <2>1 DEF Knows
<1>4. CASE \/ FetchRegistry(o)
           \/ \E p \in Peer : Reset(o, p)
           \/ \E m \in Mail : InsertRow(o, m)
  <2>1. UNCHANGED <<wire, online>>
    BY <1>4 DEF FetchRegistry, Reset, InsertRow, links, clients
  <2> QED BY <1>2, <2>1, KnowsStill
<1>5. ASSUME NEW p \in Peer, Join(o, p) \/ Quit(o, p) PROVE Knows(l)'
  <2>1. \/ Announce(o, MeshAdd(p)) /\ online' = [online EXCEPT ![o] = online[o] \union {p}]
        \/ Announce(o, MeshRemove(p)) /\ online' = [online EXCEPT ![o] = online[o] \ {p}]
    BY <1>5 DEF Join, Quit
  <2>2. Told(l, Dialer[l])' /\ Told(l, Acceptor[l])'
    BY <1>1, <1>2, <2>1, AnnounceKeepsTold DEF Knows
  <2> QED BY <1>3, <2>2
<1>6. ASSUME NEW m \in Mail, Submit(o, m) PROVE Knows(l)'
  <2> DEFINE k == Route(o, Dest[m])
  <2>1. UNCHANGED online
    BY <1>6 DEF Submit, clients
  <2>2. UNCHANGED wire \/ (k # None /\ SendOn(k, o, <<MeshForward(m)>>))
    BY <1>6 DEF Submit
  <2>3. CASE UNCHANGED wire
    BY <1>2, <2>1, <2>3, KnowsStill
  <2>4. CASE k # None /\ SendOn(k, o, <<MeshForward(m)>>)
    <3>1. Dest[m] \in Peer
      BY MeshAssumption
    <3>2. presence[o][Dest[m]] \in Relay /\ k = meshConn[o][presence[o][Dest[m]]]
      BY <1>1, <2>4, <3>1 DEF Route
    <3>3. k = l
      BY <1>1, <2>4, <3>2
    <3>4. meshConn[o][Other(l, o)] = l
      <4>1. PICK s \in Relay : s = presence[o][Dest[m]]
        BY <3>2
      <4>2. meshConn[o][s] = l
        BY <3>2, <3>3, <4>1
      <4>3. Other(l, o) = s
        BY <1>1, <4>2 DEF Registered
      <4> QED BY <4>2, <4>3
    <3> DEFINE fs == <<MeshForward(m)>>
    <3>5. MeshForward(m) \in Frame
      BY Frames
    <3>6. fs \in Seq(Frame) /\ Len(fs) = 1 /\ fs[1] = MeshForward(m)
      BY <3>5
    <3>7. SendOn(l, o, fs)
      BY <2>4, <3>3
    <3> HIDE DEF fs
    <3>8. \A i \in 1..Len(fs), p \in Peer : fs[i] # MeshAdd(p) /\ fs[i] # MeshRemove(p)
      BY <3>6, FramesDiffer
    <3>9. Told(l, Dialer[l])' /\ Told(l, Acceptor[l])'
      BY <1>1, <1>2, <2>1, <3>4, <3>6, <3>7, <3>8, SendKeepsTold DEF Knows
    <3> QED BY <1>3, <3>9
  <2> QED BY <2>2, <2>3, <2>4
<1> QED BY <1>4, <1>5, <1>6

(* A link that is shut stays so. *)
LEMMA ShutStaysShut ==
    ASSUME [Next]_vars
    PROVE  shut \subseteq shut'
<1>1. ASSUME NEW r \in Relay,
             \/ FetchRegistry(r)
             \/ \E p \in Peer : Join(r, p) \/ Reset(r, p) \/ Quit(r, p)
             \/ \E m \in Mail : Submit(r, m) \/ InsertRow(r, m)
      PROVE  shut \subseteq shut'
  BY <1>1 DEF FetchRegistry, Join, Reset, Quit, Submit, InsertRow, links
<1>2. ASSUME NEW l \in Link,
             \/ Dial(l) \/ HandleMeshReg(l) \/ BreakAnnouncing(l)
             \/ Established(l) \/ Cut(l)
      PROVE  shut \subseteq shut'
  BY <1>2 DEF Dial, HandleMeshReg, BreakAnnouncing, Established, Cut
<1>3. ASSUME NEW l, NEW r, StopReading(l, r)
      PROVE  shut \subseteq shut'
  BY <1>3 DEF StopReading
<1>4. ASSUME NEW l, NEW r, Read(l, r)
      PROVE  shut \subseteq shut'
  <2>1. ASSUME NEW p \in Peer, ReadAdd(l, r, p) \/ ReadRemove(l, r, p)
        PROVE  shut \subseteq shut'
    BY <2>1 DEF ReadAdd, ReadRemove
  <2>2. ASSUME NEW m \in Mail, ReadMail(l, r, m) \/ ReadMailBroken(l, r, m)
        PROVE  shut \subseteq shut'
    BY <1>3, <2>2 DEF ReadMail, ReadMailBroken
  <2>3. CASE ForwardStored(l, r)
    BY <2>3 DEF ForwardStored
  <2> QED BY <1>4, <2>1, <2>2, <2>3 DEF Read
<1>5. ASSUME NEW l, NEW r, LinkEnds(l, r)
      PROVE  shut \subseteq shut'
  BY <1>3, <1>5 DEF LinkEnds
<1>6. CASE UNCHANGED vars
  BY <1>6 DEF vars, links
<1> QED BY <1>1, <1>2, <1>4, <1>5, <1>6 DEF Next

(* With one link between two relays, they know of each other's peers what  *)
(* has been said, as long as the link holds.                               *)
LEMMA PairIsKept ==
    ASSUME NEW l \in Link, Link = {l}, Relay = {Dialer[l], Acceptor[l]},
           PairInv(l), [Next]_vars
    PROVE  PairInv(l)'
<1>1. LinkInv /\ LinkInv' /\ TypeInv
  BY TablesAreKept DEF PairInv, LinkInv
<1>2. SUFFICES ASSUME l \notin shut' PROVE Knows(l)'
  BY <1>1 DEF PairInv, Knows
<1>3. shut \subseteq shut'
  BY ShutStaysShut
<1>4. l \notin shut /\ Knows(l)
  BY <1>2, <1>3 DEF PairInv, Knows
<1>5. \A r \in Relay : <<l, r>> \in End
  BY Both
<1>6. CASE \E e \in End : Read(e[1], e[2]) \/ LinkEnds(e[1], e[2])
  <2>1. PICK e \in End : Read(e[1], e[2]) \/ LinkEnds(e[1], e[2])
    BY <1>6
  <2>2. PICK o \in Relay : o = e[2] /\ e[1] = l
    BY Ends
  <2> QED BY <1>1, <1>2, <1>4, <1>5, <2>1, <2>2, ReaderTells
<1>7. CASE \E k \in Link : Dial(k) \/ HandleMeshReg(k) \/ BreakAnnouncing(k) \/ Established(k)
                             \/ Cut(k)
  BY <1>1, <1>2, <1>4, <1>7, LinkStepTells
<1>8. CASE UNCHANGED vars
  BY <1>4, <1>8, KnowsStill DEF vars, links, clients
<1>9. ASSUME NEW o \in Relay,
             \/ FetchRegistry(o)
             \/ \E p \in Peer : Join(o, p) \/ Reset(o, p) \/ Quit(o, p)
             \/ \E m \in Mail : Submit(o, m) \/ InsertRow(o, m)
      PROVE  Knows(l)'
  BY <1>1, <1>4, <1>5, <1>9, ClientTells
<1> QED BY <1>6, <1>7, <1>8, <1>9 DEF Next

(* Before the link is dialled nothing is known. *)
LEMMA PairBegins ==
    ASSUME NEW l \in Link, Init
    PROVE  PairInv(l)
<1>1. /\ Dialer[l] \in Relay /\ Acceptor[l] \in Relay
      /\ Other(l, Dialer[l]) = Acceptor[l] /\ Other(l, Acceptor[l]) = Dialer[l]
      /\ None \notin Link
  BY Both, MeshAssumption
<1>2. UpTo(l)
  BY <1>1 DEF Init, UpTo
<1>3. Told(l, Dialer[l]) /\ Told(l, Acceptor[l])
  BY <1>1 DEF Init, Told
<1> QED BY <1>2, <1>3, TablesBegin DEF PairInv

(* No peer is noted, or removed, by frames that are not there. *)
LEMMA NotedNow == \A p, now : Noted(<<>>, p, now) <=> now
BY DEF Noted

(* What was said and read is what is so. *)
LEMMA PairAgrees ==
    ASSUME NEW l \in Link, Link = {l}, Relay = {Dialer[l], Acceptor[l]}, PairInv(l)
    PROVE  PresenceAgrees
<1> SUFFICES ASSUME NEW r \in Relay, NEW p \in Peer,
                    NEW homes, homes = {s \in Relay \ {r} : p \in online[s]},
                    Settled(r, homes)
             PROVE  /\ homes # {} => presence[r][p] \in homes
                    /\ (homes = {} /\ Settled(r, Relay \ {r})) => presence[r][p] = None
  BY DEF PresenceAgrees
<1> DEFINE o == Other(l, r)
<1>1. o \in Relay /\ o # r /\ Relay = {r, o} /\ Other(l, o) = r /\ <<l, o>> \in End
  <2>1. o \in Relay /\ <<l, o>> \in End
    BY OtherEnd
  <2>2. CASE r = Dialer[l]
    BY <2>1, <2>2, Both
  <2>3. CASE r = Acceptor[l]
    BY <2>1, <2>3, Both
  <2> QED BY <2>2, <2>3
<1>2. presence[r][p] \in Relay \union {None} /\ presence[r][p] # r
  <2>1. presence[r][p] \in Relay \union {None}
    BY DEF PairInv, LinkInv, TypeInv, TypeOK
  <2>2. presence[r][p] # None => presence[r][p] = o
    BY DEF PairInv, LinkInv, PresenceHasLink
  <2>3. None # r
    BY MeshAssumption
  <2> QED BY <1>1, <2>1, <2>2, <2>3
<1>3. wire[l][r] = <<>>
  BY DEF Settled
<1>4. ASSUME NEW S, S # {}, Settled(r, S)
      PROVE  p \in online[o] <=> presence[r][p] = o
  <2>1. l \notin shut /\ dial[l] = "open"
    BY <1>4 DEF Settled
  <2>2. meshConn[o][r] = l /\ Told(l, r)
    BY <1>1, <2>1, Both DEF PairInv, UpTo
  <2>3. p \in online[o] <=> Noted(<<>>, p, presence[r][p] = o)
    BY <1>3, <2>2 DEF Told
  <2> QED BY <2>3, NotedNow
<1>5. homes # {} => homes = {o} /\ p \in online[o]
  BY <1>1
<1>6. homes = {} => p \notin online[o]
  BY <1>1
<1>7. Relay \ {r} # {}
  BY <1>1
<1>8. homes # {} => presence[r][p] \in homes
  BY <1>4, <1>5
<1>9. (homes = {} /\ Settled(r, Relay \ {r})) => presence[r][p] = None
  BY <1>1, <1>2, <1>4, <1>6, <1>7
<1> QED BY <1>8, <1>9

(* PresenceAgrees of two relays with one link, whatever the peers, the     *)
(* mails and the breaks: when a relay has read all it was sent on a link   *)
(* that works, it has exactly the other's peers noted there.  With a third *)
(* relay it does not hold (MeshMove.cfg).                                  *)
THEOREM PeersAreKnown ==
    ASSUME OnePair
    PROVE  Spec => []PresenceAgrees
<1>1. PICK l \in Link : Link = {l} /\ Relay = {Dialer[l], Acceptor[l]}
  BY DEF OnePair
<1>2. Init => PairInv(l)
  BY PairBegins
<1>3. ASSUME PairInv(l), [Next]_vars PROVE PairInv(l)'
  BY <1>1, <1>3, PairIsKept
<1>4. ASSUME PairInv(l) PROVE PresenceAgrees
  BY <1>1, <1>4, PairAgrees
<1> QED BY <1>2, <1>3, <1>4, PTL DEF Spec
=============================================================================
