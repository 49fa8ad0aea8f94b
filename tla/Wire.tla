-------------------------------- MODULE Wire --------------------------------
(***************************************************************************)
(* The streams between a relay and its clients, frame by frame             *)
(* (cli_social/p2p/utils.py): a frame is a header with its length, and the *)
(* body.  The relay's handler of a client (p2p/relay.py) reads with a      *)
(* timeout and writes to any client; the client's listener                 *)
(* (p2p/daemon.py) reads, and writes acknowledgements; its app writes      *)
(* messages.  A write appends to what has not been read; then drain()      *)
(* waits while that is more than the transport and the network take.       *)
(*                                                                         *)
(* Every client is registered; connections are not made again.  What is    *)
(* sent to a client that is not connected any more is stored (Relay.tla).  *)
(***************************************************************************)
EXTENDS Naturals, Sequences, SequencesExt

CONSTANTS
    Client,
    Message,
    From, To,    \* the client that sends a message, and its recipient
    Large,       \* messages whose publish exceeds MAX_FRAME_SIZE
    HighWater,   \* frames that a stream takes before a drain waits
    MaxTimeouts  \* bound: reads of the relay that time out

ASSUME WireAssumption ==
    /\ From \in [Message -> Client] /\ To \in [Message -> Client]
    /\ Large \subseteq Message
    /\ {HighWater, MaxTimeouts} \subseteq Nat

VARIABLES
    up,       \* frames from a client that the relay has not read
    down,     \* frames to a client that it has not read
    handler,  \* what _handle_client is doing
    listener, \* what _listen_relay is doing
    sending,  \* clients whose app waits for the drain of a publish
    timeouts,
    \* History.
    written,  \* frames a client has written
    handled,  \* frames of a client that the relay has handled
    answered  \* messages whose relay_ack was read

streams == <<up, down>>
history == <<written, handled, answered>>
vars == <<streams, handler, listener, sending, timeouts, history>>

Frame(t, m) == [type |-> t, message |-> m]
Signal(t) == [type |-> t]

(* What a handler or a listener does: reading, or waiting for the drain of *)
(* the stream to a client.                                                 *)
Reading == [at |-> "header"]
Waiting(c, f, next) == [at |-> "drain", to |-> c, frame |-> f, next |-> next]

Init ==
    /\ up = [c \in Client |-> <<>>] /\ down = [c \in Client |-> <<>>]
    /\ handler = [c \in Client |-> Reading]
    /\ listener = [c \in Client |-> "read"]
    /\ sending = {}
    /\ timeouts = 0
    /\ written = [c \in Client |-> <<>>] /\ handled = [c \in Client |-> <<>>]
    /\ answered = {}

Alive(c) == handler[c].at # "ended"
Full(stream) == Len(stream) > HighWater

-----------------------------------------------------------------------------
(* The client.                                                             *)

Write(c, f) ==
    /\ up' = [up EXCEPT ![c] = Append(@, f)]
    /\ written' = [written EXCEPT ![c] = Append(@, f)]

(* send_chat_msg: one after the other, by the app. *)
Publish(m) ==
    LET c == From[m] IN
    /\ Alive(c) /\ c \notin sending
    /\ Frame("publish", m) \notin ToSet(written[c])
    /\ Write(c, Frame("publish", m))
    /\ sending' = sending \union {c}
    /\ UNCHANGED <<down, handler, listener, timeouts, handled, answered>>

Sent(c) ==
    /\ c \in sending
    /\ ~Full(up[c])
    /\ sending' = sending \ {c}
    /\ UNCHANGED <<streams, handler, listener, timeouts, history>>

(* Mutant: what is written is what the sender gets. *)
Reply_Delivery(f) == CASE f.type = "push" -> <<Frame("delivery_ack", f.message)>>
                       [] f.type = "ping" -> <<Signal("pong")>>
                       [] OTHER -> <<>>

(* Mutant: every frame is replied to. *)
Reply_Always(f) == IF f.type = "push" THEN <<Frame("client_ack", f.message)>>
                   ELSE <<Signal("pong")>>

(* What the listener writes once it has handled a frame. *)
Reply(f) == CASE f.type = "push" -> <<Frame("client_ack", f.message)>>
              [] f.type = "ping" -> <<Signal("pong")>>
              [] OTHER -> <<>>

(* _listen_relay reads and handles a frame.  On a connection that the      *)
(* relay has closed it reads what is left, and its writes go nowhere.      *)
Listen(c) ==
    /\ listener[c] = "read"
    /\ down[c] # <<>>
    /\ LET f == Head(down[c]) IN
       /\ down' = [down EXCEPT ![c] = Tail(@)]
       /\ IF Alive(c) /\ Reply(f) # <<>>
          THEN Write(c, Reply(f)[1]) /\ listener' = [listener EXCEPT ![c] = "drain"]
          ELSE UNCHANGED <<up, written, listener>>
       /\ answered' = answered \union IF f.type = "relay_ack" THEN {f.message} ELSE {}
    /\ UNCHANGED <<handler, sending, timeouts, handled>>

Listened(c) ==
    /\ listener[c] = "drain"
    /\ ~Full(up[c])
    /\ listener' = [listener EXCEPT ![c] = "read"]
    /\ UNCHANGED <<streams, handler, sending, timeouts, history>>

-----------------------------------------------------------------------------
(* The relay's handler of a client.                                        *)

(* The connection is closed; the client's writes do not wait any more.     *)
Ends(c) ==
    /\ handler' = [handler EXCEPT ![c] = [at |-> "ended"]]
    /\ up' = [up EXCEPT ![c] = <<>>]

(* send_msg *)
Send(c, to, f, next) ==
    /\ down' = [down EXCEPT ![to] = Append(@, f)]
    /\ handler' = [handler EXCEPT ![c] = Waiting(to, f, next)]

(* Mutant: the length of a frame is not limited. *)
TooLarge_Never(f) == FALSE

(* The length in the header exceeds MAX_FRAME_SIZE.  The first bytes of a  *)
(* body, which is text, make such a length as well.                        *)
TooLarge(f) == f.type = "body" \/ (f.type = "publish" /\ f.message \in Large)

(* read_frame: the header is taken; too large a length is an error that    *)
(* ends the handler.                                                       *)
ReadHeader(c) ==
    /\ handler[c].at = "header"
    /\ up[c] # <<>>
    /\ IF TooLarge(Head(up[c]))
       THEN Ends(c)
       ELSE handler' = [handler EXCEPT ![c] = [at |-> "body"]] /\ UNCHANGED up
    /\ UNCHANGED <<down, listener, sending, timeouts, history>>

(* The body is read, and the frame is handled. *)
ReadBody(c) ==
    /\ handler[c].at = "body"
    /\ Head(up[c]).type # "body"
    /\ LET f == Head(up[c]) IN
       /\ handled' = [handled EXCEPT ![c] = Append(@, f)]
       /\ up' = [up EXCEPT ![c] = Tail(@)]
       /\ CASE f.type = "publish" ->
                 LET to == To[f.message]
                     ack == Frame("relay_ack", f.message) IN
                 IF Alive(to) THEN Send(c, to, Frame("push", f.message), <<ack>>)
                              ELSE Send(c, c, ack, <<>>)
            [] f.type = "client_ack" /\ Alive(From[f.message]) ->
                 Send(c, From[f.message], Frame("delivery_ack", f.message), <<>>)
            [] OTHER ->
                 handler' = [handler EXCEPT ![c] = Reading] /\ UNCHANGED down
    /\ UNCHANGED <<listener, sending, timeouts, written, answered>>

(* The drain ends; after a push comes the relay_ack. *)
Drained(c) ==
    /\ handler[c].at = "drain"
    /\ LET h == handler[c] IN
       /\ ~Full(down[h.to])
       /\ IF h.next = <<>>
          THEN handler' = [handler EXCEPT ![c] = Reading] /\ UNCHANGED down
          ELSE Send(c, c, h.next[1], <<>>)
    /\ UNCHANGED <<up, listener, sending, timeouts, history>>

(* The recipient's connection is closed and reset while its drain is       *)
(* waited for: the exception ends the sender's handler as well.            *)
DrainFails(c) ==
    /\ handler[c].at = "drain"
    /\ ~Alive(handler[c].to) /\ Full(down[handler[c].to])
    /\ Ends(c)
    /\ UNCHANGED <<down, listener, sending, timeouts, history>>

(* Mutant: with the read, the rest of the frame is given up. *)
Remaining_Next(c) == IF handler[c].at = "body" THEN Tail(up[c]) ELSE up[c]

(* What a read that is cancelled leaves in the stream: when it had taken   *)
(* the header, the body.                                                   *)
Remaining(c) ==
    IF handler[c].at = "body" THEN <<Signal("body")>> \o Tail(up[c]) ELSE up[c]

(* wait_for cancels the read after 70 seconds, and the client is pinged.   *)
Timeout(c) ==
    /\ handler[c].at \in {"header", "body"}
    /\ timeouts < MaxTimeouts
    /\ timeouts' = timeouts + 1
    /\ up' = [up EXCEPT ![c] = Remaining(c)]
    /\ Send(c, c, Signal("ping"), <<>>)
    /\ UNCHANGED <<listener, sending, history>>

Listener(c) == Listen(c) \/ Listened(c)
Handler(c) == ReadHeader(c) \/ ReadBody(c) \/ Drained(c)

Next ==
    \/ \E m \in Message : Publish(m)
    \/ \E c \in Client : Sent(c) \/ Listener(c) \/ Handler(c) \/ DrainFails(c) \/ Timeout(c)

(* The event loops run, and what was written arrives. *)
Fairness == \A c \in Client : WF_vars(Listener(c)) /\ WF_vars(Handler(c))

Spec == Init /\ [][Next]_vars /\ Fairness

-----------------------------------------------------------------------------
(* Properties.                                                             *)

UpFrame == [type : {"publish", "client_ack"}, message : Message] \union {Signal("pong")}
DownFrame == [type : {"push", "relay_ack", "delivery_ack"}, message : Message]
                \union {Signal("ping")}

TypeOK ==
    /\ \A c \in Client :
          /\ ToSet(up[c]) \subseteq UpFrame \union {Signal("body")}
          /\ ToSet(down[c]) \subseteq DownFrame
          /\ ToSet(written[c]) \union ToSet(handled[c]) \subseteq UpFrame
          /\ handler[c].at \in {"header", "body", "drain", "ended"}
          /\ handler[c].at = "body" => up[c] # <<>>
    /\ listener \in [Client -> {"read", "drain"}]
    /\ sending \subseteq Client
    /\ timeouts \in 0..MaxTimeouts
    /\ answered \subseteq Message

(* A relay handles a client's frames in the order they were written, and   *)
(* none behind one that it has not handled: a read that was cancelled in   *)
(* the middle of a frame never finds the next one.                         *)
HandledInOrder == \A c \in Client : IsPrefix(handled[c], written[c])

(* Listeners wait for handlers to read, and these for them.                *)
Jam(S) == \A c \in S :
    /\ listener[c] = "drain" /\ Full(up[c])
    /\ handler[c].at = "drain" /\ handler[c].to \in S /\ Full(down[handler[c].to])

Jammed == \E S \in (SUBSET Client) \ {{}} : Jam(S)

Published == {m \in Message : Frame("publish", m) \in ToSet(written[From[m]])}

(* As long as one client sends, to others, and no read has timed out,      *)
(* nobody waits for ever, however small the buffers: a listener that has   *)
(* nothing to acknowledge always reads.  (When two send to each other, the two        *)
(* listeners and the two handlers may wait for each other, and nothing     *)
(* ends that.)                                                             *)
OneWayNeverJams ==
    (\E c \in Client : \A m \in Published : From[m] = c /\ To[m] # c) /\ timeouts = 0
        => ~Jammed

(* A message that was written is answered, unless its connection ends or   *)
(* everyone waits: no timeout, frame that is too large or slow client      *)
(* leaves its sender without either.                                       *)
Settles == \A m \in Message :
    m \in Published ~> m \in answered \/ ~Alive(From[m]) \/ Jammed

=============================================================================
