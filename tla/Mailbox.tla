------------------------------ MODULE Mailbox ------------------------------
(***************************************************************************)
(* What a relay promises about the messages it reads: a message it answers *)
(* with relay_ack is with its recipient or in the relay's keeping; one in  *)
(* the relay's keeping stays there until it is handed over, and is lost    *)
(* only together with the process, before its insertion was committed.     *)
(* Relay.tla is shown to implement this.                                   *)
(***************************************************************************)
CONSTANT Msg

VARIABLES
    fate,    \* where the relay brought each message
    acked    \* messages answered with relay_ack

vars == <<fate, acked>>

Fate == {"unread", "held", "handed", "lost"}

Init ==
    /\ fate = [m \in Msg |-> "unread"]
    /\ acked = {}

(* The message is kept for a recipient that is offline, and answered. *)
Keep(m) ==
    /\ fate[m] = "unread"
    /\ fate' = [fate EXCEPT ![m] = "held"]
    /\ acked' = acked \union {m}

(* It is written to a connection of the recipient, at once or later. *)
Hand(m) ==
    /\ fate[m] \in {"unread", "held"}
    /\ fate' = [fate EXCEPT ![m] = "handed"]
    /\ UNCHANGED acked

(* A message that was forwarded at once is answered afterwards. *)
Answer(m) ==
    /\ fate[m] = "handed"
    /\ acked' = acked \union {m}
    /\ UNCHANGED fate

(* The process dies: the messages whose insertion had not run are gone. *)
Lose(S) ==
    /\ \A m \in S : fate[m] = "held"
    /\ fate' = [m \in Msg |-> IF m \in S THEN "lost" ELSE fate[m]]
    /\ UNCHANGED acked

Next ==
    \/ \E m \in Msg : Keep(m) \/ Hand(m) \/ Answer(m)
    \/ \E S \in SUBSET Msg : Lose(S)

Spec == Init /\ [][Next]_vars
=============================================================================
