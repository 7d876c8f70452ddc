------------------------------- MODULE Mailbox -------------------------------
(***************************************************************************)
(* What a service's message queue promises to the rest of the runtime: an  *)
(* unbounded FIFO inbox, and one scheduling token.  The token is "off"     *)
(* when no thread needs to look at the inbox, "queued" when the inbox is   *)
(* in the list of runnable inboxes, and "held" when one thread owns it.    *)
(* Nobody but the owner takes messages, and an inbox that has messages is  *)
(* never "off".                                                            *)
(***************************************************************************)
EXTENDS Sequences

CONSTANTS Msg, NoMsg

VARIABLES
    inbox,   \* the messages sent and not yet taken, in order of arrival
    out,     \* the message the last Take delivered
    token,   \* who has to look at the inbox
    open,    \* FALSE once the service is gone: no more Put, no more Take
    gone     \* TRUE once the inbox itself is destroyed

vars == <<inbox, out, token, open, gone>>

Init ==
    /\ inbox = <<>>
    /\ out = NoMsg
    /\ token = "held"
    /\ open = TRUE
    /\ gone = FALSE

Put ==
    /\ open
    /\ \E x \in Msg : inbox' = Append(inbox, x)
    /\ token' = IF token = "off" THEN "queued" ELSE token
    /\ UNCHANGED <<out, open, gone>>

Take ==
    /\ open /\ token = "held" /\ inbox # <<>>
    /\ out' = Head(inbox)
    /\ inbox' = Tail(inbox)
    /\ UNCHANGED <<token, open, gone>>

\* The owner gives the token up, and may do so only when nothing is waiting.
Park ==
    /\ open /\ token = "held" /\ inbox = <<>>
    /\ token' = "off"
    /\ UNCHANGED <<inbox, out, open, gone>>

Fetch ==
    /\ token = "queued"
    /\ token' = "held"
    /\ UNCHANGED <<inbox, out, open, gone>>

Yield ==
    /\ token = "held"
    /\ token' = "queued"
    /\ UNCHANGED <<inbox, out, open, gone>>

Close ==
    /\ open
    /\ open' = FALSE
    /\ UNCHANGED <<inbox, out, token, gone>>

\* A closed inbox that nobody is going to look at is scheduled one last time.
Recall ==
    /\ ~open /\ token = "off" /\ ~gone
    /\ token' = "queued"
    /\ UNCHANGED <<inbox, out, open, gone>>

\* The owner destroys a closed inbox together with what is left in it.
Dispose ==
    /\ ~open /\ token = "held"
    /\ inbox' = <<>>
    /\ token' = "off"
    /\ gone' = TRUE
    /\ UNCHANGED <<out, open>>

Next ==
    \/ Put \/ Take \/ Park \/ Fetch \/ Yield \/ Close \/ Recall \/ Dispose

Spec == Init /\ [][Next]_vars
=============================================================================
