----------------------------- MODULE SocketSend -----------------------------
(***************************************************************************)
(* How one TCP socket of src/src/socket.c sends: the direct write, the two *)
(* buffer lists of struct socket, partial writes, the interest in write    *)
(* events, and closing with data still to be sent.                         *)
(*                                                                         *)
(* All of it runs in the socket thread, one request or event at a time.    *)
(* What varies is the kernel: when it is connected, how many bytes a write *)
(* takes, when it fails.  A message is SIZE units (bytes, or any larger    *)
(* piece); message k is sent as the units <<k, ..., k>>, and a buffer list *)
(* is the sequence of units it still has to send.                          *)
(***************************************************************************)
EXTENDS Integers, Sequences, FiniteSets

CONSTANTS
    SIZE,     \* units of a message
    MaxMsg    \* bound: messages sent to the socket

ASSUME SendAssumption == SIZE \in Nat /\ SIZE > 1 /\ MaxMsg \in Nat

VARIABLES
    type,        \* sock->type: "opening", "opened", "bind", "halfclose", "invalid"
    high, low,   \* the units in sock->high and sock->low
    wb_size,     \* sock->wb_size
    out,         \* EPOLLOUT is asked for (event_write)
    conn,        \* the kernel's side: "pending", "up", "down"
    wire,        \* the units the kernel took
    prio,        \* history: the list each message was meant for
    bound,       \* history: the descriptor came from socket_bind
    taken,       \* history: the messages that were not refused
    asked,       \* history: a close request was handled
    aborted      \* an assertion failed

lists   == <<high, low>>
history == <<prio, bound, taken, asked>>
vars    == <<type, high, low, wb_size, out, conn, wire, prio, bound, taken,
             asked, aborted>>

Units(k) == [i \in 1 .. SIZE |-> k]
Drop(s, n) == SubSeq(s, n + 1, Len(s))

\* socket_req_open or socket_req_bind has just set the socket up.
Init ==
    /\ \/ type = "opening" /\ conn = "pending" /\ out = TRUE
       \/ type = "opened" /\ conn = "up" /\ out = FALSE
       \/ type = "bind" /\ conn = "up" /\ out = FALSE
    /\ high = <<>> /\ low = <<>> /\ wb_size = 0 /\ wire = <<>>
    /\ prio = <<>> /\ bound = (type = "bind") /\ taken = {}
    /\ asked = FALSE /\ aborted = FALSE

\* How much a write may take: nothing before the connection is up.
Room(n) == IF conn = "up" THEN 0 .. n ELSE IF conn = "pending" THEN {0} ELSE {}

\* A write may fail once the peer is gone, whatever was written before.
CanFail == conn = "down"

socket_force_close ==
    /\ type' = "invalid" /\ out' = FALSE
    /\ high' = <<>> /\ low' = <<>>

-----------------------------------------------------------------------------
(* socket_send_buffer *)

\* How many units are left of the first buffer of a list.
First(list) == Cardinality({i \in 1 .. Len(list) : list[i] = list[1]})

\* socket_buffer_list_complete
Complete(list) == list = <<>> \/ First(list) = SIZE

\* Mutants of SendBuffer: write interest is dropped with data left in low;
\* a half-closed socket is not closed when everything is sent; what moves to
\* high stays in low, too.
SendBuffer_deaf(k) ==
    LET h == IF k < Len(high) THEN Drop(high, k) ELSE <<>>
        l == IF k < Len(high) THEN low ELSE Drop(low, k - Len(high))
    IN  [high |-> h, low |-> l, out |-> out /\ h # <<>>,
         shut |-> h = <<>> /\ low = <<>> /\ type = "halfclose"]

SendBuffer_open(k) ==
    LET h == IF k < Len(high) THEN Drop(high, k) ELSE <<>>
        l == IF k < Len(high) THEN low ELSE Drop(low, k - Len(high))
        n == IF h = <<>> /\ ~Complete(l) THEN First(l) ELSE 0
    IN  [high |-> h \o SubSeq(l, 1, n), low |-> Drop(l, n),
         out |-> out /\ ~(h = <<>> /\ low = <<>>), shut |-> FALSE]

SendBuffer_twice(k) ==
    LET h == IF k < Len(high) THEN Drop(high, k) ELSE <<>>
        l == IF k < Len(high) THEN low ELSE Drop(low, k - Len(high))
        n == IF h = <<>> /\ ~Complete(l) THEN First(l) ELSE 0
    IN  [high |-> h \o SubSeq(l, 1, n), low |-> l,
         out |-> out /\ ~(h = <<>> /\ low = <<>>),
         shut |-> h = <<>> /\ low = <<>> /\ type = "halfclose"]

\* The lists after k units were taken: high goes first; a buffer of low that
\* was begun moves to high, so that it is finished before anything else; an
\* empty socket loses interest in write events and, half-closed, is closed.
SendBuffer(k) ==
    LET h == IF k < Len(high) THEN Drop(high, k) ELSE <<>>
        l == IF k < Len(high) THEN low ELSE Drop(low, k - Len(high))
        n == IF h = <<>> /\ ~Complete(l) THEN First(l) ELSE 0
    IN  [high |-> h \o SubSeq(l, 1, n), low |-> Drop(l, n),
         out |-> out /\ ~(h = <<>> /\ low = <<>>),
         shut |-> h = <<>> /\ low = <<>> /\ type = "halfclose"]

\* The units go out and the outcome o is stored; the socket's type becomes
\* ty unless o closes it.
Store(k, o, ty) ==
    /\ wire' = wire \o SubSeq(high \o low, 1, k)
    /\ wb_size' = wb_size - k
    /\ IF o.shut THEN socket_force_close
       ELSE type' = ty /\ high' = o.high /\ low' = o.low /\ out' = o.out

Abort == aborted' = TRUE /\ UNCHANGED <<type, lists, wb_size, out, wire>>

-----------------------------------------------------------------------------
(* Requests *)

\* Mutants of Append_sendbuffer: in front of the list; without its length.
Append_sendbuffer_front(p, us) ==
    /\ high' = IF p = "high" THEN us \o high ELSE high
    /\ low'  = IF p = "low" THEN us \o low ELSE low
    /\ wb_size' = wb_size + Len(us)

Append_sendbuffer_whole(p, us) ==
    /\ high' = IF p = "high" THEN high \o us ELSE high
    /\ low'  = IF p = "low" THEN low \o us ELSE low
    /\ wb_size' = wb_size + SIZE

\* socket_append_sendbuffer
Append_sendbuffer(p, us) ==
    /\ high' = IF p = "high" THEN high \o us ELSE high
    /\ low'  = IF p = "low" THEN low \o us ELSE low
    /\ wb_size' = wb_size + Len(us)

\* The next message, with the priority its sender chose.
NewMessage(p, accepted) ==
    /\ Len(prio) < MaxMsg
    /\ prio' = Append(prio, p)
    /\ taken' = IF accepted THEN taken \cup {Len(prio) + 1} ELSE taken
    /\ UNCHANGED <<asked, bound, conn>>

send_refused(p) ==
    /\ type \in {"invalid", "halfclose"}
    /\ NewMessage(p, FALSE)
    /\ UNCHANGED <<type, lists, wb_size, out, wire, aborted>>

\* Nothing is waiting: write at once and keep what the kernel did not take.
send_direct(p) ==
    LET us == Units(Len(prio) + 1) IN
    /\ type = "opened" /\ high = <<>> /\ low = <<>>
    /\ NewMessage(p, TRUE)
    /\ \E k \in Room(SIZE) :
          /\ wire' = wire \o SubSeq(us, 1, k)
          /\ IF k = SIZE THEN UNCHANGED <<lists, wb_size, out>>
             ELSE Append_sendbuffer(p, Drop(us, k)) /\ out' = TRUE
    /\ UNCHANGED <<type, aborted>>

send_error(p) ==
    /\ type = "opened" /\ high = <<>> /\ low = <<>> /\ CanFail
    /\ NewMessage(p, FALSE)
    /\ socket_force_close
    /\ UNCHANGED <<wb_size, wire, aborted>>

\* Otherwise the message waits; the write events are on already, except on
\* a bound descriptor, for which nothing ever asks for them.
send_buffered(p) ==
    /\ \/ type \in {"opening", "bind"}
       \/ type = "opened" /\ (high # <<>> \/ low # <<>>)
    /\ NewMessage(p, TRUE)
    /\ Append_sendbuffer(p, Units(Len(prio) + 1))
    /\ UNCHANGED <<type, out, wire, aborted>>

\* socket_req_close: try to send what is left, then close or half-close.
socket_req_close ==
    /\ asked' = TRUE
    /\ \/ type = "invalid" /\ UNCHANGED <<type, lists, wb_size, out, wire, aborted>>
       \/ /\ type # "invalid" /\ high = <<>> /\ low = <<>>
          /\ socket_force_close
          /\ UNCHANGED <<wb_size, wire, aborted>>
       \/ /\ high # <<>> \/ low # <<>>
          /\ IF ~Complete(low) THEN Abort
             ELSE /\ \/ \E k \in Room(Len(high \o low)) :
                           LET o == SendBuffer(k)
                               done == o.high = <<>> /\ o.low = <<>>
                           IN  Store(k, [o EXCEPT !.shut = @ \/ done], "halfclose")
                     \/ CanFail /\ socket_force_close /\ UNCHANGED <<wb_size, wire>>
                  /\ UNCHANGED aborted
    /\ UNCHANGED <<conn, prio, bound, taken>>

-----------------------------------------------------------------------------
(* Events *)

\* socket_poll with a write event, after the connection was made or lost
write_event ==
    /\ out /\ type \in {"opened", "halfclose"} /\ conn # "pending"
    /\ IF ~Complete(low) THEN Abort
       ELSE /\ \/ \E k \in Room(Len(high \o low)) : Store(k, SendBuffer(k), type)
               \/ /\ CanFail /\ high \o low # <<>>
                  /\ socket_force_close /\ UNCHANGED <<wb_size, wire>>
               \/ /\ CanFail /\ high \o low = <<>>
                  /\ Store(0, SendBuffer(0), type)
            /\ UNCHANGED aborted
    /\ UNCHANGED <<conn, history>>

\* socket_try_open
socket_try_open ==
    /\ type = "opening" /\ conn # "pending"
    /\ IF conn = "down" THEN socket_force_close
       ELSE /\ type' = "opened"
            /\ out' = (out /\ ~(high = <<>> /\ low = <<>>))
            /\ UNCHANGED lists
    /\ UNCHANGED <<wb_size, conn, wire, history, aborted>>

\* socket_forward_tcp reads the end of the stream or an error.
read_close ==
    /\ type \in {"opened", "bind", "halfclose"} /\ conn = "down"
    /\ socket_force_close
    /\ UNCHANGED <<wb_size, conn, wire, history, aborted>>

\* The kernel: the connection is made or refused, or the peer leaves.
kernel ==
    /\ type # "invalid"
    /\ \/ conn = "pending" /\ conn' \in {"up", "down"}
       \/ conn = "up" /\ conn' = "down"
    /\ UNCHANGED <<type, lists, wb_size, out, wire, history, aborted>>

Events == write_event \/ socket_try_open \/ read_close

Next ==
    /\ ~aborted
    /\ \/ \E p \in {"high", "low"} :
             send_refused(p) \/ send_direct(p) \/ send_error(p) \/ send_buffered(p)
       \/ socket_req_close \/ Events \/ kernel

Spec == Init /\ [][Next]_vars

\* The socket thread handles its events, and a peer reads or leaves: a write
\* event comes again until the kernel has taken something.
FairSpec ==
    /\ Spec
    /\ WF_vars(~aborted /\ Events)
    /\ WF_vars(~aborted /\ conn = "pending" /\ kernel)

-----------------------------------------------------------------------------
(* Properties *)

\* On the wire messages are whole and never mixed: a message that was begun
\* is finished before a unit of another one is sent, also when a partly sent
\* low-priority message is overtaken by high-priority ones.
WholeMessages ==
    \A i \in 1 .. Len(wire) - 1 : wire[i] # wire[i + 1] =>
        /\ Cardinality({j \in 1 .. i : wire[j] = wire[i]}) = SIZE
        /\ \A j \in i + 1 .. Len(wire) : wire[j] # wire[i]

\* Nothing is lost, repeated or reordered within a priority: as long as the
\* socket lives, what was sent followed by what waits are all the units of the
\* messages that were taken, and those of one priority are in order.
StreamExact ==
    LET s == wire \o high \o low IN
    type # "invalid" =>
        /\ \A i \in 1 .. Len(s) : s[i] \in taken
        /\ \A k \in taken : Cardinality({i \in 1 .. Len(s) : s[i] = k}) = SIZE
        /\ \A i, j \in 1 .. Len(s) : i < j /\ prio[s[i]] = prio[s[j]] => s[i] <= s[j]

\* wb_size, which socket_send returns and the overload warning is based on,
\* is what the two lists hold.
WbExact == type # "invalid" => wb_size = Len(high) + Len(low)

\* Whoever has data waiting waits for a write event, or nothing would ever
\* send it; a socket made from a bound descriptor never does.
WriteArmed ==
    type # "invalid" /\ ~bound /\ (high # <<>> \/ low # <<>>) => out

\* A close request is carried out however much is still to be sent, once
\* the data is gone or the peer is - unless the descriptor was bound or an
\* assertion failed.
CloseEnds == asked ~> type = "invalid" \/ aborted \/ bound

\* The assertion in socket_send_buffer: the first buffer of the low list has
\* not been begun.
LowComplete == ~aborted
=============================================================================
