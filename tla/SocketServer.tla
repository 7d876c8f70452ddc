---------------------------- MODULE SocketServer ----------------------------
(***************************************************************************)
(* The socket slots of src/src/socket.c.  Any thread may open, listen,     *)
(* bind or make a UDP socket: socket_next_id reserves a slot by a          *)
(* compare-and-swap, and a request goes through a pipe to the socket       *)
(* thread, which alone does the rest.  That thread alternates between the  *)
(* requests and the events of the last event_wait.                         *)
(*                                                                         *)
(* Steps: in a calling thread, each atomic access to the slot table; in    *)
(* the socket thread, the handling of one request or event, and, after one *)
(* that closed a socket, clear_closed.  Data is reduced to whether a       *)
(* socket has some waiting (SocketSend.tla has the lists).  A descriptor   *)
(* is named by the id of the socket it was made for.  The events of one    *)
(* event_wait are taken in any order.                                      *)
(***************************************************************************)
EXTENDS Integers, Sequences, FiniteSets

CONSTANTS
    MAX_SOCKET,   \* slots
    Client,       \* the threads that call the socket functions
    MaxId,        \* bound: ids handed out (S.next_id wraps at 2^31 in the code)
    MaxAsk,       \* bound: start, close and send requests
    MaxPipe,      \* bound: requests in the pipe (a writer blocks when it is full)
    None

ASSUME ServerAssumption ==
    MAX_SOCKET \in Nat \ {0} /\ MaxId \in Nat /\ MaxAsk \in Nat
    /\ MaxPipe \in Nat \ {0} /\ None \notin Nat

VARIABLES
    next_id,   \* S.next_id
    slot,      \* S.slot: type, id, does data wait, are write events asked for,
               \* is the descriptor lent (socket_bind), is it UDP
    pipe,      \* requests written and not yet read
    watched,   \* slots registered with the poller
    fds,       \* open descriptors the server has made
    leaked,    \* history: descriptors given up without being closed
    taken,     \* history: lent descriptors (socket_bind) the server has closed,
               \* and the type the socket had then
    ev,        \* S.ev: what is left to do for each slot ("r", "w")
    evid,      \* history: the id of the slot when its event was fetched
    phase,     \* the socket thread: at the "first" event of event_wait, at
               \* "ctrl" (requests), at "events", or where socket_new "failed"
    closing,   \* the id clear_closed is to be called with, or None
    cl,        \* the calling threads
    known,     \* ids the callers have been told
    asked,     \* how many requests MaxAsk has left
    failed,    \* "no", or what ends the model: "assert", "slot -1", "wiped"
    raced      \* history: a slot was reserved between its closing and clear_closed

thread == <<phase, closing>>
events == <<ev, evid>>
vars   == <<next_id, slot, pipe, watched, fds, leaked, taken, ev, evid, phase,
            closing, cl, known, asked, failed, raced>>

Slot == 0 .. MAX_SOCKET - 1
HASH_ID(id) == id % MAX_SOCKET

Invalid(s) == slot[s].type = "invalid"
Reserve(s) == slot[s].type = "reserve"
Live(s)    == ~Invalid(s) /\ ~Reserve(s)

Creating == {"open", "listen", "bind", "udp"}

\* A free slot, which remembers the id it was last used for; an idle caller.
Free(id) == [type |-> "invalid", id |-> id, buf |-> FALSE, out |-> FALSE,
             lent |-> FALSE, udp |-> FALSE]
Idle     == [pc |-> "idle", id |-> 0, tries |-> 0]

Init ==
    /\ next_id = 0
    /\ slot = [s \in Slot |-> Free(0)]
    /\ pipe = <<>> /\ watched = {} /\ fds = {} /\ leaked = {} /\ taken = {}
    /\ ev = [s \in Slot |-> {}] /\ evid = [s \in Slot |-> 0]
    /\ phase = "ctrl" /\ closing = None
    /\ cl = [c \in Client |-> Idle]
    /\ known = {} /\ asked = 0
    /\ failed = "no" /\ raced = FALSE

-----------------------------------------------------------------------------
(* The calling threads *)

\* socket_open, socket_listen, socket_bind, socket_udp: the next id ...
next_id_inc(c) ==
    /\ cl[c].pc \in {"idle", "retry"} /\ next_id < MaxId
    /\ next_id' = next_id + 1
    /\ cl' = [cl EXCEPT ![c].pc = "reserve", ![c].id = next_id + 1]
    /\ UNCHANGED <<slot, pipe, watched, fds, taken, leaked, events, thread, known, asked, failed, raced>>

\* Mutant of next_id_reserve: the slot is taken whatever it is used for.
next_id_reserve_blind(c) ==
    LET s == HASH_ID(cl[c].id) IN
    /\ cl[c].pc = "reserve"
    /\ slot' = [slot EXCEPT ![s].type = "reserve"]
    /\ cl' = [cl EXCEPT ![c].pc = "store"]
    /\ UNCHANGED <<next_id, pipe, watched, fds, taken, leaked, events, thread, known, asked, failed, raced>>

\* ... and its slot, if that is free: otherwise the next, and after a whole
\* turn -1, which the callers use as an id.  A compare-and-swap that was lost
\* to another thread is not counted.
next_id_reserve(c) ==
    LET s == HASH_ID(cl[c].id) IN
    /\ cl[c].pc = "reserve"
    /\ IF Invalid(s)
       THEN /\ slot' = [slot EXCEPT ![s].type = "reserve"]
            /\ cl' = [cl EXCEPT ![c].pc = "store"]
            /\ raced' = (raced \/ (closing = slot[s].id /\ ev[s] # {}))
            /\ UNCHANGED failed
       ELSE /\ \E n \in (IF Reserve(s) THEN {0, 1} ELSE {1}) :
                  /\ cl' = [cl EXCEPT ![c].pc = "retry", ![c].tries = @ + n]
                  /\ failed' = IF cl[c].tries + n = MAX_SOCKET THEN "slot -1" ELSE failed
            /\ UNCHANGED <<slot, raced>>
    /\ UNCHANGED <<next_id, pipe, watched, fds, taken, leaked, events, thread, known, asked>>

\* The id is stored and the request written; listen and udp bring a
\* descriptor of their own.  (Nobody knows the id in between.)
send_req(c, kind) ==
    LET id == cl[c].id IN
    /\ cl[c].pc = "store" /\ Len(pipe) < MaxPipe
    /\ slot' = [slot EXCEPT ![HASH_ID(id)].id = id]
    /\ pipe' = Append(pipe, [kind |-> kind, id |-> id])
    /\ fds' = IF kind \in {"listen", "udp"} THEN fds \cup {id} ELSE fds
    /\ known' = known \cup {id}
    /\ cl' = [cl EXCEPT ![c] = Idle]
    /\ UNCHANGED <<next_id, watched, leaked, taken, events, thread, asked, failed, raced>>

\* socket_start, socket_close and socket_send, on an id that may be stale;
\* socket_send looks at the slot before it sends the request.
ask(kind, id) ==
    /\ id \in known /\ asked < MaxAsk /\ Len(pipe) < MaxPipe
    /\ kind = "send" => ~Invalid(HASH_ID(id)) /\ slot[HASH_ID(id)].id = id
    /\ asked' = asked + 1
    /\ pipe' = Append(pipe, [kind |-> kind, id |-> id])
    /\ UNCHANGED <<next_id, slot, watched, fds, taken, leaked, events, thread, cl, known, failed, raced>>

-----------------------------------------------------------------------------
(* What the handlers of the socket thread have in common *)

\* close(sock->fd), unless the socket is a bound one.  One that was half-closed
\* is no longer that, so the descriptor it was lent is closed too.
close_fd(s) ==
    /\ fds' = IF slot[s].type # "bind" THEN fds \ {slot[s].id} ELSE fds
    /\ taken' = IF slot[s].type # "bind" /\ slot[s].lent
                THEN taken \cup {[id |-> slot[s].id, as |-> slot[s].type]} ELSE taken

\* Mutant of socket_force_close: the poller is not told.
socket_force_close_watched(s) ==
    /\ slot' = [slot EXCEPT ![s] = Free(slot[s].id)]
    /\ close_fd(s)
    /\ UNCHANGED watched

\* socket_force_close of a live socket.
socket_force_close(s) ==
    /\ slot' = [slot EXCEPT ![s] = Free(slot[s].id)]
    /\ watched' = IF slot[s].type \in {"paccept", "plisten"} THEN watched ELSE watched \ {s}
    /\ close_fd(s)

\* socket_new, and the type its caller sets
SetUp(id, type, udp) ==
    slot' = [slot EXCEPT ![HASH_ID(id)] =
                [type |-> type, id |-> id, buf |-> FALSE, out |-> type = "opening",
                 lent |-> type = "bind", udp |-> udp]]

Forget(id) == slot' = [slot EXCEPT ![HASH_ID(id)] = Free(id)]

Watch(id)  == watched' = watched \cup {HASH_ID(id)}

assertion_fails == failed' = "assert" /\ UNCHANGED <<slot, watched, fds, taken, leaked, closing>>

\* The next request, of a kind in kinds, when its handler has returned.  The
\* requests that create a socket find its slot reserved (ReservedOnce), as
\* socket_new asserts.
Request(kinds) ==
    /\ phase = "ctrl" /\ closing = None
    /\ pipe # <<>> /\ Head(pipe).kind \in kinds
    /\ pipe' = Tail(pipe)
    /\ UNCHANGED <<next_id, events, phase, cl, known, asked, raced>>

\* The id of the request does not belong to its slot (any more).
Stale(id) == Invalid(HASH_ID(id)) \/ slot[HASH_ID(id)].id # id

-----------------------------------------------------------------------------
(* Requests *)

\* No address or no connection: SOCKET_ERR.
socket_req_open ==
    LET id == Head(pipe).id IN
    /\ Request({"open"})
    /\ \/ Forget(id) /\ closing' = id /\ UNCHANGED <<watched, fds, taken>>
       \/ /\ \E ty \in {"opening", "opened"} : SetUp(id, ty, FALSE)
          /\ Watch(id) /\ fds' = fds \cup {id} /\ UNCHANGED <<taken, closing>>
    /\ UNCHANGED <<leaked, failed>>

socket_req_listen ==
    /\ Request({"listen"})
    /\ SetUp(Head(pipe).id, "plisten", FALSE)
    /\ UNCHANGED <<watched, fds, taken, leaked, closing, failed>>

socket_req_bind ==
    LET id == Head(pipe).id IN
    /\ Request({"bind"})
    /\ \/ SetUp(id, "bind", FALSE) /\ Watch(id) /\ UNCHANGED closing
       \/ Forget(id) /\ closing' = id /\ UNCHANGED watched
    /\ UNCHANGED <<fds, taken, leaked, failed>>

socket_req_udp ==
    /\ Request({"udp"})
    /\ SetUp(Head(pipe).id, "opened", TRUE) /\ Watch(Head(pipe).id)
    /\ UNCHANGED <<fds, taken, leaked, closing, failed>>

\* In socket_req_open and socket_req_udp the poller may refuse the
\* descriptor: socket_new gives the slot back ...
socket_new_failed ==
    /\ phase = "ctrl" /\ closing = None
    /\ pipe # <<>> /\ Head(pipe).kind \in {"open", "udp"}
    /\ Forget(Head(pipe).id)
    /\ phase' = "failed"
    /\ UNCHANGED <<next_id, pipe, watched, fds, taken, leaked, events, closing, cl, known,
                   asked, failed, raced>>

\* Mutant of socket_req_failed: the descriptor is not closed.
socket_req_failed_leak ==
    LET id == Head(pipe).id IN
    /\ phase = "failed" /\ phase' = "ctrl"
    /\ pipe' = Tail(pipe)
    /\ failed' = IF Reserve(HASH_ID(id)) THEN "wiped" ELSE failed
    /\ slot' = [slot EXCEPT ![HASH_ID(id)].type = "invalid"]
    /\ closing' = IF Head(pipe).kind = "open" THEN id ELSE None
    /\ UNCHANGED <<next_id, watched, fds, taken, leaked, events, cl, known, asked, raced>>

\* ... and its caller closes the descriptor and gives the slot back again: a
\* reservation another thread made in between is wiped out.  socket_req_open
\* reports SOCKET_ERR; the failure of a UDP socket is not reported.
socket_req_failed ==
    LET id == Head(pipe).id IN
    /\ phase = "failed" /\ phase' = "ctrl"
    /\ pipe' = Tail(pipe)
    /\ fds' = fds \ {id}
    /\ failed' = IF Reserve(HASH_ID(id)) THEN "wiped" ELSE failed
    /\ slot' = [slot EXCEPT ![HASH_ID(id)].type = "invalid"]
    /\ closing' = IF Head(pipe).kind = "open" THEN id ELSE None
    /\ UNCHANGED <<next_id, watched, leaked, taken, events, cl, known, asked, raced>>

\* A listening or accepted socket starts, or the poller refuses it and the
\* descriptor is lost; an open one changes hands.
socket_req_start ==
    LET id == Head(pipe).id
        ty == slot[HASH_ID(id)].type
    IN
    /\ Request({"start"})
    /\ \/ Stale(id) /\ closing' = id /\ UNCHANGED <<slot, watched, leaked>>
       \/ /\ ~Stale(id) /\ ty \in {"paccept", "plisten"}
          /\ \/ /\ slot' = [slot EXCEPT ![HASH_ID(id)].type =
                               IF ty = "paccept" THEN "opened" ELSE "listen"]
                /\ Watch(id) /\ UNCHANGED <<leaked, closing>>
             \/ Forget(id) /\ leaked' = leaked \cup {id} /\ closing' = id /\ UNCHANGED watched
       \/ ~Stale(id) /\ ty \notin {"paccept", "plisten"}
          /\ UNCHANGED <<slot, watched, leaked, closing>>
    /\ UNCHANGED <<fds, taken, failed>>

\* Everything is sent or cannot be sent: close now; otherwise half-close.  A
\* reserved slot that still has its old id fails the assertion.
socket_req_close ==
    LET id == Head(pipe).id
        s  == HASH_ID(id)
    IN
    /\ Request({"close"})
    /\ \/ Stale(id) /\ closing' = id /\ UNCHANGED <<slot, watched, fds, taken, leaked, failed>>
       \/ ~Stale(id) /\ Reserve(s) /\ assertion_fails
       \/ ~Stale(id) /\ Live(s) /\ socket_force_close(s) /\ closing' = id
          /\ UNCHANGED <<leaked, failed>>
       \/ ~Stale(id) /\ Live(s) /\ slot[s].buf
          /\ slot' = [slot EXCEPT ![s].type = "halfclose"]
          /\ UNCHANGED <<watched, fds, taken, leaked, closing, failed>>

\* Sent, kept, or failed.
socket_req_send ==
    LET id == Head(pipe).id
        s  == HASH_ID(id)
        ty == slot[s].type
        refused == Stale(id) \/ ty \in {"halfclose", "paccept", "plisten", "listen"}
        direct  == ~refused /\ ty = "opened" /\ ~slot[s].buf
    IN
    /\ Request({"send"})
    /\ \/ (refused \/ direct) /\ UNCHANGED <<slot, watched, fds, taken, closing>>
       \/ ~refused
          /\ slot' = [slot EXCEPT ![s].buf = TRUE, ![s].out = @ \/ ty = "opened"]
          /\ UNCHANGED <<watched, fds, taken, closing>>
       \/ direct /\ ~slot[s].udp /\ socket_force_close(s) /\ closing' = id
    /\ UNCHANGED <<leaked, failed>>

-----------------------------------------------------------------------------
(* Events *)

\* The event of slot s is handled, but for the part in rest.  After the first
\* one since event_wait the requests are next.
Event(s, rest) ==
    /\ phase \in {"first", "events"} /\ closing = None /\ ev[s] # {}
    /\ phase' = IF phase = "first" THEN "ctrl" ELSE phase
    /\ ev' = [ev EXCEPT ![s] = rest]
    /\ evid' = [evid EXCEPT ![s] = IF rest = {} THEN 0 ELSE @]
    /\ UNCHANGED <<pipe, leaked, cl, asked, raced>>

event_ignored(s) ==
    /\ Event(s, {}) /\ Invalid(s)
    /\ UNCHANGED <<next_id, slot, watched, fds, taken, closing, known, failed>>

\* The caller of socket_try_open does not call clear_closed.
socket_try_open(s) ==
    /\ Event(s, {}) /\ slot[s].type = "opening"
    /\ \/ /\ slot' = [slot EXCEPT ![s].type = "opened", ![s].out = @ /\ slot[s].buf]
          /\ UNCHANGED <<watched, fds, taken>>
       \/ socket_force_close(s)
    /\ UNCHANGED <<next_id, closing, known, failed>>

\* socket_try_accept: nobody there or no descriptors left; a whole turn
\* without a free slot; or the first free slot.  The callers learn the id.
socket_try_accept(s) ==
    /\ Event(s, {}) /\ slot[s].type = "listen"
    /\ \/ UNCHANGED <<next_id, slot, fds, taken, known>>
       \/ /\ next_id + MAX_SOCKET <= MaxId /\ \A i \in Slot : ~Invalid(i)
          /\ next_id' = next_id + MAX_SOCKET
          /\ UNCHANGED <<slot, fds, taken, known>>
       \/ \E id \in next_id + 1 .. MaxId :
             /\ Invalid(HASH_ID(id)) /\ \A i \in next_id + 1 .. id - 1 : ~Invalid(HASH_ID(i))
             /\ next_id' = id
             /\ SetUp(id, "paccept", FALSE)
             /\ fds' = fds \cup {id} /\ known' = known \cup {id}
    /\ UNCHANGED <<watched, taken, closing, failed>>

\* Anything else, also a slot that got into another state since event_wait.
Other(s) == slot[s].type \notin {"invalid", "opening", "listen"}

\* socket_forward_udp: a packet came in, and the event stays for the next.
udp_packet(s) ==
    /\ Event(s, ev[s]) /\ Other(s) /\ "r" \in ev[s] /\ slot[s].udp
    /\ UNCHANGED <<next_id, slot, watched, fds, taken, closing, known, failed>>

\* socket_forward_tcp, socket_forward_udp: something or nothing to read, or
\* the end.  The write part of the event comes next.  In a reserved slot the
\* read fails and so does the assertion.
read_event(s) ==
    /\ Event(s, ev[s] \ {"r"}) /\ Other(s) /\ "r" \in ev[s]
    /\ IF Reserve(s) THEN failed' = "assert" /\ UNCHANGED <<slot, watched, fds, taken, closing>>
       ELSE /\ \/ UNCHANGED <<slot, watched, fds, taken, closing>>
               \/ socket_force_close(s) /\ closing' = slot[s].id
            /\ UNCHANGED failed
    /\ UNCHANGED <<next_id, known>>

\* socket_send_buffer: part or all is sent, or the write fails.  One that
\* finds nothing left to send ends the write events, or a half-closed socket;
\* after the last of the low list the next one does.  A reserved slot has no
\* descriptor.
write_event(s) ==
    /\ Event(s, {}) /\ Other(s) /\ ev[s] = {"w"}
    /\ IF Reserve(s) /\ slot[s].buf
       THEN failed' = "assert" /\ UNCHANGED <<slot, watched, fds, taken, closing>>
       ELSE /\ \/ slot[s].buf /\ UNCHANGED <<slot, watched, fds, taken, closing>>
               \/ /\ slot[s].buf
                  /\ slot' = [slot EXCEPT ![s].buf = FALSE]
                  /\ UNCHANGED <<watched, fds, taken, closing>>
               \/ /\ slot[s].type # "halfclose"
                  /\ slot' = [slot EXCEPT ![s].buf = FALSE, ![s].out = FALSE]
                  /\ UNCHANGED <<watched, fds, taken, closing>>
               \/ /\ slot[s].buf \/ slot[s].type = "halfclose"
                  /\ socket_force_close(s) /\ closing' = slot[s].id
            /\ UNCHANGED failed
    /\ UNCHANGED <<next_id, known>>

-----------------------------------------------------------------------------
(* socket_poll *)

\* Mutant of clear_closed: the events of the closed socket stay.
clear_closed_not ==
    /\ closing # None /\ closing' = None
    /\ UNCHANGED <<next_id, slot, pipe, watched, fds, taken, leaked, events, phase, cl, known, asked, failed, raced>>

clear_closed ==
    /\ closing # None /\ closing' = None
    /\ ev' = [s \in Slot |-> IF Invalid(s) /\ slot[s].id = closing THEN {} ELSE ev[s]]
    /\ evid' = [s \in Slot |-> IF ev'[s] = {} THEN 0 ELSE evid[s]]
    /\ UNCHANGED <<next_id, slot, pipe, watched, fds, taken, leaked, phase, cl, known, asked, failed, raced>>

\* No request is left: check_ctrl = 0 until the next event_wait.
no_ctrl ==
    /\ phase = "ctrl" /\ closing = None /\ pipe = <<>>
    /\ phase' = "events"
    /\ UNCHANGED <<next_id, slot, pipe, watched, fds, taken, leaked, events, closing, cl, known, asked, failed, raced>>

\* No event is left: wait for some, or for a request.  The first event is
\* handled at once, unless it is the one of the pipe.
event_wait ==
    /\ phase = "events" /\ closing = None /\ \A s \in Slot : ev[s] = {}
    /\ \E e \in [watched -> SUBSET {"r", "w"}] :
          /\ \/ phase' = "first" /\ \E s \in watched : e[s] # {}
             \/ phase' = "ctrl" /\ pipe # <<>>
          /\ \A s \in watched : "w" \in e[s] => slot[s].out
          /\ ev' = [s \in Slot |-> IF s \in watched THEN e[s] ELSE {}]
    /\ evid' = [s \in Slot |-> IF ev'[s] # {} THEN slot[s].id ELSE 0]
    /\ UNCHANGED <<next_id, slot, pipe, watched, fds, taken, leaked, closing, cl, known, asked, failed, raced>>

-----------------------------------------------------------------------------
Call(c) ==
    next_id_inc(c) \/ next_id_reserve(c) \/ \E k \in Creating : send_req(c, k)

Poll ==
    \/ socket_req_open \/ socket_req_listen \/ socket_req_bind \/ socket_req_udp
    \/ socket_new_failed \/ socket_req_failed
    \/ socket_req_start \/ socket_req_close \/ socket_req_send
    \/ \E s \in Slot : \/ event_ignored(s) \/ socket_try_open(s) \/ socket_try_accept(s)
                       \/ udp_packet(s) \/ read_event(s) \/ write_event(s)
    \/ clear_closed \/ no_ctrl \/ event_wait

Next ==
    /\ failed = "no"
    /\ \/ \E c \in Client : Call(c)
       \/ \E id \in known, k \in {"start", "close", "send"} : ask(k, id)
       \/ Poll

Spec == Init /\ [][Next]_vars

-----------------------------------------------------------------------------
(* Properties *)

\* Who is going to set up slot s: a thread that has reserved it and not yet
\* sent its request, or the request itself.
Reservers(s) == {c \in Client : cl[c].pc = "store" /\ HASH_ID(cl[c].id) = s}
Requests(s)  == {i \in 1 .. Len(pipe) : /\ pipe[i].kind \in Creating /\ HASH_ID(pipe[i].id) = s
                                        /\ i = 1 => phase # "failed"}

\* From the reservation in one thread to the handling in another, and
\* whatever closes and reservations happen around it, a slot is reserved for
\* one socket: the assertion in socket_new holds, two sockets never share a
\* slot, and none stays reserved with nobody left to set it up - unless the
\* poller refused a socket and the reservation was wiped out.
ReservedOnce ==
    failed # "wiped" => \A s \in Slot :
        /\ Cardinality(Reservers(s)) + Cardinality(Requests(s)) = IF Reserve(s) THEN 1 ELSE 0
        /\ \A i \in Requests(s) : slot[s].id = pipe[i].id

\* The poller, which keeps a pointer to the slot, watches exactly the
\* sockets that are live and started.
WatchedExact ==
    \A s \in Slot : s \in watched <=>
        slot[s].type \in {"opening", "opened", "listen", "bind", "halfclose"}

\* No descriptor is lost or closed twice: those the server has made and that
\* are open belong to a live socket or are on their way to one, except where
\* the poller refused to start a socket (socket_req_start does not close it).
\* And a descriptor that socket_bind was lent, which is its owner's to close,
\* stays open whatever becomes of its socket, except one whose socket was
\* half-closed with data waiting: the server closes that behind its owner's
\* back.
FdsExact ==
    /\ \A d \in taken : d.as = "halfclose"
    /\ fds = {slot[s].id : s \in {i \in Slot : Live(i) /\ ~slot[i].lent}}
              \cup {pipe[i].id : i \in {j \in 1 .. Len(pipe) : pipe[j].kind \in {"listen", "udp"}}}
              \cup leaked

\* An event is never taken for one of a later socket in the same slot,
\* although requests that close it and open the next are handled before it
\* - unless another thread reserved the slot before clear_closed ran.
EventsFresh ==
    ~raced => \A s \in Slot : ev[s] # {} /\ Live(s) => evid[s] = slot[s].id
=============================================================================
