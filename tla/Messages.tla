------------------------------ MODULE Messages ------------------------------
(***************************************************************************)
(* Who owns the memory of a message: the sending side, the queues and the  *)
(* callbacks of src/src/pixel.c, with harbor.c.  A block of memory is a    *)
(* number; a message carries the block m.data, and one made by             *)
(* pixel_socket_dispatch also the payload sm->data inside it.  The order   *)
(* and the scheduling of queues are in MessageQueue and Actor: here one    *)
(* callback runs at a time.                                                *)
(***************************************************************************)
EXTENDS Integers, Sequences, FiniteSets

CONSTANTS
    Svc,        \* bound: the services; a handle 0 is no service
    LogSvc,     \* the log service, kept by pixel_setlog
    Remote,     \* a handle of another harbor
    Block,      \* bound: blocks of memory, positive numbers
    MAX_BOX     \* bound: messages in one queue

ASSUME MessagesAssumption ==
    /\ LogSvc \in Svc /\ Remote \notin Svc
    /\ 0 \notin Svc \cup {Remote} \cup Block
    /\ IsFiniteSet(Block) /\ MAX_BOX \in Nat

VARIABLES
    up,         \* services the handle table finds
    box,        \* their queues
    cb,         \* ctx->cb: "none", "cb" or "forward"
    hctx,       \* H.hctx of harbor.c, or 0
    cur,        \* the message of the running callback, [svc |-> 0] if none
    heap,       \* blocks allocated and not freed
    lua,        \* blocks that Lua code holds as light userdata
    leaked,     \* ghost: payloads of socket events that nobody can free
    wrong       \* ghost: a block was freed, or handed over, that was not allocated

msgVars == <<up, box, cb, hctx, cur, heap, lua, leaked, wrong>>

NoCall == [svc |-> 0]
Busy == cur.svc # 0
Unused(n) == CHOOSE f \in [1 .. n -> Block \ heap] : \A i, j \in 1 .. n : i # j => f[i] # f[j]
Room(n) == Cardinality(Block \ heap) >= n

\* pixel_alloc(p, 0); a null pointer is left alone.
Release(h, blocks) ==
    /\ heap' = h \ blocks
    /\ wrong' = (wrong \/ ~(blocks \ {0} \subseteq h))

\* pixel_push to a service that is registered.
pixel_push(s, m) == box' = [box EXCEPT ![s] = Append(@, m)]
HasRoom(s) == s \in up => Len(box[s]) < MAX_BOX
Message(d, p) == [data |-> d, payload |-> p]

-----------------------------------------------------------------------------
(* Sending *)

\* harbor_send goes to the queue of the harbor service.  Before harbor_start it
\* would read through a null pointer.
Target(dest) == IF dest = Remote THEN hctx ELSE dest

\* Mutant: a message that could not be pushed is not freed.
Deliver_keeps(h, s, d) ==
    IF s \in up
    THEN pixel_push(s, Message(d, 0)) /\ heap' = h /\ UNCHANGED wrong
    ELSE heap' = h /\ UNCHANGED <<box, wrong>>

\* The end of pixel_send: what could not be pushed is freed.
Deliver(h, s, d) ==
    IF s \in up
    THEN pixel_push(s, Message(d, 0)) /\ heap' = h /\ UNCHANGED wrong
    ELSE Release(h, {d}) /\ UNCHANGED box

\* pixel_send of a string: a copy is made (_filter_args) once the size and the
\* destination have been looked at.
send_copy(dest, large) ==
    /\ Room(1) /\ HasRoom(Target(dest)) /\ (dest = Remote => hctx # 0)
    /\ IF large \/ dest = 0 THEN UNCHANGED <<box, heap, wrong>>
       ELSE LET b == Unused(1)[1] IN Deliver(heap \cup {b}, Target(dest), b)
    /\ UNCHANGED <<up, cb, hctx, cur, lua, leaked>>

\* pixel_send of light userdata (PIXEL_TAG_DONTCOPY): the block changes hands,
\* whether it can be delivered or not.
send_block(dest, large, b) ==
    /\ b \in lua /\ HasRoom(Target(dest)) /\ (dest = Remote => hctx # 0)
    /\ IF large \/ dest = 0 THEN Release(heap, {b}) /\ UNCHANGED box
       ELSE Deliver(heap, Target(dest), b)
    /\ lua' = lua \ {b}
    /\ UNCHANGED <<up, cb, hctx, cur, leaked>>

\* pixel_log: the text goes to the log service, or to stderr if that is gone.
\* The context pixel_log reads the service's handle from may be freed by then
\* (Actor's Logs); here such a handle is one that nobody has any more.
pixel_log ==
    /\ Room(1) /\ HasRoom(LogSvc)
    /\ LET b == Unused(1)[1] IN Deliver(heap \cup {b}, LogSvc, b)
    /\ UNCHANGED <<up, cb, hctx, cur, lua, leaked>>

\* An expired timer: no memory but the event, which the timer frees.
pixel_timer_dispatch(s) ==
    /\ HasRoom(s)
    /\ IF s \in up THEN pixel_push(s, Message(0, 0)) ELSE UNCHANGED box
    /\ UNCHANGED <<up, cb, hctx, cur, heap, lua, leaked, wrong>>

\* A socket event, with or without a payload.  If the service is gone the copy
\* of the event is freed; its payload is not.
pixel_socket_dispatch(s, payload) ==
    LET n == IF payload THEN 2 ELSE 1
        f == Unused(n)
        p == IF payload THEN f[2] ELSE 0
    IN  /\ Room(n) /\ HasRoom(s)
        /\ IF s \in up
           THEN /\ pixel_push(s, Message(f[1], p))
                /\ heap' = heap \cup ({f[1], p} \ {0})
                /\ UNCHANGED leaked
           ELSE /\ heap' = heap \cup ({p} \ {0})
                /\ leaked' = leaked \cup ({p} \ {0})
                /\ UNCHANGED box
        /\ UNCHANGED <<up, cb, hctx, cur, lua, wrong>>

-----------------------------------------------------------------------------
(* Dispatch *)

Datas(q) == {q[i].data : i \in DOMAIN q}
Payloads(q) == {q[i].payload : i \in DOMAIN q} \ {0}

\* pixel_dispatch of a service that is gone: queue_free with _drop_message,
\* which frees the messages and nothing inside them.
dispatch_gone(s) ==
    /\ s \notin up /\ box[s] # <<>>
    /\ Release(heap, Datas(box[s]))
    /\ leaked' = leaked \cup Payloads(box[s])
    /\ box' = [box EXCEPT ![s] = <<>>]
    /\ UNCHANGED <<up, cb, hctx, cur, lua>>

\* ... of one that never set a callback.
dispatch_mute(s) ==
    /\ s \in up /\ box[s] # <<>> /\ cb[s] = "none"
    /\ Release(heap, {Head(box[s]).data})
    /\ leaked' = leaked \cup Payloads(<<Head(box[s])>>)
    /\ box' = [box EXCEPT ![s] = Tail(@)]
    /\ UNCHANGED <<up, cb, hctx, cur, lua>>

\* ... of one that did: _cb shows the message to Lua; forward_cb gives it to
\* Lua, and says so when it returns.
dispatch_call(s) ==
    LET m == Head(box[s]) IN
    /\ ~Busy /\ s \in up /\ box[s] # <<>> /\ cb[s] # "none"
    /\ box' = [box EXCEPT ![s] = Tail(@)]
    /\ cur' = [svc |-> s, m |-> m, forward |-> cb[s] = "forward"]
    /\ lua' = IF cb[s] = "forward" THEN lua \cup ({m.data} \ {0}) ELSE lua
    /\ UNCHANGED <<up, cb, hctx, heap, leaked, wrong>>

\* lunpack of lsocket.c: the payload of a socket event is now Lua's.
socket_unpack ==
    /\ Busy /\ cur.m.payload # 0
    /\ lua' = lua \cup {cur.m.payload}
    /\ cur' = [cur EXCEPT !.m.payload = 0]
    /\ UNCHANGED <<up, box, cb, hctx, heap, leaked, wrong>>

\* The callback returns, normally or with an error (_cb returns 0 for both).  A
\* payload Lua did not ask for is out of reach.
callback_return ==
    /\ Busy
    /\ IF cur.forward THEN UNCHANGED <<heap, wrong>> ELSE Release(heap, {cur.m.data})
    /\ leaked' = leaked \cup ({cur.m.payload} \ {0})
    /\ cur' = NoCall
    /\ UNCHANGED <<up, box, cb, hctx, lua>>

-----------------------------------------------------------------------------
(* Lua code and commands *)

\* pixel.pack and the other libraries that return a block and its size.
lua_pack ==
    /\ Room(1) /\ lua' = lua \cup {Unused(1)[1]} /\ heap' = heap \cup {Unused(1)[1]}
    /\ UNCHANGED <<up, box, cb, hctx, cur, leaked, wrong>>

ldrop(b) ==
    /\ b \in lua /\ Release(heap, {b}) /\ lua' = lua \ {b}
    /\ UNCHANGED <<up, box, cb, hctx, cur, leaked>>

\* A service sets its callback while it runs.
lcallback(s, kind) ==
    /\ s \in up /\ cb' = [cb EXCEPT ![s] = kind]
    /\ UNCHANGED <<up, box, hctx, cur, heap, lua, leaked, wrong>>

harbor_start(s) ==
    /\ s \in up /\ hctx = 0 /\ hctx' = s
    /\ UNCHANGED <<up, box, cb, cur, heap, lua, leaked, wrong>>

\* KILL, seen by the handle table; the harbor service is kept by pixel_reserve.
service_gone(s) ==
    /\ s \in up \ {hctx} /\ up' = up \ {s}
    /\ UNCHANGED <<box, cb, hctx, cur, heap, lua, leaked, wrong>>

MessagesInit ==
    /\ up = Svc /\ box = [s \in Svc |-> <<>>] /\ cb = [s \in Svc |-> "none"]
    /\ hctx = 0 /\ cur = NoCall
    /\ heap = {} /\ lua = {} /\ leaked = {} /\ wrong = FALSE

MessagesNext ==
    \/ \E dest \in Svc \cup {0, Remote}, large \in BOOLEAN :
          send_copy(dest, large) \/ \E b \in lua : send_block(dest, large, b)
    \/ pixel_log \/ lua_pack \/ socket_unpack \/ callback_return
    \/ \E b \in lua : ldrop(b)
    \/ \E s \in Svc :
          \/ pixel_timer_dispatch(s) \/ dispatch_gone(s) \/ dispatch_mute(s)
          \/ dispatch_call(s) \/ harbor_start(s) \/ service_gone(s)
          \/ \E payload \in BOOLEAN : pixel_socket_dispatch(s, payload)
          \/ \E kind \in {"cb", "forward"} : lcallback(s, kind)

MessagesSpec == MessagesInit /\ [][MessagesNext]_msgVars

-----------------------------------------------------------------------------
(* The places that will free a block, or hand it on. *)

Held(m, part) == IF part = "data" THEN m.data ELSE m.payload

\* In messages that wait.
InBoxes(b) ==
    {o \in [svc : Svc, at : 1 .. MAX_BOX, part : {"data", "payload"}] :
        o.at <= Len(box[o.svc]) /\ Held(box[o.svc][o.at], o.part) = b}

\* There, in Lua, lost, or in the message of the running callback.
Owners(b) ==
    Cardinality(InBoxes(b))
      + (IF b \in lua THEN 1 ELSE 0) + (IF b \in leaked THEN 1 ELSE 0)
      + (IF Busy /\ ~cur.forward /\ cur.m.data = b THEN 1 ELSE 0)
      + (IF Busy /\ cur.m.payload = b THEN 1 ELSE 0)

\* Whatever happens to a message - copied or handed over, refused for its size
\* or destination, sent to a service that dies before or after, logged, sent
\* to another node, dispatched by any callback - each block of memory has at
\* every moment exactly one place that is going to free it, and nothing is
\* freed twice.  Only the payload of a socket event can be lost, when its
\* service is gone or does not look at it (pixel.c:147, 230, 287, 323).
PayloadOwned ==
    /\ ~wrong
    /\ \A b \in Block : Owners(b) = IF b \in heap THEN 1 ELSE 0
=============================================================================
