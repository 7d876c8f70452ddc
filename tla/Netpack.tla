------------------------------- MODULE Netpack -------------------------------
(***************************************************************************)
(* src/lualib/lnetpack.c as src/lualib/gate.lua drives it: packets with a  *)
(* two-byte length header, reassembled from the chunks in which the        *)
(* sockets deliver them.  Packets that are cut short wait in a hash of     *)
(* chains, one entry per connection; packets that arrive together go       *)
(* through a ring that grows by QUEUESIZE and that the gate drains before  *)
(* it takes the next socket message.  A byte is a digit of base BYTE.      *)
(***************************************************************************)
EXTENDS Integers, Sequences, SequencesExt, FiniteSetsExt

CONSTANTS
    BYTE,               \* 256: the largest header is BYTE^2 - 1
    QUEUESIZE, HASHSIZE,
    Fd,                 \* bound: the connections
    Contents,           \* bound: the packets clients send
    MAX_SENT            \* bound: packets sent on the open connections

ASSUME NetpackAssumption == BYTE > 1 /\ QUEUESIZE > 0 /\ HASHSIZE > 0

VARIABLES
    npQueue,    \* the queue userdata; cap = 0 while Lua holds nil
    npWire,     \* bytes of each connection the socket has not delivered yet
    npSent,     \* ghost: packets sent on the connection
    npGot       \* ghost: packets the gate dispatched for it

netVars == <<npQueue, npWire, npSent, npGot>>

-----------------------------------------------------------------------------
write_size(n)       == <<(n \div BYTE) % BYTE, n % BYTE>>
read_size(bytes)    == bytes[1] * BYTE + bytes[2]

\* lpack and lpack_string: one byte more than a header can say is accepted.
netpack_pack(data)  == IF Len(data) > BYTE * BYTE THEN <<>>
                       ELSE write_size(Len(data)) \o data
\* lpack_padding: the cookie goes behind the content.
lpack_padding(cookie, data) == netpack_pack(data \o cookie)

-----------------------------------------------------------------------------
NoPack == [id |-> -1, buffer |-> <<>>]

\* get_queue: the queue is created by the first use that needs it.
get_queue(q) ==
    IF q.cap > 0 THEN q
    ELSE [cap |-> QUEUESIZE, head |-> 0, tail |-> 0,
          hash |-> [h \in 0 .. HASHSIZE - 1 |-> <<>>],
          queue |-> [i \in 0 .. QUEUESIZE - 1 |-> NoPack]]

hash_fd(fd) == (fd \div 2^24 + fd \div 2^12 + fd) % HASHSIZE

\* find_uncomplete: the connection's entry of its chain, and the queue
\* without it.
Chain(q, fd)    == IF q.cap = 0 THEN <<>> ELSE q.hash[hash_fd(fd)]
Waiting(q, fd)  == \E i \in DOMAIN Chain(q, fd) : Chain(q, fd)[i].id = fd
find_uncomplete(q, fd) ==
    LET i == SelectInSeq(Chain(q, fd), LAMBDA uc : uc.id = fd)
    IN  [uc |-> Chain(q, fd)[i],
         q  |-> [q EXCEPT !.hash[hash_fd(fd)] = RemoveAt(@, i)]]

\* save_uncomplete, and the relinking of a packet that is still short.
save_uncomplete(q, uc) ==
    [get_queue(q) EXCEPT !.hash[hash_fd(uc.id)] = <<uc>> \o @]

\* Mutant of expand_queue: copies from slot 0 instead of from the head.
expand_queue_unrotated(q) ==
    [q EXCEPT !.cap = q.cap + QUEUESIZE, !.head = 0, !.tail = q.cap,
        !.queue = [i \in 0 .. q.cap + QUEUESIZE - 1 |->
                      IF i < q.cap THEN q.queue[i] ELSE NoPack]]

expand_queue(q) ==
    [q EXCEPT !.cap = q.cap + QUEUESIZE, !.head = 0, !.tail = q.cap,
        !.queue = [i \in 0 .. q.cap + QUEUESIZE - 1 |->
                      IF i < q.cap THEN q.queue[(q.head + i) % q.cap] ELSE NoPack]]

push_data(q0, fd, data) ==
    LET q    == get_queue(q0)
        tail == IF q.tail + 1 >= q.cap THEN 0 ELSE q.tail + 1
        r    == [q EXCEPT !.tail = tail,
                          !.queue[q.tail] = [id |-> fd, buffer |-> data]]
    IN  IF q.head = tail THEN expand_queue(r) ELSE r

Drop1(bytes, n) == SubSeq(bytes, n + 1, Len(bytes))

\* A packet of which only the first header byte, or only a part, came.
HalfHeader(fd, bytes)   == [id |-> fd, read |-> -1, header |-> bytes[1],
                            size |-> 0, buffer |-> <<>>]
HalfPacket(fd, bytes)   == [id |-> fd, read |-> Len(bytes) - 2, header |-> 0,
                            size |-> read_size(bytes), buffer |-> Drop1(bytes, 2)]
IsShort(bytes)          == Len(bytes) = 1 \/ Len(bytes) - 2 < read_size(bytes)
Cut(fd, bytes)          == IF Len(bytes) = 1 THEN HalfHeader(fd, bytes)
                           ELSE HalfPacket(fd, bytes)

RECURSIVE push_more(_, _, _)
push_more(q, fd, bytes) ==
    IF IsShort(bytes) THEN save_uncomplete(q, Cut(fd, bytes))
    ELSE LET end  == 2 + read_size(bytes)
             r    == push_data(q, fd, SubSeq(bytes, 3, end))
             rest == Drop1(bytes, end)
         IN  IF rest = <<>> THEN r ELSE push_more(r, fd, rest)

\* The result of filter: the queue, the packet handed over at once (type
\* "data"), "more" when packets were queued, "none" when all is incomplete.
Filtered(q, type, data) == [q |-> q, type |-> type, data |-> data]

\* filter_data_ with a packet of the connection waiting.
FillUncomplete(q0, fd, bytes0) ==
    LET f     == find_uncomplete(q0, fd)
        sized == f.uc.read < 0          \* its second header byte comes first
        uc    == IF sized THEN [f.uc EXCEPT !.size = f.uc.header * BYTE + bytes0[1],
                                            !.read = 0]
                 ELSE f.uc
        bytes == IF sized THEN Tail(bytes0) ELSE bytes0
        need  == uc.size - uc.read
        whole == uc.buffer \o SubSeq(bytes, 1, need)
        rest  == Drop1(bytes, need)
    IN  IF Len(bytes) < need
        THEN Filtered(save_uncomplete(f.q, [uc EXCEPT !.read = @ + Len(bytes),
                                                      !.buffer = @ \o bytes]),
                      "none", <<>>)
        ELSE IF rest = <<>> THEN Filtered(f.q, "data", whole)
        ELSE Filtered(push_more(push_data(f.q, fd, whole), fd, rest), "more", <<>>)

filter_data(q, fd, bytes) ==
    IF Waiting(q, fd) THEN FillUncomplete(q, fd, bytes)
    ELSE IF IsShort(bytes) THEN Filtered(save_uncomplete(q, Cut(fd, bytes)), "none", <<>>)
    ELSE IF Len(bytes) - 2 = read_size(bytes) THEN Filtered(q, "data", Drop1(bytes, 2))
    ELSE Filtered(push_more(q, fd, bytes), "more", <<>>)

-----------------------------------------------------------------------------
NetpackInit ==
    /\ npQueue = [cap |-> 0, head |-> 0, tail |-> 0, hash |-> <<>>, queue |-> <<>>]
    /\ npWire = [fd \in Fd |-> <<>>]
    /\ npSent = [fd \in Fd |-> <<>>] /\ npGot = [fd \in Fd |-> <<>>]

Drained == npQueue.head = npQueue.tail

\* A client packs a packet with a cookie behind it and sends it.
client_send(fd, data, cookie) ==
    /\ MapThenSumSet(LAMBDA f : Len(npSent[f]), Fd) < MAX_SENT
    /\ npSent' = [npSent EXCEPT ![fd] = Append(@, data \o cookie)]
    /\ npWire' = [npWire EXCEPT ![fd] = @ \o lpack_padding(cookie, data)]
    /\ UNCHANGED <<npQueue, npGot>>

\* lfilter, SOCKET_DATA: the socket delivered the next n bytes.
filter_socket_data(fd, n) ==
    LET f == filter_data(npQueue, fd, SubSeq(npWire[fd], 1, n)) IN
    /\ Drained
    /\ npQueue' = f.q
    /\ npWire' = [npWire EXCEPT ![fd] = Drop1(@, n)]
    /\ npGot' = IF f.type = "data" THEN [npGot EXCEPT ![fd] = Append(@, f.data)]
                ELSE npGot
    /\ UNCHANGED npSent

\* lfilter, SOCKET_CLOSE and SOCKET_ERR: close_uncomplete; the id is free for
\* the next connection.
filter_socket_close(fd) ==
    /\ Drained /\ npSent[fd] # <<>>
    /\ npQueue' = IF Waiting(npQueue, fd) THEN find_uncomplete(npQueue, fd).q
                  ELSE npQueue
    /\ npWire' = [npWire EXCEPT ![fd] = <<>>]
    /\ npSent' = [npSent EXCEPT ![fd] = <<>>] /\ npGot' = [npGot EXCEPT ![fd] = <<>>]

\* lpop, as dispatch_queue of the gate calls it until the queue is empty.
\* The slot keeps its packet in the code; nothing reads it again.
lpop ==
    LET np == npQueue.queue[npQueue.head] IN
    /\ ~Drained
    /\ npQueue' = [npQueue EXCEPT !.queue[npQueue.head] = NoPack,
                                     !.head = IF @ + 1 >= npQueue.cap THEN 0 ELSE @ + 1]
    /\ npGot' = [npGot EXCEPT ![np.id] = Append(@, np.buffer)]
    /\ UNCHANGED <<npWire, npSent>>

NetpackNext ==
    \/ \E fd \in Fd, data \in Contents, cookie \in {<<>>, <<1>>} :
          client_send(fd, data, cookie)
    \/ \E fd \in Fd : \E n \in DOMAIN npWire[fd] : filter_socket_data(fd, n)
    \/ \E fd \in Fd : filter_socket_close(fd)
    \/ lpop

-----------------------------------------------------------------------------
\* A packet as long as the header's range wraps its length to zero: pack
\* lets it pass and the stream behind it is misread.
Misframed(fd) == \E i \in DOMAIN npSent[fd] : Len(npSent[fd][i]) = BYTE * BYTE

\* However a stream is cut into chunks, also inside a header, and however
\* the chunks of several connections interleave in one hash chain, the gate
\* gets every connection's packets once, whole and in order; what it has not
\* got yet is on the wire, queued or waiting.  The exception is a stream
\* that holds a packet of BYTE^2 bytes, which pack accepts.
NetpackExact ==
    \A fd \in Fd : Misframed(fd) \/
        /\ IsPrefix(npGot[fd], npSent[fd])
        /\ npWire[fd] = <<>> /\ Drained => npGot[fd] = npSent[fd]
        /\ Len(SelectSeq(Chain(npQueue, fd), LAMBDA uc : uc.id = fd)) <= 1
=============================================================================
