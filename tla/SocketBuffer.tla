---------------------------- MODULE SocketBuffer ----------------------------
(***************************************************************************)
(* The receive buffer of a Lua socket (src/lualib/lsocket.c): the blocks   *)
(* the socket thread delivered, chained in nodes of a shared pool, from    *)
(* which a coroutine takes n bytes, a line or everything.                  *)
(***************************************************************************)
EXTENDS Integers, Sequences, SequencesExt

CONSTANTS
    Blocks,     \* bound: the blocks that arrive
    Seps,       \* bound: the separators of readline
    MAX_BYTES   \* bound: bytes buffered together

ASSUME SocketBufferAssumption == MAX_BYTES \in Nat /\ \A s \in Seps : Len(s) > 0

POOL == 2       \* nodes of one allocation of lpushbuffer

VARIABLES
    sbNodes, sbOffset, sbSize,  \* struct buffer: the chain, offset and size
    sbFree, sbPools,            \* nodes on the freelist, pools allocated
    sbFreed,                    \* ghost: lfreebuffer dropped a block
    sbRest,                     \* ghost: the bytes that arrived and are unread
    sbGot, sbWant               \* ghost: last result, and what it should be

sbVars == <<sbNodes, sbOffset, sbSize, sbFree, sbPools, sbFreed, sbRest, sbGot, sbWant>>

Nothing == <<"nil">>            \* no result; bytes are numbers
Chars(bytes) == <<"string", bytes>>

-----------------------------------------------------------------------------
\* The chain and what has been copied out of it, while a read walks it.
Walk == [nodes |-> sbNodes, offset |-> sbOffset, free |-> sbFree, out |-> <<>>]

\* _freebuffer: the first node goes back to the freelist, its block is freed.
_freebuffer(w) == [w EXCEPT !.nodes = Tail(@), !.offset = 0, !.free = @ + 1]

\* Up to n bytes of the first block.
Piece(w, n) == LET block == Head(w.nodes)
                   left  == Len(block) - w.offset
               IN  SubSeq(block, w.offset + 1, w.offset + (IF n < left THEN n ELSE left))

RECURSIVE lpop_string(_, _, _)
RECURSIVE lpop_string_greedy(_, _, _)
\* Mutant of lpop_string: copies a whole block although the separator that
\* is skipped began in it.
lpop_string_greedy(w, size, skip) ==
    LET left == Len(Head(w.nodes)) - w.offset
        c    == [w EXCEPT !.out = @ \o (IF size <= left THEN Piece(w, size - skip)
                                        ELSE Piece(w, size))]
    IN  IF size < left THEN [c EXCEPT !.offset = @ + size]
        ELSE IF size = left THEN _freebuffer(c)
        ELSE lpop_string_greedy(_freebuffer(c), size - left, skip)

\* size bytes are taken, the last skip of which (the separator) not returned.
lpop_string(w, size, skip) ==
    LET left == Len(Head(w.nodes)) - w.offset
        c    == [w EXCEPT !.out = @ \o Piece(w, size - skip)]
    IN  IF size < left THEN [c EXCEPT !.offset = @ + size]
        ELSE IF size = left THEN _freebuffer(c)
        ELSE lpop_string(_freebuffer(c), size - left, skip)

\* check_sep from byte `from' of the first of the nodes, over as many nodes
\* as it takes; running off the chain is a null pointer.
RECURSIVE check_sep(_, _, _)
check_sep(nodes, from, sep) ==
    IF nodes = <<>> THEN "crash"
    ELSE LET part == SubSeq(Head(nodes), from + 1, Len(Head(nodes)))
             n    == Len(part)
         IN  IF n >= Len(sep)
             THEN IF SubSeq(part, 1, Len(sep)) = sep THEN "match" ELSE "no"
             ELSE IF part # SubSeq(sep, 1, n) THEN "no"
             ELSE check_sep(Tail(nodes), 0, SubSeq(sep, n + 1, Len(sep)))

\* The scan of lreadline: the number of bytes before the first separator,
\* -1 when there is none, -2 for a crash.
RECURSIVE Scan(_, _, _, _)
Scan(nodes, from, i, sep) ==
    IF i > sbSize - Len(sep) \/ nodes = <<>> THEN -1
    ELSE LET found == check_sep(nodes, from, sep)
         IN  CASE found = "match" -> i
               [] found = "crash" -> -2
               [] OTHER -> IF from + 1 = Len(Head(nodes))
                           THEN Scan(Tail(nodes), 0, i + 1, sep)
                           ELSE Scan(nodes, from + 1, i + 1, sep)

-----------------------------------------------------------------------------
\* The reference: the first position of sep in the unread bytes, or -1.
FirstSep(bytes, sep) ==
    LET at(i) == SubSeq(bytes, i + 1, i + Len(sep)) = sep
        found == {i \in 0 .. Len(bytes) - Len(sep) : at(i)}
    IN  IF found = {} THEN -1 ELSE CHOOSE i \in found : \A j \in found : i <= j

Take(w, got) ==
    /\ sbNodes' = w.nodes /\ sbOffset' = w.offset /\ sbFree' = w.free
    /\ sbGot' = got

SocketBufferInit ==
    /\ sbNodes = <<>> /\ sbOffset = 0 /\ sbSize = 0
    /\ sbFree = 0 /\ sbPools = 0 /\ sbFreed = FALSE
    /\ sbRest = <<>> /\ sbGot = Nothing /\ sbWant = Nothing

\* A new pool replaces bp->pool: lfreebufferpool frees only the last one.
lpushbuffer(block) ==
    /\ Len(sbRest) + Len(block) <= MAX_BYTES /\ sbGot # <<"crash">>
    /\ sbPools' = IF sbFree = 0 THEN sbPools + 1 ELSE sbPools
    /\ sbFree' = (IF sbFree = 0 THEN POOL ELSE sbFree) - 1
    /\ sbNodes' = Append(sbNodes, block)
    /\ sbSize' = sbSize + Len(block)
    /\ sbRest' = sbRest \o block
    /\ sbGot' = Nothing /\ sbWant' = Nothing
    /\ UNCHANGED <<sbOffset, sbFreed>>

lpopbuffer(n) ==
    LET w    == lpop_string(Walk, n, 0)
        ok   == sbSize >= n /\ n > 0
        lost == ok /\ Len(sbRest) < n       \* only after lfreebuffer
    IN
    /\ sbGot # <<"crash">>
    /\ IF lost THEN Take(Walk, <<"crash">>)
       ELSE IF ok THEN Take(w, Chars(w.out)) ELSE Take(Walk, Nothing)
    /\ sbSize' = IF ok /\ ~lost THEN sbSize - n ELSE sbSize
    /\ sbRest' = IF ok THEN SubSeq(sbRest, n + 1, Len(sbRest)) ELSE sbRest
    /\ sbWant' = IF n \in 1 .. Len(sbRest) THEN Chars(SubSeq(sbRest, 1, n)) ELSE Nothing
    /\ UNCHANGED <<sbPools, sbFreed>>

\* lreadline; with check it only says whether there is a line.
lreadline(sep, check) ==
    LET i     == Scan(sbNodes, sbOffset, 0, sep)
        w     == lpop_string(Walk, i + Len(sep), Len(sep))
        first == FirstSep(sbRest, sep)
    IN
    /\ sbGot # <<"crash">>
    /\ IF i >= 0 /\ ~check THEN Take(w, Chars(w.out))
       ELSE Take(Walk, IF i = -2 THEN <<"crash">>
                       ELSE IF i = -1 THEN Nothing ELSE Chars(<<>>))
    /\ sbSize' = IF i >= 0 /\ ~check THEN sbSize - i - Len(sep) ELSE sbSize
    /\ sbRest' = IF first >= 0 /\ ~check
                 THEN SubSeq(sbRest, first + Len(sep) + 1, Len(sbRest)) ELSE sbRest
    /\ sbWant' = IF first = -1 THEN Nothing
                 ELSE Chars(IF check THEN <<>> ELSE SubSeq(sbRest, 1, first))
    /\ UNCHANGED <<sbPools, sbFreed>>

lreadall ==
    /\ sbGot # <<"crash">>
    /\ sbNodes' = <<>> /\ sbOffset' = 0 /\ sbSize' = 0
    /\ sbFree' = sbFree + Len(sbNodes)
    /\ sbGot' = Chars(SubSeq(FlattenSeq(sbNodes), sbOffset + 1, Len(FlattenSeq(sbNodes))))
    /\ sbWant' = Chars(sbRest) /\ sbRest' = <<>>
    /\ UNCHANGED <<sbPools, sbFreed>>

\* lfreebuffer (socket.shutdown, socket.abandon, an overflow): only the first
\* block is freed, and the size still counts it.
lfreebuffer ==
    /\ sbNodes # <<>> /\ sbGot # <<"crash">>
    /\ Take(_freebuffer(Walk), Nothing)
    /\ sbWant' = Nothing /\ sbFreed' = TRUE
    /\ sbRest' = SubSeq(sbRest, Len(Head(sbNodes)) - sbOffset + 1, Len(sbRest))
    /\ UNCHANGED <<sbSize, sbPools>>

SocketBufferNext ==
    \/ \E block \in Blocks : lpushbuffer(block)
    \/ \E n \in 0 .. MAX_BYTES : lpopbuffer(n)
    \/ \E sep \in Seps, check \in BOOLEAN : lreadline(sep, check)
    \/ lreadall
    \/ lfreebuffer /\ ~sbFreed

-----------------------------------------------------------------------------
\* Unless lfreebuffer dropped a block, every read returns exactly the bytes
\* that arrived, a line ends at the first separator even when the separator
\* straddles blocks, no byte is lost or repeated and the size is the number
\* of unread bytes; nodes are conserved by the pool in any case, and only a
\* read after lfreebuffer can run off the chain.
SocketBufferExact ==
    /\ sbFreed \/ ( /\ sbGot = sbWant
                    /\ sbSize = Len(sbRest)
                    /\ SubSeq(FlattenSeq(sbNodes), sbOffset + 1, Len(FlattenSeq(sbNodes)))
                          = sbRest )
    /\ sbFree + Len(sbNodes) = POOL * sbPools
=============================================================================
