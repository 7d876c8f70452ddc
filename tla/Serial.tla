------------------------------- MODULE Serial -------------------------------
(***************************************************************************)
(* pixel.pack and pixel.unpack (src/src/lserial.c): Lua values written    *)
(* into a chain of buffer nodes, flattened into one block and read back    *)
(* in another service.  A byte is a cell: the field it belongs to, the     *)
(* field's value and its place in the field, so that a field that          *)
(* straddles two nodes or is read at the wrong offset shows.               *)
(***************************************************************************)
EXTENDS Integers, Sequences, SequencesExt, FiniteSetsExt

CONSTANTS
    DATA_SIZE,          \* cells of one buffer node
    SERIAL_DEPTH,       \* MAX_DEPTH
    SerialArgs          \* bound: the argument lists that are packed

ASSUME SerialAssumption == DATA_SIZE > 0 /\ SERIAL_DEPTH > 0

VARIABLES
    serPhase,   \* "idle", then "packed" or "error", then "unpacked"
    serArgs,    \* the arguments of pack
    serBuf,     \* struct buffer of pack
    serBlock,   \* the block lpack_ret hands over
    serOut      \* the results of unpack

serVars == <<serPhase, serArgs, serBuf, serBlock, serOut>>

-----------------------------------------------------------------------------
\* Lua values: a scalar [type, v]; a table [type, t, len, pairs] with its set
\* of entries t, its length lua_rawlen, and what its __pairs metamethod does.
TYPE_NIL == 0
TYPE_BOOL == 1
TYPE_INTEGER == 2
TYPE_NUMBER == 3
TYPE_STRING == 4
TYPE_USERDATA == 5
TYPE_TABLE == 6
UNSUPPORTED == 7        \* a function, a thread: no TYPE_ constant

Scalar(type, v)     == [type |-> type, v |-> v]
Table(t, len, prs)  == [type |-> TYPE_TABLE, t |-> t, len |-> len, pairs |-> prs]
LuaNil              == Scalar(TYPE_NIL, <<>>)
LuaInt(i)           == Scalar(TYPE_INTEGER, <<i>>)
Lookup(t, k)        == IF \E e \in t : e[1] = k
                       THEN (CHOOSE e \in t : e[1] = k)[2] ELSE LuaNil

\* sizeof of the field that follows the type byte.
Size(type) == CASE type = TYPE_NIL -> 0 [] type = TYPE_BOOL -> 1
                [] type = TYPE_STRING -> 2 [] OTHER -> 3
Field(f, v, n) == [i \in 1 .. n |-> [f |-> f, v |-> v, part |-> i]]
TypeByte(type) == Field("type", type, 1)

-----------------------------------------------------------------------------
buffer_init == [nodes |-> << <<>> >>, size |-> 0, err |-> "none"]

\* buffer_unit frees every node but the first, which is on lpack's stack.
buffer_unit(b, err) == [nodes |-> <<>>, size |-> 0, err |-> err]

RECURSIVE buffer_push(_, _)
buffer_push(b, data) ==
    LET full == Len(Last(b.nodes)) = DATA_SIZE
        c    == IF full THEN [b EXCEPT !.nodes = Append(@, <<>>)] ELSE b
        room == DATA_SIZE - Len(Last(c.nodes))
        n    == IF Len(data) <= room THEN Len(data) ELSE room
        d    == [c EXCEPT !.nodes[Len(c.nodes)] = @ \o SubSeq(data, 1, n),
                          !.size = @ + n]
    IN  IF n = Len(data) THEN d
        ELSE buffer_push(d, SubSeq(data, n + 1, Len(data)))

buffer_push_nil(b) == buffer_push(b, TypeByte(TYPE_NIL))

\* buffer_push_integer, _number, _boolean and _pointer.
buffer_push_scalar(b, x) ==
    buffer_push(buffer_push(b, TypeByte(x.type)),
                Field("value", x.v[1], Size(x.type)))

buffer_push_string(b, x) ==
    LET sized == buffer_push(buffer_push(b, TypeByte(TYPE_STRING)),
                             Field("length", Len(x.v), Size(TYPE_STRING)))
    IN  buffer_push(sized, [i \in 1 .. Len(x.v) |-> Field("char", x.v[i], 1)[1]])

buffer_push_header(b, len) ==
    buffer_push(buffer_push(b, TypeByte(TYPE_TABLE)), Field("value", len, Size(TYPE_TABLE)))

RECURSIVE lpack_one(_, _, _)

buffer_push_array(b, x, depth) ==
    FoldLeft(LAMBDA c, i : lpack_one(c, Lookup(x.t, LuaInt(i)), depth),
             buffer_push_header(b, x.len), [i \in 1 .. x.len |-> i])

PushEntries(b, entries, depth) ==
    LET all == FoldLeft(LAMBDA c, e : lpack_one(lpack_one(c, e[1], depth), e[2], depth),
                        b, SetToSeq(entries))
    IN  IF all.err = "none" THEN buffer_push_nil(all) ELSE all

\* Mutant of buffer_push_hash: skips every positive integer key.
buffer_push_hash_positive(b, x, depth) ==
    PushEntries(b, {e \in x.t : ~(e[1].type = TYPE_INTEGER /\ e[1].v[1] > 0)}, depth)

\* The entries the array part did not hold, in lua_next's order.
buffer_push_hash(b, x, depth) ==
    PushEntries(b, {e \in x.t : ~(e[1].type = TYPE_INTEGER /\ e[1].v[1] \in 1 .. x.len)},
                depth)

\* The metamethod may raise an error: it unwinds lpack, the nodes stay.
buffer_push_metapairs(b, x, depth) ==
    LET c == buffer_push_header(b, 0)
    IN  IF x.pairs = "raises" THEN [c EXCEPT !.err = "raised"]
        ELSE PushEntries(c, x.t, depth)

buffer_push_table(b, x, depth) ==
    IF x.pairs # "none" THEN buffer_push_metapairs(b, x, depth)
    ELSE LET c == buffer_push_array(b, x, depth)
         IN  IF c.err = "none" THEN buffer_push_hash(c, x, depth) ELSE c

lpack_one(b, x, depth) ==
    CASE b.err # "none"         -> b
      [] depth > SERIAL_DEPTH   -> buffer_unit(b, "depth")
      [] x.type = TYPE_NIL           -> buffer_push_nil(b)
      [] x.type = TYPE_STRING        -> buffer_push_string(b, x)
      [] x.type = TYPE_TABLE         -> buffer_push_table(b, x, depth + 1)
      [] x.type = UNSUPPORTED   -> buffer_unit(b, "type")
      [] OTHER                  -> buffer_push_scalar(b, x)

RECURSIVE lpack_ret(_, _)
lpack_ret(nodes, len) ==
    IF len = 0 THEN <<>>
    ELSE IF len >= DATA_SIZE
    THEN SubSeq(Head(nodes), 1, DATA_SIZE) \o lpack_ret(Tail(nodes), len - DATA_SIZE)
    ELSE SubSeq(Head(nodes), 1, len)

-----------------------------------------------------------------------------
\* The reader's state: the cells left (b->data + b->offset and b->size) and
\* the values pushed.
buffer_pop(b, n) == [b EXCEPT !.data = SubSeq(@, n + 1, Len(@))]
Read(b, n)       == IF SubSeq(b.data, 1, n) = Field(b.data[1].f, b.data[1].v, n)
                    THEN b.data[1].v ELSE -1        \* a torn field
Pushed(b, x)     == [b EXCEPT !.out = Append(@, x)]

buffer_pop_scalar(b, type) ==
    Pushed(buffer_pop(b, Size(type)), Scalar(type, <<Read(b, Size(type))>>))

buffer_pop_string(b) ==
    LET size == Read(b, Size(TYPE_STRING))
        c    == buffer_pop(b, Size(TYPE_STRING))
    IN  Pushed(buffer_pop(c, size), Scalar(TYPE_STRING, [i \in 1 .. size |-> c.data[i].v]))

\* lua_rawset and lua_rawseti: a nil value leaves no entry.
SetEntry(t, k, x) ==
    {e \in t : e[1] # k} \union (IF x = LuaNil THEN {} ELSE {<<k, x>>})

RECURSIVE lunpack_value(_, _)
lunpack_one(b) ==
    IF b.data = <<>> THEN b ELSE lunpack_value(buffer_pop(b, 1), Read(b, 1))
Fresh(b) == [b EXCEPT !.out = <<>>]

RECURSIVE PopArray(_, _, _, _)
PopArray(b, t, i, n) ==
    IF i > n THEN <<b, t>>
    ELSE LET c == lunpack_one(Fresh(b))
         IN  PopArray(c, SetEntry(t, LuaInt(i), c.out[1]), i + 1, n)

RECURSIVE PopHash(_, _)
PopHash(b, t) ==
    LET k == lunpack_one(Fresh(b))
        x == lunpack_one(Fresh(k))
    IN  IF k.out[1] = LuaNil THEN <<k, t>>
        ELSE PopHash(x, SetEntry(t, k.out[1], x.out[1]))

buffer_pop_table(b) ==
    LET n     == Read(b, Size(TYPE_TABLE))
        arr   == PopArray(buffer_pop(b, Size(TYPE_TABLE)), {}, 1, n)
        both  == PopHash(arr[1], arr[2])
    IN  [data |-> both[1].data, out |-> Append(b.out, Table(both[2], 0, "none"))]

lunpack_value(b, type) ==
    CASE type = TYPE_NIL     -> Pushed(b, LuaNil)
      [] type = TYPE_STRING  -> buffer_pop_string(b)
      [] type = TYPE_TABLE   -> buffer_pop_table(b)
      [] type \in {TYPE_BOOL, TYPE_INTEGER, TYPE_NUMBER, TYPE_USERDATA} -> buffer_pop_scalar(b, type)
      [] OTHER          -> b

RECURSIVE UnpackAll(_)
UnpackAll(b) == IF b.data = <<>> THEN b.out ELSE UnpackAll(lunpack_one(b))

-----------------------------------------------------------------------------
SerialInit ==
    /\ serPhase = "idle" /\ serArgs = <<>> /\ serBlock = <<>> /\ serOut = <<>>
    /\ serBuf = buffer_init

serial_lpack(args) ==
    LET b == FoldLeft(LAMBDA c, x : lpack_one(c, x, 0), buffer_init, args) IN
    /\ serArgs' = args
    /\ serPhase' = IF b.err = "none" THEN "packed" ELSE "error"
    /\ serBlock' = IF b.err = "none" THEN lpack_ret(b.nodes, b.size) ELSE <<>>
    /\ serBuf' = IF b.err = "none" THEN buffer_unit(b, "none") ELSE b
    /\ serOut' = <<>>

serial_lunpack ==
    /\ serPhase = "packed" /\ serPhase' = "unpacked"
    /\ serOut' = UnpackAll([data |-> serBlock, out |-> <<>>])
    /\ UNCHANGED <<serArgs, serBuf, serBlock>>

SerialNext ==
    \/ serPhase = "idle" /\ \E args \in SerialArgs : serial_lpack(args)
    \/ serial_lunpack

-----------------------------------------------------------------------------
\* What a value means to Lua, without its representation.
RECURSIVE Meaning(_)
Meaning(x) == IF x.type = TYPE_TABLE
              THEN [type |-> TYPE_TABLE, t |-> {<<Meaning(e[1]), Meaning(e[2])>> : e \in x.t}]
              ELSE x

\* x, at depth d, holds something that pack refuses.
RECURSIVE Refused(_, _)
Refused(x, d) ==
    \/ d > SERIAL_DEPTH \/ x.type = UNSUPPORTED
    \/ x.type = TYPE_TABLE /\ ( \/ x.pairs = "raises"
                           \/ \E e \in x.t : Refused(e[1], d + 1) \/ Refused(e[2], d + 1) )

\* Unpack gives back exactly the values that were packed, nested tables,
\* arrays with holes and __pairs proxies included and wherever a field falls
\* on a node's boundary; pack refuses exactly the values that are nested
\* deeper than MAX_DEPTH tables, hold a type it cannot write or whose __pairs
\* raises, and leaves no node behind unless an error of __pairs unwound it.
SerialExact ==
    /\ serPhase = "unpacked" =>
         [i \in DOMAIN serOut |-> Meaning(serOut[i])]
            = [i \in DOMAIN serArgs |-> Meaning(serArgs[i])]
    /\ serPhase = "error" <=>
         serPhase # "idle" /\ \E i \in DOMAIN serArgs : Refused(serArgs[i], 0)
    /\ serPhase = "error" /\ serBuf.err # "raised" => Len(serBuf.nodes) <= 1
=============================================================================
