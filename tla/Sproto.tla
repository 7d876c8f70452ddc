------------------------------- MODULE Sproto -------------------------------
(***************************************************************************)
(* The sproto library (src/lualib/sproto): a message is encoded by one     *)
(* version of a schema (SprotoSchema), 0-packed and unpacked (SprotoPack), *)
(* and decoded by another version.  Integers keep their 32 and 64 bits as  *)
(* 4 and 8 digits, with their signs.                                       *)
(***************************************************************************)
EXTENDS SprotoPack, SprotoSchema, TLC

CONSTANTS
    DEEPLEVEL,          \* ENCODE_DEEPLEVEL
    SprotoCases         \* bound: records [from, to, st, msg, valid]: two schemas,
                        \* the type encoded (the same number in both), a message
                        \* and whether it is of that type and not too deep

ASSUME SprotoAssumption == DEEPLEVEL > 0

VARIABLES
    spCase,     \* the case
    spFrom,     \* struct sproto of the encoder
    spTo,       \* struct sproto of the decoder
    spSize,     \* upvalue 2 of encode: the size of its buffer
    spResult    \* what decode returned

spVars == <<spCase, spFrom, spTo, spSize, spResult, packVars>>

-----------------------------------------------------------------------------
\* Lua values are [t, v]; a table is a function from the names of fields
\* ("struct"), a sequence ("array") or a function from keys ("map").
Nil        == [t |-> "nil", v |-> <<>>]
Val(t, v)  == [t |-> t, v |-> v]
Get(tbl, name) == IF name \in DOMAIN tbl THEN tbl[name] ELSE Nil
LuaType == (TINTEGER :> "integer") @@ (TBOOLEAN :> "boolean")
           @@ (TSTRING :> "string") @@ (TSTRUCT :> "struct")

\* lua_tolstring of an integer: its text, in ASCII.
Text(v) ==
    LET m == IF v < 0 THEN -v ELSE v
        n == CHOOSE k \in 1 .. 19 : m < 10^k
    IN  (IF v < 0 THEN <<45>> ELSE <<>>) \o [i \in 1 .. n |-> 48 + ((m \div 10^(n - i)) % 10)]

\* Results: "ok" with the bytes, "nil" for the 0 of a nil value, "short" for
\* -1, which makes lencode try a larger buffer, "error" for a Lua error,
\* "over" for bytes written past the end of the buffer.
Ok(b)   == [r |-> "ok", b |-> b]
Fail(r) == [r |-> r, b |-> <<>>]

Narrow(v)    == v >= -(BASE^4 \div 2) /\ v < BASE^4 \div 2     \* v >> 31 is 0 or -1
SignFill(d)  == [i \in 1 .. 4 |-> IF d[4] >= BASE \div 2 THEN BASE - 1 ELSE 0]
Widened(b)   ==         \* the rearrangement of encode_integer_array
    Concat([i \in 1 .. Len(b) \div 4 |->
            LET d == SubSeq(b, 4 * i - 3, 4 * i) IN d \o SignFill(d)])
Inline(u) == u < BASE^2 \div 2 - 1                              \* u < 0x7fff

\* encode_integer and encode_uint64.
encode_integer(v, room) ==
    LET n == IF Narrow(v) THEN 4 ELSE 8
    IN  IF room < LENGTH + n THEN Fail("short") ELSE Ok(Sized(Digits(v, n)))

\* Mutant: the elements already written are left with 4 bytes.
IntegerElement_narrow(s, e) ==
    IF s.r # "ok" THEN s
    ELSE IF e.t # "integer" THEN [s EXCEPT !.r = "error"]
    ELSE IF s.room < 8 THEN [s EXCEPT !.r = "short"]
    ELSE IF Narrow(e.v) /\ s.len = 4
    THEN [s EXCEPT !.b = @ \o Digits(e.v, 4), !.room = @ - 4]
    ELSE [s EXCEPT !.len = 8, !.b = @ \o Digits(e.v, 8), !.room = @ - 8]

\* One element of encode_integer_array: the array is written with 4 bytes per
\* element until one needs 8, which widens those already written.  The room
\* that is left then is compared as unsigned, so that a negative one passes
\* and the widening goes past the end of the buffer.
IntegerElement(s, e) ==
    IF s.r # "ok" THEN s
    ELSE IF e.t # "integer" THEN [s EXCEPT !.r = "error"]
    ELSE IF s.room < 8 THEN [s EXCEPT !.r = "short"]
    ELSE IF Narrow(e.v)
    THEN LET d == Digits(e.v, 4)
         IN  [s EXCEPT !.b = @ \o d \o (IF s.len = 8 THEN SignFill(d) ELSE <<>>),
                       !.room = @ - s.len]
    ELSE LET room == IF s.len = 4 THEN s.room - Len(s.b) ELSE s.room
             b    == IF s.len = 4 THEN Widened(s.b) ELSE s.b
         IN  IF room < 0 THEN [s EXCEPT !.r = "over"]
             ELSE IF room < 8 THEN [s EXCEPT !.r = "short"]
             ELSE [r |-> "ok", len |-> 8, b |-> b \o Digits(e.v, 8), room |-> room - 8]

encode_integer_array(elems, room) ==
    LET s == FoldLeft(IntegerElement,
                      [r |-> "ok", len |-> 4, b |-> <<>>, room |-> room - 1], elems)
    IN  IF room < 1 THEN Fail("short") ELSE IF s.r # "ok" THEN Fail(s.r)
        ELSE Ok(IF s.b = <<>> THEN <<>> ELSE <<s.len>> \o s.b)

encode_boolean_array(elems, room) ==
    IF \E i \in DOMAIN elems : elems[i].t # "boolean" THEN Fail("error")
    ELSE IF room < Len(elems) THEN Fail("short")
    ELSE Ok([i \in DOMAIN elems |-> IF elems[i].v THEN 1 ELSE 0])

\* lua_next visits a map in some order, an array is read by index.
Elems(val) == IF val.t = "map" THEN SetToSeq(Range(val.v)) ELSE val.v

RECURSIVE sproto_encode(_, _, _, _, _)

\* What lua_isstring takes for a string: an integer, too, by its text.
AsString(val) == IF val.t = "integer" THEN Val("string", Text(val.v)) ELSE val

\* The callback for a string or a struct; an array passes each element on.
encode(T, f, val, room, deep) ==
    LET str == AsString(val).v IN
    IF (IF f.type = TSTRING THEN AsString(val) ELSE val).t # LuaType[f.type] THEN Fail("error")
    ELSE IF f.type = TSTRING THEN IF Len(str) > room THEN Fail("short") ELSE Ok(str)
    ELSE sproto_encode(T, T[f.st + 1], val.v, room, deep + 1)

\* The data e of a field, behind its length.
WithLength(e) == IF e.r # "ok" THEN e ELSE Ok(Sized(e.b))

encode_object(T, f, val, room, deep) ==
    IF room < LENGTH THEN Fail("short")
    ELSE WithLength(encode(T, f, val, room - LENGTH, deep))

\* Each element needs room for the length of the next one, which may not come.
AddObject(s, e) == IF s.r # "ok" THEN s ELSE IF e.r # "ok" THEN e ELSE Ok(s.b \o e.b)
RoomForNext(s, room) ==
    IF s.r = "ok" /\ room - Len(s.b) < LENGTH THEN Fail("short") ELSE s

encode_object_array(T, f, elems, room, deep) ==
    LET Step(s, x) == AddObject(s, encode_object(T, f, x, room - Len(s.b), deep))
    IN  RoomForNext(FoldLeft(Step, Ok(<<>>), elems), room)

encode_array(T, f, val, room, deep) ==
    LET elems == IF val.t = "nil" THEN <<>> ELSE Elems(val)
        left  == room - LENGTH
        Unless(a) == IF a = Ok(<<>>) THEN Fail("nil") ELSE WithLength(a)
    IN  IF room < LENGTH THEN Fail("short")
        ELSE IF val.t \notin {"nil", "array", "map"} THEN Fail("error")
        ELSE Unless(CASE f.type = TINTEGER -> encode_integer_array(elems, left)
                      [] f.type = TBOOLEAN -> encode_boolean_array(elems, left)
                      [] OTHER -> encode_object_array(T, f, elems, left, deep))

\* A field of sproto_encode: its data, and the value of its record.
EncodeField(T, f, val, room, deep) ==
    LET With(e, value) == [r |-> e.r, b |-> e.b, value |-> value]
        number == IF val.t = "boolean" THEN (IF val.v THEN 1 ELSE 0) ELSE val.v
    IN  IF deep >= DEEPLEVEL THEN With(Fail("error"), 0)
        ELSE IF f.array THEN With(encode_array(T, f, val, room, deep), 0)
        ELSE IF f.type \notin {TINTEGER, TBOOLEAN}
        THEN With(IF val.t # "nil" THEN encode_object(T, f, val, room, deep)
                  ELSE Fail(IF room < LENGTH THEN "short" ELSE "nil"), 0)
        ELSE IF val.t = "nil" THEN With(Fail("nil"), 0)
        ELSE IF val.t # LuaType[f.type] THEN With(Fail("error"), 0)
        ELSE IF Narrow(number) /\ Inline(number % BASE^4)
        THEN With(Ok(<<>>), ((number % BASE^4) + 1) * 2)
        ELSE With(encode_integer(number, room), 0)

\* The field is added: a record for the gap before its tag, its own, its data.
AddField(s, f, e) ==
    LET gap  == f.tag - s.last - 1
        skip == (gap - 1) * 2 + 1
    IN  IF s.r # "ok" \/ e.r = "nil" THEN s
        ELSE IF e.r # "ok" THEN [s EXCEPT !.r = e.r]
        ELSE IF gap > 0 /\ skip >= BASE^2 THEN [s EXCEPT !.r = "short"]
        ELSE [r |-> "ok", b |-> s.b \o e.b, last |-> f.tag,
              rec |-> s.rec \o (IF gap > 0 THEN Digits(skip, 2) ELSE <<>>)
                            \o Digits(e.value, 2)]

\* The records go to the header, which has room for maxn of them; more than
\* that would overwrite the data behind it.
Encoded(s, maxn) ==
    LET over == SubSeq(s.rec, 2 * maxn + 1, Len(s.rec))
    IN  IF s.r # "ok" THEN Fail(s.r)
        ELSE Ok(Digits(Len(s.rec) \div 2, 2) \o s.rec \o over
                \o SubSeq(s.b, Len(over) + 1, Len(s.b)))

sproto_encode(T, st, tbl, size, deep) ==
    LET room == size - 2 - 2 * st.maxn
        Step(s, f) == AddField(s, f, EncodeField(T, f, Get(tbl, f.name),
                                                 room - Len(s.b), deep))
        none == [r |-> "ok", b |-> <<>>, last |-> -1, rec |-> <<>>]
    IN  IF room < 0 THEN Fail("short") ELSE Encoded(FoldLeft(Step, none, st.f), st.maxn)

-----------------------------------------------------------------------------
\* Decoding.  A chunk is the data of a field without its length.
Signed(b, n) == LET u == Number(b, 1, n)
                IN  IF u >= BASE^n \div 2 THEN u - BASE^n ELSE u    \* expand64
RECURSIVE sproto_decode(_, _, _, _)

\* The callback for a string or a struct: [r, v, key].
KeyOf(st, tag, tbl) ==
    LET k == SelectSeq(st.f, LAMBDA g : g.tag = tag /\ ~g.array)
    IN  IF k = <<>> THEN Nil ELSE Get(tbl, k[1].name)

DecodedStruct(f, chunk, d, key) ==
    [r |-> IF d.r # "ok" \/ d.used # Len(chunk) \/ (f.key >= 0 /\ key = Nil)
           THEN "error" ELSE "ok",
     v |-> Val("struct", d.v), key |-> key]

decode(T, f, chunk, deep) ==
    LET Decoded(d) == DecodedStruct(f, chunk, d, KeyOf(T[f.st + 1], f.key, d.v))
    IN  IF f.type = TSTRING THEN [r |-> "ok", v |-> Val("string", chunk), key |-> Nil]
        ELSE Decoded(sproto_decode(T, T[f.st + 1], chunk, deep + 1))

RECURSIVE Chunks(_)
Chunks(b) ==
    IF b = <<>> THEN <<>>
    ELSE LET sz == todword(b, 1)
         IN  <<SubSeq(b, LENGTH + 1, LENGTH + sz)>>
             \o Chunks(SubSeq(b, LENGTH + sz + 1, Len(b)))

DecodedArray(f, ds) ==
    LET at == [k \in {ds[i].key.v : i \in DOMAIN ds} |->
               ds[CHOOSE i \in DOMAIN ds : ds[i].key.v = k].v]
    IN  [r |-> IF \A i \in DOMAIN ds : ds[i].r = "ok" THEN "ok" ELSE "error",
         v |-> IF f.key >= 0 THEN Val("map", at)
               ELSE Val("array", [i \in DOMAIN ds |-> ds[i].v])]

decode_array_object(T, f, b, deep) ==
    LET cs == Chunks(b)
    IN  IF Elements(b, 1, Len(b)) < 0 THEN [r |-> "error", v |-> Nil]
        ELSE DecodedArray(f, [i \in DOMAIN cs |-> decode(T, f, cs[i], deep)])

decode_array(T, f, b, deep) ==
    LET len == b[1]
        Nth(i) == Signed(SubSeq(b, 2 + len * (i - 1), 1 + len * i), len)
    IN  CASE f.type = TINTEGER ->
                IF b = <<>> \/ len \notin {4, 8} \/ (Len(b) - 1) % len # 0
                THEN [r |-> "error", v |-> Nil]
                ELSE [r |-> "ok", v |-> Val("array",
                        [i \in 1 .. (Len(b) - 1) \div len |-> Val("integer", Nth(i))])]
          [] f.type = TBOOLEAN ->
                [r |-> "ok", v |-> Val("array",
                    [i \in DOMAIN b |-> Val("boolean", b[i] # 0)])]
          [] OTHER -> decode_array_object(T, f, b, deep)

\* A field whose data is behind the header.
DecodeData(T, f, chunk, deep) ==
    CASE f.array -> decode_array(T, f, chunk, deep)
      [] ~f.array /\ f.type = TINTEGER /\ Len(chunk) \in {4, 8} ->
            [r |-> "ok", v |-> Val("integer", Signed(chunk, Len(chunk)))]
      [] ~f.array /\ f.type \in {TSTRING, TSTRUCT} -> decode(T, f, chunk, deep)
      [] OTHER -> [r |-> "error", v |-> Nil]

\* A field whose value is in its record.
DecodeInline(f, value) ==
    CASE f.type = TINTEGER /\ ~f.array -> [r |-> "ok", v |-> Val("integer", value)]
      [] f.type = TBOOLEAN /\ ~f.array -> [r |-> "ok", v |-> Val("boolean", value # 0)]
      [] OTHER -> [r |-> "error", v |-> Nil]

\* A record of the header with the value v, and the sz bytes of data at s.at.
DecodeRecord(T, st, b, s, v, sz, n, deep) ==
    LET f     == st.f[n]
        chunk == SubSeq(b, s.at + LENGTH, s.at + LENGTH + sz - 1)
        next  == IF v = 0 THEN s.at + LENGTH + sz ELSE s.at
        Add(d) == [r |-> IF deep >= DEEPLEVEL THEN "error" ELSE d.r,
                   tag |-> s.tag + 1, at |-> next, v |-> (f.name :> d.v) @@ s.v]
    IN  IF s.r # "ok" THEN s
        ELSE IF v % 2 = 1 THEN [s EXCEPT !.tag = @ + 1 + v \div 2]
        ELSE IF v = 0 /\ (s.at + LENGTH > Len(b) + 1 \/ next > Len(b) + 1)
        THEN [s EXCEPT !.r = "error"]
        ELSE IF n = 0 THEN [s EXCEPT !.tag = @ + 1, !.at = next]
        ELSE Add(IF v = 0 THEN DecodeData(T, f, chunk, deep)
                 ELSE DecodeInline(f, v \div 2 - 1))

sproto_decode(T, st, b, deep) ==
    LET fn == IF Len(b) < 2 THEN 0 ELSE toword(b, 1)
        Step(s, i) == DecodeRecord(T, st, b, s, toword(b, 1 + 2 * i), todword(b, s.at),
                                   findtag(st, s.tag + 1), deep)
        Decoded(s) == [r |-> s.r, v |-> s.v, used |-> s.at - 1]
    IN  IF Len(b) < 2 + 2 * fn THEN [r |-> "error", v |-> <<>>, used |-> 0]
        ELSE Decoded(FoldLeft(Step, [r |-> "ok", tag |-> -1, at |-> 3 + 2 * fn, v |-> <<>>],
                         UpTo(fn)))

-----------------------------------------------------------------------------
\* newproto in both services.
lnewproto ==
    /\ pkPhase = "schema"
    /\ spFrom' = create_from_bundle(packgroup(spCase.from))
    /\ spTo' = create_from_bundle(packgroup(spCase.to))
    /\ pkPhase' = IF BAD \in {spFrom', spTo'} THEN "error" ELSE "created"
    /\ UNCHANGED <<spCase, spSize, spResult, pkIn, pkOut, unOut, unOsz>>

\* One turn of the loop of lencode, with the result e.  What follows once it
\* has written past its buffer is undefined: the model stops there.
EncodeTurn(e) ==
    \/ /\ e.r = "ok"
       /\ pkIn' = e.b /\ pkPhase' = "in"
       /\ UNCHANGED spSize
    \/ /\ e.r = "short" /\ 2 * spSize <= MAXSIZE
       /\ spSize' = expand_buffer(spSize, 2 * spSize)
       /\ UNCHANGED <<pkIn, pkPhase>>
    \/ /\ e.r = "error" \/ (e.r = "short" /\ 2 * spSize > MAXSIZE)
       /\ pkPhase' = "error"
       /\ UNCHANGED <<pkIn, spSize>>
    \/ /\ e.r = "over"
       /\ pkPhase' = "overrun"
       /\ UNCHANGED <<pkIn, spSize>>

lencode ==
    /\ pkPhase = "created"
    /\ EncodeTurn(sproto_encode(spFrom.type, spFrom.type[spCase.st], spCase.msg, spSize, 0))
    /\ UNCHANGED <<spCase, spFrom, spTo, spResult, pkOut, unOut, unOsz>>

ldecode ==
    /\ pkPhase = "unpacked" /\ spCase # <<>>
    /\ spResult' = sproto_decode(spTo.type, spTo.type[spCase.st], unOut, 0)
    /\ pkPhase' = IF spResult'.r = "ok" THEN "decoded" ELSE "error"
    /\ UNCHANGED <<spCase, spFrom, spTo, spSize, pkIn, pkOut, unOut, unOsz>>

\* A message of a schema, or a string given to pack itself.
SprotoInit ==
    /\ spFrom = BAD /\ spTo = BAD /\ spResult = BAD
    /\ spSize = BUFFERSIZE
    /\ \/ PackInit /\ spCase = <<>>
       \/ /\ spCase \in SprotoCases
          /\ pkPhase = "schema" /\ unOsz = BUFFERSIZE
          /\ pkIn = <<>> /\ pkOut = <<>> /\ unOut = <<>>

SprotoNext ==
    \/ lnewproto \/ lencode \/ ldecode
    \/ PackNext /\ UNCHANGED <<spCase, spFrom, spTo, spSize, spResult>>

-----------------------------------------------------------------------------
\* What a message means to a reader of the other version: the fields both
\* versions have, without the empty arrays, which are not sent.
RECURSIVE ReadAs(_, _, _, _)
ReadFieldAs(S, U, f, g, val) ==
    LET Sub(x) == CASE f.type = TSTRUCT -> Val("struct", ReadAs(S, U, <<f.st, g.st>>, x.v))
                    [] f.type = TSTRING -> AsString(x)
                    [] OTHER            -> x
    IN  IF g.array THEN Val(val.t, [i \in DOMAIN val.v |-> Sub(val.v[i])]) ELSE Sub(val)

ReadAs(S, U, st, tbl) ==
    LET shared == {p \in Range(S[st[1] + 1].fields) \X Range(U[st[2] + 1].fields) :
                    /\ p[1].tag = p[2].tag
                    /\ p[1].name \in DOMAIN tbl
                    /\ p[1].array => tbl[p[1].name].v # <<>>}
        Of(n)  == CHOOSE p \in shared : p[2].name = n
    IN  [n \in {p[2].name : p \in shared} |->
            ReadFieldAs(S, U, Of(n)[1], Of(n)[2], tbl[Of(n)[1].name])]

\* An array whose first integer of 8 bytes comes after three or more of 4.
LateWide(val) ==
    /\ val.t = "array"
    /\ \E j \in DOMAIN val.v :
          /\ j > 3 /\ val.v[j].t = "integer" /\ ~Narrow(val.v[j].v)
          /\ \A i \in 1 .. j - 1 : Narrow(val.v[i].v)

\* Both schemas come out of the bundle as the parser was given them, and a
\* message that was encoded, packed, unpacked and decoded by another version
\* of its type has the fields both versions know, with their values (a number
\* in a string's place by its text): across gaps of tags, unknown and absent
\* fields, integers of both widths in an array, nested structs, maps and
\* buffers that were too small.  The zeros of the packing (PackExact) are not
\* taken for data, and only a message that is not of its type is refused.
\* The exception is a buffer that is too small for an array whose first
\* integer of 8 bytes comes after three or more of 4: it may be overrun.
SprotoExact ==
    /\ PackExact
    /\ pkPhase # "schema" /\ spCase # <<>> =>
        \A p \in {<<spCase.from, spFrom>>, <<spCase.to, spTo>>} :
            /\ p[2] # BAD
            /\ p[2].proto = p[1].proto
            /\ [i \in DOMAIN p[2].type |-> p[2].type[i].f]
                 = [i \in DOMAIN p[1].type |-> p[1].type[i].fields]
    /\ pkPhase = "decoded" =>
        /\ spResult.used = Len(pkIn)
        /\ spResult.v = ReadAs(spCase.from.type, spCase.to.type,
                                <<spCase.st - 1, spCase.st - 1>>, spCase.msg)
    /\ pkPhase = "error" /\ pkIn = <<>> => ~spCase.valid
    /\ pkPhase = "overrun" => \E n \in DOMAIN spCase.msg : LateWide(spCase.msg[n])
    /\ spResult # BAD => spResult.r = "ok"
=============================================================================
