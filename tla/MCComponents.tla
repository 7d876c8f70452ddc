---------------------------- MODULE MCComponents ----------------------------
(***************************************************************************)
(* The sequential parts, on small inputs: the handle table, the memory of  *)
(* messages and the libraries a Lua service loads (serialisation, packets  *)
(* of the gate, buffer of a Lua socket, shared objects, multicast,         *)
(* sproto).  They share no state, so one is picked at the start and the    *)
(* others stay where they are.                                             *)
(***************************************************************************)
EXTENDS HandleTable, Messages, Serial, Netpack, SocketBuffer, ShareTable, Stm,
        Multicast, ShareData, Sproto

VARIABLE part       \* the component that is explored

Parts == {"handles", "messages", "serial", "netpack", "socketbuffer",
          "sharetable", "stm", "multicast", "sharedata", "sproto"}

Init ==
    /\ part \in Parts
    /\ HandleInit /\ MessagesInit /\ SerialInit /\ NetpackInit /\ SocketBufferInit
    /\ ShareTableInit /\ StmInit /\ MulticastInit /\ ShareDataInit /\ SprotoInit
    /\ part # "sproto" => spCase = <<>> /\ pkIn = <<>>

\* The variables of all components but one stay the same.
Others(l) ==
    /\ part = l /\ UNCHANGED part
    /\ l # "handles"      => UNCHANGED handleVars
    /\ l # "messages"     => UNCHANGED msgVars
    /\ l # "serial"       => UNCHANGED serVars
    /\ l # "netpack"      => UNCHANGED netVars
    /\ l # "socketbuffer" => UNCHANGED sbVars
    /\ l # "sharetable"   => UNCHANGED shareVars
    /\ l # "stm"          => UNCHANGED stmVars
    /\ l # "multicast"    => UNCHANGED mcVars
    /\ l # "sharedata"    => UNCHANGED sdVars
    /\ l # "sproto"       => UNCHANGED spVars

Next ==
    \/ Others("handles")      /\ HandleNext
    \/ Others("messages")     /\ MessagesNext
    \/ Others("serial")       /\ SerialNext
    \/ Others("netpack")      /\ NetpackNext
    \/ Others("socketbuffer") /\ SocketBufferNext
    \/ Others("sharetable")   /\ ShareTableNext
    \/ Others("stm")          /\ StmNext
    \/ Others("multicast")    /\ MulticastNext
    \/ Others("sharedata")    /\ ShareDataNext
    \/ Others("sproto")       /\ SprotoNext

Spec == Init /\ [][Next]_<<part, handleVars, msgVars, serVars, netVars, sbVars,
                          shareVars, stmVars, mcVars, sdVars, spVars>>

-----------------------------------------------------------------------------
(* Values for pixel.pack: every scalar, flat tables over five keys with    *)
(* every border the length operator may choose, tables in tables, proxies  *)
(* with __pairs, values that cannot be packed.                             *)
LStr(s) == Scalar(TYPE_STRING, s)
LScalars == {LuaNil, LuaInt(1), Scalar(TYPE_BOOL, <<0>>), LStr(<<>>), LStr(<<7, 8, 9>>),
             Scalar(TYPE_NUMBER, <<5>>), Scalar(TYPE_USERDATA, <<6>>)}
LKeys == {LuaInt(1), LuaInt(2), LuaInt(3), LStr(<<7>>), Scalar(TYPE_BOOL, <<1>>)}

Borders(K) == {n \in 0 .. 3 : (n = 0 \/ LuaInt(n) \in K) /\ LuaInt(n + 1) \notin K}
TablesOf(vals) ==
    UNION {{Table({<<k, f[k]>> : k \in K}, n, "none") : f \in [K -> vals], n \in Borders(K)} :
              K \in {Q \in SUBSET LKeys : Cardinality(Q) <= 2}}

LInner == {Table({}, 0, "none"),
           Table({<<LuaInt(1), LuaInt(9)>>, <<LStr(<<7>>), LuaInt(2)>>}, 1, "none"),
           Table({<<LuaInt(1), Scalar(UNSUPPORTED, <<>>)>>}, 1, "none"),
           Table({<<LStr(<<7>>), LuaInt(2)>>}, 0, "yes"),
           Table({<<LStr(<<7>>), LuaInt(2)>>}, 0, "raises")}
LNested == TablesOf(LInner)
LDeep == {Table({<<LuaInt(1), x>>, <<y, LuaInt(2)>>}, 1, p) :
             x \in LInner, y \in LNested, p \in {"none", "yes"}}

MCSerialArgs ==
    {<<>>} \cup {<<x, y>> : x \in LScalars, y \in LScalars \cup LInner}
      \cup {<<x>> : x \in TablesOf({LuaInt(1), LStr(<<7>>)}) \cup LNested \cup LDeep \cup LScalars}

\* Packets, blocks and separators; the first byte of a packet looks like a header.
MCContents == {<<>>, <<0, 1, 1>>}
MCBlocks == {<<1>>, <<2>>, <<1, 2, 1>>}
MCSeps == {<<2>>, <<1, 2>>, <<1, 2, 1>>}

-----------------------------------------------------------------------------
(* Tables for sharedata: up to four keys in every order, two strings with  *)
(* the same hash, a table inside, a key and a value that cannot be shared. *)
MCStrHash == [s \in 1 .. 3 |-> IF s = 3 THEN 2 ELSE 5]
SKeys == {IntKey(1), IntKey(2), IntKey(3), IntKey(-1), IntKey(5),
          StrKey(1), StrKey(2), StrKey(3)}
SOrders == UNION {{q \in [1 .. m -> SKeys] : IsInjective(q)} : m \in 0 .. 4}
SBorders(q) == {n \in 0 .. 3 : (n = 0 \/ IntKey(n) \in ToSet(q)) /\ IntKey(n + 1) \notin ToSet(q)}
Conf(q, x, l) ==
    [entries |-> [i \in DOMAIN q |-> <<q[i], IF i = 2 THEN x ELSE Leaf(i)>>], len |-> l]
SInner == Conf(<<StrKey(1), StrKey(2)>>, Leaf(8), 0)

MCConfs ==
    UNION {{Conf(q, x, l) : l \in SBorders(q), x \in {Leaf(9), Sub(SInner)}} : q \in SOrders}
      \cup {Conf(<<BadKey>>, Leaf(1), 0),
            Conf(<<IntKey(1), IntKey(2)>>, Sub(Conf(<<IntKey(2), IntKey(3)>>, BadValue, 0)), 2)}

-----------------------------------------------------------------------------
(* Schemas: Wide and Arrays hold every type of field and gaps of tags; Few *)
(* and FewArrays are older versions of them with fewer fields.             *)
Fld(n, t, type) ==
    [name |-> <<n>>, tag |-> t, type |-> type, st |-> -1, array |-> FALSE, key |-> -1]
Arr(f) == [f EXCEPT !.array = TRUE]
Keyed(f, k) == [f EXCEPT !.key = k]
Struct(n, tag, st) == [Fld(n, tag, TSTRUCT) EXCEPT !.st = st]
TypeDef(n, fields) == [name |-> <<n>>, fields |-> fields]

New == TypeDef(2, <<Fld(1, 0, TINTEGER), Fld(2, 1, TSTRING)>>)
Old == TypeDef(2, <<Fld(1, 0, TINTEGER), Fld(3, 2, TBOOLEAN)>>)
Wide == TypeDef(1, <<Fld(1, 0, TINTEGER), Fld(2, 1, TBOOLEAN), Fld(3, 3, TSTRING),
                     Struct(4, 4, 1), Arr(Fld(5, 7, TINTEGER)), Arr(Fld(0, 8, TBOOLEAN))>>)
Few == TypeDef(1, <<Fld(2, 1, TBOOLEAN), Struct(4, 4, 1)>>)
Arrays == TypeDef(1, <<Arr(Fld(1, 1, TSTRING)), Arr(Struct(2, 2, 1)),
                       Keyed(Arr(Struct(3, 3, 1)), 0), Struct(4, 5, 0)>>)
FewArrays == TypeDef(1, <<Arr(Fld(1, 1, TSTRING)), Keyed(Arr(Struct(3, 3, 1)), 0)>>)

Protocol(n, tag, req, rsp) == [name |-> <<n>>, tag |-> tag, request |-> req, response |-> rsp]
Schema(main, inner, protocols) ==
    [type |-> <<main, inner, TypeDef(4, <<>>)>>, proto |-> protocols]
WideNew == Schema(Wide, New, <<Protocol(1, 1, 0, 1), Protocol(2, 3, -1, 2),
                               Protocol(3, 4, 2, -1), Protocol(4, 5, -1, -1)>>)
WideOld == Schema(Few, Old, <<>>)
ArraysNew == Schema(Arrays, New, <<Protocol(1, 1, 0, 1)>>)
ArraysOld == Schema(FewArrays, Old, <<>>)

-----------------------------------------------------------------------------
(* Messages.  With BASE = 6 a field's own value holds up to 16 (0x7fff is  *)
(* 17 here), 4 digits hold -648 .. 647 and 8 digits everything else.       *)
PInt(v) == Val("integer", v)
PStr(s) == Val("string", s)
PBool(b) == Val("boolean", b)
List(s) == Val("array", s)
Maybe(n, set) == {<<>>} \cup {n :> x : x \in set}
Inner(a, b) == Val("struct", (<<1>> :> PInt(a)) @@ (<<2>> :> PStr(b)))
Only(a) == Val("struct", <<1>> :> PInt(a))

Numbers == {PInt(v) : v \in {0, 16, 17, -1, 647, 648, -649}}
NumberLists == {List(<<>>), List(<<PInt(1)>>), List(<<PInt(-649), PInt(-1)>>),
                List(<<PInt(-1), PInt(3), PInt(648), PInt(-648)>>),
                List(<<PInt(1), PInt(-648), PInt(0), PInt(648)>>)}
WideMsgs ==
    {a @@ b @@ c @@ d @@ e @@ f :
        a \in Maybe(<<1>>, {PInt(16), PInt(-649)}),
        b \in Maybe(<<2>>, {PBool(TRUE)}),
        c \in Maybe(<<3>>, {PStr(<<>>), PStr(<<1, 2, 3>>)}),
        d \in Maybe(<<4>>, {Val("struct", <<>>), Inner(-648, <<1>>)}),
        e \in Maybe(<<5>>, NumberLists),
        f \in Maybe(<<0>>, {List(<<PBool(FALSE), PBool(TRUE)>>)})}
NumberMsgs ==
    {a @@ d @@ e : a \in Maybe(<<1>>, Numbers), d \in Maybe(<<4>>, {Only(647), Only(648)}),
                   e \in Maybe(<<5>>, NumberLists)}
ArrayMsgs ==
    {a @@ b @@ c @@ d :
        a \in Maybe(<<1>>, {List(<<PStr(<<>>), PStr(<<1, 2>>)>>)}),
        b \in Maybe(<<2>>, {List(<<Only(1), Inner(17, <<>>)>>)}),
        c \in Maybe(<<3>>, {Val("map", (1 :> Inner(1, <<2>>)) @@ (17 :> Only(17)))}),
        d \in Maybe(<<4>>, {Val("struct", <<>>),
                            Val("struct", <<4>> :> Val("struct", <<1>> :> List(<<PStr(<<3>>)>>)))})}
WrongMsgs == {<<1>> :> PStr(<<1>>), <<5>> :> PInt(1), <<4>> :> PInt(2)}
Wrap(m) == <<4>> :> Val("struct", m)

Case(a, b, m, ok) == [from |-> a, to |-> b, st |-> 1, msg |-> m, valid |-> ok]
MCSprotoCases ==
    {Case(WideNew, u, m, TRUE) : u \in {WideNew, WideOld}, m \in WideMsgs}
      \cup {Case(WideNew, WideNew, m, TRUE) : m \in NumberMsgs}
      \cup {Case(ArraysNew, u, m, TRUE) : u \in {ArraysNew, ArraysOld}, m \in ArrayMsgs}
      \cup {Case(WideNew, WideNew, m, FALSE) : m \in WrongMsgs}
      \cup {Case(WideOld, WideNew, <<2>> :> PBool(FALSE), TRUE),
            Case(WideNew, WideNew, <<3>> :> PInt(-648), TRUE),
            Case(ArraysNew, ArraysOld, <<1>> :> List(<<PInt(10), PStr(<<1>>)>>), TRUE),
            Case(ArraysNew, ArraysNew, Wrap(Wrap(Wrap(Wrap(<<>>)))), FALSE)}

\* Strings given to pack: up to three segments with some zeros, and a tail.
Seg(n, z) == [i \in 1 .. n |-> IF i <= z THEN 0 ELSE 1 + (i % 3)]
Tails == {<<>>} \cup {Seg(n, z) : n \in 1 .. 7, z \in 0 .. 1}
Full == {Seg(8, z) : z \in {0, 1, 2, 3, 8}}
MCPackInputs ==
    Tails \cup {a \o t : a \in Full, t \in Tails}
      \cup {a \o b \o t : a \in Full, b \in Full, t \in Tails}
      \cup {a \o b \o c \o t : a \in Full, b \in Full, c \in Full,
                               t \in {<<>>, Seg(1, 0), Seg(6, 0), Seg(7, 0)}}
=============================================================================
