---------------------------- MODULE SprotoSchema ----------------------------
(***************************************************************************)
(* The schema of the sproto library (src/lualib/sproto/sproto.c,           *)
(* sprotoparser.lua): the parser packs it into a bundle, sproto_create     *)
(* imports the bundle.  Bytes are digits in base BASE, so that words and   *)
(* lengths keep their widths.                                              *)
(***************************************************************************)
EXTENDS Integers, Sequences, SequencesExt, FiniteSets

CONSTANT BASE           \* 256 in the code

ASSUME BaseAssumption == BASE > 3 /\ BASE % 2 = 0

-----------------------------------------------------------------------------
TINTEGER == 0
TBOOLEAN == 1
TSTRING  == 2
TSTRUCT  == 3
LENGTH == 4             \* SIZEOF_LENGTH; the header and a field are 2 bytes
BAD    == [bad |-> TRUE]

Digits(v, n) == [i \in 1 .. n |-> (v \div BASE^(i - 1)) % BASE]
\* toword and todword at a position of b; Number reads n digits.
Number(b, at, n) == FoldLeft(LAMBDA s, i : s + b[at + i - 1] * BASE^(i - 1), 0,
                             [i \in 1 .. n |-> i])
toword(b, at)  == Number(b, at, 2)
todword(b, at) == Number(b, at, LENGTH)
Sized(b) == Digits(Len(b), LENGTH) \o b              \* fill_size
Concat(ss) == FlattenSeq(ss)
UpTo(n) == [i \in 1 .. n |-> i]

-----------------------------------------------------------------------------
\* The parser.  A schema is [type, proto]: a type is [name, fields], a field
\* [name, tag, type, st, array, key] with st and key -1 when absent.
packvalue(v) == Digits((v + 1) * 2, 2)

packfield(f) ==
    LET kind == IF f.type # TSTRUCT THEN packvalue(f.type) \o Digits(1, 2)
                ELSE Digits(1, 2) \o packvalue(f.st)
        last == (IF f.array THEN packvalue(1) ELSE <<>>)
                \o (IF f.key >= 0 THEN packvalue(f.key) ELSE <<>>)
        recs == Digits(0, 2) \o kind \o packvalue(f.tag) \o last
    IN  Sized(Digits(Len(recs) \div 2, 2) \o recs \o Sized(f.name))

packtype(t) ==
    IF t.fields = <<>> THEN Sized(Digits(1, 2) \o Digits(0, 2) \o Sized(t.name))
    ELSE Sized(Digits(2, 2) \o Digits(0, 4) \o Sized(t.name)
               \o Sized(Concat([i \in DOMAIN t.fields |-> packfield(t.fields[i])])))

packproto(p) ==
    LET req  == IF p.request >= 0 THEN packvalue(p.request) ELSE Digits(1, 2)
        recs == Digits(0, 2) \o packvalue(p.tag)
                \o (IF p.request >= 0 \/ p.response >= 0 THEN req ELSE <<>>)
                \o (IF p.response >= 0 THEN packvalue(p.response) ELSE <<>>)
    IN  Sized(Digits(Len(recs) \div 2, 2) \o recs \o Sized(p.name))

packgroup(s) ==
    LET tt == Sized(Concat([i \in DOMAIN s.type |-> packtype(s.type[i])]))
        tp == Sized(Concat([i \in DOMAIN s.proto |-> packproto(s.proto[i])]))
    IN  IF s.type = <<>> THEN Digits(0, 2)
        ELSE IF s.proto = <<>> THEN Digits(1, 2) \o Digits(0, 2) \o tt
        ELSE Digits(2, 2) \o Digits(0, 4) \o tt \o tp

-----------------------------------------------------------------------------
\* sproto_create.  Positions are 1-based; -1 and BAD are the error returns.
RECURSIVE Elements(_, _, _)
Elements(b, at, length) ==
    IF length = 0 THEN 0
    ELSE LET nsz == todword(b, at) + LENGTH
             n   == Elements(b, at + nsz, length - nsz)
         IN  IF length < LENGTH \/ nsz > length \/ n < 0 THEN -1 ELSE n + 1

count_array(b, at) == Elements(b, at + LENGTH, todword(b, at))

\* The data of the records that keep theirs there, one behind the other.
SkipData(s, n) ==
    IF s.sz < LENGTH \/ s.sz < n THEN [s EXCEPT !.sz = -1]
    ELSE [sz |-> s.sz - n, at |-> s.at + n]

DataLeft(b, at, sz, fn) ==
    LET Field(s, i) == IF s.sz < 0 \/ toword(b, at + 2 * i) # 0 THEN s
                       ELSE SkipData(s, LENGTH + todword(b, s.at))
    IN  FoldLeft(Field, [sz |-> sz - 2 - 2 * fn, at |-> at + 2 + 2 * fn], UpTo(fn)).sz

struct_field(b, at, sz) ==
    IF sz < LENGTH \/ DataLeft(b, at, sz, toword(b, at)) < 0 THEN -1 ELSE toword(b, at)

import_string(b, at) == SubSeq(b, at + LENGTH, at + LENGTH + todword(b, at) - 1)

\* The records of a struct of the bundle, as a function of their tags; a
\* record that is kept in the data part has the value -1.
Records(b, at, fn) ==
    LET Step(s, i) ==
            LET v == toword(b, at + 2 * i)
            IN  IF v % 2 = 1 THEN [s EXCEPT !.tag = @ + 1 + v \div 2]
                ELSE [tag |-> s.tag + 1,
                      of  |-> [t \in DOMAIN s.of \cup {s.tag + 1} |->
                               IF t = s.tag + 1 THEN v \div 2 - 1 ELSE s.of[t]]]
    IN  FoldLeft(Step, [tag |-> -1, of |-> <<>>], UpTo(fn)).of

FieldOf(name, r, type_n) ==
    LET Has(t) == t \in DOMAIN r
        Val(t) == IF Has(t) THEN r[t] ELSE -1
        good == /\ Has(0) /\ r[0] = -1 /\ Has(3)
                /\ \A t \in DOMAIN r \ {0} : t \in 1 .. 5 /\ r[t] >= 0
                /\ Has(1) # Has(2)
                /\ Has(1) => r[1] < TSTRUCT
                /\ Has(2) => r[2] < type_n
    IN  IF ~good THEN BAD
        ELSE [name |-> name, tag |-> r[3],
              type |-> IF Has(1) THEN r[1] ELSE TSTRUCT, st |-> Val(2),
              array |-> Val(4) > 0, key |-> Val(5)]

import_field(b, at, type_n) ==
    LET fn == struct_field(b, at + LENGTH, todword(b, at))
    IN  IF fn < 0 THEN BAD
        ELSE FieldOf(import_string(b, at + LENGTH + 2 + 2 * fn),
                     Records(b, at + LENGTH, fn), type_n)

\* All records refer to data behind the header.
AllData(b, at, fn) == \A i \in 1 .. fn : toword(b, at + 2 * i) = 0

\* Where the elements of an array of the bundle begin.
RECURSIVE Starts(_, _, _)
Starts(b, at, n) ==
    IF n = 0 THEN <<>>
    ELSE <<at>> \o Starts(b, at + LENGTH + todword(b, at), n - 1)

\* maxn of import_type: one record per field and one per gap between tags.
MaxRecords(f) ==
    Len(f) + Cardinality({i \in DOMAIN f :
                          f[i].tag > (IF i = 1 THEN -1 ELSE f[i - 1].tag) + 1})

TypeOf(name, f) ==
    LET n     == Len(f)
        After(i) == f[i].tag > (IF i = 1 THEN -1 ELSE f[i - 1].tag)
        dense == f[n].tag - f[1].tag + 1 = n
    IN  IF BAD \in Range(f) \/ \E i \in 1 .. n : ~After(i) THEN BAD
        ELSE [name |-> name, f |-> f, maxn |-> MaxRecords(f),
              base |-> IF n = 0 THEN 0 ELSE IF dense THEN f[1].tag ELSE -1]

\* The fields that begin at the positions pos.
Fields(b, pos, type_n) == [i \in DOMAIN pos |-> import_field(b, pos[i], type_n)]

FieldArray(b, array, n, type_n) ==
    IF n < 0 THEN <<BAD>> ELSE Fields(b, Starts(b, array + LENGTH, n), type_n)

TypeAt(b, at, fn, type_n) ==
    LET data  == at + 2 + 2 * fn
        array == data + LENGTH + todword(b, data)
    IN  IF fn \notin 1 .. 2 \/ ~AllData(b, at, fn) THEN BAD
        ELSE TypeOf(import_string(b, data),
                    IF fn = 1 THEN <<>>
                    ELSE FieldArray(b, array, count_array(b, array), type_n))

import_type(b, at, type_n) ==
    TypeAt(b, at + LENGTH, struct_field(b, at + LENGTH, todword(b, at)), type_n)

\* Its switch is on the number of the record, not on the tag.
ProtocolOf(name, v, type_n) ==
    LET Has(i) == i \in DOMAIN v /\ v[i] % 2 = 0
        Val(i) == IF Has(i) THEN v[i] \div 2 - 1 ELSE -1
        good   == /\ Has(0) /\ v[0] = 0 /\ Has(1) /\ Val(1) >= 0
                  /\ \A i \in DOMAIN v \ {0, 1} :
                        Has(i) => i < 4 /\ Val(i) \in 0 .. type_n - 1
    IN  IF ~good THEN BAD
        ELSE [name |-> name, tag |-> Val(1), request |-> Val(2), response |-> Val(3)]

import_protocol(b, at, type_n) ==
    LET fn == struct_field(b, at + LENGTH, todword(b, at))
    IN  IF fn < 0 THEN BAD
        ELSE ProtocolOf(import_string(b, at + LENGTH + 2 + 2 * fn),
                        [i \in 0 .. fn - 1 |-> toword(b, at + LENGTH + 2 + 2 * i)], type_n)

\* The types and protocols that begin at the positions tpos and ppos.
Import(b, tpos, ppos) ==
    LET t == [i \in DOMAIN tpos |-> import_type(b, tpos[i], Len(tpos))]
        p == [i \in DOMAIN ppos |-> import_protocol(b, ppos[i], Len(tpos))]
        Created(s) == IF BAD \in Range(s.type) \cup Range(s.proto) THEN BAD ELSE s
    IN  Created([type |-> t, proto |-> p])

ImportAll(b, types, tn, protos, pn) ==
    IF tn < 0 \/ pn < 0 THEN BAD
    ELSE Import(b, Starts(b, types + LENGTH, tn), Starts(b, protos + LENGTH, pn))

create_from_bundle(b) ==
    LET fn     == struct_field(b, 1, Len(b))
        types  == 3 + 2 * fn
        protos == types + LENGTH + todword(b, types)
    IN  IF fn \notin 0 .. 2 \/ ~AllData(b, 1, fn) THEN BAD
        ELSE ImportAll(b, types, IF fn = 0 THEN 0 ELSE count_array(b, types),
                       protos, IF fn = 2 THEN count_array(b, protos) ELSE 0)

\* The binary search of findtag (query_proto's is the same).
RECURSIVE Search(_, _, _, _)
Search(f, tag, begin, end) ==
    LET mid == (begin + end) \div 2 IN
    IF begin >= end THEN 0
    ELSE IF f[mid + 1].tag = tag THEN mid + 1
    ELSE IF tag > f[mid + 1].tag THEN Search(f, tag, mid + 1, end)
    ELSE Search(f, tag, begin, mid)

\* The number of a field, or 0.
findtag(st, tag) ==
    IF st.base < 0 THEN Search(st.f, tag, 0, Len(st.f))
    ELSE IF tag - st.base \in 0 .. Len(st.f) - 1 THEN tag - st.base + 1 ELSE 0
=============================================================================
