------------------------------ MODULE ShareTable ------------------------------
(***************************************************************************)
(* The read-only table of src/lualib/lsharedata.c: lnewconf converts a Lua *)
(* table into an array and a hash of exactly as many slots as it has other *)
(* keys; lindexconf and lnextkey read it from any service without a lock.  *)
(* A Lua table is the sequence of its entries in lua_next's order with its *)
(* length; a value is a number or again a table.  Integer keys are those   *)
(* that fit the C int they are stored in.                                  *)
(***************************************************************************)
EXTENDS Integers, Sequences, SequencesExt, FiniteSetsExt

CONSTANTS
    UINT,           \* 2^32, the range of a key's hash
    StrHash,        \* calchash of each string key
    Confs           \* bound: the tables that are converted

ASSUME ShareTableAssumption == UINT > 0 /\ \A s \in DOMAIN StrHash : StrHash[s] \in Nat

VARIABLES
    shConf,     \* the Lua table
    shTbl,      \* struct table made of it, with the error of the conversion
    shState     \* "none", "built" or "refused"

shareVars == <<shConf, shTbl, shState>>

-----------------------------------------------------------------------------
IntKey(k) == [type |-> "int", k |-> k]
StrKey(s) == [type |-> "str", k |-> s]
BadKey    == [type |-> "bool", k |-> 0]     \* also a float
Leaf(v)   == [leaf |-> TRUE, v |-> v]
BadValue  == Leaf(-1)                       \* a function or a thread
Sub(conf) == [leaf |-> FALSE, conf |-> conf]
NilNode   == [value |-> Leaf(0)]            \* VALUETYPE_NIL

keyhash(key) == IF key.type = "int" THEN key.k % UINT ELSE StrHash[key.k]
InArray(key, n) == key.type = "int" /\ key.k \in 1 .. n

\* countsize: the hash keys; it raises an error for a key that is no integer,
\* string or table.
HashEntries(conf)   == SelectSeq(conf.entries, LAMBDA e : ~InArray(e[1], conf.len))
countsize(conf)     == Len(HashEntries(conf))

RECURSIVE convtable(_)
\* setvalue: a table is converted in turn.
setvalue(x) == IF x.leaf THEN x ELSE [leaf |-> FALSE, tbl |-> convtable(x.conf)]

Slot(hash, key) == keyhash(key) % Len(hash)     \* slots are counted from 0
Empty(node)     == node.value = Leaf(0)

\* fillnocolliding: the first key of each main position takes it.
fillnocolliding(hash0, entries) ==
    FoldLeft(LAMBDA hash, e :
                LET s == Slot(hash, e[1]) + 1
                IN  IF Empty(hash[s])
                    THEN [hash EXCEPT ![s] = [key |-> e[1], next |-> -1,
                                              nocolliding |-> TRUE, value |-> setvalue(e[2])]]
                    ELSE hash,
             hash0, entries)

\* Mutant of Collide: the main position goes on counting as one without
\* collisions.
Collide_unmarked(hash, e) ==
    LET m    == Slot(hash, e[1]) + 1
        free == CHOOSE i \in DOMAIN hash : Empty(hash[i])
                    /\ \A j \in 1 .. i - 1 : ~Empty(hash[j])
    IN  [hash EXCEPT ![free] = [key |-> e[1], next |-> hash[m].next,
                                nocolliding |-> FALSE, value |-> setvalue(e[2])],
                     ![m].next = free - 1]

\* A colliding key takes the first empty slot and is linked behind its main
\* position.
Collide(hash, e) ==
    LET m    == Slot(hash, e[1]) + 1
        free == CHOOSE i \in DOMAIN hash : Empty(hash[i])
                    /\ \A j \in 1 .. i - 1 : ~Empty(hash[j])
    IN  [hash EXCEPT ![free] = [key |-> e[1], next |-> hash[m].next,
                                nocolliding |-> FALSE, value |-> setvalue(e[2])],
                     ![m].next = free - 1, ![m].nocolliding = FALSE]

\* fillcolliding: the keys that are not at their main position.
fillcolliding(hash0, entries) ==
    FoldLeft(LAMBDA hash, e : IF hash[Slot(hash, e[1]) + 1].key = e[1] THEN hash
                              ELSE Collide(hash, e),
             hash0, entries)

\* setarray; an element that is absent stays nil.
ArrayPart(conf) ==
    [i \in 1 .. conf.len |->
        LET at == {j \in DOMAIN conf.entries : conf.entries[j][1] = IntKey(i)}
        IN  IF at = {} THEN Leaf(0)
            ELSE setvalue(conf.entries[CHOOSE j \in at : TRUE][2])]

convtable(conf) ==
    LET entries == HashEntries(conf)
        blank   == [i \in 1 .. countsize(conf) |-> NilNode]
    IN  [array |-> ArrayPart(conf),
         hash  |-> IF entries = <<>> THEN <<>>
                   ELSE fillcolliding(fillnocolliding(blank, entries), entries)]

-----------------------------------------------------------------------------
\* lookup_key: the slot index of the key, or -1.
RECURSIVE Follow(_, _, _)
Follow(hash, s, key) ==
    LET n == hash[s + 1] IN
    IF keyhash(n.key) = keyhash(key) /\ n.key = key THEN s
    ELSE IF n.next < 0 THEN -1 ELSE Follow(hash, n.next, key)

lookup_key(hash, key) ==
    IF hash = <<>> THEN -1
    ELSE LET n == hash[Slot(hash, key) + 1]
         IN  IF keyhash(n.key) # keyhash(key) /\ n.nocolliding THEN -1
             ELSE Follow(hash, Slot(hash, key), key)

lindexconf(tbl, key) ==
    IF InArray(key, Len(tbl.array)) THEN tbl.array[key.k]
    ELSE LET s == lookup_key(tbl.hash, key)
         IN  IF s < 0 THEN Leaf(0) ELSE tbl.hash[s + 1].value

\* lnextkey: the next key in a sequence of none or one.
pushfirsthash(tbl) == IF tbl.hash = <<>> THEN <<>> ELSE <<tbl.hash[1].key>>
FromArray(tbl, i) ==
    LET set == {j \in i .. Len(tbl.array) : tbl.array[j] # Leaf(0)}
    IN  IF set = {} THEN pushfirsthash(tbl) ELSE <<IntKey(Min(set))>>
lnextkey(tbl, key) ==
    IF key = <<>> THEN FromArray(tbl, 1)
    ELSE IF InArray(key[1], Len(tbl.array)) THEN FromArray(tbl, key[1].k + 1)
    ELSE LET s == lookup_key(tbl.hash, key[1])
         IN  IF s < 0 \/ s + 1 = Len(tbl.hash) THEN <<>> ELSE <<tbl.hash[s + 2].key>>

-----------------------------------------------------------------------------
\* Something in the table that the conversion refuses, at any depth.
RECURSIVE Refuses(_)
Refuses(conf) == \E i \in DOMAIN conf.entries :
    LET e == conf.entries[i] IN
    \/ e[1] = BadKey \/ e[2] = BadValue
    \/ ~e[2].leaf /\ Refuses(e[2].conf)

ShareTableInit ==
    /\ shState = "none" /\ shConf = [entries |-> <<>>, len |-> 0]
    /\ shTbl = [array |-> <<>>, hash |-> <<>>]

\* lnewconf: converts in a protected call; on an error the root table and what
\* is linked to it are freed, not the nested tables that were being converted,
\* and the error is raised again.
lnewconf(conf) ==
    /\ shConf' = conf
    /\ shState' = IF Refuses(conf) THEN "refused" ELSE "built"
    /\ shTbl' = IF Refuses(conf) THEN shTbl ELSE convtable(conf)

ShareTableNext == shState = "none" /\ \E conf \in Confs : lnewconf(conf)

-----------------------------------------------------------------------------
RECURSIVE Visited(_, _, _)
Visited(tbl, key, seen) ==
    LET nk == lnextkey(tbl, key)
    IN  IF nk = <<>> \/ Len(seen) > 10 THEN seen ELSE Visited(tbl, nk, seen \o nk)

RECURSIVE Same(_, _)
Same(tbl, conf) ==
    LET keys == {conf.entries[i][1] : i \in DOMAIN conf.entries} IN
    /\ \A i \in DOMAIN conf.entries :
          LET got == lindexconf(tbl, conf.entries[i][1])
              x   == conf.entries[i][2]
          IN  IF x.leaf THEN got = x ELSE ~got.leaf /\ Same(got.tbl, x.conf)
    /\ \A k \in {IntKey(i) : i \in -2 .. 6} \union {StrKey(s) : s \in DOMAIN StrHash} :
          k \in keys \/ lindexconf(tbl, k) = Leaf(0)
    /\ LET seen == Visited(tbl, <<>>, <<>>)
       IN  ToSet(seen) = keys /\ Len(seen) = Cardinality(keys)

\* Whatever order lua_next gives and however the hashes collide, the shared
\* table answers every key that is a string or an integer of the width of int,
\* present or absent and at every level, as the Lua table does, and iterating
\* it visits each key exactly once and ends.  Keys that are tables, which
\* countsize lets through and ishashkey stores as "", and integers that
\* ishashkey cuts to an int are left out.
ShareTableExact == shState = "built" => Same(shTbl, shConf)
=============================================================================
