----------------------------- MODULE HandleTable -----------------------------
(***************************************************************************)
(* The handle table and the name table of src/src/handle.c as arrays.  The *)
(* lock is held by each operation as a whole (RwLock), the reference       *)
(* counts are in Actor; here a service is registered, found and removed.   *)
(***************************************************************************)
EXTENDS Integers

CONSTANTS
    CAP,                \* the first capacity of the slots, 16
    NAME_CAP,           \* the first capacity of the names, 16
    MASK,               \* 2^24: handle_grab and handle_release keep h % MASK
    LAST_ID,            \* bound: the last id that is given out
    Name                \* bound: names, numbers in the order of strcmp

ASSUME HandleAssumption ==
    /\ CAP \in Nat /\ CAP > 0 /\ MASK \in Nat /\ MASK > 0 /\ LAST_ID \in Nat
    /\ \E i \in 1 .. 24 : CAP = 2^i       \* so that h & (cap - 1) is h % cap
    /\ NAME_CAP \in Nat /\ NAME_CAP > 0 /\ Name \subseteq Nat

VARIABLES
    hCap,       \* H.cap
    slot,       \* H.slot: [handle, ctx]; the context of a service is its id
    hN,         \* H.n
    last_id,    \* H.last_id
    names,      \* H.names, an array of name_cap entries
    name_cap, name_count,
    live,       \* ghost: the services that were registered and not freed
    wiped,      \* ghost: live handles that an expansion overwrote
    first       \* ghost: the handle each name was given first, or 0

handleVars == <<hCap, slot, hN, last_id, names, name_cap, name_count, live, wiped, first>>

NoSlot == [handle |-> 0, ctx |-> 0]
NoName == [name |-> 0, handle |-> 0]

-----------------------------------------------------------------------------
\* The slots are copied in their order, the empty ones too: all of those are
\* written to slot 0 of the new table.
handle_expand_skips(s, cap) ==          \* mutant: the old place is kept
    [i \in 0 .. 2 * cap - 1 |-> IF i < cap THEN s[i] ELSE NoSlot]

handle_expand(s, cap) ==
    [i \in 0 .. 2 * cap - 1 |->
        LET from == {j \in 0 .. cap - 1 : s[j].handle % (2 * cap) = i}
        IN  IF from = {} THEN NoSlot
            ELSE s[CHOOSE j \in from : \A k \in from : k <= j]]

\* The next id whose slot is free.  The loop has no other end: a table without
\* a free slot would keep the caller, and the lock, for ever.
Free(s, cap, id) == {h \in id + 1 .. id + cap : s[h % cap].handle = 0}
NextFree(s, cap, id) ==
    CHOOSE h \in Free(s, cap, id) : \A k \in Free(s, cap, id) : h <= k

handle_regist ==
    LET full == hN >= (hCap * 3) \div 4
        cap  == IF full THEN 2 * hCap ELSE hCap
        s    == IF full THEN handle_expand(slot, hCap) ELSE slot
        h    == NextFree(s, cap, last_id)
    IN  /\ last_id + cap <= LAST_ID /\ Free(s, cap, last_id) # {}
        /\ hCap' = cap
        /\ slot' = [s EXCEPT ![h % cap] = [handle |-> h, ctx |-> h]]
        /\ hN' = hN + 1
        /\ last_id' = h
        /\ live' = live \cup {h}
        /\ wiped' = IF full THEN wiped \cup {k \in live : k % cap = 0} ELSE wiped
        /\ UNCHANGED <<names, name_cap, name_count, first>>

\* handle_grab: the context found for a handle, 0 if there is none.
handle_grab(h) ==
    LET s == slot[(h % MASK) % hCap]
    IN  IF s.handle # h % MASK THEN 0 ELSE s.ctx

\* handle_release by the last reference: what the slot points to is freed, and
\* the slot keeps the old pointer.  A handle with h % MASK = 0 finds the empty
\* slot 0 and its old pointer as often as it is released; the bound is hN > 0.
handle_remove_slot(h) ==
    LET i == (h % MASK) % hCap IN
    /\ \/ /\ slot[i].handle = h % MASK /\ hN > 0
          /\ slot' = [slot EXCEPT ![i] = [handle |-> 0, ctx |-> @.ctx]]
          /\ hN' = hN - 1 /\ live' = live \ {slot[i].ctx}
       \/ slot[i].handle # h % MASK /\ UNCHANGED <<slot, hN, live>>
    /\ UNCHANGED <<hCap, last_id, names, name_cap, name_count, wiped, first>>

-----------------------------------------------------------------------------
\* One iteration of the binary search of _query and _insert over the entries
\* beg .. end; the search is over when there are none, or at the name.
Mid(r) == (r.beg + r.end) \div 2
Halve(name, r) ==
    CASE r.beg > r.end \/ names[Mid(r)].name = name -> r
      [] r.beg <= r.end /\ names[Mid(r)].name < name -> [r EXCEPT !.beg = Mid(r) + 1]
      [] r.beg <= r.end /\ names[Mid(r)].name > name -> [r EXCEPT !.end = Mid(r) - 1]

\* The entries that are left after k iterations; there are at most name_count.
Halves(name) ==
    LET rest[k \in 0 .. name_count] ==
            IF k = 0 THEN [beg |-> 0, end |-> name_count - 1] ELSE Halve(name, rest[k - 1])
    IN  rest
SearchName(name) == Halves(name)[name_count]
Found(name) == SearchName(name).beg <= SearchName(name).end

query_name(name) == IF Found(name) THEN names[Mid(SearchName(name))].handle ELSE 0

\* A full array is copied into one twice as large, around the new entry.
_insert_before(name, h, pos) ==
    LET cap == IF name_count >= name_cap THEN 2 * name_cap ELSE name_cap
    IN  /\ name_cap' = cap /\ name_count' = name_count + 1
        /\ names' = [i \in 0 .. cap - 1 |->
                        CASE i = pos -> [name |-> name, handle |-> h]
                          [] i < pos -> names[i]
                          [] i > pos /\ i <= name_count -> names[i - 1]
                          [] i > pos /\ i > name_count -> IF i < name_cap THEN names[i] ELSE NoName]

\* handle_name for NAME; a name that exists is not changed.
handle_name(name, h) ==
    /\ \/ Found(name) /\ UNCHANGED <<names, name_cap, name_count>>
       \/ ~Found(name) /\ _insert_before(name, h, SearchName(name).beg)
    /\ first' = IF first[name] = 0 THEN [first EXCEPT ![name] = h] ELSE first
    /\ UNCHANGED <<hCap, slot, hN, last_id, live, wiped>>

HandleInit ==
    /\ hCap = CAP /\ slot = [i \in 0 .. CAP - 1 |-> NoSlot] /\ hN = 0 /\ last_id = 0
    /\ names = [i \in 0 .. NAME_CAP - 1 |-> NoName] /\ name_cap = NAME_CAP /\ name_count = 0
    /\ live = {} /\ wiped = {} /\ first = [n \in Name |-> 0]

HandleNext ==
    \/ handle_regist
    \/ \E h \in live : handle_remove_slot(h)
    \/ \E n \in Name, h \in live : handle_name(n, h)

HandleSpec == HandleInit /\ [][HandleNext]_handleVars

-----------------------------------------------------------------------------
\* Across any number of expansions and reuses of slots a registered handle
\* below MASK finds its own service, unless an expansion overwrote it, which
\* happens only to a multiple of the new capacity; no handle finds a service
\* that was freed; and, as long as the table has at most MASK slots, no
\* registered handle finds, and so releases, the service of another one.  Left
\* out are the handles with h % MASK = 0, which read the old pointer of an
\* empty slot 0.  A name stands for the handle it was given first, for ever,
\* even when that service is gone (handle.c:67, 88, 108, 208).
HandleExact ==
    /\ \A h \in live \ wiped : h < MASK => handle_grab(h) = h
    /\ \A h \in 1 .. last_id :
          h % MASK # 0 => handle_grab(h) \in {0} \cup (live \cap {h % MASK})
    /\ MASK % hCap = 0 => \A h \in live : h % MASK # 0 => handle_grab(h) \in {0, h}
    /\ \A i, j \in 0 .. name_count - 1 : i < j => names[i].name < names[j].name
    /\ \A n \in Name : query_name(n) = first[n]
=============================================================================
