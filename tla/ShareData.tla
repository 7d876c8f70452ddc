------------------------------ MODULE ShareData ------------------------------
(***************************************************************************)
(* The life of shared tables: the reference count and dirty flag of        *)
(* src/lualib/lsharedata.c (struct state) as the host service              *)
(* sharedatad.lua and its clients (sharedata.lua, sharedata_corelib.lua)   *)
(* use them.  Clients read the tables without a lock while the host        *)
(* replaces, retires and, in its collecting round, deletes them.           *)
(***************************************************************************)
EXTENDS Integers, FiniteSets

CONSTANTS
    SdClient,
    MAX_TABLES      \* bound: tables the host makes for the name

ASSUME ShareDataAssumption == MAX_TABLES \in Nat \ {0} /\ IsFiniteSet(SdClient)

VARIABLES
    sdTab,      \* the tables made so far: ref, dirty and where it is
                \* ("pool", "retired", "condemned", "deleted")
    sdCli,      \* a client: phase, the table it reads (boxed), the table
                \* that waits in its box's update field, the table whose
                \* pointer is on its way to it
    sdWatch,    \* clients whose monitor request waits in the pool's table
    sdLate      \* ghost: tables a client boxed after collectobj had found
                \* them without references

sdVars == <<sdTab, sdCli, sdWatch, sdLate>>

Tabs    == DOMAIN sdTab
InPool  == {t \in Tabs : sdTab[t].at = "pool"}
Current == CHOOSE t \in InPool : TRUE
\* The host, one service, is not between the two calls of collectobj.
HostFree == \A t \in Tabs : sdTab[t].at # "condemned"
Ref(tab, t, n) == IF t = 0 THEN tab ELSE [tab EXCEPT ![t].ref = @ + n]

ShareDataInit ==
    /\ sdTab = [t \in {1} |-> [ref |-> 1, dirty |-> FALSE, at |-> "pool"]]
    /\ sdCli = [c \in SdClient |-> [phase |-> "none", obj |-> 0, upd |-> 0, msg |-> 0]]
    /\ sdWatch = {} /\ sdLate = {}

-----------------------------------------------------------------------------
\* The host.  request:query: lincref covers the way to the client.
query(c) ==
    /\ HostFree /\ sdCli[c].phase = "none" /\ InPool # {}
    /\ sdTab' = Ref(sdTab, Current, 1)
    /\ sdCli' = [sdCli EXCEPT ![c].phase = "queried", ![c].msg = Current]
    /\ UNCHANGED <<sdWatch, sdLate>>

\* request:monitor: the new table at once if the client's is old, otherwise
\* the request waits; its assertion fails when the name is gone, which ends
\* the client's monitor.  Nothing covers the pointer in the answer.
monitor(c) ==
    LET cl == sdCli[c] IN
    /\ HostFree /\ cl.phase = "asks"
    /\ \/ /\ InPool = {}
          /\ sdCli' = [sdCli EXCEPT ![c].phase = "boxed"]
          /\ UNCHANGED sdWatch
       \/ /\ InPool # {} /\ (IF cl.upd # 0 THEN cl.upd ELSE cl.obj) # Current
          /\ sdCli' = [sdCli EXCEPT ![c].phase = "told", ![c].msg = Current]
          /\ UNCHANGED sdWatch
       \/ /\ InPool # {} /\ (IF cl.upd # 0 THEN cl.upd ELSE cl.obj) = Current
          /\ sdCli' = [sdCli EXCEPT ![c].phase = "waits"]
          /\ sdWatch' = sdWatch \union {c}
    /\ UNCHANGED <<sdTab, sdLate>>

\* The old table of an update or a delete: retired, and the pool's reference
\* is given back.
Retire(tab, t) == Ref([tab EXCEPT ![t].at = "retired"], t, -1)

\* request:update: lnewconf and lincref for the new table, lmarkdirty on the
\* old one; the waiting clients are told.
update ==
    LET new  == Cardinality(Tabs) + 1
        made == [t \in Tabs \union {new} |->
                   IF t = new THEN [ref |-> 1, dirty |-> FALSE, at |-> "pool"]
                   ELSE IF t \in InPool THEN [Retire(sdTab, t)[t] EXCEPT !.dirty = TRUE]
                   ELSE sdTab[t]]
    IN
    /\ HostFree /\ new <= MAX_TABLES
    /\ sdTab' = made
    /\ sdCli' = [c \in SdClient |->
                   IF c \in sdWatch THEN [sdCli[c] EXCEPT !.phase = "told", !.msg = new]
                   ELSE sdCli[c]]
    /\ sdWatch' = {} /\ UNCHANGED sdLate

\* request:update when request:new raises (the text does not run, or lnewconf
\* refuses a value): the old table is retired but not marked dirty, the name
\* is gone and the waiting clients are never told.
update_raises ==
    /\ HostFree /\ InPool # {}
    /\ sdTab' = Retire(sdTab, Current)
    /\ sdWatch' = {} /\ UNCHANGED <<sdCli, sdLate>>

\* request:delete: the waiting clients' monitors end.
delete ==
    /\ HostFree /\ InPool # {}
    /\ sdTab' = Retire(sdTab, Current)
    /\ sdCli' = [c \in SdClient |-> IF c \in sdWatch THEN [sdCli[c] EXCEPT !.phase = "boxed"]
                                    ELSE sdCli[c]]
    /\ sdWatch' = {} /\ UNCHANGED sdLate

\* collectobj: a retired table is found without references (lgetref) and
\* forgotten; deleting it (ldeleteconf) is a call of its own.  No other
\* request runs in between, but the clients do.
collectobj(t) ==
    /\ HostFree /\ sdTab[t].at = "retired" /\ sdTab[t].ref <= 0
    /\ sdTab' = [sdTab EXCEPT ![t].at = "condemned"]
    /\ UNCHANGED <<sdCli, sdWatch, sdLate>>

ldeleteconf(t) ==
    /\ sdTab[t].at = "condemned"
    /\ sdTab' = [sdTab EXCEPT ![t].at = "deleted"]
    /\ UNCHANGED <<sdCli, sdWatch, sdLate>>

\* post:confirm.
confirm(c) ==
    /\ HostFree /\ sdCli[c].phase = "confirms"
    /\ sdTab' = IF sdTab[sdCli[c].msg].at # "deleted" THEN Ref(sdTab, sdCli[c].msg, -1)
                ELSE sdTab
    /\ sdCli' = [sdCli EXCEPT ![c].phase = "asks", ![c].msg = 0]
    /\ UNCHANGED <<sdWatch, sdLate>>

-----------------------------------------------------------------------------
\* The client.  Mutant of lboxconf: the box takes no reference of its own.
lboxconf_borrowed(c) ==
    /\ sdCli[c].phase = "queried"
    /\ sdCli' = [sdCli EXCEPT ![c].phase = "confirms", ![c].obj = sdCli[c].msg]
    /\ UNCHANGED <<sdTab, sdWatch, sdLate>>

\* sharedata.query boxes the table (lboxconf), then posts the confirmation.
lboxconf(c) ==
    /\ sdCli[c].phase = "queried"
    /\ sdTab' = Ref(sdTab, sdCli[c].msg, 1)
    /\ sdCli' = [sdCli EXCEPT ![c].phase = "confirms", ![c].obj = sdCli[c].msg]
    /\ UNCHANGED <<sdWatch, sdLate>>

\* sd.update: the new table is boxed and put into the old box (lupdate); a
\* table that waited there before loses its box to the collector.
lupdate(c) ==
    LET cl == sdCli[c] IN
    /\ cl.phase = "told" /\ sdTab[cl.obj].dirty
    /\ sdTab' = Ref(Ref(sdTab, cl.msg, 1), cl.upd, -1)
    /\ sdCli' = [sdCli EXCEPT ![c] = [cl EXCEPT !.phase = "asks", !.upd = cl.msg, !.msg = 0]]
    /\ sdLate' = IF sdTab[cl.msg].at \in {"condemned", "deleted"}
                 THEN sdLate \union {cl.msg} ELSE sdLate
    /\ UNCHANGED sdWatch

\* sd.update's assertion, before it boxes: the client's table was deleted, not
\* updated, and the name made again; the error ends the client's monitor.
update_refused(c) ==
    /\ sdCli[c].phase = "told" /\ ~sdTab[sdCli[c].obj].dirty
    /\ sdCli' = [sdCli EXCEPT ![c].phase = "boxed", ![c].msg = 0]
    /\ UNCHANGED <<sdTab, sdWatch, sdLate>>

\* getcobj, on any access: a dirty table with an update is replaced
\* (lisdirty, lneedupdate), and its box collected (releaseobj).
getcobj(c) ==
    LET cl == sdCli[c] IN
    /\ cl.obj # 0 /\ cl.upd # 0 /\ sdTab[cl.obj].dirty
    /\ sdTab' = Ref(sdTab, cl.obj, -1)
    /\ sdCli' = [sdCli EXCEPT ![c].obj = cl.upd, ![c].upd = 0]
    /\ UNCHANGED <<sdWatch, sdLate>>

ShareDataNext ==
    \/ update \/ update_raises \/ delete
    \/ \E t \in Tabs : collectobj(t) \/ ldeleteconf(t)
    \/ \E c \in SdClient : \/ query(c) \/ monitor(c) \/ confirm(c) \/ lboxconf(c)
                           \/ lupdate(c) \/ update_refused(c) \/ getcobj(c)

ShareDataSpec == ShareDataInit /\ [][ShareDataNext]_sdVars

-----------------------------------------------------------------------------
Holders(t) ==
    Cardinality({c \in SdClient : sdCli[c].obj = t})
  + Cardinality({c \in SdClient : sdCli[c].upd = t})
  + Cardinality({c \in SdClient : sdCli[c].phase \in {"queried", "confirms"}
                                  /\ sdCli[c].msg = t})
  + (IF sdTab[t].at = "pool" THEN 1 ELSE 0)

\* A table's count is its boxes, the answers to query on their way and the
\* pool's own; so a table that a client reads is never deleted, whatever the
\* host replaces, deletes or fails to make meanwhile.  The exception, since
\* nothing counts the pointer in a monitor's answer, is a table that a client
\* boxed from such an answer after collectobj had read its count as zero:
\* between the reading and the deletion, or after both.
ShareDataExact ==
    \A t \in Tabs :
        /\ sdTab[t].at # "deleted" => sdTab[t].ref = Holders(t)
        /\ sdTab[t].at \in {"condemned", "deleted"} => Holders(t) = 0 \/ t \in sdLate
=============================================================================
