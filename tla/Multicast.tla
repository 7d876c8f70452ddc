------------------------------ MODULE Multicast ------------------------------
(***************************************************************************)
(* Packages of src/lualib/lmulticast.c as multicastd.lua publishes them:   *)
(* one block shared by the subscribers of a channel, freed by the last of  *)
(* them.  The subscribers are services that run while multicastd is still  *)
(* sending.                                                                *)
(***************************************************************************)
EXTENDS Integers, FiniteSets

CONSTANTS
    Subscriber,
    Package         \* bound: the packages that are published

ASSUME MulticastAssumption == IsFiniteSet(Subscriber)

VARIABLES
    mcGroup,    \* channel[c]: the subscribers multicastd knows of
    mcOpen,     \* the channel exists
    mcRemote,   \* channel_remote[c] is set
    mcPack,     \* struct mc_package: reference, state "none", "live", "freed"
    mcPub,      \* the publish under way: the package and who is still to be
                \* sent to
    mcMail,     \* pointers to packages in the subscribers' queues, or in a
                \* handler that has not returned yet
    mcDead,     \* subscribers that died
    mcLost,     \* ghost: references nobody will give back
    mcUse       \* ghost: what read a package after it was freed

mcVars == <<mcGroup, mcOpen, mcRemote, mcPack, mcPub, mcMail, mcDead, mcLost, mcUse>>

Idle == mcPub.phase = "idle"

MulticastInit ==
    /\ mcGroup = {} /\ mcOpen = TRUE /\ mcRemote = FALSE
    /\ mcPack = [p \in Package |-> [reference |-> 0, state |-> "none"]]
    /\ mcPub = [phase |-> "idle", pack |-> 0, to |-> {}]
    /\ mcMail = [s \in Subscriber |-> {}] /\ mcDead = {}
    /\ mcLost = [p \in Package |-> 0] /\ mcUse = {}

\* mc_closelocal: the last reference frees the package.
mc_closelocal(p) ==
    mcPack' = [mcPack EXCEPT ![p] =
                  [reference |-> @.reference - 1,
                   state |-> IF @.reference <= 1 THEN "freed" ELSE @.state]]

-----------------------------------------------------------------------------
\* SUB, USUB, SUBR and DEL of multicastd, which handles one request at a time.
SUB(s) ==
    /\ Idle /\ mcOpen /\ s \notin mcDead
    /\ mcGroup' = mcGroup \union {s}
    /\ UNCHANGED <<mcOpen, mcRemote, mcPack, mcPub, mcMail, mcDead, mcLost, mcUse>>

USUB(s) ==
    /\ Idle /\ mcOpen /\ s \in mcGroup \ mcDead
    /\ mcGroup' = mcGroup \ {s}
    /\ UNCHANGED <<mcOpen, mcRemote, mcPack, mcPub, mcMail, mcDead, mcLost, mcUse>>

SUBR ==
    /\ Idle /\ mcOpen /\ ~mcRemote /\ mcRemote' = TRUE
    /\ UNCHANGED <<mcGroup, mcOpen, mcPack, mcPub, mcMail, mcDead, mcLost, mcUse>>

DEL ==
    /\ Idle /\ mcOpen
    /\ mcOpen' = FALSE /\ mcGroup' = {} /\ mcRemote' = FALSE
    /\ UNCHANGED <<mcPack, mcPub, mcMail, mcDead, mcLost, mcUse>>

\* chan:publish packs (mc_packlocal, mc_packstring or, for a package of
\* another node, mc_packremote); PUB: a dead channel binds one reference and
\* closes it, otherwise one per subscriber is bound.
publish(p) ==
    /\ Idle /\ mcPack[p].state = "none"
    /\ mcPack' = [mcPack EXCEPT ![p] =
                     [reference |-> IF mcOpen THEN Cardinality(mcGroup) ELSE 0,
                      state |-> IF mcOpen THEN "live" ELSE "freed"]]
    /\ mcPub' = IF mcOpen THEN [phase |-> "send", pack |-> p, to |-> mcGroup] ELSE mcPub
    /\ UNCHANGED <<mcGroup, mcOpen, mcRemote, mcMail, mcDead, mcLost, mcUse>>

\* rawsend of the pointer to the next subscriber; nobody takes it from a
\* dead one's queue.
publish_send(s) ==
    /\ mcPub.phase = "send" /\ s \in mcPub.to
    /\ mcPub' = [mcPub EXCEPT !.to = @ \ {s}]
    /\ mcMail' = [mcMail EXCEPT ![s] = IF s \in mcDead THEN @ ELSE @ \union {mcPub.pack}]
    /\ mcLost' = [mcLost EXCEPT ![mcPub.pack] = IF s \in mcDead THEN @ + 1 ELSE @]
    /\ UNCHANGED <<mcGroup, mcOpen, mcRemote, mcPack, mcDead, mcUse>>

\* After all of them: the remote nodes get a copy, read from the package.
publish_remote ==
    /\ mcPub.phase = "send" /\ mcPub.to = {}
    /\ mcPub' = [phase |-> "idle", pack |-> 0, to |-> {}]
    /\ mcUse' = IF mcRemote /\ mcPack[mcPub.pack].state = "freed"
                THEN mcUse \union {"publish_remote"} ELSE mcUse
    /\ UNCHANGED <<mcGroup, mcOpen, mcRemote, mcPack, mcMail, mcDead, mcLost>>

\* Mutant of dispatch_subscribe: one that unsubscribed does not close.
dispatch_subscribe_skip(s, p) ==
    /\ p \in mcMail[s] /\ s \notin mcDead
    /\ mcMail' = [mcMail EXCEPT ![s] = @ \ {p}]
    /\ mcUse' = IF mcPack[p].state = "freed" THEN mcUse \union {"dispatch"} ELSE mcUse
    /\ IF s \in mcGroup THEN mc_closelocal(p) ELSE UNCHANGED mcPack
    /\ UNCHANGED <<mcGroup, mcOpen, mcRemote, mcPub, mcDead, mcLost>>

\* mc_unpacklocal and dispatch_subscribe: the package is closed when the
\* handler returns or raises, and also when the subscriber's own __subscribe,
\* which lags behind mcGroup, or its table of channels says to drop it.
dispatch_subscribe(s, p) ==
    /\ p \in mcMail[s] /\ s \notin mcDead
    /\ mcMail' = [mcMail EXCEPT ![s] = @ \ {p}]
    /\ mcUse' = IF mcPack[p].state = "freed" THEN mcUse \union {"dispatch"} ELSE mcUse
    /\ mc_closelocal(p)
    /\ UNCHANGED <<mcGroup, mcOpen, mcRemote, mcPub, mcDead, mcLost>>

\* dispatch_subscribe when the channel's unpack raises: it is called as an
\* argument of the pcall, outside it, so mc.close is not reached.
unpack_raises(s, p) ==
    /\ p \in mcMail[s] /\ s \notin mcDead
    /\ mcMail' = [mcMail EXCEPT ![s] = @ \ {p}]
    /\ mcUse' = IF mcPack[p].state = "freed" THEN mcUse \union {"dispatch"} ELSE mcUse
    /\ mcLost' = [mcLost EXCEPT ![p] = @ + 1]
    /\ UNCHANGED <<mcGroup, mcOpen, mcRemote, mcPack, mcPub, mcDead>>

\* A subscriber exits: the messages in its queue are dropped, not closed.
subscriber_exit(s) ==
    /\ s \notin mcDead /\ mcDead' = mcDead \union {s}
    /\ mcLost' = [p \in Package |-> mcLost[p] + (IF p \in mcMail[s] THEN 1 ELSE 0)]
    /\ mcMail' = [mcMail EXCEPT ![s] = {}]
    /\ UNCHANGED <<mcGroup, mcOpen, mcRemote, mcPack, mcPub, mcUse>>

MulticastNext ==
    \/ \E s \in Subscriber : SUB(s) \/ USUB(s) \/ publish_send(s) \/ subscriber_exit(s)
    \/ SUBR \/ DEL
    \/ \E p \in Package : publish(p)
    \/ publish_remote
    \/ \E s \in Subscriber, p \in Package : dispatch_subscribe(s, p) \/ unpack_raises(s, p)

MulticastSpec == MulticastInit /\ [][MulticastNext]_mcVars

-----------------------------------------------------------------------------
\* A package's count is the subscribers that still have to get or to close
\* it, so no subscriber reads a freed package and the last one frees it:
\* only a package published to nobody, or one of whose references was lost
\* (with a dead subscriber, or to an unpack that raised) stays allocated.  Only the copy for the remote nodes, which multicastd reads
\* after it has sent the pointers, can find the package freed.
MulticastExact ==
    /\ "dispatch" \notin mcUse
    /\ \A p \in Package :
          mcPack[p].state = "live" =>
             mcPack[p].reference =
                  Cardinality({s \in Subscriber : p \in mcMail[s]}) + mcLost[p]
                + (IF mcPub.pack = p THEN Cardinality(mcPub.to) ELSE 0)
    /\ \A p \in Package : mcPack[p].state = "freed" =>
          mcLost[p] = 0 /\ \A s \in Subscriber : p \notin mcMail[s]
=============================================================================
