----------------------------- MODULE MCServices -----------------------------
(* The parts beside the message path.  They share no state, so a behaviour *)
(* follows one of them, its focus, while the others stay as they started:  *)
(* one group with three devices and two holders; one device and two        *)
(* typists with time for an entry to expire and be renewed; two parties of *)
(* a ratchet whose counter wraps; one tab with two peers; three users, the *)
(* first of whom makes a group with one or both of the others; one tab     *)
(* that writes two messages in three chats.                                *)
EXTENDS Groups, Presence, AiRouting, RatchetPair, Sessions, Rosters, Threads

VARIABLE focus

vars == <<groups, presence, pair, sessions, rosters, threads, focus>>

Init ==
    /\ focus \in {"groups", "presence", "ratchet", "sessions", "rosters", "threads"}
    /\ GroupsInit
    /\ PresenceInit
    /\ PairInit
    /\ SessionsInit
    /\ RostersInit
    /\ ThreadsInit

(* Bound: four messages with one disturbance, three with two.              *)
SessionsBound == posted' + events' <= 5

Next ==
    \/ /\ focus = "groups" /\ GroupsNext
       /\ UNCHANGED <<presence, pair, sessions, rosters, threads, focus>>
    \/ /\ focus = "presence" /\ PresenceNext
       /\ UNCHANGED <<groups, pair, sessions, rosters, threads, focus>>
    \/ /\ focus = "ratchet" /\ PairNext
       /\ UNCHANGED <<groups, presence, sessions, rosters, threads, focus>>
    \/ /\ focus = "sessions" /\ SessionsNext /\ SessionsBound
       /\ UNCHANGED <<groups, presence, pair, rosters, threads, focus>>
    \/ /\ focus = "rosters" /\ RostersNext
       /\ UNCHANGED <<groups, presence, pair, sessions, threads, focus>>
    \/ /\ focus = "threads" /\ ThreadsNext
       /\ UNCHANGED <<groups, presence, pair, sessions, rosters, focus>>

Spec == Init /\ [][Next]_vars

MCKeyOwner == Party \cup Contact \cup {"me"}

(* The contacts v and w, in this order.                                    *)
CONSTANTS v, w
MCPicks == {<<v>>, <<v, w>>}
=============================================================================
