------------------------------ MODULE Rosters ------------------------------
(***************************************************************************)
(* Group rosters in the web client (app.ts).  The server knows no group:   *)
(* each client keeps its own copy of the definition, an admin edits its    *)
(* copy and sends it to the others as ginvites, one awaited encryption     *)
(* after the other, and whoever receives one takes it over.                *)
(*                                                                         *)
(* A loop over recipients runs on in microtasks, and nothing else happens  *)
(* in its tab, as long as it has a session for the next one; for one it    *)
(* has none for it waits for the bundle, with what it is about to send     *)
(* already in text and the map of sessions already read (crypto.ts).  Only *)
(* then do clicks, mail and other loops of the tab come between.           *)
(*                                                                         *)
(* One group, one device each.  A session is the handshake that made it    *)
(* and how many messages it has carried: a frame is read by the session of *)
(* its handshake that stands where it stands (Ratchet, Sessions).  Between *)
(* two users messages arrive in order (Delivery).                          *)
(***************************************************************************)
EXTENDS Naturals, Sequences

CONSTANTS
    Person,     \* users
    Owner,      \* the one who creates the group
    Picks,      \* the selections of contacts, in the order of the list
    Loop,       \* handlers that broadcast at the same time
    NoRoster,   \* undefined; no group; no handler
    MaxActs     \* bound: edits, messages to the group, failed sends

In(m, s) == \E i \in DOMAIN s : s[i] = m
Distinct(s) == \A i, j \in DOMAIN s : s[i] = s[j] => i = j

(* Members are listed once: a list is made from a Set, and grows by who is *)
(* not on it.                                                              *)
MemberList == {s \in Seq(Person) : Distinct(s)}

(* The definition of a group.                                              *)
Definition == [name : Nat, members : MemberList, creator : Person \cup {NoRoster}]

(* A session: its handshake, and the number of the next message.           *)
Pairwise == [id : Nat, n : Nat \ {0}]
PairwiseMap == [Person -> Pairwise \cup {NoRoster}]

(* A message: where its session stood, the first one carrying the init,    *)
(* and the definition if it is a ginvite.                                  *)
Letters == [id : Nat, n : Nat, def : Definition \cup {NoRoster}]

(* A call of encrypt that waits for a bundle, and a handler's loop.        *)
Asked == [peer : Person, def : Definition \cup {NoRoster}, map : PairwiseMap]
LoopState ==
    [by : Person, to : MemberList, what : {"create", "current", "fixed", "text"},
     def : Definition \cup {NoRoster}, leaves : BOOLEAN, asked : Asked \cup {NoRoster}]

ASSUME RosterTypes ==
    /\ Owner \in Person
    /\ \A s \in Picks : s \in MemberList /\ ~In(Owner, s)
    /\ NoRoster \notin Person \cup Definition \cup Pairwise \cup Asked \cup LoopState

VARIABLES
    roster,     \* a user's copy: name, members, creator
    panel,      \* users who have the admin panel open
    loop,       \* a broadcast: by whom, to whom still, and what
    outmap,     \* OUT_KEY of a user's tab: its sessions to the others
    inmap,      \* IN_KEY of a user's tab: its sessions from the others
    shakes,     \* history: handshakes so far
    invite,     \* what is under way from a user to another
    edits,      \* history: edits so far, also the names given
    editors,    \* history: who edited
    stale,      \* history: who may not get the owner's present definition
    dropped,    \* history: who deleted the group or left it
    faults, texts

chats == <<outmap, inmap, shakes, invite>>
rosters == <<roster, panel, loop, outmap, inmap, shakes, invite, edits, editors,
             stale, dropped, faults, texts>>

Held(u) == roster[u] # NoRoster

(* filter, of a member list: without m.                                    *)
Except(s, m) ==
    IF In(m, s)
    THEN LET i == CHOOSE i \in DOMAIN s : s[i] = m
         IN  SubSeq(s, 1, i - 1) \o SubSeq(s, i + 1, Len(s))
    ELSE s

(* Creation is edit number 1.                                              *)
More == edits + texts + faults \in 1 .. MaxActs

(* isGroupAdmin.                                                           *)
IsGroupAdmin(u) ==
    \/ roster[u].creator = NoRoster
    \/ roster[u].creator = u
    \/ roster[u].members # <<>> /\ roster[u].members[1] = u

(* Variant: upsertGroup, which only inserts.                               *)
Synced_InsertOnly(old, new) == IF old = NoRoster THEN new ELSE old

(* upsertGroupSync: the definition received, its creator if it has one.    *)
Synced(old, new) ==
    IF old = NoRoster \/ new.creator # NoRoster THEN new
    ELSE [new EXCEPT !.creator = old.creator]

(* upsertGroup, of a message to a group that is not known.                 *)
Placeholder(u, from) ==
    [name |-> 0, members |-> <<u, from>>, creator |-> NoRoster]

(* migrateGroups.                                                          *)
Migrated(u) ==
    [roster[u] EXCEPT !.creator = IF @ = NoRoster THEN u ELSE @,
                      !.members = IF In(u, @) THEN @ ELSE <<u>> \o @]

(* A group that is dropped from the list is still the object of the loops  *)
(* that have it.                                                           *)
Detached(u) ==
    [l \in Loop |->
        IF loop[l] # NoRoster /\ loop[l].by = u /\ loop[l].what = "current"
        THEN [loop[l] EXCEPT !.what = "fixed", !.def = roster[u]] ELSE loop[l]]

(* Handlers are interchangeable: the next one is any idle one.             *)
NextLoop ==
    LET idle == {l \in Loop : loop[l] = NoRoster}
    IN  IF idle = {} THEN {} ELSE {CHOOSE l \in idle : TRUE}

(* A loop that waits for a bundle; a tab in which nothing else runs.       *)
Asking(l) == loop[l] # NoRoster /\ loop[l].asked # NoRoster
Runs(l) == loop[l] # NoRoster /\ loop[l].asked = NoRoster
Still(u) == \A l \in Loop : loop[l] # NoRoster /\ loop[l].by = u => Asking(l)

(* A handler's loop over the recipients to, without oneself.               *)
Starts(l, u, to, what, def, leaves) ==
    loop' = [loop EXCEPT ![l] =
        [by |-> u, to |-> Except(to, u), what |-> what,
         def |-> def, leaves |-> leaves, asked |-> NoRoster]]

-----------------------------------------------------------------------------
(* openCreateGroup: the invitations carry the members picked, whatever the *)
(* group has become.                                                       *)
NewGroup(l, picked) ==
    /\ edits = 0
    /\ LET g == [name |-> 0, members |-> <<Owner>> \o picked, creator |-> Owner]
       IN  /\ roster' = [roster EXCEPT ![Owner] = g]
           /\ Starts(l, Owner, g.members, "create", g, FALSE)
    /\ edits' = 1
    /\ editors' = {Owner}
    /\ UNCHANGED <<panel, chats, stale, dropped, faults, texts>>

(* openGroupAdmin.  That it may be closed again only takes choices away.   *)
OpenPanel(u) ==
    /\ Held(u) /\ IsGroupAdmin(u)
    /\ Still(u)
    /\ panel' = panel \cup {u}
    /\ UNCHANGED <<roster, loop, chats, edits, editors, stale, dropped, faults,
                   texts>>

(* A control of the panel: it does not ask again who is admin.             *)
(* broadcastRoster reads the group's fields for each recipient.  Everyone  *)
(* on the list is told, but who the creation has still to tell may get the *)
(* creation's list last.                                                   *)
Edit(l, u, g, to, leaves) ==
    /\ u \in panel /\ Held(u)
    /\ Still(u)
    /\ More
    /\ roster' = [roster EXCEPT ![u] = g]
    /\ Starts(l, u, to, "current", NoRoster, leaves)
    /\ edits' = edits + 1
    /\ editors' = editors \cup {u}
    /\ stale' = {m \in Person : \E k \in Loop :
                    /\ loop[k] # NoRoster /\ loop[k].what = "create"
                    /\ In(m, loop[k].to)}
    /\ UNCHANGED <<panel, chats, dropped, faults, texts>>

Rename(l, u) ==
    Edit(l, u, [roster[u] EXCEPT !.name = edits], roster[u].members, FALSE)

Without(u, m) == Except(roster[u].members, m)

RemoveMember(l, u, m) ==
    /\ Held(u)
    /\ m \notin {u, roster[u].creator}
    /\ Edit(l, u, [roster[u] EXCEPT !.members = Without(u, m)], Without(u, m),
            FALSE)

(* The new member first, then those there were.                            *)
AddMember(l, u, m) ==
    /\ Held(u)
    /\ ~In(m, roster[u].members)
    /\ Edit(l, u, [roster[u] EXCEPT !.members = Append(@, m)],
            <<m>> \o roster[u].members, FALSE)

(* Leave: the rest is told, then the copy is dropped (EndLoop).            *)
Leave(l, u) ==
    Edit(l, u, [roster[u] EXCEPT !.members = Without(u, u)], Without(u, u), TRUE)

(* teardownGroup, for Delete: the copy of the user alone.                  *)
Delete(u) ==
    /\ u \in panel /\ Held(u)
    /\ Still(u)
    /\ roster' = [roster EXCEPT ![u] = NoRoster]
    /\ panel' = panel \ {u}
    /\ loop' = Detached(u)
    /\ dropped' = dropped \cup {u}
    /\ UNCHANGED <<chats, edits, editors, stale, faults, texts>>

(* sendMessage to the group: to the members there were when it was sent.   *)
SendText(l, u) ==
    /\ Held(u)
    /\ Still(u)
    /\ More
    /\ texts' = texts + 1
    /\ Starts(l, u, roster[u].members, "text", NoRoster, FALSE)
    /\ UNCHANGED <<roster, panel, chats, edits, editors, stale, dropped, faults>>

-----------------------------------------------------------------------------
(* sendApp, one turn of a loop.                                            *)

(* JSON.stringify, of the definition the turn finds.                       *)
Says(l) == IF loop[l].what = "current" THEN roster[loop[l].by] ELSE loop[l].def

(* An owner's ginvite that carried the present definition is missed by m.  *)
Missed(l, m, def) ==
    IF loop[l].by = Owner /\ def # NoRoster /\ def = roster[Owner] THEN {m} ELSE {}

(* A loop that ends early leaves these untold.                             *)
Untold(l, m) ==
    IF loop[l].by = Owner /\ loop[l].what # "text"
    THEN {m} \cup {p \in Person : In(p, loop[l].to)} ELSE {}

(* socket.send of message n of handshake id, next being the loop after it: *)
(* it leaves, or is lost without a word on a socket that is closed; on one *)
(* that is connecting it throws, and the loop ends.                        *)
Sends(l, m, id, n, def, next) ==
    \/ /\ invite' = [invite EXCEPT ![loop[l].by][m] =
            Append(@, [id |-> id, n |-> n, def |-> def])]
       /\ loop' = [loop EXCEPT ![l] = next]
       /\ UNCHANGED <<faults, stale>>
    \/ /\ More
       /\ faults' = faults + 1
       /\ \/ /\ loop' = [loop EXCEPT ![l] = next]
             /\ stale' = stale \cup Missed(l, m, def)
          \/ /\ loop' = [loop EXCEPT ![l] = NoRoster]
             /\ stale' = stale \cup Untold(l, m)
       /\ UNCHANGED invite

(* encrypt with a session: nothing else runs meanwhile.                    *)
SendNow(l) ==
    /\ Runs(l)
    /\ loop[l].to # <<>>
    /\ LET u == loop[l].by
           m == Head(loop[l].to)
           s == outmap[u][m]
       IN  /\ s # NoRoster
           /\ outmap' = [outmap EXCEPT ![u][m] = [id |-> s.id, n |-> s.n + 1]]
           /\ Sends(l, m, s.id, s.n, Says(l), [loop[l] EXCEPT !.to = Tail(@)])
    /\ UNCHANGED <<roster, panel, inmap, shakes, edits, editors, dropped, texts>>

(* encrypt without one: it waits, with the text and the map it has.        *)
AskBundle(l) ==
    /\ Runs(l)
    /\ loop[l].to # <<>>
    /\ LET u == loop[l].by
           m == Head(loop[l].to)
       IN  /\ outmap[u][m] = NoRoster
           /\ loop' = [loop EXCEPT ![l] = [loop[l] EXCEPT !.to = Tail(@),
                 !.asked = [peer |-> m, def |-> Says(l), map |-> outmap[u]]]]
    /\ UNCHANGED <<roster, panel, chats, edits, editors, stale, dropped, faults,
                   texts>>

(* The bundle arrives: a handshake, whoever made one meanwhile, and the    *)
(* map that was read then is saved over the one there is.                  *)
BundleArrives(l) ==
    /\ Asking(l)
    /\ Still(loop[l].by)
    /\ LET a == loop[l].asked
       IN  /\ outmap' = [outmap EXCEPT ![loop[l].by] =
                 [a.map EXCEPT ![a.peer] = [id |-> shakes, n |-> 1]]]
           /\ Sends(l, a.peer, shakes, 0, a.def, [loop[l] EXCEPT !.asked = NoRoster])
    /\ shakes' = shakes + 1
    /\ UNCHANGED <<roster, panel, inmap, edits, editors, dropped, texts>>

(* The bundle cannot be had: encrypt throws, and the loop ends.            *)
BundleFails(l) ==
    /\ Asking(l)
    /\ More
    /\ loop' = [loop EXCEPT ![l] = NoRoster]
    /\ faults' = faults + 1
    /\ stale' = stale \cup Untold(l, loop[l].asked.peer)
    /\ UNCHANGED <<roster, panel, chats, edits, editors, dropped, texts>>

(* The end of a handler: teardownGroup after Leave, refreshGroupAdmin      *)
(* after another edit.                                                     *)
EndLoop(l) ==
    /\ Runs(l)
    /\ loop[l].to = <<>>
    /\ LET u == loop[l].by
       IN  /\ roster' = IF loop[l].leaves THEN [roster EXCEPT ![u] = NoRoster]
                        ELSE roster
           /\ panel' = IF \/ loop[l].what = "text"
                          \/ Held(u) /\ IsGroupAdmin(u) /\ ~loop[l].leaves
                       THEN panel ELSE panel \ {u}
           /\ loop' = [(IF loop[l].leaves THEN Detached(u) ELSE loop)
                        EXCEPT ![l] = NoRoster]
           /\ dropped' = IF loop[l].leaves THEN dropped \cup {u} ELSE dropped
    /\ UNCHANGED <<chats, edits, editors, stale, faults, texts>>

-----------------------------------------------------------------------------
(* decrypt: by the session there is, whatever init comes along, or by the  *)
(* one the init makes.                                                     *)
Legible(u, v, x) ==
    IF inmap[v][u] = NoRoster THEN x.n = 0
    ELSE x.id = inmap[v][u].id /\ x.n = inmap[v][u].n

(* What v keeps of a message from u: a ginvite is taken over, another one  *)
(* makes a placeholder for a group that is not known.                      *)
Heard(u, v, def) ==
    IF def # NoRoster THEN Synced(roster[v], def)
    ELSE IF roster[v] = NoRoster THEN Placeholder(v, u) ELSE roster[v]

(* onIncoming; what cannot be decrypted changes nothing.                   *)
Receive(u, v) ==
    /\ invite[u][v] # <<>>
    /\ Still(v)
    /\ LET x == Head(invite[u][v])
       IN  IF Legible(u, v, x)
           THEN /\ roster' = [roster EXCEPT ![v] = Heard(u, v, x.def)]
                /\ inmap' = [inmap EXCEPT ![v][u] = [id |-> x.id, n |-> x.n + 1]]
                /\ UNCHANGED stale
           ELSE /\ stale' = IF u = Owner /\ x.def # NoRoster /\ x.def = roster[Owner]
                            THEN stale \cup {v} ELSE stale
                /\ UNCHANGED <<roster, inmap>>
    /\ invite' = [invite EXCEPT ![u][v] = Tail(@)]
    /\ UNCHANGED <<panel, loop, outmap, shakes, edits, editors, dropped, faults,
                   texts>>

(* The page is loaded again, its handlers having ended or failed; the      *)
(* sessions outlive that.  startApp migrates, and tells nobody.            *)
Reload(u) ==
    /\ \A l \in Loop : loop[l] # NoRoster => loop[l].by # u
    /\ roster' = IF Held(u) THEN [roster EXCEPT ![u] = Migrated(u)] ELSE roster
    /\ panel' = panel \ {u}
    /\ stale' = IF u = Owner /\ roster' # roster THEN Person ELSE stale
    /\ UNCHANGED <<loop, chats, edits, editors, dropped, faults, texts>>

-----------------------------------------------------------------------------
RostersInit ==
    /\ roster = [u \in Person |-> NoRoster]
    /\ panel = {}
    /\ loop = [l \in Loop |-> NoRoster]
    /\ outmap = [u \in Person |-> [v \in Person |-> NoRoster]]
    /\ inmap = [u \in Person |-> [v \in Person |-> NoRoster]]
    /\ shakes = 0
    /\ invite = [u \in Person |-> [v \in Person |-> <<>>]]
    /\ edits = 0
    /\ editors = {}
    /\ stale = {}
    /\ dropped = {}
    /\ faults = 0
    /\ texts = 0

RostersNext ==
    \/ \E l \in NextLoop, picked \in Picks : NewGroup(l, picked)
    \/ \E u \in Person : OpenPanel(u) \/ Delete(u) \/ Reload(u)
    \/ \E l \in NextLoop, u \in Person : Rename(l, u) \/ Leave(l, u) \/ SendText(l, u)
    \/ \E l \in NextLoop, u, m \in Person : RemoveMember(l, u, m) \/ AddMember(l, u, m)
    \/ \E l \in Loop : \/ SendNow(l) \/ AskBundle(l) \/ BundleArrives(l)
                      \/ BundleFails(l) \/ EndLoop(l)
    \/ \E u, v \in Person : Receive(u, v)

RostersSpec == RostersInit /\ [][RostersNext]_rosters

-----------------------------------------------------------------------------
Quiet ==
    /\ \A l \in Loop : loop[l] = NoRoster
    /\ \A u, v \in Person : invite[u][v] = <<>>

(* When the owner alone has edited the group and everything sent has       *)
(* arrived, its members have the owner's definition, although edits        *)
(* overlap, calls wait for bundles with an older definition in hand, old   *)
(* maps are saved over new ones and messages overtake invitations.  Left   *)
(* behind are at most those who missed the ginvite with the present        *)
(* definition because it was lost, could not be read or was not sent when  *)
(* a broadcast failed, those the creation had still to reach when the last *)
(* edit was made, and all after a migration changed the owner's copy: only *)
(* until the owner's next edit; and who dropped the group.                 *)
RostersConverge ==
    Quiet /\ editors = {Owner} /\ Owner \notin dropped =>
        \A m \in Person \ (dropped \cup stale) :
            In(m, roster[Owner].members) => roster[m] = roster[Owner]
=============================================================================
