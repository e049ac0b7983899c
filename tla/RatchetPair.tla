----------------------------- MODULE RatchetPair -----------------------------
(***************************************************************************)
(* Two parties over one Double Ratchet, each sending whenever it likes,    *)
(* with a channel in order each way: what the library promises its users.  *)
(* The messages cross in every way the channels allow, so a party may      *)
(* ratchet on a key its peer has already replaced.                         *)
(***************************************************************************)
EXTENDS Ratchet, FiniteSets

CONSTANTS MaxSent   \* bound: messages of a party

Party == {"alice", "bob"}
Peer(p) == IF p = "alice" THEN "bob" ELSE "alice"

ASSUME PartyAssumption == Party \subseteq KeyOwner

VARIABLES
    rt,         \* a party's RatchetState
    wire,       \* frames on their way to a party
    sent,       \* frames a party has encrypted
    used,       \* history: the message keys used
    due         \* history: the peer's key is newer than the party's own

pair == <<rt, wire, sent, used, due>>

(* The key a party generates when it rotates.                              *)
FreshKey(p) == <<p, sent[p]>>

(* Bob's bundle is fetched once, with its one-time key.                    *)
PairInit ==
    LET bob == Secrets(<<"bob", 1>>)
        bundle == Bundle(bob, TRUE)
        id == Secrets(<<"alice", 1>>).identity
    IN  /\ rt = [p \in Party |->
                   IF p = "alice"
                   THEN InitiatorSession(id, bundle, <<"eph", 0>>, <<"dh", 0>>)
                   ELSE ResponderSession(bob, InitMessage(id, bundle, <<"eph", 0>>))]
        /\ wire = [p \in Party |-> <<>>]
        /\ sent = [p \in Party |-> 0]
        /\ used = {}
        /\ due = [p \in Party |-> FALSE]

(* encrypt; the responder cannot before it has heard from the initiator.   *)
SendFrame(p) ==
    /\ sent[p] < MaxSent
    /\ CanEncrypt(rt[p])
    /\ LET frame == Frame(rt[p], FreshKey(p))
       IN  /\ wire' = [wire EXCEPT ![Peer(p)] =
                 Append(@, [frame |-> frame,
                            stale |-> due[p] /\ frame.dh = rt[p].dh_self])]
           /\ used' = used \cup {frame.key}
    /\ rt' = [rt EXCEPT ![p] = Encrypted(@, FreshKey(p))]
    /\ sent' = [sent EXCEPT ![p] = @ + 1]
    /\ due' = [due EXCEPT ![p] = FALSE]

(* decrypt, of the next frame; a frame that fails would keep the ratchet   *)
(* step it set off.                                                        *)
ReceiveFrame(p) ==
    /\ wire[p] # <<>>
    /\ LET frame == Head(wire[p]).frame
       IN  /\ rt' = [rt EXCEPT ![p] = IF Opens(@, frame) THEN Decrypted(@, frame)
                                      ELSE ToReceive(@, frame)]
           /\ due' = [due EXCEPT ![p] = @ \/ rt[p].dh_remote # frame.dh]
    /\ wire' = [wire EXCEPT ![p] = Tail(@)]
    /\ UNCHANGED <<sent, used>>

PairNext == \E p \in Party : SendFrame(p) \/ ReceiveFrame(p)

PairSpec == PairInit /\ [][PairNext]_pair

-----------------------------------------------------------------------------
(* However the two directions cross, the frame that arrives next opens:    *)
(* neither side's DH ratchet step can leave the other behind.              *)
CrossingFramesOpen ==
    \A p \in Party : wire[p] # <<>> => Opens(rt[p], Head(wire[p]).frame)

(* No message key encrypts two messages, across chains, both parties and   *)
(* the counter's wrap-around.                                              *)
KeyUsedOnce == Cardinality(used) = sent["alice"] + sent["bob"]

(* After the peer's new key has arrived, the next message goes out under a *)
(* new key of one's own: the root never stays as it was for a round trip.  *)
RoundTripRenewsKeys ==
    \A p \in Party : \A i \in DOMAIN wire[p] : ~wire[p][i].stale

(* A session that is stored between two steps comes back as it was.        *)
StoredSessionSame == \A p \in Party : FromBytes(ToBytes(rt[p])) = rt[p]
=============================================================================
