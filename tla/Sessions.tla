------------------------------ MODULE Sessions ------------------------------
(***************************************************************************)
(* The client's session layer (web/src/crypto.ts over mx-crypto-wasm): one *)
(* tab that sends, its map of outbound sessions, and the peers it sends    *)
(* to.  Each direction is a ratchet of its own, so only this one is        *)
(* modelled.  The tab's map lives in storage: encrypt reads all of it,     *)
(* may wait for the directory, and writes all of it back.  Sessions are    *)
(* kept as blobs; every step of the ratchet restores one and stores it     *)
(* again, unless it fails.                                                 *)
(*                                                                         *)
(* Storage of a tab ends with the tab; the keys of a device do not.  Mail  *)
(* reaches a peer in order (Delivery), but a frame may be lost: to a       *)
(* socket that is not open, or with a batch the gateway had drained.       *)
(***************************************************************************)
EXTENDS Ratchet, FiniteSets

CONSTANTS
    Contact,    \* the peers
    Call,       \* calls of encrypt that may wait at the same time
    MaxPosted,  \* bound: messages
    MaxEvents   \* bound: closed tabs, lost frames, logins elsewhere

(* An outbound session, and a call that waits.                             *)
OutSession == [ratchet : Blob, init : InitMessages, sentInit : BOOLEAN]
OutMap == [Contact -> OutSession \cup {NoKey}]
WaitingCall == [peer : Contact, map : OutMap]

ASSUME SessionTypes ==
    /\ Contact \cup {"me"} \subseteq KeyOwner
    /\ NoKey \notin OutSession \cup WaitingCall

VARIABLES
    out,        \* OUT_KEY: the tab's outbound sessions
    call,       \* calls waiting for a bundle: the peer and the map they read
    inbound,    \* IN_KEY of a peer's tab: its session from this sender
    device,     \* the device whose inbound mail is watched: 1, or 2 after
                \* the peer logged in elsewhere
    one_time,   \* the directory still has the peer's one-time key
    mail,       \* payloads on their way to a peer
    posted,     \* history: messages encrypted
    events,     \* history: disturbances so far
    spent,      \* history: message keys used
    reused,     \* history: peers for whom one was used twice
    rolled,     \* history: peers whose entry a waiting call overwrote
    disturbed   \* history: peers whose direction is out of step

sessions == <<out, call, inbound, device, one_time, mail, posted, events,
              spent, reused, rolled, disturbed>>

Waiting(c) == call[c] # NoKey

(* The keys of a contact's devices; provisionAccount makes them per device. *)
KeysOf(p) == SecretsFromBytes(SecretsToBytes(Secrets(<<p, device[p]>>)))

(* fetch_user_prekey: the bundle of the peer's first device, whichever it  *)
(* uses now.                                                               *)
Fetched(p) == Bundle(Secrets(<<p, 1>>), one_time[p])

-----------------------------------------------------------------------------
(* ratchet_encrypt on the session a map holds for p; dh is never fresh     *)
(* here, as an initiator has its sending chain.                            *)
Step(sess) ==
    [sess EXCEPT !.ratchet = ToBytes(Encrypted(FromBytes(@), NoKey)),
                 !.sentInit = TRUE]

Payload(sess) ==
    [f |-> Frame(FromBytes(sess.ratchet), NoKey),
     init |-> IF sess.sentInit THEN NoKey ELSE sess.init]

(* session_initiator, for the n-th session.                                *)
Established(p, n) ==
    LET me == Secrets(<<"me", 1>>).identity
    IN  [ratchet |-> ToBytes(InitiatorSession(me, Fetched(p), <<"eph", n>>,
                                              <<"dh", n>>)),
         init |-> InitMessage(me, Fetched(p), <<"eph", n>>),
         sentInit |-> FALSE]

(* The payload leaves for p.                                               *)
Post(p, sess) ==
    /\ mail' = [mail EXCEPT ![p] = Append(@, Payload(sess))]
    /\ posted' = posted + 1
    /\ spent' = spent \cup {Payload(sess).f.key}
    /\ reused' = IF Payload(sess).f.key \in spent THEN reused \cup {p} ELSE reused

(* Variant: the first message alone moves the stored ratchet.              *)
EncryptNow_Unsaved(p) ==
    /\ posted < MaxPosted
    /\ out[p] # NoKey
    /\ Post(p, out[p])
    /\ UNCHANGED <<out, call, inbound, device, one_time, events, rolled, disturbed>>

(* encrypt, when the map has a session for p: no wait.                     *)
EncryptNow(p) ==
    /\ posted < MaxPosted
    /\ out[p] # NoKey
    /\ Post(p, out[p])
    /\ out' = [out EXCEPT ![p] = Step(@)]
    /\ UNCHANGED <<call, inbound, device, one_time, events, rolled, disturbed>>

(* encrypt, when it has none: it holds the map it read while it waits.     *)
FetchBundle(c, p) ==
    /\ ~Waiting(c)
    /\ out[p] = NoKey
    /\ posted + Cardinality({d \in Call : Waiting(d)}) < MaxPosted
    /\ call' = [call EXCEPT ![c] = [peer |-> p, map |-> out]]
    /\ UNCHANGED <<out, inbound, device, one_time, mail, posted, events, spent,
                   reused, rolled, disturbed>>

(* Out of step after c saves its map: whoever's entry changed meanwhile,   *)
(* and a peer who now reads on another device than the directory's.        *)
Overwritten(c) == {q \in Contact : out[q] # call[c].map[q]}
FreshStart(p) == inbound[p] = NoKey /\ mail[p] = <<>> /\ device[p] = 1

(* The bundle arrives: the handshake, the first message, and the whole map *)
(* written over whatever is stored by now.                                 *)
Establish(c) ==
    /\ Waiting(c)
    /\ LET p == call[c].peer
           sess == Established(p, posted)
       IN  /\ Post(p, sess)
           /\ out' = [call[c].map EXCEPT ![p] = Step(sess)]
           /\ one_time' = [one_time EXCEPT ![p] = FALSE]
           /\ rolled' = rolled \cup Overwritten(c)
           /\ disturbed' = (IF FreshStart(p) THEN disturbed \ {p} ELSE disturbed)
                           \cup Overwritten(c)
    /\ call' = [call EXCEPT ![c] = NoKey]
    /\ UNCHANGED <<inbound, device, events>>

(* The directory has answered some of the requests about these peers, and  *)
(* a one-time key it gave out is gone though the answer never arrives.     *)
Answered(peers) ==
    \E served \in SUBSET peers :
        one_time' = [p \in Contact |-> one_time[p] /\ p \notin served]

(* The directory answers with an error, or the answer is lost: encrypt     *)
(* throws.                                                                 *)
FetchFails(c) ==
    /\ Waiting(c)
    /\ call' = [call EXCEPT ![c] = NoKey]
    /\ Answered({call[c].peer})
    /\ UNCHANGED <<out, inbound, device, mail, posted, events, spent, reused,
                   rolled, disturbed>>

-----------------------------------------------------------------------------
(* decrypt: the session there is, or the one the init seeds.               *)
InSession(p, payload) ==
    IF inbound[p] # NoKey THEN inbound[p]
    ELSE IF payload.init = NoKey THEN NoKey
    ELSE ToBytes(ResponderSession(KeysOf(p), payload.init))

Readable(p, payload) ==
    /\ InSession(p, payload) # NoKey
    /\ Opens(FromBytes(InSession(p, payload)), payload.f)

(* decrypt and ratchet_decrypt; on an error nothing is stored.             *)
Deliver(p) ==
    /\ mail[p] # <<>>
    /\ LET payload == Head(mail[p])
       IN  inbound' = IF Readable(p, payload)
                      THEN [inbound EXCEPT ![p] =
                         ToBytes(Decrypted(FromBytes(InSession(p, payload)), payload.f))]
                      ELSE inbound
    /\ mail' = [mail EXCEPT ![p] = Tail(@)]
    /\ UNCHANGED <<out, call, device, one_time, posted, events, spent, reused,
                   rolled, disturbed>>

-----------------------------------------------------------------------------
(* What happens to a session from outside.                                 *)
Event ==
    /\ events < MaxEvents
    /\ events' = events + 1

(* The sending tab is closed: its map and its waiting calls are gone.      *)
CloseTab ==
    /\ Event
    /\ out' = [p \in Contact |-> NoKey]
    /\ call' = [c \in Call |-> NoKey]
    /\ Answered({call[c].peer : c \in {d \in Call : Waiting(d)}})
    /\ disturbed' = disturbed \cup {p \in Contact : inbound[p] # NoKey \/ mail[p] # <<>>}
    /\ UNCHANGED <<inbound, device, mail, posted, spent, reused, rolled>>

(* A peer's tab is closed and opened again: its map is gone, its keys are  *)
(* not; republishPrekeys offers the one-time key anew.                     *)
ClosePeer(p) ==
    /\ Event
    /\ inbound' = [inbound EXCEPT ![p] = NoKey]
    /\ one_time' = [one_time EXCEPT ![p] = one_time[p] \/ device[p] = 1]
    /\ disturbed' = IF out[p] # NoKey \/ mail[p] # <<>> THEN disturbed \cup {p}
                    ELSE disturbed
    /\ UNCHANGED <<out, call, device, mail, posted, spent, reused, rolled>>

(* The peer logs in elsewhere: a second device, with keys of its own and   *)
(* an empty map, behind the first in the directory.                        *)
LoginElsewhere(p) ==
    /\ Event
    /\ device[p] = 1
    /\ device' = [device EXCEPT ![p] = 2]
    /\ inbound' = [inbound EXCEPT ![p] = NoKey]
    /\ disturbed' = disturbed \cup {p}
    /\ UNCHANGED <<out, call, one_time, mail, posted, spent, reused, rolled>>

(* A payload is lost.                                                      *)
Lose(p) ==
    /\ Event
    /\ mail[p] # <<>>
    /\ mail' = [mail EXCEPT ![p] = Tail(@)]
    /\ disturbed' = disturbed \cup {p}
    /\ UNCHANGED <<out, call, inbound, device, one_time, posted, spent, reused, rolled>>

-----------------------------------------------------------------------------
SessionsInit ==
    /\ out = [p \in Contact |-> NoKey]
    /\ call = [c \in Call |-> NoKey]
    /\ inbound = [p \in Contact |-> NoKey]
    /\ device = [p \in Contact |-> 1]
    /\ one_time = [p \in Contact |-> TRUE]
    /\ mail = [p \in Contact |-> <<>>]
    /\ posted = 0
    /\ events = 0
    /\ spent = {}
    /\ reused = {}
    /\ rolled = {}
    /\ disturbed = {}

SessionsNext ==
    \/ \E p \in Contact : EncryptNow(p) \/ Deliver(p)
    \/ \E c \in Call, p \in Contact : FetchBundle(c, p)
    \/ \E c \in Call : Establish(c) \/ FetchFails(c)
    \/ CloseTab
    \/ \E p \in Contact : ClosePeer(p) \/ LoginElsewhere(p) \/ Lose(p)

SessionsSpec == SessionsInit /\ [][SessionsNext]_sessions

-----------------------------------------------------------------------------
(* The message that arrives next can be read, unless the direction is out  *)
(* of step: a frame was lost, one of the two tabs was closed alone, the    *)
(* peer reads elsewhere, or a call that waited wrote back an old map.      *)
(* Waiting calls, spent one-time keys and sessions to other peers do not   *)
(* matter, and a handshake that finds the peer without a session, and no   *)
(* mail under way, puts the direction right again.                         *)
ReadableInStep ==
    \A p \in Contact :
        p \notin disturbed /\ mail[p] # <<>> => Readable(p, Head(mail[p]))

(* A message key is used for two messages only to a peer whose session a   *)
(* waiting call has set back: saving that old map is the only way to it    *)
(* (MessageKeysUsedOnce), and a lost tab, a new handshake or a wrapped     *)
(* counter is none.                                                        *)
ReuseNeedsOldMap == reused \subseteq rolled

(* What the comment on nonce_from_counter promises: "Each message key is   *)
(* used exactly once", which is what makes its nonces safe.                *)
MessageKeysUsedOnce == reused = {}

(* What the comment on the storage of sessions promises: a reload or a     *)
(* restart heals itself with a new handshake, whose first message the peer *)
(* reads on the device the handshake was made for.                         *)
NewHandshakeHeals ==
    \A p \in Contact :
        mail[p] # <<>> /\ Head(mail[p]).init # NoKey /\ device[p] = 1
        => Readable(p, Head(mail[p]))
=============================================================================
