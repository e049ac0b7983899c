------------------------------- MODULE Ratchet -------------------------------
(***************************************************************************)
(* mx-crypto: the PQXDH handshake and the Double Ratchet, as operators on  *)
(* symbolic keys.  A key pair is a name; DH of two names is the pair       *)
(* without order, so both sides compute it; a KDF output is the history of *)
(* its inputs, so it is equal exactly when the inputs are.  A frame opens  *)
(* when the receiver's message key and nonce are the sender's.             *)
(***************************************************************************)
EXTENDS Naturals, Sequences

CONSTANTS
    NoKey,      \* Option::None
    Counter,    \* the counters' modulus: 2^32 in the code
    KeyOwner    \* who owns key pairs, on a first and a second device

ASSUME CounterAssumption == Counter \in Nat \ {0}

(* Key pairs: a device's long-lived ones, the first two of a handshake,    *)
(* and the ones an owner generates as it rotates.                          *)
Name ==
    ({"ik", "spk", "opk", "kem"} \X (KeyOwner \X {1, 2}))
        \cup (({"eph", "dh"} \cup KeyOwner) \X Nat)

DH(a, b) == {a, b}

(* What a KDF takes in: an output of DH, or the inputs of the handshake    *)
(* with the secret of the KEM.                                             *)
HandshakeInput == SUBSET (Name \cup ({"ss"} \X Name \X [to : Name, r : Name]))
Root == Seq((SUBSET Name) \cup Seq(HandshakeInput))
ChainKey == [root : Root, n : Nat]

(* A stored ratchet, and the message of a handshake.                       *)
Blob == Seq(Root \cup Name \cup ChainKey \cup Nat)
InitMessages ==
    [initiator_identity : Name, initiator_ephemeral : Name,
     kem_ciphertext : [to : Name, r : Name], used_one_time : BOOLEAN]

ASSUME NoKeyAssumption == NoKey \notin Name \cup ChainKey \cup Blob \cup InitMessages

-----------------------------------------------------------------------------
(* identity.rs.                                                            *)

(* generate_prekey_bundle: the secrets a device keeps.  The one-time key's *)
(* secret stays with them after its first use.                             *)
Secrets(device) ==
    [identity |-> <<"ik", device>>, signed_prekey |-> <<"spk", device>>,
     one_time_prekey |-> <<"opk", device>>, kem |-> <<"kem", device>>]

(* The public half, which the directory stores and hands out.              *)
Bundle(secrets, with_one_time) ==
    [secrets EXCEPT !.one_time_prekey = IF with_one_time THEN @ ELSE NoKey]

(* An optional field of a blob: a flag, and the value after it.            *)
Flagged(x) == IF x = NoKey THEN <<0>> ELSE <<1, x>>
ReadFlagged(blob, p) == IF blob[p] = 1 THEN blob[p + 1] ELSE NoKey
After(blob, p) == IF blob[p] = 1 THEN p + 2 ELSE p + 1

(* PreKeySecrets::to_bytes, from_bytes.                                    *)
SecretsToBytes(s) ==
    <<s.identity, s.signed_prekey>> \o Flagged(s.one_time_prekey) \o <<s.kem>>
SecretsFromBytes(blob) ==
    [identity |-> blob[1], signed_prekey |-> blob[2],
     one_time_prekey |-> ReadFlagged(blob, 3), kem |-> blob[After(blob, 3)]]

-----------------------------------------------------------------------------
(* pqxdh.rs.                                                               *)

(* kdf_root, over the inputs in their fixed order.                         *)
KdfRoot(dh1, dh2, dh3, dh4, kem_ss) ==
    << <<dh1, dh2, dh3>> \o (IF dh4 = NoKey THEN <<>> ELSE <<dh4>>) \o <<kem_ss>> >>

(* ML-KEM: the secret behind a ciphertext, as key own finds it.  For the   *)
(* key it was made for that is the encapsulated one; any other key finds   *)
(* an unrelated secret and no error.                                       *)
Encapsulate(k, r) == [to |-> k, r |-> r]
Decapsulate(own, ct) == {<<"ss", own, ct>>}

(* initiator_handshake with the ephemeral key eph.                         *)
InitiatorSecret(identity, bundle, eph) ==
    KdfRoot(DH(identity, bundle.signed_prekey), DH(eph, bundle.identity),
            DH(eph, bundle.signed_prekey),
            IF bundle.one_time_prekey = NoKey THEN NoKey
            ELSE DH(eph, bundle.one_time_prekey),
            Decapsulate(bundle.kem, Encapsulate(bundle.kem, eph)))

InitMessage(identity, bundle, eph) ==
    [initiator_identity |-> identity, initiator_ephemeral |-> eph,
     kem_ciphertext |-> Encapsulate(bundle.kem, eph),
     used_one_time |-> bundle.one_time_prekey # NoKey]

(* Variant: the responder always mixes in its one-time key.                *)
ResponderSecret_AlwaysOneTime(secrets, msg) ==
    KdfRoot(DH(secrets.signed_prekey, msg.initiator_identity),
            DH(secrets.identity, msg.initiator_ephemeral),
            DH(secrets.signed_prekey, msg.initiator_ephemeral),
            DH(secrets.one_time_prekey, msg.initiator_ephemeral),
            Decapsulate(secrets.kem, msg.kem_ciphertext))

(* responder_handshake.                                                    *)
ResponderSecret(secrets, msg) ==
    KdfRoot(DH(secrets.signed_prekey, msg.initiator_identity),
            DH(secrets.identity, msg.initiator_ephemeral),
            DH(secrets.signed_prekey, msg.initiator_ephemeral),
            IF msg.used_one_time
            THEN DH(secrets.one_time_prekey, msg.initiator_ephemeral) ELSE NoKey,
            Decapsulate(secrets.kem, msg.kem_ciphertext))

-----------------------------------------------------------------------------
(* ratchet.rs.                                                             *)

(* kdf_rk: the next root, and the chain that starts from it.               *)
KdfRk(root, dh_out) == Append(root, dh_out)
Chain(root) == [root |-> root, n |-> 0]

(* kdf_ck: the chain's next key; its present value is the message key.     *)
KdfCk(chain) == [chain EXCEPT !.n = @ + 1]

(* new_initiator, with its first DH ratchet towards the signed pre-key.    *)
NewInitiator(shared, dh_self, remote) ==
    LET root == KdfRk(shared, DH(dh_self, remote))
    IN  [root_key |-> root, dh_self |-> dh_self, dh_remote |-> remote,
         chain_send |-> Chain(root), chain_recv |-> NoKey,
         send_n |-> 0, recv_n |-> 0]

(* new_responder: no chain before the first frame.                         *)
NewResponder(shared, dh_self) ==
    [root_key |-> shared, dh_self |-> dh_self, dh_remote |-> NoKey,
     chain_send |-> NoKey, chain_recv |-> NoKey, send_n |-> 0, recv_n |-> 0]

(* Variant: the counter runs on into the new chain.                        *)
Rotated_KeepCounter(st, fresh) ==
    LET root == KdfRk(st.root_key, DH(fresh, st.dh_remote))
    IN  [st EXCEPT !.dh_self = fresh, !.root_key = root,
                   !.chain_send = Chain(root)]

(* encrypt, when there is no sending chain: a fresh key, a new root.       *)
Rotated(st, fresh) ==
    LET root == KdfRk(st.root_key, DH(fresh, st.dh_remote))
    IN  [st EXCEPT !.dh_self = fresh, !.root_key = root,
                   !.chain_send = Chain(root), !.send_n = 0]

CanEncrypt(st) == st.chain_send # NoKey \/ st.dh_remote # NoKey
Rotates(st) == st.chain_send = NoKey
ToSend(st, fresh) == IF Rotates(st) THEN Rotated(st, fresh) ELSE st

(* encrypt: the frame.                                                     *)
Frame(st, fresh) ==
    LET s == ToSend(st, fresh)
    IN  [dh |-> s.dh_self, key |-> s.chain_send, nonce |-> s.send_n]

(* Variant: the chain stays where it is.                                   *)
Encrypted_SameChain(st, fresh) ==
    [ToSend(st, fresh) EXCEPT !.send_n = (@ + 1) % Counter]

(* encrypt: the state after it.                                            *)
Encrypted(st, fresh) ==
    [ToSend(st, fresh) EXCEPT !.chain_send = KdfCk(@),
                              !.send_n = (@ + 1) % Counter]

(* Variant: the sending chain outlives the peer's new key.                 *)
Ratcheted_KeepChain(st, dh) ==
    LET root == KdfRk(st.root_key, DH(st.dh_self, dh))
    IN  [st EXCEPT !.root_key = root, !.chain_recv = Chain(root),
                   !.recv_n = 0, !.dh_remote = dh]

(* decrypt: the DH ratchet a new remote key sets off.  It ends the sending *)
(* chain.                                                                  *)
Ratcheted(st, dh) ==
    LET root == KdfRk(st.root_key, DH(st.dh_self, dh))
    IN  [st EXCEPT !.root_key = root, !.chain_recv = Chain(root),
                   !.recv_n = 0, !.dh_remote = dh, !.chain_send = NoKey]

ToReceive(st, frame) ==
    IF st.dh_remote # frame.dh \/ st.chain_recv = NoKey
    THEN Ratcheted(st, frame.dh) ELSE st

(* decrypt: AEAD authentication under the key and nonce due next.          *)
Opens(st, frame) ==
    LET s == ToReceive(st, frame)
    IN  s.chain_recv = frame.key /\ s.recv_n = frame.nonce

(* decrypt: the state after a frame that opened.                           *)
Decrypted(st, frame) ==
    [ToReceive(st, frame) EXCEPT !.chain_recv = KdfCk(@),
                                 !.recv_n = (@ + 1) % Counter]

(* RatchetState::to_bytes.                                                 *)
ToBytes(st) ==
    <<st.root_key, st.dh_self>> \o Flagged(st.dh_remote)
        \o Flagged(st.chain_send) \o Flagged(st.chain_recv)
        \o <<st.send_n, st.recv_n>>

(* Variant: the chains are read in the other order.                        *)
FromBytes_Swapped(blob) ==
    LET p == After(blob, 3)
        q == After(blob, p)
        r == After(blob, q)
    IN  [root_key |-> blob[1], dh_self |-> blob[2],
         dh_remote |-> ReadFlagged(blob, 3),
         chain_send |-> ReadFlagged(blob, q),
         chain_recv |-> ReadFlagged(blob, p),
         send_n |-> blob[r], recv_n |-> blob[r + 1]]

(* RatchetState::from_bytes, with its cursor.                              *)
FromBytes(blob) ==
    LET p == After(blob, 3)
        q == After(blob, p)
        r == After(blob, q)
    IN  [root_key |-> blob[1], dh_self |-> blob[2],
         dh_remote |-> ReadFlagged(blob, 3),
         chain_send |-> ReadFlagged(blob, p),
         chain_recv |-> ReadFlagged(blob, q),
         send_n |-> blob[r], recv_n |-> blob[r + 1]]

-----------------------------------------------------------------------------
(* session.rs: a handshake and the ratchet it seeds.                       *)

InitiatorSession(identity, bundle, eph, dh_self) ==
    NewInitiator(InitiatorSecret(identity, bundle, eph), dh_self,
                 bundle.signed_prekey)

ResponderSession(secrets, init) ==
    NewResponder(ResponderSecret(secrets, init), secrets.signed_prekey)
=============================================================================
