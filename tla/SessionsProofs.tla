--------------------------- MODULE SessionsProofs ---------------------------
(***************************************************************************)
(* Proofs about the client's session layer, for every set of peers and of  *)
(* waiting calls and any number of messages and disturbances.  A direction *)
(* nothing has disturbed is quiet, or its two ratchets are in step: the    *)
(* letters under way are the next keys of the chain the peer receives on,  *)
(* or the peer has no session yet and the first letter's handshake seeds   *)
(* the ratchet the sender's is one step ahead of.                          *)
(***************************************************************************)
EXTENDS Sessions, RatchetProofs

Letter == [f : FrameType, init : InitMessages \cup {NoKey}]

(* The ratchet a stored session holds.                                     *)
St(sess) == FromBytes(sess.ratchet)

(* The root of a session with p, established after n messages.             *)
RootFor(root, p, n) ==
    \E shared \in Root : root = KdfRk(shared, DH(<<"dh", n>>, <<"spk", <<p, 1>>>>))

(* A session with p, of the first k messages, that can send.               *)
SessionWith(sess, p, k) ==
    /\ sess \in OutSession
    /\ Sound(St(sess)) /\ St(sess).chain_send # NoKey
    /\ \E n \in Nat : n < k /\ RootFor(St(sess).root_key, p, n)

MapSound(map, k) ==
    /\ map \in OutMap
    /\ \A p \in Contact : map[p] # NoKey => SessionWith(map[p], p, k)

(* The letters of w are the keys of s from the n-th to the last one used.  *)
Run(s, w, n) ==
    /\ n \in Nat
    /\ s.chain_send.n = n + Len(w)
    /\ \A i \in 1 .. Len(w) : w[i].f = FrameOn(s.dh_self, s.root_key, n + i - 1)

(* The peer's ratchet r is on the chain of s, at the first letter.         *)
OnChain(s, r, w) ==
    /\ Sound(r) /\ r.chain_recv # NoKey
    /\ r.dh_remote = s.dh_self /\ r.chain_recv.root = s.root_key
    /\ Run(s, w, r.chain_recv.n)

(* The peer's ratchet r is new, and s a DH step ahead.                     *)
AtStart(s, r, w) ==
    /\ w # <<>>
    /\ Sound(r) /\ r.dh_remote = NoKey
    /\ s.root_key = KdfRk(r.root_key, DH(r.dh_self, s.dh_self))
    /\ Run(s, w, 0)

(* The three shapes of a direction in step: quiet, running, starting; o is *)
(* the sender's session, in the peer's and w the letters under way.        *)
Quiet(o, in, w) == o = NoKey /\ in = NoKey /\ w = <<>>
Running(o, in, w) ==
    o # NoKey /\ in # NoKey /\ OnChain(St(o), FromBytes(in), w)
Starting(p, o, in, w) ==
    /\ o # NoKey /\ in = NoKey
    /\ w # <<>> /\ Head(w).init # NoKey
    /\ AtStart(St(o), ResponderSession(Secrets(<<p, 1>>), Head(w).init), w)

Direction(p, o, in, w) ==
    Quiet(o, in, w) \/ Running(o, in, w) \/ Starting(p, o, in, w)

InStep(p) == device[p] = 1 /\ Direction(p, out[p], inbound[p], mail[p])

SessionsTyped ==
    /\ posted \in Nat
    /\ device \in [Contact -> {1, 2}]
    /\ one_time \in [Contact -> BOOLEAN]
    /\ mail \in [Contact -> Seq(Letter)]
    /\ DOMAIN inbound = Contact
    /\ call \in [Call -> WaitingCall \cup {NoKey}]

SessionsInv ==
    /\ SessionsTyped
    /\ MapSound(out, posted)
    /\ \A c \in Call : Waiting(c) => /\ MapSound(call[c].map, posted)
                                     /\ call[c].map[call[c].peer] = NoKey
    /\ \A p \in Contact : p \notin disturbed => InStep(p)

(* Spent keys are of sessions established before, and lie behind the head  *)
(* of the chain of every session no old map has replaced.                  *)
SpentInv ==
    /\ spent \subseteq ChainKey
    /\ reused \subseteq rolled
    /\ \A k \in spent : \E p \in Contact, n \in Nat : n < posted /\ RootFor(k.root, p, n)
    /\ \A p \in Contact : p \notin rolled /\ out[p] # NoKey =>
          \A k \in spent : k.root = St(out[p]).root_key => k.n < St(out[p]).chain_send.n

-----------------------------------------------------------------------------
(* A stored ratchet is a blob.                                             *)
LEMMA ToBytesType ==
    ASSUME NEW s \in RatchetState
    PROVE  ToBytes(s) \in Blob /\ ToBytes(s) # NoKey
  <1>1. PICK V : V = Root \cup Name \cup ChainKey \cup Nat
    OBVIOUS
  <1>2. PICK a \in V, b \in V, c \in V \cup {NoKey}, d \in V \cup {NoKey},
             e \in V \cup {NoKey}, m \in V, n \in V :
             /\ a = s.root_key /\ b = s.dh_self /\ c = s.dh_remote
             /\ d = s.chain_send /\ e = s.chain_recv /\ m = s.send_n /\ n = s.recv_n
    BY <1>1 DEF RatchetState
  <1>3. \A x \in V \cup {NoKey} : Flagged(x) \in Seq(V)
    <2>1. 0 \in V /\ 1 \in V
      BY <1>1
    <2>2. QED
      BY <2>1 DEF Flagged
  <1>4. /\ <<a, b>> \in Seq(V) /\ <<m, n>> \in Seq(V)
        /\ Flagged(c) \in Seq(V) /\ Flagged(d) \in Seq(V) /\ Flagged(e) \in Seq(V)
    BY <1>3
  <1>5. <<a, b>> \o Flagged(c) \o Flagged(d) \o Flagged(e) \o <<m, n>> \in Seq(V)
    BY <1>4, ConcatProperties
  <1>6. ToBytes(s) \in Blob
    BY <1>1, <1>2, <1>5 DEF ToBytes, Blob
  <1>7. QED
    BY <1>6, NoKeyAssumption

(* PreKeySecrets::from_bytes undoes to_bytes.                              *)
LEMMA SecretsRoundTrip ==
    ASSUME NEW p \in Contact, device[p] = 1
    PROVE  KeysOf(p) = Secrets(<<p, 1>>)
  <1>1. PICK d \in KeyOwner \X {1, 2} : d = <<p, 1>> /\ d = <<p, device[p]>>
    BY SessionTypes
  <1>2. PICK ik, spk, opk, kem : /\ ik = <<"ik", d>> /\ spk = <<"spk", d>>
                                 /\ opk = <<"opk", d>> /\ kem = <<"kem", d>>
    OBVIOUS
  <1>3. opk # NoKey
    <2>1. opk \in Name
      BY <1>1, <1>2 DEF Name
    <2>2. QED
      BY <2>1, NoKeyAssumption
  <1>4. Secrets(d) = [identity |-> ik, signed_prekey |-> spk,
                      one_time_prekey |-> opk, kem |-> kem]
    BY <1>2 DEF Secrets
  <1>5. PICK s : s = Secrets(d)
    OBVIOUS
  <1>6. SecretsFromBytes(SecretsToBytes(s)) = s
    BY <1>3, <1>4, <1>5 DEF SecretsFromBytes, SecretsToBytes, Flagged, ReadFlagged, After
  <1>7. QED
    BY <1>1, <1>5, <1>6 DEF KeysOf

(* ratchet_encrypt on a stored session.                                    *)
LEMMA StepEffect ==
    ASSUME NEW p \in Contact, NEW k, NEW sess, SessionWith(sess, p, k)
    PROVE  /\ Payload(sess) \in Letter
           /\ Payload(sess).f = FrameOn(St(sess).dh_self, St(sess).root_key,
                                        St(sess).chain_send.n)
           /\ Payload(sess).f.key = Key(St(sess).root_key, St(sess).chain_send.n)
           /\ Payload(sess).f.key \in ChainKey
           /\ Payload(sess).init = IF sess.sentInit THEN NoKey ELSE sess.init
           /\ SessionWith(Step(sess), p, k)
           /\ St(Step(sess)).dh_self = St(sess).dh_self
           /\ St(Step(sess)).root_key = St(sess).root_key
           /\ St(Step(sess)).chain_send.n = St(sess).chain_send.n + 1
           /\ St(sess).chain_send.n \in Nat
           /\ Step(sess) # NoKey
  <1>1. PICK s : s = St(sess) /\ s = FromBytes(sess.ratchet)
    BY DEF St
  <1>2. Sound(s) /\ s.chain_send # NoKey
    BY <1>1 DEF SessionWith
  <1>3. PICK t : t = Encrypted(s, NoKey)
    OBVIOUS
  <1>4. /\ s.chain_send \in ChainKey /\ s.chain_send.n \in Nat
        /\ Frame(s, NoKey) = FrameOn(s.dh_self, s.root_key, s.chain_send.n)
        /\ Frame(s, NoKey).key = s.chain_send
        /\ Frame(s, NoKey) \in FrameType
        /\ Sound(t)
        /\ t.root_key = s.root_key /\ t.dh_self = s.dh_self
        /\ t.chain_send = Key(s.root_key, s.chain_send.n + 1)
    BY <1>2, <1>3, EncryptOnChain
  <1>5. Frame(s, NoKey).key = Key(s.root_key, s.chain_send.n)
    BY <1>2, <1>4, KeyFacts DEF Sound
  <1>6. t.chain_send # NoKey /\ t.chain_send.n = s.chain_send.n + 1
    <2>1. s.root_key \in Root /\ s.chain_send.n + 1 \in Nat
      BY <1>2, <1>4 DEF Sound, RatchetState
    <2>2. QED
      BY <1>4, <2>1, KeyType, KeyParts
  <1>7. t \in RatchetState
    BY <1>4 DEF Sound
  <1>8. PICK blob \in Blob : blob = ToBytes(t) /\ FromBytes(blob) = t
    BY <1>7, ToBytesType, BlobRoundTrip
  <1>9. /\ Step(sess) = [sess EXCEPT !.ratchet = blob, !.sentInit = TRUE]
        /\ sess \in OutSession
    BY <1>1, <1>3, <1>8 DEF Step, SessionWith
  <1>10. Step(sess) \in OutSession /\ Step(sess).ratchet = blob
    BY <1>9 DEF OutSession
  <1>11. St(Step(sess)) = t
    BY <1>8, <1>10 DEF St
  <1>12. Step(sess) # NoKey
    BY <1>10, SessionTypes
  <1>13. SessionWith(Step(sess), p, k)
    BY <1>1, <1>4, <1>6, <1>10, <1>11 DEF SessionWith
  <1>14. /\ Payload(sess) = [f |-> Frame(s, NoKey),
                             init |-> IF sess.sentInit THEN NoKey ELSE sess.init]
         /\ sess.init \in InitMessages
    BY <1>1, <1>9 DEF Payload, OutSession
  <1>15. /\ Payload(sess) \in Letter /\ Payload(sess).f = Frame(s, NoKey)
         /\ Payload(sess).init = IF sess.sentInit THEN NoKey ELSE sess.init
    BY <1>4, <1>14 DEF Letter
  <1>16. QED
    BY <1>1, <1>4, <1>5, <1>6, <1>11, <1>12, <1>13, <1>15

(* session_initiator: a sound session, and the peer that reads its init    *)
(* will be one DH step behind.                                             *)
LEMMA EstablishEffect ==
    ASSUME NEW p \in Contact, one_time[p] \in BOOLEAN, NEW n \in Nat
    PROVE  /\ SessionWith(Established(p, n), p, n + 1)
           /\ RootFor(St(Established(p, n)).root_key, p, n)
           /\ St(Established(p, n)).chain_send.n = 0
           /\ Established(p, n).sentInit = FALSE
           /\ Established(p, n).init # NoKey
           /\ \E r : /\ r = ResponderSession(Secrets(<<p, 1>>), Established(p, n).init)
                     /\ Sound(r) /\ r.dh_remote = NoKey
                     /\ St(Established(p, n)).root_key
                          = KdfRk(r.root_key, DH(r.dh_self, St(Established(p, n)).dh_self))
  <1>1. PICK d \in KeyOwner \X {1, 2} : d = <<p, 1>>
    BY SessionTypes
  <1>2. PICK id \in Name, eph \in Name, dh \in Name, spk \in Name :
             /\ id = Secrets(<<"me", 1>>).identity
             /\ eph = <<"eph", n>> /\ dh = <<"dh", n>> /\ spk = <<"spk", d>>
    <2>1. Secrets(<<"me", 1>>).identity = <<"ik", <<"me", 1>>>>
      BY DEF Secrets
    <2>2. /\ <<"ik", <<"me", 1>>>> \in Name
          /\ <<"eph", n>> \in Name /\ <<"dh", n>> \in Name /\ <<"spk", d>> \in Name
      BY <1>1, SessionTypes DEF Name
    <2>3. QED
      BY <2>1, <2>2
  <1>3. PICK keys, offer, msg :
             /\ keys = Secrets(d) /\ offer = Bundle(keys, one_time[p])
             /\ msg = InitMessage(id, offer, eph)
    OBVIOUS
  <1>4. Agreed(id, eph, d, keys, offer, msg)
    BY <1>3, Handshake
  <1>5. PICK shared \in Root :
             /\ shared = InitiatorSecret(id, offer, eph)
             /\ shared = ResponderSecret(keys, msg)
             /\ spk = offer.signed_prekey /\ spk = keys.signed_prekey
             /\ msg \in InitMessages
    BY <1>2, <1>4 DEF Agreed
  <1>6. PICK a, b : a = NewInitiator(shared, dh, spk) /\ b = NewResponder(shared, spk)
    OBVIOUS
  <1>7. Seeded(shared, dh, spk, a, b)
    BY <1>6, FirstStates
  <1>8. a = InitiatorSession(id, offer, eph, dh) /\ b = ResponderSession(keys, msg)
    BY <1>5, <1>6 DEF InitiatorSession, ResponderSession
  <1>9. a \in RatchetState
    BY <1>7 DEF Seeded, Sound
  <1>10. PICK blob \in Blob : blob = ToBytes(a) /\ FromBytes(blob) = a
    BY <1>9, ToBytesType, BlobRoundTrip
  <1>11. PICK sess : sess = Established(p, n)
    OBVIOUS
  <1>12. sess = [ratchet |-> blob, init |-> msg, sentInit |-> FALSE]
    <2>1. offer = Fetched(p)
      BY <1>1, <1>3 DEF Fetched
    <2>2. QED
      BY <1>2, <1>3, <1>8, <1>10, <1>11, <2>1 DEF Established
  <1>13. /\ sess \in OutSession /\ sess.init = msg /\ sess.sentInit = FALSE
         /\ sess.ratchet = blob
    BY <1>5, <1>12 DEF OutSession
  <1>14. St(sess) = a
    BY <1>10, <1>13 DEF St
  <1>15. msg # NoKey
    BY <1>5, NoKeyAssumption
  <1>16. a.root_key = KdfRk(shared, DH(dh, spk))
    BY <1>7 DEF Seeded
  <1>17. RootFor(a.root_key, p, n)
    BY <1>1, <1>2, <1>16 DEF RootFor
  <1>18. SessionWith(sess, p, n + 1)
    <2>1. n < n + 1
      OBVIOUS
    <2>2. Sound(a) /\ a.chain_send # NoKey
      BY <1>7 DEF Seeded
    <2>3. QED
      BY <1>13, <1>14, <1>17, <2>1, <2>2 DEF SessionWith
  <1>19. a.root_key = KdfRk(b.root_key, DH(b.dh_self, a.dh_self))
    <2>1. b.root_key = shared /\ b.dh_self = spk /\ a.dh_self = dh
      BY <1>7 DEF Seeded
    <2>2. DH(dh, spk) = DH(spk, dh)
      BY DEF DH
    <2>3. QED
      BY <1>16, <2>1, <2>2
  <1>20. a.chain_send.n = 0 /\ Sound(b) /\ b.dh_remote = NoKey
    BY <1>7 DEF Seeded
  <1>21. b = ResponderSession(Secrets(<<p, 1>>), sess.init)
    BY <1>1, <1>3, <1>8, <1>13
  <1>22. QED
    BY <1>11, <1>13, <1>14, <1>15, <1>17, <1>18, <1>19, <1>20, <1>21

(* The run of letters grows at its end and is read from its start.         *)
LEMMA RunAppend ==
    ASSUME NEW w \in Seq(Letter), NEW x \in Letter, NEW s, NEW t, NEW n,
           Run(s, w, n),
           x.f = FrameOn(s.dh_self, s.root_key, s.chain_send.n),
           t.dh_self = s.dh_self, t.root_key = s.root_key,
           t.chain_send.n = s.chain_send.n + 1
    PROVE  Run(t, Append(w, x), n)
  <1>1. n \in Nat /\ Len(w) \in Nat /\ s.chain_send.n = n + Len(w)
    BY DEF Run
  <1>2. /\ Len(Append(w, x)) = Len(w) + 1
        /\ \A i \in 1 .. Len(w) : Append(w, x)[i] = w[i]
        /\ Append(w, x)[Len(w) + 1] = x
    BY AppendFacts
  <1>3. ASSUME NEW i \in 1 .. (Len(w) + 1)
        PROVE  Append(w, x)[i].f = FrameOn(t.dh_self, t.root_key, n + i - 1)
    <2>1. CASE i \in 1 .. Len(w)
      BY <1>2, <2>1 DEF Run
    <2>2. CASE i = Len(w) + 1
      <3>1. n + i - 1 = s.chain_send.n
        BY <1>1, <2>2
      <3>2. QED
        BY <1>2, <2>2, <3>1
    <2>3. QED
      BY <1>1, <2>1, <2>2
  <1>4. QED
    BY <1>1, <1>2, <1>3 DEF Run

(* After the first of a run of messages comes the rest of the run.         *)
LEMMA RunTail ==
    ASSUME NEW w \in Seq(Letter), w # <<>>, NEW s, NEW n, Run(s, w, n)
    PROVE  /\ Head(w).f = FrameOn(s.dh_self, s.root_key, n)
           /\ Run(s, Tail(w), n + 1)
  <1>1. n \in Nat /\ Len(w) \in Nat /\ s.chain_send.n = n + Len(w)
    BY DEF Run
  <1>2. /\ 1 \in 1 .. Len(w) /\ Head(w) = w[1] /\ Len(Tail(w)) = Len(w) - 1
        /\ n + 1 - 1 = n
    BY <1>1
  <1>3. Head(w).f = FrameOn(s.dh_self, s.root_key, n)
    <2>1. w[1].f = FrameOn(s.dh_self, s.root_key, n + 1 - 1)
      BY <1>2 DEF Run
    <2>2. QED
      BY <1>2, <2>1
  <1>4. ASSUME NEW i \in 1 .. (Len(w) - 1)
        PROVE  Tail(w)[i].f = FrameOn(s.dh_self, s.root_key, (n + 1) + i - 1)
    <2>1. /\ i + 1 \in 1 .. Len(w) /\ Tail(w)[i] = w[i + 1]
          /\ n + (i + 1) - 1 = (n + 1) + i - 1
      BY <1>1
    <2>2. w[i + 1].f = FrameOn(s.dh_self, s.root_key, n + (i + 1) - 1)
      BY <2>1 DEF Run
    <2>3. QED
      BY <2>1, <2>2
  <1>5. QED
    BY <1>1, <1>2, <1>3, <1>4 DEF Run

(* encrypt keeps a direction in step.                                      *)
LEMMA DirectionSends ==
    ASSUME NEW p \in Contact, NEW k, NEW o, o # NoKey, SessionWith(o, p, k),
           NEW in, NEW w \in Seq(Letter), Direction(p, o, in, w)
    PROVE  Direction(p, Step(o), in, Append(w, Payload(o)))
  <1>1. PICK s, t, x : s = St(o) /\ t = St(Step(o)) /\ x = Payload(o)
    OBVIOUS
  <1>e. /\ Payload(o) \in Letter
        /\ Payload(o).f = FrameOn(St(o).dh_self, St(o).root_key, St(o).chain_send.n)
        /\ St(Step(o)).dh_self = St(o).dh_self /\ St(Step(o)).root_key = St(o).root_key
        /\ St(Step(o)).chain_send.n = St(o).chain_send.n + 1
        /\ Step(o) # NoKey
    BY StepEffect
  <1>2. /\ x \in Letter /\ x.f = FrameOn(s.dh_self, s.root_key, s.chain_send.n)
        /\ t.dh_self = s.dh_self /\ t.root_key = s.root_key
        /\ t.chain_send.n = s.chain_send.n + 1
        /\ Step(o) # NoKey
    BY <1>1, <1>e, Zenon
  <1>3. \A n : Run(s, w, n) => Run(t, Append(w, x), n)
    BY <1>2, RunAppend
  <1>4. CASE Running(o, in, w)
    <2>1. OnChain(t, FromBytes(in), Append(w, x))
      BY <1>1, <1>2, <1>3, <1>4 DEF Running, OnChain
    <2>2. QED
      BY <1>1, <1>2, <1>4, <2>1 DEF Running, Direction
  <1>5. CASE Starting(p, o, in, w)
    <2>1. w # <<>> /\ Append(w, x) # <<>> /\ Head(Append(w, x)) = Head(w)
      BY <1>2, <1>5 DEF Starting
    <2>2. PICK r : r = ResponderSession(Secrets(<<p, 1>>), Head(w).init)
      OBVIOUS
    <2>3. AtStart(s, r, w)
      BY <1>1, <1>5, <2>2 DEF Starting
    <2>4. AtStart(t, r, Append(w, x))
      BY <1>2, <1>3, <2>1, <2>3 DEF AtStart
    <2>5. QED
      BY <1>1, <1>2, <1>5, <2>1, <2>2, <2>4 DEF Starting, Direction
  <1>6. QED
    BY <1>4, <1>5 DEF Direction, Quiet

(* decrypt: the next letter of a direction in step is readable, and the    *)
(* ratchet it leaves is on the sender's chain.                             *)
LEMMA DirectionReceives ==
    ASSUME NEW p \in Contact, device[p] = 1, mail[p] \in Seq(Letter), mail[p] # <<>>,
           NEW k, out[p] # NoKey => SessionWith(out[p], p, k),
           Direction(p, out[p], inbound[p], mail[p]),
           NEW b, b = ToBytes(Decrypted(FromBytes(InSession(p, Head(mail[p]))),
                                        Head(mail[p]).f))
    PROVE  /\ Readable(p, Head(mail[p]))
           /\ Direction(p, out[p], b, Tail(mail[p]))
  <1>1. PICK o, in, w, x, f : /\ o = out[p] /\ in = inbound[p] /\ w = mail[p]
                              /\ x = Head(w) /\ f = x.f
    OBVIOUS
  <1>2. w \in Seq(Letter) /\ w # <<>>
    BY <1>1
  <1>3. o # NoKey
    BY <1>1 DEF Direction, Quiet, Running, Starting
  <1>4. PICK s : s = St(o)
    OBVIOUS
  <1>5. /\ Sound(s) /\ s.chain_send # NoKey
        /\ s.root_key \in Root /\ s.dh_self \in Name
    BY <1>1, <1>3, <1>4 DEF SessionWith, Sound, RatchetState
  <1>6. CASE Running(o, in, w)
    <2>1. PICK r : r = FromBytes(in)
      OBVIOUS
    <2>2. OnChain(s, r, w) /\ in # NoKey
      BY <1>4, <1>6, <2>1 DEF Running
    <2>3. PICK n \in Nat : n = r.chain_recv.n
      BY <2>2 DEF OnChain, Run
    <2>4. /\ f = FrameOn(s.dh_self, s.root_key, n)
          /\ Run(s, Tail(w), n + 1)
      BY <1>1, <1>2, <2>2, <2>3, RunTail DEF OnChain
    <2>5. f = FrameOn(r.dh_remote, r.chain_recv.root, r.chain_recv.n)
      BY <2>2, <2>3, <2>4 DEF OnChain
    <2>6. PICK t : t = Decrypted(r, f)
      OBVIOUS
    <2>7. /\ Opens(r, f) /\ Sound(t)
          /\ t.dh_remote = r.dh_remote
          /\ t.chain_recv = Key(r.chain_recv.root, r.chain_recv.n + 1)
      BY <2>2, <2>5, <2>6, DecryptOnChain DEF OnChain
    <2>8. t.chain_recv # NoKey /\ t.chain_recv.root = s.root_key
          /\ t.chain_recv.n = n + 1
      <3>1. t.chain_recv = Key(s.root_key, n + 1) /\ n + 1 \in Nat
        BY <2>2, <2>3, <2>7 DEF OnChain
      <3>2. QED
        BY <1>5, <3>1, KeyType, KeyParts
    <2>9. OnChain(s, t, Tail(w))
      BY <2>2, <2>4, <2>7, <2>8 DEF OnChain
    <2>10. InSession(p, x) = in
      BY <1>1, <2>2 DEF InSession
    <2>11. Readable(p, x)
      BY <1>1, <2>1, <2>2, <2>7, <2>10 DEF Readable
    <2>12. b # NoKey /\ FromBytes(b) = t
      <3>1. t \in RatchetState /\ b = ToBytes(t)
        BY <1>1, <2>1, <2>6, <2>7, <2>10 DEF Sound
      <3>2. QED
        BY <3>1, ToBytesType, BlobRoundTrip
    <2>13. QED
      BY <1>1, <1>3, <1>4, <2>9, <2>11, <2>12 DEF Direction, Running
  <1>7. CASE Starting(p, o, in, w)
    <2>1. PICK r : r = ResponderSession(Secrets(<<p, 1>>), x.init)
      OBVIOUS
    <2>2. AtStart(s, r, w) /\ in = NoKey /\ x.init # NoKey
      BY <1>1, <1>4, <1>7, <2>1 DEF Starting
    <2>3. PICK root \in Root, dh \in Name : root = s.root_key /\ dh = s.dh_self
      BY <1>5
    <2>4. /\ f = FrameOn(dh, root, 0)
          /\ Run(s, Tail(w), 1)
      <3>1. Run(s, w, 0)
        BY <2>2 DEF AtStart
      <3>2. Run(s, Tail(w), 0 + 1) /\ 0 + 1 = 1
        BY <1>2, <3>1, RunTail
      <3>3. QED
        BY <1>1, <1>2, <2>3, <3>1, <3>2, RunTail
    <2>5. /\ Sound(r) /\ r.dh_remote # dh
          /\ root = KdfRk(r.root_key, DH(r.dh_self, dh))
      BY <2>2, <2>3, NoKeyAssumption DEF AtStart
    <2>6. PICK t \in RatchetState :
               /\ t = Decrypted(r, f) /\ Opens(r, f) /\ Sound(t)
               /\ t.dh_remote = dh /\ t.chain_recv = Key(root, 1)
      BY <2>4, <2>5, DecryptRatcheting
    <2>7. t.chain_recv # NoKey /\ t.chain_recv.root = root /\ t.chain_recv.n = 1
      BY <2>6, KeyType, KeyParts
    <2>8. OnChain(s, t, Tail(w))
      BY <2>3, <2>4, <2>6, <2>7 DEF OnChain
    <2>9. r \in RatchetState
      BY <2>5 DEF Sound
    <2>10. PICK blob : blob = ToBytes(r) /\ blob # NoKey /\ FromBytes(blob) = r
      BY <2>9, ToBytesType, BlobRoundTrip
    <2>11. InSession(p, x) = blob
      <3>1. KeysOf(p) = Secrets(<<p, 1>>)
        BY SecretsRoundTrip
      <3>2. QED
        BY <1>1, <2>1, <2>2, <2>10, <3>1 DEF InSession
    <2>12. Readable(p, x)
      BY <1>1, <2>6, <2>10, <2>11 DEF Readable
    <2>13. b # NoKey /\ FromBytes(b) = t
      <3>1. b = ToBytes(t)
        BY <1>1, <2>6, <2>10, <2>11
      <3>2. QED
        BY <3>1, ToBytesType, BlobRoundTrip
    <2>14. QED
      BY <1>1, <1>3, <1>4, <2>8, <2>12, <2>13 DEF Direction, Running
  <1>8. QED
    BY <1>1, <1>3, <1>6, <1>7 DEF Direction, Quiet

-----------------------------------------------------------------------------
(* The steps.                                                              *)

(* A sound map stays sound as more sessions are established.               *)
LEMMA MapLater ==
    ASSUME NEW map, NEW k \in Nat, MapSound(map, k)
    PROVE  MapSound(map, k + 1)
  <1>1. \A n \in Nat : n < k => n < k + 1
    OBVIOUS
  <1>2. QED
    BY <1>1 DEF MapSound, SessionWith

(* Before the first call there is no session, no mail and no key.          *)
LEMMA SessionsInitial == SessionsInit => SessionsInv /\ SpentInv
  <1> SUFFICES ASSUME SessionsInit PROVE SessionsInv /\ SpentInv
    OBVIOUS
  <1>1. SessionsTyped
    BY DEF SessionsInit, SessionsTyped
  <1>2. MapSound(out, posted)
    BY DEF SessionsInit, MapSound, OutMap
  <1>3. \A c \in Call : ~Waiting(c)
    BY DEF SessionsInit, Waiting
  <1>4. \A p \in Contact : InStep(p)
    BY DEF SessionsInit, InStep, Direction, Quiet
  <1>5. SpentInv
    BY DEF SessionsInit, SpentInv
  <1>6. QED
    BY <1>1, <1>2, <1>3, <1>4, <1>5 DEF SessionsInv

(* encrypt in a session there is: one more message of the run.             *)
LEMMA EncryptKeepsStep ==
    ASSUME SessionsInv, NEW p \in Contact, EncryptNow(p)
    PROVE  SessionsInv'
  <1>1. PICK o : o = out[p] /\ o # NoKey /\ SessionWith(o, p, posted)
    BY DEF SessionsInv, MapSound, EncryptNow
  <1>2. PICK x, t : x = Payload(o) /\ t = Step(o)
    OBVIOUS
  <1>3. /\ x \in Letter /\ t # NoKey /\ SessionWith(t, p, posted) /\ t \in OutSession
    BY <1>1, <1>2, StepEffect DEF SessionWith
  <1>4. /\ out' = [out EXCEPT ![p] = t]
        /\ mail' = [mail EXCEPT ![p] = Append(mail[p], x)]
        /\ posted' = posted + 1
        /\ UNCHANGED <<call, inbound, device, one_time, disturbed>>
    BY <1>1, <1>2 DEF EncryptNow, Post
  <1>5. posted \in Nat /\ mail \in [Contact -> Seq(Letter)] /\ out \in OutMap
    BY DEF SessionsInv, SessionsTyped, MapSound
  <1>6. SessionsTyped'
    <2>1. mail' \in [Contact -> Seq(Letter)]
      BY <1>3, <1>4, <1>5
    <2>2. QED
      BY <1>4, <1>5, <2>1 DEF SessionsInv, SessionsTyped
  <1>7. MapSound(out', posted')
    <2>1. out' \in OutMap
      BY <1>3, <1>4, <1>5 DEF OutMap
    <2>2. MapSound(out', posted)
      BY <1>3, <1>4, <1>5, <2>1 DEF MapSound, OutMap, SessionsInv
    <2>3. QED
      BY <1>4, <1>5, <2>2, MapLater
  <1>8. \A c \in Call : Waiting(c)' => /\ MapSound(call'[c].map, posted')
                                       /\ call'[c].map[call'[c].peer] = NoKey
    BY <1>4, <1>5, MapLater DEF SessionsInv, Waiting
  <1>9. ASSUME NEW q \in Contact, q \notin disturbed'
        PROVE  InStep(q)'
    <2>1. InStep(q)
      BY <1>4, <1>9 DEF SessionsInv
    <2>2. CASE q = p
      <3>1. Direction(p, t, inbound[p], Append(mail[p], x))
        BY <1>1, <1>2, <1>5, <2>1, <2>2, DirectionSends DEF InStep
      <3>2. out'[p] = t /\ mail'[p] = Append(mail[p], x)
        BY <1>4, <1>5 DEF OutMap
      <3>3. QED
        BY <1>4, <2>1, <2>2, <3>1, <3>2 DEF InStep
    <2>3. CASE q # p
      <3>1. out'[q] = out[q] /\ mail'[q] = mail[q]
        BY <1>4, <1>5, <2>3 DEF OutMap
      <3>2. QED
        BY <1>4, <2>1, <3>1 DEF InStep
    <2>4. QED
      BY <2>2, <2>3
  <1>10. QED
    BY <1>6, <1>7, <1>8, <1>9 DEF SessionsInv

(* encrypt without a session takes the map with it to the await.           *)
LEMMA FetchKeepsStep ==
    ASSUME SessionsInv, NEW c \in Call, NEW p \in Contact, FetchBundle(c, p)
    PROVE  SessionsInv'
  <1>1. PICK w : w = [peer |-> p, map |-> out]
    OBVIOUS
  <1>2. /\ call' = [call EXCEPT ![c] = w] /\ out[p] = NoKey
        /\ UNCHANGED <<out, inbound, device, one_time, mail, posted, disturbed>>
    BY <1>1 DEF FetchBundle
  <1>3. w \in WaitingCall /\ w.peer = p /\ w.map = out
    BY <1>1 DEF WaitingCall, SessionsInv, MapSound
  <1>4. call \in [Call -> WaitingCall \cup {NoKey}]
    BY DEF SessionsInv, SessionsTyped
  <1>5. SessionsTyped'
    <2>1. call' \in [Call -> WaitingCall \cup {NoKey}]
      BY <1>2, <1>3, <1>4
    <2>2. QED
      BY <1>2, <2>1 DEF SessionsInv, SessionsTyped
  <1>6. \A d \in Call : Waiting(d)' => /\ MapSound(call'[d].map, posted')
                                       /\ call'[d].map[call'[d].peer] = NoKey
    <2>1. call'[c] = w /\ \A d \in Call \ {c} : call'[d] = call[d]
      BY <1>2, <1>4
    <2>2. QED
      BY <1>2, <1>3, <2>1 DEF SessionsInv, Waiting
  <1>7. \A q \in Contact : q \notin disturbed' => InStep(q)'
    BY <1>2 DEF SessionsInv, InStep
  <1>8. QED
    BY <1>2, <1>5, <1>6, <1>7 DEF SessionsInv

(* A call whose fetch fails leaves nothing behind in the tab.              *)
LEMMA FailKeepsStep ==
    ASSUME SessionsInv, NEW c \in Call, FetchFails(c)
    PROVE  SessionsInv'
  <1>1. /\ call' = [call EXCEPT ![c] = NoKey]
        /\ one_time' \in [Contact -> BOOLEAN]
        /\ UNCHANGED <<out, inbound, device, mail, posted, disturbed>>
    BY DEF FetchFails, Answered, SessionsInv, SessionsTyped
  <1>2. call \in [Call -> WaitingCall \cup {NoKey}]
    BY DEF SessionsInv, SessionsTyped
  <1>3. SessionsTyped'
    BY <1>1, <1>2 DEF SessionsInv, SessionsTyped
  <1>4. \A d \in Call : Waiting(d)' => /\ MapSound(call'[d].map, posted')
                                       /\ call'[d].map[call'[d].peer] = NoKey
    <2>1. call'[c] = NoKey /\ \A d \in Call \ {c} : call'[d] = call[d]
      BY <1>1, <1>2
    <2>2. QED
      BY <1>1, <2>1 DEF SessionsInv, Waiting
  <1>5. \A q \in Contact : q \notin disturbed' => InStep(q)'
    BY <1>1 DEF SessionsInv, InStep
  <1>6. QED
    BY <1>1, <1>3, <1>4, <1>5 DEF SessionsInv

(* What Establish(c) does, in terms of the new session.                    *)
LEMMA EstablishChanges ==
    ASSUME SessionsInv, NEW c \in Call, Establish(c)
    PROVE  \E p \in Contact, map \in OutMap, o \in OutSession :
              /\ p = call[c].peer /\ map = call[c].map /\ map[p] = NoKey
              /\ MapSound(map, posted)
              /\ o = Established(p, posted)
              /\ out' = [map EXCEPT ![p] = Step(o)]
              /\ mail' = [mail EXCEPT ![p] = Append(mail[p], Payload(o))]
              /\ posted' = posted + 1
              /\ spent' = spent \cup {Payload(o).f.key}
              /\ reused' = IF Payload(o).f.key \in spent THEN reused \cup {p} ELSE reused
              /\ one_time' = [one_time EXCEPT ![p] = FALSE]
              /\ rolled' = rolled \cup {q \in Contact : out[q] # map[q]}
              /\ disturbed' = (IF FreshStart(p) THEN disturbed \ {p} ELSE disturbed)
                              \cup {q \in Contact : out[q] # map[q]}
              /\ call' = [call EXCEPT ![c] = NoKey]
              /\ UNCHANGED <<inbound, device>>
  <1>1. /\ call[c] \in WaitingCall /\ Waiting(c)
        /\ MapSound(call[c].map, posted) /\ call[c].map[call[c].peer] = NoKey
    BY DEF SessionsInv, SessionsTyped, Waiting, Establish
  <1>2. PICK p \in Contact, map \in OutMap : p = call[c].peer /\ map = call[c].map
    BY <1>1 DEF WaitingCall
  <1>3. PICK o : o = Established(p, posted)
    OBVIOUS
  <1>4. o \in OutSession
    <2>1. posted \in Nat /\ one_time[p] \in BOOLEAN
      BY DEF SessionsInv, SessionsTyped
    <2>2. SessionWith(o, p, posted + 1)
      BY <1>3, <2>1, EstablishEffect
    <2>3. QED
      BY <2>2 DEF SessionWith
  <1>5. Overwritten(c) = {q \in Contact : out[q] # map[q]}
    BY <1>2 DEF Overwritten
  <1>6. QED
    BY <1>1, <1>2, <1>3, <1>4, <1>5 DEF Establish, Post

(* encrypt after the await: it writes back the map it read, which may undo *)
(* other sessions, and those directions count as disturbed.                *)
LEMMA EstablishKeepsStep ==
    ASSUME SessionsInv, NEW c \in Call, Establish(c)
    PROVE  SessionsInv'
  <1>1. PICK p \in Contact, map \in OutMap, o \in OutSession :
             /\ map[p] = NoKey /\ MapSound(map, posted)
             /\ o = Established(p, posted)
             /\ out' = [map EXCEPT ![p] = Step(o)]
             /\ mail' = [mail EXCEPT ![p] = Append(mail[p], Payload(o))]
             /\ posted' = posted + 1
             /\ one_time' = [one_time EXCEPT ![p] = FALSE]
             /\ disturbed' = (IF FreshStart(p) THEN disturbed \ {p} ELSE disturbed)
                             \cup {q \in Contact : out[q] # map[q]}
             /\ call' = [call EXCEPT ![c] = NoKey]
             /\ UNCHANGED <<inbound, device>>
    BY EstablishChanges
  <1>2. /\ posted \in Nat /\ mail \in [Contact -> Seq(Letter)]
        /\ one_time \in [Contact -> BOOLEAN]
        /\ call \in [Call -> WaitingCall \cup {NoKey}]
    BY DEF SessionsInv, SessionsTyped
  <1>3. /\ SessionWith(o, p, posted + 1) /\ St(o).chain_send.n = 0
        /\ o.sentInit = FALSE /\ o.init # NoKey
        /\ \E r : /\ r = ResponderSession(Secrets(<<p, 1>>), o.init)
                  /\ Sound(r) /\ r.dh_remote = NoKey
                  /\ St(o).root_key = KdfRk(r.root_key, DH(r.dh_self, St(o).dh_self))
    BY <1>1, <1>2, EstablishEffect
  <1>4. PICK x, t : x = Payload(o) /\ t = Step(o)
    OBVIOUS
  <1>5. /\ x \in Letter /\ t # NoKey /\ SessionWith(t, p, posted + 1)
        /\ x.f = FrameOn(St(o).dh_self, St(o).root_key, 0)
        /\ x.init = o.init
        /\ St(t).dh_self = St(o).dh_self /\ St(t).root_key = St(o).root_key
        /\ St(t).chain_send.n = 1
    BY <1>3, <1>4, StepEffect
  <1>6. SessionsTyped'
    <2>1. mail' \in [Contact -> Seq(Letter)]
      BY <1>1, <1>2, <1>4, <1>5
    <2>2. one_time' \in [Contact -> BOOLEAN] /\ call' \in [Call -> WaitingCall \cup {NoKey}]
      BY <1>1, <1>2
    <2>3. QED
      BY <1>1, <1>2, <2>1, <2>2 DEF SessionsInv, SessionsTyped
  <1>7. MapSound(out', posted')
    <2>1. MapSound(map, posted + 1) /\ t \in OutSession
      BY <1>1, <1>2, <1>5, MapLater DEF SessionWith
    <2>2. out' \in OutMap
      BY <1>1, <1>4, <2>1 DEF OutMap
    <2>3. out'[p] = t /\ \A q \in Contact \ {p} : out'[q] = map[q]
      BY <1>1, <1>4 DEF OutMap
    <2>4. QED
      BY <1>1, <1>5, <2>1, <2>2, <2>3 DEF MapSound
  <1>8. \A d \in Call : Waiting(d)' => /\ MapSound(call'[d].map, posted')
                                       /\ call'[d].map[call'[d].peer] = NoKey
    <2>1. call'[c] = NoKey /\ \A d \in Call \ {c} : call'[d] = call[d]
      BY <1>1, <1>2
    <2>2. QED
      BY <1>1, <1>2, <2>1, MapLater DEF SessionsInv, Waiting
  <1>9. ASSUME NEW q \in Contact, q \notin disturbed'
        PROVE  InStep(q)'
    <2>1. out[q] = map[q] /\ (q # p => q \notin disturbed)
      BY <1>1, <1>9
    <2>2. CASE q # p
      <3>1. out'[q] = map[q] /\ mail'[q] = mail[q]
        BY <1>1, <1>2, <2>2 DEF OutMap
      <3>2. InStep(q)
        BY <2>1, <2>2 DEF SessionsInv
      <3>3. QED
        BY <1>1, <2>1, <3>1, <3>2 DEF InStep
    <2>3. CASE q = p
      <3>1. inbound[p] = NoKey /\ mail[p] = <<>> /\ device[p] = 1
        <4>1. CASE FreshStart(p)
          BY <4>1 DEF FreshStart
        <4>2. CASE ~FreshStart(p)
          <5>1. p \notin disturbed /\ out[p] = NoKey
            BY <1>1, <1>9, <2>1, <2>3, <4>2
          <5>2. QED
            BY <5>1 DEF SessionsInv, InStep, Direction, Quiet, Running, Starting
        <4>3. QED
          BY <4>1, <4>2
      <3>2. out'[p] = t /\ mail'[p] = <<x>>
        BY <1>1, <1>2, <1>4, <3>1 DEF OutMap
      <3>3. Run(St(t), <<x>>, 0)
        <4>1. Len(<<x>>) = 1 /\ <<x>>[1] = x
          OBVIOUS
        <4>2. \A i \in 1 .. 1 : <<x>>[i].f = FrameOn(St(t).dh_self, St(t).root_key, 0 + i - 1)
          <5>1. \A i \in 1 .. 1 : i = 1 /\ 0 + i - 1 = 0
            OBVIOUS
          <5>2. QED
            BY <1>5, <4>1, <5>1
        <4>3. QED
          BY <1>5, <4>1, <4>2 DEF Run
      <3>4. Head(<<x>>) = x /\ <<x>> # <<>>
        OBVIOUS
      <3>5. AtStart(St(t), ResponderSession(Secrets(<<p, 1>>), x.init), <<x>>)
        BY <1>3, <1>5, <3>3, <3>4 DEF AtStart
      <3>6. Direction(p, t, NoKey, <<x>>)
        BY <1>3, <1>5, <3>4, <3>5 DEF Direction, Starting
      <3>7. QED
        BY <1>1, <2>3, <3>1, <3>2, <3>6 DEF InStep
    <2>4. QED
      BY <2>2, <2>3
  <1>10. QED
    BY <1>6, <1>7, <1>8, <1>9 DEF SessionsInv

(* decrypt: the message that was next is taken off the run.                *)
LEMMA DeliverKeepsStep ==
    ASSUME SessionsInv, NEW p \in Contact, Deliver(p)
    PROVE  SessionsInv'
  <1>1. PICK x, b : /\ x = Head(mail[p])
                    /\ b = ToBytes(Decrypted(FromBytes(InSession(p, x)), x.f))
    OBVIOUS
  <1>2. /\ mail[p] # <<>>
        /\ mail' = [mail EXCEPT ![p] = Tail(mail[p])]
        /\ inbound' = IF Readable(p, x) THEN [inbound EXCEPT ![p] = b] ELSE inbound
        /\ UNCHANGED <<out, call, device, one_time, posted, disturbed>>
    BY <1>1 DEF Deliver
  <1>3. /\ mail \in [Contact -> Seq(Letter)] /\ DOMAIN inbound = Contact
        /\ MapSound(out, posted)
    BY DEF SessionsInv, SessionsTyped
  <1>4. SessionsTyped'
    <2>1. mail' \in [Contact -> Seq(Letter)]
      BY <1>2, <1>3
    <2>2. DOMAIN inbound' = Contact
      BY <1>2, <1>3
    <2>3. QED
      BY <1>2, <2>1, <2>2 DEF SessionsInv, SessionsTyped
  <1>5. \A c \in Call : Waiting(c)' => /\ MapSound(call'[c].map, posted')
                                       /\ call'[c].map[call'[c].peer] = NoKey
    BY <1>2 DEF SessionsInv, Waiting
  <1>6. ASSUME NEW q \in Contact, q \notin disturbed'
        PROVE  InStep(q)'
    <2>1. InStep(q)
      BY <1>2, <1>6 DEF SessionsInv
    <2>2. CASE q # p
      <3>1. inbound'[q] = inbound[q] /\ mail'[q] = mail[q]
        BY <1>2, <1>3, <2>2
      <3>2. QED
        BY <1>2, <2>1, <3>1 DEF InStep
    <2>3. CASE q = p
      <3>1. /\ device[p] = 1 /\ mail[p] \in Seq(Letter)
            /\ out[p] # NoKey => SessionWith(out[p], p, posted)
            /\ Direction(p, out[p], inbound[p], mail[p])
        BY <1>3, <2>1, <2>3 DEF InStep, MapSound
      <3>2. Readable(p, x) /\ Direction(p, out[p], b, Tail(mail[p]))
        BY <1>1, <1>2, <3>1, DirectionReceives
      <3>3. inbound'[p] = b /\ mail'[p] = Tail(mail[p])
        BY <1>2, <1>3, <3>2
      <3>4. QED
        BY <1>2, <2>3, <3>1, <3>2, <3>3 DEF InStep
    <2>4. QED
      BY <2>2, <2>3
  <1>7. QED
    BY <1>2, <1>3, <1>4, <1>5, <1>6 DEF SessionsInv

(* What happens from outside puts a direction out of step, or finds it     *)
(* quiet.                                                                  *)
LEMMA CloseTabKeepsStep ==
    ASSUME SessionsInv, CloseTab
    PROVE  SessionsInv'
  <1>1. /\ out' = [p \in Contact |-> NoKey] /\ call' = [c \in Call |-> NoKey]
        /\ disturbed' = disturbed \cup {p \in Contact : inbound[p] # NoKey \/ mail[p] # <<>>}
        /\ one_time' \in [Contact -> BOOLEAN]
        /\ UNCHANGED <<inbound, device, mail, posted>>
    BY DEF CloseTab, Answered, SessionsInv, SessionsTyped
  <1>2. SessionsTyped'
    BY <1>1 DEF SessionsInv, SessionsTyped
  <1>3. MapSound(out', posted')
    BY <1>1 DEF MapSound, OutMap
  <1>4. \A c \in Call : ~Waiting(c)'
    BY <1>1 DEF Waiting
  <1>5. ASSUME NEW q \in Contact, q \notin disturbed'
        PROVE  InStep(q)'
    <2>1. device[q] = 1
      BY <1>1, <1>5 DEF SessionsInv, InStep
    <2>2. out'[q] = NoKey /\ inbound[q] = NoKey /\ mail[q] = <<>>
      BY <1>1, <1>5
    <2>3. QED
      BY <1>1, <2>1, <2>2 DEF InStep, Direction, Quiet
  <1>6. QED
    BY <1>2, <1>3, <1>4, <1>5 DEF SessionsInv

(* The peer's tab ends: only a direction without a session or mail stays   *)
(* undisturbed.                                                            *)
LEMMA ClosePeerKeepsStep ==
    ASSUME SessionsInv, NEW p \in Contact, ClosePeer(p)
    PROVE  SessionsInv'
  <1>1. /\ inbound' = [inbound EXCEPT ![p] = NoKey]
        /\ one_time' = [one_time EXCEPT ![p] = one_time[p] \/ device[p] = 1]
        /\ disturbed' = IF out[p] # NoKey \/ mail[p] # <<>> THEN disturbed \cup {p}
                        ELSE disturbed
        /\ UNCHANGED <<out, call, device, mail, posted>>
    BY DEF ClosePeer
  <1>2. DOMAIN inbound = Contact /\ one_time \in [Contact -> BOOLEAN]
    BY DEF SessionsInv, SessionsTyped
  <1>3. SessionsTyped'
    <2>1. DOMAIN inbound' = Contact
      BY <1>1, <1>2
    <2>2. one_time' \in [Contact -> BOOLEAN]
      <3>1. (one_time[p] \/ device[p] = 1) \in BOOLEAN
        OBVIOUS
      <3>2. QED
        BY <1>1, <1>2, <3>1
    <2>3. QED
      BY <1>1, <2>1, <2>2 DEF SessionsInv, SessionsTyped
  <1>4. \A c \in Call : Waiting(c)' => /\ MapSound(call'[c].map, posted')
                                       /\ call'[c].map[call'[c].peer] = NoKey
    BY <1>1 DEF SessionsInv, Waiting
  <1>5. ASSUME NEW q \in Contact, q \notin disturbed'
        PROVE  InStep(q)'
    <2>1. InStep(q)
      BY <1>1, <1>5 DEF SessionsInv
    <2>2. CASE q # p
      <3>1. inbound'[q] = inbound[q]
        BY <1>1, <1>2, <2>2
      <3>2. QED
        BY <1>1, <2>1, <3>1 DEF InStep
    <2>3. CASE q = p
      <3>1. out[p] = NoKey /\ mail[p] = <<>> /\ inbound'[p] = NoKey
        BY <1>1, <1>2, <1>5, <2>3
      <3>2. QED
        BY <1>1, <2>1, <2>3, <3>1 DEF InStep, Direction, Quiet
    <2>4. QED
      BY <2>2, <2>3
  <1>6. QED
    BY <1>1, <1>3, <1>4, <1>5 DEF SessionsInv

(* The peer's new device disturbs the direction to it.                     *)
LEMMA LoginKeepsStep ==
    ASSUME SessionsInv, NEW p \in Contact, LoginElsewhere(p)
    PROVE  SessionsInv'
  <1>1. /\ device' = [device EXCEPT ![p] = 2]
        /\ inbound' = [inbound EXCEPT ![p] = NoKey]
        /\ disturbed' = disturbed \cup {p}
        /\ UNCHANGED <<out, call, one_time, mail, posted>>
    BY DEF LoginElsewhere
  <1>2. DOMAIN inbound = Contact /\ device \in [Contact -> {1, 2}]
    BY DEF SessionsInv, SessionsTyped
  <1>3. SessionsTyped'
    <2>1. DOMAIN inbound' = Contact /\ device' \in [Contact -> {1, 2}]
      BY <1>1, <1>2
    <2>2. QED
      BY <1>1, <2>1 DEF SessionsInv, SessionsTyped
  <1>4. \A c \in Call : Waiting(c)' => /\ MapSound(call'[c].map, posted')
                                       /\ call'[c].map[call'[c].peer] = NoKey
    BY <1>1 DEF SessionsInv, Waiting
  <1>5. ASSUME NEW q \in Contact, q \notin disturbed'
        PROVE  InStep(q)'
    <2>1. InStep(q) /\ q # p
      BY <1>1, <1>5 DEF SessionsInv
    <2>2. inbound'[q] = inbound[q] /\ device'[q] = device[q]
      BY <1>1, <1>2, <2>1
    <2>3. QED
      BY <1>1, <2>1, <2>2 DEF InStep
  <1>6. QED
    BY <1>1, <1>3, <1>4, <1>5 DEF SessionsInv

(* A lost message disturbs its direction.                                  *)
LEMMA LoseKeepsStep ==
    ASSUME SessionsInv, NEW p \in Contact, Lose(p)
    PROVE  SessionsInv'
  <1>1. /\ mail[p] # <<>> /\ mail' = [mail EXCEPT ![p] = Tail(mail[p])]
        /\ disturbed' = disturbed \cup {p}
        /\ UNCHANGED <<out, call, inbound, device, one_time, posted>>
    BY DEF Lose
  <1>2. mail \in [Contact -> Seq(Letter)]
    BY DEF SessionsInv, SessionsTyped
  <1>3. SessionsTyped'
    <2>1. mail' \in [Contact -> Seq(Letter)]
      BY <1>1, <1>2
    <2>2. QED
      BY <1>1, <2>1 DEF SessionsInv, SessionsTyped
  <1>4. \A c \in Call : Waiting(c)' => /\ MapSound(call'[c].map, posted')
                                       /\ call'[c].map[call'[c].peer] = NoKey
    BY <1>1 DEF SessionsInv, Waiting
  <1>5. ASSUME NEW q \in Contact, q \notin disturbed'
        PROVE  InStep(q)'
    <2>1. InStep(q) /\ q # p
      BY <1>1, <1>5 DEF SessionsInv
    <2>2. mail'[q] = mail[q]
      BY <1>1, <1>2, <2>1
    <2>3. QED
      BY <1>1, <2>1, <2>2 DEF InStep
  <1>6. QED
    BY <1>1, <1>3, <1>4, <1>5 DEF SessionsInv

(* Every step of the session layer keeps the invariant.                    *)
LEMMA SessionsStep == SessionsInv /\ [SessionsNext]_sessions => SessionsInv'
  <1> SUFFICES ASSUME SessionsInv, [SessionsNext]_sessions PROVE SessionsInv'
    OBVIOUS
  <1>1. CASE SessionsNext
    BY <1>1, EncryptKeepsStep, DeliverKeepsStep, FetchKeepsStep, EstablishKeepsStep,
       FailKeepsStep, CloseTabKeepsStep, ClosePeerKeepsStep, LoginKeepsStep, LoseKeepsStep
    DEF SessionsNext
  <1>2. CASE UNCHANGED sessions
    BY <1>2 DEF sessions, SessionsInv, SessionsTyped, InStep, Waiting
  <1>3. QED
    BY <1>1, <1>2

(* The invariant holds in every behaviour of the session layer.            *)
LEMMA SessionsInvariant == SessionsSpec => []SessionsInv
  <1>1. SessionsInit => SessionsInv
    BY SessionsInitial
  <1>2. QED
    BY <1>1, SessionsStep, PTL DEF SessionsSpec

(* The next message of a direction that nothing put out of step is         *)
(* readable, whatever calls wait and whatever the other directions do.     *)
THEOREM NextMessageReadable == SessionsSpec => []ReadableInStep
  <1>1. SessionsInv => ReadableInStep
    <2> SUFFICES ASSUME SessionsInv, NEW p \in Contact, p \notin disturbed,
                        mail[p] # <<>>
                 PROVE  Readable(p, Head(mail[p]))
      BY DEF ReadableInStep
    <2>1. /\ device[p] = 1 /\ mail[p] \in Seq(Letter)
          /\ out[p] # NoKey => SessionWith(out[p], p, posted)
          /\ Direction(p, out[p], inbound[p], mail[p])
      BY DEF SessionsInv, SessionsTyped, InStep, MapSound
    <2>2. PICK b : b = ToBytes(Decrypted(FromBytes(InSession(p, Head(mail[p]))),
                                         Head(mail[p]).f))
      OBVIOUS
    <2>3. QED
      BY <2>1, <2>2, DirectionReceives
  <1>2. QED
    BY <1>1, SessionsInvariant, PTL

-----------------------------------------------------------------------------
(* The keys spent.                                                         *)

(* A root names the session it was made for.                               *)
LEMMA RootNames ==
    ASSUME NEW root, NEW p, NEW q, NEW m, NEW n,
           RootFor(root, p, m), RootFor(root, q, n)
    PROVE  p = q /\ m = n
  <1>0. PICK x, y : /\ x = DH(<<"dh", m>>, <<"spk", <<p, 1>>>>)
                    /\ y = DH(<<"dh", n>>, <<"spk", <<q, 1>>>>)
    OBVIOUS
  <1>1. PICK a \in Root, b \in Root : root = KdfRk(a, x) /\ root = KdfRk(b, y)
    BY <1>0 DEF RootFor
  <1>2. x = y
    <2>1. PICK T : Root = Seq(T)
      BY DEF Root
    <2>2. a \in Seq(T) /\ b \in Seq(T) /\ Append(a, x) = Append(b, y)
      BY <1>1, <2>1 DEF KdfRk
    <2>3. /\ Len(a) \in Nat /\ Len(Append(a, x)) = Len(a) + 1
          /\ Append(a, x)[Len(a) + 1] = x
      BY <2>2
    <2>4. /\ Len(b) \in Nat /\ Len(Append(b, y)) = Len(b) + 1
          /\ Append(b, y)[Len(b) + 1] = y
      BY <2>2
    <2>5. Len(a) = Len(b)
      BY <2>2, <2>3, <2>4
    <2>6. QED
      BY <2>2, <2>3, <2>4, <2>5
  <1>3. <<"dh", m>> \in y /\ <<"spk", <<p, 1>>>> \in y
    BY <1>0, <1>2 DEF DH
  <1>4. <<"dh", m>> # <<"spk", <<q, 1>>>> /\ <<"spk", <<p, 1>>>> # <<"dh", n>>
    OBVIOUS
  <1>5. <<"dh", m>> = <<"dh", n>> /\ <<"spk", <<p, 1>>>> = <<"spk", <<q, 1>>>>
    BY <1>0, <1>3, <1>4 DEF DH
  <1>6. QED
    BY <1>5

(* The key a session spends next.                                          *)
LEMMA NextKey ==
    ASSUME NEW p \in Contact, NEW k, NEW o, SessionWith(o, p, k)
    PROVE  \E root \in Root, n \in Nat, key \in ChainKey :
              /\ root = St(o).root_key /\ n = St(o).chain_send.n
              /\ key = Payload(o).f.key /\ key.root = root /\ key.n = n
              /\ St(Step(o)).root_key = root /\ St(Step(o)).chain_send.n = n + 1
  <1>1. PICK root \in Root, n \in Nat, key \in ChainKey :
             /\ root = St(o).root_key /\ n = St(o).chain_send.n
             /\ key = Payload(o).f.key /\ key = Key(root, n)
    BY StepEffect DEF SessionWith, Sound, RatchetState
  <1>2. key.root = root /\ key.n = n
    BY <1>1, KeyParts
  <1>3. St(Step(o)).root_key = root /\ St(Step(o)).chain_send.n = n + 1
    BY <1>1, StepEffect
  <1>4. QED
    BY <1>1, <1>2, <1>3

(* encrypt in a session there is spends a key ahead of the others of its   *)
(* chain, or the session was rolled back.                                  *)
LEMMA EncryptKeepsSpent ==
    ASSUME SessionsInv, SpentInv, NEW p \in Contact, EncryptNow(p)
    PROVE  SpentInv'
  <1>1. PICK o : o = out[p] /\ o # NoKey /\ SessionWith(o, p, posted)
    BY DEF SessionsInv, MapSound, EncryptNow
  <1>2. PICK root \in Root, n \in Nat, key \in ChainKey :
             /\ root = St(o).root_key /\ n = St(o).chain_send.n
             /\ key = Payload(o).f.key /\ key.root = root /\ key.n = n
             /\ St(Step(o)).root_key = root /\ St(Step(o)).chain_send.n = n + 1
    BY <1>1, NextKey
  <1>3. /\ out' = [out EXCEPT ![p] = Step(o)]
        /\ posted' = posted + 1
        /\ spent' = spent \cup {key}
        /\ reused' = IF key \in spent THEN reused \cup {p} ELSE reused
        /\ rolled' = rolled
    BY <1>1, <1>2 DEF EncryptNow, Post
  <1>4. out \in OutMap /\ posted \in Nat
    BY DEF SessionsInv, SessionsTyped, MapSound
  <1>5. PICK m \in Nat : m < posted /\ RootFor(root, p, m)
    BY <1>1, <1>2 DEF SessionWith
  <1>6. reused' \subseteq rolled'
    <2>1. key \in spent => p \in rolled
      <3>1. ~(n < n)
        OBVIOUS
      <3>2. QED
        BY <1>1, <1>2, <3>1 DEF SpentInv
    <2>2. QED
      BY <1>3, <2>1 DEF SpentInv
  <1>7. \A k \in spent' : \E q \in Contact, j \in Nat : j < posted' /\ RootFor(k.root, q, j)
    <2>1. \A j \in Nat : j < posted => j < posted'
      BY <1>3, <1>4
    <2>2. QED
      BY <1>2, <1>3, <1>5, <2>1 DEF SpentInv
  <1>8. ASSUME NEW q \in Contact, q \notin rolled', out'[q] # NoKey,
               NEW k \in spent', k.root = St(out'[q]).root_key
        PROVE  k.n < St(out'[q]).chain_send.n
    <2>1. CASE q = p
      <3>1. out'[q] = Step(o)
        BY <1>3, <1>4, <2>1 DEF OutMap
      <3>2. CASE k \in spent
        <4>1. k.n < n
          BY <1>1, <1>2, <1>3, <1>8, <2>1, <3>1, <3>2 DEF SpentInv
        <4>2. k.n \in Nat
          BY <3>2 DEF SpentInv, ChainKey
        <4>3. QED
          BY <1>2, <3>1, <4>1, <4>2
      <3>3. CASE k = key
        BY <1>2, <3>1, <3>3
      <3>4. QED
        BY <1>3, <3>2, <3>3
    <2>2. CASE q # p
      <3>1. out'[q] = out[q]
        BY <1>3, <1>4, <2>2 DEF OutMap
      <3>2. PICK j : RootFor(St(out[q]).root_key, q, j)
        BY <1>8, <3>1 DEF SessionsInv, MapSound, SessionWith
      <3>3. k # key
        BY <1>2, <1>5, <1>8, <2>2, <3>1, <3>2, RootNames
      <3>4. QED
        BY <1>3, <1>8, <3>1, <3>3 DEF SpentInv
    <2>3. QED
      BY <2>1, <2>2
  <1>9. spent' \subseteq ChainKey
    BY <1>2, <1>3 DEF SpentInv
  <1>10. QED
    BY <1>6, <1>7, <1>8, <1>9 DEF SpentInv

(* A new session has a root of its own; the ones a stale map brings back   *)
(* are rolled back.                                                        *)
LEMMA EstablishKeepsSpent ==
    ASSUME SessionsInv, SpentInv, NEW c \in Call, Establish(c)
    PROVE  SpentInv'
  <1>1. PICK p \in Contact, map \in OutMap, o \in OutSession :
             /\ o = Established(p, posted)
             /\ out' = [map EXCEPT ![p] = Step(o)]
             /\ posted' = posted + 1
             /\ spent' = spent \cup {Payload(o).f.key}
             /\ reused' = IF Payload(o).f.key \in spent THEN reused \cup {p} ELSE reused
             /\ rolled' = rolled \cup {q \in Contact : out[q] # map[q]}
    BY EstablishChanges
  <1>2. posted \in Nat /\ one_time[p] \in BOOLEAN /\ ~(posted < posted)
    BY DEF SessionsInv, SessionsTyped
  <1>3. /\ SessionWith(o, p, posted + 1) /\ St(o).chain_send.n = 0
        /\ RootFor(St(o).root_key, p, posted)
    BY <1>1, <1>2, EstablishEffect
  <1>4. PICK root \in Root, key \in ChainKey :
             /\ root = St(o).root_key
             /\ key = Payload(o).f.key /\ key.root = root /\ key.n = 0
             /\ St(Step(o)).root_key = root /\ St(Step(o)).chain_send.n = 1
    BY <1>3, NextKey
  <1>5. \A k \in spent : k.root # root
    <2> SUFFICES ASSUME NEW k \in spent, k.root = root PROVE FALSE
      OBVIOUS
    <2>1. PICK q \in Contact, m \in Nat : m < posted /\ RootFor(root, q, m)
      BY DEF SpentInv
    <2>2. m = posted
      BY <1>3, <1>4, <2>1, RootNames
    <2>3. QED
      BY <1>2, <2>1, <2>2
  <1>6. reused' \subseteq rolled'
    BY <1>1, <1>4, <1>5 DEF SpentInv
  <1>7. \A k \in spent' : \E q \in Contact, j \in Nat : j < posted' /\ RootFor(k.root, q, j)
    <2>1. posted < posted' /\ \A j \in Nat : j < posted => j < posted'
      BY <1>1, <1>2
    <2>2. QED
      BY <1>1, <1>2, <1>3, <1>4, <2>1 DEF SpentInv
  <1>8. ASSUME NEW q \in Contact, q \notin rolled', out'[q] # NoKey,
               NEW k \in spent', k.root = St(out'[q]).root_key
        PROVE  k.n < St(out'[q]).chain_send.n
    <2>1. CASE q = p
      <3>1. out'[q] = Step(o)
        BY <1>1, <2>1 DEF OutMap
      <3>2. k = key
        BY <1>1, <1>4, <1>5, <1>8, <3>1
      <3>3. QED
        BY <1>4, <3>1, <3>2
    <2>2. CASE q # p
      <3>1. out'[q] = out[q] /\ q \notin rolled
        BY <1>1, <1>8, <2>2 DEF OutMap
      <3>2. PICK j : RootFor(St(out[q]).root_key, q, j)
        BY <1>8, <3>1 DEF SessionsInv, MapSound, SessionWith
      <3>3. k # key
        BY <1>3, <1>4, <1>8, <2>2, <3>1, <3>2, RootNames
      <3>4. QED
        BY <1>1, <1>4, <1>8, <3>1, <3>3 DEF SpentInv
    <2>3. QED
      BY <2>1, <2>2
  <1>9. spent' \subseteq ChainKey
    BY <1>1, <1>4 DEF SpentInv
  <1>10. QED
    BY <1>6, <1>7, <1>8, <1>9 DEF SpentInv

(* Every step of the session layer keeps the account of spent keys.        *)
LEMMA SpentStep ==
    SessionsInv /\ SpentInv /\ [SessionsNext]_sessions => SpentInv'
  <1> SUFFICES ASSUME SessionsInv, SpentInv, [SessionsNext]_sessions PROVE SpentInv'
    OBVIOUS
  <1>1. CASE UNCHANGED <<out, posted, spent, reused, rolled>>
    BY <1>1 DEF SpentInv
  <1>2. ASSUME NEW p \in Contact, EncryptNow(p) PROVE SpentInv'
    BY <1>2, EncryptKeepsSpent
  <1>3. ASSUME NEW c \in Call, Establish(c) PROVE SpentInv'
    BY <1>3, EstablishKeepsSpent
  <1>4. CASE CloseTab
    BY <1>4 DEF CloseTab, SpentInv
  <1>5. ASSUME NEW p \in Contact,
               Deliver(p) \/ ClosePeer(p) \/ LoginElsewhere(p) \/ Lose(p)
        PROVE  SpentInv'
    BY <1>1, <1>5 DEF Deliver, ClosePeer, LoginElsewhere, Lose
  <1>6. ASSUME NEW c \in Call, FetchFails(c) \/ \E p \in Contact : FetchBundle(c, p)
        PROVE  SpentInv'
    BY <1>1, <1>6 DEF FetchFails, FetchBundle
  <1>7. QED
    BY <1>1, <1>2, <1>3, <1>4, <1>5, <1>6 DEF SessionsNext, sessions

(* A message key is spent twice only for a peer whose session a waiting    *)
(* call has set back to an older one.                                      *)
THEOREM ReuseOnlyByOldMap == SessionsSpec => []ReuseNeedsOldMap
  <1>1. SessionsInit => SpentInv
    BY SessionsInitial
  <1>2. SpentInv => ReuseNeedsOldMap
    BY DEF SpentInv, ReuseNeedsOldMap
  <1>3. QED
    BY <1>1, <1>2, SessionsInvariant, SpentStep, PTL DEF SessionsSpec
=============================================================================
