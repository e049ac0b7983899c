---------------------------- MODULE RatchetProofs ----------------------------
(***************************************************************************)
(* Proofs about a pair of Double Ratchets, for every modulus of the        *)
(* counters and every number of messages.  The argument is that one of the *)
(* two parties always leads: it holds a sending chain, it knows every key  *)
(* its peer sends under, and its peer is either level with it or exactly   *)
(* one DH ratchet step behind, a step that the next frame it has not       *)
(* received sets off.                                                      *)
(***************************************************************************)
EXTENDS RatchetPair, FiniteSetTheorems, SequenceTheorems, TLAPS

RatchetState ==
    [root_key : Root, dh_self : Name, dh_remote : Name \cup {NoKey},
     chain_send : ChainKey \cup {NoKey}, chain_recv : ChainKey \cup {NoKey},
     send_n : Nat, recv_n : Nat]
FrameType == [dh : Name, key : ChainKey, nonce : Nat]
Item == [frame : FrameType, stale : BOOLEAN]

-----------------------------------------------------------------------------
(* Arithmetic of the counters.                                             *)

(* The remainder is the one the decomposition shows.                       *)
LEMMA Remainder ==
    ASSUME NEW n \in Nat, NEW C \in Nat \ {0}, NEW q \in Nat, NEW r \in 0 .. (C - 1),
           n = C * q + r
    PROVE  n % C = r
  OBVIOUS

(* A counter kept modulo C is the count modulo C.                          *)
LEMMA ModSucc ==
    ASSUME NEW n \in Nat, NEW C \in Nat \ {0}
    PROVE  ((n % C) + 1) % C = (n + 1) % C
  <1>0. n \div C \in Nat /\ n % C \in 0 .. (C - 1) /\ n = C * (n \div C) + (n % C)
    OBVIOUS
  <1>1. PICK q \in Nat, r \in 0 .. (C - 1), t \in Nat, cq \in Nat, ct \in Nat :
             q = n \div C /\ r = n % C /\ t = q + 1 /\ cq = C * q /\ ct = C * t
    BY <1>0
  <1>2. n = cq + r
    BY <1>0, <1>1
  <1>3. ct = cq + C
    BY <1>1
  <1>4. CASE r + 1 < C
    <2>1. n + 1 = cq + (r + 1) /\ n + 1 \in Nat /\ r + 1 \in 0 .. (C - 1)
      BY <1>2, <1>4
    <2>2. (n + 1) % C = r + 1
      BY <1>1, <2>1, Remainder
    <2>3. (r + 1) % C = r + 1
      BY <2>1
    <2>4. QED
      BY <1>1, <2>2, <2>3
  <1>5. CASE r + 1 = C
    <2>1. n + 1 = ct + 0 /\ n + 1 \in Nat /\ 0 \in 0 .. (C - 1)
      BY <1>2, <1>3, <1>5
    <2>2. (n + 1) % C = 0
      <3>1. ct = C * t
        BY <1>1
      <3>2. QED
        BY <2>1, <3>1, Remainder
    <2>3. (r + 1) % C = 0
      BY <1>5
    <2>4. QED
      BY <1>1, <2>2, <2>3
  <1>6. QED
    BY <1>4, <1>5

(* Remainders of the counters.                                             *)
LEMMA CounterFacts ==
    /\ 0 % Counter = 0
    /\ \A n \in Nat : /\ n % Counter \in Nat
                      /\ ((n % Counter) + 1) % Counter = (n + 1) % Counter
  <1>1. 0 % Counter = 0
    BY CounterAssumption
  <1>2. \A n \in Nat : n % Counter \in Nat
    BY CounterAssumption
  <1>3. \A n \in Nat : ((n % Counter) + 1) % Counter = (n + 1) % Counter
    BY CounterAssumption, ModSucc
  <1>4. QED
    BY <1>1, <1>2, <1>3

-----------------------------------------------------------------------------
(* One ratchet: what encrypt and decrypt make of a state in step with its  *)
(* own counters.                                                           *)

(* The state's counters are its chains' positions, and its sending chain   *)
(* is the one of its root.                                                 *)
Sound(s) ==
    /\ s \in RatchetState
    /\ s.chain_send # NoKey => /\ s.chain_send.root = s.root_key
                               /\ s.send_n = s.chain_send.n % Counter
    /\ s.chain_recv # NoKey => s.recv_n = s.chain_recv.n % Counter

Key(root, n) == [root |-> root, n |-> n]
FrameOn(dh, root, n) == [dh |-> dh, key |-> Key(root, n), nonce |-> n % Counter]

(* kdf_rk makes a root one step longer than the one it was given.          *)
LEMMA RootGrows ==
    ASSUME NEW root \in Root, NEW a \in Name, NEW b \in Name
    PROVE  /\ KdfRk(root, DH(a, b)) \in Root
           /\ Len(root) \in Nat
           /\ Len(KdfRk(root, DH(a, b))) = Len(root) + 1
  <1>1. PICK T : T = (SUBSET Name) \cup Seq(HandshakeInput)
    OBVIOUS
  <1>2. DH(a, b) \in T
    BY <1>1 DEF DH
  <1>3. root \in Seq(T) /\ Root = Seq(T)
    BY <1>1 DEF Root
  <1>4. QED
    BY <1>2, <1>3 DEF KdfRk

(* What the proofs use of kdf_rk and kdf_ck: a chain is a root and a       *)
(* count, and each step gives something new.                               *)
LEMMA KeyFacts ==
    /\ NoKey \notin ChainKey
    /\ \A root \in Root, n \in Nat : Key(root, n) \in ChainKey
    /\ \A root \in Root, a, b \in Name :
          /\ KdfRk(root, DH(a, b)) \in Root
          /\ DH(a, b) = DH(b, a) /\ Len(root) \in Nat
          /\ Len(KdfRk(root, DH(a, b))) = Len(root) + 1
    /\ \A root \in Root, n \in Nat : KdfCk(Key(root, n)) = Key(root, n + 1)
    /\ \A c \in ChainKey : /\ c = Key(c.root, c.n)
                           /\ c.root \in Root /\ c.n \in Nat
    /\ \A root, n : Key(root, n).root = root /\ Key(root, n).n = n
  <1>1. \A a, b \in Name : DH(a, b) \in SUBSET Name /\ DH(a, b) = DH(b, a)
    BY DEF DH
  <1>2. \A root \in Root, n \in Nat : KdfCk(Key(root, n)) = Key(root, n + 1)
    BY DEF KdfCk, Key
  <1>3. /\ \A c \in ChainKey : /\ c = Key(c.root, c.n)
                               /\ c.root \in Root /\ c.n \in Nat
        /\ \A root, n : Key(root, n).root = root /\ Key(root, n).n = n
    BY DEF ChainKey, Key
  <1>4. QED
    BY <1>1, <1>2, <1>3, RootGrows, NoKeyAssumption DEF ChainKey, Key

(* A chain key's root and count.                                           *)
LEMMA KeyParts ==
    ASSUME NEW root, NEW n
    PROVE  Key(root, n).root = root /\ Key(root, n).n = n
  BY DEF Key

(* A chain key is not the absence of one.                                  *)
LEMMA KeyType ==
    ASSUME NEW root \in Root, NEW n \in Nat
    PROVE  Key(root, n) \in ChainKey /\ Key(root, n) # NoKey
  BY NoKeyAssumption DEF Key, ChainKey

(* A sequence with one more element.                                       *)
LEMMA AppendFacts ==
    ASSUME NEW S, NEW w \in Seq(S), NEW x \in S
    PROVE  /\ Append(w, x) \in Seq(S)
           /\ Len(w) \in Nat /\ Len(Append(w, x)) = Len(w) + 1
           /\ \A i \in 1 .. Len(w) : Append(w, x)[i] = w[i]
           /\ Append(w, x)[Len(w) + 1] = x
  OBVIOUS

(* encrypt on the chain it has.                                            *)
LEMMA EncryptOnChain ==
    ASSUME NEW s, Sound(s), s.chain_send # NoKey, NEW fresh,
           NEW t, t = Encrypted(s, fresh)
    PROVE  /\ s.chain_send \in ChainKey /\ s.chain_send.n \in Nat
           /\ Frame(s, fresh) = FrameOn(s.dh_self, s.root_key, s.chain_send.n)
           /\ Frame(s, fresh).key = s.chain_send
           /\ Frame(s, fresh) \in FrameType
           /\ Sound(t)
           /\ t.root_key = s.root_key /\ t.dh_self = s.dh_self
           /\ t.dh_remote = s.dh_remote /\ t.chain_recv = s.chain_recv
           /\ t.chain_send = Key(s.root_key, s.chain_send.n + 1)
  <1>1. PICK c \in ChainKey : c = s.chain_send /\ c.n \in Nat /\ c.root = s.root_key
                              /\ c = Key(c.root, c.n)
    BY KeyFacts DEF Sound, RatchetState
  <1>2. ToSend(s, fresh) = s
    BY DEF ToSend, Rotates
  <1>3. /\ Frame(s, fresh) = FrameOn(s.dh_self, s.root_key, s.chain_send.n)
        /\ Frame(s, fresh).key = s.chain_send
        /\ Frame(s, fresh) \in FrameType
    BY <1>1, <1>2 DEF Frame, FrameOn, Sound, RatchetState, FrameType
  <1>4. KdfCk(c) = Key(c.root, c.n + 1) /\ Key(c.root, c.n + 1) \in ChainKey
    BY <1>1, KeyFacts
  <1>5. PICK m \in Nat : m = (s.send_n + 1) % Counter /\ m = (c.n + 1) % Counter
    BY <1>1, CounterFacts DEF Sound
  <1>6. t = [s EXCEPT !.chain_send = KdfCk(c), !.send_n = m]
    BY <1>1, <1>2, <1>5 DEF Encrypted, Sound, RatchetState
  <1>7. /\ t \in RatchetState
        /\ t.root_key = s.root_key /\ t.dh_self = s.dh_self
        /\ t.dh_remote = s.dh_remote /\ t.chain_recv = s.chain_recv
        /\ t.chain_send = Key(c.root, c.n + 1) /\ t.send_n = m /\ t.recv_n = s.recv_n
    BY <1>4, <1>6 DEF Sound, RatchetState
  <1>8. Sound(t)
    BY <1>1, <1>5, <1>7, KeyFacts DEF Sound
  <1>9. QED
    BY <1>1, <1>3, <1>7, <1>8

(* encrypt that rotates first.                                             *)
LEMMA EncryptRotating ==
    ASSUME NEW s, Sound(s), s.chain_send = NoKey, s.dh_remote # NoKey,
           NEW fresh \in Name, NEW t, t = Encrypted(s, fresh),
           NEW root, root = KdfRk(s.root_key, DH(fresh, s.dh_remote))
    PROVE  /\ root \in Root
           /\ Frame(s, fresh) = FrameOn(fresh, root, 0)
           /\ Frame(s, fresh) \in FrameType
           /\ Sound(t)
           /\ t.root_key = root /\ t.dh_self = fresh
           /\ t.dh_remote = s.dh_remote /\ t.chain_recv = s.chain_recv
           /\ t.chain_send = Key(root, 1)
  <1>1. /\ root \in Root
        /\ Key(root, 0) \in ChainKey /\ Key(root, 1) \in ChainKey
        /\ KdfCk(Key(root, 0)) = Key(root, 1)
    BY KeyFacts DEF Sound, RatchetState
  <1>2. PICK u : u = ToSend(s, fresh)
    OBVIOUS
  <1>3. u = [s EXCEPT !.dh_self = fresh, !.root_key = root,
                      !.chain_send = Key(root, 0), !.send_n = 0]
    BY <1>2 DEF ToSend, Rotates, Rotated, Chain, Key
  <1>4. /\ u \in RatchetState
        /\ u.dh_self = fresh /\ u.root_key = root
        /\ u.chain_send = Key(root, 0) /\ u.send_n = 0
        /\ u.dh_remote = s.dh_remote
        /\ u.chain_recv = s.chain_recv /\ u.recv_n = s.recv_n
    BY <1>1, <1>3 DEF Sound, RatchetState
  <1>5. /\ Frame(s, fresh) = FrameOn(fresh, root, 0)
        /\ Frame(s, fresh) \in FrameType
    BY <1>1, <1>2, <1>4, CounterFacts DEF Frame, FrameOn, FrameType
  <1>6. PICK m \in Nat : m = 1 % Counter
    BY CounterFacts
  <1>7. t = [u EXCEPT !.chain_send = Key(root, 1), !.send_n = m]
    <2>1. u.send_n + 1 = 1
      BY <1>4
    <2>2. QED
      BY <1>1, <1>2, <1>4, <1>6, <2>1 DEF Encrypted, RatchetState
  <1>8. /\ t \in RatchetState
        /\ t.dh_self = fresh /\ t.root_key = root
        /\ t.chain_send = Key(root, 1) /\ t.send_n = m
        /\ t.dh_remote = s.dh_remote
        /\ t.chain_recv = s.chain_recv /\ t.recv_n = s.recv_n
    BY <1>1, <1>4, <1>7 DEF RatchetState
  <1>9. Sound(t)
    <2>1. t.chain_send.root = root /\ t.chain_send.n = 1
      BY <1>8 DEF Key
    <2>2. QED
      BY <1>6, <1>8, <2>1 DEF Sound
  <1>10. QED
    BY <1>1, <1>5, <1>8, <1>9

(* decrypt of the frame due next on the chain it has.                      *)
LEMMA DecryptOnChain ==
    ASSUME NEW r, Sound(r), r.chain_recv # NoKey, NEW f,
           f = FrameOn(r.dh_remote, r.chain_recv.root, r.chain_recv.n),
           NEW t, t = Decrypted(r, f)
    PROVE  /\ r.chain_recv \in ChainKey /\ r.chain_recv.n \in Nat
           /\ Opens(r, f)
           /\ Sound(t)
           /\ t.root_key = r.root_key /\ t.dh_self = r.dh_self
           /\ t.dh_remote = r.dh_remote /\ t.chain_send = r.chain_send
           /\ t.chain_recv = Key(r.chain_recv.root, r.chain_recv.n + 1)
  <1>1. PICK c \in ChainKey : c = r.chain_recv /\ c.n \in Nat /\ c.root \in Root
                              /\ c = Key(c.root, c.n)
    BY KeyFacts DEF Sound, RatchetState
  <1>2. ToReceive(r, f) = r
    BY DEF ToReceive, FrameOn
  <1>3. Opens(r, f)
    BY <1>1, <1>2 DEF Opens, FrameOn, Sound
  <1>4. KdfCk(c) = Key(c.root, c.n + 1) /\ Key(c.root, c.n + 1) \in ChainKey
    BY <1>1, KeyFacts
  <1>5. PICK m \in Nat : m = (r.recv_n + 1) % Counter /\ m = (c.n + 1) % Counter
    BY <1>1, CounterFacts DEF Sound
  <1>6. t = [r EXCEPT !.chain_recv = KdfCk(c), !.recv_n = m]
    BY <1>1, <1>2, <1>5 DEF Decrypted, Sound, RatchetState
  <1>7. /\ t \in RatchetState
        /\ t.root_key = r.root_key /\ t.dh_self = r.dh_self
        /\ t.dh_remote = r.dh_remote /\ t.chain_send = r.chain_send
        /\ t.chain_recv = Key(c.root, c.n + 1) /\ t.recv_n = m /\ t.send_n = r.send_n
    BY <1>4, <1>6 DEF Sound, RatchetState
  <1>8. Sound(t)
    BY <1>5, <1>7, KeyFacts DEF Sound
  <1>9. QED
    BY <1>1, <1>3, <1>7, <1>8

(* decrypt of the first frame under a new key of the peer.                 *)
LEMMA DecryptRatcheting ==
    ASSUME NEW r, Sound(r), NEW dh \in Name, r.dh_remote # dh,
           NEW root \in Root, root = KdfRk(r.root_key, DH(r.dh_self, dh)),
           NEW f, f = FrameOn(dh, root, 0)
    PROVE  /\ Opens(r, f)
           /\ Sound(Decrypted(r, f))
           /\ \E t \in RatchetState :
                 /\ t = Decrypted(r, f)
                 /\ t.root_key = root /\ t.dh_self = r.dh_self /\ t.dh_remote = dh
                 /\ t.chain_send = NoKey /\ t.chain_recv = Key(root, 1)
  <1>0. PICK t : t = Decrypted(r, f)
    OBVIOUS
  <1>1. /\ root \in Root
        /\ Key(root, 0) \in ChainKey /\ Key(root, 1) \in ChainKey
        /\ KdfCk(Key(root, 0)) = Key(root, 1)
    BY KeyFacts DEF Sound, RatchetState
  <1>2. PICK u : u = ToReceive(r, f)
    OBVIOUS
  <1>3. u = [r EXCEPT !.root_key = root, !.chain_recv = Key(root, 0),
                      !.recv_n = 0, !.dh_remote = dh, !.chain_send = NoKey]
    BY <1>2 DEF ToReceive, FrameOn, Ratcheted, Chain, Key
  <1>4. /\ u \in RatchetState
        /\ u.root_key = root /\ u.chain_recv = Key(root, 0) /\ u.recv_n = 0
        /\ u.dh_remote = dh /\ u.chain_send = NoKey
        /\ u.dh_self = r.dh_self /\ u.send_n = r.send_n
    <2>1. /\ DOMAIN u = DOMAIN r
          /\ u.root_key = root /\ u.chain_recv = Key(root, 0) /\ u.recv_n = 0
          /\ u.dh_remote = dh /\ u.chain_send = NoKey
          /\ u.dh_self = r.dh_self /\ u.send_n = r.send_n
      BY <1>3 DEF Sound, RatchetState
    <2>2. u \in RatchetState
      BY <1>1, <1>3 DEF Sound, RatchetState
    <2>3. QED
      BY <2>1, <2>2
  <1>5. Opens(r, f)
    BY <1>2, <1>4, CounterFacts DEF Opens, FrameOn
  <1>6. PICK m \in Nat : m = 1 % Counter
    BY CounterFacts
  <1>7. t = [u EXCEPT !.chain_recv = Key(root, 1), !.recv_n = m]
    <2>1. u.recv_n + 1 = 1
      BY <1>4
    <2>2. QED
      BY <1>0, <1>1, <1>2, <1>4, <1>6, <2>1 DEF Decrypted, RatchetState
  <1>8. /\ t \in RatchetState
        /\ t.root_key = root /\ t.chain_recv = Key(root, 1) /\ t.recv_n = m
        /\ t.dh_remote = dh /\ t.chain_send = NoKey /\ t.dh_self = r.dh_self
    BY <1>1, <1>4, <1>7 DEF RatchetState
  <1>9. Sound(t)
    <2>1. t.chain_recv.n = 1
      BY <1>8 DEF Key
    <2>2. QED
      BY <1>6, <1>8, <2>1 DEF Sound
  <1>10. QED
    BY <1>0, <1>5, <1>8, <1>9

-----------------------------------------------------------------------------
(* Two ratchets and the frames between them: s sends, r receives w.        *)

(* The first cut frames are the next ones of the chain r receives on.      *)
Expected(r, w, cut) ==
    \A i \in 1 .. cut :
       /\ r.chain_recv # NoKey
       /\ w[i].frame = FrameOn(r.dh_remote, r.chain_recv.root, r.chain_recv.n + i - 1)

(* r has s's present key; all that is under way is on the chain it has.    *)
Level(s, r, w) ==
    /\ r.dh_remote = s.dh_self
    /\ Expected(r, w, Len(w))
    /\ s.chain_send # NoKey =>
          /\ r.chain_recv # NoKey
          /\ s.chain_send = Key(r.chain_recv.root, r.chain_recv.n + Len(w))

(* s is one DH ratchet step ahead of r; the frames after the first cut are *)
(* all of its new chain.                                                   *)
AheadFrom(s, r, w, cut) ==
    /\ Expected(r, w, cut)
    /\ \A i \in (cut + 1) .. Len(w) :
          w[i].frame = FrameOn(s.dh_self, s.root_key, i - cut - 1)
    /\ s.chain_send.n = Len(w) - cut

Ahead(s, r, w) ==
    /\ s.chain_send # NoKey
    /\ s.root_key = KdfRk(r.root_key, DH(s.dh_self, r.dh_self))
    /\ s.dh_self # r.dh_remote
    /\ \E cut \in 0 .. Len(w) : AheadFrom(s, r, w, cut)

(* a leads b: wb is what b has still to receive, wa what a has.            *)
Leading(a, b, wb, wa) ==
    /\ a.chain_send # NoKey
    /\ Level(b, a, wa)
    /\ \/ Ahead(a, b, wb) /\ (b.chain_send = NoKey => b.dh_remote = NoKey)
       \/ Level(a, b, wb) /\ a.root_key = b.root_key /\ b.chain_send = NoKey

(* What a receiver expects of the frames under way, after one more is sent *)
(* and after it has received the first.                                    *)
LEMMA ExpectedAppend ==
    ASSUME NEW r, NEW w \in Seq(Item), NEW x \in Item, NEW cut \in 0 .. Len(w),
           NEW t, t.dh_remote = r.dh_remote, t.chain_recv = r.chain_recv,
           Expected(r, w, cut)
    PROVE  Expected(t, Append(w, x), cut) /\ Expected(t, w, cut)
  BY DEF Expected

(* After the first of the frames a chain expects, it expects the rest.     *)
LEMMA ExpectedTail ==
    ASSUME NEW r, Sound(r), NEW w \in Seq(Item), w # <<>>, NEW cut \in 1 .. Len(w),
           NEW t, t.dh_remote = r.dh_remote,
           t.chain_recv = Key(r.chain_recv.root, r.chain_recv.n + 1),
           Expected(r, w, cut)
    PROVE  /\ r.chain_recv # NoKey /\ r.chain_recv \in ChainKey
           /\ t.chain_recv # NoKey
           /\ Head(w).frame = FrameOn(r.dh_remote, r.chain_recv.root, r.chain_recv.n)
           /\ Expected(t, Tail(w), cut - 1)
  <1>1. r.chain_recv # NoKey
    BY DEF Expected
  <1>2. PICK c \in ChainKey : c = r.chain_recv /\ c.n \in Nat /\ c.root \in Root
    BY <1>1, KeyFacts DEF Sound, RatchetState
  <1>3. t.chain_recv # NoKey /\ t.chain_recv.root = c.root /\ t.chain_recv.n = c.n + 1
    <2>1. c.n + 1 \in Nat
      BY <1>2
    <2>2. Key(c.root, c.n + 1) # NoKey
      BY <1>2, <2>1, KeyType
    <2>3. QED
      BY <1>2, <2>2, KeyParts
  <1>4. Head(w).frame = FrameOn(r.dh_remote, c.root, c.n)
    <2>1. 1 \in 1 .. cut /\ Head(w) = w[1] /\ c.n + 1 - 1 = c.n
      BY <1>2
    <2>2. w[1].frame = FrameOn(r.dh_remote, c.root, c.n + 1 - 1)
      BY <1>2, <2>1 DEF Expected
    <2>3. QED
      BY <2>1, <2>2
  <1>5. ASSUME NEW i \in 1 .. (cut - 1)
        PROVE  Tail(w)[i].frame = FrameOn(t.dh_remote, t.chain_recv.root,
                                          t.chain_recv.n + i - 1)
    <2>1. i + 1 \in 1 .. cut /\ Tail(w)[i] = w[i + 1]
      OBVIOUS
    <2>2. w[i + 1].frame = FrameOn(r.dh_remote, c.root, c.n + (i + 1) - 1)
      BY <1>2, <2>1 DEF Expected
    <2>3. c.n + (i + 1) - 1 = t.chain_recv.n + i - 1
      BY <1>2, <1>3
    <2>4. QED
      BY <1>3, <2>1, <2>2, <2>3
  <1>6. QED
    BY <1>1, <1>2, <1>3, <1>4, <1>5 DEF Expected

(* The leader sends: it stays the leader.                                  *)
LEMMA LeaderSends ==
    ASSUME NEW a, NEW b, NEW wa \in Seq(Item), NEW wb \in Seq(Item),
           Sound(a), Sound(b), Leading(a, b, wb, wa), NEW x \in Item,
           x.frame = FrameOn(a.dh_self, a.root_key, a.chain_send.n),
           NEW t, Sound(t), t.root_key = a.root_key, t.dh_self = a.dh_self,
           t.dh_remote = a.dh_remote, t.chain_recv = a.chain_recv,
           t.chain_send = Key(a.root_key, a.chain_send.n + 1)
    PROVE  Leading(t, b, Append(wb, x), wa)
  <1>1. PICK c \in ChainKey : c = a.chain_send /\ c.n \in Nat /\ c.root = a.root_key
                              /\ c.root \in Root
    BY KeyFacts DEF Sound, RatchetState, Leading
  <1>2. t.chain_send # NoKey /\ t.chain_send.n = c.n + 1
    <2>1. c.n + 1 \in Nat
      BY <1>1
    <2>2. Key(c.root, c.n + 1) # NoKey
      BY <1>1, <2>1, KeyType
    <2>3. QED
      BY <1>1, <2>2, KeyParts
  <1>3. Level(b, t, wa)
    BY ExpectedAppend DEF Leading, Level, Expected
  <1>4. PICK w \in Seq(Item) : w = Append(wb, x)
    BY AppendFacts
  <1>5. /\ Len(w) = Len(wb) + 1 /\ Len(wb) \in Nat
        /\ \A i \in 1 .. Len(wb) : w[i] = wb[i]
        /\ w[Len(wb) + 1] = x
    BY <1>4, AppendFacts
  <1>6. CASE Ahead(a, b, wb) /\ (b.chain_send = NoKey => b.dh_remote = NoKey)
    <2>1. PICK cut \in 0 .. Len(wb) : AheadFrom(a, b, wb, cut)
      BY <1>6 DEF Ahead
    <2>2. Expected(b, w, cut)
      BY <1>4, <2>1, ExpectedAppend DEF AheadFrom
    <2>3. ASSUME NEW i \in (cut + 1) .. Len(w)
          PROVE  w[i].frame = FrameOn(t.dh_self, t.root_key, i - cut - 1)
      <3>1. CASE i \in (cut + 1) .. Len(wb)
        BY <1>5, <2>1, <3>1 DEF AheadFrom
      <3>2. CASE i = Len(wb) + 1
        <4>1. i - cut - 1 = c.n
          BY <1>1, <1>5, <2>1, <3>2 DEF AheadFrom
        <4>2. QED
          BY <1>1, <1>5, <3>2, <4>1
      <3>3. QED
        BY <1>5, <3>1, <3>2
    <2>4. t.chain_send.n = Len(w) - cut
      BY <1>1, <1>2, <1>5, <2>1 DEF AheadFrom
    <2>5. AheadFrom(t, b, w, cut) /\ cut \in 0 .. Len(w)
      BY <1>5, <2>2, <2>3, <2>4 DEF AheadFrom
    <2>6. Ahead(t, b, w)
      BY <1>2, <1>6, <2>5 DEF Ahead
    <2>7. QED
      BY <1>2, <1>3, <1>4, <1>6, <2>6 DEF Leading
  <1>7. CASE Level(a, b, wb) /\ a.root_key = b.root_key /\ b.chain_send = NoKey
    <2>1. /\ b.chain_recv # NoKey
          /\ a.chain_send = Key(b.chain_recv.root, b.chain_recv.n + Len(wb))
          /\ b.dh_remote = a.dh_self
          /\ Expected(b, wb, Len(wb))
      BY <1>7 DEF Level, Leading
    <2>2. PICK d \in ChainKey : d = b.chain_recv /\ d.n \in Nat /\ d.root \in Root
      BY <2>1, KeyFacts DEF Sound, RatchetState
    <2>3. c.n = d.n + Len(wb) /\ d.root = a.root_key
      BY <1>1, <2>1, <2>2, KeyParts
    <2>4. ASSUME NEW i \in 1 .. Len(w)
          PROVE  w[i].frame = FrameOn(b.dh_remote, d.root, d.n + i - 1)
      <3>1. CASE i \in 1 .. Len(wb)
        BY <1>5, <2>1, <2>2, <3>1 DEF Expected
      <3>2. CASE i = Len(wb) + 1
        <4>1. d.n + i - 1 = c.n
          BY <1>5, <2>2, <2>3, <3>2
        <4>2. QED
          BY <1>1, <1>5, <2>1, <2>3, <3>2, <4>1
      <3>3. QED
        BY <1>5, <3>1, <3>2
    <2>5. t.chain_send = Key(d.root, d.n + Len(w))
      <3>1. c.n + 1 = d.n + Len(w)
        <4>1. PICK l \in Nat, m \in Nat : l = Len(wb) /\ m = d.n
          BY <1>5, <2>2
        <4>2. c.n = m + l /\ Len(w) = l + 1
          BY <1>5, <2>3, <4>1
        <4>3. (m + l) + 1 = m + (l + 1)
          OBVIOUS
        <4>4. QED
          BY <4>1, <4>2, <4>3
      <3>2. QED
        BY <1>1, <2>3, <3>1
    <2>6. Level(t, b, w)
      BY <2>1, <2>2, <2>4, <2>5 DEF Level, Expected
    <2>7. QED
      BY <1>2, <1>3, <1>4, <1>7, <2>6 DEF Leading
  <1>8. QED
    BY <1>6, <1>7 DEF Leading

(* The other party sends on the chain it has.                              *)
LEMMA FollowerSends ==
    ASSUME NEW a, NEW b, NEW wa \in Seq(Item), NEW wb \in Seq(Item),
           Sound(a), Sound(b), Leading(a, b, wb, wa), b.chain_send # NoKey,
           NEW x \in Item,
           x.frame = FrameOn(b.dh_self, b.root_key, b.chain_send.n),
           NEW t, Sound(t), t.root_key = b.root_key, t.dh_self = b.dh_self,
           t.dh_remote = b.dh_remote, t.chain_recv = b.chain_recv,
           t.chain_send = Key(b.root_key, b.chain_send.n + 1)
    PROVE  Leading(a, t, wb, Append(wa, x))
  <1>1. PICK c \in ChainKey : c = b.chain_send /\ c.n \in Nat /\ c.root = b.root_key
                              /\ c.root \in Root
    BY KeyFacts DEF Sound, RatchetState
  <1>2. t.chain_send # NoKey
    <2>1. c.n + 1 \in Nat
      BY <1>1
    <2>2. Key(c.root, c.n + 1) # NoKey
      BY <1>1, <2>1, KeyType
    <2>3. QED
      BY <1>1, <2>2
  <1>3. PICK w \in Seq(Item) : w = Append(wa, x)
    BY AppendFacts
  <1>4. /\ Len(w) = Len(wa) + 1 /\ Len(wa) \in Nat
        /\ \A i \in 1 .. Len(wa) : w[i] = wa[i]
        /\ w[Len(wa) + 1] = x
    BY <1>3, AppendFacts
  <1>5. Ahead(a, b, wb) /\ Level(b, a, wa) /\ a.chain_send # NoKey
    BY DEF Leading
  <1>6. Ahead(a, t, wb)
    <2>1. PICK cut \in 0 .. Len(wb) : AheadFrom(a, b, wb, cut)
      BY <1>5 DEF Ahead
    <2>2. AheadFrom(a, t, wb, cut)
      BY <2>1 DEF AheadFrom, Expected
    <2>3. QED
      BY <1>5, <2>2 DEF Ahead
  <1>7. Level(t, a, w)
    <2>1. /\ a.chain_recv # NoKey
          /\ b.chain_send = Key(a.chain_recv.root, a.chain_recv.n + Len(wa))
          /\ a.dh_remote = b.dh_self
          /\ Expected(a, wa, Len(wa))
      BY <1>5 DEF Level
    <2>2. PICK d \in ChainKey : d = a.chain_recv /\ d.n \in Nat /\ d.root \in Root
      BY <2>1, KeyFacts DEF Sound, RatchetState
    <2>3. c.n = d.n + Len(wa) /\ d.root = b.root_key
      BY <1>1, <2>1, <2>2, KeyParts
    <2>4. ASSUME NEW i \in 1 .. Len(w)
          PROVE  w[i].frame = FrameOn(a.dh_remote, d.root, d.n + i - 1)
      <3>1. CASE i \in 1 .. Len(wa)
        BY <1>4, <2>1, <2>2, <3>1 DEF Expected
      <3>2. CASE i = Len(wa) + 1
        <4>1. d.n + i - 1 = c.n
          BY <1>4, <2>2, <2>3, <3>2
        <4>2. QED
          BY <1>1, <1>4, <2>1, <2>3, <3>2, <4>1
      <3>3. QED
        BY <1>4, <3>1, <3>2
    <2>5. t.chain_send = Key(d.root, d.n + Len(w))
      <3>1. c.n + 1 = d.n + Len(w)
        <4>1. PICK l \in Nat, m \in Nat : l = Len(wa) /\ m = d.n
          BY <1>4, <2>2
        <4>2. c.n = m + l /\ Len(w) = l + 1
          BY <1>4, <2>3, <4>1
        <4>3. (m + l) + 1 = m + (l + 1)
          OBVIOUS
        <4>4. QED
          BY <4>1, <4>2, <4>3
      <3>2. QED
        BY <1>1, <2>3, <3>1
    <2>6. QED
      BY <2>1, <2>2, <2>4, <2>5 DEF Level, Expected
  <1>8. QED
    BY <1>2, <1>3, <1>5, <1>6, <1>7 DEF Leading

(* The other party rotates: it becomes the leader.                         *)
LEMMA FollowerRotates ==
    ASSUME NEW a, NEW b, NEW wa \in Seq(Item), NEW wb \in Seq(Item),
           Sound(a), Sound(b), Leading(a, b, wb, wa),
           b.chain_send = NoKey, b.dh_remote # NoKey,
           NEW fresh \in Name, fresh # b.dh_self,
           NEW root, root = KdfRk(b.root_key, DH(fresh, b.dh_remote)),
           NEW x \in Item, x.frame = FrameOn(fresh, root, 0),
           NEW t, Sound(t), t.root_key = root, t.dh_self = fresh,
           t.dh_remote = b.dh_remote, t.chain_recv = b.chain_recv,
           t.chain_send = Key(root, 1)
    PROVE  Leading(t, a, Append(wa, x), wb) /\ a.root_key = b.root_key
  <1>1. /\ Level(a, b, wb) /\ a.root_key = b.root_key
        /\ Level(b, a, wa) /\ a.chain_send # NoKey
    BY DEF Leading, Ahead
  <1>2. root \in Root
    BY DEF Sound, RatchetState
  <1>3. t.chain_send # NoKey /\ t.chain_send.n = 1
    BY <1>2, KeyType, KeyParts
  <1>4. PICK w \in Seq(Item) : w = Append(wa, x)
    BY AppendFacts
  <1>5. /\ Len(w) = Len(wa) + 1 /\ Len(wa) \in Nat
        /\ \A i \in 1 .. Len(wa) : w[i] = wa[i]
        /\ w[Len(wa) + 1] = x
    BY <1>4, AppendFacts
  <1>6. Level(a, t, wb)
    BY <1>1 DEF Level, Expected
  <1>7. Ahead(t, a, w)
    <2>1. t.root_key = KdfRk(a.root_key, DH(t.dh_self, a.dh_self))
      BY <1>1 DEF Level
    <2>2. t.dh_self # a.dh_remote
      BY <1>1 DEF Level
    <2>3. Expected(a, w, Len(wa))
      BY <1>1, <1>5 DEF Level, Expected
    <2>4. ASSUME NEW i \in (Len(wa) + 1) .. Len(w)
          PROVE  w[i].frame = FrameOn(t.dh_self, t.root_key, i - Len(wa) - 1)
      <3>1. i = Len(wa) + 1 /\ i - Len(wa) - 1 = 0
        BY <1>5
      <3>2. QED
        BY <1>5, <3>1
    <2>5. t.chain_send.n = Len(w) - Len(wa) /\ Len(wa) \in 0 .. Len(w)
      BY <1>3, <1>5
    <2>6. AheadFrom(t, a, w, Len(wa))
      BY <2>3, <2>4, <2>5 DEF AheadFrom
    <2>7. QED
      BY <1>3, <2>1, <2>2, <2>5, <2>6 DEF Ahead
  <1>8. QED
    BY <1>1, <1>3, <1>4, <1>6, <1>7 DEF Leading

(* Level, after the receiver has opened the frame due next.                *)
LEMMA LevelReceives ==
    ASSUME NEW s, NEW r, Sound(s), Sound(r), NEW w \in Seq(Item), w # <<>>,
           Level(s, r, w),
           NEW t, t.dh_remote = r.dh_remote,
           t.chain_recv = Key(r.chain_recv.root, r.chain_recv.n + 1)
    PROVE  Level(s, t, Tail(w))
  <1>1. /\ Len(w) \in 1 .. Len(w) /\ Len(Tail(w)) = Len(w) - 1 /\ Len(w) \in Nat \ {0}
    OBVIOUS
  <1>2. /\ r.chain_recv # NoKey /\ r.chain_recv \in ChainKey
        /\ t.chain_recv # NoKey
        /\ Expected(t, Tail(w), Len(w) - 1)
    BY <1>1, ExpectedTail DEF Level
  <1>3. PICK c \in ChainKey : c = r.chain_recv /\ c.n \in Nat
    BY <1>2, KeyFacts
  <1>4. t.chain_recv.root = c.root /\ t.chain_recv.n = c.n + 1
    BY <1>3, KeyParts
  <1>5. t.chain_recv.n + Len(Tail(w)) = c.n + Len(w)
    BY <1>1, <1>3, <1>4
  <1>6. s.chain_send # NoKey
           => s.chain_send = Key(t.chain_recv.root, t.chain_recv.n + Len(Tail(w)))
    BY <1>3, <1>4, <1>5 DEF Level
  <1>7. QED
    BY <1>1, <1>2, <1>6 DEF Level

(* What decrypt makes of the state r when it opens f: a frame under a new  *)
(* key ends the sending chain, any other leaves it alone.                  *)
Received(r, f, t) ==
    /\ Opens(r, f)
    /\ Sound(t)
    /\ t.dh_self = r.dh_self
    /\ Len(r.root_key) =< Len(t.root_key)
    /\ \/ t.chain_send = NoKey
       \/ /\ t.chain_send = r.chain_send /\ t.root_key = r.root_key
          /\ f.dh = r.dh_remote

(* decrypt of the frame the present receiving chain expects: only that     *)
(* chain moves.                                                            *)
LEMMA ReceivedOnChain ==
    ASSUME NEW r, Sound(r), NEW w \in Seq(Item), w # <<>>, NEW cut \in 1 .. Len(w),
           Expected(r, w, cut),
           NEW f, f = Head(w).frame, NEW t, t = Decrypted(r, f)
    PROVE  /\ Received(r, f, t)
           /\ t.root_key = r.root_key /\ t.dh_self = r.dh_self
           /\ t.dh_remote = r.dh_remote /\ t.chain_send = r.chain_send
           /\ t.chain_recv = Key(r.chain_recv.root, r.chain_recv.n + 1)
           /\ Expected(t, Tail(w), cut - 1)
  <1>1. /\ r.chain_recv # NoKey
        /\ f = FrameOn(r.dh_remote, r.chain_recv.root, r.chain_recv.n)
    <2>1. PICK u : u = [r EXCEPT !.chain_recv = Key(r.chain_recv.root,
                                                    r.chain_recv.n + 1)]
      OBVIOUS
    <2>2. /\ u.dh_remote = r.dh_remote
          /\ u.chain_recv = Key(r.chain_recv.root, r.chain_recv.n + 1)
      BY <2>1 DEF Sound, RatchetState
    <2>3. QED
      BY <2>2, ExpectedTail
  <1>2. /\ Opens(r, f) /\ Sound(t)
        /\ t.root_key = r.root_key /\ t.dh_self = r.dh_self
        /\ t.dh_remote = r.dh_remote /\ t.chain_send = r.chain_send
        /\ t.chain_recv = Key(r.chain_recv.root, r.chain_recv.n + 1)
    BY <1>1, DecryptOnChain
  <1>3. Expected(t, Tail(w), cut - 1)
    BY <1>2, ExpectedTail
  <1>4. Len(r.root_key) =< Len(t.root_key)
    <2>1. Len(r.root_key) \in Nat
      BY DEF Sound, RatchetState, Root
    <2>2. QED
      BY <1>2, <2>1
  <1>5. f.dh = r.dh_remote
    BY <1>1 DEF FrameOn
  <1>6. QED
    BY <1>2, <1>3, <1>4, <1>5 DEF Received

(* The leader receives: always a frame of the chain it has.                *)
LEMMA LeaderReceives ==
    ASSUME NEW a, NEW b, NEW wa \in Seq(Item), NEW wb \in Seq(Item),
           Sound(a), Sound(b), Leading(a, b, wb, wa), wa # <<>>,
           NEW f, f = Head(wa).frame, NEW t, t = Decrypted(a, f)
    PROVE  Received(a, f, t) /\ Leading(t, b, wb, Tail(wa))
  <1>1. Len(wa) \in 1 .. Len(wa) /\ Expected(a, wa, Len(wa)) /\ Level(b, a, wa)
    BY DEF Leading, Level
  <1>2. /\ Received(a, f, t)
        /\ t.root_key = a.root_key /\ t.dh_self = a.dh_self
        /\ t.dh_remote = a.dh_remote /\ t.chain_send = a.chain_send
        /\ t.chain_recv = Key(a.chain_recv.root, a.chain_recv.n + 1)
    BY <1>1, ReceivedOnChain
  <1>3. Level(b, t, Tail(wa))
    BY <1>1, <1>2, LevelReceives
  <1>4. Ahead(a, b, wb) => Ahead(t, b, wb)
    BY <1>2 DEF Ahead, AheadFrom
  <1>5. Level(a, b, wb) => Level(t, b, wb)
    BY <1>2 DEF Level
  <1>6. QED
    BY <1>2, <1>3, <1>4, <1>5 DEF Leading

(* The other party receives: a frame of the chain it has, or the first     *)
(* under the leader's new key, which makes it level.                       *)
LEMMA FollowerReceives ==
    ASSUME NEW a, NEW b, NEW wa \in Seq(Item), NEW wb \in Seq(Item),
           Sound(a), Sound(b), Leading(a, b, wb, wa), wb # <<>>,
           NEW f, f = Head(wb).frame, NEW t, t = Decrypted(b, f)
    PROVE  Received(b, f, t) /\ Leading(a, t, Tail(wb), wa)
  <1>0. /\ Len(wb) \in Nat \ {0} /\ Len(Tail(wb)) = Len(wb) - 1
        /\ Tail(wb) \in Seq(Item) /\ Head(wb) = wb[1]
        /\ \A i \in 1 .. (Len(wb) - 1) : Tail(wb)[i] = wb[i + 1]
    OBVIOUS
  <1>1. CASE Level(a, b, wb) /\ a.root_key = b.root_key /\ b.chain_send = NoKey
    <2>1. Len(wb) \in 1 .. Len(wb) /\ Expected(b, wb, Len(wb))
      BY <1>0, <1>1 DEF Level
    <2>2. /\ Received(b, f, t)
          /\ t.root_key = b.root_key /\ t.dh_self = b.dh_self
          /\ t.dh_remote = b.dh_remote /\ t.chain_send = b.chain_send
          /\ t.chain_recv = Key(b.chain_recv.root, b.chain_recv.n + 1)
      BY <2>1, ReceivedOnChain
    <2>3. Level(a, t, Tail(wb))
      BY <1>1, <2>2, LevelReceives
    <2>4. Level(t, a, wa)
      BY <2>2 DEF Level, Leading
    <2>5. QED
      BY <1>1, <2>2, <2>3, <2>4 DEF Leading
  <1>2. CASE Ahead(a, b, wb) /\ (b.chain_send = NoKey => b.dh_remote = NoKey)
    <2>1. PICK cut \in 0 .. Len(wb) : AheadFrom(a, b, wb, cut)
      BY <1>2 DEF Ahead
    <2>2. CASE cut # 0
      <3>1. cut \in 1 .. Len(wb) /\ Expected(b, wb, cut)
        BY <2>1, <2>2 DEF AheadFrom
      <3>2. /\ Received(b, f, t)
            /\ t.root_key = b.root_key /\ t.dh_self = b.dh_self
            /\ t.dh_remote = b.dh_remote /\ t.chain_send = b.chain_send
            /\ Expected(t, Tail(wb), cut - 1)
        BY <3>1, ReceivedOnChain
      <3>3. ASSUME NEW i \in ((cut - 1) + 1) .. Len(Tail(wb))
            PROVE  Tail(wb)[i].frame = FrameOn(a.dh_self, a.root_key, i - (cut - 1) - 1)
        <4>1. i + 1 \in (cut + 1) .. Len(wb) /\ Tail(wb)[i] = wb[i + 1]
          BY <1>0, <3>1
        <4>2. wb[i + 1].frame = FrameOn(a.dh_self, a.root_key, (i + 1) - cut - 1)
          BY <2>1, <4>1 DEF AheadFrom
        <4>3. (i + 1) - cut - 1 = i - (cut - 1) - 1
          BY <1>0, <3>1
        <4>4. QED
          BY <4>1, <4>2, <4>3
      <3>4. a.chain_send.n = Len(Tail(wb)) - (cut - 1) /\ cut - 1 \in 0 .. Len(Tail(wb))
        BY <1>0, <2>1, <3>1 DEF AheadFrom
      <3>5. AheadFrom(a, t, Tail(wb), cut - 1)
        BY <3>2, <3>3, <3>4 DEF AheadFrom
      <3>6. Ahead(a, t, Tail(wb))
        BY <1>2, <3>2, <3>4, <3>5 DEF Ahead
      <3>7. Level(t, a, wa)
        BY <3>2 DEF Level, Leading
      <3>8. QED
        BY <1>2, <3>2, <3>6, <3>7 DEF Leading
    <2>3. CASE cut = 0
      <3>1. PICK root \in Root, dh \in Name :
                 /\ dh = a.dh_self /\ root = a.root_key
                 /\ root = KdfRk(b.root_key, DH(b.dh_self, dh))
                 /\ b.dh_remote # dh
        <4>1. DH(a.dh_self, b.dh_self) = DH(b.dh_self, a.dh_self)
          BY DEF DH
        <4>2. QED
          BY <1>2, <4>1 DEF Ahead, Sound, RatchetState
      <3>2. f = FrameOn(dh, root, 0)
        <4>1. 1 \in (cut + 1) .. Len(wb) /\ 1 - cut - 1 = 0
          BY <1>0, <2>3
        <4>2. wb[1].frame = FrameOn(dh, root, 1 - cut - 1)
          BY <2>1, <3>1, <4>1 DEF AheadFrom
        <4>3. QED
          BY <1>0, <4>1, <4>2
      <3>3. /\ Opens(b, f) /\ Sound(t)
            /\ t.root_key = root /\ t.dh_self = b.dh_self /\ t.dh_remote = dh
            /\ t.chain_send = NoKey /\ t.chain_recv = Key(root, 1)
        <4>1. PICK u \in RatchetState :
                   /\ u = Decrypted(b, f)
                   /\ u.root_key = root /\ u.dh_self = b.dh_self /\ u.dh_remote = dh
                   /\ u.chain_send = NoKey /\ u.chain_recv = Key(root, 1)
          BY <3>1, <3>2, DecryptRatcheting
        <4>2. Opens(b, f) /\ Sound(Decrypted(b, f))
          BY <3>1, <3>2, DecryptRatcheting
        <4>3. QED
          BY <4>1, <4>2
      <3>4. Len(b.root_key) =< Len(t.root_key)
        <4>1. b.root_key \in Root /\ b.dh_self \in Name
          BY DEF Sound, RatchetState
        <4>2. Len(b.root_key) \in Nat /\ Len(root) = Len(b.root_key) + 1
          <5>1. dh \in Name /\ root = KdfRk(b.root_key, DH(b.dh_self, dh))
            BY <3>1
          <5>2. /\ Len(b.root_key) \in Nat
                /\ Len(KdfRk(b.root_key, DH(b.dh_self, dh))) = Len(b.root_key) + 1
            BY <4>1, <5>1, RootGrows
          <5>3. QED
            BY <5>1, <5>2, Zenon
        <4>3. QED
          BY <3>3, <4>2
      <3>5. Received(b, f, t)
        BY <3>3, <3>4 DEF Received
      <3>6. /\ t.chain_recv # NoKey
            /\ t.chain_recv.root = root /\ t.chain_recv.n = 1
        BY <3>3, KeyType, KeyParts
      <3>7. ASSUME NEW i \in 1 .. Len(Tail(wb))
            PROVE  Tail(wb)[i].frame = FrameOn(t.dh_remote, t.chain_recv.root,
                                               t.chain_recv.n + i - 1)
        <4>1. i + 1 \in (cut + 1) .. Len(wb) /\ Tail(wb)[i] = wb[i + 1]
          BY <1>0, <2>3
        <4>2. wb[i + 1].frame = FrameOn(a.dh_self, a.root_key, (i + 1) - cut - 1)
          BY <2>1, <4>1 DEF AheadFrom
        <4>3. (i + 1) - cut - 1 = t.chain_recv.n + i - 1
          BY <1>0, <2>3, <3>6
        <4>4. QED
          BY <3>1, <3>3, <3>6, <4>1, <4>2, <4>3
      <3>8. a.chain_send = Key(t.chain_recv.root, t.chain_recv.n + Len(Tail(wb)))
        <4>1. a.chain_send # NoKey /\ a.chain_send.n = Len(wb) /\ a.chain_send.root = root
          <5>1. a.chain_send # NoKey /\ a.chain_send.n = Len(wb) - cut
            BY <1>2, <2>1 DEF AheadFrom, Ahead
          <5>2. a.chain_send.root = root
            BY <3>1, <5>1 DEF Sound
          <5>3. Len(wb) - cut = Len(wb)
            BY <1>0, <2>3
          <5>4. QED
            BY <5>1, <5>2, <5>3
        <4>2. a.chain_send = Key(root, Len(wb))
          <5>1. a.chain_send \in ChainKey
            BY <4>1 DEF Sound, RatchetState
          <5>2. a.chain_send = Key(a.chain_send.root, a.chain_send.n)
            BY <5>1, KeyFacts
          <5>3. QED
            BY <4>1, <5>2, Zenon
        <4>3. t.chain_recv.n + Len(Tail(wb)) = Len(wb)
          BY <1>0, <3>6
        <4>4. QED
          BY <3>6, <4>2, <4>3
      <3>9. Level(a, t, Tail(wb))
        BY <3>1, <3>3, <3>6, <3>7, <3>8 DEF Level, Expected
      <3>10. Level(t, a, wa)
        BY <3>3 DEF Level, Leading
      <3>11. QED
        BY <3>1, <3>3, <3>5, <3>9, <3>10 DEF Leading
    <2>4. QED
      BY <2>2, <2>3
  <1>3. QED
    BY <1>1, <1>2 DEF Leading

-----------------------------------------------------------------------------
(* One of the two leads.                                                   *)
Turn(a, b, wb, wa) == Leading(a, b, wb, wa) \/ Leading(b, a, wa, wb)

(* What encrypt makes of the state a: the frame is the next of its chain,  *)
(* or the first of a new one whose root is longer than both roots.         *)
SentAs(a, b, fresh, f, t) ==
    /\ Sound(t)
    /\ f \in FrameType
    /\ \/ /\ a.chain_send # NoKey /\ f.key = a.chain_send
          /\ t.dh_self = a.dh_self /\ t.root_key = a.root_key
          /\ t.chain_send = Key(a.root_key, a.chain_send.n + 1)
       \/ /\ a.chain_send = NoKey /\ f.key = Key(t.root_key, 0)
          /\ a.root_key = b.root_key /\ Len(t.root_key) = Len(a.root_key) + 1
          /\ t.dh_self = fresh /\ f.dh = fresh
          /\ t.chain_send = Key(t.root_key, 1)

(* encrypt keeps whose turn it is right, and its frame is what the peer    *)
(* will expect.                                                            *)
LEMMA PairSends ==
    ASSUME NEW a, NEW b, NEW wa \in Seq(Item), NEW wb \in Seq(Item),
           Sound(a), Sound(b), Turn(a, b, wb, wa), CanEncrypt(a),
           NEW fresh \in Name, fresh # a.dh_self,
           NEW x \in Item, x.frame = Frame(a, fresh),
           NEW t, t = Encrypted(a, fresh)
    PROVE  /\ SentAs(a, b, fresh, Frame(a, fresh), t)
           /\ Turn(t, b, Append(wb, x), wa)
  <1>1. CASE a.chain_send # NoKey
    <2>1. /\ Frame(a, fresh) = FrameOn(a.dh_self, a.root_key, a.chain_send.n)
          /\ Frame(a, fresh).key = a.chain_send
          /\ Frame(a, fresh) \in FrameType
          /\ Sound(t)
          /\ t.root_key = a.root_key /\ t.dh_self = a.dh_self
          /\ t.dh_remote = a.dh_remote /\ t.chain_recv = a.chain_recv
          /\ t.chain_send = Key(a.root_key, a.chain_send.n + 1)
      BY <1>1, EncryptOnChain
    <2>2. CASE Leading(a, b, wb, wa)
      BY <1>1, <2>1, <2>2, LeaderSends DEF SentAs, Turn
    <2>3. CASE Leading(b, a, wa, wb)
      BY <1>1, <2>1, <2>3, FollowerSends DEF SentAs, Turn
    <2>4. QED
      BY <2>2, <2>3 DEF Turn
  <1>2. CASE a.chain_send = NoKey
    <2>1. a.dh_remote # NoKey /\ Leading(b, a, wa, wb)
      BY <1>2 DEF CanEncrypt, Turn, Leading
    <2>2. PICK root : root = KdfRk(a.root_key, DH(fresh, a.dh_remote))
      OBVIOUS
    <2>3. /\ root \in Root
          /\ Frame(a, fresh) = FrameOn(fresh, root, 0)
          /\ Frame(a, fresh) \in FrameType
          /\ Sound(t)
          /\ t.root_key = root /\ t.dh_self = fresh
          /\ t.dh_remote = a.dh_remote /\ t.chain_recv = a.chain_recv
          /\ t.chain_send = Key(root, 1)
      BY <1>2, <2>1, <2>2, EncryptRotating
    <2>4. Leading(t, b, Append(wb, x), wa) /\ a.root_key = b.root_key
      BY <1>2, <2>1, <2>2, <2>3, FollowerRotates
    <2>5. Len(root) = Len(a.root_key) + 1
      <3>1. a.root_key \in Root /\ a.dh_remote \in Name
        BY <2>1 DEF Sound, RatchetState
      <3>2. QED
        BY <2>2, <3>1, RootGrows
    <2>6. Frame(a, fresh).key = Key(root, 0) /\ Frame(a, fresh).dh = fresh
      BY <2>3 DEF FrameOn
    <2>7. QED
      BY <1>2, <2>3, <2>4, <2>5, <2>6 DEF SentAs, Turn
  <1>3. QED
    BY <1>1, <1>2

(* decrypt opens the next frame, and whose turn it is stays right.         *)
LEMMA PairReceives ==
    ASSUME NEW a, NEW b, NEW wa \in Seq(Item), NEW wb \in Seq(Item),
           Sound(a), Sound(b), Turn(a, b, wb, wa), wa # <<>>,
           NEW f, f = Head(wa).frame, NEW t, t = Decrypted(a, f)
    PROVE  Received(a, f, t) /\ Turn(t, b, wb, Tail(wa))
  <1>1. CASE Leading(a, b, wb, wa)
    BY <1>1, LeaderReceives DEF Turn
  <1>2. CASE Leading(b, a, wa, wb)
    BY <1>2, FollowerReceives DEF Turn
  <1>3. QED
    BY <1>1, <1>2 DEF Turn

(* Two sending chains never share a root.                                  *)
LEMMA RootsDiffer ==
    ASSUME NEW a, NEW b, NEW wa, NEW wb, Sound(a), Sound(b), Turn(a, b, wb, wa),
           a.chain_send # NoKey, b.chain_send # NoKey
    PROVE  a.root_key # b.root_key
  <1>1. \/ a.root_key = KdfRk(b.root_key, DH(a.dh_self, b.dh_self))
        \/ b.root_key = KdfRk(a.root_key, DH(b.dh_self, a.dh_self))
    BY DEF Turn, Leading, Ahead
  <1>2. /\ a.root_key \in Root /\ b.root_key \in Root
        /\ a.dh_self \in Name /\ b.dh_self \in Name
    BY DEF Sound, RatchetState
  <1>3. /\ Len(a.root_key) \in Nat /\ Len(b.root_key) \in Nat
        /\ Len(KdfRk(b.root_key, DH(a.dh_self, b.dh_self))) = Len(b.root_key) + 1
        /\ Len(KdfRk(a.root_key, DH(b.dh_self, a.dh_self))) = Len(a.root_key) + 1
    BY <1>2, RootGrows
  <1>4. QED
    BY <1>1, <1>3

-----------------------------------------------------------------------------
(* The pair.                                                               *)

(* The keys a party has yet to generate are not the one it has; and it     *)
(* owes a new key only while it has no sending chain.                      *)
PairInv ==
    /\ rt \in [Party -> RatchetState]
    /\ wire \in [Party -> Seq(Item)]
    /\ sent \in [Party -> Nat]
    /\ due \in [Party -> BOOLEAN]
    /\ \A p \in Party : Sound(rt[p])
    /\ \A p \in Party : \A k \in Nat : k >= sent[p] => rt[p].dh_self # <<p, k>>
    /\ \A p \in Party : due[p] => rt[p].chain_send = NoKey
    /\ RoundTripRenewsKeys
    /\ \A p \in Party : Turn(rt[p], rt[Peer(p)], wire[Peer(p)], wire[p])

(* There are two parties, each the other's peer.                           *)
LEMMA PeerFacts ==
    \A p \in Party : /\ Peer(p) \in Party /\ Peer(p) # p /\ Peer(Peer(p)) = p
                     /\ \A q \in Party : q = p \/ q = Peer(p)
  BY DEF Party, Peer

(* It is enough to know whose turn it is from one side.                    *)
LEMMA TurnIsShared ==
    ASSUME NEW r, NEW w, NEW p \in Party,
           Turn(r[p], r[Peer(p)], w[Peer(p)], w[p])
    PROVE  \A q \in Party : Turn(r[q], r[Peer(q)], w[Peer(q)], w[q])
  <1>1. Turn(r[Peer(p)], r[p], w[p], w[Peer(p)])
    BY DEF Turn
  <1>2. QED
    BY <1>1, PeerFacts

(* What SendFrame does, in the terms of the two lemmas above.              *)
LEMMA SendEffect ==
    ASSUME PairInv, NEW p \in Party, SendFrame(p)
    PROVE  \E f \in FrameType, t \in RatchetState, x \in Item :
              /\ ~x.stale
              /\ SentAs(rt[p], rt[Peer(p)], FreshKey(p), f, t)
              /\ Turn(t, rt[Peer(p)], Append(wire[Peer(p)], x), wire[p])
              /\ rt' = [rt EXCEPT ![p] = t]
              /\ wire' = [wire EXCEPT ![Peer(p)] = Append(wire[Peer(p)], x)]
              /\ used' = used \cup {f.key}
              /\ sent' = [sent EXCEPT ![p] = sent[p] + 1]
              /\ due' = [due EXCEPT ![p] = FALSE]
  <1>1. PICK a \in RatchetState, b \in RatchetState, wa \in Seq(Item), wb \in Seq(Item),
             fresh \in Name :
             /\ a = rt[p] /\ b = rt[Peer(p)] /\ wa = wire[p] /\ wb = wire[Peer(p)]
             /\ fresh = FreshKey(p)
    <2>1. FreshKey(p) \in Name
      <3>1. sent[p] \in Nat
        BY DEF PairInv
      <3>2. QED
        BY <3>1, PartyAssumption DEF FreshKey, Name
    <2>2. QED
      BY <2>1, PeerFacts DEF PairInv
  <1>2. Sound(a) /\ Sound(b) /\ Turn(a, b, wb, wa)
    BY <1>1, PeerFacts DEF PairInv
  <1>3. fresh # a.dh_self
    <2>1. sent[p] \in Nat /\ sent[p] >= sent[p]
      BY DEF PairInv
    <2>2. QED
      BY <1>1, <2>1 DEF PairInv, FreshKey
  <1>4. CanEncrypt(a)
    BY <1>1 DEF SendFrame
  <1>5. PICK f : f = Frame(a, fresh)
    OBVIOUS
  <1>6. PICK t : t = Encrypted(a, fresh)
    OBVIOUS
  <1>7. PICK x : x = [frame |-> f, stale |-> due[p] /\ f.dh = a.dh_self]
    OBVIOUS
  <1>8. /\ rt' = [rt EXCEPT ![p] = t]
        /\ wire' = [wire EXCEPT ![Peer(p)] = Append(wire[Peer(p)], x)]
        /\ used' = used \cup {f.key}
        /\ sent' = [sent EXCEPT ![p] = sent[p] + 1]
        /\ due' = [due EXCEPT ![p] = FALSE]
    BY <1>1, <1>5, <1>6, <1>7 DEF SendFrame
  <1>9. f \in FrameType
    <2>1. CASE a.chain_send # NoKey
      BY <1>2, <1>5, <2>1, EncryptOnChain
    <2>2. CASE a.chain_send = NoKey
      BY <1>2, <1>4, <1>5, <2>2, EncryptRotating DEF CanEncrypt
    <2>3. QED
      BY <2>1, <2>2
  <1>10. x \in Item /\ x.frame = f /\ x.stale = (due[p] /\ f.dh = a.dh_self)
    BY <1>7, <1>9 DEF Item
  <1>11. SentAs(a, b, fresh, f, t) /\ Turn(t, b, Append(wb, x), wa)
    BY <1>2, <1>3, <1>4, <1>5, <1>6, <1>10, PairSends
  <1>12. t \in RatchetState
    BY <1>11 DEF SentAs, Sound
  <1>13. ~x.stale
    BY <1>1, <1>3, <1>10, <1>11 DEF PairInv, SentAs
  <1>14. QED
    BY <1>1, <1>8, <1>9, <1>10, <1>11, <1>12, <1>13

(* What ReceiveFrame does: the frame opens.                                *)
LEMMA ReceiveEffect ==
    ASSUME PairInv, NEW p \in Party, wire[p] # <<>>,
           NEW f, f = Head(wire[p]).frame
    PROVE  /\ Opens(rt[p], f)
           /\ \E t \in RatchetState :
                 /\ t = Decrypted(rt[p], f)
                 /\ Received(rt[p], f, t)
                 /\ Turn(t, rt[Peer(p)], wire[Peer(p)], Tail(wire[p]))
  <1>1. PICK a \in RatchetState, b \in RatchetState, wa \in Seq(Item), wb \in Seq(Item) :
             /\ a = rt[p] /\ b = rt[Peer(p)] /\ wa = wire[p] /\ wb = wire[Peer(p)]
    BY PeerFacts DEF PairInv
  <1>2. Sound(a) /\ Sound(b) /\ Turn(a, b, wb, wa)
    BY <1>1, PeerFacts DEF PairInv
  <1>3. PICK t : t = Decrypted(a, f)
    OBVIOUS
  <1>4. Received(a, f, t) /\ Turn(t, b, wb, Tail(wa))
    BY <1>1, <1>2, <1>3, PairReceives
  <1>5. t \in RatchetState /\ Opens(a, f)
    BY <1>4 DEF Received, Sound
  <1>6. QED
    BY <1>1, <1>3, <1>4, <1>5

(* Both sides of a handshake, with the device d, derive the same root.     *)
Agreed(id, eph, d, keys, offer, msg) ==
    /\ InitiatorSecret(id, offer, eph) \in Root
    /\ ResponderSecret(keys, msg) = InitiatorSecret(id, offer, eph)
    /\ msg \in InitMessages
    /\ offer.signed_prekey = <<"spk", d>> /\ keys.signed_prekey = <<"spk", d>>
    /\ <<"spk", d>> \in Name

(* The handshake with a device agrees, with its one-time key and without.  *)
LEMMA Handshake ==
    ASSUME NEW id \in Name, NEW eph \in Name, NEW d \in KeyOwner \X {1, 2},
           NEW with \in BOOLEAN
    PROVE  Agreed(id, eph, d, Secrets(d), Bundle(Secrets(d), with),
                  InitMessage(id, Bundle(Secrets(d), with), eph))
  <1>0. PICK keys, offer, msg :
             /\ keys = Secrets(d) /\ offer = Bundle(keys, with)
             /\ msg = InitMessage(id, offer, eph)
    OBVIOUS
  <1>1. PICK ik \in Name, spk \in Name, opk \in Name, kem \in Name :
             /\ ik = <<"ik", d>> /\ spk = <<"spk", d>>
             /\ opk = <<"opk", d>> /\ kem = <<"kem", d>>
    <2>1. /\ <<"ik", d>> \in Name /\ <<"spk", d>> \in Name
          /\ <<"opk", d>> \in Name /\ <<"kem", d>> \in Name
      BY DEF Name
    <2>2. QED
      BY <2>1
  <1>2. opk # NoKey
    BY NoKeyAssumption
  <1>3. /\ keys.identity = ik /\ keys.signed_prekey = spk
        /\ keys.one_time_prekey = opk /\ keys.kem = kem
        /\ offer.identity = ik /\ offer.signed_prekey = spk /\ offer.kem = kem
        /\ offer.one_time_prekey = IF with THEN opk ELSE NoKey
    BY <1>0, <1>1 DEF Secrets, Bundle
  <1>4. /\ msg = [initiator_identity |-> id, initiator_ephemeral |-> eph,
                  kem_ciphertext |-> Encapsulate(kem, eph), used_one_time |-> with]
        /\ msg.initiator_identity = id /\ msg.initiator_ephemeral = eph
        /\ msg.kem_ciphertext = Encapsulate(kem, eph)
        /\ msg.used_one_time = with
    <2>1. (offer.one_time_prekey # NoKey) = with
      BY <1>2, <1>3
    <2>2. QED
      BY <1>0, <1>3, <2>1 DEF InitMessage
  <1>5. msg \in InitMessages
    <2>1. Encapsulate(kem, eph) \in [to : Name, r : Name]
      BY DEF Encapsulate
    <2>2. QED
      BY <1>4, <2>1 DEF InitMessages
  <1>6. PICK ss : ss = Decapsulate(kem, Encapsulate(kem, eph))
    OBVIOUS
  <1>7. /\ DH(spk, id) = DH(id, spk) /\ DH(ik, eph) = DH(eph, ik)
        /\ DH(spk, eph) = DH(eph, spk) /\ DH(opk, eph) = DH(eph, opk)
    BY DEF DH
  <1>8. PICK d4 : d4 = IF with THEN DH(eph, opk) ELSE NoKey
    OBVIOUS
  <1>9. InitiatorSecret(id, offer, eph)
          = KdfRoot(DH(id, spk), DH(eph, ik), DH(eph, spk), d4, ss)
    <2>1. CASE with
      BY <1>2, <1>3, <1>6, <1>8, <2>1, Zenon DEF InitiatorSecret
    <2>2. CASE ~with
      BY <1>2, <1>3, <1>6, <1>8, <2>2, Zenon DEF InitiatorSecret
    <2>3. QED
      BY <2>1, <2>2
  <1>10. ResponderSecret(keys, msg)
          = KdfRoot(DH(id, spk), DH(eph, ik), DH(eph, spk), d4, ss)
    <2>1. CASE with
      BY <1>3, <1>4, <1>6, <1>7, <1>8, <2>1, Zenon DEF ResponderSecret
    <2>2. CASE ~with
      BY <1>3, <1>4, <1>6, <1>7, <1>8, <2>2, Zenon DEF ResponderSecret
    <2>3. QED
      BY <2>1, <2>2
  <1>11. KdfRoot(DH(id, spk), DH(eph, ik), DH(eph, spk), d4, ss) \in Root
    <2>1. PICK S : S = HandshakeInput
      OBVIOUS
    <2>2. ss \in S
      BY <1>6, <2>1 DEF Decapsulate, Encapsulate, HandshakeInput
    <2>3. PICK d1 \in S, d2 \in S, d3 \in S :
               d1 = DH(id, spk) /\ d2 = DH(eph, ik) /\ d3 = DH(eph, spk)
      BY <2>1 DEF DH, HandshakeInput
    <2>4. PICK tail \in Seq(S) : tail = IF d4 = NoKey THEN <<>> ELSE <<d4>>
      <3>1. DH(eph, opk) \in S
        BY <2>1 DEF DH, HandshakeInput
      <3>2. <<>> \in Seq(S) /\ (d4 # NoKey => <<d4>> \in Seq(S))
        BY <1>8, <3>1
      <3>3. QED
        BY <3>2
    <2>5. PICK input \in Seq(S) : input = <<d1, d2, d3>> \o tail \o <<ss>>
      <3>1. <<d1, d2, d3>> \in Seq(S) /\ <<ss>> \in Seq(S)
        BY <2>2
      <3>2. <<d1, d2, d3>> \o tail \in Seq(S)
        BY <3>1, ConcatProperties
      <3>3. <<d1, d2, d3>> \o tail \o <<ss>> \in Seq(S)
        BY <3>1, <3>2, ConcatProperties
      <3>4. QED
        BY <3>3
    <2>6. PICK T : T = (SUBSET Name) \cup Seq(HandshakeInput)
      OBVIOUS
    <2>7. input \in T /\ Root = Seq(T)
      BY <2>1, <2>5, <2>6 DEF Root
    <2>8. KdfRoot(d1, d2, d3, d4, ss) = <<input>>
      BY <2>4, <2>5 DEF KdfRoot
    <2>9. QED
      BY <2>3, <2>7, <2>8
  <1>12. Agreed(id, eph, d, keys, offer, msg)
    BY <1>1, <1>3, <1>5, <1>9, <1>10, <1>11 DEF Agreed
  <1>13. QED
    BY <1>0, <1>12

(* initiator_handshake and responder_handshake derive the same root from a *)
(* device's bundle, whether or not it still carried a one-time key: the    *)
(* flag of the initial message makes the responder hash what was hashed.   *)
THEOREM HandshakesAgree ==
    ASSUME NEW id \in Name, NEW eph \in Name, NEW d \in KeyOwner \X {1, 2},
           NEW with \in BOOLEAN
    PROVE  ResponderSecret(Secrets(d), InitMessage(id, Bundle(Secrets(d), with), eph))
             = InitiatorSecret(id, Bundle(Secrets(d), with), eph)
  BY Handshake DEF Agreed

(* The two ratchets a handshake seeds: the initiator's a DH step ahead.    *)
Seeded(shared, dh, spk, a, b) ==
    /\ Sound(a) /\ Sound(b)
    /\ KdfRk(shared, DH(dh, spk)) \in Root
    /\ a.root_key = KdfRk(shared, DH(dh, spk))
    /\ a.dh_self = dh /\ a.dh_remote = spk
    /\ a.chain_send = Key(a.root_key, 0) /\ a.chain_recv = NoKey
    /\ a.chain_send # NoKey /\ a.chain_send.n = 0
    /\ b.root_key = shared /\ b.dh_self = spk /\ b.dh_remote = NoKey
    /\ b.chain_send = NoKey /\ b.chain_recv = NoKey

(* The two sessions a handshake makes are in step.                         *)
LEMMA FirstStates ==
    ASSUME NEW shared \in Root, NEW dh \in Name, NEW spk \in Name
    PROVE  Seeded(shared, dh, spk, NewInitiator(shared, dh, spk),
                  NewResponder(shared, spk))
  <1>0. PICK root, a, b :
             /\ root = KdfRk(shared, DH(dh, spk))
             /\ a = NewInitiator(shared, dh, spk) /\ b = NewResponder(shared, spk)
    OBVIOUS
  <1>1. root \in Root
    BY <1>0, RootGrows
  <1>2. /\ a.root_key = root /\ a.dh_self = dh /\ a.dh_remote = spk
        /\ a.chain_send = Key(root, 0) /\ a.chain_recv = NoKey
        /\ a.send_n = 0
        /\ a = [root_key |-> root, dh_self |-> dh, dh_remote |-> spk,
                chain_send |-> Key(root, 0), chain_recv |-> NoKey,
                send_n |-> 0, recv_n |-> 0]
    BY <1>0 DEF NewInitiator, Chain, Key
  <1>3. /\ b.root_key = shared /\ b.dh_self = spk /\ b.dh_remote = NoKey
        /\ b.chain_send = NoKey /\ b.chain_recv = NoKey
        /\ b = [root_key |-> shared, dh_self |-> spk, dh_remote |-> NoKey,
                chain_send |-> NoKey, chain_recv |-> NoKey,
                send_n |-> 0, recv_n |-> 0]
    BY <1>0 DEF NewResponder
  <1>4. Key(root, 0) \in ChainKey /\ Key(root, 0) # NoKey
        /\ Key(root, 0).root = root /\ Key(root, 0).n = 0
    BY <1>1, KeyType, KeyParts
  <1>5. a \in RatchetState
    BY <1>1, <1>2, <1>4 DEF RatchetState
  <1>6. b \in RatchetState
    BY <1>3 DEF RatchetState
  <1>7. Sound(a)
    BY <1>2, <1>4, <1>5, CounterFacts DEF Sound
  <1>8. Sound(b)
    BY <1>3, <1>6 DEF Sound
  <1>9. Seeded(shared, dh, spk, a, b)
    BY <1>0, <1>1, <1>2, <1>3, <1>4, <1>7, <1>8 DEF Seeded
  <1>10. QED
    BY <1>0, <1>9

(* Initially the initiator leads, a step ahead of the responder.           *)
LEMMA PairInitial == PairInit => PairInv
  <1> SUFFICES ASSUME PairInit PROVE PairInv
    OBVIOUS
  <1>1. PICK id \in Name, eph \in Name, dh \in Name, spk \in Name :
             /\ id = Secrets(<<"alice", 1>>).identity
             /\ eph = <<"eph", 0>> /\ dh = <<"dh", 0>>
             /\ spk = <<"spk", <<"bob", 1>>>>
    <2>1. /\ Secrets(<<"alice", 1>>).identity \in Name
          /\ <<"eph", 0>> \in Name /\ <<"dh", 0>> \in Name
          /\ <<"spk", <<"bob", 1>>>> \in Name
      BY PartyAssumption DEF Secrets, Name, Party
    <2>2. QED
      BY <2>1
  <1>2. PICK d \in KeyOwner \X {1, 2} : d = <<"bob", 1>>
    BY PartyAssumption DEF Party
  <1>3. PICK keys : keys = Secrets(d)
    OBVIOUS
  <1>4. PICK offer : offer = Bundle(keys, TRUE)
    OBVIOUS
  <1>5. PICK msg : msg = InitMessage(id, offer, eph)
    OBVIOUS
  <1>6. PICK shared \in Root :
             /\ shared = InitiatorSecret(id, offer, eph)
             /\ shared = ResponderSecret(keys, msg)
             /\ spk = offer.signed_prekey /\ spk = keys.signed_prekey
    <2>1. Agreed(id, eph, d, keys, offer, msg)
      BY <1>3, <1>4, <1>5, Handshake
    <2>2. QED
      BY <1>1, <1>2, <2>1 DEF Agreed
  <1>7. PICK a : a = NewInitiator(shared, dh, spk)
    OBVIOUS
  <1>8. PICK b : b = NewResponder(shared, spk)
    OBVIOUS
  <1>9. rt = [p \in Party |-> IF p = "alice" THEN a ELSE b]
    BY <1>1, <1>2, <1>3, <1>4, <1>5, <1>6, <1>7, <1>8
    DEF PairInit, InitiatorSession, ResponderSession
  <1>10. PICK root : root = KdfRk(shared, DH(dh, spk))
    OBVIOUS
  <1>11. /\ Sound(a) /\ Sound(b)
         /\ a.root_key = root /\ a.dh_self = dh /\ a.dh_remote = spk
         /\ a.chain_recv = NoKey
         /\ a.chain_send # NoKey /\ a.chain_send.n = 0
         /\ b.root_key = shared /\ b.dh_self = spk /\ b.dh_remote = NoKey
         /\ b.chain_send = NoKey /\ b.chain_recv = NoKey
    <2>1. Seeded(shared, dh, spk, a, b)
      BY <1>7, <1>8, FirstStates
    <2>2. QED
      BY <1>10, <2>1 DEF Seeded
  <1>12. Leading(a, b, <<>>, <<>>)
    <2>1. Level(b, a, <<>>)
      BY <1>11 DEF Level, Expected
    <2>2. AheadFrom(a, b, <<>>, 0)
      BY <1>11 DEF AheadFrom, Expected
    <2>3. dh # NoKey
      BY NoKeyAssumption
    <2>4. Ahead(a, b, <<>>)
      <3>1. 0 \in 0 .. Len(<<>>)
        OBVIOUS
      <3>2. QED
        BY <1>10, <1>11, <2>2, <2>3, <3>1 DEF Ahead
    <2>5. QED
      BY <1>11, <2>1, <2>4 DEF Leading
  <1>13. /\ wire = [p \in Party |-> <<>>] /\ sent = [p \in Party |-> 0]
         /\ due = [p \in Party |-> FALSE]
    BY DEF PairInit
  <1>14. Turn(rt["alice"], rt[Peer("alice")], wire[Peer("alice")], wire["alice"])
    BY <1>9, <1>12, <1>13 DEF Turn, Peer, Party
  <1>15. \A p \in Party : Turn(rt[p], rt[Peer(p)], wire[Peer(p)], wire[p])
    <2>1. "alice" \in Party
      BY DEF Party
    <2>2. QED
      BY <1>14, <2>1, TurnIsShared
  <1>16. \A p \in Party : \A k \in Nat : k >= sent[p] => rt[p].dh_self # <<p, k>>
    <2>1. \A k : dh # <<"alice", k>> /\ spk # <<"bob", k>>
      <3>1. dh[1] = "dh" /\ spk[1] = "spk"
        BY <1>1
      <3>2. \A k : <<"alice", k>>[1] = "alice" /\ <<"bob", k>>[1] = "bob"
        OBVIOUS
      <3>3. QED
        BY <3>1, <3>2
    <2>2. QED
      BY <1>9, <1>11, <2>1 DEF Party
  <1>17. /\ rt \in [Party -> RatchetState] /\ \A p \in Party : Sound(rt[p])
    BY <1>9, <1>11 DEF Sound
  <1>18. RoundTripRenewsKeys
    BY <1>13 DEF RoundTripRenewsKeys
  <1>19. QED
    BY <1>13, <1>15, <1>16, <1>17, <1>18 DEF PairInv

(* encrypt and decrypt on either side keep the pair in step.              *)
LEMMA PairStep == PairInv /\ [PairNext]_pair => PairInv'
  <1> SUFFICES ASSUME PairInv, [PairNext]_pair PROVE PairInv'
    OBVIOUS
  <1>1. ASSUME NEW p \in Party, SendFrame(p) PROVE PairInv'
    <2>1. PICK f \in FrameType, t \in RatchetState, x \in Item :
              /\ ~x.stale
              /\ SentAs(rt[p], rt[Peer(p)], FreshKey(p), f, t)
              /\ Turn(t, rt[Peer(p)], Append(wire[Peer(p)], x), wire[p])
              /\ rt' = [rt EXCEPT ![p] = t]
              /\ wire' = [wire EXCEPT ![Peer(p)] = Append(wire[Peer(p)], x)]
              /\ used' = used \cup {f.key}
              /\ sent' = [sent EXCEPT ![p] = sent[p] + 1]
              /\ due' = [due EXCEPT ![p] = FALSE]
      BY <1>1, SendEffect
    <2>2. /\ rt'[p] = t /\ \A q \in Party \ {p} : rt'[q] = rt[q]
          /\ wire'[Peer(p)] = Append(wire[Peer(p)], x) /\ wire'[p] = wire[p]
          /\ sent'[p] = sent[p] + 1 /\ \A q \in Party \ {p} : sent'[q] = sent[q]
          /\ due'[p] = FALSE /\ \A q \in Party \ {p} : due'[q] = due[q]
      BY <2>1, PeerFacts DEF PairInv
    <2>3. /\ rt' \in [Party -> RatchetState]
          /\ sent' \in [Party -> Nat]
          /\ due' \in [Party -> BOOLEAN]
      BY <2>1 DEF PairInv
    <2>4. wire' \in [Party -> Seq(Item)]
      <3>1. Append(wire[Peer(p)], x) \in Seq(Item)
        BY PeerFacts, AppendFacts DEF PairInv
      <3>2. QED
        BY <2>1, <3>1 DEF PairInv
    <2>5. \A q \in Party : Sound(rt'[q])
      BY <2>1, <2>2 DEF PairInv, SentAs
    <2>6. ASSUME NEW q \in Party, NEW k \in Nat, k >= sent'[q]
          PROVE  rt'[q].dh_self # <<q, k>>
      <3>1. CASE q # p
        BY <2>2, <2>6, <3>1 DEF PairInv
      <3>2. CASE q = p
        <4>1. sent[p] \in Nat /\ k >= sent[p] + 1
          BY <2>2, <2>6, <3>2 DEF PairInv
        <4>2. k >= sent[p] /\ k # sent[p]
          BY <4>1
        <4>3. t.dh_self = rt[p].dh_self \/ t.dh_self = <<p, sent[p]>>
          BY <2>1 DEF SentAs, FreshKey
        <4>4. <<p, sent[p]>> # <<p, k>>
          BY <4>2
        <4>5. rt[p].dh_self # <<p, k>>
          BY <4>2 DEF PairInv
        <4>6. QED
          BY <2>2, <3>2, <4>3, <4>4, <4>5
      <3>3. QED
        BY <3>1, <3>2
    <2>7. \A q \in Party : due'[q] => rt'[q].chain_send = NoKey
      BY <2>2 DEF PairInv
    <2>8. RoundTripRenewsKeys'
      <3>1. ASSUME NEW q \in Party, NEW i \in DOMAIN wire'[q]
            PROVE  ~wire'[q][i].stale
        <4>1. CASE q = p
          BY <2>2, <4>1 DEF PairInv, RoundTripRenewsKeys
        <4>2. CASE q = Peer(p)
          <5>1. PICK w \in Seq(Item) : w = wire[q]
            BY DEF PairInv
          <5>2. wire'[q] = Append(w, x)
            BY <2>2, <4>2, <5>1
          <5>3. \A j \in 1 .. Len(w) : ~w[j].stale
            BY <5>1 DEF PairInv, RoundTripRenewsKeys
          <5>4. i \in 1 .. (Len(w) + 1) /\ Len(w) \in Nat
            BY <5>2
          <5>5. i \in 1 .. Len(w) \/ i = Len(w) + 1
            BY <5>4
          <5>6. QED
            BY <2>1, <5>2, <5>3, <5>5, AppendFacts
        <4>3. QED
          BY <4>1, <4>2, PeerFacts
      <3>2. QED
        BY <3>1 DEF RoundTripRenewsKeys
    <2>9. \A q \in Party : Turn(rt'[q], rt'[Peer(q)], wire'[Peer(q)], wire'[q])
      <3>1. Turn(rt'[p], rt'[Peer(p)], wire'[Peer(p)], wire'[p])
        BY <2>1, <2>2, PeerFacts
      <3>2. QED
        BY <3>1, TurnIsShared
    <2>10. QED
      BY <2>3, <2>4, <2>5, <2>6, <2>7, <2>8, <2>9 DEF PairInv, Peer
  <1>2. ASSUME NEW p \in Party, ReceiveFrame(p) PROVE PairInv'
    <2>1. PICK f : f = Head(wire[p]).frame
      OBVIOUS
    <2>2. wire[p] # <<>>
      BY <1>2 DEF ReceiveFrame
    <2>3. PICK t \in RatchetState :
              /\ t = Decrypted(rt[p], f)
              /\ Received(rt[p], f, t)
              /\ Turn(t, rt[Peer(p)], wire[Peer(p)], Tail(wire[p]))
      BY <2>1, <2>2, ReceiveEffect
    <2>4. Opens(rt[p], f)
      BY <2>3 DEF Received
    <2>5. /\ rt' = [rt EXCEPT ![p] = t]
          /\ wire' = [wire EXCEPT ![p] = Tail(wire[p])]
          /\ sent' = sent
          /\ due' = [due EXCEPT ![p] = due[p] \/ rt[p].dh_remote # f.dh]
      BY <1>2, <2>1, <2>3, <2>4 DEF ReceiveFrame
    <2>6. /\ rt'[p] = t /\ \A q \in Party \ {p} : rt'[q] = rt[q]
          /\ wire'[p] = Tail(wire[p]) /\ \A q \in Party \ {p} : wire'[q] = wire[q]
          /\ due'[p] = (due[p] \/ rt[p].dh_remote # f.dh)
          /\ \A q \in Party \ {p} : due'[q] = due[q]
      BY <2>5 DEF PairInv
    <2>7. PICK w \in Seq(Item) : w = wire[p] /\ w # <<>>
      BY <2>2 DEF PairInv
    <2>8. /\ Tail(w) \in Seq(Item) /\ Len(Tail(w)) = Len(w) - 1 /\ Len(w) \in Nat
          /\ \A i \in 1 .. Len(Tail(w)) : Tail(w)[i] = w[i + 1] /\ i + 1 \in 1 .. Len(w)
      BY <2>7
    <2>9. /\ rt' \in [Party -> RatchetState] /\ wire' \in [Party -> Seq(Item)]
          /\ sent' \in [Party -> Nat] /\ due' \in [Party -> BOOLEAN]
      BY <2>5, <2>7, <2>8 DEF PairInv
    <2>10. \A q \in Party : Sound(rt'[q])
      BY <2>3, <2>6 DEF PairInv, Received
    <2>11. \A q \in Party : \A k \in Nat : k >= sent'[q] => rt'[q].dh_self # <<q, k>>
      <3>1. \A q \in Party : rt'[q].dh_self = rt[q].dh_self
        BY <2>3, <2>6 DEF Received
      <3>2. QED
        BY <2>5, <3>1 DEF PairInv
    <2>12. \A q \in Party : due'[q] => rt'[q].chain_send = NoKey
      BY <2>3, <2>6 DEF PairInv, Received
    <2>13. RoundTripRenewsKeys'
      <3>1. ASSUME NEW q \in Party, NEW i \in DOMAIN wire'[q]
            PROVE  ~wire'[q][i].stale
        <4>1. CASE q # p
          BY <2>6, <4>1 DEF PairInv, RoundTripRenewsKeys
        <4>2. CASE q = p
          <5>1. i \in 1 .. Len(Tail(w)) /\ wire'[q] = Tail(w)
            <6>1. wire'[q] = Tail(w)
              BY <2>6, <2>7, <4>2
            <6>2. DOMAIN Tail(w) = 1 .. Len(Tail(w))
              BY <2>8
            <6>3. QED
              BY <6>1, <6>2
          <5>2. i + 1 \in DOMAIN wire[p] /\ wire'[q][i] = wire[p][i + 1]
            BY <2>7, <2>8, <5>1
          <5>3. QED
            BY <5>2 DEF PairInv, RoundTripRenewsKeys
        <4>3. QED
          BY <4>1, <4>2
      <3>2. QED
        BY <3>1 DEF RoundTripRenewsKeys
    <2>14. \A q \in Party : Turn(rt'[q], rt'[Peer(q)], wire'[Peer(q)], wire'[q])
      <3>1. Turn(rt'[p], rt'[Peer(p)], wire'[Peer(p)], wire'[p])
        BY <2>3, <2>6, PeerFacts
      <3>2. QED
        BY <3>1, TurnIsShared
    <2>15. QED
      BY <2>9, <2>10, <2>11, <2>12, <2>13, <2>14 DEF PairInv, Peer
  <1>3. CASE UNCHANGED pair
    BY <1>3 DEF PairInv, pair, RoundTripRenewsKeys, Peer
  <1>4. QED
    BY <1>1, <1>2, <1>3 DEF PairNext

(* The pair is in step in every behaviour.                                 *)
LEMMA PairInvariant == PairSpec => []PairInv
  BY PairInitial, PairStep, PTL DEF PairSpec

(* However the frames of the two directions cross, decrypt opens the one   *)
(* that arrives next.                                                      *)
THEOREM NextFrameOpens == PairSpec => []CrossingFramesOpen
  <1>1. PairInv => CrossingFramesOpen
    BY ReceiveEffect DEF CrossingFramesOpen
  <1>2. QED
    BY <1>1, PairInvariant, PTL

(* A party that has received a new key of its peer's answers under a new   *)
(* key of its own.                                                         *)
THEOREM KeysRenewed == PairSpec => []RoundTripRenewsKeys
  <1>1. PairInv => RoundTripRenewsKeys
    BY DEF PairInv
  <1>2. QED
    BY <1>1, PairInvariant, PTL

-----------------------------------------------------------------------------
(* Where the elements of two sequences are in the one that joins them.     *)
LEMMA Joined ==
    ASSUME NEW T, NEW u \in Seq(T), NEW v \in Seq(T)
    PROVE  /\ u \o v \in Seq(T) /\ Len(u) \in Nat /\ Len(v) \in Nat
           /\ Len(u \o v) = Len(u) + Len(v)
           /\ \A i \in 1 .. Len(u) : (u \o v)[i] = u[i]
           /\ \A i \in 1 .. Len(v) : (u \o v)[Len(u) + i] = v[i]
  OBVIOUS

(* f is found in b from behind position k on.                              *)
FoundAt(f, b, k) == \A i \in 1 .. Len(f) : b[k + i] = f[i]

(* ... and b does not end before it.                                       *)
Within(f, b, k) == k + Len(f) <= Len(b) /\ FoundAt(f, b, k)

(* A part stays where it is as more is appended.                           *)
LEMMA StaysAt ==
    ASSUME NEW T, NEW b \in Seq(T), NEW z \in Seq(T), NEW f \in Seq(T), NEW k \in Nat,
           Within(f, b, k)
    PROVE  Within(f, b \o z, k)
  <1>1. Len(f) \in Nat /\ Len(b) \in Nat /\ Len(z) \in Nat
    OBVIOUS
  <1>2. k + Len(f) <= Len(b)
    BY DEF Within
  <1>3. Len(b \o z) = Len(b) + Len(z)
    BY Joined
  <1>4. k + Len(f) <= Len(b \o z)
    BY <1>1, <1>2, <1>3
  <1>5. ASSUME NEW i \in 1 .. Len(f) PROVE (b \o z)[k + i] = f[i]
    <2>1. k + i \in 1 .. Len(b)
      BY <1>1, <1>2
    <2>2. b[k + i] = f[i]
      BY DEF Within, FoundAt
    <2>3. QED
      BY <2>1, <2>2, Joined
  <1>6. QED
    BY <1>4, <1>5 DEF Within, FoundAt

(* What is appended is found where the rest ends.                          *)
LEMMA AppendedAt ==
    ASSUME NEW T, NEW b \in Seq(T), NEW f \in Seq(T)
    PROVE  Within(f, b \o f, Len(b))
  <1>1. Len(b \o f) = Len(b) + Len(f) /\ Len(b) \in Nat /\ Len(f) \in Nat
    BY Joined
  <1>2. FoundAt(f, b \o f, Len(b))
    BY Joined DEF FoundAt
  <1>3. QED
    BY <1>1, <1>2 DEF Within

(* A flagged value is read from where it was written, and the cursor moves *)
(* behind it.                                                              *)
LEMMA FlagRead ==
    ASSUME NEW x, NEW b, NEW k \in Nat, FoundAt(Flagged(x), b, k)
    PROVE  /\ ReadFlagged(b, k + 1) = x
           /\ After(b, k + 1) = (k + Len(Flagged(x))) + 1
  <1>1. CASE x = NoKey
    <2>1. Flagged(x) = <<0>> /\ Len(<<0>>) = 1 /\ <<0>>[1] = 0
      BY <1>1 DEF Flagged
    <2>2. b[k + 1] = 0
      BY <2>1 DEF FoundAt
    <2>3. QED
      BY <1>1, <2>1, <2>2 DEF ReadFlagged, After
  <1>2. CASE x # NoKey
    <2>1. Flagged(x) = <<1, x>> /\ Len(<<1, x>>) = 2 /\ <<1, x>>[1] = 1 /\ <<1, x>>[2] = x
      BY <1>2 DEF Flagged
    <2>2. b[k + 1] = 1 /\ b[k + 2] = x
      BY <2>1 DEF FoundAt
    <2>3. QED
      BY <2>1, <2>2 DEF ReadFlagged, After
  <1>3. QED
    BY <1>1, <1>2

(* The parts of a blob, each where the ones before it end.                 *)
LEMMA FiveParts ==
    ASSUME NEW T, NEW h \in Seq(T), NEW f1 \in Seq(T), NEW f2 \in Seq(T),
           NEW f3 \in Seq(T), NEW z \in Seq(T),
           NEW b, b = (((h \o f1) \o f2) \o f3) \o z
    PROVE  /\ FoundAt(h, b, 0) /\ FoundAt(f1, b, Len(h))
           /\ FoundAt(f2, b, Len(h) + Len(f1))
           /\ FoundAt(f3, b, (Len(h) + Len(f1)) + Len(f2))
           /\ FoundAt(z, b, ((Len(h) + Len(f1)) + Len(f2)) + Len(f3))
  <1>1. PICK a1 \in Seq(T) : a1 = h \o f1
    BY Joined
  <1>2. PICK a2 \in Seq(T) : a2 = a1 \o f2
    BY Joined
  <1>3. PICK a3 \in Seq(T) : a3 = a2 \o f3
    BY Joined
  <1>4. b = a3 \o z
    BY <1>1, <1>2, <1>3
  <1>5. 0 \in Nat /\ Len(h) \in Nat /\ Len(a1) \in Nat /\ Len(a2) \in Nat
    BY Joined
  <1>6. /\ Len(a1) = Len(h) + Len(f1)
        /\ Len(a2) = Len(a1) + Len(f2)
        /\ Len(a3) = Len(a2) + Len(f3)
    BY <1>1, <1>2, <1>3, Joined
  <1>h. FoundAt(h, b, 0)
    <2>1. Within(h, h, 0)
      BY DEF Within, FoundAt
    <2>2. Within(h, a1, 0)
      BY <1>1, <1>5, <2>1, StaysAt
    <2>3. Within(h, a2, 0)
      BY <1>2, <1>5, <2>2, StaysAt
    <2>4. Within(h, a3, 0)
      BY <1>3, <1>5, <2>3, StaysAt
    <2>5. QED
      BY <1>4, <1>5, <2>4, StaysAt DEF Within
  <1>f1. FoundAt(f1, b, Len(h))
    <2>1. Within(f1, a1, Len(h))
      BY <1>1, AppendedAt
    <2>2. Within(f1, a2, Len(h))
      BY <1>2, <1>5, <2>1, StaysAt
    <2>3. Within(f1, a3, Len(h))
      BY <1>3, <1>5, <2>2, StaysAt
    <2>4. QED
      BY <1>4, <1>5, <2>3, StaysAt DEF Within
  <1>f2. FoundAt(f2, b, Len(a1))
    <2>1. Within(f2, a2, Len(a1))
      BY <1>2, AppendedAt
    <2>2. Within(f2, a3, Len(a1))
      BY <1>3, <1>5, <2>1, StaysAt
    <2>3. QED
      BY <1>4, <1>5, <2>2, StaysAt DEF Within
  <1>f3. FoundAt(f3, b, Len(a2))
    <2>1. Within(f3, a3, Len(a2))
      BY <1>3, AppendedAt
    <2>2. QED
      BY <1>4, <1>5, <2>1, StaysAt DEF Within
  <1>z. FoundAt(z, b, Len(a3))
    BY <1>4, AppendedAt DEF Within
  <1>10. QED
    BY <1>6, <1>h, <1>f1, <1>f2, <1>f3, <1>z, Zenon

(* p is the pair of x and y.                                               *)
IsPair(p, x, y) == p = <<x, y>> /\ Len(p) = 2 /\ p[1] = x /\ p[2] = y

(* A pair is one, over every set that holds its elements.                  *)
LEMMA PairElements ==
    ASSUME NEW T, NEW x \in T, NEW y \in T
    PROVE  \E p \in Seq(T) : IsPair(p, x, y)
  <1>1. /\ <<x, y>> \in Seq(T) /\ Len(<<x, y>>) = 2
        /\ <<x, y>>[1] = x /\ <<x, y>>[2] = y
    OBVIOUS
  <1>2. IsPair(<<x, y>>, x, y)
    BY <1>1 DEF IsPair
  <1>3. QED
    BY <1>1, <1>2

(* A flagged value of a set that holds the flags is a sequence over it.    *)
LEMMA FlaggedSeq ==
    ASSUME NEW T, NEW zero \in T, NEW one \in T, zero = 0, one = 1, NEW x \in T
    PROVE  Flagged(x) \in Seq(T)
  <1>1. <<zero>> \in Seq(T) /\ <<one, x>> \in Seq(T)
    OBVIOUS
  <1>2. Flagged(x) = <<zero>> \/ Flagged(x) = <<one, x>>
    BY DEF Flagged
  <1>3. QED
    BY <1>1, <1>2

(* RatchetState::from_bytes undoes to_bytes, whichever options are there.  *)
LEMMA BlobRoundTrip ==
    ASSUME NEW s \in RatchetState
    PROVE  FromBytes(ToBytes(s)) = s
  <1>1. PICK T : T = Root \cup Name \cup ChainKey \cup Nat \cup {NoKey}
    OBVIOUS
  <1>2. /\ s.root_key \in T /\ s.dh_self \in T /\ s.send_n \in T /\ s.recv_n \in T
        /\ s.dh_remote \in T /\ s.chain_send \in T /\ s.chain_recv \in T
    BY <1>1 DEF RatchetState
  <1>3. \A x \in T : Flagged(x) \in Seq(T)
    <2>1. 0 \in T /\ 1 \in T
      BY <1>1
    <2>2. QED
      BY <2>1, FlaggedSeq
  <1>p. \A x, y \in T : \E p \in Seq(T) : IsPair(p, x, y)
    BY PairElements
  <1>4. PICK h \in Seq(T) : IsPair(h, s.root_key, s.dh_self)
    BY <1>2, <1>p
  <1>5. PICK z \in Seq(T) : IsPair(z, s.send_n, s.recv_n)
    BY <1>2, <1>p
  <1>6. PICK f1 \in Seq(T) : f1 = Flagged(s.dh_remote)
    BY <1>2, <1>3
  <1>7. PICK f2 \in Seq(T) : f2 = Flagged(s.chain_send)
    BY <1>2, <1>3
  <1>8. PICK f3 \in Seq(T) : f3 = Flagged(s.chain_recv)
    BY <1>2, <1>3
  <1>9. PICK b : b = (((h \o f1) \o f2) \o f3) \o z
    OBVIOUS
  <1>10. b = ToBytes(s)
    BY <1>4, <1>5, <1>6, <1>7, <1>8, <1>9 DEF ToBytes, IsPair
  <1>11. PICK p \in Nat : p = 2 + Len(f1)
    OBVIOUS
  <1>12. PICK q \in Nat : q = p + Len(f2)
    OBVIOUS
  <1>13. PICK r \in Nat : r = q + Len(f3)
    OBVIOUS
  <1>14. /\ FoundAt(h, b, 0) /\ FoundAt(f1, b, 2) /\ FoundAt(f2, b, p)
         /\ FoundAt(f3, b, q) /\ FoundAt(z, b, r)
    BY <1>4, <1>9, <1>11, <1>12, <1>13, FiveParts DEF IsPair
  <1>15. ReadFlagged(b, 2 + 1) = s.dh_remote /\ After(b, 2 + 1) = p + 1
    BY <1>6, <1>11, <1>14, FlagRead
  <1>16. ReadFlagged(b, p + 1) = s.chain_send /\ After(b, p + 1) = q + 1
    BY <1>7, <1>12, <1>14, FlagRead
  <1>17. ReadFlagged(b, q + 1) = s.chain_recv /\ After(b, q + 1) = r + 1
    BY <1>8, <1>13, <1>14, FlagRead
  <1>18. /\ b[1] = s.root_key /\ b[2] = s.dh_self
         /\ b[r + 1] = s.send_n /\ b[(r + 1) + 1] = s.recv_n
    <2>1. b[0 + 1] = h[1] /\ b[0 + 2] = h[2] /\ b[r + 1] = z[1] /\ b[r + 2] = z[2]
      BY <1>4, <1>5, <1>14 DEF FoundAt, IsPair
    <2>2. 0 + 1 = 1 /\ 0 + 2 = 2 /\ (r + 1) + 1 = r + 2 /\ 2 + 1 = 3
      OBVIOUS
    <2>3. QED
      BY <1>4, <1>5, <2>1, <2>2 DEF IsPair
  <1>19. FromBytes(b) = [root_key |-> s.root_key, dh_self |-> s.dh_self,
                         dh_remote |-> s.dh_remote, chain_send |-> s.chain_send,
                         chain_recv |-> s.chain_recv, send_n |-> s.send_n,
                         recv_n |-> s.recv_n]
    <2>1. 2 + 1 = 3
      OBVIOUS
    <2>2. QED
      BY <1>15, <1>16, <1>17, <1>18, <2>1 DEF FromBytes
  <1>20. QED
    BY <1>10, <1>19 DEF RatchetState

(* A session stored between two steps comes back as it was.                *)
THEOREM StoredSessionReturns == PairSpec => []StoredSessionSame
  <1>1. PairInv => StoredSessionSame
    BY BlobRoundTrip DEF PairInv, StoredSessionSame
  <1>2. QED
    BY <1>1, PairInvariant, PTL

-----------------------------------------------------------------------------
(* A used key lies behind the head of its chain, and no root in use is     *)
(* longer than both parties' roots: the next key, on a chain or on a new   *)
(* root, is none of them.                                                  *)
KeyInv ==
    /\ used \subseteq ChainKey
    /\ IsFiniteSet(used)
    /\ KeyUsedOnce
    /\ \A k \in used : \E p \in Party : Len(k.root) =< Len(rt[p].root_key)
    /\ \A p \in Party : rt[p].chain_send # NoKey =>
          \A k \in used : k.root = rt[p].root_key => k.n < rt[p].chain_send.n

(* No key has been used at first.                                          *)
LEMMA KeyInitial == PairInit => KeyInv
  BY FS_EmptySet DEF PairInit, KeyInv, KeyUsedOnce, Party

(* encrypt uses a key that no frame had.                                   *)
LEMMA SendKeepsKeys ==
    ASSUME PairInv, KeyInv, NEW p \in Party, SendFrame(p)
    PROVE  KeyInv'
  <1>1. PICK f \in FrameType, t \in RatchetState, x \in Item :
            /\ SentAs(rt[p], rt[Peer(p)], FreshKey(p), f, t)
            /\ rt' = [rt EXCEPT ![p] = t]
            /\ used' = used \cup {f.key}
            /\ sent' = [sent EXCEPT ![p] = sent[p] + 1]
    BY SendEffect
  <1>2. PICK a \in RatchetState, b \in RatchetState, key \in ChainKey :
            /\ a = rt[p] /\ b = rt[Peer(p)] /\ key = f.key
    BY PeerFacts DEF PairInv, FrameType
  <1>3. /\ Sound(a) /\ Sound(b) /\ SentAs(a, b, FreshKey(p), f, t)
        /\ Turn(a, b, wire[Peer(p)], wire[p])
    BY <1>1, <1>2, PeerFacts DEF PairInv
  <1>4. /\ rt'[p] = t /\ rt'[Peer(p)] = b
        /\ used' = used \cup {key}
        /\ sent'[p] = sent[p] + 1 /\ sent'[Peer(p)] = sent[Peer(p)]
    BY <1>1, <1>2, PeerFacts DEF PairInv
  <1>5. PICK la \in Nat, lb \in Nat, lt \in Nat :
            la = Len(a.root_key) /\ lb = Len(b.root_key) /\ lt = Len(t.root_key)
    BY DEF RatchetState, Root
  <1>6. \A k \in used : k \in ChainKey /\ k.n \in Nat /\ Len(k.root) \in Nat
                        /\ (Len(k.root) =< la \/ Len(k.root) =< lb)
    <2>1. \A k \in used : k \in ChainKey /\ k.n \in Nat /\ Len(k.root) \in Nat
      BY DEF KeyInv, ChainKey, Root
    <2>2. QED
      BY <1>2, <1>5, <2>1, PeerFacts DEF KeyInv
  (* The frame's key, against the keys used before and the two chains.     *)
  <1>7. /\ key \notin used
        /\ key.root = t.root_key /\ key.n \in Nat
        /\ t.chain_send # NoKey /\ t.chain_send.n = key.n + 1
        /\ \A k \in used : k.root = t.root_key => k.n < key.n
        /\ b.chain_send # NoKey => t.root_key # b.root_key
        /\ la =< lt
    <2>1. CASE a.chain_send # NoKey
      <3>1. /\ key = a.chain_send /\ t.root_key = a.root_key
            /\ t.chain_send = Key(a.root_key, a.chain_send.n + 1)
        BY <1>2, <1>3, <2>1 DEF SentAs
      <3>2. key.root = a.root_key /\ key.n \in Nat
        BY <1>3, <2>1, <3>1 DEF Sound, ChainKey
      <3>3. t.chain_send # NoKey /\ t.chain_send.n = key.n + 1
        <4>1. a.root_key \in Root /\ key.n + 1 \in Nat
          BY <3>2 DEF RatchetState
        <4>2. t.chain_send = Key(a.root_key, key.n + 1)
          BY <3>1
        <4>3. QED
          BY <4>1, <4>2, KeyType, KeyParts
      <3>4. \A k \in used : k.root = a.root_key => k.n < key.n
        BY <1>2, <2>1, <3>1 DEF KeyInv
      <3>5. key \notin used
        BY <3>2, <3>4
      <3>6. b.chain_send # NoKey => t.root_key # b.root_key
        BY <1>3, <2>1, <3>1, RootsDiffer
      <3>7. la =< lt
        BY <1>5, <3>1
      <3>8. QED
        BY <3>1, <3>2, <3>3, <3>4, <3>5, <3>6, <3>7
    <2>2. CASE a.chain_send = NoKey
      <3>1. /\ key = Key(t.root_key, 0) /\ t.chain_send = Key(t.root_key, 1)
            /\ a.root_key = b.root_key /\ Len(t.root_key) = Len(a.root_key) + 1
        BY <1>2, <1>3, <2>2 DEF SentAs
      <3>2. key.root = t.root_key /\ key.n = 0
        BY <3>1, KeyParts
      <3>3. t.chain_send # NoKey /\ t.chain_send.n = 1
        <4>1. t.root_key \in Root
          BY DEF RatchetState
        <4>2. QED
          BY <3>1, <4>1, KeyType, KeyParts
      <3>4. la = lb /\ lt = la + 1
        BY <1>5, <3>1
      <3>5. \A k \in used : k.root # t.root_key
        <4>1. SUFFICES ASSUME NEW k \in used, k.root = t.root_key PROVE FALSE
          OBVIOUS
        <4>2. Len(k.root) = lt /\ (Len(k.root) =< la \/ Len(k.root) =< lb)
          BY <1>5, <1>6, <4>1
        <4>3. QED
          BY <3>4, <4>2
      <3>6. key \notin used /\ t.root_key # b.root_key
        <4>1. key \notin used
          BY <3>2, <3>5
        <4>2. lt # lb
          BY <3>4
        <4>3. QED
          BY <1>5, <4>1, <4>2
      <3>7. la =< lt /\ key.n \in Nat /\ t.chain_send.n = key.n + 1
        BY <3>2, <3>3, <3>4
      <3>8. QED
        BY <3>2, <3>3, <3>5, <3>6, <3>7
    <2>3. QED
      BY <2>1, <2>2
  <1>8. used' \subseteq ChainKey /\ IsFiniteSet(used')
    BY <1>4, FS_AddElement DEF KeyInv
  <1>9. KeyUsedOnce'
    <2>1. Cardinality(used') = Cardinality(used) + 1
      BY <1>4, <1>7, FS_AddElement DEF KeyInv
    <2>2. sent'["alice"] + sent'["bob"] = sent["alice"] + sent["bob"] + 1
      <3>1. PICK m \in Nat, n \in Nat : m = sent["alice"] /\ n = sent["bob"]
        BY DEF PairInv, Party
      <3>2. CASE p = "alice"
        BY <1>4, <3>1, <3>2 DEF Peer
      <3>3. CASE p = "bob"
        BY <1>4, <3>1, <3>3 DEF Peer
      <3>4. QED
        BY <3>2, <3>3 DEF Party
    <2>3. QED
      BY <2>1, <2>2 DEF KeyInv, KeyUsedOnce
  <1>10. ASSUME NEW k \in used'
         PROVE  \E q \in Party : Len(k.root) =< Len(rt'[q].root_key)
    <2>1. CASE k = key
      BY <1>4, <1>5, <1>7, <2>1
    <2>2. CASE k \in used
      BY <1>4, <1>5, <1>6, <1>7, <2>2, PeerFacts
    <2>3. QED
      BY <1>4, <2>1, <2>2
  <1>11. ASSUME NEW q \in Party, rt'[q].chain_send # NoKey,
                NEW k \in used', k.root = rt'[q].root_key
         PROVE  k.n < rt'[q].chain_send.n
    <2>1. CASE q = p
      BY <1>4, <1>6, <1>7, <1>11, <2>1
    <2>2. CASE q = Peer(p)
      <3>1. k \in used
        BY <1>4, <1>7, <1>11, <2>2
      <3>2. QED
        BY <1>2, <1>4, <1>11, <2>2, <3>1 DEF KeyInv
    <2>3. QED
      BY <2>1, <2>2, PeerFacts
  <1>12. QED
    BY <1>8, <1>9, <1>10, <1>11 DEF KeyInv

(* decrypt makes no frame: the keys used stay behind the chains.           *)
LEMMA ReceiveKeepsKeys ==
    ASSUME PairInv, KeyInv, NEW p \in Party, ReceiveFrame(p)
    PROVE  KeyInv'
  <1>1. PICK f : f = Head(wire[p]).frame
    OBVIOUS
  <1>2. wire[p] # <<>>
    BY DEF ReceiveFrame
  <1>3. PICK t \in RatchetState : t = Decrypted(rt[p], f) /\ Received(rt[p], f, t)
    BY <1>1, <1>2, ReceiveEffect
  <1>4. /\ rt' = [rt EXCEPT ![p] = t]
        /\ sent' = sent /\ used' = used
    BY <1>1, <1>3 DEF ReceiveFrame, Received
  <1>5. /\ rt'[p] = t /\ \A q \in Party \ {p} : rt'[q] = rt[q]
    BY <1>4 DEF PairInv
  <1>6. \A k \in used : Len(k.root) \in Nat
    BY DEF KeyInv, ChainKey, Root
  <1>7. \A q \in Party : /\ Len(rt[q].root_key) \in Nat /\ Len(rt'[q].root_key) \in Nat
                         /\ Len(rt[q].root_key) =< Len(rt'[q].root_key)
    <2>1. \A s \in RatchetState : Len(s.root_key) \in Nat
      BY DEF RatchetState, Root
    <2>2. \A q \in Party : rt[q] \in RatchetState /\ rt'[q] \in RatchetState
      BY <1>4 DEF PairInv
    <2>3. ASSUME NEW q \in Party PROVE Len(rt[q].root_key) =< Len(rt'[q].root_key)
      <3>1. CASE q = p
        BY <1>3, <1>5, <3>1 DEF Received
      <3>2. CASE q # p
        <4>1. rt'[q] = rt[q] /\ Len(rt[q].root_key) \in Nat
          BY <1>5, <2>1, <2>2, <3>2
        <4>2. QED
          BY <4>1
      <3>3. QED
        BY <3>1, <3>2
    <2>4. QED
      BY <2>1, <2>2, <2>3
  <1>8. \A k \in used : \E q \in Party : Len(k.root) =< Len(rt'[q].root_key)
    <2> SUFFICES ASSUME NEW k \in used
                 PROVE  \E q \in Party : Len(k.root) =< Len(rt'[q].root_key)
      OBVIOUS
    <2>1. PICK q \in Party : Len(k.root) =< Len(rt[q].root_key)
      BY DEF KeyInv
    <2>2. PICK x \in Nat, y \in Nat, z \in Nat :
             /\ x = Len(k.root) /\ y = Len(rt[q].root_key)
             /\ z = Len(rt'[q].root_key) /\ y =< z
      BY <1>6, <1>7
    <2>3. x =< z
      BY <2>1, <2>2
    <2>4. QED
      BY <2>2, <2>3
  <1>9. \A q \in Party : rt'[q].chain_send # NoKey =>
           \A k \in used : k.root = rt'[q].root_key => k.n < rt'[q].chain_send.n
    BY <1>3, <1>5 DEF KeyInv, Received
  <1>10. QED
    BY <1>4, <1>8, <1>9 DEF KeyInv, KeyUsedOnce

(* No message key encrypts two messages, however the counters wrap.        *)
THEOREM KeysFresh == PairSpec => []KeyUsedOnce
  <1>1. PairInv /\ KeyInv /\ [PairNext]_pair => KeyInv'
    <2>1. ASSUME KeyInv, UNCHANGED pair PROVE KeyInv'
      BY <2>1 DEF KeyInv, KeyUsedOnce, pair
    <2>2. QED
      BY <2>1, SendKeepsKeys, ReceiveKeepsKeys DEF PairNext
  <1>2. KeyInv => KeyUsedOnce
    BY DEF KeyInv
  <1>3. QED
    BY <1>1, <1>2, KeyInitial, PairInvariant, PTL DEF PairSpec
=============================================================================
