--------------------------- MODULE DeliveryProofs ---------------------------
(***************************************************************************)
(* Proofs about Delivery, for every set of users, devices, sessions and    *)
(* envelopes.                                                              *)
(***************************************************************************)
EXTENDS Delivery, TLAPS

-----------------------------------------------------------------------------
(* Sequences without repetition.                                           *)

(* Appending adds one element to the range.                                *)
LEMMA RangeAppend ==
    ASSUME NEW S, NEW q \in Seq(S), NEW x \in S
    PROVE  Range(Append(q, x)) = Range(q) \cup {x}
  <1>1. /\ DOMAIN q = 1..Len(q) /\ Len(q) \in Nat
        /\ DOMAIN Append(q, x) = 1..(Len(q) + 1)
        /\ \A i \in 1..Len(q) : Append(q, x)[i] = q[i]
        /\ Append(q, x)[Len(q) + 1] = x
    OBVIOUS
  <1>2. ASSUME NEW i \in DOMAIN Append(q, x)
        PROVE  Append(q, x)[i] \in Range(q) \cup {x}
    BY <1>1 DEF Range
  <1>3. ASSUME NEW i \in DOMAIN q
        PROVE  q[i] \in Range(Append(q, x))
    <2>1. i \in DOMAIN Append(q, x) /\ Append(q, x)[i] = q[i]
      BY <1>1
    <2>2. QED
      BY <2>1 DEF Range
  <1>4. x \in Range(Append(q, x))
    <2>1. Len(q) + 1 \in DOMAIN Append(q, x)
      BY <1>1
    <2>2. QED
      BY <2>1, <1>1 DEF Range
  <1>5. QED
    BY <1>2, <1>3, <1>4 DEF Range

(* The empty sequence holds nothing, and only it does.                     *)
LEMMA RangeEmpty ==
    ASSUME NEW S, NEW q \in Seq(S)
    PROVE  Range(q) = {} <=> q = <<>>
  <1>1. Range(<<>>) = {}
    BY DEF Range
  <1>2. ASSUME q # <<>> PROVE Range(q) # {}
    <2>1. 1 \in DOMAIN q
      BY <1>2
    <2>2. QED
      BY <2>1 DEF Range
  <1>3. QED
    BY <1>1, <1>2

(* Head and Tail split a sequence; if nothing repeats, they share nothing. *)
LEMMA RangeHeadTail ==
    ASSUME NEW S, NEW q \in Seq(S), q # <<>>
    PROVE  /\ Head(q) \in S
           /\ Tail(q) \in Seq(S)
           /\ Range(q) = {Head(q)} \cup Range(Tail(q))
           /\ Distinct(q) => Head(q) \notin Range(Tail(q)) /\ Distinct(Tail(q))
  <1>1. Len(q) \in Nat \ {0} /\ DOMAIN q = 1..Len(q)
    OBVIOUS
  <1>2. Head(q) \in S /\ Tail(q) \in Seq(S) /\ Head(q) = q[1]
    OBVIOUS
  <1>3. DOMAIN Tail(q) = 1..(Len(q) - 1)
        /\ \A i \in 1..(Len(q) - 1) : Tail(q)[i] = q[i + 1]
    OBVIOUS
  <1>4. Range(q) = {Head(q)} \cup Range(Tail(q))
    <2>1. ASSUME NEW i \in DOMAIN q
          PROVE  q[i] \in {Head(q)} \cup Range(Tail(q))
      <3>1. CASE i = 1
        BY <3>1, <1>2
      <3>2. CASE i # 1
        <4>1. i - 1 \in 1..(Len(q) - 1) /\ Tail(q)[i - 1] = q[i]
          BY <3>2, <1>1, <1>3
        <4>2. QED
          BY <4>1, <1>3 DEF Range
      <3>3. QED
        BY <3>1, <3>2
    <2>2. ASSUME NEW i \in DOMAIN Tail(q)
          PROVE  Tail(q)[i] \in Range(q)
      <3>1. i + 1 \in DOMAIN q /\ Tail(q)[i] = q[i + 1]
        BY <1>1, <1>3
      <3>2. QED
        BY <3>1 DEF Range
    <2>3. Head(q) \in Range(q)
      BY <1>1, <1>2 DEF Range
    <2>4. QED
      BY <2>1, <2>2, <2>3 DEF Range
  <1>5. ASSUME Distinct(q)
        PROVE  Head(q) \notin Range(Tail(q)) /\ Distinct(Tail(q))
    <2>1. ASSUME NEW i \in DOMAIN Tail(q)
          PROVE  Tail(q)[i] # Head(q)
      BY <1>1, <1>2, <1>3, <1>5 DEF Distinct
    <2>2. ASSUME NEW i \in DOMAIN Tail(q), NEW j \in DOMAIN Tail(q),
                 Tail(q)[i] = Tail(q)[j]
          PROVE  i = j
      <3>1. i + 1 \in DOMAIN q /\ j + 1 \in DOMAIN q /\ q[i + 1] = q[j + 1]
        BY <2>2, <1>1, <1>3
      <3>2. i + 1 = j + 1
        BY <3>1, <1>5 DEF Distinct
      <3>3. QED
        BY <3>2, <1>3
    <2>3. QED
      BY <2>1, <2>2 DEF Range, Distinct
  <1>6. QED
    BY <1>2, <1>4, <1>5

(* Appending a new element keeps a sequence free of repetition.            *)
LEMMA DistinctAppend ==
    ASSUME NEW S, NEW q \in Seq(S), NEW x \in S, Distinct(q), x \notin Range(q)
    PROVE  Distinct(Append(q, x))
  BY DEF Distinct, Range

(* Joining sequences joins their ranges, and two that share nothing stay   *)
(* free of repetition.                                                     *)
LEMMA RangeConcat ==
    ASSUME NEW S, NEW p \in Seq(S), NEW q \in Seq(S)
    PROVE  /\ Range(p \o q) = Range(p) \cup Range(q)
           /\ Distinct(p) /\ Distinct(q) /\ Range(p) \cap Range(q) = {}
                => Distinct(p \o q)
  <1>1. /\ p \o q \in Seq(S)
        /\ DOMAIN (p \o q) = 1..(Len(p) + Len(q))
        /\ \A i \in 1..Len(p) : (p \o q)[i] = p[i]
        /\ \A i \in 1..Len(q) : (p \o q)[Len(p) + i] = q[i]
        /\ \A i \in (Len(p) + 1)..(Len(p) + Len(q)) : (p \o q)[i] = q[i - Len(p)]
    OBVIOUS
  <1>2. DOMAIN p = 1..Len(p) /\ DOMAIN q = 1..Len(q) /\ Len(p) \in Nat /\ Len(q) \in Nat
    OBVIOUS
  <1>3. Range(p \o q) = Range(p) \cup Range(q)
    <2>1. ASSUME NEW i \in DOMAIN (p \o q)
          PROVE  (p \o q)[i] \in Range(p) \cup Range(q)
      <3>1. CASE i <= Len(p)
        BY <3>1, <1>1, <1>2 DEF Range
      <3>2. CASE i > Len(p)
        <4>1. i - Len(p) \in DOMAIN q /\ (p \o q)[i] = q[i - Len(p)]
          BY <3>2, <1>1, <1>2
        <4>2. QED
          BY <4>1 DEF Range
      <3>3. QED
        BY <3>1, <3>2, <1>1, <1>2
    <2>2. ASSUME NEW i \in DOMAIN p PROVE p[i] \in Range(p \o q)
      <3>1. i \in DOMAIN (p \o q) /\ (p \o q)[i] = p[i]
        BY <1>1, <1>2
      <3>2. QED
        BY <3>1 DEF Range
    <2>3. ASSUME NEW i \in DOMAIN q PROVE q[i] \in Range(p \o q)
      <3>1. Len(p) + i \in DOMAIN (p \o q) /\ (p \o q)[Len(p) + i] = q[i]
        BY <1>1, <1>2
      <3>2. QED
        BY <3>1 DEF Range
    <2>4. QED
      BY <2>1, <2>2, <2>3 DEF Range
  <1>4. ASSUME Distinct(p), Distinct(q), Range(p) \cap Range(q) = {},
               NEW i \in DOMAIN (p \o q), NEW j \in DOMAIN (p \o q),
               (p \o q)[i] = (p \o q)[j]
        PROVE  i = j
    <2>1. CASE i <= Len(p) /\ j <= Len(p)
      BY <2>1, <1>1, <1>2, <1>4 DEF Distinct
    <2>2. CASE i > Len(p) /\ j > Len(p)
      <3>1. i - Len(p) \in DOMAIN q /\ j - Len(p) \in DOMAIN q
            /\ q[i - Len(p)] = q[j - Len(p)]
        BY <2>2, <1>1, <1>2, <1>4
      <3>2. i - Len(p) = j - Len(p)
        BY <3>1, <1>4 DEF Distinct
      <3>3. QED
        BY <3>2, <1>1, <1>2
    <2>3. ASSUME NEW k \in DOMAIN p, NEW l \in DOMAIN q
          PROVE  p[k] # q[l]
      BY <1>4 DEF Range
    <2>4. CASE i <= Len(p) /\ j > Len(p)
      <3>1. i \in DOMAIN p /\ j - Len(p) \in DOMAIN q /\ p[i] = q[j - Len(p)]
        BY <2>4, <1>1, <1>2, <1>4
      <3>2. QED
        BY <3>1, <2>3
    <2>5. CASE i > Len(p) /\ j <= Len(p)
      <3>1. j \in DOMAIN p /\ i - Len(p) \in DOMAIN q /\ p[j] = q[i - Len(p)]
        BY <2>5, <1>1, <1>2, <1>4
      <3>2. QED
        BY <3>1, <2>3
    <2>6. QED
      BY <2>1, <2>2, <2>4, <2>5, <1>1, <1>2
  <1>5. QED
    BY <1>3, <1>4 DEF Distinct

-----------------------------------------------------------------------------
(* Types.                                                                  *)

(* Without BatchWhilePushing, Head(batch[s]) need not be an envelope.      *)
TypeInv == TypeOK

(* Every step of every task keeps the types.                               *)
LEMMA TypeStep == TypeInv /\ [Next]_vars => TypeInv'
  <1> SUFFICES ASSUME TypeInv, [Next]_vars
               PROVE  TypeInv'
    OBVIOUS
  <1> USE ConstantTypes DEF TypeInv, TypeOK, BatchWhilePushing, Attached,
          account, ingest, session, history
  <1>1. ASSUME NEW d \in Device, RegisterDevice(d)
        PROVE  TypeInv'
    BY <1>1 DEF RegisterDevice
  <1>2. ASSUME NEW u \in User, DeleteUser(u)
        PROVE  TypeInv'
    BY <1>2 DEF DeleteUser, DevicesOf
  <1>3. ASSUME NEW d \in Device, PurgeDevice(d)
        PROVE  TypeInv'
    BY <1>3 DEF PurgeDevice, Range
  <1>4. ASSUME NEW on \in BOOLEAN, Maintenance(on)
        PROVE  TypeInv'
    BY <1>4 DEF Maintenance
  <1>5. ASSUME NEW m \in Msg, NEW u \in User, Resolve(m, u)
        PROVE  TypeInv'
    BY <1>5 DEF Resolve, Proceed, DevicesOf
  <1>6. ASSUME NEW m \in Msg, NEW d \in Device, Enqueue(m, d)
        PROVE  TypeInv'
    BY <1>6 DEF Enqueue, Proceed
  <1>7. ASSUME NEW m \in Msg, NEW d \in Device, Notify(m, d)
        PROVE  TypeInv'
    <2>1. signals' \in [Session -> Nat]
      BY <1>7 DEF Notify
    <2>2. /\ ipc' \in [Msg -> {"new", "refused", "ingest", "notify", "done", "cancelled"}]
          /\ todo' \in [Msg -> SUBSET User] /\ fan' \in [Msg -> SUBSET Device]
          /\ bcast' \subseteq Msg
      BY <1>7 DEF Notify, Proceed
    <2>3. UNCHANGED <<account, maintenance, queue, hub, session, purging, history>>
      BY <1>7 DEF Notify
    <2>4. QED
      BY <2>1, <2>2, <2>3
  <1>8. ASSUME NEW m \in Msg, IngestMessage(m)
        PROVE  TypeInv'
    BY <1>8 DEF IngestMessage, Begin, DevicesOf
  <1>9. ASSUME NEW m \in Msg, IngestRefused(m)
        PROVE  TypeInv'
    BY <1>9 DEF IngestRefused
  <1>10. ASSUME NEW d \in Device, PullMessages(d)
        PROVE  TypeInv'
    BY <1>10 DEF PullMessages
  <1>11. ASSUME NEW d \in Device, PullLost(d)
        PROVE  TypeInv'
    BY <1>11 DEF PullLost, Range
  <1>12. ASSUME NEW ms \in SUBSET Msg, AdminBroadcast(ms)
        PROVE  TypeInv'
    BY <1>12 DEF AdminBroadcast
  <1>13. ASSUME NEW m \in Msg, BroadcastNext(m)
        PROVE  TypeInv'
    BY <1>13 DEF BroadcastNext, Begin, DevicesOf
  <1>14. ASSUME NEW m \in Msg, CancelIngest(m)
        PROVE  TypeInv'
    BY <1>14 DEF CancelIngest
  <1>15. ASSUME NEW u \in User, CancelDelete(u)
        PROVE  TypeInv'
    BY <1>15 DEF CancelDelete
  <1>16. ASSUME NEW s \in Session, Hello(s)
        PROVE  TypeInv'
    BY <1>16 DEF Hello
  <1>17. ASSUME NEW s \in Session, HelloRejected(s)
        PROVE  TypeInv'
    BY <1>17 DEF HelloRejected, Close
  <1>18. ASSUME NEW s \in Session, Pull(s)
        PROVE  TypeInv'
    BY <1>18 DEF Pull
  <1>19. ASSUME NEW s \in Session, Push(s)
        PROVE  TypeInv'
    <2>1. batch[s] \in Seq(Msg) /\ batch[s] # <<>> /\ sent[s] \in Seq(Msg)
      BY <1>19 DEF Push
    <2>2. Head(batch[s]) \in Msg /\ Tail(batch[s]) \in Seq(Msg)
      BY <2>1
    <2>3. sent' \in [Session -> Seq(Msg)] /\ batch' \in [Session -> Seq(Msg)]
      BY <1>19, <2>1, <2>2 DEF Push
    <2>4. wpc' \in [Session -> Attached \cup {"new", "closed"}]
      BY <1>19 DEF Push
    <2>5. BatchWhilePushing'
      <3>1. wpc'[s] = "push" <=> batch'[s] # <<>>
        BY <1>19 DEF Push
      <3>2. \A r \in Session \ {s} : wpc'[r] = wpc[r] /\ batch'[r] = batch[r]
        BY <1>19 DEF Push
      <3>3. QED
        BY <3>1, <3>2
    <2>6. QED
      BY <1>19, <2>3, <2>4, <2>5 DEF Push
  <1>20. ASSUME NEW s \in Session, PushFailed(s)
        PROVE  TypeInv'
    BY <1>20 DEF PushFailed, Unregister, Close, Range
  <1>21. ASSUME NEW s \in Session, Wake(s)
        PROVE  TypeInv'
    BY <1>21 DEF Wake
  <1>22. ASSUME NEW s \in Session, Replaced(s)
        PROVE  TypeInv'
    BY <1>22 DEF Replaced, Close
  <1>23. ASSUME NEW s \in Session, Disconnect(s)
        PROVE  TypeInv'
    BY <1>23 DEF Disconnect, Unregister, Close
  <1>24. ASSUME NEW s \in Session, NEW m \in Msg, Send(s, m)
        PROVE  TypeInv'
    BY <1>24 DEF Send, Begin, DevicesOf
  <1>25. ASSUME NEW s \in Session, NEW m \in Msg, SendRefused(s, m)
        PROVE  TypeInv'
    BY <1>25 DEF SendRefused
  <1>26. ASSUME NEW s \in Session, Ack(s)
        PROVE  TypeInv'
    BY <1>26 DEF Ack
  <1>27. ASSUME NEW s \in Session, AckFailed(s)
        PROVE  TypeInv'
    BY <1>27 DEF AckFailed, Unregister, Close
  <1>28. ASSUME NEW s \in Session, SocketGone(s)
        PROVE  TypeInv'
    BY <1>28 DEF SocketGone
  <1>29. CASE UNCHANGED vars
    BY <1>29 DEF vars
  <1>30. QED
    BY <1>1, <1>2, <1>3, <1>4, <1>5, <1>6, <1>7, <1>8, <1>9, <1>10,
       <1>11, <1>12, <1>13, <1>14, <1>15, <1>16, <1>17, <1>18, <1>19,
       <1>20, <1>21, <1>22, <1>23, <1>24, <1>25, <1>26, <1>27, <1>28,
       <1>29
       DEF Next, IngestStep, SessionStep, Environment

(* Types hold initially.                                                   *)
LEMMA InitTypes == Init => TypeInv
  <1> SUFFICES ASSUME Init PROVE TypeInv
    OBVIOUS
  <1>1. <<>> \in Seq(Msg)
    OBVIOUS
  <1>2. /\ queue \in [Device -> Seq(Msg)] /\ log \in [Device -> Seq(Msg)]
        /\ pulled \in [Device -> Seq(Msg)]
        /\ batch \in [Session -> Seq(Msg)] /\ sent \in [Session -> Seq(Msg)]
    BY <1>1 DEF Init
  <1>3. BatchWhilePushing
    BY DEF Init, BatchWhilePushing
  <1>4. QED
    BY <1>2, <1>3, ConstantTypes DEF Init, TypeInv, TypeOK, Attached

(* Types hold in every reachable state of the server.                      *)
THEOREM TypeCorrect == Spec => []TypeOK
  <1>1. Init => TypeInv
    BY InitTypes
  <1>2. TypeInv => TypeOK
    BY DEF TypeInv
  <1>3. QED
    BY <1>1, <1>2, TypeStep, PTL DEF Spec

-----------------------------------------------------------------------------
(* Each copy is in one place.                                              *)

(* What no ingest has queued yet: an envelope that waits or is still being *)
(* resolved has no copy anywhere, one that fans out has none at a device   *)
(* it has still to serve.  This is what makes Enqueue add a fresh copy.    *)
FreshCopies ==
    \A m \in Msg, d \in Device :
        \/ ipc[m] = "new"
        \/ ipc[m] = "ingest" /\ (todo[m] # {} \/ d \in fan[m])
        => m \notin Range(log[d])

CopyInv == TypeInv /\ FreshCopies /\ CopyInOnePlace

(* An envelope's copies are fresh whatever task moves on.                  *)
LEMMA FreshStep == TypeInv /\ FreshCopies /\ [Next]_vars => FreshCopies'
  <1> SUFFICES ASSUME TypeInv, FreshCopies, [Next]_vars
               PROVE  FreshCopies'
    OBVIOUS
  <1> USE ConstantTypes DEF TypeInv, TypeOK, account, ingest, session, history
  <1>1. ASSUME UNCHANGED <<ipc, todo, fan, log>>
        PROVE  FreshCopies'
    BY <1>1 DEF FreshCopies
  <1>2. ASSUME NEW m \in Msg, Begin(m), ipc[m] = "new", UNCHANGED <<fan, log>>
        PROVE  FreshCopies'
    BY <1>2 DEF FreshCopies, Begin
  <1>3. ASSUME NEW m \in Msg, UNCHANGED <<todo, fan, log>>,
               ipc' = [ipc EXCEPT ![m] = "refused"]
        PROVE  FreshCopies'
    BY <1>3 DEF FreshCopies
  <1>4. ASSUME NEW m \in Msg, NEW u \in User, Resolve(m, u)
        PROVE  FreshCopies'
    BY <1>4 DEF FreshCopies, Resolve, Proceed, DevicesOf
  <1>5. ASSUME NEW m \in Msg, NEW d \in Device, Enqueue(m, d)
        PROVE  FreshCopies'
    <2>1. Range(log'[d]) = Range(log[d]) \cup {m}
      BY <1>5, RangeAppend DEF Enqueue
    <2>2. \A e \in Device \ {d} : log'[e] = log[e]
      BY <1>5 DEF Enqueue
    <2>3. \A n \in Msg \ {m} : ipc'[n] = ipc[n] /\ todo'[n] = todo[n] /\ fan'[n] = fan[n]
      BY <1>5 DEF Enqueue, Proceed
    <2>4. ipc'[m] = "notify" \/ (ipc'[m] = "ingest" /\ todo'[m] = {} /\ fan'[m] = fan[m] \ {d})
      BY <1>5 DEF Enqueue, Proceed
    <2>5. /\ ipc[m] = "ingest" /\ d \in fan[m]
          /\ \A e \in Device : ipc'[m] = "ingest" /\ e \in fan'[m] => e # d /\ e \in fan[m]
      BY <1>5, <2>4 DEF Enqueue
    <2>6. QED
      <3> SUFFICES ASSUME NEW n \in Msg, NEW e \in Device,
                          \/ ipc'[n] = "new"
                          \/ ipc'[n] = "ingest" /\ (todo'[n] # {} \/ e \in fan'[n])
                   PROVE  n \notin Range(log'[e])
        BY DEF FreshCopies
      <3>1. n \notin Range(log[e]) /\ ~(n = m /\ e = d)
        <4>1. CASE n = m
          BY <2>4, <2>5, <4>1 DEF FreshCopies
        <4>2. CASE n # m
          BY <2>3, <4>2 DEF FreshCopies
        <4>3. QED
          BY <4>1, <4>2
      <3>2. QED
        BY <2>1, <2>2, <3>1
  <1>6. ASSUME NEW m \in Msg, NEW d \in Device, Notify(m, d)
        PROVE  FreshCopies'
    BY <1>6 DEF FreshCopies, Notify, Proceed
  <1>7. ASSUME NEW m \in Msg, CancelIngest(m)
        PROVE  FreshCopies'
    BY <1>7 DEF FreshCopies, CancelIngest
  <1>8. QED
    BY <1>1, <1>2, <1>3, <1>4, <1>5, <1>6, <1>7
       DEF Next, IngestStep, SessionStep, Environment, vars,
           RegisterDevice, DeleteUser, PurgeDevice, Maintenance, IngestMessage,
           IngestRefused, PullMessages, PullLost, AdminBroadcast, BroadcastNext,
           BroadcastIdle, CancelDelete, Hello, HelloRejected, Pull, Push,
           PushFailed, Wake, Replaced, Disconnect, Send, SendRefused, Ack,
           AckFailed, SocketGone

(* A device's copies stay where they are when a step does not touch them.  *)
LEMMA PlacedSame ==
    ASSUME NEW d \in Device, Placed(d),
           queue'[d] = queue[d], pulled'[d] = pulled[d], lost'[d] = lost[d],
           log'[d] = log[d],
           \A s \in SessionsOf(d) : batch'[s] = batch[s] /\ sent'[s] = sent[s]
    PROVE  Placed(d)'
  <1>1. \A s \in SessionsOf(d) : Taken(s)' = Taken(s)
    BY DEF Taken, Range
  <1>2. SessionsOf(d)' = SessionsOf(d)
    BY DEF SessionsOf
  <1>3. Accounted(d)'
    BY <1>1, <1>2 DEF Placed, Accounted
  <1>4. Apart(d)'
    BY <1>1, <1>2 DEF Placed, Apart
  <1>5. Unrepeated(d)'
    BY <1>1, <1>2 DEF Placed, Unrepeated, Distinct
  <1>6. QED
    BY <1>3, <1>4, <1>5 DEF Placed

(* A queue is dropped as a whole, by a purge or a lost HTTP response.      *)
LEMMA PlacedDrop ==
    ASSUME NEW d \in Device, TypeInv, Placed(d),
           queue'[d] = <<>>, lost'[d] = lost[d] \cup Range(queue[d]),
           pulled'[d] = pulled[d], log'[d] = log[d],
           \A s \in SessionsOf(d) : batch'[s] = batch[s] /\ sent'[s] = sent[s]
    PROVE  Placed(d)'
  <1>1. \A s \in SessionsOf(d) : Taken(s)' = Taken(s)
    BY DEF Taken, Range
  <1>2. SessionsOf(d)' = SessionsOf(d)
    BY DEF SessionsOf
  <1>3. Range(queue'[d]) = {} /\ Distinct(queue'[d])
    BY DEF Range, Distinct
  <1>4. Range(pulled'[d]) = Range(pulled[d]) /\ Range(log'[d]) = Range(log[d])
        /\ \A s \in SessionsOf(d) : Range(batch'[s]) = Range(batch[s])
                                    /\ Range(sent'[s]) = Range(sent[s])
    OBVIOUS
  <1>5. Accounted(d)'
    BY <1>1, <1>2, <1>3, <1>4 DEF Placed, Accounted
  <1>6. Apart(d)'
    BY <1>1, <1>2, <1>3, <1>4 DEF Placed, Apart
  <1>7. Unrepeated(d)'
    BY <1>1, <1>2, <1>3, <1>4 DEF Placed, Unrepeated, Distinct
  <1>8. QED
    BY <1>5, <1>6, <1>7 DEF Placed

(* An HTTP pull moves the whole queue into its response.                   *)
LEMMA PlacedPulled ==
    ASSUME NEW d \in Device, TypeInv, Placed(d),
           queue'[d] = <<>>, pulled'[d] = pulled[d] \o queue[d],
           lost'[d] = lost[d], log'[d] = log[d],
           \A s \in SessionsOf(d) : batch'[s] = batch[s] /\ sent'[s] = sent[s]
    PROVE  Placed(d)'
  <1>1. \A s \in SessionsOf(d) : Taken(s)' = Taken(s)
    BY DEF Taken, Range
  <1>2. SessionsOf(d)' = SessionsOf(d)
    BY DEF SessionsOf
  <1>3. Range(queue'[d]) = {} /\ Distinct(queue'[d])
    BY DEF Range, Distinct
  <1>4. pulled[d] \in Seq(Msg) /\ queue[d] \in Seq(Msg) /\ Range(queue[d]) \subseteq Msg
    BY DEF TypeInv, TypeOK, Range
  <1>5. Range(pulled[d]) \cap Range(queue[d]) = {}
    BY <1>4 DEF Placed, Apart
  <1>6. Range(pulled'[d]) = Range(pulled[d]) \cup Range(queue[d]) /\ Distinct(pulled'[d])
    BY <1>4, <1>5, RangeConcat DEF Placed, Unrepeated
  <1>7. Accounted(d)'
    BY <1>1, <1>2, <1>3, <1>6 DEF Placed, Accounted
  <1>8. Apart(d)'
    BY <1>1, <1>2, <1>3, <1>6 DEF Placed, Apart
  <1>9. Unrepeated(d)'
    <2>1. \A s \in SessionsOf(d) : Distinct(batch'[s]) /\ Distinct(sent'[s])
      BY DEF Placed, Unrepeated
    <2>2. Distinct(log'[d]) /\ Distinct(queue'[d]) /\ Distinct(pulled'[d])
      BY <1>3, <1>6 DEF Placed, Unrepeated
    <2>3. QED
      BY <1>2, <2>1, <2>2 DEF Unrepeated, Distinct
  <1>10. QED
    BY <1>7, <1>8, <1>9 DEF Placed

(* An ingest queues a copy that is nowhere yet.                            *)
LEMMA PlacedQueued ==
    ASSUME NEW d \in Device, NEW m \in Msg, TypeInv, Placed(d),
           m \notin Range(log[d]),
           queue'[d] = Append(queue[d], m), log'[d] = Append(log[d], m),
           pulled'[d] = pulled[d], lost'[d] = lost[d],
           \A s \in SessionsOf(d) : batch'[s] = batch[s] /\ sent'[s] = sent[s]
    PROVE  Placed(d)'
  <1>1. \A s \in SessionsOf(d) : Taken(s)' = Taken(s)
    BY DEF Taken, Range
  <1>2. SessionsOf(d)' = SessionsOf(d)
    BY DEF SessionsOf
  <1>3. m \notin Range(queue[d]) /\ m \notin Range(pulled[d]) /\ m \notin lost[d]
        /\ \A s \in SessionsOf(d) : m \notin Taken(s)
    BY DEF Placed, Accounted
  <1>4. /\ Range(queue'[d]) = Range(queue[d]) \cup {m} /\ Distinct(queue'[d])
        /\ Range(log'[d]) = Range(log[d]) \cup {m} /\ Distinct(log'[d])
    BY <1>3, RangeAppend, DistinctAppend DEF Placed, Unrepeated, TypeInv, TypeOK
  <1>5. Accounted(d)'
    BY <1>1, <1>2, <1>3, <1>4 DEF Placed, Accounted
  <1>6. Apart(d)'
    BY <1>1, <1>2, <1>3, <1>4 DEF Placed, Apart
  <1>7. Unrepeated(d)'
    BY <1>1, <1>2, <1>3, <1>4 DEF Placed, Unrepeated, Distinct
  <1>8. QED
    BY <1>5, <1>6, <1>7 DEF Placed

(* A session takes the whole queue while it holds no batch.                *)
LEMMA PlacedTaken ==
    ASSUME NEW s \in Session, TypeInv, Placed(DevOf[s]), Pull(s)
    PROVE  Placed(DevOf[s])'
  <1> DEFINE d == DevOf[s]
  <1>1. /\ d \in Device /\ s \in SessionsOf(d) /\ SessionsOf(d) \subseteq Session
        /\ SessionsOf(d)' = SessionsOf(d)
    BY ConstantTypes DEF SessionsOf
  <1>2. /\ queue'[d] = <<>> /\ batch'[s] = queue[d] /\ batch[s] = <<>>
        /\ \A t \in SessionsOf(d) \ {s} : batch'[t] = batch[t]
        /\ pulled' = pulled /\ lost' = lost /\ log' = log /\ sent' = sent
    BY <1>1 DEF Pull, TypeInv, TypeOK, BatchWhilePushing, history
  <1>3. Range(queue'[d]) = {} /\ Distinct(queue'[d]) /\ Range(batch[s]) = {}
    BY <1>2 DEF Range, Distinct
  <1>4. Taken(s) = Range(sent[s]) /\ Taken(s)' = Range(queue[d]) \cup Range(sent[s])
    BY <1>2, <1>3 DEF Taken
  <1>5. \A t \in SessionsOf(d) \ {s} : Taken(t)' = Taken(t)
    BY <1>2 DEF Taken, Range
  <1>6. Accounted(d)'
    BY <1>1, <1>2, <1>3, <1>4, <1>5 DEF Placed, Accounted
  <1>7. Apart(d)'
    BY <1>1, <1>2, <1>3, <1>4, <1>5 DEF Placed, Apart
  <1>8. Unrepeated(d)'
    BY <1>1, <1>2, <1>3, <1>4, <1>5 DEF Placed, Unrepeated, Distinct
  <1>9. QED
    BY <1>6, <1>7, <1>8 DEF Placed

(* One frame written moves the head of the batch to the socket.            *)
LEMMA PlacedPushed ==
    ASSUME NEW s \in Session, TypeInv, Placed(DevOf[s]), Push(s)
    PROVE  Placed(DevOf[s])'
  <1> DEFINE d == DevOf[s]
  <1>1. /\ d \in Device /\ s \in SessionsOf(d) /\ SessionsOf(d) \subseteq Session
        /\ SessionsOf(d)' = SessionsOf(d)
    BY ConstantTypes DEF SessionsOf
  <1>2. /\ batch[s] \in Seq(Msg) /\ batch[s] # <<>> /\ sent[s] \in Seq(Msg)
        /\ batch'[s] = Tail(batch[s]) /\ sent'[s] = Append(sent[s], Head(batch[s]))
        /\ \A t \in SessionsOf(d) \ {s} : batch'[t] = batch[t] /\ sent'[t] = sent[t]
        /\ pulled' = pulled /\ lost' = lost /\ log' = log /\ queue' = queue
    BY <1>1 DEF Push, TypeInv, TypeOK, BatchWhilePushing, history
  <1>3. /\ Head(batch[s]) \in Msg
        /\ Range(batch[s]) = {Head(batch[s])} \cup Range(batch'[s])
        /\ Head(batch[s]) \notin Range(batch'[s])
        /\ Distinct(batch'[s])
    BY <1>1, <1>2, RangeHeadTail DEF Placed, Unrepeated
  <1>4. Range(sent'[s]) = Range(sent[s]) \cup {Head(batch[s])} /\ Distinct(sent'[s])
    BY <1>1, <1>2, <1>3, RangeAppend, DistinctAppend DEF Placed, Apart, Unrepeated, Taken
  <1>5. \A t \in SessionsOf(d) : Taken(t)' = Taken(t)
    BY <1>2, <1>3, <1>4 DEF Taken
  <1>6. \A t \in SessionsOf(d), m \in Msg : m \notin Range(batch'[t]) \cap Range(sent'[t])
    BY <1>1, <1>2, <1>3, <1>4 DEF Placed, Apart, Taken
  <1>7. Accounted(d)'
    BY <1>1, <1>2, <1>3, <1>4, <1>5 DEF Placed, Accounted
  <1>8. Apart(d)'
    BY <1>1, <1>2, <1>5, <1>6 DEF Placed, Apart
  <1>9. Unrepeated(d)'
    BY <1>1, <1>2, <1>3, <1>4, <1>5 DEF Placed, Unrepeated, Distinct
  <1>10. QED
    BY <1>7, <1>8, <1>9 DEF Placed

(* A failed write drops the rest of the batch.                             *)
LEMMA PlacedFailed ==
    ASSUME NEW s \in Session, TypeInv, Placed(DevOf[s]), PushFailed(s)
    PROVE  Placed(DevOf[s])'
  <1> DEFINE d == DevOf[s]
  <1>1. /\ d \in Device /\ s \in SessionsOf(d) /\ SessionsOf(d) \subseteq Session
        /\ SessionsOf(d)' = SessionsOf(d)
    BY ConstantTypes DEF SessionsOf
  <1>2. /\ batch'[s] = <<>> /\ lost'[d] = lost[d] \cup Range(batch[s])
        /\ \A t \in SessionsOf(d) \ {s} : batch'[t] = batch[t]
        /\ pulled' = pulled /\ sent' = sent /\ log' = log /\ queue' = queue
    BY <1>1 DEF PushFailed, TypeInv, TypeOK, history
  <1>3. Range(batch'[s]) = {} /\ Distinct(batch'[s])
    BY <1>2 DEF Range, Distinct
  <1>4. Taken(s) = Range(batch[s]) \cup Range(sent[s]) /\ Taken(s)' = Range(sent[s])
    BY <1>2, <1>3 DEF Taken
  <1>5. \A t \in SessionsOf(d) \ {s} : Taken(t)' = Taken(t)
    BY <1>2 DEF Taken, Range
  <1>6. Accounted(d)'
    BY <1>1, <1>2, <1>3, <1>4, <1>5 DEF Placed, Accounted
  <1>7. Apart(d)'
    BY <1>1, <1>2, <1>3, <1>4, <1>5 DEF Placed, Apart
  <1>8. Unrepeated(d)'
    BY <1>1, <1>2, <1>3, <1>4, <1>5 DEF Placed, Unrepeated, Distinct
  <1>9. QED
    BY <1>6, <1>7, <1>8 DEF Placed

(* Every step of every task leaves each copy in one place.                 *)
LEMMA CopyStep == CopyInv /\ [Next]_vars => CopyInOnePlace'
  <1> SUFFICES ASSUME CopyInv, [Next]_vars, NEW e \in Device
               PROVE  Placed(e)'
    BY DEF CopyInOnePlace
  <1> USE ConstantTypes
  <1>0. TypeInv /\ TypeOK /\ FreshCopies /\ Placed(e)
    BY DEF CopyInv, CopyInOnePlace, TypeInv
  <1>1. ASSUME UNCHANGED <<queue, batch, log, sent, pulled, lost>>
        PROVE  Placed(e)'
    BY <1>0, <1>1, PlacedSame
  <1>2. ASSUME NEW d \in Device, PurgeDevice(d) \/ PullLost(d)
        PROVE  Placed(e)'
    <2>1. /\ queue' = [queue EXCEPT ![d] = <<>>]
          /\ lost' = [lost EXCEPT ![d] = @ \cup Range(queue[d])]
          /\ log' = log /\ pulled' = pulled /\ batch' = batch /\ sent' = sent
      BY <1>2 DEF PurgeDevice, PullLost, session
    <2>2. CASE e = d
      <3>1. queue'[e] = <<>> /\ lost'[e] = lost[e] \cup Range(queue[e])
        BY <1>0, <2>1, <2>2 DEF TypeOK
      <3>2. QED
        BY <1>0, <2>1, <3>1, PlacedDrop
    <2>3. CASE e # d
      <3>1. queue'[e] = queue[e] /\ lost'[e] = lost[e]
        BY <1>0, <2>1, <2>3 DEF TypeOK
      <3>2. QED
        BY <1>0, <2>1, <3>1, PlacedSame
    <2>4. QED
      BY <2>2, <2>3
  <1>3. ASSUME NEW d \in Device, PullMessages(d)
        PROVE  Placed(e)'
    <2>1. /\ queue' = [queue EXCEPT ![d] = <<>>]
          /\ pulled' = [pulled EXCEPT ![d] = @ \o queue[d]]
          /\ log' = log /\ lost' = lost /\ batch' = batch /\ sent' = sent
      BY <1>3 DEF PullMessages, session
    <2>2. CASE e = d
      <3>1. queue'[e] = <<>> /\ pulled'[e] = pulled[e] \o queue[e]
        BY <1>0, <2>1, <2>2 DEF TypeOK
      <3>2. QED
        BY <1>0, <2>1, <3>1, PlacedPulled
    <2>3. CASE e # d
      <3>1. queue'[e] = queue[e] /\ pulled'[e] = pulled[e]
        BY <1>0, <2>1, <2>3 DEF TypeOK
      <3>2. QED
        BY <1>0, <2>1, <3>1, PlacedSame
    <2>4. QED
      BY <2>2, <2>3
  <1>4. ASSUME NEW m \in Msg, NEW d \in Device, Enqueue(m, d)
        PROVE  Placed(e)'
    <2>1. /\ queue' = [queue EXCEPT ![d] = Append(@, m)]
          /\ log' = [log EXCEPT ![d] = Append(@, m)]
          /\ pulled' = pulled /\ lost' = lost /\ batch' = batch /\ sent' = sent
          /\ m \notin Range(log[d])
      BY <1>0, <1>4 DEF Enqueue, session, FreshCopies
    <2>2. CASE e = d
      <3>1. queue'[e] = Append(queue[e], m) /\ log'[e] = Append(log[e], m)
        BY <1>0, <2>1, <2>2 DEF TypeOK
      <3>2. QED
        BY <1>0, <2>1, <2>2, <3>1, PlacedQueued
    <2>3. CASE e # d
      <3>1. queue'[e] = queue[e] /\ log'[e] = log[e]
        BY <1>0, <2>1, <2>3 DEF TypeOK
      <3>2. QED
        BY <1>0, <2>1, <3>1, PlacedSame
    <2>4. QED
      BY <2>2, <2>3
  <1>5. ASSUME NEW s \in Session, Pull(s) \/ Push(s) \/ PushFailed(s)
        PROVE  Placed(e)'
    <2>1. CASE e = DevOf[s]
      BY <1>0, <1>5, <2>1, PlacedTaken, PlacedPushed, PlacedFailed
    <2>2. CASE e # DevOf[s]
      <3>1. queue'[e] = queue[e] /\ lost'[e] = lost[e]
            /\ pulled' = pulled /\ log' = log
        BY <1>0, <1>5, <2>2 DEF TypeOK, Pull, Push, PushFailed, history
      <3>2. \A t \in SessionsOf(e) : batch'[t] = batch[t] /\ sent'[t] = sent[t]
        BY <1>0, <1>5, <2>2 DEF SessionsOf, TypeOK, Pull, Push, PushFailed, history
      <3>3. QED
        BY <1>0, <3>1, <3>2, PlacedSame
    <2>3. QED
      BY <2>1, <2>2
  <1>6. QED
    BY <1>1, <1>2, <1>3, <1>4, <1>5
       DEF Next, IngestStep, SessionStep, Environment, vars, account, ingest,
           session, history,
           RegisterDevice, DeleteUser, Maintenance, Resolve, Notify,
           IngestMessage, IngestRefused, AdminBroadcast, BroadcastNext,
           CancelIngest, CancelDelete, Hello, HelloRejected, Wake, Replaced,
           Disconnect, Send, SendRefused, Ack, AckFailed, SocketGone

(* At the start no copy exists.                                            *)
LEMMA InitCopies == Init => CopyInv
  <1> SUFFICES ASSUME Init PROVE CopyInv
    OBVIOUS
  <1>1. TypeInv
    BY InitTypes
  <1>2. Range(<<>>) = {} /\ Distinct(<<>>)
    BY DEF Range, Distinct
  <1>3. FreshCopies
    BY <1>2 DEF Init, FreshCopies
  <1>4. ASSUME NEW d \in Device
        PROVE  Placed(d)
    <2>1. \A s \in SessionsOf(d) : Taken(s) = {} /\ Distinct(batch[s]) /\ Distinct(sent[s])
      BY <1>2 DEF Init, Taken, SessionsOf
    <2>2. queue[d] = <<>> /\ pulled[d] = <<>> /\ log[d] = <<>> /\ lost[d] = {}
      BY DEF Init
    <2>3. Accounted(d)
      BY <1>2, <2>1, <2>2 DEF Accounted
    <2>4. Apart(d)
      BY <1>2, <2>1, <2>2 DEF Apart
    <2>5. Unrepeated(d)
      BY <1>2, <2>1, <2>2 DEF Unrepeated
    <2>6. QED
      BY <2>3, <2>4, <2>5 DEF Placed
  <1>5. QED
    BY <1>1, <1>3, <1>4 DEF CopyInv, CopyInOnePlace

(* The invariant is inductive.                                             *)
LEMMA CopyInvStep == CopyInv /\ [Next]_vars => CopyInv'
  BY TypeStep, FreshStep, CopyStep DEF CopyInv

(* The hub's promise that "each envelope is handed out exactly once": for  *)
(* any number of devices, sessions and envelopes, no copy is ever          *)
(* duplicated by tasks that drain the same queue, and none disappears      *)
(* other than by a purge, a failed write or a lost response.               *)
THEOREM CopiesConserved == Spec => []CopyInOnePlace
  <1>1. CopyInv => CopyInOnePlace
    BY DEF CopyInv
  <1>2. QED
    BY InitCopies, CopyInvStep, <1>1, PTL DEF Spec

-----------------------------------------------------------------------------
(* Order.                                                                  *)

InOrder(d, q) == \A i, j \in DOMAIN q : i < j => Before(d, q[i], q[j])

Precedes(d, A, B) == \A a \in A, b \in B : Before(d, a, b)

(* What is on a socket, in its task's batch and in the queue behind it     *)
(* makes one line in the order of the log, whatever others took out of it. *)
InLine(d, out, held, waiting) ==
    /\ InOrder(d, out) /\ InOrder(d, held) /\ InOrder(d, waiting)
    /\ Precedes(d, Range(out), Range(held))
    /\ Precedes(d, Range(out) \cup Range(held), Range(waiting))

Line(s) == InLine(DevOf[s], sent[s], batch[s], queue[DevOf[s]])

OrderInv == CopyInv /\ \A s \in Session : Line(s)

(* An empty sequence is in order with everything.                          *)
LEMMA InLineEmpty ==
    ASSUME NEW d \in Device, NEW out, NEW held, NEW waiting,
           InLine(d, out, held, waiting)
    PROVE  /\ InLine(d, out, <<>>, waiting)
           /\ InLine(d, out, held, <<>>)
           /\ InLine(d, out, <<>>, <<>>)
  <1>1. Range(<<>>) = {} /\ InOrder(d, <<>>)
    BY DEF Range, InOrder
  <1>2. QED
    BY <1>1 DEF InLine, Precedes

(* A line does not depend on the step while its log stays.                 *)
LEMMA InLineSame ==
    ASSUME NEW d \in Device, log'[d] = log[d], NEW out, NEW held, NEW waiting
    PROVE  InLine(d, out, held, waiting)' <=> InLine(d, out, held, waiting)
  <1>1. \A a, b : Before(d, a, b)' <=> Before(d, a, b)
    BY DEF Before
  <1>2. QED
    BY <1>1 DEF InLine, InOrder, Precedes

(* An Append to the log keeps the order and puts the new copy last.        *)
LEMMA BeforeAppend ==
    ASSUME NEW d \in Device, NEW m \in Msg, log[d] \in Seq(Msg),
           log'[d] = Append(log[d], m)
    PROVE  /\ \A a, b : Before(d, a, b) => Before(d, a, b)'
           /\ \A a \in Range(log[d]) : Before(d, a, m)'
  <1>1. /\ DOMAIN log[d] = 1..Len(log[d]) /\ Len(log[d]) \in Nat
        /\ DOMAIN log'[d] = 1..(Len(log[d]) + 1)
        /\ \A i \in 1..Len(log[d]) : log'[d][i] = log[d][i]
        /\ log'[d][Len(log[d]) + 1] = m
    OBVIOUS
  <1>2. ASSUME NEW a, NEW b, Before(d, a, b)
        PROVE  Before(d, a, b)'
    <2>1. PICK i \in DOMAIN log[d], j \in DOMAIN log[d] :
               i < j /\ log[d][i] = a /\ log[d][j] = b
      BY <1>2 DEF Before
    <2>2. /\ i \in DOMAIN log'[d] /\ j \in DOMAIN log'[d]
          /\ i < j /\ log'[d][i] = a /\ log'[d][j] = b
      BY <1>1, <2>1
    <2>3. QED
      BY <2>2 DEF Before
  <1>3. ASSUME NEW a \in Range(log[d])
        PROVE  Before(d, a, m)'
    <2>1. PICK i \in DOMAIN log[d] : log[d][i] = a
      BY DEF Range
    <2>2. /\ i \in DOMAIN log'[d] /\ Len(log[d]) + 1 \in DOMAIN log'[d]
          /\ i < Len(log[d]) + 1 /\ log'[d][i] = a
      BY <1>1, <2>1
    <2>3. QED
      BY <1>1, <2>2 DEF Before
  <1>4. QED
    BY <1>2, <1>3

(* A session takes the queue behind what it has written.                   *)
LEMMA LineTaken ==
    ASSUME NEW d \in Device, NEW out, NEW waiting, InLine(d, out, <<>>, waiting)
    PROVE  InLine(d, out, waiting, <<>>)
  <1>1. Range(<<>>) = {} /\ InOrder(d, <<>>)
    BY DEF Range, InOrder
  <1>2. QED
    BY <1>1 DEF InLine, Precedes

(* It writes the head of its batch behind what it has written.             *)
LEMMA LinePushed ==
    ASSUME NEW d \in Device, NEW out \in Seq(Msg), NEW held \in Seq(Msg), NEW waiting,
           held # <<>>, InLine(d, out, held, waiting)
    PROVE  InLine(d, Append(out, Head(held)), Tail(held), waiting)
  <1>1. /\ Head(held) \in Msg /\ Tail(held) \in Seq(Msg)
        /\ Range(held) = {Head(held)} \cup Range(Tail(held))
        /\ Range(Append(out, Head(held))) = Range(out) \cup {Head(held)}
    BY RangeHeadTail, RangeAppend
  <1>2. /\ Len(held) \in Nat \ {0} /\ DOMAIN held = 1..Len(held) /\ Head(held) = held[1]
        /\ DOMAIN Tail(held) = 1..(Len(held) - 1)
        /\ \A i \in 1..(Len(held) - 1) : Tail(held)[i] = held[i + 1]
    OBVIOUS
  <1>3. InOrder(d, Tail(held))
    <2>1. ASSUME NEW i \in DOMAIN Tail(held), NEW j \in DOMAIN Tail(held), i < j
          PROVE  Before(d, Tail(held)[i], Tail(held)[j])
      <3>1. /\ i + 1 \in DOMAIN held /\ j + 1 \in DOMAIN held /\ i + 1 < j + 1
            /\ Tail(held)[i] = held[i + 1] /\ Tail(held)[j] = held[j + 1]
        BY <1>2, <2>1
      <3>2. QED
        BY <3>1 DEF InLine, InOrder
    <2>2. QED
      BY <2>1 DEF InOrder
  <1>4. \A b \in Range(Tail(held)) : Before(d, Head(held), b)
    <2>1. ASSUME NEW i \in DOMAIN Tail(held)
          PROVE  Before(d, Head(held), Tail(held)[i])
      <3>1. /\ 1 \in DOMAIN held /\ i + 1 \in DOMAIN held /\ 1 < i + 1
            /\ Tail(held)[i] = held[i + 1]
        BY <1>2
      <3>2. QED
        BY <1>2, <3>1 DEF InLine, InOrder
    <2>2. QED
      BY <2>1 DEF Range
  <1>5. InOrder(d, Append(out, Head(held)))
    <2> DEFINE h == Head(held)
    <2>1. \A i \in DOMAIN out : Before(d, out[i], h)
      BY <1>1 DEF InLine, Precedes, Range
    <2> HIDE DEF h
    <2>2. /\ DOMAIN out = 1..Len(out) /\ Len(out) \in Nat
          /\ DOMAIN Append(out, h) = 1..(Len(out) + 1)
          /\ \A i \in 1..Len(out) : Append(out, h)[i] = out[i]
          /\ Append(out, h)[Len(out) + 1] = h
      OBVIOUS
    <2>3. ASSUME NEW i \in DOMAIN Append(out, h), NEW j \in DOMAIN Append(out, h), i < j
          PROVE  Before(d, Append(out, h)[i], Append(out, h)[j])
      <3>1. CASE j <= Len(out)
        BY <2>2, <2>3, <3>1 DEF InLine, InOrder
      <3>2. CASE j = Len(out) + 1
        BY <2>1, <2>2, <2>3, <3>2
      <3>3. QED
        BY <2>2, <3>1, <3>2
    <2>4. QED
      BY <2>3 DEF InOrder, h
  <1>6. QED
    BY <1>1, <1>3, <1>4, <1>5 DEF InLine, Precedes

(* An ingest queues a copy behind everything.                              *)
LEMMA LineQueued ==
    ASSUME NEW d \in Device, NEW m \in Msg, log[d] \in Seq(Msg),
           log'[d] = Append(log[d], m),
           NEW out, NEW held, NEW waiting \in Seq(Msg), InLine(d, out, held, waiting),
           Range(out) \cup Range(held) \cup Range(waiting) \subseteq Range(log[d])
    PROVE  InLine(d, out, held, Append(waiting, m))'
  <1>1. /\ \A a, b : Before(d, a, b) => Before(d, a, b)'
        /\ \A a \in Range(log[d]) : Before(d, a, m)'
    BY BeforeAppend
  <1>2. Range(Append(waiting, m)) = Range(waiting) \cup {m}
    BY RangeAppend
  <1>3. InOrder(d, Append(waiting, m))'
    <2>1. /\ DOMAIN waiting = 1..Len(waiting) /\ Len(waiting) \in Nat
          /\ DOMAIN Append(waiting, m) = 1..(Len(waiting) + 1)
          /\ \A i \in 1..Len(waiting) : Append(waiting, m)[i] = waiting[i]
          /\ Append(waiting, m)[Len(waiting) + 1] = m
      OBVIOUS
    <2>2. \A i \in DOMAIN waiting : Before(d, waiting[i], m)'
      BY <1>1 DEF Range
    <2>3. ASSUME NEW i \in DOMAIN Append(waiting, m), NEW j \in DOMAIN Append(waiting, m),
                 i < j
          PROVE  Before(d, Append(waiting, m)[i], Append(waiting, m)[j])'
      <3>1. CASE j <= Len(waiting)
        <4>1. i \in DOMAIN waiting /\ j \in DOMAIN waiting
          BY <2>1, <2>3, <3>1
        <4>2. Before(d, waiting[i], waiting[j])
          BY <2>3, <4>1 DEF InLine, InOrder
        <4>3. QED
          BY <1>1, <2>1, <4>1, <4>2
      <3>2. CASE j = Len(waiting) + 1
        BY <2>1, <2>2, <2>3, <3>2
      <3>3. QED
        BY <2>1, <3>1, <3>2
    <2>4. QED
      BY <2>3 DEF InOrder
  <1>4. InOrder(d, out)' /\ InOrder(d, held)'
    BY <1>1 DEF InLine, InOrder
  <1>5. QED
    BY <1>1, <1>2, <1>3, <1>4 DEF InLine, Precedes

(* Every step of every task keeps every socket's line.                     *)
LEMMA OrderStep == OrderInv /\ [Next]_vars => \A s \in Session : Line(s)'
  <1> SUFFICES ASSUME OrderInv, [Next]_vars, NEW s \in Session
               PROVE  Line(s)'
    OBVIOUS
  <1> USE ConstantTypes
  <1>0. TypeOK /\ BatchWhilePushing /\ CopyInOnePlace /\ Line(s) /\ DevOf[s] \in Device
    BY DEF OrderInv, CopyInv, TypeInv, TypeOK
  <1>1. ASSUME log' = log, sent' = sent, batch'[s] \in {batch[s], <<>>},
               queue'[DevOf[s]] \in {queue[DevOf[s]], <<>>}
        PROVE  Line(s)'
    BY <1>0, <1>1, InLineEmpty, InLineSame DEF Line
  <1>2. ASSUME NEW d \in Device, PurgeDevice(d) \/ PullLost(d) \/ PullMessages(d)
        PROVE  Line(s)'
    <2>1. /\ log' = log /\ sent' = sent /\ batch' = batch
          /\ queue' = [queue EXCEPT ![d] = <<>>]
      BY <1>2 DEF PurgeDevice, PullLost, PullMessages, session
    <2>2. queue'[DevOf[s]] \in {queue[DevOf[s]], <<>>}
      BY <1>0, <2>1 DEF TypeOK
    <2>3. QED
      BY <1>1, <2>1, <2>2
  <1>3. ASSUME NEW m \in Msg, NEW d \in Device, Enqueue(m, d)
        PROVE  Line(s)'
    <2>1. /\ queue' = [queue EXCEPT ![d] = Append(@, m)]
          /\ log' = [log EXCEPT ![d] = Append(@, m)]
          /\ batch' = batch /\ sent' = sent
      BY <1>3 DEF Enqueue, session
    <2>2. CASE d = DevOf[s]
      <3>1. /\ queue'[d] = Append(queue[d], m) /\ log'[d] = Append(log[d], m)
            /\ log[d] \in Seq(Msg) /\ queue[d] \in Seq(Msg)
        BY <1>0, <2>1 DEF TypeOK
      <3>2. Range(sent[s]) \cup Range(batch[s]) \cup Range(queue[d]) \subseteq Range(log[d])
        <4>1. Range(sent[s]) \cup Range(batch[s]) \cup Range(queue[d]) \subseteq Msg
          BY <1>0 DEF TypeOK, Range
        <4>2. s \in SessionsOf(d) /\ Accounted(d)
          BY <1>0, <2>2 DEF SessionsOf, CopyInOnePlace, Placed
        <4>3. QED
          BY <4>1, <4>2 DEF Accounted, Taken
      <3>3. InLine(d, sent[s], batch[s], queue[d])
        BY <1>0, <2>2 DEF Line
      <3>4. PICK out, held, waiting :
                 out = sent[s] /\ held = batch[s] /\ waiting = queue[d]
        OBVIOUS
      <3>5. InLine(d, out, held, Append(waiting, m))'
        BY <3>1, <3>2, <3>3, <3>4, LineQueued
      <3>6. sent'[s] = out /\ batch'[s] = held /\ queue'[DevOf[s]] = Append(waiting, m)
        BY <2>1, <2>2, <3>1, <3>4
      <3>7. QED
        BY <2>2, <3>5, <3>6 DEF Line
    <2>3. CASE d # DevOf[s]
      <3>1. log'[DevOf[s]] = log[DevOf[s]] /\ queue'[DevOf[s]] = queue[DevOf[s]]
        BY <1>0, <2>1, <2>3 DEF TypeOK
      <3>2. QED
        BY <1>0, <2>1, <3>1, InLineSame DEF Line
    <2>4. QED
      BY <2>2, <2>3
  <1>4. ASSUME NEW t \in Session, Pull(t)
        PROVE  Line(s)'
    <2>1. /\ queue' = [queue EXCEPT ![DevOf[t]] = <<>>]
          /\ batch' = [batch EXCEPT ![t] = queue[DevOf[t]]]
          /\ log' = log /\ sent' = sent /\ batch[t] = <<>>
      BY <1>0, <1>4 DEF Pull, history, BatchWhilePushing
    <2>2. CASE t = s
      <3>1. queue'[DevOf[s]] = <<>> /\ batch'[s] = queue[DevOf[s]]
        BY <1>0, <2>1, <2>2 DEF TypeOK
      <3>2. InLine(DevOf[s], sent[s], queue[DevOf[s]], <<>>)
        BY <1>0, <2>1, <2>2, LineTaken DEF Line
      <3>3. QED
        BY <1>0, <2>1, <3>1, <3>2, InLineSame DEF Line
    <2>3. CASE t # s
      <3>1. batch'[s] = batch[s] /\ queue'[DevOf[s]] \in {queue[DevOf[s]], <<>>}
        BY <1>0, <2>1, <2>3 DEF TypeOK
      <3>2. QED
        BY <1>1, <2>1, <3>1
    <2>4. QED
      BY <2>2, <2>3
  <1>5. ASSUME NEW t \in Session, Push(t)
        PROVE  Line(s)'
    <2>1. /\ sent' = [sent EXCEPT ![t] = Append(@, Head(batch[t]))]
          /\ batch' = [batch EXCEPT ![t] = Tail(@)]
          /\ log' = log /\ queue' = queue /\ batch[t] # <<>>
      BY <1>0, <1>5 DEF Push, BatchWhilePushing
    <2>2. CASE t = s
      <3>1. /\ sent'[s] = Append(sent[s], Head(batch[s])) /\ batch'[s] = Tail(batch[s])
            /\ sent[s] \in Seq(Msg) /\ batch[s] \in Seq(Msg)
        BY <1>0, <2>1, <2>2 DEF TypeOK
      <3>2. InLine(DevOf[s], Append(sent[s], Head(batch[s])), Tail(batch[s]), queue[DevOf[s]])
        BY <1>0, <2>1, <2>2, <3>1, LinePushed DEF Line
      <3>3. QED
        BY <1>0, <2>1, <3>1, <3>2, InLineSame DEF Line
    <2>3. CASE t # s
      <3>1. batch'[s] = batch[s] /\ sent'[s] = sent[s]
        BY <1>0, <2>1, <2>3 DEF TypeOK
      <3>2. QED
        BY <1>0, <2>1, <3>1, InLineSame DEF Line
    <2>4. QED
      BY <2>2, <2>3
  <1>6. ASSUME NEW t \in Session, PushFailed(t)
        PROVE  Line(s)'
    <2>1. /\ batch' = [batch EXCEPT ![t] = <<>>]
          /\ log' = log /\ queue' = queue /\ sent' = sent
      BY <1>6 DEF PushFailed
    <2>2. batch'[s] \in {batch[s], <<>>}
      BY <1>0, <2>1 DEF TypeOK
    <2>3. QED
      BY <1>1, <2>1, <2>2
  <1>7. CASE UNCHANGED <<queue, batch, log, sent>>
    BY <1>1, <1>7
  <1>8. QED
    BY <1>2, <1>3, <1>4, <1>5, <1>6, <1>7
       DEF Next, IngestStep, SessionStep, Environment, vars, account, ingest,
           session, history,
           RegisterDevice, DeleteUser, Maintenance, Resolve, Notify,
           IngestMessage, IngestRefused, AdminBroadcast, BroadcastNext,
           CancelIngest, CancelDelete, Hello, HelloRejected, Wake, Replaced,
           Disconnect, Send, SendRefused, Ack, AckFailed, SocketGone

(* The order in which deliver_pending writes, for any number of sockets of *)
(* a device, drains and HTTP pulls between them: each socket carries mail  *)
(* in the order of the log.                                                *)
THEOREM SocketsInOrder == Spec => []SocketFIFO
  <1>1. Init => OrderInv
    <2> SUFFICES ASSUME Init, NEW s \in Session
                 PROVE  Line(s)
      BY InitCopies DEF OrderInv
    <2>1. /\ DevOf[s] \in Device
          /\ sent[s] = <<>> /\ batch[s] = <<>> /\ queue[DevOf[s]] = <<>>
      BY ConstantTypes DEF Init
    <2>2. Range(<<>>) = {} /\ InOrder(DevOf[s], <<>>)
      BY DEF Range, InOrder
    <2>3. QED
      BY <2>1, <2>2 DEF Line, InLine, Precedes
  <1>2. OrderInv /\ [Next]_vars => OrderInv'
    BY CopyInvStep, OrderStep DEF OrderInv
  <1>3. OrderInv => SocketFIFO
    BY DEF OrderInv, Line, InLine, InOrder, SocketFIFO
  <1>4. QED
    BY <1>1, <1>2, <1>3, PTL DEF Spec

-----------------------------------------------------------------------------
(* The mailbox.                                                            *)

(* What the clients of a device have been handed, by route.                *)
LEMMA HandedBy ==
    ASSUME NEW d \in Device, NEW r, NEW m
    PROVE  <<r, m>> \in Handed(d) <=>
               \/ r = None /\ m \in Range(pulled[d])
               \/ r \in SessionsOf(d) /\ m \in Range(sent[r])
  BY DEF Handed

(* What waits in a queue, or in a session's batch, is pending.             *)
LEMMA QueuedIsPending ==
    ASSUME CopyInv, NEW d \in Device
    PROVE  /\ Range(queue[d]) \subseteq Box!Pending(d)
           /\ \A s \in SessionsOf(d) : Range(batch[s]) \subseteq Box!Pending(d)
  <1>1. Placed(d) /\ SessionsOf(d) \subseteq Session /\ None \notin Session
    BY ConstantTypes DEF CopyInv, CopyInOnePlace, SessionsOf
  <1>2. Range(queue[d]) \subseteq Msg /\ \A s \in SessionsOf(d) : Range(batch[s]) \subseteq Msg
    BY <1>1 DEF CopyInv, TypeInv, TypeOK, Range
  <1>3. ASSUME NEW m \in Range(queue[d])
        PROVE  m \in Box!Pending(d)
    <2>1. /\ m \in Range(log[d]) /\ m \notin lost[d] /\ m \notin Range(pulled[d])
          /\ \A s \in SessionsOf(d) : m \notin Range(sent[s])
      BY <1>1, <1>2 DEF Placed, Accounted, Apart, Taken
    <2>2. \A r \in Session \cup {None} : <<r, m>> \notin Handed(d)
      BY <2>1, HandedBy
    <2>3. QED
      BY <2>1, <2>2 DEF Box!Pending, Box!Range, Range
  <1>4. ASSUME NEW s \in SessionsOf(d), NEW m \in Range(batch[s])
        PROVE  m \in Box!Pending(d)
    <2>1. m \in Msg /\ m \in Taken(s) /\ s \in Session
      BY <1>1, <1>2 DEF Taken
    <2>2. /\ m \in Range(log[d]) /\ m \notin lost[d] /\ m \notin Range(pulled[d])
          /\ \A t \in SessionsOf(d) : m \notin Range(sent[t])
      BY <1>1, <2>1 DEF Placed, Accounted, Apart, Taken
    <2>3. \A r \in Session \cup {None} : <<r, m>> \notin Handed(d)
      BY <2>2, HandedBy
    <2>4. QED
      BY <2>2, <2>3 DEF Box!Pending, Box!Range, Range
  <1>5. QED
    BY <1>3, <1>4

(* Nothing is handed over by a step that writes to no socket and returns   *)
(* no pull.                                                                *)
LEMMA HandedSame ==
    ASSUME NEW d \in Device, pulled'[d] = pulled[d],
           \A s \in SessionsOf(d) : sent'[s] = sent[s]
    PROVE  Handed(d)' = Handed(d)
  BY DEF Handed, SessionsOf

(* Copies are dropped.                                                     *)
LEMMA DropMaps ==
    ASSUME CopyInv, NEW d \in Device, NEW ms, ms \subseteq Box!Pending(d),
           lost' = [lost EXCEPT ![d] = @ \cup ms], UNCHANGED <<log, pulled, sent>>
    PROVE  Box!MailboxNext
  <1>1. \A e \in Device : Handed(e)' = Handed(e)
    BY HandedSame
  <1>2. ms \in SUBSET Msg
    BY DEF Box!Pending, Box!Range, CopyInv, TypeInv, TypeOK
  <1>3. Box!Drop(d, ms)
    BY <1>1 DEF Box!Drop
  <1>4. QED
    BY <1>2, <1>3 DEF Box!MailboxNext

(* Copies reach a client by one route.                                     *)
LEMMA HandOverMaps ==
    ASSUME CopyInv, NEW d \in Device, NEW r \in Session \cup {None},
           NEW ms, ms \subseteq Box!Pending(d),
           Handed(d)' = Handed(d) \cup ({r} \X ms),
           \A e \in Device \ {d} : Handed(e)' = Handed(e),
           UNCHANGED <<log, lost>>
    PROVE  Box!MailboxNext
  <1>1. ms \in SUBSET Msg
    BY DEF Box!Pending, Box!Range, CopyInv, TypeInv, TypeOK
  <1>2. Box!HandOver(d, r, ms)
    BY DEF Box!HandOver
  <1>3. QED
    BY <1>1, <1>2 DEF Box!MailboxNext

(* Every step of the server is a step of the mailbox, or none.             *)
LEMMA MailboxStep == CopyInv /\ [Next]_vars => [Box!MailboxNext]_(Box!mvars)
  <1> SUFFICES ASSUME CopyInv, [Next]_vars
               PROVE  [Box!MailboxNext]_(Box!mvars)
    OBVIOUS
  <1> USE ConstantTypes
  <1>0. TypeOK /\ FreshCopies
    BY DEF CopyInv, TypeInv
  <1>1. CASE UNCHANGED <<log, pulled, sent, lost>>
    <2>1. \A d \in Device : Handed(d)' = Handed(d)
      BY <1>1, HandedSame
    <2>2. QED
      BY <1>1, <2>1 DEF Box!mvars
  <1>2. ASSUME NEW m \in Msg, NEW d \in Device, Enqueue(m, d)
        PROVE  Box!MailboxNext
    <2>1. /\ log' = [log EXCEPT ![d] = Append(@, m)] /\ m \notin Range(log[d])
          /\ pulled' = pulled /\ lost' = lost /\ sent' = sent
      BY <1>0, <1>2 DEF Enqueue, FreshCopies
    <2>2. \A e \in Device : Handed(e)' = Handed(e)
      BY <2>1, HandedSame
    <2>3. Box!Accept(d, m)
      BY <2>1, <2>2 DEF Box!Accept, Box!Range, Range
    <2>4. QED
      BY <2>3 DEF Box!MailboxNext
  <1>3. ASSUME NEW d \in Device, PurgeDevice(d) \/ PullLost(d)
        PROVE  Box!MailboxNext
    <2>1. /\ lost' = [lost EXCEPT ![d] = @ \cup Range(queue[d])]
          /\ UNCHANGED <<log, pulled, sent>>
      BY <1>3 DEF PurgeDevice, PullLost
    <2>2. QED
      BY <2>1, QueuedIsPending, DropMaps
  <1>4. ASSUME NEW d \in Device, PullMessages(d)
        PROVE  Box!MailboxNext
    <2>1. /\ pulled' = [pulled EXCEPT ![d] = @ \o queue[d]]
          /\ UNCHANGED <<log, lost, sent>>
      BY <1>4 DEF PullMessages
    <2>2. Range(pulled'[d]) = Range(pulled[d]) \cup Range(queue[d])
      BY <1>0, <2>1, RangeConcat DEF TypeOK
    <2>3. Handed(d)' = Handed(d) \cup ({None} \X Range(queue[d]))
      BY <2>1, <2>2 DEF Handed, SessionsOf
    <2>4. \A e \in Device \ {d} : Handed(e)' = Handed(e)
      BY <1>0, <2>1, HandedSame DEF TypeOK
    <2>5. QED
      BY <2>1, <2>3, <2>4, QueuedIsPending, HandOverMaps
  <1>5. ASSUME NEW s \in Session, Push(s)
        PROVE  Box!MailboxNext
    <2>0. PICK d \in Device : d = DevOf[s]
      OBVIOUS
    <2>1. /\ sent' = [sent EXCEPT ![s] = Append(@, Head(batch[s]))]
          /\ UNCHANGED <<log, lost, pulled>>
      BY <1>5 DEF Push
    <2>2. batch[s] \in Seq(Msg) /\ batch[s] # <<>> /\ sent[s] \in Seq(Msg)
      BY <1>0, <1>5 DEF Push, CopyInv, TypeInv, TypeOK, BatchWhilePushing
    <2>3. PICK h \in Msg : h = Head(batch[s]) /\ h \in Range(batch[s])
      BY <2>2, RangeHeadTail
    <2>4. Range(sent'[s]) = Range(sent[s]) \cup {h}
      BY <1>0, <2>1, <2>2, <2>3, RangeAppend DEF TypeOK
    <2>5. \A t \in Session \ {s} : sent'[t] = sent[t]
      BY <1>0, <2>1 DEF TypeOK
    <2>6. Handed(d)' = Handed(d) \cup ({s} \X {h})
      <3>1. SessionsOf(d)' = SessionsOf(d) /\ s \in SessionsOf(d) /\ SessionsOf(d) \subseteq Session
        BY <2>0 DEF SessionsOf
      <3>2. Range(pulled'[d]) = Range(pulled[d])
        BY <2>1
      <3>3. \A x : x \in Handed(d)' <=>
                 \/ \E m \in Range(pulled[d]) : x = <<None, m>>
                 \/ \E t \in SessionsOf(d) : \E m \in Range(sent'[t]) : x = <<t, m>>
        BY <3>1, <3>2 DEF Handed
      <3>4. \A x : x \in Handed(d) <=>
                 \/ \E m \in Range(pulled[d]) : x = <<None, m>>
                 \/ \E t \in SessionsOf(d) : \E m \in Range(sent[t]) : x = <<t, m>>
        BY DEF Handed
      <3>5. \A t \in SessionsOf(d) : t # s => sent'[t] = sent[t]
        BY <2>5, <3>1
      <3>6. \A x : x \in Handed(d)' <=> x \in Handed(d) \/ x = <<s, h>>
        BY <2>4, <3>1, <3>3, <3>4, <3>5
      <3>7. QED
        BY <3>6
    <2>7. \A e \in Device \ {d} : Handed(e)' = Handed(e)
      BY <2>0, <2>1, <2>5, HandedSame DEF SessionsOf
    <2>8. {h} \subseteq Box!Pending(d)
      BY <2>0, <2>3, QueuedIsPending DEF SessionsOf
    <2>9. PICK ms : ms = {h}
      OBVIOUS
    <2>10. Handed(d)' = Handed(d) \cup ({s} \X ms) /\ ms \subseteq Box!Pending(d)
      BY <2>6, <2>8, <2>9
    <2>11. QED
      BY <2>1, <2>7, <2>10, HandOverMaps
  <1>6. ASSUME NEW s \in Session, PushFailed(s)
        PROVE  Box!MailboxNext
    <2>1. /\ lost' = [lost EXCEPT ![DevOf[s]] = @ \cup Range(batch[s])]
          /\ UNCHANGED <<log, pulled, sent>>
      BY <1>6 DEF PushFailed
    <2>2. DevOf[s] \in Device /\ Range(batch[s]) \subseteq Box!Pending(DevOf[s])
      BY QueuedIsPending DEF SessionsOf
    <2>3. QED
      BY <2>1, <2>2, DropMaps
  <1>7. QED
    BY <1>1, <1>2, <1>3, <1>4, <1>5, <1>6
       DEF Next, IngestStep, SessionStep, Environment, vars, account, ingest,
           session, history,
           RegisterDevice, DeleteUser, Maintenance, Resolve, Notify,
           IngestMessage, IngestRefused, AdminBroadcast, BroadcastNext,
           CancelIngest, CancelDelete, Hello, HelloRejected, Pull, Wake, Replaced,
           Disconnect, Send, SendRefused, Ack, AckFailed, SocketGone, Begin

(* Ingest, queues, hub, sockets, pulls and purges together are an          *)
(* at-most-once mailbox per device, "at-most-once handoff from the         *)
(* server's perspective": an ingest's Enqueue is its Accept, a written     *)
(* frame or a pull's response its HandOver, a purge, a lost response or a  *)
(* failed write its Drop, and no other step shows.                         *)
THEOREM MailboxImplemented == Spec => ImplementsMailbox
  <1>1. Init => Box!MailboxInit
    <2> SUFFICES ASSUME Init PROVE Box!MailboxInit
      OBVIOUS
    <2>1. Range(<<>>) = {}
      BY DEF Range
    <2>2. ASSUME NEW d \in Device
          PROVE  Handed(d) = {}
      BY <2>1 DEF Init, Handed, SessionsOf
    <2>3. QED
      BY <2>2 DEF Init, Box!MailboxInit
  <1>2. QED
    BY <1>1, InitCopies, CopyInvStep, MailboxStep, PTL
       DEF Spec, ImplementsMailbox, Box!MailboxSpec
=============================================================================
