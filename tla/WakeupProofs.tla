---------------------------- MODULE WakeupProofs ----------------------------
(***************************************************************************)
(* Proofs about Delivery, continued: the hub's slots, what an accepted     *)
(* envelope guarantees, and that no wake-up is lost.                       *)
(***************************************************************************)
EXTENDS DeliveryProofs

-----------------------------------------------------------------------------
(* The hub's slots.                                                        *)

(* A slot is given only to a device that has a token.                      *)
SlotsIssued == \A d \in Device : hub[d] # None => d \in issued

SlotInv == TypeInv /\ SlotIsAlive /\ SlotsIssued

(* A session leaves the hub before, or in the step in which, it ends.      *)
LEMMA SlotStep == SlotInv /\ [Next]_vars => SlotInv'
  <1> SUFFICES ASSUME SlotInv, [Next]_vars
               PROVE  SlotInv'
    OBVIOUS
  <1>0. TypeInv' /\ TypeInv /\ TypeOK
    BY TypeStep DEF SlotInv, TypeInv
  <1> USE ConstantTypes
      DEF SlotInv, SlotIsAlive, SlotsIssued, account, ingest, session, history
  <1>1. ASSUME UNCHANGED <<hub, wpc>>, issued \subseteq issued'
        PROVE  SlotInv'
    BY <1>0, <1>1
  <1>2. ASSUME NEW s \in Session, Unregister(s), UNCHANGED issued
        PROVE  SlotInv'
    BY <1>0, <1>2 DEF Unregister, Close, TypeOK, Attached
  <1>3. ASSUME NEW s \in Session, Close(s), hub[DevOf[s]] # s, UNCHANGED <<hub, issued>>
        PROVE  SlotInv'
    BY <1>0, <1>3 DEF Close, TypeOK, Attached
  <1>4. ASSUME NEW s \in Session, HelloRejected(s)
        PROVE  SlotInv'
    <2>1. hub[DevOf[s]] # s
      BY <1>0, <1>4 DEF HelloRejected, TypeOK, Attached
    <2>2. QED
      BY <1>3, <1>4, <2>1 DEF HelloRejected
  <1>5. ASSUME NEW s \in Session, Hello(s)
        PROVE  SlotInv'
    BY <1>0, <1>5 DEF Hello, TypeOK, Attached
  <1>6. ASSUME NEW s \in Session, wpc[s] \in Attached, NEW pc \in Attached,
               wpc' = [wpc EXCEPT ![s] = pc], UNCHANGED <<hub, issued>>
        PROVE  SlotInv'
    BY <1>0, <1>6 DEF TypeOK
  <1>7. ASSUME NEW s \in Session, Pull(s)
        PROVE  SlotInv'
    BY <1>0, <1>7, <1>6 DEF Pull, Attached
  <1>8. ASSUME NEW s \in Session, Push(s)
        PROVE  SlotInv'
    BY <1>0, <1>8, <1>6 DEF Push, Attached
  <1>9. ASSUME NEW s \in Session, Wake(s) \/ Ack(s)
        PROVE  SlotInv'
    BY <1>0, <1>9, <1>6 DEF Wake, Ack, Attached
  <1>10. ASSUME NEW s \in Session, NEW m \in Msg, Send(s, m)
         PROVE  SlotInv'
    BY <1>0, <1>10, <1>6 DEF Send, Attached
  <1>11. ASSUME NEW s \in Session,
                PushFailed(s) \/ Disconnect(s) \/ AckFailed(s) \/ Replaced(s)
         PROVE  SlotInv'
    BY <1>2, <1>3, <1>11 DEF PushFailed, Disconnect, AckFailed, Replaced
  <1>12. QED
    BY <1>1, <1>4, <1>5, <1>7, <1>8, <1>9, <1>10, <1>11
       DEF Next, IngestStep, SessionStep, Environment, vars,
           RegisterDevice, DeleteUser, PurgeDevice, Maintenance, Resolve,
           Enqueue, Notify, IngestMessage, IngestRefused, PullMessages,
           PullLost, AdminBroadcast, BroadcastNext, CancelIngest,
           CancelDelete, SendRefused, SocketGone

(* The hub never holds a session that has ended, for any number of         *)
(* sessions of a device racing to connect and to leave.                    *)
THEOREM SlotsAlive == Spec => []SlotIsAlive
  <1>1. Init => SlotInv
    BY InitTypes DEF Init, SlotInv, SlotIsAlive, SlotsIssued
  <1>2. SlotInv => SlotIsAlive
    BY DEF SlotInv
  <1>3. QED
    BY <1>1, <1>2, SlotStep, PTL DEF Spec

-----------------------------------------------------------------------------
(* What acceptance guarantees.                                             *)

(* While an ingest runs, each device it owes a copy is still to be looked  *)
(* up, still to be served, or has its copy; and it owes copies only to     *)
(* devices that existed when it began.                                     *)
OwedCopies ==
    \A m \in Msg :
        /\ due[m] \subseteq issued
        /\ ipc[m] = "ingest" =>
              \A d \in due[m] \cap registered :
                  Owner[d] \in todo[m] \/ d \in fan[m] \/ m \in Range(log[d])

OwedInv == TypeInv /\ OwedCopies /\ AcceptedMeansQueued

(* No step of an ingest forgets a device it owes a copy.                   *)
LEMMA OwedStep == OwedInv /\ [Next]_vars => OwedInv'
  <1> SUFFICES ASSUME OwedInv, [Next]_vars
               PROVE  OwedInv'
    OBVIOUS
  <1>0. TypeInv' /\ TypeInv /\ TypeOK
    BY TypeStep DEF OwedInv, TypeInv
  <1> USE ConstantTypes
      DEF OwedInv, OwedCopies, AcceptedMeansQueued, account, ingest, session, history
  <1>1. ASSUME UNCHANGED <<ipc, todo, fan, log, due, issued>>,
               registered' \subseteq registered
        PROVE  OwedInv'
    BY <1>0, <1>1
  <1>2. ASSUME NEW d \in Device, RegisterDevice(d)
        PROVE  OwedInv'
    BY <1>0, <1>2 DEF RegisterDevice
  <1>3. ASSUME NEW m \in Msg, Begin(m), ipc[m] = "new", UNCHANGED <<fan, log, account>>
        PROVE  OwedInv'
    <2>1. \A d \in due'[m] : d \in registered /\ Owner[d] \in Members[m]
      BY <1>0, <1>3 DEF Begin, DevicesOf, TypeOK
    <2>2. ipc'[m] = "ingest" /\ todo'[m] = Members[m]
          /\ \A n \in Msg \ {m} : ipc'[n] = ipc[n] /\ todo'[n] = todo[n] /\ due'[n] = due[n]
      BY <1>0, <1>3 DEF Begin, TypeOK
    <2>3. QED
      BY <1>0, <1>3, <2>1, <2>2 DEF TypeOK
  <1>4. ASSUME NEW m \in Msg, UNCHANGED <<todo, fan, log, due, account>>,
               ipc' = [ipc EXCEPT ![m] = "refused"]
        PROVE  OwedInv'
    BY <1>0, <1>4 DEF TypeOK
  <1>5. ASSUME NEW m \in Msg, NEW u \in User, Resolve(m, u)
        PROVE  OwedInv'
    BY <1>0, <1>5 DEF Resolve, Proceed, DevicesOf, TypeOK
  <1>6. ASSUME NEW m \in Msg, NEW d \in Device, Enqueue(m, d)
        PROVE  OwedInv'
    <2>1. Range(log'[d]) = Range(log[d]) \cup {m}
      BY <1>0, <1>6, RangeAppend DEF Enqueue, TypeOK
    <2>2. \A e \in Device \ {d} : log'[e] = log[e]
      BY <1>0, <1>6 DEF Enqueue, TypeOK
    <2>3. /\ \A n \in Msg \ {m} : ipc'[n] = ipc[n] /\ todo'[n] = todo[n] /\ fan'[n] = fan[n]
          /\ ipc[m] = "ingest" /\ todo[m] = {}
          /\ \/ ipc'[m] = "notify" /\ fan[m] \subseteq {d}
             \/ ipc'[m] = "ingest" /\ fan'[m] = fan[m] \ {d}
      BY <1>0, <1>6 DEF Enqueue, Proceed, TypeOK
    <2>4. UNCHANGED <<due, registered, issued>>
      BY <1>6 DEF Enqueue
    <2>5. \A n \in Msg, e \in Device : n \in Range(log[e]) => n \in Range(log'[e])
      BY <2>1, <2>2
    <2>6. ASSUME NEW n \in Msg, NEW e \in due[n] \cap registered
          PROVE  /\ ipc'[n] = "ingest" =>
                       Owner[e] \in todo'[n] \/ e \in fan'[n] \/ n \in Range(log'[e])
                 /\ ipc'[n] \in {"notify", "done"} => n \in Range(log'[e])
      <3>1. e \in Device
        BY <1>0 DEF TypeOK
      <3>2. CASE n # m
        BY <2>3, <2>5, <3>1, <3>2
      <3>3. CASE n = m /\ e = d
        BY <2>1, <3>3
      <3>4. CASE n = m /\ e # d
        BY <2>3, <2>5, <3>1, <3>4
      <3>5. QED
        BY <3>2, <3>3, <3>4
    <2>7. QED
      BY <1>0, <2>4, <2>6
  <1>7. ASSUME NEW m \in Msg, NEW d \in Device, Notify(m, d)
        PROVE  OwedInv'
    BY <1>0, <1>7 DEF Notify, Proceed, TypeOK
  <1>8. ASSUME NEW m \in Msg, CancelIngest(m)
        PROVE  OwedInv'
    BY <1>0, <1>8 DEF CancelIngest, TypeOK
  <1>9. QED
    BY <1>0, <1>1, <1>2, <1>3, <1>4, <1>5, <1>6, <1>7, <1>8
       DEF Next, IngestStep, SessionStep, Environment, vars, TypeOK,
           DeleteUser, PurgeDevice, Maintenance, IngestMessage,
           IngestRefused, PullMessages, PullLost, AdminBroadcast,
           BroadcastNext, BroadcastIdle, CancelDelete, Hello, HelloRejected,
           Pull, Push, PushFailed, Wake, Replaced, Disconnect, Send,
           SendRefused, Ack, AckFailed, SocketGone

(* An accepted envelope has a copy for every device its recipient had, for *)
(* any number of recipients, devices and ingests at once, and devices that *)
(* come and go meanwhile.                                                  *)
THEOREM AcceptanceQueues == Spec => []AcceptedMeansQueued
  <1>1. Init => OwedInv
    BY InitTypes DEF Init, OwedInv, OwedCopies, AcceptedMeansQueued
  <1>2. OwedInv => AcceptedMeansQueued
    BY DEF OwedInv
  <1>3. QED
    BY <1>1, <1>2, OwedStep, PTL DEF Spec

-----------------------------------------------------------------------------
(* No wake-up is lost.                                                     *)

(* An ingest fans out, and has queued copies, to devices of its recipient  *)
(* only: the ones notify_recipients will look up again.                    *)
FanInRecipient ==
    \A m \in Msg :
        /\ todo[m] \subseteq Members[m]
        /\ \A d \in fan[m] : Owner[d] \in Members[m]
        /\ \A d \in Device : m \in Range(log[d]) => Owner[d] \in Members[m]

(* A recipient's devices are looked up among its own.                      *)
LEMMA FanStep == TypeInv /\ FanInRecipient /\ [Next]_vars => FanInRecipient'
  <1> SUFFICES ASSUME TypeInv, FanInRecipient, [Next]_vars
               PROVE  FanInRecipient'
    OBVIOUS
  <1> USE ConstantTypes DEF TypeInv, TypeOK, FanInRecipient, account, ingest, session, history
  <1>1. ASSUME UNCHANGED <<todo, fan, log>>
        PROVE  FanInRecipient'
    BY <1>1
  <1>2. ASSUME NEW m \in Msg, Begin(m), UNCHANGED <<fan, log>>
        PROVE  FanInRecipient'
    BY <1>2 DEF Begin
  <1>3. ASSUME NEW m \in Msg, NEW u \in User, Resolve(m, u)
        PROVE  FanInRecipient'
    BY <1>3 DEF Resolve, Proceed, DevicesOf
  <1>4. ASSUME NEW m \in Msg, NEW d \in Device, Notify(m, d)
        PROVE  FanInRecipient'
    BY <1>4 DEF Notify, Proceed
  <1>5. ASSUME NEW m \in Msg, NEW d \in Device, Enqueue(m, d)
        PROVE  FanInRecipient'
    <2>1. Range(log'[d]) = Range(log[d]) \cup {m} /\ Owner[d] \in Members[m]
      BY <1>5, RangeAppend DEF Enqueue
    <2>2. \A e \in Device \ {d} : log'[e] = log[e]
      BY <1>5 DEF Enqueue
    <2>3. \A n \in Msg : todo'[n] \subseteq Members[n] /\ fan'[n] \subseteq fan[n]
      BY <1>5 DEF Enqueue, Proceed
    <2>4. QED
      BY <2>1, <2>2, <2>3
  <1>6. ASSUME NEW m \in Msg, CancelIngest(m)
        PROVE  FanInRecipient'
    BY <1>6 DEF CancelIngest
  <1>7. QED
    BY <1>1, <1>2, <1>3, <1>4, <1>5, <1>6
       DEF Next, IngestStep, SessionStep, Environment, vars,
           RegisterDevice, DeleteUser, PurgeDevice, Maintenance, IngestMessage,
           IngestRefused, PullMessages, PullLost, AdminBroadcast, BroadcastNext,
           CancelDelete, Hello, HelloRejected, Pull, Push,
           PushFailed, Wake, Replaced, Disconnect, Send, SendRefused, Ack,
           AckFailed, SocketGone

(* The session behind d's slot drains soon: it is about to, or has a       *)
(* signal buffered.                                                        *)
WillDrain(d) == wpc[hub[d]] = "pull" \/ signals[hub[d]] > 0

(* A copy of m in d's queue is not forgotten.                              *)
Attended(m, d) == WillDrain(d) \/ WillNotify(m, d) \/ ipc[m] = "cancelled"

WakeInv == CopyInv /\ SlotInv /\ FanInRecipient /\ NoStrandedMail

(* No step leaves mail behind that nobody will fetch.                      *)
LEMMA WakeStep == WakeInv /\ [Next]_vars => NoStrandedMail'
  <1> SUFFICES ASSUME WakeInv, [Next]_vars,
                      NEW d \in registered', hub'[d] # None, NEW m \in Range(queue'[d])
               PROVE  Attended(m, d)'
    BY DEF NoStrandedMail, Attended, WillDrain
  <1>0. /\ TypeInv /\ TypeOK /\ TypeInv' /\ FreshCopies /\ SlotIsAlive /\ SlotsIssued
        /\ SlotIsAlive' /\ FanInRecipient /\ FanInRecipient'
    BY TypeStep, SlotStep, FanStep DEF WakeInv, CopyInv, SlotInv, TypeInv
  <1>1. d \in Device /\ m \in Msg /\ hub'[d] \in Session
    BY <1>0 DEF TypeInv, TypeOK, Range
  <1>2. \A n \in Msg : n \in Range(queue[d]) => n \in Range(log[d])
    BY <1>1 DEF WakeInv, CopyInv, CopyInOnePlace, Placed, Accounted
  <1>3. ASSUME d \in registered, hub[d] # None, m \in Range(queue[d])
        PROVE  Attended(m, d)
    BY <1>3 DEF WakeInv, NoStrandedMail, Attended, WillDrain
  <1> USE ConstantTypes DEF account, ingest, session, history
  <1>4. ASSUME UNCHANGED <<hub, signals, wpc, queue, ipc, todo, fan>>, registered' \subseteq registered
        PROVE  Attended(m, d)'
    BY <1>3, <1>4 DEF Attended, WillDrain, WillNotify
  <1>5. ASSUME NEW e \in Device, RegisterDevice(e)
        PROVE  Attended(m, d)'
    <2>1. d \in registered
      BY <1>0, <1>5 DEF RegisterDevice, SlotsIssued
    <2>2. QED
      BY <1>3, <1>5, <2>1 DEF RegisterDevice, Attended, WillDrain, WillNotify
  <1>6. ASSUME NEW e \in Device, PurgeDevice(e) \/ PullMessages(e) \/ PullLost(e)
        PROVE  Attended(m, d)'
    <2>1. d # e
      BY <1>0, <1>1, <1>6 DEF PurgeDevice, PullMessages, PullLost, TypeOK, Range
    <2>2. queue'[d] = queue[d] /\ UNCHANGED <<registered, hub, signals, wpc, ipc, todo, fan>>
      BY <1>0, <1>1, <1>6, <2>1 DEF PurgeDevice, PullMessages, PullLost, TypeOK
    <2>3. QED
      BY <1>3, <2>2 DEF Attended, WillDrain, WillNotify
  <1>7. ASSUME NEW n \in Msg, Begin(n), ipc[n] = "new",
               UNCHANGED <<registered, hub, signals, queue, fan>>,
               wpc' = wpc \/ \E s \in Session : wpc[s] = "loop" /\ wpc' = [wpc EXCEPT ![s] = "send"]
        PROVE  Attended(m, d)'
    <2>1. m # n
      BY <1>0, <1>1, <1>2, <1>7 DEF FreshCopies
    <2>2. ipc'[m] = ipc[m] /\ todo'[m] = todo[m]
      BY <1>0, <1>1, <1>7, <2>1 DEF Begin, TypeOK
    <2>3. wpc[hub[d]] = "pull" => wpc'[hub[d]] = "pull"
      BY <1>0, <1>1, <1>7 DEF TypeOK
    <2>4. QED
      BY <1>3, <1>7, <2>2, <2>3 DEF Attended, WillDrain, WillNotify
  <1>8. ASSUME NEW n \in Msg, ipc[n] = "new", ipc' = [ipc EXCEPT ![n] = "refused"],
               UNCHANGED <<registered, hub, signals, wpc, queue, todo, fan>>
        PROVE  Attended(m, d)'
    <2>1. m # n
      BY <1>0, <1>1, <1>2, <1>8 DEF FreshCopies
    <2>2. ipc'[m] = ipc[m]
      BY <1>0, <1>1, <1>8, <2>1 DEF TypeOK
    <2>3. QED
      BY <1>3, <1>8, <2>2 DEF Attended, WillDrain, WillNotify
  <1>9. ASSUME NEW n \in Msg, NEW u \in User, Resolve(n, u)
        PROVE  Attended(m, d)'
    <2>1. UNCHANGED <<registered, hub, signals, wpc, queue>>
      BY <1>9 DEF Resolve
    <2>2. CASE m # n
      <3>1. ipc'[m] = ipc[m] /\ todo'[m] = todo[m] /\ fan'[m] = fan[m]
        BY <1>0, <1>1, <1>9, <2>2 DEF Resolve, Proceed, TypeOK
      <3>2. QED
        BY <1>3, <2>1, <3>1 DEF Attended, WillDrain, WillNotify
    <2>3. CASE m = n
      <3>1. ipc[m] = "notify" /\ u \in todo[m]
        BY <1>0, <1>1, <1>2, <1>9, <2>1, <2>3 DEF Resolve, FreshCopies
      <3>2. CASE Owner[d] = u
        <4>1. d \in fan[m] \cup DevicesOf(u)
          BY <2>1, <3>2 DEF DevicesOf
        <4>2. ipc'[m] = "notify" /\ d \in fan'[m]
          BY <1>0, <1>1, <1>9, <2>3, <3>1, <4>1 DEF Resolve, Proceed, TypeOK
        <4>3. QED
          BY <4>2 DEF Attended, WillNotify
      <3>3. CASE Owner[d] # u /\ ~WillDrain(d)
        <4>1. Owner[d] \in todo[m] \ {u} \/ d \in fan[m]
          BY <1>3, <2>1, <3>1, <3>3 DEF Attended, WillNotify
        <4>2. ipc'[m] = "notify" /\ (Owner[d] \in todo'[m] \/ d \in fan'[m])
          BY <1>0, <1>1, <1>9, <2>3, <3>1, <4>1 DEF Resolve, Proceed, TypeOK
        <4>3. QED
          BY <4>2 DEF Attended, WillNotify
      <3>4. CASE WillDrain(d)
        BY <2>1, <3>4 DEF Attended, WillDrain
      <3>5. QED
        BY <3>2, <3>3, <3>4
    <2>4. QED
      BY <2>2, <2>3
  <1>10. ASSUME NEW n \in Msg, NEW e \in Device, Enqueue(n, e)
         PROVE  Attended(m, d)'
    <2>1. UNCHANGED <<registered, hub, signals, wpc>>
      BY <1>10 DEF Enqueue
    <2>2. CASE m = n /\ d = e
      <3>1. Owner[d] \in Members[m]
        BY <1>0, <1>10, <2>2 DEF Enqueue, FanInRecipient
      <3>2. ipc'[m] = "ingest" \/ (ipc'[m] = "notify" /\ todo'[m] = Members[m])
        BY <1>0, <1>1, <1>10, <2>2 DEF Enqueue, Proceed, TypeOK
      <3>3. QED
        BY <3>1, <3>2 DEF Attended, WillNotify
    <2>3. CASE d # e
      <3>1. queue'[d] = queue[d]
        BY <1>0, <1>1, <1>10, <2>3 DEF Enqueue, TypeOK
      <3>2. CASE m # n
        <4>1. ipc'[m] = ipc[m] /\ todo'[m] = todo[m] /\ fan'[m] = fan[m]
          BY <1>0, <1>1, <1>10, <3>2 DEF Enqueue, Proceed, TypeOK
        <4>2. QED
          BY <1>3, <2>1, <3>1, <4>1 DEF Attended, WillDrain, WillNotify
      <3>3. CASE m = n
        <4>1. Owner[d] \in Members[m]
          BY <1>0, <1>1, <1>2, <3>1 DEF FanInRecipient
        <4>2. ipc'[m] = "ingest" \/ (ipc'[m] = "notify" /\ todo'[m] = Members[m])
          BY <1>0, <1>1, <1>10, <3>3 DEF Enqueue, Proceed, TypeOK
        <4>3. QED
          BY <4>1, <4>2 DEF Attended, WillNotify
      <3>4. QED
        BY <3>2, <3>3
    <2>4. CASE d = e /\ m # n
      <3>1. m \in Range(queue[d])
        <4>1. Range(queue'[d]) = Range(queue[d]) \cup {n}
          BY <1>0, <1>1, <1>10, <2>4, RangeAppend DEF Enqueue, TypeOK
        <4>2. QED
          BY <2>4, <4>1
      <3>2. ipc'[m] = ipc[m] /\ todo'[m] = todo[m] /\ fan'[m] = fan[m]
        BY <1>0, <1>1, <1>10, <2>4 DEF Enqueue, Proceed, TypeOK
      <3>3. QED
        BY <1>3, <2>1, <3>1, <3>2 DEF Attended, WillDrain, WillNotify
    <2>5. QED
      BY <2>2, <2>3, <2>4
  <1>11. ASSUME NEW n \in Msg, NEW e \in Device, Notify(n, e)
         PROVE  Attended(m, d)'
    <2>1. UNCHANGED <<registered, hub, wpc, queue>>
      BY <1>11 DEF Notify
    <2>2. signals[hub[d]] > 0 => signals'[hub[d]] > 0
      BY <1>0, <1>1, <1>11, <2>1 DEF Notify, TypeOK
    <2>3. CASE d = e
      <3>1. signals'[hub[d]] > 0
        BY <1>0, <1>1, <1>11, <2>1, <2>3 DEF Notify, TypeOK
      <3>2. QED
        BY <2>1, <3>1 DEF Attended, WillDrain
    <2>4. CASE d # e
      <3>1. WillNotify(m, d) \/ ipc[m] = "cancelled" => WillNotify(m, d)' \/ ipc'[m] = "cancelled"
        BY <1>0, <1>1, <1>11, <2>4 DEF Notify, Proceed, WillNotify, TypeOK
      <3>2. QED
        BY <1>3, <2>1, <2>2, <3>1 DEF Attended, WillDrain
    <2>5. QED
      BY <2>3, <2>4
  <1>12. ASSUME NEW n \in Msg, CancelIngest(n)
         PROVE  Attended(m, d)'
    <2>1. UNCHANGED <<registered, hub, signals, wpc, queue>>
      BY <1>12 DEF CancelIngest
    <2>2. ipc'[m] = "cancelled" \/ (ipc'[m] = ipc[m] /\ todo'[m] = todo[m] /\ fan'[m] = fan[m])
      BY <1>0, <1>1, <1>12 DEF CancelIngest, TypeOK
    <2>3. QED
      BY <1>3, <2>1, <2>2 DEF Attended, WillDrain, WillNotify
  <1>13. ASSUME NEW s \in Session, Hello(s)
         PROVE  Attended(m, d)'
    <2>1. CASE d = DevOf[s]
      <3>1. hub'[d] = s /\ wpc'[s] = "pull"
        BY <1>0, <1>1, <1>13, <2>1 DEF Hello, TypeOK
      <3>2. QED
        BY <3>1 DEF Attended, WillDrain
    <2>2. CASE d # DevOf[s]
      <3>1. hub'[d] = hub[d] /\ hub[d] # s
        BY <1>0, <1>1, <1>13, <2>2 DEF Hello, TypeOK, SlotIsAlive
      <3>2. wpc'[hub[d]] = wpc[hub[d]] /\ UNCHANGED <<registered, signals, queue, ipc, todo, fan>>
        BY <1>0, <1>1, <1>13, <3>1 DEF Hello, TypeOK
      <3>3. QED
        BY <1>3, <3>1, <3>2 DEF Attended, WillDrain, WillNotify
    <2>3. QED
      BY <2>1, <2>2
  <1>14. ASSUME NEW s \in Session, Close(s),
                hub'[d] # s, hub'[d] = hub[d],
                UNCHANGED <<registered, queue, ipc, todo, fan>>
         PROVE  Attended(m, d)'
    <2>1. wpc'[hub[d]] = wpc[hub[d]] /\ signals'[hub[d]] = signals[hub[d]]
      BY <1>0, <1>1, <1>14 DEF Close, TypeOK
    <2>2. QED
      BY <1>3, <1>14, <2>1 DEF Attended, WillDrain, WillNotify
  <1>15. ASSUME NEW s \in Session, HelloRejected(s) \/ Replaced(s)
         PROVE  Attended(m, d)'
    <2>1. wpc'[s] = "closed"
      BY <1>0, <1>15 DEF HelloRejected, Replaced, Close, TypeOK
    <2>2. hub'[d] # s
      BY <1>0, <1>1, <2>1 DEF SlotIsAlive, Attached
    <2>3. QED
      BY <1>14, <1>15, <2>2 DEF HelloRejected, Replaced
  <1>16. ASSUME NEW s \in Session, PushFailed(s) \/ Disconnect(s) \/ AckFailed(s)
         PROVE  Attended(m, d)'
    <2>1. Unregister(s) /\ UNCHANGED <<registered, queue, ipc, todo, fan>>
      BY <1>16 DEF PushFailed, Disconnect, AckFailed
    <2>2. d # DevOf[s] /\ hub'[d] = hub[d]
      BY <1>0, <1>1, <2>1 DEF Unregister, TypeOK
    <2>3. hub'[d] # s
      BY <1>0, <1>1, <2>2 DEF SlotIsAlive
    <2>4. QED
      BY <1>14, <2>1, <2>2, <2>3 DEF Unregister
  <1>17. ASSUME NEW s \in Session, Pull(s)
         PROVE  Attended(m, d)'
    <2>1. d # DevOf[s]
      BY <1>0, <1>1, <1>17 DEF Pull, TypeOK, Range
    <2>2. hub'[d] = hub[d] /\ hub[d] # s /\ queue'[d] = queue[d]
      BY <1>0, <1>1, <1>17, <2>1 DEF Pull, TypeOK, SlotIsAlive
    <2>3. wpc'[hub[d]] = wpc[hub[d]] /\ UNCHANGED <<registered, signals, ipc, todo, fan>>
      BY <1>0, <1>1, <1>17, <2>2 DEF Pull, TypeOK
    <2>4. QED
      BY <1>3, <2>2, <2>3 DEF Attended, WillDrain, WillNotify
  <1>18. ASSUME NEW s \in Session, Push(s) \/ Ack(s)
         PROVE  Attended(m, d)'
    <2>1. UNCHANGED <<registered, hub, signals, queue, ipc, todo, fan>>
      BY <1>18 DEF Push, Ack
    <2>2. wpc[hub[d]] = "pull" => wpc'[hub[d]] = "pull"
      BY <1>0, <1>1, <1>18, <2>1 DEF Push, Ack, TypeOK
    <2>3. QED
      BY <1>3, <2>1, <2>2 DEF Attended, WillDrain, WillNotify
  <1>19. ASSUME NEW s \in Session, Wake(s)
         PROVE  Attended(m, d)'
    <2>1. UNCHANGED <<registered, hub, queue, ipc, todo, fan>>
      BY <1>19 DEF Wake
    <2>2. wpc'[hub[d]] = "pull" \/ (wpc'[hub[d]] = wpc[hub[d]] /\ signals'[hub[d]] = signals[hub[d]])
      BY <1>0, <1>1, <1>19, <2>1 DEF Wake, TypeOK
    <2>3. QED
      BY <1>3, <2>1, <2>2 DEF Attended, WillDrain, WillNotify
  <1>20. QED
    BY <1>0, <1>4, <1>5, <1>6, <1>7, <1>8, <1>9, <1>10, <1>11, <1>12, <1>13,
       <1>15, <1>16, <1>17, <1>18, <1>19
       DEF Next, IngestStep, SessionStep, Environment, vars, TypeOK,
           DeleteUser, Maintenance, IngestMessage, IngestRefused,
           AdminBroadcast, BroadcastNext, BroadcastIdle, CancelDelete, Send,
           SendRefused, SocketGone

(* Real-time delivery loses no wake-up: mail queued for a device with a    *)
(* session is always about to be drained or signalled, for any number of   *)
(* senders, sessions and recipients.                                       *)
THEOREM NoWakeupLost == Spec => []NoStrandedMail
  <1>1. Init => WakeInv
    <2>1. Init => SlotInv
      BY InitTypes DEF Init, SlotInv, SlotIsAlive, SlotsIssued
    <2>2. Init => FanInRecipient
      BY ConstantTypes DEF Init, FanInRecipient, Range
    <2>3. Init => NoStrandedMail
      BY ConstantTypes, InitTypes DEF Init, NoStrandedMail, TypeInv, TypeOK
    <2>4. QED
      BY <2>1, <2>2, <2>3, InitCopies DEF WakeInv
  <1>2. WakeInv /\ [Next]_vars => WakeInv'
    BY TypeStep, FreshStep, CopyStep, SlotStep, FanStep, WakeStep DEF WakeInv, CopyInv
  <1>3. WakeInv => NoStrandedMail
    BY DEF WakeInv
  <1>4. QED
    BY <1>1, <1>2, <1>3, PTL DEF Spec
=============================================================================
