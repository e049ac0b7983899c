--------------------------- MODULE ServicesProofs ---------------------------
(***************************************************************************)
(* Proofs about Presence, Threads, Groups and Rosters, each on its own     *)
(* specification: for every set of devices, typists, chats, texts, members *)
(* and users, every TTL, and any number of connections, groups and edits.  *)
(***************************************************************************)
EXTENDS Presence, Threads, Groups, Rosters, SequenceTheorems, TLAPS

-----------------------------------------------------------------------------
(* Presence.                                                               *)

(* Map m follows the instants in last: an entry is there, with its TTL     *)
(* counted from the last sign of life, or that sign is too old to matter.  *)
Follows(m, last, ttl, Key) ==
    \A k \in Key :
        /\ last[k] = None => m[k] = None
        /\ last[k] # None =>
              \/ m[k] = last[k] + ttl
              \/ m[k] = None /\ last[k] + ttl <= now

PresenceInv ==
    /\ PresenceTypeOK
    /\ Follows(online, beat, OnlineTTL, Device)
    /\ Follows(typing, stroke, TypingTTL, Typist)

(* A sweep keeps types and drops only what is too old.                     *)
LEMMA PrunedEffect ==
    ASSUME now \in Nat, NEW Key, NEW m \in [Key -> Instant]
    PROVE  /\ Pruned(m) \in [Key -> Instant]
           /\ \A k \in Key : \/ Pruned(m)[k] = m[k]
                             \/ Pruned(m)[k] = None /\ (m[k] = None \/ m[k] <= now)
  BY PresenceTypes DEF Pruned, LiveAt, Instant

(* Heartbeats, keystrokes, sweeps and the clock keep the maps true.        *)
LEMMA PresenceStep ==
    ASSUME PresenceInv, [PresenceNext]_presence
    PROVE  PresenceInv'
  <1> USE PresenceTypes
  <1>0. PresenceTypeOK /\ now \in Nat
    BY DEF PresenceInv, PresenceTypeOK
  <1>1. ASSUME NEW d \in Device, Hello(d) \/ Disconnect(d)
        PROVE  PresenceInv'
    BY <1>0, <1>1 DEF Hello, Disconnect, PresenceInv, PresenceTypeOK, Follows
  <1>2. ASSUME NEW d \in Device, SetOnline(d)
        PROVE  PresenceInv'
    <2>1. /\ online' = [online EXCEPT ![d] = now + OnlineTTL]
          /\ beat' = [beat EXCEPT ![d] = now]
          /\ conn' = [conn EXCEPT ![d] = "open"]
          /\ UNCHANGED <<now, typing, stroke>>
      BY <1>2 DEF SetOnline, Put
    <2>2. QED
      BY <1>0, <2>1 DEF PresenceInv, PresenceTypeOK, Follows, Instant
  <1>3. ASSUME NEW k \in Typist, SetTyping(k)
        PROVE  PresenceInv'
    <2>1. /\ typing' = [typing EXCEPT ![k] = now + TypingTTL]
          /\ stroke' = [stroke EXCEPT ![k] = now]
          /\ UNCHANGED <<now, conn, online, beat>>
      BY <1>3 DEF SetTyping, Put
    <2>2. QED
      BY <1>0, <2>1 DEF PresenceInv, PresenceTypeOK, Follows, Instant
  <1>4. ASSUME NEW k \in Typist, ClearTyping(k)
        PROVE  PresenceInv'
    BY <1>0, <1>4 DEF ClearTyping, PresenceInv, PresenceTypeOK, Follows, Instant
  <1>5. CASE Sweep
    <2>1. /\ online' \in [Device -> Instant] /\ typing' \in [Typist -> Instant]
          /\ \A d \in Device : \/ online'[d] = online[d]
                               \/ online'[d] = None /\ (online[d] = None \/ online[d] <= now)
          /\ \A k \in Typist : \/ typing'[k] = typing[k]
                               \/ typing'[k] = None /\ (typing[k] = None \/ typing[k] <= now)
      BY <1>0, <1>5, PrunedEffect DEF Sweep, PresenceTypeOK
    <2>2. UNCHANGED <<now, conn, beat, stroke>>
      BY <1>5 DEF Sweep
    <2>3. Follows(online, beat, OnlineTTL, Device)'
      BY <2>1, <2>2 DEF PresenceInv, Follows
    <2>4. Follows(typing, stroke, TypingTTL, Typist)'
      BY <2>1, <2>2 DEF PresenceInv, Follows
    <2>5. QED
      BY <1>0, <2>1, <2>2, <2>3, <2>4 DEF PresenceInv, PresenceTypeOK
  <1>6. CASE Tick
    BY <1>0, <1>6 DEF Tick, PresenceInv, PresenceTypeOK, Follows, Instant
  <1>7. CASE UNCHANGED presence
    BY <1>0, <1>7 DEF presence, PresenceInv, PresenceTypeOK, Follows
  <1>8. QED
    BY <1>1, <1>2, <1>3, <1>4, <1>5, <1>6, <1>7 DEF PresenceNext

(* Nobody has been heard of at the start.                                  *)
LEMMA PresenceStart == PresenceInit => PresenceInv
  BY DEF PresenceInit, PresenceInv, PresenceTypeOK, Follows, Instant

(* The store says online, and typing, exactly of those heard of within     *)
(* the TTL: for any devices, any TTL and sweeps at any time.               *)
THEOREM PresenceIsTrue == PresenceSpec => []OnlineIffHeard
  <1>1. ASSUME PresenceInv
        PROVE  OnlineIffHeard
    <2>1. /\ now \in Nat /\ beat \in [Device -> Instant] /\ stroke \in [Typist -> Instant]
          /\ Follows(online, beat, OnlineTTL, Device)
          /\ Follows(typing, stroke, TypingTTL, Typist)
      BY <1>1 DEF PresenceInv, PresenceTypeOK
    <2>2. ASSUME NEW d \in Device
          PROVE  LiveAt(online, d) <=> beat[d] # None /\ now < beat[d] + OnlineTTL
      <3>1. CASE beat[d] = None
        BY <2>1, <3>1 DEF LiveAt, Follows
      <3>2. CASE beat[d] # None
        <4>1. beat[d] \in Nat /\ beat[d] + OnlineTTL \in Nat
          BY <2>1, <3>2, PresenceTypes DEF Instant
        <4>2. online[d] = beat[d] + OnlineTTL \/ (online[d] = None /\ beat[d] + OnlineTTL <= now)
          BY <2>1, <3>2 DEF Follows
        <4>3. QED
          BY <2>1, <3>2, <4>1, <4>2, PresenceTypes DEF LiveAt
      <3>3. QED
        BY <3>1, <3>2
    <2>3. ASSUME NEW k \in Typist
          PROVE  LiveAt(typing, k) <=> stroke[k] # None /\ now < stroke[k] + TypingTTL
      <3>1. CASE stroke[k] = None
        BY <2>1, <3>1 DEF LiveAt, Follows
      <3>2. CASE stroke[k] # None
        <4>1. stroke[k] \in Nat /\ stroke[k] + TypingTTL \in Nat
          BY <2>1, <3>2, PresenceTypes DEF Instant
        <4>2. typing[k] = stroke[k] + TypingTTL
              \/ (typing[k] = None /\ stroke[k] + TypingTTL <= now)
          BY <2>1, <3>2 DEF Follows
        <4>3. QED
          BY <2>1, <3>2, <4>1, <4>2, PresenceTypes DEF LiveAt
      <3>3. QED
        BY <3>1, <3>2
    <2>4. QED
      BY <2>2, <2>3 DEF OnlineIffHeard, IsOnline, WhoIsTyping
  <1>2. QED
    BY <1>1, PresenceStart, PresenceStep, PTL DEF PresenceSpec

-----------------------------------------------------------------------------
(* Threads.                                                                *)

(* Frames of texts that are shown where they went, made for the person     *)
(* they were written to.                                                   *)
Sent ==
    {e \in [id : Text, to : Chat \cup {NoChat}, for : Human] :
        shown[e.id] # NoChat /\ shown[e.id].peer = e.to /\ typed[e.id] = e.for}

(* The frames that may wait in a person's queue.                           *)
Queued(p) == {e \in Sent : e.to = p /\ e.id \in accepted}

(* The texts an Ack may name, and those a receipt may name.                *)
Acked == {t \in Text : t \in accepted /\ shown[t] # NoChat}
Arrived ==
    {t \in Acked : /\ typed[t] \in Human
                   /\ shown[t].peer = typed[t]
                   /\ t \in got[typed[t]]}

(* Types, with what each queue may hold.                                   *)
ThreadsTypeOK ==
    /\ active \in Chat \cup {NoChat}
    /\ draft \in [Text -> Human \cup {NoChat}]
    /\ shown \in [Text -> Entry \cup {NoChat}]
    /\ link \in {"closed", "connecting", "open"}
    /\ up \in Seq(Sent)
    /\ down \in Seq(Acked)
    /\ DOMAIN inbox = Human
    /\ \A p \in Human : inbox[p] \in Seq(Queued(p))
    /\ receipts \in Seq(Arrived)
    /\ typed \in [Text -> Human \cup {NoChat}]
    /\ accepted \subseteq Text
    /\ got \in [Human -> SUBSET Text]

(* A text is encrypted once, before it is in a thread; its mark is backed  *)
(* by what the server and the recipient have.                              *)
MarksBacked ==
    \A t \in Text :
        /\ draft[t] # NoChat => draft[t] = typed[t] /\ shown[t] = NoChat
        /\ shown[t] # NoChat =>
             /\ typed[t] # NoChat
             /\ shown[t].status # "pending" => t \in Acked
             /\ shown[t].status = "delivered" => t \in Arrived

ThreadsInv == ThreadsTypeOK /\ MarksBacked

(* More may be said of every text after a step than before it.             *)
Grows == Sent \subseteq Sent' /\ Acked \subseteq Acked' /\ Arrived \subseteq Arrived'

(* What is shown stays where it is, what was accepted or received stays.   *)
LEMMA FactsGrow ==
    ASSUME ThreadsInv,
           \A t \in Text : shown[t] # NoChat =>
               shown'[t] # NoChat /\ shown'[t].peer = shown[t].peer,
           \A t \in Text : typed[t] # NoChat => typed'[t] = typed[t],
           accepted \subseteq accepted',
           \A p \in Human : got[p] \subseteq got'[p]
    PROVE  Grows /\ \A p \in Human : Queued(p) \subseteq Queued(p)'
  <1>1. \A e \in Sent : e.id \in Text /\ typed[e.id] # NoChat
    BY ChatTypes DEF Sent, Human
  <1>2. Sent \subseteq Sent'
    BY <1>1 DEF Sent
  <1>3. Acked \subseteq Acked'
    BY DEF Acked
  <1>4. Arrived \subseteq Arrived'
    <2>1. \A t \in Arrived : t \in Text /\ typed[t] # NoChat /\ shown[t] # NoChat
      BY ChatTypes DEF Arrived, Acked, Human
    <2>2. QED
      BY <1>3, <2>1 DEF Arrived
  <1>5. \A p \in Human : Queued(p) \subseteq Queued(p)'
    BY <1>2 DEF Queued
  <1>6. QED
    BY <1>2, <1>3, <1>4, <1>5 DEF Grows

(* A queue of facts that hold stays one.                                   *)
LEMMA SeqGrows ==
    ASSUME NEW S, NEW T, S \subseteq T, NEW q \in Seq(S)
    PROVE  q \in Seq(T)
  OBVIOUS

(* What the ends of a queue hold.                                          *)
LEMMA QueueEnds ==
    ASSUME NEW S, NEW q \in Seq(S)
    PROVE  /\ q # <<>> => Tail(q) \in Seq(S) /\ Head(q) \in S
           /\ \A x \in S : Append(q, x) \in Seq(S)
  OBVIOUS

(* markStatus raises one mark and moves nothing.                           *)
LEMMA MarkStatusEffect ==
    ASSUME ThreadsInv, NEW t \in Text, NEW status \in {"sent", "delivered"}
    PROVE  /\ MarkStatus(t, status) \in [Text -> Entry \cup {NoChat}]
           /\ \A s \in Text :
                /\ MarkStatus(t, status)[s] = NoChat <=> shown[s] = NoChat
                /\ shown[s] # NoChat =>
                     /\ MarkStatus(t, status)[s].peer = shown[s].peer
                     /\ \/ MarkStatus(t, status)[s].status = shown[s].status
                        \/ s = t /\ MarkStatus(t, status)[s].status = status
  <1>0. shown \in [Text -> Entry \cup {NoChat}]
    BY DEF ThreadsInv, ThreadsTypeOK
  <1>1. CASE shown[t] = NoChat
    <2>1. MarkStatus(t, status) = shown
      BY <1>0, <1>1 DEF MarkStatus
    <2>2. QED
      BY <1>0, <2>1
  <1>2. CASE shown[t] # NoChat
    <2> DEFINE e == [shown[t] EXCEPT !.status = status]
    <2>1. shown[t] \in Entry
      BY <1>0, <1>2
    <2>2. e \in Entry /\ e.peer = shown[t].peer /\ e.status = status /\ e # NoChat
      BY <2>1, ChatTypes DEF Entry
    <2>3. MarkStatus(t, status) = shown \/ MarkStatus(t, status) = [shown EXCEPT ![t] = e]
      BY <1>0, <1>2 DEF MarkStatus
    <2> HIDE DEF e
    <2>4. QED
      BY <1>0, <1>2, <2>2, <2>3
  <1>3. QED
    BY <1>1, <1>2

(* The queues there are may be kept, shortened or emptied.                 *)
LEMMA QueuesCarry ==
    ASSUME ThreadsInv, Grows, \A p \in Human : Queued(p) \subseteq Queued(p)'
    PROVE  /\ up \in Seq(Sent') /\ down \in Seq(Acked') /\ receipts \in Seq(Arrived')
           /\ \A p \in Human : inbox[p] \in Seq(Queued(p)')
           /\ <<>> \in Seq(Sent') /\ <<>> \in Seq(Acked')
  <1>1. /\ up \in Seq(Sent) /\ down \in Seq(Acked) /\ receipts \in Seq(Arrived)
        /\ \A p \in Human : inbox[p] \in Seq(Queued(p))
    BY DEF ThreadsInv, ThreadsTypeOK
  <1>2. Sent \subseteq Sent' /\ Acked \subseteq Acked' /\ Arrived \subseteq Arrived'
    BY DEF Grows
  <1>3. up \in Seq(Sent')
    BY <1>1, <1>2, SeqGrows
  <1>4. down \in Seq(Acked')
    BY <1>1, <1>2, SeqGrows
  <1>5. receipts \in Seq(Arrived')
    BY <1>1, <1>2, SeqGrows
  <1>6. ASSUME NEW p \in Human
        PROVE  inbox[p] \in Seq(Queued(p)')
    <2>1. inbox[p] \in Seq(Queued(p)) /\ Queued(p) \subseteq Queued(p)'
      BY <1>1, <1>6
    <2>2. QED
      BY <2>1, SeqGrows
  <1>7. QED
    BY <1>3, <1>4, <1>5, <1>6

(* A step that leaves threads, drafts and facts alone.                     *)
LEMMA ThreadsSame ==
    ASSUME ThreadsInv, UNCHANGED <<shown, typed, accepted, got, inbox, receipts>>,
           active' \in Chat \cup {NoChat}, link' \in {"closed", "connecting", "open"},
           draft' \in [Text -> Human \cup {NoChat}],
           \A t \in Text : draft'[t] # NoChat => draft'[t] = draft[t],
           up' = up \/ up' = <<>> \/ (up # <<>> /\ up' = Tail(up)),
           down' = down \/ down' = <<>>
    PROVE  ThreadsInv'
  <1>1. Grows /\ \A p \in Human : Queued(p) \subseteq Queued(p)'
    BY FactsGrow
  <1>2. /\ up \in Seq(Sent') /\ down \in Seq(Acked') /\ receipts \in Seq(Arrived')
        /\ \A p \in Human : inbox[p] \in Seq(Queued(p)')
        /\ <<>> \in Seq(Sent') /\ <<>> \in Seq(Acked')
    BY <1>1, QueuesCarry
  <1>3. up' \in Seq(Sent')
    BY <1>2, QueueEnds
  <1>4. down' \in Seq(Acked')
    BY <1>2
  <1>5. ThreadsTypeOK'
    BY <1>2, <1>3, <1>4 DEF ThreadsInv, ThreadsTypeOK
  <1>6. MarksBacked'
    BY <1>1 DEF ThreadsInv, MarksBacked, Grows
  <1>7. QED
    BY <1>5, <1>6 DEF ThreadsInv

(* The user, the gateway, the recipients and the socket keep the marks     *)
(* backed.                                                                 *)
LEMMA ThreadsStep ==
    ASSUME ThreadsInv, [ThreadsNext]_threads
    PROVE  ThreadsInv'
  <1> USE ChatTypes
  <1>0. ThreadsTypeOK /\ MarksBacked
    BY DEF ThreadsInv
  <1>1. ASSUME \/ \E p \in Chat : SelectPeer(p)
               \/ TeardownOpen \/ Refuse \/ Connect \/ OnOpen \/ ReloadPage
               \/ \E t \in Text : EncryptThrows(t)
               \/ UNCHANGED threads
        PROVE  ThreadsInv'
    <2>1. /\ UNCHANGED <<shown, typed, accepted, got, inbox, receipts>>
          /\ active' \in Chat \cup {NoChat} /\ link' \in {"closed", "connecting", "open"}
          /\ draft' \in [Text -> Human \cup {NoChat}]
          /\ \A t \in Text : draft'[t] # NoChat => draft'[t] = draft[t]
          /\ up' = up \/ up' = <<>> \/ (up # <<>> /\ up' = Tail(up))
          /\ down' = down \/ down' = <<>>
      BY <1>0, <1>1 DEF SelectPeer, TeardownOpen, Refuse, Connect, OnOpen, ReloadPage,
                        EncryptThrows, threads, ThreadsTypeOK
    <2>2. QED
      BY <2>1, ThreadsSame
  <1>2. ASSUME NEW n \in 0 .. Len(receipts), OnClose(n)
        PROVE  ThreadsInv'
    <2>1. Grows /\ \A p \in Human : Queued(p) \subseteq Queued(p)'
      BY <1>2, FactsGrow DEF OnClose
    <2>2. /\ receipts \in Seq(Arrived') /\ \A p \in Human : inbox[p] \in Seq(Queued(p)')
          /\ <<>> \in Seq(Sent') /\ <<>> \in Seq(Acked')
      BY <2>1, QueuesCarry
    <2>3. SubSeq(receipts, n + 1, Len(receipts)) \in Seq(Arrived')
      BY <2>2
    <2>4. ThreadsTypeOK'
      BY <1>0, <1>2, <2>2, <2>3 DEF OnClose, ThreadsTypeOK
    <2>5. MarksBacked'
      BY <1>0, <1>2, <2>1 DEF OnClose, MarksBacked, Grows
    <2>6. QED
      BY <2>4, <2>5 DEF ThreadsInv
  <1>3. ASSUME NEW t \in Text, Write(t)
        PROVE  ThreadsInv'
    <2>1. /\ typed[t] = NoChat /\ active \in Human /\ active # NoChat
          /\ draft'[t] = active /\ typed'[t] = active
          /\ \A s \in Text \ {t} : draft'[s] = draft[s] /\ typed'[s] = typed[s]
          /\ UNCHANGED <<active, shown, link, up, down, inbox, receipts, accepted, got>>
      BY <1>0, <1>3 DEF Write, ThreadsTypeOK, Human
    <2>2. Grows /\ \A p \in Human : Queued(p) \subseteq Queued(p)'
      BY <2>1, FactsGrow
    <2>3. /\ up \in Seq(Sent') /\ down \in Seq(Acked') /\ receipts \in Seq(Arrived')
          /\ \A p \in Human : inbox[p] \in Seq(Queued(p)')
      BY <2>2, QueuesCarry
    <2>4. draft' \in [Text -> Human \cup {NoChat}] /\ typed' \in [Text -> Human \cup {NoChat}]
      BY <1>0, <1>3 DEF Write, ThreadsTypeOK
    <2>5. ThreadsTypeOK'
      BY <1>0, <2>1, <2>3, <2>4 DEF ThreadsTypeOK
    <2>6. MarksBacked'
      BY <1>0, <2>1, <2>2 DEF MarksBacked, Grows
    <2>7. QED
      BY <2>5, <2>6 DEF ThreadsInv
  <1>4. ASSUME NEW t \in Text, SendMessage(t)
        PROVE  ThreadsInv'
    <2> DEFINE e == [id |-> t, to |-> active, for |-> draft[t]]
    <2> DEFINE h == [peer |-> active, status |-> "pending"]
    <2>1. draft[t] # NoChat /\ draft[t] \in Human /\ typed[t] = draft[t] /\ shown[t] = NoChat
      BY <1>0, <1>4 DEF SendMessage, ThreadsTypeOK, MarksBacked
    <2>2. h \in Entry /\ h # NoChat /\ h.peer = active /\ h.status = "pending"
      BY <1>0 DEF Entry, ThreadsTypeOK
    <2>3. /\ draft' = [draft EXCEPT ![t] = NoChat]
          /\ up' = IF link = "open" THEN Append(up, e) ELSE up
          /\ shown' = IF link = "connecting" THEN shown ELSE [shown EXCEPT ![t] = h]
          /\ UNCHANGED <<active, link, down, inbox, receipts, typed, accepted, got>>
      BY <1>4 DEF SendMessage
    <2> HIDE DEF h
    <2>4. /\ \A s \in Text \ {t} : shown'[s] = shown[s] /\ draft'[s] = draft[s]
          /\ shown'[t] = (IF link = "connecting" THEN NoChat ELSE h) /\ draft'[t] = NoChat
      BY <1>0, <2>1, <2>3 DEF ThreadsTypeOK
    <2>5. Grows /\ \A p \in Human : Queued(p) \subseteq Queued(p)'
      BY <2>1, <2>3, <2>4, FactsGrow
    <2>6. /\ up \in Seq(Sent') /\ down \in Seq(Acked') /\ receipts \in Seq(Arrived')
          /\ \A p \in Human : inbox[p] \in Seq(Queued(p)')
      BY <2>5, QueuesCarry
    <2>7. link = "open" => e \in Sent'
      BY <1>0, <2>1, <2>2, <2>3, <2>4 DEF Sent, ThreadsTypeOK
    <2> HIDE DEF e
    <2>8. up' \in Seq(Sent')
      BY <2>3, <2>6, <2>7
    <2>9. draft' \in [Text -> Human \cup {NoChat}] /\ shown' \in [Text -> Entry \cup {NoChat}]
      BY <1>0, <2>2, <2>3 DEF ThreadsTypeOK
    <2>10. ThreadsTypeOK'
      BY <1>0, <2>3, <2>6, <2>8, <2>9 DEF ThreadsTypeOK
    <2>11. MarksBacked'
      BY <1>0, <2>1, <2>2, <2>3, <2>4, <2>5 DEF MarksBacked, Grows
    <2>12. QED
      BY <2>10, <2>11 DEF ThreadsInv
  <1>5. CASE Accept
    <2>0. PICK e : e = Head(up)
      OBVIOUS
    <2>1. up # <<>> /\ e \in Sent /\ e.to \in Human /\ e.id \in Text /\ shown[e.id] # NoChat
      <3>1. up # <<>> /\ e \in Sent /\ e.to \in Human
        BY <1>0, <1>5, <2>0, QueueEnds DEF Accept, ThreadsTypeOK
      <3>2. QED
        BY <3>1 DEF Sent
    <2>2. /\ inbox' = [inbox EXCEPT ![e.to] = Append(inbox[e.to], e)]
          /\ down' = Append(down, e.id) /\ accepted' = accepted \cup {e.id} /\ up' = Tail(up)
          /\ UNCHANGED <<active, draft, shown, link, receipts, typed, got>>
      BY <1>5, <2>0 DEF Accept
    <2>3. Grows /\ \A p \in Human : Queued(p) \subseteq Queued(p)'
      BY <2>2, FactsGrow
    <2>4. /\ up \in Seq(Sent') /\ down \in Seq(Acked') /\ receipts \in Seq(Arrived')
          /\ \A p \in Human : inbox[p] \in Seq(Queued(p)')
      BY <2>3, QueuesCarry
    <2>5. e \in Queued(e.to)' /\ e.id \in Acked'
      BY <2>1, <2>2, <2>3 DEF Queued, Acked, Grows
    <2>6. up' \in Seq(Sent')
      BY <2>1, <2>2, <2>4, QueueEnds
    <2>7. down' \in Seq(Acked')
      BY <2>2, <2>4, <2>5
    <2>8. DOMAIN inbox' = Human /\ \A p \in Human : inbox'[p] \in Seq(Queued(p)')
      <3>1. DOMAIN inbox = Human
        BY <1>0 DEF ThreadsTypeOK
      <3>2. DOMAIN inbox' = Human
        BY <2>2, <3>1
      <3>3. \A p \in Human : inbox'[p] = IF p = e.to THEN Append(inbox[p], e) ELSE inbox[p]
        BY <2>2, <3>1
      <3>4. ASSUME NEW p \in Human, p = e.to
            PROVE  inbox'[p] \in Seq(Queued(p)')
        <4>1. inbox'[p] = Append(inbox[p], e) /\ inbox[p] \in Seq(Queued(p)') /\ e \in Queued(p)'
          BY <2>4, <2>5, <3>3, <3>4
        <4>2. QED
          BY <4>1, QueueEnds
      <3>5. QED
        BY <2>4, <3>2, <3>3, <3>4
    <2>9. ThreadsTypeOK'
      BY <1>0, <2>1, <2>2, <2>4, <2>6, <2>7, <2>8 DEF ThreadsTypeOK
    <2>10. MarksBacked'
      BY <1>0, <2>2, <2>3 DEF MarksBacked, Grows
    <2>11. QED
      BY <2>9, <2>10 DEF ThreadsInv
  <1>6. CASE OnAck
    <2> DEFINE t == Head(down)
    <2>1. down # <<>> /\ t \in Acked /\ t \in Text
      BY <1>0, <1>6 DEF OnAck, ThreadsTypeOK, Acked
    <2>2. /\ shown' = MarkStatus(t, "sent") /\ down' = Tail(down)
          /\ UNCHANGED <<active, draft, link, up, inbox, receipts, typed, accepted, got>>
      BY <1>6 DEF OnAck
    <2> HIDE DEF t
    <2>3. /\ shown' \in [Text -> Entry \cup {NoChat}]
          /\ \A s \in Text :
               /\ shown'[s] = NoChat <=> shown[s] = NoChat
               /\ shown[s] # NoChat =>
                    /\ shown'[s].peer = shown[s].peer
                    /\ \/ shown'[s].status = shown[s].status
                       \/ s = t /\ shown'[s].status = "sent"
      BY <2>1, <2>2, MarkStatusEffect
    <2>4. Grows /\ \A p \in Human : Queued(p) \subseteq Queued(p)'
      BY <2>2, <2>3, FactsGrow
    <2>5. /\ up \in Seq(Sent') /\ down \in Seq(Acked') /\ receipts \in Seq(Arrived')
          /\ \A p \in Human : inbox[p] \in Seq(Queued(p)')
      BY <2>4, QueuesCarry
    <2>6. down' \in Seq(Acked')
      BY <2>1, <2>2, <2>5
    <2>7. ThreadsTypeOK'
      BY <1>0, <2>2, <2>3, <2>5, <2>6 DEF ThreadsTypeOK
    <2>8. MarksBacked'
      BY <1>0, <2>1, <2>2, <2>3, <2>4 DEF MarksBacked, Grows
    <2>9. QED
      BY <2>7, <2>8 DEF ThreadsInv
  <1>7. CASE OnReceipt
    <2> DEFINE t == Head(receipts)
    <2>1. receipts # <<>> /\ t \in Arrived /\ t \in Acked /\ t \in Text
      BY <1>0, <1>7 DEF OnReceipt, ThreadsTypeOK, Arrived, Acked
    <2>2. /\ shown' = MarkStatus(t, "delivered") /\ receipts' = Tail(receipts)
          /\ UNCHANGED <<active, draft, link, up, down, inbox, typed, accepted, got>>
      BY <1>7 DEF OnReceipt
    <2> HIDE DEF t
    <2>3. /\ shown' \in [Text -> Entry \cup {NoChat}]
          /\ \A s \in Text :
               /\ shown'[s] = NoChat <=> shown[s] = NoChat
               /\ shown[s] # NoChat =>
                    /\ shown'[s].peer = shown[s].peer
                    /\ \/ shown'[s].status = shown[s].status
                       \/ s = t /\ shown'[s].status = "delivered"
      BY <2>1, <2>2, MarkStatusEffect
    <2>4. Grows /\ \A p \in Human : Queued(p) \subseteq Queued(p)'
      BY <2>2, <2>3, FactsGrow
    <2>5. /\ up \in Seq(Sent') /\ down \in Seq(Acked') /\ receipts \in Seq(Arrived')
          /\ \A p \in Human : inbox[p] \in Seq(Queued(p)')
      BY <2>4, QueuesCarry
    <2>6. receipts' \in Seq(Arrived')
      BY <2>1, <2>2, <2>5
    <2>7. ThreadsTypeOK'
      BY <1>0, <2>2, <2>3, <2>5, <2>6 DEF ThreadsTypeOK
    <2>8. MarksBacked'
      BY <1>0, <2>1, <2>2, <2>3, <2>4 DEF MarksBacked, Grows
    <2>9. QED
      BY <2>7, <2>8 DEF ThreadsInv
  <1>8. ASSUME NEW p \in Human, NEW read \in BOOLEAN, NEW sends \in BOOLEAN,
               OnIncoming(p, read, sends)
        PROVE  ThreadsInv'
    <2>0. PICK e : e = Head(inbox[p])
      OBVIOUS
    <2>1. /\ inbox[p] # <<>> /\ e \in Queued(p) /\ e \in Sent /\ e.id \in Text
          /\ e.to = p /\ e.id \in accepted
      <3>1. inbox[p] # <<>> /\ inbox[p] \in Seq(Queued(p))
        BY <1>0, <1>8 DEF OnIncoming, ThreadsTypeOK
      <3>2. e \in Queued(p)
        BY <2>0, <3>1, QueueEnds
      <3>3. QED
        BY <3>1, <3>2 DEF Queued, Sent
    <2>2. /\ read => e.for = p
          /\ got' = IF read THEN [got EXCEPT ![p] = @ \cup {e.id}] ELSE got
          /\ receipts' = receipts \o Receipt(p, e, read, sends)
          /\ inbox' = [inbox EXCEPT ![p] = Tail(inbox[p])]
          /\ UNCHANGED <<active, draft, shown, link, up, down, typed, accepted>>
      BY <1>8, <2>0 DEF OnIncoming
    <2>3. /\ got' \in [Human -> SUBSET Text] /\ \A q \in Human : got[q] \subseteq got'[q]
          /\ read => e.id \in got'[p]
      BY <1>0, <2>1, <2>2 DEF ThreadsTypeOK
    <2>4. Grows /\ \A q \in Human : Queued(q) \subseteq Queued(q)'
      BY <2>2, <2>3, FactsGrow
    <2>5. /\ up \in Seq(Sent') /\ down \in Seq(Acked') /\ receipts \in Seq(Arrived')
          /\ \A q \in Human : inbox[q] \in Seq(Queued(q)')
      BY <2>4, QueuesCarry
    <2>6. ASSUME read
          PROVE  e.id \in Arrived'
      <3>1. e.for = p /\ e.id \in got'[p]
        BY <2>2, <2>3, <2>6
      <3>2. shown[e.id] # NoChat /\ shown[e.id].peer = p /\ typed[e.id] = p
        BY <2>1, <3>1 DEF Sent
      <3>3. e.id \in Acked'
        BY <2>1, <2>2, <3>2 DEF Acked
      <3>4. QED
        BY <2>2, <3>1, <3>2, <3>3 DEF Arrived
    <2>7. DOMAIN inbox' = Human /\ \A q \in Human : inbox'[q] \in Seq(Queued(q)')
      <3>1. DOMAIN inbox = Human
        BY <1>0 DEF ThreadsTypeOK
      <3>2. DOMAIN inbox' = Human
        BY <2>2, <3>1
      <3>3. \A q \in Human : inbox'[q] = IF q = p THEN Tail(inbox[p]) ELSE inbox[q]
        BY <2>2, <3>1
      <3>4. inbox'[p] \in Seq(Queued(p)')
        <4>1. inbox'[p] = Tail(inbox[p]) /\ inbox[p] \in Seq(Queued(p)') /\ inbox[p] # <<>>
          BY <2>1, <2>5, <3>3
        <4>2. QED
          BY <4>1, QueueEnds
      <3>5. QED
        BY <2>5, <3>2, <3>3, <3>4
    <2>8. receipts' \in Seq(Arrived')
      <3>1. Receipt(p, e, read, sends) \in Seq(Arrived')
        BY <2>6 DEF Receipt
      <3>2. QED
        BY <2>2, <2>5, <3>1
    <2>9. ThreadsTypeOK'
      BY <1>0, <2>2, <2>3, <2>5, <2>7, <2>8 DEF ThreadsTypeOK
    <2>10. MarksBacked'
      BY <1>0, <2>2, <2>4 DEF MarksBacked, Grows
    <2>11. QED
      BY <2>9, <2>10 DEF ThreadsInv
  <1>9. QED
    BY <1>1, <1>2, <1>3, <1>4, <1>5, <1>6, <1>7, <1>8 DEF ThreadsNext

(* Nothing is written or shown at the start.                               *)
LEMMA ThreadsStart == ThreadsInit => ThreadsInv
  <1> SUFFICES ASSUME ThreadsInit PROVE ThreadsInv
    OBVIOUS
  <1>1. \A p \in Human : inbox[p] = <<>>
    BY DEF ThreadsInit
  <1>2. ThreadsTypeOK
    BY <1>1 DEF ThreadsInit, ThreadsTypeOK
  <1>3. MarksBacked
    BY DEF ThreadsInit, MarksBacked
  <1>4. QED
    BY <1>2, <1>3 DEF ThreadsInv

(* A mark never says more than what happened, for any texts, chats and     *)
(* connections, however Acks and receipts cross, are lost or outlive the   *)
(* socket and the page they were meant for.                                *)
THEOREM MarksTellTheTruth == ThreadsSpec => []MarksAreTrue
  <1>1. ASSUME ThreadsInv
        PROVE  MarksAreTrue
    BY <1>1 DEF ThreadsInv, MarksBacked, MarksAreTrue, Acked, Arrived
  <1>2. QED
    BY <1>1, ThreadsStart, ThreadsStep, PTL DEF ThreadsSpec

-----------------------------------------------------------------------------
(* Groups: the epoch secret fixes the members.  The chain of changes a     *)
(* secret was derived from says who is in the group: whoever was added, or *)
(* created it, and was not removed since.  That this is the members' set   *)
(* is kept by every change of a copy, and a copy is never changed          *)
(* otherwise: the store and the snapshot only move whole copies.           *)

(* In, by the chain, and not out since.                                    *)
Stays(chain, m, i) ==
    /\ chain[i].device = m
    /\ chain[i].kind # "remove"
    /\ \A j \in DOMAIN chain :
          j > i => ~(chain[j].kind = "remove" /\ chain[j].device = m)

LastIn(chain) == {m \in Member : \E i \in DOMAIN chain : Stays(chain, m, i)}

Sound(g) ==
    /\ g \in Group
    /\ g.secret.id = g.id
    /\ Len(g.secret.chain) = g.epoch + 1
    /\ g.members # {}
    /\ g.members = LastIn(g.secret.chain)

SoundIn(m) == \A g \in GroupId :
    m[g] # NoGroup /\ m[g].state # NoGroup => Sound(m[g].state)

GroupsInv ==
    /\ GroupsTypeOK
    /\ \A h \in Holder : copy[h] # NoGroup => Sound(copy[h])
    /\ SoundIn(stored)
    /\ SoundIn(snapshot)

-----------------------------------------------------------------------------
(* Appending a change that lets d in adds d to the members.                *)
LEMMA LastInAdded ==
    ASSUME NEW c \in Seq(Change), NEW e \in Change, e.kind # "remove"
    PROVE  LastIn(Append(c, e)) = LastIn(c) \cup {e.device}
<1> DEFINE a == Append(c, e)
<1>1. /\ a \in Seq(Change) /\ Len(a) = Len(c) + 1 /\ Len(c) \in Nat
      /\ DOMAIN a = 1 .. Len(c) + 1 /\ DOMAIN c = 1 .. Len(c)
      /\ a[Len(c) + 1] = e
      /\ \A i \in 1 .. Len(c) : a[i] = c[i]
  OBVIOUS
<1> HIDE DEF a
<1>2. ASSUME NEW m \in Member, NEW i \in DOMAIN c
      PROVE  Stays(a, m, i) <=> Stays(c, m, i)
  <2>1. a[i] = c[i]
    BY <1>1
  <2>2. (\A j \in DOMAIN a : j > i => ~(a[j].kind = "remove" /\ a[j].device = m))
        <=> (\A j \in DOMAIN c : j > i => ~(c[j].kind = "remove" /\ c[j].device = m))
    BY <1>1
  <2> QED BY <2>1, <2>2 DEF Stays
<1>3. ASSUME NEW m \in Member
      PROVE  Stays(a, m, Len(c) + 1) <=> m = e.device
  BY <1>1 DEF Stays
<1>4. e.device \in Member
  BY DEF Change
<1>5. ASSUME NEW m \in Member
      PROVE  m \in LastIn(a) <=> m \in LastIn(c) \/ m = e.device
  <2>1. m \in LastIn(a) <=> \E i \in DOMAIN a : Stays(a, m, i)
    BY DEF LastIn
  <2>2. m \in LastIn(c) <=> \E i \in DOMAIN c : Stays(c, m, i)
    BY DEF LastIn
  <2>3. DOMAIN a = DOMAIN c \cup {Len(c) + 1}
    BY <1>1
  <2> QED BY <1>2, <1>3, <2>1, <2>2, <2>3
<1> QED BY <1>4, <1>5 DEF LastIn, a

(* Appending a removal takes its device out.                               *)
LEMMA LastInRemoved ==
    ASSUME NEW c \in Seq(Change), NEW e \in Change, e.kind = "remove"
    PROVE  LastIn(Append(c, e)) = LastIn(c) \ {e.device}
<1> DEFINE a == Append(c, e)
<1>1. /\ a \in Seq(Change) /\ Len(a) = Len(c) + 1 /\ Len(c) \in Nat
      /\ DOMAIN a = 1 .. Len(c) + 1 /\ DOMAIN c = 1 .. Len(c)
      /\ a[Len(c) + 1] = e
      /\ \A i \in 1 .. Len(c) : a[i] = c[i]
  OBVIOUS
<1> HIDE DEF a
<1>2. ASSUME NEW m \in Member, NEW i \in DOMAIN c
      PROVE  Stays(a, m, i) <=> Stays(c, m, i) /\ m # e.device
  <2>1. a[i] = c[i]
    BY <1>1
  <2>2. (\A j \in DOMAIN a : j > i => ~(a[j].kind = "remove" /\ a[j].device = m))
        <=> /\ \A j \in DOMAIN c : j > i => ~(c[j].kind = "remove" /\ c[j].device = m)
            /\ m # e.device
    BY <1>1
  <2> QED BY <2>1, <2>2 DEF Stays
<1>3. ASSUME NEW m \in Member
      PROVE  ~Stays(a, m, Len(c) + 1)
  BY <1>1 DEF Stays
<1>4. ASSUME NEW m \in Member
      PROVE  m \in LastIn(a) <=> m \in LastIn(c) /\ m # e.device
  <2>1. m \in LastIn(a) <=> \E i \in DOMAIN a : Stays(a, m, i)
    BY DEF LastIn
  <2>2. m \in LastIn(c) <=> \E i \in DOMAIN c : Stays(c, m, i)
    BY DEF LastIn
  <2>3. DOMAIN a = DOMAIN c \cup {Len(c) + 1}
    BY <1>1
  <2> QED BY <1>2, <1>3, <2>1, <2>2, <2>3
<1> QED BY <1>4 DEF LastIn, a

-----------------------------------------------------------------------------
(* What a derivation does to a secret.                                     *)
LEMMA Derived ==
    ASSUME NEW s \in Secret, NEW kind \in {"create", "add", "remove"},
           NEW n \in Nat, NEW d \in Member
    PROVE  /\ Derive(s, kind, n, d) \in Secret
           /\ Derive(s, kind, n, d).id = s.id
           /\ Derive(s, kind, n, d).chain =
                Append(s.chain, [kind |-> kind, epoch |-> n, device |-> d])
           /\ [kind |-> kind, epoch |-> n, device |-> d] \in Change
<1>1. [kind |-> kind, epoch |-> n, device |-> d] \in Change
  BY DEF Change
<1>2. s.chain \in Seq(Change)
  BY DEF Secret
<1>3. Append(s.chain, [kind |-> kind, epoch |-> n, device |-> d]) \in Seq(Change)
  BY <1>1, <1>2
<1> QED BY <1>1, <1>3 DEF Derive, Secret

(* create_group makes a sound group.                                       *)
LEMMA CreatedSound ==
    ASSUME NEW g \in GroupId, NEW d \in Member
    PROVE  Sound(CreateGroup(g, d))
<1> DEFINE s == [id |-> g, creator |-> d, chain |-> <<>>]
           t == Derive(s, "create", 0, d)
           e == [kind |-> "create", epoch |-> 0, device |-> d]
           x == CreateGroup(g, d)
<1>1. s \in Secret /\ s.chain = <<>> /\ s.id = g
  BY DEF Secret
<1>2. t \in Secret /\ t.id = g /\ t.chain = Append(<<>>, e) /\ e \in Change
  BY <1>1, Derived
<1>3. <<>> \in Seq(Change) /\ LastIn(<<>>) = {}
  BY DEF LastIn
<1>4. e.kind # "remove" /\ e.device = d
  OBVIOUS
<1>5. LastIn(t.chain) = {d} /\ Len(t.chain) = 1
  <2> HIDE DEF e, t
  <2>1. LastIn(Append(<<>>, e)) = LastIn(<<>>) \cup {e.device}
    BY <1>2, <1>3, <1>4, LastInAdded
  <2> QED BY <1>2, <1>3, <1>4, <2>1
<1>6. /\ x = [id |-> g, epoch |-> 0, members |-> {d}, secret |-> t]
  BY DEF CreateGroup
<1> HIDE DEF t, x
<1>7. x.id = g /\ x.epoch = 0 /\ x.members = {d} /\ x.secret = t /\ x \in Group
  BY <1>2, <1>6 DEF Group
<1> QED BY <1>2, <1>5, <1>7 DEF Sound, x

(* advance, after a change of the members that agrees with the chain's.    *)
LEMMA AdvancedSound ==
    ASSUME NEW g, Sound(g), NEW kind \in {"add", "remove"}, NEW d \in Member,
           NEW ms \in SUBSET Member, ms # {},
           ms = IF kind = "add" THEN g.members \cup {d} ELSE g.members \ {d}
    PROVE  Sound(Advance([g EXCEPT !.members = ms], kind, d))
<1> DEFINE t == Derive(g.secret, kind, g.epoch + 1, d)
           e == [kind |-> kind, epoch |-> g.epoch + 1, device |-> d]
           x == Advance([g EXCEPT !.members = ms], kind, d)
<1>1. g \in Group /\ g.secret \in Secret /\ g.epoch \in Nat /\ g.id \in GroupId
      /\ g.secret.chain \in Seq(Change)
  BY DEF Sound, Group, Secret
<1>2. t \in Secret /\ t.id = g.secret.id /\ t.chain = Append(g.secret.chain, e)
      /\ e \in Change
  <2>1. g.secret \in Secret /\ g.epoch + 1 \in Nat
    BY <1>1
  <2>2. kind \in {"create", "add", "remove"}
    OBVIOUS
  <2> HIDE DEF Sound, x
  <2>3. PICK s \in Secret : s = g.secret
    BY <2>1
  <2>4. PICK n \in Nat : n = g.epoch + 1
    BY <2>1
  <2>5. /\ Derive(s, kind, n, d) \in Secret
        /\ Derive(s, kind, n, d).id = s.id
        /\ Derive(s, kind, n, d).chain =
             Append(s.chain, [kind |-> kind, epoch |-> n, device |-> d])
        /\ [kind |-> kind, epoch |-> n, device |-> d] \in Change
    <3> HIDE DEF t, e
    <3> QED BY <2>2, Derived
  <2> QED BY <2>3, <2>4, <2>5, Zenon
<1>3. e.kind = kind /\ e.device = d
  OBVIOUS
<1>4. x = [id |-> g.id, epoch |-> g.epoch + 1, members |-> ms, secret |-> t]
  <2> DEFINE y == [g EXCEPT !.members = ms]
  <2>1. y = [id |-> g.id, epoch |-> g.epoch, members |-> ms, secret |-> g.secret]
    <3> HIDE DEF t, e, x
    <3>1. g = [id |-> g.id, epoch |-> g.epoch, members |-> g.members,
               secret |-> g.secret]
      <4>1. g \in [id : GroupId, epoch : Nat, members : SUBSET Member,
                   secret : Secret]
        BY <1>1 DEF Group
      <4> QED BY <4>1
    <3> QED BY <3>1
  <2> HIDE DEF y
  <2>2. y.secret = g.secret /\ y.epoch = g.epoch
    BY <2>1
  <2>3. Advance(y, kind, d) = [y EXCEPT !.secret = t, !.epoch = g.epoch + 1]
    BY <2>2 DEF Advance
  <2> HIDE DEF t
  <2>4. Advance(y, kind, d) =
          [id |-> g.id, epoch |-> g.epoch + 1, members |-> ms, secret |-> t]
    BY <2>1, <2>3
  <2> QED BY <2>4 DEF y
<1> HIDE DEF t, e, x
<1>5. /\ x.id = g.id /\ x.epoch = g.epoch + 1 /\ x.members = ms /\ x.secret = t
      /\ x \in Group
  BY <1>1, <1>2, <1>4 DEF Group
<1>6. Len(t.chain) = (g.epoch + 1) + 1
  BY <1>1, <1>2 DEF Sound
<1>7. ms = LastIn(t.chain)
  <2>1. CASE kind = "add"
    BY <1>1, <1>2, <1>3, <2>1, LastInAdded DEF Sound
  <2>2. CASE kind = "remove"
    BY <1>1, <1>2, <1>3, <2>2, LastInRemoved DEF Sound
  <2> QED BY <2>1, <2>2
<1>8. g.secret.id = g.id
  BY DEF Sound
<1>9. Sound(x)
  BY <1>2, <1>5, <1>6, <1>7, <1>8 DEF Sound
<1> QED BY <1>9 DEF x

(* add_member and remove_member keep a group sound.                        *)
LEMMA AddedSound ==
    ASSUME NEW g, Sound(g), NEW d \in Member
    PROVE  Sound(Added(g, d))
<1>1. g.members \cup {d} \in SUBSET Member /\ g.members \cup {d} # {}
  BY DEF Sound, Group
<1> QED BY <1>1, AdvancedSound DEF Added

(* remove_member keeps a copy sound.                                       *)
LEMMA RemovedSound ==
    ASSUME NEW g, Sound(g), NEW d \in Member, CanRemove(g, d)
    PROVE  Sound(Removed(g, d))
<1>1. g.members \ {d} \in SUBSET Member /\ g.members \ {d} # {}
  BY DEF Sound, Group, CanRemove
<1> QED BY <1>1, AdvancedSound DEF Removed

-----------------------------------------------------------------------------
(* Every step keeps the invariant.                                         *)
LEMMA GroupsInvInit == GroupsInit => GroupsInv
BY DEF GroupsInit, GroupsInv, GroupsTypeOK, SoundIn

(* Changes, saves, loads, exports and imports keep every copy sound.       *)
LEMMA GroupsInvNext == GroupsInv /\ [GroupsNext]_groups => GroupsInv'
<1> SUFFICES ASSUME GroupsInv, [GroupsNext]_groups PROVE GroupsInv'
  OBVIOUS
<1> USE DEF GroupsInv
<1>1. ASSUME NEW h \in Holder, NEW x, Sound(x),
             copy' = [copy EXCEPT ![h] = x], UNCHANGED <<stored, snapshot>>
      PROVE  GroupsInv'
  <2>1. x \in Group
    BY <1>1 DEF Sound
  <2>2. GroupsTypeOK'
    BY <1>1, <2>1 DEF GroupsTypeOK
  <2>3. \A k \in Holder : copy'[k] # NoGroup => Sound(copy'[k])
    BY <1>1 DEF GroupsTypeOK
  <2> QED BY <1>1, <2>2, <2>3 DEF SoundIn
<1>2. ASSUME NEW h \in Holder, NEW g \in GroupId, NEW d \in Member, Create(h, g, d)
      PROVE  GroupsInv'
  BY <1>1, <1>2, CreatedSound DEF Create
<1>3. ASSUME NEW h \in Holder, NEW d \in Member, Add(h, d)
      PROVE  GroupsInv'
  <2>1. Sound(Added(copy[h], d))
    BY <1>3, AddedSound DEF Add
  <2> QED BY <1>1, <1>3, <2>1 DEF Add
<1>4. ASSUME NEW h \in Holder, NEW d \in Member, Remove(h, d)
      PROVE  GroupsInv'
  <2>1. Sound(Removed(copy[h], d))
    BY <1>4, RemovedSound DEF Remove
  <2> QED BY <1>1, <1>4, <2>1 DEF Remove
<1>5. ASSUME NEW g \in GroupId, StoreGroup(g)
      PROVE  GroupsInv'
  <2>1. [state |-> NoGroup] \in Record
    BY DEF Record
  <2>2. GroupsTypeOK'
    BY <1>5, <2>1 DEF GroupsTypeOK, StoreGroup
  <2>3. SoundIn(stored)'
    BY <1>5 DEF GroupsTypeOK, StoreGroup, SoundIn
  <2> QED BY <1>5, <2>2, <2>3 DEF StoreGroup, SoundIn
<1>6. ASSUME NEW h \in Holder, SaveState(h)
      PROVE  GroupsInv'
  <2>1. Sound(copy[h]) /\ copy[h] \in Group /\ copy[h].id \in GroupId
    BY <1>6 DEF SaveState, Sound, Group
  <2>2. [state |-> copy[h]] \in Record /\ [state |-> copy[h]].state = copy[h]
    BY <2>1 DEF Record
  <2>3. GroupsTypeOK'
    BY <1>6, <2>1, <2>2 DEF GroupsTypeOK, SaveState, Saved
  <2>4. SoundIn(stored)'
    BY <1>6, <2>1, <2>2 DEF GroupsTypeOK, SaveState, Saved, SoundIn
  <2> QED BY <1>6, <2>3, <2>4 DEF SaveState, SoundIn
<1>7. ASSUME NEW h \in Holder, NEW g \in GroupId, LoadState(h, g)
      PROVE  GroupsInv'
  <2>1. Sound(stored[g].state)
    BY <1>7 DEF LoadState, SoundIn
  <2> QED BY <1>1, <1>7, <2>1 DEF LoadState
<1>8. CASE Export
  BY <1>8 DEF Export, GroupsTypeOK, SoundIn
<1>9. CASE Import
  BY <1>9 DEF Import, GroupsTypeOK, SoundIn
<1>10. CASE UNCHANGED groups
  BY <1>10 DEF groups, GroupsTypeOK, SoundIn
<1> QED BY <1>2, <1>3, <1>4, <1>5, <1>6, <1>7, <1>8, <1>9, <1>10 DEF GroupsNext

(* The invariant holds in every behaviour of the group layer.              *)
LEMMA GroupsInvariant == GroupsSpec => []GroupsInv
BY GroupsInvInit, GroupsInvNext, PTL DEF GroupsSpec

(* Every copy there is, is sound.                                          *)
LEMMA CopiesSound == ASSUME GroupsInv, NEW a \in Copies PROVE Sound(a)
BY DEF GroupsInv, Copies, StatesIn, SoundIn

(* Copies, records and snapshots are well typed, whatever holders load,    *)
(* change and save.                                                        *)
THEOREM GroupsTyped == GroupsSpec => []GroupsTypeOK
<1>1. GroupsInv => GroupsTypeOK
  BY DEF GroupsInv
<1> QED BY <1>1, GroupsInvariant, PTL

(* Copies under one epoch key have the same members, for any number of     *)
(* holders, devices and changes: forks of a group, overwritten saves and   *)
(* restarts never make two devices that share a key disagree on who else   *)
(* has it.                                                                 *)
THEOREM KeysFixMembers == GroupsSpec => []KeyFixesMembers
<1>1. GroupsInv => KeyFixesMembers
  <2> SUFFICES ASSUME GroupsInv, NEW a \in Copies, NEW b \in Copies,
                      EpochKey(a) = EpochKey(b)
               PROVE  a.id = b.id /\ a.members = b.members
    BY DEF KeyFixesMembers
  <2>1. a.secret = b.secret
    BY DEF EpochKey
  <2> QED BY <2>1, CopiesSound DEF Sound
<1> QED BY <1>1, GroupsInvariant, PTL

(* Every membership change of create_group, add_member and remove_member   *)
(* makes one epoch and one derivation, and no copy loses its last member.  *)
THEOREM EpochsCountChanges == GroupsSpec => []EpochCountsChanges
<1>1. GroupsInv => EpochCountsChanges
  BY CopiesSound DEF EpochCountsChanges, Sound
<1> QED BY <1>1, GroupsInvariant, PTL

-----------------------------------------------------------------------------
(* Rosters.                                                                *)

(* Every copy, broadcast, session and message is well formed, and before   *)
(* the group is created there is nothing.                                  *)
LoopsTyped ==
    /\ loop \in [Loop -> LoopState \cup {NoRoster}]
    /\ \A l \in Loop : loop[l] # NoRoster =>
          /\ ~In(loop[l].by, loop[l].to)
          /\ loop[l].asked # NoRoster => loop[l].asked.peer # loop[l].by
InvitesTyped ==
    /\ invite \in [Person -> [Person -> Seq(Letters)]]
    /\ \A u \in Person : invite[u][u] = <<>>
MapsTyped ==
    /\ outmap \in [Person -> PairwiseMap]
    /\ inmap \in [Person -> PairwiseMap]
    /\ shakes \in Nat
RostersTyped ==
    /\ roster \in [Person -> Definition \cup {NoRoster}]
    /\ LoopsTyped
    /\ InvitesTyped
    /\ MapsTyped
    /\ edits \in Nat /\ faults \in Nat

Uncreated ==
    /\ editors = {} /\ dropped = {}
    /\ \A u \in Person : roster[u] = NoRoster
    /\ \A l \in Loop : loop[l] = NoRoster
    /\ \A u, v \in Person : invite[u][v] = <<>>

(* The owner alone has edited the group, and still has it.                 *)
Calm == editors = {Owner} /\ Owner \notin dropped

(* A loop of a calm group: a text, or the owner's present definition, or   *)
(* one that reaches only who is given up.  A call that waits may have any  *)
(* definition of the owner in hand.                                        *)
CalmLoop(l) ==
    /\ \/ loop[l].what = "text" /\ loop[l].def = NoRoster /\ ~loop[l].leaves
       \/ /\ loop[l].by = Owner /\ loop[l].what = "create" /\ ~loop[l].leaves
          /\ loop[l].def.creator = Owner
          /\ \/ loop[l].def = roster[Owner]
             \/ \A x \in Person : In(x, loop[l].to) => x \in stale
       \/ loop[l].by = Owner /\ loop[l].what = "current"
    /\ loop[l].asked # NoRoster =>
          \/ loop[l].asked.def = NoRoster
          \/ loop[l].by = Owner /\ loop[l].asked.def.creator = Owner

(* Texts, and definitions from the owner.                                  *)
CalmMail(u, s) ==
    \A i \in DOMAIN s : s[i].def = NoRoster \/ (u = Owner /\ s[i].def.creator = Owner)

(* The loop has the owner's present definition for m, in hand or to come.  *)
Carries(l, m) ==
    /\ loop[l] # NoRoster /\ loop[l].by = Owner /\ loop[l].what # "text"
    /\ \/ In(m, loop[l].to)
       \/ /\ loop[l].asked # NoRoster
          /\ loop[l].asked.peer = m /\ loop[l].asked.def = roster[Owner]

(* A message that takes def from no one who has a session: one that says   *)
(* the same or nothing, or the first of another handshake.                 *)
Harmless(x, def) == x.def = def \/ x.def = NoRoster \/ x.n = 0

(* The owner's present definition is still to be sent to m, or is the last *)
(* one under way that m may read, or has arrived.                          *)
ToBeSent(m) == \E l \in Loop : Carries(l, m)
LastIs(s, def) ==
    \E i \in DOMAIN s : /\ s[i].def = def
                        /\ \A j \in DOMAIN s : j > i => Harmless(s[j], def)
Settled(m) ==
    /\ roster[m] = roster[Owner]
    /\ inmap[m][Owner] # NoRoster
    /\ \A i \in DOMAIN invite[Owner][m] : Harmless(invite[Owner][m][i], roster[Owner])
Told(m) == ToBeSent(m) \/ LastIs(invite[Owner][m], roster[Owner]) \/ Settled(m)

CalmInv ==
    /\ Held(Owner) /\ roster[Owner].creator = Owner
    /\ \A l \in Loop : loop[l] # NoRoster => CalmLoop(l)
    /\ \A u, v \in Person : CalmMail(u, invite[u][v])
    /\ \A m \in Person \ (dropped \cup stale) :
          m # Owner /\ In(m, roster[Owner].members) => Told(m)

RostersInv ==
    /\ RostersTyped
    /\ edits = 0 => Uncreated
    /\ edits # 0 => Owner \in editors
    /\ Calm => CalmInv

-----------------------------------------------------------------------------
(* Member lists.                                                           *)

(* filter drops m and no one else.                                         *)
LEMMA ExceptFacts ==
    ASSUME NEW s \in MemberList, NEW m
    PROVE  /\ Except(s, m) \in MemberList
           /\ \A x : In(x, Except(s, m)) <=> In(x, s) /\ x # m
  <1>0. s \in Seq(Person) /\ Len(s) \in Nat /\ DOMAIN s = 1 .. Len(s) /\ Distinct(s)
    BY DEF MemberList
  <1>1. CASE ~In(m, s)
    BY <1>1 DEF Except, In
  <1>2. CASE In(m, s)
    <2>1. PICK i : i = CHOOSE j \in DOMAIN s : s[j] = m
      OBVIOUS
    <2>2. i \in 1 .. Len(s) /\ s[i] = m
      BY <1>0, <1>2, <2>1 DEF In
    <2>3. PICK t : t = SubSeq(s, 1, i - 1) \o SubSeq(s, i + 1, Len(s))
      OBVIOUS
    <2>4. Except(s, m) = t
      BY <1>2, <2>1, <2>3 DEF Except
    <2>5. /\ t \in Seq(Person) /\ Len(t) = Len(s) - 1 /\ DOMAIN t = 1 .. (Len(s) - 1)
          /\ \A k \in 1 .. (Len(s) - 1) : t[k] = IF k < i THEN s[k] ELSE s[k + 1]
      <3>1. PICK a, b : a = SubSeq(s, 1, i - 1) /\ b = SubSeq(s, i + 1, Len(s))
        OBVIOUS
      <3>2. /\ a \in Seq(Person) /\ Len(a) = i - 1
            /\ \A k \in 1 .. (i - 1) : a[k] = s[k]
        BY <1>0, <2>2, <3>1
      <3>3. /\ b \in Seq(Person) /\ Len(b) = Len(s) - i
            /\ \A k \in 1 .. (Len(s) - i) : b[k] = s[k + i]
        <4>0. PICK N \in Nat, h \in Nat : N = Len(s) /\ h = i /\ 1 <= h /\ h <= N
          <5>1. Len(s) \in Nat /\ i \in 1 .. Len(s)
            BY <1>0, <2>2
          <5>2. i \in Nat /\ 1 <= i /\ i <= Len(s)
            BY <5>1
          <5>3. QED
            BY <5>1, <5>2
        <4>1. PICK m1 \in Int, n1 \in Int : m1 = h + 1 /\ n1 = N
          OBVIOUS
        <4>2. \A k \in m1 .. n1 : s[k] \in Person
          BY <1>0, <4>0, <4>1
        <4>3. /\ SubSeq(s, m1, n1) \in Seq(Person)
              /\ Len(SubSeq(s, m1, n1)) = IF m1 <= n1 THEN n1 - m1 + 1 ELSE 0
              /\ \A k \in 1 .. n1 - m1 + 1 : SubSeq(s, m1, n1)[k] = s[m1 + k - 1]
          BY <4>2, SubSeqProperties
        <4>4. /\ (IF m1 <= n1 THEN n1 - m1 + 1 ELSE 0) = Len(s) - i
              /\ n1 - m1 + 1 = Len(s) - i
              /\ \A k \in 1 .. (Len(s) - i) : m1 + k - 1 = k + i
          <5>1. /\ (IF m1 <= n1 THEN n1 - m1 + 1 ELSE 0) = N - h
                /\ n1 - m1 + 1 = N - h
                /\ \A k \in 1 .. (N - h) : m1 + k - 1 = k + h
            BY <4>0, <4>1
          <5>2. QED
            BY <4>0, <5>1
        <4>5. QED
          BY <3>1, <4>0, <4>1, <4>3, <4>4
      <3>4. t = a \o b /\ t \in Seq(Person) /\ Len(t) = Len(s) - 1
        <4>1. t = a \o b
          BY <2>3, <3>1
        <4>2. a \o b \in Seq(Person) /\ Len(a \o b) = Len(a) + Len(b)
          BY <3>2, <3>3, ConcatProperties
        <4>3. Len(a) + Len(b) = Len(s) - 1
          BY <1>0, <2>2, <3>2, <3>3
        <4>4. QED
          BY <4>1, <4>2, <4>3
      <3>5. ASSUME NEW k \in 1 .. (Len(s) - 1)
            PROVE  t[k] = IF k < i THEN s[k] ELSE s[k + 1]
        <4>1. CASE k < i
          <5>1. k \in 1 .. (i - 1) /\ t[k] = a[k]
            BY <1>0, <2>2, <3>2, <3>3, <3>4, <4>1
          <5>2. QED
            BY <3>2, <4>1, <5>1
        <4>2. CASE ~(k < i)
          <5>1. /\ k - (i - 1) \in 1 .. (Len(s) - i) /\ (k - (i - 1)) + i = k + 1
                /\ t[k] = b[k - (i - 1)]
            BY <1>0, <2>2, <3>2, <3>3, <3>4, <4>2
          <5>2. QED
            BY <3>3, <4>2, <5>1
        <4>3. QED
          BY <4>1, <4>2
      <3>6. QED
        <4>1. DOMAIN t = 1 .. Len(t)
          BY <3>4
        <4>2. QED
          BY <3>4, <3>5, <4>1
    <2>6. Distinct(t)
      <3> SUFFICES ASSUME NEW j \in 1 .. (Len(s) - 1), NEW k \in 1 .. (Len(s) - 1),
                          t[j] = t[k]
                   PROVE  j = k
        BY <2>5 DEF Distinct
      <3>1. PICK a \in 1 .. Len(s) : t[j] = s[a] /\ a = IF j < i THEN j ELSE j + 1
        BY <1>0, <2>5
      <3>2. PICK b \in 1 .. Len(s) : t[k] = s[b] /\ b = IF k < i THEN k ELSE k + 1
        BY <1>0, <2>5
      <3>3. a = b
        BY <1>0, <3>1, <3>2 DEF Distinct
      <3>4. QED
        BY <2>2, <3>1, <3>2, <3>3
    <2>7. ASSUME NEW x PROVE In(x, t) <=> In(x, s) /\ x # m
      <3>1. ASSUME NEW k \in 1 .. (Len(s) - 1), t[k] = x PROVE In(x, s) /\ x # m
        <4>1. PICK a \in 1 .. Len(s) : x = s[a] /\ a = IF k < i THEN k ELSE k + 1
          BY <1>0, <2>5, <3>1
        <4>2. a # i
          BY <2>2, <4>1
        <4>3. s[a] # m
          BY <1>0, <2>2, <4>2 DEF Distinct
        <4>4. QED
          BY <1>0, <4>1, <4>3 DEF In
      <3>2. ASSUME NEW a \in 1 .. Len(s), s[a] = x, x # m PROVE In(x, t)
        <4>1. PICK k \in 1 .. (Len(s) - 1) : a = IF k < i THEN k ELSE k + 1
          <5>1. a # i
            BY <2>2, <3>2
          <5>2. CASE a < i
            BY <1>0, <2>2, <5>2
          <5>3. CASE a > i
            <6>1. a - 1 \in 1 .. (Len(s) - 1) /\ ~(a - 1 < i) /\ a = (a - 1) + 1
              BY <1>0, <2>2, <5>3
            <6>2. QED
              BY <6>1
          <5>4. QED
            BY <2>2, <5>1, <5>2, <5>3
        <4>2. t[k] = x
          BY <2>5, <3>2, <4>1
        <4>3. QED
          BY <2>5, <4>2 DEF In
      <3>3. QED
        BY <1>0, <2>5, <3>1, <3>2 DEF In
    <2>8. QED
      BY <2>4, <2>5, <2>6, <2>7 DEF MemberList
  <1>3. QED
    BY <1>1, <1>2

(* A list grows by who is not on it, at either end.                        *)
LEMMA AddedFacts ==
    ASSUME NEW s \in MemberList, NEW m \in Person, ~In(m, s)
    PROVE  /\ <<m>> \o s \in MemberList /\ Append(s, m) \in MemberList
           /\ \A x : In(x, <<m>> \o s) <=> x = m \/ In(x, s)
           /\ \A x : In(x, Append(s, m)) <=> x = m \/ In(x, s)
  <1>0. s \in Seq(Person) /\ Len(s) \in Nat /\ DOMAIN s = 1 .. Len(s) /\ Distinct(s)
    BY DEF MemberList
  <1>1. PICK t, u : t = <<m>> \o s /\ u = Append(s, m)
    OBVIOUS
  <1>2. /\ t \in Seq(Person) /\ DOMAIN t = 1 .. (Len(s) + 1)
        /\ t[1] = m /\ \A k \in 1 .. Len(s) : t[k + 1] = s[k]
    BY <1>0, <1>1
  <1>3. /\ u \in Seq(Person) /\ DOMAIN u = 1 .. (Len(s) + 1)
        /\ u[Len(s) + 1] = m /\ \A k \in 1 .. Len(s) : u[k] = s[k]
    BY <1>0, <1>1
  <1>4. \A k \in 2 .. (Len(s) + 1) : k - 1 \in 1 .. Len(s) /\ t[k] = s[k - 1]
    <2>1. \A k \in 2 .. (Len(s) + 1) : k - 1 \in 1 .. Len(s) /\ (k - 1) + 1 = k
      BY <1>0
    <2>2. QED
      BY <1>2, <2>1
  <1>5. \A k \in 1 .. Len(s) : s[k] # m
    BY <1>0 DEF In
  <1>6. Distinct(t)
    <2> SUFFICES ASSUME NEW j \in 1 .. (Len(s) + 1), NEW k \in 1 .. (Len(s) + 1), t[j] = t[k]
                 PROVE  j = k
      BY <1>2 DEF Distinct
    <2>1. CASE j = 1 \/ k = 1
      BY <1>0, <1>2, <1>4, <1>5, <2>1
    <2>2. CASE j # 1 /\ k # 1
      <3>1. j \in 2 .. (Len(s) + 1) /\ k \in 2 .. (Len(s) + 1)
        BY <1>0, <2>2
      <3>2. j - 1 = k - 1
        BY <1>0, <1>4, <3>1 DEF Distinct
      <3>3. QED
        BY <3>2
    <2>3. QED
      BY <2>1, <2>2
  <1>7. Distinct(u)
    <2> SUFFICES ASSUME NEW j \in 1 .. (Len(s) + 1), NEW k \in 1 .. (Len(s) + 1), u[j] = u[k]
                 PROVE  j = k
      BY <1>3 DEF Distinct
    <2>1. \A i \in 1 .. (Len(s) + 1) : i = Len(s) + 1 \/ i \in 1 .. Len(s)
      BY <1>0
    <2>2. QED
      BY <1>0, <1>3, <1>5, <2>1 DEF Distinct
  <1>8. \A x : In(x, t) <=> x = m \/ In(x, s)
    <2>1. ASSUME NEW k \in 1 .. (Len(s) + 1) PROVE t[k] = m \/ In(t[k], s)
      <3>1. k = 1 \/ k \in 2 .. (Len(s) + 1)
        BY <1>0
      <3>2. QED
        BY <1>0, <1>2, <1>4, <3>1 DEF In
    <2>2. 1 \in 1 .. (Len(s) + 1) /\ \A k \in 1 .. Len(s) : k + 1 \in 1 .. (Len(s) + 1)
      BY <1>0
    <2>3. QED
      BY <1>0, <1>2, <2>1, <2>2 DEF In
  <1>9. \A x : In(x, u) <=> x = m \/ In(x, s)
    <2>1. ASSUME NEW k \in 1 .. (Len(s) + 1) PROVE u[k] = m \/ In(u[k], s)
      <3>1. k = Len(s) + 1 \/ k \in 1 .. Len(s)
        BY <1>0
      <3>2. QED
        BY <1>0, <1>3, <3>1 DEF In
    <2>2. Len(s) + 1 \in 1 .. (Len(s) + 1) /\ \A k \in 1 .. Len(s) : k \in 1 .. (Len(s) + 1)
      BY <1>0
    <2>3. QED
      BY <1>0, <1>3, <2>1, <2>2 DEF In
  <1>10. QED
    BY <1>1, <1>2, <1>3, <1>6, <1>7, <1>8, <1>9 DEF MemberList

(* The first of a list is served, the rest is still to be.                 *)
LEMMA RestFacts ==
    ASSUME NEW s \in MemberList, s # <<>>
    PROVE  /\ Head(s) \in Person /\ In(Head(s), s)
           /\ Tail(s) \in MemberList
           /\ \A x : In(x, s) => x = Head(s) \/ In(x, Tail(s))
           /\ \A x : In(x, Tail(s)) => In(x, s)
  <1>0. s \in Seq(Person) /\ Len(s) \in Nat /\ DOMAIN s = 1 .. Len(s) /\ Distinct(s)
        /\ Len(s) > 0
    BY DEF MemberList
  <1>1. PICK t : t = Tail(s)
    OBVIOUS
  <1>2. /\ t \in Seq(Person) /\ DOMAIN t = 1 .. (Len(s) - 1)
        /\ \A k \in 1 .. (Len(s) - 1) : t[k] = s[k + 1] /\ k + 1 \in 1 .. Len(s)
        /\ Head(s) = s[1] /\ 1 \in 1 .. Len(s)
    BY <1>0, <1>1
  <1>3. Distinct(t)
    <2> SUFFICES ASSUME NEW j \in 1 .. (Len(s) - 1), NEW k \in 1 .. (Len(s) - 1), t[j] = t[k]
                 PROVE  j = k
      BY <1>2 DEF Distinct
    <2>1. /\ j + 1 \in DOMAIN s /\ k + 1 \in DOMAIN s
          /\ s[j + 1] = s[k + 1]
      BY <1>0, <1>2
    <2>2. j + 1 = k + 1
      BY <1>0, <2>1, Zenon DEF Distinct
    <2>3. QED
      BY <2>2
  <1>4. ASSUME NEW k \in 1 .. Len(s) PROVE s[k] = Head(s) \/ In(s[k], t)
    <2>1. CASE k = 1
      BY <1>2, <2>1
    <2>2. CASE k # 1
      <3>1. k - 1 \in 1 .. (Len(s) - 1) /\ (k - 1) + 1 = k
        BY <1>0, <2>2
      <3>2. QED
        BY <1>2, <3>1 DEF In
    <2>3. QED
      BY <2>1, <2>2
  <1>5. QED
    BY <1>0, <1>1, <1>2, <1>3, <1>4 DEF In, MemberList

-----------------------------------------------------------------------------
(* A handler starts.                                                       *)

(* The handler that starts is an idle one.                                 *)
LEMMA NextLoopIdle ==
    ASSUME NEW l \in NextLoop
    PROVE  l \in Loop /\ loop[l] = NoRoster
  <1>1. PICK idle : idle = {k \in Loop : loop[k] = NoRoster}
    OBVIOUS
  <1>2. idle # {} /\ l = CHOOSE k \in idle : TRUE
    BY <1>1 DEF NextLoop
  <1>3. l \in idle
    BY <1>2
  <1>4. QED
    BY <1>1, <1>3

(* A handler with loop state r starts as l; the others go on.              *)
Started(l, r) ==
    /\ l \in Loop /\ loop[l] = NoRoster
    /\ r \in LoopState /\ r # NoRoster
    /\ loop'[l] = r
    /\ \A k \in Loop : k # l => loop'[k] = loop[k]

(* A broadcast starts with everyone on the list but oneself.               *)
LEMMA StartsEffect ==
    ASSUME LoopsTyped, NEW l \in NextLoop, NEW u \in Person, NEW to \in MemberList,
           NEW what \in {"create", "current", "fixed", "text"},
           NEW def \in Definition \cup {NoRoster}, NEW leaves \in BOOLEAN,
           Starts(l, u, to, what, def, leaves)
    PROVE  /\ LoopsTyped'
           /\ \E r : /\ Started(l, r)
                     /\ r.by = u /\ r.what = what /\ r.def = def /\ r.leaves = leaves
                     /\ r.asked = NoRoster
                     /\ \A x : In(x, to) /\ x # u => In(x, r.to)
  <1>1. PICK t \in MemberList : /\ t = Except(to, u)
                                /\ \A x : In(x, t) <=> In(x, to) /\ x # u
    BY ExceptFacts
  <1>2. PICK r : r = [by |-> u, to |-> t, what |-> what, def |-> def,
                      leaves |-> leaves, asked |-> NoRoster]
    OBVIOUS
  <1>3. /\ r \in LoopState
        /\ r.by = u /\ r.to = t /\ r.what = what /\ r.def = def /\ r.leaves = leaves
        /\ r.asked = NoRoster
    BY <1>2 DEF LoopState
  <1>4. l \in Loop /\ loop[l] = NoRoster /\ r # NoRoster
    BY <1>3, NextLoopIdle, RosterTypes
  <1>5. loop' = [loop EXCEPT ![l] = r]
    BY <1>1, <1>2 DEF Starts
  <1>6. /\ loop' \in [Loop -> LoopState \cup {NoRoster}]
        /\ loop'[l] = r /\ \A k \in Loop : k # l => loop'[k] = loop[k]
    BY <1>3, <1>4, <1>5 DEF LoopsTyped
  <1>7. ~In(r.by, r.to)
    BY <1>1, <1>3
  <1>8. LoopsTyped'
    BY <1>3, <1>4, <1>6, <1>7 DEF LoopsTyped
  <1>9. QED
    BY <1>1, <1>3, <1>4, <1>6, <1>8 DEF Started

(* openCreateGroup: everyone picked is still to be told.                   *)
LEMMA NewGroupKeeps ==
    ASSUME RostersInv, NEW l \in NextLoop, NEW picked \in Picks, NewGroup(l, picked)
    PROVE  RostersInv'
  <1>1. edits = 0 /\ Uncreated /\ RostersTyped /\ LoopsTyped /\ InvitesTyped
    BY DEF NewGroup, RostersInv, RostersTyped
  <1>2. Owner \in Person /\ picked \in MemberList /\ ~In(Owner, picked)
    BY RosterTypes
  <1>3. PICK list \in MemberList : /\ list = <<Owner>> \o picked
                                   /\ In(Owner, list)
    BY <1>2, AddedFacts
  <1>4. PICK g \in Definition :
             /\ g = [name |-> 0, members |-> list, creator |-> Owner]
             /\ g.members = list /\ g.creator = Owner
    <2>1. [name |-> 0, members |-> list, creator |-> Owner] \in Definition
      BY <1>2 DEF Definition
    <2>2. QED
      BY <2>1
  <1>5. g # NoRoster
    BY RosterTypes
  <1>6. /\ roster' = [roster EXCEPT ![Owner] = g]
        /\ Starts(l, Owner, list, "create", g, FALSE)
        /\ edits' = 1 /\ editors' = {Owner}
        /\ UNCHANGED <<outmap, inmap, shakes, invite, stale, dropped, faults>>
    BY <1>3, <1>4 DEF NewGroup, chats
  <1>7. PICK r : /\ LoopsTyped' /\ Started(l, r)
                 /\ r.by = Owner /\ r.what = "create" /\ r.def = g /\ r.leaves = FALSE
                 /\ r.asked = NoRoster
                 /\ \A x : In(x, list) /\ x # Owner => In(x, r.to)
    <2>1. PICK no \in BOOLEAN, what \in {"create", "current", "fixed", "text"},
               def \in Definition \cup {NoRoster} :
               no = FALSE /\ what = "create" /\ def = g
      OBVIOUS
    <2>2. Starts(l, Owner, list, what, def, no)
      BY <1>6, <2>1
    <2>3. QED
      BY <1>1, <1>2, <2>1, <2>2, StartsEffect
  <1>8. roster' \in [Person -> Definition \cup {NoRoster}] /\ roster'[Owner] = g
    BY <1>1, <1>2, <1>6 DEF RostersTyped
  <1>9. RostersTyped'
    BY <1>1, <1>6, <1>7, <1>8 DEF RostersTyped, InvitesTyped, MapsTyped
  <1>10. \A k \in Loop : loop'[k] # NoRoster => k = l
    BY <1>1, <1>7 DEF Started, Uncreated
  <1>11. CalmInv'
    <2>1. (Held(Owner) /\ roster[Owner].creator = Owner)'
      BY <1>4, <1>5, <1>8 DEF Held
    <2>2. \A k \in Loop : loop'[k] # NoRoster => CalmLoop(k)'
      BY <1>4, <1>7, <1>8, <1>10 DEF CalmLoop, Started
    <2>3. \A x, y \in Person : CalmMail(x, invite'[x][y])
      BY <1>1, <1>6 DEF CalmMail, Uncreated
    <2>5. \A m \in Person \ dropped' :
             m # Owner /\ In(m, roster'[Owner].members) => Told(m)'
      BY <1>4, <1>7, <1>8 DEF Told, ToBeSent, Carries, Started
    <2>6. QED
      BY <2>1, <2>2, <2>3, <2>5 DEF CalmInv
  <1>12. QED
    BY <1>6, <1>9, <1>11 DEF RostersInv

(* A control of the panel: the owner's edit is still to be sent to every   *)
(* member there is now, and what other loops send is the new definition.   *)
LEMMA EditKeeps ==
    ASSUME RostersInv, NEW l \in NextLoop, NEW u \in Person, NEW g \in Definition,
           NEW to \in MemberList, NEW leaves \in BOOLEAN,
           Edit(l, u, g, to, leaves),
           g.creator = roster[u].creator,
           \A m : m # u /\ In(m, g.members) => In(m, to)
    PROVE  RostersInv'
  <1>1. RostersTyped /\ LoopsTyped /\ InvitesTyped
    BY DEF RostersInv, RostersTyped
  <1>2. g # NoRoster
    BY RosterTypes
  <1>3. /\ Held(u)
        /\ roster' = [roster EXCEPT ![u] = g]
        /\ Starts(l, u, to, "current", NoRoster, leaves)
        /\ edits' = edits + 1 /\ editors' = editors \cup {u}
        /\ stale' = {m \in Person : \E k \in Loop :
                        /\ loop[k] # NoRoster /\ loop[k].what = "create"
                        /\ In(m, loop[k].to)}
        /\ UNCHANGED <<outmap, inmap, shakes, invite, dropped, faults>>
    BY DEF Edit, chats
  <1>4. PICK r : /\ LoopsTyped' /\ Started(l, r)
                 /\ r.by = u /\ r.what = "current" /\ r.leaves = leaves
                 /\ r.asked = NoRoster
                 /\ \A x : In(x, to) /\ x # u => In(x, r.to)
    <2>1. PICK what \in {"create", "current", "fixed", "text"},
               def \in Definition \cup {NoRoster} : what = "current" /\ def = NoRoster
      OBVIOUS
    <2>2. Starts(l, u, to, what, def, leaves)
      BY <1>3, <2>1
    <2>3. QED
      BY <1>1, <2>1, <2>2, StartsEffect
  <1>5. roster' \in [Person -> Definition \cup {NoRoster}] /\ roster'[u] = g
    BY <1>1, <1>3 DEF RostersTyped
  <1>6. edits # 0 /\ Owner \in editors
    BY <1>3 DEF Held, RostersInv, Uncreated
  <1>7. RostersTyped' /\ edits' # 0 /\ Owner \in editors'
    <2>1. edits \in Nat
      BY <1>1 DEF RostersTyped
    <2>2. edits' \in Nat /\ edits' # 0
      BY <1>3, <2>1
    <2>3. QED
      BY <1>1, <1>3, <1>4, <1>5, <1>6, <2>2 DEF RostersTyped, InvitesTyped, MapsTyped
  <1>8. ASSUME Calm' PROVE CalmInv'
    <2>1. u = Owner /\ Calm /\ CalmInv
      BY <1>3, <1>6, <1>8 DEF Calm, RostersInv
    <2>2. \A k \in Loop : loop[k] # NoRoster /\ loop[k].what = "create" =>
             \A x \in Person : In(x, loop[k].to) => x \in stale'
      BY <1>3
    <2>3. (Held(Owner) /\ roster[Owner].creator = Owner)'
      BY <1>2, <1>5, <2>1 DEF Held, CalmInv
    <2>4. ASSUME NEW k \in Loop, loop'[k] # NoRoster PROVE CalmLoop(k)'
      <3>1. CASE k = l
        BY <1>4, <2>1, <3>1 DEF CalmLoop, Started
      <3>2. CASE k # l
        <4>1. loop'[k] = loop[k] /\ loop[k] # NoRoster
          BY <1>4, <2>4, <3>2 DEF Started
        <4>2. CalmLoop(k)
          BY <2>1, <4>1 DEF CalmInv
        <4>3. CASE loop[k].what = "create"
          BY <2>2, <4>1, <4>2, <4>3 DEF CalmLoop
        <4>4. CASE loop[k].what # "create"
          BY <4>1, <4>2, <4>4 DEF CalmLoop
        <4>5. QED
          BY <4>3, <4>4
      <3>3. QED
        BY <3>1, <3>2
    <2>5. \A x, y \in Person : CalmMail(x, invite'[x][y])
      BY <1>3, <2>1 DEF CalmInv
    <2>7. ASSUME NEW m \in Person, m # Owner, In(m, roster'[Owner].members)
          PROVE  Told(m)'
      <3>1. In(m, r.to)
        BY <1>4, <1>5, <2>1, <2>7
      <3>2. ToBeSent(m)'
        BY <1>4, <2>1, <3>1 DEF ToBeSent, Carries, Started
      <3>3. QED
        BY <3>2 DEF Told
    <2>8. QED
      BY <2>3, <2>4, <2>5, <2>7 DEF CalmInv
  <1>9. QED
    BY <1>7, <1>8 DEF RostersInv

(* A change of the name or of the members is a definition again.           *)
LEMMA HeldDefinition ==
    ASSUME RostersInv, NEW u \in Person, Held(u)
    PROVE  /\ roster[u] \in Definition /\ roster[u].members \in MemberList
           /\ \A n \in Nat : /\ [roster[u] EXCEPT !.name = n] \in Definition
                             /\ [roster[u] EXCEPT !.name = n].members = roster[u].members
                             /\ [roster[u] EXCEPT !.name = n].creator = roster[u].creator
           /\ \A s \in MemberList :
                 /\ [roster[u] EXCEPT !.members = s] \in Definition
                 /\ [roster[u] EXCEPT !.members = s].members = s
                 /\ [roster[u] EXCEPT !.members = s].creator = roster[u].creator
  <1>1. roster[u] \in Definition
    BY DEF RostersInv, RostersTyped, Held
  <1>2. QED
    BY <1>1 DEF Definition

(* The panel's rename keeps the invariant.                                 *)
LEMMA RenameKeeps ==
    ASSUME RostersInv, NEW l \in NextLoop, NEW u \in Person, Rename(l, u)
    PROVE  RostersInv'
  <1>1. PICK g : g = [roster[u] EXCEPT !.name = edits]
    OBVIOUS
  <1>0. PICK no \in BOOLEAN : no = FALSE
    OBVIOUS
  <1>2. Edit(l, u, g, roster[u].members, no)
    BY <1>0, <1>1 DEF Rename
  <1>3. Held(u) /\ edits \in Nat
    BY <1>2 DEF Edit, RostersInv, RostersTyped
  <1>4. /\ g \in Definition /\ g.members = roster[u].members
        /\ g.creator = roster[u].creator /\ roster[u].members \in MemberList
    BY <1>1, <1>3, HeldDefinition
  <1>5. QED
    BY <1>2, <1>4, EditKeeps

(* Removing a member: who is left is told.                                 *)
LEMMA RemoveKeeps ==
    ASSUME RostersInv, NEW l \in NextLoop, NEW u \in Person, NEW m \in Person,
           RemoveMember(l, u, m)
    PROVE  RostersInv'
  <1>0. PICK no \in BOOLEAN : no = FALSE
    OBVIOUS
  <1>1. PICK s : s = Without(u, m)
    OBVIOUS
  <1>2. PICK g : g = [roster[u] EXCEPT !.members = s]
    OBVIOUS
  <1>3. Edit(l, u, g, s, no) /\ Held(u) /\ m # u
    BY <1>0, <1>1, <1>2 DEF RemoveMember
  <1>4. roster[u].members \in MemberList
    BY <1>3, HeldDefinition
  <1>5. /\ s \in MemberList
        /\ \A x : In(x, s) <=> In(x, roster[u].members) /\ x # m
    BY <1>1, <1>4, ExceptFacts DEF Without
  <1>6. g \in Definition /\ g.members = s /\ g.creator = roster[u].creator
    BY <1>2, <1>3, <1>5, HeldDefinition
  <1>7. QED
    BY <1>3, <1>5, <1>6, EditKeeps

(* Adding a member: the new one is told, then those there were.            *)
LEMMA AddKeeps ==
    ASSUME RostersInv, NEW l \in NextLoop, NEW u \in Person, NEW m \in Person,
           AddMember(l, u, m)
    PROVE  RostersInv'
  <1>0. PICK no \in BOOLEAN : no = FALSE
    OBVIOUS
  <1>1. PICK old, s, to : /\ old = roster[u].members
                          /\ s = Append(old, m) /\ to = <<m>> \o old
    OBVIOUS
  <1>2. PICK g : g = [roster[u] EXCEPT !.members = s]
    OBVIOUS
  <1>3. Edit(l, u, g, to, no) /\ Held(u) /\ ~In(m, old)
    BY <1>0, <1>1, <1>2 DEF AddMember
  <1>4. old \in MemberList
    BY <1>1, <1>3, HeldDefinition
  <1>5. /\ s \in MemberList /\ to \in MemberList
        /\ \A x : In(x, s) <=> In(x, to)
    BY <1>1, <1>3, <1>4, AddedFacts
  <1>6. g \in Definition /\ g.members = s /\ g.creator = roster[u].creator
    BY <1>2, <1>3, <1>5, HeldDefinition
  <1>7. QED
    BY <1>1, <1>3, <1>5, <1>6, EditKeeps

(* Leaving: the rest is told, and the owner may be off its own list until  *)
(* the copy is dropped.                                                    *)
LEMMA LeaveKeeps ==
    ASSUME RostersInv, NEW l \in NextLoop, NEW u \in Person, Leave(l, u)
    PROVE  RostersInv'
  <1>0. PICK yes \in BOOLEAN : yes = TRUE
    OBVIOUS
  <1>1. PICK s : s = Without(u, u)
    OBVIOUS
  <1>2. PICK g : g = [roster[u] EXCEPT !.members = s]
    OBVIOUS
  <1>3. Edit(l, u, g, s, yes) /\ Held(u)
    BY <1>0, <1>1, <1>2 DEF Leave, Edit
  <1>4. roster[u].members \in MemberList
    BY <1>3, HeldDefinition
  <1>5. s \in MemberList
    BY <1>1, <1>4, ExceptFacts DEF Without
  <1>6. g \in Definition /\ g.members = s /\ g.creator = roster[u].creator
    BY <1>2, <1>3, <1>5, HeldDefinition
  <1>7. QED
    BY <1>0, <1>3, <1>5, <1>6, EditKeeps

(* sendMessage to the group: the others are texts.                         *)
LEMMA TextKeeps ==
    ASSUME RostersInv, NEW l \in NextLoop, NEW u \in Person, SendText(l, u)
    PROVE  RostersInv'
  <1>1. /\ Held(u)
        /\ Starts(l, u, roster[u].members, "text", NoRoster, FALSE)
        /\ UNCHANGED <<roster, outmap, inmap, shakes, invite, edits, editors, stale,
                       dropped, faults>>
    BY DEF SendText, chats
  <1>2. RostersTyped /\ LoopsTyped /\ InvitesTyped /\ roster[u].members \in MemberList
    BY <1>1, HeldDefinition DEF RostersInv, RostersTyped
  <1>3. PICK r : /\ LoopsTyped' /\ Started(l, r)
                 /\ r.what = "text" /\ r.def = NoRoster /\ r.leaves = FALSE
                 /\ r.asked = NoRoster
    <2>1. PICK no \in BOOLEAN, what \in {"create", "current", "fixed", "text"},
               def \in Definition \cup {NoRoster} :
               no = FALSE /\ what = "text" /\ def = NoRoster
      OBVIOUS
    <2>2. PICK to \in MemberList : to = roster[u].members
      BY <1>2
    <2>3. Starts(l, u, to, what, def, no)
      BY <1>1, <2>1, <2>2
    <2>4. PICK r : /\ LoopsTyped' /\ Started(l, r)
                   /\ r.what = what /\ r.def = def /\ r.leaves = no
                   /\ r.asked = NoRoster
      BY <1>2, <2>3, StartsEffect
    <2>5. QED
      BY <2>1, <2>4
  <1>4. RostersTyped'
    BY <1>1, <1>2, <1>3 DEF RostersTyped, InvitesTyped, MapsTyped
  <1>5. edits # 0 /\ Owner \in editors
    BY <1>1 DEF Held, RostersInv, Uncreated
  <1>6. ASSUME Calm' PROVE CalmInv'
    <2>1. CalmInv
      BY <1>1, <1>6 DEF Calm, RostersInv
    <2>2. ASSUME NEW k \in Loop, loop'[k] # NoRoster PROVE CalmLoop(k)'
      <3>1. CASE k = l
        BY <1>3, <3>1 DEF CalmLoop, Started
      <3>2. CASE k # l
        BY <1>1, <1>3, <2>1, <2>2, <3>2 DEF CalmLoop, CalmInv, Started
      <3>3. QED
        BY <3>1, <3>2
    <2>3. \A k \in Loop : loop[k] # NoRoster => loop'[k] = loop[k]
      BY <1>3 DEF Started
    <2>5. ASSUME NEW m \in Person \ (dropped \cup stale), m # Owner, In(m, roster[Owner].members)
          PROVE  Told(m)'
      <3>1. ToBeSent(m) => ToBeSent(m)'
        BY <1>1, <2>3 DEF ToBeSent, Carries
      <3>2. Told(m)
        BY <2>1, <2>5 DEF CalmInv
      <3>3. QED
        BY <1>1, <3>1, <3>2 DEF Told, Settled
    <2>6. QED
      BY <1>1, <2>1, <2>2, <2>5 DEF CalmInv, Held
  <1>7. QED
    BY <1>1, <1>4, <1>5, <1>6 DEF RostersInv

-----------------------------------------------------------------------------
(* A group that is dropped.                                                *)

(* teardownGroup changes no loop's author or recipients, and in a calm     *)
(* group no loop at all but the owner's.                                   *)
LEMMA DetachedFacts ==
    ASSUME RostersTyped, NEW u \in Person
    PROVE  /\ Detached(u) \in [Loop -> LoopState \cup {NoRoster}]
           /\ \A l \in Loop : /\ (Detached(u)[l] = NoRoster) = (loop[l] = NoRoster)
                              /\ loop[l] # NoRoster =>
                                    /\ Detached(u)[l].by = loop[l].by
                                    /\ Detached(u)[l].to = loop[l].to
                                    /\ Detached(u)[l].asked = loop[l].asked
           /\ Calm /\ CalmInv /\ u # Owner => \A l \in Loop : Detached(u)[l] = loop[l]
  <1>1. loop \in [Loop -> LoopState \cup {NoRoster}]
        /\ roster[u] \in Definition \cup {NoRoster}
    BY DEF RostersTyped, LoopsTyped
  <1>2. ASSUME NEW l \in Loop
        PROVE  /\ Detached(u)[l] \in LoopState \cup {NoRoster}
               /\ (Detached(u)[l] = NoRoster) = (loop[l] = NoRoster)
               /\ loop[l] # NoRoster => /\ Detached(u)[l].by = loop[l].by
                                        /\ Detached(u)[l].to = loop[l].to
                                        /\ Detached(u)[l].asked = loop[l].asked
    <2>1. CASE loop[l] # NoRoster /\ loop[l].by = u /\ loop[l].what = "current"
      <3>1. PICK r \in LoopState : r = loop[l]
        BY <1>1, <2>1
      <3>2. Detached(u)[l] = [r EXCEPT !.what = "fixed", !.def = roster[u]]
        BY <2>1, <3>1 DEF Detached
      <3>3. /\ Detached(u)[l] \in LoopState
            /\ Detached(u)[l].by = r.by /\ Detached(u)[l].to = r.to
            /\ Detached(u)[l].asked = r.asked
        BY <1>1, <3>2 DEF LoopState
      <3>4. QED
        BY <2>1, <3>1, <3>3, RosterTypes
    <2>2. CASE ~(loop[l] # NoRoster /\ loop[l].by = u /\ loop[l].what = "current")
      <3>1. Detached(u)[l] = loop[l]
        BY <2>2 DEF Detached
      <3>2. QED
        BY <1>1, <3>1
    <2>3. QED
      BY <2>1, <2>2
  <1>3. Detached(u) \in [Loop -> LoopState \cup {NoRoster}]
    <2>1. Detached(u) = [l \in Loop |-> Detached(u)[l]]
      BY DEF Detached
    <2>2. QED
      BY <1>2, <2>1
  <1>4. ASSUME Calm, CalmInv, u # Owner, NEW l \in Loop
        PROVE  Detached(u)[l] = loop[l]
    <2>1. ~(loop[l] # NoRoster /\ loop[l].by = u /\ loop[l].what = "current")
      BY <1>4 DEF CalmInv, CalmLoop
    <2>2. QED
      BY <2>1 DEF Detached
  <1>5. QED
    BY <1>2, <1>3, <1>4

(* Deleting a copy: the owner's ends the calm, another one only takes a    *)
(* member out of the count.                                                *)
LEMMA DeleteKeeps ==
    ASSUME RostersInv, NEW u \in Person, Delete(u)
    PROVE  RostersInv'
  <1>1. /\ Held(u) /\ roster' = [roster EXCEPT ![u] = NoRoster]
        /\ loop' = Detached(u) /\ dropped' = dropped \cup {u}
        /\ UNCHANGED <<outmap, inmap, shakes, invite, edits, editors, stale, faults>>
    BY DEF Delete, chats
  <1>2. RostersTyped /\ LoopsTyped /\ InvitesTyped
    BY DEF RostersInv, RostersTyped
  <1>3. RostersTyped'
    <2>1. roster' \in [Person -> Definition \cup {NoRoster}]
      BY <1>1, <1>2 DEF RostersTyped
    <2>2. LoopsTyped'
      BY <1>1, <1>2, DetachedFacts DEF LoopsTyped
    <2>3. QED
      BY <1>1, <1>2, <2>1, <2>2 DEF RostersTyped, InvitesTyped, MapsTyped
  <1>4. edits # 0 /\ Owner \in editors
    BY <1>1 DEF Held, RostersInv, Uncreated
  <1>5. ASSUME Calm' PROVE CalmInv'
    <2>1. Calm /\ CalmInv /\ u # Owner
      BY <1>1, <1>5 DEF Calm, RostersInv
    <2>2. \A l \in Loop : loop'[l] = loop[l]
      BY <1>1, <1>2, <2>1, DetachedFacts
    <2>3. \A m \in Person : m # u => roster'[m] = roster[m]
      BY <1>1, <1>2 DEF RostersTyped
    <2>4. roster'[Owner] = roster[Owner]
      BY <2>1, <2>3, RosterTypes
    <2>5. \A l \in Loop : loop'[l] # NoRoster => CalmLoop(l)'
      BY <1>1, <2>1, <2>2, <2>4 DEF CalmInv, CalmLoop
    <2>7. ASSUME NEW m \in Person \ (dropped' \cup stale), m # Owner, In(m, roster[Owner].members)
          PROVE  Told(m)'
      <3>1. Told(m) /\ m # u
        BY <1>1, <2>1, <2>7 DEF CalmInv
      <3>2. ToBeSent(m) => ToBeSent(m)'
        BY <2>2, <2>4 DEF ToBeSent, Carries
      <3>3. Settled(m) => Settled(m)'
        BY <1>1, <2>3, <2>4, <3>1 DEF Settled
      <3>4. QED
        BY <1>1, <2>4, <3>1, <3>2, <3>3 DEF Told
    <2>8. QED
      BY <1>1, <2>1, <2>4, <2>5, <2>7 DEF CalmInv, Held
  <1>6. QED
    BY <1>1, <1>3, <1>4, <1>5 DEF RostersInv

-----------------------------------------------------------------------------
(* What is under way.                                                      *)

(* The last definition under way, when a message follows or the first is   *)
(* read.                                                                   *)
LEMMA LastFacts ==
    ASSUME NEW S, NEW w \in Seq(S), NEW x \in S, NEW def
    PROVE  /\ x.def = def => LastIs(Append(w, x), def)
           /\ Harmless(x, def) /\ LastIs(w, def) => LastIs(Append(w, x), def)
           /\ w # <<>> /\ LastIs(w, def) =>
                 \/ LastIs(Tail(w), def)
                 \/ /\ Head(w).def = def
                    /\ \A i \in DOMAIN Tail(w) : Harmless(Tail(w)[i], def)
  <1>1. /\ DOMAIN Append(w, x) = 1 .. (Len(w) + 1) /\ Append(w, x)[Len(w) + 1] = x
        /\ \A i \in 1 .. Len(w) : Append(w, x)[i] = w[i]
        /\ Len(w) \in Nat /\ DOMAIN w = 1 .. Len(w)
    OBVIOUS
  <1>2. ASSUME x.def = def PROVE LastIs(Append(w, x), def)
    <2>1. Len(w) + 1 \in 1 .. (Len(w) + 1)
          /\ \A j \in 1 .. (Len(w) + 1) : ~(j > Len(w) + 1)
      BY <1>1
    <2>2. QED
      BY <1>1, <1>2, <2>1 DEF LastIs
  <1>3. ASSUME Harmless(x, def), LastIs(w, def) PROVE LastIs(Append(w, x), def)
    <2>1. PICK i \in 1 .. Len(w) :
               w[i].def = def /\ \A j \in 1 .. Len(w) : j > i => Harmless(w[j], def)
      BY <1>1, <1>3 DEF LastIs
    <2>2. i \in 1 .. (Len(w) + 1) /\ Append(w, x)[i].def = def
      BY <1>1, <2>1
    <2>3. ASSUME NEW j \in 1 .. (Len(w) + 1), j > i
          PROVE  Harmless(Append(w, x)[j], def)
      <3>1. j \in 1 .. Len(w) \/ j = Len(w) + 1
        BY <1>1
      <3>2. QED
        BY <1>1, <1>3, <2>1, <2>3, <3>1
    <2>4. QED
      BY <1>1, <2>2, <2>3 DEF LastIs
  <1>4. ASSUME w # <<>>, LastIs(w, def)
        PROVE  \/ LastIs(Tail(w), def)
               \/ /\ Head(w).def = def
                  /\ \A i \in DOMAIN Tail(w) : Harmless(Tail(w)[i], def)
    <2>1. PICK i \in 1 .. Len(w) :
               w[i].def = def /\ \A j \in 1 .. Len(w) : j > i => Harmless(w[j], def)
      BY <1>1, <1>4 DEF LastIs
    <2>2. PICK t : t = Tail(w)
      OBVIOUS
    <2>3. /\ DOMAIN t = 1 .. (Len(w) - 1) /\ Head(w) = w[1]
          /\ \A k \in 1 .. (Len(w) - 1) : t[k] = w[k + 1] /\ k + 1 \in 1 .. Len(w)
      BY <1>4, <2>2
    <2>4. CASE i = 1
      <3>1. \A k \in 1 .. (Len(w) - 1) : k + 1 > 1
        OBVIOUS
      <3>2. QED
        BY <2>1, <2>2, <2>3, <2>4, <3>1
    <2>5. CASE i # 1
      <3>1. i - 1 \in 1 .. (Len(w) - 1) /\ (i - 1) + 1 = i
        BY <1>1, <2>5
      <3>2. t[i - 1].def = def
        BY <2>1, <2>3, <3>1
      <3>3. \A k \in 1 .. (Len(w) - 1) : k > i - 1 => k + 1 > i
        BY <1>1
      <3>4. LastIs(t, def)
        BY <2>1, <2>3, <3>1, <3>2, <3>3 DEF LastIs
      <3>5. QED
        BY <2>2, <3>4
    <2>6. QED
      BY <2>4, <2>5
  <1>5. QED
    BY <1>2, <1>3, <1>4

(* A change of what is kept for one pair of users.                         *)
LEMMA ChannelEffect ==
    ASSUME NEW T, NEW f \in [Person -> [Person -> T]], NEW u \in Person,
           NEW m \in Person, NEW x \in T
    PROVE  /\ [f EXCEPT ![u][m] = x] \in [Person -> [Person -> T]]
           /\ [f EXCEPT ![u][m] = x][u][m] = x
           /\ \A y, z \in Person :
                 y # u \/ z # m => [f EXCEPT ![u][m] = x][y][z] = f[y][z]
  OBVIOUS

(* The members who have the present definition still to come from loop l   *)
(* have it after the step too, or are given up.                            *)
Handed(l) == \A y \in Person \ stale' : Carries(l, y) => Carries(l, y)'

(* A turn of a loop that puts nothing under way: it waits, or its message  *)
(* is lost, or it ends.                                                    *)
LEMMA LoopMoves ==
    ASSUME RostersInv, NEW l \in Loop, loop[l] # NoRoster,
           UNCHANGED <<roster, inmap, invite, edits, editors, dropped>>,
           outmap' \in [Person -> PairwiseMap], shakes' \in Nat, faults' \in Nat,
           stale \subseteq stale',
           NEW q \in LoopState \cup {NoRoster}, loop' = [loop EXCEPT ![l] = q],
           q # NoRoster => /\ ~In(q.by, q.to)
                           /\ q.asked # NoRoster => q.asked.peer # q.by,
           Calm /\ CalmInv => (q # NoRoster => CalmLoop(l)') /\ Handed(l)
    PROVE  RostersInv'
  <1>1. RostersTyped /\ LoopsTyped /\ InvitesTyped /\ MapsTyped
    BY DEF RostersInv, RostersTyped
  <1>2. /\ LoopsTyped' /\ loop'[l] = q
        /\ \A k \in Loop : k # l => loop'[k] = loop[k]
    BY <1>1 DEF LoopsTyped
  <1>3. RostersTyped'
    BY <1>1, <1>2 DEF RostersTyped, InvitesTyped, MapsTyped
  <1>4. edits # 0 /\ Owner \in editors
    BY DEF RostersInv, Uncreated
  <1>5. ASSUME Calm' PROVE CalmInv'
    <2>1. Calm /\ CalmInv
      BY <1>5 DEF Calm, RostersInv
    <2>2. ASSUME NEW k \in Loop, loop'[k] # NoRoster PROVE CalmLoop(k)'
      <3>1. CASE k = l
        BY <1>2, <2>1, <2>2, <3>1
      <3>2. CASE k # l
        <4>1. loop'[k] = loop[k] /\ CalmLoop(k)
          BY <1>2, <2>1, <2>2, <3>2 DEF CalmInv
        <4>2. QED
          BY <4>1 DEF CalmLoop
      <3>3. QED
        BY <3>1, <3>2
    <2>3. ASSUME NEW y \in Person \ (dropped \cup stale'), y # Owner,
                 In(y, roster[Owner].members)
          PROVE  Told(y)'
      <3>1. Told(y)
        BY <2>1, <2>3 DEF CalmInv
      <3>2. ASSUME NEW k \in Loop, Carries(k, y) PROVE Carries(k, y)'
        <4>1. CASE k = l
          BY <2>1, <2>3, <3>2, <4>1 DEF Handed
        <4>2. CASE k # l
          BY <1>2, <3>2, <4>2 DEF Carries
        <4>3. QED
          BY <4>1, <4>2
      <3>3. ToBeSent(y) => ToBeSent(y)'
        BY <3>2 DEF ToBeSent
      <3>4. QED
        BY <3>1, <3>3 DEF Told, Settled
    <2>4. QED
      BY <2>1, <2>2, <2>3 DEF CalmInv, Held
  <1>6. QED
    BY <1>3, <1>4, <1>5 DEF RostersInv

(* A message x for m that leaves loop l while the group is calm: the       *)
(* owner's present definition is in it, or no other that m may read.       *)
CalmLetter(l, u, m, x) ==
    /\ CalmLoop(l)'
    /\ x.def = NoRoster \/ (u = Owner /\ x.def.creator = Owner)
    /\ u = Owner /\ m \notin stale => Harmless(x, roster[Owner])
    /\ \A y \in Person \ stale :
          Carries(l, y) => Carries(l, y)' \/ (y = m /\ x.def = roster[Owner])

(* A message x for m leaves.                                               *)
LEMMA LetterLeaves ==
    ASSUME RostersInv, NEW l \in Loop, loop[l] # NoRoster,
           UNCHANGED <<roster, inmap, edits, editors, stale, dropped>>,
           outmap' \in [Person -> PairwiseMap], shakes' \in Nat, faults' \in Nat,
           NEW q \in LoopState, loop' = [loop EXCEPT ![l] = q],
           ~In(q.by, q.to), q.asked = NoRoster,
           NEW u \in Person, u = loop[l].by, NEW m \in Person, m # u, NEW x \in Letters,
           invite' = [invite EXCEPT ![u][m] = Append(@, x)],
           Calm /\ CalmInv => CalmLetter(l, u, m, x)
    PROVE  RostersInv'
  <1>1. RostersTyped /\ LoopsTyped /\ InvitesTyped /\ MapsTyped
    BY DEF RostersInv, RostersTyped
  <1>2. q # NoRoster
    BY RosterTypes
  <1>3. /\ LoopsTyped' /\ loop'[l] = q
        /\ \A k \in Loop : k # l => loop'[k] = loop[k]
    BY <1>1, <1>2 DEF LoopsTyped
  <1>4. PICK w \in Seq(Letters) : w = invite[u][m]
    BY <1>1 DEF InvitesTyped
  <1>5. PICK w2 \in Seq(Letters) : w2 = Append(w, x)
    <2>1. Append(w, x) \in Seq(Letters)
      BY AppendProperties
    <2>2. QED
      BY <2>1
  <1>6. /\ invite' \in [Person -> [Person -> Seq(Letters)]]
        /\ invite'[u][m] = w2
        /\ \A y, z \in Person : y # u \/ z # m => invite'[y][z] = invite[y][z]
    <2>0. PICK new : new = [invite EXCEPT ![u][m] = w2]
      OBVIOUS
    <2>1. invite' = new
      BY <1>4, <1>5, <2>0
    <2>2. PICK T : T = Seq(Letters)
      OBVIOUS
    <2>3. invite \in [Person -> [Person -> T]] /\ w2 \in T
      BY <1>1, <2>2 DEF InvitesTyped
    <2>4. /\ new \in [Person -> [Person -> T]] /\ new[u][m] = w2
          /\ \A y, z \in Person : y # u \/ z # m => new[y][z] = invite[y][z]
      BY <2>0, <2>3, ChannelEffect
    <2>5. new \in [Person -> [Person -> Seq(Letters)]]
      BY <2>2, <2>4, Zenon
    <2>6. \A y, z \in Person : y # u \/ z # m => invite'[y][z] = invite[y][z]
      BY <2>1, <2>4
    <2>7. invite'[u][m] = w2
      BY <2>1, <2>4
    <2>8. QED
      BY <2>1, <2>5, <2>6, <2>7
  <1>7. RostersTyped'
    <2>1. InvitesTyped'
      BY <1>1, <1>6 DEF InvitesTyped
    <2>2. QED
      BY <1>1, <1>3, <2>1 DEF RostersTyped, MapsTyped
  <1>8. edits # 0 /\ Owner \in editors
    BY DEF RostersInv, Uncreated
  <1>9. \A i \in DOMAIN w2 : (i \in DOMAIN w /\ w2[i] = w[i]) \/ w2[i] = x
    BY <1>5
  <1>10. ASSUME Calm' PROVE CalmInv'
    <2>1. Calm /\ CalmInv /\ CalmLetter(l, u, m, x)
      BY <1>10 DEF Calm, RostersInv
    <2>2. ASSUME NEW k \in Loop, loop'[k] # NoRoster PROVE CalmLoop(k)'
      <3>1. CASE k = l
        BY <2>1, <3>1 DEF CalmLetter
      <3>2. CASE k # l
        <4>1. loop'[k] = loop[k] /\ CalmLoop(k)
          BY <1>3, <2>1, <2>2, <3>2 DEF CalmInv
        <4>2. QED
          BY <4>1 DEF CalmLoop
      <3>3. QED
        BY <3>1, <3>2
    <2>3. ASSUME NEW y \in Person, NEW z \in Person PROVE CalmMail(y, invite'[y][z])
      <3>1. CalmMail(y, invite[y][z])
        BY <2>1 DEF CalmInv
      <3>2. CASE y = u /\ z = m
        <4>1. x.def = NoRoster \/ (u = Owner /\ x.def.creator = Owner)
          BY <2>1 DEF CalmLetter
        <4>2. CalmMail(u, w2)
          BY <1>4, <1>9, <3>1, <3>2, <4>1 DEF CalmMail
        <4>3. QED
          BY <1>6, <3>2, <4>2
      <3>3. CASE ~(y = u /\ z = m)
        BY <1>6, <3>1, <3>3
      <3>4. QED
        BY <3>2, <3>3
    <2>4. ASSUME NEW y \in Person \ (dropped \cup stale), y # Owner,
                 In(y, roster[Owner].members)
          PROVE  Told(y)'
      <3>1. Told(y)
        BY <2>1, <2>4 DEF CalmInv
      <3>2. PICK g : g = roster[Owner] /\ g = roster'[Owner]
        OBVIOUS
      <3>3. CASE u = Owner /\ y = m
        <4>1. Harmless(x, g)
          BY <2>1, <2>4, <3>2, <3>3 DEF CalmLetter
        <4>2. (x.def = g => LastIs(w2, g)) /\ (LastIs(w, g) => LastIs(w2, g))
          BY <1>5, <4>1, LastFacts
        <4>3. invite[Owner][y] = w /\ invite'[Owner][y] = w2
          BY <1>4, <1>6, <3>3
        <4>4. CASE x.def = g
          BY <3>2, <4>2, <4>3, <4>4 DEF Told
        <4>5. CASE LastIs(w, g)
          BY <3>2, <4>2, <4>3, <4>5 DEF Told
        <4>6. CASE Settled(y)
          <5>1. \A i \in DOMAIN w2 : Harmless(w2[i], g)
            BY <1>9, <3>2, <4>1, <4>3, <4>6 DEF Settled
          <5>2. QED
            BY <3>2, <4>3, <4>6, <5>1 DEF Settled, Told
        <4>7. CASE ToBeSent(y) /\ x.def # g
          <5>1. PICK k \in Loop : Carries(k, y)
            BY <4>7 DEF ToBeSent
          <5>2. Carries(k, y)'
            <6>1. CASE k = l
              BY <2>1, <2>4, <3>2, <4>7, <5>1, <6>1 DEF CalmLetter
            <6>2. CASE k # l
              BY <1>3, <5>1, <6>2 DEF Carries
            <6>3. QED
              BY <6>1, <6>2
          <5>3. QED
            BY <5>2 DEF Told, ToBeSent
        <4>8. QED
          BY <3>1, <3>2, <4>3, <4>4, <4>5, <4>6, <4>7 DEF Told
      <3>4. CASE ~(u = Owner /\ y = m)
        <4>1. invite'[Owner][y] = invite[Owner][y]
          BY <1>6, <3>4, RosterTypes
        <4>2. ASSUME NEW k \in Loop, Carries(k, y) PROVE Carries(k, y)'
          <5>1. CASE k = l
            <6>1. u = Owner
              BY <4>2, <5>1 DEF Carries
            <6>2. QED
              BY <2>1, <2>4, <3>4, <4>2, <5>1, <6>1 DEF CalmLetter
          <5>2. CASE k # l
            BY <1>3, <4>2, <5>2 DEF Carries
          <5>3. QED
            BY <5>1, <5>2
        <4>3. ToBeSent(y) => ToBeSent(y)'
          BY <4>2 DEF ToBeSent
        <4>4. QED
          BY <3>1, <4>1, <4>3 DEF Told, Settled
      <3>5. QED
        BY <3>3, <3>4
    <2>5. QED
      BY <2>1, <2>2, <2>3, <2>4 DEF CalmInv, Held
  <1>11. QED
    BY <1>7, <1>8, <1>10 DEF RostersInv

(* What a turn of loop l, for m, sends in a calm group: the owner's        *)
(* present definition, unless l is a text, m is given up or the call had   *)
(* waited; and the others l had it for are still to come.                  *)
SoundSend(l, u, m, n, def, next) ==
    /\ def = NoRoster \/ (u = Owner /\ def.creator = Owner)
    /\ u = Owner /\ m \notin stale => n = 0 \/ def = NoRoster \/ def = roster[Owner]
    /\ \A y \in Person \ stale :
          Carries(l, y) => In(y, next.to) \/ (y = m /\ def = roster[Owner])

(* The loop after a turn: no one is new on its list.                       *)
NextTurn(l, next) ==
    /\ next.by = loop[l].by /\ next.what = loop[l].what /\ next.def = loop[l].def
    /\ next.leaves = loop[l].leaves /\ next.asked = NoRoster
    /\ \A y : In(y, next.to) => In(y, loop[l].to)

(* socket.send in a turn of a loop, whether the message leaves, is lost or *)
(* the loop fails.                                                         *)
LEMMA SendsKeeps ==
    ASSUME RostersInv, NEW l \in Loop, loop[l] # NoRoster,
           UNCHANGED <<roster, inmap, edits, editors, dropped>>,
           outmap' \in [Person -> PairwiseMap], shakes' \in Nat,
           NEW u \in Person, u = loop[l].by, NEW m \in Person, m # u,
           NEW id \in Nat, NEW n \in Nat, NEW def \in Definition \cup {NoRoster},
           NEW next \in LoopState, NextTurn(l, next),
           Calm /\ CalmInv => SoundSend(l, u, m, n, def, next),
           Sends(l, m, id, n, def, next)
    PROVE  RostersInv'
  <1>1. RostersTyped /\ LoopsTyped /\ InvitesTyped /\ faults \in Nat /\ faults + 1 \in Nat
    BY DEF RostersInv, RostersTyped
  <1>2. next # NoRoster /\ next \in LoopState \cup {NoRoster}
    BY RosterTypes
  <1>3. ~In(next.by, next.to) /\ next.asked = NoRoster
    BY <1>1 DEF NextTurn, LoopsTyped
  <1>4. PICK x \in Letters : /\ x = [id |-> id, n |-> n, def |-> def]
                             /\ x.n = n /\ x.def = def
    <2>1. [id |-> id, n |-> n, def |-> def] \in Letters
      BY DEF Letters
    <2>2. QED
      BY <2>1
  <1>5. ASSUME loop' = [loop EXCEPT ![l] = next]
        PROVE  loop'[l] = next
    BY <1>1, <1>5 DEF LoopsTyped
  <1>6. ASSUME loop' = [loop EXCEPT ![l] = next], stale \subseteq stale', Calm, CalmInv
        PROVE  CalmLoop(l)'
    <2>1. CalmLoop(l)
      BY <1>6 DEF CalmInv
    <2>2. loop'[l] = next
      BY <1>5, <1>6
    <2>3. QED
      BY <1>6, <2>1, <2>2 DEF CalmLoop, NextTurn
  <1>7. ASSUME loop' = [loop EXCEPT ![l] = next], NEW y, Carries(l, y), In(y, next.to)
        PROVE  Carries(l, y)'
    <2>1. loop'[l] = next
      BY <1>5, <1>7
    <2>2. QED
      BY <1>2, <1>7, <2>1 DEF Carries, NextTurn
  <1>8. CASE /\ invite' = [invite EXCEPT ![u][m] = Append(@, x)]
             /\ loop' = [loop EXCEPT ![l] = next]
             /\ UNCHANGED <<faults, stale>>
    <2>1. faults' \in Nat /\ stale' = stale /\ stale \subseteq stale'
      BY <1>1, <1>8
    <2>2. ASSUME Calm, CalmInv PROVE CalmLetter(l, u, m, x)
      <3>1. CalmLoop(l)'
        BY <1>6, <1>8, <2>1, <2>2
      <3>2. SoundSend(l, u, m, n, def, next)
        BY <2>2
      <3>3. u = Owner /\ m \notin stale => Harmless(x, roster[Owner])
        BY <1>4, <3>2 DEF SoundSend, Harmless
      <3>4. ASSUME NEW y \in Person \ stale, Carries(l, y)
            PROVE  Carries(l, y)' \/ (y = m /\ x.def = roster[Owner])
        <4>1. In(y, next.to) \/ (y = m /\ def = roster[Owner])
          BY <3>2, <3>4 DEF SoundSend
        <4>2. QED
          BY <1>4, <1>7, <1>8, <3>4, <4>1
      <3>5. QED
        BY <1>4, <3>1, <3>2, <3>3, <3>4 DEF CalmLetter, SoundSend
    <2>3. QED
      BY <1>3, <1>8, <2>1, <2>2, LetterLeaves
  <1>9. CASE /\ faults' = faults + 1
             /\ loop' = [loop EXCEPT ![l] = next]
             /\ stale' = stale \cup Missed(l, m, def)
             /\ UNCHANGED invite
    <2>1. faults' \in Nat /\ stale \subseteq stale'
      BY <1>1, <1>9
    <2>2. ASSUME Calm, CalmInv PROVE CalmLoop(l)' /\ Handed(l)
      <3>1. CalmLoop(l)'
        BY <1>6, <1>9, <2>1, <2>2
      <3>2. ASSUME NEW y \in Person \ stale', Carries(l, y) PROVE Carries(l, y)'
        <4>1. SoundSend(l, u, m, n, def, next) /\ y \notin stale
          BY <2>1, <2>2, <3>2
        <4>2. In(y, next.to) \/ (y = m /\ def = roster[Owner])
          BY <3>2, <4>1 DEF SoundSend
        <4>3. CASE In(y, next.to)
          BY <1>7, <1>9, <3>2, <4>3
        <4>4. CASE y = m /\ def = roster[Owner]
          <5>1. roster[Owner] # NoRoster /\ loop[l].by = Owner
            BY <2>2, <3>2 DEF CalmInv, Held, Carries
          <5>2. m \in Missed(l, m, def)
            BY <4>4, <5>1 DEF Missed
          <5>3. QED
            BY <1>9, <3>2, <4>4, <5>2
        <4>5. QED
          BY <4>2, <4>3, <4>4
      <3>3. QED
        BY <3>1, <3>2 DEF Handed
    <2>3. QED
      BY <1>2, <1>3, <1>9, <2>1, <2>2, LoopMoves
  <1>10. CASE /\ faults' = faults + 1
              /\ loop' = [loop EXCEPT ![l] = NoRoster]
              /\ stale' = stale \cup Untold(l, m)
              /\ UNCHANGED invite
    <2>1. faults' \in Nat /\ stale \subseteq stale'
      BY <1>1, <1>10
    <2>2. ASSUME Calm, CalmInv PROVE Handed(l)
      <3> SUFFICES ASSUME NEW y \in Person \ stale', Carries(l, y) PROVE FALSE
        BY DEF Handed
      <3>1. SoundSend(l, u, m, n, def, next) /\ y \notin stale
        BY <2>1, <2>2
      <3>2. In(y, next.to) \/ y = m
        BY <3>1 DEF SoundSend
      <3>3. y = m \/ In(y, loop[l].to)
        BY <3>2 DEF NextTurn
      <3>4. y \in Untold(l, m)
        BY <3>3 DEF Untold, Carries
      <3>5. QED
        BY <1>10, <3>4
    <2>3. PICK q \in LoopState \cup {NoRoster} : q = NoRoster
      OBVIOUS
    <2>4. QED
      BY <1>10, <2>1, <2>2, <2>3, LoopMoves
  <1>11. QED
    BY <1>4, <1>8, <1>9, <1>10 DEF Sends

-----------------------------------------------------------------------------
(* The turns of a loop.                                                    *)

(* What a turn works with.                                                 *)
Turn(l, r, u, m, rest, def) ==
    /\ r = loop[l] /\ r # NoRoster /\ r.asked = NoRoster
    /\ u = r.by /\ m = Head(r.to) /\ rest = Tail(r.to)
    /\ m # u /\ ~In(u, rest) /\ In(m, r.to)
    /\ \A x : In(x, r.to) => x = m \/ In(x, rest)
    /\ \A x : In(x, rest) => In(x, r.to)
    /\ def = Says(l)

(* The head of the list is the next recipient, who is another user, and    *)
(* what is said is a definition or none.                                   *)
LEMMA TurnFacts ==
    ASSUME RostersInv, NEW l \in Loop, Runs(l), loop[l].to # <<>>
    PROVE  \E r \in LoopState, u \in Person, m \in Person, rest \in MemberList,
              def \in Definition \cup {NoRoster} : Turn(l, r, u, m, rest, def)
  <1>1. RostersTyped /\ LoopsTyped
    BY DEF RostersInv, RostersTyped
  <1>2. PICK r \in LoopState : /\ r = loop[l] /\ r # NoRoster /\ r.asked = NoRoster
                               /\ r.to # <<>> /\ ~In(r.by, r.to)
    BY <1>1 DEF LoopsTyped, Runs
  <1>3. PICK u \in Person : u = r.by
    BY <1>2 DEF LoopState
  <1>4. PICK to \in MemberList : to = r.to /\ to # <<>>
    BY <1>2 DEF LoopState
  <1>5. /\ Head(to) \in Person /\ In(Head(to), to) /\ Tail(to) \in MemberList
        /\ \A x : In(x, to) => x = Head(to) \/ In(x, Tail(to))
        /\ \A x : In(x, Tail(to)) => In(x, to)
    BY <1>4, RestFacts
  <1>6. PICK m \in Person : m = Head(to)
    BY <1>5
  <1>7. PICK rest \in MemberList : rest = Tail(to)
    BY <1>5
  <1>8. Says(l) \in Definition \cup {NoRoster}
    <2>1. roster[u] \in Definition \cup {NoRoster} /\ r.def \in Definition \cup {NoRoster}
      BY <1>1, <1>2 DEF RostersTyped, LoopState
    <2>2. QED
      BY <1>2, <1>3, <2>1 DEF Says
  <1>9. PICK def \in Definition \cup {NoRoster} : def = Says(l)
    BY <1>8
  <1>10. Turn(l, r, u, m, rest, def)
    <2>1. m # u /\ ~In(u, rest) /\ In(m, r.to)
      BY <1>2, <1>3, <1>4, <1>5, <1>6, <1>7
    <2>2. /\ m = Head(r.to) /\ rest = Tail(r.to)
          /\ \A x : In(x, r.to) => x = m \/ In(x, rest)
          /\ \A x : In(x, rest) => In(x, r.to)
      BY <1>4, <1>5, <1>6, <1>7
    <2>3. QED
      BY <1>2, <1>3, <1>9, <2>1, <2>2 DEF Turn
  <1>11. QED
    BY <1>10

(* What it finds in a calm group: the owner's present definition, or none, *)
(* or a recipient who is given up.                                         *)
CalmTurn(l, u, m, rest, def) ==
    /\ def = NoRoster \/ (u = Owner /\ def.creator = Owner)
    /\ u = Owner /\ m \notin stale => def = NoRoster \/ def = roster[Owner]
    /\ \A y \in Person \ stale :
          Carries(l, y) => In(y, rest) \/ (y = m /\ def = roster[Owner])

(* In a calm group every turn is one of these.                             *)
LEMMA TurnSound ==
    ASSUME RostersInv, NEW l \in Loop, Calm, CalmInv,
           NEW r, NEW u, NEW m \in Person, NEW rest, NEW def, Turn(l, r, u, m, rest, def)
    PROVE  CalmTurn(l, u, m, rest, def)
  <1>1. CalmLoop(l) /\ Held(Owner) /\ roster[Owner].creator = Owner
    BY DEF CalmInv, Turn
  <1>2. \/ loop[l].what = "text" /\ def = NoRoster
        \/ /\ u = Owner /\ def.creator = Owner
           /\ def = roster[Owner] \/ m \in stale
    BY <1>1 DEF CalmLoop, Turn, Says
  <1>3. ASSUME NEW y \in Person \ stale, Carries(l, y)
        PROVE  In(y, rest) \/ (y = m /\ def = roster[Owner])
    <2>1. loop[l].what # "text" /\ In(y, loop[l].to)
      BY <1>3 DEF Carries, Turn
    <2>2. y = m \/ In(y, rest)
      BY <2>1 DEF Turn
    <2>3. QED
      BY <1>2, <1>3, <2>1, <2>2
  <1>4. QED
    BY <1>2, <1>3 DEF CalmTurn

(* encrypt with a session, and send.                                       *)
LEMMA SendNowKeeps ==
    ASSUME RostersInv, NEW l \in Loop, SendNow(l)
    PROVE  RostersInv'
  <1>1. Runs(l) /\ loop[l].to # <<>> /\ MapsTyped
    <2>1. Runs(l) /\ loop[l].to # <<>>
      BY Zenon DEF SendNow
    <2>2. QED
      BY <2>1 DEF RostersInv, RostersTyped
  <1>2. PICK r \in LoopState, u \in Person, m \in Person, rest \in MemberList,
             def \in Definition \cup {NoRoster} : Turn(l, r, u, m, rest, def)
    BY <1>1, TurnFacts
  <1>3. /\ r = loop[l] /\ r # NoRoster /\ r.asked = NoRoster /\ u = r.by
        /\ m = Head(r.to) /\ rest = Tail(r.to) /\ m # u /\ def = Says(l)
        /\ \A x : In(x, rest) => In(x, r.to)
    BY <1>2 DEF Turn
  <1>4. PICK s : s = outmap[u][m]
    OBVIOUS
  <1>5. PICK next \in LoopState :
             /\ next = [r EXCEPT !.to = rest] /\ next.to = rest
             /\ next.by = r.by /\ next.what = r.what /\ next.def = r.def
             /\ next.leaves = r.leaves /\ next.asked = r.asked
    <2>1. [r EXCEPT !.to = rest] \in LoopState
      BY DEF LoopState
    <2>2. QED
      BY <2>1 DEF LoopState
  <1>6. /\ s # NoRoster
        /\ outmap' = [outmap EXCEPT ![u][m] = [id |-> s.id, n |-> s.n + 1]]
        /\ Sends(l, m, s.id, s.n, def, next)
        /\ UNCHANGED <<roster, inmap, shakes, edits, editors, dropped>>
    <2>1. /\ loop[l].by = u /\ Head(loop[l].to) = m /\ Says(l) = def
          /\ [loop[l] EXCEPT !.to = Tail(@)] = next
      BY <1>3, <1>5
    <2>2. QED
      BY <1>4, <2>1, Zenon DEF SendNow
  <1>7. s \in Pairwise
    BY <1>1, <1>4, <1>6 DEF MapsTyped, PairwiseMap
  <1>8. s.id \in Nat /\ s.n \in Nat
    BY <1>7 DEF Pairwise
  <1>9. outmap' \in [Person -> PairwiseMap] /\ shakes' \in Nat
    <2>0. [id |-> s.id, n |-> s.n + 1] \in Pairwise
      <3>1. s.n + 1 \in Nat \ {0}
        BY <1>8
      <3>2. QED
        BY <1>8, <3>1 DEF Pairwise
    <2>1. PICK k \in Pairwise \cup {NoRoster} : k = [id |-> s.id, n |-> s.n + 1]
      BY <2>0
    <2>2. outmap' = [outmap EXCEPT ![u][m] = k]
      BY <1>6, <2>1
    <2>3. QED
      BY <1>1, <1>6, <2>2 DEF MapsTyped, PairwiseMap
  <1>10. NextTurn(l, next)
    BY <1>3, <1>5 DEF NextTurn
  <1>11. Calm /\ CalmInv => SoundSend(l, u, m, s.n, def, next)
    <2> SUFFICES ASSUME Calm, CalmInv PROVE SoundSend(l, u, m, s.n, def, next)
      OBVIOUS
    <2>1. CalmTurn(l, u, m, rest, def)
      BY <1>2, TurnSound
    <2>2. QED
      BY <1>5, <2>1 DEF SoundSend, CalmTurn
  <1>12. loop[l] # NoRoster /\ u = loop[l].by
    BY <1>3
  <1>13. PICK id \in Nat, n \in Nat : id = s.id /\ n = s.n
    BY <1>8
  <1>14. /\ Calm /\ CalmInv => SoundSend(l, u, m, n, def, next)
         /\ Sends(l, m, id, n, def, next)
    BY <1>6, <1>11, <1>13
  <1>15. UNCHANGED <<roster, inmap, edits, editors, dropped>>
    BY <1>6
  <1>16. QED
    BY <1>3, <1>9, <1>10, <1>12, <1>14, <1>15, SendsKeeps

(* encrypt without a session: the present definition is in hand.           *)
LEMMA AskKeeps ==
    ASSUME RostersInv, NEW l \in Loop, AskBundle(l)
    PROVE  RostersInv'
  <1>1. Runs(l) /\ loop[l].to # <<>> /\ MapsTyped /\ LoopsTyped /\ faults \in Nat
    BY DEF AskBundle, RostersInv, RostersTyped
  <1>2. PICK r \in LoopState, u \in Person, m \in Person, rest \in MemberList,
             def \in Definition \cup {NoRoster} : Turn(l, r, u, m, rest, def)
    BY <1>1, TurnFacts
  <1>3. /\ r = loop[l] /\ r # NoRoster /\ r.asked = NoRoster /\ u = r.by
        /\ m = Head(r.to) /\ rest = Tail(r.to) /\ m # u /\ ~In(u, rest) /\ def = Says(l)
        /\ \A x : In(x, rest) => In(x, r.to)
    BY <1>2 DEF Turn
  <1>4. PICK a \in Asked : /\ a = [peer |-> m, def |-> def, map |-> outmap[u]]
                           /\ a.peer = m /\ a.def = def /\ a # NoRoster
    <2>1. outmap[u] \in PairwiseMap
      BY <1>1 DEF MapsTyped
    <2>2. [peer |-> m, def |-> def, map |-> outmap[u]] \in Asked
      BY <2>1 DEF Asked
    <2>3. QED
      BY <2>2, RosterTypes
  <1>5. PICK q \in LoopState :
             /\ q = [r EXCEPT !.to = rest, !.asked = a] /\ q.to = rest
             /\ q.by = r.by /\ q.what = r.what /\ q.def = r.def
             /\ q.leaves = r.leaves /\ q.asked = a
    <2>1. [r EXCEPT !.to = rest, !.asked = a] \in LoopState
      BY DEF LoopState
    <2>2. QED
      BY <2>1 DEF LoopState
  <1>6. /\ loop' = [loop EXCEPT ![l] = q]
        /\ UNCHANGED <<roster, outmap, inmap, shakes, invite, edits, editors, stale,
                       dropped, faults>>
    <2>1. /\ loop[l].by = u /\ Head(loop[l].to) = m
          /\ [loop[l] EXCEPT !.to = Tail(@),
                 !.asked = [peer |-> m, def |-> Says(l), map |-> outmap[u]]] = q
      BY <1>3, <1>4, <1>5
    <2>2. loop' = [loop EXCEPT ![l] = q]
      BY <2>1 DEF AskBundle
    <2>3. QED
      BY <2>2 DEF AskBundle, chats
  <1>7. loop'[l] = q /\ q # NoRoster
    BY <1>1, <1>6, RosterTypes DEF LoopsTyped
  <1>8. ASSUME Calm, CalmInv PROVE CalmLoop(l)' /\ Handed(l)
    <2>1. CalmTurn(l, u, m, rest, def)
      BY <1>2, <1>8, TurnSound
    <2>2. CalmLoop(l)
      BY <1>3, <1>8 DEF CalmInv
    <2>3. CalmLoop(l)'
      BY <1>3, <1>4, <1>5, <1>6, <1>7, <2>1, <2>2 DEF CalmLoop, CalmTurn
    <2>4. ASSUME NEW y \in Person \ stale, Carries(l, y) PROVE Carries(l, y)'
      <3>1. In(y, rest) \/ (y = m /\ def = roster[Owner])
        BY <2>1, <2>4 DEF CalmTurn
      <3>2. QED
        BY <1>3, <1>4, <1>5, <1>6, <1>7, <2>4, <3>1 DEF Carries
    <2>5. QED
      BY <1>6, <2>3, <2>4 DEF Handed
  <1>9. /\ ~In(q.by, q.to) /\ q.asked.peer # q.by /\ loop[l] # NoRoster
        /\ q \in LoopState \cup {NoRoster}
    BY <1>3, <1>4, <1>5
  <1>10. /\ outmap' \in [Person -> PairwiseMap] /\ shakes' \in Nat /\ faults' \in Nat
         /\ stale \subseteq stale'
         /\ UNCHANGED <<roster, inmap, invite, edits, editors, dropped>>
    BY <1>1, <1>6 DEF MapsTyped
  <1>11. QED
    BY <1>6, <1>8, <1>9, <1>10, LoopMoves

(* The bundle arrives: what was in hand leaves as the first message of a   *)
(* handshake.                                                              *)
LEMMA ArrivesKeeps ==
    ASSUME RostersInv, NEW l \in Loop, BundleArrives(l)
    PROVE  RostersInv'
  <1>1. Asking(l)
    BY Zenon DEF BundleArrives
  <1>2. RostersTyped /\ MapsTyped /\ LoopsTyped
    BY DEF RostersInv, RostersTyped
  <1>3. PICK r \in LoopState : /\ r = loop[l] /\ r # NoRoster /\ r.asked # NoRoster
                               /\ r.asked.peer # r.by
    BY <1>1, <1>2 DEF LoopsTyped, Asking
  <1>4. PICK a \in Asked : a = r.asked
    BY <1>3 DEF LoopState
  <1>5. PICK u \in Person : u = r.by
    BY DEF LoopState
  <1>6. PICK m \in Person : m = a.peer
    BY DEF Asked
  <1>7. PICK def \in Definition \cup {NoRoster} : def = a.def
    BY DEF Asked
  <1>8. PICK map \in PairwiseMap : map = a.map
    BY DEF Asked
  <1>9. PICK next \in LoopState :
             /\ next = [r EXCEPT !.asked = NoRoster] /\ next.to = r.to
             /\ next.by = r.by /\ next.what = r.what /\ next.def = r.def
             /\ next.leaves = r.leaves /\ next.asked = NoRoster
    <2>1. [r EXCEPT !.asked = NoRoster] \in LoopState
      BY DEF LoopState
    <2>2. QED
      BY <2>1 DEF LoopState
  <1>10. /\ outmap' = [outmap EXCEPT ![u] = [map EXCEPT ![m] = [id |-> shakes, n |-> 1]]]
         /\ Sends(l, m, shakes, 0, def, next)
         /\ shakes' = shakes + 1
         /\ UNCHANGED <<roster, inmap, edits, editors, dropped>>
    <2>1. /\ loop[l].by = u /\ loop[l].asked = a
          /\ [loop[l] EXCEPT !.asked = NoRoster] = next
      BY <1>3, <1>4, <1>5, <1>9
    <2>2. QED
      BY <1>6, <1>7, <1>8, <2>1, Zenon DEF BundleArrives
  <1>11. shakes' \in Nat
    BY <1>2, <1>10 DEF MapsTyped
  <1>12. outmap' \in [Person -> PairwiseMap]
    <2>1. [id |-> shakes, n |-> 1] \in Pairwise
      BY <1>2 DEF MapsTyped, Pairwise
    <2>2. PICK k \in Pairwise \cup {NoRoster} : k = [id |-> shakes, n |-> 1]
      BY <2>1
    <2>3. PICK new \in PairwiseMap : new = [map EXCEPT ![m] = k]
      BY DEF PairwiseMap
    <2>4. outmap' = [outmap EXCEPT ![u] = new]
      BY <1>10, <2>2, <2>3
    <2>5. QED
      BY <1>2, <2>4 DEF MapsTyped
  <1>13. NextTurn(l, next)
    BY <1>3, <1>9 DEF NextTurn
  <1>14. PICK id \in Nat, n \in Nat : id = shakes /\ n = 0
    BY <1>2 DEF MapsTyped
  <1>15. ASSUME Calm, CalmInv PROVE SoundSend(l, u, m, n, def, next)
    <2>1. CalmLoop(l)
      BY <1>3, <1>15 DEF CalmInv
    <2>2. def = NoRoster \/ (u = Owner /\ def.creator = Owner)
      BY <1>3, <1>4, <1>5, <1>7, <2>1 DEF CalmLoop
    <2>3. ASSUME NEW y \in Person, Carries(l, y)
          PROVE  In(y, next.to) \/ (y = m /\ def = roster[Owner])
      BY <1>3, <1>4, <1>6, <1>7, <1>9, <2>3 DEF Carries
    <2>4. QED
      BY <1>14, <2>2, <2>3 DEF SoundSend
  <1>16. Sends(l, m, id, n, def, next)
    BY <1>10, <1>14
  <1>17. loop[l] # NoRoster /\ u = loop[l].by /\ m # u
    BY <1>3, <1>4, <1>5, <1>6
  <1>18. UNCHANGED <<roster, inmap, edits, editors, dropped>>
    BY <1>10
  <1>19. QED
    BY <1>11, <1>12, <1>13, <1>15, <1>16, <1>17, <1>18, SendsKeeps

(* The bundle cannot be had: who the loop had still to tell is given up.   *)
LEMMA BundleFailsKeeps ==
    ASSUME RostersInv, NEW l \in Loop, BundleFails(l)
    PROVE  RostersInv'
  <1>1. /\ loop[l] # NoRoster /\ loop' = [loop EXCEPT ![l] = NoRoster]
        /\ faults' = faults + 1
        /\ stale' = stale \cup Untold(l, loop[l].asked.peer)
        /\ UNCHANGED <<roster, outmap, inmap, shakes, invite, edits, editors, dropped>>
    BY DEF BundleFails, Asking, chats
  <1>2. /\ outmap' \in [Person -> PairwiseMap] /\ shakes' \in Nat /\ faults' \in Nat
        /\ stale \subseteq stale'
    BY <1>1 DEF RostersInv, RostersTyped, MapsTyped
  <1>3. ASSUME NEW y \in Person \ stale', Carries(l, y) PROVE FALSE
    BY <1>1, <1>3 DEF Carries, Untold
  <1>4. PICK q \in LoopState \cup {NoRoster} : q = NoRoster
    OBVIOUS
  <1>5. Handed(l)
    BY <1>3 DEF Handed
  <1>6. UNCHANGED <<roster, inmap, invite, edits, editors, dropped>>
    BY <1>1
  <1>7. QED
    BY <1>1, <1>2, <1>4, <1>5, <1>6, LoopMoves

(* The end of a handler: it had told everyone on its list.                 *)
LEMMA EndKeeps ==
    ASSUME RostersInv, NEW l \in Loop, EndLoop(l)
    PROVE  RostersInv'
  <1>1. RostersTyped /\ LoopsTyped /\ InvitesTyped /\ MapsTyped
    BY DEF RostersInv, RostersTyped
  <1>2. PICK r \in LoopState : /\ r = loop[l] /\ r # NoRoster /\ r.to = <<>>
                               /\ r.asked = NoRoster
    BY <1>1 DEF LoopsTyped, EndLoop, Runs
  <1>3. PICK u \in Person : u = r.by
    BY <1>2 DEF LoopState
  <1>4. PICK kept : kept = IF r.leaves THEN Detached(u) ELSE loop
    OBVIOUS
  <1>5. /\ roster' = IF r.leaves THEN [roster EXCEPT ![u] = NoRoster] ELSE roster
        /\ loop' = [kept EXCEPT ![l] = NoRoster]
        /\ dropped' = IF r.leaves THEN dropped \cup {u} ELSE dropped
        /\ UNCHANGED <<outmap, inmap, shakes, invite, edits, editors, stale, faults>>
    BY <1>2, <1>3, <1>4 DEF EndLoop, chats
  <1>6. /\ kept \in [Loop -> LoopState \cup {NoRoster}]
        /\ \A k \in Loop : kept[k] # NoRoster =>
              /\ ~In(kept[k].by, kept[k].to)
              /\ kept[k].asked # NoRoster => kept[k].asked.peer # kept[k].by
    BY <1>1, <1>4, DetachedFacts DEF LoopsTyped
  <1>7. /\ loop' \in [Loop -> LoopState \cup {NoRoster}] /\ loop'[l] = NoRoster
        /\ \A k \in Loop : k # l => loop'[k] = kept[k]
    BY <1>5, <1>6
  <1>8. RostersTyped'
    <2>1. roster' \in [Person -> Definition \cup {NoRoster}]
      BY <1>1, <1>5 DEF RostersTyped
    <2>2. LoopsTyped'
      BY <1>6, <1>7 DEF LoopsTyped
    <2>3. QED
      BY <1>1, <1>5, <2>1, <2>2 DEF RostersTyped, InvitesTyped, MapsTyped
  <1>9. edits # 0 /\ Owner \in editors
    BY <1>2 DEF RostersInv, Uncreated
  <1>10. ASSUME Calm' PROVE CalmInv'
    <2>1. Calm /\ CalmInv /\ CalmLoop(l)
      BY <1>2, <1>5, <1>10 DEF Calm, RostersInv, CalmInv
    <2>2. ~r.leaves
      <3>1. r.leaves => u = Owner
        BY <1>2, <1>3, <2>1 DEF CalmLoop
      <3>2. QED
        BY <1>5, <1>10, <3>1 DEF Calm
    <2>3. /\ roster' = roster /\ dropped' = dropped
          /\ \A k \in Loop : k # l => loop'[k] = loop[k]
      BY <1>4, <1>5, <1>7, <2>2
    <2>4. \A k \in Loop : loop'[k] # NoRoster => CalmLoop(k)'
      BY <1>5, <1>7, <2>1, <2>3 DEF CalmInv, CalmLoop
    <2>6. ASSUME NEW y \in Person \ (dropped \cup stale), y # Owner, In(y, roster[Owner].members)
          PROVE  Told(y)'
      <3>1. Told(y)
        BY <2>1, <2>6 DEF CalmInv
      <3>2. ~Carries(l, y)
        BY <1>2 DEF In, Carries
      <3>3. ToBeSent(y) => ToBeSent(y)'
        BY <2>3, <3>2 DEF ToBeSent, Carries
      <3>4. QED
        BY <1>5, <2>3, <3>1, <3>3 DEF Told, Settled
    <2>7. QED
      BY <1>5, <2>1, <2>3, <2>4, <2>6 DEF CalmInv, Held
  <1>11. QED
    BY <1>5, <1>8, <1>9, <1>10 DEF RostersInv

(* onIncoming: the owner's last definition replaces any copy, and a text   *)
(* none; who cannot read the present definition is given up, and no one    *)
(* with a session reads the first message of another handshake.            *)
LEMMA ReceiveKeeps ==
    ASSUME RostersInv, NEW u \in Person, NEW v \in Person, Receive(u, v)
    PROVE  RostersInv'
  <1>1. RostersTyped /\ LoopsTyped /\ InvitesTyped /\ MapsTyped
    BY DEF RostersInv, RostersTyped
  <1>2. PICK w \in Seq(Letters) : w = invite[u][v] /\ w # <<>>
    BY <1>1 DEF InvitesTyped, Receive
  <1>3. u # v
    BY <1>1, <1>2 DEF InvitesTyped
  <1>4. PICK x \in Letters : x = Head(w)
    BY <1>2
  <1>5. PICK def \in Definition \cup {NoRoster} : def = x.def
    BY DEF Letters
  <1>6. PICK read \in BOOLEAN : read = Legible(u, v, x)
    BY DEF Legible
  <1>7. PICK new : new = IF read THEN Heard(u, v, def) ELSE roster[v]
    OBVIOUS
  <1>8. PICK t \in Seq(Letters) : t = Tail(w)
    BY <1>2, HeadTailProperties
  <1>9. /\ invite' = [invite EXCEPT ![u][v] = t]
        /\ UNCHANGED <<loop, outmap, shakes, edits, editors, dropped, faults>>
    BY <1>2, <1>8 DEF Receive
  <1>10. /\ read => /\ roster' = [roster EXCEPT ![v] = new] /\ stale' = stale
                    /\ inmap' = [inmap EXCEPT ![v][u] = [id |-> x.id, n |-> x.n + 1]]
         /\ ~read => /\ roster' = roster /\ inmap' = inmap
                     /\ stale' = IF u = Owner /\ def # NoRoster /\ def = roster[Owner]
                                 THEN stale \cup {v} ELSE stale
    BY <1>2, <1>4, <1>5, <1>6, <1>7 DEF Receive
  <1>11. new \in Definition \cup {NoRoster}
    <2>1. roster[v] \in Definition \cup {NoRoster}
      BY <1>1 DEF RostersTyped
    <2>2. CASE read /\ def # NoRoster
      BY <1>5, <1>7, <2>1, <2>2 DEF Heard, Synced, Definition
    <2>3. CASE read /\ def = NoRoster /\ roster[v] = NoRoster
      <3>1. <<v, u>> \in Seq(Person) /\ Distinct(<<v, u>>)
        BY <1>3 DEF Distinct
      <3>2. Placeholder(v, u) \in Definition
        BY <3>1 DEF Placeholder, Definition, MemberList
      <3>3. QED
        BY <1>7, <2>3, <3>2 DEF Heard
    <2>4. QED
      BY <1>7, <2>1, <2>2, <2>3 DEF Heard
  <1>12. /\ roster' \in [Person -> Definition \cup {NoRoster}]
         /\ roster'[v] = new /\ \A y \in Person : y # v => roster'[y] = roster[y]
    BY <1>1, <1>7, <1>10, <1>11 DEF RostersTyped
  <1>13. /\ invite' \in [Person -> [Person -> Seq(Letters)]]
         /\ invite'[u][v] = t
         /\ \A y, z \in Person : y # u \/ z # v => invite'[y][z] = invite[y][z]
    <2>1. invite \in [Person -> [Person -> Seq(Letters)]]
      BY <1>1 DEF InvitesTyped
    <2>2. PICK f : f = [invite EXCEPT ![u][v] = t]
      OBVIOUS
    <2>3. /\ f \in [Person -> [Person -> Seq(Letters)]] /\ f[u][v] = t
          /\ \A y, z \in Person : y # u \/ z # v => f[y][z] = invite[y][z]
      BY <2>1, <2>2, ChannelEffect
    <2>4. invite' = f
      BY <1>9, <2>2
    <2>5. QED
      BY <2>3, <2>4
  <1>14. x.n \in Nat /\ x.n + 1 \in Nat \ {0} /\ x.id \in Nat
    BY DEF Letters
  <1>15. /\ inmap' \in [Person -> PairwiseMap]
         /\ \A y, z \in Person : z # v \/ y # u => inmap'[z][y] = inmap[z][y]
         /\ inmap[v][u] # NoRoster \/ read => inmap'[v][u] # NoRoster
    <2>1. [id |-> x.id, n |-> x.n + 1] \in Pairwise
      BY <1>14 DEF Pairwise
    <2>2. PICK s \in Pairwise : s = [id |-> x.id, n |-> x.n + 1]
      BY <2>1
    <2>3. s # NoRoster
      BY RosterTypes
    <2>4. inmap \in [Person -> PairwiseMap]
      BY <1>1 DEF MapsTyped
    <2>5. CASE read
      <3>1. inmap' = [inmap EXCEPT ![v][u] = s]
        BY <1>10, <2>2, <2>5
      <3>2. QED
        BY <2>3, <2>4, <3>1 DEF PairwiseMap
    <2>6. CASE ~read
      BY <1>10, <2>4, <2>6
    <2>7. QED
      BY <2>5, <2>6
  <1>16. RostersTyped'
    <2>1. InvitesTyped'
      BY <1>1, <1>3, <1>13 DEF InvitesTyped
    <2>2. LoopsTyped'
      BY <1>1, <1>9 DEF LoopsTyped
    <2>3. MapsTyped'
      BY <1>1, <1>9, <1>15 DEF MapsTyped
    <2>4. QED
      BY <1>1, <1>9, <1>12, <2>1, <2>2, <2>3 DEF RostersTyped
  <1>17. edits # 0 /\ Owner \in editors
    BY <1>2 DEF RostersInv, Uncreated
  <1>18. \A i \in DOMAIN t : i + 1 \in DOMAIN w /\ t[i] = w[i + 1]
    BY <1>2, <1>8
  <1>19. 1 \in DOMAIN w /\ x = w[1]
    BY <1>2, <1>4
  <1>20. stale \subseteq stale'
    BY <1>10
  <1>21. ASSUME Calm' PROVE CalmInv'
    <2>1. Calm /\ CalmInv /\ CalmMail(u, w)
      BY <1>2, <1>9, <1>21 DEF Calm, RostersInv, CalmInv
    <2>2. def = NoRoster \/ (u = Owner /\ def.creator = Owner)
      BY <1>5, <1>19, <2>1 DEF CalmMail
    <2>3. Owner # NoRoster /\ Owner \in Person
      BY RosterTypes
    <2>4. /\ read /\ def # NoRoster => new = def
          /\ roster[v] # NoRoster /\ (def = NoRoster \/ ~read) => new = roster[v]
      BY <1>7, <2>2, <2>3 DEF Heard, Synced
    <2>5. roster'[Owner] = roster[Owner] /\ roster[Owner] # NoRoster
      <3>1. CASE v = Owner
        <4>1. def = NoRoster /\ roster[Owner] # NoRoster
          BY <1>3, <2>1, <2>2, <3>1 DEF CalmInv, Held
        <4>2. QED
          BY <1>12, <2>4, <3>1, <4>1
      <3>2. CASE v # Owner
        BY <1>12, <2>1, <2>3, <3>2 DEF CalmInv, Held
      <3>3. QED
        BY <3>1, <3>2
    <2>6. ASSUME NEW l \in Loop, loop'[l] # NoRoster PROVE CalmLoop(l)'
      <3>1. CalmLoop(l) /\ loop'[l] = loop[l]
        BY <1>9, <2>1, <2>6 DEF CalmInv
      <3>2. QED
        BY <1>20, <2>5, <3>1 DEF CalmLoop
    <2>7. ASSUME NEW y \in Person, NEW z \in Person PROVE CalmMail(y, invite'[y][z])
      <3>1. CASE y = u /\ z = v
        BY <1>13, <1>18, <2>1, <3>1 DEF CalmMail
      <3>2. CASE ~(y = u /\ z = v)
        BY <1>13, <2>1, <3>2 DEF CalmInv
      <3>3. QED
        BY <3>1, <3>2
    <2>8. PICK g : g = roster[Owner] /\ g = roster'[Owner] /\ g # NoRoster
      BY <2>5
    <2>9. ASSUME NEW y \in Person \ (dropped \cup stale'), y # Owner,
                 In(y, roster[Owner].members)
          PROVE  Told(y)'
      <3>1. Told(y)
        BY <1>20, <2>1, <2>9 DEF CalmInv
      <3>2. ToBeSent(y) => ToBeSent(y)'
        BY <1>9, <2>5 DEF ToBeSent, Carries
      <3>3. CASE u = Owner /\ y = v
        <4>0. /\ invite[Owner][y] = w /\ invite'[Owner][y] = t
              /\ roster'[y] = new
          BY <1>2, <1>12, <1>13, <3>3
        <4>1. CASE LastIs(w, g) /\ ~LastIs(t, g)
          <5>1. def = g /\ \A i \in DOMAIN t : Harmless(t[i], g)
            BY <1>2, <1>4, <1>5, <1>8, <4>1, LastFacts
          <5>2. read
            BY <1>10, <2>8, <2>9, <3>3, <5>1
          <5>3. new = g /\ inmap'[y][Owner] # NoRoster
            BY <1>15, <2>4, <2>8, <3>3, <5>1, <5>2
          <5>4. QED
            BY <2>8, <4>0, <5>1, <5>3 DEF Told, Settled
        <4>2. CASE LastIs(t, g)
          BY <2>8, <4>0, <4>2 DEF Told
        <4>3. CASE Settled(y)
          <5>1. /\ roster[v] = g /\ inmap[v][Owner] # NoRoster
                /\ \A i \in DOMAIN w : Harmless(w[i], g)
            BY <2>8, <3>3, <4>0, <4>3 DEF Settled
          <5>2. \A i \in DOMAIN t : Harmless(t[i], g)
            BY <1>18, <5>1
          <5>3. inmap'[v][u] # NoRoster
            BY <1>15, <3>3, <5>1
          <5>4. new = g
            <6>1. Harmless(x, g)
              BY <1>19, <5>1
            <6>2. CASE x.n = 0
              <7>1. inmap[v][u] \in Pairwise
                BY <1>1, <3>3, <5>1 DEF MapsTyped, PairwiseMap
              <7>2. inmap[v][u].n # 0
                BY <7>1 DEF Pairwise
              <7>3. ~read
                BY <1>6, <3>3, <5>1, <6>2, <7>2 DEF Legible
              <7>4. QED
                BY <2>4, <2>8, <5>1, <7>3
            <6>3. CASE x.n # 0
              <7>1. def = g \/ def = NoRoster
                BY <1>5, <6>1, <6>3 DEF Harmless
              <7>2. QED
                BY <2>4, <2>8, <5>1, <7>1
            <6>4. QED
              BY <6>2, <6>3
          <5>5. QED
            BY <2>8, <3>3, <4>0, <5>2, <5>3, <5>4 DEF Told, Settled
        <4>4. QED
          BY <2>8, <3>1, <3>2, <4>0, <4>1, <4>2, <4>3 DEF Told
      <3>4. CASE ~(u = Owner /\ y = v)
        <4>1. invite'[Owner][y] = invite[Owner][y] /\ inmap'[y][Owner] = inmap[y][Owner]
          BY <1>13, <1>15, <2>3, <3>4
        <4>2. ASSUME Settled(y) PROVE Settled(y)'
          <5>1. roster[y] # NoRoster /\ roster[y] = roster[Owner]
            BY <2>8, <4>2 DEF Settled
          <5>2. roster'[y] = roster[y]
            <6>1. CASE y = v
              BY <1>12, <2>2, <2>4, <3>4, <5>1, <6>1
            <6>2. CASE y # v
              BY <1>12, <6>2
            <6>3. QED
              BY <6>1, <6>2
          <5>3. QED
            BY <2>5, <4>1, <4>2, <5>1, <5>2 DEF Settled
        <4>3. QED
          BY <2>5, <3>1, <3>2, <4>1, <4>2 DEF Told
      <3>5. QED
        BY <3>3, <3>4
    <2>10. QED
      BY <1>9, <2>1, <2>5, <2>6, <2>7, <2>9 DEF CalmInv, Held
  <1>22. QED
    BY <1>9, <1>16, <1>17, <1>21 DEF RostersInv

(* A reload adopts a group nobody created and puts the user on its list:   *)
(* a member's copy of the owner's definition needs neither, and when the   *)
(* owner's own does, nobody has been told.                                 *)
LEMMA ReloadKeeps ==
    ASSUME RostersInv, NEW u \in Person, Reload(u)
    PROVE  RostersInv'
  <1>1. /\ \A l \in Loop : loop[l] # NoRoster => loop[l].by # u
        /\ roster' = IF Held(u) THEN [roster EXCEPT ![u] = Migrated(u)] ELSE roster
        /\ stale' = IF u = Owner /\ roster' # roster THEN Person ELSE stale
        /\ UNCHANGED <<loop, outmap, inmap, shakes, invite, edits, editors, dropped,
                       faults>>
    BY DEF Reload, chats
  <1>2. RostersTyped /\ LoopsTyped /\ InvitesTyped
    BY DEF RostersInv, RostersTyped
  <1>3. ASSUME Held(u)
        PROVE  /\ Migrated(u) \in Definition
               /\ roster[u].creator # NoRoster => Migrated(u).creator = roster[u].creator
               /\ roster[u].creator # NoRoster /\ In(u, roster[u].members)
                     => Migrated(u) = roster[u]
    <2>1. PICK g \in Definition, list \in MemberList :
               g = roster[u] /\ list = roster[u].members
      BY <1>3, HeldDefinition
    <2>2. PICK new \in MemberList : new = IF In(u, list) THEN list ELSE <<u>> \o list
      BY AddedFacts
    <2>3. PICK maker \in Person : maker = IF g.creator = NoRoster THEN u ELSE g.creator
      BY DEF Definition
    <2>4. Migrated(u) = [g EXCEPT !.creator = maker, !.members = new]
      BY <2>1, <2>2, <2>3 DEF Migrated, Definition
    <2>5. [g EXCEPT !.creator = maker, !.members = new] \in Definition
      BY DEF Definition
    <2>6. maker = g.creator /\ new = g.members
             => [g EXCEPT !.creator = maker, !.members = new] = g
      BY DEF Definition
    <2>7. [g EXCEPT !.creator = maker, !.members = new].creator = maker
      BY DEF Definition
    <2>8. QED
      BY <2>1, <2>2, <2>3, <2>4, <2>5, <2>6, <2>7
  <1>4. /\ roster' \in [Person -> Definition \cup {NoRoster}]
        /\ \A x \in Person : x # u => roster'[x] = roster[x]
        /\ roster'[u] = IF Held(u) THEN Migrated(u) ELSE roster[u]
    BY <1>1, <1>2, <1>3 DEF RostersTyped
  <1>5. RostersTyped'
    BY <1>1, <1>2, <1>4 DEF RostersTyped, LoopsTyped, InvitesTyped, MapsTyped
  <1>6. edits = 0 => Uncreated'
    <2> SUFFICES ASSUME edits = 0 PROVE Uncreated'
      OBVIOUS
    <2>1. Uncreated /\ ~Held(u)
      BY DEF RostersInv, Uncreated, Held
    <2>2. QED
      BY <1>1, <2>1 DEF Uncreated
  <1>7. ASSUME Calm' PROVE CalmInv'
    <2>1. Calm /\ CalmInv
      BY <1>1, <1>7 DEF Calm, RostersInv
    <2>2. Owner # NoRoster /\ Owner \in Person
      BY RosterTypes
    <2>3. (Held(Owner) /\ roster[Owner].creator = Owner)'
      <3>1. CASE u = Owner
        <4>1. Held(u) /\ roster[u].creator = Owner
          BY <2>1, <3>1 DEF CalmInv
        <4>2. roster'[Owner] \in Definition /\ roster'[Owner].creator = Owner
          BY <1>3, <1>4, <2>2, <3>1, <4>1
        <4>3. QED
          BY <4>2, RosterTypes DEF Held
      <3>2. CASE u # Owner
        BY <1>4, <2>1, <2>2, <3>2 DEF CalmInv, Held
      <3>3. QED
        BY <3>1, <3>2
    <2>4. \A l \in Loop : loop'[l] # NoRoster => CalmLoop(l)'
      <3>1. CASE u = Owner
        BY <1>1, <2>1, <3>1 DEF CalmInv, CalmLoop
      <3>2. CASE u # Owner
        BY <1>1, <1>4, <2>1, <2>2, <3>2 DEF CalmInv, CalmLoop
      <3>3. QED
        BY <3>1, <3>2
    <2>5. ASSUME NEW y \in Person \ (dropped \cup stale'), y # Owner,
                 In(y, roster'[Owner].members)
          PROVE  Told(y)'
      <3>1. stale' = stale /\ (u = Owner => roster' = roster)
        BY <1>1, <2>5
      <3>2. roster'[Owner] = roster[Owner]
        BY <1>4, <2>2, <3>1
      <3>3. Told(y)
        BY <2>1, <2>5, <3>1, <3>2 DEF CalmInv
      <3>4. ToBeSent(y) => ToBeSent(y)'
        BY <1>1, <3>2 DEF ToBeSent, Carries
      <3>5. Settled(y) => Settled(y)'
        <4> SUFFICES ASSUME Settled(y) PROVE Settled(y)'
          OBVIOUS
        <4>1. /\ roster[y] = roster[Owner] /\ Held(y)
              /\ roster[y].creator # NoRoster /\ In(y, roster[y].members)
          BY <2>1, <2>2, <2>5, <3>2 DEF Settled, CalmInv, Held
        <4>2. roster'[y] = roster[y]
          BY <1>3, <1>4, <4>1
        <4>3. QED
          BY <1>1, <3>2, <4>1, <4>2 DEF Settled
      <3>6. QED
        BY <1>1, <3>2, <3>3, <3>4, <3>5 DEF Told
    <2>6. QED
      BY <1>1, <2>1, <2>3, <2>4, <2>5 DEF CalmInv, Held
  <1>8. QED
    BY <1>1, <1>5, <1>6, <1>7 DEF RostersInv

(* The panel and the texts counted are no part of the invariant.           *)
LEMMA SameRosters ==
    ASSUME RostersInv,
           UNCHANGED <<roster, loop, chats, edits, editors, stale, dropped, faults>>
    PROVE  RostersInv'
  <1>1. RostersTyped'
    BY DEF RostersInv, RostersTyped, LoopsTyped, InvitesTyped, MapsTyped, chats
  <1>2. Uncreated = Uncreated'
    BY DEF Uncreated, chats
  <1>3. CalmInv => CalmInv'
    BY DEF CalmInv, Held, CalmLoop, Told, ToBeSent, Carries, Settled, chats
  <1>4. QED
    BY <1>1, <1>2, <1>3 DEF RostersInv, Calm

(* Every handler, and every turn of a loop, keeps the invariant.           *)
LEMMA RostersStep == RostersInv /\ [RostersNext]_rosters => RostersInv'
  <1> SUFFICES ASSUME RostersInv, [RostersNext]_rosters PROVE RostersInv'
    OBVIOUS
  <1>1. ASSUME NEW u \in Person, OpenPanel(u) PROVE RostersInv'
    BY <1>1, SameRosters DEF OpenPanel
  <1>2. CASE UNCHANGED rosters
    BY <1>2, SameRosters DEF rosters, chats
  <1>3. QED
    BY <1>1, <1>2, NewGroupKeeps, DeleteKeeps, ReloadKeeps, RenameKeeps, LeaveKeeps,
       TextKeeps, RemoveKeeps, AddKeeps, SendNowKeeps, AskKeeps, ArrivesKeeps,
       BundleFailsKeeps, EndKeeps, ReceiveKeeps
    DEF RostersNext

(* Once all is delivered, the members have the definition of an owner that *)
(* edits alone, for any number of users, overlapping edits, waiting calls, *)
(* texts and failed or lost sends: all but those who missed the ginvite    *)
(* that carried it, could not read it, or whom a failed broadcast or the   *)
(* creation's own loop may have kept from it since the owner's last edit.  *)
THEOREM MembersAgree == RostersSpec => []RostersConverge
  <1>1. RostersInit => RostersInv
    <2> SUFFICES ASSUME RostersInit PROVE RostersInv
      OBVIOUS
    <2>1. RostersTyped
      BY DEF RostersInit, RostersTyped, LoopsTyped, InvitesTyped, MapsTyped, PairwiseMap
    <2>2. Uncreated /\ edits = 0 /\ ~Calm
      BY DEF RostersInit, Uncreated, Calm
    <2>3. QED
      BY <2>1, <2>2 DEF RostersInv
  <1>2. RostersInv => RostersConverge
    <2> SUFFICES ASSUME RostersInv, Quiet, Calm,
                        NEW m \in Person \ (dropped \cup stale),
                        In(m, roster[Owner].members)
                 PROVE  roster[m] = roster[Owner]
      BY DEF RostersConverge, Calm
    <2>1. CASE m # Owner
      <3>1. Told(m)
        BY <2>1 DEF RostersInv, CalmInv
      <3>2. ~ToBeSent(m)
        BY DEF Quiet, ToBeSent, Carries
      <3>3. ~LastIs(invite[Owner][m], roster[Owner])
        BY RosterTypes DEF Quiet, LastIs
      <3>4. QED
        BY <3>1, <3>2, <3>3 DEF Told, Settled
    <2>2. QED
      BY <2>1
  <1>3. QED
    BY <1>1, <1>2, RostersStep, PTL DEF RostersSpec
=============================================================================
