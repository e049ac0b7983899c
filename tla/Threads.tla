------------------------------ MODULE Threads ------------------------------
(***************************************************************************)
(* One tab of the web client (app.ts, api.ts): the messages it writes, the *)
(* threads it shows them in, and the marks it puts on them.  A message     *)
(* waits for its encryption while the user may open another chat; its      *)
(* frame may find the socket closed; the server's Ack marks it sent and    *)
(* the recipient's receipt, a message of its own, marks it delivered.      *)
(* Nothing is sent a second time.                                          *)
(*                                                                         *)
(* That a payload is readable at all is the subject of Sessions: here the  *)
(* chosen recipient may or may not read it, and nobody else can.           *)
(***************************************************************************)
EXTENDS Naturals, Sequences

CONSTANTS
    Chat,       \* chats in the list: people and groups
    Room,       \* the groups among them
    Text,       \* messages, each written once
    NoChat,     \* null, undefined
    MaxLinks    \* bound: times the socket connects

(* A text in a thread.                                                     *)
Entry == [peer : Chat \cup {NoChat}, status : {"pending", "sent", "delivered"}]

ASSUME ChatTypes ==
    /\ Room \subseteq Chat
    /\ NoChat \notin Chat \cup Entry
    /\ MaxLinks \in Nat

VARIABLES
    active,     \* the chat that is open
    draft,      \* the chat for which a text is being encrypted
    shown,      \* a text in a thread: the thread and its status
    link,       \* WebSocket.readyState
    links,      \* times it has connected
    up, down,   \* frames on the socket: envelopes; ids acknowledged
    inbox,      \* the server's queue for a person
    receipts,   \* the server's queue for this tab
    typed,      \* history: the chat a text was written in
    accepted,   \* history: texts the server accepted
    got         \* history: texts a person has in its thread

threads == <<active, draft, shown, link, links, up, down, inbox, receipts,
             typed, accepted, got>>

Human == Chat \ Room
Rank == [pending |-> 0, sent |-> 1, delivered |-> 2]

(* markStatus: in whichever thread the message is, never down.  The code   *)
(* searches the threads it has in memory.  renderContacts loads those of   *)
(* all contacts and groups; with another, a mark that comes after a reload *)
(* is dropped, and the model, where no chat is left out, still sets it.    *)
MarkStatus(t, status) ==
    [shown EXCEPT ![t] =
        IF @ # NoChat /\ Rank[@.status] < Rank[status]
        THEN [@ EXCEPT !.status = status] ELSE @]

-----------------------------------------------------------------------------
(* selectPeer.                                                             *)
SelectPeer(p) ==
    /\ active' = p
    /\ UNCHANGED <<draft, shown, link, links, up, down, inbox, receipts, typed,
                   accepted, got>>

(* teardownGroup, of the open group.                                       *)
TeardownOpen ==
    /\ active \in Room
    /\ active' = NoChat
    /\ UNCHANGED <<draft, shown, link, links, up, down, inbox, receipts, typed,
                   accepted, got>>

(* sendMessage, to a person, up to its await.                              *)
Write(t) ==
    /\ typed[t] = NoChat
    /\ active \in Human
    /\ draft' = [draft EXCEPT ![t] = active]
    /\ typed' = [typed EXCEPT ![t] = active]
    /\ UNCHANGED <<active, shown, link, links, up, down, inbox, receipts,
                   accepted, got>>

(* encrypt throws: the text is gone.                                       *)
EncryptThrows(t) ==
    /\ draft[t] # NoChat
    /\ draft' = [draft EXCEPT ![t] = NoChat]
    /\ UNCHANGED <<active, shown, link, links, up, down, inbox, receipts, typed,
                   accepted, got>>

(* sendMessage, after its await, to the chat that is open by now.  On a    *)
(* closed socket send does nothing; on one that is connecting it throws,   *)
(* before the text is in a thread.                                         *)
SendMessage(t) ==
    /\ draft[t] # NoChat
    /\ draft' = [draft EXCEPT ![t] = NoChat]
    /\ up' = IF link = "open"
             THEN Append(up, [id |-> t, to |-> active, for |-> draft[t]]) ELSE up
    /\ shown' = IF link = "connecting" THEN shown
                ELSE [shown EXCEPT ![t] = [peer |-> active, status |-> "pending"]]
    /\ UNCHANGED <<active, link, links, down, inbox, receipts, typed, accepted, got>>

-----------------------------------------------------------------------------
(* The gateway takes a frame: an envelope for a person is queued, then     *)
(* acknowledged.                                                           *)
Accept ==
    /\ up # <<>>
    /\ Head(up).to \in Human
    /\ inbox' = [inbox EXCEPT ![Head(up).to] = Append(@, Head(up))]
    /\ down' = Append(down, Head(up).id)
    /\ accepted' = accepted \cup {Head(up).id}
    /\ up' = Tail(up)
    /\ UNCHANGED <<active, draft, shown, link, links, receipts, typed, got>>

(* An Error frame, which the client only logs: an address nobody has, or   *)
(* maintenance.                                                            *)
Refuse ==
    /\ up # <<>>
    /\ up' = Tail(up)
    /\ UNCHANGED <<active, draft, shown, link, links, down, inbox, receipts, typed,
                   accepted, got>>

(* ws.onmessage, an Ack.                                                   *)
OnAck ==
    /\ down # <<>>
    /\ shown' = MarkStatus(Head(down), "sent")
    /\ down' = Tail(down)
    /\ UNCHANGED <<active, draft, link, links, up, inbox, receipts, typed,
                   accepted, got>>

(* Variant: the receipt is sent before the payload is decrypted.           *)
Receipt_First(p, env, read, sends) == IF sends THEN <<env.id>> ELSE <<>>

(* sendReceipt, after a payload that was decrypted, if the socket is open. *)
Receipt(p, env, read, sends) == IF read /\ sends THEN <<env.id>> ELSE <<>>

(* onIncoming of the recipient.  A payload made for someone else fails.    *)
OnIncoming(p, read, sends) ==
    /\ inbox[p] # <<>>
    /\ LET env == Head(inbox[p])
       IN  /\ read => env.for = p
           /\ got' = IF read THEN [got EXCEPT ![p] = @ \cup {env.id}] ELSE got
           /\ receipts' = receipts \o Receipt(p, env, read, sends)
    /\ inbox' = [inbox EXCEPT ![p] = Tail(@)]
    /\ UNCHANGED <<active, draft, shown, link, links, up, down, typed, accepted>>

(* onIncoming of this tab: a receipt.                                      *)
OnReceipt ==
    /\ link = "open"
    /\ receipts # <<>>
    /\ shown' = MarkStatus(Head(receipts), "delivered")
    /\ receipts' = Tail(receipts)
    /\ UNCHANGED <<active, draft, link, links, up, down, inbox, typed, accepted, got>>

-----------------------------------------------------------------------------
(* ws.onclose: what is on the socket is lost, and with it what the gateway *)
(* had drained.                                                            *)
OnClose(n) ==
    /\ link = "open"
    /\ link' = "closed"
    /\ up' = <<>>
    /\ down' = <<>>
    /\ receipts' = SubSeq(receipts, n + 1, Len(receipts))
    /\ UNCHANGED <<active, draft, shown, links, inbox, typed, accepted, got>>

(* connect, at the start and 1.5 s after a close; then ws.onopen.          *)
Connect ==
    /\ link = "closed"
    /\ links < MaxLinks
    /\ link' = "connecting"
    /\ links' = links + 1
    /\ UNCHANGED <<active, draft, shown, up, down, inbox, receipts, typed,
                   accepted, got>>

OnOpen ==
    /\ link = "connecting"
    /\ link' = "open"
    /\ UNCHANGED <<active, draft, shown, links, up, down, inbox, receipts, typed,
                   accepted, got>>

(* The page is loaded again: threads are stored, nothing else is.          *)
ReloadPage ==
    /\ link' = "closed"
    /\ active' = NoChat
    /\ draft' = [t \in Text |-> NoChat]
    /\ up' = <<>>
    /\ down' = <<>>
    /\ UNCHANGED <<shown, links, inbox, receipts, typed, accepted, got>>

ThreadsInit ==
    /\ active = NoChat
    /\ draft = [t \in Text |-> NoChat]
    /\ shown = [t \in Text |-> NoChat]
    /\ link = "closed"
    /\ links = 0
    /\ up = <<>> /\ down = <<>>
    /\ inbox = [p \in Human |-> <<>>]
    /\ receipts = <<>>
    /\ typed = [t \in Text |-> NoChat]
    /\ accepted = {}
    /\ got = [p \in Human |-> {}]

ThreadsNext ==
    \/ \E p \in Chat : SelectPeer(p)
    \/ TeardownOpen
    \/ \E t \in Text : Write(t) \/ EncryptThrows(t) \/ SendMessage(t)
    \/ Accept \/ Refuse \/ OnAck \/ OnReceipt
    \/ \E p \in Human, read, sends \in BOOLEAN : OnIncoming(p, read, sends)
    \/ \E n \in 0 .. Len(receipts) : OnClose(n)
    \/ Connect \/ OnOpen \/ ReloadPage

ThreadsSpec == ThreadsInit /\ [][ThreadsNext]_threads

-----------------------------------------------------------------------------
(* The marks tell the truth.  A text marked sent, or more, was accepted by *)
(* the server; a text marked delivered is in the thread of the person in   *)
(* whose chat it is shown, and was written to that person: a text that     *)
(* went to the chat opened while it was encrypted is never marked so.      *)
MarksAreTrue ==
    \A t \in Text : shown[t] # NoChat =>
        /\ shown[t].status # "pending" => t \in accepted
        /\ shown[t].status = "delivered" =>
              shown[t].peer = typed[t] /\ t \in got[typed[t]]
=============================================================================
