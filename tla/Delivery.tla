------------------------------ MODULE Delivery ------------------------------
(***************************************************************************)
(* Message delivery in mx-server: the envelope ingest of mx-messaging, the *)
(* per-device queues of mx-storage, the Hub of live WebSocket sessions and *)
(* the ws_session task that drains a queue into a socket, together with    *)
(* the HTTP and admin handlers that touch the same state.                  *)
(*                                                                         *)
(* Every request and every socket is a tokio task, and every lock of the   *)
(* code is an `.await`: the model takes one step per critical section, so  *)
(* that tasks interleave exactly where the code lets them.                 *)
(*                                                                         *)
(* An envelope is one element of Msg, its recipient field is Members[m]    *)
(* (the user of a direct message, the members of a group).  Presence, the  *)
(* pre-key bundles and the text of frames are read by no guard below; they *)
(* belong to other modules.                                                *)
(***************************************************************************)
EXTENDS Naturals, Sequences, Functions

CONSTANTS
    User, Device, Session, Msg,
    Owner,       \* the account a device is (or will be) registered under
    DevOf,       \* the device whose token a WebSocket connection presents
    Members,     \* the users an envelope is addressed to
    Malformed,   \* envelopes ingest refuses: empty ciphertext, unknown group
    Enrolled,    \* devices registered before the behaviour starts
    Pollers,     \* devices whose client also pulls over HTTP
    None         \* an empty slot of the hub, an idle session's envelope

ASSUME ConstantTypes ==
    /\ Owner \in [Device -> User]
    /\ DevOf \in [Session -> Device]
    /\ Members \in [Msg -> (SUBSET User) \ {{}}]
    /\ Malformed \subseteq Msg
    /\ Enrolled \subseteq Device
    /\ Pollers \subseteq Device
    /\ None \notin Session
    /\ None \notin Msg

VARIABLES
    users,        \* accounts that exist
    registered,   \* devices listed under an account
    issued,       \* devices that hold a session token (tokens outlive accounts)
    maintenance,  \* the global ingest kill-switch
    queue,        \* InMemoryMessageQueue: one FIFO per device
    hub,          \* Hub.sessions: the session whose sender a device's slot holds
    signals,      \* wake-up signals buffered in a session's channel
    wpc,          \* where a ws_session task is
    up,           \* the client side of the session's socket is still there
    cur,          \* the envelope a session is ingesting for its client
    batch,        \* envelopes drained from the queue and not yet written
    ipc,          \* where the ingest of an envelope is
    todo,         \* users resolve_devices has still to look up
    fan,          \* devices still to enqueue to, or to notify
    bcast,        \* envelopes of the running admin broadcast not yet finished
    purging,      \* devices of deleted users whose queue is not purged yet
    log,          \* history: every copy ever enqueued for a device, in order
    sent,         \* history: what a session wrote to its socket, in order
    pulled,       \* history: what HTTP pulls returned for a device, in order
    lost,         \* history: copies dropped without reaching a client
    due           \* history: the recipient's devices when an ingest began

account == <<users, registered, issued>>
ingest  == <<ipc, todo, fan, bcast>>
session == <<wpc, up, cur, batch>>
history == <<log, sent, pulled, lost, due>>
vars    == <<users, registered, issued, maintenance, queue, hub, signals,
             wpc, up, cur, batch, ipc, todo, fan, bcast, purging,
             log, sent, pulled, lost, due>>

-----------------------------------------------------------------------------
(* Auxiliary operators.                                                    *)

DevicesOf(u) == {d \in registered : Owner[d] = u}

SessionsOf(d) == {s \in Session : DevOf[s] = d}

(* The envelopes being ingested on behalf of a WebSocket client: their     *)
(* task is the session's, which no HTTP disconnect can cancel.             *)
OverSocket == {m \in Msg : \E s \in Session : cur[s] = m}

(* The broadcast ingests one envelope at a time.                           *)
BroadcastIdle == \A m \in bcast : ipc[m] = "new"

-----------------------------------------------------------------------------
(* Accounts: the part of login, registration and deletion that changes     *)
(* who a message reaches.                                                  *)

(* Every login and registration makes a fresh device with a token.         *)
RegisterDevice(d) ==
    /\ d \notin issued
    /\ Owner[d] \in users
    /\ registered' = registered \cup {d}
    /\ issued' = issued \cup {d}
    /\ UNCHANGED <<users, maintenance, queue, hub, signals, session, ingest,
                   purging, history>>

(* delete_user, first await: the account and its device list go at once.   *)
DeleteUser(u) ==
    /\ u \in users
    /\ users' = users \ {u}
    /\ registered' = registered \ DevicesOf(u)
    /\ purging' = purging \cup DevicesOf(u)
    /\ UNCHANGED <<issued, maintenance, queue, hub, signals, session, ingest,
                   history>>

(* delete_user, one device of the loop: its queue is dropped.              *)
PurgeDevice(d) ==
    /\ d \in purging
    /\ purging' = purging \ {d}
    /\ lost' = [lost EXCEPT ![d] = @ \cup Range(queue[d])]
    /\ queue' = [queue EXCEPT ![d] = <<>>]
    /\ UNCHANGED <<account, maintenance, hub, signals, session, ingest,
                   log, sent, pulled, due>>

Maintenance(on) ==
    /\ maintenance # on
    /\ maintenance' = on
    /\ UNCHANGED <<account, queue, hub, signals, session, ingest, purging,
                   history>>

-----------------------------------------------------------------------------
(* MessagingService::ingest and AppState::notify_recipients.               *)

(* ingest accepts a well-formed envelope and starts to resolve it.         *)
Begin(m) ==
    /\ m \notin Malformed
    /\ ipc' = [ipc EXCEPT ![m] = "ingest"]
    /\ todo' = [todo EXCEPT ![m] = Members[m]]
    /\ due' = [due EXCEPT ![m] = UNION {DevicesOf(u) : u \in Members[m]}]

(* Variant: ingest returns as soon as the recipient is resolved.           *)
Proceed_Unqueued(m, t, f) ==
    LET over == t = {}
    IN  /\ ipc' = [ipc EXCEPT ![m] = IF ~over THEN @
                                     ELSE IF @ = "ingest" THEN "notify" ELSE "done"]
        /\ todo' = [todo EXCEPT ![m] = IF over /\ ipc[m] = "ingest" THEN Members[m] ELSE t]
        /\ fan' = [fan EXCEPT ![m] = IF over THEN {} ELSE f]
        /\ bcast' = IF over /\ ipc[m] = "notify" THEN bcast \ {m} ELSE bcast

(* What is left of a task: users t to look up, devices f to serve.  An     *)
(* ingest with nothing left returns Ok and its caller turns to             *)
(* notify_recipients, which resolves the recipient afresh.                 *)
Proceed(m, t, f) ==
    LET over == t = {} /\ f = {}
    IN  /\ ipc' = [ipc EXCEPT ![m] = IF ~over THEN @
                                     ELSE IF @ = "ingest" THEN "notify" ELSE "done"]
        /\ todo' = [todo EXCEPT ![m] = IF over /\ ipc[m] = "ingest" THEN Members[m] ELSE t]
        /\ fan' = [fan EXCEPT ![m] = f]
        /\ bcast' = IF over /\ ipc[m] = "notify" THEN bcast \ {m} ELSE bcast

(* Variant: each member's devices replace the ones gathered so far.        *)
Resolve_LastMember(m, u) ==
    /\ ipc[m] \in {"ingest", "notify"}
    /\ u \in todo[m]
    /\ Proceed(m, todo[m] \ {u}, DevicesOf(u))
    /\ UNCHANGED <<account, maintenance, queue, hub, signals, session,
                   purging, history>>

(* resolve_devices: the devices of one user of the recipient.              *)
Resolve(m, u) ==
    /\ ipc[m] \in {"ingest", "notify"}
    /\ u \in todo[m]
    /\ Proceed(m, todo[m] \ {u}, fan[m] \cup DevicesOf(u))
    /\ UNCHANGED <<account, maintenance, queue, hub, signals, session,
                   purging, history>>

(* Variant: push_front for push_back.                                      *)
Enqueue_Front(m, d) ==
    /\ ipc[m] = "ingest"
    /\ todo[m] = {}
    /\ d \in fan[m]
    /\ queue' = [queue EXCEPT ![d] = <<m>> \o @]
    /\ log' = [log EXCEPT ![d] = Append(@, m)]
    /\ Proceed(m, {}, fan[m] \ {d})
    /\ UNCHANGED <<account, maintenance, hub, signals, session, purging,
                   sent, pulled, lost, due>>

(* One queued copy per resolved device.                                    *)
Enqueue(m, d) ==
    /\ ipc[m] = "ingest"
    /\ todo[m] = {}
    /\ d \in fan[m]
    /\ queue' = [queue EXCEPT ![d] = Append(@, m)]
    /\ log' = [log EXCEPT ![d] = Append(@, m)]
    /\ Proceed(m, {}, fan[m] \ {d})
    /\ UNCHANGED <<account, maintenance, hub, signals, session, purging,
                   sent, pulled, lost, due>>

(* Variant: a signal reaches only a session that is waiting for one.       *)
Notify_OnlyIdle(m, d) ==
    /\ ipc[m] = "notify"
    /\ todo[m] = {}
    /\ d \in fan[m]
    /\ signals' = IF hub[d] = None \/ wpc[hub[d]] # "loop"
                  THEN signals
                  ELSE [signals EXCEPT ![hub[d]] = @ + 1]
    /\ Proceed(m, {}, fan[m] \ {d})
    /\ UNCHANGED <<account, maintenance, queue, hub, session, purging,
                   history>>

(* Hub::notify: a signal into the registered session's channel, if any.    *)
Notify(m, d) ==
    /\ ipc[m] = "notify"
    /\ todo[m] = {}
    /\ d \in fan[m]
    /\ signals' = IF hub[d] = None
                  THEN signals
                  ELSE [signals EXCEPT ![hub[d]] = @ + 1]
    /\ Proceed(m, {}, fan[m] \ {d})
    /\ UNCHANGED <<account, maintenance, queue, hub, session, purging,
                   history>>

-----------------------------------------------------------------------------
(* HTTP handlers.                                                          *)

(* POST /v1/messages.                                                      *)
IngestMessage(m) ==
    /\ ipc[m] = "new"
    /\ m \notin bcast
    /\ ~maintenance
    /\ Begin(m)
    /\ UNCHANGED <<account, maintenance, queue, hub, signals, session, fan,
                   bcast, purging, log, sent, pulled, lost>>

(* 503 under the kill-switch, an error for a malformed envelope.           *)
IngestRefused(m) ==
    /\ ipc[m] = "new"
    /\ m \notin bcast
    /\ maintenance \/ m \in Malformed
    /\ ipc' = [ipc EXCEPT ![m] = "refused"]
    /\ UNCHANGED <<account, maintenance, queue, hub, signals, session, todo,
                   fan, bcast, purging, history>>

(* Variant: the pull reads the queue without draining it.                  *)
PullMessages_Peek(d) ==
    /\ d \in Pollers
    /\ queue[d] # <<>>
    /\ pulled' = [pulled EXCEPT ![d] = queue[d]]
    /\ UNCHANGED <<account, maintenance, queue, hub, signals, session,
                   ingest, purging, log, sent, lost, due>>

(* GET /v1/messages/:device drains the queue into the response.            *)
PullMessages(d) ==
    /\ d \in Pollers
    /\ queue[d] # <<>>
    /\ queue' = [queue EXCEPT ![d] = <<>>]
    /\ pulled' = [pulled EXCEPT ![d] = @ \o queue[d]]
    /\ UNCHANGED <<account, maintenance, hub, signals, session, ingest,
                   purging, log, sent, lost, due>>

(* The client is gone before the response is written: what was drained is  *)
(* lost with it.                                                           *)
PullLost(d) ==
    /\ d \in Pollers
    /\ queue[d] # <<>>
    /\ queue' = [queue EXCEPT ![d] = <<>>]
    /\ lost' = [lost EXCEPT ![d] = @ \cup Range(queue[d])]
    /\ UNCHANGED <<account, maintenance, hub, signals, session, ingest,
                   purging, log, sent, pulled, due>>

(* POST /v1/admin/broadcast: one fresh envelope for every exported user;   *)
(* the kill-switch is not consulted.                                       *)
AdminBroadcast(ms) ==
    /\ bcast = {}
    /\ ms # {}
    /\ \A m \in ms : ipc[m] = "new" /\ m \notin Malformed
    /\ {Members[m] : m \in ms} = {{u} : u \in users}
    /\ \A m, n \in ms : Members[m] = Members[n] => m = n
    /\ bcast' = ms
    /\ UNCHANGED <<account, maintenance, queue, hub, signals, session, ipc,
                   todo, fan, purging, history>>

(* The broadcast's loop reaches its next user.                             *)
BroadcastNext(m) ==
    /\ m \in bcast
    /\ BroadcastIdle
    /\ Begin(m)
    /\ UNCHANGED <<account, maintenance, queue, hub, signals, session, fan,
                   bcast, purging, log, sent, pulled, lost>>

(* hyper drops the handler's future when its client disconnects: what the  *)
(* handler has not done by then is never done.                             *)
CancelIngest(m) ==
    /\ ipc[m] \in {"ingest", "notify"}
    /\ m \notin OverSocket
    /\ ipc' = [ipc EXCEPT ![m] = "cancelled"]
    /\ todo' = [todo EXCEPT ![m] = {}]
    /\ fan' = [fan EXCEPT ![m] = {}]
    /\ bcast' = IF m \in bcast THEN {} ELSE bcast
    /\ UNCHANGED <<account, maintenance, queue, hub, signals, session,
                   purging, history>>

CancelDelete(u) ==
    /\ \E d \in purging : Owner[d] = u
    /\ purging' = {d \in purging : Owner[d] # u}
    /\ UNCHANGED <<account, maintenance, queue, hub, signals, session,
                   ingest, history>>

-----------------------------------------------------------------------------
(* ws_session.                                                             *)

(* The end of a session's task: its channel and socket are dropped.        *)
Close(s) ==
    /\ wpc' = [wpc EXCEPT ![s] = "closed"]
    /\ up' = [up EXCEPT ![s] = FALSE]
    /\ signals' = [signals EXCEPT ![s] = 0]

(* Variant: the slot is kept on disconnect.                                *)
Unregister_KeepsSlot(s) ==
    /\ ~up[s]
    /\ UNCHANGED hub
    /\ Close(s)

(* The socket is gone and `replaced` is false: Hub::unregister removes the *)
(* device's slot, whoever holds it, and the task ends.                     *)
Unregister(s) ==
    /\ ~up[s]
    /\ hub' = [hub EXCEPT ![DevOf[s]] = None]
    /\ Close(s)

(* authenticate and Hub::register: the first frame is a Hello whose token  *)
(* verifies, and the slot is taken from whoever held it (last connection   *)
(* wins).                                                                  *)
Hello(s) ==
    /\ wpc[s] = "new"
    /\ DevOf[s] \in issued
    /\ hub' = [hub EXCEPT ![DevOf[s]] = s]
    /\ wpc' = [wpc EXCEPT ![s] = "pull"]
    /\ up' = [up EXCEPT ![s] = TRUE]
    /\ UNCHANGED <<account, maintenance, queue, signals, cur, batch, ingest,
                   purging, history>>

(* No Hello, or an invalid or expired token: an error frame, and closed.   *)
HelloRejected(s) ==
    /\ wpc[s] = "new"
    /\ Close(s)
    /\ UNCHANGED <<account, maintenance, queue, hub, cur, batch, ingest,
                   purging, history>>

(* Variant: the queue is copied, not drained.                              *)
Pull_Copy(s) ==
    /\ wpc[s] = "pull"
    /\ batch' = [batch EXCEPT ![s] = queue[DevOf[s]]]
    /\ wpc' = [wpc EXCEPT ![s] = IF queue[DevOf[s]] = <<>> THEN "loop" ELSE "push"]
    /\ UNCHANGED <<account, maintenance, queue, hub, signals, up, cur, ingest,
                   purging, history>>

(* deliver_pending, the pull: the whole queue becomes this task's batch.   *)
Pull(s) ==
    /\ wpc[s] = "pull"
    /\ batch' = [batch EXCEPT ![s] = queue[DevOf[s]]]
    /\ queue' = [queue EXCEPT ![DevOf[s]] = <<>>]
    /\ wpc' = [wpc EXCEPT ![s] = IF queue[DevOf[s]] = <<>> THEN "loop" ELSE "push"]
    /\ UNCHANGED <<account, maintenance, hub, signals, up, cur, ingest,
                   purging, history>>

(* deliver_pending, one send_frame.                                        *)
Push(s) ==
    /\ wpc[s] = "push"
    /\ up[s]
    /\ sent' = [sent EXCEPT ![s] = Append(@, Head(batch[s]))]
    /\ batch' = [batch EXCEPT ![s] = Tail(@)]
    /\ wpc' = [wpc EXCEPT ![s] = IF Tail(batch[s]) = <<>> THEN "loop" ELSE @]
    /\ UNCHANGED <<account, maintenance, queue, hub, signals, up, cur,
                   ingest, purging, log, pulled, lost, due>>

(* The write fails: deliver_pending returns false and the rest of the      *)
(* batch, already out of the queue, goes with this task.                   *)
PushFailed(s) ==
    /\ wpc[s] = "push"
    /\ Unregister(s)
    /\ lost' = [lost EXCEPT ![DevOf[s]] = @ \cup Range(batch[s])]
    /\ batch' = [batch EXCEPT ![s] = <<>>]
    /\ UNCHANGED <<account, maintenance, queue, cur, ingest, purging, log,
                   sent, pulled, due>>

(* Variant: the wake branch fires without a signal.                        *)
Wake_Unsignalled(s) ==
    /\ wpc[s] = "loop"
    /\ signals' = [signals EXCEPT ![s] = @ - 1]
    /\ wpc' = [wpc EXCEPT ![s] = "pull"]
    /\ UNCHANGED <<account, maintenance, queue, hub, up, cur, batch, ingest,
                   purging, history>>

(* select!, wake branch: a buffered signal starts a drain.                 *)
Wake(s) ==
    /\ wpc[s] = "loop"
    /\ signals[s] > 0
    /\ signals' = [signals EXCEPT ![s] = @ - 1]
    /\ wpc' = [wpc EXCEPT ![s] = "pull"]
    /\ UNCHANGED <<account, maintenance, queue, hub, up, cur, batch, ingest,
                   purging, history>>

(* Variant: a closed channel is ignored and the loop goes on.              *)
Replaced_Ignored(s) ==
    /\ wpc[s] = "loop"
    /\ signals[s] = 0
    /\ hub[DevOf[s]] # s
    /\ UNCHANGED vars

(* select!, wake branch: the hub dropped our sender and nothing is         *)
(* buffered; taken to mean that a newer session replaced this one.         *)
Replaced(s) ==
    /\ wpc[s] = "loop"
    /\ signals[s] = 0
    /\ hub[DevOf[s]] # s
    /\ Close(s)
    /\ UNCHANGED <<account, maintenance, queue, hub, cur, batch, ingest,
                   purging, history>>

(* select!, frame branch: end of stream, a Close frame, a read error, or a *)
(* reply to a bad frame that cannot be written.                            *)
Disconnect(s) ==
    /\ wpc[s] = "loop"
    /\ Unregister(s)
    /\ UNCHANGED <<account, maintenance, queue, cur, batch, ingest, purging,
                   history>>

(* select!, frame branch: ClientMessage::Send, which this task ingests     *)
(* itself.                                                                 *)
Send(s, m) ==
    /\ wpc[s] = "loop"
    /\ ipc[m] = "new"
    /\ m \notin bcast
    /\ ~maintenance
    /\ Begin(m)
    /\ cur' = [cur EXCEPT ![s] = m]
    /\ wpc' = [wpc EXCEPT ![s] = "send"]
    /\ UNCHANGED <<account, maintenance, queue, hub, signals, up, batch, fan,
                   bcast, purging, log, sent, pulled, lost>>

(* The same frame under the kill-switch, or refused by ingest: an Error    *)
(* frame answers it.                                                       *)
SendRefused(s, m) ==
    /\ wpc[s] = "loop"
    /\ up[s]
    /\ ipc[m] = "new"
    /\ m \notin bcast
    /\ maintenance \/ m \in Malformed
    /\ ipc' = [ipc EXCEPT ![m] = "refused"]
    /\ UNCHANGED <<account, maintenance, queue, hub, signals, session, todo,
                   fan, bcast, purging, history>>

(* The ingest this session ran is done: the Ack frame.                     *)
Ack(s) ==
    /\ wpc[s] = "send"
    /\ ipc[cur[s]] = "done"
    /\ up[s]
    /\ cur' = [cur EXCEPT ![s] = None]
    /\ wpc' = [wpc EXCEPT ![s] = "loop"]
    /\ UNCHANGED <<account, maintenance, queue, hub, signals, up, batch,
                   ingest, purging, history>>

(* The Ack cannot be written.                                              *)
AckFailed(s) ==
    /\ wpc[s] = "send"
    /\ ipc[cur[s]] = "done"
    /\ Unregister(s)
    /\ cur' = [cur EXCEPT ![s] = None]
    /\ UNCHANGED <<account, maintenance, queue, batch, ingest, purging,
                   history>>

(* The client's end goes away: from here on reads end and writes fail.     *)
SocketGone(s) ==
    /\ up[s]
    /\ up' = [up EXCEPT ![s] = FALSE]
    /\ UNCHANGED <<account, maintenance, queue, hub, signals, wpc, cur,
                   batch, ingest, purging, history>>

-----------------------------------------------------------------------------
Init ==
    /\ users = User
    /\ registered = Enrolled
    /\ issued = Enrolled
    /\ maintenance = FALSE
    /\ queue = [d \in Device |-> <<>>]
    /\ hub = [d \in Device |-> None]
    /\ signals = [s \in Session |-> 0]
    /\ wpc = [s \in Session |-> "new"]
    /\ up = [s \in Session |-> FALSE]
    /\ cur = [s \in Session |-> None]
    /\ batch = [s \in Session |-> <<>>]
    /\ ipc = [m \in Msg |-> "new"]
    /\ todo = [m \in Msg |-> {}]
    /\ fan = [m \in Msg |-> {}]
    /\ bcast = {}
    /\ purging = {}
    /\ log = [d \in Device |-> <<>>]
    /\ sent = [s \in Session |-> <<>>]
    /\ pulled = [d \in Device |-> <<>>]
    /\ lost = [d \in Device |-> {}]
    /\ due = [m \in Msg |-> {}]

(* The steps the server takes by itself once a task is running.            *)
IngestStep(m) ==
    \/ \E u \in User : Resolve(m, u)
    \/ \E d \in Device : Enqueue(m, d) \/ Notify(m, d)

SessionStep(s) ==
    \/ Pull(s)
    \/ Push(s) \/ PushFailed(s)
    \/ Wake(s)
    \/ Replaced(s)
    \/ Disconnect(s)
    \/ Ack(s) \/ AckFailed(s)

(* The steps clients, operators and the network decide on.                 *)
Environment ==
    \/ \E d \in Device : RegisterDevice(d) \/ PullMessages(d) \/ PullLost(d)
    \/ \E u \in User : DeleteUser(u) \/ CancelDelete(u)
    \/ \E on \in BOOLEAN : Maintenance(on)
    \/ \E m \in Msg : IngestMessage(m) \/ IngestRefused(m) \/ CancelIngest(m)
    \/ \E ms \in SUBSET Msg : AdminBroadcast(ms)
    \/ \E s \in Session : Hello(s) \/ HelloRejected(s) \/ SocketGone(s)
    \/ \E s \in Session, m \in Msg : Send(s, m) \/ SendRefused(s, m)

Next ==
    \/ \E m \in Msg : IngestStep(m) \/ BroadcastNext(m)
    \/ \E s \in Session : SessionStep(s)
    \/ \E d \in Device : PurgeDevice(d)
    \/ Environment

Spec == Init /\ [][Next]_vars

(* Tokio runs every spawned task that is ready, and a request whose client *)
(* stays connected runs to its end.  Of the network only this: a write to  *)
(* a socket completes or fails in the end (Push, Ack).  The code has no    *)
(* timeout of its own, so a client that stays connected and never reads    *)
(* holds its session up for as long as TCP lets it.  Nothing is assumed of *)
(* the operator, or of whether clients connect, send or stay.              *)
Fairness ==
    /\ \A m \in Msg : WF_vars(IngestStep(m)) /\ WF_vars(BroadcastNext(m))
    /\ \A s \in Session : WF_vars(SessionStep(s))
    /\ \A d \in Device : WF_vars(PurgeDevice(d))

FairSpec == Spec /\ Fairness

-----------------------------------------------------------------------------
(* Properties.                                                             *)

Attached == {"pull", "push", "loop", "send"}

(* A session holds a batch exactly while it writes one.                    *)
BatchWhilePushing == \A s \in Session : wpc[s] = "push" <=> batch[s] # <<>>

(* Types of the state, and that a session which is not in deliver_pending  *)
(* holds nothing it took out of the queue.                                 *)
TypeOK ==
    /\ users \subseteq User
    /\ registered \subseteq issued
    /\ issued \subseteq Device
    /\ maintenance \in BOOLEAN
    /\ queue \in [Device -> Seq(Msg)]
    /\ hub \in [Device -> Session \cup {None}]
    /\ signals \in [Session -> Nat]
    /\ wpc \in [Session -> Attached \cup {"new", "closed"}]
    /\ up \in [Session -> BOOLEAN]
    /\ cur \in [Session -> Msg \cup {None}]
    /\ batch \in [Session -> Seq(Msg)]
    /\ ipc \in [Msg -> {"new", "refused", "ingest", "notify", "done", "cancelled"}]
    /\ todo \in [Msg -> SUBSET User]
    /\ fan \in [Msg -> SUBSET Device]
    /\ bcast \subseteq Msg
    /\ purging \subseteq Device
    /\ log \in [Device -> Seq(Msg)]
    /\ sent \in [Session -> Seq(Msg)]
    /\ pulled \in [Device -> Seq(Msg)]
    /\ lost \in [Device -> SUBSET Msg]
    /\ due \in [Msg -> SUBSET Device]
    /\ BatchWhilePushing

(* What a session has taken out of its device's queue.                     *)
Taken(s) == Range(batch[s]) \cup Range(sent[s])

Distinct(q) == \A i, j \in DOMAIN q : q[i] = q[j] => i = j

(* Every copy queued for d is somewhere, and nothing else is.              *)
Accounted(d) ==
    \A m \in Msg :
        m \in Range(log[d]) <=>
            \/ m \in Range(queue[d])
            \/ m \in Range(pulled[d])
            \/ m \in lost[d]
            \/ \E s \in SessionsOf(d) : m \in Taken(s)

(* No copy for d is in two places.                                         *)
Apart(d) ==
    \A m \in Msg :
        /\ m \in Range(queue[d]) => m \notin Range(pulled[d]) \cup lost[d]
        /\ m \in Range(pulled[d]) => m \notin lost[d]
        /\ \A s \in SessionsOf(d) :
              m \in Taken(s) =>
                  /\ m \notin Range(queue[d]) \cup Range(pulled[d]) \cup lost[d]
                  /\ m \notin Range(batch[s]) \cap Range(sent[s])
                  /\ \A t \in SessionsOf(d) : m \in Taken(t) => s = t

(* No place holds a copy twice.                                            *)
Unrepeated(d) ==
    /\ Distinct(log[d]) /\ Distinct(queue[d]) /\ Distinct(pulled[d])
    /\ \A s \in SessionsOf(d) : Distinct(batch[s]) /\ Distinct(sent[s])

Placed(d) == Accounted(d) /\ Apart(d) /\ Unrepeated(d)

(* Every copy ever enqueued is in exactly one place, once: still queued,   *)
(* in one session's batch, written to one socket, returned by one HTTP     *)
(* pull, or dropped.  Two tasks draining the same queue (an old session, a *)
(* new one, an HTTP pull, a purge) never both get it.                      *)
CopyInOnePlace == \A d \in Device : Placed(d)

(* The ingest of m has still to send d its signal.                         *)
WillNotify(m, d) ==
    \/ ipc[m] = "ingest"
    \/ ipc[m] = "notify" /\ (Owner[d] \in todo[m] \/ d \in fan[m])

(* No wake-up is lost: mail queued for a device whose slot a session holds *)
(* is on its way to that session, which is about to drain, has a signal    *)
(* buffered, or will get one from the ingest.  (Excepted: devices deleted  *)
(* meanwhile and ingests whose HTTP client disconnected.)                  *)
NoStrandedMail ==
    \A d \in registered :
        hub[d] # None =>
            \A m \in Range(queue[d]) :
                \/ wpc[hub[d]] = "pull"
                \/ signals[hub[d]] > 0
                \/ WillNotify(m, d)
                \/ ipc[m] = "cancelled"

(* The slot of a device never holds a dead session, whose signals nobody   *)
(* would read.                                                             *)
SlotIsAlive ==
    \A d \in Device :
        hub[d] # None => DevOf[hub[d]] = d /\ wpc[hub[d]] \in Attached

(* a was queued for d before b.                                            *)
Before(d, a, b) ==
    \E i, j \in DOMAIN log[d] : i < j /\ log[d][i] = a /\ log[d][j] = b

(* One socket carries a device's mail in the order in which it was queued, *)
(* however many drains and sessions that took.                             *)
SocketFIFO ==
    \A s \in Session :
        \A i, j \in DOMAIN sent[s] :
            i < j => Before(DevOf[s], sent[s][i], sent[s][j])

(* A 202 or an Ack means: a copy was queued for every device the recipient *)
(* had when the ingest began, unless the device was deleted meanwhile.     *)
AcceptedMeansQueued ==
    \A m \in Msg :
        ipc[m] \in {"notify", "done"} =>
            \A d \in due[m] \cap registered : m \in Range(log[d])

(* What clients of a device have been given: HTTP pulls are the route None.*)
Handed(d) ==
    {<<None, m>> : m \in Range(pulled[d])}
        \cup UNION {{<<s, m>> : m \in Range(sent[s])} : s \in SessionsOf(d)}

Box == INSTANCE Mailbox WITH accepted <- log,
                             handed <- [d \in Device |-> Handed(d)],
                             dropped <- lost,
                             Route <- Session \cup {None}

(* The whole of ingest, queues, hub and sessions implements the abstract   *)
(* at-most-once mailbox.                                                   *)
ImplementsMailbox == Box!MailboxSpec

(* Mail for a registered device whose session keeps its slot is handed to  *)
(* that session's socket, or the socket turns out to be gone.              *)
MailIsDelivered ==
    \A s \in Session, m \in Msg :
        (m \in Range(queue[DevOf[s]]) /\ hub[DevOf[s]] = s)
            ~> \/ m \notin Range(queue[DevOf[s]]) /\ m \notin Range(batch[s])
               \/ hub[DevOf[s]] # s
               \/ DevOf[s] \notin registered
               \/ ipc[m] = "cancelled"

(* Last connection wins: a session that lost its slot stops by itself.     *)
ReplacedSessionStops ==
    \A s \in Session :
        (wpc[s] \in Attached /\ hub[DevOf[s]] # s) ~> (wpc[s] = "closed" \/ hub[DevOf[s]] = s)

-----------------------------------------------------------------------------
(* What comments of the repository say, and the code does not do.          *)

(* "Deregister on disconnect unless a newer session already owns the       *)
(* slot": a device's slot is emptied only by the session that holds it.    *)
SlotLeftToItsOwner ==
    [][\A d \in Device :
          (hub[d] # None /\ hub'[d] = None) => wpc'[hub[d]] = "closed"]_vars

(* "Delivery must be in order per direction (the WS FIFO guarantees        *)
(* this)": what reaches a device is gap-free, so that the receiving        *)
(* ratchet, which keeps no skipped keys, can open every message.           *)
NoGapInDelivery ==
    \A d \in registered :
        \A m \in lost[d] : \A h \in Handed(d) : ~Before(d, m, h[2])
=============================================================================
