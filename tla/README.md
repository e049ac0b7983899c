# Messenger X: a TLA+ verification project

Messenger X is a Rust server (tokio, axum; the crates under `src/crates/`) and a
TypeScript web client (`src/web/src/`). The server relays opaque, end-to-end
encrypted envelopes between devices; keys and plaintext exist on clients only.
This project models the parts of it that keep state and run concurrently,
checks them with TLC on small instances, and proves every safety property that the
passing runs check with TLAPS, for instances of any size.

`PROJECT.json` ties everything together: which definition translates which
lines, which run checks which property, which plausible bug each property
catches, the known hazards, the findings and the theorems.

## Inventory of the system

| Component | State | Operations | Talks to |
|---|---|---|---|
| Hub, `ws_session`, message routes (`mx-server/src/main.rs`) | device → wake-up sender; one task per socket with its drained batch | register, unregister, notify; drain and push; Send/Ack; HTTP ingest and pull | messaging, queue, auth, presence |
| `MessagingService` (`mx-messaging`) | none | ingest, pull, recipients | user and group stores, queue |
| Message queue (`mx-storage/memory.rs`) | one FIFO per device | enqueue, drain, purge | – |
| User store, pre-key store | accounts, devices; one bundle per device | create, register, delete, set password or profile; publish, fetch and consume | auth, admin, snapshot |
| Snapshot persistence (`persist.rs`, `main`) | the file, a temporary file | capture, save every 3 s, final flush, load | all stores |
| Accounts (`mx-server`, `mx-auth`) | password hashes, must-change flags, reset tokens | register, login, forgot, reset, change | user store, tokens |
| Admin routes | maintenance flag | broadcast, delete, maintenance, overview | messaging, hub, stores |
| Presence (`mx-presence`) | expiry times | set online, typing, sweep | `ws_session` |
| Double Ratchet, PQXDH (`mx-crypto`, wasm) | root, sending and receiving chains | initiate, respond, encrypt, decrypt | client |
| Client sessions (`crypto.ts`) | outbound and inbound session per peer, in sessionStorage | encrypt, decrypt | wasm, pre-key route |
| Client chat (`api.ts`, `app.ts`) | threads, message status, group rosters, socket | send, receive, receipt, roster sync, reconnect | server |
| Group epochs (`mx-groups`) | members, epoch, epoch secret | create, add, remove | – |
| AI routing (`mx-ai`) | none | tier decision | – |

What is hard here is what happens between two awaits. Every request and every
socket is a task on a multi-threaded runtime and every lock is an await, so a
device list is stale by the time it is used, two sessions and an HTTP poller
drain one queue, a request stops half way when its client disconnects, a write
fails after the queue has been emptied, and the periodic saver runs beside the
final flush. In the browser it is the same: a handler that awaits an encryption
reads the open chat, the session map or the group again afterwards, or does not.
`PROJECT.json` lists each such hazard at its line.

What makes each part correct:

* delivery: a copy is in one place; mail does not lie in a queue while the
  device's session sleeps; each socket sees queue order; acceptance means
  queued; the hub holds only live sessions; replaced sessions end;
* persistence: a kill never costs more than the time since the last save; a
  snapshot is internally consistent; a clean shutdown loses nothing; one-time
  keys are used once;
* accounts: contacts are unique whatever their case; a reset link works once,
  in time, and survives a rejected password; the must-change flag is set for
  temporary passwords and a login reports it, until someone submits the temporary
  password as a new one; a contact is never taken by an
  account nobody can enter, unless its own client left half way; what is deleted
  stays deleted;
* ratchet: messages may cross in any way and still open; a message key is used
  once; a round trip renews the keys; a stored session is the session;
* client sessions: what a sender encrypts the recipient can open, as long as no
  frame is lost and no map is written back stale;
* client chat: marks are true; a text is never marked delivered in a chat it did
  not reach; rosters converge, but for members who missed the last definition;
* groups: an epoch key fixes the members who have it;
* presence: online means heard of within the TTL, whenever the store is swept;
* AI routing: the most private tier that will do, external ones by consent only.

## Modules

| Module | What it is |
|---|---|
| `Delivery` | the delivery layer: hub, sessions, ingest, queues, the handlers that touch them |
| `Mailbox` | the abstract promise: an at-most-once mailbox per device |
| `MCDelivery` | instances of `Delivery` for TLC |
| `DeliveryProofs` | types; copies are conserved; sockets in order; `Mailbox` is implemented |
| `WakeupProofs` | live slots; acceptance; no lost wake-up |
| `Persistence` | stores, saver, final flush, files, kill and restart |
| `MCPersistence` | instances of `Persistence` for TLC |
| `PersistenceProofs` | types; devices have owners; keys once per offer; what saves, kills and a quiet flush keep |
| `Accounts` | registration, login, resets, change, profile, deletion, tokens, the clock |
| `MCAccounts` | its instance for TLC |
| `AccountsProofs` | types and the eight account properties |
| `Ratchet` | PQXDH and the Double Ratchet as operators on symbolic keys |
| `RatchetPair` | two parties over one ratchet |
| `RatchetProofs` | handshakes agree; crossing frames open; keys are fresh and renewed; blobs are exact |
| `Sessions` | the client's session maps over the ratchet |
| `SessionsProofs` | undisturbed directions are readable; keys are reused by old maps only |
| `Threads` | one tab: chats, drafts, the socket, marks and receipts |
| `Rosters` | group definitions in several clients, edits and broadcasts |
| `Groups` | epochs and their secrets, copies, the group store |
| `Presence` | heartbeats and typing with expiry |
| `AiRouting` | the tier decision and its theorem |
| `ServicesProofs` | the theorems about `Presence`, `Threads`, `Groups` and `Rosters` |
| `MCServices` | `Groups`, `Presence`, `RatchetPair`, `Sessions`, `Rosters` and `Threads` in one instance for TLC |
| `MCSessions` | `Sessions` alone, for the violated claims |

### Delivery

One step is one critical section. `IngestMessage` (HTTP), `Send` (WebSocket)
and `BroadcastNext` (admin) start an ingest with `Begin`; `Resolve` reads one
recipient's device list, `Enqueue` appends one copy, and when nothing is left
`Proceed` turns to `notify_recipients`, which resolves again (`Resolve`) and
signals (`Notify`). `todo` and `fan` are the loop's remaining users and devices.
A session goes `new` → `pull` → `push` → `loop`: `Hello` takes the slot, `Pull`
drains the queue into the task's batch, `Push` writes one frame. In `loop`,
`Wake`, `Replaced`, `Disconnect` and `Send` are the branches of `select!`.
`signals[s]` counts what is buffered in the session's channel; a channel whose
sender the hub dropped yields the buffered signals first and then closes, hence
`Replaced` needs `signals[s] = 0`.

Choices of the model:

* An exit (`break`, then `Hub::unregister`) is one step with the failure that
  caused it; the failure touches nothing shared, so it may be taken to happen
  when the slot is removed. `authenticate` touches nothing shared either and is
  part of `Hello`.
* Devices are visited in any order; the code uses registration order, so the
  model has every behaviour of the code and a few more.
* Each login makes a new device, so a device is registered once. Tokens outlive
  accounts (`issued`): nothing checks the account when a token is presented.
* The members of a group are constant: no route changes the group store. Groups
  without members are left out, they deliver nothing.
* `CancelIngest` and `CancelDelete` are hyper dropping a handler whose client
  disconnected. Ingests of a WebSocket session cannot be cancelled so.
* `PullLost` is a drained HTTP response that never reaches its client.
* Frames that only refresh presence, the pre-key part of deletion and the
  sizes and texts of frames are not in this module.
* `log`, `sent`, `pulled`, `lost` and `due` are history: no guard reads them.

### Persistence

`CaptureUsers` and `CapturePrekeys` are the two locks of `Snapshot::capture`
(users and devices share one); `OpenTmp`, `WriteTmp` and `RenameTmp` are the
three system calls of `Snapshot::save`. The saver and the flush take the same
steps and share the temporary file: `fd` says where the file a writer has open
is found after the other's rename, and `Written` which contents two writers at
offset 0 can leave. `Kill` may come anywhere. `Exit` waits for a saver inside
its save, which has no await, as dropping a tokio runtime does. `Restart` loads
the file; a missing file and an unreadable one both mean an empty start.
`overlapped` is history: both writers of the process that is up were busy at
once; a new process starts without it, and with whatever accounts the file it
loads has. The loss of cached pages in a power failure is not modelled, nor is the
Postgres backend, nor a `create_dir_all`, `write` or `rename` that is refused: `save`
then returns an error that its callers only log, and the next tick tries again. The
properties about saves are about file systems that take them.

### Accounts

A handler is a task `task[t]` whose `at` names the store access it is about to
make: `register` is `Register` (create), `RegisterPassword`, `OpenSession`
(device and token); `login` is `Login` (find and verify on a clone) and
`OpenSession`; `forgot_password` is `Forgot` and then `MailToken` or `SendTemp`;
`reset_password` is `ResetPassword` (the token, under its lock) and
`ApplyReset`. `ChangePassword` and `PutProfile` have one access each. `Cancel`
is hyper dropping the handler of a client that left. Requests that are refused
change nothing and are no steps.

* A hash is the password it verifies, a token its claims: `token[d]` is what the
  client of device `d` holds, and nobody forges one.
* Identifiers are model values with a function `Lower`. `register_account`
  lower-cases an address, `login` and `forgot_password` look up what was typed:
  `FindBy` is exact. `Blank` is a field with nothing but spaces, which counts as
  given in `register`'s first check and as absent afterwards.
* Temporary passwords and reset tokens are fresh when they are drawn. A client may
  submit the temporary password as a new one: `change_password` and
  `reset_password` take any password that meets the policy and clear the flag
  (finding 6). `typed` is history: the passwords submitted for an account to be set.
* `voided` is history too: the links that were taken out of the map and set no
  password, because they had expired, the client of the request that took them left
  (`Cancel`), or the account was gone.
* Restarts and snapshots of the same store are `Persistence`'s subject.

### Ratchet, RatchetPair, Sessions

A key pair is a name, DH of two names is the set of both, and a KDF output is the
sequence of its inputs: equal exactly when the inputs are. `ML-KEM` with a key a
ciphertext was not made for finds another secret and no error. `Opens` stands
for the AEAD: the receiver's message key and nonce must be the sender's. `Counter`
is the modulus of the counters, 2^32 in the code and 3 in the run, so that they
wrap.

`RatchetPair` lets both sides send at will over channels in order. `Sessions` is
the use the web client makes of it: each direction its own ratchet, sessions kept
as blobs in a map per tab, `encrypt` reading the whole map, perhaps awaiting the
directory, and writing the whole map back. `EncryptNow` is a call that finds a
session, `FetchBundle` and `Establish` one that does not. `Deliver` is `decrypt`,
which stores nothing when it throws: that, and not `decrypt` of `ratchet.rs`, is
what keeps a bad frame from moving a ratchet on. Tabs close on either side, frames get lost (finding 2), a peer logs
in elsewhere; `disturbed` records for which peers such a thing has put the
direction out of step, and `rolled` whose entry a waiting call overwrote. That
does happen, and then a message key is used twice (finding 7; `ReuseNeedsOldMap`
says that it happens in no other way). A one-time key the directory gave out is
gone even if the answer is lost or its tab is closed (`Answered`); for a call that
gets its answer it goes in the step in which the answer arrives, which changes
nothing the peers can tell, as the responder keeps the secret.

### Threads and Rosters

`Threads` follows the texts one tab writes to people. `Write` is `sendMessage` up
to its await, `SendMessage` the rest, which reads `active` again: the envelope
and the thread it is shown in are the chat open by then, the payload is for the
chat it was written in. `link` is the socket's state; `send` is silent on a closed socket and
throws on one that is connecting. `Accept` and `Refuse` are the gateway,
`OnIncoming` the recipient's tab, whose receipt comes back as mail. Whether a
payload can be read is left open, except that nobody but its addressee can. Texts
to groups carry no mark and appear in `Rosters`. `markStatus` looks only at threads
in memory; a reload drops them, but `renderContacts` loads the threads of all
contacts and groups at once, so `MarkStatus` finds every text. (A thread with
somebody who is neither would lose a mark, never gain one.)

`Rosters` has one group and several users. An edit changes the admin's copy and
starts a loop that sends the group to each recipient; the loop of an edit reads the
group anew for each, the loop of the creation sends what it captured. Where the
sender has a session, `encrypt` awaits nothing but microtasks, so the tab does
nothing else until the loop is done with that recipient (`SendNow`, `Still`). Where
it has none, `sendApp` has turned the definition into text and `encrypt` has read
the session map when the wait for the bundle begins (`AskBundle`, with both in
`asked`); clicks, mail and other loops of the tab come in between, and
`BundleArrives` makes a handshake, saves that map over the one there is and sends
that text. A send may be lost on a closed socket, without a word, or throw on one
that is connecting, which ends the loop (`Sends`); so does a bundle that cannot be
had (`BundleFails`).

Who can read what matters here, the keys do not: a session is the handshake it is
from (`shakes` counts them) and a position, in `outmap` at the sender's and `inmap`
at the recipient's, and `Legible` is what `Sessions` shows of `decrypt`: the session
there is reads its next frame, and a first message with its init is looked at only
where there is none. What cannot be read changes nothing. The maps outlive a reload;
closed tabs, which lose them, are `Sessions`' subject.

Member lists have no duplicates (`MemberList`): the code makes them with
`new Set`, and adds to one only who is not on it; so `Except` is `filter` with one
element to take out. The panel does not ask again who is admin. `upsertGroupSync`
merges, `migrateGroups` runs at start-up. `stale` is history: who may be left without
the owner's present definition, because the ginvite that carried it was lost, could
not be read, or was not sent when a broadcast ended early, because the creation had
still to tell them when the owner edited, or because a migration changed the owner's
copy and told nobody. The next edit tells everyone, so it empties the set but for
those the creation has still to tell. A leave whose broadcast fails is kept over a
reload in the model and lost in the code, which had not saved it; the reload puts the
owner back on the list in both, and makes everyone `stale`.

### Groups, Presence, AiRouting

A group's secret is the group, its creator and the chain of changes it was
derived from (HKDF taken as injective). Holders copy, change, save and load
without any order among them. `Presence` keeps two maps to expiry instants; the
connection of a device is the only source of its heartbeats. `AiRouting` is a
decision table over every sorted list of providers.

## Runs

| Run | Result | What it shows |
|---|---|---|
| `delivery` | pass, 985,160 states | two sessions of one device, a poller, two envelopes, broadcast, deletion, maintenance: all safety properties, and the refinement of `Mailbox` |
| `delivery_live` | pass, 462,090 states | a group message to two users, a device registered in the middle, two sessions: nobody is missed, mail is delivered, replaced sessions end |
| `delivery_slot` | violated | an old session removes a newer one's slot |
| `delivery_gap` | violated | a failed write makes a hole in the stream a ratchet needs complete |
| `persistence` | pass, 225,666 states | consistency, kills and restarts, keys, eventual saving |
| `persistence_flush` | violated | the saver overwrites or tears the final flush |
| `persistence_keys` | violated | a one-time key is handed out twice across a restart |
| `accounts` | pass, 2,900,963 states | two handlers, a session, deletion, disconnects and the clock: every account property |
| `accounts_told` | violated | a temporary password that was submitted again is not reported |
| `services` | pass, 2,140,949 states | epochs, presence, ratchet, client sessions, rosters and threads, one at a time |
| `sessions_heal` | violated | a new handshake is ignored by a peer that still has a session |
| `sessions_reuse` | violated | a map written back after a wait makes a message key encrypt twice |

Bounds, and why they are enough. Races over a slot need two sessions of one
device; order needs two envelopes; that fan-out replaces or forgets a device
needs two recipients, which `delivery_live` has. Two sessions, two envelopes and two users are the
smallest numbers at which each hazard can happen, and the theorems cover larger
ones. `delivery_live` uses one envelope, no poller and no symmetry. Envelopes are
interchangeable in `delivery` (one user, so both have the same recipient) and
there only are they declared symmetric. `Persistence` bounds restarts
(`MaxRestarts`) and publications (`MaxPublished`) at two in the passing run.
Deadlock is checked for delivery only where states always have a successor (the
maintenance switch can always be turned); `Persistence` may stop for good once
its restarts are used up and says `CHECK_DEADLOCK FALSE`.

`accounts` has two tasks, because every race of these handlers is between two of
them or one and a one-step request, two accounts, so that uniqueness matters, an
address in two spellings, one temporary password, which may be submitted again, and
two instants, enough for a token and a link to expire. `services` composes six
modules that share no variable: `focus` chooses which of
them moves in a behaviour, so the run is the union and not the product of their
state spaces. Its bounds: three devices, two holders and two changes per copy
(two holders can fork); time for an entry to expire, be renewed and be swept;
five messages a side over counters modulo three; two peers, two waiting calls,
four messages with one disturbance or three with two (both tabs closed is the case
that heals), `SessionsBound`; three users, two loops and two edits, texts or failures
besides the creation, since it takes two loops that wait for one bundle for handshakes
to cross; two texts, three chats (one of them
a group) and two connections. All of these may stop when users do, so the run
does not check deadlock, nor do `sessions_heal` and `sessions_reuse`; `accounts` does, and uses the
symmetry of its users, devices, tasks and reset tokens.

Fairness. `Delivery!FairSpec` assumes weak fairness of each ingest, each
session and each purge, that is, of tasks tokio has spawned and that are ready;
`select!` polls its branches in random order, so a wake-up is not starved by
frames. A session's steps include its writes, so it is assumed that a write to a
socket completes or fails in the end: `send_frame` has no timeout of its own, and a
client that keeps its connection up and never reads could hold a session in a write
for as long as TCP lets it. Nothing else is assumed of clients or the network, and
nothing of the operator. `Persistence!FairSpec` assumes that the interval ticks, that
the saver and `main` go on, and that their saves succeed. `MailIsDelivered` and `ReplacedSessionStops` and
`EventuallySaved` are the properties that need it.

The exceptions in the properties are the code's: a request cancelled by its own
client, a device deleted meanwhile, a socket that is gone.

## Findings

1. `delivery_slot`: `replaced` is set only in the wake branch. A session that
   leaves by a failed write or a closed stream removes its successor's slot,
   and the successor, finding its channel closed, ends a healthy connection.
2. `delivery_gap`: `deliver_pending` drains first and writes after; a failed
   write loses the rest of the batch while later mail gets through. `crypto.ts`
   relies on a stream without holes.
3. `persistence_flush`: the saver is not stopped before the final flush and
   both use one temporary name.
4. `persistence_keys`: consumption of one-time keys is only as durable as the
   last save.
5. `sessions_heal`: the comments say that a closed tab heals with a new
   handshake. `decrypt` uses an init only when it has no session for the sender;
   a peer whose tab stayed open keeps the old session and reads nothing more
   from that sender until its own tab is closed.
6. `accounts_told`: the doc of `must_change` says it is true for a session opened
   with a temporary password. `change_password` and `reset_password` accept that
   same password as the new one and clear the flag.
7. `sessions_reuse`: `ratchet.rs` says each message key is used once, which is what
   makes its nonces safe. `encrypt` saves the map it read before it waited for a
   bundle; the session of another peer, to whom a message went meanwhile, is set back,
   and its next message is encrypted under the same key and nonce.

Observed while modelling, without a run of its own: an ingest that resolved before a
deletion queues a copy for the deleted device after its purge, although `delete_user`
says it removes every trace; two broadcasts that wait for one member's bundle make a
session each, and the member, who reads the first and ignores the init of the second
(as in finding 5), keeps the older definition without the owner being told, which
`Receive` records in `stale`; the creation of a group
sends the members it captured, so an edit made before it has told everyone is
undone at those it tells last, until the owner edits again (`RostersConverge`
says that they, and those who missed the last ginvite, are all that stay behind);
two admins who edit at once leave members with whichever roster came last; a
text written in one chat and sent after another was opened goes to the second,
who cannot read it, and stays marked sent there (`MarksAreTrue` shows it is never
marked delivered).

## Proofs

A theorem `Spec => []P` is about the very definitions TLC checks, for arbitrary
sets of users, devices, sessions, envelopes, texts, peers and calls, and whatever the
bounds. Each proof is the same argument: an invariant that implies `P`, true at
first, kept by each action. The ones that are hard to see (`RostersInv`,
`SessionsInv`, `SpentInv`) were checked with TLC on a small instance before they
were proved.

### Assumptions

Constants have their types, and a value that stands for absence (`None`, `NoGroup`,
`NoKey`, `NoRoster`, `NoChat`) is none of the things it stands in for. Beyond that:

* `Accounts`: lower-casing twice is lower-casing once; generated passwords meet the
  policy, as `gen_temp_password` makes them, and are no reset tokens. People may submit
  them like any other.
* `Ratchet`: keys are symbolic, so distinct names are distinct keys and a KDF is
  injective. `Counter` is any positive number, the code's 2^32 among them.
* `Rosters`: a selection of contacts has no duplicates and not oneself, which is what
  `new Set([self, ...picked])` makes of any selection.

TLC evaluates all of them on the instances of the passing runs.

### Delivery

* `TypeCorrect`. Types are not inductive alone: that `Head(batch[s])` is an envelope
  needs `BatchWhilePushing`, a session is in `push` exactly while it holds a batch.
* `CopiesConserved` (`CopyInOnePlace`). The strengthening is `FreshCopies`: an ingest
  has queued nothing for devices it has still to resolve or serve. That makes
  `Enqueue` add a new copy; every other step moves copies of one device as a whole,
  one lemma per kind of move.
* `SocketsInOrder` (`SocketFIFO`). Order on the socket alone is not inductive. `Line`
  is: what is on a socket, in its task's batch and in the queue is one line in the
  order of the log, whatever other drains took out of it.
* `MailboxImplemented` (`ImplementsMailbox`): the initial state maps to an empty
  mailbox, and under the invariants above every step maps to a step of `Mailbox`,
  or to none. The safety part only; `Mailbox` states no fairness.
* `WakeupProofs!SlotsAlive` (`SlotIsAlive`), inductive with the types.
* `WakeupProofs!AcceptanceQueues` (`AcceptedMeansQueued`), through `OwedCopies`: a
  running ingest has each device it owes a copy in `todo`, in `fan` or served.
* `WakeupProofs!NoWakeupLost` (`NoStrandedMail`), through the invariants above and
  `FanInRecipient`: copies go only to devices that the second resolution finds
  again, so that the signal follows the copy.

### Persistence

* `TypeCorrect`, through `CopiesArePast`: what is captured or on disk was in the
  stores once.
* `DevicesOwned`, also when the two writers overlap; the temporary file must be
  consistent too, as it is renamed into place.
* `KeysOncePerOffer`, through `OfferInv`: a key on offer has been handed out fewer
  times than it was offered.
* `RestartLosesNoSave` (`RestartKeepsSaved`) and `QuietFlushLosesNothing`
  (`QuietFlushKeepsAll`), from one invariant, `Quiet`, which holds in every process
  until its two writers are busy at once, whatever earlier processes did: the temporary file belongs to the writer from its truncation to
  its rename (`TmpHeld`), the file is the last save and whole (`FileIsSaved`), what a
  save has seen deleted is in nothing that is on its way to the file (`StaysErased`),
  and the stores no longer change once the final flush has read them (`FlushHolds`).
  `BetweenProcesses` carries it over a restart: once a process is gone, no writer is
  at work and no descriptor is open, so a new process starts quiet, and what it
  loads is what the file has.

### Accounts

* `TypeCorrect`, `FlagIsTrue`, `TemporaryIsTold` rest on `JobsMakeSense`, what a
  handler carries over an await: a password about to be set was submitted and meets
  the policy, and a login that verified a temporary one has read the
  flag from the same clone. Both theorems except a temporary password that was
  submitted again, and only that one at that account (`typed`): finding 6 is the rest.
* `DeletedForGood` and `SessionsBacked` rest on `OnlyBorn`: whatever names an account,
  in the map of reset tokens or a token a client holds, names one that was created.
* `IdentifiersUnique` needs `LowerAddresses`: stored addresses are in lower case, which
  makes `create_user`'s exact comparison one without regard to case.
* `ResetsOnce` and `LinksSurvive` need `ResetOnce`: a reset token
  is not drawn yet, in the map, held by one handler, or used; one of the four.
* `ContactsHavePasswords`: a password that is missing is one a registration is about
  to set, or its client left; `Cancel` is the only step from the one to the other.

### Ratchet and client sessions

* `HandshakesAgree`, about operators: `initiator_handshake` and `responder_handshake` derive one
  root, because the initial message's flag tells the responder whether the one-time
  key is part of what was hashed. `SessionsProofs` starts its sessions from it.
* `NextFrameOpens` (`CrossingFramesOpen`). `PairInv` says how two ratchets and the
  frames between them stand: one of the two leads (`Leading`), which means that its
  frames are first some on the chain its peer still receives on, then all on the
  chain of its new key, while the other's are all on the chain it has. Sending may
  swap the roles; counters are the chain positions modulo `Counter`.
* `KeysFresh` (`KeyUsedOnce`) through `KeyInv`: used keys lie behind the head of their
  chain, and no root in use is longer than both parties' roots.
* `KeysRenewed` and `StoredSessionReturns` from the same invariant; the latter is an
  identity of `to_bytes` and `from_bytes` on every state (`BlobRoundTrip`): a blob is
  five parts, each optional field announces its length (`FlagRead`), and what is read
  at an offset is what was joined there (`StaysAt`, `AppendedAt`).
* `SessionsProofs!NextMessageReadable` (`ReadableInStep`). A direction that nothing
  disturbed is `Quiet` (no session, no mail), `Running` (the letters under way are the
  keys of the sender's chain from where the peer stands) or `Starting` (the peer has
  no session and the first letter has an init that seeds the right one: both sides of
  PQXDH derive one root, with or without the one-time key). The maps that waiting
  calls hold must be sound too (`MapSound`), since `Establish` writes them back.
* `SessionsProofs!ReuseOnlyByOldMap` (`ReuseNeedsOldMap`) through `SpentInv`: the root
  of a spent key names the session it is from, and the key lies behind the head of that
  session's chain unless the session was rolled back.

### The other services

All in `ServicesProofs`.

* `PresenceIsTrue` (`OnlineIffHeard`): an entry is there, with its TTL counted from the
  last sign of life, or that sign is too old to matter (`Follows`).
* `MarksTellTheTruth` (`MarksAreTrue`), through `MarksBacked`: a text is encrypted once,
  for the chat it was typed in and before it is in a thread, and the mark of one that is
  in a thread is backed by what the server or the recipient has.
* `KeysFixMembers` and `EpochsCountChanges`, with `GroupsTyped`. Members and secret are
  two fields that nothing ties together in the code; the invariant `Sound` does: who is
  a member is what the last change of the chain about that device says, and the chain
  is one longer than the epoch.
* `MembersAgree` (`RostersConverge`). The property speaks of the end, when all has
  arrived; the invariant of the way there. As long as the owner alone edits and has
  the group (`Calm`), for each member that is not `stale` (`Told`) the present
  definition is still to be sent, by a loop that has the member before it or a call
  that waits with it in hand (`ToBeSent`); or a message with it is under way and no
  definition after it can replace it (`LastIs`); or the member has it, and a session,
  and nothing under way can replace it (`Settled`). A loop that has a member
  before it serves every edit made so far, since it reads the group when it sends. A
  waiting call may have an older definition, but what it sends is the first message
  of a handshake, and nobody who has a session reads one (`Harmless`); that is why a
  member who has read something is safe from it, and why one who reads the older
  definition first cannot read the newer and becomes `stale`. Maps that are written
  back only change which handshake a later frame is of (`MapsTyped`).
* `AiRouting!EnvelopeRule`, about an operator. Its lemma `FindsFirst` takes the first
  provider from the well-foundedness of the naturals.

### Only model-checked

`MailIsDelivered`, `ReplacedSessionStops` and `EventuallySaved`: liveness under fairness
is out of the prover's reach. The seven claims of the violated runs are false, and TLC
shows it. That the separate modules agree where they meet (the queue's order that
`Sessions` and `Rosters` take from `Delivery`, the client's texts and the gateway) is
argued here and in the modules' heads, not proved.

## Plan

1. Done: the models, their runs, and a theorem for every safety property of the
   passing runs.
2. Done: the exceptions of `RostersConverge`, `RestartKeepsSaved`, `FlagMeansTemporary`
   and `ResetLinkSurvives` are confined to whom and to when they concern, and proved in
   that form; a violated run shows what a comment in the code
   rules out and the exception allows (`accounts_told`, `sessions_reuse`).
3. Next: runs for the two observations above that contradict a comment (a copy queued
   after a deletion; broadcasts that wait for one bundle).
4. Worth doing when the code changes: the action properties behind the findings
   (which steps alone can remove a slot, tear a file or disturb a direction), so that
   a fix turns a violated run into a theorem.

## Not modelled

The Redis and Postgres stores are skeletons; serde encodings (`mx-transport`,
`mx-types`) keep no state; cryptographic primitives are out of reach of these
tools; the UI (rendering, themes, media, `device.ts`) and the generated wasm
glue carry no protocol. Receipts and edits that `mx-messaging` can build are
called by nothing. The signatures of pre-keys are made and, outside tests, never
verified; a bundle in the model is the one its device published.

## Running

    tlc -config Delivery.cfg MCDelivery
    tlc -config Services.cfg MCServices
    tlapm DeliveryProofs.tla
    tlapm SessionsProofs.tla
