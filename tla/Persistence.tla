---------------------------- MODULE Persistence ----------------------------
(***************************************************************************)
(* The durable state of mx-server: the user and pre-key stores, the        *)
(* background task that saves a snapshot of them every three seconds, the  *)
(* final flush of a clean shutdown, the file both write, and the restart   *)
(* that loads it.                                                          *)
(*                                                                         *)
(* The two writers run on different threads of the runtime.  A capture     *)
(* reads the stores under one lock after the other; a save truncates a     *)
(* temporary file, fills it and renames it, and both writers use the same  *)
(* temporary name.  A bundle is "full" while it still holds its one-time   *)
(* key and "spent" after.  Groups are left out: no handler changes them.   *)
(***************************************************************************)
EXTENDS Naturals, FiniteSets

CONSTANTS
    User, Device,
    Owner,        \* the account a device registers under
    MaxRestarts,  \* bound: how often the process starts again
    MaxPublished  \* bound: how often a client publishes its bundle

ASSUME PersistenceTypes ==
    /\ Owner \in [Device -> User]
    /\ MaxRestarts \in Nat
    /\ MaxPublished \in Nat

Writer == {"saver", "flush"}
Bundles == [Device -> {"none", "full", "spent"}]
Snapshot == [users : SUBSET User, devices : SUBSET Device, prekeys : Bundles]

Empty == [users |-> {}, devices |-> {}, prekeys |-> [d \in Device |-> "none"]]

(* A file is absent, torn (cut short or garbled), or holds a snapshot.     *)
Content == [state : {"absent", "torn", "whole"}, snap : Snapshot]
Absent == [state |-> "absent", snap |-> Empty]
Torn == [state |-> "torn", snap |-> Empty]
Whole(s) == [state |-> "whole", snap |-> s]

VARIABLES
    phase,      \* "up"; "stopping" (serve returned); "exited"; "killed"
    users,      \* InMemoryUserStore: accounts
    devices,    \* InMemoryUserStore: devices, all under one lock with users
    prekeys,    \* InMemoryPreKeyStore
    purging,    \* devices whose bundle a running delete_user has to remove
    wpc,        \* where a writer is
    snap,       \* what a writer has captured
    fd,         \* where the file a writer has opened is to be found now
    file,       \* the snapshot file
    tmp,        \* the temporary file
    born,       \* history: accounts ever created (their ids are fresh)
    known,      \* history: devices ever registered (their clients know them)
    published,  \* history: publications of a device's bundle
    handed,     \* history: times a device's one-time key was handed out
    restarts,   \* history: starts after the first
    saved,      \* history: accounts in the last save, or loaded after an overlap
    erased,     \* history: accounts deleted before the last save
    overlapped  \* history: the two writers of this process were busy at once

store  == <<users, devices, prekeys, purging>>
disk   == <<file, tmp>>
writer == <<wpc, snap, fd>>
past   == <<born, known, published, handed, restarts, saved, erased, overlapped>>
vars   == <<phase, users, devices, prekeys, purging, wpc, snap, fd, file, tmp,
            born, known, published, handed, restarts, saved, erased, overlapped>>

-----------------------------------------------------------------------------
(* Request handlers, one step per lock.                                    *)

(* register_account: create_user under a fresh id.                         *)
RegisterAccount(u) ==
    /\ phase = "up"
    /\ u \notin born
    /\ users' = users \cup {u}
    /\ born' = born \cup {u}
    /\ UNCHANGED <<phase, devices, prekeys, purging, writer, disk, known,
                   published, handed, restarts, saved, erased, overlapped>>

(* Variant: the owner is not looked up again.                              *)
RegisterDevice_Unchecked(d) ==
    /\ phase = "up"
    /\ d \notin known
    /\ Owner[d] \in born
    /\ devices' = devices \cup {d}
    /\ known' = known \cup {d}
    /\ UNCHANGED <<phase, users, prekeys, purging, writer, disk, born,
                   published, handed, restarts, saved, erased, overlapped>>

(* register_device, of a registration or a login: a fresh device, refused  *)
(* when the account is gone.                                               *)
RegisterDevice(d) ==
    /\ phase = "up"
    /\ d \notin known
    /\ Owner[d] \in users
    /\ devices' = devices \cup {d}
    /\ known' = known \cup {d}
    /\ UNCHANGED <<phase, users, prekeys, purging, writer, disk, born,
                   published, handed, restarts, saved, erased, overlapped>>

(* publish_prekeys: the client's stored bundle, again on every start of    *)
(* the client; neither the device nor its account is looked up.            *)
PublishPrekeys(d) ==
    /\ phase = "up"
    /\ d \in known
    /\ published[d] < MaxPublished
    /\ prekeys' = [prekeys EXCEPT ![d] = "full"]
    /\ published' = [published EXCEPT ![d] = @ + 1]
    /\ UNCHANGED <<phase, users, devices, purging, writer, disk, born, known,
                   handed, restarts, saved, erased, overlapped>>

(* Variant: the stored copy keeps the key that was handed out.             *)
FetchPrekeys_Keep(d) ==
    /\ phase = "up"
    /\ prekeys[d] = "full"
    /\ handed' = [handed EXCEPT ![d] = @ + 1]
    /\ UNCHANGED <<phase, store, writer, disk, born, known, published,
                   restarts, saved, erased, overlapped>>

(* fetch_and_consume of a bundle that still has its one-time key.          *)
FetchPrekeys(d) ==
    /\ phase = "up"
    /\ prekeys[d] = "full"
    /\ prekeys' = [prekeys EXCEPT ![d] = "spent"]
    /\ handed' = [handed EXCEPT ![d] = @ + 1]
    /\ UNCHANGED <<phase, users, devices, purging, writer, disk, born, known,
                   published, restarts, saved, erased, overlapped>>

(* Variant: the device list outlives the account.                          *)
DeleteUser_KeepDevices(u) ==
    /\ phase = "up"
    /\ u \in users
    /\ users' = users \ {u}
    /\ purging' = purging \cup {d \in devices : Owner[d] = u}
    /\ UNCHANGED <<phase, devices, prekeys, writer, disk, past>>

(* delete_user, first await: the account and its devices.                  *)
DeleteUser(u) ==
    /\ phase = "up"
    /\ u \in users
    /\ users' = users \ {u}
    /\ devices' = {d \in devices : Owner[d] # u}
    /\ purging' = purging \cup {d \in devices : Owner[d] = u}
    /\ UNCHANGED <<phase, prekeys, writer, disk, past>>

(* delete_user, one device of the loop.                                    *)
RemoveBundle(d) ==
    /\ phase = "up"
    /\ d \in purging
    /\ purging' = purging \ {d}
    /\ prekeys' = [prekeys EXCEPT ![d] = "none"]
    /\ UNCHANGED <<phase, users, devices, writer, disk, past>>

-----------------------------------------------------------------------------
(* Capture and save, by the saver or by the final flush.                   *)

(* Snapshot::capture, users and devices.                                   *)
CaptureUsers(w) ==
    /\ wpc' = [wpc EXCEPT ![w] = "capture"]
    /\ snap' = [snap EXCEPT ![w] = [@ EXCEPT !.users = users, !.devices = devices]]
    /\ overlapped' = (overlapped \/ \E v \in Writer \ {w} : wpc[v] # "idle")
    /\ UNCHANGED <<phase, store, fd, disk, born, known, published, handed,
                   restarts, saved, erased>>

(* Snapshot::capture, the pre-key store.                                   *)
CapturePrekeys(w) ==
    /\ wpc[w] = "capture"
    /\ wpc' = [wpc EXCEPT ![w] = "open"]
    /\ snap' = [snap EXCEPT ![w].prekeys = prekeys]
    /\ UNCHANGED <<phase, store, fd, disk, past>>

(* Variant: the snapshot file itself is opened and written.                *)
OpenTmp_InPlace(w) ==
    /\ wpc[w] = "open"
    /\ wpc' = [wpc EXCEPT ![w] = "write"]
    /\ file' = Torn
    /\ fd' = [fd EXCEPT ![w] = "file"]
    /\ UNCHANGED <<phase, store, snap, tmp, past>>

(* std::fs::write creates or truncates the temporary file ...              *)
OpenTmp(w) ==
    /\ wpc[w] = "open"
    /\ wpc' = [wpc EXCEPT ![w] = "write"]
    /\ tmp' = Torn
    /\ fd' = [fd EXCEPT ![w] = "tmp"]
    /\ UNCHANGED <<phase, store, snap, file, past>>

(* What writing s from the start of a file leaves there: s, or, if the     *)
(* other writer had already put a longer text there, a torn file.          *)
Written(content, s) ==
    IF content \in {Torn, Whole(s)} THEN {Whole(s)} ELSE {Whole(s), Torn}

(* ... and fills it, wherever a rename has taken it since.  That the disk  *)
(* refuses the directory or the write, which is logged, is not modelled.   *)
WriteTmp(w) ==
    /\ wpc[w] = "write"
    /\ wpc' = [wpc EXCEPT ![w] = "rename"]
    /\ \/ fd[w] = "tmp" /\ tmp' \in Written(tmp, snap[w]) /\ UNCHANGED file
       \/ fd[w] = "file" /\ file' \in Written(file, snap[w]) /\ UNCHANGED tmp
       \/ fd[w] = "none" /\ UNCHANGED disk
    /\ UNCHANGED <<phase, store, snap, fd, past>>

(* rename puts the temporary file in place; it fails, with a warning, when *)
(* the other writer has moved it already.                                  *)
RenameTmp(w) ==
    /\ wpc[w] = "rename"
    /\ wpc' = [wpc EXCEPT ![w] = IF w = "saver" THEN "idle" ELSE "done"]
    /\ snap' = [snap EXCEPT ![w] = Empty]
    /\ IF tmp = Absent
       THEN /\ fd' = [fd EXCEPT ![w] = "none"]
            /\ UNCHANGED <<file, saved, erased>>
       ELSE /\ file' = tmp
            /\ fd' = [v \in Writer |-> IF v # w /\ fd[v] = "tmp" THEN "file" ELSE "none"]
            /\ saved' = snap[w].users
            /\ erased' = erased \cup (saved \ snap[w].users)
    /\ tmp' = Absent
    /\ UNCHANGED <<phase, store, born, known, published, handed, restarts,
                   overlapped>>

(* Variant: the saver runs once.                                           *)
SaverTick_Once ==
    /\ phase \in {"up", "stopping"}
    /\ wpc["saver"] = "idle"
    /\ file = Absent
    /\ CaptureUsers("saver")

(* The saver's interval ticks; it goes on until the runtime is dropped.    *)
SaverTick ==
    /\ phase \in {"up", "stopping"}
    /\ wpc["saver"] = "idle"
    /\ CaptureUsers("saver")

-----------------------------------------------------------------------------
(* The life of the process.                                                *)

(* Ctrl-C: axum::serve returns once no request is left running ...         *)
Shutdown ==
    /\ phase = "up"
    /\ purging = {}
    /\ phase' = "stopping"
    /\ UNCHANGED <<store, writer, disk, past>>

(* ... and main flushes.                                                   *)
FinalFlush ==
    /\ phase = "stopping"
    /\ wpc["flush"] = "idle"
    /\ CaptureUsers("flush")

(* The writers end with the process.                                       *)
Halt ==
    /\ wpc' = [w \in Writer |-> "idle"]
    /\ snap' = [w \in Writer |-> Empty]
    /\ fd' = [w \in Writer |-> "none"]

(* Variant: main returns as soon as serve does.                            *)
Exit_Unflushed ==
    /\ phase = "stopping"
    /\ wpc["saver"] \in {"idle", "capture"}
    /\ phase' = "exited"
    /\ Halt
    /\ UNCHANGED <<store, disk, past>>

(* main returns: the runtime waits for a saver that is inside its save,    *)
(* which does not yield, and drops one that waits for its tick or a lock.  *)
Exit ==
    /\ phase = "stopping"
    /\ wpc["flush"] = "done"
    /\ wpc["saver"] \in {"idle", "capture"}
    /\ phase' = "exited"
    /\ Halt
    /\ UNCHANGED <<store, disk, past>>

(* The process is killed, wherever it is.                                  *)
Kill ==
    /\ phase \in {"up", "stopping"}
    /\ phase' = "killed"
    /\ Halt
    /\ UNCHANGED <<store, disk, past>>

(* Persistence::load: a missing file and one that cannot be parsed both    *)
(* mean an empty start.                                                    *)
Loaded == IF file.state = "whole" THEN file.snap ELSE Empty

(* main again: load, apply_snapshot, spawn the saver, serve.  What two     *)
(* writers at once did to the file ends here: the history goes on from     *)
(* what was loaded.                                                        *)
Restart ==
    /\ phase \in {"exited", "killed"}
    /\ restarts < MaxRestarts
    /\ restarts' = restarts + 1
    /\ phase' = "up"
    /\ users' = Loaded.users
    /\ devices' = Loaded.devices
    /\ prekeys' = Loaded.prekeys
    /\ purging' = {}
    /\ overlapped' = FALSE
    /\ saved' = IF overlapped THEN Loaded.users ELSE saved
    /\ erased' = IF overlapped THEN erased \ Loaded.users ELSE erased
    /\ UNCHANGED <<writer, disk, born, known, published, handed>>

-----------------------------------------------------------------------------
Init ==
    /\ phase = "up"
    /\ users = {}
    /\ devices = {}
    /\ prekeys = [d \in Device |-> "none"]
    /\ purging = {}
    /\ wpc = [w \in Writer |-> "idle"]
    /\ snap = [w \in Writer |-> Empty]
    /\ fd = [w \in Writer |-> "none"]
    /\ file = Absent
    /\ tmp = Absent
    /\ born = {}
    /\ known = {}
    /\ published = [d \in Device |-> 0]
    /\ handed = [d \in Device |-> 0]
    /\ restarts = 0
    /\ saved = {}
    /\ erased = {}
    /\ overlapped = FALSE

SaveStep(w) == CapturePrekeys(w) \/ OpenTmp(w) \/ WriteTmp(w) \/ RenameTmp(w)

Next ==
    \/ \E u \in User : RegisterAccount(u) \/ DeleteUser(u)
    \/ \E d \in Device :
          RegisterDevice(d) \/ PublishPrekeys(d) \/ FetchPrekeys(d) \/ RemoveBundle(d)
    \/ \E w \in Writer : SaveStep(w)
    \/ SaverTick \/ Shutdown \/ FinalFlush \/ Exit \/ Kill \/ Restart

Spec == Init /\ [][Next]_vars

(* The interval keeps ticking and the saver's task keeps being run; main   *)
(* goes on from its flush to its end.  A kill is never bound to happen.    *)
Fairness ==
    /\ WF_vars(SaverTick)
    /\ \A w \in Writer : WF_vars(SaveStep(w))
    /\ WF_vars(FinalFlush)
    /\ WF_vars(Exit)

FairSpec == Spec /\ Fairness

-----------------------------------------------------------------------------
(* Properties.                                                             *)

(* Types, and that delete_user purges only devices it has unlisted.        *)
TypeOK ==
    /\ phase \in {"up", "stopping", "exited", "killed"}
    /\ users \subseteq born /\ born \subseteq User
    /\ devices \subseteq known /\ known \subseteq Device
    /\ prekeys \in Bundles
    /\ purging \subseteq Device \ devices
    /\ wpc \in [Writer -> {"idle", "capture", "open", "write", "rename", "done"}]
    /\ snap \in [Writer -> Snapshot]
    /\ fd \in [Writer -> {"none", "tmp", "file"}]
    /\ file \in Content /\ tmp \in Content
    /\ published \in [Device -> Nat] /\ handed \in [Device -> Nat]
    /\ restarts \in Nat
    /\ saved \subseteq born /\ erased \subseteq born
    /\ overlapped \in BOOLEAN

Owned(us, ds) == \A d \in ds : Owner[d] \in us

(* No device without its account: in memory, in what a writer has captured *)
(* and in the file a restart loads, although registration and deletion are *)
(* several steps and the capture runs between any two of them.             *)
DevicesHaveOwners ==
    /\ Owned(users, devices)
    /\ \A w \in Writer : Owned(snap[w].users, snap[w].devices)
    /\ Owned(file.snap.users, file.snap.devices)

(* "A restart is non-destructive": at every moment a kill could come, also *)
(* in the middle of a save, the file holds exactly the accounts of the     *)
(* last completed save, and no account whose deletion a save had seen is   *)
(* back.  (Unless both writers of this process were at it at once: an      *)
(* earlier process's overlap does no more harm after the restart.)         *)
RestartKeepsSaved ==
    (phase = "up" /\ ~overlapped) =>
        /\ erased \cap users = {}
        /\ file.state = "absent" => saved = {}
        /\ file.state # "absent" => Loaded.users = saved

(* "Final flush so a clean shutdown loses nothing since the last periodic  *)
(* save": if the saver was not at work during the flush.                   *)
QuietFlushKeepsAll ==
    (phase = "exited" /\ ~overlapped) =>
        file = Whole([users |-> users, devices |-> devices, prekeys |-> prekeys])

(* A one-time key is handed out once for each time it was put on offer: by *)
(* a publication, or by a restart from a snapshot taken before the fetch.  *)
KeyHandedOncePerOffer == \A d \in Device : handed[d] <= published[d] + restarts

(* An account that stays is in the snapshot file sooner or later.          *)
EventuallySaved ==
    \A u \in User :
        (u \in users /\ phase = "up") ~>
            \/ u \notin users
            \/ phase # "up"
            \/ file.state = "whole" /\ u \in file.snap.users

-----------------------------------------------------------------------------
(* What comments of the repository say, and the code does not do.          *)

(* "Final flush so a clean shutdown loses nothing since the last periodic  *)
(* save."                                                                  *)
FinalFlushKeepsAll ==
    phase = "exited" =>
        file = Whole([users |-> users, devices |-> devices, prekeys |-> prekeys])

(* "One-time pre-keys are consumed exactly once per fetch so two peers     *)
(* never get the same one-time key": a device has one such key, in the     *)
(* bundle it made when it was provisioned.                                 *)
OneTimeKeyUsedOnce == \A d \in Device : handed[d] <= 1
=============================================================================
