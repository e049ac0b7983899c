------------------------- MODULE PersistenceProofs -------------------------
(***************************************************************************)
(* Proofs about Persistence, for every set of users and devices and any    *)
(* number of restarts and publications.                                    *)
(***************************************************************************)
EXTENDS Persistence, TLAPS

-----------------------------------------------------------------------------
(* Whatever is captured, written or loaded was in the stores once.         *)

Past(s) == s.users \subseteq born /\ s.devices \subseteq known

(* Every copy of the state, in memory and in both files, is in the past:   *)
(* without this a restart could bring in an account never created.         *)
CopiesArePast ==
    /\ \A w \in Writer : Past(snap[w])
    /\ Past(file.snap)
    /\ Past(tmp.snap)
    /\ purging \subseteq known

TypeInv == TypeOK /\ CopiesArePast

(* The contents a write may leave have the type of a file.                 *)
LEMMA WrittenTypes ==
    ASSUME NEW c \in Content, NEW s \in Snapshot, NEW x \in Written(c, s)
    PROVE  x \in Content /\ (x.snap = s \/ x.snap = Empty)
  <1>1. Empty \in Snapshot
    BY DEF Empty, Snapshot, Bundles
  <1>2. x = Whole(s) \/ x = Torn
    BY DEF Written
  <1>3. QED
    BY <1>1, <1>2 DEF Whole, Torn, Content

(* A snapshot with other users and devices is one.                         *)
LEMMA CapturedTypes ==
    ASSUME NEW s \in Snapshot, NEW us \in SUBSET User, NEW ds \in SUBSET Device
    PROVE  [s EXCEPT !.users = us, !.devices = ds] \in Snapshot
  BY DEF Snapshot

(* Every step of a handler, a writer or the process keeps the types.       *)
LEMMA TypeStep == TypeInv /\ [Next]_vars => TypeInv'
  <1> SUFFICES ASSUME TypeInv, [Next]_vars
               PROVE  TypeInv'
    OBVIOUS
  <1> USE PersistenceTypes
      DEF TypeInv, TypeOK, CopiesArePast, Past, store, disk, writer, past
  <1>0. /\ Empty \in Snapshot /\ Empty.users = {} /\ Empty.devices = {}
        /\ Absent \in Content /\ Torn \in Content
        /\ Absent.snap = Empty /\ Torn.snap = Empty
        /\ \A s \in Snapshot : Whole(s) \in Content /\ Whole(s).snap = s
    BY DEF Empty, Snapshot, Bundles, Absent, Torn, Whole, Content
  <1>1. ASSUME NEW u \in User, RegisterAccount(u)
        PROVE  TypeInv'
    BY <1>1 DEF RegisterAccount
  <1>2. ASSUME NEW d \in Device, RegisterDevice(d)
        PROVE  TypeInv'
    BY <1>2 DEF RegisterDevice
  <1>3. ASSUME NEW d \in Device, PublishPrekeys(d)
        PROVE  TypeInv'
    BY <1>3 DEF PublishPrekeys, Bundles
  <1>4. ASSUME NEW d \in Device, FetchPrekeys(d)
        PROVE  TypeInv'
    BY <1>4 DEF FetchPrekeys, Bundles
  <1>5. ASSUME NEW u \in User, DeleteUser(u)
        PROVE  TypeInv'
    BY <1>5 DEF DeleteUser
  <1>6. ASSUME NEW d \in Device, RemoveBundle(d)
        PROVE  TypeInv'
    BY <1>6 DEF RemoveBundle, Bundles
  <1>7. ASSUME NEW w \in Writer, CaptureUsers(w)
        PROVE  TypeInv'
    <2>s. snap[w] \in Snapshot /\ users \in SUBSET User /\ devices \in SUBSET Device
      OBVIOUS
    <2>0. [snap[w] EXCEPT !.users = users, !.devices = devices] \in Snapshot
      BY <2>s, CapturedTypes, Zenon
    <2>1. snap' \in [Writer -> Snapshot]
      BY <1>7, <2>0 DEF CaptureUsers
    <2>2. \A v \in Writer : Past(snap[v])'
      BY <1>7 DEF CaptureUsers, Snapshot
    <2>3. QED
      BY <1>7, <2>1, <2>2 DEF CaptureUsers
  <1>8. ASSUME NEW w \in Writer, CapturePrekeys(w)
        PROVE  TypeInv'
    <2>1. snap' \in [Writer -> Snapshot]
      BY <1>8 DEF CapturePrekeys, Snapshot
    <2>2. \A v \in Writer : Past(snap[v])'
      BY <1>8 DEF CapturePrekeys, Snapshot
    <2>3. QED
      BY <1>8, <2>1, <2>2 DEF CapturePrekeys
  <1>9. ASSUME NEW w \in Writer, OpenTmp(w)
        PROVE  TypeInv'
    BY <1>0, <1>9 DEF OpenTmp
  <1>10. ASSUME NEW w \in Writer, WriteTmp(w)
         PROVE  TypeInv'
    <2>1. /\ file' \in Content /\ tmp' \in Content
          /\ file' = file \/ file'.snap = snap[w] \/ file'.snap = Empty
          /\ tmp' = tmp \/ tmp'.snap = snap[w] \/ tmp'.snap = Empty
      BY <1>10, WrittenTypes DEF WriteTmp
    <2>2. QED
      BY <1>0, <1>10, <2>1 DEF WriteTmp
  <1>11. ASSUME NEW w \in Writer, RenameTmp(w)
         PROVE  TypeInv'
    <2>1. saved' \subseteq User /\ erased' \subseteq User
      BY <1>11 DEF RenameTmp, Snapshot
    <2>2. fd' \in [Writer -> {"none", "tmp", "file"}]
      BY <1>11 DEF RenameTmp
    <2>3. QED
      BY <1>0, <1>11, <2>1, <2>2 DEF RenameTmp
  <1>12. ASSUME Shutdown \/ Exit \/ Kill
         PROVE  TypeInv'
    BY <1>0, <1>12 DEF Shutdown, Exit, Kill, Halt
  <1>13. ASSUME Restart
         PROVE  TypeInv'
    <2>1. Loaded \in Snapshot /\ Past(Loaded)
      BY <1>0 DEF Loaded, Content
    <2>2. users' \subseteq born /\ devices' \subseteq known /\ prekeys' \in Bundles
      BY <1>13, <2>1 DEF Restart, Snapshot
    <2>3. saved' \subseteq born /\ erased' \subseteq born /\ overlapped' \in BOOLEAN
      BY <1>13, <2>1 DEF Restart
    <2>4. QED
      BY <1>13, <2>2, <2>3 DEF Restart
  <1>14. CASE UNCHANGED vars
    BY <1>14 DEF vars
  <1>15. "saver" \in Writer /\ "flush" \in Writer
    BY DEF Writer
  <1>16. QED
    BY <1>1, <1>2, <1>3, <1>4, <1>5, <1>6, <1>7, <1>8, <1>9, <1>10, <1>11,
       <1>12, <1>13, <1>14, <1>15
       DEF Next, SaveStep, SaverTick, FinalFlush

(* Types hold at the first start.                                          *)
LEMMA InitTypes == Init => TypeInv
  <1> SUFFICES ASSUME Init PROVE TypeInv
    OBVIOUS
  <1>1. /\ Empty \in Snapshot /\ Empty.users = {} /\ Empty.devices = {}
        /\ Absent \in Content /\ Absent.snap = Empty
    BY DEF Empty, Snapshot, Bundles, Absent, Content
  <1>2. TypeOK
    BY <1>1 DEF Init, TypeOK, Bundles
  <1>3. CopiesArePast
    BY <1>1 DEF Init, CopiesArePast, Past
  <1>4. QED
    BY <1>2, <1>3 DEF TypeInv

(* Types hold in every state, across any number of restarts.               *)
THEOREM TypeCorrect == Spec => []TypeOK
  <1>1. TypeInv => TypeOK
    BY DEF TypeInv
  <1>2. QED
    BY InitTypes, TypeStep, <1>1, PTL DEF Spec

-----------------------------------------------------------------------------
(* Devices and their accounts.                                             *)

(* The temporary file is on its way into place: it must be right too.      *)
OwnedInv == TypeInv /\ DevicesHaveOwners /\ Owned(tmp.snap.users, tmp.snap.devices)

(* No step separates a device from its account in any copy of the state.   *)
LEMMA OwnedStep == OwnedInv /\ [Next]_vars => OwnedInv'
  <1> SUFFICES ASSUME OwnedInv, [Next]_vars
               PROVE  OwnedInv'
    OBVIOUS
  <1>0. TypeInv' /\ TypeInv /\ TypeOK
    BY TypeStep DEF OwnedInv, TypeInv
  <1> USE PersistenceTypes
      DEF OwnedInv, DevicesHaveOwners, Owned, store, disk, writer, past
  <1>1. /\ Empty.users = {} /\ Empty.devices = {}
        /\ Absent.snap = Empty /\ Torn.snap = Empty
    BY DEF Empty, Absent, Torn
  <1>2. ASSUME NEW u \in User, RegisterAccount(u) \/ DeleteUser(u)
        PROVE  OwnedInv'
    BY <1>0, <1>2 DEF RegisterAccount, DeleteUser, TypeOK
  <1>3. ASSUME NEW d \in Device,
               RegisterDevice(d) \/ PublishPrekeys(d) \/ FetchPrekeys(d) \/ RemoveBundle(d)
        PROVE  OwnedInv'
    BY <1>0, <1>3 DEF RegisterDevice, PublishPrekeys, FetchPrekeys, RemoveBundle
  <1>4. ASSUME NEW w \in Writer, CaptureUsers(w)
        PROVE  OwnedInv'
    <2>1. snap'[w].users = users /\ snap'[w].devices = devices
          /\ \A v \in Writer \ {w} : snap'[v] = snap[v]
      BY <1>0, <1>4 DEF CaptureUsers, TypeOK, Snapshot
    <2>2. QED
      BY <1>0, <1>4, <2>1 DEF CaptureUsers
  <1>5. ASSUME NEW w \in Writer, CapturePrekeys(w)
        PROVE  OwnedInv'
    <2>1. \A v \in Writer : snap'[v].users = snap[v].users /\ snap'[v].devices = snap[v].devices
      BY <1>0, <1>5 DEF CapturePrekeys, TypeOK, Snapshot
    <2>2. QED
      BY <1>0, <1>5, <2>1 DEF CapturePrekeys
  <1>6. ASSUME NEW w \in Writer, OpenTmp(w)
        PROVE  OwnedInv'
    BY <1>0, <1>1, <1>6 DEF OpenTmp
  <1>7. ASSUME NEW w \in Writer, WriteTmp(w)
        PROVE  OwnedInv'
    <2>1. /\ file' = file \/ file'.snap = snap[w] \/ file'.snap = Empty
          /\ tmp' = tmp \/ tmp'.snap = snap[w] \/ tmp'.snap = Empty
      BY <1>0, <1>7, WrittenTypes DEF WriteTmp, TypeOK
    <2>2. QED
      BY <1>0, <1>1, <1>7, <2>1 DEF WriteTmp
  <1>8. ASSUME NEW w \in Writer, RenameTmp(w)
        PROVE  OwnedInv'
    <2>1. \A v \in Writer : snap'[v] = snap[v] \/ snap'[v] = Empty
      BY <1>0, <1>8 DEF RenameTmp, TypeOK
    <2>2. tmp' = Absent /\ (file' = file \/ file' = tmp) /\ UNCHANGED <<users, devices>>
      BY <1>8 DEF RenameTmp
    <2>3. QED
      BY <1>0, <1>1, <2>1, <2>2
  <1>9. ASSUME Shutdown \/ Exit \/ Kill
        PROVE  OwnedInv'
    BY <1>0, <1>1, <1>9 DEF Shutdown, Exit, Kill, Halt
  <1>10. ASSUME Restart
         PROVE  OwnedInv'
    BY <1>0, <1>1, <1>10 DEF Restart, Loaded
  <1>11. CASE UNCHANGED vars
    BY <1>0, <1>11 DEF vars
  <1>12. "saver" \in Writer /\ "flush" \in Writer
    BY DEF Writer
  <1>13. QED
    BY <1>2, <1>3, <1>4, <1>5, <1>6, <1>7, <1>8, <1>9, <1>10, <1>11, <1>12
       DEF Next, SaveStep, SaverTick, FinalFlush

(* A device is never without its account, in memory or in a snapshot, for  *)
(* any number of accounts, saves, kills and restarts: overlapping writers  *)
(* included.                                                               *)
THEOREM DevicesOwned == Spec => []DevicesHaveOwners
  <1>1. Init => OwnedInv
    BY InitTypes DEF Init, OwnedInv, DevicesHaveOwners, Owned, Empty, Absent
  <1>2. OwnedInv => DevicesHaveOwners
    BY DEF OwnedInv
  <1>3. QED
    BY <1>1, <1>2, OwnedStep, PTL DEF Spec

-----------------------------------------------------------------------------
(* One-time keys.                                                          *)

(* A key on offer is one that has not been handed out for this offer.      *)
OfferInv ==
    /\ TypeInv
    /\ \A d \in Device :
          /\ handed[d] <= published[d] + restarts
          /\ prekeys[d] = "full" => handed[d] < published[d] + restarts

(* Each step that puts a key on offer is counted.                          *)
LEMMA OfferStep == OfferInv /\ [Next]_vars => OfferInv'
  <1> SUFFICES ASSUME OfferInv, [Next]_vars
               PROVE  OfferInv'
    OBVIOUS
  <1>0. TypeInv' /\ TypeInv /\ TypeOK
    BY TypeStep DEF OfferInv, TypeInv
  <1> USE DEF OfferInv, store, disk, writer, past
  <1>1. ASSUME UNCHANGED <<prekeys, handed, published, restarts>>
        PROVE  OfferInv'
    BY <1>0, <1>1
  <1>2. ASSUME NEW d \in Device, PublishPrekeys(d)
        PROVE  OfferInv'
    BY <1>0, <1>2 DEF PublishPrekeys, TypeOK, Bundles
  <1>3. ASSUME NEW d \in Device, FetchPrekeys(d)
        PROVE  OfferInv'
    BY <1>0, <1>3 DEF FetchPrekeys, TypeOK, Bundles
  <1>4. ASSUME NEW d \in Device, RemoveBundle(d)
        PROVE  OfferInv'
    BY <1>0, <1>4 DEF RemoveBundle, TypeOK, Bundles
  <1>5. ASSUME Restart
        PROVE  OfferInv'
    BY <1>0, <1>5 DEF Restart, TypeOK
  <1>6. QED
    BY <1>1, <1>2, <1>3, <1>4, <1>5
       DEF Next, SaveStep, SaverTick, FinalFlush, vars, RegisterAccount,
           RegisterDevice, DeleteUser, CaptureUsers, CapturePrekeys, OpenTmp,
           WriteTmp, RenameTmp, Shutdown, Exit, Kill

(* fetch_and_consume gives a one-time key to one caller per offer, for any *)
(* number of devices, publications and restarts.                           *)
THEOREM KeysOncePerOffer == Spec => []KeyHandedOncePerOffer
  <1>1. Init => OfferInv
    BY InitTypes DEF Init, OfferInv
  <1>2. OfferInv => KeyHandedOncePerOffer
    BY DEF OfferInv, KeyHandedOncePerOffer
  <1>3. QED
    BY <1>1, <1>2, OfferStep, PTL DEF Spec

-----------------------------------------------------------------------------
(* The two writers, while they take turns.                                 *)

Stores == [users |-> users, devices |-> devices, prekeys |-> prekeys]

OneWriter == \A v, w \in Writer : v # w => wpc[v] = "idle" \/ wpc[w] = "idle"

(* The temporary file is the writer's own from its truncation to its       *)
(* rename.                                                                 *)
TmpHeld ==
    \A w \in Writer :
        /\ wpc[w] \in {"idle", "capture", "open", "done"} => fd[w] = "none"
        /\ wpc[w] = "write" => fd[w] = "tmp" /\ tmp = Torn
        /\ wpc[w] = "rename" => fd[w] = "tmp" /\ tmp = Whole(snap[w])

(* The file is the last save, and torn at most from before the restart.    *)
FileIsSaved ==
    \/ file \in {Absent, Torn} /\ saved = {}
    \/ file = Whole(file.snap) /\ file.snap.users = saved

Busy == {"capture", "open", "write", "rename"}

(* An account a save has seen deleted is in no store and no file, and in   *)
(* nothing that is on its way to a file; what a save is about to erase is  *)
(* gone already.                                                           *)
StaysErased ==
    /\ erased \cap (users \cup saved) = {}
    /\ \A w \in Writer : wpc[w] \in Busy =>
          /\ erased \cap snap[w].users = {}
          /\ (saved \ snap[w].users) \cap users = {}

(* The final flush holds what the stores hold, which change no more.       *)
FlushHolds ==
    /\ wpc["flush"] # "idle" => phase = "stopping"
    /\ wpc["flush"] \in Busy => snap["flush"].users = users /\ snap["flush"].devices = devices
    /\ wpc["flush"] \in Busy \ {"capture"} => snap["flush"] = Stores
    /\ wpc["flush"] = "done" \/ phase = "exited" => file = Whole(Stores)
    /\ wpc["saver"] # "done"

(* Nobody writes between two processes, and what a file is can be told     *)
(* from it: also after two writers met in it.                              *)
Shape(c) == c \in {Absent, Torn} \/ c = Whole(c.snap)
BetweenProcesses ==
    /\ Shape(file) /\ Shape(tmp)
    /\ phase \in {"exited", "killed"} =>
          \A w \in Writer : wpc[w] = "idle" /\ fd[w] = "none"

Quiet == OneWriter /\ TmpHeld /\ FileIsSaved /\ StaysErased /\ FlushHolds

QuietInv == TypeInv /\ BetweenProcesses /\ (~overlapped => Quiet)

(* Files tell their state.                                                 *)
LEMMA Files ==
    /\ Absent.state = "absent" /\ Torn.state = "torn"
    /\ \A s : Whole(s).state = "whole" /\ Whole(s).snap = s
  BY DEF Absent, Torn, Whole

(* The writers stop with their process, overlapped or not.                 *)
LEMMA BetweenStep == TypeInv /\ BetweenProcesses /\ [Next]_vars => BetweenProcesses'
  <1> SUFFICES ASSUME TypeInv, BetweenProcesses, [Next]_vars
               PROVE  BetweenProcesses'
    OBVIOUS
  <1>0. TypeOK
    BY DEF TypeInv
  <1> USE DEF store, disk, writer, past
  <1>1. ASSUME UNCHANGED <<file, tmp>>, phase' \in {"up", "stopping"}
        PROVE  BetweenProcesses'
    BY <1>1 DEF BetweenProcesses, Shape
  <1>2. ASSUME NEW u \in User, RegisterAccount(u) \/ DeleteUser(u)
        PROVE  BetweenProcesses'
    BY <1>1, <1>2 DEF RegisterAccount, DeleteUser
  <1>3. ASSUME NEW d \in Device,
               RegisterDevice(d) \/ PublishPrekeys(d) \/ FetchPrekeys(d) \/ RemoveBundle(d)
        PROVE  BetweenProcesses'
    BY <1>1, <1>3 DEF RegisterDevice, PublishPrekeys, FetchPrekeys, RemoveBundle
  <1>4. CASE SaverTick \/ FinalFlush \/ Shutdown \/ Restart
    <2>1. UNCHANGED <<file, tmp>> /\ phase' \in {"up", "stopping"}
      BY <1>4 DEF SaverTick, FinalFlush, CaptureUsers, Shutdown, Restart
    <2>2. QED
      BY <1>1, <2>1
  <1>5. ASSUME NEW w \in Writer, SaveStep(w)
        PROVE  BetweenProcesses'
    <2>1. wpc[w] # "idle" /\ phase' = phase
      BY <1>5 DEF SaveStep, CapturePrekeys, OpenTmp, WriteTmp, RenameTmp
    <2>2. phase' \in {"up", "stopping"}
      BY <1>0, <2>1 DEF BetweenProcesses, TypeOK
    <2>3. Shape(Absent) /\ Shape(Torn) /\ \A s : Shape(Whole(s))
      BY Files DEF Shape
    <2>4. \A c, s : \A x \in Written(c, s) : Shape(x)
      BY <2>3 DEF Written
    <2>5. Shape(file') /\ Shape(tmp')
      <3>1. CASE CapturePrekeys(w)
        BY <3>1 DEF CapturePrekeys, BetweenProcesses
      <3>2. CASE OpenTmp(w)
        BY <2>3, <3>2 DEF OpenTmp, BetweenProcesses
      <3>3. CASE WriteTmp(w)
        BY <2>4, <3>3 DEF WriteTmp, BetweenProcesses
      <3>4. CASE RenameTmp(w)
        BY <2>3, <3>4 DEF RenameTmp, BetweenProcesses
      <3>5. QED
        BY <1>5, <3>1, <3>2, <3>3, <3>4 DEF SaveStep
    <2>6. QED
      BY <2>2, <2>5 DEF BetweenProcesses, Shape
  <1>6. CASE Exit \/ Kill
    <2>1. UNCHANGED <<file, tmp>> /\ \A w \in Writer : wpc'[w] = "idle" /\ fd'[w] = "none"
      BY <1>6 DEF Exit, Kill, Halt
    <2>2. QED
      BY <2>1 DEF BetweenProcesses, Shape
  <1>7. CASE UNCHANGED vars
    BY <1>7 DEF vars, BetweenProcesses, Shape
  <1>8. QED
    BY <1>2, <1>3, <1>4, <1>5, <1>6, <1>7 DEF Next

(* A handler works on the stores while the process is up, brings in only   *)
(* accounts never seen, and leaves writers and files alone.                *)
LEMMA QuietHandler ==
    ASSUME TypeInv, Quiet, phase = "up", phase' = "up",
           users' \subseteq users \cup (User \ born),
           born \subseteq born',
           UNCHANGED <<wpc, snap, fd, file, tmp, saved, erased>>
    PROVE  Quiet'
  <1>0. saved \subseteq born /\ erased \subseteq born
    BY DEF TypeInv, TypeOK
  <1>1. wpc["flush"] = "idle" /\ wpc["saver"] # "done"
    BY DEF Quiet, FlushHolds
  <1>2. OneWriter' /\ TmpHeld' /\ FileIsSaved'
    BY DEF Quiet, OneWriter, TmpHeld, FileIsSaved
  <1>3. StaysErased'
    BY <1>0 DEF Quiet, StaysErased
  <1>4. FlushHolds'
    BY <1>1 DEF FlushHolds, Busy
  <1>5. QED
    BY <1>2, <1>3, <1>4 DEF Quiet

(* A capture that starts while the other writer is idle.                   *)
LEMMA QuietCapture ==
    ASSUME TypeInv, Quiet, NEW w \in Writer, CaptureUsers(w), wpc[w] = "idle",
           \A v \in Writer \ {w} : wpc[v] = "idle",
           w = "saver" => phase \in {"up", "stopping"},
           w = "flush" => phase = "stopping"
    PROVE  Quiet'
  <1>0. TypeOK /\ OneWriter /\ TmpHeld /\ FileIsSaved /\ StaysErased /\ FlushHolds
    BY DEF TypeInv, Quiet
  <1>1. /\ wpc'[w] = "capture" /\ snap'[w].users = users /\ snap'[w].devices = devices
        /\ \A v \in Writer \ {w} : wpc'[v] = wpc[v] /\ snap'[v] = snap[v]
        /\ UNCHANGED <<phase, users, devices, prekeys, fd, file, tmp, born, saved, erased>>
    BY <1>0 DEF CaptureUsers, TypeOK, Snapshot, store, disk
  <1>2. OneWriter'
    BY <1>1 DEF OneWriter
  <1>3. TmpHeld' /\ FileIsSaved'
    BY <1>0, <1>1 DEF TmpHeld, FileIsSaved
  <1>4. StaysErased'
    BY <1>0, <1>1 DEF StaysErased, Busy
  <1>5. FlushHolds'
    <2>1. Stores' = Stores
      BY <1>1 DEF Stores
    <2>2. "saver" \in Writer /\ "flush" \in Writer /\ w \in {"saver", "flush"}
      BY DEF Writer
    <2>3. CASE w = "saver"
      <3>1. wpc'["flush"] = "idle" /\ wpc'["saver"] = "capture" /\ phase' \in {"up", "stopping"}
        BY <1>1, <2>2, <2>3
      <3>2. QED
        BY <3>1 DEF FlushHolds, Busy
    <2>4. CASE w = "flush"
      <3>1. wpc'["flush"] = "capture" /\ wpc'["saver"] = "idle" /\ phase' = "stopping"
            /\ snap'["flush"].users = users' /\ snap'["flush"].devices = devices'
        BY <1>1, <2>2, <2>4
      <3>2. QED
        BY <3>1 DEF FlushHolds, Busy
    <2>5. QED
      BY <2>2, <2>3, <2>4
  <1>6. QED
    BY <1>2, <1>3, <1>4, <1>5 DEF Quiet

(* The step of a writer that is the only one at work.                      *)
LEMMA QuietSave ==
    ASSUME TypeInv, BetweenProcesses, Quiet, NEW w \in Writer, SaveStep(w)
    PROVE  Quiet'
  <1>0. TypeOK /\ OneWriter /\ TmpHeld /\ FileIsSaved /\ StaysErased /\ FlushHolds
    BY DEF TypeInv, Quiet
  <1>1. "saver" \in Writer /\ "flush" \in Writer /\ w \in {"saver", "flush"}
    BY DEF Writer
  <1>2. wpc[w] \in Busy /\ \A v \in Writer \ {w} : wpc[v] = "idle" /\ fd[v] = "none"
    BY <1>0 DEF SaveStep, CapturePrekeys, OpenTmp, WriteTmp, RenameTmp, OneWriter, TmpHeld, Busy
  <1>3. phase \in {"up", "stopping"} /\ (w = "flush" => phase = "stopping")
    BY <1>0, <1>2 DEF FlushHolds, TypeOK, Busy, BetweenProcesses
  <1>4. CASE CapturePrekeys(w)
    <2>1. /\ wpc[w] = "capture" /\ wpc'[w] = "open"
          /\ snap'[w].users = snap[w].users /\ snap'[w].devices = snap[w].devices
          /\ snap'[w].prekeys = prekeys
          /\ \A v \in Writer \ {w} : wpc'[v] = wpc[v] /\ snap'[v] = snap[v]
          /\ UNCHANGED <<phase, users, devices, prekeys, fd, file, tmp, born, saved, erased>>
      BY <1>0, <1>4 DEF CapturePrekeys, TypeOK, Snapshot, store, disk, past
    <2>2. OneWriter' /\ TmpHeld' /\ FileIsSaved'
      BY <1>0, <1>2, <2>1 DEF OneWriter, TmpHeld, FileIsSaved
    <2>3. StaysErased'
      BY <1>0, <1>2, <2>1 DEF StaysErased, Busy
    <2>4. FlushHolds'
      <3>1. CASE w = "saver"
        <4>1. wpc'["flush"] = "idle" /\ wpc'["saver"] = "open" /\ phase' \in {"up", "stopping"}
          BY <1>1, <1>2, <1>3, <2>1, <3>1
        <4>2. QED
          BY <4>1 DEF FlushHolds, Busy
      <3>2. CASE w = "flush"
        <4>1. wpc'["flush"] = "open" /\ wpc'["saver"] = "idle" /\ phase' = "stopping"
          BY <1>1, <1>2, <1>3, <2>1, <3>2
        <4>2. snap'["flush"].users = users /\ snap'["flush"].devices = devices
          BY <1>0, <1>2, <2>1, <3>2 DEF FlushHolds
        <4>3. snap'["flush"] \in Snapshot
          BY <1>1, TypeStep DEF TypeInv, TypeOK, Next
        <4>4. snap'["flush"] = Stores'
          BY <2>1, <3>2, <4>2, <4>3 DEF Snapshot, Stores
        <4>5. QED
          BY <2>1, <4>1, <4>2, <4>4 DEF FlushHolds, Busy
      <3>3. QED
        BY <1>1, <3>1, <3>2
    <2>5. QED
      BY <2>2, <2>3, <2>4 DEF Quiet
  <1>5. CASE OpenTmp(w) \/ WriteTmp(w)
    <2>1. /\ \/ wpc[w] = "open" /\ wpc'[w] = "write" /\ tmp' = Torn /\ fd'[w] = "tmp"
             \/ /\ wpc[w] = "write" /\ wpc'[w] = "rename" /\ fd'[w] = "tmp"
                /\ tmp' = Whole(snap[w])
          /\ file' = file
      BY <1>0, <1>5, Files DEF OpenTmp, WriteTmp, TmpHeld, TypeOK, Written
    <2>2. /\ \A v \in Writer \ {w} : wpc'[v] = wpc[v] /\ fd'[v] = fd[v]
          /\ UNCHANGED <<phase, users, devices, prekeys, snap, born, saved, erased>>
      BY <1>0, <1>5 DEF OpenTmp, WriteTmp, TypeOK, store, past
    <2>3. OneWriter' /\ TmpHeld' /\ FileIsSaved'
      BY <1>0, <1>2, <2>1, <2>2 DEF OneWriter, TmpHeld, FileIsSaved
    <2>4. StaysErased'
      BY <1>0, <1>2, <2>1, <2>2 DEF StaysErased, Busy
    <2>5. FlushHolds'
      <3>1. CASE w = "saver"
        <4>1. wpc'["flush"] = "idle" /\ wpc'["saver"] \in Busy /\ phase' \in {"up", "stopping"}
          BY <1>1, <1>2, <1>3, <2>1, <2>2, <3>1 DEF Busy
        <4>2. QED
          BY <4>1 DEF FlushHolds, Busy
      <3>2. CASE w = "flush"
        <4>1. wpc'["flush"] \in Busy /\ wpc'["saver"] = "idle" /\ phase' = "stopping"
          BY <1>1, <1>2, <1>3, <2>1, <2>2, <3>2 DEF Busy
        <4>2. wpc["flush"] \in Busy \ {"capture"}
          BY <2>1, <3>2 DEF Busy
        <4>3. Stores' = Stores
          BY <2>2 DEF Stores
        <4>4. QED
          BY <1>0, <2>2, <4>1, <4>2, <4>3 DEF FlushHolds, Busy
      <3>3. QED
        BY <1>1, <3>1, <3>2
    <2>6. QED
      BY <2>3, <2>4, <2>5 DEF Quiet
  <1>6. CASE RenameTmp(w)
    <2>1. wpc[w] = "rename" /\ tmp = Whole(snap[w]) /\ tmp # Absent
      BY <1>0, <1>6, Files DEF RenameTmp, TmpHeld
    <2>2. /\ wpc'[w] = (IF w = "saver" THEN "idle" ELSE "done")
          /\ \A v \in Writer \ {w} : wpc'[v] = wpc[v]
          /\ \A v \in Writer : fd'[v] = "none"
          /\ file' = Whole(snap[w]) /\ saved' = snap[w].users
          /\ erased' = erased \cup (saved \ snap[w].users)
          /\ UNCHANGED <<phase, users, devices, prekeys, born>>
      BY <1>0, <1>2, <1>6, <2>1 DEF RenameTmp, TypeOK, store
    <2>3. OneWriter' /\ TmpHeld'
      BY <1>1, <1>2, <2>2 DEF OneWriter, TmpHeld
    <2>4. FileIsSaved'
      BY <2>2, Files DEF FileIsSaved
    <2>5. StaysErased'
      <3>1. snap[w].users \subseteq born
        BY DEF TypeInv, CopiesArePast, Past
      <3>2. erased \cap snap[w].users = {} /\ (saved \ snap[w].users) \cap users = {}
        BY <1>0, <1>2 DEF StaysErased
      <3>3. \A v \in Writer : wpc'[v] \notin Busy
        BY <1>2, <2>2 DEF Busy
      <3>4. QED
        BY <1>0, <2>2, <3>1, <3>2, <3>3 DEF StaysErased
    <2>6. FlushHolds'
      <3>1. CASE w = "saver"
        <4>1. wpc'["flush"] = "idle" /\ wpc'["saver"] = "idle" /\ phase' \in {"up", "stopping"}
          BY <1>1, <1>2, <1>3, <2>2, <3>1
        <4>2. QED
          BY <4>1 DEF FlushHolds, Busy
      <3>2. CASE w = "flush"
        <4>1. wpc'["flush"] = "done" /\ wpc'["saver"] = "idle" /\ phase' = "stopping"
          BY <1>1, <1>2, <1>3, <2>2, <3>2
        <4>2. snap["flush"] = Stores /\ Stores' = Stores
          BY <1>0, <2>1, <2>2, <3>2 DEF FlushHolds, Busy, Stores
        <4>3. QED
          BY <2>2, <3>2, <4>1, <4>2 DEF FlushHolds, Busy
      <3>3. QED
        BY <1>1, <3>1, <3>2
    <2>7. QED
      BY <2>3, <2>4, <2>5, <2>6 DEF Quiet
  <1>7. QED
    BY <1>4, <1>5, <1>6 DEF SaveStep

(* The end of the process, and its shutdown.                               *)
LEMMA QuietEnd ==
    ASSUME TypeInv, Quiet, Shutdown \/ Exit \/ Kill
    PROVE  Quiet'
  <1>0. TypeOK /\ OneWriter /\ TmpHeld /\ FileIsSaved /\ StaysErased /\ FlushHolds
    BY DEF TypeInv, Quiet
  <1>1. /\ UNCHANGED <<users, devices, prekeys, file, tmp, born, saved, erased>>
        /\ Stores' = Stores /\ "saver" \in Writer /\ "flush" \in Writer
    BY DEF Shutdown, Exit, Kill, disk, store, past, Stores, Writer
  <1>2. FileIsSaved'
    BY <1>0, <1>1 DEF FileIsSaved
  <1>3. CASE Shutdown
    <2>1. UNCHANGED <<wpc, snap, fd>> /\ wpc["flush"] = "idle" /\ phase' = "stopping"
      BY <1>0, <1>3 DEF Shutdown, writer, FlushHolds
    <2>2. OneWriter' /\ TmpHeld' /\ StaysErased'
      BY <1>0, <1>1, <2>1 DEF OneWriter, TmpHeld, StaysErased
    <2>3. FlushHolds'
      BY <1>0, <2>1 DEF FlushHolds, Busy
    <2>4. QED
      BY <1>2, <2>2, <2>3 DEF Quiet
  <1>4. CASE Exit \/ Kill
    <2>1. /\ \A w \in Writer : wpc'[w] = "idle" /\ fd'[w] = "none"
          /\ phase' = "killed" \/ (phase' = "exited" /\ wpc["flush"] = "done")
      BY <1>4 DEF Exit, Kill, Halt
    <2>2. OneWriter' /\ TmpHeld' /\ StaysErased'
      BY <1>0, <1>1, <2>1 DEF OneWriter, TmpHeld, StaysErased, Busy
    <2>3. FlushHolds'
      BY <1>0, <1>1, <2>1 DEF FlushHolds, Busy
    <2>4. QED
      BY <1>2, <2>2, <2>3 DEF Quiet
  <1>5. QED
    BY <1>3, <1>4

(* The restart loads what was saved; if the writers overlapped, what they  *)
(* left counts as saved from here on.                                      *)
LEMMA QuietRestart ==
    ASSUME TypeInv, BetweenProcesses, ~overlapped => Quiet, Restart
    PROVE  Quiet'
  <1>0. TypeOK /\ Shape(file) /\ overlapped \in BOOLEAN
    BY DEF TypeInv, TypeOK, BetweenProcesses
  <1>1. /\ UNCHANGED <<wpc, snap, fd, file, tmp>>
        /\ phase' = "up" /\ users' = Loaded.users /\ "saver" \in Writer /\ "flush" \in Writer
    BY DEF Restart, disk, writer, Writer
  <1>2. \A w \in Writer : wpc'[w] = "idle" /\ fd'[w] = "none"
    BY <1>1 DEF Restart, BetweenProcesses
  <1>l. Loaded.users = (IF file.state = "whole" THEN file.snap.users ELSE {})
    BY DEF Loaded, Empty
  <1>3. users' = saved' /\ erased' \cap users' = {}
    <2>1. CASE overlapped
      BY <1>1, <2>1 DEF Restart
    <2>2. CASE ~overlapped
      <3>1. FileIsSaved /\ StaysErased
        BY <2>2 DEF Quiet
      <3>2. Loaded.users = saved
        BY <1>l, <3>1, Files DEF FileIsSaved
      <3>3. QED
        BY <1>1, <2>2, <3>1, <3>2 DEF Restart, StaysErased
    <2>3. QED
      BY <2>1, <2>2
  <1>4. FileIsSaved'
    <2>1. saved' = Loaded.users /\ file' = file
      BY <1>1, <1>3
    <2>2. QED
      BY <1>0, <1>l, <2>1, Files DEF FileIsSaved, Shape
  <1>d. OneWriter' /\ TmpHeld'
    BY <1>2 DEF OneWriter, TmpHeld
  <1>5. StaysErased'
    BY <1>2, <1>3 DEF StaysErased, Busy
  <1>6. FlushHolds'
    BY <1>1, <1>2 DEF FlushHolds, Busy
  <1>7. QED
    BY <1>4, <1>d, <1>5, <1>6 DEF Quiet

(* Every step but the restart, while the writers take turns.               *)
LEMMA QuietWork ==
    ASSUME TypeInv, BetweenProcesses, Quiet, [Next]_vars, ~Restart, ~overlapped'
    PROVE  Quiet'
  <1> USE DEF store, disk, writer, past
  <1>2. TypeInv /\ TypeOK /\ BetweenProcesses /\ Quiet /\ FlushHolds
    BY DEF TypeInv, Quiet
  <1>3. ASSUME NEW u \in User, RegisterAccount(u) \/ DeleteUser(u)
        PROVE  Quiet'
    BY <1>2, <1>3, QuietHandler DEF RegisterAccount, DeleteUser
  <1>4. ASSUME NEW d \in Device,
               RegisterDevice(d) \/ PublishPrekeys(d) \/ FetchPrekeys(d) \/ RemoveBundle(d)
        PROVE  Quiet'
    BY <1>2, <1>4, QuietHandler DEF RegisterDevice, PublishPrekeys, FetchPrekeys, RemoveBundle
  <1>5. ASSUME NEW w \in Writer, SaveStep(w)
        PROVE  Quiet'
    BY <1>2, <1>5, QuietSave
  <1>6. CASE SaverTick
    <2>1. "saver" \in Writer /\ \A v \in Writer \ {"saver"} : wpc[v] = "idle"
      BY <1>2, <1>6 DEF SaverTick, CaptureUsers, TypeOK, Writer
    <2>2. QED
      BY <1>2, <1>6, <2>1, QuietCapture DEF SaverTick
  <1>7. CASE FinalFlush
    <2>1. "flush" \in Writer /\ \A v \in Writer \ {"flush"} : wpc[v] = "idle"
      BY <1>2, <1>7 DEF FinalFlush, CaptureUsers, TypeOK, Writer
    <2>2. QED
      BY <1>2, <1>7, <2>1, QuietCapture DEF FinalFlush
  <1>8. CASE Shutdown \/ Exit \/ Kill
    BY <1>2, <1>8, QuietEnd
  <1>10. CASE UNCHANGED vars
    <2>1. UNCHANGED <<phase, wpc, snap, fd, file, tmp, users, devices, prekeys, saved, erased, born>>
      BY <1>10 DEF vars
    <2>2. QED
      BY <1>2, <2>1 DEF Quiet, OneWriter, TmpHeld, FileIsSaved, StaysErased, FlushHolds, Stores
  <1>11. QED
    BY <1>3, <1>4, <1>5, <1>6, <1>7, <1>8, <1>10 DEF Next

(* As long as no capture starts while the other writer is at work.         *)
LEMMA QuietStep == QuietInv /\ [Next]_vars => QuietInv'
  <1> SUFFICES ASSUME QuietInv, [Next]_vars, ~overlapped'
               PROVE  Quiet'
    BY TypeStep, BetweenStep DEF QuietInv
  <1> USE DEF store, disk, writer, past
  <1>0. CASE Restart
    BY <1>0, QuietRestart DEF QuietInv
  <1>1. CASE ~Restart
    <2>1. overlapped' = overlapped \/ (SaverTick \/ FinalFlush)
      <3>1. ASSUME NEW u \in User, RegisterAccount(u) \/ DeleteUser(u)
            PROVE  overlapped' = overlapped
        BY <3>1 DEF RegisterAccount, DeleteUser
      <3>2. ASSUME NEW d \in Device,
                   RegisterDevice(d) \/ PublishPrekeys(d) \/ FetchPrekeys(d) \/ RemoveBundle(d)
            PROVE  overlapped' = overlapped
        BY <3>2 DEF RegisterDevice, PublishPrekeys, FetchPrekeys, RemoveBundle
      <3>3. ASSUME NEW w \in Writer, SaveStep(w)
            PROVE  overlapped' = overlapped
        BY <3>3 DEF SaveStep, CapturePrekeys, OpenTmp, WriteTmp, RenameTmp
      <3>4. CASE Shutdown \/ Exit \/ Kill \/ UNCHANGED vars
        BY <3>4 DEF Shutdown, Exit, Kill, vars
      <3>5. QED
        BY <1>1, <3>1, <3>2, <3>3, <3>4 DEF Next
    <2>2. SaverTick \/ FinalFlush => (overlapped => overlapped')
      BY DEF SaverTick, FinalFlush, CaptureUsers
    <2>3. ~overlapped
      BY <2>1, <2>2
    <2>4. TypeInv /\ TypeOK /\ BetweenProcesses /\ Quiet /\ FlushHolds
      BY <2>3 DEF QuietInv, TypeInv, Quiet
    <2>5. QED
      BY <1>1, <2>4, QuietWork
  <1>2. QED
    BY <1>0, <1>1

(* At the first start there is no file and nobody writes.                  *)
LEMMA QuietStart == Init => QuietInv
  <1> SUFFICES ASSUME Init PROVE TypeInv /\ BetweenProcesses /\ Quiet
    BY DEF QuietInv
  <1>1. \A w \in Writer : wpc[w] = "idle" /\ fd[w] = "none"
    BY DEF Init
  <1>2. wpc["saver"] = "idle" /\ wpc["flush"] = "idle"
    BY <1>1 DEF Writer
  <1>3. QED
    BY <1>1, <1>2, InitTypes
       DEF Init, BetweenProcesses, Shape, Quiet, OneWriter, TmpHeld, FileIsSaved,
           StaysErased, FlushHolds, Busy

(* "A restart is non-destructive", for any number of accounts, saves,      *)
(* kills in the middle of a save and restarts, as long as the two writers  *)
(* of the process that is up have not been at work at once.                *)
THEOREM RestartLosesNoSave == Spec => []RestartKeepsSaved
  <1>1. ASSUME QuietInv
        PROVE  RestartKeepsSaved
    <2>1. Loaded.users = (IF file.state = "whole" THEN file.snap.users ELSE {})
      BY DEF Loaded, Empty
    <2>2. QED
      BY <1>1, <2>1, Files DEF QuietInv, Quiet, FileIsSaved, StaysErased, RestartKeepsSaved
  <1>2. QED
    BY <1>1, QuietStart, QuietStep, PTL DEF Spec

(* "Final flush so a clean shutdown loses nothing", under the same         *)
(* condition: after a clean exit the file is what the stores held.         *)
THEOREM QuietFlushLosesNothing == Spec => []QuietFlushKeepsAll
  <1>1. ASSUME QuietInv
        PROVE  QuietFlushKeepsAll
    BY <1>1 DEF QuietInv, Quiet, FlushHolds, Stores, QuietFlushKeepsAll
  <1>2. QED
    BY <1>1, QuietStart, QuietStep, PTL DEF Spec
=============================================================================
