------------------------------- MODULE Groups -------------------------------
(***************************************************************************)
(* mx-groups and the group store: the membership of a group, its epoch,    *)
(* and the secret that every membership change ratchets.  Copies of a      *)
(* group live in their holders' memory and travel through the store as     *)
(* opaque bytes.  Nothing orders the holders: two may load the same state, *)
(* change it differently and save one over the other, and a restart brings *)
(* back an older state.  No route of the server calls either crate yet.    *)
(*                                                                         *)
(* HKDF is taken as injective: a secret is the seed and the chain of       *)
(* changes it was derived from.                                            *)
(***************************************************************************)
EXTENDS Naturals, Sequences

CONSTANTS
    GroupId,
    Member,     \* device ids, as members of a group
    Holder,     \* processes that keep a copy of a group
    MaxEpoch,   \* bound: membership changes of a copy
    NoGroup     \* no copy, no record, no state

Change == [kind : {"create", "add", "remove"}, epoch : Nat, device : Member]
Secret == [id : GroupId, creator : Member, chain : Seq(Change)]
Group == [id : GroupId, epoch : Nat, members : SUBSET Member, secret : Secret]
Record == [state : Group \cup {NoGroup}]

ASSUME GroupTypes ==
    /\ MaxEpoch \in Nat
    /\ NoGroup \notin Group
    /\ NoGroup \notin Record

VARIABLES
    copy,       \* the copy of a group in a holder's memory
    stored,     \* InMemoryGroupStore
    snapshot    \* what the store last exported to the snapshot

groups == <<copy, stored, snapshot>>

-----------------------------------------------------------------------------
(* The ratchet.                                                            *)

(* Variant: the devices are left out of the info string.                   *)
Derive_NoDevice(secret, kind, epoch, device) ==
    [secret EXCEPT !.chain =
        Append(@, [kind |-> kind, epoch |-> epoch, device |-> secret.creator])]

(* derive_secret: HKDF over the previous secret, bound to the change, the  *)
(* epoch it makes and the device it is about.                              *)
Derive(secret, kind, epoch, device) ==
    [secret EXCEPT !.chain =
        Append(@, [kind |-> kind, epoch |-> epoch, device |-> device])]

(* Group::create_group.                                                    *)
CreateGroup(g, creator) ==
    [id |-> g, epoch |-> 0, members |-> {creator},
     secret |-> Derive([id |-> g, creator |-> creator, chain |-> <<>>],
                       "create", 0, creator)]

(* Variant: the secret is ratcheted, the epoch number stays.               *)
Advance_SameEpoch(group, kind, device) ==
    [group EXCEPT !.secret = Derive(@, kind, group.epoch + 1, device)]

(* Group::advance.                                                         *)
Advance(group, kind, device) ==
    [group EXCEPT !.secret = Derive(@, kind, group.epoch + 1, device),
                  !.epoch = @ + 1]

(* add_member; a member is refused.                                        *)
CanAdd(group, device) == device \notin group.members
Added(group, device) ==
    Advance([group EXCEPT !.members = @ \cup {device}], "add", device)

(* remove_member; a stranger and the last member are refused.              *)
CanRemove(group, device) ==
    device \in group.members /\ group.members # {device}
Removed(group, device) ==
    Advance([group EXCEPT !.members = @ \ {device}], "remove", device)

(* current_epoch_key: what messages of the epoch are encrypted under.      *)
EpochKey(group) == <<group.secret, group.epoch>>

-----------------------------------------------------------------------------
(* Holders and the store.                                                  *)

Create(h, g, device) ==
    /\ copy[h] = NoGroup
    /\ copy' = [copy EXCEPT ![h] = CreateGroup(g, device)]
    /\ UNCHANGED <<stored, snapshot>>

Add(h, device) ==
    /\ copy[h] # NoGroup
    /\ copy[h].epoch < MaxEpoch
    /\ CanAdd(copy[h], device)
    /\ copy' = [copy EXCEPT ![h] = Added(@, device)]
    /\ UNCHANGED <<stored, snapshot>>

Remove(h, device) ==
    /\ copy[h] # NoGroup
    /\ copy[h].epoch < MaxEpoch
    /\ CanRemove(copy[h], device)
    /\ copy' = [copy EXCEPT ![h] = Removed(@, device)]
    /\ UNCHANGED <<stored, snapshot>>

(* GroupStore::create_group: a record without state.                       *)
StoreGroup(g) ==
    /\ stored[g] = NoGroup
    /\ stored' = [stored EXCEPT ![g] = [state |-> NoGroup]]
    /\ UNCHANGED <<copy, snapshot>>

(* Variant: the bytes replace the record.                                  *)
Saved_Bare(group) == group

(* rec.state = Some(bytes).                                                *)
Saved(group) == [state |-> group]

(* to_bytes, save_state: the record must exist; what it holds is replaced. *)
SaveState(h) ==
    /\ copy[h] # NoGroup
    /\ stored[copy[h].id] # NoGroup
    /\ stored' = [stored EXCEPT ![copy[h].id] = Saved(copy[h])]
    /\ UNCHANGED <<copy, snapshot>>

(* get_state, from_bytes: the stored copy replaces the holder's.           *)
LoadState(h, g) ==
    /\ stored[g] # NoGroup
    /\ stored[g].state # NoGroup
    /\ copy' = [copy EXCEPT ![h] = stored[g].state]
    /\ UNCHANGED <<stored, snapshot>>

(* export, of the saver; import, of the next start of the process.         *)
Export ==
    /\ snapshot' = stored
    /\ UNCHANGED <<copy, stored>>

Import ==
    /\ stored' = snapshot
    /\ UNCHANGED <<copy, snapshot>>

GroupsInit ==
    /\ copy = [h \in Holder |-> NoGroup]
    /\ stored = [g \in GroupId |-> NoGroup]
    /\ snapshot = [g \in GroupId |-> NoGroup]

GroupsNext ==
    \/ \E h \in Holder, g \in GroupId, d \in Member : Create(h, g, d)
    \/ \E h \in Holder, d \in Member : Add(h, d) \/ Remove(h, d)
    \/ \E g \in GroupId : StoreGroup(g)
    \/ \E h \in Holder : SaveState(h)
    \/ \E h \in Holder, g \in GroupId : LoadState(h, g)
    \/ Export
    \/ Import

GroupsSpec == GroupsInit /\ [][GroupsNext]_groups

-----------------------------------------------------------------------------
GroupsTypeOK ==
    /\ copy \in [Holder -> Group \cup {NoGroup}]
    /\ stored \in [GroupId -> Record \cup {NoGroup}]
    /\ snapshot \in [GroupId -> Record \cup {NoGroup}]

(* Every state of a group there is, in memory, in the store and on disk.   *)
StatesIn(m) == {m[g].state : g \in {x \in GroupId : m[x] # NoGroup}}
Copies ==
    ({copy[h] : h \in Holder} \cup StatesIn(stored) \cup StatesIn(snapshot))
        \ {NoGroup}

(* Two copies under the same epoch key are the same group with the same    *)
(* members, although holders fork, overwrite each other's saves and go     *)
(* back to older states: devices that can read each other agree on who     *)
(* else can.                                                               *)
KeyFixesMembers ==
    \A a, b \in Copies :
        EpochKey(a) = EpochKey(b) => a.id = b.id /\ a.members = b.members

(* A copy's epoch counts the changes its secret was ratcheted through, and *)
(* a group never runs out of members.                                      *)
EpochCountsChanges ==
    \A a \in Copies : Len(a.secret.chain) = a.epoch + 1 /\ a.members # {}
=============================================================================
