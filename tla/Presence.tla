------------------------------ MODULE Presence ------------------------------
(***************************************************************************)
(* mx-presence: who is online and who is typing.  Both are maps from a key *)
(* to the instant at which the entry expires, read against the clock and   *)
(* pruned by a sweep.  Offline is never announced: a heartbeat that does   *)
(* not come is the signal.  The gateway's sessions are the heartbeats'     *)
(* source; the typing calls and the sweep have no caller in the server.    *)
(***************************************************************************)
EXTENDS Naturals

CONSTANTS
    Device,
    Typist,     \* typing keys: a user in a peer's conversation
    OnlineTTL, TypingTTL,
    MaxTime,    \* bound: the last instant of the clock
    None        \* no entry

ASSUME PresenceTypes ==
    /\ OnlineTTL \in Nat
    /\ TypingTTL \in Nat
    /\ MaxTime \in Nat
    /\ None \notin Nat

VARIABLES
    now,        \* the injected clock
    conn,       \* a device's socket: "no", "hello" (authenticated), "open"
    online,     \* MemoryStore.online
    typing,     \* MemoryStore.typing, keyed by peer and user together
    beat,       \* history: the last heartbeat of a device
    stroke      \* history: the last burst of a typist who has not stopped

presence == <<now, conn, online, typing, beat, stroke>>

Instant == Nat \cup {None}

-----------------------------------------------------------------------------
(* The store's reads and writes on one map m.                              *)

(* is_online, typists: an entry counts strictly before its expiry.         *)
LiveAt(m, k) == m[k] # None /\ m[k] > now

IsOnline(d) == LiveAt(online, d)
WhoIsTyping == {k \in Typist : LiveAt(typing, k)}

(* Variant: a refresh keeps the expiry of an entry that is still there.    *)
Put_Keep(m, k, ttl) ==
    [m EXCEPT ![k] = IF LiveAt(m, k) THEN @ ELSE now + ttl]

(* put_online, put_typing: the new expiry replaces the old one.            *)
Put(m, k, ttl) == [m EXCEPT ![k] = now + ttl]

(* retain(exp > now).                                                      *)
Pruned(m) == [k \in DOMAIN m |-> IF LiveAt(m, k) THEN m[k] ELSE None]

-----------------------------------------------------------------------------
(* ws_session: the first frame authenticated the device.                   *)
Hello(d) ==
    /\ conn[d] = "no"
    /\ conn' = [conn EXCEPT ![d] = "hello"]
    /\ UNCHANGED <<now, online, typing, beat, stroke>>

(* set_online: ws_session marks the device, each later frame refreshes it. *)
SetOnline(d) ==
    /\ conn[d] # "no"
    /\ conn' = [conn EXCEPT ![d] = "open"]
    /\ online' = Put(online, d, OnlineTTL)
    /\ beat' = [beat EXCEPT ![d] = now]
    /\ UNCHANGED <<now, typing, stroke>>

(* The socket ends; the entry is left to expire.                           *)
Disconnect(d) ==
    /\ conn[d] = "open"
    /\ conn' = [conn EXCEPT ![d] = "no"]
    /\ UNCHANGED <<now, online, typing, beat, stroke>>

(* set_typing, on each burst of keystrokes.                                *)
SetTyping(k) ==
    /\ typing' = Put(typing, k, TypingTTL)
    /\ stroke' = [stroke EXCEPT ![k] = now]
    /\ UNCHANGED <<now, conn, online, beat>>

(* clear_typing, when the typist sends or leaves the field.                *)
ClearTyping(k) ==
    /\ typing' = [typing EXCEPT ![k] = None]
    /\ stroke' = [stroke EXCEPT ![k] = None]
    /\ UNCHANGED <<now, conn, online, beat>>

(* sweep prunes both maps; no write does.                                  *)
Sweep ==
    /\ online' = Pruned(online)
    /\ typing' = Pruned(typing)
    /\ UNCHANGED <<now, conn, beat, stroke>>

(* Time passes.                                                            *)
Tick ==
    /\ now < MaxTime
    /\ now' = now + 1
    /\ UNCHANGED <<conn, online, typing, beat, stroke>>

PresenceInit ==
    /\ now = 0
    /\ conn = [d \in Device |-> "no"]
    /\ online = [d \in Device |-> None]
    /\ typing = [k \in Typist |-> None]
    /\ beat = [d \in Device |-> None]
    /\ stroke = [k \in Typist |-> None]

PresenceNext ==
    \/ \E d \in Device : Hello(d) \/ SetOnline(d) \/ Disconnect(d)
    \/ \E k \in Typist : SetTyping(k) \/ ClearTyping(k)
    \/ Sweep
    \/ Tick

PresenceSpec == PresenceInit /\ [][PresenceNext]_presence

PresenceTypeOK ==
    /\ now \in Nat
    /\ conn \in [Device -> {"no", "hello", "open"}]
    /\ online \in [Device -> Instant]
    /\ typing \in [Typist -> Instant]
    /\ beat \in [Device -> Instant]
    /\ stroke \in [Typist -> Instant]

-----------------------------------------------------------------------------
(* What the component promises: a device reads as online, and a typist as  *)
(* typing, exactly while less than the TTL has passed since it was last    *)
(* heard of, however often and whenever the store is swept.                *)
OnlineIffHeard ==
    /\ \A d \in Device :
          IsOnline(d) <=> beat[d] # None /\ now < beat[d] + OnlineTTL
    /\ \A k \in Typist :
          k \in WhoIsTyping <=> stroke[k] # None /\ now < stroke[k] + TypingTTL
=============================================================================
