------------------------------- MODULE Mailbox -------------------------------
(***************************************************************************)
(* What the delivery layer promises a device, without saying how: an       *)
(* at-most-once mailbox.  Each copy accepted for a device is handed over   *)
(* at most once or dropped, never both, and nothing else is handed over.   *)
(*                                                                         *)
(* This is the contract of MessagingService: one copy per device on        *)
(* ingest, "at-most-once handoff from the server's perspective" on pull.   *)
(***************************************************************************)
EXTENDS Naturals, Sequences, Functions

CONSTANTS
    Device, Msg,
    Route      \* the ways a copy can reach a client of the device

VARIABLES
    accepted,  \* the copies accepted for a device, in order
    handed,    \* the hand-overs made, each by a route
    dropped    \* the ones that will never be given to anybody

mvars == <<accepted, handed, dropped>>

Pending(d) ==
    {m \in Range(accepted[d]) \ dropped[d] : \A r \in Route : <<r, m>> \notin handed[d]}

MailboxInit ==
    /\ accepted = [d \in Device |-> <<>>]
    /\ handed = [d \in Device |-> {}]
    /\ dropped = [d \in Device |-> {}]

Accept(d, m) ==
    /\ m \notin Range(accepted[d])
    /\ accepted' = [accepted EXCEPT ![d] = Append(@, m)]
    /\ UNCHANGED <<handed, dropped>>

HandOver(d, r, ms) ==
    /\ ms \subseteq Pending(d)
    /\ handed' = [handed EXCEPT ![d] = @ \cup ({r} \X ms)]
    /\ UNCHANGED <<accepted, dropped>>

Drop(d, ms) ==
    /\ ms \subseteq Pending(d)
    /\ dropped' = [dropped EXCEPT ![d] = @ \cup ms]
    /\ UNCHANGED <<accepted, handed>>

MailboxNext ==
    \E d \in Device :
        \/ \E m \in Msg : Accept(d, m)
        \/ \E r \in Route, ms \in SUBSET Msg : HandOver(d, r, ms)
        \/ \E ms \in SUBSET Msg : Drop(d, ms)

MailboxSpec == MailboxInit /\ [][MailboxNext]_mvars
=============================================================================
