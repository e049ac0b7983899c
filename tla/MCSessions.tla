----------------------------- MODULE MCSessions -----------------------------
(* One tab and a peer or two, a call at a time, at most one thing that     *)
(* goes wrong.                                                             *)
EXTENDS Sessions

MCKeyOwner == Contact \cup {"me"}
=============================================================================
