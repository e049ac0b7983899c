----------------------------- MODULE AiRouting -----------------------------
(***************************************************************************)
(* mx-ai: which tier serves a request.  The tiers are numbered in privacy  *)
(* order, 1 the device, 2 the enclave, 3 an external model; the            *)
(* orchestrator keeps its providers sorted and takes the first that meets  *)
(* the request's floor.  Pure, and behind no route of the server.          *)
(***************************************************************************)
EXTENDS Naturals, Sequences, WellFoundedInduction, TLAPS

OnDevice == 1
ConfidentialEnclave == 2
ExternalFrontier == 3
Tier == 1 .. 3

(* AiRequest; min_tier 0 stands for None.                                  *)
AiRequest == [e2e : BOOLEAN, user_consent_external : BOOLEAN,
              min_tier : Tier \cup {0}]

(* The errors are numbered past the tiers.                                 *)
InvalidInput == 4
Unauthorized == 5

(* AiOrchestrator::new sorts its providers by tier.                        *)
IsSorted(p) == \A i, j \in DOMAIN p : i <= j => p[i] <= p[j]
Orchestrator == {p \in Seq(Tier) : IsSorted(p)}

Floor(req) == IF req.min_tier = 0 THEN OnDevice ELSE req.min_tier

(* iter().find: the first provider at or above the floor.                  *)
Finds(p, floor, i) ==
    i \in DOMAIN p /\ p[i] >= floor /\ \A j \in DOMAIN p : p[j] >= floor => i <= j

(* tier_for: the tier found, unless the envelope rule refuses it.          *)
TierFor(p, req) ==
    IF \A i \in DOMAIN p : p[i] < Floor(req) THEN InvalidInput
    ELSE LET chosen == p[CHOOSE i \in DOMAIN p : Finds(p, Floor(req), i)]
         IN  IF chosen = ExternalFrontier /\ req.e2e /\ ~req.user_consent_external
             THEN Unauthorized ELSE chosen

(* route: the provider of that tier runs the request.                      *)
Route(p, req, i) == i \in DOMAIN p /\ p[i] = TierFor(p, req)

-----------------------------------------------------------------------------
(* A list with a provider at or above the floor has a first one.           *)
LEMMA FindsFirst ==
    ASSUME NEW p \in Orchestrator, NEW floor \in Tier,
           \E i \in DOMAIN p : p[i] >= floor
    PROVE  \E i \in DOMAIN p : Finds(p, floor, i)
<1> DEFINE T == {i \in DOMAIN p : p[i] >= floor}
<1>1. p \in Seq(Tier) /\ DOMAIN p \subseteq Nat
  BY DEF Orchestrator
<1>2. T \subseteq Nat /\ T # {}
  BY <1>1
<1>3. \A y, z \in Nat : y < z => <<y, z>> \in OpToRel(<, Nat)
  BY DEF OpToRel
<1>4. \E R : /\ IsWellFoundedOn(R, Nat)
             /\ \A y, z \in Nat : y < z => <<y, z>> \in R
  BY <1>3, NatLessThanWellFounded, Zenon
<1>5. PICK R : /\ IsWellFoundedOn(R, Nat)
               /\ \A y, z \in Nat : y < z => <<y, z>> \in R
  BY <1>4
<1>6. IsWellFoundedOn(R, Nat)
  BY <1>5
<1>7. T \subseteq Nat
  BY <1>2
<1>8. T # {}
  BY <1>2
<1>9. PICK x \in T : \A y \in T : ~(<<y, x>> \in R)
  <2> HIDE DEF T
  <2> QED BY <1>6, <1>7, <1>8, WFMin, Zenon
<1>10. \A y \in T : x <= y
  <2>1. SUFFICES ASSUME NEW y \in T, ~(x <= y) PROVE FALSE
    BY Zenon
  <2>2. x \in Nat /\ y \in Nat /\ y < x
    BY <1>7, <2>1
  <2> QED BY <1>5, <1>9, <2>2, Zenon
<1> QED BY <1>10 DEF Finds

(* tier_for serves a request at its floor or above, at the most private    *)
(* tier there is a provider for, and never sends the text of an encrypted  *)
(* chat to an external model without consent; and it refuses for want of   *)
(* consent only where no provider at all could have served the request     *)
(* more privately.                                                         *)
THEOREM EnvelopeRule ==
    ASSUME NEW p \in Orchestrator, NEW req \in AiRequest
    PROVE  /\ TierFor(p, req) \in Tier =>
                /\ \E i \in DOMAIN p : Route(p, req, i)
                /\ TierFor(p, req) >= Floor(req)
                /\ \A i \in DOMAIN p : p[i] >= Floor(req) => p[i] >= TierFor(p, req)
                /\ TierFor(p, req) = ExternalFrontier =>
                      ~req.e2e \/ req.user_consent_external
           /\ TierFor(p, req) = Unauthorized =>
                \A i \in DOMAIN p : p[i] >= Floor(req) => p[i] = ExternalFrontier
<1>1. Floor(req) \in Tier /\ p \in Seq(Tier) /\ IsSorted(p)
  BY DEF Floor, AiRequest, Tier, OnDevice, Orchestrator
<1>2. CASE \A i \in DOMAIN p : p[i] < Floor(req)
  <2>1. TierFor(p, req) = InvalidInput
    BY <1>2 DEF TierFor
  <2> QED BY <2>1 DEF InvalidInput, Unauthorized, Tier
<1>3. CASE \E i \in DOMAIN p : ~(p[i] < Floor(req))
  <2>1. \E i \in DOMAIN p : p[i] >= Floor(req)
    BY <1>1, <1>3 DEF Tier
  <2>2. \E i \in DOMAIN p : Finds(p, Floor(req), i)
    BY <1>1, <2>1, FindsFirst
  <2> DEFINE k == CHOOSE i \in DOMAIN p : Finds(p, Floor(req), i)
  <2>3. k \in DOMAIN p /\ Finds(p, Floor(req), k)
    BY <2>2
  <2>4. TierFor(p, req) = IF p[k] = ExternalFrontier /\ req.e2e
                             /\ ~req.user_consent_external
                          THEN Unauthorized ELSE p[k]
    BY <1>3 DEF TierFor
  <2> HIDE DEF k
  <2>5. p[k] \in Tier /\ p[k] >= Floor(req)
    BY <1>1, <2>3 DEF Finds
  <2>6. \A i \in DOMAIN p : p[i] >= Floor(req) => p[i] >= p[k]
    BY <1>1, <2>3 DEF Finds, IsSorted, Tier
  <2>7. CASE p[k] = ExternalFrontier /\ req.e2e /\ ~req.user_consent_external
    <3>1. TierFor(p, req) = Unauthorized
      BY <2>4, <2>7
    <3>2. \A i \in DOMAIN p : p[i] >= Floor(req) => p[i] = ExternalFrontier
      BY <1>1, <2>6, <2>7 DEF Tier, ExternalFrontier
    <3> QED BY <3>1, <3>2 DEF Unauthorized, Tier
  <2>8. CASE ~(p[k] = ExternalFrontier /\ req.e2e /\ ~req.user_consent_external)
    <3>1. TierFor(p, req) = p[k]
      BY <2>4, <2>8
    <3> QED BY <2>3, <2>5, <2>6, <2>8, <3>1 DEF Route, Unauthorized, Tier
  <2> QED BY <2>7, <2>8
<1> QED BY <1>2, <1>3
=============================================================================
