--------------------------- MODULE ExposureProofs ---------------------------
(* What every implementation of Exposure inherits.                          *)
EXTENDS Exposure, TLAPS

ExposureInv ==
  /\ asked \in SUBSET Clients
  /\ backends \in [Places -> SUBSET (Clients \cup {Foreign})]
  /\ overlooked \in [Places -> SUBSET (Clients \cup {Foreign})]
  /\ NeverUnasked

(* Nobody is exposed who did not ask, in Exposure and so in every strategy  *)
(* that implements it.                                                      *)
THEOREM AbstractNeverUnasked == Spec => []NeverUnasked
<1>1. Init => ExposureInv
  BY DEF Init, ExposureInv, NeverUnasked
<1>2. ExposureInv /\ [Next]_<<asked, backends, overlooked>> => ExposureInv'
  <2> SUFFICES ASSUME ExposureInv, [Next]_<<asked, backends, overlooked>> PROVE ExposureInv'
    OBVIOUS
  <2> USE DEF ExposureInv, NeverUnasked
  <2>1. ASSUME NEW k \in Clients, Ask(k) PROVE ExposureInv'
    BY <2>1 DEF Ask
  <2>2. ASSUME NEW k \in Clients, NEW p \in Places, Expose(k, p) PROVE ExposureInv'
    BY <2>2 DEF Expose
  <2>3. ASSUME NEW p \in Places, Withdraw(p) PROVE ExposureInv'
    BY <2>3 DEF Withdraw
  <2>4. ASSUME NEW p \in Places, Interfere(p) PROVE ExposureInv'
    BY <2>4 DEF Interfere
  <2>5. CASE UNCHANGED <<asked, backends, overlooked>>
    BY <2>5
  <2> QED BY <2>1, <2>2, <2>3, <2>4, <2>5 DEF Next
<1>3. ExposureInv => NeverUnasked
  BY DEF ExposureInv
<1> QED BY <1>1, <1>2, <1>3, PTL DEF Spec
=============================================================================
