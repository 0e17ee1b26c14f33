----------------------------- MODULE MCConsent -----------------------------
(* Consent on small instances, without symmetry: FlowsEnd is a liveness    *)
(* property.                                                               *)
EXTENDS Consent

=============================================================================
