------------------------------ MODULE MCVerifier ------------------------------
(***************************************************************************)
(* A small instance of Verifier: claims of one belief, one of them         *)
(* imported; a replacement that ends two of them and an expiry that ends   *)
(* one; and two requests nobody may accept, an expiry of the imported      *)
(* claim and a backdated correction.                                       *)
(***************************************************************************)
EXTENDS Verifier, SampleRequests

AuditedRequests == {M1, O1, O3, Imported, R1, X1, X2, C2}
=============================================================================
