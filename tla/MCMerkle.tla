------------------------------- MODULE MCMerkle -------------------------------
(***************************************************************************)
(* Four keys whose routes part at different bits, two of them at the last. *)
(***************************************************************************)
EXTENDS MerkleMap, TLC

Routes == ("a" :> <<0, 0, 0>>) @@ ("b" :> <<0, 0, 1>>) @@ ("c" :> <<0, 1, 1>>) @@ ("d" :> <<1, 1, 0>>)

MCRoute(k) == Routes[k]
MCKeys == DOMAIN Routes
=============================================================================
