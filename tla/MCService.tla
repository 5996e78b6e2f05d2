------------------------------ MODULE MCService ------------------------------
(***************************************************************************)
(* Three clients, two artifacts: an approve, a discover and a third        *)
(* request can overlap in every order, and so can two takes and a request. *)
(***************************************************************************)
EXTENDS Service, TLC

ClientsSymmetry == Permutations(Clients)
=============================================================================
