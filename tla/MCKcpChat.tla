----------------------------- MODULE MCKcpChat -----------------------------
(* Clients are interchangeable. *)
EXTENDS KcpChat

Clients == Permutations(Client)
=============================================================================
