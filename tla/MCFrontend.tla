----------------------------- MODULE MCFrontend -----------------------------
(* Small instances of Frontend for TLC. *)
EXTENDS Frontend, TLC

(* The loopback address is not interchangeable with the other clients. *)
Symmetric ==
    Permutations(Req) \cup Permutations(Client \ {Local}) \cup Permutations(File)
=============================================================================
