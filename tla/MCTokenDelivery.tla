--------------------------- MODULE MCTokenDelivery ---------------------------
(***************************************************************************)
(* TokenDelivery for TLC: one user with a browser and a mobile client.     *)
(* The request slots are interchangeable, and so are users.                *)
(***************************************************************************)
EXTENDS TokenDelivery, TLC

Symmetry == Permutations(Request) \cup Permutations(User)

==============================================================================
