---- MODULE MCUsersCache ----
(* UsersCache for TLC.  Users and calls are interchangeable.                 *)
EXTENDS UsersCache, TLC

Symmetry == Permutations(Users) \cup Permutations(Calls)
====
