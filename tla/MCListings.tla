---- MODULE MCListings ----
(* Listings for TLC. *)
EXTENDS Listings
====
