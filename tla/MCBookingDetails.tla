---- MODULE MCBookingDetails ----
(* BookingDetails for TLC: a URL that is a short link and one that is not. *)
EXTENDS BookingDetails, TLC

MCUrls == {"short", "bare"}
MCIdents == {"short"}
MCIdent == [url \in MCUrls |-> IF url \in MCIdents THEN url ELSE None]
Symmetry == Permutations(Users) \cup Permutations(Bookings)
====
