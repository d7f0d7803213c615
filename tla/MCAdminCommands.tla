---- MODULE MCAdminCommands ----
(* AdminCommands for TLC: the address e1 is typed in capitals.  Clients and  *)
(* requests are interchangeable.                                             *)
EXTENDS AdminCommands, TLC

MCEmails == {"e1", "e2"}
MCSpellings == {"E1", "e2"}
MCLower == [s \in MCSpellings |-> IF s = "E1" THEN "e1" ELSE s]
Symmetry == Permutations(Clients) \cup Permutations(Requests)
====
