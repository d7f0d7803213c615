---- MODULE MCLogin ----
(* Login for TLC: one account, also spelled in another case, and two         *)
(* concurrent requests.  The code of step 0 has two spellings, one of them   *)
(* in full-width digits; the third string is the code of step 1; step 2 has  *)
(* the code of step 0 again.                                                 *)
EXTENDS Login

MCEmails == {"ann", "ANN"}
MCAccounts == {"ann"}
MCLower == [e \in MCEmails |-> "ann"]
MCCodes == {"zero", "wide zero", "one"}
MCStepsOf == [a \in MCAccounts |-> [c \in MCCodes |-> IF c = "one" THEN {1} ELSE {0, 2}]]
====
