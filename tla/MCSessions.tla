---- MODULE MCSessions ----
(* Sessions for TLC: one account, also spelled in another case; a code for    *)
(* each step and a wrong one; a service that is started without claims, with  *)
(* both bound, and with another secret.                                       *)
EXTENDS Sessions

MCEmails == {"ann", "ANN"}
MCAccounts == {"ann"}
MCLower == [e \in MCEmails |-> "ann"]
MCCodes == {"zero", "one", "two", "wrong"}
MCStepsOf ==
    [a \in MCAccounts |->
       [c \in MCCodes |->
          CASE c = "zero" -> {0} [] c = "one" -> {1} [] c = "two" -> {2} [] OTHER -> {}]]
MCClaims == {"aud", "iss"}
MCConfigurations ==
    {[secret |-> "old", bind |-> [c \in MCClaims |-> None]],
     [secret |-> "old", bind |-> [c \in MCClaims |-> c]],
     [secret |-> "new", bind |-> [c \in MCClaims |-> c]]}
====
