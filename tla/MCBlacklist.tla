---- MODULE MCBlacklist ----
(* Blacklist for TLC: two spellings of one address, a blank value, and       *)
(* bodies that send one column or a field with its value.                    *)
EXTENDS Blacklist, TLC

MCFields == {Email, "client_phone"}
MCValues == {"ann", "ANN", " ", ""}
MCStrip == [v \in MCValues |-> IF v = " " THEN "" ELSE v]
MCLower == [v \in MCValues |-> IF v = "ANN" THEN "ann" ELSE v]
MCTimes == 1 .. 2
\* Unsent columns carry the same value in every body.
Unsent == [field |-> Email, value |-> "ann", active_from |-> NoBound, active_until |-> NoBound]
MCSent == {{c} : c \in Columns} \cup {{"field", "value"}}
MCBodies ==
    {b \in [sent : MCSent, row : Row] :
        /\ \A c \in Columns \ b.sent : b.row[c] = Unsent[c]
        /\ \A c \in {"active_from", "active_until"} \cap b.sent : b.row[c] # NoBound}
Symmetry == Permutations(Patches) \cup Permutations(Ids)
====
