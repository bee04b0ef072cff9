---------------------------- MODULE MCUxAccount -----------------------------
(* One task struct that is used twice, two threads inside the driver.      *)
EXTENDS UxAccount
CONSTANTS t1, c1, c2, id

OneTask     == {t1}
TwoCallers  == {c1, c2}
OneId       == {id}
Divided     == [c \in TwoCallers |-> IF c = c1 THEN {"exact"} ELSE {"none"}]
=============================================================================
