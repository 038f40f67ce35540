------------------------- MODULE MCAlertGroupWrites -------------------------
(* Instances of AlertGroupWrites for TLC. *)
EXTENDS AlertGroupWrites

CONSTANTS c1, c2, g1

TwoCalls == {c1, c2}
OneGroup == {g1}
Accepted == {200}
Refused == {409}
Failed == {502}

=============================================================================
