--------------------------- MODULE MCCurrentOnCall ---------------------------
(* Instances of CurrentOnCall for TLC. *)
EXTENDS CurrentOnCall

CONSTANTS u1, u2

On(user, end) == [user |-> user, end |-> end]

TwoUsers == {u1, u2}
TwoEnds == {1, 2}

(* Nobody; one user; two with different ends; one without an end; an entry *)
(* without an id, alone and beside a user.                                 *)
SomeRotas ==
  {<<>>, <<On(u1, 1)>>, <<On(u1, 1), On(u2, 2)>>, <<On(u2, 2), On(u1, NoEnd)>>,
   <<On(NoId, 1)>>, <<On(NoId, 2), On(u2, NoEnd)>>}

==============================================================================
