----------------------------- MODULE MCPagination -----------------------------
(* Instances of Pagination for TLC. *)
EXTENDS Pagination

Limits == {-1, 1, 3, 300}

==============================================================================
