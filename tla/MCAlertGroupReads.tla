-------------------------- MODULE MCAlertGroupReads --------------------------
(* Instances of AlertGroupReads for TLC. *)
EXTENDS AlertGroupReads

CONSTANTS g1, Times

OneGroup == {g1}

(* Every state filter alone, ranges with bounds on and between the whole   *)
(* seconds, and a state with a range, a malformed bound and an offset.     *)
At(t) == Bound("time", t, 0)
Ranges == {NoBound} \cup {At(t) : t \in Times}

SomeFilters ==
  {Filter(state, NoBound, NoBound) : state \in {"", "new", "RESOLVED", "open"}}
  \cup {Filter("", from, to) : from, to \in Ranges}
  \cup {Filter(" Firing", NoBound, At(Second)), Filter("", Bound("malformed", 0, 0), At(2 * Second)),
        Filter("", Bound("time", Second, Second), At(2 * Second))}

==============================================================================
