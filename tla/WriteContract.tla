---------------------------- MODULE WriteContract ----------------------------
(***************************************************************************)
(* What one call of a write tool promises its MCP client, without groups,  *)
(* HTTP or tools.  Every call is answered in one of three ways:            *)
(*                                                                         *)
(*   confirmed    the write was carried out, exactly once, before the      *)
(*                answer was given;                                        *)
(*   refused      the write was not carried out and never will be;         *)
(*   unconfirmed  nothing is known: the write may have been carried out,   *)
(*                may be carried out later, or never.                      *)
(*                                                                         *)
(* AlertGroupWrites is shown to implement this module.                     *)
(***************************************************************************)
EXTENDS Naturals

CONSTANT Calls

VARIABLES
  view,     \* [Calls -> Views]  what the client knows about each call
  effects   \* [Calls -> Nat]    how often the write was carried out

vars == <<view, effects>>

Views == {"idle", "open", "confirmed", "refused", "unconfirmed"}

TypeOK ==
  /\ view \in [Calls -> Views]
  /\ effects \in [Calls -> Nat]

Init ==
  /\ view = [c \in Calls |-> "idle"]
  /\ effects = [c \in Calls |-> 0]

(* The client makes the call.                                              *)
Open(c) ==
  /\ view[c] = "idle"
  /\ view' = [view EXCEPT ![c] = "open"]
  /\ UNCHANGED effects

(* The write happens: while the call is open, or after the caller gave up. *)
TakeEffect(c) ==
  /\ view[c] \in {"open", "unconfirmed"}
  /\ effects[c] = 0
  /\ effects' = [effects EXCEPT ![c] = 1]
  /\ UNCHANGED view

Confirm(c) ==
  /\ view[c] = "open"
  /\ effects[c] = 1
  /\ view' = [view EXCEPT ![c] = "confirmed"]
  /\ UNCHANGED effects

Refuse(c) ==
  /\ view[c] = "open"
  /\ effects[c] = 0
  /\ view' = [view EXCEPT ![c] = "refused"]
  /\ UNCHANGED effects

GiveUp(c) ==
  /\ view[c] = "open"
  /\ view' = [view EXCEPT ![c] = "unconfirmed"]
  /\ UNCHANGED effects

Next ==
  \E c \in Calls :
    Open(c) \/ TakeEffect(c) \/ Confirm(c) \/ Refuse(c) \/ GiveUp(c)

Spec == Init /\ [][Next]_vars

(***************************************************************************)
(* The promise as an invariant: no write is carried out twice, a confirmed *)
(* one was carried out and a refused one was not.                          *)
(***************************************************************************)
Promise ==
  \A c \in Calls :
    /\ effects[c] \in {0, 1}
    /\ view[c] = "confirmed" => effects[c] = 1
    /\ view[c] \in {"idle", "refused"} => effects[c] = 0

==============================================================================
