---------------------------- MODULE ErrorEnvelope ----------------------------
(***************************************************************************)
(* The error of a read tool: what mapUpstreamError makes of an HTTP status *)
(* (internal/tools/schedules.go) and what the constructors say of it       *)
(* (internal/oncall/errors.go).  Messages and hints are left out.          *)
(*                                                                         *)
(* Mutant... definitions are faulty variants no module uses.               *)
(***************************************************************************)
EXTENDS Integers

ReadErrorCodes ==
  {"INVALID_INPUT", "UNAUTHENTICATED", "FORBIDDEN", "NOT_FOUND",
   "UPSTREAM_RATE_LIMITED", "UPSTREAM_UNAVAILABLE"}

(* The statuses mapUpstreamError tells apart, another one, and 0: no       *)
(* response.                                                               *)
ErrorStatuses == {0, 400, 401, 403, 404, 429, 503}

(* A 400 is INVALID_INPUT unless its message is about a service account.   *)
StatusTable ==
  {<<400, "INVALID_INPUT">>, <<400, "FORBIDDEN">>, <<401, "UNAUTHENTICATED">>,
   <<403, "FORBIDDEN">>, <<404, "NOT_FOUND">>, <<429, "UPSTREAM_RATE_LIMITED">>}

(* mapUpstreamError: the codes a status may get.                           *)
MutantMapUpstreamError(status) ==
  IF status = 429 THEN {"UPSTREAM_RATE_LIMITED"} ELSE {"UPSTREAM_UNAVAILABLE"}
MapUpstreamError(status) ==
  LET listed == {code \in ReadErrorCodes : <<status, code>> \in StatusTable}
  IN IF listed = {} THEN {"UPSTREAM_UNAVAILABLE"} ELSE listed

(* Error.Retryable, as the constructors set it.                            *)
Retryable(code) == code \in {"UPSTREAM_RATE_LIMITED", "UPSTREAM_UNAVAILABLE"}

==============================================================================
