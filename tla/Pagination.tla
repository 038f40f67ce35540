------------------------------ MODULE Pagination ------------------------------
(***************************************************************************)
(* A client walks through one of the list tools (list_oncall_schedules,    *)
(* list_oncall_teams, list_oncall_users, list_alert_groups): it calls the  *)
(* tool again with the next_cursor of the last answer until there is none. *)
(* The handlers keep nothing between the calls (internal/tools/schedules.go*)
(* holds their helpers); the list may change in between.                   *)
(*                                                                         *)
(*   ready --> asked --> ready | ended                                     *)
(*               `-----> failed --> ready   (if the error is retryable)    *)
(*                                                                         *)
(* Mutant... definitions are faulty variants the model does not use.       *)
(***************************************************************************)
EXTENDS ErrorEnvelope, Sequences, SequencesExt

CONSTANTS
  PageSize,    \* items on a page of the OnCall API
  MaxItems,    \* bound on the items of the list when the walk starts
  MaxChanges,  \* bound on the changes other people make during the walk
  LimitArgs    \* "limit" arguments, as integers; 0 also stands for no limit

ASSUME PageSizeAssumption == PageSize \in Nat \ {0}
ASSUME BoundAssumption == MaxItems \in Nat /\ MaxChanges \in Nat
ASSUME LimitAssumption == LimitArgs \subseteq Int

VARIABLES
  list,       \* the items in OnCall, in its order; an item is its number
  changes,    \* changes made so far
  limit,      \* what parseLimit made of the limit argument
  phase,      \* where the walk is
  cursor,     \* the cursor argument of the next call
  asked,      \* ListOptions.Page of the last call, 0 before the first
  pages,      \* the pages served, in order
  delivered,  \* the items delivered, in order
  size,       \* how many of them the last answer had
  status,     \* the HTTP status OnCall answered the last call with
  failure     \* the Error.Code of the last answer, "" if it was a Page

listVars == <<list, changes>>
walkVars == <<phase, cursor, asked, pages, delivered, size, status, failure>>
vars == <<listVars, limit, walkVars>>

(* A cursor: none; strconv.Quote of OnCall's "next" URL, with its page     *)
(* number; a string that does not unquote; one that does but has no page.  *)
Cursor(kind, page) == [kind |-> kind, page |-> page]
NoCursor == Cursor("none", 0)
ClientCursors == {NoCursor, Cursor("unquotable", 0), Cursor("pageless", 0)}
NextCursor(page) == Cursor("next", page)

-----------------------------------------------------------------------------
(* parseLimit, for whole numbers; the result goes to buildCursor only.     *)
MutantParseLimit(n) == IF n > 200 THEN 200 ELSE n
ParseLimit(n) == IF n <= 0 THEN 50 ELSE IF n > 200 THEN 200 ELSE n

(* parseCursor and, in it, extractPageFromURL: the page after the one the  *)
(* "next" URL names, and page 1 for whatever cannot be read.               *)
MutantParseCursor(c) == IF c.kind = "next" THEN c.page - 1 ELSE 1
ParseCursor(c) == IF c.kind = "next" THEN c.page + 1 ELSE 1

(* buildCursor: the limit does not matter to it.                           *)
MutantBuildCursor(page, next) ==
  IF next /\ size < limit THEN NextCursor(page + 1) ELSE NoCursor
BuildCursor(page, next) == IF next THEN NextCursor(page + 1) ELSE NoCursor

(* External: the pages of the OnCall API.  Page 1 always exists.           *)
PageExists(page) == page = 1 \/ (page > 1 /\ (page - 1) * PageSize < Len(list))
HasNext(page) == page * PageSize < Len(list)
PageItems(page) ==
  SubSeq(list, (page - 1) * PageSize + 1,
         IF HasNext(page) THEN page * PageSize ELSE Len(list))

-----------------------------------------------------------------------------
Init ==
  /\ \E n \in 0..MaxItems : list = [i \in 1..n |-> i]
  /\ changes = 0
  /\ \E n \in LimitArgs : limit = ParseLimit(n)
  /\ phase = "ready"
  /\ cursor \in ClientCursors
  /\ asked = 0
  /\ pages = <<>>
  /\ delivered = <<>>
  /\ size = 0
  /\ status = 200
  /\ failure = ""

(* The handler, up to its request: the limit is not part of it.            *)
Ask ==
  /\ phase = "ready"
  /\ asked' = ParseCursor(cursor)
  /\ phase' = "asked"
  /\ UNCHANGED <<listVars, limit, cursor, pages, delivered, size, status, failure>>

(* OnCall serves the page; the handler returns all of it and the cursor.   *)
AnswerPage ==
  /\ phase = "asked"
  /\ PageExists(asked)
  /\ LET items == PageItems(asked) IN
       /\ delivered' = delivered \o items
       /\ size' = Len(items)
  /\ pages' = Append(pages, asked)
  /\ cursor' = BuildCursor(asked, HasNext(asked))
  /\ phase' = IF cursor' = NoCursor THEN "ended" ELSE "ready"
  /\ status' = 200
  /\ failure' = ""
  /\ UNCHANGED <<listVars, limit, asked>>

Fail(code) ==
  /\ phase' = "failed"
  /\ status' = code
  /\ failure' \in MapUpstreamError(code)
  /\ size' = 0
  /\ UNCHANGED <<listVars, limit, cursor, asked, pages, delivered>>

(* OnCall has no such page.                                                *)
AnswerNotFound == phase = "asked" /\ ~PageExists(asked) /\ Fail(404)

(* OnCall refuses the request, fails, or cannot be reached in time.        *)
AnswerError ==
  /\ phase = "asked"
  /\ \E code \in ErrorStatuses \ {404} : Fail(code)

(* The client heeds "retryable" and makes the same call again.             *)
Retry ==
  /\ phase = "failed"
  /\ Retryable(failure)
  /\ phase' = "ready"
  /\ UNCHANGED <<listVars, limit, cursor, asked, pages, delivered, size, status, failure>>

(* External: other people work in OnCall.                                  *)
Insert ==
  /\ changes < MaxChanges
  /\ list' = <<MaxItems + changes + 1>> \o list
  /\ changes' = changes + 1
  /\ UNCHANGED <<limit, walkVars>>

Delete ==
  /\ changes < MaxChanges
  /\ \E i \in DOMAIN list : list' = RemoveAt(list, i)
  /\ changes' = changes + 1
  /\ UNCHANGED <<limit, walkVars>>

Next ==
  \/ Ask \/ AnswerPage \/ AnswerNotFound \/ AnswerError \/ Retry
  \/ Insert \/ Delete

Spec == Init /\ [][Next]_vars

(* The handler runs, the client goes on and retries as it is told to, and  *)
(* OnCall does not fail forever; the list stops changing at MaxChanges.    *)
FairSpec ==
  Spec /\ WF_vars(Ask) /\ WF_vars(Retry) /\ SF_vars(AnswerPage \/ AnswerNotFound)

-----------------------------------------------------------------------------
(***************************************************************************)
(* Properties.                                                             *)
(***************************************************************************)
Items == 1..(MaxItems + MaxChanges)

TypeOK ==
  /\ list \in Seq(Items)
  /\ changes \in 0..MaxChanges
  /\ limit \in 1..200
  /\ phase \in {"ready", "asked", "failed", "ended"}
  /\ cursor \in ClientCursors \cup {NextCursor(page) : page \in 2..(Len(pages) * 2)}
  /\ asked \in Nat
  /\ pages \in Seq(Nat \ {0})
  /\ delivered \in Seq(Items)
  /\ size \in 0..PageSize
  /\ status \in ErrorStatuses \cup {200}
  /\ failure \in ReadErrorCodes \cup {""}

(* A walk never goes back to a page it was served, whatever failed, was    *)
(* retried or changed on the way (parseCursor, extractPageFromURL).        *)
WalkAdvances == \A i, j \in DOMAIN pages : i < j => pages[i] < pages[j]

(* While nobody changes the list, no item comes twice or out of order,     *)
(* however often calls fail and are repeated.                              *)
QuietWalkInOrder ==
  changes = 0 =>
    \A i, j \in DOMAIN delivered : i < j => delivered[i] < delivered[j]

(* next_cursor is missing only when the list has been read to its end as   *)
(* it is then (buildCursor).                                               *)
EndsWithTheLastItem ==
  [][phase # "ended" /\ phase' = "ended" =>
       list = <<>> \/ (delivered' # <<>> /\ Last(delivered') = Last(list))]_vars

(* The walk of a persistent client ends, although it keeps no page number. *)
WalkEnds == <>(phase = "ended" \/ (phase = "failed" /\ ~Retryable(failure)))

(***************************************************************************)
(* A property the documents state and the code does not have.              *)
(***************************************************************************)

(* A walk that ends over a list nobody changed has delivered all of it:    *)
(* the cursor is the upstream's "next", decoded and forwarded.             *)
EveryItemDelivered == phase = "ended" /\ changes = 0 => delivered = list

==============================================================================
