--------------------------- MODULE AlertGroupReads ---------------------------
(***************************************************************************)
(* list_alert_groups with its filters, over the calls of one walk, and     *)
(* get_alert_group (internal/tools/alert_groups_read.go), while alert      *)
(* groups start and change in OnCall.                                      *)
(*                                                                         *)
(*     idle --> asked --> answered --> idle (with a cursor) ...            *)
(*       `-------`------> refused                                          *)
(*                                                                         *)
(* A page is any part of what matches the request; Pagination has the      *)
(* pages.  Mutant... definitions are faulty variants not used.             *)
(***************************************************************************)
EXTENDS ErrorEnvelope

CONSTANTS
  Groups,    \* alert groups
  Second,    \* ticks in a second
  Day,       \* ticks in 24 hours
  Latest,    \* bound on the clock
  MaxCalls,  \* bound on the calls
  Filters    \* the filters clients use

Bound(kind, at, offset) == [kind |-> kind, at |-> at, offset |-> offset]
NoBound == Bound("none", 0, 0)
Filter(state, from, to) == [state |-> state, from |-> from, to |-> to]
NoFilter == Filter("", NoBound, NoBound)

(* started_at_from and _to: left out, no timestamp, or one, with fractions *)
(* of a second or not, and with an offset from UTC or not.                 *)
Bounds ==
  {NoBound, Bound("malformed", 0, 0)}
  \cup {Bound("time", at, offset) : at \in Second..Latest, offset \in {0, Second}}

ASSUME BoundAssumption ==
  /\ Second \in Nat \ {0} /\ Day \in Nat \ {0}
  /\ Latest \in Nat /\ Latest >= Second /\ MaxCalls \in Nat
ASSUME FilterAssumption ==
  Filters \subseteq
    [state : {"", "new", " Firing", "RESOLVED", "open"}, from : Bounds, to : Bounds]

VARIABLES
  now,       \* the clock; it starts at Second
  group,     \* the alert groups in OnCall
  wanted,    \* the filter the client walks with
  repeated,  \* whether it repeats the filter beside the cursor
  phase,     \* where the call is
  calls,     \* how many calls were made
  sent,      \* the ListAlertGroupOptions of the call
  items,     \* what the last answer held
  code       \* the Error.Code of the last answer

vars == <<now, group, wanted, repeated, phase, calls, sent, items, code>>
callVars == <<phase, calls, sent, items, code>>

States == {"new", "acknowledged", "silenced", "resolved"}

(* An alert group as the API gives it; 0: the timestamp is missing.        *)
Absent == [state |-> "absent", created |-> 0, acked |-> 0, resolved |-> 0]
AlertGroups ==
  {Absent} \cup [state : States, created : Second..Latest, acked : 0..Latest,
                 resolved : 0..Latest]

-----------------------------------------------------------------------------
(* normalizeAlertGroupStateFilter; {}: no such state.                      *)
MutantNormalizeState(state) == {IF state \in {"new", " Firing"} THEN "new" ELSE ""}
NormalizeState(state) ==
  {s \in States \cup {""} : <<state, s>> \in
     {<<"", "">>, <<"new", "new">>, <<" Firing", "new">>, <<"RESOLVED", "resolved">>}}

(* buildStartedAtRange: a missing bound is a day ago, or now; formatting   *)
(* drops fractions of a second and the offset.  {}: no such range.         *)
Whole(t) == t - (t % Second)
NoRange == <<0, 0>>
MutantStartedAt(from, to) ==
  LET start == IF from = NoBound THEN now - Day ELSE from.at
      stop == IF to = NoBound \/ to.at > now THEN now ELSE to.at
  IN IF from = NoBound /\ to = NoBound THEN {NoRange}
     ELSE IF "malformed" \in {from.kind, to.kind} \/ stop < start THEN {}
     ELSE {<<Whole(start + from.offset), Whole(stop + to.offset)>>}
StartedAt(from, to) ==
  LET start == IF from = NoBound THEN now - Day ELSE from.at
      stop == IF to = NoBound THEN now ELSE to.at
  IN IF from = NoBound /\ to = NoBound THEN {NoRange}
     ELSE IF "malformed" \in {from.kind, to.kind} \/ stop < start THEN {}
     ELSE {<<Whole(start + from.offset), Whole(stop + to.offset)>>}

(* The options built from a filter.                                        *)
Options(filter) ==
  [state : NormalizeState(filter.state), range : StartedAt(filter.from, filter.to)]

(* mapAlertGroupToSummary.                                                 *)
MutantUpdatedAt(g) ==
  IF g.acked # 0 THEN g.acked ELSE IF g.resolved # 0 THEN g.resolved ELSE g.created
UpdatedAt(g) ==
  LET base == IF g.resolved # 0 THEN g.resolved ELSE g.created
  IN IF g.acked > base THEN g.acked ELSE base

MutantSummary(id) ==
  [id |-> id, state |-> group[id].state, created |-> group[id].created,
   acked |-> group[id].acked, resolved |-> group[id].resolved,
   updated |-> group[id].acked]
Summary(id) ==
  [id |-> id, state |-> group[id].state, created |-> group[id].created,
   acked |-> group[id].acked, resolved |-> group[id].resolved,
   updated |-> UpdatedAt(group[id])]

(* External: the alert groups a request is for.                            *)
Selected(o) ==
  {id \in Groups : LET g == group[id] IN
     /\ g # Absent
     /\ o.state \in {"", g.state}
     /\ o.range # NoRange => o.range[1] <= g.created /\ g.created <= o.range[2]}

-----------------------------------------------------------------------------
Unsent == [state |-> "none", range |-> NoRange]

Init ==
  /\ now = Second
  /\ group = [id \in Groups |-> Absent]
  /\ wanted \in Filters
  /\ repeated \in BOOLEAN
  /\ phase = "idle"
  /\ calls = 0
  /\ sent = Unsent
  /\ items = {}
  /\ code = ""

(* The filter arguments of the next call: of a later one only the page     *)
(* number is taken from the cursor, not the filter in its URL.             *)
MutantArguments == wanted
Arguments == IF calls = 0 \/ repeated THEN wanted ELSE NoFilter

(* handleListAlertGroups, up to its request ...                            *)
Ask ==
  /\ phase = "idle"
  /\ calls < MaxCalls
  /\ sent' \in Options(Arguments)
  /\ phase' = "asked"
  /\ calls' = calls + 1
  /\ UNCHANGED <<items, code>>

Reject ==
  /\ phase = "idle"
  /\ calls < MaxCalls
  /\ Options(Arguments) = {}
  /\ phase' = "refused"
  /\ code' = "INVALID_INPUT"
  /\ calls' = calls + 1
  /\ UNCHANGED <<sent, items>>

(* ... and the answer, with or without a next_cursor.                      *)
AnswerPage ==
  /\ phase = "asked"
  /\ \E page \in SUBSET Selected(sent) : items' = {Summary(id) : id \in page}
  /\ phase' \in {"idle", "answered"}
  /\ code' = ""
  /\ UNCHANGED <<calls, sent>>

Fail(statuses) ==
  /\ phase' = "refused"
  /\ \E status \in statuses : code' \in MapUpstreamError(status)
  /\ UNCHANGED <<sent, items>>

AnswerError == phase = "asked" /\ Fail(ErrorStatuses) /\ UNCHANGED calls

(* handleGetAlertGroup, for one of the groups, or without an id.           *)
GetAlertGroup(id) ==
  /\ phase = "answered"
  /\ calls < MaxCalls
  /\ calls' = calls + 1
  /\ \/ /\ group[id] # Absent
        /\ items' = {Summary(id)}
        /\ code' = ""
        /\ sent' = Unsent
        /\ UNCHANGED phase
     \/ Fail(IF group[id] = Absent THEN {404} ELSE ErrorStatuses)
     \/ phase' = "refused" /\ code' = "INVALID_INPUT" /\ UNCHANGED <<sent, items>>

-----------------------------------------------------------------------------
(* External: time, new alert groups, and people and alerts changing them.  *)
Tick == now < Latest /\ now' = now + 1 /\ UNCHANGED <<group, callVars>>

Change(id, s) ==
  LET g == group[id]
  IN /\ s # g.state
     /\ g = Absent => s = "new"
     /\ \E acked \in IF s = "acknowledged" THEN {now} ELSE {0, g.acked},
           resolved \in IF s = "resolved" THEN {now} ELSE {0, g.resolved} :
          group' = [group EXCEPT ![id] =
            [state |-> s, created |-> IF g = Absent THEN now ELSE g.created,
             acked |-> acked, resolved |-> resolved]]
     /\ UNCHANGED <<now, callVars>>

Next ==
  /\ \/ (Ask \/ Reject \/ AnswerPage \/ AnswerError \/ \E id \in Groups : GetAlertGroup(id))
           /\ UNCHANGED <<now, group>>
     \/ Tick
     \/ \E id \in Groups, s \in States : Change(id, s)
  /\ UNCHANGED <<wanted, repeated>>

Spec == Init /\ [][Next]_vars

-----------------------------------------------------------------------------
(***************************************************************************)
(* Properties.                                                             *)
(***************************************************************************)
TypeOK ==
  /\ now \in Second..Latest
  /\ group \in [Groups -> AlertGroups]
  /\ wanted \in Filters /\ repeated \in BOOLEAN
  /\ phase \in {"idle", "asked", "answered", "refused"}
  /\ calls \in 0..MaxCalls
  /\ sent.state \in States \cup {"", "none"} /\ sent.range \in Int \X Int
  /\ \A i \in items :
       /\ i.id \in Groups /\ i.state \in States
       /\ {i.created, i.updated} \subseteq Second..Latest
       /\ {i.acked, i.resolved} \subseteq 0..Latest
  /\ code \in ReadErrorCodes \cup {""}

(* What the filter says, with both times in UTC as their descriptions ask. *)
InUTC == wanted.from.offset = 0 /\ wanted.to.offset = 0

Matches(i, first, last) ==
  /\ wanted.state \in {"new", " Firing"} => i.state = "new"
  /\ wanted.state = "RESOLVED" => i.state = "resolved"
  /\ wanted.from # NoBound => i.created >= first
  /\ wanted.to # NoBound => i.created <= last

(* No answer of a walk whose client repeats its filter holds an alert      *)
(* group that did not match it when the page was served, on whichever page *)
(* and however the clock and the groups moved since the first call; but    *)
(* the range starts with the second its lower bound lies in.               *)
RepeatedFilterHolds ==
  InUTC /\ repeated /\ sent # Unsent =>
    \A i \in items : Matches(i, Whole(wanted.from.at), wanted.to.at)

(* A range with an upper bound excludes nothing that lies in it, up to the *)
(* last whole second; without a lower one it goes back a day at least,     *)
(* however long the request is under way.                                  *)
RangeExcludesNothing ==
  phase = "asked" /\ repeated /\ InUTC /\ wanted.to # NoBound =>
    LET first == IF wanted.from = NoBound THEN now - Day ELSE wanted.from.at
    IN \A id \in Groups :
         LET g == group[id] IN
         g # Absent /\ g.created >= first /\ Matches(g, first, Whole(wanted.to.at))
           => id \in Selected(sent)

(* updated_at is the latest of the times the same answer shows, whatever   *)
(* order the group was acknowledged, resolved and reopened in.             *)
UpdatedAtIsLatest ==
  \A i \in items :
    /\ i.updated \in {i.created, i.acked, i.resolved}
    /\ \A t \in {i.created, i.acked, i.resolved} : t <= i.updated

(***************************************************************************)
(* A property the documents state and the code does not have.              *)
(***************************************************************************)

(* The cursor is the upstream's "next" URL, decoded and forwarded: it is   *)
(* enough to go on with the same walk.                                     *)
CursorKeepsFilter ==
  InUTC /\ sent # Unsent =>
    \A i \in items : Matches(i, Whole(wanted.from.at), wanted.to.at)

==============================================================================
