------------------------ MODULE AlertGroupReads_proofs ------------------------
(***************************************************************************)
(* Proofs about AlertGroupReads for all alert groups, filters, lengths of  *)
(* a second and a day, clocks and numbers of calls: what the answers hold. *)
(***************************************************************************)
EXTENDS AlertGroupReads, TLAPS

-----------------------------------------------------------------------------
(***************************************************************************)
(* The operators.                                                          *)
(***************************************************************************)

(* A state filter gives one state to ask for, or no request at all.        *)
LEMMA StateNormalized ==
  ASSUME NEW state, NEW s \in NormalizeState(state)
  PROVE  /\ s \in States \cup {""}
         /\ state = "" => s = ""
         /\ state \in {"new", " Firing"} => s = "new"
         /\ state = "RESOLVED" => s = "resolved"
         /\ state \in {"", "new", " Firing", "RESOLVED"}
  BY DEF NormalizeState, States

(* The times of the clock, of the bounds and of the groups are numbers.    *)
LEMMA ClockTimes ==
  /\ Second \in Nat /\ Second > 0 /\ Day \in Nat
  /\ \A t \in Second..Latest : t \in Nat /\ t >= Second /\ t <= Latest
  /\ \A t \in Nat : t >= Second /\ t <= Latest => t \in Second..Latest
  BY BoundAssumption

(* In a state of the right type, so are the clock, the range sent and the  *)
(* times at which groups were created.                                     *)
LEMMA TimeTypes ==
  ASSUME TypeOK
  PROVE  /\ now \in Int /\ sent.range[1] \in Int /\ sent.range[2] \in Int
         /\ \A id \in Groups : group[id] # Absent => group[id].created \in Second..Latest
<1>1. now \in Second..Latest /\ sent.range \in Int \X Int /\ group \in [Groups -> AlertGroups]
  BY Zenon DEF TypeOK
<1>2. now \in Int
  BY <1>1, ClockTimes
<1>3. sent.range[1] \in Int /\ sent.range[2] \in Int
  BY <1>1
<1>4. \A id \in Groups : group[id] # Absent => group[id].created \in Second..Latest
  BY <1>1 DEF AlertGroups
<1>. QED
  BY <1>2, <1>3, <1>4

(* The whole seconds of a time are less than a second before it.           *)
LEMMA WholeBounds ==
  ASSUME NEW t \in Int
  PROVE  Whole(t) \in Int /\ Whole(t) <= t /\ Whole(t) > t - Second
<1>1. Second \in Nat \ {0}
  BY BoundAssumption
<1>2. t % Second \in 0..(Second - 1)
  BY <1>1
<1>. QED
  BY <1>1, <1>2 DEF Whole

(* A range that is asked for keeps the whole seconds of the bounds that    *)
(* are given, apart from their offsets, and goes back a day at least if    *)
(* the lower one is not; none is asked for only if no bound is given.      *)
LEMMA RangeKeepsBounds ==
  ASSUME NEW from \in Bounds, NEW to \in Bounds, NEW r \in StartedAt(from, to),
         now \in Second..Latest
  PROVE  /\ r \in Int \X Int
         /\ from.kind = "time" => r # NoRange /\ r[1] = Whole(from.at + from.offset)
         /\ to.kind = "time" => r # NoRange /\ r[2] = Whole(to.at + to.offset)
         /\ from = NoBound /\ to # NoBound => r[1] <= now - Day
         /\ from # NoBound => from.kind = "time"
         /\ to # NoBound => to.kind = "time"
<1> DEFINE start == IF from = NoBound THEN now - Day ELSE from.at
           stop == IF to = NoBound THEN now ELSE to.at
<1>1. \A b \in Bounds :
        \/ b = NoBound /\ b.kind = "none" /\ b.offset = 0
        \/ b.kind = "malformed"
        \/ b.kind = "time" /\ b # NoBound /\ b.at \in Second..Latest /\ b.offset \in {0, Second}
  BY DEF Bounds, NoBound, Bound
<1>2. CASE from = NoBound /\ to = NoBound
  <2>1. r = <<0, 0>>
    BY <1>2 DEF StartedAt, NoRange
  <2>2. from.kind = "none" /\ to.kind = "none"
    BY <1>2 DEF NoBound, Bound
  <2>. QED
    BY <1>2, <2>1, <2>2
<1>3. CASE ~(from = NoBound /\ to = NoBound)
  <2>1. /\ from.kind # "malformed" /\ to.kind # "malformed"
        /\ r = <<Whole(start + from.offset), Whole(stop + to.offset)>>
    BY <1>3 DEF StartedAt
  <2>2. /\ start \in Int /\ stop \in Second..Latest
        /\ from.offset \in {0, Second} /\ to.offset \in {0, Second}
        /\ start + from.offset \in Int /\ stop + to.offset \in Int
        /\ stop + to.offset >= Second /\ Second \in Nat
    BY <1>1, <2>1, BoundAssumption
  <2>3. /\ Whole(start + from.offset) \in Int /\ Whole(start + from.offset) <= start + from.offset
        /\ Whole(stop + to.offset) \in Int /\ Whole(stop + to.offset) > 0
    BY <2>2, WholeBounds
  <2>4. /\ r[1] = Whole(start + from.offset) /\ r[2] = Whole(stop + to.offset)
        /\ r \in Int \X Int /\ r # NoRange
    BY <2>1, <2>3 DEF NoRange
  <2>5. /\ from.kind = "time" => start = from.at
        /\ to.kind = "time" => stop = to.at
    BY DEF NoBound, Bound
  <2>6. from = NoBound => r[1] <= now - Day
    <3>1. from = NoBound => from.offset = 0
      BY DEF NoBound, Bound
    <3>2. now \in Int /\ Day \in Int
      BY ClockTimes
    <3>3. from = NoBound => start = now - Day
      OBVIOUS
    <3> HIDE DEF start
    <3>. QED
      BY <2>2, <2>3, <2>4, <3>1, <3>2, <3>3
  <2>. QED
    BY <1>1, <2>1, <2>4, <2>5, <2>6
<1>. QED
  BY <1>2, <1>3

(* updated_at of a group that was resolved after it was created, if at     *)
(* all, is one of its times and the latest of them.                        *)
LEMMA UpdatedAtLatest ==
  ASSUME NEW g, g.created \in Second..Latest, g.acked \in 0..Latest, g.resolved \in 0..Latest,
         g.resolved = 0 \/ g.created <= g.resolved
  PROVE  /\ UpdatedAt(g) \in Second..Latest
         /\ UpdatedAt(g) \in {g.created, g.acked, g.resolved}
         /\ \A t \in {g.created, g.acked, g.resolved} : t <= UpdatedAt(g)
  BY BoundAssumption DEF UpdatedAt

(* Every status gets a code of a read tool.                                *)
LEMMA CodeMapped == ASSUME NEW status PROVE MapUpstreamError(status) \subseteq ReadErrorCodes
  BY DEF MapUpstreamError, ReadErrorCodes

-----------------------------------------------------------------------------
(***************************************************************************)
(* The inductive invariant.                                                *)
(***************************************************************************)

(* No alert group was created, or resolved, in the future, or resolved     *)
(* before it was created.                                                  *)
TimesInv ==
  \A id \in Groups : group[id] # Absent =>
    /\ group[id].created <= now
    /\ group[id].resolved = 0 \/ group[id].created <= group[id].resolved

(* A request of a client that repeats its filter is for what the filter    *)
(* says, in UTC, on every page ...                                         *)
SentInv ==
  phase = "asked" /\ repeated /\ InUTC =>
    /\ wanted.state \in {"", "new", " Firing", "RESOLVED"}
    /\ wanted.state = "" => sent.state = ""
    /\ wanted.state \in {"new", " Firing"} => sent.state = "new"
    /\ wanted.state = "RESOLVED" => sent.state = "resolved"
    /\ wanted.from.kind = "time" => sent.range # NoRange /\ sent.range[1] = Whole(wanted.from.at)
    /\ wanted.to.kind = "time" => sent.range # NoRange /\ sent.range[2] = Whole(wanted.to.at)
    /\ wanted.from = NoBound /\ wanted.to # NoBound => sent.range[1] <= now - Day
    /\ wanted.from # NoBound => wanted.from.kind = "time"
    /\ wanted.to # NoBound => wanted.to.kind = "time"

(* ... and before the first request, or after a get_alert_group, which     *)
(* ends the walk, there is none whose answer could be looked at.           *)
WalkInv ==
  /\ phase = "asked" => sent # Unsent
  /\ sent = Unsent => items = {} \/ phase \in {"answered", "refused"}

IInv ==
  TypeOK /\ TimesInv /\ SentInv /\ WalkInv /\ RepeatedFilterHolds /\ UpdatedAtIsLatest


(* The invariant holds before anything happened.                           *)
LEMMA InitInv == Init => IInv
<1> SUFFICES ASSUME Init PROVE IInv
  OBVIOUS
<1>1. TypeOK
  <2>1. repeated \in BOOLEAN /\ now = Second /\ calls = 0 /\ sent = Unsent
    BY Zenon DEF Init
  <2>2. group \in [Groups -> AlertGroups]
    BY DEF Init, AlertGroups
  <2>3. sent.state = "none" /\ sent.range \in Int \X Int
    BY <2>1 DEF Unsent, NoRange
  <2>4. now \in Second..Latest /\ calls \in 0..MaxCalls
    BY <2>1, BoundAssumption, ClockTimes
  <2>. QED
    BY <2>1, <2>2, <2>3, <2>4 DEF Init, TypeOK
<1>2. TimesInv /\ SentInv /\ WalkInv /\ RepeatedFilterHolds /\ UpdatedAtIsLatest
  BY DEF Init, TimesInv, SentInv, WalkInv, RepeatedFilterHolds, UpdatedAtIsLatest
<1>. QED
  BY <1>1, <1>2 DEF IInv

-----------------------------------------------------------------------------
(***************************************************************************)
(* The calls.                                                              *)
(***************************************************************************)

(* The bounds of the arguments are bounds, whatever the call is.           *)
LEMMA ArgumentBounds ==
  ASSUME TypeOK
  PROVE  /\ wanted.from \in Bounds /\ wanted.to \in Bounds
         /\ Arguments.from \in Bounds /\ Arguments.to \in Bounds
         /\ repeated => Arguments = wanted
<1>1. wanted \in [state : {"", "new", " Firing", "RESOLVED", "open"}, from : Bounds, to : Bounds]
  BY FilterAssumption DEF TypeOK
<1>2. NoFilter.from \in Bounds /\ NoFilter.to \in Bounds
  BY DEF NoFilter, Filter, Bounds
<1>. QED
  BY <1>1, <1>2 DEF Arguments

(* A request that is sent is for the filter; what the last answer held is  *)
(* still there.                                                            *)
LEMMA AskInv == IInv /\ Ask /\ UNCHANGED <<now, group, wanted, repeated>> => IInv'
<1> SUFFICES ASSUME IInv, Ask, UNCHANGED <<now, group, wanted, repeated>> PROVE IInv'
  OBVIOUS
<1>1. /\ sent'.state \in NormalizeState(Arguments.state)
      /\ sent'.range \in StartedAt(Arguments.from, Arguments.to)
  BY DEF Ask, Options
<1>2. TypeOK /\ now \in Second..Latest
  BY DEF IInv, TypeOK
<1>3. sent'.state \in States \cup {""} /\ sent'.range \in Int \X Int
  BY <1>1, <1>2, ArgumentBounds, StateNormalized, RangeKeepsBounds
<1>4. TypeOK'
  <2>1. calls \in 0..MaxCalls /\ calls < MaxCalls /\ calls' = calls + 1
    BY <1>2 DEF Ask, TypeOK
  <2>2. calls' \in 0..MaxCalls
    BY <2>1, BoundAssumption
  <2>. QED
    BY <1>2, <1>3, <2>2 DEF Ask, TypeOK
<1>5. SentInv'
  <2> SUFFICES ASSUME repeated, InUTC PROVE SentInv'
    BY DEF SentInv, InUTC
  <2>1. /\ sent'.state \in NormalizeState(wanted.state)
        /\ sent'.range \in StartedAt(wanted.from, wanted.to)
        /\ wanted.from \in Bounds /\ wanted.to \in Bounds
    BY <1>1, <1>2, ArgumentBounds
  <2>2. /\ wanted.from.kind = "time" => sent'.range # NoRange /\ sent'.range[1] = Whole(wanted.from.at + 0)
        /\ wanted.to.kind = "time" => sent'.range # NoRange /\ sent'.range[2] = Whole(wanted.to.at + 0)
        /\ wanted.from = NoBound /\ wanted.to # NoBound => sent'.range[1] <= now - Day
        /\ wanted.from # NoBound => wanted.from.kind = "time"
        /\ wanted.to # NoBound => wanted.to.kind = "time"
    BY <1>2, <2>1, RangeKeepsBounds DEF InUTC
  <2>3. /\ wanted.from.kind = "time" => wanted.from.at \in Nat
        /\ wanted.to.kind = "time" => wanted.to.at \in Nat
    BY <2>1, ClockTimes DEF Bounds, NoBound, Bound
  <2>4. /\ wanted.from.kind = "time" => sent'.range # NoRange /\ sent'.range[1] = Whole(wanted.from.at)
        /\ wanted.to.kind = "time" => sent'.range # NoRange /\ sent'.range[2] = Whole(wanted.to.at)
    BY <2>2, <2>3
  <2>5. /\ wanted.state \in {"", "new", " Firing", "RESOLVED"}
        /\ wanted.state = "" => sent'.state = ""
        /\ wanted.state \in {"new", " Firing"} => sent'.state = "new"
        /\ wanted.state = "RESOLVED" => sent'.state = "resolved"
    BY <2>1, StateNormalized
  <2>. QED
    BY <2>2, <2>4, <2>5, Zenon DEF SentInv, InUTC
<1>6. sent' # Unsent
  <2>1. Unsent.state = "none" /\ "none" \notin States \cup {""}
    BY DEF Unsent, States
  <2>. QED
    BY <1>3, <2>1
<1>7. items' = items /\ phase = "idle"
  BY DEF Ask
<1>8. RepeatedFilterHolds'
  BY <1>7 DEF IInv, WalkInv, RepeatedFilterHolds, InUTC, Matches
<1>9. TimesInv' /\ WalkInv' /\ UpdatedAtIsLatest'
  BY <1>6, <1>7 DEF IInv, TimesInv, WalkInv, UpdatedAtIsLatest
<1>. QED
  BY <1>4, <1>5, <1>8, <1>9 DEF IInv

(* Nothing but the code and the phase changes in a refusal.                *)
LEMMA RefusedInv ==
  ASSUME IInv, phase' = "refused", code' \in ReadErrorCodes, calls' \in 0..MaxCalls,
         UNCHANGED <<now, group, wanted, repeated, sent, items>>
  PROVE  IInv'
<1>1. TypeOK'
  BY DEF IInv, TypeOK
<1>2. TimesInv' /\ SentInv' /\ WalkInv' /\ UpdatedAtIsLatest'
  BY DEF IInv, TimesInv, SentInv, WalkInv, UpdatedAtIsLatest
<1>3. RepeatedFilterHolds'
  BY DEF IInv, RepeatedFilterHolds, InUTC, Matches
<1>. QED
  BY <1>1, <1>2, <1>3 DEF IInv

(* What an answer says of an alert group is consistent.                    *)
LEMMA SummaryFits ==
  ASSUME IInv, NEW id \in Groups, group[id] # Absent
  PROVE  LET i == Summary(id) IN
         /\ i.id \in Groups /\ i.state \in States
         /\ i.state = group[id].state /\ i.created = group[id].created
         /\ {i.created, i.updated} \subseteq Second..Latest
         /\ {i.acked, i.resolved} \subseteq 0..Latest
         /\ i.updated \in {i.created, i.acked, i.resolved}
         /\ \A t \in {i.created, i.acked, i.resolved} : t <= i.updated
<1> DEFINE g == group[id]
<1>1. g \in [state : States, created : Second..Latest, acked : 0..Latest, resolved : 0..Latest]
  BY DEF IInv, TypeOK, AlertGroups
<1>2. g.resolved = 0 \/ g.created <= g.resolved
  BY DEF IInv, TimesInv
<1>3. g.state \in States /\ g.created \in Second..Latest /\ g.acked \in 0..Latest /\ g.resolved \in 0..Latest
  BY <1>1
<1>4. /\ UpdatedAt(g) \in Second..Latest
      /\ UpdatedAt(g) \in {g.created, g.acked, g.resolved}
      /\ \A t \in {g.created, g.acked, g.resolved} : t <= UpdatedAt(g)
  BY <1>2, <1>3, UpdatedAtLatest
<1>. QED
  BY <1>3, <1>4 DEF Summary

(* Every alert group on a page matches what was asked for.                 *)
LEMMA AnswerPageInv == IInv /\ AnswerPage /\ UNCHANGED <<now, group, wanted, repeated>> => IInv'
<1> SUFFICES ASSUME IInv, AnswerPage, UNCHANGED <<now, group, wanted, repeated>> PROVE IInv'
  OBVIOUS
<1>1. PICK page \in SUBSET Selected(sent) : items' = {Summary(id) : id \in page}
  BY DEF AnswerPage
<1>2. \A id \in page :
        /\ id \in Groups /\ group[id] # Absent
        /\ sent.state \in {"", group[id].state}
        /\ sent.range # NoRange =>
             sent.range[1] <= group[id].created /\ group[id].created <= sent.range[2]
  BY DEF Selected
<1>3. \A i \in items' : \E id \in page : i = Summary(id)
  BY <1>1
<1>4. TypeOK' /\ UpdatedAtIsLatest'
  <2>1. ASSUME NEW i \in items'
        PROVE  /\ i.id \in Groups /\ i.state \in States
               /\ {i.created, i.updated} \subseteq Second..Latest
               /\ {i.acked, i.resolved} \subseteq 0..Latest
               /\ i.updated \in {i.created, i.acked, i.resolved}
               /\ \A t \in {i.created, i.acked, i.resolved} : t <= i.updated
    <3>1. PICK id \in page : i = Summary(id)
      BY <1>3
    <3>. QED
      BY <1>2, <3>1, SummaryFits
  <2>2. phase' \in {"idle", "answered"} /\ code' = ""
    BY DEF AnswerPage
  <2>. QED
    BY <2>1, <2>2 DEF AnswerPage, IInv, TypeOK, UpdatedAtIsLatest
<1>5. RepeatedFilterHolds'
  <2> SUFFICES ASSUME repeated, InUTC, NEW id \in page
               PROVE  Matches(Summary(id), Whole(wanted.from.at), wanted.to.at)
    BY <1>3 DEF RepeatedFilterHolds, InUTC, Matches
  <2>1. Summary(id).state = group[id].state /\ Summary(id).created = group[id].created
    BY <1>2, SummaryFits
  <2>2. phase = "asked"
    BY DEF AnswerPage
  <2>3. wanted.to # NoBound => wanted.to.at \in Int /\ Whole(wanted.to.at) <= wanted.to.at
                               /\ Whole(wanted.to.at) \in Int
    <3>1. wanted.to \in Bounds /\ (wanted.to # NoBound => wanted.to.kind = "time")
      BY <2>2, ArgumentBounds DEF IInv, SentInv
    <3>2. wanted.to # NoBound => wanted.to.at \in Int
      BY <3>1, BoundAssumption DEF Bounds, Bound
    <3>. QED
      BY <3>2, WholeBounds
  <2>4. group[id].created \in Int
    <3>1. TypeOK
      BY DEF IInv
    <3>2. group[id].created \in Second..Latest
      BY <1>2, <3>1, TimeTypes
    <3>. QED
      BY <3>2, ClockTimes
  <2>5. /\ wanted.state \in {"", "new", " Firing", "RESOLVED"}
        /\ wanted.state \in {"new", " Firing"} => sent.state = "new"
        /\ wanted.state = "RESOLVED" => sent.state = "resolved"
        /\ wanted.from # NoBound => sent.range # NoRange /\ sent.range[1] = Whole(wanted.from.at)
        /\ wanted.to # NoBound => sent.range # NoRange /\ sent.range[2] = Whole(wanted.to.at)
    BY <2>2 DEF IInv, SentInv
  <2>6. /\ wanted.from # NoBound => group[id].created >= Whole(wanted.from.at)
        /\ wanted.to # NoBound => group[id].created <= Whole(wanted.to.at)
    BY <1>2, <2>5
  <2>7. wanted.to # NoBound => group[id].created <= wanted.to.at
    BY <2>3, <2>4, <2>6
  <2>8. /\ wanted.state \in {"new", " Firing"} => group[id].state = "new"
        /\ wanted.state = "RESOLVED" => group[id].state = "resolved"
    BY <1>2, <2>5
  <2>. QED
    BY <2>1, <2>6, <2>7, <2>8, Zenon DEF Matches
<1>6. TimesInv' /\ SentInv'
  BY DEF AnswerPage, IInv, TimesInv, SentInv
<1>7. WalkInv'
  BY DEF AnswerPage, IInv, WalkInv
<1>. QED
  BY <1>4, <1>5, <1>6, <1>7 DEF IInv

(* get_alert_group answers one alert group, whatever the filter was.       *)
LEMMA GetAlertGroupInv ==
  ASSUME IInv, NEW id \in Groups, GetAlertGroup(id), UNCHANGED <<now, group, wanted, repeated>>
  PROVE  IInv'
<1>1. calls' \in 0..MaxCalls
  <2>1. calls \in 0..MaxCalls /\ calls < MaxCalls /\ calls' = calls + 1
    BY DEF GetAlertGroup, IInv, TypeOK
  <2>. QED
    BY <2>1, BoundAssumption
<1>2. CASE \E statuses : Fail(statuses)
  <2>1. code' \in ReadErrorCodes
    BY <1>2, CodeMapped DEF Fail
  <2>. QED
    BY <1>1, <1>2, <2>1, RefusedInv DEF Fail
<1>3. CASE /\ group[id] # Absent /\ items' = {Summary(id)}
           /\ code' = "" /\ sent' = Unsent /\ phase' = "answered"
  <2>1. Unsent.state = "none" /\ Unsent.range \in Int \X Int
    BY DEF Unsent, NoRange
  <2>2. \A i \in items' :
          /\ i.id \in Groups /\ i.state \in States
          /\ {i.created, i.updated} \subseteq Second..Latest
          /\ {i.acked, i.resolved} \subseteq 0..Latest
          /\ i.updated \in {i.created, i.acked, i.resolved}
          /\ \A t \in {i.created, i.acked, i.resolved} : t <= i.updated
    BY <1>3, SummaryFits
  <2>3. TypeOK' /\ UpdatedAtIsLatest'
    BY <1>1, <1>3, <2>1, <2>2 DEF IInv, TypeOK, UpdatedAtIsLatest
  <2>4. TimesInv' /\ SentInv' /\ WalkInv' /\ RepeatedFilterHolds'
    BY <1>3 DEF IInv, TimesInv, SentInv, WalkInv, RepeatedFilterHolds
  <2>. QED
    BY <2>3, <2>4 DEF IInv
<1>4. CASE phase' = "refused" /\ code' = "INVALID_INPUT" /\ UNCHANGED <<sent, items>>
  <2>1. "INVALID_INPUT" \in ReadErrorCodes
    BY DEF ReadErrorCodes
  <2>. QED
    BY <1>1, <1>4, <2>1, RefusedInv
<1>. QED
  BY <1>2, <1>3, <1>4 DEF GetAlertGroup

(* Every call keeps the invariant.                                         *)
LEMMA CallInv ==
  ASSUME IInv, UNCHANGED <<now, group, wanted, repeated>>,
         Ask \/ Reject \/ AnswerPage \/ AnswerError \/ \E id \in Groups : GetAlertGroup(id)
  PROVE  IInv'
<1>1. CASE Reject
  <2>1. calls \in 0..MaxCalls /\ calls < MaxCalls /\ calls' = calls + 1
    BY <1>1 DEF Reject, IInv, TypeOK
  <2>2. calls' \in 0..MaxCalls
    BY <2>1, BoundAssumption
  <2>3. "INVALID_INPUT" \in ReadErrorCodes
    BY DEF ReadErrorCodes
  <2>. QED
    BY <1>1, <2>2, <2>3, RefusedInv DEF Reject
<1>2. CASE AnswerError
  <2>1. code' \in ReadErrorCodes
    BY <1>2, CodeMapped DEF AnswerError, Fail
  <2>. QED
    BY <1>2, <2>1, RefusedInv DEF AnswerError, Fail, IInv, TypeOK
<1>. QED
  BY <1>1, <1>2, AskInv, AnswerPageInv, GetAlertGroupInv

-----------------------------------------------------------------------------
(***************************************************************************)
(* OnCall and the clock.                                                   *)
(***************************************************************************)

(* What was answered stays consistent and what was asked stays as it was.  *)
LEMMA AnswersStay ==
  ASSUME IInv, UNCHANGED <<wanted, repeated, callVars>>, now' \in {now, now + 1}
  PROVE  SentInv' /\ WalkInv' /\ RepeatedFilterHolds' /\ UpdatedAtIsLatest'
<1>1. WalkInv' /\ UpdatedAtIsLatest'
  BY DEF callVars, IInv, WalkInv, UpdatedAtIsLatest
<1>3. sent.range[1] <= now - Day => sent.range[1] <= now' - Day
  <2>1. sent.range[1] \in Int /\ now \in Int /\ Day \in Int
    BY ClockTimes, TimeTypes DEF IInv
  <2>. QED
    BY <2>1
<1>4. SentInv'
  BY <1>3 DEF callVars, IInv, SentInv, InUTC
<1>2. RepeatedFilterHolds'
  BY DEF callVars, IInv, RepeatedFilterHolds, InUTC, Matches
<1>. QED
  BY <1>1, <1>2, <1>4

(* An alert group never changes to one that was resolved before it was     *)
(* created: a new one starts now, a later resolution is later.             *)
LEMMA ChangeInv ==
  ASSUME IInv, NEW id \in Groups, NEW s \in States, Change(id, s), UNCHANGED <<wanted, repeated>>
  PROVE  IInv'
<1> DEFINE g == group[id]
<1>1. PICK acked \in IF s = "acknowledged" THEN {now} ELSE {0, g.acked},
           resolved \in IF s = "resolved" THEN {now} ELSE {0, g.resolved} :
        group' = [group EXCEPT ![id] =
          [state |-> s, created |-> IF g = Absent THEN now ELSE g.created,
           acked |-> acked, resolved |-> resolved]]
  BY DEF Change
<1>2. /\ g = Absent => s = "new"
      /\ UNCHANGED <<now, callVars, wanted, repeated>>
  BY DEF Change
<1>3. now \in Second..Latest /\ Latest \in Nat /\ group \in [Groups -> AlertGroups]
  BY BoundAssumption DEF IInv, TypeOK
<1>4. /\ g = Absent => g.acked = 0 /\ g.resolved = 0
      /\ g # Absent =>
           /\ g.created \in Second..Latest /\ g.acked \in 0..Latest /\ g.resolved \in 0..Latest
           /\ g.created <= now
           /\ g.resolved = 0 \/ g.created <= g.resolved
  BY <1>3 DEF AlertGroups, Absent, IInv, TimesInv
<1>10. now \in Nat /\ now \in 0..Latest /\ now # 0
  BY <1>3, ClockTimes
<1>11. g # Absent => g.created \in Nat
  BY <1>4, ClockTimes
<1> DEFINE created == IF g = Absent THEN now ELSE g.created
<1>5. /\ created \in Second..Latest /\ acked \in 0..Latest /\ resolved \in 0..Latest
      /\ created <= now
      /\ resolved = 0 \/ created <= resolved
  <2>1. CASE g = Absent
    BY <1>1, <1>2, <1>3, <1>4, <1>10, <2>1
  <2>2. CASE g # Absent
    BY <1>1, <1>2, <1>3, <1>4, <1>10, <1>11, <2>2
  <2>. QED
    BY <2>1, <2>2
<1>6. group' = [group EXCEPT ![id] =
        [state |-> s, created |-> created, acked |-> acked, resolved |-> resolved]]
  BY <1>1
<1> HIDE DEF created, g
<1>7. group' \in [Groups -> AlertGroups]
  BY <1>3, <1>5, <1>6 DEF AlertGroups
<1>8. TimesInv'
  BY <1>2, <1>3, <1>5, <1>6 DEF IInv, TimesInv
<1>9. TypeOK'
  BY <1>2, <1>7 DEF callVars, IInv, TypeOK
<1>. QED
  BY <1>2, <1>8, <1>9, AnswersStay DEF IInv

(* The clock only moves away from the times of the groups.                 *)
LEMMA TickInv == IInv /\ Tick /\ UNCHANGED <<wanted, repeated>> => IInv'
<1> SUFFICES ASSUME IInv, Tick, UNCHANGED <<wanted, repeated>> PROVE IInv'
  OBVIOUS
<1>1. /\ now \in Second..Latest /\ now < Latest /\ now' = now + 1
      /\ UNCHANGED <<group, callVars, wanted, repeated>>
  BY DEF Tick, IInv, TypeOK
<1>2. now' \in Second..Latest
  BY <1>1, BoundAssumption
<1>3. TypeOK'
  BY <1>1, <1>2 DEF callVars, IInv, TypeOK
<1>4. TimesInv'
  <2> SUFFICES ASSUME NEW id \in Groups, group[id] # Absent
               PROVE  /\ group[id].created <= now'
                      /\ group[id].resolved = 0 \/ group[id].created <= group[id].resolved
    BY <1>1 DEF TimesInv
  <2>1. group[id].created \in Second..Latest
    BY DEF IInv, TypeOK, AlertGroups
  <2>. QED
    BY <1>1, <2>1 DEF IInv, TimesInv
<1>. QED
  BY <1>1, <1>3, <1>4, AnswersStay DEF IInv

(* Every step keeps the invariant.                                         *)
LEMMA NextInv == IInv /\ [Next]_vars => IInv'
<1> SUFFICES ASSUME IInv, [Next]_vars PROVE IInv'
  OBVIOUS
<1>1. CASE UNCHANGED vars
  <2>1. TypeOK' /\ TimesInv'
    BY <1>1 DEF vars, IInv, TypeOK, TimesInv
  <2>. QED
    BY <1>1, <2>1, AnswersStay DEF vars, callVars, IInv
<1>. QED
  BY <1>1, CallInv, TickInv, ChangeInv DEF Next

-----------------------------------------------------------------------------
(***************************************************************************)
(* The theorems.                                                           *)
(***************************************************************************)

(* The invariant holds in every reachable state.                           *)
THEOREM Invariance == Spec => []IInv
  BY InitInv, NextInv, PTL DEF Spec

(* Every variable keeps its type: an error that is answered has a code the *)
(* read tools have, and an item has times within the clock.                *)
THEOREM TypeCorrect == Spec => []TypeOK
<1>1. IInv => TypeOK
  BY DEF IInv
<1>. QED
  BY <1>1, Invariance, PTL

(* No page of a walk whose client repeats its filter holds an alert group  *)
(* that did not match it when the page was served, to the second its lower *)
(* bound lies in.                                                          *)
THEOREM FilterHolds == Spec => []RepeatedFilterHolds
<1>1. IInv => RepeatedFilterHolds
  BY DEF IInv
<1>. QED
  BY <1>1, Invariance, PTL

(* A range with an upper bound asks for every alert group that lies in it, *)
(* up to its last whole second; without a lower one for a day at least.    *)
THEOREM RangeIsComplete == Spec => []RangeExcludesNothing
<1>1. IInv => RangeExcludesNothing
  <2> DEFINE first == IF wanted.from = NoBound THEN now - Day ELSE wanted.from.at
  <2> SUFFICES ASSUME IInv, phase = "asked", repeated, InUTC, wanted.to # NoBound,
                      NEW id \in Groups, group[id] # Absent, group[id].created >= first,
                      Matches(group[id], first, Whole(wanted.to.at))
               PROVE  id \in Selected(sent)
    BY Zenon DEF RangeExcludesNothing
  <2>1. /\ wanted.from # NoBound => sent.range[1] = Whole(wanted.from.at)
        /\ wanted.from = NoBound => sent.range[1] <= now - Day
        /\ sent.range[2] = Whole(wanted.to.at)
        /\ sent.state = "" \/ sent.state = group[id].state
    BY DEF IInv, SentInv, Matches
  <2>2. /\ sent.range[1] \in Int /\ now \in Int /\ Day \in Int
        /\ group[id].created \in Int
    <3>1. TypeOK
      BY DEF IInv
    <3>2. group[id].created \in Second..Latest
      BY <3>1, TimeTypes
    <3>. QED
      BY <3>1, <3>2, ClockTimes, TimeTypes
  <2>3. wanted.from # NoBound => wanted.from.at \in Int
    <3>1. wanted.from \in Bounds /\ (wanted.from # NoBound => wanted.from.kind = "time")
      BY ArgumentBounds DEF IInv, SentInv
    <3>. QED
      BY <3>1, ClockTimes DEF Bounds, Bound
  <2>6. group[id].created >= first
    OBVIOUS
  <2>4. sent.range[1] <= group[id].created
    <3>1. first \in Int
      BY <2>2, <2>3
    <3>2. sent.range[1] <= first
      <4>1. CASE wanted.from = NoBound
        BY <2>1, <4>1
      <4>2. CASE wanted.from # NoBound
        <5>1. Whole(wanted.from.at) <= wanted.from.at
          BY <2>3, <4>2, WholeBounds
        <5>. QED
          BY <2>1, <4>2, <5>1
      <4>. QED
        BY <4>1, <4>2
    <3> HIDE DEF first
    <3>. QED
      BY <2>2, <2>6, <3>1, <3>2
  <2>5. group[id].created <= sent.range[2]
    BY <2>1 DEF Matches
  <2>. QED
    BY <2>1, <2>4, <2>5 DEF Selected
<1>. QED
  BY <1>1, Invariance, PTL

(* updated_at is the latest of the times the answer shows.                 *)
THEOREM UpdatedAtLatestShown == Spec => []UpdatedAtIsLatest
<1>1. IInv => UpdatedAtIsLatest
  BY DEF IInv
<1>. QED
  BY <1>1, Invariance, PTL

===============================================================================
