------------------------- MODULE CurrentOnCall_proofs -------------------------
(***************************************************************************)
(* Proofs about CurrentOnCall for any rotas and any number of changes.     *)
(***************************************************************************)
EXTENDS CurrentOnCall, WellFoundedInduction, TLAPS

(* Why the schedule may be said not to exist.                              *)
Cause == Gone \in seen \/ ~endpoint

(* The schedule as it is now has been seen during the call, and so has     *)
(* what the response that is back was made from.                           *)
ReadingInv ==
  /\ phase \in {"idle", "first", "second", "answered"}
  /\ phase = "idle" => reply = NoResponse
  /\ phase \in {"first", "second"} => schedule \in seen
  /\ reply.body = "good" => reply.rota \in seen \cap Rotas
  /\ reply.status = 404 => Cause
  /\ phase = "second" => Cause
  /\ schedule \in Values

AnswerInv ==
  /\ phase # "answered" => answer = NoAnswer
  /\ ResultIsOneReading
  /\ NotFoundHasACause

IInv == ReadingInv /\ AnswerInv

-----------------------------------------------------------------------------
(* Only a 404 is mapped to NOT_FOUND.                                      *)
LEMMA OnlyNotFound ==
  ASSUME NEW s \in Int, s # 404
  PROVE  "NOT_FOUND" \notin MapUpstreamError(s)
  BY DEF MapUpstreamError, StatusTable, ReadErrorCodes

(* What an error holds, and what a result holds.                           *)
LEMMA AnswerFields ==
  /\ NoAnswer.kind = "none" /\ NoAnswer.code = ""
  /\ \A code : Error(code).kind = "error" /\ Error(code).code = code
  /\ \A users, end : /\ Result(users, end).kind = "result"
                     /\ Result(users, end).code = ""
                     /\ Result(users, end).users = users
                     /\ Result(users, end).end = end
  BY DEF NoAnswer, Error, Result

(* An error that does not deny the schedule without a cause is right ...   *)
LEMMA ErrorIsRight ==
  ASSUME IInv, phase # "idle", NEW code, Return(Error(code)),
         code = "NOT_FOUND" => Cause,
         UNCHANGED <<schedule, endpoint, reply, seen>>
  PROVE  IInv'
<1>1. phase' = "answered" /\ answer'.kind = "error" /\ answer'.code = code
  BY AnswerFields DEF Return
<1>2. AnswerInv'
  BY <1>1 DEF AnswerInv, ResultIsOneReading, NotFoundHasACause, Cause
<1>. QED
  BY <1>1, <1>2 DEF IInv, ReadingInv, Cause

(* ... and so is a result made from a response.                            *)
LEMMA ResultIsRight ==
  ASSUME IInv, phase # "idle", reply.body = "good",
         NEW e \in {ShiftEnd(reply.rota), NoEnd},
         Return(Result(Listed(reply.rota), e)),
         UNCHANGED <<schedule, endpoint, reply, seen>>
  PROVE  IInv'
<1>1. /\ phase' = "answered" /\ answer'.kind = "result" /\ answer'.code = ""
      /\ answer'.users = Listed(reply.rota) /\ answer'.end = e
  <2>1. phase' = "answered" /\ answer' = Result(Listed(reply.rota), e)
    BY Zenon DEF Return
  <2>. QED
    BY <2>1, Zenon DEF Result
<1>2. reply.rota \in seen' \cap Rotas
  BY DEF IInv, ReadingInv
<1>3. ResultIsOneReading'
  BY <1>1, <1>2 DEF ResultIsOneReading
<1>4. AnswerInv'
  BY <1>1, <1>3 DEF AnswerInv, NotFoundHasACause
<1>. QED
  BY <1>1, <1>4 DEF IInv, ReadingInv, Cause

-----------------------------------------------------------------------------
(* Before the call nothing is said.                                        *)
LEMMA InitInv == Init => IInv
<1> SUFFICES ASSUME Init PROVE IInv
  OBVIOUS
<1>1. reply = NoResponse /\ NoResponse.body = "none" /\ NoResponse.status = 0
  BY DEF Init, NoResponse, Response
<1>2. ReadingInv
  BY <1>1 DEF Init, ReadingInv
<1>3. AnswerInv
  BY AnswerFields DEF Init, AnswerInv, ResultIsOneReading, NotFoundHasACause
<1>. QED
  BY <1>2, <1>3 DEF IInv

(* The steps of the handler that send a request or return at once.         *)
LEMMA AskInv ==
  IInv /\ (RejectInput \/ AskFirst \/ AskSecond) /\ UNCHANGED <<schedule, endpoint>> => IInv'
<1> SUFFICES ASSUME IInv, RejectInput \/ AskFirst \/ AskSecond,
                    UNCHANGED <<schedule, endpoint>>
             PROVE  IInv'
  OBVIOUS
<1>1. NoResponse.body = "none" /\ NoResponse.status = 0
  BY DEF NoResponse, Response
<1>2. CASE RejectInput
  <2>1. /\ phase' = "answered" /\ answer'.kind = "error" /\ answer'.code = "INVALID_INPUT"
        /\ reply' = NoResponse
    BY <1>2, AnswerFields DEF RejectInput, Return, IInv, ReadingInv
  <2>2. AnswerInv'
    BY <2>1 DEF AnswerInv, ResultIsOneReading, NotFoundHasACause
  <2>. QED
    BY <1>1, <2>1, <2>2 DEF IInv, ReadingInv
<1>3. CASE AskFirst
  <2>1. AnswerInv'
    BY <1>3, AnswerFields
       DEF AskFirst, IInv, AnswerInv, ResultIsOneReading, NotFoundHasACause
  <2>. QED
    BY <1>1, <1>3, <2>1 DEF AskFirst, IInv, ReadingInv
<1>4. CASE AskSecond
  <2>1. AnswerInv'
    BY <1>4, AnswerFields
       DEF AskSecond, Received, IInv, AnswerInv, ResultIsOneReading, NotFoundHasACause
  <2>2. Cause'
    BY <1>4 DEF AskSecond, Received, IInv, ReadingInv, Cause
  <2>. QED
    BY <1>1, <1>4, <2>1, <2>2 DEF AskSecond, Received, IInv, ReadingInv
<1>. QED
  BY <1>2, <1>3, <1>4

(* The steps that answer the call.                                         *)
LEMMA ReturnInv ==
  /\ IInv /\ UNCHANGED <<schedule, endpoint>>
  /\ \/ TakeUsers \/ FirstRefused \/ FirstTimesOut \/ FirstFails
     \/ TakeFallback \/ FallbackRefused \/ FallbackFails
  => IInv'
<1> SUFFICES ASSUME IInv, UNCHANGED <<schedule, endpoint>>,
                    \/ TakeUsers \/ FirstRefused \/ FirstTimesOut \/ FirstFails
                    \/ TakeFallback \/ FallbackRefused \/ FallbackFails
             PROVE  IInv'
  OBVIOUS
<1>1. CASE TakeUsers
  BY <1>1, ResultIsRight DEF TakeUsers, Received
<1>2. CASE TakeFallback
  BY <1>2, ResultIsRight DEF TakeFallback, Received
<1>3. CASE FirstRefused
  <2>1. PICK code \in MapUpstreamError(reply.status) : Return(Error(code))
    BY <1>3 DEF FirstRefused
  <2>2. code # "NOT_FOUND"
    BY <1>3, <2>1 DEF FirstRefused, MapUpstreamError, StatusTable, ReadErrorCodes
  <2>. QED
    BY <1>3, <2>1, <2>2, ErrorIsRight DEF FirstRefused, Received
<1>4. CASE FirstFails \/ FirstTimesOut
  <2>1. PICK code \in MapUpstreamError(0) : Return(Error(code))
    BY <1>4 DEF FirstFails, FirstTimesOut
  <2>2. code # "NOT_FOUND"
    BY <2>1, OnlyNotFound
  <2>. QED
    BY <1>4, <2>1, <2>2, ErrorIsRight DEF FirstFails, FirstTimesOut
<1>5. CASE FallbackRefused \/ FallbackFails
  <2>1. Cause
    BY <1>5 DEF FallbackRefused, FallbackFails, Received, IInv, ReadingInv
  <2>. QED
    BY <1>5, <2>1, ErrorIsRight DEF FallbackRefused, FallbackFails, Received
<1>. QED
  BY <1>1, <1>2, <1>3, <1>4, <1>5

(* A response is made from the schedule as it is then.                     *)
LEMMA ReplyInv ==
  ASSUME IInv, phase \in {"first", "second"}, UNCHANGED endpoint,
         NEW status, NEW rota, NEW body, Reply(Response(status, rota, body)),
         body = "good" => rota \in seen \cap Rotas,
         status = 404 => Cause
  PROVE  IInv'
<1>1. /\ reply'.status = status /\ reply'.rota = rota /\ reply'.body = body
      /\ UNCHANGED <<schedule, phase, answer, seen>>
  BY DEF Reply, Response
<1>2. AnswerInv'
  BY <1>1 DEF IInv, AnswerInv, ResultIsOneReading, NotFoundHasACause
<1>. QED
  BY <1>1, <1>2 DEF IInv, ReadingInv, Cause

(* What OnCall and the people in it do.                                    *)
LEMMA OutsideInv ==
  /\ IInv /\ UNCHANGED endpoint
  /\ ServeFirst \/ ServeSecond \/ ServeBadly \/ OthersAct
  => IInv'
<1> SUFFICES ASSUME IInv, UNCHANGED endpoint,
                    ServeFirst \/ ServeSecond \/ ServeBadly \/ OthersAct
             PROVE  IInv'
  OBVIOUS
<1>1. CASE ServeFirst \/ ServeSecond
  <2>1. /\ phase \in {"first", "second"} /\ schedule \in seen
        /\ schedule # Gone => schedule \in seen \cap Rotas
    BY <1>1 DEF ServeFirst, ServeSecond, IInv, ReadingInv, Values
  <2>2. CASE Reply(Response(200, schedule, "good")) /\ schedule # Gone
    BY <2>1, <2>2, ReplyInv
  <2>3. CASE Reply(Response(404, Gone, "none")) /\ (schedule = Gone \/ ~endpoint)
    BY <2>1, <2>3, ReplyInv DEF Cause
  <2>. QED
    BY <1>1, <2>2, <2>3 DEF ServeFirst, ServeSecond
<1>2. CASE ServeBadly
  <2>1. PICK s \in Int, b \in {"none", "garbled"} : s # 404 /\ Reply(Response(s, Gone, b))
    BY <1>2 DEF ServeBadly, ErrorStatuses
  <2>. QED
    BY <1>2, <2>1, ReplyInv DEF ServeBadly
<1>3. CASE OthersAct
  <2>1. /\ schedule' \in Values
        /\ seen \subseteq seen'
        /\ phase \in {"first", "second"} => schedule' \in seen'
        /\ UNCHANGED <<phase, reply, answer>>
    BY <1>3 DEF OthersAct
  <2>2. ReadingInv'
    BY <2>1 DEF IInv, ReadingInv, Cause
  <2>3. ResultIsOneReading'
    BY <2>1 DEF IInv, AnswerInv, ResultIsOneReading
  <2>4. AnswerInv'
    BY <2>1, <2>3 DEF IInv, AnswerInv, NotFoundHasACause
  <2>. QED
    BY <2>2, <2>4 DEF IInv
<1>. QED
  BY <1>1, <1>2, <1>3

(* Every step keeps the invariant.                                         *)
LEMMA NextInv == IInv /\ [Next]_vars => IInv'
<1> SUFFICES ASSUME IInv, [Next]_vars PROVE IInv'
  OBVIOUS
<1>1. CASE UNCHANGED vars
  BY <1>1 DEF vars, IInv, ReadingInv, AnswerInv, Cause, ResultIsOneReading, NotFoundHasACause
<1>2. CASE Next
  BY <1>2, AskInv, ReturnInv, OutsideInv DEF Next, Handler
<1>. QED
  BY <1>1, <1>2

(* The invariant holds in every reachable state.                           *)
THEOREM Invariance == Spec => []IInv
  BY InitInv, NextInv, PTL DEF Spec

(* A result is one reading of the schedule, taken during the call.         *)
THEOREM OneReading == Spec => []ResultIsOneReading
<1>1. IInv => ResultIsOneReading
  BY DEF IInv, AnswerInv
<1>. QED
  BY <1>1, Invariance, PTL

(* NOT_FOUND is never said of a schedule that was there all the time.      *)
THEOREM NotFoundIsTrue == Spec => []NotFoundHasACause
<1>1. IInv => NotFoundHasACause
  BY DEF IInv, AnswerInv
<1>. QED
  BY <1>1, Invariance, PTL

-----------------------------------------------------------------------------
(***************************************************************************)
(* What the loop over a rota collects, for rotas of any length.            *)
(***************************************************************************)

(* A set that holds 0 and the successor of each number in it holds them    *)
(* all.                                                                    *)
LEMMA SetInduction ==
  ASSUME NEW S, 0 \in S, \A n \in Nat : n \in S => n + 1 \in S
  PROVE  \A n \in Nat : n \in S
<1> SUFFICES ASSUME Nat \ S # {} PROVE FALSE
  OBVIOUS
<1> DEFINE R == OpToRel(<, Nat)
<1>1. IsWellFoundedOn(R, Nat)
  BY NatLessThanWellFounded
<1>2. \A x, y \in Nat : y < x => <<y, x>> \in R
  BY DEF OpToRel
<1> HIDE DEF R
<1>3. PICK m \in Nat \ S : \A k \in Nat \ S : <<k, m>> \notin R
  <2>1. Nat \ S \subseteq Nat
    OBVIOUS
  <2>. QED
    BY <1>1, <2>1, WFMin
<1>4. \A k \in Nat \ S : ~(k < m)
  BY <1>2, <1>3
<1>5. m - 1 \in Nat /\ m - 1 \in S
  BY <1>4
<1>. QED
  BY <1>5

Shift == [user : Users \cup {NoId}, end : Ends \cup {NoEnd}]

(* users is the table of what the loop has collected after n rounds.       *)
Round(rota, users, n) ==
  IF n = 0 THEN <<>>
  ELSE IF rota[n].user = NoId THEN users[n - 1]
  ELSE Append(users[n - 1], rota[n].user)

HasRounds(rota, k) ==
  \E g \in [0..k -> Seq(Users)] : \A n \in 0..k : g[n] = Round(rota, g, n)

(* What stands in a rota is a user or the empty id.                        *)
LEMMA UserOrNone ==
  ASSUME NEW rota \in Seq(Shift), NEW n \in 1..Len(rota)
  PROVE  rota[n].user \in Users \cup {NoId}
<1>1. rota[n] \in Shift
  OBVIOUS
<1>. QED
  BY <1>1 DEF Shift

(* The loop goes on from one round to the next ...                         *)
LEMMA RoundsGoOn ==
  ASSUME NEW rota \in Seq(Shift), NEW k \in Nat, k < Len(rota), HasRounds(rota, k)
  PROVE  HasRounds(rota, k + 1)
<1>1. PICK g \in [0..k -> Seq(Users)] : \A n \in 0..k : g[n] = Round(rota, g, n)
  BY DEF HasRounds
<1> DEFINE next == IF rota[k + 1].user = NoId THEN g[k] ELSE Append(g[k], rota[k + 1].user)
           h == [n \in 0..(k + 1) |-> IF n <= k THEN g[n] ELSE next]
<1>2. next \in Seq(Users)
  <2>1. g[k] \in Seq(Users) /\ rota[k + 1].user \in Users \cup {NoId}
    BY UserOrNone
  <2>. QED
    BY <2>1
<1> HIDE DEF next
<1>3. h \in [0..(k + 1) -> Seq(Users)]
  BY <1>2
<1>4. \A n \in 0..k : h[n] = g[n] /\ (n > 0 => h[n - 1] = g[n - 1])
  OBVIOUS
<1>5. h[k + 1] = Round(rota, h, k + 1)
  BY DEF Round, next
<1> HIDE DEF h
<1>6. ASSUME NEW n \in 0..(k + 1) PROVE h[n] = Round(rota, h, n)
  <2>1. CASE n = k + 1
    BY <1>5, <2>1
  <2>2. CASE n # k + 1
    <3>1. n \in 0..k
      BY <2>2
    <3>2. Round(rota, h, n) = Round(rota, g, n)
      BY <1>4, <3>1 DEF Round
    <3>. QED
      BY <1>1, <1>4, <3>1, <3>2
  <2>. QED
    BY <2>1, <2>2
<1>. QED
  BY <1>3, <1>6 DEF HasRounds

(* ... to the end of the rota ...                                          *)
LEMMA LoopHasRounds == ASSUME NEW rota \in Seq(Shift) PROVE HasRounds(rota, Len(rota))
<1> DEFINE S == {k \in Nat : k <= Len(rota) => HasRounds(rota, k)}
<1>1. 0 \in S
  <2>1. [n \in 0..0 |-> <<>>] \in [0..0 -> Seq(Users)]
    OBVIOUS
  <2>2. \A n \in 0..0 : [m \in 0..0 |-> <<>>][n] = Round(rota, [m \in 0..0 |-> <<>>], n)
    BY DEF Round
  <2>. QED
    BY <2>1, <2>2 DEF HasRounds
<1>2. \A n \in Nat : n \in S => n + 1 \in S
  <2> SUFFICES ASSUME NEW n \in Nat, n + 1 <= Len(rota), n <= Len(rota) => HasRounds(rota, n)
               PROVE  HasRounds(rota, n + 1)
    OBVIOUS
  <2>. QED
    BY RoundsGoOn
<1> HIDE DEF S
<1>3. \A n \in Nat : n \in S
  BY <1>1, <1>2, SetInduction
<1>4. Len(rota) \in Nat
  OBVIOUS
<1>. QED
  BY <1>3, <1>4 DEF S

(* ... so what is reported are users: no empty id.                         *)
LEMMA ListedUsers == ASSUME NEW rota \in Seq(Shift) PROVE Listed(rota) \in Seq(Users)
<1> DEFINE f == CHOOSE f : f = [n \in 0..Len(rota) |->
             IF n = 0 THEN <<>>
             ELSE IF rota[n].user = NoId THEN f[n - 1]
             ELSE Append(f[n - 1], rota[n].user)]
<1>1. \E g : g = [n \in 0..Len(rota) |-> 
             IF n = 0 THEN <<>>
             ELSE IF rota[n].user = NoId THEN g[n - 1]
             ELSE Append(g[n - 1], rota[n].user)]
  <2>1. PICK g \in [0..Len(rota) -> Seq(Users)] :
               \A n \in 0..Len(rota) : g[n] = Round(rota, g, n)
    BY LoopHasRounds DEF HasRounds
  <2>2. g = [n \in 0..Len(rota) |-> Round(rota, g, n)]
    BY <2>1
  <2>. QED
    BY <2>2, Zenon DEF Round
<1>2. f = [n \in 0..Len(rota) |-> 
             IF n = 0 THEN <<>>
             ELSE IF rota[n].user = NoId THEN f[n - 1]
             ELSE Append(f[n - 1], rota[n].user)]
  BY <1>1, Zenon
<1>3. Listed(rota) = f[Len(rota)]
  BY Zenon DEF Listed
<1> HIDE DEF f
<1> DEFINE S == {n \in Nat : n <= Len(rota) => f[n] \in Seq(Users)}
<1>4. 0 \in S
  BY <1>2
<1>5. \A n \in Nat : n \in S => n + 1 \in S
  <2> SUFFICES ASSUME NEW n \in Nat, n + 1 <= Len(rota), f[n] \in Seq(Users)
               PROVE  f[n + 1] \in Seq(Users)
    OBVIOUS
  <2>1. rota[n + 1].user \in Users \cup {NoId}
    BY UserOrNone
  <2>2. f[n + 1] = IF rota[n + 1].user = NoId THEN f[n] ELSE Append(f[n], rota[n + 1].user)
    <3>1. n + 1 \in 0..Len(rota) /\ n + 1 # 0 /\ (n + 1) - 1 = n
      OBVIOUS
    <3>2. \A k \in 0..Len(rota) : f[k] =
            IF k = 0 THEN <<>>
            ELSE IF rota[k].user = NoId THEN f[k - 1]
            ELSE Append(f[k - 1], rota[k].user)
      BY <1>2, Zenon
    <3>. QED
      BY <3>1, <3>2
  <2>. QED
    BY <2>1, <2>2
<1> HIDE DEF S
<1>6. \A n \in Nat : n \in S
  BY <1>4, <1>5, SetInduction
<1>7. Len(rota) \in Nat
  OBVIOUS
<1>. QED
  BY <1>3, <1>6, <1>7 DEF S

-----------------------------------------------------------------------------
(***************************************************************************)
(* The types.                                                              *)
(***************************************************************************)

(* A rota that is reported lists users.                                    *)
LEMMA RotaListed == ASSUME NEW rota \in Rotas PROVE Listed(rota) \in Seq(Users)
<1>1. rota \in Seq(Shift)
  BY RotaAssumption DEF Shift
<1>. QED
  BY <1>1, ListedUsers

(* Every status gets a code of a read tool.                                *)
LEMMA CodeMapped == ASSUME NEW status PROVE MapUpstreamError(status) \subseteq ReadErrorCodes
  BY DEF MapUpstreamError, ReadErrorCodes

(* What an answer may hold.                                                *)
AnswerOK(a) ==
  /\ a.kind \in {"none", "error", "result"}
  /\ a.code \in ReadErrorCodes \cup {""}
  /\ a.users \in Seq(Users)

(* An error names no user, a result only those of the rota.                *)
LEMMA AnswerTypes ==
  /\ AnswerOK(NoAnswer)
  /\ \A code \in ReadErrorCodes : AnswerOK(Error(code))
  /\ \A rota \in Rotas : \A end : AnswerOK(Result(Listed(rota), end))
<1>1. <<>> \in Seq(Users)
  OBVIOUS
<1>2. AnswerOK(NoAnswer) /\ \A code \in ReadErrorCodes : AnswerOK(Error(code))
  BY <1>1 DEF AnswerOK, NoAnswer, Error
<1>3. ASSUME NEW rota \in Rotas, NEW end PROVE AnswerOK(Result(Listed(rota), end))
  BY RotaListed DEF AnswerOK, Result
<1>. QED
  BY <1>2, <1>3

(* The answer, if there is one, is of its type ...                         *)
LEMMA HandlerAnswers ==
  ASSUME IInv, AnswerOK(answer),
         RejectInput \/ AskFirst \/ Handler \/ FirstFails \/ FallbackFails
  PROVE  AnswerOK(answer')
<1>1. CASE TakeUsers \/ TakeFallback
  <2>1. reply.rota \in Rotas
    BY <1>1 DEF TakeUsers, TakeFallback, IInv, ReadingInv
  <2>. QED
    BY <1>1, <2>1, AnswerTypes DEF TakeUsers, TakeFallback, Return
<1>2. CASE \E code \in ReadErrorCodes : answer' = Error(code)
  BY <1>2, AnswerTypes
<1>3. RejectInput \/ FallbackRefused \/ FallbackFails => \E code \in ReadErrorCodes : answer' = Error(code)
  BY DEF RejectInput, FallbackRefused, FallbackFails, Return, ReadErrorCodes
<1>4. FirstRefused \/ FirstFails \/ FirstTimesOut => \E code \in ReadErrorCodes : answer' = Error(code)
  BY CodeMapped DEF FirstRefused, FirstFails, FirstTimesOut, Return
<1>5. CASE AskFirst \/ AskSecond
  BY <1>5 DEF AskFirst, AskSecond
<1>. QED
  BY <1>1, <1>2, <1>3, <1>4, <1>5 DEF Handler

(* ... and so is a response.                                               *)
LEMMA ReplyTypes ==
  ASSUME schedule \in Values, ServeFirst \/ ServeSecond \/ ServeBadly
  PROVE  reply' \in Responses
<1>1. \A status \in ErrorStatuses \cup {200}, rota \in Values,
         body \in {"none", "good", "garbled"} : Response(status, rota, body) \in Responses
  BY DEF Response, Responses
<1>2. Gone \in Values /\ 404 \in ErrorStatuses
  BY DEF Values, ErrorStatuses
<1>. QED
  BY <1>1, <1>2 DEF ServeFirst, ServeSecond, ServeBadly, Reply

(* The types hold before the call ...                                      *)
LEMMA InitTypes == Init => TypeOK
<1> SUFFICES ASSUME Init PROVE TypeOK
  OBVIOUS
<1>1. endpoint \in BOOLEAN /\ answer = NoAnswer /\ reply = NoResponse /\ changes = 0
  BY Zenon DEF Init
<1>2. NoResponse \in Responses
  BY DEF NoResponse, Response, Responses, ErrorStatuses, Values
<1>3. AnswerOK(answer)
  BY <1>1, AnswerTypes
<1>4. changes \in 0..MaxChanges
  BY <1>1, ChangesAssumption
<1>. QED
  BY <1>1, <1>2, <1>3, <1>4 DEF Init, TypeOK, AnswerOK

(* ... and every step keeps them.                                          *)
LEMMA NextTypes == IInv /\ TypeOK /\ [Next]_vars => TypeOK'
<1> SUFFICES ASSUME IInv, TypeOK, [Next]_vars PROVE TypeOK'
  OBVIOUS
<1>1. AnswerOK(answer) /\ schedule \in Values
  BY DEF TypeOK, AnswerOK
<1>2. ASSUME RejectInput \/ AskFirst \/ Handler \/ FirstFails \/ FallbackFails,
             UNCHANGED <<schedule, changes, endpoint>>
      PROVE  TypeOK'
  <2>1. AnswerOK(answer')
    BY <1>1, <1>2, HandlerAnswers
  <2>2. /\ phase' \in {"idle", "first", "second", "answered"}
        /\ seen' \in {seen, {schedule}}
        /\ reply' \in {reply, NoResponse}
        /\ received' \in {received, received \cup {reply.status}}
    BY <1>2
       DEF RejectInput, AskFirst, Handler, TakeUsers, AskSecond, FirstRefused, FirstTimesOut,
           FirstFails, TakeFallback, FallbackRefused, FallbackFails, Received, Return
  <2>3. NoResponse \in Responses
    BY DEF NoResponse, Response, Responses, ErrorStatuses, Values
  <2>4. reply.status \in ErrorStatuses \cup {200}
    BY DEF TypeOK, Responses
  <2>5. /\ reply' \in Responses
        /\ seen' \subseteq Values
        /\ received' \subseteq ErrorStatuses \cup {200}
    <3>1. reply \in Responses /\ seen \subseteq Values /\ received \subseteq ErrorStatuses \cup {200}
      BY Zenon DEF TypeOK
    <3>. QED
      BY <1>1, <2>2, <2>3, <2>4, <3>1
  <2>6. changes' \in 0..MaxChanges /\ schedule' \in Values /\ endpoint' \in BOOLEAN
    BY <1>2, Zenon DEF TypeOK
  <2>. QED
    BY <2>1, <2>2, <2>5, <2>6, Zenon DEF TypeOK, AnswerOK
<1>3. ASSUME ServeFirst \/ ServeSecond \/ ServeBadly, UNCHANGED endpoint PROVE TypeOK'
  <2>1. reply' \in Responses
    BY <1>1, <1>3, ReplyTypes
  <2>2. UNCHANGED <<schedule, changes, phase, answer, seen, received>>
    BY <1>3 DEF ServeFirst, ServeSecond, ServeBadly, Reply
  <2>. QED
    BY <1>3, <2>1, <2>2 DEF TypeOK
<1>4. ASSUME OthersAct, UNCHANGED endpoint PROVE TypeOK'
  <2>1. changes \in 0..MaxChanges /\ changes < MaxChanges /\ changes' = changes + 1
    BY <1>4, Zenon DEF OthersAct, TypeOK
  <2>2. changes' \in 0..MaxChanges
    BY <2>1, ChangesAssumption
  <2>3. schedule' \in Values /\ seen' \subseteq Values
    <3>1. schedule' \in Values /\ seen' \in {seen, seen \cup {schedule'}}
      BY <1>4 DEF OthersAct
    <3>2. seen \subseteq Values
      BY DEF TypeOK
    <3>. QED
      BY <3>1, <3>2
  <2>4. UNCHANGED <<phase, reply, answer, received, endpoint>>
    BY <1>4, Zenon DEF OthersAct
  <2>. QED
    BY <2>2, <2>3, <2>4, Zenon DEF TypeOK
<1>5. CASE UNCHANGED vars
  BY <1>5 DEF vars, TypeOK
<1>. QED
  BY <1>2, <1>3, <1>4, <1>5 DEF Next

(* Every variable keeps its type: an answer lists users only, never an     *)
(* empty id, however long the rota is, and every error has a code of the   *)
(* read tools.                                                             *)
THEOREM TypeCorrect == Spec => []TypeOK
  BY InitTypes, NextTypes, Invariance, PTL DEF Spec

===============================================================================
