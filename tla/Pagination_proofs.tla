-------------------------- MODULE Pagination_proofs --------------------------
(***************************************************************************)
(* Proofs about Pagination, for every page size and every list: a walk     *)
(* never goes back, whatever others change; over a list nobody changes it  *)
(* delivers in order; it ends with the last item there is.                 *)
(***************************************************************************)
EXTENDS Pagination, SequenceTheorems, TLAPS

(* The pages served come before the page that is asked for, or that the    *)
(* cursor the client holds leads to.                                       *)
CursorOK ==
  /\ cursor.kind = "next" => cursor.page \in Nat
  /\ cursor.kind # "next" => pages = <<>> \/ phase = "ended"

Before(page) == \A i \in DOMAIN pages : pages[i] < page

AdvanceInv ==
  /\ pages \in Seq(Nat)
  /\ asked \in Nat
  /\ CursorOK
  /\ phase \in {"ready", "asked", "failed", "ended"}
  /\ phase = "ready" => Before(ParseCursor(cursor))
  /\ phase \in {"asked", "failed"} => asked = ParseCursor(cursor) /\ Before(asked)
  /\ WalkAdvances

-----------------------------------------------------------------------------
(* A cursor leads to some page.                                            *)
LEMMA CursorLeads ==
  ASSUME CursorOK
  PROVE  ParseCursor(cursor) \in Nat \ {0}
  BY DEF CursorOK, ParseCursor

(* The cursor of an answer leads past the page the answer holds.           *)
LEMMA NextCursorLeads ==
  ASSUME NEW page \in Nat
  PROVE  /\ BuildCursor(page, TRUE).kind = "next"
         /\ BuildCursor(page, TRUE).page = page + 1
         /\ BuildCursor(page, FALSE) = NoCursor
         /\ BuildCursor(page, TRUE) # NoCursor
         /\ NoCursor.kind = "none"
         /\ ParseCursor(BuildCursor(page, TRUE)) = page + 2
  BY DEF BuildCursor, NextCursor, NoCursor, Cursor, ParseCursor

(* Appending a page after all others keeps them in order.                  *)
LEMMA AppendAdvances ==
  ASSUME pages \in Seq(Nat), NEW page \in Nat, Before(page), WalkAdvances,
         pages' = Append(pages, page)
  PROVE  /\ pages' \in Seq(Nat)
         /\ WalkAdvances'
         /\ \A i \in DOMAIN pages' : pages'[i] <= page
  BY DEF Before, WalkAdvances

(* A walk starts with no page served ...                                   *)
LEMMA InitAdvances == Init => AdvanceInv
<1> SUFFICES ASSUME Init PROVE AdvanceInv
  OBVIOUS
<1>1. /\ pages = <<>>
      /\ asked = 0
      /\ phase = "ready"
      /\ cursor \in ClientCursors
  BY DEF Init
<1>2. pages \in Seq(Nat) /\ DOMAIN pages = {}
  BY <1>1
<1>3. cursor.kind # "next"
  BY <1>1 DEF ClientCursors, NoCursor, Cursor
<1>4. CursorOK
  BY <1>1, <1>3 DEF CursorOK
<1>5. WalkAdvances /\ Before(ParseCursor(cursor))
  BY <1>2 DEF WalkAdvances, Before
<1>. QED
  BY <1>1, <1>2, <1>4, <1>5 DEF AdvanceInv

(* ... and every step goes forward.                                        *)
LEMMA NextAdvances == AdvanceInv /\ [Next]_vars => AdvanceInv'
<1> SUFFICES ASSUME AdvanceInv, [Next]_vars PROVE AdvanceInv'
  OBVIOUS
<1>1. CASE Ask
  <2>1. ParseCursor(cursor) \in Nat \ {0}
    BY CursorLeads DEF AdvanceInv
  <2>. QED
    BY <1>1, <2>1 DEF Ask, AdvanceInv, CursorOK, Before, WalkAdvances, ParseCursor
<1>2. CASE AnswerPage
  <2>1. /\ pages \in Seq(Nat)
        /\ asked \in Nat
        /\ Before(asked)
        /\ WalkAdvances
        /\ pages' = Append(pages, asked)
        /\ asked' = asked
    BY <1>2 DEF AnswerPage, AdvanceInv
  <2>2. /\ pages' \in Seq(Nat)
        /\ WalkAdvances'
        /\ \A i \in DOMAIN pages' : pages'[i] <= asked
    BY <2>1, AppendAdvances
  <2>3. /\ cursor' = BuildCursor(asked, HasNext(asked))
        /\ phase' = IF cursor' = NoCursor THEN "ended" ELSE "ready"
    BY <1>2 DEF AnswerPage
  <2>4. CASE HasNext(asked)
    <3>1. /\ cursor' = BuildCursor(asked, TRUE)
          /\ cursor' # NoCursor
          /\ cursor'.kind = "next"
          /\ cursor'.page = asked + 1
      BY <2>1, <2>3, <2>4, NextCursorLeads DEF BuildCursor
    <3>2. phase' = "ready"
      BY <2>3, <3>1
    <3>3. ParseCursor(cursor') = asked + 2
      BY <2>1, <3>1, NextCursorLeads
    <3>4. CursorOK'
      <4>1. cursor'.page \in Nat
        <5>1. asked + 1 \in Nat
          BY <2>1
        <5>. QED
          BY <3>1, <5>1, Zenon
      <4>. QED
        BY <3>1, <4>1 DEF CursorOK
    <3>5. \A i \in DOMAIN pages' : pages'[i] < asked + 2
      <4>. SUFFICES ASSUME NEW i \in DOMAIN pages' PROVE pages'[i] < asked + 2
        OBVIOUS
      <4>1. pages'[i] \in Nat /\ pages'[i] <= asked
        BY <2>2
      <4>. QED
        BY <2>1, <4>1
    <3>6. Before(ParseCursor(cursor))'
      BY <3>3, <3>5 DEF Before, ParseCursor
    <3>. QED
      BY <2>1, <2>2, <3>2, <3>4, <3>6 DEF AdvanceInv
  <2>5. CASE ~HasNext(asked)
    <3>1. cursor' = NoCursor /\ cursor'.kind = "none"
      BY <2>3, <2>5, NextCursorLeads DEF BuildCursor, NoCursor, Cursor
    <3>2. phase' = "ended"
      BY <2>3, <3>1
    <3>3. CursorOK'
      BY <3>1, <3>2 DEF CursorOK
    <3>. QED
      BY <2>1, <2>2, <3>2, <3>3 DEF AdvanceInv
  <2>. QED
    BY <2>4, <2>5
<1>3. ASSUME NEW code, phase = "asked", Fail(code) PROVE AdvanceInv'
  BY <1>3 DEF Fail, AdvanceInv, CursorOK, Before, WalkAdvances, ParseCursor
<1>4. CASE AnswerNotFound
  BY <1>3, <1>4 DEF AnswerNotFound
<1>5. CASE AnswerError
  BY <1>3, <1>5 DEF AnswerError
<1>6. CASE Retry
  BY <1>6 DEF Retry, AdvanceInv, CursorOK, Before, WalkAdvances, ParseCursor
<1>7. CASE UNCHANGED walkVars
  BY <1>7 DEF walkVars, AdvanceInv, CursorOK, Before, WalkAdvances, ParseCursor
<1>. QED
  BY <1>1, <1>2, <1>4, <1>5, <1>6, <1>7 DEF Next, Insert, Delete, vars

(* No walk is ever served a page it has passed.                            *)
THEOREM Advances == Spec => []WalkAdvances
<1>1. AdvanceInv => WalkAdvances
  BY DEF AdvanceInv
<1>. QED
  BY InitAdvances, NextAdvances, <1>1, PTL DEF Spec

-----------------------------------------------------------------------------
(***************************************************************************)
(* What a walk delivers.                                                   *)
(***************************************************************************)

(* A walk is served every other page: the cursor names page 2n after n of  *)
(* them, and the handler asks for the one after that.                      *)
CursorCounts ==
  /\ cursor.kind = "next" => cursor.page = 2 * Len(pages)
  /\ phase = "asked" => asked = ParseCursor(cursor)

(* While nobody changes the list, it holds the numbers from 1 on, and what *)
(* has been delivered lies before the page that is asked for next.         *)
QuietInv ==
  changes = 0 =>
    /\ \A i \in DOMAIN list : list[i] = i
    /\ QuietWalkInOrder
    /\ phase # "ended" =>
         \A i \in DOMAIN delivered : delivered[i] <= (ParseCursor(cursor) - 1) * PageSize

WalkInv == TypeOK /\ AdvanceInv /\ CursorCounts /\ QuietInv

(* A page that exists is a slice of the list: where it begins and ends.    *)
LEMMA PageSlice ==
  ASSUME list \in Seq(Items), NEW page \in Nat \ {0}, PageExists(page)
  PROVE  LET first == (page - 1) * PageSize
             last == IF HasNext(page) THEN page * PageSize ELSE Len(list)
         IN /\ first \in Nat /\ last \in Nat
            /\ first <= last /\ last <= Len(list)
            /\ last <= page * PageSize /\ last - first <= PageSize
            /\ list # <<>> => first < last
            /\ PageItems(page) \in Seq(Items)
            /\ Len(PageItems(page)) = last - first
            /\ \A i \in 1..(last - first) : PageItems(page)[i] = list[first + i]
<1> DEFINE first == (page - 1) * PageSize
           last == IF HasNext(page) THEN page * PageSize ELSE Len(list)
<1>1. PageSize \in Nat \ {0} /\ Len(list) \in Nat
  BY PageSizeAssumption
<1>2. first \in Nat /\ page * PageSize = first + PageSize
  <2>1. PICK k \in Nat : page = k + 1
    <3>1. page - 1 \in Nat /\ page = (page - 1) + 1
      OBVIOUS
    <3>. QED
      BY <3>1
  <2>2. (k + 1) * PageSize = k * PageSize + PageSize /\ k * PageSize \in Nat
    BY <1>1
  <2>. QED
    BY <2>1, <2>2
<1>3. page = 1 => first = 0
  BY <1>1
<1>4. page = 1 \/ first < Len(list)
  BY DEF PageExists
<1>5. HasNext(page) <=> first + PageSize < Len(list)
  BY <1>2, Zenon DEF HasNext
<1>6. /\ last \in Nat /\ first <= last /\ last <= Len(list)
      /\ last <= page * PageSize /\ last - first <= PageSize
  <2> HIDE DEF first
  <2>. QED
    BY <1>1, <1>2, <1>3, <1>4, <1>5
<1>7. list # <<>> => first < last
  <2>1. list # <<>> => Len(list) > 0
    OBVIOUS
  <2> HIDE DEF first
  <2>. QED
    BY <1>1, <1>2, <1>3, <1>4, <1>5, <2>1
<1>8. PageItems(page) = SubSeq(list, first + 1, last)
  BY DEF PageItems
<1> HIDE DEF first, last
<1>9. \A i \in (first + 1)..last : list[i] \in Items
  BY <1>2, <1>6
<1>10. /\ SubSeq(list, first + 1, last) \in Seq(Items)
       /\ Len(SubSeq(list, first + 1, last)) =
            IF first + 1 <= last THEN last - (first + 1) + 1 ELSE 0
       /\ \A i \in 1..(last - (first + 1) + 1) :
            SubSeq(list, first + 1, last)[i] = list[(first + 1) + i - 1]
  <2>1. first + 1 \in Int /\ last \in Int
    BY <1>2, <1>6
  <2>. QED
    BY <1>9, <2>1, SubSeqProperties
<1>11. /\ Len(PageItems(page)) = last - first
       /\ \A i \in 1..(last - first) : PageItems(page)[i] = list[first + i]
  BY <1>2, <1>6, <1>8, <1>10
<1>. QED
  BY <1>2, <1>6, <1>7, <1>8, <1>10, <1>11 DEF first, last

(* A status that is an error gets a code of a read tool.                   *)
LEMMA CodesAreKnown ==
  ASSUME NEW code, NEW c \in MapUpstreamError(code)
  PROVE  c \in ReadErrorCodes
  BY DEF MapUpstreamError, ReadErrorCodes

(* A walk starts with nothing delivered ...                                *)
LEMMA InitWalk == Init => WalkInv
<1> SUFFICES ASSUME Init PROVE WalkInv
  OBVIOUS
<1>1. PICK n \in 0..MaxItems : list = [i \in 1..n |-> i]
  BY DEF Init
<1>2. list \in Seq(Items)
  <2>1. 1..n \subseteq Items
    BY BoundAssumption DEF Items
  <2>2. list \in [1..n -> Items] /\ n \in Nat
    BY <1>1, <2>1, BoundAssumption
  <2>. QED
    BY <2>2
<1>3. pages = <<>>
  BY DEF Init
<1>4. delivered = <<>>
  BY DEF Init
<1>5. changes = 0 /\ asked = 0 /\ size = 0
  BY DEF Init
<1>6. phase = "ready" /\ cursor \in ClientCursors
  BY DEF Init
<1>7. limit \in 1..200
  <2>1. PICK m \in LimitArgs : limit = ParseLimit(m)
    BY DEF Init
  <2>2. m \in Int
    BY LimitAssumption
  <2>. QED
    BY <2>1, <2>2 DEF ParseLimit
<1>8. TypeOK
  <2>1. pages \in Seq(Nat \ {0})
    BY <1>3
  <2>2. delivered \in Seq(Items)
    BY <1>4
  <2>3. changes \in 0..MaxChanges /\ size \in 0..PageSize /\ asked \in Nat
    BY <1>5, PageSizeAssumption, BoundAssumption
  <2>4. status \in ErrorStatuses \cup {200} /\ failure \in ReadErrorCodes \cup {""}
    BY Zenon DEF Init
  <2>5. phase \in {"ready", "asked", "failed", "ended"}
    BY <1>6
  <2>. QED
    BY <1>2, <1>6, <1>7, <2>1, <2>2, <2>3, <2>4, <2>5, Zenon DEF TypeOK
<1>9. CursorCounts
  <2>1. cursor.kind # "next"
    BY <1>6 DEF ClientCursors, NoCursor, Cursor
  <2>. QED
    BY <1>6, <2>1 DEF CursorCounts
<1>10. QuietInv
  <2>1. DOMAIN delivered = {}
    BY <1>4
  <2>2. \A i \in DOMAIN list : list[i] = i
    BY <1>1
  <2>. QED
    BY <2>1, <2>2 DEF QuietInv, QuietWalkInOrder
<1>. QED
  BY <1>8, <1>9, <1>10, InitAdvances DEF WalkInv

(* ... asking for a page delivers nothing ...                              *)
LEMMA AskWalk == WalkInv /\ AdvanceInv' /\ (Ask \/ Retry) => WalkInv'
<1> SUFFICES ASSUME WalkInv, AdvanceInv', Ask \/ Retry PROVE WalkInv'
  OBVIOUS
<1>1. /\ UNCHANGED <<list, changes, limit, cursor, pages, delivered, size, status, failure>>
      /\ \/ phase' = "asked" /\ asked' = ParseCursor(cursor)
         \/ phase' = "ready" /\ asked' = asked
      /\ phase # "ended"
  BY DEF Ask, Retry, listVars
<1>2. ParseCursor(cursor) \in Nat \ {0} /\ ParseCursor(cursor)' = ParseCursor(cursor)
  BY <1>1, CursorLeads DEF WalkInv, AdvanceInv, ParseCursor
<1>3. TypeOK'
  BY <1>1, <1>2 DEF WalkInv, TypeOK
<1>4. CursorCounts'
  BY <1>1, <1>2 DEF WalkInv, CursorCounts
<1>5. QuietInv'
  BY <1>1, <1>2 DEF WalkInv, QuietInv, QuietWalkInOrder
<1>. QED
  BY <1>3, <1>4, <1>5 DEF WalkInv

(* ... an error delivers nothing either ...                                *)
LEMMA FailWalk == WalkInv /\ AdvanceInv' /\ (AnswerNotFound \/ AnswerError) => WalkInv'
<1> SUFFICES ASSUME WalkInv, AdvanceInv', AnswerNotFound \/ AnswerError PROVE WalkInv'
  OBVIOUS
<1>1. PICK code \in ErrorStatuses : phase = "asked" /\ Fail(code)
  BY DEF AnswerNotFound, AnswerError, ErrorStatuses
<1>2. /\ UNCHANGED <<list, changes, limit, cursor, asked, pages, delivered>>
      /\ phase' = "failed" /\ status' = code /\ failure' \in ReadErrorCodes /\ size' = 0
  BY <1>1, CodesAreKnown DEF Fail, listVars
<1>3. TypeOK'
  <2>1. size' \in 0..PageSize
    BY <1>2, PageSizeAssumption
  <2>2. /\ list' \in Seq(Items) /\ changes' \in 0..MaxChanges /\ limit' \in 1..200
        /\ asked' \in Nat /\ pages' \in Seq(Nat \ {0}) /\ delivered' \in Seq(Items)
        /\ cursor' \in ClientCursors \cup {NextCursor(page) : page \in 2..(Len(pages') * 2)}
    BY <1>2, Zenon DEF WalkInv, TypeOK
  <2>. QED
    BY <1>2, <2>1, <2>2, Zenon DEF TypeOK
<1>4. CursorCounts'
  BY <1>2 DEF WalkInv, CursorCounts
<1>5. QuietInv'
  <2>1. ParseCursor(cursor)' = ParseCursor(cursor)
    BY <1>2 DEF ParseCursor
  <2>. QED
    BY <1>1, <1>2, <2>1 DEF WalkInv, QuietInv, QuietWalkInOrder
<1>. QED
  BY <1>3, <1>4, <1>5 DEF WalkInv

(* ... a change by others ends what is said of a quiet walk ...            *)
LEMMA ChangeWalk == WalkInv /\ AdvanceInv' /\ (Insert \/ Delete) => WalkInv'
<1> SUFFICES ASSUME WalkInv, AdvanceInv', Insert \/ Delete PROVE WalkInv'
  OBVIOUS
<1>1. /\ UNCHANGED <<limit, phase, cursor, asked, pages, delivered, size, status, failure>>
      /\ changes \in 0..MaxChanges /\ changes < MaxChanges /\ changes' = changes + 1
      /\ list \in Seq(Items)
  BY DEF Insert, Delete, walkVars, WalkInv, TypeOK
<1>2. list' \in Seq(Items)
  <2>1. CASE Insert
    <3>1. MaxItems + changes + 1 \in Items
      BY <1>1, BoundAssumption DEF Items
    <3>. QED
      BY <1>1, <2>1, <3>1 DEF Insert
  <2>2. CASE Delete
    <3>1. PICK i \in DOMAIN list : list' = SubSeq(list, 1, i - 1) \o SubSeq(list, i + 1, Len(list))
      BY <2>2 DEF Delete, RemoveAt
    <3>2. i \in 1..Len(list) /\ Len(list) \in Nat
      BY <1>1, <3>1
    <3>3. \A j \in 1..(i - 1) : list[j] \in Items
      BY <1>1, <3>2
    <3>4. \A j \in (i + 1)..Len(list) : list[j] \in Items
      BY <1>1, <3>2
    <3>5. SubSeq(list, 1, i - 1) \in Seq(Items)
      BY <3>2, <3>3, SubSeqProperties
    <3>6. SubSeq(list, i + 1, Len(list)) \in Seq(Items)
      BY <3>2, <3>4, SubSeqProperties
    <3>. QED
      BY <3>1, <3>5, <3>6
  <2>. QED
    BY <2>1, <2>2
<1>3. TypeOK'
  <2>1. changes' \in 0..MaxChanges
    BY <1>1, BoundAssumption
  <2>2. /\ cursor' \in ClientCursors \cup {NextCursor(page) : page \in 2..(Len(pages') * 2)}
        /\ limit' \in 1..200 /\ asked' \in Nat /\ pages' \in Seq(Nat \ {0})
        /\ delivered' \in Seq(Items) /\ size' \in 0..PageSize
        /\ phase' \in {"ready", "asked", "failed", "ended"}
        /\ status' \in ErrorStatuses \cup {200} /\ failure' \in ReadErrorCodes \cup {""}
    BY <1>1, Zenon DEF WalkInv, TypeOK
  <2>. QED
    BY <1>2, <2>1, <2>2, Zenon DEF TypeOK
<1>4. CursorCounts'
  BY <1>1 DEF WalkInv, CursorCounts, ParseCursor
<1>5. QuietInv'
  BY <1>1 DEF QuietInv
<1>. QED
  BY <1>3, <1>4, <1>5 DEF WalkInv

(* ... and a page goes on where the last one was left off.                 *)
LEMMA PageWalk == WalkInv /\ AdvanceInv' /\ AnswerPage => WalkInv'
<1> SUFFICES ASSUME WalkInv, AdvanceInv', AnswerPage PROVE WalkInv'
  OBVIOUS
<1> DEFINE first == (asked - 1) * PageSize
           last == IF HasNext(asked) THEN asked * PageSize ELSE Len(list)
           items == PageItems(asked)
<1>a. /\ cursor' = BuildCursor(asked, HasNext(asked))
      /\ phase' = IF cursor' = NoCursor THEN "ended" ELSE "ready"
  BY DEF AnswerPage
<1>1. /\ phase = "asked" /\ PageExists(asked)
      /\ delivered' = delivered \o items /\ size' = Len(items)
      /\ pages' = Append(pages, asked)
      /\ status' = 200 /\ failure' = ""
      /\ UNCHANGED <<list, changes, limit, asked>>
  BY DEF AnswerPage, listVars
<1>2. /\ asked = ParseCursor(cursor) /\ asked \in Nat \ {0}
      /\ asked = 2 * Len(pages) + 1
      /\ pages \in Seq(Nat \ {0})
  <2>1. asked = ParseCursor(cursor) /\ asked \in Nat \ {0} /\ pages \in Seq(Nat \ {0})
    BY <1>1, CursorLeads DEF WalkInv, AdvanceInv, CursorCounts, TypeOK
  <2>2. CASE cursor.kind = "next"
    BY <2>1, <2>2 DEF WalkInv, CursorCounts, ParseCursor
  <2>3. CASE cursor.kind # "next"
    <3>1. pages = <<>>
      BY <1>1, <2>3 DEF WalkInv, AdvanceInv, CursorOK
    <3>. QED
      BY <2>1, <2>3, <3>1 DEF ParseCursor
  <2>. QED
    BY <2>1, <2>2, <2>3
<1>3. /\ first \in Nat /\ last \in Nat /\ first <= last /\ last <= Len(list)
      /\ last <= asked * PageSize /\ last - first <= PageSize
      /\ items \in Seq(Items) /\ Len(items) = last - first
      /\ \A i \in 1..(last - first) : items[i] = list[first + i]
  <2>1. list \in Seq(Items) /\ PageExists(asked)
    BY <1>1 DEF WalkInv, TypeOK
  <2>. QED
    BY <1>2, <2>1, PageSlice
<1>4. /\ delivered \in Seq(Items) /\ delivered' \in Seq(Items)
      /\ Len(delivered') = Len(delivered) + Len(items)
      /\ \A i \in 1..Len(delivered) : delivered'[i] = delivered[i]
      /\ \A i \in (Len(delivered) + 1)..Len(delivered') :
           delivered'[i] = items[i - Len(delivered)]
  <2>1. delivered \in Seq(Items) /\ items \in Seq(Items)
    BY <1>3 DEF WalkInv, TypeOK
  <2>2. delivered' = delivered \o items
    BY <1>1
  <2> HIDE DEF items
  <2>. QED
    BY <2>1, <2>2, ConcatProperties
<1>5. pages' \in Seq(Nat \ {0}) /\ Len(pages') = Len(pages) + 1 /\ Len(pages) \in Nat
  <2>1. pages' = Append(pages, asked)
    BY <1>1
  <2>. QED
    BY <1>2, <2>1, AppendProperties
<1>6. \/ HasNext(asked) /\ phase' = "ready" /\ cursor' = NextCursor(asked + 1)
      \/ ~HasNext(asked) /\ phase' = "ended" /\ cursor' = NoCursor
  BY <1>a, <1>2 DEF BuildCursor, NextCursor, NoCursor, Cursor
<1>7. cursor' \in ClientCursors \cup {NextCursor(page) : page \in 2..(Len(pages') * 2)}
  <2>1. asked + 1 \in 2..(Len(pages') * 2)
    BY <1>2, <1>5
  <2>. QED
    BY <1>6, <2>1 DEF ClientCursors
<1> HIDE DEF first, last, items
<1>8. TypeOK'
  <2>1. size' \in 0..PageSize
    <3>1. size' = last - first
      BY <1>1, <1>3, Zenon
    <3>2. first \in Nat /\ last \in Nat /\ first <= last /\ last - first <= PageSize
      BY <1>3
    <3>. QED
      BY <3>1, <3>2, PageSizeAssumption
  <2>2. list' \in Seq(Items) /\ changes' \in 0..MaxChanges /\ limit' \in 1..200 /\ asked' \in Nat
    BY <1>1, <1>2 DEF WalkInv, TypeOK
  <2>. QED
    BY <1>1, <1>4, <1>5, <1>6, <1>7, <2>1, <2>2 DEF TypeOK
<1>9. CursorCounts'
  <2>1. NextCursor(asked + 1).kind = "next" /\ NextCursor(asked + 1).page = asked + 1
        /\ NoCursor.kind = "none"
    BY DEF NextCursor, NoCursor, Cursor
  <2>2. asked + 1 = 2 * Len(pages')
    BY <1>2, <1>5
  <2>. QED
    BY <1>6, <2>1, <2>2 DEF CursorCounts
<1>10. ASSUME changes = 0
       PROVE  /\ \A i \in DOMAIN delivered : delivered[i] <= first
              /\ \A i \in DOMAIN items : items[i] = first + i
  <2>1. \A i \in DOMAIN delivered : delivered[i] <= first
    BY <1>1, <1>2, <1>10 DEF WalkInv, QuietInv, first
  <2>2. \A i \in DOMAIN list : list[i] = i
    BY <1>10 DEF WalkInv, QuietInv
  <2>3. list \in Seq(Items)
    BY DEF WalkInv, TypeOK
  <2>4. ASSUME NEW i \in DOMAIN items PROVE items[i] = first + i
    <3>1. i \in 1..(last - first)
      BY <1>3
    <3>2. first + i \in DOMAIN list
      <4>1. first + i \in 1..Len(list)
        <5>1. first \in Nat /\ last \in Nat /\ last <= Len(list) /\ Len(list) \in Nat
          BY <1>3, <2>3
        <5>. QED
          BY <3>1, <5>1
      <4>. QED
        BY <2>3, <4>1
    <3>. QED
      BY <1>3, <2>2, <3>1, <3>2
  <2>. QED
    BY <2>1, <2>4
<1>11. QuietInv'
  <2> SUFFICES ASSUME changes = 0
               PROVE  /\ \A i \in DOMAIN list : list[i] = i
                      /\ QuietWalkInOrder'
                      /\ phase' # "ended" =>
                           \A i \in DOMAIN delivered' :
                             delivered'[i] <= (ParseCursor(cursor') - 1) * PageSize
    BY <1>1 DEF QuietInv, ParseCursor
  <2>1. \A i \in DOMAIN list : list[i] = i
    BY DEF WalkInv, QuietInv
  <2>2. \A i, j \in DOMAIN delivered : i < j => delivered[i] < delivered[j]
    BY DEF WalkInv, QuietInv, QuietWalkInOrder
  <2>3. /\ \A i \in DOMAIN delivered : delivered[i] <= first
        /\ \A i \in DOMAIN items : items[i] = first + i
    BY <1>10
  <2>4. \A i \in DOMAIN delivered : delivered[i] \in Nat
    <3>1. delivered \in Seq(Items)
      BY <1>4
    <3>2. Items \subseteq Nat
      BY BoundAssumption DEF Items
    <3>3. \A i \in DOMAIN delivered : delivered[i] \in Items
      BY <3>1
    <3>. QED
      BY <3>2, <3>3, Zenon
  <2>5. DOMAIN delivered = 1..Len(delivered) /\ DOMAIN delivered' = 1..Len(delivered')
        /\ DOMAIN items = 1..Len(items) /\ Len(items) \in Nat /\ Len(delivered) \in Nat
    BY <1>3, <1>4
  <2>6. ASSUME NEW i \in DOMAIN delivered', i > Len(delivered)
        PROVE  /\ delivered'[i] = first + (i - Len(delivered))
               /\ delivered'[i] <= last
    <3>1. i - Len(delivered) \in DOMAIN items
      BY <1>4, <2>5, <2>6
    <3>2. delivered'[i] = items[i - Len(delivered)]
      BY <1>4, <2>5, <2>6
    <3>3. i - Len(delivered) <= last - first
      BY <1>3, <2>5, <3>1
    <3>4. delivered'[i] = first + (i - Len(delivered))
      BY <2>3, <3>1, <3>2
    <3>. QED
      BY <1>3, <2>5, <3>3, <3>4
  <2>7. QuietWalkInOrder'
    <3> SUFFICES ASSUME NEW i \in DOMAIN delivered', NEW j \in DOMAIN delivered', i < j
                 PROVE  delivered'[i] < delivered'[j]
      BY DEF QuietWalkInOrder
    <3>1. CASE j <= Len(delivered)
      BY <1>4, <2>2, <2>5, <3>1
    <3>2. CASE i <= Len(delivered) /\ j > Len(delivered)
      <4>1. delivered'[i] \in Nat /\ delivered'[i] <= first
        BY <1>4, <2>3, <2>4, <2>5, <3>2
      <4>2. delivered'[j] = first + (j - Len(delivered))
        BY <2>6, <3>2
      <4>. QED
        BY <1>3, <2>5, <3>2, <4>1, <4>2
    <3>3. CASE i > Len(delivered)
      <4>1. j > Len(delivered)
        BY <2>5, <3>3
      <4>2. /\ delivered'[i] = first + (i - Len(delivered))
            /\ delivered'[j] = first + (j - Len(delivered))
        BY <2>6, <3>3, <4>1
      <4>. QED
        BY <1>3, <2>5, <4>2
    <3>. QED
      BY <2>5, <3>1, <3>2, <3>3
  <2>8. ASSUME phase' # "ended", NEW i \in DOMAIN delivered'
        PROVE  delivered'[i] <= (ParseCursor(cursor') - 1) * PageSize
    <3>1. ParseCursor(cursor') = asked + 2
      BY <1>2, <1>6, <2>8 DEF ParseCursor, NextCursor, Cursor
    <3>2. asked \in Nat /\ asked * PageSize \in Nat
      BY <1>2, PageSizeAssumption
    <3>3. delivered'[i] \in Nat /\ delivered'[i] <= last
      <4>1. CASE i <= Len(delivered)
        BY <1>3, <1>4, <2>3, <2>4, <2>5, <4>1
      <4>2. CASE i > Len(delivered)
        BY <1>3, <2>5, <2>6, <4>2
      <4>. QED
        BY <2>5, <4>1, <4>2
    <3>4. last \in Nat /\ last <= asked * PageSize
      BY <1>3
    <3>5. ASSUME NEW d \in Nat, NEW k \in Nat, d <= last, last <= k
          PROVE  d <= k + PageSize
      BY <3>4, <3>5, PageSizeAssumption
    <3>6. delivered'[i] <= asked * PageSize + PageSize
      BY <3>2, <3>3, <3>4, <3>5
    <3>7. ASSUME NEW page \in Nat, page = asked + 2
          PROVE  (page - 1) * PageSize = asked * PageSize + PageSize
      <4>1. page - 1 = asked + 1
        BY <3>2, <3>7
      <4>2. (asked + 1) * PageSize = asked * PageSize + PageSize
        BY <3>2, PageSizeAssumption
      <4>. QED
        BY <4>1, <4>2
    <3>8. ParseCursor(cursor') \in Nat
      BY <3>1, <3>2
    <3>. QED
      BY <3>1, <3>6, <3>7, <3>8
  <2>. QED
    BY <2>1, <2>7, <2>8
<1>. QED
  BY <1>8, <1>9, <1>11 DEF WalkInv

(* Every step keeps the invariant.                                         *)
LEMMA NextWalk == WalkInv /\ [Next]_vars => WalkInv'
<1> SUFFICES ASSUME WalkInv, [Next]_vars PROVE WalkInv'
  OBVIOUS
<1>1. AdvanceInv'
  BY NextAdvances DEF WalkInv
<1>2. CASE UNCHANGED vars
  <2>1. UNCHANGED <<list, changes, limit, phase, cursor, asked, pages, delivered, size,
                    status, failure>>
    BY <1>2 DEF vars, listVars, walkVars
  <2>2. TypeOK'
    BY <2>1, Zenon DEF WalkInv, TypeOK
  <2>3. CursorCounts'
    BY <2>1 DEF WalkInv, CursorCounts, ParseCursor
  <2>4. QuietInv'
    BY <2>1, Zenon DEF WalkInv, QuietInv, QuietWalkInOrder, ParseCursor
  <2>. QED
    BY <1>1, <2>2, <2>3, <2>4 DEF WalkInv
<1>3. CASE Next
  BY <1>1, <1>3, AskWalk, FailWalk, ChangeWalk, PageWalk DEF Next
<1>. QED
  BY <1>2, <1>3

(* The invariant holds throughout.                                         *)
THEOREM WalkInvariance == Spec => []WalkInv
  BY InitWalk, NextWalk, PTL DEF Spec

(* Every variable keeps its type: the list, the pages, the items.          *)
THEOREM TypeCorrect == Spec => []TypeOK
<1>1. WalkInv => TypeOK
  BY DEF WalkInv
<1>. QED
  BY WalkInvariance, <1>1, PTL

(* A walk over a list nobody changes delivers its items in their order,    *)
(* for every page size and every length of the list.                       *)
THEOREM QuietInOrder == Spec => []QuietWalkInOrder
<1>1. WalkInv => (changes = 0 => QuietWalkInOrder)
  BY DEF WalkInv, QuietInv
<1>2. (changes = 0 => QuietWalkInOrder) => QuietWalkInOrder
  BY DEF QuietWalkInOrder
<1>. QED
  BY WalkInvariance, <1>1, <1>2, PTL

(* A walk that ends has just been given the last item there is.            *)
THEOREM EndsAtTheEnd == Spec => EndsWithTheLastItem
<1>1. WalkInv /\ [Next]_vars =>
        [phase # "ended" /\ phase' = "ended" =>
           list = <<>> \/ (delivered' # <<>> /\ Last(delivered') = Last(list))]_vars
  <2> SUFFICES ASSUME WalkInv, Next, phase # "ended", phase' = "ended", list # <<>>
               PROVE  delivered' # <<>> /\ Last(delivered') = Last(list)
    OBVIOUS
  <2>1. AnswerPage
    BY DEF Next, Ask, AnswerNotFound, AnswerError, Fail, Retry, Insert, Delete, walkVars
  <2>2. /\ phase = "asked" /\ PageExists(asked)
        /\ delivered' = delivered \o PageItems(asked)
        /\ ~HasNext(asked)
        /\ asked \in Nat \ {0} /\ list \in Seq(Items) /\ delivered \in Seq(Items)
    <3>1. phase = "asked" /\ PageExists(asked) /\ delivered' = delivered \o PageItems(asked)
      BY <2>1 DEF AnswerPage
    <3>2. asked \in Nat \ {0} /\ list \in Seq(Items) /\ delivered \in Seq(Items)
      BY <3>1, CursorLeads DEF WalkInv, AdvanceInv, CursorCounts, TypeOK
    <3>3. cursor' = BuildCursor(asked, HasNext(asked)) /\ cursor' = NoCursor
      BY <2>1 DEF AnswerPage
    <3>4. ~HasNext(asked)
      BY <3>2, <3>3 DEF BuildCursor, NextCursor, NoCursor, Cursor
    <3>. QED
      BY <3>1, <3>2, <3>4
  <2> DEFINE first == (asked - 1) * PageSize
  <2>3. /\ first \in Nat /\ first < Len(list) /\ Len(list) \in Nat
        /\ PageItems(asked) \in Seq(Items)
        /\ Len(PageItems(asked)) = Len(list) - first
        /\ \A i \in 1..(Len(list) - first) : PageItems(asked)[i] = list[first + i]
    BY <2>2, PageSlice
  <2> HIDE DEF first
  <2>4. Len(list) - first \in 1..(Len(list) - first)
    BY <2>3
  <2>5. PageItems(asked)[Len(list) - first] = list[Len(list)]
    BY <2>3, <2>4
  <2>6. /\ Len(delivered') = Len(delivered) + (Len(list) - first)
        /\ Len(delivered) \in Nat
        /\ delivered'[Len(delivered')] = PageItems(asked)[Len(list) - first]
    <3> DEFINE items == PageItems(asked)
    <3>1. delivered' = delivered \o items /\ Len(items) = Len(list) - first
      BY <2>2, <2>3
    <3>2. delivered \in Seq(Items) /\ items \in Seq(Items) /\ Len(delivered) \in Nat
      BY <2>2, <2>3
    <3> HIDE DEF items
    <3>3. /\ Len(delivered') = Len(delivered) + Len(items)
          /\ \A i \in 1..(Len(delivered) + Len(items)) : delivered'[i] =
               IF i <= Len(delivered) THEN delivered[i] ELSE items[i - Len(delivered)]
      BY <3>1, <3>2, ConcatProperties
    <3>4. /\ Len(delivered') = Len(delivered) + (Len(list) - first)
          /\ delivered'[Len(delivered')] = items[Len(list) - first]
      BY <2>3, <3>1, <3>2, <3>3
    <3>. QED
      BY <3>2, <3>4 DEF items
  <2>7. delivered' # <<>>
    BY <2>3, <2>6
  <2>. QED
    BY <2>5, <2>6, <2>7 DEF Last
<1>. QED
  BY WalkInvariance, <1>1, PTL DEF Spec, EndsWithTheLastItem

-----------------------------------------------------------------------------
(***************************************************************************)
(* What a walk leaves out, for every page size.                            *)
(***************************************************************************)

(* The pages served are the odd ones, so that the first item of page 2 is  *)
(* not among what is delivered while nobody changes the list.              *)
OddPages == \A i \in DOMAIN pages : pages[i] = 2 * i - 1

SkipInv ==
  /\ OddPages
  /\ changes = 0 => \A i \in DOMAIN delivered : delivered[i] # PageSize + 1

(* The page that is asked for comes two after the last one served.         *)
LEMMA AskedIsOdd ==
  ASSUME WalkInv, phase = "asked"
  PROVE  asked = 2 * Len(pages) + 1 /\ Len(pages) \in Nat
<1>1. pages \in Seq(Nat) /\ CursorOK /\ asked = ParseCursor(cursor)
  BY DEF WalkInv, AdvanceInv
<1>2. CASE cursor.kind = "next"
  BY <1>1, <1>2 DEF WalkInv, CursorCounts, ParseCursor
<1>3. CASE cursor.kind # "next"
  BY <1>1, <1>3 DEF CursorOK, ParseCursor
<1>. QED
  BY <1>2, <1>3

(* On an unchanged list an odd page does not hold the item after page 1.   *)
LEMMA OddPageSkips ==
  ASSUME list \in Seq(Items), NEW n \in Nat, PageExists(2 * n + 1),
         \A i \in DOMAIN list : list[i] = i,
         NEW j \in DOMAIN PageItems(2 * n + 1)
  PROVE  PageItems(2 * n + 1)[j] # PageSize + 1
<1> DEFINE page == 2 * n + 1
           first == (page - 1) * PageSize
           last == IF HasNext(page) THEN page * PageSize ELSE Len(list)
<1>1. page \in Nat \ {0}
  OBVIOUS
<1>2. /\ first \in Nat /\ last \in Nat /\ last <= Len(list)
      /\ last - first <= PageSize
      /\ PageItems(page) \in Seq(Items)
      /\ Len(PageItems(page)) = last - first
      /\ \A i \in 1..(last - first) : PageItems(page)[i] = list[first + i]
  BY <1>1, PageSlice
<1>3. first = 0 \/ first >= 2 * PageSize
  <2>1. first = n * (2 * PageSize)
    BY PageSizeAssumption
  <2>2. n = 0 \/ \E k \in Nat : n = k + 1
    <3>1. n = 0 \/ (n - 1 \in Nat /\ n = (n - 1) + 1)
      OBVIOUS
    <3>. QED
      BY <3>1
  <2>3. \A k \in Nat : (k + 1) * (2 * PageSize) = k * (2 * PageSize) + 2 * PageSize
                       /\ k * (2 * PageSize) \in Nat
    BY PageSizeAssumption
  <2>. QED
    BY <2>1, <2>2, <2>3, PageSizeAssumption
<1> HIDE DEF first, last
<1>4. j \in 1..(last - first)
  BY <1>2
<1>5. first + j \in DOMAIN list
  BY <1>2, <1>4
<1>6. PageItems(page)[j] = first + j
  BY <1>2, <1>4, <1>5
<1>. QED
  BY <1>2, <1>3, <1>4, <1>6, PageSizeAssumption

(* A walk starts with nothing left out ...                                 *)
LEMMA InitSkips == Init => SkipInv
<1>1. Init => pages = <<>> /\ delivered = <<>>
  BY DEF Init
<1>2. DOMAIN <<>> = {}
  OBVIOUS
<1>. QED
  BY <1>1, <1>2, Zenon DEF SkipInv, OddPages

(* ... and every step of it keeps to the odd pages.                        *)
LEMMA NextSkips == WalkInv /\ SkipInv /\ [Next]_vars => SkipInv'
<1> SUFFICES ASSUME WalkInv, SkipInv, [Next]_vars PROVE SkipInv'
  OBVIOUS
<1>1. CASE AnswerPage
  <2>1. /\ phase = "asked" /\ PageExists(asked)
        /\ pages' = Append(pages, asked)
        /\ delivered' = delivered \o PageItems(asked)
        /\ changes' = changes
    BY <1>1 DEF AnswerPage, listVars
  <2>2. /\ asked = 2 * Len(pages) + 1 /\ Len(pages) \in Nat /\ pages \in Seq(Nat)
        /\ list \in Seq(Items) /\ delivered \in Seq(Items)
    BY <2>1, AskedIsOdd DEF WalkInv, TypeOK, AdvanceInv
  <2>3. OddPages'
    BY <2>1, <2>2 DEF SkipInv, OddPages
  <2>4. ASSUME changes = 0, NEW i \in DOMAIN delivered' PROVE delivered'[i] # PageSize + 1
    <3> DEFINE items == PageItems(2 * Len(pages) + 1)
    <3>1. \A k \in DOMAIN list : list[k] = k
      BY <2>4 DEF WalkInv, QuietInv
    <3>2. PageExists(2 * Len(pages) + 1) /\ delivered' = delivered \o items
      BY <2>1, <2>2
    <3>3. \A j \in DOMAIN items : items[j] # PageSize + 1
      BY <2>2, <3>1, <3>2, OddPageSkips
    <3>4. items \in Seq(Items)
      <4>1. 2 * Len(pages) + 1 \in Nat \ {0}
        BY <2>2
      <4>. QED
        BY <2>2, <3>2, <4>1, PageSlice
    <3>5. \A j \in DOMAIN delivered : delivered[j] # PageSize + 1
      BY <2>4 DEF SkipInv
    <3> HIDE DEF items
    <3>6. /\ Len(delivered \o items) = Len(delivered) + Len(items)
          /\ \A k \in 1..(Len(delivered) + Len(items)) : (delivered \o items)[k] =
               IF k <= Len(delivered) THEN delivered[k] ELSE items[k - Len(delivered)]
          /\ delivered \o items \in Seq(Items)
      BY <2>2, <3>4, ConcatProperties
    <3>7. i \in 1..(Len(delivered) + Len(items)) /\ Len(delivered) \in Nat /\ Len(items) \in Nat
      BY <2>2, <2>4, <3>2, <3>4, <3>6
    <3>8. CASE i <= Len(delivered)
      BY <2>2, <3>2, <3>5, <3>6, <3>7, <3>8
    <3>9. CASE i > Len(delivered)
      <4>1. i - Len(delivered) \in DOMAIN items
        BY <3>4, <3>7, <3>9
      <4>. QED
        BY <3>2, <3>3, <3>6, <3>7, <3>9, <4>1
    <3>. QED
      BY <3>7, <3>8, <3>9
  <2>. QED
    BY <2>1, <2>3, <2>4 DEF SkipInv
<1>2. CASE UNCHANGED <<pages, delivered, changes>>
  BY <1>2 DEF SkipInv, OddPages
<1>3. CASE Insert \/ Delete
  <2>1. changes' = changes + 1 /\ UNCHANGED walkVars
    BY <1>3, Zenon DEF Insert, Delete
  <2>2. changes \in 0..MaxChanges
    BY DEF WalkInv, TypeOK
  <2>3. changes' # 0
    BY <2>1, <2>2
  <2>. QED
    BY <2>1, <2>3 DEF walkVars, SkipInv, OddPages
<1>. QED
  BY <1>1, <1>2, <1>3
     DEF Next, Ask, AnswerNotFound, AnswerError, Fail, Retry, vars, listVars, walkVars

(* Every walk is served the odd pages and no others, whoever changes the   *)
(* list: the cursor names the page after the one served, and the handler   *)
(* asks for the one after that.                                            *)
THEOREM ServesOddPages == Spec => []OddPages
<1>1. Init => SkipInv
  BY InitSkips
<1>2. SkipInv => OddPages
  BY DEF SkipInv
<1>. QED
  BY <1>1, <1>2, NextSkips, WalkInvariance, PTL DEF Spec

NeverAllDelivered == changes = 0 /\ Len(list) > PageSize => delivered # list

(* A walk over a list of more than a page that nobody changes never        *)
(* delivers all of it, wherever it ends.                                   *)
THEOREM LongListNeverDelivered == Spec => []NeverAllDelivered
<1>1. Init => SkipInv
  BY InitSkips
<1>2. WalkInv /\ SkipInv => NeverAllDelivered
  <2> SUFFICES ASSUME WalkInv, SkipInv, changes = 0, Len(list) > PageSize, delivered = list
               PROVE  FALSE
    BY DEF NeverAllDelivered
  <2>1. list \in Seq(Items) /\ \A i \in DOMAIN list : list[i] = i
    BY DEF WalkInv, TypeOK, QuietInv
  <2>2. PageSize + 1 \in DOMAIN list
    BY <2>1, PageSizeAssumption
  <2>. QED
    BY <2>1, <2>2 DEF SkipInv
<1>. QED
  BY <1>1, <1>2, NextSkips, WalkInvariance, PTL DEF Spec

==============================================================================
