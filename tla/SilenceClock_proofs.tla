-------------------------- MODULE SilenceClock_proofs --------------------------
(***************************************************************************)
(* Proofs about SilenceClock for every length of a second, every longest   *)
(* Duration, every timeout, every lag and every end asked for.             *)
(***************************************************************************)
EXTENDS SilenceClock, TLAPS

Phases == Running \cup {"rejected", "failed", "answered"}

Types ==
  /\ now \in Nat /\ until \in Nat /\ deadline \in Nat
  /\ delay \in Nat /\ reported \in Nat /\ end \in Nat
  /\ phase \in Phases
  /\ wire \in {"none", "out", "back", "lost"}

(* Before the POST there is no silence, after it the delay reaches beyond  *)
(* until from any time on at which OnCall can serve it, but for less than  *)
(* a second, or is the longest one.                                        *)
DelayInv ==
  /\ phase \in {"start", "checked", "rejected"} => wire = "none" /\ end = 0
  /\ phase = "posting" => wire \in {"out", "back"}
  /\ phase \in {"responded", "answered"} => wire = "back"
  /\ wire = "out" => end = 0
  /\ wire # "none" => now + delay > until - Second \/ delay = LongestDelay
  /\ end # 0 => end > until - Second \/ delay = LongestDelay
  /\ end # 0 => end <= now + delay

(* A running handler has not passed its deadline, which says how long ago  *)
(* it computed its delay.                                                  *)
DeadlineInv ==
  /\ phase \in Running => now <= deadline
  /\ phase = "checked" => deadline <= until + Lag
  /\ phase = "posting" => deadline + delay <= until + Second + HTTPTimeout + Lag
  /\ phase = "posting" => deadline <= now + HTTPTimeout
  /\ phase = "posting" /\ end # 0 => end + HTTPTimeout >= deadline + delay
  /\ phase \in {"responded", "answered"} /\ end # 0 => end <= until + Second + HTTPTimeout + Lag
  /\ phase = "responded" /\ end # 0 => end + HTTPTimeout + Lag >= deadline + delay

IInv ==
  /\ Types /\ DelayInv /\ DeadlineInv
  /\ ReportedEndIsClose

-----------------------------------------------------------------------------
(* What time.Until returns is at most what is left, and at least a second  *)
(* if a second is left.                                                    *)
LEMMA UntilBounds ==
  ASSUME NEW left \in Int, left >= Second
  PROVE  /\ Until(left) \in Nat
         /\ Until(left) >= Second /\ Until(left) <= left
         /\ Until(left) = left \/ Until(left) = DurationMax
  BY ClockAssumption DEF Until

(* The delay is a second at least; it is less than a second shorter than   *)
(* the time that is left unless it is the longest one, and not longer than *)
(* that but for the first second.                                          *)
LEMMA DelayBounds ==
  ASSUME NEW left \in Int
  PROVE  /\ DelaySeconds(left) \in Nat
         /\ DelaySeconds(left) > left - Second \/ DelaySeconds(left) = LongestDelay
         /\ DelaySeconds(left) <= left \/ DelaySeconds(left) = Second
<1>1. Second \in Nat \ {0}
  BY ClockAssumption
<1>2. CASE left < Second
  BY <1>1, <1>2 DEF DelaySeconds
<1>3. CASE left >= Second
  <2>1. /\ Until(left) \in Nat
        /\ Until(left) >= Second /\ Until(left) <= left
        /\ Until(left) = left \/ Until(left) = DurationMax
    BY <1>3, UntilBounds
  <2>2. Until(left) % Second \in 0..(Second - 1)
    BY <1>1, <2>1
  <2>3. DelaySeconds(left) = Until(left) - (Until(left) % Second)
    BY <1>1, <1>3 DEF DelaySeconds
  <2>. QED
    BY <1>1, <1>3, <2>1, <2>2, <2>3 DEF LongestDelay
<1>. QED
  BY <1>1, <1>2, <1>3

(* The delay is a whole number of seconds.                                 *)
LEMMA DelayWhole == ASSUME NEW left \in Int PROVE DelaySeconds(left) % Second = 0
<1>1. Second \in Nat \ {0}
  BY ClockAssumption
<1>2. CASE left < Second
  BY <1>1, <1>2 DEF DelaySeconds
<1>3. CASE left >= Second
  <2> DEFINE u == Until(left)
  <2>1. \A q \in Nat : (Second * q) % Second = 0
    BY <1>1
  <2>2. u \in Nat
    BY <1>3, UntilBounds
  <2>3. DelaySeconds(left) = u - (u % Second)
    BY <1>1, <1>3 DEF DelaySeconds
  <2> HIDE DEF u
  <2>4. u \div Second \in Nat /\ u - (u % Second) = Second * (u \div Second)
    BY <1>1, <2>2
  <2>5. (Second * (u \div Second)) % Second = 0
    BY <2>1, <2>4
  <2>. QED
    BY <2>3, <2>4, <2>5
<1>. QED
  BY <1>1, <1>2, <1>3

(* The call arrives before anything is silenced.                           *)
LEMMA InitInv == Init => IInv
  BY ClockAssumption
     DEF Init, IInv, Types, Phases, Running, DelayInv, DeadlineInv, ReportedEndIsClose, Silenced

(* The handler's own steps.                                                *)
LEMMA HandlerInv ==
  IInv /\ (RejectPast \/ AcceptUntil \/ Post \/ Receive \/ Fail \/ Answer) => IInv'
<1> SUFFICES ASSUME IInv, RejectPast \/ AcceptUntil \/ Post \/ Receive \/ Fail \/ Answer
             PROVE  IInv'
  OBVIOUS
<1> USE ClockAssumption
    DEF IInv, Types, Phases, Running, DelayInv, DeadlineInv, ReportedEndIsClose, Silenced
<1>1. CASE RejectPast
  BY <1>1 DEF RejectPast
<1>2. CASE AcceptUntil
  BY <1>2 DEF AcceptUntil
<1>3. CASE Post
  <2>1. until - now \in Int
    OBVIOUS
  <2>2. /\ delay' \in Nat
        /\ delay' > until - now - Second \/ delay' = LongestDelay
        /\ delay' <= until - now \/ delay' = Second
    BY <1>3, <2>1, DelayBounds DEF Post
  <2>. QED
    BY <1>3, <2>2 DEF Post
<1>4. CASE Receive
  BY <1>4 DEF Receive
<1>5. CASE Fail
  BY <1>5 DEF Fail
<1>6. CASE Answer
  BY <1>6 DEF Answer
<1>. QED
  BY <1>1, <1>2, <1>3, <1>4, <1>5, <1>6

(* What OnCall does, and the clock.                                        *)
LEMMA OutsideInv == IInv /\ (Silence \/ Refuse \/ Tick) => IInv'
<1> SUFFICES ASSUME IInv, Silence \/ Refuse \/ Tick PROVE IInv'
  OBVIOUS
<1> USE ClockAssumption
    DEF IInv, Types, Phases, Running, DelayInv, DeadlineInv, ReportedEndIsClose, Silenced
<1>1. CASE Silence
  BY <1>1 DEF Silence
<1>2. CASE Refuse
  BY <1>2 DEF Refuse
<1>3. CASE Tick
  BY <1>3 DEF Tick
<1>. QED
  BY <1>1, <1>2, <1>3

(* Every step keeps the invariant.                                         *)
LEMMA NextInv == IInv /\ [Next]_vars => IInv'
<1> SUFFICES ASSUME IInv, [Next]_vars PROVE IInv'
  OBVIOUS
<1>1. CASE UNCHANGED vars
  BY <1>1 DEF vars, IInv, Types, DelayInv, LongestDelay, DeadlineInv, ReportedEndIsClose, Silenced
<1>. QED
  BY <1>1, HandlerInv, OutsideInv DEF Next

(* The invariant holds in every reachable state.                           *)
THEOREM Invariance == Spec => []IInv
  BY InitInv, NextInv, PTL DEF Spec

(* Every variable keeps its type: what is sent is a whole number of        *)
(* seconds, 0 before.                                                      *)
THEOREM TypeCorrect == Spec => []TypeOK
<1> DEFINE Whole == delay % Second = 0
<1>1. Init => Whole
  BY ClockAssumption DEF Init
<1>2. IInv /\ Whole /\ [Next]_vars => Whole'
  <2> SUFFICES ASSUME IInv, Whole, [Next]_vars PROVE Whole'
    OBVIOUS
  <2>1. CASE Post
    <3>1. until - now \in Int
      BY DEF IInv, Types
    <3>2. delay' = DelaySeconds(until - now)
      BY <2>1 DEF Post
    <3>. QED
      BY <3>1, <3>2, DelayWhole
  <2>2. CASE UNCHANGED delay
    BY <2>2
  <2>3. Post \/ UNCHANGED delay
    BY DEF Next, RejectPast, AcceptUntil, Receive, Fail, Answer, Silence, Refuse, Tick, vars
  <2>. QED
    BY <2>1, <2>2, <2>3
<1>3. IInv /\ Whole => TypeOK
  BY DEF IInv, Types, Phases, TypeOK
<1>. QED
  BY <1>1, <1>2, <1>3, Invariance, PTL DEF Spec

(* A silence is never a second or more shorter than asked for, unless it   *)
(* lasts as long as a Duration can.                                        *)
THEOREM NotCutShort == Spec => []NeverCutShort
<1>1. IInv => NeverCutShort
  BY DEF IInv, DelayInv, NeverCutShort, Silenced
<1>. QED
  BY <1>1, Invariance, PTL

(* An answered call overruns by its own duration and a second at most.     *)
THEOREM OverrunIsBounded == Spec => []OverrunBounded
<1>1. IInv => OverrunBounded
  BY DEF IInv, DeadlineInv, OverrunBounded, Silenced
<1>. QED
  BY <1>1, Invariance, PTL

(* silenced_until is the end in OnCall or shortly after it.                *)
THEOREM ReportIsClose == Spec => []ReportedEndIsClose
<1>1. IInv => ReportedEndIsClose
  BY DEF IInv
<1>. QED
  BY <1>1, Invariance, PTL

================================================================================
