----------------------------- MODULE SilenceClock -----------------------------
(***************************************************************************)
(* The times of one silence_alert_group call                               *)
(* (internal/tools/alert_groups_write.go).  The handler reads the clock    *)
(* three times: to check that "until" is in the future, to compute the     *)
(* delay it sends, and for the performed_at and silenced_until it reports. *)
(* OnCall counts the delay from when it serves the POST.                   *)
(*                                                                         *)
(*     start --> checked --> posting --> responded --> answered            *)
(*       `--> rejected          `--> failed                                *)
(*                                                                         *)
(* What else becomes of a write is in AlertGroupWrites.  Mutant...         *)
(* definitions are faulty variants not used.                               *)
(***************************************************************************)
EXTENDS Integers

CONSTANTS
  Second,       \* ticks of the clock in a second
  DurationMax,  \* ticks of the longest time.Duration, some 292 years
  HTTPTimeout,  \* ticks http.Client waits for a response
  Lag,          \* ticks a handler that can go on may be kept waiting
  Latest        \* bound on the clock and on until

ASSUME ClockAssumption ==
  /\ Second \in Nat \ {0}
  /\ DurationMax \in Nat /\ DurationMax >= Second
  /\ HTTPTimeout \in Nat \ {0}
  /\ Lag \in Nat /\ Latest \in Nat

VARIABLES
  now,       \* the clock, the same here and in OnCall
  until,     \* the argument
  phase,     \* where the handler is
  deadline,  \* when it goes on at the latest
  delay,     \* the delay it sends, in ticks, 0 before
  reported,  \* silenced_until
  wire,      \* where the POST is
  end        \* when the silence ends in OnCall, 0 before it begins

vars == <<now, until, phase, deadline, delay, reported, wire, end>>

(* The state the handler can leave at any time has a deadline.             *)
Running == {"start", "checked", "posting", "responded"}

-----------------------------------------------------------------------------
(* time.Until: what does not fit a Duration becomes the longest one.       *)
Until(left) == IF left > DurationMax THEN DurationMax ELSE left

(* int(time.Until(until).Seconds()), at least one second.                  *)
MutantDelayTicks(left) == IF left < Second THEN Second ELSE Until(left)
MutantDelaySeconds(left) ==
  IF left < Second THEN Second ELSE Until(left) - (Until(left) % Second) - Second
DelaySeconds(left) ==
  IF left < Second THEN Second ELSE Until(left) - (Until(left) % Second)

-----------------------------------------------------------------------------
Init ==
  /\ now \in 0..Latest
  /\ until \in 0..Latest
  /\ phase = "start"
  /\ deadline = now + Lag
  /\ delay = 0
  /\ reported = 0
  /\ wire = "none"
  /\ end = 0

(* until.Before(time.Now()): the present counts as the future.             *)
RejectPast ==
  /\ phase = "start"
  /\ until < now
  /\ phase' = "rejected"
  /\ UNCHANGED <<now, until, deadline, delay, reported, wire, end>>

MutantAcceptUntil ==
  /\ phase = "start"
  /\ phase' = "checked"
  /\ deadline' = now + Lag
  /\ UNCHANGED <<now, until, delay, reported, wire, end>>
AcceptUntil ==
  /\ phase = "start"
  /\ until >= now
  /\ phase' = "checked"
  /\ deadline' = now + Lag
  /\ UNCHANGED <<now, until, delay, reported, wire, end>>

(* The second reading, and the POST.                                       *)
Post ==
  /\ phase = "checked"
  /\ delay' = DelaySeconds(until - now)
  /\ phase' = "posting"
  /\ wire' = "out"
  /\ deadline' = now + HTTPTimeout
  /\ UNCHANGED <<now, until, reported, end>>

Receive ==
  /\ phase = "posting"
  /\ wire = "back"
  /\ phase' = "responded"
  /\ deadline' = now + Lag
  /\ UNCHANGED <<now, until, delay, reported, wire, end>>

(* http.Client.Timeout, or no response for another reason; the POST may    *)
(* still be on its way.                                                    *)
Fail ==
  /\ phase = "posting"
  /\ phase' = "failed"
  /\ wire' \in {wire, "lost"}
  /\ UNCHANGED <<now, until, deadline, delay, reported, end>>

(* performWrite3, the third reading.                                       *)
MutantAnswer ==
  /\ phase = "responded"
  /\ reported' = IF until > now THEN until ELSE now
  /\ phase' = "answered"
  /\ UNCHANGED <<now, until, deadline, delay, wire, end>>
Answer ==
  /\ phase = "responded"
  /\ reported' = now + delay
  /\ phase' = "answered"
  /\ UNCHANGED <<now, until, deadline, delay, wire, end>>

(* External: OnCall silences the group, or answers without doing it.       *)
Silence ==
  /\ wire = "out"
  /\ end' = now + delay
  /\ wire' = "back"
  /\ UNCHANGED <<now, until, phase, deadline, delay, reported>>

Refuse ==
  /\ wire = "out"
  /\ wire' = "back"
  /\ UNCHANGED <<now, until, phase, deadline, delay, reported, end>>

(* Time goes on; a handler that can go on is not kept waiting for longer   *)
(* than Lag, and the HTTP timer fires.                                     *)
Tick ==
  /\ now < Latest
  /\ phase \in Running => now < deadline
  /\ now' = now + 1
  /\ UNCHANGED <<until, phase, deadline, delay, reported, wire, end>>

Next ==
  \/ RejectPast \/ AcceptUntil \/ Post \/ Receive \/ Fail \/ Answer
  \/ Silence \/ Refuse \/ Tick

Spec == Init /\ [][Next]_vars

-----------------------------------------------------------------------------
(***************************************************************************)
(* Properties.                                                             *)
(***************************************************************************)
TypeOK ==
  /\ now \in Nat /\ until \in Nat /\ deadline \in Nat
  /\ phase \in Running \cup {"rejected", "failed", "answered"}
  /\ delay \in Nat /\ delay % Second = 0
  /\ reported \in Nat
  /\ wire \in {"none", "out", "back", "lost"}
  /\ end \in Nat

Silenced == end # 0

(* The silence is never a second or more shorter than what was asked for,  *)
(* however the readings and the POST are delayed: the delay is cut to      *)
(* whole seconds only once.  Only an end centuries away is brought forward *)
(* to the longest delay a Duration can hold (alert_groups_write.go:111).   *)
LongestDelay == DurationMax - (DurationMax % Second)
NeverCutShort == Silenced => end > until - Second \/ delay = LongestDelay

(* An answered call silences the group for longer than asked for by no     *)
(* more than its own duration and a second; one that was given up may be   *)
(* carried out at any later time, and then has no such bound.              *)
OverrunBounded ==
  Silenced /\ phase \in {"responded", "answered"} =>
    end <= until + Second + HTTPTimeout + Lag

(* silenced_until is never before the group is alerting again, and after   *)
(* that by no more than the response took.                                 *)
ReportedEndIsClose ==
  Silenced /\ phase = "answered" => reported >= end /\ reported <= end + HTTPTimeout + Lag

==============================================================================
