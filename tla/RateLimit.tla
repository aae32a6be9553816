------------------------------ MODULE RateLimit ------------------------------
(***************************************************************************)
(* The rate limit of check_rate_limit: one bucket per subject, counting    *)
(* requests in a window that starts with the first request and is replaced *)
(* by the first request Window seconds later.  A mutex makes the update    *)
(* one step; the time has been read before the mutex was taken.            *)
(***************************************************************************)
EXTENDS Integers, Sequences, FiniteSets

CONSTANTS Thread,  \* request threads
          Subject, \* subjects of tokens
          NoSubject, \* a thread that is not checking anybody
          Window,  \* 60 seconds
          Limit,   \* rate_limit_per_min; 0 is no limit
          Delay,   \* seconds that may pass between reading the time and the mutex
          MaxTime, \* bound: seconds
          MaxCalls \* bound: requests

ASSUME RateAssumption ==
  /\ NoSubject \notin Subject
  /\ Window \in Nat \ {0}
  /\ Delay <= Window
  /\ {Limit, Delay, MaxTime, MaxCalls} \subseteq Nat

VARIABLES clock,
          bucket,  \* [Subject -> [start, count]]; NoBucket before the first request
          pending, \* [Thread -> [sub, now]]: time read, mutex not yet taken
          passed,  \* [Subject -> Seq(second)]: when its requests were let through
          calls

rateVars == <<clock, bucket, pending, passed, calls>>

Quiet == [sub |-> NoSubject, now |-> 0]

NoBucket == [start |-> -1, count |-> 0]

RateInit ==
  /\ clock = 0
  /\ bucket = [s \in Subject |-> NoBucket]
  /\ pending = [t \in Thread |-> Quiet]
  /\ passed = [s \in Subject |-> <<>>]
  /\ calls = 0

ReadTime(t, s) ==
  /\ pending[t] = Quiet
  /\ calls < MaxCalls
  /\ calls' = calls + 1
  /\ pending' = [pending EXCEPT ![t] = [sub |-> s, now |-> clock]]
  /\ UNCHANGED <<clock, bucket, passed>>

(* Is there no bucket yet, or has its window ended by the time now? *)
Renews(b, now) == b = NoBucket \/ now - b.start >= Window

Count(b, now) ==
  IF Renews(b, now) THEN [start |-> now, count |-> 1] ELSE [b EXCEPT !.count = @ + 1]

(* Mutants: the count before this request; >= for >. *)
BlockedLate(b) == b.count - 1 > Limit

BlockedEarly(b) == b.count >= Limit

Blocked(b) == b.count > Limit

(* The locked part of check_rate_limit; with no limit it is not reached. *)
Admit(t) ==
  LET s == pending[t].sub
      b == IF Limit = 0 THEN NoBucket ELSE Count(bucket[s], pending[t].now)
  IN /\ pending[t] # Quiet
     /\ bucket' = [bucket EXCEPT ![s] = b]
     /\ passed' = IF Blocked(b) THEN passed ELSE [passed EXCEPT ![s] = Append(@, clock)]
     /\ pending' = [pending EXCEPT ![t] = Quiet]
     /\ UNCHANGED <<clock, calls>>

Tick ==
  /\ clock < MaxTime
  /\ \A t \in Thread : pending[t] # Quiet => clock - pending[t].now < Delay
  /\ clock' = clock + 1
  /\ UNCHANGED <<bucket, pending, passed, calls>>

RateNext ==
  \/ \E t \in Thread : Admit(t) \/ \E s \in Subject : ReadTime(t, s)
  \/ Tick

RateSpec == RateInit /\ [][RateNext]_rateVars

-----------------------------------------------------------------------------
(* A bucket counts requests from a second on; a thread that has read the    *)
(* time has a subject to check.                                             *)
RateTypeOK ==
  /\ clock \in 0 .. MaxTime
  /\ bucket \in [Subject -> [start : -1 .. MaxTime, count : Nat]]
  /\ pending \in [Thread -> {Quiet} \cup [sub : Subject, now : 0 .. MaxTime]]
  /\ passed \in [Subject -> Seq(0 .. MaxTime)]
  /\ calls \in 0 .. MaxCalls

(* Requests of s let through in the seconds from .. to. *)
PassedBetween(s, from, to) ==
  Cardinality({i \in DOMAIN passed[s] : from <= passed[s][i] /\ passed[s][i] <= to})

(* docs/capabilities.md:77 promises a "sliding window".  The code's windows *)
(* are fixed and guarantee less: any Window seconds meet at most two of     *)
(* them, or three when a thread may take the mutex later than it has read   *)
(* the time and so count into a window that is already over.                *)
BurstBound ==
  \A s \in Subject, x \in 0 .. MaxTime :
    Limit > 0 => PassedBetween(s, x, x + Window - 1)
                   <= (IF Delay = 0 THEN 2 ELSE 3) * Limit

(* A subject is refused only after it has used its limit up: a bucket over  *)
(* the limit belongs to a subject with Limit requests let through since the *)
(* window began, whoever else was refused and however late they came.       *)
RefusedOnlyOverLimit ==
  \A s \in Subject :
    Limit > 0 /\ Blocked(bucket[s]) =>
      PassedBetween(s, bucket[s].start, clock) >= Limit
==============================================================================
