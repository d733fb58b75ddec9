----------------------------- MODULE RateLimit -----------------------------
(***************************************************************************)
(* The leaky bucket that paces the requests of one key, in one process:    *)
(* several tasks acquire from it under a lock, one of them may sleep while *)
(* it holds the lock, and answers lower the bucket at any moment, also     *)
(* during that sleep.                                                      *)
(*                                                                         *)
(* Time is a number of ticks. A tick refills one unit and a request costs  *)
(* TokenUnits of them, so the configured rate is a request every           *)
(* TokenUnits ticks and the burst is Capacity requests.                    *)
(***************************************************************************)
EXTENDS Naturals, Sequences

CONSTANTS
  Senders,     \* tasks that send with this key
  Capacity,    \* burst, at least one
  TokenUnits,  \* ticks it takes to refill one token
  MaxClock     \* bound: ticks

ASSUME CapacityAssumption == Capacity \in Nat \ {0}
ASSUME UnitsAssumption == TokenUnits \in Nat \ {0}
ASSUME ClockAssumption == MaxClock \in Nat

VARIABLES
  clock,   \* time.monotonic
  bucket,  \* tokens, in units, and the moment they were counted
  wakes,   \* when each task that sleeps in acquire goes on; 0 for the others
  sent     \* the moment of every request that was let through

rateVars == << clock, bucket, wakes, sent >>

Full == Capacity * TokenUnits

\* Type invariant: the bucket is never overfull nor in debt.
RateTypeOK ==
  /\ clock \in 0 .. MaxClock
  /\ bucket \in [tokens: 0 .. Full, at: 0 .. MaxClock] /\ bucket.at <= clock
  /\ wakes \in [Senders -> Nat]
  /\ sent \in Seq(0 .. MaxClock)

\* bucket: a key that has not been used has its whole burst.
RateInit ==
  /\ clock = 0
  /\ bucket = [tokens |-> Full, at |-> 0]
  /\ wakes = [w \in Senders |-> 0]
  /\ sent = << >>

RateTick ==
  /\ clock < MaxClock
  /\ clock' = clock + 1
  /\ UNCHANGED << bucket, wakes, sent >>

\* Mutation: every task looks at the bucket for itself.
LockOpenAlways == TRUE

\* The lock of the key is held by the task that sleeps.
LockOpen == \A w \in Senders : wakes[w] = 0

\* _refill, without and with the moment it is counted at.
Level == LET grown == bucket.tokens + (clock - bucket.at)
         IN IF grown <= Full THEN grown ELSE Full
Refilled == [tokens |-> Level, at |-> clock]

\* take: a token that is not there, because an answer has lowered the bucket
\* during the sleep, is not owed.
Take ==
  /\ bucket' = [tokens |-> IF Level >= TokenUnits THEN Level - TokenUnits ELSE 0, at |-> clock]
  /\ sent' = Append(sent, clock)

\* acquire, with a token at hand.
Acquires(w) ==
  /\ wakes[w] = 0 /\ LockOpen /\ Level >= TokenUnits
  /\ Take
  /\ UNCHANGED << clock, wakes >>

\* acquire, without: the task sleeps until the token it lacks has come, with
\* the lock in its hand.
Sleeps(w) ==
  /\ wakes[w] = 0 /\ LockOpen /\ Level < TokenUnits
  /\ bucket' = Refilled
  /\ wakes' = [wakes EXCEPT ![w] = clock + (TokenUnits - Level)]
  /\ UNCHANGED << clock, sent >>

\* A sleep lasts at least as long as it was asked to. The bucket is not looked
\* at again.
Wakes(w) ==
  /\ wakes[w] # 0 /\ clock >= wakes[w]
  /\ Take
  /\ wakes' = [wakes EXCEPT ![w] = 0]
  /\ UNCHANGED clock

\* A Stop or a timeout of the node cancels the task in its sleep.
GivesUp(w) ==
  /\ wakes[w] # 0
  /\ wakes' = [wakes EXCEPT ![w] = 0]
  /\ UNCHANGED << clock, bucket, sent >>

\* observe: what an answer says is left, believed when it is less. The moment
\* the tokens were counted at stays.
Corrects(left) ==
  /\ sent # << >> /\ left < bucket.tokens
  /\ bucket' = [bucket EXCEPT !.tokens = left]
  /\ UNCHANGED << clock, wakes, sent >>

RateNext ==
  \/ RateTick
  \/ \E w \in Senders : Acquires(w) \/ Sleeps(w) \/ Wakes(w) \/ GivesUp(w)
  \/ \E left \in 0 .. Full : Corrects(left)

RateSpec == RateInit /\ [][RateNext]_rateVars

-----------------------------------------------------------------------------
(* Properties.                                                             *)

\* However many tasks share the key, and whatever answers, late wake-ups and
\* cancelled sleeps do to the bucket: in any stretch of time no more requests go
\* out than the burst and what the configured rate adds to it.
WithinAllowance ==
  \A i, j \in DOMAIN sent :
    i <= j => (j - i + 1) * TokenUnits <= Full + (sent[j] - sent[i])
=============================================================================
