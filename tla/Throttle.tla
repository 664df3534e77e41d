------------------------------ MODULE Throttle ------------------------------
(***************************************************************************)
(* The bandwidth cap: the share of each connection (download.c) and the    *)
(* sleep with which a connection keeps to it (connection.c).  Times are in *)
(* tenths of a second.  A connection is [busy, rate, limit]: is it         *)
(* DOWNLOADING, rate_bps, and its max_allowed_bps; 0 is no limit.          *)
(***************************************************************************)
EXTENDS Integers, FiniteSets, Functions

Second == 10

(* connection_calc_ratebps: began is None before the first connection. *)
None == -1
CalcRate(began, now, bytes) ==
  IF began = None \/ now - began < 1 THEN 0 ELSE (bytes * Second) \div (now - began)

Busy(cons) == {c \in DOMAIN cons : cons[c].busy}
Rates(cons) == [c \in DOMAIN cons |-> cons[c].rate]
Limits(cons) == [c \in DOMAIN cons |-> cons[c].limit]

Slow(cons, avg) == {c \in Busy(cons) : cons[c].rate < avg}
Fast(cons, avg) == Busy(cons) \ Slow(cons, avg)

Unlimited(cons) == [c \in DOMAIN cons |-> [cons[c] EXCEPT !.limit = 0]]

(* MUTANT of HighRate: what the slow connections use is not subtracted. *)
HighRateOfAll(cap, slowRates, fast) == cap \div fast

(* limit_high_cons_rate: what the slow ones leave is shared by the others. *)
HighRate(cap, slowRates, fast) == (cap - slowRates) \div fast

(* download_calc_throttle_factor.  The connections run on while it looks   *)
(* at them one after the other, three times: to count them (counted), to   *)
(* find the slow ones (seen), and to set the limits of the others (now).   *)
CalcThrottleFactor(cap, counted, seen, now) ==
  LET n    == Cardinality(Busy(counted))
      avg  == cap \div n
      slow == Slow(seen, avg)
      high == HighRate(cap, SumFunctionOnSet(Rates(seen), slow), n - Cardinality(slow))
  IN CASE n = 0 -> now
       [] n > 0 /\ (cap = 0 \/ Cardinality(slow) >= n) -> Unlimited(now)
       [] OTHER -> [c \in DOMAIN now |->
                      IF c \in Fast(now, avg) THEN [now[c] EXCEPT !.limit = high] ELSE now[c]]

(* connection_throttle_bps: how long the connection sleeps.  It may not    *)
(* sleep into its own timeout.                                             *)
ThrottleBps(rate, limit, began, now, bytes, timeout) ==
  LET delay == (bytes * Second) \div limit - (now - began)
  IN IF rate = 0 \/ limit = 0 \/ began = None \/ now = began \/ delay <= 0 THEN 0
     ELSE IF delay <= timeout THEN delay
     ELSE IF timeout > 2 * Second THEN timeout - 2 * Second ELSE 0

(* The receive routines measure and then sleep. *)
Received(limit, began, now, bytes, timeout) ==
  ThrottleBps(CalcRate(began, now, bytes), limit, began, now, bytes, timeout)

-----------------------------------------------------------------------------
(***************************************************************************)
(* What a cap promises.                                                    *)
(***************************************************************************)

(* A limit that was set is at least a fair share of the cap, whatever the  *)
(* connections did meanwhile; and if they stood still, those that got one  *)
(* may use, with what the slow ones use, no more than the cap.             *)
SharesCap(cap, counted, seen, now, got) ==
  LET n     == Cardinality(Busy(counted))
      fair  == cap \div n
      given == Fast(now, fair)
  IN n > 0 /\ cap >= n =>
       \/ got = Unlimited(now) /\ Cardinality(Slow(seen, fair)) >= n
       \/ /\ \A c \in given : got[c].limit >= fair
          /\ \A c \in DOMAIN got \ given : got[c] = now[c]
          /\ counted = seen /\ seen = now =>
               SumFunctionOnSet(Limits(got), given) + SumFunctionOnSet(Rates(now), Slow(now, fair)) <= cap

(* A connection that has slept is within its limit, but for the rounding   *)
(* of a tenth of a second, or would not have woken before its timeout; and *)
(* it does wake before.                                                    *)
KeepsTo(limit, began, now, bytes, timeout, slept) ==
  /\ slept >= 0 /\ slept <= timeout
  /\ \/ limit = 0 \/ began = None \/ now = began
     \/ bytes * Second < (now - began + slept + 1) * limit
     \/ /\ bytes * Second > (now - began + timeout) * limit
        /\ slept = IF timeout > 2 * Second THEN timeout - 2 * Second ELSE 0
=============================================================================
