---------------------------- MODULE InputsProofs ----------------------------
(***************************************************************************)
(* Theorems about Inputs: that answers are read whole, an account is       *)
(* found, mirrors are listed, the bandwidth cap is shared out, and the     *)
(* preferences and the options are obeyed, whatever was sent, is in a file *)
(* or on the command line.  The lines of a file, options and connections   *)
(* are read by folds: what a fold yields is the last of the states that    *)
(* Folding gives it, and an invariant of these states, by induction on     *)
(* their number, says what has been read.                                  *)
(***************************************************************************)
EXTENDS AnswersProofs

-----------------------------------------------------------------------------
(***************************************************************************)
(* The bandwidth cap.                                                      *)
(***************************************************************************)

(* What C's division of a count by a positive number yields.               *)
LEMMA Quotient ==
  ASSUME NEW a \in Nat, NEW b \in Nat \ {0}
  PROVE  a \div b \in Nat /\ b * (a \div b) <= a /\ a < b * (a \div b) + b
  BY SMT

(* A product grows with its factor.                                        *)
LEMMA Grows ==
  ASSUME NEW k \in Nat, NEW a \in Int, NEW b \in Int, a <= b
  PROVE  k * a <= k * b /\ k * a \in Int /\ k * b \in Int
<1>1. PICK d \in Nat : b = a + d
  <2>1. b - a \in Nat /\ b = a + (b - a)
    OBVIOUS
  <2> QED
    BY <2>1
<1>2. k * b = k * a + k * d
  BY <1>1, SMT
<1>3. k * d \in Nat /\ k * a \in Int
  BY <1>1, SMT
<1> QED
  BY <1>2, <1>3, <1>1

(* A connection that has measured its rate and slept is within its limit,  *)
(* but for the rounding of a tenth of a second, unless the sleep would     *)
(* have outlasted its timeout; and it always wakes before that: whatever   *)
(* the limit, the bytes received, the times and the timeout.               *)
LEMMA SleepsEnough ==
  ASSUME NEW limit \in Nat, NEW bytes \in Nat, NEW timeout \in Nat,
         NEW began \in Int, NEW now \in Int, began = T!None \/ began <= now
  PROVE  T!KeepsTo(limit, began, now, bytes, timeout, T!Received(limit, began, now, bytes, timeout))
<1> DEFINE slept == T!Received(limit, began, now, bytes, timeout)
           spent == now - began
           total == bytes * T!Second
           rate  == T!CalcRate(began, now, bytes)
           delay == total \div limit - spent
           capped == IF timeout > 2 * T!Second THEN timeout - 2 * T!Second ELSE 0
<1>1. total \in Nat /\ capped \in Nat /\ capped <= timeout /\ 0 <= timeout
  BY DEF T!Second
<1>2. CASE limit = 0 \/ began = T!None \/ now = began
  <2>1. slept = 0
    BY <1>2 DEF T!Received, T!ThrottleBps
  <2> QED
    BY <1>1, <1>2, <2>1 DEF T!KeepsTo
<1>3. CASE limit # 0 /\ began # T!None /\ now # began
  <2>1. limit \in Nat \ {0} /\ spent \in Nat \ {0}
    BY <1>3
  <2>2. slept = IF rate = 0 \/ delay <= 0 THEN 0 ELSE IF delay <= timeout THEN delay ELSE capped
    BY <1>3 DEF T!Received, T!ThrottleBps
  <2>3. rate = total \div spent
    BY <1>3, <2>1 DEF T!CalcRate
  <2> SUFFICES T!KeepsTo(limit, began, now, bytes, timeout, slept)
    OBVIOUS
  <2> HIDE DEF total, capped, rate, slept
  <2>4. PICK q \in Nat : q = total \div limit /\ limit * q <= total /\ total < limit * q + limit
    BY <1>1, <2>1, Quotient
  <2>5. limit * (q + 1) = limit * q + limit /\ total < limit * (q + 1)
    BY <2>1, <2>4, SMT
  <2> DEFINE Within(s) == total < (spent + s + 1) * limit
  <2>6. CASE rate = 0
    <3>1. total < spent * 0 + spent
      BY <1>1, <2>1, <2>3, <2>6, Quotient
    <3>2. spent + 1 <= limit * (spent + 1)
      <4>1. (spent + 1) * 1 <= (spent + 1) * limit
        BY <2>1, Grows
      <4> QED
        BY <2>1, <4>1, SMT
    <3>3. Within(0)
      BY <1>1, <2>1, <3>1, <3>2, SMT
    <3> QED
      BY <1>1, <2>2, <2>6, <3>3 DEF T!KeepsTo, total
  <2>7. CASE rate # 0 /\ delay <= 0
    <3>1. limit * (q + 1) <= limit * (spent + 1)
      BY <2>1, <2>4, <2>7, Grows
    <3>2. Within(0)
      BY <1>1, <2>1, <2>4, <2>5, <3>1, SMT
    <3> QED
      BY <1>1, <2>2, <2>7, <3>2 DEF T!KeepsTo, total
  <2>8. CASE rate # 0 /\ delay > 0 /\ delay <= timeout
    <3>1. slept = delay /\ delay = q - spent /\ spent + delay + 1 = q + 1
      BY <2>1, <2>2, <2>4, <2>8
    <3>2. Within(delay)
      BY <2>1, <2>4, <2>5, <3>1, SMT
    <3> QED
      BY <1>1, <2>8, <3>1, <3>2 DEF T!KeepsTo, total
  <2>9. CASE rate # 0 /\ delay > timeout
    <3>1. slept = capped
      BY <1>1, <2>1, <2>2, <2>4, <2>9
    <3>2. limit * (spent + timeout + 1) <= limit * q
      BY <2>1, <2>4, <2>9, Grows
    <3>3. total > (spent + timeout) * limit
      BY <1>1, <2>1, <2>4, <3>2, SMT
    <3> QED
      BY <1>1, <3>1, <3>3 DEF T!KeepsTo, total, capped
  <2>10. delay \in Int
    BY <2>1, <2>4
  <2> QED
    BY <2>6, <2>7, <2>8, <2>9, <2>10
<1> QED
  BY <1>2, <1>3

(* A product with a sum.                                                   *)
LEMMA Splits ==
  ASSUME NEW k \in Int, NEW a \in Int, NEW b \in Int
  PROVE  (a + b) * k = a * k + b * k
  BY SMT

(* The limit that download_calc_throttle_factor sets: of n connections     *)
(* slow ones are below the average share and use slowRates together (each  *)
(* less than the average, hence the bound).  Each of the others is given   *)
(* at least the average, and all together stay within the cap.             *)
LEMMA ShareIsFair ==
  ASSUME NEW cap \in Nat, NEW n \in Nat \ {0}, NEW slow \in 0 .. (n - 1),
         NEW slowRates \in Nat, slowRates <= slow * (cap \div n)
  PROVE  LET high == T!HighRate(cap, slowRates, n - slow)
         IN  high >= cap \div n /\ slowRates + (n - slow) * high <= cap
<1>1. PICK avg \in Nat : avg = cap \div n /\ n * avg <= cap
  BY Quotient
<1>2. PICK fast \in Nat \ {0} : fast = n - slow /\ n = slow + fast
  <2>1. n - slow \in Nat \ {0} /\ n = slow + (n - slow)
    OBVIOUS
  <2> QED
    BY <2>1
<1>3. n * avg = slow * avg + fast * avg
  <2>1. slow \in Int /\ fast \in Int /\ avg \in Int /\ n = slow + fast
    BY <1>1, <1>2
  <2>2. (slow + fast) * avg = slow * avg + fast * avg
    BY <2>1, Splits, Zenon
  <2> QED
    BY <2>1, <2>2, Zenon
<1>4. slow * avg \in Nat /\ fast * avg \in Nat
  BY <1>1, <1>2, SMT
<1>5. PICK left \in Nat : left = cap - slowRates /\ fast * avg <= left
  <2>1. cap - slowRates \in Nat /\ fast * avg <= cap - slowRates
    BY <1>1, <1>3, <1>4
  <2> QED
    BY <2>1
<1>6. PICK high \in Nat : /\ high = left \div fast
                          /\ fast * high <= left /\ left < fast * high + fast
  BY <1>2, <1>5, Quotient
<1>7. high >= avg
  <2> SUFFICES ASSUME high + 1 <= avg PROVE FALSE
    BY <1>1, <1>6
  <2>1. fast * (high + 1) <= fast * avg
    BY <1>1, <1>2, <1>6, Grows
  <2>2. fast * (high + 1) = fast * high + fast
    <3>1. fast \in Int /\ high \in Int
      BY <1>2, <1>6
    <3> QED
      BY <3>1, SMT
  <2>3. fast * high \in Nat
    BY <1>2, <1>6, SMT
  <2>4. PICK all \in Nat, given \in Nat : all = fast * avg /\ given = fast * high
    BY <1>4, <2>3
  <2>5. given + fast <= all
    BY <2>1, <2>2, <2>4
  <2>6. all <= left /\ left < given + fast
    BY <1>5, <1>6, <2>4
  <2> QED
    BY <1>2, <1>5, <2>4, <2>5, <2>6
<1>8. T!HighRate(cap, slowRates, n - slow) = high
  BY <1>2, <1>5, <1>6 DEF T!HighRate
<1>9. slowRates + fast * high <= cap
  <2>1. fast * high \in Nat
    BY <1>2, <1>6, SMT
  <2> QED
    BY <1>5, <1>6, <2>1
<1> QED
  BY <1>1, <1>2, <1>7, <1>8, <1>9

(* The sum over a set, one element after the other.                        *)
LEMMA SumIsFold ==
  ASSUME NEW D, IsFiniteSet(D), NEW fun, \A x \in D : fun[x] \in Int
  PROVE  \E f \in [SUBSET D -> Int] :
           /\ f[{}] = 0
           /\ \A s \in SUBSET D : s # {} => \E x \in s : f[s] = fun[x] + f[s \ {x}]
           /\ T!SumFunctionOnSet(fun, D) = f[D]
<1> DEFINE p == [s \in SUBSET D |-> CHOOSE x \in s : TRUE]
           g == [e \in D \X Int |-> fun[e[1]] + e[2]]
           Raw(f) == f = [s \in SUBSET D |->
                            IF s = {} THEN 0
                            ELSE fun[CHOOSE x \in s : TRUE] + f[s \ {CHOOSE x \in s : TRUE}]]
<1>1. \A s \in SUBSET D : s # {} => p[s] \in s /\ p[s] = (CHOOSE x \in s : TRUE)
  OBVIOUS
<1>2. Picks(p, D)
  BY <1>1 DEF Picks
<1>3. g \in [D \X Int -> Int] /\ 0 \in Int
       /\ \A x \in D, v \in Int : g[<<x, v>>] = fun[x] + v
  OBVIOUS
<1>4. PICK f : IsFold(f, D, Int, 0, p, g)
  <2> HIDE DEF p, g
  <2> QED
    BY <1>2, <1>3, FoldExists, Zenon
<1>5. f \in [SUBSET D -> Int] /\ f[{}] = 0
  BY <1>4 DEF IsFold, Follows
<1>6. \A s \in SUBSET D : s # {} => f[s] = fun[p[s]] + f[s \ {p[s]}]
  <2> HIDE DEF p, g
  <2> QED
    BY <1>1, <1>3, <1>4 DEF IsFold, Follows
<1>7. Raw(f)
  BY <1>1, <1>5, <1>6
<1>8. PICK sum : Raw(sum) /\ T!SumFunctionOnSet(fun, D) = sum[D]
  <2>1. Raw(CHOOSE h : Raw(h))
    <3> HIDE DEF Raw
    <3> QED
      BY <1>7, Zenon
  <2>2. T!SumFunctionOnSet(fun, D) = (CHOOSE h : Raw(h))[D]
    BY Zenon DEF T!SumFunctionOnSet, T!FoldFunctionOnSet, T!MapThenFoldSet
  <2> QED
    <3> HIDE DEF Raw
    <3> QED
      BY <2>1, <2>2, Zenon
<1>9. sum[D] = f[D]
  <2>1. sum[{}] = 0
    BY <1>8
  <2>2. \A s \in SUBSET D : s # {} => sum[s] = fun[p[s]] + sum[s \ {p[s]}]
    BY <1>1, <1>8
  <2>3. Follows(sum, D, Int, 0, p, g)
    <3> HIDE DEF p, g, Raw
    <3> QED
      BY <2>1, <2>2, <1>1, <1>3 DEF Follows
  <2>4. \A s \in SUBSET D : sum[s] = f[s]
    <3> HIDE DEF p, g, Raw
    <3> QED
      BY <1>4, <2>3, FoldIsUnique
  <2> QED
    BY <2>4
<1>10. \A s \in SUBSET D : s # {} => \E x \in s : f[s] = fun[x] + f[s \ {x}]
  <2> HIDE DEF p
  <2> QED
    BY <1>1, <1>6
<1> QED
  BY <1>5, <1>8, <1>9, <1>10

(* A sum of numbers that are at most k.                                    *)
LEMMA SumIsBounded ==
  ASSUME NEW D, IsFiniteSet(D), NEW k \in Nat, NEW fun, \A x \in D : fun[x] \in 0 .. k
  PROVE  /\ T!SumFunctionOnSet(fun, D) \in Nat
         /\ T!SumFunctionOnSet(fun, D) <= Cardinality(D) * k
<1>1. PICK f \in [SUBSET D -> Int] :
         /\ f[{}] = 0
         /\ \A s \in SUBSET D : s # {} => \E x \in s : f[s] = fun[x] + f[s \ {x}]
         /\ T!SumFunctionOnSet(fun, D) = f[D]
  <2>1. \A x \in D : fun[x] \in Int
    OBVIOUS
  <2> QED
    BY <2>1, SumIsFold
<1> DEFINE P == {s \in SUBSET D : 0 <= f[s] /\ f[s] <= Cardinality(s) * k}
<1>2. \A s \in SUBSET D : IsFiniteSet(s) /\ Cardinality(s) \in Nat
  BY FS_Subset, FS_CardinalityType
<1>3. {} \in P
  BY <1>1, FS_EmptySet
<1>4. \A s \in SUBSET D : s # {} /\ (\A x \in s : s \ {x} \in P) => s \in P
  <2> SUFFICES ASSUME NEW s \in SUBSET D, s # {}, \A x \in s : s \ {x} \in P PROVE s \in P
    OBVIOUS
  <2>1. PICK x \in s : f[s] = fun[x] + f[s \ {x}]
    BY <1>1
  <2>2. PICK m \in Nat : m = Cardinality(s \ {x}) /\ Cardinality(s) = m + 1
    <3>1. Cardinality(s \ {x}) = Cardinality(s) - 1 /\ Cardinality(s \ {x}) \in Nat /\ Cardinality(s) \in Nat
      BY <1>2, FS_RemoveElement
    <3> QED
      BY <3>1
  <2>3. f[s \ {x}] \in Int /\ 0 <= f[s \ {x}] /\ f[s \ {x}] <= m * k
    BY <2>2
  <2>4. (m + 1) * k = m * k + k
    BY <2>2, SMT
  <2>5. fun[x] \in 0 .. k /\ f[s] \in Int
    OBVIOUS
  <2>6. m * k \in Int
    BY <2>2, SMT
  <2>7. 0 <= f[s] /\ f[s] <= m * k + k
    BY <2>1, <2>3, <2>5, <2>6
  <2> QED
    BY <2>2, <2>4, <2>7
<1>5. SUBSET D \subseteq P
  <2> HIDE DEF P
  <2> QED
    BY <1>3, <1>4, SetInductive
<1> QED
  BY <1>1, <1>5

(* The limits that download_calc_throttle_factor sets, whatever the        *)
(* connections do meanwhile, share the cap.                                *)
Load == [busy : BOOLEAN, rate : Nat, limit : Nat]

(* The copy of Cardinality in Throttle is Cardinality.                      *)
LEMMA SameCount == \A X : T!Cardinality(X) = Cardinality(X)
  BY Zenon DEF Cardinality, T!Cardinality

(* There are finitely many busy connections.                                *)
LEMMA BusyIsFinite ==
  ASSUME NEW cons \in Seq(Load), NEW avg \in Nat
  PROVE  /\ IsFiniteSet(T!Busy(cons)) /\ T!Busy(cons) \subseteq DOMAIN cons
         /\ T!Slow(cons, avg) \subseteq T!Busy(cons)
         /\ T!Fast(cons, avg) = T!Busy(cons) \ T!Slow(cons, avg)
         /\ IsFiniteSet(T!Slow(cons, avg)) /\ IsFiniteSet(T!Fast(cons, avg))
<1>1. IsFiniteSet(1 .. Len(cons)) /\ DOMAIN cons = 1 .. Len(cons)
  BY FS_Interval
<1>2. T!Busy(cons) \subseteq DOMAIN cons /\ T!Slow(cons, avg) \subseteq T!Busy(cons)
  BY DEF T!Busy, T!Slow
<1>3. T!Fast(cons, avg) = T!Busy(cons) \ T!Slow(cons, avg)
  BY DEF T!Fast
<1> QED
  BY <1>1, <1>2, <1>3, FS_Subset

(* The slow connections use no more than their number times the average.    *)
LEMMA SlowRates ==
  ASSUME NEW cons \in Seq(Load), NEW avg \in Nat
  PROVE  LET sum == T!SumFunctionOnSet(T!Rates(cons), T!Slow(cons, avg))
         IN  sum \in Nat /\ sum <= Cardinality(T!Slow(cons, avg)) * avg
<1>1. PICK slow : slow = T!Slow(cons, avg)
  OBVIOUS
<1>2. PICK rates : rates = T!Rates(cons)
  OBVIOUS
<1>3. IsFiniteSet(slow)
  BY <1>1, BusyIsFinite
<1>4. \A c \in slow : rates[c] \in 0 .. avg
  <2> SUFFICES ASSUME NEW c \in slow PROVE rates[c] \in 0 .. avg
    OBVIOUS
  <2>1. c \in DOMAIN cons /\ cons[c].rate < avg
    BY <1>1 DEF T!Slow, T!Busy
  <2>2. cons[c] \in Load
    BY <2>1
  <2>3. cons[c].rate \in Nat
    BY <2>2 DEF Load
  <2>4. rates[c] = cons[c].rate
    BY <1>2, <2>1 DEF T!Rates
  <2> QED
    BY <2>1, <2>3, <2>4
<1>5. T!SumFunctionOnSet(rates, slow) \in Nat /\ T!SumFunctionOnSet(rates, slow) <= Cardinality(slow) * avg
  BY <1>3, <1>4, SumIsBounded
<1> QED
  BY <1>1, <1>2, <1>5

(* What the throttle hands out and what the slow ones use is the cap.       *)
LEMMA LimitsShareCap ==
  ASSUME NEW cap \in Nat, NEW counted \in Seq(Load), NEW seen \in Seq(Load), NEW now \in Seq(Load)
  PROVE  T!SharesCap(cap, counted, seen, now, T!CalcThrottleFactor(cap, counted, seen, now))
<1>1. PICK n \in Nat : n = Cardinality(T!Busy(counted)) /\ n = T!Cardinality(T!Busy(counted))
  <2>1. Cardinality(T!Busy(counted)) \in Nat
    BY BusyIsFinite, FS_CardinalityType
  <2> QED
    BY <2>1, SameCount
<1>2. CASE ~(n > 0 /\ cap >= n)
  BY <1>1, <1>2 DEF T!SharesCap
<1>3. CASE n > 0 /\ cap >= n
  <2>1. PICK avg \in Nat : avg = cap \div n
    BY <1>3, Quotient
  <2>2. PICK slow \in Nat : slow = Cardinality(T!Slow(seen, avg)) /\ slow = T!Cardinality(T!Slow(seen, avg))
    <3>1. Cardinality(T!Slow(seen, avg)) \in Nat
      BY <2>1, BusyIsFinite, FS_CardinalityType
    <3> QED
      BY <3>1, SameCount
  <2>3. PICK used \in Nat : used = T!SumFunctionOnSet(T!Rates(seen), T!Slow(seen, avg)) /\ used <= slow * avg
    BY <2>2, SlowRates
  <2>4. PICK set : set = T!CalcThrottleFactor(cap, counted, seen, now)
    OBVIOUS
  <2>5. CASE slow >= n
    <3>1. set = T!Unlimited(now)
      <4>1. ~(n = 0) /\ n > 0 /\ slow >= n
        BY <1>3, <2>5
      <4> QED
        BY <1>1, <2>1, <2>2, <2>4, <4>1, Zenon DEF T!CalcThrottleFactor
    <3> QED
      BY <1>1, <2>1, <2>2, <2>4, <2>5, <3>1 DEF T!SharesCap
  <2>6. CASE slow < n
    <3>1. PICK high : high = T!HighRate(cap, used, n - slow)
      OBVIOUS
    <3>2. high >= avg /\ used + (n - slow) * high <= cap
      <4>1. n \in Nat \ {0} /\ slow \in 0 .. (n - 1) /\ used <= slow * (cap \div n)
        BY <1>3, <2>1, <2>3, <2>6
      <4> QED
        BY <2>1, <3>1, <4>1, ShareIsFair
    <3>3. high \in Nat
      <4>1. PICK q \in Int : q = high
        BY <1>3, <2>6, <3>1 DEF T!HighRate
      <4> QED
        BY <3>2, <4>1
    <3>4. set = [c \in DOMAIN now |->
                   IF c \in T!Fast(now, avg) THEN [now[c] EXCEPT !.limit = high] ELSE now[c]]
      <4>1. ~(n = 0) /\ ~(cap = 0) /\ ~(slow >= n)
        BY <1>1, <1>3, <2>2, <2>6
      <4> QED
        BY <1>1, <2>1, <2>2, <2>3, <2>4, <3>1, <4>1, Zenon DEF T!CalcThrottleFactor
    <3>5. T!Fast(now, avg) \subseteq DOMAIN now /\ IsFiniteSet(T!Fast(now, avg))
      BY BusyIsFinite
    <3>6. \A c \in T!Fast(now, avg) : set[c].limit = high
      BY <3>4, <3>5 DEF Load
    <3>7. DOMAIN set = DOMAIN now /\ \A c \in DOMAIN set \ T!Fast(now, avg) : set[c] = now[c]
      BY <3>4
    <3>8. ASSUME counted = seen, seen = now
          PROVE  T!SumFunctionOnSet(T!Limits(set), T!Fast(now, avg))
                   + T!SumFunctionOnSet(T!Rates(now), T!Slow(now, avg)) <= cap
      <4>1. PICK given, limits : given = T!Fast(now, avg) /\ limits = T!Limits(set)
        OBVIOUS
      <4>2. \A c \in given : limits[c] \in 0 .. high
        BY <3>3, <3>5, <3>6, <3>7, <4>1 DEF T!Limits
      <4>3. PICK sum \in Nat : sum = T!SumFunctionOnSet(limits, given) /\ sum <= Cardinality(given) * high
        BY <3>3, <3>5, <4>1, <4>2, SumIsBounded
      <4>4. Cardinality(given) = n - slow
        <5>1. IsFiniteSet(T!Busy(now)) /\ T!Slow(now, avg) \subseteq T!Busy(now)
               /\ given = T!Busy(now) \ T!Slow(now, avg)
          BY <4>1, BusyIsFinite
        <5>2. T!Busy(now) \cap T!Slow(now, avg) = T!Slow(now, avg)
          BY <5>1
        <5> QED
          BY <1>1, <2>2, <3>8, <5>1, <5>2, FS_Difference
      <4>5. sum + used <= cap
        BY <2>3, <2>6, <3>2, <3>3, <4>3, <4>4
      <4> QED
        BY <2>3, <3>8, <4>1, <4>3, <4>5
    <3> QED
      BY <1>1, <2>1, <2>4, <3>2, <3>3, <3>6, <3>7, <3>8 DEF T!SharesCap
  <2> QED
    BY <2>5, <2>6, <1>1, <2>2
<1> QED
  BY <1>2, <1>3

-----------------------------------------------------------------------------
(***************************************************************************)
(* Preferences and command line.                                           *)
(***************************************************************************)

Keys == DOMAIN S!Defaults

(* The keys of the preferences file.                                        *)
LEMMA KeysAre ==
  Keys = {"threads", "tries", "pasv", "retrydelay", "conntimeout", "maxbpsperdl", "debug", "libdebug",
          "pragmanocache", "httpproxy", "httpproxyuser", "httpproxytype", "usehttpproxy", "ftpproxy",
          "ftpproxyuser", "ftpproxytype", "useftpproxy", "mirrorsreq", "maxsimulpings", "maxpingwait",
          "defaultftpsearch", "ftpsearchserverid", "displaymode", "minsearchsize", "netrc", "timeout",
          "quiet", "force", "resume", "getch", "directory"}
  BY SMT DEF Keys, S!Defaults

(* The lines of the file are read one after the other.                     *)
AfterLines(rt, lines) == S!FoldLeft(S!ReadLine, rt, lines)
Readable(W, rt, lines, n) ==
  /\ n \in Nat /\ rt \in [Keys -> W] /\ DOMAIN lines = 1 .. n
  /\ \A i \in 1 .. n : S!Accepted(lines[i].key, lines[i].value) \in W
ReadSteps(a, W, rt, lines, n) ==
  /\ a \in [0 .. n -> [Keys -> W]] /\ a[0] = rt
  /\ \A k \in 1 .. n : a[k] = S!ReadLine(a[k - 1], lines[k])
  /\ AfterLines(rt, lines) = a[n]

(* The settings after each line of the file are settings.                   *)
LEMMA LinesAreRead ==
  \A W, rt, lines, n : Readable(W, rt, lines, n) => \E a : ReadSteps(a, W, rt, lines, n)
<1> SUFFICES ASSUME NEW W, NEW rt, NEW lines, NEW n, Readable(W, rt, lines, n)
             PROVE  \E a : ReadSteps(a, W, rt, lines, n)
  OBVIOUS
<1>t. /\ n \in Nat /\ rt \in [Keys -> W] /\ DOMAIN lines = 1 .. n
      /\ \A i \in 1 .. n : S!Accepted(lines[i].key, lines[i].value) \in W
  BY DEF Readable
<1> DEFINE V == [Keys -> W]
           D == DOMAIN lines
           g == [e \in (1 .. n) \X V |-> S!ReadLine(e[2], lines[e[1]])]
           Raw(h) == h = [s \in SUBSET D |->
                            IF s = {} THEN rt ELSE S!ReadLine(h[s \ {Top(s)}], lines[Top(s)])]
<1>1. \A k \in 1 .. n, v \in V : S!ReadLine(v, lines[k]) \in V
  BY <1>t DEF S!ReadLine
<1>2. g \in [(1 .. n) \X V -> V] /\ \A k \in 1 .. n, v \in V : g[<<k, v>>] = S!ReadLine(v, lines[k])
  BY <1>1
<1>0. rt \in V
  BY <1>t
<1>3. PICK f, a : LeftFolds(f, a, n, V, rt, g)
  <2> HIDE DEF V, g
  <2> QED
    BY <1>t, <1>0, <1>2, LeftFold, Zenon
<1> HIDE DEF V, g
<1>4. Raw(f)
  BY <1>t, <1>2, <1>3 DEF LeftFolds, FoldsLeft
<1>5. PICK h : Raw(h) /\ S!FoldLeft(S!ReadLine, rt, lines) = h[D]
  <2>1. Raw(CHOOSE h : Raw(h))
    <3> HIDE DEF Raw
    <3> QED
      BY <1>4, Zenon
  <2>2. S!FoldLeft(S!ReadLine, rt, lines) = (CHOOSE h : Raw(h))[D]
    BY Zenon DEF S!FoldLeft, S!MapThenFoldSet, S!Max, Top
  <2> QED
    <3> HIDE DEF Raw
    <3> QED
      BY <2>1, <2>2, Zenon
<1>6. FoldsLeft(h, n, V, rt, g)
  <2>1. h[{}] = rt
    BY <1>t, <1>5
  <2>2. ASSUME NEW s \in SUBSET (1 .. n), s # {}, h[s \ {Top(s)}] \in V
        PROVE  h[s] = g[<<Top(s), h[s \ {Top(s)}]>>]
    <3>1. Top(s) \in 1 .. n
      BY <1>3, <2>2 DEF LeftFolds
    <3>2. h[s] = S!ReadLine(h[s \ {Top(s)}], lines[Top(s)])
      BY <1>t, <1>5, <2>2
    <3> QED
      BY <1>2, <2>2, <3>1, <3>2
  <2> QED
    BY <2>1, <2>2 DEF FoldsLeft
<1>7. h[1 .. n] = a[n] /\ Folded(a, n, V, rt, g)
  BY <1>3, <1>6, Zenon DEF LeftFolds
<1>8. \A k \in 1 .. n : a[k] = S!ReadLine(a[k - 1], lines[k])
  <2> SUFFICES ASSUME NEW k \in 1 .. n PROVE a[k] = S!ReadLine(a[k - 1], lines[k])
    OBVIOUS
  <2>1. a[k] = g[<<k, a[k - 1]>>] /\ k - 1 \in 0 .. n /\ a \in [0 .. n -> V]
    BY <1>t, <1>7 DEF Folded
  <2>2. a[k - 1] \in V
    BY <2>1
  <2> QED
    BY <1>2, <2>1, <2>2
<1> QED
  <2>1. ReadSteps(a, W, rt, lines, n)
    BY <1>t, <1>5, <1>7, <1>8 DEF Folded, V, ReadSteps, AfterLines
  <2> QED
    BY <2>1, Zenon

(* What an option sets, and to what, as the code has it: the tables that   *)
(* main works with instead of those of the documentation.                  *)
CodeSets(o, key) ==
  \/ o.name \in DOMAIN S!NumberOf /\ S!NumberOf[o.name] = key
  \/ o.name \in DOMAIN S!FlagOf /\ S!FlagOf[o.name][1] = key
  \/ o.name = "debug" /\ key \in {"debug", "libdebug"}
  \/ o.name = "P" /\ key = "directory"

CodeTo(o) ==
  IF o.name \in DOMAIN S!FlagOf THEN S!FlagOf[o.name][2]
  ELSE IF o.name = "debug" THEN S!Yes ELSE o.arg

CodeAsked(file, options, key) ==
  LET opts  == {i \in DOMAIN options : CodeSets(options[i], key)}
      lines == {i \in DOMAIN file.lines : file.lines[i].key = key /\ S!IsSetting(file.lines[i])}
  IN IF opts # {} THEN CodeTo(options[S!LastIn(opts)])
     ELSE IF lines # {} THEN file.lines[S!LastIn(lines)].value
     ELSE S!Defaults[key]

(* The program and its library do what the code has them do.               *)
CodeObeys(file, options, found) ==
  /\ ~found.exits /\ S!Sane(found.rt)
  /\ \A key \in DOMAIN S!Defaults :
       LET asked == CodeAsked(file, options, key)
       IN /\ S!Usual(key, asked) => found.rt[key] = asked
          /\ S!Usual(key, found.rt[key]) \/ found.rt[key] = asked
          /\ key \in S!Passed => found.lib[key] = found.rt[key]
  /\ S!Main(found.file, options).rt = found.rt

(* An option sets what main says, and leaves the rest.                     *)
Names == DOMAIN S!NumberOf \cup DOMAIN S!FlagOf \cup {"debug", "P"}

(* The options of the command line.                                         *)
LEMMA NamesAre ==
  /\ DOMAIN S!NumberOf = {"k", "tries", "retry_delay", "timeout", "pt", "pao", "max_ftps_servers", "max_bps",
                         "min_size", "ftpsid"}
  /\ DOMAIN S!FlagOf = {"one", "use_port", "search", "no_search", "no_curses", "verbose", "force", "resume",
                       "no_getch", "no_netrc"}
  BY SMT DEF S!NumberOf, S!FlagOf

(* What an option sets.                                                     *)
LEMMA OptionSets ==
  ASSUME NEW W, NEW rt \in [Keys -> W], NEW o, o.name \in Names, CodeTo(o) \in W
  PROVE  /\ S!Option(rt, o) \in [Keys -> W]
         /\ \A key \in Keys : S!Option(rt, o)[key] = IF CodeSets(o, key) THEN CodeTo(o) ELSE rt[key]
<1>1. CASE o.name \in DOMAIN S!NumberOf
  <2>1. ~(o.name \in DOMAIN S!FlagOf) /\ o.name # "debug" /\ o.name # "P"
    BY <1>1, NamesAre
  <2>2. S!Option(rt, o) = [rt EXCEPT ![S!NumberOf[o.name]] = o.arg]
    BY <1>1, <2>1, Zenon DEF S!Option
  <2>3. CodeTo(o) = o.arg /\ \A key : CodeSets(o, key) <=> S!NumberOf[o.name] = key
    BY <1>1, <2>1, Zenon DEF CodeTo, CodeSets
  <2> QED
    BY <2>2, <2>3
<1>2. CASE o.name \in DOMAIN S!FlagOf
  <2>1. ~(o.name \in DOMAIN S!NumberOf) /\ o.name # "debug" /\ o.name # "P"
    BY <1>2, NamesAre
  <2>2. S!Option(rt, o) = [rt EXCEPT ![S!FlagOf[o.name][1]] = S!FlagOf[o.name][2]]
    BY <1>2, <2>1, Zenon DEF S!Option
  <2>3. CodeTo(o) = S!FlagOf[o.name][2] /\ \A key : CodeSets(o, key) <=> S!FlagOf[o.name][1] = key
    BY <1>2, <2>1, Zenon DEF CodeTo, CodeSets
  <2> QED
    BY <2>2, <2>3
<1>3. CASE o.name = "debug"
  <2>1. ~(o.name \in DOMAIN S!NumberOf) /\ ~(o.name \in DOMAIN S!FlagOf) /\ o.name # "P"
    BY <1>3, NamesAre
  <2>2. S!Option(rt, o) = [rt EXCEPT !.debug = S!Yes, !.libdebug = S!Yes]
    BY <1>3, <2>1, Zenon DEF S!Option
  <2>3. CodeTo(o) = S!Yes /\ \A key : CodeSets(o, key) <=> key \in {"debug", "libdebug"}
    BY <1>3, <2>1, Zenon DEF CodeTo, CodeSets
  <2>4. "debug" \in Keys /\ "libdebug" \in Keys
    BY KeysAre
  <2> QED
    BY <2>2, <2>3, <2>4
<1>4. CASE o.name = "P"
  <2>1. ~(o.name \in DOMAIN S!NumberOf) /\ ~(o.name \in DOMAIN S!FlagOf) /\ o.name # "debug"
    BY <1>4, NamesAre
  <2>2. S!Option(rt, o) = [rt EXCEPT !.directory = o.arg]
    BY <1>4, <2>1, Zenon DEF S!Option
  <2>3. CodeTo(o) = o.arg /\ \A key : CodeSets(o, key) <=> key = "directory"
    BY <1>4, <2>1, Zenon DEF CodeTo, CodeSets
  <2>4. "directory" \in Keys
    BY KeysAre
  <2> QED
    BY <2>2, <2>3, <2>4
<1> QED
  BY <1>1, <1>2, <1>3, <1>4 DEF Names

(* The options are obeyed one after the other.                             *)
AfterOptions(rt, options) == S!FoldLeft(S!Option, rt, options)
Obeyable(W, rt, options, n) ==
  /\ n \in Nat /\ rt \in [Keys -> W] /\ DOMAIN options = 1 .. n
  /\ \A i \in 1 .. n : options[i].name \in Names /\ CodeTo(options[i]) \in W
OptionSteps(a, W, rt, options, n) ==
  /\ a \in [0 .. n -> [Keys -> W]] /\ a[0] = rt
  /\ \A k \in 1 .. n : a[k] = S!Option(a[k - 1], options[k])
  /\ AfterOptions(rt, options) = a[n]

(* The settings after each option are settings.                             *)
LEMMA OptionsAreRead ==
  \A W, rt, options, n : Obeyable(W, rt, options, n) => \E a : OptionSteps(a, W, rt, options, n)
<1> SUFFICES ASSUME NEW W, NEW rt, NEW options, NEW n, Obeyable(W, rt, options, n)
             PROVE  \E a : OptionSteps(a, W, rt, options, n)
  OBVIOUS
<1>t. /\ n \in Nat /\ rt \in [Keys -> W] /\ DOMAIN options = 1 .. n
      /\ \A i \in 1 .. n : options[i].name \in Names /\ CodeTo(options[i]) \in W
  BY DEF Obeyable
<1> DEFINE V == [Keys -> W]
           D == DOMAIN options
           g == [e \in (1 .. n) \X V |-> S!Option(e[2], options[e[1]])]
           Raw(h) == h = [s \in SUBSET D |->
                            IF s = {} THEN rt ELSE S!Option(h[s \ {Top(s)}], options[Top(s)])]
<1>1. \A k \in 1 .. n, v \in V : S!Option(v, options[k]) \in V
  BY <1>t, OptionSets
<1>2. g \in [(1 .. n) \X V -> V] /\ \A k \in 1 .. n, v \in V : g[<<k, v>>] = S!Option(v, options[k])
  BY <1>1
<1>0. rt \in V
  BY <1>t
<1>3. PICK f, a : LeftFolds(f, a, n, V, rt, g)
  <2> HIDE DEF V, g
  <2> QED
    BY <1>t, <1>0, <1>2, LeftFold, Zenon
<1> HIDE DEF V, g
<1>4. Raw(f)
  BY <1>t, <1>2, <1>3 DEF LeftFolds, FoldsLeft
<1>5. PICK h : Raw(h) /\ S!FoldLeft(S!Option, rt, options) = h[D]
  <2>1. Raw(CHOOSE h : Raw(h))
    <3> HIDE DEF Raw
    <3> QED
      BY <1>4, Zenon
  <2>2. S!FoldLeft(S!Option, rt, options) = (CHOOSE h : Raw(h))[D]
    BY Zenon DEF S!FoldLeft, S!MapThenFoldSet, S!Max, Top
  <2> QED
    <3> HIDE DEF Raw
    <3> QED
      BY <2>1, <2>2, Zenon
<1>6. FoldsLeft(h, n, V, rt, g)
  <2>1. h[{}] = rt
    BY <1>t, <1>5
  <2>2. ASSUME NEW s \in SUBSET (1 .. n), s # {}, h[s \ {Top(s)}] \in V
        PROVE  h[s] = g[<<Top(s), h[s \ {Top(s)}]>>]
    <3>1. Top(s) \in 1 .. n
      BY <1>3, <2>2 DEF LeftFolds
    <3>2. h[s] = S!Option(h[s \ {Top(s)}], options[Top(s)])
      BY <1>t, <1>5, <2>2
    <3> QED
      BY <1>2, <2>2, <3>1, <3>2
  <2> QED
    BY <2>1, <2>2 DEF FoldsLeft
<1>7. h[1 .. n] = a[n] /\ Folded(a, n, V, rt, g)
  BY <1>3, <1>6, Zenon DEF LeftFolds
<1>8. \A k \in 1 .. n : a[k] = S!Option(a[k - 1], options[k])
  <2> SUFFICES ASSUME NEW k \in 1 .. n PROVE a[k] = S!Option(a[k - 1], options[k])
    OBVIOUS
  <2>1. a[k] = g[<<k, a[k - 1]>>] /\ k - 1 \in 0 .. n /\ a \in [0 .. n -> V]
    BY <1>t, <1>7 DEF Folded
  <2>2. a[k - 1] \in V
    BY <2>1
  <2> QED
    BY <1>2, <2>1, <2>2
<1> QED
  <2>1. OptionSteps(a, W, rt, options, n)
    BY <1>t, <1>5, <1>7, <1>8 DEF Folded, V, OptionSteps, AfterOptions
  <2> QED
    BY <2>1, Zenon

(* Of several words the last counts.  A step k sets the keys in sets[k] to *)
(* says[k].                                                                *)
Words(a, n, K, W, sets, says) ==
  /\ a \in [0 .. n -> [K -> W]]
  /\ \A k \in 1 .. n : \A key \in K :
       a[k][key] = IF key \in sets[k] THEN says[k] ELSE a[k - 1][key]

Settled(a, n, key, sets, says) ==
  LET said == {i \in 1 .. n : key \in sets[i]}
  IN  /\ said = {} => a[n][key] = a[0][key]
      /\ said # {} => S!LastIn(said) \in said /\ a[n][key] = says[S!LastIn(said)]

(* The last option that sets a field decides it.                            *)
LEMMA LastWord ==
  \A a, n, K, W, sets, says, key :
    n \in Nat /\ Words(a, n, K, W, sets, says) /\ key \in K => Settled(a, n, key, sets, says)
<1> SUFFICES ASSUME NEW n \in Nat, NEW a, NEW K, NEW W, NEW sets, NEW says, Words(a, n, K, W, sets, says),
                    NEW key \in K
             PROVE  Settled(a, n, key, sets, says)
  OBVIOUS
<1> DEFINE Said(m) == {i \in 1 .. m : key \in sets[i]}
           P == {m \in Nat : m <= n =>
                   \/ Said(m) = {} /\ a[m][key] = a[0][key]
                   \/ \E i \in Said(m) : (\A j \in Said(m) : j <= i) /\ a[m][key] = says[i]}
<1>1. 0 \in P
  <2>1. Said(0) = {}
    OBVIOUS
  <2> QED
    BY <2>1
<1>2. ASSUME NEW m \in Nat, m \in P PROVE m + 1 \in P
  <2> SUFFICES ASSUME m + 1 <= n
               PROVE  \/ Said(m + 1) = {} /\ a[m + 1][key] = a[0][key]
                      \/ \E i \in Said(m + 1) : (\A j \in Said(m + 1) : j <= i) /\ a[m + 1][key] = says[i]
    OBVIOUS
  <2>1. m + 1 \in 1 .. n /\ (m + 1) - 1 = m /\ m <= n
    OBVIOUS
  <2>2. a[m + 1][key] = IF key \in sets[m + 1] THEN says[m + 1] ELSE a[m][key]
    BY <2>1 DEF Words
  <2>3. CASE key \in sets[m + 1]
    <3>1. m + 1 \in Said(m + 1) /\ \A j \in Said(m + 1) : j <= m + 1
      BY <2>3
    <3> QED
      BY <2>2, <2>3, <3>1
  <2>4. CASE key \notin sets[m + 1]
    <3>1. Said(m + 1) = Said(m)
      <4>1. \A i \in 1 .. (m + 1) : i \in 1 .. m \/ i = m + 1
        OBVIOUS
      <4>2. \A i \in 1 .. m : i \in 1 .. (m + 1)
        OBVIOUS
      <4> QED
        BY <2>4, <4>1, <4>2
    <3> QED
      BY <1>2, <2>1, <2>2, <2>4, <3>1
  <2> QED
    BY <2>3, <2>4
<1>3. n \in P
  <2> HIDE DEF P
  <2> QED
    BY <1>1, <1>2, NatInductive
<1>4. \A i \in Said(n) : (\A j \in Said(n) : j <= i) => S!LastIn(Said(n)) = i
  <2> SUFFICES ASSUME NEW i \in Said(n), \A j \in Said(n) : j <= i PROVE S!LastIn(Said(n)) = i
    OBVIOUS
  <2>1. S!LastIn(Said(n)) \in Said(n) /\ \A j \in Said(n) : j <= S!LastIn(Said(n))
    <3> HIDE DEF Said
    <3> QED
      BY Zenon DEF S!LastIn
  <2> QED
    BY <2>1
<1> QED
  BY <1>3, <1>4 DEF Settled

(* What a sane number is for each setting.                                 *)
SaneAt(key, v) ==
  /\ key \in {"threads", "mirrorsreq", "maxsimulpings", "maxpingwait"} => v \in Nat /\ v > 0
  /\ key \in {"tries", "retrydelay", "conntimeout", "maxbpsperdl"} => v \in Nat
  /\ key = "ftpsearchserverid" => v \in {0, 1}

LEMMA AllSane ==
  ASSUME NEW W, NEW rt \in [Keys -> W], \A key \in Keys : SaneAt(key, rt[key])
  PROVE  S!Sane(rt)
  BY KeysAre DEF S!Sane, SaneAt

(* What a line is taken for.                                               *)
LEMMA AcceptedIsUsual ==
  ASSUME NEW key, NEW v, key \in S!Numbers => v \in Int
  PROVE  /\ SaneAt(key, S!Accepted(key, v)) /\ S!Usual(key, S!Accepted(key, v))
         /\ S!Usual(key, v) => S!Accepted(key, v) = v
<1>1. CASE key = "threads"
  BY <1>1 DEF S!Numbers, S!Accepted, S!Usual, S!Within, SaneAt
<1>2. CASE key \in {"tries", "maxbpsperdl"}
  BY <1>2 DEF S!Numbers, S!Accepted, S!Usual, S!Within, SaneAt
<1>3. CASE key = "retrydelay"
  BY <1>3 DEF S!Numbers, S!Accepted, S!Usual, S!Within, SaneAt
<1>4. CASE key = "conntimeout"
  BY <1>4 DEF S!Numbers, S!Accepted, S!Usual, S!Within, SaneAt
<1>5. CASE key = "mirrorsreq"
  BY <1>5 DEF S!Numbers, S!Accepted, S!Usual, S!Within, SaneAt
<1>6. CASE key \in {"maxsimulpings", "maxpingwait"}
  BY <1>6 DEF S!Numbers, S!Accepted, S!Usual, S!Within, SaneAt
<1>7. CASE key = "ftpsearchserverid"
  BY <1>7 DEF S!Numbers, S!Accepted, S!Usual, S!Within, SaneAt
<1>8. CASE key \notin S!Numbers
  BY <1>8 DEF S!Numbers, S!Accepted, S!Usual, SaneAt
<1> QED
  BY <1>1, <1>2, <1>3, <1>4, <1>5, <1>6, <1>7, <1>8 DEF S!Numbers

(* The program's own settings.                                             *)
LEMMA DefaultsAreUsual ==
  \A key \in Keys :
    /\ SaneAt(key, S!Defaults[key]) /\ S!Usual(key, S!Defaults[key])
    /\ S!Accepted(key, S!Defaults[key]) = S!Defaults[key]
    /\ key \in S!Numbers => S!Defaults[key] \in Int
<1>1. \A key \in S!Numbers : S!Defaults[key] \in Int /\ S!Usual(key, S!Defaults[key])
  <2>1. /\ S!Defaults["threads"] = 4 /\ S!Defaults["tries"] = 0 /\ S!Defaults["maxbpsperdl"] = 0
        /\ S!Defaults["retrydelay"] = 15 /\ S!Defaults["conntimeout"] = 90 /\ S!Defaults["mirrorsreq"] = 40
        /\ S!Defaults["maxsimulpings"] = 5 /\ S!Defaults["maxpingwait"] = 8
        /\ S!Defaults["ftpsearchserverid"] = 1
    BY DEF S!Defaults
  <2> SUFFICES ASSUME NEW key \in S!Numbers PROVE S!Defaults[key] \in Int /\ S!Usual(key, S!Defaults[key])
    OBVIOUS
  <2>2. CASE key \in {"threads", "maxsimulpings", "maxpingwait"}
    BY <2>1, <2>2 DEF S!Usual
  <2>3. CASE key \in {"tries", "retrydelay", "conntimeout", "maxbpsperdl"}
    BY <2>1, <2>3 DEF S!Usual
  <2>4. CASE key \in {"mirrorsreq", "ftpsearchserverid"}
    BY <2>1, <2>4 DEF S!Usual
  <2> QED
    BY <2>2, <2>3, <2>4 DEF S!Numbers
<1>2. \A key : key \notin S!Numbers => S!Usual(key, S!Defaults[key])
  BY DEF S!Numbers, S!Usual
<1> QED
  BY <1>1, <1>2, AcceptedIsUsual

(* What an option says that is not refused.                                *)
LEMMA OptionIsSane ==
  ASSUME NEW o, o.name \in Names, o.name \in DOMAIN S!NumberOf => o.arg \in Int, ~S!Refused(o),
         NEW key, CodeSets(o, key)
  PROVE  SaneAt(key, CodeTo(o))
<1>1. CASE o.name \in DOMAIN S!NumberOf
  <2>1. o.arg \in Nat /\ (o.name \in {"k", "pt", "pao", "max_ftps_servers"} => o.arg # 0)
         /\ (o.name = "ftpsid" => o.arg \in {0, 1})
    BY <1>1 DEF S!Refused
  <2>2. CodeTo(o) = o.arg /\ key = S!NumberOf[o.name]
    BY <1>1, NamesAre DEF CodeTo, CodeSets
  <2>3. /\ key \in {"threads", "mirrorsreq", "maxsimulpings", "maxpingwait"}
             => o.name \in {"k", "pt", "pao", "max_ftps_servers"}
        /\ key = "ftpsearchserverid" => o.name = "ftpsid"
    BY <1>1, <2>2, NamesAre DEF S!NumberOf
  <2> QED
    BY <2>1, <2>2, <2>3 DEF SaneAt
<1>2. CASE o.name \in DOMAIN S!FlagOf
  <2>1. CodeTo(o) = S!FlagOf[o.name][2] /\ key = S!FlagOf[o.name][1]
    BY <1>2, NamesAre DEF CodeTo, CodeSets
  <2>2. CASE o.name = "one"
    BY <2>1, <2>2 DEF S!FlagOf, SaneAt
  <2>3. CASE o.name # "one"
    <3>1. key \in {"pasv", "defaultftpsearch", "displaymode", "quiet", "force", "resume", "getch", "netrc"}
      BY <1>2, <2>1, <2>3, NamesAre DEF S!FlagOf
    <3> QED
      BY <3>1 DEF SaneAt
  <2> QED
    BY <2>2, <2>3
<1>3. CASE o.name \in {"debug", "P"}
  <2>1. key \in {"debug", "libdebug", "directory"}
    BY <1>3, NamesAre DEF CodeSets
  <2> QED
    BY <2>1 DEF SaneAt
<1> QED
  BY <1>1, <1>2, <1>3 DEF Names

(* A file that was saved says what the settings were.                      *)
LEMMA MoreFinite ==
  ASSUME NEW X, IsFiniteSet(X), NEW a, NEW b, NEW c, NEW d, NEW e, NEW f
  PROVE  IsFiniteSet(X \cup {a, b, c, d, e, f})
<1>1. IsFiniteSet({a} \cup {b}) /\ IsFiniteSet({c} \cup {d}) /\ IsFiniteSet({e} \cup {f})
  BY FS_Singleton, FS_Union
<1>2. IsFiniteSet(({a} \cup {b}) \cup (({c} \cup {d}) \cup ({e} \cup {f})))
  BY <1>1, FS_Union
<1>3. IsFiniteSet(X \cup (({a} \cup {b}) \cup (({c} \cup {d}) \cup ({e} \cup {f}))))
  BY <1>2, FS_Union
<1>4. X \cup {a, b, c, d, e, f} = X \cup (({a} \cup {b}) \cup (({c} \cup {d}) \cup ({e} \cup {f})))
  OBVIOUS
<1> QED
  BY <1>3, <1>4

(* There are finitely many keys.                                            *)
LEMMA FewKeys == IsFiniteSet(S!PrefOpts)
<1>1. PICK A1 : A1 = {} \cup {"threads", "tries", "pasv", "retrydelay", "conntimeout", "maxbpsperdl"} /\ IsFiniteSet(A1)
  BY FS_EmptySet, MoreFinite
<1>2. PICK A2 : A2 = A1 \cup {"debug", "libdebug", "pragmanocache", "httpproxy", "httpproxyuser", "httpproxytype"}
                 /\ IsFiniteSet(A2)
  BY <1>1, MoreFinite
<1>3. PICK A3 : A3 = A2 \cup {"usehttpproxy", "ftpproxy", "ftpproxyuser", "ftpproxytype", "useftpproxy", "mirrorsreq"}
                 /\ IsFiniteSet(A3)
  BY <1>2, MoreFinite
<1>4. PICK A4 : A4 = A3 \cup {"maxsimulpings", "maxpingwait", "defaultftpsearch", "ftpsearchserverid", "displaymode",
                              "minsearchsize"} /\ IsFiniteSet(A4)
  BY <1>3, MoreFinite
<1>5. PICK A5 : A5 = A4 \cup {"netrc", "timeout", "quiet", "force", "resume", "getch"} /\ IsFiniteSet(A5)
  BY <1>4, MoreFinite
<1>6. IsFiniteSet(A5 \cup {"directory"})
  BY <1>5, FS_Singleton, FS_Union
<1>7. Keys \subseteq A5 \cup {"directory"}
  BY <1>1, <1>2, <1>3, <1>4, <1>5, KeysAre
<1> QED
  BY <1>6, <1>7, FS_Subset DEF S!PrefOpts, Keys

(* The file written at the first start has a line for each setting.         *)
LEMMA SavedLines ==
  ASSUME NEW rt
  PROVE  \E n \in Nat : /\ DOMAIN S!Saved(rt).lines = 1 .. n
                        /\ \A i \in 1 .. n : \E key \in S!PrefOpts : S!Saved(rt).lines[i] = S!SavedLine(rt, key)
<1> DEFINE D == S!PrefOpts
           L == {S!SavedLine(rt, key) : key \in D}
           V == Seq(L)
           p == [s \in SUBSET D |-> CHOOSE x \in s : TRUE]
           g == [e \in D \X V |-> Append(e[2], S!SavedLine(rt, e[1]))]
           Raw(h) == h = [s \in SUBSET D |->
                            IF s = {} THEN <<>>
                            ELSE Append(h[s \ {CHOOSE x \in s : TRUE}], S!SavedLine(rt, CHOOSE x \in s : TRUE))]
<1>1. \A s \in SUBSET D : s # {} => p[s] \in s /\ p[s] = (CHOOSE x \in s : TRUE)
  OBVIOUS
<1>2. \A key \in D, v \in V : Append(v, S!SavedLine(rt, key)) \in V
  <2> SUFFICES ASSUME NEW key \in D, NEW v \in V PROVE Append(v, S!SavedLine(rt, key)) \in V
    OBVIOUS
  <2>1. S!SavedLine(rt, key) \in L
    OBVIOUS
  <2> HIDE DEF L
  <2> QED
    BY <2>1
<1>3. /\ g \in [D \X V -> V] /\ <<>> \in V
      /\ \A x \in D, v \in V : g[<<x, v>>] = Append(v, S!SavedLine(rt, x))
  <2> HIDE DEF V
  <2>1. g \in [D \X V -> V] /\ \A x \in D, v \in V : g[<<x, v>>] = Append(v, S!SavedLine(rt, x))
    BY <1>2
  <2> QED
    BY <2>1 DEF V
<1>4. Picks(p, D)
  BY <1>1 DEF Picks
<1> HIDE DEF p, g, V
<1>5. PICK f : IsFold(f, D, V, <<>>, p, g)
  BY <1>3, <1>4, FewKeys, FoldExists, Zenon
<1>6. f \in [SUBSET D -> V] /\ f[{}] = <<>>
  BY <1>5 DEF IsFold, Follows
<1>7. \A s \in SUBSET D : s # {} => f[s] = Append(f[s \ {p[s]}], S!SavedLine(rt, p[s]))
  BY <1>1, <1>3, <1>5 DEF IsFold, Follows
<1>8. Raw(f)
  BY <1>1, <1>6, <1>7
<1>9. PICK h : Raw(h) /\ S!Saved(rt).lines = h[D]
  <2>1. Raw(CHOOSE h : Raw(h))
    <3> HIDE DEF Raw
    <3> QED
      BY <1>8, Zenon
  <2>2. S!Saved(rt).lines = S!FoldSet(LAMBDA key, lines : Append(lines, S!SavedLine(rt, key)), <<>>, D)
    BY DEF S!Saved
  <2>3. S!Saved(rt).lines = (CHOOSE h : Raw(h))[D]
    BY <2>2, Zenon DEF S!FoldSet, S!MapThenFoldSet
  <2> QED
    <3> HIDE DEF Raw
    <3> QED
      BY <2>1, <2>3, Zenon
<1>10. h[D] \in V
  <2>1. \A s \in SUBSET D : s # {} => h[s] = Append(h[s \ {p[s]}], S!SavedLine(rt, p[s]))
    BY <1>1, <1>9
  <2>2. h[{}] = <<>>
    BY <1>9
  <2>3. Follows(h, D, V, <<>>, p, g)
    <3> HIDE DEF Raw
    <3> QED
      BY <1>1, <1>3, <2>1, <2>2 DEF Follows
  <2>4. \A s \in SUBSET D : h[s] = f[s]
    <3> HIDE DEF Raw
    <3> QED
      BY <1>5, <2>3, FoldIsUnique
  <2> QED
    BY <1>6, <2>4
<1>11. PICK lines \in Seq(L) : lines = S!Saved(rt).lines
  BY <1>9, <1>10 DEF V
<1>12. Len(lines) \in Nat /\ DOMAIN lines = 1 .. Len(lines) /\ \A i \in 1 .. Len(lines) : lines[i] \in L
  <2> HIDE DEF L
  <2> QED
    OBVIOUS
<1> QED
  BY <1>11, <1>12

(* The program's own settings survive being saved and read again.          *)
LEMMA DefaultsReload == S!LoadPrefs(S!Defaults, S!Saved(S!Defaults)) = S!Defaults
<1>l. PICK lines : lines = S!Saved(S!Defaults).lines
  OBVIOUS
<1>1. PICK n \in Nat : /\ DOMAIN lines = 1 .. n
                       /\ \A i \in 1 .. n : \E key \in S!PrefOpts : lines[i] = S!SavedLine(S!Defaults, key)
  <2>1. PICK n \in Nat : /\ DOMAIN S!Saved(S!Defaults).lines = 1 .. n
                         /\ \A i \in 1 .. n : \E key \in S!PrefOpts :
                             S!Saved(S!Defaults).lines[i] = S!SavedLine(S!Defaults, key)
    BY SavedLines
  <2> QED
    BY <1>l, <2>1
<1> DEFINE W == {S!Defaults[key] : key \in Keys}
<1>2. S!Defaults \in [Keys -> W]
  <2>1. S!Defaults = [key \in Keys |-> S!Defaults[key]]
    BY DEF Keys, S!Defaults
  <2> QED
    BY <2>1
<1>3. \A i \in 1 .. n : S!Accepted(lines[i].key, lines[i].value) \in W /\ S!ReadLine(S!Defaults, lines[i]) = S!Defaults
  <2> SUFFICES ASSUME NEW i \in 1 .. n
               PROVE  S!Accepted(lines[i].key, lines[i].value) \in W /\ S!ReadLine(S!Defaults, lines[i]) = S!Defaults
    OBVIOUS
  <2>1. PICK key \in S!PrefOpts : lines[i] = S!SavedLine(S!Defaults, key)
    BY <1>1
  <2>2. lines[i].key = key /\ lines[i].value = S!Defaults[key]
    <3>1. PICK b : lines[i] = [key |-> key, value |-> S!Defaults[key], bad |-> b]
      BY <2>1, Zenon DEF S!SavedLine
    <3> QED
      BY <3>1
  <2>3. key \in Keys
    BY DEF S!PrefOpts, Keys
  <2>4. S!Accepted(key, S!Defaults[key]) = S!Defaults[key]
    BY <2>3, DefaultsAreUsual
  <2>5. S!ReadLine(S!Defaults, lines[i]) = S!Defaults
    <3>1. PICK rt \in [Keys -> W] : rt = S!Defaults
      BY <1>2
    <3>2. [rt EXCEPT ![key] = rt[key]] = rt
      BY <2>3, <3>1
    <3> QED
      BY <2>2, <2>4, <3>1, <3>2 DEF S!ReadLine
  <2> QED
    BY <2>2, <2>3, <2>4, <2>5
<1> HIDE DEF W
<1>r. Readable(W, S!Defaults, lines, n)
  BY <1>1, <1>2, <1>3 DEF Readable
<1>s. PICK a : ReadSteps(a, W, S!Defaults, lines, n)
  BY <1>r, LinesAreRead, Zenon
<1>4. /\ a[0] = S!Defaults /\ \A k \in 1 .. n : a[k] = S!ReadLine(a[k - 1], lines[k])
      /\ AfterLines(S!Defaults, lines) = a[n]
  BY <1>s DEF ReadSteps
<1> DEFINE P == {k \in Nat : k <= n => a[k] = S!Defaults}
<1>5. 0 \in P
  BY <1>4
<1>6. ASSUME NEW k \in Nat, k \in P PROVE k + 1 \in P
  <2> SUFFICES ASSUME k + 1 <= n PROVE a[k + 1] = S!Defaults
    OBVIOUS
  <2>1. k + 1 \in 1 .. n /\ (k + 1) - 1 = k /\ k <= n
    OBVIOUS
  <2>2. a[k + 1] = S!ReadLine(a[k], lines[k + 1])
    BY <1>4, <2>1
  <2> QED
    BY <1>3, <1>6, <2>1, <2>2
<1>7. a[n] = S!Defaults
  <2>1. n \in P
    <3> HIDE DEF P
    <3> QED
      BY <1>5, <1>6, NatInductive
  <2> QED
    BY <2>1
<1>8. ~S!Saved(S!Defaults).missing
  BY DEF S!Saved
<1>9. S!LoadPrefs(S!Defaults, S!Saved(S!Defaults)) = AfterLines(S!Defaults, lines)
  BY <1>l, <1>8, Zenon DEF S!LoadPrefs, AfterLines
<1> QED
  BY <1>4, <1>7, <1>9

(* Files and command lines as the program meets them.                      *)
IsPrefsFile(file) ==
  /\ file.missing \in BOOLEAN /\ (file.missing => file.lines = <<>>)
  /\ DOMAIN file.lines = 1 .. Len(file.lines) /\ Len(file.lines) \in Nat
  /\ \A i \in DOMAIN file.lines : file.lines[i].key \in S!Numbers => file.lines[i].value \in Int
IsCommandLine(options) ==
  /\ DOMAIN options = 1 .. Len(options) /\ Len(options) \in Nat
  /\ \A i \in DOMAIN options :
       /\ options[i].name \in Names
       /\ options[i].name \in DOMAIN S!NumberOf => options[i].arg \in Int

(* What the file sets: its last line for a setting, else the default.      *)
LEMMA FileSets ==
  ASSUME NEW file, IsPrefsFile(file)
  PROVE  \E W : /\ S!LoadPrefs(S!Defaults, file) \in [Keys -> W]
                /\ \A key \in Keys :
                    LET said == {i \in DOMAIN file.lines : file.lines[i].key = key /\ S!IsSetting(file.lines[i])}
                        rt == S!LoadPrefs(S!Defaults, file)
                    IN  /\ said = {} => rt[key] = S!Defaults[key]
                        /\ said # {} => /\ S!LastIn(said) \in said
                                        /\ rt[key] = S!Accepted(key, file.lines[S!LastIn(said)].value)
<1>1. PICK lines : lines = file.lines
  OBVIOUS
<1>n. PICK n \in Nat : DOMAIN lines = 1 .. n
  BY <1>1 DEF IsPrefsFile
<1> DEFINE W == {S!Defaults[key] : key \in Keys} \cup {S!Accepted(lines[i].key, lines[i].value) : i \in 1 .. n}
<1>s. PICK sets, says :
         /\ sets = [i \in 1 .. n |-> IF S!IsSetting(lines[i]) THEN {lines[i].key} ELSE {}]
         /\ says = [i \in 1 .. n |-> S!Accepted(lines[i].key, lines[i].value)]
  OBVIOUS
<1>2. S!Defaults \in [Keys -> W]
  <2>1. S!Defaults = [key \in Keys |-> S!Defaults[key]]
    BY DEF Keys, S!Defaults
  <2> QED
    BY <2>1
<1>3. \A i \in 1 .. n : S!Accepted(lines[i].key, lines[i].value) \in W
  OBVIOUS
<1>4. PICK rt : rt = S!LoadPrefs(S!Defaults, file)
  OBVIOUS
<1> HIDE DEF W
<1>5. CASE file.missing
  <2>1. rt = S!Defaults
    BY <1>4, <1>5 DEF S!LoadPrefs
  <2>2. DOMAIN lines = {}
    BY <1>1, <1>n, <1>5 DEF IsPrefsFile
  <2>3. rt \in [Keys -> W]
    BY <1>2, <2>1
  <2> QED
    BY <1>1, <1>n, <1>4, <2>1, <2>2, <2>3
<1>6. CASE ~file.missing
  <2>1. rt = AfterLines(S!Defaults, lines)
    BY <1>1, <1>4, <1>6, Zenon DEF S!LoadPrefs, AfterLines
  <2>r. Readable(W, S!Defaults, lines, n)
    BY <1>n, <1>2, <1>3 DEF Readable
  <2>s. PICK a : ReadSteps(a, W, S!Defaults, lines, n)
    BY <2>r, LinesAreRead, Zenon
  <2>2. /\ a \in [0 .. n -> [Keys -> W]] /\ a[0] = S!Defaults
        /\ \A k \in 1 .. n : a[k] = S!ReadLine(a[k - 1], lines[k])
        /\ rt = a[n]
    BY <2>1, <2>s DEF ReadSteps
  <2>3. Words(a, n, Keys, W, sets, says)
    <3> SUFFICES ASSUME NEW k \in 1 .. n, NEW key \in Keys
                 PROVE  a[k][key] = IF key \in sets[k] THEN says[k] ELSE a[k - 1][key]
      BY <2>2 DEF Words
    <3>1. PICK before \in [Keys -> W] : before = a[k - 1]
      <4>1. k - 1 \in 0 .. n
        OBVIOUS
      <4> QED
        BY <2>2, <4>1
    <3>2. a[k] = S!ReadLine(before, lines[k])
      BY <2>2, <3>1
    <3>3. S!ReadLine(before, lines[k])[key] = IF key \in sets[k] THEN says[k] ELSE before[key]
      BY <1>s DEF S!ReadLine
    <3> QED
      BY <3>1, <3>2, <3>3
  <2>4. rt \in [Keys -> W]
    BY <2>2
  <2>5. ASSUME NEW key \in Keys, NEW said,
               said = {i \in DOMAIN file.lines : file.lines[i].key = key /\ S!IsSetting(file.lines[i])}
        PROVE  /\ said = {} => rt[key] = S!Defaults[key]
               /\ said # {} => /\ S!LastIn(said) \in said
                               /\ rt[key] = S!Accepted(key, file.lines[S!LastIn(said)].value)
    <3>1. said = {i \in 1 .. n : key \in sets[i]}
      BY <1>1, <1>n, <1>s, <2>5
    <3>2. /\ said = {} => a[n][key] = a[0][key]
          /\ said # {} => S!LastIn(said) \in said /\ a[n][key] = says[S!LastIn(said)]
      <4>1. Settled(a, n, key, sets, says)
        BY <2>3, LastWord, Zenon
      <4> QED
        BY <3>1, <4>1 DEF Settled
    <3>3. said # {} => says[S!LastIn(said)] = S!Accepted(key, file.lines[S!LastIn(said)].value)
      BY <1>1, <1>n, <1>s, <2>5, <3>1, <3>2
    <3> QED
      BY <2>2, <3>2, <3>3
  <2> QED
    BY <1>4, <2>4, <2>5
<1>7. file.missing \in BOOLEAN
  BY DEF IsPrefsFile
<1> QED
  BY <1>5, <1>6, <1>7

(* What the options set: the last one for a setting, or what was before.   *)
SetBy(options, before, rt, W) ==
  /\ rt \in [Keys -> W]
  /\ \A key \in Keys :
       LET said == {i \in DOMAIN options : CodeSets(options[i], key)}
       IN  /\ said = {} => rt[key] = before[key]
           /\ said # {} => S!LastIn(said) \in said /\ rt[key] = CodeTo(options[S!LastIn(said)])

LEMMA OptionsSet ==
  \A options, X, rt :
    IsCommandLine(options) /\ rt \in [Keys -> X] => \E W : SetBy(options, rt, AfterOptions(rt, options), W)
<1> SUFFICES ASSUME NEW options, IsCommandLine(options), NEW X, NEW rt \in [Keys -> X]
             PROVE  \E W : SetBy(options, rt, AfterOptions(rt, options), W)
  OBVIOUS
<1>n. PICK n \in Nat : DOMAIN options = 1 .. n
  BY DEF IsCommandLine
<1> DEFINE W == X \cup {CodeTo(options[i]) : i \in 1 .. n}
<1>s. PICK sets, says :
         /\ sets = [i \in 1 .. n |-> {key \in Keys : CodeSets(options[i], key)}]
         /\ says = [i \in 1 .. n |-> CodeTo(options[i])]
  OBVIOUS
<1>1. rt \in [Keys -> W] /\ \A i \in 1 .. n : options[i].name \in Names /\ CodeTo(options[i]) \in W
  BY <1>n DEF IsCommandLine
<1> HIDE DEF W
<1>2. Obeyable(W, rt, options, n)
  BY <1>n, <1>1 DEF Obeyable
<1>3. PICK a : OptionSteps(a, W, rt, options, n)
  BY <1>2, OptionsAreRead, Zenon
<1>4. PICK end : end = AfterOptions(rt, options)
  OBVIOUS
<1>5. /\ a \in [0 .. n -> [Keys -> W]] /\ a[0] = rt
      /\ \A k \in 1 .. n : a[k] = S!Option(a[k - 1], options[k])
      /\ end = a[n]
  BY <1>3, <1>4 DEF OptionSteps
<1>6. Words(a, n, Keys, W, sets, says)
  <2> SUFFICES ASSUME NEW k \in 1 .. n, NEW key \in Keys
               PROVE  a[k][key] = IF key \in sets[k] THEN says[k] ELSE a[k - 1][key]
    BY <1>5 DEF Words
  <2>1. PICK before \in [Keys -> W] : before = a[k - 1]
    <3>1. k - 1 \in 0 .. n
      OBVIOUS
    <3> QED
      BY <1>5, <3>1
  <2>2. a[k] = S!Option(before, options[k])
    BY <1>5, <2>1
  <2>3. S!Option(before, options[k])[key]
          = IF CodeSets(options[k], key) THEN CodeTo(options[k]) ELSE before[key]
    BY <1>1, OptionSets, SMTT(40)
  <2> QED
    BY <1>s, <2>1, <2>2, <2>3
<1>7. end \in [Keys -> W]
  BY <1>5
<1>8. ASSUME NEW key \in Keys, NEW said, said = {i \in DOMAIN options : CodeSets(options[i], key)}
      PROVE  /\ said = {} => end[key] = rt[key]
             /\ said # {} => S!LastIn(said) \in said /\ end[key] = CodeTo(options[S!LastIn(said)])
  <2>1. said = {i \in 1 .. n : key \in sets[i]}
    BY <1>n, <1>s, <1>8
  <2>2. Settled(a, n, key, sets, says)
    BY <1>6, LastWord, Zenon
  <2>3. /\ said = {} => a[n][key] = a[0][key]
        /\ said # {} => S!LastIn(said) \in said /\ a[n][key] = says[S!LastIn(said)]
    BY <2>1, <2>2 DEF Settled
  <2>4. said # {} => says[S!LastIn(said)] = CodeTo(options[S!LastIn(said)])
    BY <1>s, <2>1, <2>3
  <2> QED
    BY <1>5, <2>3, <2>4
<1>9. SetBy(options, rt, AfterOptions(rt, options), W)
  BY <1>4, <1>7, <1>8 DEF SetBy
<1> QED
  BY <1>9, Zenon

(* The settings in force are sane and the ones that the code has.          *)
LEMMA MainObeysCode ==
  ASSUME NEW file, IsPrefsFile(file), NEW options, IsCommandLine(options),
         ~\E i \in DOMAIN options : S!Refused(options[i])
  PROVE  CodeObeys(file, options, S!Main(file, options))
<1>1. PICK end : end = S!Main(file, options)
  OBVIOUS
<1>3. CASE ~\E i \in DOMAIN options : S!Refused(options[i])
  <2>1. PICK loaded : loaded = S!LoadPrefs(S!Defaults, file)
    OBVIOUS
  <2>2. PICK rt : rt = AfterOptions(loaded, options)
    OBVIOUS
  <2>3. /\ ~end.exits /\ end.rt = rt /\ end.lib = S!SetRuntimeValues(rt)
        /\ end.file = S!FileAfter(S!Defaults, file)
    BY <1>1, <1>3, <2>1, <2>2 DEF S!Main, AfterOptions
  <2>4. PICK X : /\ loaded \in [Keys -> X]
                 /\ \A key \in Keys :
                      LET said == {i \in DOMAIN file.lines : file.lines[i].key = key /\ S!IsSetting(file.lines[i])}
                      IN  /\ said = {} => loaded[key] = S!Defaults[key]
                          /\ said # {} => /\ S!LastIn(said) \in said
                                          /\ loaded[key] = S!Accepted(key, file.lines[S!LastIn(said)].value)
    BY <2>1, FileSets
  <2>w. PICK W : SetBy(options, loaded, rt, W)
    BY <2>2, <2>4, OptionsSet, Zenon
  <2>5. /\ rt \in [Keys -> W]
        /\ \A key \in Keys :
             LET said == {i \in DOMAIN options : CodeSets(options[i], key)}
             IN  /\ said = {} => rt[key] = loaded[key]
                 /\ said # {} => S!LastIn(said) \in said /\ rt[key] = CodeTo(options[S!LastIn(said)])
    BY <2>w DEF SetBy
  <2>6. ASSUME NEW key \in Keys, NEW opts, NEW lines, NEW asked,
               opts = {i \in DOMAIN options : CodeSets(options[i], key)},
               lines = {i \in DOMAIN file.lines : file.lines[i].key = key /\ S!IsSetting(file.lines[i])},
               asked = CodeAsked(file, options, key)
        PROVE  /\ SaneAt(key, rt[key])
               /\ S!Usual(key, asked) => rt[key] = asked
               /\ S!Usual(key, rt[key]) \/ rt[key] = asked
    <3>1. CASE opts # {}
      <4>1. PICK i \in opts : i = S!LastIn(opts) /\ rt[key] = CodeTo(options[i])
        BY <2>5, <2>6, <3>1
      <4>2. asked = rt[key]
        BY <2>6, <3>1, <4>1 DEF CodeAsked
      <4>3. SaneAt(key, CodeTo(options[i]))
        BY <1>3, <2>6, OptionIsSane DEF IsCommandLine
      <4> QED
        BY <4>1, <4>2, <4>3
    <3>2. CASE opts = {} /\ lines # {}
      <4>1. PICK i \in lines : i = S!LastIn(lines) /\ rt[key] = S!Accepted(key, file.lines[i].value)
        BY <2>4, <2>5, <2>6, <3>2
      <4>2. PICK v : v = file.lines[i].value
        OBVIOUS
      <4>3. asked = v
        BY <2>6, <3>2, <4>1, <4>2 DEF CodeAsked
      <4>4. key \in S!Numbers => v \in Int
        BY <2>6, <4>2 DEF IsPrefsFile
      <4>5. /\ SaneAt(key, S!Accepted(key, v)) /\ S!Usual(key, S!Accepted(key, v))
            /\ S!Usual(key, v) => S!Accepted(key, v) = v
        BY <4>4, AcceptedIsUsual
      <4> QED
        BY <4>1, <4>2, <4>3, <4>5
    <3>3. CASE opts = {} /\ lines = {}
      <4>1. rt[key] = S!Defaults[key]
        BY <2>4, <2>5, <2>6, <3>3
      <4>2. asked = S!Defaults[key]
        BY <2>6, <3>3 DEF CodeAsked
      <4> QED
        BY <4>1, <4>2, DefaultsAreUsual
    <3> QED
      BY <3>1, <3>2, <3>3
  <2>7. S!Sane(rt)
    BY <2>5, <2>6, AllSane
  <2>8. \A key \in S!Passed : end.lib[key] = rt[key]
    BY <2>3 DEF S!SetRuntimeValues, S!ProzInit
  <2>9. S!Main(end.file, options).rt = rt
    <3>1. S!LoadPrefs(S!Defaults, end.file) = loaded
      <4>1. CASE file.missing
        <5>1. end.file = S!Saved(S!Defaults) /\ loaded = S!Defaults
          BY <2>1, <2>3, <4>1 DEF S!FileAfter, S!LoadPrefs
        <5> QED
          BY <5>1, DefaultsReload
      <4>2. CASE ~file.missing
        <5>1. end.file = file
          BY <2>3, <4>2 DEF S!FileAfter
        <5> QED
          BY <2>1, <5>1
      <4> QED
        BY <4>1, <4>2
    <3> QED
      BY <1>3, <2>2, <3>1 DEF S!Main, AfterOptions
  <2>10. \A key \in Keys :
           LET asked == CodeAsked(file, options, key)
           IN  /\ S!Usual(key, asked) => end.rt[key] = asked
               /\ S!Usual(key, end.rt[key]) \/ end.rt[key] = asked
               /\ key \in S!Passed => end.lib[key] = end.rt[key]
    BY <2>3, <2>6, <2>8
  <2> QED
    BY <1>1, <1>3, <2>3, <2>7, <2>9, <2>10 DEF CodeObeys, Keys
<1> QED
  BY <1>3

(* The documentation and the code have the same options for a setting, but *)
(* for those of which the documentation is wrong.                          *)
LEMMA SaidIsDone ==
  ASSUME NEW o, o.name \in Names, NEW key \in S!Heeded, key \notin {"resume", "netrc"}
  PROVE  (S!Sets(o, key) <=> CodeSets(o, key)) /\ (S!Sets(o, key) => S!To(o) = CodeTo(o))
<1>0. key \notin {"resume", "netrc", "timeout"}
  BY DEF S!Heeded
<1>1. CASE o.name \in DOMAIN S!NumberOf
  <2>0. o.name \notin DOMAIN S!FlagOf /\ o.name \notin {"debug", "P"}
    BY <1>1, NamesAre
  <2>1. o.name \notin DOMAIN S!SaidOfFlags /\ o.name \in DOMAIN S!SaidOfArguments
    BY <1>1, NamesAre DEF S!SaidOfFlags, S!SaidOfArguments
  <2>2. CASE o.name = "timeout"
    <3>1. ~S!Sets(o, key)
      BY <2>2 DEF S!Sets, S!Unkept
    <3>2. S!NumberOf[o.name] = "timeout"
      BY <2>2 DEF S!NumberOf
    <3> QED
      BY <1>0, <2>0, <3>1, <3>2 DEF CodeSets
  <2>3. CASE o.name # "timeout"
    <3>1. S!SaidOfArguments[o.name] = S!NumberOf[o.name] /\ o.name \notin S!Unkept
      BY <1>1, <2>3, NamesAre DEF S!NumberOf, S!SaidOfArguments, S!Unkept
    <3>2. S!Sets(o, key) <=> S!NumberOf[o.name] = key
      BY <2>1, <3>1 DEF S!Sets
    <3>3. CodeSets(o, key) <=> S!NumberOf[o.name] = key
      BY <1>1, <2>0 DEF CodeSets
    <3> QED
      BY <2>0, <2>1, <3>2, <3>3 DEF S!To, CodeTo
  <2> QED
    BY <2>2, <2>3
<1>2. CASE o.name \in DOMAIN S!FlagOf
  <2>0. o.name \notin DOMAIN S!NumberOf /\ o.name \notin {"debug", "P"}
    BY <1>2, NamesAre
  <2>1. o.name \in DOMAIN S!SaidOfFlags /\ o.name \notin DOMAIN S!SaidOfArguments
    BY <1>2, NamesAre DEF S!SaidOfFlags, S!SaidOfArguments
  <2>2. CASE o.name \in {"resume", "no_netrc"}
    <3>1. ~S!Sets(o, key)
      BY <2>2 DEF S!Sets, S!Unkept
    <3>2. S!FlagOf[o.name][1] \in {"resume", "netrc"}
      BY <2>2 DEF S!FlagOf
    <3> QED
      BY <1>0, <2>0, <3>1, <3>2 DEF CodeSets
  <2>3. CASE o.name \notin {"resume", "no_netrc"}
    <3>1. o.name \notin S!Unkept
      BY <1>2, <2>3, NamesAre DEF S!Unkept
    <3>2. /\ S!SaidOfFlags[o.name].keys = {S!FlagOf[o.name][1]}
          /\ S!SaidOfFlags[o.name].to = S!FlagOf[o.name][2]
      <4>1. CASE o.name \in {"one", "use_port", "search"}
        BY <4>1 DEF S!FlagOf, S!SaidOfFlags, S!Yes, S!No
      <4>2. CASE o.name \in {"no_search", "no_curses", "verbose"}
        BY <4>2 DEF S!FlagOf, S!SaidOfFlags, S!Yes, S!No
      <4>3. CASE o.name \in {"force", "no_getch"}
        BY <4>3 DEF S!FlagOf, S!SaidOfFlags, S!Yes, S!No
      <4> QED
        BY <1>2, <2>3, <4>1, <4>2, <4>3, NamesAre
    <3>3. S!Sets(o, key) <=> S!FlagOf[o.name][1] = key
      BY <2>1, <3>1, <3>2 DEF S!Sets
    <3>4. CodeSets(o, key) <=> S!FlagOf[o.name][1] = key
      BY <1>2, <2>0 DEF CodeSets
    <3> QED
      BY <1>2, <2>1, <3>2, <3>3, <3>4 DEF S!To, CodeTo
  <2> QED
    BY <2>2, <2>3
<1>3. CASE o.name = "debug"
  <2>1. o.name \notin DOMAIN S!NumberOf /\ o.name \notin DOMAIN S!FlagOf
    BY <1>3, NamesAre
  <2>2. /\ o.name \in DOMAIN S!SaidOfFlags /\ o.name \notin DOMAIN S!SaidOfArguments /\ o.name \notin S!Unkept
        /\ S!SaidOfFlags[o.name].keys = {"debug", "libdebug"} /\ S!SaidOfFlags[o.name].to = S!Yes
    BY <1>3 DEF S!SaidOfFlags, S!SaidOfArguments, S!Unkept
  <2>3. (S!Sets(o, key) <=> key \in {"debug", "libdebug"}) /\ S!To(o) = S!Yes
    BY <2>2 DEF S!Sets, S!To
  <2>4. (CodeSets(o, key) <=> key \in {"debug", "libdebug"}) /\ CodeTo(o) = S!Yes
    BY <1>3, <2>1 DEF CodeSets, CodeTo
  <2> QED
    BY <2>3, <2>4
<1>4. CASE o.name = "P"
  <2>1. o.name \notin DOMAIN S!NumberOf /\ o.name \notin DOMAIN S!FlagOf
    BY <1>4, NamesAre
  <2>2. /\ o.name \notin DOMAIN S!SaidOfFlags /\ o.name \in DOMAIN S!SaidOfArguments /\ o.name \notin S!Unkept
        /\ S!SaidOfArguments[o.name] = "directory"
    BY <1>4 DEF S!SaidOfFlags, S!SaidOfArguments, S!Unkept
  <2>3. (S!Sets(o, key) <=> key = "directory") /\ S!To(o) = o.arg
    BY <2>2 DEF S!Sets, S!To
  <2>4. (CodeSets(o, key) <=> key = "directory") /\ CodeTo(o) = o.arg
    BY <1>4, <2>1 DEF CodeSets, CodeTo
  <2> QED
    BY <2>3, <2>4
<1> QED
  BY <1>1, <1>2, <1>3, <1>4 DEF Names

(* The three options of which the documentation is wrong set nothing that  *)
(* is in force: resume has one value, and the library keeps its own netrc. *)
LEMMA NothingElse ==
  ASSUME NEW o, o.name \in Names
  PROVE  /\ ~S!Sets(o, "resume") /\ ~S!Sets(o, "netrc")
         /\ CodeSets(o, "resume") => CodeTo(o) = S!No
<1>1. o.name \in DOMAIN S!SaidOfFlags =>
        \/ o.name \in S!Unkept
        \/ "resume" \notin S!SaidOfFlags[o.name].keys /\ "netrc" \notin S!SaidOfFlags[o.name].keys
  BY DEF S!SaidOfFlags, S!Unkept
<1>2. o.name \in DOMAIN S!SaidOfArguments =>
        S!SaidOfArguments[o.name] # "resume" /\ S!SaidOfArguments[o.name] # "netrc"
  BY DEF S!SaidOfArguments
<1>3. CodeSets(o, "resume") => o.name = "resume"
  <2>1. o.name \in DOMAIN S!NumberOf => S!NumberOf[o.name] # "resume"
    BY DEF S!NumberOf
  <2>2. o.name \in DOMAIN S!FlagOf /\ o.name # "resume" => S!FlagOf[o.name][1] # "resume"
    BY DEF S!FlagOf
  <2> QED
    BY <2>1, <2>2 DEF CodeSets
<1>4. o.name = "resume" => CodeTo(o) = S!No
  BY NamesAre DEF CodeTo, S!FlagOf
<1> QED
  BY <1>1, <1>2, <1>3, <1>4 DEF S!Sets

(* A default that is documented and kept is the code's.                    *)
LEMMA DefaultIsDone ==
  \A key \in Keys : S!DefaultFor(key) = S!Defaults[key]
<1>1. \A key \in DOMAIN S!SaidDefaults \ S!UnkeptDefaults : S!SaidDefaults[key] = S!Defaults[key]
  <2>1. DOMAIN S!SaidDefaults \ S!UnkeptDefaults = {"threads", "retrydelay", "pasv", "maxsimulpings", "mirrorsreq"}
    BY DEF S!SaidDefaults, S!UnkeptDefaults
  <2>2. /\ S!SaidDefaults["threads"] = 4 /\ S!SaidDefaults["retrydelay"] = 15
        /\ S!SaidDefaults["pasv"] = S!Yes
        /\ S!SaidDefaults["maxsimulpings"] = 5 /\ S!SaidDefaults["mirrorsreq"] = 40
    BY DEF S!SaidDefaults
  <2>3. /\ S!Defaults["threads"] = 4 /\ S!Defaults["retrydelay"] = 15
        /\ S!Defaults["pasv"] = S!Yes
        /\ S!Defaults["maxsimulpings"] = 5 /\ S!Defaults["mirrorsreq"] = 40
    BY DEF S!Defaults
  <2> QED
    BY <2>1, <2>2, <2>3
<1> QED
  BY <1>1 DEF S!DefaultFor

(* One of several positions is the last.                                   *)
LEMMA LastIsIn ==
  ASSUME NEW n \in Nat, NEW said, said \subseteq 1 .. n, said # {}
  PROVE  S!LastIn(said) \in said
<1>1. PICK i \in said : \A j \in said : j <= i
  BY TopExists
<1> QED
  BY <1>1 DEF S!LastIn

(* The settings in force are sane and the ones that were asked for.        *)
LEMMA MainObeys ==
  ASSUME NEW file, IsPrefsFile(file), NEW options, IsCommandLine(options)
  PROVE  S!Obeys(file, options, S!Main(file, options))
<1>1. PICK end : end = S!Main(file, options)
  OBVIOUS
<1>2. CASE \E i \in DOMAIN options : S!Refused(options[i])
  <2>1. end.exits
    BY <1>1, <1>2 DEF S!Main, S!Exits
  <2> QED
    BY <1>1, <1>2, <2>1 DEF S!Obeys
<1>3. CASE ~\E i \in DOMAIN options : S!Refused(options[i])
  <2>1. CodeObeys(file, options, end)
    BY <1>1, <1>3, MainObeysCode
  <2>2. PICK rt, lib : rt = end.rt /\ lib = end.lib /\ lib = S!SetRuntimeValues(rt)
    BY <1>1, <1>3 DEF S!Main
  <2>3. /\ DOMAIN lib = S!Passed \cup {"netrc"}
        /\ lib["netrc"] = S!Yes /\ \A key \in S!Passed : lib[key] = rt[key]
    <3>1. DOMAIN S!ProzInit = S!Passed \cup {"netrc"}
      BY DEF S!ProzInit
    <3>2. S!ProzInit["netrc"] = S!Yes
      BY DEF S!ProzInit, S!Defaults
    <3>3. "netrc" \notin S!Passed
      BY DEF S!Passed
    <3> QED
      BY <2>2, <3>1, <3>2, <3>3 DEF S!SetRuntimeValues
  <2>4. ASSUME NEW key \in S!Heeded, NEW opts, NEW lines, NEW asked,
               opts = {i \in DOMAIN options : S!Sets(options[i], key)},
               lines = {i \in DOMAIN file.lines : file.lines[i].key = key /\ S!IsSetting(file.lines[i])},
               asked = S!AskedFor(file, options, key)
        PROVE  /\ S!Usual(key, asked) => S!InForce(end, key) = asked
               /\ S!Usual(key, S!InForce(end, key)) \/ S!InForce(end, key) = asked
    <3>0. key \in Keys /\ S!DefaultFor(key) = S!Defaults[key]
      BY DefaultIsDone DEF S!Heeded, Keys
    <3>1. CASE key \in {"resume", "netrc"}
      <4>1. opts = {}
        BY <2>4, <3>1, NothingElse DEF IsCommandLine
      <4>2. lines = {}
        BY <2>4, <3>1 DEF S!IsSetting, S!PrefOpts
      <4>3. asked = S!Defaults[key]
        BY <2>4, <3>0, <4>1, <4>2 DEF S!AskedFor
      <4>4. CASE key = "netrc"
        <5>1. S!InForce(end, key) = S!Yes /\ asked = S!Yes
          BY <2>2, <2>3, <4>3, <4>4 DEF S!InForce, S!Defaults
        <5> QED
          BY <5>1
      <4>5. CASE key = "resume"
        <5>1. S!InForce(end, key) = rt[key]
          BY <2>2, <2>3, <4>5 DEF S!InForce, S!Passed
        <5>2. asked = S!No
          BY <4>3, <4>5 DEF S!Defaults
        <5>3. CodeAsked(file, options, key) = S!No
          <6>1. PICK said : said = {i \in DOMAIN options : CodeSets(options[i], key)}
            OBVIOUS
          <6>2. CASE said = {}
            BY <2>4, <4>2, <4>3, <5>2, <6>1, <6>2 DEF CodeAsked
          <6>3. CASE said # {}
            <7>1. S!LastIn(said) \in said
              BY <6>1, <6>3, LastIsIn DEF IsCommandLine
            <7>2. options[S!LastIn(said)].name \in Names /\ CodeSets(options[S!LastIn(said)], "resume")
              BY <4>5, <6>1, <7>1 DEF IsCommandLine
            <7>3. CodeTo(options[S!LastIn(said)]) = S!No
              BY <7>2, NothingElse
            <7> QED
              BY <6>1, <6>3, <7>3 DEF CodeAsked
          <6> QED
            BY <6>2, <6>3
        <5>4. S!Usual(key, S!No)
          BY <4>5 DEF S!Usual
        <5>5. rt[key] = S!No
          BY <2>1, <2>2, <3>0, <5>3, <5>4 DEF CodeObeys, Keys
        <5> QED
          BY <5>1, <5>2, <5>5
      <4> QED
        BY <3>1, <4>4, <4>5
    <3>2. CASE key \notin {"resume", "netrc"}
      <4>1. S!InForce(end, key) = rt[key]
        BY <2>2, <2>3, <3>2 DEF S!InForce
      <4>2. \A i \in DOMAIN options : /\ S!Sets(options[i], key) <=> CodeSets(options[i], key)
                                      /\ S!Sets(options[i], key) => S!To(options[i]) = CodeTo(options[i])
        BY <3>2, SaidIsDone DEF IsCommandLine
      <4>o. opts = {i \in DOMAIN options : S!Sets(options[i], key)}
        BY <2>4, Zenon
      <4>3. opts = {i \in DOMAIN options : CodeSets(options[i], key)}
        <5>1. \A i \in DOMAIN options : S!Sets(options[i], key) <=> CodeSets(options[i], key)
          BY <4>2
        <5> QED
          BY <4>o, <5>1
      <4>4. asked = CodeAsked(file, options, key)
        <5>1. CASE opts # {}
          <6>1. S!LastIn(opts) \in opts
            BY <2>4, <5>1, LastIsIn DEF IsCommandLine
          <6>2. S!To(options[S!LastIn(opts)]) = CodeTo(options[S!LastIn(opts)])
            <7>1. S!LastIn(opts) \in DOMAIN options /\ S!Sets(options[S!LastIn(opts)], key)
              BY <4>o, <6>1
            <7> QED
              BY <4>2, <7>1
          <6>3. asked = S!To(options[S!LastIn(opts)])
            BY <2>4, <5>1 DEF S!AskedFor
          <6>4. CodeAsked(file, options, key) = CodeTo(options[S!LastIn(opts)])
            BY <4>3, <5>1 DEF CodeAsked
          <6> QED
            BY <6>2, <6>3, <6>4
        <5>2. CASE opts = {}
          <6>1. asked = IF lines # {} THEN file.lines[S!LastIn(lines)].value ELSE S!Defaults[key]
            BY <2>4, <3>0, <5>2 DEF S!AskedFor
          <6>2. CodeAsked(file, options, key)
                  = IF lines # {} THEN file.lines[S!LastIn(lines)].value ELSE S!Defaults[key]
            BY <2>4, <4>3, <5>2 DEF CodeAsked
          <6> QED
            BY <6>1, <6>2
        <5> QED
          BY <5>1, <5>2
      <4> QED
        BY <2>1, <2>2, <3>0, <4>1, <4>4 DEF CodeObeys, Keys
    <3> QED
      BY <3>1, <3>2
  <2>5. \A key \in S!Heeded :
          LET asked == S!AskedFor(file, options, key)
          IN /\ S!Usual(key, asked) => S!InForce(end, key) = asked
             /\ S!Usual(key, S!InForce(end, key)) \/ S!InForce(end, key) = asked
    BY <2>4
  <2>6. ~end.exits /\ S!Sane(end.rt) /\ S!Main(end.file, options).rt = end.rt
    BY <2>1 DEF CodeObeys
  <2> QED
    BY <1>1, <1>3, <2>5, <2>6 DEF S!Obeys
<1> QED
  BY <1>2, <1>3

(* One start obeys the file and the options.                                *)
LEMMA StartUpObeys == StartUp => SettingsObeyed'
<1> SUFFICES ASSUME StartUp PROVE SettingsObeyed'
  OBVIOUS
<1>1. PICK file \in PrefsFiles, options \in CommandLines :
        Call([of |-> "settings", file |-> file, options |-> options], S!Main(file, options))
  BY Zenon DEF StartUp
<1>2. IsPrefsFile(file) /\ IsCommandLine(options)
  BY InputsAssumption DEF IsPrefsFile, IsCommandLine, Names
<1>3. S!Obeys(file, options, S!Main(file, options))
  BY <1>2, MainObeys
<1>4. job'.file = file /\ job'.options = options /\ got' = S!Main(file, options)
  BY <1>1 DEF Call
<1> QED
  BY <1>3, <1>4 DEF SettingsObeyed

-----------------------------------------------------------------------------
(***************************************************************************)
(* The accounts of ~/.netrc: where the parser is after some tokens and     *)
(* lines.                                                                  *)
(***************************************************************************)

(* The parser's state, and an entry.                                       *)
St(l, o, c, s) == [last |-> l, isOpen |-> o, current |-> c, list |-> s]
Ent(h, a, w) == [host |-> h, account |-> a, password |-> w]
Yes == TRUE
Added(o, c, s) == IF o /\ c.account # A!None THEN Append(s, c) ELSE s

(* One field of a state, and one of an entry, is changed.                  *)
LEMMA FieldsChange ==
  \A l, o, c, s, x, p : p = [last |-> l, isOpen |-> o, current |-> c, list |-> s] =>
    /\ [p EXCEPT !.last = x] = [last |-> x, isOpen |-> o, current |-> c, list |-> s]
    /\ [p EXCEPT !.isOpen = x] = [last |-> l, isOpen |-> x, current |-> c, list |-> s]
    /\ [p EXCEPT !.current = x] = [last |-> l, isOpen |-> o, current |-> x, list |-> s]
    /\ [p EXCEPT !.list = x] = [last |-> l, isOpen |-> o, current |-> c, list |-> x]
    /\ p.last = l /\ p.isOpen = o /\ p.current = c /\ p.list = s
  OBVIOUS

(* An entry with one of its parts replaced.                                *)
LEMMA EntryChanges ==
  \A h, a, w, x, e : e = [host |-> h, account |-> a, password |-> w] =>
    /\ [e EXCEPT !.host = x] = [host |-> x, account |-> a, password |-> w]
    /\ [e EXCEPT !.account = x] = [host |-> h, account |-> x, password |-> w]
    /\ [e EXCEPT !.password = x] = [host |-> h, account |-> a, password |-> x]
  OBVIOUS

(* An entry that is complete enough goes to the list, and the next begins  *)
(* (maybe_add_to_list).                                                    *)
LEMMA AddingIs ==
  \A l, o, c, s : A!MaybeAdd(St(l, o, c, s)) = St(l, Yes, Ent(A!None, A!None, A!None), Added(o, c, s))
<1> TAKE l, o, c, s
<1>1. PICK p, b, e, t : p = St(l, o, c, s) /\ b = Yes /\ e = A!NoEntry /\ t = Added(o, c, s)
  OBVIOUS
<1>2. p = [last |-> l, isOpen |-> o, current |-> c, list |-> s]
  BY <1>1 DEF St
<1>3. p.list = s /\ p.current = c /\ p.isOpen = o
  BY <1>2
<1>4. A!MaybeAdd(p) = [p EXCEPT !.list = t, !.isOpen = b, !.current = e]
  BY <1>1, <1>3, Zenon DEF A!MaybeAdd, Added, Yes
<1>5. [p EXCEPT !.list = t, !.isOpen = b, !.current = e] = [last |-> l, isOpen |-> b, current |-> e, list |-> t]
  <2>1. PICK q : q = [p EXCEPT !.list = t]
    OBVIOUS
  <2>2. q = [last |-> l, isOpen |-> o, current |-> c, list |-> t]
    BY <1>2, <2>1, FieldsChange
  <2>r. PICK r : r = [q EXCEPT !.isOpen = b]
    OBVIOUS
  <2>3. r = [last |-> l, isOpen |-> b, current |-> c, list |-> t]
    BY <2>r, <2>2, FieldsChange
  <2>4. [r EXCEPT !.current = e] = [last |-> l, isOpen |-> b, current |-> e, list |-> t]
    BY <2>3, FieldsChange
  <2> QED
    BY <2>1, <2>r, <2>4
<1>6. e = Ent(A!None, A!None, A!None)
  BY <1>1, Zenon DEF A!NoEntry, Ent
<1> QED
  BY <1>1, <1>4, <1>5, <1>6, Zenon DEF St

(* What a token does.                                                      *)
LEMMA DefaultIs ==
  \A o, c, s : A!Token(St("nothing", o, c, s), "default") = A!MaybeAdd(St("nothing", o, c, s))
<1> TAKE o, c, s
<1>1. St("nothing", o, c, s).last = "nothing"
  BY DEF St
<1> QED
  BY <1>1, Zenon DEF A!Token

(* Where a keyword is expected, the token decides what comes next          *)
(* (parse_netrc).                                                          *)
LEMMA KeywordIs ==
  \A o, c, s, t : t # "default" => A!Token(St("nothing", o, c, s), t) = St(A!Keyword(t), o, c, s)
<1> TAKE o, c, s, t
<1> HAVE t # "default"
<1>1. PICK p, k : p = St("nothing", o, c, s) /\ k = A!Keyword(t)
  OBVIOUS
<1>2. p = [last |-> "nothing", isOpen |-> o, current |-> c, list |-> s]
  BY <1>1 DEF St
<1>3. p.last = "nothing"
  BY <1>2
<1>4. A!Token(p, t) = [p EXCEPT !.last = k]
  BY <1>1, <1>3, Zenon DEF A!Token
<1>5. [p EXCEPT !.last = k] = [last |-> k, isOpen |-> o, current |-> c, list |-> s]
  BY <1>2
<1> QED
  BY <1>1, <1>4, <1>5, Zenon DEF St

(* A value goes to the entry that is being read (parse_netrc).             *)
LEMMA ValueIs ==
  \A l, o, c, s, t :
    /\ A!Token(St("machine", o, c, s), t) = St("nothing", Yes, Ent(t, A!None, A!None), Added(o, c, s))
    /\ \A h, a, w : A!Token(St("login", Yes, Ent(h, a, w), s), t) = St("nothing", Yes, Ent(h, t, w), s)
    /\ \A h, a, w : A!Token(St("password", Yes, Ent(h, a, w), s), t) = St("nothing", Yes, Ent(h, a, t), s)
    /\ l \notin {"nothing", "machine"} /\ (o = FALSE \/ l \notin {"login", "password"})
         => A!Token(St(l, o, c, s), t) = St("nothing", o, c, s)
<1> TAKE l, o, c, s, t
<1>a. ASSUME NEW p, NEW k, NEW x, NEW d, NEW z, p = St(k, x, d, z)
      PROVE  /\ p.last = k /\ p.isOpen = x /\ p = [last |-> k, isOpen |-> x, current |-> d, list |-> z]
             /\ p.current = d
  BY <1>a DEF St
<1>1. A!Token(St("machine", o, c, s), t) = St("nothing", Yes, Ent(t, A!None, A!None), Added(o, c, s))
  <2>1. PICK p, q, n, y : p = St("machine", o, c, s) /\ q = A!MaybeAdd(p) /\ n = A!None /\ y = Added(o, c, s)
    OBVIOUS
  <2>2. PICK b : b = Yes
    OBVIOUS
  <2>3. q = St("machine", b, Ent(n, n, n), y)
    <3>1. q = A!MaybeAdd(St("machine", o, c, s))
      BY <2>1
    <3> QED
      BY <2>1, <2>2, <3>1, AddingIs
  <2>4. q = [last |-> "machine", isOpen |-> b, current |-> [host |-> n, account |-> n, password |-> n], list |-> y]
    BY <2>3 DEF St, Ent
  <2>5. [q EXCEPT !.current.host = t, !.last = "nothing"] =
          [last |-> "nothing", isOpen |-> b, current |-> [host |-> t, account |-> n, password |-> n], list |-> y]
    <3>1. PICK e, r : e = q.current /\ r = [q EXCEPT !.current = [e EXCEPT !.host = t]]
      OBVIOUS
    <3>2. e = [host |-> n, account |-> n, password |-> n]
      BY <2>4, <3>1
    <3>d. PICK d : d = [e EXCEPT !.host = t]
      OBVIOUS
    <3>3. d = [e EXCEPT !.host = t] /\ d = [host |-> t, account |-> n, password |-> n]
      BY <3>2, <3>d, EntryChanges
    <3>4. r = [last |-> "machine", isOpen |-> b, current |-> d, list |-> y]
      BY <2>4, <3>1, <3>3
    <3>5. [r EXCEPT !.last = "nothing"] = [last |-> "nothing", isOpen |-> b, current |-> d, list |-> y]
      BY <3>4
    <3>6. [q EXCEPT !.current.host = t, !.last = "nothing"] = [r EXCEPT !.last = "nothing"]
      BY <3>1
    <3> QED
      BY <3>3, <3>5, <3>6
  <2>6. A!Token(p, t) = [q EXCEPT !.current.host = t, !.last = "nothing"]
    <3>1. p.last = "machine"
      BY <1>a, <2>1
    <3> QED
      BY <2>1, <3>1, Zenon DEF A!Token, A!Value
  <2> QED
    BY <2>1, <2>2, <2>5, <2>6, Zenon DEF St, Ent
<1>2. ASSUME NEW h, NEW a, NEW w
      PROVE  /\ A!Token(St("login", Yes, Ent(h, a, w), s), t) = St("nothing", Yes, Ent(h, t, w), s)
             /\ A!Token(St("password", Yes, Ent(h, a, w), s), t) = St("nothing", Yes, Ent(h, a, t), s)
  <2>1. PICK b, p, q : b = Yes /\ p = St("login", b, Ent(h, a, w), s) /\ q = St("password", b, Ent(h, a, w), s)
    OBVIOUS
  <2>2. /\ p = [last |-> "login", isOpen |-> b, current |-> [host |-> h, account |-> a, password |-> w], list |-> s]
        /\ q = [last |-> "password", isOpen |-> b, current |-> [host |-> h, account |-> a, password |-> w], list |-> s]
    BY <2>1 DEF St, Ent
  <2>3. /\ [p EXCEPT !.current.account = t, !.last = "nothing"] =
             [last |-> "nothing", isOpen |-> b, current |-> [host |-> h, account |-> t, password |-> w], list |-> s]
        /\ [q EXCEPT !.current.password = t, !.last = "nothing"] =
             [last |-> "nothing", isOpen |-> b, current |-> [host |-> h, account |-> a, password |-> t], list |-> s]
    <3>1. PICK e, d, f : e = [host |-> h, account |-> a, password |-> w]
                         /\ d = [host |-> h, account |-> t, password |-> w] /\ f = [host |-> h, account |-> a, password |-> t]
      OBVIOUS
    <3>2. p.current = e /\ q.current = e
      BY <2>2, <3>1
    <3>3. [e EXCEPT !.account = t] = d /\ [e EXCEPT !.password = t] = f
      BY <3>1
    <3>4. PICK r, u : r = [p EXCEPT !.current = d] /\ u = [q EXCEPT !.current = f]
      OBVIOUS
    <3>5. /\ r = [last |-> "login", isOpen |-> b, current |-> d, list |-> s]
          /\ u = [last |-> "password", isOpen |-> b, current |-> f, list |-> s]
      BY <2>2, <3>1, <3>4
    <3>6. /\ [r EXCEPT !.last = "nothing"] = [last |-> "nothing", isOpen |-> b, current |-> d, list |-> s]
          /\ [u EXCEPT !.last = "nothing"] = [last |-> "nothing", isOpen |-> b, current |-> f, list |-> s]
      BY <3>5
    <3>7. /\ [p EXCEPT !.current.account = t, !.last = "nothing"] = [r EXCEPT !.last = "nothing"]
          /\ [q EXCEPT !.current.password = t, !.last = "nothing"] = [u EXCEPT !.last = "nothing"]
      BY <3>2, <3>3, <3>4
    <3> QED
      BY <3>1, <3>6, <3>7
  <2>4. p.last = "login" /\ p.isOpen = b /\ q.last = "password" /\ q.isOpen = b
    BY <2>2
  <2>5. A!Token(p, t) = [p EXCEPT !.current.account = t, !.last = "nothing"]
    BY <2>1, <2>4, Zenon DEF A!Token, A!Value, Yes
  <2>6. A!Token(q, t) = [q EXCEPT !.current.password = t, !.last = "nothing"]
    BY <2>1, <2>4, Zenon DEF A!Token, A!Value, Yes
  <2> QED
    BY <2>1, <2>3, <2>5, <2>6, Zenon DEF St, Ent
<1>3. ASSUME l \notin {"nothing", "machine"}, o = FALSE \/ l \notin {"login", "password"}
      PROVE  A!Token(St(l, o, c, s), t) = St("nothing", o, c, s)
  <2>1. PICK p : p = St(l, o, c, s)
    OBVIOUS
  <2>2. p = [last |-> l, isOpen |-> o, current |-> c, list |-> s]
    BY <2>1 DEF St
  <2>3. [p EXCEPT !.last = "nothing"] = [last |-> "nothing", isOpen |-> o, current |-> c, list |-> s]
    BY <2>2
  <2>4. p.last = l /\ p.isOpen = o
    BY <2>2
  <2>5. A!Token(p, t) = [p EXCEPT !.last = "nothing"]
    BY <1>3, <2>4, Zenon DEF A!Token, A!Value
  <2> QED
    BY <2>1, <2>3, <2>5, Zenon DEF St
<1> QED
  BY <1>1, <1>2, <1>3

(* One step of the parser: the rest of a macro's line is skipped.          *)
Feed(p, t) == IF p.last = "macdef" THEN p ELSE A!Token(p, t)

(* The states it can be in when the tokens are those of W.                 *)
Expected == {"nothing", "login", "password", "machine", "macdef", "account"}
Entries(W) == [host : W \cup {A!None}, account : W \cup {A!None}, password : W \cup {A!None}]
States(W) == [last : Expected, isOpen : BOOLEAN, current : Entries(W), list : Seq(Entries(W))]

(* The entries of some words.                                              *)
LEMMA EntriesAre ==
  \A W : /\ \A h, a, w \in W \cup {A!None} : Ent(h, a, w) \in Entries(W)
         /\ \A e \in Entries(W) : \E h, a, w \in W \cup {A!None} : e = Ent(h, a, w)
<1> SUFFICES ASSUME NEW W
             PROVE  /\ \A h, a, w \in W \cup {A!None} : Ent(h, a, w) \in Entries(W)
                    /\ \A e \in Entries(W) : \E h, a, w \in W \cup {A!None} : e = Ent(h, a, w)
  OBVIOUS
<1>1. PICK X : X = W \cup {A!None}
  OBVIOUS
<1>2. Entries(W) = [host : X, account : X, password : X]
  BY <1>1 DEF Entries
<1>3. \A h, a, w \in X : Ent(h, a, w) \in Entries(W)
  BY <1>2 DEF Ent
<1>4. ASSUME NEW e \in Entries(W) PROVE \E h, a, w \in X : e = Ent(h, a, w)
  <2>1. e = Ent(e.host, e.account, e.password) /\ e.host \in X /\ e.account \in X /\ e.password \in X
    BY <1>2 DEF Ent
  <2> QED
    BY <2>1
<1> QED
  BY <1>1, <1>3, <1>4

(* The states of a parser of some words.                                   *)
LEMMA StatesAre ==
  \A W : /\ \A l \in Expected, o \in BOOLEAN, c \in Entries(W), s \in Seq(Entries(W)) : St(l, o, c, s) \in States(W)
         /\ \A p \in States(W) : \E l \in Expected, o \in BOOLEAN, c \in Entries(W), s \in Seq(Entries(W)) : p = St(l, o, c, s)
<1> SUFFICES ASSUME NEW W
             PROVE  /\ \A l \in Expected, o \in BOOLEAN, c \in Entries(W), s \in Seq(Entries(W)) : St(l, o, c, s) \in States(W)
                    /\ \A p \in States(W) : \E l \in Expected, o \in BOOLEAN, c \in Entries(W), s \in Seq(Entries(W)) : p = St(l, o, c, s)
  OBVIOUS
<1>1. PICK C, S1, B, L : C = Entries(W) /\ S1 = Seq(Entries(W)) /\ B = BOOLEAN /\ L = Expected
  OBVIOUS
<1>2. States(W) = [last : L, isOpen : B, current : C, list : S1]
  BY <1>1 DEF States
<1>3. \A l \in L, o \in B, c \in C, s \in S1 : St(l, o, c, s) \in States(W)
  BY <1>2 DEF St
<1>4. ASSUME NEW p \in States(W) PROVE \E l \in L, o \in B, c \in C, s \in S1 : p = St(l, o, c, s)
  <2>1. /\ p = St(p.last, p.isOpen, p.current, p.list)
        /\ p.last \in L /\ p.isOpen \in B /\ p.current \in C /\ p.list \in S1
    BY <1>2 DEF St
  <2> QED
    BY <2>1, Zenon
<1> QED
  BY <1>1, <1>3, <1>4

(* What comes next is one of the things that may.                          *)
LEMMA KeywordExpected == \A t : A!Keyword(t) \in Expected
  BY Zenon DEF A!Keyword, Expected

(* A token leads from such a state to such a state.                        *)
LEMMA FeedTyped == \A W : \A p \in States(W), t \in W : Feed(p, t) \in States(W)
<1> SUFFICES ASSUME NEW W, NEW p \in States(W), NEW t \in W PROVE Feed(p, t) \in States(W)
  OBVIOUS
<1>1. PICK l \in Expected, o \in BOOLEAN, c \in Entries(W), s \in Seq(Entries(W)) : p = St(l, o, c, s)
  BY StatesAre
<1>2. p.last = l
  <2>1. p = [last |-> l, isOpen |-> o, current |-> c, list |-> s]
    BY <1>1 DEF St
  <2> QED
    BY <2>1
<1>3. Added(o, c, s) \in Seq(Entries(W)) /\ Yes \in BOOLEAN /\ "nothing" \in Expected
      /\ Ent(A!None, A!None, A!None) \in Entries(W) /\ Ent(t, A!None, A!None) \in Entries(W)
  <2>1. Append(s, c) \in Seq(Entries(W))
    OBVIOUS
  <2>2. Added(o, c, s) \in Seq(Entries(W))
    BY <2>1, Zenon DEF Added
  <2>3. Ent(A!None, A!None, A!None) \in Entries(W) /\ Ent(t, A!None, A!None) \in Entries(W)
    <3>1. A!None \in W \cup {A!None} /\ t \in W \cup {A!None}
      OBVIOUS
    <3> QED
      BY <3>1, EntriesAre, Zenon
  <2> QED
    BY <2>2, <2>3, Zenon DEF Yes, Expected
<1>4. CASE l = "macdef"
  BY <1>2, <1>4, Zenon DEF Feed
<1>5. CASE l # "macdef"
  <2>0. Feed(p, t) = A!Token(p, t)
    BY <1>2, <1>5, Zenon DEF Feed
  <2>1. CASE l = "nothing"
    <3>1. CASE t = "default"
      <4>1. A!Token(p, t) = A!MaybeAdd(p)
        BY <1>1, <2>1, <3>1, DefaultIs
      <4>2. A!MaybeAdd(p) = St(l, Yes, Ent(A!None, A!None, A!None), Added(o, c, s))
        BY <1>1, AddingIs
      <4> QED
        BY <1>3, <2>0, <4>1, <4>2, StatesAre
    <3>2. CASE t # "default"
      <4>1. A!Token(p, t) = St(A!Keyword(t), o, c, s)
        BY <1>1, <2>1, <3>2, KeywordIs
      <4> QED
        BY <2>0, <4>1, KeywordExpected, StatesAre
    <3> QED
      BY <3>1, <3>2
  <2>2. CASE l = "machine"
    <3>1. A!Token(p, t) = St("nothing", Yes, Ent(t, A!None, A!None), Added(o, c, s))
      BY <1>1, <2>2, ValueIs
    <3> QED
      BY <1>3, <2>0, <3>1, StatesAre
  <2>3. CASE l \in {"login", "password"} /\ o = Yes
    <3>1. PICK h, a, w \in W \cup {A!None} : c = Ent(h, a, w)
      BY EntriesAre
    <3>2. Ent(h, t, w) \in Entries(W) /\ Ent(h, a, t) \in Entries(W)
      BY EntriesAre
    <3>3. A!Token(p, t) \in {St("nothing", Yes, Ent(h, t, w), s), St("nothing", Yes, Ent(h, a, t), s)}
      BY <1>1, <2>3, <3>1, ValueIs
    <3>4. /\ St("nothing", Yes, Ent(h, t, w), s) \in States(W)
          /\ St("nothing", Yes, Ent(h, a, t), s) \in States(W)
      BY <1>3, <3>2, StatesAre
    <3> QED
      BY <2>0, <3>3, <3>4
  <2>4. CASE l \notin {"nothing", "machine"} /\ (o = FALSE \/ l \notin {"login", "password"})
    <3>1. A!Token(p, t) = St("nothing", o, c, s)
      BY <1>1, <2>4, ValueIs
    <3> QED
      BY <1>3, <2>0, <3>1, StatesAre
  <2>5. o = Yes \/ o = FALSE
    BY Zenon DEF Yes
  <2> QED
    BY <2>1, <2>2, <2>3, <2>4, <2>5
<1> QED
  BY <1>4, <1>5

(* The tokens of a line are those before its comment.                      *)
LEMMA CommentEnds ==
  \A toks, W, i :
    toks \in Seq(W) /\ i \in 1 .. Len(toks) + 1 /\ (i <= Len(toks) => toks[i] = A!Comment)
    /\ (\A j \in 1 .. i - 1 : toks[j] # A!Comment)
    => A!BeforeComment(toks) = SubSeq(toks, 1, i - 1)
<1> TAKE toks, W, i
<1> HAVE toks \in Seq(W) /\ i \in 1 .. Len(toks) + 1 /\ (i <= Len(toks) => toks[i] = A!Comment)
         /\ (\A j \in 1 .. i - 1 : toks[j] # A!Comment)
<1>1. PICK hash, U1, m : hash = A!Comment /\ U1 = W \cup {hash} /\ m = Len(toks) /\ m \in Nat
  <2>1. Len(toks) \in Nat
    OBVIOUS
  <2> QED
    BY <2>1
<1>2. PICK a \in Seq(U1), b \in Seq(U1) : a = toks /\ b = <<hash>>
  <2>1. toks \in Seq(U1) /\ <<hash>> \in Seq(U1)
    BY <1>1
  <2> QED
    BY <2>1
<1>3. PICK z : z = a \o b
  OBVIOUS
<1>4. Len(z) = m + 1 /\ (\A j \in 1 .. m : z[j] = toks[j]) /\ z[m + 1] = hash
  BY <1>1, <1>2, <1>3
<1>5. PICK I : I = {j \in 1 .. Len(z) : z[j] = A!Comment}
  OBVIOUS
<1>6. I \subseteq Nat /\ i \in I /\ \A j \in I : i <= j
  <2>1. i \in Nat /\ i \in 1 .. m + 1
    BY <1>1
  <2>2. z[i] = hash
    BY <1>1, <1>4, <2>1
  <2>3. \A j \in 1 .. i - 1 : j \in 1 .. m /\ z[j] # hash
    BY <1>1, <1>4, <2>1
  <2>4. I \subseteq Nat /\ i \in I
    BY <1>1, <1>4, <1>5, <2>1, <2>2
  <2>5. ASSUME NEW j \in I, ~(i <= j) PROVE FALSE
    <3>1. j \in 1 .. m + 1 /\ z[j] = hash
      BY <1>1, <1>4, <1>5
    <3>2. j \in 1 .. i - 1
      BY <2>1, <2>5, <3>1
    <3> QED
      BY <2>3, <3>1, <3>2
  <2> QED
    BY <2>4, <2>5
<1>7. A!Min(I) = i
  <2>1. R!Min(I) = i
    BY <1>6, LeastIs, Zenon
  <2> QED
    BY <2>1, Zenon DEF A!Min, R!Min
<1>8. A!SelectInSeq(z, LAMBDA t : t = A!Comment) = i
  <2>1. I # {}
    BY <1>6
  <2> QED
    BY <1>5, <1>7, <2>1, Zenon DEF A!SelectInSeq
<1>9. z = toks \o <<A!Comment>>
  BY <1>1, <1>2, <1>3
<1> QED
  BY <1>8, <1>9, Zenon DEF A!BeforeComment

(* The tokens before a comment are words of the line.                      *)
LEMMA TokensTyped == \A toks, W : toks \in Seq(W) => A!BeforeComment(toks) \in Seq(W)
<1> TAKE toks, W
<1> HAVE toks \in Seq(W)
<1>1. PICK m \in Nat : m = Len(toks)
  <2>1. Len(toks) \in Nat
    OBVIOUS
  <2> QED
    BY <2>1
<1>2. PICK I : I = {j \in 1 .. m + 1 : j <= m => toks[j] = A!Comment}
  OBVIOUS
<1>3. PICK i \in I : \A j \in I : i <= j
  <2>1. I \subseteq Nat /\ m + 1 \in I
    BY <1>1, <1>2
  <2> QED
    BY <2>1, LeastExists
<1>4. i \in 1 .. m + 1 /\ (i <= m => toks[i] = A!Comment)
  BY <1>2, <1>3
<1>5. ASSUME NEW j \in 1 .. i - 1 PROVE toks[j] # A!Comment
  <2>1. j \in 1 .. m + 1 /\ ~(i <= j)
    BY <1>1, <1>4
  <2>2. j \notin I
    BY <1>3, <2>1
  <2> QED
    BY <1>2, <2>1, <2>2
<1>6. A!BeforeComment(toks) = SubSeq(toks, 1, i - 1)
  BY <1>1, <1>4, <1>5, CommentEnds
<1>7. SubSeq(toks, 1, i - 1) \in Seq(W)
  BY <1>1, <1>4
<1> QED
  BY <1>6, <1>7

(* The states of the parser on the tokens of a line.                       *)
FeedTrace(c, y, p, n) == c[0] = p /\ \A k \in 1 .. n : c[k] = Feed(c[k - 1], y[k])
EndsIn(y, p, r) == \A c : FeedTrace(c, y, p, Len(y)) => c[Len(y)] = r

(* What the parser makes of a line it reads.                               *)
TokensLead(c, toks, p, y, W) ==
  FeedTrace(c, y, p, Len(y)) /\ A!Tokens(p, toks) = c[Len(y)] /\ c[Len(y)] \in States(W)

(* The tokens of a line lead from state to state.                          *)
LEMMA TokensAre ==
  \A W, p, toks, y :
    p \in States(W) /\ y \in Seq(W) /\ y = A!BeforeComment(toks) => \E c : TokensLead(c, toks, p, y, W)
<1> TAKE W, p, toks, y
<1> HAVE p \in States(W) /\ y \in Seq(W) /\ y = A!BeforeComment(toks)
<1>0. PICK m, V : m = Len(y) /\ m \in Nat /\ DOMAIN y = 1 .. m /\ (\A k \in 1 .. m : y[k] \in W) /\ V = States(W)
  <2>1. Len(y) \in Nat /\ DOMAIN y = 1 .. Len(y) /\ \A k \in 1 .. Len(y) : y[k] \in W
    OBVIOUS
  <2> QED
    BY <2>1
<1> DEFINE D == DOMAIN y
           g == [e \in (1 .. m) \X V |-> Feed(e[2], y[e[1]])]
           Raw(h) == h = [s \in SUBSET D |->
                            IF s = {} THEN p
                            ELSE IF h[s \ {Top(s)}].last = "macdef" THEN h[s \ {Top(s)}]
                            ELSE A!Token(h[s \ {Top(s)}], y[Top(s)])]
<1>1. g \in [(1 .. m) \X V -> V] /\ \A k \in 1 .. m, v \in V : g[<<k, v>>] = Feed(v, y[k])
  <2>1. \A k \in 1 .. m, v \in V : Feed(v, y[k]) \in V
    BY <1>0, FeedTyped
  <2> QED
    BY <2>1
<1>2. PICK F, a : LeftFolds(F, a, m, V, p, g)
  <2>1. p \in V
    BY <1>0
  <2> HIDE DEF g
  <2> QED
    BY <1>0, <1>1, <2>1, LeftFold, Zenon
<1> HIDE DEF g
<1>3. Raw(F)
  <2>1. F \in [SUBSET (1 .. m) -> V] /\ F[{}] = p
    BY <1>2 DEF LeftFolds, FoldsLeft
  <2>2. ASSUME NEW s \in SUBSET (1 .. m), s # {} PROVE F[s] = Feed(F[s \ {Top(s)}], y[Top(s)])
    <3>1. Top(s) \in 1 .. m /\ F[s \ {Top(s)}] \in V
      BY <1>2, <2>1, <2>2 DEF LeftFolds
    <3>2. F[s] = g[<<Top(s), F[s \ {Top(s)}]>>]
      BY <1>2, <2>2, <3>1 DEF LeftFolds, FoldsLeft
    <3> QED
      BY <1>1, <3>1, <3>2
  <2>3. F = [s \in SUBSET (1 .. m) |-> IF s = {} THEN p ELSE Feed(F[s \ {Top(s)}], y[Top(s)])]
    BY <2>1, <2>2
  <2> QED
    BY <1>0, <2>3, Zenon DEF Feed
<1>4. PICK h : Raw(h) /\ A!Tokens(p, toks) = h[D]
  <2>1. Raw(CHOOSE h : Raw(h))
    <3> HIDE DEF Raw
    <3> QED
      BY <1>3, Zenon
  <2>2. A!Tokens(p, toks) = (CHOOSE h : Raw(h))[D]
    BY ZenonT(60) DEF A!Tokens, A!FoldLeft, A!MapThenFoldSet, A!Max, Top
  <2> QED
    <3> HIDE DEF Raw
    <3> QED
      BY <2>1, <2>2, Zenon
<1>5. h = [s \in SUBSET (1 .. m) |-> IF s = {} THEN p ELSE Feed(h[s \ {Top(s)}], y[Top(s)])]
  BY <1>0, <1>4, Zenon DEF Feed
<1> HIDE DEF Raw
<1>6. FoldsLeft(h, m, V, p, g)
  <2>1. h[{}] = p
    BY <1>5
  <2>2. ASSUME NEW s \in SUBSET (1 .. m), s # {}, h[s \ {Top(s)}] \in V
        PROVE  h[s] = g[<<Top(s), h[s \ {Top(s)}]>>]
    <3>1. Top(s) \in 1 .. m
      BY <1>2, <2>2 DEF LeftFolds
    <3>2. h[s] = Feed(h[s \ {Top(s)}], y[Top(s)])
      BY <1>5, <2>2
    <3> QED
      BY <1>1, <2>2, <3>1, <3>2
  <2> QED
    BY <2>1, <2>2 DEF FoldsLeft
<1>7. h[1 .. m] = a[m] /\ Folded(a, m, V, p, g)
  BY <1>2, <1>6, Zenon DEF LeftFolds
<1>8. a[0] = p /\ (\A k \in 0 .. m : a[k] \in V) /\ \A k \in 1 .. m : a[k] = g[<<k, a[k - 1]>>]
  BY <1>7 DEF Folded
<1>9. \A k \in 1 .. m : a[k] = Feed(a[k - 1], y[k])
  <2> SUFFICES ASSUME NEW k \in 1 .. m PROVE a[k] = Feed(a[k - 1], y[k])
    OBVIOUS
  <2>1. k - 1 \in 0 .. m
    BY <1>0
  <2> QED
    BY <1>1, <1>8, <2>1
<1>10. A!Tokens(p, toks) = a[m] /\ a[m] \in V
  <2>1. m \in 0 .. m
    BY <1>0
  <2> QED
    BY <1>0, <1>4, <1>7, <1>8, <2>1
<1>11. TokensLead(a, toks, p, y, W)
  BY <1>0, <1>8, <1>9, <1>10, Zenon DEF TokensLead, FeedTrace
<1> QED
  BY <1>11

(* Where the parser is after some tokens.                                  *)
LEMMA EndsHere == \A p : EndsIn(<<>>, p, p)
<1> TAKE p
<1>1. Len(<<>>) = 0
  OBVIOUS
<1> QED
  BY <1>1, Zenon DEF EndsIn, FeedTrace

(* One token leads where it leads.                                         *)
LEMMA EndsOne == \A p, t : EndsIn(<<t>>, p, Feed(p, t))
<1> TAKE p, t
<1> SUFFICES ASSUME NEW c, FeedTrace(c, <<t>>, p, Len(<<t>>)) PROVE c[Len(<<t>>)] = Feed(p, t)
  BY Zenon DEF EndsIn
<1>1. Len(<<t>>) = 1 /\ <<t>>[1] = t /\ 1 \in 1 .. 1 /\ 1 - 1 = 0
  OBVIOUS
<1>2. c[0] = p /\ c[1] = Feed(c[1 - 1], <<t>>[1])
  BY <1>1, Zenon DEF FeedTrace
<1> QED
  BY <1>1, <1>2, Zenon

(* Tokens behind others lead on from where those end.                      *)
LEMMA EndsBehind ==
  \A S1, x, y, p, q, r :
    x \in Seq(S1) /\ y \in Seq(S1) /\ EndsIn(x, p, q) /\ EndsIn(y, q, r) => EndsIn(x \o y, p, r)
<1> TAKE S1, x, y, p, q, r
<1> HAVE x \in Seq(S1) /\ y \in Seq(S1) /\ EndsIn(x, p, q) /\ EndsIn(y, q, r)
<1>1. PICK m, n, z : m = Len(x) /\ n = Len(y) /\ z = x \o y
  OBVIOUS
<1>2. /\ m \in Nat /\ n \in Nat /\ Len(z) = m + n /\ \A i \in 1 .. m : z[i] = x[i]
      /\ \A i \in 1 .. n : z[m + i] = y[i]
  BY <1>1
<1> SUFFICES ASSUME NEW c, FeedTrace(c, z, p, Len(z)) PROVE c[Len(z)] = r
  BY <1>1, Zenon DEF EndsIn
<1>3. c[0] = p /\ \A k \in 1 .. m + n : c[k] = Feed(c[k - 1], z[k])
  BY <1>2 DEF FeedTrace
<1>4. c[m] = q
  <2>1. \A k \in 1 .. m : c[k] = Feed(c[k - 1], x[k])
    <3>1. \A k \in 1 .. m : k \in 1 .. m + n
      BY <1>2
    <3> QED
      BY <1>2, <1>3, <3>1
  <2>2. FeedTrace(c, x, p, Len(x))
    BY <1>1, <1>3, <2>1, Zenon DEF FeedTrace
  <2> QED
    BY <1>1, <2>2, Zenon DEF EndsIn
<1>5. PICK d : d = [k \in 0 .. n |-> c[m + k]]
  OBVIOUS
<1>6. d[n] = r
  <2>1. ASSUME NEW k \in 1 .. n PROVE d[k] = Feed(d[k - 1], y[k])
    <3>1. m + k \in 1 .. m + n /\ (m + k) - 1 = m + (k - 1) /\ k \in 0 .. n /\ k - 1 \in 0 .. n
      BY <1>2
    <3>2. c[m + k] = Feed(c[(m + k) - 1], z[m + k])
      BY <1>3, <3>1
    <3>3. d[k] = c[m + k] /\ d[k - 1] = c[m + (k - 1)] /\ z[m + k] = y[k]
      BY <1>2, <1>5, <3>1
    <3> QED
      BY <3>1, <3>2, <3>3
  <2>2. d[0] = q
    <3>1. 0 \in 0 .. n /\ m + 0 = m
      BY <1>2
    <3> QED
      BY <1>4, <1>5, <3>1
  <2>3. FeedTrace(d, y, q, Len(y))
    BY <1>1, <2>1, <2>2, Zenon DEF FeedTrace
  <2> QED
    BY <1>1, <2>3, Zenon DEF EndsIn
<1>7. d[n] = c[m + n]
  BY <1>2, <1>5
<1> QED
  BY <1>2, <1>6, <1>7

(* Two tokens lead one after the other.                                    *)
LEMMA EndsTwo == \A p, t, u : EndsIn(<<t, u>>, p, Feed(Feed(p, t), u))
<1> TAKE p, t, u
<1>1. <<t>> \in Seq({t, u}) /\ <<u>> \in Seq({t, u}) /\ <<t>> \o <<u>> = <<t, u>>
  <2>1. PICK W : W = {t, u}
    OBVIOUS
  <2>2. PICK x, y, z : x = <<t>> /\ y = <<u>> /\ z = <<t, u>>
    OBVIOUS
  <2>3. t \in W /\ u \in W
    BY <2>1
  <2>4. x \in Seq(W) /\ Len(x) = 1 /\ x[1] = t
    BY <2>2, <2>3
  <2>5. y \in Seq(W) /\ Len(y) = 1 /\ y[1] = u
    BY <2>2, <2>3
  <2>6. z \in Seq(W) /\ Len(z) = 2 /\ z[1] = t /\ z[2] = u
    BY <2>2, <2>3
  <2>7. x \o y = z
    <3>1. PICK v : v = x \o y
      OBVIOUS
    <3>2. PICK one : one = 1 /\ Len(x) = one /\ Len(y) = one
      BY <2>4, <2>5
    <3>3. v \in Seq(W) /\ Len(v) = 2 /\ v[1] = t /\ v[2] = u
      <4>1. IsBehind(W, x, y, one, one)
        BY <2>4, <2>5, <3>2, Behind, Zenon
      <4>2. one + one = 2 /\ 1 \in 1 .. one /\ one + 1 = 2
        BY <3>2
      <4> QED
        BY <2>4, <2>5, <3>1, <4>1, <4>2, Zenon DEF IsBehind
    <3>4. \A i \in 1 .. 2 : v[i] = z[i]
      BY <2>6, <3>3
    <3> QED
      BY <2>6, <3>1, <3>3, <3>4, SameSeq
  <2> QED
    BY <2>1, <2>2, <2>4, <2>5, <2>7
<1>2. PICK x, y : x = <<t>> /\ y = <<u>>
  OBVIOUS
<1>3. EndsIn(x, p, Feed(p, t)) /\ EndsIn(y, Feed(p, t), Feed(Feed(p, t), u))
  BY <1>2, EndsOne
<1>4. EndsIn(x \o y, p, Feed(Feed(p, t), u))
  BY <1>1, <1>2, <1>3, EndsBehind
<1> QED
  BY <1>1, <1>2, <1>4

(* Without its first token.                                                *)
LEMMA EndsAfterOne ==
  \A S1, y, p, r : y \in Seq(S1) /\ y # <<>> /\ EndsIn(y, p, r) => EndsIn(Tail(y), Feed(p, y[1]), r)
<1> TAKE S1, y, p, r
<1> HAVE y \in Seq(S1) /\ y # <<>> /\ EndsIn(y, p, r)
<1>1. PICK n, z : n = Len(y) /\ z = Tail(y)
  OBVIOUS
<1>2. n \in Nat /\ n # 0 /\ Len(z) = n - 1 /\ \A i \in 1 .. n - 1 : z[i] = y[i + 1]
  BY <1>1
<1> SUFFICES ASSUME NEW d, FeedTrace(d, z, Feed(p, y[1]), Len(z)) PROVE d[Len(z)] = r
  BY <1>1, Zenon DEF EndsIn
<1>3. d[0] = Feed(p, y[1]) /\ \A k \in 1 .. n - 1 : d[k] = Feed(d[k - 1], z[k])
  BY <1>2 DEF FeedTrace
<1>4. PICK c : c = [k \in 0 .. n |-> IF k = 0 THEN p ELSE d[k - 1]]
  OBVIOUS
<1>5. c[0] = p /\ \A k \in 1 .. n : c[k] = d[k - 1]
  BY <1>2, <1>4
<1>6. ASSUME NEW k \in 1 .. n PROVE c[k] = Feed(c[k - 1], y[k])
  <2>1. CASE k = 1
    BY <1>3, <1>5, <2>1
  <2>2. CASE k # 1
    <3>1. PICK j \in 1 .. n - 1 : j = k - 1 /\ j + 1 = k /\ j \in 1 .. n
      BY <1>2, <2>2
    <3>2. d[j] = Feed(d[j - 1], z[j]) /\ z[j] = y[k]
      BY <1>2, <1>3, <3>1
    <3>3. c[k] = d[j] /\ c[j] = d[j - 1]
      BY <1>5, <3>1
    <3> QED
      BY <3>1, <3>2, <3>3
  <2> QED
    BY <2>1, <2>2
<1>7. FeedTrace(c, y, p, Len(y))
  BY <1>1, <1>5, <1>6, Zenon DEF FeedTrace
<1>8. c[n] = r
  BY <1>1, <1>7, Zenon DEF EndsIn
<1>9. c[n] = d[n - 1]
  <2>1. n \in 1 .. n
    BY <1>2
  <2> QED
    BY <1>5, <2>1
<1> QED
  BY <1>2, <1>8, <1>9

(* The tokens of an entry replace the one that was being read.             *)
After(o, c, s, e) == St("nothing", Yes, Ent(e.host, e.account, e.password), Added(o, c, s))
TokensOf(e) == {"default", "machine", "login", "password", e.host, e.account, e.password}

(* A field sets its part of the entry, if it has a value.                  *)
LEMMA FieldEnds ==
  \A h, a, w, s, S1, x :
    /\ EndsIn(A!Field("login", x), St("nothing", Yes, Ent(h, A!None, w), s), St("nothing", Yes, Ent(h, x, w), s))
    /\ EndsIn(A!Field("password", x), St("nothing", Yes, Ent(h, a, A!None), s), St("nothing", Yes, Ent(h, a, x), s))
<1> TAKE h, a, w, s, S1, x
<1>1. ASSUME x = A!None
      PROVE  A!Field("login", x) = <<>> /\ A!Field("password", x) = <<>>
  BY <1>1 DEF A!Field
<1>2. ASSUME x # A!None
      PROVE  A!Field("login", x) = <<"login", x>> /\ A!Field("password", x) = <<"password", x>>
  BY <1>2 DEF A!Field
<1>3. PICK p, q : p = St("nothing", Yes, Ent(h, A!None, w), s) /\ q = St("nothing", Yes, Ent(h, a, A!None), s)
  OBVIOUS
<1>l. \A l, o, c : St(l, o, c, s).last = l
  BY DEF St
<1>4. Feed(Feed(p, "login"), x) = St("nothing", Yes, Ent(h, x, w), s)
  <2>1. A!Keyword("login") = "login" /\ "login" # "default" /\ "login" # "macdef" /\ "nothing" # "macdef"
    BY Zenon DEF A!Keyword
  <2>2. A!Token(p, "login") = St("login", Yes, Ent(h, A!None, w), s)
    BY <1>3, <2>1, KeywordIs
  <2>3. A!Token(St("login", Yes, Ent(h, A!None, w), s), x) = St("nothing", Yes, Ent(h, x, w), s)
    BY ValueIs
  <2>4. Feed(p, "login") = A!Token(p, "login")
    BY <1>3, <1>l, <2>1 DEF Feed
  <2>5. Feed(St("login", Yes, Ent(h, A!None, w), s), x) = A!Token(St("login", Yes, Ent(h, A!None, w), s), x)
    BY <1>l, <2>1 DEF Feed
  <2> QED
    BY <2>2, <2>3, <2>4, <2>5
<1>5. Feed(Feed(q, "password"), x) = St("nothing", Yes, Ent(h, a, x), s)
  <2>1. A!Keyword("password") = "password" /\ "password" # "default" /\ "password" # "macdef" /\ "nothing" # "macdef"
    BY Zenon DEF A!Keyword
  <2>2. A!Token(q, "password") = St("password", Yes, Ent(h, a, A!None), s)
    BY <1>3, <2>1, KeywordIs
  <2>3. A!Token(St("password", Yes, Ent(h, a, A!None), s), x) = St("nothing", Yes, Ent(h, a, x), s)
    BY ValueIs
  <2>4. Feed(q, "password") = A!Token(q, "password")
    BY <1>3, <1>l, <2>1 DEF Feed
  <2>5. Feed(St("password", Yes, Ent(h, a, A!None), s), x) = A!Token(St("password", Yes, Ent(h, a, A!None), s), x)
    BY <1>l, <2>1 DEF Feed
  <2> QED
    BY <2>2, <2>3, <2>4, <2>5
<1>6. CASE x = A!None
  BY <1>1, <1>6, EndsHere, Zenon
<1>7. CASE x # A!None
  BY <1>2, <1>3, <1>4, <1>5, <1>7, EndsTwo, Zenon
<1> QED
  BY <1>6, <1>7

(* The tokens of an entry.                                                 *)
LEMMA PairIsSeq == \A T1, t, u : t \in T1 /\ u \in T1 => <<t>> \in Seq(T1) /\ <<t, u>> \in Seq(T1)
  OBVIOUS

(* A field is a sequence of words.                                         *)
LEMMA FieldIsSeq == \A T1, key, x : key \in T1 /\ x \in T1 => A!Field(key, x) \in Seq(T1)
<1> TAKE T1, key, x
<1> HAVE key \in T1 /\ x \in T1
<1>1. <<>> \in Seq(T1) /\ <<key, x>> \in Seq(T1)
  <2>1. <<>> \in Seq(T1)
    OBVIOUS
  <2> QED
    BY <2>1, PairIsSeq
<1> QED
  BY <1>1, Zenon DEF A!Field

Header(e) == IF e.host = A!None THEN <<"default">> ELSE <<"machine", e.host>>
IsEntryText(y, e) == y \in Seq(TokensOf(e)) /\ Len(y) \in Nat \ {0} /\ y[1] \in {"default", "machine"}

(* An entry's first tokens begin an entry.                                 *)
LEMMA HeaderText == \A e : IsEntryText(Header(e), e)
<1> TAKE e
<1>1. PICK T1 : T1 = TokensOf(e)
  OBVIOUS
<1>2. "default" \in T1 /\ "machine" \in T1 /\ e.host \in T1
  BY <1>1, Zenon DEF TokensOf
<1>3. <<"default">> \in Seq(T1) /\ <<"machine", e.host>> \in Seq(T1)
  BY <1>2, PairIsSeq
<1>4. \A t, u : Len(<<t>>) \in Nat \ {0} /\ Len(<<t, u>>) \in Nat \ {0} /\ <<t>>[1] = t /\ <<t, u>>[1] = t
  OBVIOUS
<1>5. CASE e.host = A!None
  <2>1. Header(e) = <<"default">>
    BY <1>5, Zenon DEF Header
  <2> QED
    BY <1>1, <1>3, <1>4, <2>1, Zenon DEF IsEntryText
<1>6. CASE e.host # A!None
  <2>1. Header(e) = <<"machine", e.host>>
    BY <1>6, Zenon DEF Header
  <2> QED
    BY <1>1, <1>3, <1>4, <2>1, Zenon DEF IsEntryText
<1> QED
  BY <1>5, <1>6

(* More tokens of the entry may follow them.                               *)
LEMMA TextBehind ==
  \A e, x, y : IsEntryText(x, e) /\ y \in Seq(TokensOf(e)) => IsEntryText(x \o y, e)
<1> TAKE e, x, y
<1> HAVE IsEntryText(x, e) /\ y \in Seq(TokensOf(e))
<1>1. PICK T1, m, n : T1 = TokensOf(e) /\ m = Len(x) /\ n = Len(y)
  OBVIOUS
<1>2. x \in Seq(T1) /\ y \in Seq(T1) /\ m \in Nat \ {0} /\ x[1] \in {"default", "machine"}
  BY <1>1, Zenon DEF IsEntryText
<1>3. IsBehind(T1, x, y, m, n)
  BY <1>1, <1>2, Behind, Zenon
<1>4. n \in Nat /\ 1 \in 1 .. m
  BY <1>1, <1>2
<1>5. m + n \in Nat \ {0}
  BY <1>2, <1>4
<1>6. x \o y \in Seq(T1) /\ Len(x \o y) = m + n /\ (x \o y)[1] = x[1]
  BY <1>3, <1>4, Zenon DEF IsBehind
<1> QED
  BY <1>1, <1>2, <1>5, <1>6, Zenon DEF IsEntryText

(* They end the entry before and begin this one.                           *)
LEMMA HeaderEnds ==
  \A e, o, c, s :
    EndsIn(Header(e), St("nothing", o, c, s), St("nothing", Yes, Ent(e.host, A!None, A!None), Added(o, c, s)))
<1> TAKE e, o, c, s
<1>l. \A l, d : St(l, o, d, s).last = l
  BY DEF St
<1>1. PICK p, q : p = St("nothing", o, c, s) /\ q = St("nothing", Yes, Ent(e.host, A!None, A!None), Added(o, c, s))
  OBVIOUS
<1>2. CASE e.host = A!None
  <2>1. Header(e) = <<"default">>
    BY <1>2, Zenon DEF Header
  <2>2. Feed(p, "default") = q
    <3>1. p.last = "nothing"
      BY <1>1, <1>l
    <3>2. Feed(p, "default") = A!Token(p, "default")
      BY <3>1, Zenon DEF Feed
    <3>3. A!Token(p, "default") = A!MaybeAdd(p)
      BY <1>1, DefaultIs
    <3>4. A!MaybeAdd(p) = q
      BY <1>1, <1>2, AddingIs
    <3> QED
      BY <3>2, <3>3, <3>4
  <2> QED
    BY <1>1, <2>1, <2>2, EndsOne, Zenon
<1>3. CASE e.host # A!None
  <2>1. Header(e) = <<"machine", e.host>>
    BY <1>3, Zenon DEF Header
  <2>2. PICK r : r = St("machine", o, c, s)
    OBVIOUS
  <2>3. Feed(p, "machine") = r
    <3>1. p.last = "nothing"
      BY <1>1, <1>l
    <3>2. Feed(p, "machine") = A!Token(p, "machine")
      BY <3>1, Zenon DEF Feed
    <3>3. A!Keyword("machine") = "machine" /\ "machine" # "default"
      BY Zenon DEF A!Keyword
    <3>4. A!Token(p, "machine") = St(A!Keyword("machine"), o, c, s)
      BY <1>1, <3>3, KeywordIs
    <3> QED
      BY <2>2, <3>2, <3>3, <3>4
  <2>4. Feed(r, e.host) = q
    <3>1. r.last = "machine"
      BY <1>l, <2>2
    <3>2. Feed(r, e.host) = A!Token(r, e.host)
      BY <3>1, Zenon DEF Feed
    <3>3. A!Token(r, e.host) = q
      BY <1>1, <2>2, ValueIs
    <3> QED
      BY <3>2, <3>3
  <2> QED
    BY <1>1, <2>1, <2>3, <2>4, EndsTwo, Zenon
<1> QED
  BY <1>2, <1>3

(* An entry as it is written replaces the one that was being read, in      *)
(* either order of its fields.                                             *)
LEMMA WrittenEnds ==
  \A e, swap, o, c, s :
    swap \in BOOLEAN =>
      /\ IsEntryText(A!Written(e, swap), e)
      /\ EndsIn(A!Written(e, swap), St("nothing", o, c, s), After(o, c, s, e))
<1> TAKE e, swap, o, c, s
<1> HAVE swap \in BOOLEAN
<1>1. PICK T1, h, u, v, p, q, r :
        /\ T1 = TokensOf(e) /\ h = Header(e)
        /\ u = A!Field("login", e.account) /\ v = A!Field("password", e.password)
        /\ p = St("nothing", o, c, s) /\ q = St("nothing", Yes, Ent(e.host, A!None, A!None), Added(o, c, s))
        /\ r = After(o, c, s, e)
  OBVIOUS
<1>2. u \in Seq(T1) /\ v \in Seq(T1)
  <2>1. "login" \in T1 /\ "password" \in T1 /\ e.account \in T1 /\ e.password \in T1
    BY <1>1, Zenon DEF TokensOf
  <2> QED
    BY <1>1, <2>1, FieldIsSeq
<1>3. IsEntryText(h, e) /\ h \in Seq(T1) /\ EndsIn(h, p, q)
  <2>1. IsEntryText(h, e)
    BY <1>1, HeaderText, Zenon
  <2>2. EndsIn(h, p, q)
    BY <1>1, HeaderEnds, Zenon
  <2> QED
    BY <1>1, <2>1, <2>2, Zenon DEF IsEntryText
<1>4. u \o v \in Seq(T1) /\ v \o u \in Seq(T1)
  BY <1>2
<1>5. IsEntryText(h \o (u \o v), e) /\ IsEntryText(h \o (v \o u), e)
  BY <1>1, <1>3, <1>4, TextBehind, Zenon
<1>6. EndsIn(u \o v, q, r) /\ EndsIn(v \o u, q, r)
  <2>r. r = St("nothing", Yes, Ent(e.host, e.account, e.password), Added(o, c, s))
    BY <1>1, Zenon DEF After
  <2>1. PICK x : x = St("nothing", Yes, Ent(e.host, e.account, A!None), Added(o, c, s))
    OBVIOUS
  <2>2. PICK y : y = St("nothing", Yes, Ent(e.host, A!None, e.password), Added(o, c, s))
    OBVIOUS
  <2>3. EndsIn(u, q, x) /\ EndsIn(u, y, r)
    BY <1>1, <2>r, <2>1, <2>2, FieldEnds, Zenon
  <2>4. EndsIn(v, x, r) /\ EndsIn(v, q, y)
    BY <1>1, <2>r, <2>1, <2>2, FieldEnds, Zenon
  <2>5. EndsIn(u \o v, q, r)
    BY <1>2, <2>3, <2>4, EndsBehind
  <2>6. EndsIn(v \o u, q, r)
    BY <1>2, <2>3, <2>4, EndsBehind
  <2> QED
    BY <2>5, <2>6
<1>7. EndsIn(h \o (u \o v), p, r) /\ EndsIn(h \o (v \o u), p, r)
  <2>1. PICK a, b : a = u \o v /\ b = v \o u
    OBVIOUS
  <2>2. a \in Seq(T1) /\ b \in Seq(T1) /\ EndsIn(a, q, r) /\ EndsIn(b, q, r)
    BY <1>4, <1>6, <2>1
  <2>3. EndsIn(h \o a, p, r)
    BY <1>3, <2>2, EndsBehind
  <2>4. EndsIn(h \o b, p, r)
    BY <1>3, <2>2, EndsBehind
  <2> QED
    BY <2>1, <2>3, <2>4
<1>8. A!Written(e, swap) = h \o (v \o u) \/ A!Written(e, swap) = h \o (u \o v)
  BY <1>1, Zenon DEF A!Written, Header
<1> QED
  BY <1>1, <1>5, <1>7, <1>8, Zenon

(* What a line does.                                                       *)
LEMMA LineFeeds ==
  \A W, p, toks, y, r :
    p \in States(W) /\ toks # <<>> /\ y \in Seq(W) /\ y = A!BeforeComment(toks) /\ EndsIn(y, p, r) => A!Line(p, toks) = r
<1> TAKE W, p, toks, y, r
<1> HAVE p \in States(W) /\ toks # <<>> /\ y \in Seq(W) /\ y = A!BeforeComment(toks) /\ EndsIn(y, p, r)
<1>1. PICK c : TokensLead(c, toks, p, y, W)
  BY TokensAre
<1>2. A!Tokens(p, toks) = r
  BY <1>1, Zenon DEF TokensLead, EndsIn
<1> QED
  BY <1>2, Zenon DEF A!Line

(* An empty line ends a macro and nothing else.                            *)
LEMMA BlankLine == \A l, o, c, s : A!Line(St(l, o, c, s), <<>>) = St(IF l = "macdef" THEN "nothing" ELSE l, o, c, s)
<1> TAKE l, o, c, s
<1>1. PICK p, x : p = St(l, o, c, s) /\ x = IF l = "macdef" THEN "nothing" ELSE l
  OBVIOUS
<1>2. p = [last |-> l, isOpen |-> o, current |-> c, list |-> s]
  BY <1>1 DEF St
<1>3. p.last = l
  BY <1>2
<1>4. A!Line(p, <<>>) = [p EXCEPT !.last = x]
  BY <1>1, <1>3, Zenon DEF A!Line
<1>5. [p EXCEPT !.last = x] = [last |-> x, isOpen |-> o, current |-> c, list |-> s]
  BY <1>2
<1> QED
  BY <1>1, <1>4, <1>5, Zenon DEF St

(* A line leads from such a state to such a state.                         *)
LEMMA LineTyped == \A W, p, toks : p \in States(W) /\ toks \in Seq(W) => A!Line(p, toks) \in States(W)
<1> TAKE W, p, toks
<1> HAVE p \in States(W) /\ toks \in Seq(W)
<1>1. CASE toks = <<>>
  <2>1. PICK l \in Expected, o \in BOOLEAN, c \in Entries(W), s \in Seq(Entries(W)) : p = St(l, o, c, s)
    BY StatesAre
  <2>2. PICK x : x = IF l = "macdef" THEN "nothing" ELSE l
    OBVIOUS
  <2>3. x \in Expected
    BY <2>2, Zenon DEF Expected
  <2>4. A!Line(p, <<>>) = St(x, o, c, s)
    BY <2>1, <2>2, BlankLine, Zenon
  <2> QED
    BY <1>1, <2>3, <2>4, StatesAre
<1>2. CASE toks # <<>>
  <2>1. PICK y \in Seq(W) : y = A!BeforeComment(toks)
    BY TokensTyped
  <2>2. PICK c : TokensLead(c, toks, p, y, W)
    BY <2>1, TokensAre
  <2>3. A!Tokens(p, toks) \in States(W)
    BY <2>2, Zenon DEF TokensLead
  <2> QED
    BY <1>2, <2>3, Zenon DEF A!Line
<1> QED
  BY <1>1, <1>2

(* Without a comment all of a line counts; with one what is before it.     *)
LEMMA WholeLine ==
  \A W, toks : toks \in Seq(W) /\ (\A j \in 1 .. Len(toks) : toks[j] # A!Comment) => A!BeforeComment(toks) = toks
<1> TAKE W, toks
<1> HAVE toks \in Seq(W) /\ \A j \in 1 .. Len(toks) : toks[j] # A!Comment
<1>1. PICK m, i : m = Len(toks) /\ i = m + 1 /\ m \in Nat
  <2>1. Len(toks) \in Nat
    OBVIOUS
  <2> QED
    BY <2>1
<1>2. i \in 1 .. m + 1 /\ ~(i <= m) /\ i - 1 = m
  BY <1>1
<1>3. A!BeforeComment(toks) = SubSeq(toks, 1, m)
  BY <1>1, <1>2, CommentEnds
<1>4. SubSeq(toks, 1, m) = toks
  <2>1. PICK z : z = SubSeq(toks, 1, m)
    OBVIOUS
  <2>2. z \in Seq(W) /\ Len(z) = m /\ \A j \in 1 .. m : z[j] = toks[j]
    BY <1>1, <2>1
  <2> QED
    BY <1>1, <2>1, <2>2, SameSeq
<1> QED
  BY <1>3, <1>4

(* What stands behind the mark of a comment is not read.                   *)
LEMMA TokenAlone ==
  \A W, t, u : t \in W /\ u \in W /\ A!Comment \in W /\ t # A!Comment =>
    /\ A!BeforeComment(<<t, A!Comment, u>>) = <<t>>
    /\ A!BeforeComment(<<A!Comment, t, u>>) = <<>>
<1> TAKE W, t, u
<1> HAVE t \in W /\ u \in W /\ A!Comment \in W /\ t # A!Comment
<1>1. PICK hash \in W : hash = A!Comment
  OBVIOUS
<1>2. PICK x, y : x = <<t, hash, u>> /\ y = <<hash, t, u>>
  OBVIOUS
<1>3. /\ x \in Seq(W) /\ Len(x) = 3 /\ x[1] = t /\ x[2] = hash
      /\ y \in Seq(W) /\ Len(y) = 3 /\ y[1] = hash
  BY <1>2
<1>4. A!BeforeComment(x) = SubSeq(x, 1, 1)
  <2>1. PICK i : i = 2
    OBVIOUS
  <2>2. i \in 1 .. Len(x) + 1 /\ x[i] = A!Comment /\ \A j \in 1 .. i - 1 : x[j] # A!Comment
    BY <1>1, <1>3, <2>1
  <2>3. A!BeforeComment(x) = SubSeq(x, 1, i - 1)
    BY <1>3, <2>2, CommentEnds
  <2> QED
    BY <2>1, <2>3
<1>5. A!BeforeComment(y) = SubSeq(y, 1, 0)
  <2>1. PICK i : i = 1
    OBVIOUS
  <2>2. i \in 1 .. Len(y) + 1 /\ y[i] = A!Comment /\ \A j \in 1 .. i - 1 : y[j] # A!Comment
    BY <1>1, <1>3, <2>1
  <2>3. A!BeforeComment(y) = SubSeq(y, 1, i - 1)
    BY <1>3, <2>2, CommentEnds
  <2> QED
    BY <2>1, <2>3
<1>6. SubSeq(x, 1, 1) = <<t>>
  <2>1. PICK z, w, one : z = SubSeq(x, 1, 1) /\ w = <<t>> /\ one = 1
    OBVIOUS
  <2>2. z \in Seq(W) /\ Len(z) = one /\ z[1] = t
    BY <1>3, <2>1
  <2>3. w \in Seq(W) /\ Len(w) = one /\ w[1] = t
    BY <2>1
  <2>4. \A i \in 1 .. one : z[i] = w[i]
    BY <2>1, <2>2, <2>3
  <2> QED
    BY <2>1, <2>2, <2>3, <2>4, SameSeq
<1>7. SubSeq(y, 1, 0) = <<>>
  BY <1>3
<1> QED
  BY <1>1, <1>2, <1>4, <1>5, <1>6, <1>7

-----------------------------------------------------------------------------
(***************************************************************************)
(* An entry is understood in each of its layouts.                          *)
(***************************************************************************)

(* An entry's tokens, and what a macro and the comments are written with.  *)
IsText(t, W) ==
  /\ t \in Seq(W) /\ Len(t) \in Nat \ {0} /\ t[1] \in {"default", "machine"}
  /\ \A j \in 1 .. Len(t) : t[j] # A!Comment
Others == {A!Comment, "password", "machine", "k", "login", "x", "macdef", "init"}

(* The states of the parser on some lines.                                 *)
LineTrace(c, z, p, n) == c[0] = p /\ \A k \in 1 .. n : c[k] = A!Line(c[k - 1], z[k])
LinesEnd(z, p, r) == \A c : LineTrace(c, z, p, Len(z)) => c[Len(z)] = r

(* A line with an entry on it leads where its tokens do.                   *)
LEMMA TextLine ==
  \A W, t, p, r : IsText(t, W) /\ p \in States(W) /\ EndsIn(t, p, r) => A!Line(p, t) = r
<1> TAKE W, t, p, r
<1> HAVE IsText(t, W) /\ p \in States(W) /\ EndsIn(t, p, r)
<1>1. t \in Seq(W) /\ Len(t) \in Nat \ {0} /\ \A j \in 1 .. Len(t) : t[j] # A!Comment
  BY Zenon DEF IsText
<1>2. t # <<>>
  <2>1. ASSUME t = <<>> PROVE FALSE
    <3>1. Len(t) = 0
      BY <2>1
    <3> QED
      BY <1>1, <3>1
  <2> QED
    BY <2>1
<1>3. A!BeforeComment(t) = t
  BY <1>1, WholeLine
<1> QED
  BY <1>1, <1>2, <1>3, LineFeeds

(* So does an entry on one line.                                           *)
LEMMA OneLineEnds ==
  \A W, t, p, r : IsText(t, W) /\ p \in States(W) /\ EndsIn(t, p, r) => LinesEnd(A!OneLine(t), p, r)
<1> TAKE W, t, p, r
<1> HAVE IsText(t, W) /\ p \in States(W) /\ EndsIn(t, p, r)
<1>1. PICK z : z = A!OneLine(t)
  OBVIOUS
<1>2. Len(z) = 1 /\ z[1] = t
  BY <1>1 DEF A!OneLine
<1>3. A!Line(p, t) = r
  BY TextLine, Zenon
<1>4. 1 \in 1 .. 1 /\ 1 - 1 = 0
  OBVIOUS
<1>5. ASSUME NEW c, LineTrace(c, z, p, Len(z)) PROVE c[Len(z)] = r
  <2>1. c[0] = p /\ c[1] = A!Line(c[1 - 1], z[1])
    BY <1>2, <1>4, <1>5, Zenon DEF LineTrace
  <2> QED
    BY <1>2, <1>3, <1>4, <2>1, Zenon
<1> QED
  BY <1>1, <1>5, Zenon DEF LinesEnd

(* Lines that a macro skips, and the empty one behind it.                  *)
LEMMA MacroLine ==
  \A W, o, c, s, y :
    LET p == St("macdef", o, c, s)
    IN p \in States(W) /\ y \in Seq(W) /\ y # <<>> /\ (\A j \in 1 .. Len(y) : y[j] # A!Comment) => A!Line(p, y) = p
<1> TAKE W, o, c, s, y
<1> DEFINE p == St("macdef", o, c, s)
<1> SUFFICES ASSUME p \in States(W), y \in Seq(W), y # <<>>, \A j \in 1 .. Len(y) : y[j] # A!Comment
             PROVE  A!Line(p, y) = p
  BY Zenon
<1>1. p.last = "macdef"
  BY DEF St
<1> HIDE DEF p
<1>2. PICK n \in Nat : n = Len(y)
  <2>1. Len(y) \in Nat
    OBVIOUS
  <2> QED
    BY <2>1
<1>3. ASSUME NEW c1, FeedTrace(c1, y, p, n) PROVE c1[n] = p
  <2>0. c1[0] = p /\ \A k \in 1 .. n : c1[k] = Feed(c1[k - 1], y[k])
    BY <1>3, Zenon DEF FeedTrace
  <2> DEFINE P == {k \in Nat : k <= n => c1[k] = p}
  <2>1. 0 \in P
    BY <2>0
  <2>2. ASSUME NEW k \in Nat, k \in P PROVE k + 1 \in P
    <3> SUFFICES ASSUME k + 1 <= n PROVE c1[k + 1] = p
      OBVIOUS
    <3>1. PICK q \in 1 .. n : q = k + 1 /\ q - 1 = k
      OBVIOUS
    <3>2. c1[q] = Feed(c1[q - 1], y[q]) /\ c1[k] = p
      BY <2>0, <2>2, <3>1
    <3>3. Feed(p, y[q]) = p
      BY <1>1, Zenon DEF Feed
    <3> QED
      BY <3>1, <3>2, <3>3
  <2>3. Nat \subseteq P
    <3> HIDE DEF P
    <3> QED
      BY <2>1, <2>2, NatInductive
  <2> QED
    BY <1>2, <2>3
<1>4. EndsIn(y, p, p)
  BY <1>2, <1>3, Zenon DEF EndsIn
<1>5. A!BeforeComment(y) = y
  BY WholeLine
<1> QED
  BY <1>4, <1>5, LineFeeds

IsPlain(y, W) == y \in Seq(W) /\ y # <<>> /\ \A j \in 1 .. Len(y) : y[j] # A!Comment

(* Two words without the mark of a comment are a plain line.               *)
LEMMA PairIsPlain ==
  \A W, t, u : t \in W /\ u \in W /\ t # A!Comment /\ u # A!Comment => IsPlain(<<t, u>>, W)
<1> TAKE W, t, u
<1> HAVE t \in W /\ u \in W /\ t # A!Comment /\ u # A!Comment
<1>1. PICK hash, y : hash = A!Comment /\ y = <<t, u>>
  OBVIOUS
<1>2. y \in Seq(W) /\ y # <<>> /\ \A j \in 1 .. Len(y) : y[j] # hash
  BY <1>1
<1> QED
  BY <1>1, <1>2 DEF IsPlain

(* A macro behind an entry.                                                *)
LEMMA MacroLines ==
  \A W : Others \subseteq W =>
    /\ A!Macro \in Seq(Seq(W)) /\ Len(A!Macro) = 4
    /\ A!Macro[1] = <<"macdef", "init">> /\ A!Macro[2] = <<"machine", "k">>
    /\ A!Macro[3] = <<"login", "x">> /\ A!Macro[4] = <<>>
    /\ IsPlain(A!Macro[1], W) /\ IsPlain(A!Macro[2], W) /\ IsPlain(A!Macro[3], W)
<1> TAKE W
<1> HAVE Others \subseteq W
<1>1. PICK a, b, c, d, m : a = <<"macdef", "init">> /\ b = <<"machine", "k">> /\ c = <<"login", "x">> /\ d = <<>> /\ m = <<a, b, c, d>>
  OBVIOUS
<1>2. m = A!Macro
  BY <1>1, Zenon DEF A!Macro
<1>3. IsPlain(a, W) /\ IsPlain(b, W) /\ IsPlain(c, W)
  <2>1. /\ "macdef" \in W /\ "init" \in W /\ "machine" \in W /\ "k" \in W /\ "login" \in W /\ "x" \in W
        /\ "macdef" # A!Comment /\ "init" # A!Comment /\ "machine" # A!Comment /\ "k" # A!Comment
        /\ "login" # A!Comment /\ "x" # A!Comment
    BY Zenon DEF Others, A!Comment
  <2>2. IsPlain(<<"macdef", "init">>, W) /\ IsPlain(<<"machine", "k">>, W) /\ IsPlain(<<"login", "x">>, W)
    BY <2>1, PairIsPlain, Zenon
  <2> QED
    BY <1>1, <2>2, Zenon
<1>4. a \in Seq(W) /\ b \in Seq(W) /\ c \in Seq(W)
  BY <1>3, Zenon DEF IsPlain
<1>5. PICK V : V = Seq(W)
  OBVIOUS
<1>6. a \in V /\ b \in V /\ c \in V /\ d \in V
  <2>1. <<>> \in Seq(W)
    OBVIOUS
  <2> QED
    BY <1>1, <1>4, <1>5, <2>1
<1>7. \A a1, b1, c1, d1 \in V : /\ <<a1, b1, c1, d1>> \in Seq(V) /\ Len(<<a1, b1, c1, d1>>) = 4
                                /\ <<a1, b1, c1, d1>>[1] = a1 /\ <<a1, b1, c1, d1>>[2] = b1
                                /\ <<a1, b1, c1, d1>>[3] = c1 /\ <<a1, b1, c1, d1>>[4] = d1
  OBVIOUS
<1>8. m \in Seq(V) /\ Len(m) = 4 /\ m[1] = a /\ m[2] = b /\ m[3] = c /\ m[4] = d
  BY <1>1, <1>6, <1>7, Zenon
<1> QED
  BY <1>1, <1>2, <1>3, <1>5, <1>8, Zenon

(* A macro behind an entry changes nothing (parse_netrc).                  *)
LEMMA MacroEnds ==
  \A W, t, p, r, o, c, s :
    /\ IsText(t, W) /\ Others \subseteq W /\ p \in States(W) /\ EndsIn(t, p, r)
    /\ r = St("nothing", o, c, s) /\ St("macdef", o, c, s) \in States(W) /\ r \in States(W)
    => LinesEnd(A!OneLine(t) \o A!Macro, p, r)
<1> TAKE W, t, p, r, o, c, s
<1> HAVE /\ IsText(t, W) /\ Others \subseteq W /\ p \in States(W) /\ EndsIn(t, p, r)
         /\ r = St("nothing", o, c, s) /\ St("macdef", o, c, s) \in States(W) /\ r \in States(W)
<1>1. PICK x, y, z, V, q : x = A!OneLine(t) /\ y = A!Macro /\ z = x \o y /\ V = Seq(W) /\ q = St("macdef", o, c, s)
  OBVIOUS
<1>2. x \in Seq(V) /\ Len(x) = 1 /\ x[1] = t
  <2>1. t \in V
    BY <1>1, Zenon DEF IsText
  <2> QED
    BY <1>1, <2>1 DEF A!OneLine
<1>m. /\ y \in Seq(V) /\ Len(y) = 4 /\ y[1] = <<"macdef", "init">> /\ y[4] = <<>>
      /\ IsPlain(y[1], W) /\ IsPlain(y[2], W) /\ IsPlain(y[3], W)
  BY <1>1, MacroLines, Zenon
<1>3. Len(z) = 5 /\ z[1] = t /\ z[2] = y[1] /\ z[3] = y[2] /\ z[4] = y[3] /\ z[5] = y[4]
  <2>1. PICK m, n : m = Len(x) /\ n = Len(y)
    OBVIOUS
  <2>2. IsBehind(V, x, y, m, n)
    BY <1>2, <1>m, <2>1, Behind, Zenon
  <2>3. m = 1 /\ n = 4
    BY <1>2, <1>m, <2>1
  <2>4. m + n = 5 /\ 1 \in 1 .. m /\ 1 \in 1 .. n /\ 2 \in 1 .. n /\ 3 \in 1 .. n /\ 4 \in 1 .. n
        /\ m + 1 = 2 /\ m + 2 = 3 /\ m + 3 = 4 /\ m + 4 = 5
    BY <2>3
  <2>5. Len(z) = m + n /\ z[1] = x[1] /\ z[m + 1] = y[1] /\ z[m + 2] = y[2] /\ z[m + 3] = y[3] /\ z[m + 4] = y[4]
    BY <1>1, <2>2, <2>4, Zenon DEF IsBehind
  <2> QED
    BY <1>2, <2>4, <2>5
<1>4. A!Line(p, t) = r
  BY TextLine, Zenon
<1>5. A!Line(r, y[1]) = q
  <2>1. r.last = "nothing" /\ q.last = "macdef"
    BY <1>1 DEF St
  <2>2. A!Keyword("macdef") = "macdef" /\ "macdef" # "default" /\ "nothing" # "macdef"
    BY Zenon DEF A!Keyword
  <2>3. Feed(r, "macdef") = q
    <3>1. Feed(r, "macdef") = A!Token(r, "macdef")
      BY <2>1, <2>2, Zenon DEF Feed
    <3>2. A!Token(r, "macdef") = St(A!Keyword("macdef"), o, c, s)
      BY <2>2, KeywordIs
    <3> QED
      BY <1>1, <2>2, <3>1, <3>2
  <2>4. Feed(q, "init") = q
    BY <2>1, Zenon DEF Feed
  <2>5. EndsIn(y[1], r, q)
    BY <1>m, <2>3, <2>4, EndsTwo, Zenon
  <2>6. y[1] \in Seq(W) /\ y[1] # <<>> /\ A!BeforeComment(y[1]) = y[1]
    <3>1. y[1] \in Seq(W) /\ y[1] # <<>> /\ \A j \in 1 .. Len(y[1]) : y[1][j] # A!Comment
      BY <1>m, Zenon DEF IsPlain
    <3> QED
      BY <3>1, WholeLine, Zenon
  <2> QED
    BY <2>5, <2>6, LineFeeds, Zenon
<1>6. A!Line(q, y[2]) = q /\ A!Line(q, y[3]) = q
  <2>1. ASSUME NEW w, IsPlain(w, W) PROVE A!Line(q, w) = q
    BY <1>1, <2>1, MacroLine, ZenonT(60) DEF IsPlain
  <2> QED
    BY <1>m, <2>1, Zenon
<1>7. A!Line(q, y[4]) = r
  <2>1. A!Line(q, <<>>) = St(IF "macdef" = "macdef" THEN "nothing" ELSE "macdef", o, c, s)
    BY <1>1, BlankLine, Zenon
  <2> QED
    BY <1>m, <2>1, Zenon
<1>8. ASSUME NEW d, LineTrace(d, z, p, Len(z)) PROVE d[Len(z)] = r
  <2>1. d[0] = p /\ \A k \in 1 .. 5 : d[k] = A!Line(d[k - 1], z[k])
    BY <1>3, <1>8, Zenon DEF LineTrace
  <2>2. d[1] = A!Line(d[0], z[1]) /\ d[2] = A!Line(d[1], z[2]) /\ d[3] = A!Line(d[2], z[3])
        /\ d[4] = A!Line(d[3], z[4]) /\ d[5] = A!Line(d[4], z[5])
    <3>1. 1 \in 1 .. 5 /\ 2 \in 1 .. 5 /\ 3 \in 1 .. 5 /\ 4 \in 1 .. 5 /\ 5 \in 1 .. 5
          /\ 1 - 1 = 0 /\ 2 - 1 = 1 /\ 3 - 1 = 2 /\ 4 - 1 = 3 /\ 5 - 1 = 4
      OBVIOUS
    <3> QED
      BY <2>1, <3>1, Zenon
  <2> QED
    BY <1>3, <1>4, <1>5, <1>6, <1>7, <2>1, <2>2, Zenon
<1> QED
  BY <1>1, <1>8, Zenon DEF LinesEnd

(* An entry over several lines, an empty one and a comment between.        *)
LEMMA FirstWord ==
  \A W, t : IsText(t, W) => SubSeq(t, 1, 1) = <<t[1]>> /\ IsPlain(<<t[1]>>, W) /\ t[1] \in W
<1> TAKE W, t
<1> HAVE IsText(t, W)
<1>1. t \in Seq(W) /\ Len(t) \in Nat \ {0} /\ 1 \in 1 .. Len(t) /\ t[1] # A!Comment
  <2>1. t \in Seq(W) /\ Len(t) \in Nat \ {0} /\ \A j \in 1 .. Len(t) : t[j] # A!Comment
    BY Zenon DEF IsText
  <2>2. 1 \in 1 .. Len(t)
    BY <2>1
  <2> QED
    BY <2>1, <2>2
<1>2. PICK x \in W : x = t[1]
  BY <1>1
<1>3. PICK z, w, one, hash : z = SubSeq(t, 1, 1) /\ w = <<x>> /\ one = 1 /\ hash = A!Comment
  OBVIOUS
<1>4. z \in Seq(W) /\ Len(z) = one /\ z[1] = x
  BY <1>1, <1>2, <1>3
<1>5. w \in Seq(W) /\ Len(w) = one /\ w[1] = x /\ w # <<>>
  BY <1>3
<1>6. \A i \in 1 .. one : z[i] = w[i]
  BY <1>3, <1>4, <1>5
<1>7. z = w
  BY <1>3, <1>4, <1>5, <1>6, SameSeq
<1>8. x # hash
  BY <1>1, <1>2, <1>3
<1>9. \A j \in 1 .. Len(w) : w[j] # hash
  BY <1>3, <1>5, <1>8
<1> QED
  BY <1>2, <1>3, <1>5, <1>7, <1>9, Zenon DEF IsPlain

(* A plain line leads where its tokens do.                                 *)
LEMMA PlainLine ==
  \A W, y, p, r : IsPlain(y, W) /\ p \in States(W) /\ EndsIn(y, p, r) => A!Line(p, y) = r
<1> TAKE W, y, p, r
<1> HAVE IsPlain(y, W) /\ p \in States(W) /\ EndsIn(y, p, r)
<1>1. y \in Seq(W) /\ y # <<>> /\ \A j \in 1 .. Len(y) : y[j] # A!Comment
  BY Zenon DEF IsPlain
<1>2. A!BeforeComment(y) = y
  BY <1>1, WholeLine
<1> QED
  BY <1>1, <1>2, LineFeeds

(* What is left of an entry's line without its first word is plain.        *)
LEMMA TailIsPlain == \A W, t : IsText(t, W) => Tail(t) = <<>> \/ IsPlain(Tail(t), W)
<1> TAKE W, t
<1> HAVE IsText(t, W)
<1>1. PICK n \in Nat \ {0}, hash \in {A!Comment} : n = Len(t) /\ hash = A!Comment
  <2>1. Len(t) \in Nat \ {0}
    BY Zenon DEF IsText
  <2> QED
    BY <2>1
<1>2. t \in Seq(W) /\ t # <<>> /\ \A j \in 1 .. n : t[j] # hash
  <2>1. t \in Seq(W) /\ \A j \in 1 .. n : t[j] # hash
    BY <1>1, Zenon DEF IsText
  <2>2. ASSUME t = <<>> PROVE FALSE
    <3>1. Len(t) = 0
      BY <2>2
    <3> QED
      BY <1>1, <3>1
  <2> QED
    BY <2>1, <2>2
<1>3. PICK v : v = Tail(t)
  OBVIOUS
<1>4. v \in Seq(W) /\ Len(v) = n - 1 /\ \A j \in 1 .. n - 1 : v[j] = t[j + 1]
  BY <1>1, <1>2, <1>3
<1>5. \A j \in 1 .. Len(v) : v[j] # hash
  <2> SUFFICES ASSUME NEW j \in 1 .. n - 1 PROVE v[j] # hash
    BY <1>4
  <2>1. j + 1 \in 1 .. n
    BY <1>1
  <2> QED
    BY <1>2, <1>4, <2>1
<1> QED
  BY <1>1, <1>3, <1>4, <1>5 DEF IsPlain

NoMacro(q) == \E l, x, d, z : l # "macdef" /\ q = St(l, x, d, z)

(* An entry's first word begins no macro.                                  *)
LEMMA FirstWordLeads ==
  \A W, t, p, o, c, s :
    IsText(t, W) /\ p = St("nothing", o, c, s) => NoMacro(Feed(p, t[1]))
<1> TAKE W, t, p, o, c, s
<1> HAVE IsText(t, W) /\ p = St("nothing", o, c, s)
<1>1. p.last = "nothing"
  BY DEF St
<1>2. Feed(p, t[1]) = A!Token(p, t[1])
  BY <1>1, Zenon DEF Feed
<1>3. CASE t[1] = "default"
  <2>1. A!Token(p, t[1]) = A!MaybeAdd(p)
    BY <1>3, DefaultIs
  <2>2. A!MaybeAdd(p) = St("nothing", Yes, Ent(A!None, A!None, A!None), Added(o, c, s))
    BY AddingIs
  <2>3. "nothing" # "macdef"
    OBVIOUS
  <2> QED
    BY <1>2, <2>1, <2>2, <2>3, Zenon DEF NoMacro
<1>4. CASE t[1] # "default"
  <2>1. t[1] = "machine"
    BY <1>4, Zenon DEF IsText
  <2>2. A!Token(p, t[1]) = St(A!Keyword(t[1]), o, c, s)
    BY <1>4, KeywordIs
  <2>3. A!Keyword(t[1]) = "machine" /\ "machine" # "macdef"
    BY <2>1, Zenon DEF A!Keyword
  <2> QED
    BY <1>2, <2>2, <2>3, Zenon DEF NoMacro
<1> QED
  BY <1>3, <1>4

(* An entry that is broken over lines with comments leads where its        *)
(* tokens do.                                                              *)
LEMMA BrokenEnds ==
  \A W, t, p, r, o, c, s :
    IsText(t, W) /\ Others \subseteq W /\ p \in States(W) /\ EndsIn(t, p, r) /\ p = St("nothing", o, c, s)
    => LinesEnd(A!Broken(t), p, r)
<1> TAKE W, t, p, r, o, c, s
<1> HAVE IsText(t, W) /\ Others \subseteq W /\ p \in States(W) /\ EndsIn(t, p, r) /\ p = St("nothing", o, c, s)
<1>1. PICK q, v : q = Feed(p, t[1]) /\ v = Tail(t)
  OBVIOUS
<1>2. q \in States(W)
  BY <1>1, FirstWord, FeedTyped, Zenon
<1>3. A!Line(p, SubSeq(t, 1, 1)) = q
  <2>1. EndsIn(<<t[1]>>, p, q)
    BY <1>1, EndsOne, Zenon
  <2>2. SubSeq(t, 1, 1) = <<t[1]>> /\ IsPlain(<<t[1]>>, W)
    BY FirstWord, Zenon
  <2> QED
    BY <2>1, <2>2, PlainLine, Zenon
<1>4. A!Line(q, <<>>) = q
  <2>1. PICK l, x, d, z : l # "macdef" /\ q = St(l, x, d, z)
    <3>1. NoMacro(Feed(p, t[1]))
      BY FirstWordLeads, Zenon
    <3> QED
      BY <1>1, <3>1, Zenon DEF NoMacro
  <2> QED
    BY <2>1, BlankLine, Zenon
<1>5. A!Line(q, <<A!Comment, "machine", "k">>) = q
  <2>1. "machine" \in W /\ "k" \in W /\ A!Comment \in W /\ "machine" # A!Comment
    BY Zenon DEF Others, A!Comment
  <2>2. A!BeforeComment(<<A!Comment, "machine", "k">>) = <<>>
    BY <2>1, TokenAlone, Zenon
  <2>3. EndsIn(<<>>, q, q)
    BY EndsHere, Zenon
  <2>4. <<>> \in Seq(W) /\ <<A!Comment, "machine", "k">> # <<>>
    OBVIOUS
  <2>5. PICK x, y : x = <<A!Comment, "machine", "k">> /\ y = <<>>
    OBVIOUS
  <2>6. x # <<>> /\ y \in Seq(W) /\ y = A!BeforeComment(x) /\ EndsIn(y, q, q)
    BY <2>2, <2>3, <2>4, <2>5, Zenon
  <2>7. A!Line(q, x) = q
    BY <1>2, <2>6, LineFeeds
  <2> QED
    BY <2>5, <2>7, Zenon
<1>6. EndsIn(v, q, r)
  <2>1. t \in Seq(W) /\ t # <<>>
    <3>1. t \in Seq(W) /\ Len(t) \in Nat \ {0}
      BY Zenon DEF IsText
    <3>2. ASSUME t = <<>> PROVE FALSE
      <4>1. Len(t) = 0
        BY <3>2
      <4> QED
        BY <3>1, <4>1
    <3> QED
      BY <3>1, <3>2
  <2> QED
    BY <1>1, <2>1, EndsAfterOne, Zenon
<1>7. A!Line(q, v) = r
  <2>1. CASE v = <<>>
    <3>1. PICK d : d = [k \in {0} |-> q]
      OBVIOUS
    <3>2. Len(v) = 0 /\ d[0] = q
      BY <2>1, <3>1
    <3>3. FeedTrace(d, v, q, 0)
      <4>1. 1 .. 0 = {}
        OBVIOUS
      <4> QED
        BY <3>2, <4>1, Zenon DEF FeedTrace
    <3>4. q = r
      BY <1>6, <3>2, <3>3, Zenon DEF EndsIn
    <3> QED
      BY <1>4, <2>1, <3>4, Zenon
  <2>2. CASE v # <<>>
    <3>1. IsPlain(v, W)
      BY <1>1, <2>2, TailIsPlain, Zenon
    <3> QED
      BY <1>2, <1>6, <3>1, PlainLine, Zenon
  <2> QED
    BY <2>1, <2>2
<1>8. PICK z : z = A!Broken(t)
  OBVIOUS
<1>9. Len(z) = 4 /\ z[1] = SubSeq(t, 1, 1) /\ z[2] = <<>> /\ z[3] = <<A!Comment, "machine", "k">> /\ z[4] = v
  <2>1. \A a1, b1, c1, d1 : /\ Len(<<a1, b1, c1, d1>>) = 4
                            /\ <<a1, b1, c1, d1>>[1] = a1 /\ <<a1, b1, c1, d1>>[2] = b1
                            /\ <<a1, b1, c1, d1>>[3] = c1 /\ <<a1, b1, c1, d1>>[4] = d1
    OBVIOUS
  <2> QED
    BY <1>1, <1>8, <2>1, Zenon DEF A!Broken
<1>10. ASSUME NEW d, LineTrace(d, z, p, Len(z)) PROVE d[Len(z)] = r
  <2>1. d[0] = p /\ \A k \in 1 .. 4 : d[k] = A!Line(d[k - 1], z[k])
    BY <1>9, <1>10, Zenon DEF LineTrace
  <2>2. d[1] = A!Line(d[0], z[1]) /\ d[2] = A!Line(d[1], z[2]) /\ d[3] = A!Line(d[2], z[3])
        /\ d[4] = A!Line(d[3], z[4])
    <3>1. 1 \in 1 .. 4 /\ 2 \in 1 .. 4 /\ 3 \in 1 .. 4 /\ 4 \in 1 .. 4
          /\ 1 - 1 = 0 /\ 2 - 1 = 1 /\ 3 - 1 = 2 /\ 4 - 1 = 3
      OBVIOUS
    <3> QED
      BY <2>1, <3>1, Zenon
  <2> QED
    BY <1>3, <1>4, <1>5, <1>7, <1>9, <2>1, <2>2, Zenon
<1> QED
  BY <1>8, <1>10, Zenon DEF LinesEnd

(* An entry with one token on each line, and a comment behind each.        *)
LEMMA EachEnds ==
  \A W, t, p, r :
    IsText(t, W) /\ Others \subseteq W /\ p \in States(W) /\ EndsIn(t, p, r) => LinesEnd(A!OneEach(t), p, r)
<1> TAKE W, t, p, r
<1> HAVE IsText(t, W) /\ Others \subseteq W /\ p \in States(W) /\ EndsIn(t, p, r)
<1>1. PICK n \in Nat \ {0}, z \in {A!OneEach(t)} : n = Len(t) /\ z = A!OneEach(t)
  <2>1. Len(t) \in Nat \ {0}
    BY Zenon DEF IsText
  <2> QED
    BY <2>1
<1>2. t \in Seq(W) /\ DOMAIN t = 1 .. n /\ \A j \in 1 .. n : t[j] \in W /\ t[j] # A!Comment
  <2>1. t \in Seq(W) /\ \A j \in 1 .. n : t[j] # A!Comment
    BY <1>1, Zenon DEF IsText
  <2>2. DOMAIN t = 1 .. n /\ \A j \in 1 .. n : t[j] \in W
    BY <1>1, <2>1
  <2> QED
    BY <2>1, <2>2
<1>3. /\ Len(z) = n /\ \A j \in 1 .. n : z[j] = <<t[j], A!Comment, "password">>
  <2>1. z = [i \in 1 .. n |-> <<t[i], A!Comment, "password">>]
    BY <1>1, <1>2, Zenon DEF A!OneEach
  <2> QED
    BY <2>1
<1>4. ASSUME NEW q \in States(W), NEW j \in 1 .. n PROVE A!Line(q, z[j]) = Feed(q, t[j])
  <2>1. "password" \in W /\ A!Comment \in W
    BY Zenon DEF Others
  <2>2. A!BeforeComment(z[j]) = <<t[j]>>
    <3>1. t[j] \in W /\ t[j] # A!Comment
      BY <1>2
    <3>2. A!BeforeComment(<<t[j], A!Comment, "password">>) = <<t[j]>>
      BY <2>1, <3>1, TokenAlone
    <3> QED
      BY <1>3, <3>2
  <2>3. EndsIn(<<t[j]>>, q, Feed(q, t[j]))
    BY EndsOne, Zenon
  <2>4. <<t[j]>> \in Seq(W) /\ z[j] # <<>>
    <3>1. \A x \in W : <<x>> \in Seq(W) /\ \A y, u : <<x, y, u>> # <<>>
      OBVIOUS
    <3> QED
      BY <1>2, <1>3, <3>1, Zenon
  <2> QED
    BY <2>2, <2>3, <2>4, LineFeeds, Zenon
<1>5. ASSUME NEW d, LineTrace(d, z, p, n) PROVE d[n] = r
  <2>0. d[0] = p /\ \A k \in 1 .. n : d[k] = A!Line(d[k - 1], z[k])
    BY <1>5, Zenon DEF LineTrace
  <2> DEFINE P == {k \in Nat : k <= n => d[k] \in States(W) /\ (k # 0 => d[k] = Feed(d[k - 1], t[k]))}
  <2>1. 0 \in P
    BY <2>0
  <2>2. ASSUME NEW k \in Nat, k \in P PROVE k + 1 \in P
    <3> SUFFICES ASSUME k + 1 <= n
                 PROVE  d[k + 1] \in States(W) /\ d[k + 1] = Feed(d[(k + 1) - 1], t[k + 1])
      OBVIOUS
    <3>1. PICK q \in 1 .. n : q = k + 1 /\ q - 1 = k
      OBVIOUS
    <3>2. d[q] = A!Line(d[q - 1], z[q]) /\ d[k] \in States(W)
      BY <1>1, <2>0, <2>2, <3>1
    <3>3. d[q] = Feed(d[k], t[q])
      BY <1>4, <3>1, <3>2
    <3>4. Feed(d[k], t[q]) \in States(W)
      BY <1>2, <3>2, FeedTyped
    <3> QED
      BY <3>1, <3>3, <3>4
  <2>3. Nat \subseteq P
    <3> HIDE DEF P
    <3> QED
      BY <2>1, <2>2, NatInductive
  <2>4. \A k \in 1 .. n : d[k] = Feed(d[k - 1], t[k])
    BY <1>1, <2>3
  <2>5. FeedTrace(d, t, p, Len(t))
    BY <1>1, <2>0, <2>4, Zenon DEF FeedTrace
  <2> QED
    BY <1>1, <2>5, Zenon DEF EndsIn
<1> QED
  BY <1>1, <1>3, <1>5, Zenon DEF LinesEnd

(* The lines of an entry are lines of words.                               *)
LEMMA LaidTyped ==
  \A W, t, layout : IsText(t, W) /\ Others \subseteq W /\ layout \in A!Layouts => A!Laid(layout, t) \in Seq(Seq(W))
<1> TAKE W, t, layout
<1> HAVE IsText(t, W) /\ Others \subseteq W /\ layout \in A!Layouts
<1>0. PICK V : V = Seq(W)
  OBVIOUS
<1>n. PICK n \in Nat : n = Len(t)
  <2>1. Len(t) \in Nat
    BY Zenon DEF IsText
  <2> QED
    BY <2>1
<1>1. V = Seq(W) /\ n = Len(t)
  BY <1>0, <1>n
<1>2. t \in V /\ DOMAIN t = 1 .. n /\ (\A j \in 1 .. n : t[j] \in W) /\ t \in Seq(W)
  <2>1. t \in Seq(W)
    BY Zenon DEF IsText
  <2>2. DOMAIN t = 1 .. n /\ \A j \in 1 .. n : t[j] \in W
    BY <1>1, <2>1
  <2> QED
    BY <1>1, <2>1, <2>2
<1>3. A!OneLine(t) \in Seq(V)
  <2>1. <<t>> \in Seq(V)
    BY <1>2
  <2> QED
    BY <2>1, Zenon DEF A!OneLine
<1>4. A!OneEach(t) \in Seq(V)
  <2>1. \A j \in 1 .. n : <<t[j], A!Comment, "password">> \in V
    <3>1. \A a, b, c \in W : <<a, b, c>> \in Seq(W)
      OBVIOUS
    <3>2. A!Comment \in W /\ "password" \in W
      BY Zenon DEF Others
    <3> QED
      BY <1>1, <1>2, <3>1, <3>2, Zenon
  <2>2. PICK g : g = [j \in 1 .. n |-> <<t[j], A!Comment, "password">>]
    OBVIOUS
  <2>3. g \in [1 .. n -> V]
    BY <2>1, <2>2
  <2>4. g \in Seq(V)
    BY <2>3
  <2> QED
    BY <1>2, <2>2, <2>4, Zenon DEF A!OneEach
<1>5. A!Broken(t) \in Seq(V)
  <2>1. \A a, b, c, d \in V : <<a, b, c, d>> \in Seq(V)
    OBVIOUS
  <2>2. SubSeq(t, 1, 1) \in V
    <3>1. SubSeq(t, 1, 1) = <<t[1]>> /\ IsPlain(<<t[1]>>, W)
      BY FirstWord, Zenon
    <3> QED
      BY <1>1, <3>1, Zenon DEF IsPlain
  <2>3. <<A!Comment, "machine", "k">> \in V /\ <<>> \in V
    <3>1. \A a, b, c \in W : <<a, b, c>> \in Seq(W)
      OBVIOUS
    <3>2. A!Comment \in W /\ "machine" \in W /\ "k" \in W
      BY Zenon DEF Others
    <3>3. <<>> \in Seq(W)
      OBVIOUS
    <3> QED
      BY <1>1, <3>1, <3>2, <3>3, Zenon
  <2>4. Tail(t) \in V
    <3>1. Tail(t) = <<>> \/ IsPlain(Tail(t), W)
      BY TailIsPlain, Zenon
    <3> QED
      BY <1>1, <2>3, <3>1, Zenon DEF IsPlain
  <2> QED
    BY <2>1, <2>2, <2>3, <2>4, Zenon DEF A!Broken
<1>6. A!OneLine(t) \o A!Macro \in Seq(V)
  <2>1. PICK m \in Seq(V), k \in Seq(V) : m = A!OneLine(t) /\ k = A!Macro
    BY <1>1, <1>3, MacroLines, Zenon
  <2>2. m \o k \in Seq(V)
    OBVIOUS
  <2> QED
    BY <2>1, <2>2
<1> QED
  BY <1>1, <1>3, <1>4, <1>5, <1>6, Zenon DEF A!Laid, A!Layouts

(* The lines of an entry, however it is laid out, replace the one before.  *)
IsEntry(e) == A!Comment \notin {e.host, e.account, e.password}

(* An entry's text is one of the words it is made of.                      *)
LEMMA TextIsText ==
  \A W, e, y : IsEntry(e) /\ TokensOf(e) \subseteq W /\ IsEntryText(y, e) => IsText(y, W)
<1> TAKE W, e, y
<1> HAVE IsEntry(e) /\ TokensOf(e) \subseteq W /\ IsEntryText(y, e)
<1>1. PICK T1, hash : T1 = TokensOf(e) /\ hash = A!Comment
  OBVIOUS
<1>2. y \in Seq(T1) /\ Len(y) \in Nat \ {0} /\ y[1] \in {"default", "machine"}
  BY <1>1, Zenon DEF IsEntryText
<1>3. hash \notin T1
  BY <1>1, Zenon DEF TokensOf, IsEntry, A!Comment
<1>4. y \in Seq(W) /\ \A j \in 1 .. Len(y) : y[j] # hash
  <2>1. T1 \subseteq W
    BY <1>1
  <2>2. \A j \in 1 .. Len(y) : y[j] \in T1
    BY <1>2
  <2>3. \A j \in 1 .. Len(y) : y[j] # hash
    BY <1>3, <2>2
  <2>4. y \in Seq(W)
    BY <1>2, <2>1
  <2> QED
    BY <2>3, <2>4
<1> QED
  BY <1>1, <1>2, <1>4, Zenon DEF IsText

CanStart(W, o, c, s) == o \in BOOLEAN /\ c \in Entries(W) /\ s \in Seq(Entries(W))
Replaces(z, e, W, o, c, s) ==
  /\ z \in Seq(Seq(W)) /\ LinesEnd(z, St("nothing", o, c, s), After(o, c, s, e))
  /\ CanStart(W, Yes, Ent(e.host, e.account, e.password), Added(o, c, s))
  /\ St("nothing", o, c, s) \in States(W)

(* In every layout an entry replaces the one that was being read.          *)
LEMMA LaidEnds ==
  \A W, e, layout, swap, o, c, s :
    /\ IsEntry(e) /\ TokensOf(e) \subseteq W /\ Others \subseteq W
    /\ layout \in A!Layouts /\ swap \in BOOLEAN /\ CanStart(W, o, c, s)
    => Replaces(A!Laid(layout, A!Written(e, swap)), e, W, o, c, s)
<1> TAKE W, e, layout, swap, o, c, s
<1> HAVE /\ IsEntry(e) /\ TokensOf(e) \subseteq W /\ Others \subseteq W
         /\ layout \in A!Layouts /\ swap \in BOOLEAN /\ CanStart(W, o, c, s)
<1>1. PICK t, p, r, d, a : t = A!Written(e, swap) /\ p = St("nothing", o, c, s) /\ r = After(o, c, s, e)
                      /\ d = Ent(e.host, e.account, e.password) /\ a = Added(o, c, s)
  OBVIOUS
<1>2. IsEntryText(t, e) /\ EndsIn(t, p, r)
  <2>1. /\ IsEntryText(A!Written(e, swap), e)
        /\ EndsIn(A!Written(e, swap), St("nothing", o, c, s), After(o, c, s, e))
    BY WrittenEnds
  <2> QED
    BY <1>1, <2>1, Zenon
<1>3. IsText(t, W)
  BY <1>2, TextIsText, Zenon
<1>4. o \in BOOLEAN /\ c \in Entries(W) /\ s \in Seq(Entries(W)) /\ "nothing" \in Expected /\ "macdef" \in Expected
  BY Zenon DEF CanStart, Expected
<1>5. p \in States(W)
  BY <1>1, <1>4, StatesAre, Zenon
<1>6. CanStart(W, Yes, d, a)
  <2>1. e.host \in W \cup {A!None} /\ e.account \in W \cup {A!None} /\ e.password \in W \cup {A!None}
    BY Zenon DEF TokensOf
  <2>2. d \in Entries(W)
    BY <1>1, <2>1, EntriesAre, Zenon
  <2>3. Append(s, c) \in Seq(Entries(W))
    BY <1>4
  <2>4. a \in Seq(Entries(W))
    BY <1>1, <1>4, <2>3, Zenon DEF Added
  <2> QED
    BY <2>2, <2>4, Zenon DEF CanStart, Yes
<1>7. r = St("nothing", Yes, d, a) /\ r \in States(W) /\ St("macdef", Yes, d, a) \in States(W)
  <2>1. r = St("nothing", Yes, d, a)
    BY <1>1, Zenon DEF After
  <2> QED
    BY <1>4, <1>6, <2>1, StatesAre, Zenon DEF CanStart
<1>8. LinesEnd(A!OneLine(t), p, r)
  BY <1>2, <1>3, <1>5, OneLineEnds, Zenon
<1>9. LinesEnd(A!OneEach(t), p, r)
  BY <1>2, <1>3, <1>5, EachEnds, Zenon
<1>10. LinesEnd(A!Broken(t), p, r)
  BY <1>1, <1>2, <1>3, <1>5, BrokenEnds, Zenon
<1>11. LinesEnd(A!OneLine(t) \o A!Macro, p, r)
  BY <1>2, <1>3, <1>5, <1>7, MacroEnds, Zenon
<1>12. LinesEnd(A!Laid(layout, t), p, r)
  BY <1>8, <1>9, <1>10, <1>11, Zenon DEF A!Laid, A!Layouts
<1>13. A!Laid(layout, t) \in Seq(Seq(W))
  BY <1>3, LaidTyped, Zenon
<1> QED
  BY <1>1, <1>5, <1>6, <1>12, <1>13, Zenon DEF Replaces

-----------------------------------------------------------------------------
(***************************************************************************)
(* A file, and the search for an account in it.                            *)
(***************************************************************************)

(* The states of the parser on a file.                                     *)
No == FALSE
FileStart == St("nothing", No, Ent(A!None, A!None, A!None), <<>>)
LinesLead(c, z, W) ==
  LineTrace(c, z, FileStart, Len(z)) /\ A!ParseNetrc(z) = A!MaybeAdd(c[Len(z)]).list

(* The parser's first state.                                               *)
LEMMA FileStartTyped ==
  \A W : FileStart \in States(W) /\ CanStart(W, No, Ent(A!None, A!None, A!None), <<>>)
<1> TAKE W
<1>1. A!None \in W \cup {A!None}
  OBVIOUS
<1>2. Ent(A!None, A!None, A!None) \in Entries(W)
  BY <1>1, EntriesAre, Zenon
<1>3. <<>> \in Seq(Entries(W))
  OBVIOUS
<1>4. No \in BOOLEAN /\ "nothing" \in Expected
  BY Zenon DEF No, Expected
<1> QED
  BY <1>2, <1>3, <1>4, StatesAre, Zenon DEF FileStart, CanStart

(* The lines of a file lead from state to state.                           *)
LEMMA FileIsRead == \A W, z : z \in Seq(Seq(W)) => \E c : LinesLead(c, z, W)
<1> TAKE W, z
<1> HAVE z \in Seq(Seq(W))
<1>p. PICK p : p = FileStart
  OBVIOUS
<1>a. A!Start = p
  BY <1>p, Zenon DEF A!Start, A!NoEntry, FileStart, St, Ent, No
<1>0. PICK m, V : m = Len(z) /\ m \in Nat /\ DOMAIN z = 1 .. m /\ (\A k \in 1 .. m : z[k] \in Seq(W)) /\ V = States(W)
  <2>1. Len(z) \in Nat /\ DOMAIN z = 1 .. Len(z) /\ \A k \in 1 .. Len(z) : z[k] \in Seq(W)
    OBVIOUS
  <2> QED
    BY <2>1
<1> DEFINE D == DOMAIN z
           g == [e \in (1 .. m) \X V |-> A!Line(e[2], z[e[1]])]
           Raw(h) == h = [s \in SUBSET D |-> IF s = {} THEN p ELSE A!Line(h[s \ {Top(s)}], z[Top(s)])]
<1>1. g \in [(1 .. m) \X V -> V] /\ \A k \in 1 .. m, v \in V : g[<<k, v>>] = A!Line(v, z[k])
  <2>1. \A k \in 1 .. m, v \in V : A!Line(v, z[k]) \in V
    BY <1>0, LineTyped
  <2> QED
    BY <2>1
<1>2. PICK F, a : LeftFolds(F, a, m, V, p, g)
  <2>1. p \in V
    BY <1>0, <1>p, FileStartTyped
  <2> HIDE DEF g
  <2> QED
    BY <1>0, <1>1, <2>1, LeftFold, Zenon
<1> HIDE DEF g
<1>3. Raw(F)
  <2>1. F \in [SUBSET (1 .. m) -> V] /\ F[{}] = p
    BY <1>2 DEF LeftFolds, FoldsLeft
  <2>2. ASSUME NEW s \in SUBSET (1 .. m), s # {} PROVE F[s] = A!Line(F[s \ {Top(s)}], z[Top(s)])
    <3>1. Top(s) \in 1 .. m /\ F[s \ {Top(s)}] \in V
      BY <1>2, <2>1, <2>2 DEF LeftFolds
    <3>2. F[s] = g[<<Top(s), F[s \ {Top(s)}]>>]
      BY <1>2, <2>2, <3>1 DEF LeftFolds, FoldsLeft
    <3> QED
      BY <1>1, <3>1, <3>2
  <2>3. F = [s \in SUBSET (1 .. m) |-> IF s = {} THEN p ELSE A!Line(F[s \ {Top(s)}], z[Top(s)])]
    BY <2>1, <2>2
  <2> QED
    BY <1>0, <2>3, Zenon
<1>4. PICK h : Raw(h) /\ A!ParseNetrc(z) = A!MaybeAdd(h[D]).list
  <2>1. Raw(CHOOSE h : Raw(h))
    <3> HIDE DEF Raw
    <3> QED
      BY <1>3, Zenon
  <2>2. A!ParseNetrc(z) = A!MaybeAdd((CHOOSE h : Raw(h))[D]).list
    BY <1>a, Zenon DEF A!ParseNetrc, A!FoldLeft, A!MapThenFoldSet, A!Max, Top
  <2> QED
    <3> HIDE DEF Raw
    <3> QED
      BY <2>1, <2>2, Zenon
<1>5. h = [s \in SUBSET (1 .. m) |-> IF s = {} THEN p ELSE A!Line(h[s \ {Top(s)}], z[Top(s)])]
  BY <1>0, <1>4, Zenon
<1> HIDE DEF Raw
<1>6. FoldsLeft(h, m, V, p, g)
  <2>1. h[{}] = p
    BY <1>5
  <2>2. ASSUME NEW s \in SUBSET (1 .. m), s # {}, h[s \ {Top(s)}] \in V
        PROVE  h[s] = g[<<Top(s), h[s \ {Top(s)}]>>]
    <3>1. Top(s) \in 1 .. m
      BY <1>2, <2>2 DEF LeftFolds
    <3>2. h[s] = A!Line(h[s \ {Top(s)}], z[Top(s)])
      BY <1>5, <2>2
    <3> QED
      BY <1>1, <2>2, <3>1, <3>2
  <2> QED
    BY <2>1, <2>2 DEF FoldsLeft
<1>7. h[1 .. m] = a[m] /\ Folded(a, m, V, p, g)
  BY <1>2, <1>6, Zenon DEF LeftFolds
<1>8. a[0] = p /\ (\A k \in 0 .. m : a[k] \in V) /\ \A k \in 1 .. m : a[k] = g[<<k, a[k - 1]>>]
  BY <1>7 DEF Folded
<1>9. \A k \in 1 .. m : a[k] = A!Line(a[k - 1], z[k])
  <2> SUFFICES ASSUME NEW k \in 1 .. m PROVE a[k] = A!Line(a[k - 1], z[k])
    OBVIOUS
  <2>1. k - 1 \in 0 .. m
    BY <1>0
  <2> QED
    BY <1>1, <1>8, <2>1
<1>10. A!ParseNetrc(z) = A!MaybeAdd(a[m]).list
  BY <1>0, <1>4, <1>7, Zenon
<1>11. LinesLead(a, z, W)
  BY <1>0, <1>p, <1>8, <1>9, <1>10, Zenon DEF LinesLead, LineTrace
<1> QED
  BY <1>11

(* An entry's lines among those of a file.                                 *)
LEMMA PartEnds ==
  \A c, z, p, n, x, b, q, r :
    /\ LineTrace(c, z, p, n) /\ n \in Nat /\ b \in Nat /\ Len(x) \in Nat /\ b + Len(x) <= n
    /\ (\A i \in 1 .. Len(x) : z[b + i] = x[i]) /\ c[b] = q /\ LinesEnd(x, q, r)
    => c[b + Len(x)] = r
<1> TAKE c, z, p, n, x, b, q, r
<1> HAVE /\ LineTrace(c, z, p, n) /\ n \in Nat /\ b \in Nat /\ Len(x) \in Nat /\ b + Len(x) <= n
         /\ (\A i \in 1 .. Len(x) : z[b + i] = x[i]) /\ c[b] = q /\ LinesEnd(x, q, r)
<1>1. PICK l \in Nat : l = Len(x)
  OBVIOUS
<1>2. PICK d : d = [j \in 0 .. l |-> c[b + j]]
  OBVIOUS
<1>3. \A k \in 1 .. n : c[k] = A!Line(c[k - 1], z[k])
  BY Zenon DEF LineTrace
<1>4. ASSUME NEW j \in 1 .. l PROVE d[j] = A!Line(d[j - 1], x[j])
  <2>1. b + j \in 1 .. n /\ (b + j) - 1 = b + (j - 1) /\ j \in 0 .. l /\ j - 1 \in 0 .. l
    BY <1>1
  <2>2. c[b + j] = A!Line(c[(b + j) - 1], z[b + j]) /\ z[b + j] = x[j]
    BY <1>1, <1>3, <2>1
  <2>3. d[j] = c[b + j] /\ d[j - 1] = c[b + (j - 1)]
    BY <1>2, <2>1
  <2> QED
    BY <2>1, <2>2, <2>3
<1>5. d[0] = q
  <2>1. 0 \in 0 .. l /\ b + 0 = b
    BY <1>1
  <2> QED
    BY <1>2, <2>1
<1>6. LineTrace(d, x, q, Len(x))
  BY <1>1, <1>4, <1>5, Zenon DEF LineTrace
<1>7. d[l] = r
  BY <1>1, <1>6, Zenon DEF LinesEnd
<1>8. d[l] = c[b + l]
  BY <1>2
<1> QED
  BY <1>1, <1>7, <1>8

(* The entry that is found for the host.                                   *)
ForHost == {A!None, "h"}
Hits(s) == {i \in 1 .. Len(s) : s[i].host \in ForHost}
Found(s) == IF Hits(s) = {} THEN A!NoEntry ELSE s[R!Min(Hits(s))]
AllUsed(s, E1) == s \in Seq(E1) /\ \A i \in 1 .. Len(s) : s[i].account # A!None

(* No entry is one without an account.                                     *)
LEMMA NoEntryIs == A!NoEntry = Ent(A!None, A!None, A!None) /\ A!NoEntry.account = A!None
<1>1. A!NoEntry = Ent(A!None, A!None, A!None)
  BY Zenon DEF A!NoEntry, Ent
<1>2. \A h, a, w : Ent(h, a, w).account = a
  BY DEF Ent
<1> QED
  BY <1>1, <1>2

(* The search yields the first entry of the list that is for the host, if  *)
(* there is one.                                                           *)
LEMMA FoundIn ==
  \A s, E1 : AllUsed(s, E1) =>
    IF Hits(s) = {} THEN Found(s) = A!NoEntry
    ELSE /\ R!Min(Hits(s)) \in 1 .. Len(s) /\ Found(s) = s[R!Min(Hits(s))]
         /\ Found(s).account # A!None /\ Found(s) # A!NoEntry
<1> TAKE s, E1
<1> HAVE AllUsed(s, E1)
<1>1. CASE Hits(s) = {}
  BY <1>1, Zenon DEF Found
<1>2. CASE Hits(s) # {}
  <2>1. Hits(s) \subseteq Nat /\ Hits(s) \subseteq 1 .. Len(s)
    <3>1. PICK I, n : I = Hits(s) /\ n = Len(s)
      OBVIOUS
    <3>2. I = {i \in 1 .. n : s[i].host \in ForHost}
      BY <3>1, Zenon DEF Hits
    <3>3. I \subseteq 1 .. n /\ 1 .. n \subseteq Nat
      BY <3>2
    <3> QED
      BY <3>1, <3>3
  <2>2. R!Min(Hits(s)) \in Hits(s)
    BY <1>2, <2>1, MinIs, Zenon
  <2>3. R!Min(Hits(s)) \in 1 .. Len(s) /\ Found(s) = s[R!Min(Hits(s))]
    BY <1>2, <2>1, <2>2, Zenon DEF Found
  <2>4. Found(s).account # A!None
    BY <2>3, Zenon DEF AllUsed
  <2>5. Found(s) # A!NoEntry
    BY <2>4, NoEntryIs
  <2> QED
    BY <1>2, <2>3, <2>4, <2>5
<1> QED
  BY <1>1, <1>2

(* One more entry of the list is found if none before it was.              *)
LEMMA FoundNext ==
  \A E1, s, x : AllUsed(s, E1) /\ x \in E1 /\ x.account # A!None =>
    /\ AllUsed(Append(s, x), E1)
    /\ Found(Append(s, x)) = IF Found(s) = A!NoEntry
                             THEN (IF x.host \in ForHost THEN x ELSE A!NoEntry) ELSE Found(s)
<1> TAKE E1, s, x
<1> HAVE AllUsed(s, E1) /\ x \in E1 /\ x.account # A!None
<1>0. PICK none, H : none = A!None /\ H = ForHost
  OBVIOUS
<1>n. s \in Seq(E1) /\ Len(s) \in Nat
  <2>1. s \in Seq(E1)
    BY Zenon DEF AllUsed
  <2> QED
    BY <2>1
<1>1. PICK n \in Nat : n = Len(s)
  BY <1>n
<1>z. PICK z : z = Append(s, x)
  OBVIOUS
<1>2. z \in Seq(E1) /\ Len(z) = n + 1 /\ (\A i \in 1 .. n : z[i] = s[i]) /\ z[n + 1] = x
  BY <1>n, <1>1, <1>z
<1>3. \A i \in 1 .. n : s[i].account # none
  BY <1>0, <1>1, Zenon DEF AllUsed
<1>4. AllUsed(z, E1)
  <2>1. \A i \in 1 .. n + 1 : z[i].account # none
    <3> SUFFICES ASSUME NEW i \in 1 .. n + 1 PROVE z[i].account # none
      OBVIOUS
    <3>1. CASE i = n + 1
      BY <1>0, <1>2, <3>1
    <3>2. CASE i # n + 1
      <4>1. i \in 1 .. n
        BY <3>2
      <4> QED
        BY <1>2, <1>3, <4>1
    <3> QED
      BY <3>1, <3>2
  <2> QED
    BY <1>0, <1>2, <2>1, Zenon DEF AllUsed
<1>5. PICK I, J : I = Hits(s) /\ J = Hits(z)
  OBVIOUS
<1>6. I = {i \in 1 .. n : s[i].host \in H} /\ J = {i \in 1 .. n + 1 : z[i].host \in H}
  BY <1>0, <1>1, <1>2, <1>5, Zenon DEF Hits
<1>7. J = I \cup (IF x.host \in H THEN {n + 1} ELSE {})
  <2>1. \A i \in 1 .. n + 1 : i \in 1 .. n \/ i = n + 1
    OBVIOUS
  <2>2. \A i \in 1 .. n : i \in 1 .. n + 1 /\ i # n + 1
    OBVIOUS
  <2>3. n + 1 \in 1 .. n + 1
    OBVIOUS
  <2>4. \A i \in 1 .. n : i \in I <=> i \in J
    BY <1>2, <1>6, <2>2
  <2>5. n + 1 \in J <=> x.host \in H
    BY <1>2, <1>6, <2>3
  <2>6. I \subseteq 1 .. n /\ J \subseteq 1 .. n + 1
    BY <1>6
  <2> QED
    BY <2>1, <2>2, <2>4, <2>5, <2>6
<1>8. CASE I = {}
  <2>1. Found(s) = A!NoEntry
    BY <1>5, <1>8, Zenon DEF Found
  <2>2. CASE x.host \in H
    <3>1. J = {n + 1}
      BY <1>7, <1>8, <2>2
    <3>2. J \subseteq Nat /\ n + 1 \in J /\ \A j \in J : n + 1 <= j
      BY <3>1
    <3>3. R!Min(J) = n + 1
      BY <3>2, LeastIs
    <3>4. Found(z) = z[n + 1]
      BY <1>5, <3>2, <3>3, Zenon DEF Found
    <3> QED
      BY <1>0, <1>2, <1>4, <1>z, <2>1, <2>2, <3>4
  <2>3. CASE x.host \notin H
    <3>1. J = {}
      BY <1>7, <1>8, <2>3
    <3>2. Found(z) = A!NoEntry
      BY <1>5, <3>1, Zenon DEF Found
    <3> QED
      BY <1>0, <1>4, <1>z, <2>1, <2>3, <3>2
  <2> QED
    BY <2>2, <2>3
<1>9. CASE I # {}
  <2>1. PICK m : m = R!Min(I)
    OBVIOUS
  <2>2. I \subseteq Nat /\ I \subseteq 1 .. n
    BY <1>6
  <2>3. m \in I /\ \A j \in I : m <= j
    BY <1>9, <2>1, <2>2, MinIs
  <2>4. J \subseteq Nat /\ m \in J /\ \A j \in J : m <= j
    <3>1. m \in 1 .. n
      BY <2>2, <2>3
    <3>2. J \subseteq Nat /\ m \in J
      BY <1>6, <1>7, <2>3
    <3>3. \A j \in J : j \in I \/ j = n + 1
      BY <1>7
    <3> QED
      BY <2>3, <3>1, <3>2, <3>3
  <2>5. R!Min(J) = m
    BY <2>4, LeastIs
  <2>6. Found(z) = z[m] /\ Found(s) = s[m]
    BY <1>5, <1>9, <2>1, <2>4, <2>5, Zenon DEF Found
  <2>7. Found(z) = Found(s)
    BY <1>2, <2>2, <2>3, <2>6
  <2>8. Found(s) # A!NoEntry
    BY <1>5, <1>9, FoundIn, Zenon
  <2> QED
    BY <1>4, <1>z, <2>7, <2>8
<1> QED
  BY <1>8, <1>9

(* What an entry says of the host, and where the parser is after the first *)
(* entries.                                                                *)
Says(e) ==
  IF e.host \in ForHost /\ e.account # A!None THEN Ent(e.host, e.account, e.password) ELSE A!NoEntry
ReadTo(g, W, p, i) ==
  \E o, c, s : /\ CanStart(W, o, c, s) /\ p = St("nothing", o, c, s)
               /\ AllUsed(Added(o, c, s), Entries(W)) /\ Found(Added(o, c, s)) = First(A!NoEntry, g, i)

(* At the start of the file no entry has been read.                        *)
LEMMA NothingRead == \A g, W : ReadTo(g, W, FileStart, 0)
<1> TAKE g, W
<1>1. PICK c, s : c = Ent(A!None, A!None, A!None) /\ s = <<>>
  OBVIOUS
<1>2. Added(No, c, s) = s
  BY Zenon DEF Added, No
<1>3. AllUsed(s, Entries(W))
  <2>1. s \in Seq(Entries(W)) /\ 1 .. Len(s) = {}
    BY <1>1
  <2> QED
    BY <2>1, Zenon DEF AllUsed
<1>4. Hits(s) = {}
  <2>1. 1 .. Len(s) = {}
    BY <1>1
  <2> QED
    BY <2>1, Zenon DEF Hits
<1>5. Found(s) = A!NoEntry
  BY <1>4, Zenon DEF Found
<1>6. First(A!NoEntry, g, 0) = A!NoEntry
  <2>1. 1 \in Nat \ {0}
    OBVIOUS
  <2> QED
    BY <2>1, FirstNext
<1>7. CanStart(W, No, c, s) /\ FileStart = St("nothing", No, c, s)
  BY <1>1, FileStartTyped, Zenon DEF FileStart
<1> QED
  BY <1>2, <1>3, <1>5, <1>6, <1>7, Zenon DEF ReadTo

EndsThere(z, p, g, W, i) == \E r : LinesEnd(z, p, r) /\ ReadTo(g, W, r, i)

(* After one more entry, the search would yield the first so far that is   *)
(* for the host.                                                           *)
LEMMA EntryRead ==
  \A W, e, g, i, p, layout, swap :
    /\ IsEntry(e) /\ TokensOf(e) \subseteq W /\ Others \subseteq W /\ layout \in A!Layouts /\ swap \in BOOLEAN
    /\ i \in Nat \ {0} /\ g[i] = Says(e) /\ ReadTo(g, W, p, i - 1)
    => EndsThere(A!Laid(layout, A!Written(e, swap)), p, g, W, i)
<1> TAKE W, e, g, i, p, layout, swap
<1> HAVE /\ IsEntry(e) /\ TokensOf(e) \subseteq W /\ Others \subseteq W /\ layout \in A!Layouts /\ swap \in BOOLEAN
         /\ i \in Nat \ {0} /\ g[i] = Says(e) /\ ReadTo(g, W, p, i - 1)
<1>1. PICK o, c, s :
        /\ CanStart(W, o, c, s) /\ p = St("nothing", o, c, s)
        /\ AllUsed(Added(o, c, s), Entries(W)) /\ Found(Added(o, c, s)) = First(A!NoEntry, g, i - 1)
  BY Zenon DEF ReadTo
<1>2. PICK z, d, a, r, E1 :
        /\ z = A!Laid(layout, A!Written(e, swap)) /\ d = Ent(e.host, e.account, e.password)
        /\ a = Added(o, c, s) /\ r = After(o, c, s, e) /\ E1 = Entries(W)
  OBVIOUS
<1>3. Replaces(z, e, W, o, c, s)
  BY <1>1, <1>2, LaidEnds, Zenon
<1>4. LinesEnd(z, p, r) /\ CanStart(W, Yes, d, a) /\ r = St("nothing", Yes, d, a)
  BY <1>1, <1>2, <1>3, Zenon DEF Replaces, After
<1>5. d \in E1 /\ d.host = e.host /\ d.account = e.account
  <2>1. \A h, u, w : Ent(h, u, w).host = h /\ Ent(h, u, w).account = u
    BY DEF Ent
  <2>2. d \in E1
    BY <1>2, <1>4, Zenon DEF CanStart
  <2>3. Ent(e.host, e.account, e.password).host = e.host /\ Ent(e.host, e.account, e.password).account = e.account
    BY <2>1
  <2>4. d = Ent(e.host, e.account, e.password)
    BY <1>2
  <2> QED
    BY <2>2, <2>3, <2>4
<1>6. First(A!NoEntry, g, i) = IF First(A!NoEntry, g, i - 1) = A!NoEntry THEN g[i] ELSE First(A!NoEntry, g, i - 1)
  BY FirstNext, ZenonT(60)
<1>7. AllUsed(Added(Yes, d, a), E1) /\ Found(Added(Yes, d, a)) = First(A!NoEntry, g, i)
  <2>a. AllUsed(a, E1) /\ Found(a) = First(A!NoEntry, g, i - 1)
    BY <1>1, <1>2, Zenon
  <2>1. CASE e.account = A!None
    <3>1. Added(Yes, d, a) = a
      BY <1>5, <2>1, Zenon DEF Added
    <3>2. g[i] = A!NoEntry
      BY <2>1, Zenon DEF Says
    <3>3. First(A!NoEntry, g, i) = First(A!NoEntry, g, i - 1)
      BY <1>6, <3>2, Zenon
    <3> QED
      BY <2>a, <3>1, <3>3, Zenon
  <2>2. CASE e.account # A!None
    <3>1. Added(Yes, d, a) = Append(a, d)
      BY <1>5, <2>2, Zenon DEF Added, Yes
    <3>2. /\ AllUsed(Append(a, d), E1)
          /\ Found(Append(a, d)) = IF Found(a) = A!NoEntry
                                   THEN (IF d.host \in ForHost THEN d ELSE A!NoEntry) ELSE Found(a)
      BY <1>5, <2>a, <2>2, FoundNext
    <3>3. g[i] = IF d.host \in ForHost THEN d ELSE A!NoEntry
      <4>1. CASE e.host \in ForHost
        BY <1>2, <1>5, <2>2, <4>1, Zenon DEF Says
      <4>2. CASE e.host \notin ForHost
        BY <1>5, <4>2, Zenon DEF Says
      <4> QED
        BY <4>1, <4>2
    <3> QED
      BY <1>6, <2>a, <3>1, <3>2, <3>3, Zenon
  <2> QED
    BY <2>1, <2>2
<1>8. ReadTo(g, W, r, i)
  BY <1>2, <1>4, <1>7, Zenon DEF ReadTo
<1> QED
  BY <1>2, <1>4, <1>8, Zenon DEF EndsThere

(* A file.                                                                 *)
IsFile(entries, m) ==
  /\ m \in Nat /\ m = Len(entries) /\ DOMAIN entries = 1 .. m
  /\ \A i \in 1 .. m : IsEntry(entries[i]) /\ entries[i].layout \in A!Layouts /\ entries[i].swap \in BOOLEAN

(* What is assumed of a file.                                              *)
LEMMA FileIs == \A entries \in NetrcFiles : IsFile(entries, Len(entries)) /\ IsSeq(entries)
<1> TAKE entries \in NetrcFiles
<1>1. IsSeq(entries) /\ \A i \in DOMAIN entries :
        /\ entries[i].layout \in A!Layouts /\ entries[i].swap \in BOOLEAN
        /\ A!Comment \notin {entries[i].host, entries[i].account, entries[i].password}
  BY AccountsAssumption, Zenon
<1>2. DOMAIN entries = 1 .. Len(entries) /\ Len(entries) \in Nat
  BY <1>1, SeqDomain, Zenon
<1> QED
  BY <1>1, <1>2, Zenon DEF IsFile, IsEntry

Reads(list, g, m) == \E E1 : AllUsed(list, E1) /\ Found(list) = First(A!NoEntry, g, m)

(* The list that a file is parsed to yields the first of its entries for   *)
(* the host (parse_netrc, search_netrc).                                   *)
LEMMA FileIsUnderstood ==
  \A entries, m, g :
    IsFile(entries, m) /\ IsSeq(entries) /\ (\A i \in 1 .. m : g[i] = Says(entries[i]))
    => Reads(A!ParseNetrc(A!NetrcLines(entries)), g, m)
<1> TAKE entries, m, g
<1> HAVE IsFile(entries, m) /\ IsSeq(entries) /\ \A i \in 1 .. m : g[i] = Says(entries[i])
<1>0. /\ m \in Nat /\ m = Len(entries) /\ DOMAIN entries = 1 .. m
      /\ \A i \in 1 .. m : IsEntry(entries[i]) /\ entries[i].layout \in A!Layouts /\ entries[i].swap \in BOOLEAN
  BY Zenon DEF IsFile
<1>1. PICK W : W = (UNION {TokensOf(entries[i]) : i \in 1 .. m}) \cup Others
  OBVIOUS
<1>2. Others \subseteq W /\ \A i \in 1 .. m : TokensOf(entries[i]) \subseteq W
  BY <1>1
<1>3. PICK s : s = [i \in 1 .. m |-> A!Laid(entries[i].layout, A!Written(entries[i], entries[i].swap))]
  OBVIOUS
<1>4. \A i \in 1 .. m : s[i] \in Seq(Seq(W))
  <2> SUFFICES ASSUME NEW i \in 1 .. m PROVE s[i] \in Seq(Seq(W))
    OBVIOUS
  <2>1. CanStart(W, No, Ent(A!None, A!None, A!None), <<>>)
    BY FileStartTyped, Zenon
  <2>2. Replaces(A!Laid(entries[i].layout, A!Written(entries[i], entries[i].swap)), entries[i], W,
                 No, Ent(A!None, A!None, A!None), <<>>)
    BY <1>0, <1>2, <2>1, LaidEnds, Zenon
  <2>3. s[i] = A!Laid(entries[i].layout, A!Written(entries[i], entries[i].swap))
    BY <1>3
  <2> QED
    BY <2>2, <2>3, Zenon DEF Replaces
<1>5. PICK V : V = Seq(W)
  OBVIOUS
<1>6. PICK f : IsFlat(f, s, m, V)
  BY <1>0, <1>4, <1>5, FlatExists
<1>7. A!NetrcLines(entries) = f[m]
  <2>1. m = Len(s) /\ (m = 0 => s = <<>>)
    BY <1>0, <1>3
  <2>2. A!FlattenSeq(s) = f[m]
    BY <1>6, <2>1, AFlatten, ZenonT(60)
  <2> QED
    BY <1>0, <1>3, <2>2, Zenon DEF A!NetrcLines
<1>8. \A k \in 1 .. m : FlatAt(f, s, m, k)
  <2>1. m \in 0 .. m
    BY <1>0
  <2> QED
    BY <1>6, <2>1, FlatPlaces, Zenon
<1>9. \A k \in 0 .. m : Len(f[k]) \in Nat
  <2>1. \A k \in 0 .. m : f[k] \in Seq(V)
    BY <1>6, Zenon DEF IsFlat
  <2> QED
    BY <2>1
<1>10. PICK z, n : z = f[m] /\ n = Len(z) /\ n \in Nat /\ z \in Seq(V)
  <2>1. f[m] \in Seq(V) /\ m \in 0 .. m
    BY <1>0, <1>6 DEF IsFlat
  <2> QED
    BY <1>9, <2>1
<1>11. PICK c : LinesLead(c, z, W)
  BY <1>5, <1>10, FileIsRead
<1>12. LineTrace(c, z, FileStart, n) /\ A!ParseNetrc(z) = A!MaybeAdd(c[n]).list
  BY <1>10, <1>11, Zenon DEF LinesLead
<1> DEFINE P == {k \in Nat : k <= m => ReadTo(g, W, c[Len(f[k])], k)}
<1>13. 0 \in P
  <2>1. Len(f[0]) = 0
    <3>1. f[0] = <<>>
      BY <1>6, Zenon DEF IsFlat
    <3> QED
      BY <3>1
  <2>2. c[0] = FileStart
    BY <1>12, Zenon DEF LineTrace
  <2>3. ReadTo(g, W, FileStart, 0)
    BY NothingRead, Zenon
  <2> QED
    BY <2>1, <2>2, <2>3
<1>14. ASSUME NEW k \in Nat, k \in P PROVE k + 1 \in P
  <2> SUFFICES ASSUME k + 1 <= m PROVE ReadTo(g, W, c[Len(f[k + 1])], k + 1)
    OBVIOUS
  <2>1. PICK q \in 1 .. m : q = k + 1 /\ q - 1 = k
    BY <1>0
  <2>2. ReadTo(g, W, c[Len(f[k])], q - 1)
    BY <1>0, <1>14, <2>1
  <2>3. q \in Nat \ {0}
    BY <1>0
  <2>4. s[q] = A!Laid(entries[q].layout, A!Written(entries[q], entries[q].swap))
    BY <1>3
  <2>5. EndsThere(s[q], c[Len(f[k])], g, W, q)
    <3>1. g[q] = Says(entries[q])
      OBVIOUS
    <3>2. IsEntry(entries[q]) /\ entries[q].layout \in A!Layouts /\ entries[q].swap \in BOOLEAN
          /\ TokensOf(entries[q]) \subseteq W
      BY <1>0, <1>2
    <3> QED
      BY <1>2, <2>2, <2>3, <2>4, <3>1, <3>2, EntryRead, Zenon
  <2>6. PICK r : LinesEnd(s[q], c[Len(f[k])], r) /\ ReadTo(g, W, r, q)
    BY <2>5, Zenon DEF EndsThere
  <2>7. PICK b \in Nat : b = Len(f[k])
    <3>1. k \in 0 .. m
      BY <1>0, <2>1
    <3> QED
      BY <1>9, <3>1
  <2>8. /\ Len(f[q]) = b + Len(s[q]) /\ Len(f[q]) <= n
        /\ \A i \in 1 .. Len(s[q]) : z[b + i] = s[q][i]
    BY <1>8, <1>10, <2>1, <2>7 DEF FlatAt
  <2>9. Len(s[q]) \in Nat
    <3>1. s[q] \in Seq(Seq(W))
      BY <1>4
    <3> QED
      BY <3>1
  <2>10. c[b + Len(s[q])] = r
    <3>1. b + Len(s[q]) <= n
      BY <2>8
    <3>2. LinesEnd(s[q], c[b], r)
      BY <2>6, <2>7
    <3> QED
      BY <1>10, <1>12, <2>8, <2>9, <3>1, <3>2, PartEnds
  <2> QED
    BY <2>1, <2>6, <2>8, <2>10
<1>15. Nat \subseteq P
  <2> HIDE DEF P
  <2> QED
    BY <1>13, <1>14, NatInductive
<1>16. ReadTo(g, W, c[n], m)
  BY <1>0, <1>10, <1>15
<1> HIDE DEF P
<1>17. PICK o, d, l :
        /\ c[n] = St("nothing", o, d, l)
        /\ AllUsed(Added(o, d, l), Entries(W)) /\ Found(Added(o, d, l)) = First(A!NoEntry, g, m)
  BY <1>16, Zenon DEF ReadTo
<1>18. A!ParseNetrc(z) = Added(o, d, l)
  <2>1. A!MaybeAdd(c[n]) = St("nothing", Yes, Ent(A!None, A!None, A!None), Added(o, d, l))
    <3>1. A!MaybeAdd(St("nothing", o, d, l)) = St("nothing", Yes, Ent(A!None, A!None, A!None), Added(o, d, l))
      BY AddingIs
    <3> QED
      BY <1>17, <3>1, Zenon
  <2>2. \A x, y, u, v : St(x, y, u, v).list = v
    BY DEF St
  <2>3. St("nothing", Yes, Ent(A!None, A!None, A!None), Added(o, d, l)).list = Added(o, d, l)
    BY <2>2
  <2> QED
    BY <1>12, <2>1, <2>3, Zenon
<1> QED
  BY <1>7, <1>10, <1>17, <1>18, Zenon DEF Reads

(* The search, and the entry that is meant.                                *)
LEMMA SearchNetrcIs == \A s : A!SearchNetrc(s, "h") = IF Hits(s) # {} THEN R!Min(Hits(s)) ELSE 0
<1> TAKE s
<1>1. A!SelectInSeq(s, LAMBDA e : e.host \in {A!None, "h"}) = IF Hits(s) # {} THEN R!Min(Hits(s)) ELSE 0
  BY Zenon DEF A!SelectInSeq, A!Min, R!Min, Hits, ForHost
<1> QED
  BY <1>1, Zenon DEF A!SearchNetrc

(* That entry is the one that is meant.                                    *)
LEMMA MeantIs ==
  \A entries, m, g :
    IsFile(entries, m) /\ (\A i \in 1 .. m : g[i] = Says(entries[i])) => A!Meant(entries, "h") = First(A!NoEntry, g, m)
<1> TAKE entries, m, g
<1> HAVE IsFile(entries, m) /\ \A i \in 1 .. m : g[i] = Says(entries[i])
<1>0. m \in Nat /\ DOMAIN entries = 1 .. m
  BY Zenon DEF IsFile
<1>1. PICK I : I = {i \in DOMAIN entries : entries[i].host \in {A!None, "h"} /\ entries[i].account # A!None}
  OBVIOUS
<1>2. PICK k : k = CHOOSE i \in I : \A j \in I : i <= j
  OBVIOUS
<1>3. \A i \in 1 .. m : i \in I <=> g[i] # A!NoEntry
  <2> SUFFICES ASSUME NEW i \in 1 .. m PROVE i \in I <=> g[i] # A!NoEntry
    OBVIOUS
  <2>1. i \in I <=> entries[i].host \in ForHost /\ entries[i].account # A!None
    BY <1>0, <1>1, Zenon DEF ForHost
  <2>2. Ent(entries[i].host, entries[i].account, entries[i].password).account = entries[i].account
    BY DEF Ent
  <2>3. ASSUME entries[i].account # A!None
        PROVE  Ent(entries[i].host, entries[i].account, entries[i].password) # A!NoEntry
    BY <2>2, <2>3, NoEntryIs
  <2>4. g[i] = Says(entries[i])
    OBVIOUS
  <2> QED
    BY <2>1, <2>3, <2>4, Zenon DEF Says
<1>4. I = Sayers(A!NoEntry, g, m)
  <2>1. I \subseteq 1 .. m
    BY <1>0, <1>1
  <2> QED
    BY <1>3, <2>1 DEF Sayers
<1>5. k = R!Min(I)
  BY <1>2, Zenon DEF R!Min
<1>6. CASE I = {}
  <2>1. A!Meant(entries, "h") = A!NoEntry
    BY <1>1, <1>6, Zenon DEF A!Meant
  <2> QED
    BY <1>4, <1>6, <2>1, Zenon DEF First
<1>7. CASE I # {}
  <2>1. A!Meant(entries, "h") = Ent(entries[k].host, entries[k].account, entries[k].password)
    BY <1>1, <1>2, <1>7, Zenon DEF A!Meant, Ent
  <2>2. k \in I /\ k \in 1 .. m
    <3>1. I \subseteq Nat /\ I \subseteq 1 .. m
      BY <1>0, <1>1
    <3> QED
      BY <1>5, <1>7, <3>1, MinIs
  <2>3. entries[k].host \in ForHost /\ entries[k].account # A!None
    BY <1>1, <2>2, Zenon DEF ForHost
  <2>4. g[k] = Ent(entries[k].host, entries[k].account, entries[k].password)
    BY <2>2, <2>3, Zenon DEF Says
  <2>5. First(A!NoEntry, g, m) = g[k]
    BY <1>4, <1>5, <1>7, Zenon DEF First
  <2> QED
    BY <2>1, <2>4, <2>5
<1> QED
  BY <1>6, <1>7

(* A session's account is that of the entry that is meant (netrc.c,        *)
(* ftp.c, http.c).                                                         *)
LEMMA AccountIsTheirs ==
  \A entries \in NetrcFiles : \A proto, user, passwd :
    A!IsAccountOf(entries, "h", proto, user, passwd,
                  A!Account(proto, user, passwd, A!ParseNetrc(A!NetrcLines(entries)), "h"))
<1> TAKE entries \in NetrcFiles
<1> TAKE proto, user, passwd
<1>1. PICK m : m = Len(entries)
  OBVIOUS
<1>2. IsFile(entries, m) /\ IsSeq(entries)
  BY <1>1, FileIs, Zenon
<1>3. PICK g : g = [i \in 1 .. m |-> Says(entries[i])]
  OBVIOUS
<1>4. \A i \in 1 .. m : g[i] = Says(entries[i])
  BY <1>3
<1>5. PICK list : list = A!ParseNetrc(A!NetrcLines(entries))
  OBVIOUS
<1>6. Reads(list, g, m)
  BY <1>2, <1>4, <1>5, FileIsUnderstood, Zenon
<1>7. PICK E1 : AllUsed(list, E1) /\ Found(list) = First(A!NoEntry, g, m)
  BY <1>6, Zenon DEF Reads
<1>8. PICK e : e = A!Meant(entries, "h")
  OBVIOUS
<1>9. e = Found(list)
  <2>1. A!Meant(entries, "h") = First(A!NoEntry, g, m)
    BY <1>2, <1>4, MeantIs
  <2> QED
    BY <1>7, <1>8, <2>1
<1>10. PICK i : i = A!SearchNetrc(list, "h")
  OBVIOUS
<1>11. i = IF Hits(list) # {} THEN R!Min(Hits(list)) ELSE 0
  <2>1. A!SearchNetrc(list, "h") = IF Hits(list) # {} THEN R!Min(Hits(list)) ELSE 0
    BY SearchNetrcIs
  <2> QED
    BY <1>10, <2>1
<1>12. PICK du, dp : du = A!DefaultUser(proto) /\ dp = A!DefaultPasswd(proto)
  OBVIOUS
<1>13. PICK got1 : got1 = A!Account(proto, user, passwd, list, "h")
  OBVIOUS
<1>14. CASE Hits(list) = {}
  <2>1. i = 0 /\ e = A!NoEntry
    BY <1>7, <1>9, <1>11, <1>14, FoundIn, Zenon
  <2>2. got1 = [user |-> IF user = A!None THEN du ELSE user, passwd |-> IF passwd = A!None THEN dp ELSE passwd]
    BY <1>10, <1>12, <1>13, <2>1, Zenon DEF A!Account
  <2> QED
    BY <1>5, <1>8, <1>12, <1>13, <2>1, <2>2, Zenon DEF A!IsAccountOf
<1>15. CASE Hits(list) # {}
  <2>1. i \in 1 .. Len(list) /\ e = list[i] /\ e.account # A!None /\ e # A!NoEntry
    BY <1>7, <1>9, <1>11, <1>15, FoundIn, Zenon
  <2>2. i # 0
    <3>1. Len(list) \in Nat
      <4>1. list \in Seq(E1)
        BY <1>7, Zenon DEF AllUsed
      <4> QED
        BY <4>1
    <3> QED
      BY <2>1, <3>1
  <2>3. got1 = [user |-> IF e.account = A!None THEN du ELSE e.account,
                passwd |-> IF e.password = A!None THEN dp ELSE e.password]
    BY <1>10, <1>12, <1>13, <2>1, <2>2, Zenon DEF A!Account
  <2>4. got1 = [user |-> e.account, passwd |-> IF e.password = A!None THEN dp ELSE e.password]
    BY <2>1, <2>3, Zenon
  <2> QED
    BY <1>5, <1>8, <1>12, <1>13, <2>1, <2>4, Zenon DEF A!IsAccountOf
<1> QED
  BY <1>14, <1>15

-----------------------------------------------------------------------------
(***************************************************************************)
(* The theorems.                                                           *)
(***************************************************************************)

(* What each action calls.                                                 *)
LEMMA Kinds ==
  /\ Simplify => job'.of = "path"
  /\ Parse => job'.of = "url"
  /\ Merge => job'.of = "location"
  /\ GetReply => job'.of = "reply"
  /\ GetHeaders => job'.of = "headers"
  /\ GetListing => job'.of = "listing"
  /\ FindAccount => job'.of = "account"
  /\ StartUp => job'.of = "settings"
  /\ SearchMirrors => job'.of = "mirrors"
  /\ ShareCap => job'.of = "cap"
  /\ Sleep => job'.of = "sleep"
<1>1. ASSUME Simplify PROVE job'.of = "path"
  BY <1>1 DEF Simplify, Call
<1>2. ASSUME Parse PROVE job'.of = "url"
  BY <1>2 DEF Parse, Call
<1>3. ASSUME Merge PROVE job'.of = "location"
  BY <1>3 DEF Merge, Call
<1>4. ASSUME GetReply PROVE job'.of = "reply"
  BY <1>4 DEF GetReply, Call
<1>5. ASSUME GetHeaders PROVE job'.of = "headers"
  BY <1>5 DEF GetHeaders, Call
<1>6. ASSUME GetListing PROVE job'.of = "listing"
  BY <1>6 DEF GetListing, Call
<1>7. ASSUME FindAccount PROVE job'.of = "account"
  BY <1>7 DEF FindAccount, Call
<1>8. ASSUME StartUp PROVE job'.of = "settings"
  BY <1>8 DEF StartUp, Call
<1>9. ASSUME SearchMirrors PROVE job'.of = "mirrors"
  BY <1>9 DEF SearchMirrors, Call
<1>10. ASSUME ShareCap PROVE job'.of = "cap"
  BY <1>10 DEF ShareCap, Call
<1>11. ASSUME Sleep PROVE job'.of = "sleep"
  BY <1>11 DEF Sleep, Call
<1> QED
  BY <1>1, <1>2, <1>3, <1>4, <1>5, <1>6, <1>7, <1>8, <1>9, <1>10, <1>11

(* The connections together stay within the cap, none is held below its    *)
(* fair share, and each keeps to its limit as long as its timeout lets it: *)
(* for every cap, any connections and any times.                           *)
THEOREM Shared == Spec => []CapIsShared
<1>1. Init => CapIsShared
  BY DEF Init, Idle, CapIsShared
<1>2. ASSUME ShareCap PROVE CapIsShared'
  <2>1. PICK cap \in Caps, counted \in Loads, seen \in Loads, now \in Loads :
          Call([of |-> "cap", cap |-> cap, counted |-> counted, seen |-> seen, now |-> now],
               T!CalcThrottleFactor(cap, counted, seen, now))
    BY <1>2, Zenon DEF ShareCap
  <2>2. cap \in Nat /\ counted \in Seq(Load) /\ seen \in Seq(Load) /\ now \in Seq(Load)
    BY InputsAssumption DEF Load
  <2>3. T!SharesCap(cap, counted, seen, now, T!CalcThrottleFactor(cap, counted, seen, now))
    BY <2>2, LimitsShareCap
  <2>4. job'.of = "cap" /\ job'.cap = cap /\ job'.counted = counted /\ job'.seen = seen /\ job'.now = now
    BY <2>1 DEF Call
  <2>5. got' = T!CalcThrottleFactor(cap, counted, seen, now)
    BY <2>1 DEF Call
  <2> QED
    BY <2>3, <2>4, <2>5 DEF CapIsShared
<1>3. ASSUME Sleep PROVE CapIsShared'
  <2>1. PICK s \in Sleeps :
          Call([of |-> "sleep", call |-> s], T!Received(s.limit, s.began, s.now, s.bytes, s.timeout))
    BY <1>3, Zenon DEF Sleep
  <2>2. T!KeepsTo(s.limit, s.began, s.now, s.bytes, s.timeout,
                  T!Received(s.limit, s.began, s.now, s.bytes, s.timeout))
    BY InputsAssumption, SleepsEnough
  <2>3. job'.of = "sleep" /\ job'.call = s
    BY <2>1 DEF Call
  <2>4. got' = T!Received(s.limit, s.began, s.now, s.bytes, s.timeout)
    BY <2>1 DEF Call
  <2> QED
    BY <2>2, <2>3, <2>4 DEF CapIsShared
<1>4. ASSUME Simplify \/ Parse \/ Merge \/ GetReply \/ GetHeaders \/ GetListing \/ FindAccount \/ StartUp
                \/ SearchMirrors
      PROVE  CapIsShared'
  <2>1. job'.of # "cap" /\ job'.of # "sleep"
    BY <1>4, Kinds
  <2> QED
    BY <2>1 DEF CapIsShared
<1>5. CapIsShared /\ [Next]_inputVars => CapIsShared'
  BY <1>2, <1>3, <1>4 DEF Next, inputVars, CapIsShared
<1> QED
  BY <1>1, <1>5, PTL DEF Spec

(* The last word wins, options before the file before the defaults, the    *)
(* library works with the same values, and a run that finds the file this  *)
(* one wrote starts with them again: for any file and any command line.    *)
THEOREM Obeyed == Spec => []SettingsObeyed
<1>1. Init => SettingsObeyed
  BY DEF Init, Idle, SettingsObeyed
<1>2. ASSUME Simplify \/ Parse \/ Merge \/ GetReply \/ GetHeaders \/ GetListing \/ FindAccount \/ SearchMirrors
                \/ ShareCap \/ Sleep
      PROVE  SettingsObeyed'
  <2>1. job'.of # "settings"
    BY <1>2, Kinds
  <2> QED
    BY <2>1 DEF SettingsObeyed
<1>3. SettingsObeyed /\ [Next]_inputVars => SettingsObeyed'
  BY <1>2, StartUpObeys DEF Next, inputVars, SettingsObeyed
<1> QED
  BY <1>1, <1>3, PTL DEF Spec

(* A reply of several lines is read to its own last line, headers with     *)
(* their continuation lines to the empty one, neither further, and the     *)
(* size of a file is found in each form of listing: for all answers.       *)
THEOREM AnswersRead == Spec => []AnswersReadWhole
<1>1. Init => AnswersReadWhole
  BY DEF Init, Idle, AnswersReadWhole
<1>2. ASSUME GetReply PROVE AnswersReadWhole'
  <2>1. PICK sent \in Answers : \E n \in 0 .. Len(R!FtpSent(sent)) :
          Call([of |-> "reply", sent |-> sent, n |-> n], R!FtpGetReply(R!FtpLines(sent, n)))
    BY <1>2, Zenon DEF GetReply
  <2>2. PICK n \in 0 .. Len(R!FtpSent(sent)) :
          Call([of |-> "reply", sent |-> sent, n |-> n], R!FtpGetReply(R!FtpLines(sent, n)))
    BY <2>1
  <2>3. R!ReadsReply(sent, n, R!FtpGetReply(R!FtpLines(sent, n)))
    BY RepliesAreRead
  <2>4. job'.of = "reply" /\ job'.sent = sent /\ job'.n = n /\ got' = R!FtpGetReply(R!FtpLines(sent, n))
    BY <2>2 DEF Call
  <2> QED
    BY <2>3, <2>4, Zenon DEF AnswersReadWhole
<1>3. ASSUME GetHeaders PROVE AnswersReadWhole'
  <2>1. PICK sent \in Responses : \E n \in 0 .. Len(R!HttpSent(sent)) :
          \E stream \in R!Streams({R!HttpLines(sent, n)}) :
            Call([of |-> "headers", sent |-> sent, n |-> n, end |-> stream.end], R!HttpFetchHeaders(stream))
    BY <1>3, Zenon DEF GetHeaders
  <2>2. PICK n \in 0 .. Len(R!HttpSent(sent)) : \E stream \in R!Streams({R!HttpLines(sent, n)}) :
          Call([of |-> "headers", sent |-> sent, n |-> n, end |-> stream.end], R!HttpFetchHeaders(stream))
    BY <2>1
  <2>3. PICK stream \in R!Streams({R!HttpLines(sent, n)}) :
          Call([of |-> "headers", sent |-> sent, n |-> n, end |-> stream.end], R!HttpFetchHeaders(stream))
    BY <2>2
  <2>4. stream.lines = R!HttpLines(sent, n)
    BY DEF R!Streams
  <2>5. R!ReadsHeaders(sent, n, R!HttpFetchHeaders(stream))
    BY <2>4, HeadersAreReadWhole
  <2>6. job'.of = "headers" /\ job'.sent = sent /\ job'.n = n /\ got' = R!HttpFetchHeaders(stream)
    BY <2>3 DEF Call
  <2> QED
    BY <2>5, <2>6, Zenon DEF AnswersReadWhole
<1>4. ASSUME GetListing PROVE AnswersReadWhole'
  <2>1. PICK form \in Forms, size \in Sizes :
          Call([of |-> "listing", form |-> form, size |-> size], R!FtpParse(R!Listed(form, size)))
    BY <1>4, Zenon DEF GetListing
  <2>2. R!FtpParse(R!Listed(form, size)) = [err |-> "FTPPARSEOK", size |-> size]
    BY ListingIsRead, AnswersAssumption
  <2>3. job'.of = "listing" /\ job'.size = size /\ got' = R!FtpParse(R!Listed(form, size))
    BY <2>1 DEF Call
  <2> QED
    BY <2>2, <2>3, Zenon DEF AnswersReadWhole
<1>5. ASSUME Simplify \/ Parse \/ Merge \/ FindAccount \/ StartUp \/ SearchMirrors \/ ShareCap \/ Sleep
      PROVE  AnswersReadWhole'
  <2>1. job'.of # "reply" /\ job'.of # "headers" /\ job'.of # "listing"
    BY <1>5, Kinds
  <2> QED
    BY <2>1, Zenon DEF AnswersReadWhole
<1>6. AnswersReadWhole /\ [Next]_inputVars => AnswersReadWhole'
  <2>1. AnswersReadWhole /\ UNCHANGED inputVars => AnswersReadWhole'
    BY DEF inputVars, AnswersReadWhole
  <2> QED
    BY <1>2, <1>3, <1>4, <1>5, <2>1 DEF Next
<1> QED
  BY <1>1, <1>6, PTL DEF Spec

(* The session's account is that of the first entry for its host (netrc.c, *)
(* ftp.c, http.c), for every file.                                         *)
THEOREM AccountFound == Spec => []AccountIsFound
<1>1. Init => AccountIsFound
  BY DEF Init, Idle, AccountIsFound
<1>2. ASSUME FindAccount PROVE AccountIsFound'
  <2>1. PICK entries \in NetrcFiles : \E proto \in {"ftp", "http"}, login \in Logins :
          Call([of |-> "account", entries |-> entries, proto |-> proto, login |-> login],
               A!Account(proto, login.user, login.passwd, A!ParseNetrc(A!NetrcLines(entries)), "h"))
    BY <1>2, Zenon DEF FindAccount
  <2>2. PICK proto \in {"ftp", "http"}, login \in Logins :
          Call([of |-> "account", entries |-> entries, proto |-> proto, login |-> login],
               A!Account(proto, login.user, login.passwd, A!ParseNetrc(A!NetrcLines(entries)), "h"))
    BY <2>1
  <2>3. A!IsAccountOf(entries, "h", proto, login.user, login.passwd,
                      A!Account(proto, login.user, login.passwd, A!ParseNetrc(A!NetrcLines(entries)), "h"))
    BY AccountIsTheirs
  <2>4. job'.of = "account" /\ job'.entries = entries /\ job'.proto = proto /\ job'.login = login
        /\ got' = A!Account(proto, login.user, login.passwd, A!ParseNetrc(A!NetrcLines(entries)), "h")
    BY <2>2 DEF Call
  <2> QED
    BY <2>3, <2>4, Zenon DEF AccountIsFound
<1>3. ASSUME Simplify \/ Parse \/ Merge \/ GetReply \/ GetHeaders \/ GetListing \/ StartUp
             \/ SearchMirrors \/ ShareCap \/ Sleep
      PROVE  AccountIsFound'
  <2>1. job'.of # "account"
    BY <1>3, Kinds
  <2> QED
    BY <2>1, Zenon DEF AccountIsFound
<1>4. AccountIsFound /\ [Next]_inputVars => AccountIsFound'
  <2>1. AccountIsFound /\ UNCHANGED inputVars => AccountIsFound'
    BY DEF inputVars, AccountIsFound
  <2> QED
    BY <1>2, <1>3, <2>1 DEF Next
<1> QED
  BY <1>1, <1>4, PTL DEF Spec

(* The list of a whole page has its hits and the user's own server, a cut  *)
(* page names no other server, and what is no page gives none              *)
(* (ftpsearch.c): for every search.                                        *)
THEOREM MirrorsListed == Spec => []MirrorsAreListed
<1>1. Init => MirrorsAreListed
  BY DEF Init, Idle, MirrorsAreListed
<1>2. ASSUME SearchMirrors PROVE MirrorsAreListed'
  <2>1. PICK service, mirrors, before, own, status, n, stream :
          IsSearch(service, mirrors, before, own, status, n, stream)
    BY <1>2, SearchMirrorsIs
  <2>2. PICK d, g : d = Len(M!Page(mirrors, before)) /\ g = M!GetMirrorList(service, status, stream, own)
    OBVIOUS
  <2>5. /\ job'.mirrors = mirrors /\ job'.own = own /\ (job'.isPage <=> status = 200)
        /\ (job'.whole <=> n = d /\ stream.end = "closed") /\ got' = g
    BY <2>1, <2>2, Zenon DEF IsSearch
  <2>6. IsSearched(mirrors, own, status, stream.end, n, d, g)
    <3>1. /\ mirrors \in Mirrors /\ before \in Sections /\ IsAnswer(status)
          /\ n \in 0 .. Len(M!Page(mirrors, before)) /\ stream.lines = SubSeq(M!Page(mirrors, before), 1, n)
      BY <2>1, Zenon DEF IsSearch
    <3>2. IsSearched(mirrors, own, status, stream.end, n, Len(M!Page(mirrors, before)),
                     M!GetMirrorList(service, status, stream, own))
      BY <3>1, SearchIs, Zenon
    <3> QED
      BY <2>2, <3>2, Zenon
  <2>7. job'.whole /\ job'.isPage => M!ListsHits(job'.mirrors, job'.own, got')
    BY <2>5, <2>6, Zenon DEF IsSearched
  <2>8. ~job'.isPage => DOMAIN got'.list = {}
    <3>1. ~job'.isPage => got'.list = <<>>
      BY <2>5, <2>6, Zenon DEF IsSearched
    <3> QED
      BY <3>1
  <2>9. Named(job'.mirrors, job'.own, got'.list)
    BY <2>5, <2>6, Zenon DEF IsSearched
  <2>10. \A i \in DOMAIN got'.list :
           got'.list[i] = job'.own.mirror \/ \E j \in DOMAIN job'.mirrors : got'.list[i] = job'.mirrors[j]
    BY <2>9 DEF Named
  <2>11. \A i \in DOMAIN got'.list : job'.isPage
    BY <2>8, Zenon
  <2> QED
    BY <2>7, <2>10, <2>11, Zenon DEF MirrorsAreListed
<1>3. ASSUME Simplify \/ Parse \/ Merge \/ GetReply \/ GetHeaders \/ GetListing \/ FindAccount \/ StartUp
             \/ ShareCap \/ Sleep
      PROVE  MirrorsAreListed'
  <2>1. job'.of # "mirrors"
    BY <1>3, Kinds
  <2> QED
    BY <2>1, Zenon DEF MirrorsAreListed
<1>4. MirrorsAreListed /\ [Next]_inputVars => MirrorsAreListed'
  <2>1. MirrorsAreListed /\ UNCHANGED inputVars => MirrorsAreListed'
    BY Zenon DEF inputVars, MirrorsAreListed
  <2> QED
    BY <1>2, <1>3, <2>1 DEF Next
<1> QED
  BY <1>1, <1>4, PTL DEF Spec
=============================================================================
