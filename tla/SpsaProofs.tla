----------------------------- MODULE SpsaProofs -----------------------------
(***************************************************************************)
(* Proofs about Spsa, for every range of points, values and buffers, every *)
(* gain, bandwidth and time, and every width of an int.                    *)
(***************************************************************************)
EXTENDS Spsa, TLAPS

(* Rounding keeps the order, leaves whole numbers alone and does not depend  *)
(* on a common factor.                                                     *)
LEMMA RoundInt == ASSUME NEW n \in Int, NEW d \in Nat \ {0}
                  PROVE  /\ Round(n, d) \in Int
                         /\ 2 * d * Round(n, d) <= 2 * n + d
                         /\ 2 * n + d < 2 * d * Round(n, d) + 2 * d
<1> DEFINE x == 2 * n + d
           e == 2 * d
<1>1. x \in Int /\ e \in Nat \ {0}
  OBVIOUS
<1> HIDE DEF x, e
<1>2. x \div e \in Int /\ e * (x \div e) <= x /\ x < e * (x \div e) + e
  BY <1>1
<1> QED
  BY <1>2 DEF Round, x, e

LEMMA RoundMonotonic ==
  ASSUME NEW m \in Int, NEW n \in Int, NEW d \in Nat \ {0}, m <= n
  PROVE  Round(m, d) <= Round(n, d)
<1> DEFINE x == 2 * m + d
           y == 2 * n + d
           e == 2 * d
           p == x \div e
           q == y \div e
<1>1. x \in Int /\ y \in Int /\ e \in Nat \ {0} /\ x <= y
  OBVIOUS
<1> HIDE DEF x, y, e
<1>2. p \in Int /\ q \in Int /\ e * p <= x /\ y < e * q + e
  BY <1>1
<1> HIDE DEF p, q
<1>3. e * p < e * q + e
  BY <1>1, <1>2
<1>4. e * (q + 1) = e * q + e
  BY <1>1, <1>2
<1>5. p < q + 1
  BY <1>1, <1>2, <1>3, <1>4
<1> QED
  BY <1>2, <1>5 DEF Round, x, y, e, p, q

LEMMA RoundWhole == ASSUME NEW n \in Int PROVE Round(n, 1) = n
BY DEF Round

LEMMA RoundFactor ==
  ASSUME NEW n \in Int, NEW d \in Nat \ {0}, NEW k \in Nat \ {0}
  PROVE  Round(k * n, k * d) = Round(n, d)
<1> DEFINE x == 2 * n + d
           e == 2 * d
           q == x \div e
           r == (k * x) \div (k * e)
<1>1. x \in Int /\ e \in Nat \ {0} /\ k * x \in Int /\ k * e \in Nat \ {0}
  OBVIOUS
<1>2. k * x = 2 * (k * n) + k * d /\ k * e = 2 * (k * d)
  OBVIOUS
<1> HIDE DEF x, e
<1>3. q \in Int /\ e * q <= x /\ x < e * q + e
  BY <1>1
<1>4. r \in Int /\ (k * e) * r <= k * x /\ k * x < (k * e) * r + (k * e)
  BY <1>1
<1> HIDE DEF q, r
<1>5. k * (e * r) <= k * x /\ k * x < k * (e * r + e)
  BY <1>1, <1>4
<1>6. e * r <= x /\ x < e * r + e
  BY <1>1, <1>4, <1>5
<1>7. e * r < e * (q + 1) /\ e * q < e * (r + 1)
  BY <1>1, <1>3, <1>4, <1>6
<1>8. r < q + 1 /\ q < r + 1
  BY <1>1, <1>3, <1>4, <1>7
<1>9. r = q
  BY <1>3, <1>4, <1>8
<1> QED
  BY <1>2, <1>9 DEF Round, x, e, q, r

(* A rounded value lies between the rounded ends of a range it lies in.      *)
LEMMA RoundBetween ==
  ASSUME NEW n \in Int, NEW a \in Int, NEW b \in Int, NEW d \in Nat \ {0},
         Between(n, a, b)
  PROVE  Between(Round(n, d), Round(a, d), Round(b, d))
<1>1. Round(n, d) \in Int /\ Round(a, d) \in Int /\ Round(b, d) \in Int
  BY RoundInt
<1>2. CASE a <= n /\ n <= b
  BY <1>1, <1>2, RoundMonotonic DEF Between, Lower, Higher
<1>3. CASE b <= n /\ n <= a
  BY <1>1, <1>3, RoundMonotonic DEF Between, Lower, Higher
<1> QED
  BY <1>2, <1>3 DEF Between, Lower, Higher

(* The point u of the way from a to b, of w, is between them.                *)
LEMMA Interpolation ==
  ASSUME NEW a \in Int, NEW b \in Int, NEW w \in Nat, NEW u \in 0..w
  PROVE  Between(u * (b - a) + a * w, w * a, w * b)
<1>1. u * (b - a) \in Int /\ a * w \in Int /\ w * a \in Int /\ w * b \in Int
  OBVIOUS
<1>2. CASE a <= b
  <2>1. 0 <= u * (b - a)
    BY <1>2
  <2>2. (w - u) * (b - a) >= 0
    BY <1>2
  <2>3. u * (b - a) + (w - u) * (b - a) = w * b - w * a
    OBVIOUS
  <2>4. a * w = w * a
    OBVIOUS
  <2> QED
    BY <1>1, <2>1, <2>2, <2>3, <2>4 DEF Between, Lower, Higher
<1>3. CASE b <= a
  <2>1. 0 <= u * (a - b) /\ u * (b - a) = -(u * (a - b))
    BY <1>3
  <2>2. (w - u) * (a - b) >= 0
    BY <1>3
  <2>3. u * (a - b) + (w - u) * (a - b) = w * a - w * b
    OBVIOUS
  <2>4. a * w = w * a
    OBVIOUS
  <2> QED
    BY <1>1, <2>1, <2>2, <2>3, <2>4 DEF Between, Lower, Higher
<1> QED
  BY <1>2, <1>3

(* What a coordinate in the range is mapped to, for either order of the     *)
(* ends, which need not be one when the safeguards have moved them.         *)
LEMMA ToValBetween ==
  ASSUME SpsaAssumption, NEW lo \in Int, NEW hi \in Int,
         NEW t \in ThetaMin..ThetaMax, NEW unit \in Int, NEW parts \in Nat \ {0}
  PROVE  /\ ToVal(lo, hi, t, unit, parts) \in Int
         /\ Between(ToVal(lo, hi, t, unit, parts),
                    Round(unit * lo, parts), Round(unit * hi, parts))
<1> DEFINE w == ThetaMax - ThetaMin
           u == t - ThetaMin
           a == unit * lo
           b == unit * hi
           n == unit * (u * (hi - lo) + lo * w)
<1>1. w \in Nat \ {0} /\ u \in 0..w /\ a \in Int /\ b \in Int /\ n \in Int
  BY DEF SpsaAssumption
<1>2. n = u * (b - a) + a * w
  <2>1. u \in Int /\ w \in Int
    BY <1>1
  <2> HIDE DEF u, w
  <2> QED
    BY <2>1
<1>3. ToVal(lo, hi, t, unit, parts) = Round(n, parts * w)
  BY DEF ToVal
<1> HIDE DEF w, u, a, b, n
<1>4. Between(n, w * a, w * b)
  BY <1>1, <1>2, Interpolation
<1>5. parts * w \in Nat \ {0} /\ w * a \in Int /\ w * b \in Int /\ parts * w = w * parts
  BY <1>1
<1>6. Between(Round(n, parts * w), Round(w * a, parts * w), Round(w * b, parts * w))
  BY <1>1, <1>4, <1>5, RoundBetween
<1>7. Round(w * a, w * parts) = Round(a, parts) /\ Round(w * b, w * parts) = Round(b, parts)
  BY <1>1, RoundFactor
<1>8. Round(n, parts * w) \in Int
  BY <1>1, <1>5, RoundInt
<1> QED
  BY <1>3, <1>5, <1>6, <1>7, <1>8 DEF a, b

-----------------------------------------------------------------------------
(* Clamping brings any coordinate into the range, and moves no other.        *)
LEMMA ClampIn ==
  ASSUME SpsaAssumption, NEW x \in Int
  PROVE  /\ Clamp(x) \in ThetaMin..ThetaMax
         /\ x \in ThetaMin..ThetaMax => Clamp(x) = x
BY DEF SpsaAssumption, Clamp, Lower, Higher

(* a is how far t moves in the direction s when x is brought into the range. *)
IsDistance(a, t, s, x) ==
  /\ a = s * (Clamp(x) - t) /\ a \in Nat
  /\ a = 0 /\ s = 1 => t = ThetaMax
  /\ a = 0 /\ s = -1 => t = ThetaMin

(* What the code keeps as the adjusted step is the distance it then moves.   *)
LEMMA AdjustIsDistance ==
  ASSUME SpsaAssumption, NEW t \in ThetaMin..ThetaMax, NEW c \in Nat \ {0},
         NEW s \in {-1, 1}, NEW x, x = t + c * s
  PROVE  IsDistance(Adjust(c, t, x), t, s, x)
<1>1. \A m \in Nat : (c * m) \div c = m
  OBVIOUS
<1>2. Distance(x, t) = c
  BY DEF Distance
<1>3. /\ ThetaMin \in Int /\ ThetaMax \in Int /\ t \in Int /\ ThetaMin <= t /\ t <= ThetaMax
      /\ x \in Int
  BY DEF SpsaAssumption
<1>4. CASE x > ThetaMax
  <2>1. s = 1
    BY <1>3, <1>4
  <2>2. Distance(ThetaMax, t) = ThetaMax - t /\ ThetaMax - t \in Nat
    BY <1>3 DEF Distance
  <2>3. Adjust(c, t, x) = ThetaMax - t
    BY <1>1, <1>2, <1>4, <2>2 DEF Adjust
  <2>4. Clamp(x) = ThetaMax
    BY <1>3, <1>4 DEF Clamp, Lower, Higher
  <2> QED
    BY <1>3, <2>1, <2>2, <2>3, <2>4 DEF IsDistance
<1>5. CASE x < ThetaMin
  <2>1. s = -1
    BY <1>3, <1>5
  <2>2. Distance(ThetaMin, t) = t - ThetaMin /\ t - ThetaMin \in Nat
    BY <1>3 DEF Distance
  <2>3. Adjust(c, t, x) = t - ThetaMin
    BY <1>1, <1>2, <1>3, <1>5, <2>2 DEF Adjust
  <2>4. Clamp(x) = ThetaMin
    BY <1>3, <1>5 DEF Clamp, Lower, Higher
  <2> QED
    BY <1>3, <2>1, <2>2, <2>3, <2>4 DEF IsDistance
<1>6. CASE ThetaMin <= x /\ x <= ThetaMax
  <2>1. Adjust(c, t, x) = c /\ Clamp(x) = x
    BY <1>3, <1>6 DEF Adjust, Clamp, Lower, Higher
  <2>2. s * (x - t) = c
    BY <1>3
  <2> QED
    BY <1>3, <1>6, <2>1, <2>2 DEF IsDistance
<1> QED
  BY <1>3, <1>4, <1>5, <1>6

(* With a step that is positive, the distance between the two points probed  *)
(* is the sum of the two adjusted steps, and it is positive: the range is   *)
(* longer than a point.                                                    *)
LEMMA ApartUp ==
  ASSUME SpsaAssumption, NEW t \in ThetaMin..ThetaMax, NEW c \in Nat \ {0},
         NEW s \in {-1, 1}
  PROVE  LET a == Adjust(c, t, t + c * s)
             b == Adjust(c, t, t - c * s)
         IN  /\ a \in Nat /\ b \in Nat /\ a + b > 0
             /\ s * (Clamp(t + c * s) - Clamp(t - c * s)) = a + b
<1> DEFINE x == t + c * s
           y == t - c * s
<1>1. ThetaMin \in Int /\ ThetaMax \in Int /\ ThetaMin < ThetaMax /\ t \in Int
  BY DEF SpsaAssumption
<1>2. x \in Int /\ y \in Int /\ -s \in {-1, 1} /\ x = t + c * s /\ y = t + c * (-s)
  BY <1>1
<1> HIDE DEF x, y
<1>3. Clamp(x) \in Int /\ Clamp(y) \in Int
  BY <1>1, <1>2, ClampIn
<1>4. IsDistance(Adjust(c, t, x), t, s, x)
  BY <1>2, AdjustIsDistance, Zenon
<1>5. IsDistance(Adjust(c, t, y), t, -s, y)
  BY <1>2, AdjustIsDistance, Zenon
<1> DEFINE a == Adjust(c, t, x)
           b == Adjust(c, t, y)
<1>6. a \in Nat /\ b \in Nat /\ ~(a = 0 /\ b = 0)
  BY <1>1, <1>4, <1>5 DEF IsDistance
<1>7. s * (Clamp(x) - Clamp(y)) = a + b
  BY <1>1, <1>3, <1>4, <1>5 DEF IsDistance
<1> QED
  BY <1>6, <1>7 DEF x, y

(* A step is adjusted in the same way in either direction.                   *)
LEMMA AdjustNegative ==
  ASSUME SpsaAssumption, NEW t \in ThetaMin..ThetaMax, NEW c \in Nat \ {0},
         NEW s \in {-1, 1}, NEW x, x = t + c * s
  PROVE  Adjust(-c, t, x) = -Adjust(c, t, x)
<1>1. \A m \in Nat : (c * m) \div c = m /\ ((-c) * m) \div c = -m
  <2> SUFFICES ASSUME NEW m \in Nat PROVE (c * m) \div c = m /\ ((-c) * m) \div c = -m
    OBVIOUS
  <2>1. (c * m) \div c = m
    OBVIOUS
  <2>2. (-c) * m = c * (-m)
    OBVIOUS
  <2>3. \A n \in Int : (c * n) \div c = n
    OBVIOUS
  <2> QED
    BY <2>1, <2>2, <2>3
<1>2. Distance(x, t) = c
  BY DEF Distance, SpsaAssumption
<1>3. /\ ThetaMin \in Int /\ ThetaMax \in Int /\ t \in Int /\ ThetaMin <= t /\ t <= ThetaMax
      /\ x \in Int
  BY DEF SpsaAssumption
<1>4. Distance(ThetaMax, t) \in Nat /\ Distance(ThetaMin, t) \in Nat
  BY <1>3 DEF Distance
<1> QED
  BY <1>1, <1>2, <1>3, <1>4 DEF Adjust

(* So the distance, signed as the step is, is the sum of the two adjusted    *)
(* steps, and 0 only with a step of 0.                                     *)
LEMMA Apart ==
  ASSUME SpsaAssumption, NEW t \in ThetaMin..ThetaMax, NEW c \in Int, NEW s \in {-1, 1}
  PROVE  LET a == Adjust(c, t, t + c * s)
             b == Adjust(c, t, t - c * s)
         IN  /\ a \in Int /\ b \in Int /\ (a + b = 0 <=> c = 0)
             /\ s * (Clamp(t + c * s) - Clamp(t - c * s)) = a + b
<1>1. ThetaMin \in Int /\ ThetaMax \in Int /\ t \in Int
  BY DEF SpsaAssumption
<1>2. CASE c > 0
  <2>1. c \in Nat \ {0}
    BY <1>2
  <2> DEFINE a == Adjust(c, t, t + c * s)
             b == Adjust(c, t, t - c * s)
  <2>2. /\ a \in Nat /\ b \in Nat /\ a + b > 0
        /\ s * (Clamp(t + c * s) - Clamp(t - c * s)) = a + b
    BY <2>1, ApartUp, Zenon
  <2> HIDE DEF a, b
  <2>3. a \in Int /\ b \in Int /\ (a + b = 0 <=> c = 0)
    BY <2>1, <2>2
  <2> QED
    BY <2>2, <2>3 DEF a, b
<1>3. CASE c = 0
  <2>1. t + c * s = t /\ t - c * s = t /\ t \in ThetaMin..ThetaMax
    BY <1>1, <1>3
  <2>2. Adjust(c, t, t) = c
    BY <1>1 DEF Adjust
  <2>3. Clamp(t) = t
    BY <1>1, ClampIn
  <2> QED
    BY <1>1, <1>3, <2>1, <2>2, <2>3
<1>4. CASE c < 0
  <2> DEFINE e == -c
             r == -s
             x == t + c * s
             y == t - c * s
             a == Adjust(e, t, x)
             b == Adjust(e, t, y)
  <2>1. /\ e \in Nat \ {0} /\ r \in {-1, 1} /\ -e = c
        /\ x = t + e * r /\ y = t - e * r /\ y = t + e * s /\ x \in Int /\ y \in Int
    BY <1>1, <1>4
  <2> HIDE DEF e, r, x, y
  <2>2. /\ a \in Nat /\ b \in Nat /\ a + b > 0 /\ r * (Clamp(x) - Clamp(y)) = a + b
    BY <2>1, ApartUp, Zenon
  <2>3. Adjust(c, t, x) = -a
    BY <2>1, AdjustNegative, Zenon
  <2>4. Adjust(c, t, y) = -b
    <3>1. s \in {-1, 1} /\ e \in Nat \ {0} /\ y = t + e * s
      BY <2>1
    <3>2. Adjust(-e, t, y) = -Adjust(e, t, y)
      BY <3>1, AdjustNegative, Zenon
    <3> QED
      BY <2>1, <3>2, Zenon
  <2>5. Clamp(x) \in Int /\ Clamp(y) \in Int
    BY <1>1, <2>1, ClampIn
  <2> HIDE DEF a, b
  <2>6. /\ -a \in Int /\ -b \in Int /\ ((-a) + (-b) = 0 <=> c = 0)
        /\ s * (Clamp(x) - Clamp(y)) = (-a) + (-b)
    <3>1. -a \in Int /\ -b \in Int /\ (-a) + (-b) < 0
      BY <2>2
    <3>2. s * (Clamp(x) - Clamp(y)) = (-a) + (-b)
      BY <2>2, <2>5 DEF r
    <3> QED
      BY <1>4, <3>1, <3>2
  <2> QED
    BY <2>3, <2>4, <2>6 DEF x, y
<1> QED
  BY <1>2, <1>3, <1>4

(* A safeguarded size is between the least buffer and the host's own limit,  *)
(* in whichever order these are.                                           *)
LEMMA SafeguardBetween ==
  ASSUME SpsaAssumption, safe_max \in Int, NEW x \in Int
  PROVE  Safeguard(x) \in Int /\ Between(Safeguard(x), BufMin, safe_max)
BY DEF SpsaAssumption, Safeguard, Between, Lower, Higher

(* An average is one of the two values, or between them. *)
LEMMA SmoothBetween ==
  ASSUME NEW old \in Nat, NEW sample \in Nat
  PROVE  Smooth(old, sample) \in Int /\ Between(Smooth(old, sample), old, sample)
BY DEF Smooth, Between, Lower, Higher

LEMMA ToIntInt ==
  ASSUME SpsaAssumption, NEW x \in Int
  PROVE  ToInt(x) \subseteq Int /\ (x \in IntMin..IntMax => ToInt(x) = {x})
BY DEF SpsaAssumption, ToInt, Lower, Higher

-----------------------------------------------------------------------------
(* The inductive invariant: what the runs check, the safeguards on the range *)
(* itself, and where theta stands at each point of the loop.                *)
IInv ==
  /\ TypeOK /\ Probed /\ RttAmong /\ RangeHoldsBdp /\ RestartsAtBest
  /\ Between(buf_min, BufMin, safe_max) /\ Between(buf_max, BufMin, safe_max)
  /\ bw < 0 => buf_min = BufMin /\ buf_max = safe_max
  /\ Running => theta \in Thetas \cup {Nan}
  /\ max_perf > 0 => max_theta \in Thetas \cup {Nan} /\ (bw < 0 => best = Setting(max_theta))
  /\ pc = "head" /\ max_perf > 0 => theta = max_theta
  /\ ~stepless => Nan \notin {theta, max_theta, plus, minus} /\ (Running => ck # 0)

-----------------------------------------------------------------------------
LEMMA ThetasInt == ASSUME SpsaAssumption
                   PROVE  /\ Thetas \subseteq [Dims -> Int] /\ Origin \in [Dims -> Int]
                          /\ \A t \in [Dims -> Int] : Project(t) \in Thetas
                          /\ \A t \in Thetas : Project(t) = t
                          /\ Nan \notin Thetas /\ Nan # Origin
<1>1. ThetaMin..ThetaMax \subseteq Int
  BY DEF SpsaAssumption
<1>2. ASSUME NEW t \in [Dims -> Int] PROVE Project(t) \in Thetas
  BY ClampIn DEF Project, Thetas
<1>3. ASSUME NEW t \in Thetas PROVE Project(t) = t
  BY <1>1, ClampIn DEF Project, Thetas
<1>4. Thetas \subseteq [Dims -> Int] /\ Origin \in [Dims -> Int]
  BY <1>1 DEF Thetas, Origin
<1> QED
  BY <1>2, <1>3, <1>4, NanAssumption

LEMMA Initially == Init => IInv
<1> SUFFICES ASSUME Init PROVE IInv
  OBVIOUS
<1> USE SpsaAssumption DEF Init
<1>1. bw \in Int /\ given \in Int /\ safe_max \in Int /\ BufMin \in Int
  BY DEF SpsaAssumption, Lower
<1>2. theta \in Thetas
  BY DEF SpsaAssumption, Thetas
<1>3. plus \in Thetas /\ minus \in Thetas
  BY ThetasInt
<1>4. TypeOK
  <2>1. max_theta = Origin /\ ck_plus \in [Dims -> Int] /\ ck_minus \in [Dims -> Int]
    BY ThetasInt
  <2>2. delta \in [Dims -> {-1, 1}]
    OBVIOUS
  <2>3. rtt \in Int /\ buf_min \in Int /\ buf_max \in Int /\ max_perf \in Nat /\ y_plus \in Int
    BY <1>1
  <2>4. max_theta \in Thetas \cup {Origin, Nan} /\ ck \in Int /\ stepless \in BOOLEAN
    <3>1. ck \in Int
      OBVIOUS
    <3>2. stepless \in BOOLEAN
      BY Zenon
    <3> QED
      BY <2>1, <3>1, <3>2
  <2>5. pc \in {"head", "plus", "minus", "star", "done", "failed"} /\ bw \in Bandwidths
    OBVIOUS
  <2> HIDE DEF Init
  <2> QED
    BY <1>1, <1>2, <1>3, <2>1, <2>2, <2>3, <2>4, <2>5 DEF TypeOK
<1>5. RttAmong
  BY <1>1 DEF RttAmong
<1>6. Between(buf_min, BufMin, safe_max) /\ Between(buf_max, BufMin, safe_max)
  BY <1>1 DEF Between, Lower, Higher
<1>7. Nan \notin {theta, max_theta, plus, minus} /\ ~Running
  BY <1>2, <1>3, ThetasInt DEF Running
<1> QED
  BY <1>4, <1>5, <1>6, <1>7 DEF IInv, Probed, RangeHoldsBdp, HoldsBdp, RestartsAtBest, Running

(* The head of the loop gives every part of the invariant anew. *)
LEMMA RttStep == ASSUME IInv, EstimateRtt, UNCHANGED opts
                 PROVE  RttAmong' /\ rtt' \in Int
<1> USE SpsaAssumption
<1>1. rtt \in Int /\ given \in Int /\ Samples \subseteq Int /\ given' = given /\ RttAmong
  BY DEF SpsaAssumption, IInv, TypeOK, opts
<1>2. CASE rtt' = rtt
  BY <1>1, <1>2 DEF RttAmong
<1>3. CASE rtt' # rtt
  <2>1. PICK s \in Samples : s >= 0 /\ rtt' = Smooth(rtt, s)
    BY <1>1, <1>3 DEF EstimateRtt
  <2>2. s \in Int
    BY <1>1
  <2>3. CASE rtt < 0
    BY <1>1, <2>1, <2>2, <2>3 DEF RttAmong, Smooth
  <2>4. CASE rtt >= 0
    <3>1. rtt' \in Int /\ Between(rtt', rtt, s)
      BY <1>1, <2>1, <2>2, <2>4, SmoothBetween
    <3>2. PICK lo \in {given} \cup Samples, hi \in {given} \cup Samples :
            0 <= lo /\ lo <= rtt /\ rtt <= hi
      BY <1>1, <2>4 DEF RttAmong
    <3>3. lo \in Int /\ hi \in Int
      BY <1>1
    <3>4. Lower(lo, s) \in {given} \cup Samples /\ Higher(hi, s) \in {given} \cup Samples
      BY DEF Lower, Higher
    <3>5. 0 <= Lower(lo, s) /\ Lower(lo, s) <= rtt' /\ rtt' <= Higher(hi, s)
      BY <1>1, <2>1, <2>2, <2>4, <3>1, <3>2, <3>3 DEF Between, Lower, Higher
    <3>6. \E l, h \in {given} \cup Samples : 0 <= l /\ l <= rtt' /\ rtt' <= h
      BY <3>4, <3>5, Zenon
    <3>7. rtt' >= 0
      BY <1>1, <2>2, <3>1, <3>3, <3>5 DEF Lower
    <3> QED
      BY <1>1, <3>1, <3>6, <3>7 DEF RttAmong
  <2> QED
    BY <1>1, <2>3, <2>4
<1> QED
  BY <1>2, <1>3

LEMMA RangeStep ==
  ASSUME IInv, TuneRange, UNCHANGED opts, rtt' \in Int
  PROVE  /\ buf_min' \in Int /\ buf_max' \in Int
         /\ Between(buf_min', BufMin, safe_max) /\ Between(buf_max', BufMin, safe_max)
         /\ bw < 0 => UNCHANGED range
         /\ Fits' /\ KnowsBdp' /\ BufMin <= Bdp' /\ Bdp' <= safe_max
               => buf_min' <= Bdp' /\ Bdp' <= buf_max'
<1> USE SpsaAssumption
<1>1. /\ bw \in Int /\ safe_max \in Int /\ buf_min \in Int /\ buf_max \in Int
      /\ BufMin \in Int /\ IntMin \in Int /\ IntMax \in Int /\ IntMin <= 0
      /\ Between(buf_min, BufMin, safe_max) /\ Between(buf_max, BufMin, safe_max)
      /\ bw' = bw
  BY DEF SpsaAssumption, IInv, TypeOK, opts
<1>2. CASE ~KnowsBdp'
  BY <1>1, <1>2 DEF TuneRange, range
<1>3. CASE KnowsBdp'
  <2> DEFINE b == Bdp'
  <2>1. b \in Nat
    <3>1. rtt' >= 0 /\ bw >= 0
      BY <1>1, <1>3 DEF KnowsBdp
    <3>2. b = rtt' * bw
      BY <1>1 DEF Bdp
    <3>3. rtt' \in Nat /\ bw \in Nat
      BY <1>1, <3>1
    <3>4. \A m, n \in Nat : m * n \in Nat
      OBVIOUS
    <3> QED
      BY <3>2, <3>3, <3>4
  <2> HIDE DEF b
  <2>2. PICK lo \in ToInt(Round(3 * b, 4)), hi \in ToInt(4 * b) :
          buf_min' = Safeguard(lo) /\ buf_max' = Safeguard(hi)
    BY <1>3, Zenon DEF TuneRange, b
  <2>3. Round(3 * b, 4) \in Int /\ 0 <= Round(3 * b, 4) /\ Round(3 * b, 4) <= b
    BY <2>1 DEF Round
  <2>4. 4 * b \in Int /\ lo \in Int /\ hi \in Int
    BY <2>1, <2>3, ToIntInt
  <2>5. /\ buf_min' \in Int /\ buf_max' \in Int
        /\ Between(buf_min', BufMin, safe_max) /\ Between(buf_max', BufMin, safe_max)
    BY <1>1, <2>2, <2>4, SafeguardBetween
  <2>6. ASSUME 4 * b <= IntMax, BufMin <= b, b <= safe_max
        PROVE  buf_min' <= b /\ b <= buf_max'
    <3>1. Round(3 * b, 4) \in IntMin..IntMax /\ 4 * b \in IntMin..IntMax
      BY <1>1, <2>1, <2>3, <2>6
    <3>2. lo = Round(3 * b, 4) /\ hi = 4 * b
      BY <2>3, <2>4, <3>1, ToIntInt
    <3> QED
      BY <1>1, <2>1, <2>2, <2>3, <2>6, <3>2 DEF Safeguard, Lower, Higher
  <2>7. Fits' <=> 4 * b <= IntMax
    BY DEF Fits, b
  <2> QED
    BY <1>1, <1>3, <2>5, <2>6, <2>7 DEF KnowsBdp, b
<1> QED
  BY <1>2, <1>3

(* What an iteration begins with: points of the range, probed apart, or no   *)
(* numbers, where they were none before.                                   *)
Begun ==
  /\ theta \in Thetas \cup {Nan} /\ plus \in Thetas \cup {Nan} /\ minus \in Thetas \cup {Nan}
  /\ ck_plus \in [Dims -> Int] /\ ck_minus \in [Dims -> Int] /\ ck \in Int
  /\ delta \in [Dims -> {-1, 1}] /\ stepless \in BOOLEAN
  /\ ~stepless => Nan \notin {theta, plus, minus} /\ ck # 0
  /\ IF plus = Nan THEN minus = Nan /\ stepless
     ELSE \A d \in Dims : /\ delta[d] * (plus[d] - minus[d]) = Divisor(d)
                          /\ Divisor(d) = 0 <=> ck = 0

LEMMA ProbeStep ==
  ASSUME IInv, theta # Nan, NEW c \in Int, NEW sgn \in [Dims -> {-1, 1}], Probe(c, sgn),
         ck' = c, delta' = sgn, stepless' = (stepless \/ c = 0)
  PROVE  theta' = Project(theta) /\ Begun'
<1> USE SpsaAssumption
<1> DEFINE t == Project(theta)
<1>1. t \in Thetas
  BY ThetasInt DEF IInv, TypeOK
<1>2. /\ theta' = t
      /\ ck_plus'  = [d \in Dims |-> Adjust(c, t[d], t[d] + c * sgn[d])]
      /\ ck_minus' = [d \in Dims |-> Adjust(c, t[d], t[d] - c * sgn[d])]
      /\ plus'  = Project([d \in Dims |-> t[d] + c * sgn[d]])
      /\ minus' = Project([d \in Dims |-> t[d] - c * sgn[d]])
  <2>1. LET up   == [d \in Dims |-> t[d] + c * sgn[d]]
            down == [d \in Dims |-> t[d] - c * sgn[d]]
        IN  /\ theta' = t
            /\ ck_plus'  = [d \in Dims |-> Adjust(c, t[d], up[d])]
            /\ ck_minus' = [d \in Dims |-> Adjust(c, t[d], down[d])]
            /\ plus' = Project(up) /\ minus' = Project(down)
    BY DEF Probe
  <2> HIDE DEF t
  <2> QED
    BY <2>1
<1> HIDE DEF t
<1>4. ASSUME NEW d \in Dims
      PROVE  /\ t[d] \in ThetaMin..ThetaMax /\ sgn[d] \in {-1, 1}
             /\ t[d] + c * sgn[d] \in Int /\ t[d] - c * sgn[d] \in Int
  <2>1. t[d] \in ThetaMin..ThetaMax /\ sgn[d] \in {-1, 1}
    BY <1>1 DEF Thetas
  <2>2. t[d] \in Int
    BY <2>1 DEF SpsaAssumption
  <2> QED
    BY <2>1, <2>2
<1>5. plus' \in Thetas /\ minus' \in Thetas
  BY <1>2, <1>4, ThetasInt
<1>6. ASSUME NEW d \in Dims
      PROVE  /\ ck_plus'[d] \in Int /\ ck_minus'[d] \in Int
             /\ sgn[d] * (plus'[d] - minus'[d]) = ck_plus'[d] + ck_minus'[d]
             /\ ck_plus'[d] + ck_minus'[d] = 0 <=> c = 0
  <2> DEFINE a == Adjust(c, t[d], t[d] + c * sgn[d])
             b == Adjust(c, t[d], t[d] - c * sgn[d])
  <2>1. /\ a \in Int /\ b \in Int /\ (a + b = 0 <=> c = 0)
        /\ sgn[d] * (Clamp(t[d] + c * sgn[d]) - Clamp(t[d] - c * sgn[d])) = a + b
    <3> DEFINE u == t[d]
               g == sgn[d]
    <3>1. u \in ThetaMin..ThetaMax /\ g \in {-1, 1} /\ c \in Int
      BY <1>4
    <3> HIDE DEF u, g
    <3>2. LET up   == Adjust(c, u, u + c * g)
              down == Adjust(c, u, u - c * g)
          IN  /\ up \in Int /\ down \in Int /\ (up + down = 0 <=> c = 0)
              /\ g * (Clamp(u + c * g) - Clamp(u - c * g)) = up + down
      BY <3>1, SpsaAssumption, Apart, Zenon
    <3> QED
      BY <3>2 DEF u, g
  <2>2. ck_plus'[d] = a /\ ck_minus'[d] = b
    BY <1>2
  <2>3. plus'[d] = Clamp(t[d] + c * sgn[d]) /\ minus'[d] = Clamp(t[d] - c * sgn[d])
    BY <1>2 DEF Project
  <2> QED
    BY <2>1, <2>2, <2>3
<1>7. ck_plus' \in [Dims -> Int] /\ ck_minus' \in [Dims -> Int]
  BY <1>2, <1>6
<1>8. Nan \notin {theta', plus', minus'} /\ stepless' \in BOOLEAN /\ (ck' = 0 => stepless')
  BY <1>1, <1>2, <1>5, ThetasInt DEF IInv, TypeOK
<1>9. theta' \in Thetas /\ ck' \in Int /\ delta' \in [Dims -> {-1, 1}]
  BY <1>1, <1>2
<1>10. \A d \in Dims : /\ delta'[d] * (plus'[d] - minus'[d]) = Divisor(d)'
                       /\ Divisor(d)' = 0 <=> ck' = 0
  BY <1>6 DEF Divisor
<1> QED
  BY <1>2, <1>5, <1>7, <1>8, <1>9, <1>10, Zenon DEF t, Begun

LEMMA PerturbStep ==
  ASSUME IInv, Perturb
  PROVE  Begun' /\ (stepless => stepless')
         /\ theta' = (IF theta = Nan THEN Nan ELSE Project(theta))
<1>1. PICK c \in Cks, sgn \in [Dims -> {-1, 1}] :
        /\ ck' = c /\ delta' = sgn /\ stepless' = (stepless \/ c = 0)
        /\ IF theta = Nan THEN ProbeNothing(c) ELSE Probe(c, sgn)
  BY Zenon DEF Perturb
<1>2. c \in Int
  BY SpsaAssumption DEF SpsaAssumption
<1>3. CASE theta # Nan
  BY <1>1, <1>2, <1>3, ProbeStep
<1>4. CASE theta = Nan
  <2>1. /\ theta' = Nan /\ plus' = Nan /\ minus' = Nan /\ ck' \in Int
        /\ ck_plus' \in [Dims -> Int] /\ ck_minus' \in [Dims -> Int]
    BY <1>1, <1>2, <1>4 DEF ProbeNothing
  <2>2. stepless
    BY <1>4 DEF IInv
  <2>3. stepless'
    BY <1>1, <2>2
  <2>4. delta' \in [Dims -> {-1, 1}] /\ stepless' \in BOOLEAN
    BY <1>1, <2>3
  <2> QED
    BY <1>4, <2>1, <2>2, <2>3, <2>4, Zenon DEF Begun
<1> QED
  BY <1>3, <1>4

LEMMA BeginStep == IInv /\ Begin => IInv'
<1> SUFFICES ASSUME IInv, Begin PROVE IInv'
  OBVIOUS
<1> USE SpsaAssumption
<1>1. /\ pc = "head" /\ pc' = "plus" /\ UNCHANGED opts /\ UNCHANGED found /\ y_plus' = y_plus
      /\ EstimateRtt /\ TuneRange /\ Perturb
  BY DEF Begin
<1>2. RttAmong' /\ rtt' \in Int
  BY <1>1, RttStep
<1>3. /\ buf_min' \in Int /\ buf_max' \in Int
      /\ Between(buf_min', BufMin, safe_max) /\ Between(buf_max', BufMin, safe_max)
      /\ bw < 0 => UNCHANGED range
      /\ Fits' /\ KnowsBdp' /\ BufMin <= Bdp' /\ Bdp' <= safe_max
            => buf_min' <= Bdp' /\ Bdp' <= buf_max'
  BY <1>1, <1>2, RangeStep
<1>4. Begun' /\ (stepless => stepless')
      /\ theta' = (IF theta = Nan THEN Nan ELSE Project(theta))
  BY <1>1, PerturbStep
<1>5. /\ bw' = bw /\ safe_max' = safe_max /\ given' = given
      /\ max_theta' = max_theta /\ max_perf' = max_perf /\ best' = best
  BY <1>1 DEF opts, found
<1>6. TypeOK'
  BY <1>1, <1>2, <1>3, <1>4, <1>5 DEF IInv, TypeOK, Begun
<1>7. Probed'
  BY <1>1, <1>4 DEF Probed, Begun
<1>8. RangeHoldsBdp'
  BY <1>3, <1>5 DEF RangeHoldsBdp, HoldsBdp
<1>9. bw < 0 => \A t : Setting(t)' = Setting(t)
  BY <1>3 DEF Setting, range
<1>10. max_perf > 0 => theta' = max_theta
  BY <1>1, <1>4, ThetasInt DEF IInv
<1>11. RestartsAtBest'
  BY <1>5, <1>9, <1>10 DEF IInv, RestartsAtBest, Setting
<1>12. (Running => theta \in Thetas \cup {Nan})'
       /\ (pc = "head" /\ max_perf > 0 => theta = max_theta)'
  BY <1>1, <1>4 DEF Running, Begun
<1>13. (bw < 0 => buf_min = BufMin /\ buf_max = safe_max)'
  BY <1>3, <1>5 DEF IInv, range
<1>14. (max_perf > 0 => max_theta \in Thetas \cup {Nan} /\ (bw < 0 => best = Setting(max_theta)))'
  BY <1>3, <1>5 DEF IInv, Setting, range
<1>15. (Between(buf_min, BufMin, safe_max) /\ Between(buf_max, BufMin, safe_max))'
  BY <1>3, <1>5 DEF Between, Lower, Higher
<1>16. (~stepless => Nan \notin {theta, max_theta, plus, minus} /\ (Running => ck # 0))'
  BY <1>4, <1>5 DEF IInv, Begun
<1> QED
  BY <1>2, <1>6, <1>7, <1>8, <1>11, <1>12, <1>13, <1>14, <1>15, <1>16 DEF IInv

(* A run moves neither the range nor the points, and what it finds best is   *)
(* the point it was made at.                                               *)
LEMMA MeasureStep ==
  ASSUME IInv, NEW t \in Thetas \cup {Nan}, t = Nan => stepless,
         NEW y \in Perfs, NEW next, Measure(t, y, next)
  PROVE  /\ pc' = next \/ pc' = "done"
         /\ max_theta' \in Thetas \cup {Origin, Nan} /\ max_perf' \in Nat
         /\ max_theta' = Nan => stepless
         /\ max_perf' > 0 =>
              max_theta' \in Thetas \cup {Nan} /\ (bw < 0 => best' = Setting(max_theta'))
<1> USE SpsaAssumption
<1>1. y \in Int /\ max_perf \in Nat /\ max_theta \in Thetas \cup {Origin, Nan}
  BY DEF SpsaAssumption, IInv, TypeOK
<1>2. CASE /\ y > max_perf /\ max_perf' = y /\ max_theta' = t /\ best' = Setting(t)
           /\ pc' = IF bw >= 0 /\ y >= Target THEN "done" ELSE next
  BY <1>1, <1>2
<1>3. CASE y <= max_perf /\ pc' = next /\ UNCHANGED found
  BY <1>1, <1>3 DEF found, IInv
<1> QED
  BY <1>2, <1>3, Zenon DEF Measure

(* What the invariant needs of a step that leaves the range and the points   *)
(* probed alone.                                                           *)
LEMMA RunStep ==
  ASSUME IInv, UNCHANGED <<opts, rtt, range, probe>>,
         pc' \in {"head", "minus", "star", "done", "failed"},
         pc' = "minus" => pc \in {"plus", "minus"},
         theta' \in Thetas \cup {Origin, Nan},
         pc' \in {"minus", "star"} => theta' \in Thetas \cup {Nan},
         theta' = Nan => stepless, max_theta' = Nan => stepless,
         pc' # "head" => Running \/ pc' \notin {"minus", "star"},
         pc' = "head" /\ max_perf' > 0 => theta' = max_theta',
         y_plus' \in Int, max_theta' \in Thetas \cup {Origin, Nan}, max_perf' \in Nat,
         max_perf' > 0 => max_theta' \in Thetas \cup {Nan} /\ (bw < 0 => best' = Setting(max_theta'))
  PROVE  IInv'
<1>1. /\ bw' = bw /\ safe_max' = safe_max /\ given' = given /\ rtt' = rtt
      /\ buf_min' = buf_min /\ buf_max' = buf_max /\ plus' = plus /\ minus' = minus
      /\ ck_plus' = ck_plus /\ ck_minus' = ck_minus /\ ck' = ck /\ delta' = delta
      /\ stepless' = stepless
  BY DEF opts, range, probe
<1>2. TypeOK'
  BY <1>1 DEF IInv, TypeOK
<1>3. Probed'
  BY <1>1 DEF IInv, Probed, Divisor
<1>4. RttAmong'
  BY <1>1 DEF IInv, RttAmong
<1>5. RangeHoldsBdp'
  BY <1>1 DEF IInv, RangeHoldsBdp, HoldsBdp, Fits, KnowsBdp, Bdp, Running
<1>6. RestartsAtBest'
  BY DEF RestartsAtBest
<1>7. (Between(buf_min, BufMin, safe_max) /\ Between(buf_max, BufMin, safe_max))'
  BY <1>1 DEF IInv, Between, Lower, Higher
<1>8. (bw < 0 => buf_min = BufMin /\ buf_max = safe_max)'
  BY <1>1 DEF IInv
<1>9. (Running => theta \in Thetas \cup {Nan})'
      /\ (pc = "head" /\ max_perf > 0 => theta = max_theta)'
  BY DEF Running
<1>11. (~stepless => Nan \notin {theta, max_theta, plus, minus} /\ (Running => ck # 0))'
  BY <1>1 DEF IInv, Running
<1>10. (max_perf > 0 => max_theta \in Thetas \cup {Nan} /\ (bw < 0 => best = Setting(max_theta)))'
  BY <1>1 DEF Setting
<1> QED
  BY <1>2, <1>3, <1>4, <1>5, <1>6, <1>7, <1>8, <1>9, <1>10, <1>11 DEF IInv

LEMMA PlusStep == IInv /\ Plus => IInv'
<1> SUFFICES ASSUME IInv, Plus PROVE IInv'
  OBVIOUS
<1> USE SpsaAssumption
<1>1. PICK y \in Perfs : y_plus' = y /\ Measure(plus, y, "minus")
  BY DEF Plus
<1>2. pc = "plus" /\ UNCHANGED <<opts, rtt, range, theta, probe>>
  BY DEF Plus
<1>3. /\ plus \in Thetas \cup {Nan} /\ y \in Int /\ theta \in Thetas \cup {Nan} /\ Running
      /\ (plus = Nan => stepless) /\ (theta = Nan => stepless)
  BY <1>2 DEF SpsaAssumption, IInv, TypeOK, Running
<1>4. /\ pc' = "minus" \/ pc' = "done"
      /\ max_theta' \in Thetas \cup {Origin, Nan} /\ max_perf' \in Nat
      /\ max_theta' = Nan => stepless
      /\ max_perf' > 0 =>
           max_theta' \in Thetas \cup {Nan} /\ (bw < 0 => best' = Setting(max_theta'))
  BY <1>1, <1>3, MeasureStep
<1> QED
  BY <1>1, <1>2, <1>3, <1>4, RunStep

(* A divisor that is not 0 gives a whole quotient, and one that is 0 was     *)
(* asked for.                                                              *)
LEMMA AscendStep ==
  ASSUME IInv, pc = "minus", NEW dy \in Int, Ascend(dy)
  PROVE  theta' \in Thetas \cup {Nan} /\ (theta' = Nan => stepless)
<1> USE SpsaAssumption
<1>0. ThetaMin \in ThetaMin..ThetaMax /\ ThetaMax \in ThetaMin..ThetaMax
  BY DEF SpsaAssumption
<1>1. PICK a \in Aks :
    \/ /\ theta # Nan /\ Stepping
       /\ theta' = [d \in Dims |->
                      Clamp(theta[d] + Quotient(a * dy * delta[d], Divisor(d)))]
    \/ /\ theta # Nan /\ ~Stepping /\ a * dy # 0
       /\ \E zero \in {-1, 1} :
            theta' = [d \in Dims |->
                        IF zero * a * dy * delta[d] > 0 THEN ThetaMax ELSE ThetaMin]
    \/ /\ theta # Nan => ~Stepping /\ a * dy = 0
       /\ theta' = Nan
  BY Zenon DEF Ascend
<1>2. CASE /\ theta # Nan /\ Stepping
           /\ theta' = [d \in Dims |->
                          Clamp(theta[d] + Quotient(a * dy * delta[d], Divisor(d)))]
  <2>1. ASSUME NEW d \in Dims
        PROVE  theta[d] + Quotient(a * dy * delta[d], Divisor(d)) \in Int
    <3> DEFINE n == a * dy * delta[d]
               e == Divisor(d)
    <3>1. theta[d] \in Int
      BY <1>2, ThetasInt DEF IInv, Running
    <3>2. a \in Int /\ delta[d] \in {-1, 1}
      BY DEF SpsaAssumption, IInv, TypeOK
    <3>3. n \in Int
      BY <3>2
    <3>4. e \in Int /\ e # 0
      BY <1>2 DEF IInv, TypeOK, Divisor, Stepping
    <3> HIDE DEF n, e
    <3>5. Quotient(n, e) \in Int
      <4>1. CASE e > 0
        <5>1. e \in Nat \ {0}
          BY <3>4, <4>1
        <5>2. n \div e \in Int
          BY <3>3, <5>1
        <5> QED
          BY <4>1, <5>2 DEF Quotient
      <4>2. CASE ~(e > 0)
        <5>1. -e \in Nat \ {0} /\ -n \in Int
          BY <3>3, <3>4, <4>2
        <5>2. (-n) \div (-e) \in Int
          BY <5>1
        <5> QED
          BY <4>2, <5>2 DEF Quotient
      <4> QED
        BY <4>1, <4>2
    <3> QED
      BY <3>1, <3>5 DEF n, e
  <2>2. theta' \in Thetas
    BY <1>2, <2>1, ClampIn DEF Thetas
  <2> QED
    BY <2>2, ThetasInt
<1>3. CASE \E zero \in {-1, 1} :
             theta' = [d \in Dims |->
                         IF zero * a * dy * delta[d] > 0 THEN ThetaMax ELSE ThetaMin]
  <2>1. theta' \in Thetas
    BY <1>0, <1>3 DEF Thetas
  <2> QED
    BY <2>1, ThetasInt
<1>4. CASE (theta # Nan => ~Stepping) /\ theta' = Nan
  <2>1. theta = Nan => stepless
    BY DEF IInv
  <2>2. plus = Nan => stepless
    BY DEF IInv
  <2>3. ~Stepping /\ plus # Nan => ck = 0
    BY DEF IInv, Probed, Stepping
  <2>4. ck = 0 => stepless
    BY DEF IInv, Running
  <2> QED
    BY <1>4, <2>1, <2>2, <2>3, <2>4
<1> QED
  BY <1>1, <1>2, <1>3, <1>4

LEMMA MinusStep == IInv /\ Minus => IInv'
<1> SUFFICES ASSUME IInv, Minus PROVE IInv'
  OBVIOUS
<1> USE SpsaAssumption
<1>1. PICK y \in Perfs : /\ Measure(minus, y, "star")
                         /\ IF pc' = "star" THEN Ascend(y_plus - y) ELSE UNCHANGED theta
  BY DEF Minus
<1>2. pc = "minus" /\ y_plus' = 0 /\ UNCHANGED <<opts, rtt, range, probe>>
  BY DEF Minus
<1>3. /\ minus \in Thetas \cup {Nan} /\ y_plus - y \in Int /\ theta \in Thetas \cup {Nan} /\ Running
      /\ (minus = Nan => stepless) /\ (theta = Nan => stepless)
  BY <1>2 DEF SpsaAssumption, IInv, TypeOK, Running
<1>4. /\ pc' = "star" \/ pc' = "done"
      /\ max_theta' \in Thetas \cup {Origin, Nan} /\ max_perf' \in Nat
      /\ max_theta' = Nan => stepless
      /\ max_perf' > 0 =>
           max_theta' \in Thetas \cup {Nan} /\ (bw < 0 => best' = Setting(max_theta'))
  BY <1>1, <1>3, MeasureStep
<1>5. theta' \in Thetas \cup {Nan} /\ (theta' = Nan => stepless)
  BY <1>1, <1>2, <1>3, AscendStep
<1> QED
  BY <1>2, <1>3, <1>4, <1>5, RunStep

LEMMA StarStep == IInv /\ Star => IInv'
<1> SUFFICES ASSUME IInv, Star PROVE IInv'
  OBVIOUS
<1> USE SpsaAssumption
<1>1. PICK y \in Perfs : Measure(theta, y, "head")
  BY DEF Star
<1>2. /\ pc = "star" /\ theta' = (IF pc' = "head" THEN max_theta' ELSE theta)
      /\ UNCHANGED <<opts, rtt, range, probe, y_plus>>
  BY DEF Star
<1>3. theta \in Thetas \cup {Nan} /\ y_plus' \in Int /\ (theta = Nan => stepless)
  BY <1>2 DEF IInv, TypeOK, Running
<1>4. /\ pc' = "head" \/ pc' = "done"
      /\ max_theta' \in Thetas \cup {Origin, Nan} /\ max_perf' \in Nat
      /\ max_theta' = Nan => stepless
      /\ max_perf' > 0 =>
           max_theta' \in Thetas \cup {Nan} /\ (bw < 0 => best' = Setting(max_theta'))
  BY <1>1, <1>3, MeasureStep
<1> QED
  BY <1>2, <1>3, <1>4, RunStep

LEMMA EndStep == IInv /\ (Stop \/ PingUnanswered \/ GiveUp) => IInv'
<1> SUFFICES ASSUME IInv, Stop \/ PingUnanswered \/ GiveUp PROVE IInv'
  OBVIOUS
<1>1. pc' \in {"done", "failed"} /\ UNCHANGED <<opts, rtt, range, theta, found, probe, y_plus>>
  BY DEF Stop, PingUnanswered, GiveUp
<1>2. /\ theta' = theta /\ max_theta' = max_theta /\ max_perf' = max_perf /\ best' = best
      /\ UNCHANGED <<opts, rtt, range, probe>> /\ y_plus' = y_plus
  BY <1>1 DEF found
<1>3. /\ theta \in Thetas \cup {Origin, Nan} /\ max_theta \in Thetas \cup {Origin, Nan}
      /\ max_perf \in Nat /\ y_plus \in Int
      /\ (theta = Nan => stepless) /\ (max_theta = Nan => stepless)
      /\ max_perf > 0 => max_theta \in Thetas \cup {Nan} /\ (bw < 0 => best = Setting(max_theta))
  BY DEF IInv, TypeOK
<1> QED
  BY <1>1, <1>2, <1>3, RunStep

LEMMA Stutter == IInv /\ UNCHANGED vars => IInv'
BY DEF vars, opts, range, found, probe, IInv, TypeOK, Probed, RttAmong, RangeHoldsBdp, HoldsBdp,
       Fits, KnowsBdp, Bdp, Running, RestartsAtBest, Setting, Between, Lower, Higher, Divisor

LEMMA Invariant == Spec => []IInv
<1>1. IInv /\ [Next]_vars => IInv'
  BY BeginStep, PlusStep, MinusStep, StarStep, EndStep, Stutter DEF Next, Over
<1> QED
  BY Initially, <1>1, PTL DEF Spec

-----------------------------------------------------------------------------
(* The search's variables keep their types: in particular theta is a point   *)
(* of the range, the origin it was given before any run was best, or Nan.   *)
THEOREM TypeCorrect == Spec => []TypeOK
<1>1. IInv => TypeOK
  BY DEF IInv
<1> QED
  BY Invariant, <1>1, PTL

(* No run of f_tcp_client_run or f_udt_client_run is made with a buffer     *)
(* outside the safeguards, or with a number outside its range, unless a     *)
(* step of 0 has made the point no number.                                 *)
THEOREM BuffersInSafeguards == Spec => []InSafeguards
<1>1. ASSUME IInv, Running, Here # Nan PROVE InSafeguards
  <2> USE SpsaAssumption
  <2>1. /\ BufMin \in Int /\ safe_max \in Int /\ buf_min \in Int /\ buf_max \in Int
        /\ NumMin \in Int /\ NumMax \in Int /\ Unit \in Int
    BY <1>1 DEF SpsaAssumption, IInv, TypeOK
  <2>2. Here \in Thetas
    BY <1>1 DEF Here, IInv, TypeOK
  <2>3. Here["buf"] \in ThetaMin..ThetaMax /\ Here["num"] \in ThetaMin..ThetaMax
    BY <2>2 DEF Thetas, Dims
  <2> DEFINE s == Setting(Here)
             buffer == ToVal(buf_min, buf_max, Here["buf"], 1, 1)
             socket == ToVal(buf_min, buf_max, Here["buf"], 1, 2)
             num    == ToVal(NumMin, NumMax, Here["num"], Unit, 1)
             one    == 1 \in Int /\ 1 \in Nat \ {0} /\ 2 \in Nat \ {0}
  <2>3a. s.buffer = buffer /\ s.socket = socket /\ s.num = num
    BY <1>1 DEF Setting
  <2>3b. one
    OBVIOUS
  <2>4. Between(buffer, Round(1 * buf_min, 1), Round(1 * buf_max, 1))
    BY <2>1, <2>3, <2>3b, ToValBetween, Zenon
  <2>5. Between(socket, Round(1 * buf_min, 2), Round(1 * buf_max, 2))
    BY <2>1, <2>3, <2>3b, ToValBetween, Zenon
  <2>6. Between(num, Round(Unit * NumMin, 1), Round(Unit * NumMax, 1))
    BY <2>1, <2>3, <2>3b, ToValBetween, Zenon
  <2>7. /\ Round(1 * buf_min, 1) = buf_min /\ Round(1 * buf_max, 1) = buf_max
        /\ Round(Unit * NumMin, 1) = Unit * NumMin /\ Round(Unit * NumMax, 1) = Unit * NumMax
        /\ 1 * buf_min = buf_min /\ 1 * buf_max = buf_max
    BY <2>1, RoundWhole
  <2>8. Between(buf_min, BufMin, safe_max) /\ Between(buf_max, BufMin, safe_max)
    BY <1>1 DEF IInv
  <2>9. /\ Between(Round(buf_min, 2), Round(BufMin, 2), Round(safe_max, 2))
        /\ Between(Round(buf_max, 2), Round(BufMin, 2), Round(safe_max, 2))
    BY <2>1, <2>8, RoundBetween
  <2>10. /\ buffer \in Int /\ socket \in Int
         /\ Round(buf_min, 2) \in Int /\ Round(buf_max, 2) \in Int
         /\ Round(BufMin, 2) \in Int /\ Round(safe_max, 2) \in Int
    <3>1. buffer \in Int /\ socket \in Int
      BY <2>1, <2>3, <2>3b, ToValBetween, Zenon
    <3>2. \A n \in Int : Round(n, 2) \in Int
      BY RoundInt
    <3> HIDE DEF buffer, socket
    <3> QED
      BY <2>1, <3>1, <3>2
  <2> HIDE DEF buffer, socket, num
  <2>11. Between(buffer, BufMin, safe_max)
    BY <2>1, <2>4, <2>7, <2>8, <2>10 DEF Between, Lower, Higher
  <2>12. Between(socket, Round(BufMin, 2), Round(safe_max, 2))
    BY <2>5, <2>7, <2>9, <2>10 DEF Between, Lower, Higher
  <2> QED
    BY <1>1, <2>3a, <2>6, <2>7, <2>11, <2>12 DEF InSafeguards
<1>2. ASSUME IInv, Running, Here = Nan PROVE stepless
  BY <1>2 DEF IInv, Here
<1>3. IInv => InSafeguards
  BY <1>1, <1>2 DEF InSafeguards
<1> QED
  BY Invariant, <1>3, PTL

(* The gradient is divided by what lies between the two points measured, and *)
(* that is nothing only in an iteration whose step is 0; the points are no  *)
(* numbers only after one.                                                 *)
THEOREM ProbesApart == Spec => []Probed
<1>1. IInv => Probed
  BY DEF IInv
<1> QED
  BY Invariant, <1>1, PTL

(* The averaged round trip time never leaves the times given and measured.   *)
THEOREM RttWithin == Spec => []RttAmong
<1>1. IInv => RttAmong
  BY DEF IInv
<1> QED
  BY Invariant, <1>1, PTL

(* The range tuned to the bandwidth-delay product contains it, where the    *)
(* safeguards and the width of an int allow.                               *)
THEOREM RangeCorrect == Spec => []RangeHoldsBdp
<1>1. IInv => RangeHoldsBdp
  BY DEF IInv
<1> QED
  BY Invariant, <1>1, PTL

(* Without -y an iteration sets out from the setting of the best run so far. *)
THEOREM Restarts == Spec => []RestartsAtBest
<1>1. IInv => RestartsAtBest
  BY DEF IInv
<1> QED
  BY Invariant, <1>1, PTL

=============================================================================
