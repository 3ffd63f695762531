-------------------------------- MODULE Spsa --------------------------------
(***************************************************************************)
(* Where FastProf measures: the stochastic approximation that chooses the  *)
(* settings of its runs (f_tcp_client_run and f_udt_client_run, which      *)
(* compute them alike).  A point theta has two coordinates, one for the    *)
(* buffer and one for the number of streams (TCP) or packets in a block    *)
(* (UDT); each is moved within one fixed range and mapped to a value.  The *)
(* range of buffers follows the bandwidth-delay product.                   *)
(*                                                                         *)
(* When the search stops is FastProf's business; here it may stop at the   *)
(* head of every iteration, so that any number of iterations is covered.   *)
(* Coordinates are whole ticks, times and sizes whole numbers, and each    *)
(* operation on them is the code's, rounded down to a tick.  The gains come *)
(* from options nobody checks (-e, -g, -o, -x): a step may be negative, and *)
(* with a step of 0 the coordinates may stop being numbers, which happens   *)
(* to both at once.                                                        *)
(***************************************************************************)
EXTENDS Integers

CONSTANTS
  ThetaMin, ThetaMax,  \* F_ITERATIVE_MIN and _MAX
  NumMin, NumMax,      \* F_STREAM_NUM_MIN and _MAX, F_BLK_MIN and _MAX
  Unit,                \* stream_unit; block_unit, the packet size less its headers
  BufMin, BufMax,      \* F_BUF_MIN, F_BUF_MAX
  IntMin, IntMax,      \* the range of an int
  HostMaxBufs,         \* the values of host_max_buf, after the exchange
  Bandwidths,          \* the values of -y in bytes per ms, negative for none
  GivenRtts,           \* the values of -T, negative for none
  Samples,             \* what ping can say, negative for nothing
  Aks, Cks,            \* the gains a/(A+k+1)^alpha and c/(k+1)^gamma, scaled or not
  Perfs, Target,       \* what a run can measure; the performance to reach
  Nan                  \* a point whose coordinates are not numbers

ASSUME SpsaAssumption ==
  /\ ThetaMin \in Int /\ ThetaMax \in Int /\ 0 < ThetaMin /\ ThetaMin + 1 < ThetaMax
  /\ NumMin \in Int /\ NumMax \in Int /\ Unit \in Int
  /\ BufMin \in Int /\ BufMax \in Int /\ IntMin \in Int /\ IntMax \in Int
  /\ IntMin <= 0
  /\ HostMaxBufs \subseteq Int /\ Bandwidths \subseteq Int
  /\ GivenRtts \subseteq Int /\ Samples \subseteq Int
  /\ Aks \subseteq Int /\ Cks \subseteq Int
  /\ Perfs \subseteq Int /\ Target \in Int

Dims   == {"buf", "num"}
Thetas == [Dims -> ThetaMin..ThetaMax]
Origin == [d \in Dims |-> 0]

ASSUME NanAssumption == Nan \notin [Dims -> Int]

VARIABLES
  pc,
  bw, safe_max,        \* ctrl->bw_bps / 8, and buf_size_max_safeguard
  given, rtt,          \* ctrl->rtt_ms, at first and now
  buf_min, buf_max,    \* buf_size_min, buf_size_max
  theta, max_theta, max_perf,
  plus, minus,         \* theta_plus, theta_minus
  ck_plus, ck_minus,   \* ck_adjust_plus, ck_adjust_minus
  ck, delta, y_plus,
  best,                \* ghost: the setting max_perf was measured at
  stepless             \* ghost: an iteration has had a step of 0

opts  == <<bw, safe_max, given>>
range == <<buf_min, buf_max>>
found == <<max_theta, max_perf, best>>
probe == <<plus, minus, ck_plus, ck_minus, ck, delta, stepless>>
vars  == <<pc, opts, rtt, range, theta, found, probe, y_plus>>

Lower(a, b)  == IF a < b THEN a ELSE b
Higher(a, b) == IF a < b THEN b ELSE a

(* n / d to the nearest whole number, halves up: f_round. *)
Round(n, d) == (2 * n + d) \div (2 * d)

(* f_tcp_theta_to_val, times unit / parts, rounded. *)
ToVal(lo, hi, t, unit, parts) ==
  Round(unit * ((t - ThetaMin) * (hi - lo) + lo * (ThetaMax - ThetaMin)),
        parts * (ThetaMax - ThetaMin))

(* What a run at t is set to: the UDT buffers, the socket buffers of either  *)
(* transport, which are half as large, and the streams or the block size;   *)
(* at no number, to whatever an int makes of that.                         *)
Setting(t) ==
  IF t = Nan THEN Nan ELSE
  [buffer |-> ToVal(buf_min, buf_max, t["buf"], 1, 1),
   socket |-> ToVal(buf_min, buf_max, t["buf"], 1, 2),
   num    |-> ToVal(NumMin, NumMax, t["num"], Unit, 1)]

Between(x, a, b) == Lower(a, b) <= x /\ x <= Higher(a, b)

Clamp(x) == Lower(Higher(x, ThetaMin), ThetaMax)
Project(t) == [d \in Dims |-> Clamp(t[d])]

TypeOK ==
  /\ pc \in {"head", "plus", "minus", "star", "done", "failed"}
  /\ bw \in Bandwidths /\ safe_max \in Int /\ given \in Int /\ rtt \in Int
  /\ buf_min \in Int /\ buf_max \in Int
  /\ theta \in Thetas \cup {Origin, Nan} /\ max_theta \in Thetas \cup {Origin, Nan}
  /\ max_perf \in Nat /\ y_plus \in Int
  /\ plus \in Thetas \cup {Nan} /\ minus \in Thetas \cup {Nan}
  /\ ck_plus \in [Dims -> Int] /\ ck_minus \in [Dims -> Int] /\ ck \in Int
  /\ delta \in [Dims -> {-1, 1}] /\ stepless \in BOOLEAN

(* The first point is drawn by f_rand inside the range; no probe was made.  *)
Init ==
  /\ pc = "head"
  /\ bw \in Bandwidths /\ safe_max \in {Lower(h, BufMax) : h \in HostMaxBufs}
  /\ given \in GivenRtts /\ rtt = given
  /\ buf_min = BufMin /\ buf_max = safe_max
  /\ theta \in [Dims -> (ThetaMin + 1)..(ThetaMax - 1)]
  /\ max_theta = Origin /\ max_perf = 0 /\ best = Setting(Project(Origin))
  /\ plus = Project(Origin) /\ minus = plus
  /\ ck_plus = Origin /\ ck_minus = Origin /\ ck = 0 /\ stepless = FALSE
  /\ delta = [d \in Dims |-> 1] /\ y_plus = 0

-----------------------------------------------------------------------------
(* The head of the loop *)

(* The time ping measures is averaged into what is known: 1 part of 8 old.  *)
Smooth(old, sample) == IF old < 0 THEN sample ELSE (old + 7 * sample) \div 8

(* Faulty variant: a ping that says nothing counts as a sample. *)
EstimateRttAnySample ==
  IF bw < 0 THEN UNCHANGED rtt
  ELSE \E s \in Samples : rtt' = Smooth(rtt, s)

EstimateRtt ==
  IF bw < 0 THEN UNCHANGED rtt
  ELSE \E s \in Samples : rtt' = IF s < 0 THEN rtt ELSE Smooth(rtt, s)

(* A double assigned to an int: undefined when it does not fit.  x86        *)
(* converts it to INT_MIN, other hardware to the nearest int.               *)
ToInt(x) == IF x \in IntMin..IntMax THEN {x} ELSE {IntMin, Lower(Higher(x, IntMin), IntMax)}

(* Faulty variant: the host's own limit is not applied. *)
SafeguardFloor(x) == Higher(x, BufMin)

Safeguard(x) == Lower(Higher(x, BufMin), safe_max)

Bdp == rtt * bw
KnowsBdp == bw >= 0 /\ rtt >= 0

(* Faulty variant: the range is taken from the time before the sample. *)
TuneRangeStale ==
  IF KnowsBdp'
    THEN \E lo \in ToInt(Round(3 * Bdp, 4)), hi \in ToInt(4 * Bdp) :
           buf_min' = Safeguard(lo) /\ buf_max' = Safeguard(hi)
    ELSE UNCHANGED range

(* From 3/4 of the bandwidth-delay product to 4 times it, within the        *)
(* safeguards; the range is left alone while the product is not known.      *)
TuneRange ==
  IF KnowsBdp'
    THEN \E lo \in ToInt(Round(3 * Bdp', 4)), hi \in ToInt(4 * Bdp') :
           buf_min' = Safeguard(lo) /\ buf_max' = Safeguard(hi)
    ELSE UNCHANGED range

Distance(a, b) == IF a < b THEN b - a ELSE a - b

(* The part of the step c from t to x that stays in the range: ck_adjust.    *)
Adjust(c, t, x) ==
  IF x > ThetaMax THEN (c * Distance(ThetaMax, t)) \div Distance(x, t)
  ELSE IF x < ThetaMin THEN (c * Distance(ThetaMin, t)) \div Distance(x, t)
  ELSE c

(* Faulty variant: a point outside the range is not brought back first. *)
ProbeUnprojected(c, sgn) ==
  LET up   == [d \in Dims |-> theta[d] + c * sgn[d]]
      down == [d \in Dims |-> theta[d] - c * sgn[d]]
  IN  /\ UNCHANGED theta
      /\ ck_plus'  = [d \in Dims |-> Adjust(c, theta[d], up[d])]
      /\ ck_minus' = [d \in Dims |-> Adjust(c, theta[d], down[d])]
      /\ plus' = Project(up) /\ minus' = Project(down)

(* theta is brought into the range, and the two points on either side of it  *)
(* too; how far each then is from theta is kept for the gradient.           *)
Probe(c, sgn) ==
  LET t    == Project(theta)
      up   == [d \in Dims |-> t[d] + c * sgn[d]]
      down == [d \in Dims |-> t[d] - c * sgn[d]]
  IN  /\ theta' = t
      /\ ck_plus'  = [d \in Dims |-> Adjust(c, t[d], up[d])]
      /\ ck_minus' = [d \in Dims |-> Adjust(c, t[d], down[d])]
      /\ plus' = Project(up) /\ minus' = Project(down)

(* No comparison brings a theta that is no number back into the range.       *)
ProbeNothing(c) ==
  /\ UNCHANGED theta /\ plus' = Nan /\ minus' = Nan
  /\ ck_plus' = [d \in Dims |-> c] /\ ck_minus' = [d \in Dims |-> c]

Perturb ==
  \E c \in Cks, sgn \in [Dims -> {-1, 1}] :
    /\ ck' = c /\ delta' = sgn /\ stepless' = (stepless \/ c = 0)
    /\ IF theta = Nan THEN ProbeNothing(c) ELSE Probe(c, sgn)

(* One of the limits is reached, or the gain was there from the start. *)
Stop ==
  /\ pc = "head" /\ pc' = "done"
  /\ UNCHANGED <<opts, rtt, range, theta, found, probe, y_plus>>

Begin ==
  /\ pc = "head" /\ pc' = "plus" /\ UNCHANGED <<opts, found, y_plus>>
  /\ EstimateRtt /\ TuneRange /\ Perturb

(* No answer to ping: the position of "mdev" is not recognised as npos and   *)
(* substr throws out of f_estimate_rtt, which nobody catches.               *)
PingUnanswered ==
  /\ pc = "head" /\ bw >= 0 /\ pc' = "failed"
  /\ UNCHANGED <<opts, rtt, range, theta, found, probe, y_plus>>

-----------------------------------------------------------------------------
(* The three runs *)

(* A run at t that measures y and goes on to next, unless y is good enough   *)
(* for the bandwidth given; without -y it never is.                        *)
Measure(t, y, next) ==
  \/ /\ y > max_perf /\ max_perf' = y /\ max_theta' = t /\ best' = Setting(t)
     /\ pc' = IF bw >= 0 /\ y >= Target THEN "done" ELSE next
  \/ y <= max_perf /\ pc' = next /\ UNCHANGED found

Plus ==
  /\ pc = "plus"
  /\ \E y \in Perfs : y_plus' = y /\ Measure(plus, y, "minus")
  /\ UNCHANGED <<opts, rtt, range, theta, probe>>

(* n / m, rounded down. *)
Quotient(n, m) == IF m > 0 THEN n \div m ELSE (-n) \div (-m)

(* What is divided by: the two adjusted steps together, 0 in both coordinates *)
(* or in none.                                                             *)
Divisor(d) == ck_plus[d] + ck_minus[d]
Stepping == \A d \in Dims : Divisor(d) # 0

(* Faulty variant: theta leaves the range. *)
AscendUnclamped(dy) ==
  \E a \in Aks :
    theta' = IF theta # Nan /\ Stepping
               THEN [d \in Dims |-> theta[d] + Quotient(a * dy * delta[d], Divisor(d))]
               ELSE Nan

(* theta follows the gradient: ghat, times ak, back into the range.  Divided *)
(* by 0, of either sign, the gradient is infinite and leads to an end of    *)
(* the range, or it is no number, and then neither is theta.               *)
Ascend(dy) ==
  \E a \in Aks :
    \/ /\ theta # Nan /\ Stepping
       /\ theta' = [d \in Dims |->
                      Clamp(theta[d] + Quotient(a * dy * delta[d], Divisor(d)))]
    \/ /\ theta # Nan /\ ~Stepping /\ a * dy # 0
       /\ \E zero \in {-1, 1} :
            theta' = [d \in Dims |->
                        IF zero * a * dy * delta[d] > 0 THEN ThetaMax ELSE ThetaMin]
    \/ /\ theta # Nan => ~Stepping /\ a * dy = 0
       /\ theta' = Nan

(* After the second run theta moves, unless the search is over. *)
Minus ==
  /\ pc = "minus"
  /\ \E y \in Perfs :
       /\ Measure(minus, y, "star")
       /\ IF pc' = "star" THEN Ascend(y_plus - y) ELSE UNCHANGED theta
  /\ y_plus' = 0
  /\ UNCHANGED <<opts, rtt, range, probe>>

(* Faulty variant: the next iteration starts where this one has led. *)
StarStays ==
  /\ pc = "star"
  /\ \E y \in Perfs : Measure(theta, y, "head")
  /\ UNCHANGED <<opts, rtt, range, theta, probe, y_plus>>

(* "always restart from the so-far best one" *)
Star ==
  /\ pc = "star"
  /\ \E y \in Perfs : Measure(theta, y, "head")
  /\ theta' = IF pc' = "head" THEN max_theta' ELSE theta
  /\ UNCHANGED <<opts, rtt, range, probe, y_plus>>

(* A run fails, or the database cannot be opened for its record. *)
GiveUp ==
  /\ pc \in {"plus", "minus", "star"} /\ pc' \in {"failed", "done"}
  /\ UNCHANGED <<opts, rtt, range, theta, found, probe, y_plus>>

Over == pc \in {"done", "failed"} /\ UNCHANGED vars

Next == Stop \/ Begin \/ PingUnanswered \/ Plus \/ Minus \/ Star \/ GiveUp \/ Over

Spec == Init /\ [][Next]_vars

-----------------------------------------------------------------------------
(* Properties *)

(* The point of the run that is made next. *)
Here == IF pc = "plus" THEN plus ELSE IF pc = "minus" THEN minus ELSE theta

Running == pc \in {"plus", "minus", "star"}

(* Whatever ping says, whatever becomes of a product that fits no int, and   *)
(* wherever the search restarts: no run is made with a buffer outside the   *)
(* safeguards or a number outside its range.  The one way out is a step of 0 *)
(* that was asked for: then it may be made with no number at all.           *)
InSafeguards ==
  Running =>
    IF Here = Nan THEN stepless
    ELSE LET s == Setting(Here)
         IN  /\ Between(s.buffer, BufMin, safe_max)
             /\ Between(s.socket, Round(BufMin, 2), Round(safe_max, 2))
             /\ Between(s.num, Unit * NumMin, Unit * NumMax)

(* The gradient is divided by the distance between the two points measured,  *)
(* signed as the step is, although each was brought back into the range on  *)
(* its own.  They never fall together in a coordinate, at the ends of the   *)
(* range or elsewhere, unless the step itself is 0; that, and nothing else, *)
(* also makes the points no numbers later.                                 *)
Probed ==
  pc \in {"plus", "minus"} =>
    IF plus = Nan THEN minus = Nan /\ stepless
    ELSE \A d \in Dims : /\ delta[d] * (plus[d] - minus[d]) = Divisor(d)
                         /\ Divisor(d) = 0 <=> ck = 0

(* ctrl->rtt_ms stays among the times given and measured, however often it   *)
(* is averaged; it is unknown only as long as nothing was given or measured. *)
RttAmong ==
  /\ rtt < 0 => rtt = given
  /\ rtt >= 0 => \E lo, hi \in {given} \cup Samples : 0 <= lo /\ lo <= rtt /\ rtt <= hi

(* The buffers tried include the bandwidth-delay product itself, if the      *)
(* safeguards allow it and if four times it fits an int.                    *)
Fits == 4 * Bdp <= IntMax

HoldsBdp ==
  Running /\ KnowsBdp /\ BufMin <= Bdp /\ Bdp <= safe_max
    => buf_min <= Bdp /\ Bdp <= buf_max

RangeHoldsBdp == Fits => HoldsBdp

(* With a range that does not move, an iteration sets out from the very      *)
(* setting the best run was made with.                                     *)
RestartsAtBest ==
  pc = "plus" /\ bw < 0 /\ max_perf > 0 => Setting(theta) = best

=============================================================================
