---------------------------- MODULE VestingProofs ----------------------------
(***************************************************************************)
(* What holds of the vesting arithmetic for every amount and every         *)
(* timestamp.  The nonlinear facts about products and truncated quotients  *)
(* come first; everything about VestedAmount follows from them by linear   *)
(* arithmetic.                                                             *)
(***************************************************************************)
EXTENDS Vesting, TLAPS

(* Truncated division by a positive divisor: what i128 division does to    *)
(* the non-negative products of vested_amount.                             *)
LEMMA DivBounds ==
  ASSUME NEW n \in Nat, NEW d \in Nat \ {0}
  PROVE  /\ n \div d \in Nat
         /\ d * (n \div d) <= n
         /\ n < d * (n \div d) + d
  OBVIOUS

(* Products of naturals are natural.                                       *)
LEMMA ProductNat ==
  ASSUME NEW a \in Nat, NEW b \in Nat
  PROVE  a * b \in Nat
  OBVIOUS

(* A product grows with its second factor.                                 *)
LEMMA ProductMonotone ==
  ASSUME NEW a \in Nat, NEW b \in Nat, NEW c \in Nat, b <= c
  PROVE  a * b <= a * c
<1>1. c - b \in Nat
  OBVIOUS
<1>2. a * (c - b) \in Nat
  BY <1>1, ProductNat
<1>3. a * c = a * b + a * (c - b)
  OBVIOUS
<1> QED
  BY <1>2, <1>3

(* A bound on d * q, with d positive, is a bound on q.                     *)
LEMMA FactorBound ==
  ASSUME NEW d \in Nat \ {0}, NEW p \in Nat, NEW q \in Nat, d * p < d * q + d
  PROVE  p <= q
<1>1. SUFFICES ASSUME q + 1 <= p PROVE FALSE
  OBVIOUS
<1>2. d * (q + 1) <= d * p
  BY <1>1, ProductMonotone
<1>3. d * (q + 1) = d * q + d
  OBVIOUS
<1>4. d * p \in Nat /\ d * q \in Nat
  BY ProductNat
<1> QED
  BY <1>2, <1>3, <1>4

(* Quotients grow with the dividend.                                       *)
LEMMA DivMonotone ==
  ASSUME NEW m \in Nat, NEW n \in Nat, NEW d \in Nat \ {0}, m <= n
  PROVE  m \div d <= n \div d
<1> DEFINE p == m \div d
           q == n \div d
<1>1. p \in Nat /\ q \in Nat /\ d * p <= m /\ n < d * q + d
  BY DivBounds
<1>2. d * p \in Nat /\ d * q \in Nat
  BY <1>1, ProductNat
<1>3. d * p < d * q + d
  BY <1>1, <1>2
<1> HIDE DEF p, q
<1>4. p <= q
  BY <1>1, <1>3, FactorBound
<1> QED
  BY <1>4 DEF p, q

-----------------------------------------------------------------------------
(* The share of a stream inside its window: a quotient that is at most the *)
(* total, and below it while time is left.                                 *)
LEMMA ShareBounds ==
  ASSUME NEW total \in Nat, NEW elapsed \in Nat, NEW duration \in Nat \ {0},
         elapsed < duration
  PROVE  /\ (total * elapsed) \div duration \in 0 .. total
         /\ total > 0 => (total * elapsed) \div duration < total
<1> DEFINE share == (total * elapsed) \div duration
<1>1. total * elapsed \in Nat
  BY ProductNat
<1>2. share \in Nat /\ duration * share <= total * elapsed
  BY <1>1, DivBounds
<1>3. total * elapsed <= total * (duration - 1)
  BY ProductMonotone
<1>4. total * (duration - 1) = duration * total - total
  OBVIOUS
<1>5. duration * share \in Nat /\ duration * total \in Nat
  BY <1>2, ProductNat
<1> HIDE DEF share
<1>6. duration * share <= duration * total - total
  BY <1>1, <1>2, <1>3, <1>4, <1>5
<1>7. share <= total
  BY <1>2, <1>5, <1>6, FactorBound
<1>8. ASSUME total > 0 PROVE share < total
  <2>1. SUFFICES ASSUME share = total PROVE FALSE
    BY <1>2, <1>7
  <2> QED
    BY <2>1, <1>5, <1>6, <1>8
<1> QED
  BY <1>2, <1>7, <1>8 DEF share

(* vested_amount never leaves the range from zero to the total, whatever   *)
(* the order of the three times.                                           *)
THEOREM VestedBounds ==
  ASSUME NEW total \in Nat, NEW start \in Nat, NEW end \in Nat, NEW cliff \in Nat,
         NEW t \in Nat
  PROVE  VestedAmount(total, start, end, cliff, t) \in 0 .. total
<1>1. CASE t < cliff \/ t < start
  BY <1>1 DEF VestedAmount, Share
<1>2. CASE ~(t < cliff \/ t < start) /\ t >= end
  BY <1>2 DEF VestedAmount, Share
<1>3. CASE ~(t < cliff \/ t < start) /\ ~(t >= end)
  <2>1. t - start \in Nat /\ end - start \in Nat \ {0} /\ t - start < end - start
    BY <1>3
  <2>2. (total * (t - start)) \div (end - start) \in 0 .. total
    BY <2>1, ShareBounds
  <2> QED
    BY <1>3, <2>2 DEF VestedAmount, Share
<1> QED
  BY <1>1, <1>2, <1>3

(* Before the end something is always left to vest: a cancellation the     *)
(* code admits refunds at least one unit.                                  *)
THEOREM VestedBelowTotal ==
  ASSUME NEW total \in Nat \ {0}, NEW start \in Nat, NEW end \in Nat, NEW cliff \in Nat,
         NEW t \in Nat, t < end
  PROVE  VestedAmount(total, start, end, cliff, t) < total
<1>1. CASE t < cliff \/ t < start
  BY <1>1 DEF VestedAmount, Share
<1>2. CASE ~(t < cliff \/ t < start)
  <2>1. t - start \in Nat /\ end - start \in Nat \ {0} /\ t - start < end - start
    BY <1>2
  <2>2. (total * (t - start)) \div (end - start) < total
    BY <2>1, ShareBounds
  <2> QED
    BY <1>2, <2>2 DEF VestedAmount, Share
<1> QED
  BY <1>1, <1>2

(* vested_amount never decreases as time passes.                           *)
THEOREM VestedMonotone ==
  ASSUME NEW total \in Nat, NEW start \in Nat, NEW end \in Nat, NEW cliff \in Nat,
         NEW t \in Nat, NEW u \in Nat, t <= u
  PROVE  VestedAmount(total, start, end, cliff, t) <= VestedAmount(total, start, end, cliff, u)
<1> DEFINE V(x) == VestedAmount(total, start, end, cliff, x)
<1>1. V(t) \in 0 .. total /\ V(u) \in 0 .. total
  BY VestedBounds
<1>2. CASE t < cliff \/ t < start
  BY <1>1, <1>2 DEF VestedAmount, Share
<1>3. CASE u >= cliff /\ u >= start /\ u >= end
  BY <1>1, <1>3 DEF VestedAmount, Share
<1>4. CASE ~(t < cliff \/ t < start) /\ ~(u >= end)
  <2>1. t - start \in Nat /\ u - start \in Nat /\ end - start \in Nat \ {0} /\ t - start <= u - start
    BY <1>4
  <2>2. total * (t - start) \in Nat /\ total * (u - start) \in Nat
    BY <2>1, ProductNat
  <2>3. total * (t - start) <= total * (u - start)
    BY <2>1, ProductMonotone
  <2>4. (total * (t - start)) \div (end - start) <= (total * (u - start)) \div (end - start)
    BY <2>1, <2>2, <2>3, DivMonotone
  <2> QED
    BY <1>4, <2>4 DEF VestedAmount, Share
<1> QED
  BY <1>2, <1>3, <1>4

(* Inside the window the vested amount is the exact linear share rounded   *)
(* down, and nothing else.                                                 *)
THEOREM VestedIsFloor ==
  ASSUME NEW total \in Nat, NEW start \in Nat, NEW end \in Nat, NEW cliff \in Nat,
         NEW t \in Nat, start <= t, cliff <= t, t < end
  PROVE  LET v == VestedAmount(total, start, end, cliff, t)
         IN  /\ (end - start) * v <= total * (t - start)
             /\ total * (t - start) < (end - start) * (v + 1)
<1>1. t - start \in Nat /\ end - start \in Nat \ {0}
  OBVIOUS
<1>2. total * (t - start) \in Nat
  BY <1>1, ProductNat
<1> DEFINE v == (total * (t - start)) \div (end - start)
<1>3. v \in Nat /\ (end - start) * v <= total * (t - start)
      /\ total * (t - start) < (end - start) * v + (end - start)
  BY <1>1, <1>2, DivBounds
<1> HIDE DEF v
<1>4. (end - start) * (v + 1) = (end - start) * v + (end - start)
  BY <1>1, <1>3
<1>5. VestedAmount(total, start, end, cliff, t) = v
  BY DEF VestedAmount, Share, v
<1> QED
  BY <1>3, <1>4, <1>5
=============================================================================
