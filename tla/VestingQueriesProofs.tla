------------------------- MODULE VestingQueriesProofs -------------------------
(***************************************************************************)
(* The views of one stream for words of any size: nothing overflows and    *)
(* what they answer is exact, monotone and never more than was agreed.     *)
(***************************************************************************)
EXTENDS VestingQueries, VestingProofs

-----------------------------------------------------------------------------
(* More about products and quotients.                                      *)

(* A product is bounded by the bounds of its factors.                      *)
LEMMA ProductBelow ==
  ASSUME NEW a \in Nat, NEW b \in Nat, NEW m \in Nat \ {0}, NEW n \in Nat \ {0},
         a <= m - 1, b <= n - 1
  PROVE  a * b \in Nat /\ a * b < m * n
<1>1. a * b \in Nat /\ a * b <= a * (n - 1)
  BY ProductNat, ProductMonotone
<1>2. (n - 1) * a <= (n - 1) * (m - 1)
  BY ProductMonotone
<1>3. a * (n - 1) = (n - 1) * a /\ (n - 1) * (m - 1) = m * n - m - n + 1
  OBVIOUS
<1>4. m * n \in Nat
  BY ProductNat
<1> QED
  BY <1>1, <1>2, <1>3, <1>4

(* A positive factor can be taken off both sides.                          *)
LEMMA FactorCancels ==
  ASSUME NEW d \in Nat \ {0}, NEW a \in Nat, NEW b \in Nat, d * a <= d * b
  PROVE  a <= b
<1>1. d * a < d * b + d
  BY ProductNat
<1> QED
  BY <1>1, FactorBound

(* What fits a multiple of the divisor is at most the quotient.            *)
LEMMA QuotientGreatest ==
  ASSUME NEW n \in Nat, NEW d \in Nat \ {0}, NEW q \in Nat, d * q <= n
  PROVE  q <= n \div d
<1> DEFINE k == n \div d
<1>1. k \in Nat /\ n < d * k + d
  BY DivBounds
<1>2. d * q \in Nat /\ d * k \in Nat
  BY <1>1, ProductNat
<1> HIDE DEF k
<1>3. q <= k
  BY <1>1, <1>2, FactorBound
<1> QED
  BY <1>3 DEF k

(* A quotient below b, when the dividend is below b times the divisor.     *)
LEMMA QuotientBelow ==
  ASSUME NEW n \in Nat, NEW d \in Nat \ {0}, NEW b \in Nat, n < d * b
  PROVE  n \div d < b
<1> DEFINE k == n \div d
<1>1. k \in Nat /\ d * k <= n
  BY DivBounds
<1>2. d * b \in Nat /\ d * k \in Nat
  BY <1>1, ProductNat
<1> HIDE DEF k
<1>3. ASSUME b <= k PROVE FALSE
  <2>1. d * b <= d * k
    BY <1>1, <1>3, ProductMonotone
  <2> QED
    BY <1>1, <1>2, <2>1
<1>4. k < b
  BY <1>1, <1>3
<1> QED
  BY <1>4 DEF k

(* A share of a share is no more than the share of the whole: what is due  *)
(* of v over elapsed units out of d, when v itself is no more than what is *)
(* due of total over d units out of duration.                              *)
LEMMA ShareOfShare ==
  ASSUME NEW total \in Nat, NEW v \in Nat, NEW elapsed \in Nat,
         NEW d \in Nat \ {0}, NEW duration \in Nat \ {0},
         duration * v <= total * d
  PROVE  Share(v, elapsed, d) <= Share(total, elapsed, duration)
<1> DEFINE q == (v * elapsed) \div d
<1>1. v * elapsed \in Nat /\ total * elapsed \in Nat /\ duration * v \in Nat /\ total * d \in Nat
  BY ProductNat
<1>2. q \in Nat /\ d * q <= v * elapsed
  BY <1>1, DivBounds
<1> HIDE DEF q
<1>3. d * q \in Nat /\ duration * q \in Nat
  BY <1>2, ProductNat
<1>4. duration * (d * q) <= duration * (v * elapsed)
  BY <1>1, <1>2, <1>3, ProductMonotone
<1>5. elapsed * (duration * v) <= elapsed * (total * d)
  BY <1>1, ProductMonotone
<1>6. /\ duration * (d * q) = d * (duration * q)
      /\ duration * (v * elapsed) = elapsed * (duration * v)
      /\ elapsed * (total * d) = d * (total * elapsed)
  BY <1>2
<1>7. /\ duration * (d * q) \in Nat /\ duration * (v * elapsed) \in Nat
      /\ d * (total * elapsed) \in Nat
  BY <1>1, <1>3, ProductNat
<1>8. d * (duration * q) <= d * (total * elapsed)
  BY <1>4, <1>5, <1>6, <1>7
<1>9. duration * q <= total * elapsed
  BY <1>1, <1>3, <1>8, FactorCancels
<1>10. q <= (total * elapsed) \div duration
  BY <1>1, <1>2, <1>9, QuotientGreatest
<1> QED
  BY <1>10 DEF Share, q

-----------------------------------------------------------------------------
(* The records there are: the one that was created, or what its only       *)
(* cancellation, at some time before its end, made of it.                  *)

CancelledAt(c) ==
  /\ c <= now /\ c < original.end_time
  /\ stream = AfterCancel(original, c)

FromOriginal ==
  /\ original \in CreatedStreams
  /\ now \in Timestamps
  /\ stream = original \/ \E c \in Timestamps : CancelledAt(c)

(* The limits of the words.                                                *)
LEMMA Words ==
  /\ AmountWord \in Nat \ {0} /\ TimeWord \in Nat \ {0}
  /\ MaxAmount = AmountWord - 1 /\ MaxTimestamp = TimeWord - 1
  /\ Timestamps \subseteq Nat /\ \A t \in Nat : t \in Timestamps <=> t <= TimeWord - 1
  /\ Scale \in Nat \ {0} /\ Scale <= TimeWord - 1
  BY WordAssumption DEF MaxAmount, MaxTimestamp, Timestamps

(* What create_stream has checked.                                         *)
LEMMA Created ==
  ASSUME NEW s \in CreatedStreams
  PROVE  /\ s \in [total_amount : 1 .. MaxAmount, withdrawn : {0}, start_time : Timestamps,
                   end_time : Timestamps, cliff_time : Timestamps, cancelled : {FALSE}]
         /\ s.total_amount \in Nat \ {0} /\ s.total_amount <= MaxAmount
         /\ s.start_time \in Timestamps /\ s.end_time \in Timestamps /\ s.cliff_time \in Timestamps
         /\ s.start_time \in Nat /\ s.end_time \in Nat /\ s.cliff_time \in Nat
         /\ s.start_time < s.end_time /\ s.start_time <= s.cliff_time /\ s.cliff_time <= s.end_time
         /\ s.cancelled = FALSE
<1>1. /\ s \in [total_amount : 1 .. MaxAmount, withdrawn : {0}, start_time : Timestamps,
                end_time : Timestamps, cliff_time : Timestamps, cancelled : {FALSE}]
      /\ s.start_time < s.end_time /\ s.start_time <= s.cliff_time /\ s.cliff_time <= s.end_time
  BY DEF CreatedStreams
<1>2. MaxAmount \in Int /\ Timestamps \subseteq Nat
  BY Words
<1>3. /\ s.total_amount \in 1 .. MaxAmount /\ s.cancelled = FALSE
      /\ s.start_time \in Timestamps /\ s.end_time \in Timestamps /\ s.cliff_time \in Timestamps
  BY <1>1
<1>4. s.total_amount \in Nat \ {0} /\ s.total_amount <= MaxAmount
  BY <1>2, <1>3
<1> QED
  BY <1>1, <1>2, <1>3, <1>4

(* What vests of a created stream.                                         *)
LEMMA OriginalVests ==
  ASSUME NEW s \in CreatedStreams, NEW t \in Timestamps
  PROVE  /\ VestedAt(s, t) \in 0 .. s.total_amount
         /\ t < s.end_time => VestedAt(s, t) < s.total_amount
         /\ \A u \in Timestamps : t <= u => VestedAt(s, t) <= VestedAt(s, u)
<1>1. t \in Nat
  BY Words
<1>2. VestedAt(s, t) \in 0 .. s.total_amount
  BY <1>1, Created, VestedBounds DEF VestedAt
<1>3. t < s.end_time => VestedAt(s, t) < s.total_amount
  BY <1>1, Created, VestedBelowTotal DEF VestedAt
<1>4. ASSUME NEW u \in Timestamps, t <= u PROVE VestedAt(s, t) <= VestedAt(s, u)
  BY <1>1, <1>4, Words, Created, VestedMonotone DEF VestedAt
<1> QED
  BY <1>2, <1>3, <1>4

(* What a cancellation leaves of the record.                               *)
LEMMA CancelledRecord ==
  ASSUME NEW s \in CreatedStreams, NEW c \in Timestamps, c < s.end_time
  PROVE  LET k == AfterCancel(s, c)
         IN  /\ DOMAIN k = DOMAIN s
             /\ k.total_amount = VestedAt(s, c)
             /\ k.start_time = Earlier(s.start_time, c) /\ k.start_time \in Timestamps
             /\ k.cliff_time = Earlier(s.cliff_time, c) /\ k.cliff_time \in Timestamps
             /\ k.start_time <= c /\ k.cliff_time <= c
             /\ k.end_time = c /\ k.cancelled = TRUE
<1>1. /\ Earlier(s.start_time, c) \in Timestamps /\ Earlier(s.cliff_time, c) \in Timestamps
      /\ Earlier(s.start_time, c) <= c /\ Earlier(s.cliff_time, c) <= c
  <2>1. c \in Nat /\ s.start_time \in Nat /\ s.cliff_time \in Nat
    BY Words, Created
  <2>2. s.start_time \in Timestamps /\ s.cliff_time \in Timestamps
    BY Created
  <2> QED
    BY <2>1, <2>2 DEF Earlier
<1>2. s \in [total_amount : 1 .. MaxAmount, withdrawn : {0}, start_time : Timestamps,
             end_time : Timestamps, cliff_time : Timestamps, cancelled : {FALSE}]
  BY Created
<1> QED
  BY <1>1, <1>2 DEF AfterCancel

(* Whichever record it is, it is in order and within the words.            *)
LEMMA StreamInOrder ==
  ASSUME FromOriginal
  PROVE  /\ stream.total_amount \in Nat /\ stream.total_amount <= MaxAmount
         /\ stream.start_time \in Timestamps /\ stream.end_time \in Timestamps
         /\ stream.cliff_time \in Timestamps
         /\ stream.start_time \in Nat /\ stream.end_time \in Nat /\ stream.cliff_time \in Nat
         /\ DOMAIN stream = DOMAIN original /\ stream.cancelled \in BOOLEAN
         /\ stream.cancelled <=> stream # original
         /\ ~stream.cancelled => stream.total_amount > 0
<1>1. original \in CreatedStreams
  BY DEF FromOriginal
<1>2. CASE stream = original
  <2>1. /\ original.total_amount \in Nat \ {0} /\ original.total_amount <= MaxAmount
        /\ original.start_time \in Timestamps /\ original.end_time \in Timestamps
        /\ original.cliff_time \in Timestamps /\ original.cancelled = FALSE
    BY <1>1, Created
  <2>2. Timestamps \subseteq Nat
    BY Words
  <2>3. original.start_time \in Nat /\ original.end_time \in Nat /\ original.cliff_time \in Nat
    BY <2>1, <2>2
  <2>4. original.total_amount \in Nat /\ original.total_amount > 0
    BY <2>1
  <2> QED
    BY <1>2, <2>1, <2>3, <2>4
<1>3. ASSUME NEW c \in Timestamps, CancelledAt(c)
      PROVE  /\ stream.total_amount \in Nat /\ stream.total_amount <= MaxAmount
             /\ stream.start_time \in Timestamps /\ stream.end_time \in Timestamps
             /\ stream.cliff_time \in Timestamps
             /\ DOMAIN stream = DOMAIN original /\ stream.cancelled = TRUE
             /\ stream # original
  <2>1. VestedAt(original, c) \in 0 .. original.total_amount
    BY <1>1, OriginalVests
  <2>2. original.cancelled = FALSE /\ original.total_amount \in Nat
        /\ original.total_amount <= MaxAmount
    BY <1>1, Created
  <2>3. MaxAmount \in Int
    BY Words
  <2>4. c < original.end_time /\ stream = AfterCancel(original, c)
    BY <1>3 DEF CancelledAt
  <2>5. /\ stream.total_amount = VestedAt(original, c)
        /\ stream.start_time \in Timestamps /\ stream.end_time = c
        /\ stream.cliff_time \in Timestamps
        /\ DOMAIN stream = DOMAIN original /\ stream.cancelled = TRUE
    BY <1>1, <2>4, CancelledRecord
  <2>6. stream.total_amount \in Nat /\ stream.total_amount <= MaxAmount
    BY <2>1, <2>2, <2>3, <2>5
  <2> QED
    BY <2>2, <2>5, <2>6
<1>4. stream = original \/ \E c \in Timestamps : CancelledAt(c)
  BY DEF FromOriginal
<1> QED
  BY <1>2, <1>3, <1>4, Words

(* A stream is only ever what its creation and one cancellation made it.   *)
LEMMA NextFromOriginal ==
  ASSUME FromOriginal, [Next]_vars
  PROVE  FromOriginal'
<1>1. original \in CreatedStreams /\ now \in Timestamps /\ now \in Nat
  BY Words DEF FromOriginal
<1>2. CASE Advance
  <2>1. /\ now' \in Timestamps /\ now <= now' /\ UNCHANGED <<original, stream>>
    BY <1>1, <1>2, Words DEF Advance
  <2>2. ASSUME NEW c \in Timestamps, CancelledAt(c) PROVE CancelledAt(c)'
    BY <1>1, <2>1, <2>2, Words DEF CancelledAt
  <2> QED
    BY <2>1, <2>2 DEF FromOriginal
<1>3. CASE Cancel
  <2>1. stream = original
    BY <1>3, StreamInOrder DEF Cancel
  <2>2. CancelledAt(now)'
    BY <1>1, <1>3, <2>1 DEF Cancel, CancelledAt
  <2> QED
    BY <1>1, <1>3, <2>2 DEF Cancel, FromOriginal
<1>4. CASE UNCHANGED vars
  BY <1>4 DEF vars, FromOriginal, CancelledAt
<1> QED
  BY <1>2, <1>3, <1>4 DEF Next

(* FromOriginal, which the properties below follow from, is inductive.     *)
THEOREM AlwaysFromOriginal == Spec => []FromOriginal
<1>1. Init => FromOriginal
  BY WordAssumption DEF Init, FromOriginal, Timestamps, MaxTimestamp
<1>2. FromOriginal /\ [Next]_vars => FromOriginal'
  BY NextFromOriginal
<1> QED
  BY <1>1, <1>2, PTL DEF Spec

(* The record stays within the words of the code, whatever is asked and    *)
(* whenever it is cancelled.                                               *)
THEOREM QueriesTyped == Spec => []TypeOK
<1>1. FromOriginal => TypeOK
  BY StreamInOrder DEF FromOriginal, TypeOK
<1> QED
  BY <1>1, AlwaysFromOriginal, PTL

-----------------------------------------------------------------------------
(* What vests of the record as it is, in any state.                        *)
LEMMA StreamVests ==
  ASSUME FromOriginal, NEW t \in Timestamps
  PROVE  /\ VestedAt(stream, t) \in 0 .. stream.total_amount
         /\ VestedAt(stream, t) \in Nat
         /\ ~stream.cancelled /\ t < stream.end_time => VestedAt(stream, t) < stream.total_amount
         /\ \A u \in Timestamps : t <= u => VestedAt(stream, t) <= VestedAt(stream, u)
<1>1. /\ stream.total_amount \in Nat /\ stream.start_time \in Nat
      /\ stream.end_time \in Nat /\ stream.cliff_time \in Nat
      /\ ~stream.cancelled => stream.total_amount > 0
  BY StreamInOrder
<1>2. t \in Nat
  BY Words
<1>3. VestedAt(stream, t) \in 0 .. stream.total_amount
  BY <1>1, <1>2, VestedBounds DEF VestedAt
<1>4. ~stream.cancelled /\ t < stream.end_time => VestedAt(stream, t) < stream.total_amount
  BY <1>1, <1>2, VestedBelowTotal DEF VestedAt
<1>5. ASSUME NEW u \in Timestamps, t <= u PROVE VestedAt(stream, t) <= VestedAt(stream, u)
  BY <1>1, <1>2, <1>5, Words, VestedMonotone DEF VestedAt
<1> QED
  BY <1>1, <1>3, <1>4, <1>5

(* No intermediate product of the views leaves the wide word: the largest  *)
(* amount times the longest time is still below its limit.                 *)
THEOREM NothingOverflows == Spec => []NoOverflow
<1>1. FromOriginal => NoOverflow
  <2> SUFFICES ASSUME FromOriginal, NEW t \in Timestamps
               PROVE  /\ stream.start_time <= t /\ t < stream.end_time
                           => FitsWide(stream.total_amount * (t - stream.start_time))
                      /\ FitsWide(VestedAt(stream, t) * Scale)
    BY DEF NoOverflow
  <2>1. /\ AmountWord \in Nat \ {0} /\ TimeWord \in Nat \ {0} /\ MaxAmount = AmountWord - 1
        /\ t \in Nat /\ t <= TimeWord - 1 /\ Scale \in Nat /\ Scale <= TimeWord - 1
    BY Words
  <2>2. /\ stream.total_amount \in Nat /\ stream.total_amount <= AmountWord - 1
        /\ stream.start_time \in Nat /\ VestedAt(stream, t) \in 0 .. stream.total_amount
    BY <2>1, StreamInOrder, StreamVests
  <2>3. ASSUME NEW a \in Nat, NEW b \in Nat, a <= AmountWord - 1, b <= TimeWord - 1
        PROVE  FitsWide(a * b)
    <3>1. a * b \in Nat /\ a * b < AmountWord * TimeWord
      BY <2>1, <2>3, ProductBelow
    <3>2. AmountWord * TimeWord \in Nat
      BY <2>1, ProductNat
    <3> QED
      BY <3>1, <3>2 DEF FitsWide
  <2>4. ASSUME stream.start_time <= t
        PROVE  FitsWide(stream.total_amount * (t - stream.start_time))
    <3>1. t - stream.start_time \in Nat /\ t - stream.start_time <= TimeWord - 1
      BY <2>1, <2>2, <2>4
    <3> QED
      BY <2>2, <2>3, <3>1
  <2>5. FitsWide(VestedAt(stream, t) * Scale)
    <3>1. VestedAt(stream, t) \in Nat /\ VestedAt(stream, t) <= AmountWord - 1
      BY <2>1, <2>2
    <3> QED
      BY <2>1, <2>3, <3>1
  <2> QED
    BY <2>4, <2>5
<1> QED
  BY <1>1, AlwaysFromOriginal, PTL

(* vested_at answers the exact linear share, rounded down, also of a       *)
(* record that a cancellation rewrote.                                     *)
THEOREM SharesAreExact == Spec => []ExactFloor
<1>1. FromOriginal => ExactFloor
  <2> SUFFICES ASSUME FromOriginal, NEW t \in Timestamps,
                      stream.cliff_time <= t, stream.start_time <= t, t < stream.end_time
               PROVE  LET elapsed  == t - stream.start_time
                          duration == stream.end_time - stream.start_time
                          Covers(v) == v * duration <= stream.total_amount * elapsed
                          v == VestedAt(stream, t)
                      IN  v \in 0 .. stream.total_amount /\ Covers(v) /\ ~Covers(v + 1)
    BY DEF ExactFloor
  <2>1. /\ stream.total_amount \in Nat /\ stream.start_time \in Nat
        /\ stream.end_time \in Nat /\ stream.cliff_time \in Nat /\ t \in Nat
    BY StreamInOrder, Words
  <2> DEFINE v == VestedAt(stream, t)
             duration == stream.end_time - stream.start_time
             due == stream.total_amount * (t - stream.start_time)
  <2>2. duration * v <= due /\ due < duration * (v + 1)
    BY <2>1, VestedIsFloor DEF VestedAt
  <2>3. v \in 0 .. stream.total_amount /\ v \in Nat
    BY StreamVests
  <2>4. duration \in Nat /\ due \in Nat
    BY <2>1, ProductNat
  <2> HIDE DEF v, duration, due
  <2>5. duration * v = v * duration /\ duration * (v + 1) = (v + 1) * duration
    BY <2>3, <2>4
  <2>6. v * duration <= due /\ ~((v + 1) * duration <= due)
    BY <2>2, <2>3, <2>4, <2>5
  <2> QED
    BY <2>3, <2>6 DEF v, duration, due
<1> QED
  BY <1>1, AlwaysFromOriginal, PTL

(* A later question never gets a smaller answer from vested_at.            *)
THEOREM ProjectionsAreMonotone == Spec => []ProjectionMonotone
<1>1. FromOriginal => ProjectionMonotone
  <2> SUFFICES ASSUME FromOriginal, NEW t \in Timestamps \ {MaxTimestamp}
               PROVE  VestedAt(stream, t) <= VestedAt(stream, t + 1)
    BY DEF ProjectionMonotone
  <2>1. t + 1 \in Timestamps /\ t <= t + 1
    BY Words
  <2> QED
    BY <2>1, StreamVests
<1> QED
  BY <1>1, AlwaysFromOriginal, PTL

(* A cancellation the code admits refunds at least one unit.               *)
THEOREM CancellationsRefund == Spec => []CancelAlwaysRefunds
<1>1. FromOriginal => CancelAlwaysRefunds
  <2> SUFFICES ASSUME FromOriginal, ~stream.cancelled, NEW t \in Timestamps, t < stream.end_time
               PROVE  SettlementAt(stream, t).refund >= 1
    BY DEF CancelAlwaysRefunds
  <2>1. VestedAt(stream, t) \in Nat /\ VestedAt(stream, t) < stream.total_amount
    BY StreamVests
  <2>2. stream.total_amount \in Nat
    BY StreamInOrder
  <2> QED
    BY <2>1, <2>2 DEF SettlementAt, Settlement
<1> QED
  BY <1>1, AlwaysFromOriginal, PTL

(* status says what the amounts say, at every time and after a rewrite.    *)
THEOREM StatusIsHonest == Spec => []StatusMatchesAmounts
<1>1. FromOriginal => StatusMatchesAmounts
  <2> SUFFICES ASSUME FromOriginal, NEW t \in Timestamps
               PROVE  LET st == StatusAt(stream, t)
                      IN  /\ st = "Pending"   => VestedAt(stream, t) = 0
                          /\ st = "Streaming" => LockedAt(stream, t) > 0
                          /\ st = "Completed" => LockedAt(stream, t) = 0
                          /\ st = "Cancelled" <=> stream.cancelled
    BY DEF StatusMatchesAmounts
  <2>1. /\ stream.total_amount \in Nat /\ stream.start_time \in Nat /\ stream.end_time \in Nat
        /\ stream.cliff_time \in Nat /\ stream.cancelled \in BOOLEAN /\ t \in Nat
    BY StreamInOrder, Words
  <2>2. VestedAt(stream, t) \in Nat /\ VestedAt(stream, t) <= stream.total_amount
    BY <2>1, StreamVests
  <2>3. CASE stream.cancelled
    BY <2>3 DEF StatusAt
  <2>4. CASE ~stream.cancelled /\ t < stream.start_time
    BY <2>4 DEF StatusAt, VestedAt, VestedAmount
  <2>5. CASE ~stream.cancelled /\ ~(t < stream.start_time) /\ t < stream.end_time
    <3>1. VestedAt(stream, t) < stream.total_amount
      BY <2>5, StreamVests
    <3>2. LockedAt(stream, t) > 0
      BY <2>1, <2>2, <3>1 DEF LockedAt
    <3> QED
      BY <2>1, <2>5, <3>2 DEF StatusAt, AtEnd
  <2>6. CASE ~stream.cancelled /\ ~(t < stream.start_time) /\ ~(t < stream.end_time)
    <3>1. VestedAt(stream, t) = stream.total_amount \/ t < stream.cliff_time
      BY <2>1, <2>6 DEF VestedAt, VestedAmount
    <3>2. ~(t < stream.cliff_time)
      <4>1. stream = original /\ original \in CreatedStreams
        BY <2>6, StreamInOrder DEF FromOriginal
      <4>2. stream.cliff_time <= stream.end_time
        BY <4>1, Created
      <4> QED
        BY <2>1, <2>6, <4>2
    <3>3. LockedAt(stream, t) = 0
      BY <2>1, <2>2, <3>1, <3>2 DEF LockedAt
    <3> QED
      BY <2>1, <2>6, <3>3 DEF StatusAt, AtEnd
  <2> QED
    BY <2>3, <2>4, <2>5, <2>6
<1> QED
  BY <1>1, AlwaysFromOriginal, PTL

-----------------------------------------------------------------------------
(* What the rewrite of a cancellation does to questions about the past.    *)

(* Before the cancellation the rewritten record answers with a share of    *)
(* what had vested by then, which is a share of the total.                 *)
LEMMA RewrittenPast ==
  ASSUME NEW s \in CreatedStreams, NEW c \in Timestamps, c < s.end_time,
         NEW t \in Timestamps, t < c
  PROVE  VestedAt(AfterCancel(s, c), t) <= VestedAt(s, t)
<1> DEFINE k == AfterCancel(s, c)
           v == VestedAt(s, c)
<1>1. /\ s.total_amount \in Nat /\ s.start_time \in Nat /\ s.end_time \in Nat
      /\ s.cliff_time \in Nat /\ c \in Nat /\ t \in Nat
      /\ s.start_time < s.end_time /\ s.start_time <= s.cliff_time /\ s.cliff_time <= s.end_time
  BY Created, Words
<1>2. /\ k.total_amount = v /\ k.end_time = c
      /\ k.start_time = Earlier(s.start_time, c) /\ k.cliff_time = Earlier(s.cliff_time, c)
  BY CancelledRecord
<1>3. v \in 0 .. s.total_amount /\ VestedAt(s, t) \in 0 .. s.total_amount
  BY OriginalVests
<1>4. CASE t < s.cliff_time
  <2>1. t < k.cliff_time
    BY <1>1, <1>2, <1>4 DEF Earlier
  <2>2. VestedAt(k, t) = 0
    BY <2>1 DEF VestedAt, VestedAmount
  <2> QED
    BY <1>1, <1>3, <2>2
<1>5. CASE ~(t < s.cliff_time)
  <2>1. s.start_time <= t /\ s.cliff_time <= t /\ s.start_time <= c /\ s.cliff_time <= c
    BY <1>1, <1>5
  <2>2. k.start_time = s.start_time /\ k.cliff_time = s.cliff_time
    BY <1>2, <2>1 DEF Earlier
  <2>3. /\ ~(t < k.cliff_time \/ t < k.start_time) /\ ~(t >= k.end_time)
        /\ ~(t < s.cliff_time \/ t < s.start_time) /\ ~(t >= s.end_time)
    BY <1>1, <1>2, <2>1, <2>2
  <2>4. VestedAt(k, t) = Share(v, t - s.start_time, c - s.start_time)
    BY <1>2, <2>2, <2>3 DEF VestedAt, VestedAmount
  <2>5. VestedAt(s, t) = Share(s.total_amount, t - s.start_time, s.end_time - s.start_time)
    BY <2>3 DEF VestedAt, VestedAmount
  <2>6. (s.end_time - s.start_time) * v <= s.total_amount * (c - s.start_time)
    BY <1>1, <2>1, VestedIsFloor DEF VestedAt
  <2>7. /\ t - s.start_time \in Nat /\ c - s.start_time \in Nat \ {0}
        /\ s.end_time - s.start_time \in Nat \ {0}
    BY <1>1, <2>1
  <2>8. v \in Nat
    BY <1>1, <1>3
  <2> DEFINE elapsed == t - s.start_time
             d == c - s.start_time
             duration == s.end_time - s.start_time
             total == s.total_amount
  <2>9. /\ total \in Nat /\ elapsed \in Nat /\ d \in Nat \ {0} /\ duration \in Nat \ {0}
        /\ duration * v <= total * d
        /\ VestedAt(k, t) = Share(v, elapsed, d) /\ VestedAt(s, t) = Share(total, elapsed, duration)
    BY <1>1, <2>4, <2>5, <2>6, <2>7
  <2> HIDE DEF k, v, elapsed, d, duration, total
  <2>10. Share(v, elapsed, d) <= Share(total, elapsed, duration)
    BY <2>8, <2>9, ShareOfShare
  <2> QED
    BY <2>9, <2>10 DEF k
<1> QED
  BY <1>4, <1>5

(* From the cancellation on it answers with all that had vested by then.   *)
LEMMA RewrittenFuture ==
  ASSUME NEW s \in CreatedStreams, NEW c \in Timestamps, c < s.end_time,
         NEW t \in Timestamps, c <= t
  PROVE  VestedAt(AfterCancel(s, c), t) = VestedAt(s, c)
<1> DEFINE k == AfterCancel(s, c)
<1>1. /\ k.total_amount = VestedAt(s, c) /\ k.end_time = c
      /\ k.start_time <= c /\ k.cliff_time <= c
      /\ k.start_time \in Timestamps /\ k.cliff_time \in Timestamps
  BY CancelledRecord
<1> HIDE DEF k
<1>2. k.start_time \in Nat /\ k.cliff_time \in Nat /\ c \in Nat /\ t \in Nat
  BY <1>1, Words
<1>3. ~(t < k.cliff_time \/ t < k.start_time) /\ t >= k.end_time
  BY <1>1, <1>2
<1>4. VestedAt(k, t) = VestedAt(s, c)
  BY <1>1, <1>3 DEF VestedAt, VestedAmount
<1> QED
  BY <1>4 DEF k

(* Asked about any timestamp, a cancelled record never claims more than    *)
(* the agreed schedule did, although its share is rounded down twice and   *)
(* over a shorter window.                                                  *)
THEOREM RewritesNeverOverstate == Spec => []RewriteNeverOverstates
<1>1. FromOriginal => RewriteNeverOverstates
  <2> SUFFICES ASSUME FromOriginal, NEW t \in Timestamps
               PROVE  VestedAt(stream, t) <= VestedAt(original, t)
    BY DEF RewriteNeverOverstates
  <2>1. original \in CreatedStreams /\ original.total_amount \in Nat /\ Timestamps \subseteq Nat
    BY Created, Words DEF FromOriginal
  <2>2. VestedAt(original, t) \in 0 .. original.total_amount
    BY <2>1, OriginalVests
  <2>3. CASE stream = original
    BY <2>1, <2>2, <2>3
  <2>4. ASSUME NEW c \in Timestamps, CancelledAt(c)
        PROVE  VestedAt(stream, t) <= VestedAt(original, t)
    <3>1. c < original.end_time /\ stream = AfterCancel(original, c)
      BY <2>4 DEF CancelledAt
    <3>2. CASE t < c
      BY <2>1, <3>1, <3>2, RewrittenPast
    <3>3. CASE c <= t
      <4>1. VestedAt(stream, t) = VestedAt(original, c)
        BY <2>1, <3>1, <3>3, RewrittenFuture
      <4>2. VestedAt(original, c) <= VestedAt(original, t)
        BY <2>1, <3>3, OriginalVests
      <4> QED
        BY <4>1, <4>2
    <3> QED
      BY <2>1, <3>2, <3>3
  <2> QED
    BY <2>3, <2>4 DEF FromOriginal
<1> QED
  BY <1>1, AlwaysFromOriginal, PTL

(* A cancelled stream answers every later question with its whole total,   *)
(* which is what the agreed schedule had granted at the cancellation.      *)
THEOREM CancelledAreFrozen == Spec => []FrozenOnceCancelled
<1>1. FromOriginal => FrozenOnceCancelled
  <2> SUFFICES ASSUME FromOriginal, stream.cancelled, NEW t \in Timestamps, t >= now
               PROVE  /\ VestedAt(stream, t) = stream.total_amount
                      /\ LockedAt(stream, t) = 0
                      /\ stream.total_amount = VestedAt(original, stream.end_time)
    BY DEF FrozenOnceCancelled
  <2>1. original \in CreatedStreams /\ stream # original /\ stream.total_amount \in Nat
    BY StreamInOrder DEF FromOriginal
  <2>2. PICK c \in Timestamps : CancelledAt(c)
    BY <2>1 DEF FromOriginal
  <2>3. c < original.end_time /\ stream = AfterCancel(original, c)
    BY <2>2 DEF CancelledAt
  <2>4. c <= t
    BY <2>2, Words DEF CancelledAt, FromOriginal
  <2>5. stream.total_amount = VestedAt(original, c) /\ stream.end_time = c
    BY <2>1, <2>3, CancelledRecord
  <2>6. VestedAt(stream, t) = stream.total_amount
    BY <2>1, <2>3, <2>4, <2>5, RewrittenFuture
  <2>7. LockedAt(stream, t) = 0
    BY <2>1, <2>6 DEF LockedAt
  <2> QED
    BY <2>5, <2>6, <2>7
<1> QED
  BY <1>1, AlwaysFromOriginal, PTL

(* progress stays on its scale, and reports all of it when, and only when, *)
(* everything has vested: rounding down never makes 100% of less.          *)
THEOREM ProgressNeverLies == Spec => []ProgressIsHonest
<1>1. FromOriginal => ProgressIsHonest
  <2> SUFFICES ASSUME FromOriginal, NEW t \in Timestamps
               PROVE  LET p == ProgressAt(stream, t, Scale)
                      IN  /\ p \in 0 .. Scale
                          /\ (p = Scale) <=> (VestedAt(stream, t) = stream.total_amount)
    BY DEF ProgressIsHonest
  <2> DEFINE total == stream.total_amount
             v == VestedAt(stream, t)
             p == (v * Scale) \div total
  <2>1. total \in Nat /\ v \in 0 .. total /\ v \in Nat /\ Scale \in Nat \ {0}
    BY StreamInOrder, StreamVests, Words
  <2>2. CASE total = 0
    BY <2>1, <2>2 DEF ProgressAt
  <2>3. CASE total # 0
    <3>1. ProgressAt(stream, t, Scale) = IF p < 0 THEN 0 ELSE IF p > Scale THEN Scale ELSE p
      BY <2>3 DEF ProgressAt
    <3> HIDE DEF total, v
    <3>2. v * Scale \in Nat /\ total \in Nat \ {0} /\ total * Scale \in Nat
      BY <2>1, <2>3, ProductNat
    <3>3. p \in Nat /\ total * p <= v * Scale /\ v * Scale < total * p + total
      BY <3>2, DivBounds
    <3>4. CASE v = total
      <4>1. Scale <= p
        BY <2>1, <3>2, <3>4, QuotientGreatest
      <4>2. p <= Scale
        <5> HIDE DEF p
        <5>1. total * p < total * Scale + total
          BY <3>2, <3>3, <3>4, ProductNat
        <5> QED
          BY <2>1, <3>2, <3>3, <5>1, FactorBound
      <4> QED
        BY <2>1, <3>1, <3>3, <3>4, <4>1, <4>2 DEF v, total
    <3>5. CASE v # total
      <4>1. v <= total - 1
        BY <2>1, <3>5
      <4>2. Scale * v <= Scale * (total - 1)
        BY <2>1, <3>2, <4>1, ProductMonotone
      <4>3. Scale * v = v * Scale /\ Scale * (total - 1) = total * Scale - Scale
        BY <2>1
      <4>4. v * Scale < total * Scale
        BY <2>1, <3>2, <4>2, <4>3
      <4>5. p < Scale
        BY <2>1, <3>2, <4>4, QuotientBelow
      <4> QED
        BY <2>1, <3>1, <3>3, <3>5, <4>5 DEF v, total
    <3> QED
      BY <3>4, <3>5
  <2> QED
    BY <2>2, <2>3
<1> QED
  BY <1>1, AlwaysFromOriginal, PTL
=============================================================================
