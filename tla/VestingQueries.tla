---------------------------- MODULE VestingQueries ----------------------------
(***************************************************************************)
(* One stream, in the code's fixed-width arithmetic at any word size:      *)
(* amounts are signed words (i64::MAX caps them), times unsigned words     *)
(* (u64), and products are formed in a signed word of both widths together *)
(* (i128).  A word is given by how many naturals it can hold.  The ledger  *)
(* clock advances, the sender may cancel once, and at every point          *)
(* vested_at, locked, progress, status and cancel_preview may be asked     *)
(* about any timestamp.                                                    *)
(***************************************************************************)
EXTENDS Vesting

CONSTANTS
  AmountWord,   \* the naturals an i64 can hold: 2^63
  TimeWord,     \* the naturals a u64 can hold: 2^64
  Scale         \* BPS_SCALE

ASSUME WordAssumption ==
  /\ AmountWord \in Nat \ {0}
  /\ TimeWord \in Nat \ {0}
  /\ Scale \in 1 .. TimeWord - 1

(* A mistake: the cap of the unsigned word.                                *)
MaxUnsigned == 2 * AmountWord - 1

MaxAmount    == AmountWord - 1
MaxTimestamp == TimeWord - 1
Timestamps   == 0 .. MaxTimestamp

(* What an i128 can hold, 2^127 = 2^63 * 2^64; overflow checks abort the   *)
(* call on anything else.                                                  *)
FitsWide(x) == -(AmountWord * TimeWord) <= x /\ x < AmountWord * TimeWord

VARIABLES
  original,   \* the record as create_stream stored it
  stream,     \* the record as it is now
  now         \* ledger timestamp

vars == <<original, stream, now>>

(* The records create_stream accepts.                                      *)
CreatedStreams ==
  { s \in [total_amount : 1 .. MaxAmount, withdrawn : {0}, start_time : Timestamps,
           end_time : Timestamps, cliff_time : Timestamps, cancelled : {FALSE}] :
      /\ s.start_time < s.end_time
      /\ s.start_time <= s.cliff_time
      /\ s.cliff_time <= s.end_time }

TypeOK ==
  /\ original \in CreatedStreams
  /\ now \in Timestamps
  /\ DOMAIN stream = DOMAIN original
  /\ stream.total_amount \in 0 .. MaxAmount
  /\ {stream.start_time, stream.cliff_time, stream.end_time} \subseteq Timestamps
  /\ stream.cancelled \in BOOLEAN

Init ==
  /\ original \in CreatedStreams
  /\ stream = original
  /\ now = 0

Advance ==
  /\ now < MaxTimestamp
  /\ now' = now + 1
  /\ UNCHANGED <<original, stream>>

Cancel ==
  /\ ~stream.cancelled
  /\ now < stream.end_time
  /\ stream' = AfterCancel(stream, now)
  /\ UNCHANGED <<original, now>>

Next == Advance \/ Cancel

Spec == Init /\ [][Next]_vars

-----------------------------------------------------------------------------
(* Every intermediate product, of the vesting formula and of progress,     *)
(* fits the wide word: the checked arithmetic of the code never aborts.    *)
NoOverflow ==
  \A t \in Timestamps :
    /\ stream.start_time <= t /\ t < stream.end_time
         => FitsWide(stream.total_amount * (t - stream.start_time))
    /\ FitsWide(VestedAt(stream, t) * Scale)

(* The vested amount is the exact linear share rounded down, and nothing   *)
(* else: the largest v with v * duration <= total * elapsed.               *)
ExactFloor ==
  \A t \in Timestamps :
    /\ stream.cliff_time <= t /\ stream.start_time <= t /\ t < stream.end_time
    => LET elapsed  == t - stream.start_time
           duration == stream.end_time - stream.start_time
           Covers(v) == v * duration <= stream.total_amount * elapsed
           v == VestedAt(stream, t)
       IN  v \in 0 .. stream.total_amount /\ Covers(v) /\ ~Covers(v + 1)

(* Projections are monotone in the timestamp, also over a record that a    *)
(* cancellation rewrote: a later question never gets a smaller answer.     *)
ProjectionMonotone ==
  \A t \in Timestamps \ {MaxTimestamp} : VestedAt(stream, t) <= VestedAt(stream, t + 1)

(* Cancelling rewrites the schedule, and with it what vested_at answers    *)
(* about the past, twice rounded.  It never answers more than the schedule *)
(* the parties agreed on did, at any timestamp, past or future.            *)
RewriteNeverOverstates ==
  \A t \in Timestamps : VestedAt(stream, t) <= VestedAt(original, t)

(* A cancelled stream is frozen: from the cancellation on, every timestamp *)
(* gives the whole remaining total, nothing is locked and the share the    *)
(* original schedule had granted when it was cancelled is what is left.    *)
FrozenOnceCancelled ==
  stream.cancelled =>
    \A t \in Timestamps : t >= now =>
      /\ VestedAt(stream, t) = stream.total_amount
      /\ LockedAt(stream, t) = 0
      /\ stream.total_amount = VestedAt(original, stream.end_time)

(* Truncation alone keeps a stream short of its total before the end, so   *)
(* every cancellation the code admits refunds at least one unit.           *)
CancelAlwaysRefunds ==
  ~stream.cancelled =>
    \A t \in Timestamps : t < stream.end_time => SettlementAt(stream, t).refund >= 1

(* progress stays within the scale and says 100% exactly when everything   *)
(* has vested, an emptied stream included.                                 *)
ProgressIsHonest ==
  \A t \in Timestamps :
    LET p == ProgressAt(stream, t, Scale)
    IN  /\ p \in 0 .. Scale
        /\ (p = Scale) <=> (VestedAt(stream, t) = stream.total_amount)

(* The lifecycle state agrees with the amounts: nothing is claimable while *)
(* pending, something is still locked while streaming, nothing once        *)
(* completed.                                                              *)
StatusMatchesAmounts ==
  \A t \in Timestamps :
    LET st == StatusAt(stream, t)
    IN  /\ st = "Pending"   => VestedAt(stream, t) = 0
        /\ st = "Streaming" => LockedAt(stream, t) > 0
        /\ st = "Completed" => LockedAt(stream, t) = 0
        /\ st = "Cancelled" <=> stream.cancelled
=============================================================================
