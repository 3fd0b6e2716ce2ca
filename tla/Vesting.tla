------------------------------- MODULE Vesting -------------------------------
(***************************************************************************)
(* The pure arithmetic of the stream contract: how much of a stream has    *)
(* vested, what the recipient may take, how a cancellation splits what is  *)
(* left, and the lifecycle state derived from a record and the time.       *)
(*                                                                         *)
(* A stream is a record with the fields of types.rs' Stream.  Amounts are  *)
(* integers and times naturals; VestingQueries checks that the fixed-width *)
(* arithmetic of the code computes the same values.                        *)
(***************************************************************************)
EXTENDS Integers

(* BPS_SCALE, the value progress reports for a fully vested stream.        *)
BpsScale == 10000

(* Mistakes in the linear share that a property must notice: rounded up,   *)
(* of what remains, and with a subtraction the wrong way round.            *)
ShareRoundedUp(total, elapsed, duration) == (total * elapsed + duration - 1) \div duration
ShareOfRemaining(total, elapsed, duration) == (total * (duration - elapsed)) \div duration
ShareBackwards(total, elapsed, duration) == (total * (0 - elapsed)) \div duration

Share(total, elapsed, duration) == (total * elapsed) \div duration

(***************************************************************************)
(* vested_amount: nothing before the cliff or the start, everything from   *)
(* the end on, and in between the truncated linear share.                  *)
(***************************************************************************)
VestedAmount(total, start, end, cliff, t) ==
  IF t < cliff \/ t < start THEN 0
  ELSE IF t >= end THEN total
  ELSE Share(total, t - start, end - start)

(* Stream::vested_amount feeds the fields of a record in.                  *)
VestedAt(s, t) ==
  VestedAmount(s.total_amount, s.start_time, s.end_time, s.cliff_time, t)

(* withdrawable_amount, clamped at zero.                                   *)
WithdrawableAmount(vested, withdrawn) ==
  IF vested - withdrawn < 0 THEN 0 ELSE vested - withdrawn

(* A mistake: the refund is taken before the vested part is set aside.     *)
SettlementIgnoringVested(total, vested, withdrawn) ==
  [refund |-> total - withdrawn, recipient_remaining |-> vested - withdrawn]

(* A mistake: what was paid out counts against the refund as well.         *)
SettlementPaidTwice(total, vested, withdrawn) ==
  [refund |-> total - vested - withdrawn, recipient_remaining |-> vested - withdrawn]

(* settlement: the two parties' shares of the escrow at a cancellation.    *)
Settlement(total, vested, withdrawn) ==
  [refund |-> total - vested, recipient_remaining |-> vested - withdrawn]

-----------------------------------------------------------------------------
(* What the read-only entry points compute from a record at time t.        *)

WithdrawableAt(s, t) == WithdrawableAmount(VestedAt(s, t), s.withdrawn)

(* A mistake: everything not paid out yet counts as locked.                *)
LockedNetOfPayouts(s, t) == s.total_amount - s.withdrawn

LockedAt(s, t) ==
  IF s.total_amount - VestedAt(s, t) < 0 THEN 0 ELSE s.total_amount - VestedAt(s, t)

SettlementAt(s, t) == Settlement(s.total_amount, VestedAt(s, t), s.withdrawn)

(* A mistake: progress rounded up.                                         *)
ProgressRoundedUp(s, t, scale) ==
  IF s.total_amount = 0 THEN scale
  ELSE (VestedAt(s, t) * scale + s.total_amount - 1) \div s.total_amount

(* progress, scaled to [0, scale]; an empty stream counts as complete.     *)
ProgressAt(s, t, scale) ==
  IF s.total_amount = 0 THEN scale
  ELSE LET p == (VestedAt(s, t) * scale) \div s.total_amount
       IN  IF p < 0 THEN 0 ELSE IF p > scale THEN scale ELSE p

(* A mistake: the end instant still counts as streaming.                   *)
PastEnd(s, t) == t > s.end_time

AtEnd(s, t) == t >= s.end_time

(* stream_status: cancellation wins over the clock.                        *)
StatusAt(s, t) ==
  IF s.cancelled THEN "Cancelled"
  ELSE IF t < s.start_time THEN "Pending"
  ELSE IF AtEnd(s, t) THEN "Completed"
  ELSE "Streaming"

-----------------------------------------------------------------------------
(* How the two mutations of a record rewrite it.                           *)

Earlier(a, b) == IF a <= b THEN a ELSE b

(* A mistake: the latest payout replaces the sum of all of them.           *)
LastWithdrawOnly(s, amount) == [s EXCEPT !.withdrawn = amount]

(* withdraw_with: only the cumulative amount taken moves.                  *)
AfterWithdraw(s, amount) == [s EXCEPT !.withdrawn = @ + amount]

(* Mistakes in the rewrite of cancel: one of its assignments left out, or  *)
(* the cliff dropped altogether.                                           *)
CancelKeepingTotal(s, t) ==
  [s EXCEPT !.start_time = Earlier(@, t), !.cliff_time = Earlier(@, t),
            !.end_time = t, !.cancelled = TRUE]

CancelKeepingEnd(s, t) ==
  [s EXCEPT !.total_amount = VestedAt(s, t), !.start_time = Earlier(@, t),
            !.cliff_time = Earlier(@, t), !.cancelled = TRUE]

CancelDroppingCliff(s, t) ==
  [s EXCEPT !.total_amount = VestedAt(s, t), !.start_time = Earlier(@, t),
            !.cliff_time = Earlier(s.start_time, t), !.end_time = t, !.cancelled = TRUE]

(* cancel: the total is cut to what has vested and the window closes now.  *)
AfterCancel(s, t) ==
  [s EXCEPT !.total_amount = VestedAt(s, t),
            !.start_time   = Earlier(@, t),
            !.cliff_time   = Earlier(@, t),
            !.end_time     = t,
            !.cancelled    = TRUE]
=============================================================================
