---------------------------- MODULE StreamContract ----------------------------
(***************************************************************************)
(* The stream contract as its callers see it: every invocation is one      *)
(* atomic step, because the host discards the effects of an invocation     *)
(* that returns an error or traps.  The state is what the contract stores  *)
(* (records by id, the id counter), the balances of the token contracts it *)
(* calls, the ledger clock, the events published so far and the answer to  *)
(* the latest invocation.                                                  *)
(*                                                                         *)
(* Tokens are conforming: a transfer moves exactly the amount asked or the *)
(* invocation fails.  Anyone may also send tokens to the contract directly.*)
(***************************************************************************)
EXTENDS Vesting, Sequences

CONSTANTS
  Parties,    \* addresses that hold tokens and sign invocations
  Tokens,     \* token contracts a stream may be paid in
  This,       \* the stream contract's own address
  MaxAmount,  \* MAX_AMOUNT
  CountMax,   \* u64::MAX: the id counter cannot go beyond it
  Requests,   \* the argument records create_stream is called with
  Amounts,    \* the amounts withdraw_amount is called with
  Gifts,      \* the amounts sent to the contract outside of any stream
  Times,      \* the timestamps ledgers close at
  Funding     \* what each party holds of each token at the start

Addresses == Parties \union {This}

ASSUME AddressAssumption == This \notin Parties \union Tokens
ASSUME LimitAssumption   == MaxAmount \in Nat /\ CountMax \in Nat /\ Funding \in Nat
ASSUME InputAssumption   ==
  /\ Requests \subseteq [sender : Addresses, recipient : Addresses, token : Tokens \union {This},
                         total_amount : Int, start_time : Nat, end_time : Nat, cliff_time : Nat]
  /\ Amounts \subseteq Int
  /\ Gifts \subseteq Nat \ {0}
  /\ Times \subseteq Nat /\ 0 \in Times

VARIABLES
  now,          \* ledger timestamp
  streams,      \* DataKey::Stream: the record of each stream, by id
  streamCount,  \* DataKey::StreamCount: the id of the next stream
  wallet,       \* wallet[token][address]: what the token contract has on its books
  surplus,      \* surplus[token]: what the contract was sent outside of any stream
  events,       \* the events published, in order, by stream id
  reply         \* the answer to the latest invocation

vars == <<now, streams, streamCount, wallet, surplus, events, reply>>

(* The records the contract may hold.                                      *)
StreamType ==
  [sender : Addresses, recipient : Addresses, token : Tokens,
   total_amount : Nat, withdrawn : Nat,
   start_time : Nat, end_time : Nat, cliff_time : Nat, cancelled : BOOLEAN]

(* StreamError, with the host's authorization failure and the failure of a *)
(* token transfer, neither of which is a code of this contract.            *)
Codes ==
  {"StreamNotFound", "InvalidTimeRange", "InvalidAmount", "InvalidCliff", "AlreadyCancelled",
   "NothingToWithdraw", "InsufficientBalance", "StreamAlreadyCompleted", "AmountTooLarge",
   "StreamWindowInPast", "StreamCountExhausted", "InvalidParticipant"}
Results == Codes \union {"Ok", "AuthError", "TokenError"}

Reply(call, result, value) ==
  [call |-> call, result |-> result, value |-> IF result = "Ok" THEN value ELSE 0]

(* The records a caller knows of: an id names a stream once it is stored.  *)
Known(id) == id \in DOMAIN streams

-----------------------------------------------------------------------------
(* The token contracts.                                                    *)

CanPay(token, from, amount) == wallet[token][from] >= amount

Moved(token, from, to, amount) ==
  [t \in Tokens |-> [a \in Addresses |->
     wallet[t][a] + (IF t = token /\ a = to   THEN amount ELSE 0)
                  - (IF t = token /\ a = from THEN amount ELSE 0)]]

-----------------------------------------------------------------------------
(* What is owed and what is held.                                          *)

(* What stream id still has in escrow, counted in token.                   *)
Owed(id, token) ==
  IF streams[id].token = token THEN streams[id].total_amount - streams[id].withdrawn ELSE 0

(* The escrow of all streams in token: Owed summed over the issued ids.    *)
Escrow(token) ==
  LET upTo[n \in 0 .. streamCount] ==
        IF n = 0 THEN 0 ELSE upTo[n - 1] + Owed(n - 1, token)
  IN  upTo[streamCount]

-----------------------------------------------------------------------------
Init ==
  /\ now = 0
  /\ streams = << >>
  /\ streamCount = 0
  /\ wallet = [t \in Tokens |-> [a \in Addresses |-> IF a = This THEN 0 ELSE Funding]]
  /\ surplus = [t \in Tokens |-> 0]
  /\ events = << >>
  /\ reply = Reply("none", "Ok", 0)

-----------------------------------------------------------------------------
(* Mistakes: the counter is not advanced, or advanced past its limit.      *)
SameId(id) == id
AnyIdFits == TRUE

NextId(id) == id + 1

NextIdFits == NextId(streamCount) <= CountMax

(* create_stream: the checks in the order the code makes them, then the    *)
(* deposit, which the token may refuse.                                    *)
CreateResult(caller, r) ==
  IF caller # r.sender THEN "AuthError"
  ELSE IF This \in {r.sender, r.recipient, r.token} THEN "InvalidParticipant"
  ELSE IF r.total_amount <= 0 THEN "InvalidAmount"
  ELSE IF r.total_amount > MaxAmount THEN "AmountTooLarge"
  ELSE IF r.start_time >= r.end_time THEN "InvalidTimeRange"
  ELSE IF r.cliff_time < r.start_time \/ r.cliff_time > r.end_time THEN "InvalidCliff"
  ELSE IF r.end_time <= now THEN "StreamWindowInPast"
  ELSE IF ~NextIdFits THEN "StreamCountExhausted"
  ELSE IF ~CanPay(r.token, r.sender, r.total_amount) THEN "TokenError"
  ELSE "Ok"

NewStream(r) ==
  [sender |-> r.sender, recipient |-> r.recipient, token |-> r.token,
   total_amount |-> r.total_amount, withdrawn |-> 0,
   start_time |-> r.start_time, end_time |-> r.end_time, cliff_time |-> r.cliff_time,
   cancelled |-> FALSE]

CreatedEvent(r) == [kind |-> "Created", terms |-> r]

(* set_stream: write the record under id, whether or not one was there.    *)
WithRecord(f, id, s) == [i \in DOMAIN f \union {id} |-> IF i = id THEN s ELSE f[i]]

(* What has been published about id, which may not be a stream yet.        *)
LogOf(id) == IF id \in DOMAIN events THEN events[id] ELSE << >>

(* What is stored and published under id once the deposit is in.           *)
Store(id, r) ==
  /\ streams' = WithRecord(streams, id, NewStream(r))
  /\ streamCount' = NextId(id)
  /\ events' = WithRecord(events, id, Append(LogOf(id), CreatedEvent(r)))

Create(r) ==
  /\ wallet' = Moved(r.token, r.sender, This, r.total_amount)
  /\ Store(streamCount, r)

CreateStream(caller, r) ==
  /\ reply' = Reply("create_stream", CreateResult(caller, r), streamCount)
  /\ \/ CreateResult(caller, r) = "Ok" /\ Create(r)
     \/ CreateResult(caller, r) # "Ok" /\ UNCHANGED <<wallet, streams, streamCount, events>>
  /\ UNCHANGED <<now, surplus>>

-----------------------------------------------------------------------------
(* withdraw and withdraw_amount share withdraw_with; they differ in what   *)
(* they accept of the withdrawable balance and in the amount they select.  *)

Available(id) == WithdrawableAt(streams[id], now)

(* Mistakes: a cancelled stream is closed for withdrawals too, and a       *)
(* partial withdrawal is only compared with the whole escrow.              *)
RefusingCancelled(id) ==
  IF streams[id].cancelled \/ Available(id) <= 0 THEN "NothingToWithdraw" ELSE "Ok"

AnyAmountInEscrow(id, amount) ==
  IF amount <= 0 THEN "InvalidAmount"
  ELSE IF amount > streams[id].total_amount - streams[id].withdrawn THEN "InsufficientBalance"
  ELSE "Ok"

WithdrawRefusal(id) == IF Available(id) <= 0 THEN "NothingToWithdraw" ELSE "Ok"

WithdrawAmountRefusal(id, amount) ==
  IF amount <= 0 THEN "InvalidAmount"
  ELSE IF amount > Available(id) THEN "InsufficientBalance"
  ELSE "Ok"

(* The record is loaded first, its recipient must have signed, then the    *)
(* entry point's own selection, and the payout, which the token may refuse.*)
WithdrawResult(caller, id, refusal, amount) ==
  IF ~Known(id) THEN "StreamNotFound"
  ELSE IF caller # streams[id].recipient THEN "AuthError"
  ELSE IF refusal # "Ok" THEN refusal
  ELSE IF ~CanPay(streams[id].token, This, amount) THEN "TokenError"
  ELSE "Ok"

(* A mistake: the event carries the sum of the payouts.                    *)
WithdrawnEventOfTotal(id, amount) ==
  [kind |-> "Withdrawn", recipient |-> streams[id].recipient,
   amount |-> streams[id].withdrawn + amount]

WithdrawnEvent(id, amount) ==
  [kind |-> "Withdrawn", recipient |-> streams[id].recipient, amount |-> amount]

(* An event of a stream that is already there.                             *)
Publish(id, event) == events' = [events EXCEPT ![id] = Append(@, event)]

PayRecipient(id, amount) ==
  /\ streams' = WithRecord(streams, id, AfterWithdraw(streams[id], amount))
  /\ wallet' = Moved(streams[id].token, This, streams[id].recipient, amount)
  /\ Publish(id, WithdrawnEvent(id, amount))

WithdrawWith(call, caller, id, refusal, amount) ==
  LET result == WithdrawResult(caller, id, refusal, amount)
  IN  /\ reply' = Reply(call, result, amount)
      /\ \/ result = "Ok" /\ PayRecipient(id, amount)
         \/ result # "Ok" /\ UNCHANGED <<streams, wallet, events>>
      /\ UNCHANGED <<now, streamCount, surplus>>

Withdraw(caller, id) ==
  WithdrawWith("withdraw", caller, id, WithdrawRefusal(id), Available(id))

WithdrawAmount(caller, id, amount) ==
  WithdrawWith("withdraw_amount", caller, id, WithdrawAmountRefusal(id, amount), amount)

-----------------------------------------------------------------------------
(* cancel: settle at the current time, freeze the record, refund the       *)
(* unvested part.                                                          *)
Refund(id) == SettlementAt(streams[id], now).refund

(* A mistake: a stream past its end can still be cancelled.                *)
NeverCompleted(id) == FALSE

Completed(id) == now >= streams[id].end_time

CancelResult(caller, id) ==
  IF ~Known(id) THEN "StreamNotFound"
  ELSE IF caller # streams[id].sender THEN "AuthError"
  ELSE IF streams[id].cancelled THEN "AlreadyCancelled"
  ELSE IF Completed(id) THEN "StreamAlreadyCompleted"
  ELSE IF Refund(id) > 0 /\ ~CanPay(streams[id].token, This, Refund(id)) THEN "TokenError"
  ELSE "Ok"

(* A mistake: the preview quotes figures for every stream there is.        *)
PreviewOfAll(id) == IF Known(id) THEN "Ok" ELSE "StreamNotFound"

(* cancel_preview makes the same checks without a signature.               *)
PreviewResult(id) ==
  IF ~Known(id) THEN "StreamNotFound"
  ELSE IF streams[id].cancelled THEN "AlreadyCancelled"
  ELSE IF Completed(id) THEN "StreamAlreadyCompleted"
  ELSE "Ok"

(* A mistake: the event reports all that vested as still to be paid.       *)
CancelledEventOfVested(id) ==
  [kind |-> "Cancelled", sender |-> streams[id].sender,
   recipient_amount |-> VestedAt(streams[id], now), sender_refund |-> Refund(id)]

CancelledEvent(id) ==
  [kind |-> "Cancelled", sender |-> streams[id].sender,
   recipient_amount |-> SettlementAt(streams[id], now).recipient_remaining,
   sender_refund |-> Refund(id)]

Settle(id) ==
  /\ streams' = WithRecord(streams, id, AfterCancel(streams[id], now))
  /\ wallet' = IF Refund(id) > 0
                 THEN Moved(streams[id].token, This, streams[id].sender, Refund(id))
                 ELSE wallet
  /\ Publish(id, CancelledEvent(id))

Cancel(caller, id) ==
  LET result == CancelResult(caller, id)
  IN  /\ reply' = Reply("cancel", result, Refund(id))
      /\ \/ result = "Ok" /\ Settle(id)
         \/ result # "Ok" /\ UNCHANGED <<streams, wallet, events>>
      /\ UNCHANGED <<now, streamCount, surplus>>

-----------------------------------------------------------------------------
(* The environment: ledgers close at later timestamps, and anyone may send *)
(* tokens straight to the contract's address.                              *)

AdvanceLedger ==
  /\ \E t \in Times : t > now /\ now' = t
  /\ UNCHANGED <<streams, streamCount, wallet, surplus, events, reply>>

Gift(from, token, amount) ==
  /\ CanPay(token, from, amount)
  /\ wallet' = Moved(token, from, This, amount)
  /\ surplus' = [surplus EXCEPT ![token] = @ + amount]
  /\ UNCHANGED <<now, streams, streamCount, events, reply>>

-----------------------------------------------------------------------------
(* Any u64 may be given as an id.                                          *)
Ids == 0 .. CountMax

Invocation ==
  \/ \E r \in Requests, caller \in Addresses : CreateStream(caller, r)
  \/ \E id \in Ids, caller \in Addresses : Withdraw(caller, id)
  \/ \E id \in Ids, caller \in Addresses, amount \in Amounts : WithdrawAmount(caller, id, amount)
  \/ \E id \in Ids, caller \in Addresses : Cancel(caller, id)

Next ==
  \/ Invocation
  \/ \E from \in Parties, token \in Tokens, amount \in Gifts : Gift(from, token, amount)
  \/ AdvanceLedger

Spec == Init /\ [][Next]_vars
-----------------------------------------------------------------------------
TypeOK ==
  /\ now \in Nat
  /\ streamCount \in 0 .. CountMax
  /\ streams \in [0 .. streamCount - 1 -> StreamType]
  /\ DOMAIN events = DOMAIN streams
  /\ wallet \in [Tokens -> [Addresses -> Nat]]
  /\ surplus \in [Tokens -> Nat]
  /\ reply.result \in Results

(* The schedule of every record is in order and no participant is the      *)
(* contract itself, so that vested amounts are meaningful, and what the    *)
(* recipient took never exceeds what has vested, which never exceeds the   *)
(* total, which never exceeds the cap; also after a cancellation rewrote   *)
(* the record, and at every later time.                                    *)
ClaimsInOrder ==
  \A id \in DOMAIN streams :
    LET s == streams[id]
    IN  /\ This \notin {s.sender, s.recipient}
        /\ s.start_time <= s.cliff_time /\ s.cliff_time <= s.end_time
        /\ s.withdrawn <= VestedAt(s, now)
        /\ VestedAt(s, now) <= s.total_amount
        /\ s.total_amount <= MaxAmount

(* Escrow invariant: for every token the contract holds exactly what its   *)
(* streams have not paid out or refunded yet, and what it was given        *)
(* besides; no call on one stream spends what backs another.               *)
Solvent ==
  \A token \in Tokens : wallet[token][This] = Escrow(token) + surplus[token]

(* What the views report of a stream accounts for all of its escrow:       *)
(* locked and withdrawable add up to what it has in the contract.          *)
ViewsSplitEscrow ==
  \A id \in DOMAIN streams :
    LockedAt(streams[id], now) + WithdrawableAt(streams[id], now)
      = streams[id].total_amount - streams[id].withdrawn

(* A payout never fails for lack of funds: only the deposit of a new       *)
(* stream is ever refused by a conforming token.                           *)
PayoutsNeverFail ==
  reply.result = "TokenError" => reply.call = "create_stream"

-----------------------------------------------------------------------------
(* No step makes the recipient's entitlement smaller: not the clock, not a *)
(* withdrawal, and not the sender, whose cancellation changes the total    *)
(* and all three times at once.                                            *)
EntitlementNeverShrinks ==
  [][ \A id \in DOMAIN streams :
        VestedAt(streams'[id], now') >= VestedAt(streams[id], now) ]_vars

(* A record, once stored under its id, stays there: the parties and the    *)
(* token never change, withdrawn only increases, a cancellation is final   *)
(* and freezes the total, and until then the terms stand.  In particular   *)
(* an id is never given to a second stream, even by an exhausted counter.  *)
RecordsArePermanent ==
  [][ \A id \in DOMAIN streams :
        /\ id \in DOMAIN streams'
        /\ LET s == streams[id]
               t == streams'[id]
           IN  /\ <<t.sender, t.recipient, t.token>> = <<s.sender, s.recipient, s.token>>
               /\ t.withdrawn >= s.withdrawn
               /\ s.cancelled => t.cancelled
               /\ s.cancelled \/ ~t.cancelled =>
                    t = [s EXCEPT !.withdrawn = t.withdrawn] ]_vars

-----------------------------------------------------------------------------
(* What the repository's documents say of the contract and its code does   *)
(* not do; each is refuted by a run.                                       *)

(* THREAT_MODEL.md, Invariants: total_amount is always positive, and        *)
(* start_time < end_time always holds, also after a cancellation moved them. *)
RecordsKeepTheirShape ==
  \A id \in DOMAIN streams :
    /\ streams[id].total_amount > 0
    /\ streams[id].start_time < streams[id].end_time

(* error.rs: a call that lacks the authorization it needs fails in the     *)
(* host and never returns one of the contract's codes.                     *)
UnauthorizedGetsNoCode ==
  [][ \A id \in Ids, caller \in Addresses :
        Cancel(caller, id) /\ ~(Known(id) /\ caller = streams[id].sender)
          => reply'.result \notin Codes ]_vars

(* README.md, error table, code 13: a stream whose sender and recipient    *)
(* are the same address is refused.                                        *)
PartiesDiffer ==
  \A id \in DOMAIN streams : streams[id].sender # streams[id].recipient
=============================================================================
