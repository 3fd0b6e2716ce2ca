-------------------------- MODULE StreamCommitProofs --------------------------
(***************************************************************************)
(* What the host commits: an invocation that waits for a token is the rest *)
(* of one that its checks let through, and either leaves the ledger as it  *)
(* was or changes it as StreamContract says; for any parties, requests,    *)
(* limits, ledger times and tokens.                                        *)
(***************************************************************************)
EXTENDS StreamHostProofs, StreamPropertiesProofs

-----------------------------------------------------------------------------
(* What an invocation under way has done, as seen from the ledger: the     *)
(* operators of Contract are those of StreamContract in the state that a   *)
(* rollback would restore.                                                 *)

CreateUnderWay(f, r) ==
  /\ f.call = "create_stream" /\ f.id = Committed.streamCount
  /\ f.token = r.token /\ f.from = r.sender /\ f.to = This /\ f.amount = r.total_amount
  /\ f.event = CreatedEvent(r)
  /\ Passes(Contract!CreateResult(r.sender, r))
  /\ streams = Committed.streams

(* Which of the two withdrawals it is, and with what the checks passed.    *)
WithdrawalPassed(f) ==
  \/ /\ f.call = "withdraw" /\ f.amount = Contract!Available(f.id)
     /\ Passes(Contract!WithdrawResult(f.to, f.id, Contract!WithdrawRefusal(f.id), f.amount))
  \/ /\ f.call = "withdraw_amount" /\ f.amount \in Amounts
     /\ Passes(Contract!WithdrawResult(f.to, f.id, Contract!WithdrawAmountRefusal(f.id, f.amount),
                                       f.amount))

WithdrawalUnderWay(f) ==
  /\ f.id \in Ids /\ f.id \in DOMAIN Committed.streams
  /\ WithdrawalPassed(f)
  /\ f.token = Committed.streams[f.id].token
  /\ f.from = This /\ f.to = Committed.streams[f.id].recipient
  /\ f.event = Contract!WithdrawnEvent(f.id, f.amount)
  /\ streams = WithRecord(Committed.streams, f.id,
                          AfterWithdraw(Committed.streams[f.id], f.amount))

CancellationUnderWay(f) ==
  /\ f.id \in Ids /\ f.id \in DOMAIN Committed.streams
  /\ f.call = "cancel" /\ f.amount = Contract!Refund(f.id)
  /\ Passes(Contract!CancelResult(f.to, f.id))
  /\ f.token = Committed.streams[f.id].token
  /\ f.from = This /\ f.to = Committed.streams[f.id].sender
  /\ f.event = Contract!CancelledEvent(f.id)
  /\ streams = WithRecord(Committed.streams, f.id, AfterCancel(Committed.streams[f.id], now))

(* What the token has moved so far: nothing, or a part, and all of it if   *)
(* it conforms.                                                            *)
MoneyUnderWay(f) ==
  IF f.at = "transfer"
  THEN f.amount > 0 /\ wallet = Committed.wallet
  ELSE \E part \in 0 .. f.amount :
         /\ f.token \in Conforming => part = f.amount
         /\ Contract!CanPay(f.token, f.from, part)
         /\ wallet = Contract!Moved(f.token, f.from, f.to, part)

CallUnderWay(f) ==
  \/ \E r \in Requests : CreateUnderWay(f, r)
  \/ WithdrawalUnderWay(f)
  \/ CancellationUnderWay(f)

Begun(f) ==
  /\ streamCount = Committed.streamCount /\ events = Committed.events
  /\ CallUnderWay(f)
  /\ MoneyUnderWay(f)

UnderWay == AtRest \/ \E f : stack = <<f>> /\ Begun(f)

-----------------------------------------------------------------------------
(* The arithmetic of Contract is that of Vesting.                          *)
LEMMA SameArithmetic ==
  /\ \A s, t : Contract!VestedAt(s, t) = VestedAt(s, t)
  /\ \A s, t : Contract!WithdrawableAt(s, t) = WithdrawableAt(s, t)
  /\ \A s, t : Contract!SettlementAt(s, t) = SettlementAt(s, t)
  /\ \A s, t : Contract!AfterCancel(s, t) = AfterCancel(s, t)
  /\ \A s, amount : Contract!AfterWithdraw(s, amount) = AfterWithdraw(s, amount)
<1>1. \A s, t : Contract!VestedAt(s, t) = VestedAt(s, t)
  BY DEF Contract!VestedAt, VestedAt, Contract!VestedAmount, VestedAmount, Contract!Share, Share
<1>2. \A s, t : Contract!WithdrawableAt(s, t) = WithdrawableAt(s, t)
  BY <1>1 DEF Contract!WithdrawableAt, WithdrawableAt, Contract!WithdrawableAmount,
     WithdrawableAmount
<1>3. \A s, t : Contract!SettlementAt(s, t) = SettlementAt(s, t)
  BY <1>1 DEF Contract!SettlementAt, SettlementAt, Contract!Settlement, Settlement
<1>4. \A s, t : Contract!AfterCancel(s, t) = AfterCancel(s, t)
  BY <1>1 DEF Contract!AfterCancel, AfterCancel, Contract!Earlier, Earlier
<1>5. \A s, amount : Contract!AfterWithdraw(s, amount) = AfterWithdraw(s, amount)
  BY DEF Contract!AfterWithdraw, AfterWithdraw
<1> QED
  BY <1>1, <1>2, <1>3, <1>4, <1>5

(* An invocation begins from what is in the ledger.                        *)
LEMMA BeginsFromLedger ==
  ASSUME NEW f, AtRest, stack' = <<f>>, f.saved = Snapshot
  PROVE  /\ Committed = Snapshot /\ Committed' = Snapshot
         /\ Snapshot.streams = streams /\ Snapshot.streamCount = streamCount
         /\ Snapshot.wallet = wallet /\ Snapshot.events = events
<1>1. stack' # << >> /\ stack'[1] = f
  OBVIOUS
<1> QED
  BY <1>1 DEF Committed, AtRest, Snapshot

(* Nothing moved is moving nothing.                                        *)
LEMMA MovesNothing ==
  ASSUME NEW w \in [Tokens -> [Addresses -> Nat]], NEW token, NEW from, NEW to
  PROVE  w = [t \in Tokens |-> [a \in Addresses |->
                w[t][a] + (IF t = token /\ a = to   THEN 0 ELSE 0)
                        - (IF t = token /\ a = from THEN 0 ELSE 0)]]
  OBVIOUS

(* A deposit that is asked for.                                            *)
LEMMA CreateBeginsUnderWay ==
  ASSUME TypeOK, NEW caller, NEW r \in Requests, BeginCreate(caller, r)
  PROVE  UnderWay'
<1>1. PICK f : stack' = <<f>> /\ CreateFrame(f, r)
  BY CreateBegun
<1>2. AtRest /\ Accepted(r) /\ caller = r.sender /\ UNCHANGED vars
  BY CreateBegun
<1>3. /\ f.call = "create_stream" /\ f.id = streamCount /\ f.token = r.token
      /\ f.from = r.sender /\ f.to = This /\ f.amount = r.total_amount
      /\ f.event = CreatedEvent(r) /\ f.at = "transfer" /\ f.saved = Snapshot
  BY <1>1 DEF CreateFrame
<1>4. /\ Committed' = Snapshot
      /\ Snapshot.streams = streams /\ Snapshot.streamCount = streamCount
      /\ Snapshot.wallet = wallet /\ Snapshot.events = events
  BY <1>1, <1>2, <1>3, BeginsFromLedger
<1>5. UNCHANGED <<now, streams, streamCount, wallet, events>>
  BY <1>2 DEF vars
<1>6. Passes(CreateResult(r.sender, r))
  BY <1>2 DEF BeginCreate
<1>7. Contract!CreateResult(r.sender, r)' = CreateResult(r.sender, r)
  BY <1>4, <1>5 DEF CreateResult, Contract!CreateResult, NextIdFits, Contract!NextIdFits, NextId,
     Contract!NextId, CanPay, Contract!CanPay
<1>8. CreateUnderWay(f, r)'
  BY <1>3, <1>4, <1>5, <1>6, <1>7 DEF CreateUnderWay, Passes
<1>9. MoneyUnderWay(f)'
  BY <1>2, <1>3, <1>4, <1>5 DEF MoneyUnderWay, Accepted
<1>10. Begun(f)'
  BY <1>4, <1>5, <1>8, <1>9 DEF Begun, CallUnderWay
<1> QED
  BY <1>1, <1>10 DEF UnderWay

(* A payout that is asked for, or that there is nothing to ask for.        *)
LEMMA PayoutFromLedger ==
  ASSUME TypeOK, NEW f, NEW call, NEW id, NEW s, NEW to, NEW amount, NEW event,
         PayoutBegun(f, call, id, s, to, amount, event)
  PROVE  /\ stack' = <<f>> /\ f.saved = Snapshot
         /\ f.call = call /\ f.id = id /\ f.token = streams[id].token /\ f.from = This /\ f.to = to
         /\ f.amount = amount /\ f.event = event
         /\ id \in DOMAIN streams /\ id \in Ids
         /\ streams' = WithRecord(streams, id, s)
         /\ UNCHANGED <<now, streamCount, wallet, surplus, events, reply>>
         /\ Committed' = Snapshot
         /\ Snapshot.streams = streams /\ Snapshot.streamCount = streamCount
         /\ Snapshot.wallet = wallet /\ Snapshot.events = events
         /\ MoneyUnderWay(f)'
<1>1. /\ stack' = <<f>> /\ f.saved = Snapshot /\ AtRest
      /\ f.call = call /\ f.id = id /\ f.token = streams[id].token /\ f.from = This /\ f.to = to
      /\ f.amount = amount /\ f.event = event /\ f.at = FirstStop(amount)
      /\ id \in DOMAIN streams /\ amount \in Nat
      /\ streams' = WithRecord(streams, id, s)
      /\ UNCHANGED <<now, streamCount, wallet, surplus, events, reply>>
  BY DEF PayoutBegun
<1>2. /\ Committed' = Snapshot
      /\ Snapshot.streams = streams /\ Snapshot.streamCount = streamCount
      /\ Snapshot.wallet = wallet /\ Snapshot.events = events
  BY <1>1, BeginsFromLedger
<1>3. id \in Ids
  BY <1>1, LimitAssumption DEF TypeOK, Ids
<1>4. f.token \in Tokens /\ wallet \in [Tokens -> [Addresses -> Nat]] /\ This \in Addresses
  BY <1>1 DEF TypeOK, StreamType, Addresses
<1>5. ASSUME amount > 0 PROVE MoneyUnderWay(f)'
  BY <1>1, <1>2, <1>5 DEF MoneyUnderWay, FirstStop
<1>6. ASSUME ~(amount > 0) PROVE MoneyUnderWay(f)'
  <2>1. f.at = "returned" /\ 0 \in 0 .. f.amount /\ f.amount = 0
    BY <1>1, <1>6 DEF FirstStop
  <2>2. Contract!CanPay(f.token, f.from, 0)'
    BY <1>1, <1>2, <1>4 DEF Contract!CanPay
  <2>3. wallet' = Contract!Moved(f.token, f.from, f.to, 0)'
    <3>1. Contract!Moved(f.token, f.from, f.to, 0)'
            = [t \in Tokens |-> [a \in Addresses |->
                 wallet[t][a] + (IF t = f.token /\ a = f.to   THEN 0 ELSE 0)
                              - (IF t = f.token /\ a = f.from THEN 0 ELSE 0)]]
      BY <1>2 DEF Contract!Moved, Contract!Addresses, Addresses
    <3> QED
      BY <1>1, <1>4, <3>1, MovesNothing
  <2> QED
    BY <2>1, <2>2, <2>3 DEF MoneyUnderWay
<1> QED
  BY <1>1, <1>2, <1>3, <1>5, <1>6

(* What the checks read is in the ledger.                                  *)
LEMMA SameChecks ==
  ASSUME UNCHANGED <<now, wallet>>, NEW id,
         Committed'.streams = streams, Committed'.wallet = wallet
  PROVE  /\ Contract!Available(id)' = Available(id)
         /\ Contract!Refund(id)' = Refund(id)
         /\ Contract!WithdrawRefusal(id)' = WithdrawRefusal(id)
         /\ \A amount : Contract!WithdrawAmountRefusal(id, amount)' = WithdrawAmountRefusal(id, amount)
         /\ \A caller, refusal, amount :
              Contract!WithdrawResult(caller, id, refusal, amount)'
                = WithdrawResult(caller, id, refusal, amount)
         /\ \A caller : Contract!CancelResult(caller, id)' = CancelResult(caller, id)
         /\ \A amount : Contract!WithdrawnEvent(id, amount)' = WithdrawnEvent(id, amount)
         /\ Contract!CancelledEvent(id)' = CancelledEvent(id)
<1>1. Contract!Available(id)' = Available(id) /\ Contract!Refund(id)' = Refund(id)
  BY SameArithmetic DEF Contract!Available, Available, Contract!Refund, Refund
<1>2. /\ Contract!WithdrawRefusal(id)' = WithdrawRefusal(id)
      /\ \A amount : Contract!WithdrawAmountRefusal(id, amount)' = WithdrawAmountRefusal(id, amount)
  BY <1>1 DEF Contract!WithdrawRefusal, WithdrawRefusal, Contract!WithdrawAmountRefusal,
     WithdrawAmountRefusal
<1>3. \A caller, refusal, amount :
        Contract!WithdrawResult(caller, id, refusal, amount)'
          = WithdrawResult(caller, id, refusal, amount)
  BY DEF Contract!WithdrawResult, WithdrawResult, Contract!Known, Known, Contract!CanPay, CanPay
<1>4. \A caller : Contract!CancelResult(caller, id)' = CancelResult(caller, id)
  BY <1>1 DEF Contract!CancelResult, CancelResult, Contract!Known, Known, Contract!CanPay, CanPay,
     Contract!Completed, Completed
<1>5. /\ \A amount : Contract!WithdrawnEvent(id, amount)' = WithdrawnEvent(id, amount)
      /\ Contract!CancelledEvent(id)' = CancelledEvent(id)
  BY <1>1, SameArithmetic
     DEF Contract!WithdrawnEvent, WithdrawnEvent, Contract!CancelledEvent, CancelledEvent
<1> QED
  BY <1>1, <1>2, <1>3, <1>4, <1>5

(* withdraw, under way.                                                    *)
LEMMA WithdrawBeginsUnderWay ==
  ASSUME TypeOK, NEW caller, NEW id, HostWithdraw(caller, id)
  PROVE  UnderWay'
<1> DEFINE amount == Available(id)
           s == AfterWithdraw(streams[id], amount)
<1>1. PICK f : PayoutBegun(f, "withdraw", id, s, streams[id].recipient, amount,
                           WithdrawnEvent(id, amount))
  BY HostWithdrawBegun
<1>2. /\ stack' = <<f>> /\ f.saved = Snapshot
      /\ f.call = "withdraw" /\ f.id = id /\ f.token = streams[id].token /\ f.from = This
      /\ f.to = streams[id].recipient /\ f.amount = amount /\ f.event = WithdrawnEvent(id, amount)
      /\ id \in DOMAIN streams /\ id \in Ids
      /\ streams' = WithRecord(streams, id, s)
      /\ UNCHANGED <<now, streamCount, wallet, surplus, events, reply>>
      /\ Committed' = Snapshot
      /\ Snapshot.streams = streams /\ Snapshot.streamCount = streamCount
      /\ Snapshot.wallet = wallet /\ Snapshot.events = events
      /\ MoneyUnderWay(f)'
  BY <1>1, PayoutFromLedger
<1>3. Passes(WithdrawResult(caller, id, WithdrawRefusal(id), amount))
  BY DEF HostWithdraw, BeginWithdraw
<1>4. caller = streams[id].recipient
  BY <1>2, <1>3 DEF Passes, WithdrawResult, Known
<1> HIDE DEF amount
<1>5. WithdrawalPassed(f)'
  BY <1>2, <1>3, <1>4, SameChecks DEF WithdrawalPassed, Passes, amount
<1>6. WithdrawalUnderWay(f)'
  BY <1>2, <1>5, SameChecks DEF WithdrawalUnderWay, s
<1>7. Begun(f)'
  BY <1>2, <1>6 DEF Begun, CallUnderWay
<1> QED
  BY <1>2, <1>7 DEF UnderWay

(* withdraw_amount, under way.                                             *)
LEMMA WithdrawAmountBeginsUnderWay ==
  ASSUME TypeOK, NEW caller, NEW id, NEW amount \in Amounts, HostWithdrawAmount(caller, id, amount)
  PROVE  UnderWay'
<1> DEFINE s == AfterWithdraw(streams[id], amount)
<1>1. PICK f : PayoutBegun(f, "withdraw_amount", id, s, streams[id].recipient, amount,
                           WithdrawnEvent(id, amount))
  BY HostWithdrawAmountBegun
<1>2. /\ stack' = <<f>> /\ f.saved = Snapshot
      /\ f.call = "withdraw_amount" /\ f.id = id /\ f.token = streams[id].token /\ f.from = This
      /\ f.to = streams[id].recipient /\ f.amount = amount /\ f.event = WithdrawnEvent(id, amount)
      /\ id \in DOMAIN streams /\ id \in Ids
      /\ streams' = WithRecord(streams, id, s)
      /\ UNCHANGED <<now, streamCount, wallet, surplus, events, reply>>
      /\ Committed' = Snapshot
      /\ Snapshot.streams = streams /\ Snapshot.streamCount = streamCount
      /\ Snapshot.wallet = wallet /\ Snapshot.events = events
      /\ MoneyUnderWay(f)'
  BY <1>1, PayoutFromLedger
<1>3. Passes(WithdrawResult(caller, id, WithdrawAmountRefusal(id, amount), amount))
  BY DEF HostWithdrawAmount, BeginWithdraw
<1>4. caller = streams[id].recipient
  BY <1>2, <1>3 DEF Passes, WithdrawResult, Known
<1>5. WithdrawalPassed(f)'
  BY <1>2, <1>3, <1>4, SameChecks DEF WithdrawalPassed, Passes
<1>6. WithdrawalUnderWay(f)'
  BY <1>2, <1>5, SameChecks DEF WithdrawalUnderWay, s
<1>7. Begun(f)'
  BY <1>2, <1>6 DEF Begun, CallUnderWay
<1> QED
  BY <1>2, <1>7 DEF UnderWay

(* cancel, under way.                                                      *)
LEMMA CancelBeginsUnderWay ==
  ASSUME TypeOK, NEW caller, NEW id, BeginCancel(caller, id)
  PROVE  UnderWay'
<1> DEFINE s == AfterCancel(streams[id], now)
<1>1. PICK f : PayoutBegun(f, "cancel", id, s, streams[id].sender, Refund(id), CancelledEvent(id))
  BY CancelBegun
<1>2. /\ stack' = <<f>> /\ f.saved = Snapshot
      /\ f.call = "cancel" /\ f.id = id /\ f.token = streams[id].token /\ f.from = This
      /\ f.to = streams[id].sender /\ f.amount = Refund(id) /\ f.event = CancelledEvent(id)
      /\ id \in DOMAIN streams /\ id \in Ids
      /\ streams' = WithRecord(streams, id, s)
      /\ UNCHANGED <<now, streamCount, wallet, surplus, events, reply>>
      /\ Committed' = Snapshot
      /\ Snapshot.streams = streams /\ Snapshot.streamCount = streamCount
      /\ Snapshot.wallet = wallet /\ Snapshot.events = events
      /\ MoneyUnderWay(f)'
  BY <1>1, PayoutFromLedger
<1>3. Passes(CancelResult(caller, id)) /\ caller = streams[id].sender
  BY CancelBegun DEF BeginCancel
<1>4. Passes(Contract!CancelResult(f.to, f.id))'
  BY <1>2, <1>3, SameChecks DEF Passes
<1>5. CancellationUnderWay(f)'
  BY <1>2, <1>4, SameChecks DEF CancellationUnderWay, s
<1>6. Begun(f)'
  BY <1>2, <1>5 DEF Begun, CallUnderWay
<1> QED
  BY <1>2, <1>6 DEF UnderWay

-----------------------------------------------------------------------------
(* The ledger while an invocation waits, and when it is over.              *)

(* The checks stand as long as the ledger does.                            *)
LEMMA ChecksStand ==
  ASSUME Committed' = Committed, now' = now, NEW f, WithdrawalPassed(f)
  PROVE  WithdrawalPassed(f)'
<1>1. /\ Contract!Available(f.id)' = Contract!Available(f.id)
      /\ Contract!WithdrawRefusal(f.id)' = Contract!WithdrawRefusal(f.id)
      /\ Contract!WithdrawAmountRefusal(f.id, f.amount)'
           = Contract!WithdrawAmountRefusal(f.id, f.amount)
  BY DEF Contract!Available, Contract!WithdrawRefusal, Contract!WithdrawAmountRefusal
<1>2. \A refusal : Contract!WithdrawResult(f.to, f.id, refusal, f.amount)'
                      = Contract!WithdrawResult(f.to, f.id, refusal, f.amount)
  BY DEF Contract!WithdrawResult, Contract!Known, Contract!CanPay
<1> QED
  BY <1>1, <1>2 DEF WithdrawalPassed, Passes

(* An invocation under way stays what it is while it waits.                *)
LEMMA StaysUnderWay ==
  ASSUME Committed' = Committed, UNCHANGED <<now, streams>>, NEW f, CallUnderWay(f)
  PROVE  CallUnderWay(f)'
<1>1. ASSUME NEW r \in Requests, CreateUnderWay(f, r) PROVE CreateUnderWay(f, r)'
  <2>1. Contract!CreateResult(r.sender, r)' = Contract!CreateResult(r.sender, r)
    BY DEF Contract!CreateResult, Contract!NextIdFits, Contract!NextId, Contract!CanPay
  <2> QED
    BY <1>1, <2>1 DEF CreateUnderWay, Passes
<1>2. ASSUME WithdrawalUnderWay(f) PROVE WithdrawalUnderWay(f)'
  <2>1. WithdrawalPassed(f)'
    BY <1>2, ChecksStand DEF WithdrawalUnderWay
  <2>2. Contract!WithdrawnEvent(f.id, f.amount)' = Contract!WithdrawnEvent(f.id, f.amount)
    BY DEF Contract!WithdrawnEvent
  <2> QED
    BY <1>2, <2>1, <2>2 DEF WithdrawalUnderWay
<1>3. ASSUME CancellationUnderWay(f) PROVE CancellationUnderWay(f)'
  <2>1. Contract!Refund(f.id)' = Contract!Refund(f.id)
    BY DEF Contract!Refund
  <2>2. Contract!CancelResult(f.to, f.id)' = Contract!CancelResult(f.to, f.id)
    BY <2>1 DEF Contract!CancelResult, Contract!Known, Contract!CanPay, Contract!Completed
  <2>3. Contract!CancelledEvent(f.id)' = Contract!CancelledEvent(f.id)
    BY <2>1 DEF Contract!CancelledEvent
  <2> QED
    BY <1>3, <2>1, <2>2, <2>3 DEF CancellationUnderWay, Passes
<1> QED
  BY <1>1, <1>2, <1>3 DEF CallUnderWay

(* The frame of the invocation under way.                                  *)
LEMMA TheInvocation ==
  ASSUME HostTyped, UnderWay, ~AtRest
  PROVE  \E f : /\ stack = <<f>> /\ FrameTyped(f) /\ Begun(f)
               /\ Top = f /\ Committed = f.saved /\ Front(stack) = << >>
<1>1. PICK f : stack = <<f>> /\ FrameTyped(f)
  BY DEF HostTyped
<1>2. PICK g : stack = <<g>> /\ Begun(g)
  BY DEF UnderWay
<1>3. f = g
  BY <1>1, <1>2
<1> QED
  BY <1>1, <1>2, <1>3, OneFrame

(* What the token does stays with the invocation.                          *)
LEMMA MovesUnderWay ==
  ASSUME HostTyped, UnderWay, TokenMoves
  PROVE  UnderWay' /\ Committed' = Committed
<1>1. PICK f : /\ stack = <<f>> /\ FrameTyped(f) /\ Begun(f)
               /\ Top = f /\ Committed = f.saved /\ Front(stack) = << >>
  BY TheInvocation DEF TokenMoves
<1>2. PICK g : g = [f EXCEPT !.at = "returned"]
  OBVIOUS
<1>3. stack' = <<g>> /\ UNCHANGED <<now, streams, streamCount, surplus, events, reply>>
      /\ f.at = "transfer"
  BY <1>1, <1>2 DEF TokenMoves
<1>4. /\ g.call = f.call /\ g.id = f.id /\ g.token = f.token /\ g.from = f.from /\ g.to = f.to
      /\ g.amount = f.amount /\ g.event = f.event /\ g.saved = f.saved /\ g.at = "returned"
      /\ f.amount \in Nat
  BY <1>1, <1>2 DEF FrameTyped
<1>5. Committed' = Committed
  <2>1. stack' # << >> /\ stack'[1] = g
    BY <1>3
  <2> QED
    BY <1>1, <1>4, <2>1 DEF Committed, AtRest
<1>6. PICK part \in 0 .. f.amount :
        /\ f.token \in Conforming => part = f.amount
        /\ CanPay(f.token, f.from, part) /\ wallet' = Moved(f.token, f.from, f.to, part)
  BY <1>1, <1>4 DEF TokenMoves
<1>7. wallet = Committed.wallet
  BY <1>1, <1>3 DEF Begun, MoneyUnderWay
<1>8. MoneyUnderWay(g)'
  <2>1. Contract!CanPay(f.token, f.from, part)'
    BY <1>5, <1>6, <1>7 DEF CanPay, Contract!CanPay
  <2>2. wallet' = Contract!Moved(f.token, f.from, f.to, part)'
    BY <1>5, <1>6, <1>7 DEF Moved, Contract!Moved, Addresses, Contract!Addresses
  <2> QED
    BY <1>4, <1>6, <2>1, <2>2 DEF MoneyUnderWay
<1>9. CallUnderWay(g)
  BY <1>1, <1>4 DEF Begun, CallUnderWay, CreateUnderWay, WithdrawalUnderWay, WithdrawalPassed,
     CancellationUnderWay
<1>10. CallUnderWay(g)'
  BY <1>3, <1>5, <1>9, StaysUnderWay
<1>11. Begun(g)'
  BY <1>1, <1>3, <1>5, <1>8, <1>10 DEF Begun
<1> QED
  BY <1>3, <1>5, <1>11 DEF UnderWay

LedgerKept ==
  /\ Committed'.streams = Committed.streams /\ Committed'.streamCount = Committed.streamCount
  /\ Committed'.wallet = Committed.wallet /\ Committed'.events = Committed.events

(* Between invocations the ledger is what an invocation would work on.     *)
LEMMA LedgerAtRest ==
  /\ AtRest => /\ Committed.streams = streams /\ Committed.streamCount = streamCount
               /\ Committed.wallet = wallet /\ Committed.events = events
  /\ AtRest' => /\ Committed'.streams = streams' /\ Committed'.streamCount = streamCount'
                /\ Committed'.wallet = wallet' /\ Committed'.events = events'
  BY DEF Committed, Snapshot

(* An invocation that begins changes nothing in the ledger yet.            *)
LEMMA BeginsKept ==
  ASSUME NEW f, AtRest, stack' = <<f>>, f.saved = Snapshot
  PROVE  LedgerKept
  BY BeginsFromLedger DEF LedgerKept

(* A token that fails leaves the ledger as it was.                         *)
LEMMA FailsKept ==
  ASSUME HostTyped, UnderWay, TokenFails
  PROVE  /\ LedgerKept /\ AtRest' /\ UNCHANGED <<now, surplus>>
         /\ \E f : /\ stack = <<f>> /\ Top = f /\ FrameTyped(f) /\ CallUnderWay(f)
                   /\ reply' = Reply(f.call, "TokenError", 0)
                   /\ f.token \in Conforming => ~Contract!CanPay(f.token, f.from, f.amount)
<1>1. PICK f : /\ stack = <<f>> /\ FrameTyped(f) /\ Begun(f)
               /\ Top = f /\ Committed = f.saved /\ Front(stack) = << >>
  BY TheInvocation DEF TokenFails
<1>2. /\ streams' = f.saved.streams /\ streamCount' = f.saved.streamCount
      /\ wallet' = f.saved.wallet /\ events' = f.saved.events
      /\ stack' = << >> /\ UNCHANGED <<now, surplus>> /\ f.at = "transfer"
      /\ reply' = Reply(f.call, "TokenError", 0)
      /\ f.token \in Conforming => ~CanPay(f.token, f.from, f.amount)
  BY <1>1 DEF TokenFails, RollBack
<1>3. AtRest'
  BY <1>2 DEF AtRest
<1>4. LedgerKept
  BY <1>1, <1>2, <1>3, LedgerAtRest DEF LedgerKept
<1>5. wallet = Committed.wallet /\ CallUnderWay(f)
  BY <1>1, <1>2 DEF Begun, MoneyUnderWay
<1>6. f.token \in Conforming => ~Contract!CanPay(f.token, f.from, f.amount)
  BY <1>2, <1>5 DEF CanPay, Contract!CanPay
<1> QED
  BY <1>1, <1>2, <1>3, <1>4, <1>5, <1>6

(* What the rest of an invocation commits.                                 *)
LEMMA FinishCommits ==
  ASSUME HostTyped, UnderWay, Finish
  PROVE  /\ AtRest' /\ UNCHANGED <<now, surplus>>
         /\ \E f, part :
              /\ stack = <<f>> /\ FrameTyped(f) /\ CallUnderWay(f)
              /\ part \in 0 .. f.amount /\ (f.token \in Conforming => part = f.amount)
              /\ Contract!CanPay(f.token, f.from, part)
              /\ Committed'.wallet = Contract!Moved(f.token, f.from, f.to, part)
              /\ f.call = "create_stream" =>
                   /\ Committed'.streams
                        = WithRecord(Committed.streams, f.id, NewStream(f.event.terms))
                   /\ Committed'.streamCount = NextId(f.id)
                   /\ Committed'.events
                        = WithRecord(Committed.events, f.id, <<CreatedEvent(f.event.terms)>>)
                   /\ reply' = Reply(f.call, "Ok", f.id)
              /\ f.call # "create_stream" =>
                   /\ Committed'.streams = streams
                   /\ Committed'.streamCount = Committed.streamCount
                   /\ Committed'.events = [Committed.events EXCEPT ![f.id] = Append(@, f.event)]
                   /\ reply' = Reply(f.call, "Ok", f.amount)
<1>1. PICK f : /\ stack = <<f>> /\ FrameTyped(f) /\ Begun(f)
               /\ Top = f /\ Committed = f.saved /\ Front(stack) = << >>
  BY TheInvocation DEF Finish
<1>2. /\ stack' = << >> /\ UNCHANGED <<now, wallet, surplus>> /\ f.at = "returned"
  BY <1>1 DEF Finish
<1>3. AtRest'
  BY <1>2 DEF AtRest
<1>4. PICK part \in 0 .. f.amount :
        /\ f.token \in Conforming => part = f.amount
        /\ Contract!CanPay(f.token, f.from, part)
        /\ wallet = Contract!Moved(f.token, f.from, f.to, part)
  BY <1>1, <1>2 DEF Begun, MoneyUnderWay
<1>5. Committed'.wallet = Contract!Moved(f.token, f.from, f.to, part)
  BY <1>2, <1>3, <1>4, LedgerAtRest
<1>6. /\ Committed'.streams = streams' /\ Committed'.streamCount = streamCount'
      /\ Committed'.events = events'
  BY <1>3, LedgerAtRest
<1>7. events = Committed.events /\ streamCount = Committed.streamCount /\ CallUnderWay(f)
  BY <1>1 DEF Begun
<1>8. ASSUME f.call = "create_stream"
      PROVE  /\ Committed'.streams = WithRecord(Committed.streams, f.id, NewStream(f.event.terms))
             /\ Committed'.streamCount = NextId(f.id)
             /\ Committed'.events
                  = WithRecord(Committed.events, f.id, <<CreatedEvent(f.event.terms)>>)
             /\ reply' = Reply(f.call, "Ok", f.id)
  <2>1. Store(f.id, f.event.terms) /\ reply' = Reply(f.call, "Ok", f.id)
    BY <1>1, <1>8 DEF Finish, FinishCreate, FinishPayout
  <2>2. streams = Committed.streams
    BY <1>7, <1>8 DEF CallUnderWay, CreateUnderWay, WithdrawalUnderWay, WithdrawalPassed,
       CancellationUnderWay
  <2>3. f.id \notin DOMAIN events
    BY <1>1, <1>7, <1>8 DEF FrameTyped, StateTyped
  <2>4. Append(LogOf(f.id), CreatedEvent(f.event.terms)) = <<CreatedEvent(f.event.terms)>>
    BY <2>3 DEF LogOf
  <2> QED
    BY <1>6, <1>7, <2>1, <2>2, <2>4 DEF Store
<1>9. ASSUME f.call # "create_stream"
      PROVE  /\ Committed'.streams = streams
             /\ Committed'.streamCount = Committed.streamCount
             /\ Committed'.events = [Committed.events EXCEPT ![f.id] = Append(@, f.event)]
             /\ reply' = Reply(f.call, "Ok", f.amount)
  BY <1>1, <1>6, <1>7, <1>9 DEF Finish, FinishCreate, FinishPayout, Publish
<1> QED
  BY <1>1, <1>2, <1>3, <1>4, <1>5, <1>7, <1>8, <1>9

(* Every step leaves an invocation under way or none.                      *)
LEMMA NextUnderWay ==
  ASSUME HostTyped, UnderWay, [HostNext]_hostVars
  PROVE  UnderWay'
<1>1. TypeOK
  BY DEF HostTyped
<1>2. ASSUME AtRest, UNCHANGED stack PROVE UnderWay'
  BY <1>2 DEF UnderWay, AtRest
<1>3. CASE Refused
  BY <1>2, <1>3, RefusedEffect
<1>4. CASE HostAdvance \/ \E from \in Parties, token \in Tokens, amount \in Gifts :
                             HostGift(from, token, amount)
  BY <1>2, <1>4 DEF HostAdvance, HostGift
<1>5. CASE TokenMoves
  BY <1>5, MovesUnderWay
<1>6. CASE TokenFails \/ Finish
  BY <1>6, FailsKept, FinishCommits DEF UnderWay
<1>7. CASE UNCHANGED hostVars
  <2>1. CASE AtRest
    BY <1>2, <1>7, <2>1 DEF hostVars
  <2>2. CASE ~AtRest
    <3>1. PICK f : stack = <<f>> /\ Begun(f)
      BY <2>2 DEF UnderWay
    <3>2. Committed' = Committed /\ stack' = <<f>>
      BY <1>7, <3>1 DEF hostVars, Committed, AtRest, Snapshot
    <3>3. CallUnderWay(f)'
      BY <1>7, <3>1, <3>2, StaysUnderWay DEF hostVars, Begun
    <3>4. Begun(f)'
      BY <1>7, <3>1, <3>2, <3>3 DEF hostVars, Begun, MoneyUnderWay, Contract!CanPay, Contract!Moved
    <3> QED
      BY <3>2, <3>4 DEF UnderWay
  <2> QED
    BY <2>1, <2>2
<1> QED
  BY <1>1, <1>3, <1>4, <1>5, <1>6, <1>7, CreateBeginsUnderWay, WithdrawBeginsUnderWay,
     WithdrawAmountBeginsUnderWay, CancelBeginsUnderWay
     DEF HostNext

(* A waiting invocation is the rest of one that its checks let through,    *)
(* and its token has moved what it was asked for, or a part.               *)
THEOREM AlwaysUnderWay == HostSpec => []UnderWay
<1>1. HostInit => UnderWay
  BY DEF HostInit, UnderWay, AtRest
<1> QED
  BY <1>1, NextUnderWay, AlwaysHostTyped, PTL DEF HostSpec

-----------------------------------------------------------------------------
(* Retrying.  The checks an invocation passed read nothing but the ledger  *)
(* it is rolled back to.                                                   *)
LEMMA RolledBackChecks ==
  ASSUME UNCHANGED now, NEW id, streams' = Committed.streams, wallet' = Committed.wallet
  PROVE  /\ Available(id)' = Contract!Available(id)
         /\ Refund(id)' = Contract!Refund(id)
         /\ WithdrawRefusal(id)' = Contract!WithdrawRefusal(id)
         /\ \A amount : WithdrawAmountRefusal(id, amount)' = Contract!WithdrawAmountRefusal(id, amount)
         /\ \A caller, refusal, amount :
              WithdrawResult(caller, id, refusal, amount)'
                = Contract!WithdrawResult(caller, id, refusal, amount)
         /\ \A caller : CancelResult(caller, id)' = Contract!CancelResult(caller, id)
<1>1. Available(id)' = Contract!Available(id) /\ Refund(id)' = Contract!Refund(id)
  BY SameArithmetic DEF Contract!Available, Available, Contract!Refund, Refund
<1>2. /\ WithdrawRefusal(id)' = Contract!WithdrawRefusal(id)
      /\ \A amount : WithdrawAmountRefusal(id, amount)' = Contract!WithdrawAmountRefusal(id, amount)
  BY <1>1 DEF Contract!WithdrawRefusal, WithdrawRefusal, Contract!WithdrawAmountRefusal,
     WithdrawAmountRefusal
<1>3. \A caller, refusal, amount :
        WithdrawResult(caller, id, refusal, amount)'
          = Contract!WithdrawResult(caller, id, refusal, amount)
  BY DEF Contract!WithdrawResult, WithdrawResult, Contract!Known, Known, Contract!CanPay, CanPay
<1>4. \A caller : CancelResult(caller, id)' = Contract!CancelResult(caller, id)
  BY <1>1 DEF Contract!CancelResult, CancelResult, Contract!Known, Known, Contract!CanPay, CanPay,
     Contract!Completed, Completed
<1> QED
  BY <1>1, <1>2, <1>3, <1>4

(* So they are passed again, and the same amount is asked for.             *)
LEMMA PassedAgain ==
  ASSUME NEW f, CallUnderWay(f), UNCHANGED now, streams' = Committed.streams,
         streamCount' = Committed.streamCount, wallet' = Committed.wallet
  PROVE  PassesAgain(f)'
<1>1. ASSUME NEW r \in Requests, CreateUnderWay(f, r) PROVE PassesAgain(f)'
  <2>1. f.call = "create_stream" /\ f.id = streamCount' /\ f.from = r.sender /\ f.event.terms = r
    BY <1>1 DEF CreateUnderWay, CreatedEvent
  <2>2. CreateResult(r.sender, r)' = Contract!CreateResult(r.sender, r)
    BY DEF CreateResult, Contract!CreateResult, NextIdFits, Contract!NextIdFits, NextId,
       Contract!NextId, CanPay, Contract!CanPay
  <2> QED
    BY <1>1, <2>1, <2>2 DEF PassesAgain, CreateUnderWay, Passes
<1>2. ASSUME WithdrawalUnderWay(f) PROVE PassesAgain(f)'
  <2>1. CASE f.call = "withdraw"
    BY <1>2, <2>1, RolledBackChecks DEF PassesAgain, WithdrawalUnderWay, WithdrawalPassed, Passes
  <2>2. CASE f.call = "withdraw_amount"
    BY <1>2, <2>2, RolledBackChecks DEF PassesAgain, WithdrawalUnderWay, WithdrawalPassed, Passes
  <2> QED
    BY <1>2, <2>1, <2>2 DEF WithdrawalUnderWay, WithdrawalPassed
<1>3. ASSUME CancellationUnderWay(f) PROVE PassesAgain(f)'
  BY <1>3, RolledBackChecks DEF PassesAgain, CancellationUnderWay, Passes
<1> QED
  BY <1>1, <1>2, <1>3 DEF CallUnderWay

(* Only a token's failure is answered with TokenError when an invocation   *)
(* that waited is over.                                                    *)
LEMMA RetryStep ==
  ASSUME HostTyped, UnderWay, [HostNext]_hostVars,
         ~AtRest, stack' = << >>, reply'.result = "TokenError"
  PROVE  \A f \in {Top} : PassesAgain(f)'
<1>1. PICK f : /\ stack = <<f>> /\ FrameTyped(f) /\ Begun(f)
               /\ Top = f /\ Committed = f.saved /\ Front(stack) = << >>
  BY TheInvocation
<1>2. TokenFails
  <2>1. ~CanEnter /\ stack' # stack
    BY <1>1 DEF CanEnter
  <2>2. ASSUME TokenMoves PROVE FALSE
    <3>1. PICK g : stack' = Append(<< >>, g)
      BY <1>1, <2>2 DEF TokenMoves
    <3> QED
      BY <3>1
  <2>3. ASSUME Finish PROVE FALSE
    BY <2>3 DEF Finish, FinishCreate, FinishPayout, Reply
  <2> QED
    BY <2>1, <2>2, <2>3 DEF HostNext, hostVars, Refused, BeginCreate, HostWithdraw,
       HostWithdrawAmount, BeginWithdraw, BeginCancel, CallToken, HostAdvance, HostGift
<1>3. LedgerKept /\ AtRest' /\ UNCHANGED now
  BY <1>2, FailsKept
<1>4. /\ streams' = Committed.streams /\ streamCount' = Committed.streamCount
      /\ wallet' = Committed.wallet
  BY <1>3, LedgerAtRest DEF LedgerKept
<1>5. PassesAgain(f)'
  BY <1>1, <1>3, <1>4, PassedAgain DEF Begun
<1> QED
  BY <1>1, <1>5

(* A call that a token made to fail can be retried: its checks are passed  *)
(* again in the ledger it failed in, with the same amount.                 *)
THEOREM FailedCallsStayOpen == HostSpec => FailedCallsCanBeRetried
<1>1. ASSUME HostTyped, UnderWay, [HostNext]_hostVars
      PROVE  [ ~AtRest /\ stack' = << >> /\ reply'.result = "TokenError" =>
                 \A f \in {Top} : PassesAgain(f)' ]_hostVars
  BY <1>1, RetryStep
<1> QED
  BY <1>1, AlwaysHostTyped, AlwaysUnderWay, PTL DEF HostSpec, FailedCallsCanBeRetried

-----------------------------------------------------------------------------
(* What the end of an invocation commits, call by call.                    *)

CommitsStream(f, r) ==
  /\ CreateUnderWay(f, r)
  /\ Committed'.streams = WithRecord(Committed.streams, f.id, NewStream(r))
  /\ Committed'.streamCount = NextId(f.id)
  /\ Committed'.events = WithRecord(Committed.events, f.id, <<CreatedEvent(r)>>)
  /\ reply' = Reply(f.call, "Ok", f.id)

CommitsRecord(f, s) ==
  /\ Committed'.streams = WithRecord(Committed.streams, f.id, s)
  /\ Committed'.streamCount = Committed.streamCount
  /\ Committed'.events = [Committed.events EXCEPT ![f.id] = Append(@, f.event)]
  /\ reply' = Reply(f.call, "Ok", f.amount)

CommitsPayout(f) ==
  WithdrawalUnderWay(f) /\ CommitsRecord(f, AfterWithdraw(Committed.streams[f.id], f.amount))

CommitsSettlement(f) ==
  CancellationUnderWay(f) /\ CommitsRecord(f, AfterCancel(Committed.streams[f.id], now))

CommitsMoney(f, part) ==
  /\ part \in 0 .. f.amount /\ (f.token \in Conforming => part = f.amount)
  /\ Contract!CanPay(f.token, f.from, part)
  /\ Committed'.wallet = Contract!Moved(f.token, f.from, f.to, part)

CommitsCall(f) ==
  (\E r \in Requests : CommitsStream(f, r)) \/ CommitsPayout(f) \/ CommitsSettlement(f)

(* Every invocation that is carried through commits one of the three.      *)
LEMMA FinishForms ==
  ASSUME HostTyped, UnderWay, Finish
  PROVE  /\ AtRest' /\ UNCHANGED <<now, surplus>>
         /\ \E f, part : FrameTyped(f) /\ CommitsMoney(f, part) /\ CommitsCall(f)
<1>1. AtRest' /\ UNCHANGED <<now, surplus>>
  BY FinishCommits
<1>2. PICK f, part :
        /\ stack = <<f>> /\ FrameTyped(f) /\ CallUnderWay(f)
        /\ part \in 0 .. f.amount /\ (f.token \in Conforming => part = f.amount)
        /\ Contract!CanPay(f.token, f.from, part)
        /\ Committed'.wallet = Contract!Moved(f.token, f.from, f.to, part)
        /\ f.call = "create_stream" =>
             /\ Committed'.streams
                  = WithRecord(Committed.streams, f.id, NewStream(f.event.terms))
             /\ Committed'.streamCount = NextId(f.id)
             /\ Committed'.events
                  = WithRecord(Committed.events, f.id, <<CreatedEvent(f.event.terms)>>)
             /\ reply' = Reply(f.call, "Ok", f.id)
        /\ f.call # "create_stream" =>
             /\ Committed'.streams = streams
             /\ Committed'.streamCount = Committed.streamCount
             /\ Committed'.events = [Committed.events EXCEPT ![f.id] = Append(@, f.event)]
             /\ reply' = Reply(f.call, "Ok", f.amount)
  BY FinishCommits
<1>3. ASSUME NEW r \in Requests, CreateUnderWay(f, r) PROVE CommitsStream(f, r)
  <2>1. f.call = "create_stream" /\ f.event.terms = r
    BY <1>3 DEF CreateUnderWay, CreatedEvent
  <2> QED
    BY <1>2, <1>3, <2>1 DEF CommitsStream
<1>4. ASSUME WithdrawalUnderWay(f) PROVE CommitsPayout(f)
  <2>1. f.call # "create_stream"
        /\ streams = WithRecord(Committed.streams, f.id,
                                AfterWithdraw(Committed.streams[f.id], f.amount))
    BY <1>4 DEF WithdrawalUnderWay, WithdrawalPassed
  <2> QED
    BY <1>2, <1>4, <2>1 DEF CommitsPayout, CommitsRecord
<1>5. ASSUME CancellationUnderWay(f) PROVE CommitsSettlement(f)
  <2>1. f.call # "create_stream"
        /\ streams = WithRecord(Committed.streams, f.id, AfterCancel(Committed.streams[f.id], now))
    BY <1>5 DEF CancellationUnderWay
  <2> QED
    BY <1>2, <1>5, <2>1 DEF CommitsSettlement, CommitsRecord
<1>6. CommitsCall(f)
  BY <1>2, <1>3, <1>4, <1>5 DEF CallUnderWay, CommitsCall
<1>7. CommitsMoney(f, part)
  BY <1>2 DEF CommitsMoney
<1> QED
  BY <1>1, <1>2, <1>6, <1>7

(* The ledger is always well typed.                                        *)
LEMMA CommittedTyped == HostTyped => StateTyped(Committed)
<1>1. CASE HostTyped /\ AtRest
  BY <1>1, SnapshotTyped DEF HostTyped, Committed
<1>2. CASE HostTyped /\ ~AtRest
  <2>1. PICK f : stack = <<f>> /\ FrameTyped(f)
    BY <1>2 DEF HostTyped
  <2> QED
    BY <2>1, OneFrame DEF FrameTyped
<1> QED
  BY <1>1, <1>2

RecordsKept ==
  /\ Committed'.streams = Committed.streams /\ Committed'.streamCount = Committed.streamCount
  /\ Committed'.events = Committed.events

(* Nothing but the end of an invocation touches the records, and only the  *)
(* closing of a ledger the time.                                           *)
LEMMA OnlyFinishCommits ==
  ASSUME HostTyped, UnderWay, [HostNext]_hostVars, ~Finish
  PROVE  /\ RecordsKept /\ now \in Nat /\ now' \in Nat /\ now <= now'
         /\ \/ LedgerKept /\ UNCHANGED surplus
            \/ /\ AtRest /\ AtRest'
               /\ \E from \in Parties, token \in Tokens, amount \in Gifts : Gift(from, token, amount)
<1>1. TypeOK /\ now \in Nat
  BY DEF HostTyped, TypeOK
<1>2. LedgerKept => RecordsKept
  BY DEF LedgerKept, RecordsKept
<1>3. ASSUME NEW f, AtRest, stack' = <<f>>, f.saved = Snapshot, UNCHANGED <<now, surplus>>
      PROVE  LedgerKept /\ now <= now' /\ now' \in Nat /\ UNCHANGED surplus
  BY <1>1, <1>3, BeginsKept
<1>4. ASSUME NEW r \in Requests, NEW caller \in Addresses, BeginCreate(caller, r)
      PROVE  LedgerKept /\ now <= now' /\ now' \in Nat /\ UNCHANGED surplus
  BY <1>1, <1>3, <1>4, CreateBegun DEF CreateFrame, vars
<1>5. ASSUME NEW f, NEW call, NEW id, NEW s, NEW to, NEW amount, NEW event,
             PayoutBegun(f, call, id, s, to, amount, event)
      PROVE  LedgerKept /\ now <= now' /\ now' \in Nat /\ UNCHANGED surplus
  <2>1. AtRest /\ stack' = <<f>> /\ f.saved = Snapshot /\ UNCHANGED <<now, surplus>>
    BY <1>5 DEF PayoutBegun
  <2> QED
    BY <1>3, <2>1
<1>6. ASSUME NEW id \in Ids, NEW caller \in Addresses, HostWithdraw(caller, id)
      PROVE  LedgerKept /\ now <= now' /\ now' \in Nat /\ UNCHANGED surplus
  BY <1>1, <1>5, <1>6, HostWithdrawBegun
<1>7. ASSUME NEW id \in Ids, NEW caller \in Addresses, NEW amount \in Amounts,
             HostWithdrawAmount(caller, id, amount)
      PROVE  LedgerKept /\ now <= now' /\ now' \in Nat /\ UNCHANGED surplus
  BY <1>1, <1>5, <1>7, HostWithdrawAmountBegun
<1>8. ASSUME NEW id \in Ids, NEW caller \in Addresses, BeginCancel(caller, id)
      PROVE  LedgerKept /\ now <= now' /\ now' \in Nat /\ UNCHANGED surplus
  BY <1>1, <1>5, <1>8, CancelBegun
<1>9. ASSUME TokenMoves
      PROVE  LedgerKept /\ now <= now' /\ now' \in Nat /\ UNCHANGED surplus
  BY <1>1, <1>9, MovesUnderWay DEF LedgerKept, TokenMoves
<1>10. ASSUME TokenFails
       PROVE  LedgerKept /\ now <= now' /\ now' \in Nat /\ UNCHANGED surplus
  BY <1>1, <1>10, FailsKept
<1>11. ASSUME Refused
       PROVE  LedgerKept /\ now <= now' /\ now' \in Nat /\ UNCHANGED surplus
  <2>1. AtRest /\ AtRest' /\ UNCHANGED <<now, streams, streamCount, wallet, surplus, events>>
    BY <1>1, <1>11, RefusedEffect DEF AtRest
  <2> QED
    BY <1>1, <2>1, LedgerAtRest DEF LedgerKept
<1>12. ASSUME HostAdvance
       PROVE  LedgerKept /\ now <= now' /\ now' \in Nat /\ UNCHANGED surplus
  <2>1. AtRest /\ AtRest' /\ UNCHANGED <<streams, streamCount, wallet, surplus, events>>
    BY <1>12 DEF HostAdvance, AdvanceLedger, AtRest
  <2>2. now <= now' /\ now' \in Nat
    BY <1>1, <1>12, InputAssumption DEF HostAdvance, AdvanceLedger
  <2> QED
    BY <2>1, <2>2, LedgerAtRest DEF LedgerKept
<1>13. ASSUME NEW from \in Parties, NEW token \in Tokens, NEW amount \in Gifts,
              HostGift(from, token, amount)
       PROVE  /\ AtRest /\ AtRest' /\ Gift(from, token, amount)
              /\ RecordsKept /\ now <= now' /\ now' \in Nat
  <2>1. /\ AtRest /\ AtRest' /\ Gift(from, token, amount)
        /\ UNCHANGED <<now, streams, streamCount, events>>
    BY <1>13 DEF HostGift, Gift, AtRest
  <2> QED
    BY <1>1, <2>1, LedgerAtRest DEF RecordsKept
<1>14. ASSUME UNCHANGED hostVars
       PROVE  LedgerKept /\ now <= now' /\ now' \in Nat /\ UNCHANGED surplus
  <2>1. UNCHANGED <<now, surplus>> /\ Committed' = Committed
    BY <1>14 DEF hostVars, Committed, AtRest, Snapshot
  <2> QED
    BY <1>1, <2>1 DEF LedgerKept
<1> QED
  BY <1>1, <1>2, <1>4, <1>6, <1>7, <1>8, <1>9, <1>10, <1>11, <1>12, <1>13, <1>14 DEF HostNext

-----------------------------------------------------------------------------
(* The committed records and the committed logs.                           *)

CommittedExplained ==
  \A id \in DOMAIN Committed.streams : Explained(Committed.streams[id], Committed.events[id])

(* A committed payout is in the log.                                       *)
LEMMA PayoutExplained ==
  ASSUME StateTyped(Committed), CommittedExplained, NEW f, f.amount \in Nat, CommitsPayout(f),
         NEW id \in DOMAIN Committed'.streams
  PROVE  Explained(Committed'.streams[id], Committed'.events[id])
<1> DEFINE s == Committed.streams[f.id]
           log == Committed.events[f.id]
<1>1. /\ f.id \in DOMAIN Committed.streams
      /\ f.event = [kind |-> "Withdrawn", recipient |-> s.recipient, amount |-> f.amount]
      /\ Committed'.streams = WithRecord(Committed.streams, f.id, AfterWithdraw(s, f.amount))
      /\ Committed'.events = [Committed.events EXCEPT ![f.id] = Append(@, f.event)]
  BY DEF CommitsPayout, CommitsRecord, WithdrawalUnderWay, Contract!WithdrawnEvent
<1>2. s \in StreamType /\ s.recipient \in Addresses
  BY <1>1 DEF StateTyped, StreamType
<1>3. f.event \in EventType /\ f.event.kind = "Withdrawn" /\ f.event.amount = f.amount
  BY <1>1, <1>2 DEF EventType
<1>4. Explained(AfterWithdraw(s, f.amount), Append(log, f.event))
  <2>1. Explained(s, log)
    BY <1>1 DEF CommittedExplained
  <2> QED
    BY <1>2, <1>3, <2>1, PaidExplained
<1> QED
  BY <1>1, <1>4 DEF WithRecord, StateTyped, CommittedExplained

(* So is a committed settlement, with what it divided.                     *)
LEMMA SettlementExplained ==
  ASSUME StateTyped(Committed), CommittedExplained, now \in Nat, NEW f, CommitsSettlement(f),
         NEW id \in DOMAIN Committed'.streams
  PROVE  Explained(Committed'.streams[id], Committed'.events[id])
<1> DEFINE s == Committed.streams[f.id]
           log == Committed.events[f.id]
<1>1. /\ f.id \in DOMAIN Committed.streams
      /\ f.event = [kind |-> "Cancelled", sender |-> s.sender,
                    recipient_amount |-> SettlementAt(s, now).recipient_remaining,
                    sender_refund |-> SettlementAt(s, now).refund]
      /\ Committed'.streams = WithRecord(Committed.streams, f.id, AfterCancel(s, now))
      /\ Committed'.events = [Committed.events EXCEPT ![f.id] = Append(@, f.event)]
  BY SameArithmetic
     DEF CommitsSettlement, CommitsRecord, CancellationUnderWay, Contract!CancelledEvent,
         Contract!Refund
<1>2. s \in StreamType /\ s.sender \in Addresses
  BY <1>1 DEF StateTyped, StreamType
<1>3. ~s.cancelled
  BY <1>2 DEF CommitsSettlement, CancellationUnderWay, Passes, Contract!CancelResult
<1>4. /\ SettlementAt(s, now).recipient_remaining \in Int /\ SettlementAt(s, now).refund \in Int
  <2>1. s.total_amount \in Nat /\ s.withdrawn \in Nat
    BY <1>2 DEF StreamType
  <2>2. VestedAt(s, now) \in Nat
    BY <1>2, RecordVested, <2>1
  <2> QED
    BY <2>1, <2>2 DEF SettlementAt, Settlement
<1>5. f.event \in EventType /\ f.event.kind = "Cancelled"
  BY <1>1, <1>2, <1>4 DEF EventType
<1>6. Explained(AfterCancel(s, now), Append(log, f.event))
  <2>1. Explained(s, log)
    BY <1>1 DEF CommittedExplained
  <2> QED
    BY <1>1, <1>2, <1>3, <1>5, <2>1, SettledExplained
<1> QED
  BY <1>1, <1>6 DEF WithRecord, StateTyped, CommittedExplained

(* A committed stream has its terms in the log.                            *)
LEMMA CreationExplained ==
  ASSUME StateTyped(Committed), CommittedExplained, NEW f, NEW r \in Requests,
         CommitsStream(f, r), NEW id \in DOMAIN Committed'.streams
  PROVE  Explained(Committed'.streams[id], Committed'.events[id])
<1>1. /\ Committed'.streams = WithRecord(Committed.streams, f.id, NewStream(r))
      /\ Committed'.events = WithRecord(Committed.events, f.id, <<CreatedEvent(r)>>)
  BY DEF CommitsStream
<1> QED
  BY <1>1, NewExplained DEF WithRecord, StateTyped, CommittedExplained

(* Every step keeps every committed record explained.                      *)
LEMMA NextCommittedExplained ==
  ASSUME HostTyped, UnderWay, CommittedExplained, [HostNext]_hostVars
  PROVE  CommittedExplained'
<1> SUFFICES ASSUME NEW id \in DOMAIN Committed'.streams
             PROVE  Explained(Committed'.streams[id], Committed'.events[id])
  BY DEF CommittedExplained, Explained, PaidOut, SettledBy
<1>1. CASE ~Finish
  BY <1>1, OnlyFinishCommits DEF RecordsKept, CommittedExplained
<1>2. CASE Finish
  <2>1. PICK f : FrameTyped(f) /\ CommitsCall(f)
    BY <1>2, FinishForms
  <2>2. StateTyped(Committed) /\ now \in Nat /\ f.amount \in Nat
    BY <2>1, CommittedTyped DEF HostTyped, TypeOK, FrameTyped
  <2> QED
    BY <2>1, <2>2, PayoutExplained, SettlementExplained, CreationExplained DEF CommitsCall
<1> QED
  BY <1>1, <1>2

(* The records in the ledger and the events in the ledger explain each     *)
(* other also while an invocation waits.                                   *)
THEOREM AlwaysCommittedExplained == HostSpec => []CommittedExplained
<1>1. HostInit => CommittedExplained
  BY LedgerAtRest DEF HostInit, Init, AtRest, CommittedExplained
<1> QED
  BY <1>1, NextCommittedExplained, AlwaysHostTyped, AlwaysUnderWay, PTL DEF HostSpec

(* Whatever tokens fail and whenever they do, the published events and the *)
(* records agree between invocations.                                      *)
THEOREM EventsExplainTheLedger == HostSpec => []EventsExplainCommitted
<1>1. HostTyped /\ CommittedExplained => EventsExplainCommitted
  BY LedgerAtRest, ExplainedIsEnough
     DEF CommittedExplained, AllExplained, EventsExplainCommitted, HostTyped
<1> QED
  BY <1>1, AlwaysHostTyped, AlwaysCommittedExplained, PTL

-----------------------------------------------------------------------------
(* Atomicity: with conforming tokens the ledger takes the steps of         *)
(* StreamContract.                                                         *)

(* The end of an invocation that its checks let through is its answer.     *)
LEMMA AnswersOfContract ==
  /\ \A call, result, value : Contract!Reply(call, result, value) = Reply(call, result, value)
  /\ \A r : Contract!NewStream(r) = NewStream(r) /\ Contract!CreatedEvent(r) = CreatedEvent(r)
  /\ \A f, id, s : Contract!WithRecord(f, id, s) = WithRecord(f, id, s)
  /\ \A id : Contract!NextId(id) = NextId(id)
  /\ Contract!Ids = Ids /\ Contract!Addresses = Addresses
<1>1. \A call, result, value : Contract!Reply(call, result, value) = Reply(call, result, value)
  BY DEF Contract!Reply, Reply
<1>2. \A r : Contract!NewStream(r) = NewStream(r) /\ Contract!CreatedEvent(r) = CreatedEvent(r)
  BY DEF Contract!NewStream, NewStream, Contract!CreatedEvent, CreatedEvent
<1>3. \A f, id, s : Contract!WithRecord(f, id, s) = WithRecord(f, id, s)
  BY DEF Contract!WithRecord, WithRecord
<1>4. \A id : Contract!NextId(id) = NextId(id)
  BY DEF Contract!NextId, NextId
<1>5. Contract!Ids = Ids /\ Contract!Addresses = Addresses
  BY DEF Contract!Ids, Ids, Contract!Addresses, Addresses
<1> QED
  BY <1>1, <1>2, <1>3, <1>4, <1>5

(* What is asked of a conforming token is what the checks ask of it last.  *)
LEMMA LastCheck ==
  ASSUME NEW f, FrameTyped(f), StateTyped(Committed)
  PROVE  /\ \A r : CreateUnderWay(f, r) =>
              Contract!CreateResult(r.sender, r)
                = IF Contract!CanPay(f.token, f.from, f.amount) THEN "Ok" ELSE "TokenError"
         /\ WithdrawalUnderWay(f) =>
              \E refusal :
                /\ Contract!WithdrawResult(f.to, f.id, refusal, f.amount)
                     = IF Contract!CanPay(f.token, f.from, f.amount) THEN "Ok" ELSE "TokenError"
                /\ \/ /\ f.call = "withdraw" /\ f.amount = Contract!Available(f.id)
                      /\ refusal = Contract!WithdrawRefusal(f.id)
                   \/ /\ f.call = "withdraw_amount" /\ f.amount \in Amounts
                      /\ refusal = Contract!WithdrawAmountRefusal(f.id, f.amount)
         /\ CancellationUnderWay(f) =>
              Contract!CancelResult(f.to, f.id)
                = IF Contract!CanPay(f.token, f.from, f.amount) THEN "Ok" ELSE "TokenError"
<1>1. ASSUME NEW r, CreateUnderWay(f, r)
      PROVE  Contract!CreateResult(r.sender, r)
               = IF Contract!CanPay(f.token, f.from, f.amount) THEN "Ok" ELSE "TokenError"
  BY <1>1 DEF CreateUnderWay, Passes, Contract!CreateResult
<1>2. ASSUME WithdrawalUnderWay(f), NEW refusal \in Codes \union {"Ok"},
             Passes(Contract!WithdrawResult(f.to, f.id, refusal, f.amount))
      PROVE  Contract!WithdrawResult(f.to, f.id, refusal, f.amount)
               = IF Contract!CanPay(f.token, f.from, f.amount) THEN "Ok" ELSE "TokenError"
  BY <1>2 DEF WithdrawalUnderWay, Passes, Codes, Contract!WithdrawResult
<1>3. /\ Contract!WithdrawRefusal(f.id) \in Codes \union {"Ok"}
      /\ Contract!WithdrawAmountRefusal(f.id, f.amount) \in Codes \union {"Ok"}
  BY DEF Contract!WithdrawRefusal, Contract!WithdrawAmountRefusal, Codes
<1>4. ASSUME CancellationUnderWay(f)
      PROVE  Contract!CancelResult(f.to, f.id)
               = IF Contract!CanPay(f.token, f.from, f.amount) THEN "Ok" ELSE "TokenError"
  <2>1. f.amount > 0 \/ Contract!CanPay(f.token, f.from, f.amount)
    BY DEF FrameTyped, StateTyped, Contract!CanPay
  <2> QED
    BY <1>4, <2>1 DEF CancellationUnderWay, Passes, Contract!CancelResult
<1>5. WithdrawalUnderWay(f) => WithdrawalPassed(f)
  BY DEF WithdrawalUnderWay
<1> QED
  BY <1>1, <1>2, <1>3, <1>4, <1>5 DEF WithdrawalPassed

(* A token that fails is an invocation refused with TokenError.            *)
LEMMA FailureIsStep ==
  ASSUME NEW f, FrameTyped(f), StateTyped(Committed), CallUnderWay(f),
         ~Contract!CanPay(f.token, f.from, f.amount),
         LedgerKept, UNCHANGED <<now, surplus>>, reply' = Reply(f.call, "TokenError", 0)
  PROVE  Contract!Invocation
<1>1. f.from \in Contract!Addresses /\ f.to \in Contract!Addresses
  BY AnswersOfContract DEF FrameTyped
<1>2. \A value : reply' = Contract!Reply(f.call, "TokenError", value)
  BY DEF Reply, Contract!Reply
<1>3. ASSUME NEW r \in Requests, CreateUnderWay(f, r)
      PROVE  Contract!CreateStream(f.from, r)
  <2>1. Contract!CreateResult(f.from, r) = "TokenError" /\ f.call = "create_stream"
    BY <1>3, LastCheck DEF CreateUnderWay
  <2> QED
    BY <1>2, <2>1 DEF Contract!CreateStream, LedgerKept
<1>4. ASSUME NEW refusal, NEW call, f.call = call,
             Contract!WithdrawResult(f.to, f.id, refusal, f.amount) = "TokenError"
      PROVE  Contract!WithdrawWith(call, f.to, f.id, refusal, f.amount)
  BY <1>2, <1>4 DEF Contract!WithdrawWith, LedgerKept
<1>5. ASSUME WithdrawalUnderWay(f)
      PROVE  \/ Contract!Withdraw(f.to, f.id)
             \/ f.amount \in Amounts /\ Contract!WithdrawAmount(f.to, f.id, f.amount)
  BY <1>4, <1>5, LastCheck DEF Contract!Withdraw, Contract!WithdrawAmount
<1>6. ASSUME CancellationUnderWay(f) PROVE Contract!Cancel(f.to, f.id)
  <2>1. Contract!CancelResult(f.to, f.id) = "TokenError" /\ f.call = "cancel"
    BY <1>6, LastCheck DEF CancellationUnderWay
  <2> QED
    BY <1>2, <2>1 DEF Contract!Cancel, LedgerKept
<1>7. WithdrawalUnderWay(f) \/ CancellationUnderWay(f) => f.id \in Contract!Ids
  BY AnswersOfContract DEF WithdrawalUnderWay, CancellationUnderWay
<1> QED
  BY <1>1, <1>3, <1>5, <1>6, <1>7 DEF CallUnderWay, Contract!Invocation

(* The end of an invocation is that invocation, carried through.           *)
LEMMA SuccessIsStep ==
  ASSUME NEW f, FrameTyped(f), StateTyped(Committed), CommitsMoney(f, f.amount), CommitsCall(f),
         UNCHANGED <<now, surplus>>
  PROVE  Contract!Invocation
<1>1. f.from \in Contract!Addresses /\ f.to \in Contract!Addresses
  BY AnswersOfContract DEF FrameTyped
<1>2. Contract!CanPay(f.token, f.from, f.amount)
      /\ Committed'.wallet = Contract!Moved(f.token, f.from, f.to, f.amount)
  BY DEF CommitsMoney
<1>3. ASSUME NEW r \in Requests, CommitsStream(f, r)
      PROVE  Contract!CreateStream(f.from, r)
  <2>1. /\ f.call = "create_stream" /\ f.id = Committed.streamCount
        /\ f.token = r.token /\ f.from = r.sender /\ f.to = This /\ f.amount = r.total_amount
    BY <1>3 DEF CommitsStream, CreateUnderWay
  <2>2. Contract!CreateResult(f.from, r) = "Ok"
    BY <1>2, <1>3, <2>1, LastCheck DEF CommitsStream
  <2>3. Contract!Create(r)
    <3>1. Committed.streamCount \notin DOMAIN Committed.events
      BY DEF StateTyped
    <3>2. Append(Contract!LogOf(f.id), Contract!CreatedEvent(r)) = <<CreatedEvent(r)>>
      BY <2>1, <3>1, AnswersOfContract DEF Contract!LogOf
    <3> QED
      BY <1>2, <1>3, <2>1, <3>2, AnswersOfContract
         DEF Contract!Create, Contract!Store, CommitsStream
  <2>4. reply' = Contract!Reply("create_stream", "Ok", Committed.streamCount)
    BY <1>3, <2>1, AnswersOfContract DEF CommitsStream
  <2> QED
    BY <2>2, <2>3, <2>4 DEF Contract!CreateStream
<1>4. ASSUME NEW refusal, NEW call, f.call = call, CommitsPayout(f),
             Contract!WithdrawResult(f.to, f.id, refusal, f.amount) = "Ok"
      PROVE  Contract!WithdrawWith(call, f.to, f.id, refusal, f.amount)
  <2>1. /\ f.token = Committed.streams[f.id].token
        /\ f.from = This /\ f.to = Committed.streams[f.id].recipient
        /\ f.event = Contract!WithdrawnEvent(f.id, f.amount)
    BY <1>4 DEF CommitsPayout, WithdrawalUnderWay
  <2>2. /\ Committed'.streams = Contract!WithRecord(Committed.streams, f.id,
                                  Contract!AfterWithdraw(Committed.streams[f.id], f.amount))
        /\ Committed'.streamCount = Committed.streamCount
        /\ Committed'.events = [Committed.events EXCEPT ![f.id] = Append(@, f.event)]
        /\ reply' = Contract!Reply(call, "Ok", f.amount)
    BY <1>4, AnswersOfContract, SameArithmetic DEF CommitsPayout, CommitsRecord
  <2>3. Contract!PayRecipient(f.id, f.amount)
    BY <1>2, <2>1, <2>2 DEF Contract!PayRecipient, Contract!Publish
  <2> QED
    BY <1>4, <2>2, <2>3 DEF Contract!WithdrawWith
<1>5. ASSUME CommitsPayout(f)
      PROVE  \/ Contract!Withdraw(f.to, f.id)
             \/ f.amount \in Amounts /\ Contract!WithdrawAmount(f.to, f.id, f.amount)
  <2>1. WithdrawalUnderWay(f)
    BY <1>5 DEF CommitsPayout
  <2>2. PICK refusal :
          /\ Contract!WithdrawResult(f.to, f.id, refusal, f.amount) = "Ok"
          /\ \/ /\ f.call = "withdraw" /\ f.amount = Contract!Available(f.id)
                /\ refusal = Contract!WithdrawRefusal(f.id)
             \/ /\ f.call = "withdraw_amount" /\ f.amount \in Amounts
                /\ refusal = Contract!WithdrawAmountRefusal(f.id, f.amount)
    BY <1>2, <2>1, LastCheck
  <2> QED
    BY <1>4, <1>5, <2>2 DEF Contract!Withdraw, Contract!WithdrawAmount
<1>6. ASSUME CommitsSettlement(f) PROVE Contract!Cancel(f.to, f.id)
  <2>1. /\ f.call = "cancel" /\ f.amount = Contract!Refund(f.id)
        /\ f.token = Committed.streams[f.id].token
        /\ f.from = This /\ f.to = Committed.streams[f.id].sender
        /\ f.event = Contract!CancelledEvent(f.id)
    BY <1>6 DEF CommitsSettlement, CancellationUnderWay
  <2>2. Contract!CancelResult(f.to, f.id) = "Ok"
    BY <1>2, <1>6, LastCheck DEF CommitsSettlement
  <2>3. /\ Committed'.streams = Contract!WithRecord(Committed.streams, f.id,
                                  Contract!AfterCancel(Committed.streams[f.id], now))
        /\ Committed'.streamCount = Committed.streamCount
        /\ Committed'.events = [Committed.events EXCEPT ![f.id] = Append(@, f.event)]
        /\ reply' = Contract!Reply("cancel", "Ok", f.amount)
    BY <1>6, <2>1, AnswersOfContract, SameArithmetic DEF CommitsSettlement, CommitsRecord
  <2>4. Committed'.wallet = IF f.amount > 0 THEN Contract!Moved(f.token, f.from, f.to, f.amount)
                                           ELSE Committed.wallet
    <3>1. CASE f.amount > 0
      BY <1>2, <3>1
    <3>2. CASE ~(f.amount > 0)
      <4>1. f.amount = 0 /\ Committed.wallet \in [Tokens -> [Addresses -> Nat]]
        BY <3>2 DEF FrameTyped, StateTyped
      <4>2. Contract!Moved(f.token, f.from, f.to, 0)
              = [t \in Tokens |-> [a \in Addresses |->
                   Committed.wallet[t][a] + (IF t = f.token /\ a = f.to   THEN 0 ELSE 0)
                                          - (IF t = f.token /\ a = f.from THEN 0 ELSE 0)]]
        BY AnswersOfContract DEF Contract!Moved
      <4>3. Committed.wallet = Contract!Moved(f.token, f.from, f.to, 0)
        BY <4>1, <4>2, MovesNothing
      <4> QED
        BY <1>2, <3>2, <4>1, <4>3
    <3> QED
      BY <3>1, <3>2
  <2>5. Contract!Settle(f.id)
    BY <2>1, <2>3, <2>4 DEF Contract!Settle, Contract!Publish
  <2> QED
    BY <2>1, <2>2, <2>3, <2>5 DEF Contract!Cancel
<1>7. CommitsPayout(f) \/ CommitsSettlement(f) => f.id \in Contract!Ids
  BY AnswersOfContract
     DEF CommitsPayout, CommitsSettlement, WithdrawalUnderWay, CancellationUnderWay
<1> QED
  BY <1>1, <1>3, <1>5, <1>6, <1>7 DEF CommitsCall, Contract!Invocation

(* Between invocations the contract's checks are those of the ledger.      *)
LEMMA ChecksAtRest ==
  ASSUME AtRest
  PROVE  /\ \A caller, r : Contract!CreateResult(caller, r) = CreateResult(caller, r)
         /\ \A caller, id, refusal, amount :
              Contract!WithdrawResult(caller, id, refusal, amount)
                = WithdrawResult(caller, id, refusal, amount)
         /\ \A id : Contract!Available(id) = Available(id)
         /\ \A id : Contract!WithdrawRefusal(id) = WithdrawRefusal(id)
         /\ \A id, amount : Contract!WithdrawAmountRefusal(id, amount) = WithdrawAmountRefusal(id, amount)
         /\ \A caller, id : Contract!CancelResult(caller, id) = CancelResult(caller, id)
<1>1. /\ Committed.streams = streams /\ Committed.streamCount = streamCount
      /\ Committed.wallet = wallet
  BY LedgerAtRest
<1>2. \A id : Contract!Available(id) = Available(id) /\ Contract!Refund(id) = Refund(id)
  BY <1>1, SameArithmetic DEF Contract!Available, Available, Contract!Refund, Refund
<1>3. /\ \A id : Contract!WithdrawRefusal(id) = WithdrawRefusal(id)
      /\ \A id, amount : Contract!WithdrawAmountRefusal(id, amount) = WithdrawAmountRefusal(id, amount)
  BY <1>2 DEF Contract!WithdrawRefusal, WithdrawRefusal, Contract!WithdrawAmountRefusal,
     WithdrawAmountRefusal
<1>4. \A caller, r : Contract!CreateResult(caller, r) = CreateResult(caller, r)
  BY <1>1 DEF CreateResult, Contract!CreateResult, NextIdFits, Contract!NextIdFits, NextId,
     Contract!NextId, CanPay, Contract!CanPay
<1>5. \A caller, id, refusal, amount :
        Contract!WithdrawResult(caller, id, refusal, amount)
          = WithdrawResult(caller, id, refusal, amount)
  BY <1>1 DEF Contract!WithdrawResult, WithdrawResult, Contract!Known, Known, Contract!CanPay, CanPay
<1>6. \A caller, id : Contract!CancelResult(caller, id) = CancelResult(caller, id)
  BY <1>1, <1>2 DEF Contract!CancelResult, CancelResult, Contract!Known, Known, Contract!CanPay,
     CanPay, Contract!Completed, Completed
<1> QED
  BY <1>2, <1>3, <1>4, <1>5, <1>6

(* An invocation refused at once is refused by the contract.               *)
LEMMA RefusalIsStep ==
  ASSUME Refused
  PROVE  Contract!Invocation
<1>1. /\ AtRest /\ Invocation /\ ~Passes(reply'.result)
      /\ UNCHANGED <<now, streams, streamCount, wallet, surplus, events, stack>>
  BY RefusedEffect DEF Refused
<1>2. LedgerKept
  BY <1>1, LedgerAtRest DEF LedgerKept, AtRest
<1>3. \A call, result, value, other : result # "Ok" =>
        Reply(call, result, value) = Contract!Reply(call, result, other)
  BY DEF Reply, Contract!Reply
<1>4. \A call, result, value : reply' = Reply(call, result, value) => result # "Ok"
  BY <1>1 DEF Reply, Passes
<1>5. ASSUME NEW r, NEW caller, CreateStream(caller, r) PROVE Contract!CreateStream(caller, r)
  <2>1. reply' = Reply("create_stream", CreateResult(caller, r), streamCount)
    BY <1>5 DEF CreateStream
  <2> QED
    BY <1>1, <1>2, <1>3, <1>4, <2>1, ChecksAtRest DEF Contract!CreateStream, LedgerKept
<1>6. ASSUME NEW call, NEW caller, NEW id, NEW refusal, NEW amount,
             WithdrawWith(call, caller, id, refusal, amount)
      PROVE  Contract!WithdrawWith(call, caller, id, refusal, amount)
  <2>1. reply' = Reply(call, WithdrawResult(caller, id, refusal, amount), amount)
    BY <1>6 DEF WithdrawWith
  <2> QED
    BY <1>1, <1>2, <1>3, <1>4, <2>1, ChecksAtRest DEF Contract!WithdrawWith, LedgerKept
<1>7. ASSUME NEW caller, NEW id, Cancel(caller, id) PROVE Contract!Cancel(caller, id)
  <2>1. reply' = Reply("cancel", CancelResult(caller, id), Refund(id))
    BY <1>7 DEF Cancel
  <2> QED
    BY <1>1, <1>2, <1>3, <1>4, <2>1, ChecksAtRest DEF Contract!Cancel, LedgerKept
<1>8. \A caller, id : Withdraw(caller, id) => Contract!Withdraw(caller, id)
  BY <1>1, <1>6, ChecksAtRest DEF Withdraw, Contract!Withdraw
<1>9. \A caller, id, amount : WithdrawAmount(caller, id, amount) => Contract!WithdrawAmount(caller, id, amount)
  BY <1>1, <1>6, ChecksAtRest DEF WithdrawAmount, Contract!WithdrawAmount
<1> QED
  BY <1>1, <1>5, <1>7, <1>8, <1>9, AnswersOfContract DEF Invocation, Contract!Invocation

(* A gift to the contract is a gift.                                       *)
LEMMA GiftIsStep ==
  ASSUME AtRest, AtRest', NEW from, NEW token, NEW amount, Gift(from, token, amount)
  PROVE  Contract!Gift(from, token, amount)
<1>1. /\ Committed.streams = streams /\ Committed.streamCount = streamCount
      /\ Committed.wallet = wallet /\ Committed.events = events
      /\ Committed'.streams = streams' /\ Committed'.streamCount = streamCount'
      /\ Committed'.wallet = wallet' /\ Committed'.events = events'
  BY LedgerAtRest
<1>2. Contract!Moved(token, from, This, amount) = Moved(token, from, This, amount)
  BY <1>1, AnswersOfContract DEF Contract!Moved, Moved
<1> QED
  BY <1>1, <1>2 DEF Gift, Contract!Gift, CanPay, Contract!CanPay

(* Every step of the host is a step of the contract, or none.              *)
LEMMA StepsOfContract ==
  ASSUME Conforming = Tokens, HostTyped, UnderWay, [HostNext]_hostVars
  PROVE  [Contract!Next]_(Contract!vars)
<1>1. TypeOK /\ StateTyped(Committed)
  BY CommittedTyped DEF HostTyped
<1>2. ASSUME LedgerKept, UNCHANGED <<now, surplus, reply>> PROVE UNCHANGED Contract!vars
  BY <1>2 DEF LedgerKept, Contract!vars
<1>3. ASSUME NEW r \in Requests, NEW caller \in Addresses, BeginCreate(caller, r)
      PROVE  UNCHANGED Contract!vars
  BY <1>1, <1>2, <1>3, CreateBegun, BeginsKept DEF CreateFrame, vars
<1>4. ASSUME NEW f, NEW call, NEW id, NEW s, NEW to, NEW amount, NEW event,
             PayoutBegun(f, call, id, s, to, amount, event)
      PROVE  UNCHANGED Contract!vars
  BY <1>2, <1>4, BeginsKept DEF PayoutBegun
<1>5. ASSUME NEW id \in Ids, NEW caller \in Addresses,
             \/ HostWithdraw(caller, id) \/ BeginCancel(caller, id)
             \/ \E amount \in Amounts : HostWithdrawAmount(caller, id, amount)
      PROVE  UNCHANGED Contract!vars
  BY <1>1, <1>4, <1>5, HostWithdrawBegun, HostWithdrawAmountBegun, CancelBegun
<1>6. ASSUME TokenMoves PROVE UNCHANGED Contract!vars
  BY <1>2, <1>6, MovesUnderWay DEF LedgerKept, TokenMoves
<1>7. ASSUME TokenFails PROVE Contract!Invocation
  <2>1. PICK f : /\ FrameTyped(f) /\ CallUnderWay(f) /\ reply' = Reply(f.call, "TokenError", 0)
                 /\ f.token \in Conforming => ~Contract!CanPay(f.token, f.from, f.amount)
    BY <1>7, FailsKept
  <2>2. LedgerKept /\ UNCHANGED <<now, surplus>>
    BY <1>7, FailsKept
  <2>3. f.token \in Conforming
    BY <2>1 DEF FrameTyped
  <2> QED
    BY <1>1, <2>1, <2>2, <2>3, FailureIsStep
<1>8. ASSUME Finish PROVE Contract!Invocation
  <2>1. PICK f, part : FrameTyped(f) /\ CommitsMoney(f, part) /\ CommitsCall(f)
    BY <1>8, FinishForms
  <2>2. part = f.amount
    BY <2>1 DEF FrameTyped, CommitsMoney
  <2> QED
    BY <1>1, <1>8, <2>1, <2>2, FinishForms, SuccessIsStep
<1>9. ASSUME HostAdvance PROVE Contract!AdvanceLedger
  <2>1. /\ AtRest /\ AtRest' /\ UNCHANGED <<streams, streamCount, wallet, surplus, events, reply>>
        /\ \E t \in Times : t > now /\ now' = t
    BY <1>9 DEF HostAdvance, AdvanceLedger, AtRest
  <2>2. LedgerKept
    BY <2>1, LedgerAtRest DEF LedgerKept
  <2> QED
    BY <2>1, <2>2 DEF Contract!AdvanceLedger, LedgerKept
<1>10. ASSUME NEW from \in Parties, NEW token \in Tokens, NEW amount \in Gifts,
              HostGift(from, token, amount)
       PROVE  Contract!Gift(from, token, amount)
  BY <1>10, GiftIsStep DEF HostGift, AtRest
<1>11. ASSUME UNCHANGED hostVars PROVE UNCHANGED Contract!vars
  BY <1>11 DEF hostVars, Committed, AtRest, Snapshot, Contract!vars
<1> QED
  BY <1>3, <1>5, <1>6, <1>7, <1>8, <1>9, <1>10, <1>11, RefusalIsStep DEF HostNext, Contract!Next

(* With conforming tokens only, invocations are atomic: the host's steps   *)
(* take the ledger from state to state as StreamContract says, so that     *)
(* what holds of StreamContract holds of every committed ledger.           *)
THEOREM AtomicWhenAllConform ==
  ASSUME Conforming = Tokens
  PROVE  HostSpec => InvocationsAreAtomic
<1>1. HostInit => Contract!Init
  <2>1. HostInit => /\ Committed.streams = streams /\ Committed.streamCount = streamCount
                    /\ Committed.wallet = wallet /\ Committed.events = events
    BY LedgerAtRest DEF HostInit, AtRest
  <2> QED
    BY <2>1, AnswersOfContract DEF HostInit, Init, Contract!Init
<1>2. HostTyped /\ UnderWay /\ [HostNext]_hostVars => [Contract!Next]_(Contract!vars)
  BY StepsOfContract
<1> QED
  BY <1>1, <1>2, AlwaysHostTyped, AlwaysUnderWay, PTL
     DEF HostSpec, InvocationsAreAtomic, Contract!Spec

-----------------------------------------------------------------------------
(* What the checks had established of the record that is committed.        *)

(* A new stream is in order, has something to stream and a fresh id.       *)
LEMMA StreamCommitted ==
  ASSUME HostTyped, NEW f, FrameTyped(f), NEW r \in Requests, CommitsStream(f, r)
  PROVE  /\ f.id \in Ids /\ f.id \notin DOMAIN Committed.streams
         /\ NewStream(r) \in StreamType
         /\ This \notin {r.sender, r.recipient}
         /\ r.start_time <= r.cliff_time /\ r.cliff_time <= r.end_time /\ now < r.end_time
         /\ r.total_amount \in 1 .. MaxAmount
         /\ f.token = r.token /\ f.from # This /\ f.to = This /\ f.amount = r.total_amount
         /\ Committed'.streams = WithRecord(Committed.streams, f.id, NewStream(r))
<1>1. CreateUnderWay(f, r) /\ StateTyped(Committed) /\ now \in Nat
  BY CommittedTyped DEF CommitsStream, HostTyped, TypeOK
<1>2. /\ f.call = "create_stream" /\ f.id = Committed.streamCount /\ f.event.terms = r
      /\ f.token = r.token /\ f.from = r.sender /\ f.to = This /\ f.amount = r.total_amount
      /\ Contract!CreateResult(r.sender, r) \in {"Ok", "TokenError"}
  BY <1>1 DEF CreateUnderWay, CreatedEvent, Passes
<1>3. f.id \in Ids /\ f.id \notin DOMAIN Committed.streams
  BY <1>1, <1>2, LimitAssumption DEF StateTyped, Ids
<1>4. NewStream(r) \in StreamType
  BY <1>2 DEF FrameTyped
<1>5. r.start_time \in Nat /\ r.end_time \in Nat /\ r.cliff_time \in Nat /\ r.total_amount \in Nat
  BY <1>4 DEF NewStream, StreamType
<1>6. /\ This \notin {r.sender, r.recipient, r.token}
      /\ ~(r.total_amount <= 0) /\ ~(r.total_amount > MaxAmount)
      /\ ~(r.cliff_time < r.start_time) /\ ~(r.cliff_time > r.end_time)
      /\ ~(r.end_time <= now)
  BY <1>2 DEF Contract!CreateResult
<1>7. Committed'.streams = WithRecord(Committed.streams, f.id, NewStream(r))
  BY DEF CommitsStream
<1>8. r.total_amount \in 1 .. MaxAmount
  BY <1>5, <1>6, LimitAssumption
<1> QED
  BY <1>1, <1>2, <1>3, <1>4, <1>5, <1>6, <1>7, <1>8

(* A payout is within what has vested and goes to the recipient.           *)
LEMMA PayoutCommitted ==
  ASSUME HostTyped, NEW f, FrameTyped(f), CommitsPayout(f),
         NEW s, s = Committed.streams[f.id], InOrder(s, now)
  PROVE  /\ f.id \in DOMAIN Committed.streams /\ s \in StreamType
         /\ f.amount \in Nat /\ f.amount > 0 /\ s.withdrawn + f.amount <= VestedAt(s, now)
         /\ f.token = s.token /\ f.from = This /\ f.to # This
         /\ Committed'.streams = WithRecord(Committed.streams, f.id, AfterWithdraw(s, f.amount))
<1>1. /\ WithdrawalUnderWay(f) /\ StateTyped(Committed) /\ now \in Nat /\ f.amount \in Nat
      /\ Committed'.streams = WithRecord(Committed.streams, f.id, AfterWithdraw(s, f.amount))
  BY CommittedTyped DEF CommitsPayout, CommitsRecord, FrameTyped, HostTyped, TypeOK
<1>2. /\ f.id \in DOMAIN Committed.streams /\ WithdrawalPassed(f)
      /\ f.token = s.token /\ f.from = This /\ f.to = s.recipient
  BY <1>1 DEF WithdrawalUnderWay
<1>3. s \in StreamType
  BY <1>1, <1>2 DEF StateTyped
<1>4. /\ Contract!Available(f.id) = VestedAt(s, now) - s.withdrawn
      /\ VestedAt(s, now) \in Nat /\ s.withdrawn \in Nat
  BY <1>1, <1>3, Unclamped, SameArithmetic DEF Contract!Available
<1>5. f.amount > 0 /\ f.amount <= Contract!Available(f.id)
  <2>1. \A refusal \in Codes \union {"Ok"} :
          Passes(Contract!WithdrawResult(f.to, f.id, refusal, f.amount)) => refusal = "Ok"
    BY DEF Passes, Codes, Contract!WithdrawResult
  <2>2. \/ f.amount = Contract!Available(f.id) /\ Contract!WithdrawRefusal(f.id) = "Ok"
        \/ Contract!WithdrawAmountRefusal(f.id, f.amount) = "Ok"
    BY <1>2, <2>1
       DEF WithdrawalPassed, Contract!WithdrawRefusal, Contract!WithdrawAmountRefusal, Codes
  <2> QED
    BY <1>1, <1>4, <2>2 DEF Contract!WithdrawRefusal, Contract!WithdrawAmountRefusal
<1> QED
  BY <1>1, <1>2, <1>3, <1>4, <1>5 DEF InOrder

(* A settlement is the first and refunds what has not vested.              *)
LEMMA SettlementCommitted ==
  ASSUME HostTyped, NEW f, FrameTyped(f), CommitsSettlement(f),
         NEW s, s = Committed.streams[f.id], InOrder(s, now)
  PROVE  /\ f.id \in DOMAIN Committed.streams /\ s \in StreamType
         /\ ~s.cancelled
         /\ f.amount = s.total_amount - VestedAt(s, now)
         /\ f.token = s.token /\ f.from = This /\ f.to # This
         /\ Committed'.streams = WithRecord(Committed.streams, f.id, AfterCancel(s, now))
<1>1. /\ CancellationUnderWay(f) /\ StateTyped(Committed)
      /\ Committed'.streams = WithRecord(Committed.streams, f.id, AfterCancel(s, now))
  BY CommittedTyped DEF CommitsSettlement, CommitsRecord, HostTyped
<1>2. /\ f.id \in DOMAIN Committed.streams /\ Passes(Contract!CancelResult(f.to, f.id))
      /\ f.token = s.token /\ f.from = This /\ f.to = s.sender
      /\ f.amount = SettlementAt(s, now).refund
  BY <1>1, SameArithmetic DEF CancellationUnderWay, Contract!Refund
<1>3. ~s.cancelled
  BY <1>2 DEF Passes, Contract!CancelResult
<1> QED
  BY <1>1, <1>2, <1>3 DEF StateTyped, SettlementAt, Settlement, InOrder

-----------------------------------------------------------------------------
(* The committed records are in order, whatever tokens do.                 *)

OrderedAt(s, t) == InOrder(s, t) /\ (s.cancelled => s.end_time <= t)

LedgerInOrder ==
  \A id \in DOMAIN Committed.streams : OrderedAt(Committed.streams[id], now)

(* Every step keeps them so.                                               *)
LEMMA NextLedgerInOrder ==
  ASSUME HostTyped, UnderWay, LedgerInOrder, [HostNext]_hostVars
  PROVE  LedgerInOrder'
<1> SUFFICES ASSUME NEW id \in DOMAIN Committed'.streams
             PROVE  OrderedAt(Committed'.streams[id], now')
  BY DEF LedgerInOrder, OrderedAt, InOrder
<1>1. /\ StateTyped(Committed) /\ now \in Nat
      /\ \A i \in DOMAIN Committed.streams :
           Committed.streams[i] \in StreamType /\ OrderedAt(Committed.streams[i], now)
  BY CommittedTyped DEF HostTyped, TypeOK, StateTyped, LedgerInOrder
<1>2. CASE ~Finish
  <2>1. Committed'.streams = Committed.streams /\ now' \in Nat /\ now <= now'
    BY <1>2, OnlyFinishCommits DEF RecordsKept
  <2>2. Committed.streams[id] \in StreamType /\ InOrder(Committed.streams[id], now)
        /\ (Committed.streams[id].cancelled => Committed.streams[id].end_time <= now)
    BY <1>1, <2>1 DEF OrderedAt
  <2>3. InOrder(Committed.streams[id], now') /\ Committed.streams[id].end_time \in Nat
    BY <1>1, <2>1, <2>2, InOrderLater DEF StreamType
  <2> QED
    BY <1>1, <2>1, <2>2, <2>3 DEF OrderedAt
<1>3. CASE Finish
  <2>1. PICK f : FrameTyped(f) /\ CommitsCall(f) /\ now' = now
    BY <1>3, FinishForms
  <2>2. ASSUME NEW r \in Requests, CommitsStream(f, r) PROVE OrderedAt(Committed'.streams[id], now)
    <3>1. OrderedAt(NewStream(r), now)
      <4>1. /\ NewStream(r) \in StreamType /\ r.total_amount <= MaxAmount
            /\ This \notin {r.sender, r.recipient}
            /\ r.start_time <= r.cliff_time /\ r.cliff_time <= r.end_time
        BY <2>1, <2>2, StreamCommitted, LimitAssumption
      <4>2. ~NewStream(r).cancelled
        BY DEF NewStream
      <4> QED
        BY <1>1, <4>1, <4>2, NewInOrder DEF OrderedAt
    <3>2. Committed'.streams = WithRecord(Committed.streams, f.id, NewStream(r))
      BY <2>2 DEF CommitsStream
    <3> QED
      BY <1>1, <3>1, <3>2 DEF WithRecord
  <2>3. ASSUME CommitsPayout(f) PROVE OrderedAt(Committed'.streams[id], now)
    <3> DEFINE s == Committed.streams[f.id]
    <3>1. f.id \in DOMAIN Committed.streams
      BY <2>3 DEF CommitsPayout, WithdrawalUnderWay
    <3>2. /\ s \in StreamType /\ InOrder(s, now) /\ f.amount \in Nat
          /\ s.withdrawn + f.amount <= VestedAt(s, now)
          /\ Committed'.streams = WithRecord(Committed.streams, f.id, AfterWithdraw(s, f.amount))
      BY <1>1, <2>1, <2>3, <3>1, PayoutCommitted DEF OrderedAt
    <3>3. InOrder(AfterWithdraw(s, f.amount), now)
      BY <1>1, <3>2, PaidInOrder
    <3>4. AfterWithdraw(s, f.amount).cancelled = s.cancelled
          /\ AfterWithdraw(s, f.amount).end_time = s.end_time
      BY <3>2 DEF AfterWithdraw, StreamType
    <3>5. OrderedAt(AfterWithdraw(s, f.amount), now)
      BY <1>1, <3>1, <3>3, <3>4 DEF OrderedAt
    <3> QED
      BY <1>1, <3>2, <3>5 DEF WithRecord
  <2>4. ASSUME CommitsSettlement(f) PROVE OrderedAt(Committed'.streams[id], now)
    <3> DEFINE s == Committed.streams[f.id]
    <3>1. f.id \in DOMAIN Committed.streams
      BY <2>4 DEF CommitsSettlement, CancellationUnderWay
    <3>2. /\ s \in StreamType /\ InOrder(s, now)
          /\ Committed'.streams = WithRecord(Committed.streams, f.id, AfterCancel(s, now))
      BY <1>1, <2>1, <2>4, <3>1, SettlementCommitted DEF OrderedAt
    <3>3. InOrder(AfterCancel(s, now), now) /\ AfterCancel(s, now).end_time = now
      BY <1>1, <3>2, SettledInOrder, AfterCancelRecord
    <3>4. OrderedAt(AfterCancel(s, now), now)
      BY <1>1, <3>3 DEF OrderedAt
    <3> QED
      BY <1>1, <3>2, <3>4 DEF WithRecord
  <2> QED
    BY <2>1, <2>2, <2>3, <2>4 DEF CommitsCall
<1> QED
  BY <1>2, <1>3

(* No committed record is ever out of order: no token can get a recipient  *)
(* ahead of the schedule, or a settled stream to vest again.               *)
THEOREM AlwaysLedgerInOrder == HostSpec => []LedgerInOrder
<1>1. HostInit => LedgerInOrder
  BY LedgerAtRest DEF HostInit, Init, AtRest, LedgerInOrder
<1> QED
  BY <1>1, NextLedgerInOrder, AlwaysHostTyped, AlwaysUnderWay, PTL DEF HostSpec

-----------------------------------------------------------------------------
(* The promise of the conforming tokens.                                   *)

honestPromise == [id \in HonestStreams |-> PromiseOf(Committed.streams[id], now)]
HonestPot(t)  == Committed.wallet[t][This] - surplus[t]
honestPot     == [t \in Conforming |-> HonestPot(t)]

(* What a payment does to the pots.                                        *)
LEMMA PotMoved ==
  ASSUME HostTyped, NEW f, FrameTyped(f), NEW part \in Nat,
         Committed'.wallet = Contract!Moved(f.token, f.from, f.to, part),
         UNCHANGED surplus, NEW t \in Tokens
  PROVE  /\ HonestPot(t) \in Int
         /\ HonestPot(t)' = HonestPot(t) + (IF t = f.token /\ This = f.to THEN part ELSE 0)
                                        - (IF t = f.token /\ This = f.from THEN part ELSE 0)
<1>1. /\ Committed.wallet \in [Tokens -> [Addresses -> Nat]] /\ surplus \in [Tokens -> Nat]
      /\ This \in Addresses
  BY CommittedTyped DEF StateTyped, HostTyped, TypeOK, Addresses
<1>2. Committed'.wallet[t][This]
        = Committed.wallet[t][This] + (IF t = f.token /\ This = f.to THEN part ELSE 0)
                                    - (IF t = f.token /\ This = f.from THEN part ELSE 0)
  BY <1>1 DEF Contract!Moved, Contract!Addresses, Addresses
<1>3. Committed.wallet[t][This] \in Nat /\ surplus[t] \in Nat
  BY <1>1
<1> QED
  BY <1>2, <1>3 DEF HonestPot

(* A step that touches neither the records nor the pots lets promises earn *)
(* at most.                                                                *)
LEMMA EarnsHonest ==
  ASSUME HostTyped, LedgerInOrder, RecordsKept, now' \in Nat, now <= now',
         \A t \in Conforming : HonestPot(t)' = HonestPot(t)
  PROVE  HonestPromise!Earn
<1>1. honestPot' = honestPot
  BY DEF honestPot
<1>2. /\ Committed'.streams = Committed.streams
      /\ HonestStreams' = HonestStreams /\ DOMAIN honestPromise' = DOMAIN honestPromise
  BY DEF RecordsKept, HonestStreams, honestPromise
<1>3. ASSUME NEW n \in DOMAIN honestPromise
      PROVE  /\ honestPromise'[n] = [honestPromise[n] EXCEPT !.earned = honestPromise'[n].earned]
             /\ honestPromise[n].earned <= honestPromise'[n].earned
             /\ honestPromise'[n].earned <= honestPromise[n].cap
             /\ ~honestPromise[n].open => honestPromise'[n].earned = honestPromise[n].earned
  <2>1. n \in HonestStreams /\ n \in DOMAIN Committed.streams
    BY DEF honestPromise, HonestStreams
  <2>2. honestPromise[n] = PromiseOf(Committed.streams[n], now)
        /\ honestPromise'[n] = PromiseOf(Committed.streams[n], now')
    BY <1>2, <2>1 DEF honestPromise
  <2>3. /\ Committed.streams[n] \in StreamType /\ InOrder(Committed.streams[n], now)
        /\ Committed.streams[n].cancelled => Committed.streams[n].end_time <= now
        /\ now \in Nat
    BY <2>1, CommittedTyped DEF StateTyped, LedgerInOrder, OrderedAt, HostTyped, TypeOK
  <2> QED
    BY <2>2, <2>3, EarnedLater
<1> QED
  BY <1>1, <1>2, <1>3 DEF HonestPromise!Earn, honestPromise, PromiseOf, honestPot, HonestPot

PromisesWith(id, p) ==
  [n \in DOMAIN honestPromise \union {id} |-> IF n = id THEN p ELSE honestPromise[n]]

(* A step on one record, whose token stays what it was, is a step on that  *)
(* promise, if it is one.                                                  *)
LEMMA OnePromise ==
  ASSUME NEW id, NEW s, now' = now,
         Committed'.streams = WithRecord(Committed.streams, id, s),
         id \in DOMAIN Committed.streams => Committed.streams[id].token = s.token
  PROVE  /\ s.token \in Conforming =>
              honestPromise' = PromisesWith(id, PromiseOf(s, now))
         /\ s.token \notin Conforming => honestPromise' = honestPromise
         /\ id \in DOMAIN honestPromise <=>
              id \in DOMAIN Committed.streams /\ s.token \in Conforming
<1>1. /\ DOMAIN Committed'.streams = DOMAIN Committed.streams \union {id}
      /\ Committed'.streams[id] = s
      /\ \A n \in DOMAIN Committed.streams : n # id => Committed'.streams[n] = Committed.streams[n]
  BY DEF WithRecord
<1>2. DOMAIN honestPromise = HonestStreams /\ DOMAIN honestPromise' = HonestStreams'
  BY DEF honestPromise
<1>3. HonestStreams' = HonestStreams \union (IF s.token \in Conforming THEN {id} ELSE {})
  BY <1>1 DEF HonestStreams
<1>4. \A n \in HonestStreams' :
        honestPromise'[n] = PromiseOf(Committed'.streams[n], now)
  BY DEF honestPromise
<1>5. \A n \in HonestStreams :
        n \in DOMAIN Committed.streams /\ honestPromise[n] = PromiseOf(Committed.streams[n], now)
  BY DEF honestPromise, HonestStreams
<1>6. id \in HonestStreams <=> id \in DOMAIN Committed.streams /\ s.token \in Conforming
  BY DEF HonestStreams
<1>7. honestPromise' = [n \in HonestStreams' |-> PromiseOf(Committed'.streams[n], now)]
      /\ honestPromise = [n \in HonestStreams |-> PromiseOf(Committed.streams[n], now)]
  BY DEF honestPromise
<1>8. CASE s.token \in Conforming
  BY <1>1, <1>2, <1>3, <1>5, <1>6, <1>7, <1>8 DEF PromisesWith
<1>9. CASE s.token \notin Conforming
  <2>1. \A n \in HonestStreams : Committed'.streams[n] = Committed.streams[n]
    BY <1>1, <1>5, <1>6, <1>9
  <2> QED
    BY <1>2, <1>3, <1>6, <1>7, <1>9, <2>1
<1> QED
  BY <1>8, <1>9

(* The whole amount of a call moves in a conforming token, in or out of    *)
(* its pot; the pots of conforming tokens do not notice the others.        *)
LEMMA PotsMoved ==
  ASSUME HostTyped, NEW f, FrameTyped(f), NEW part, CommitsMoney(f, part), UNCHANGED surplus
  PROVE  /\ f.token \in Conforming /\ f.to = This /\ f.from # This =>
              honestPot' = [honestPot EXCEPT ![f.token] = @ + f.amount]
         /\ f.token \in Conforming /\ f.from = This /\ f.to # This =>
              honestPot' = [honestPot EXCEPT ![f.token] = @ - f.amount]
         /\ f.token \notin Conforming => honestPot' = honestPot
<1>1. /\ part \in Nat /\ f.amount \in Nat /\ (f.token \in Conforming => part = f.amount)
      /\ Committed'.wallet = Contract!Moved(f.token, f.from, f.to, part)
  BY DEF CommitsMoney, FrameTyped
<1>2. \A t \in Conforming :
        /\ HonestPot(t) \in Int
        /\ HonestPot(t)' = HonestPot(t) + (IF t = f.token /\ This = f.to THEN part ELSE 0)
                                        - (IF t = f.token /\ This = f.from THEN part ELSE 0)
  BY <1>1, PotMoved, ConformingAssumption
<1>3. honestPot = [t \in Conforming |-> HonestPot(t)]
      /\ honestPot' = [t \in Conforming |-> HonestPot(t)']
  BY DEF honestPot
<1>4. CASE f.token \in Conforming /\ f.to = This /\ f.from # This
  <2>1. \A t \in Conforming : HonestPot(t)' = HonestPot(t) + (IF t = f.token THEN f.amount ELSE 0)
    BY <1>1, <1>2, <1>4
  <2> QED
    BY <1>2, <1>3, <1>4, <2>1
<1>5. CASE f.token \in Conforming /\ f.from = This /\ f.to # This
  <2>1. \A t \in Conforming : HonestPot(t)' = HonestPot(t) - (IF t = f.token THEN f.amount ELSE 0)
    BY <1>1, <1>2, <1>5
  <2> QED
    BY <1>2, <1>3, <1>5, <2>1
<1>6. CASE f.token \notin Conforming
  BY <1>2, <1>3, <1>6
<1> QED
  BY <1>4, <1>5, <1>6

(* A committed stream opens a promise, if its token conforms.              *)
LEMMA OpensHonest ==
  ASSUME HostTyped, NEW f, FrameTyped(f), NEW part, CommitsMoney(f, part),
         NEW r \in Requests, CommitsStream(f, r), UNCHANGED <<now, surplus>>
  PROVE  [HonestPromise!Next]_(HonestPromise!vars)
<1>1. /\ f.id \in Ids /\ f.id \notin DOMAIN Committed.streams
      /\ NewStream(r) \in StreamType /\ now < r.end_time /\ r.total_amount \in 1 .. MaxAmount
      /\ f.token = r.token /\ f.from # This /\ f.to = This /\ f.amount = r.total_amount
      /\ Committed'.streams = WithRecord(Committed.streams, f.id, NewStream(r))
      /\ NewStream(r).token = r.token
  BY StreamCommitted DEF NewStream
<1>2. f.id \notin DOMAIN honestPromise
  BY <1>1, OnePromise
<1>3. CASE r.token \in Conforming
  <2>1. r.total_amount > 0 /\ now \in Nat
    BY <1>1, LimitAssumption DEF HostTyped, TypeOK
  <2>2. PICK earned \in 0 .. r.total_amount - 1 :
          PromiseOf(NewStream(r), now)
            = [currency |-> r.token, cap |-> r.total_amount, earned |-> earned,
               paid |-> 0, open |-> TRUE]
    BY <1>1, <2>1, NewPromise
  <2>3. honestPromise' = [n \in DOMAIN honestPromise \union {f.id} |->
                            IF n = f.id
                              THEN [currency |-> r.token, cap |-> r.total_amount,
                                    earned |-> earned, paid |-> 0, open |-> TRUE]
                              ELSE honestPromise[n]]
    <3>1. honestPromise' = PromisesWith(f.id, PromiseOf(NewStream(r), now))
      BY <1>1, <1>3, OnePromise
    <3> QED
      BY <2>2, <3>1 DEF PromisesWith
  <2>4. honestPot' = [honestPot EXCEPT ![r.token] = @ + r.total_amount]
    BY <1>1, <1>3, PotsMoved
  <2>5. earned < r.total_amount
    BY <2>2, LimitAssumption, <1>1
  <2>6. HonestPromise!Open(f.id, r.token, r.total_amount, earned)
    BY <1>2, <2>3, <2>4, <2>5
       DEF HonestPromise!Open, HonestPromise!With, honestPromise, honestPot, HonestPot, PromiseOf
  <2>7. \E name \in Ids \ DOMAIN honestPromise, c \in Conforming, cap \in 1 .. MaxAmount :
          \E e \in 0 .. cap - 1 : HonestPromise!Open(name, c, cap, e)
    BY <1>1, <1>2, <1>3, <2>2, <2>6
  <2> QED
    BY <2>7 DEF HonestPromise!Next, honestPromise, PromiseOf
<1>4. CASE r.token \notin Conforming
  <2>1. honestPromise' = honestPromise /\ honestPot' = honestPot
    BY <1>1, <1>4, OnePromise, PotsMoved
  <2> QED
    BY <2>1 DEF HonestPromise!vars, honestPromise, honestPot, HonestPot, PromiseOf
<1> QED
  BY <1>3, <1>4

(* A committed payout is paid on its promise, if its token conforms.       *)
LEMMA PaysHonest ==
  ASSUME HostTyped, LedgerInOrder, NEW f, FrameTyped(f), NEW part, CommitsMoney(f, part),
         CommitsPayout(f), UNCHANGED <<now, surplus>>
  PROVE  [HonestPromise!Next]_(HonestPromise!vars)
<1>1. PICK s : s = Committed.streams[f.id]
  OBVIOUS
<1>2. InOrder(s, now) /\ now \in Nat
  BY <1>1 DEF LedgerInOrder, OrderedAt, CommitsPayout, WithdrawalUnderWay, HostTyped, TypeOK
<1>3. /\ f.id \in DOMAIN Committed.streams /\ s \in StreamType
      /\ f.amount \in Nat /\ f.amount > 0 /\ s.withdrawn + f.amount <= VestedAt(s, now)
      /\ f.token = s.token /\ f.from = This /\ f.to # This
      /\ Committed'.streams = WithRecord(Committed.streams, f.id, AfterWithdraw(s, f.amount))
  BY <1>1, <1>2, PayoutCommitted
<1>4. AfterWithdraw(s, f.amount).token = s.token
  BY <1>3 DEF AfterWithdraw, StreamType
<1>5. CASE s.token \in Conforming
  <2>1. f.id \in DOMAIN honestPromise /\ honestPromise[f.id] = PromiseOf(s, now)
    BY <1>1, <1>3, <1>5 DEF honestPromise, HonestStreams
  <2>2. honestPromise' = [n \in DOMAIN honestPromise \union {f.id} |->
                            IF n = f.id THEN [honestPromise[f.id] EXCEPT !.paid = @ + f.amount]
                                        ELSE honestPromise[n]]
    <3>1. honestPromise' = PromisesWith(f.id, PromiseOf(AfterWithdraw(s, f.amount), now))
      BY <1>1, <1>3, <1>4, <1>5, OnePromise
    <3>2. PromiseOf(AfterWithdraw(s, f.amount), now)
            = [honestPromise[f.id] EXCEPT !.paid = @ + f.amount]
      BY <1>2, <1>3, <2>1, PaidPromise
    <3> QED
      BY <3>1, <3>2 DEF PromisesWith
  <2>3. honestPromise[f.id].currency = s.token
        /\ honestPot' = [honestPot EXCEPT ![s.token] = @ - f.amount]
    BY <1>3, <1>5, <2>1, PotsMoved DEF PromiseOf
  <2>4. f.amount \in 1 .. honestPromise[f.id].earned - honestPromise[f.id].paid
    <3>1. honestPromise[f.id].earned = VestedAt(s, now) /\ honestPromise[f.id].paid = s.withdrawn
      BY <2>1 DEF PromiseOf
    <3>2. VestedAt(s, now) \in Nat /\ s.withdrawn \in Nat
      BY <1>2, <1>3, RecordVested DEF StreamType
    <3> QED
      BY <1>3, <3>1, <3>2
  <2>5. 0 < f.amount /\ f.amount <= honestPromise[f.id].earned - honestPromise[f.id].paid
    BY <1>3, <2>4
  <2>6. HonestPromise!Pay(f.id, f.amount)
    BY <2>1, <2>2, <2>3, <2>5
       DEF HonestPromise!Pay, HonestPromise!With, honestPromise, honestPot, HonestPot, PromiseOf
  <2> QED
    BY <2>1, <2>4, <2>6 DEF HonestPromise!Next, honestPromise, PromiseOf
<1>6. CASE s.token \notin Conforming
  <2>1. honestPromise' = honestPromise
    BY <1>1, <1>3, <1>4, <1>6, OnePromise
  <2>2. honestPot' = honestPot
    BY <1>3, <1>6, PotsMoved
  <2> QED
    BY <2>1, <2>2 DEF HonestPromise!vars, honestPromise, honestPot, HonestPot, PromiseOf
<1> QED
  BY <1>5, <1>6

(* A committed settlement closes its promise, if its token conforms.       *)
LEMMA ClosesHonest ==
  ASSUME HostTyped, LedgerInOrder, NEW f, FrameTyped(f), NEW part, CommitsMoney(f, part),
         CommitsSettlement(f), UNCHANGED <<now, surplus>>
  PROVE  [HonestPromise!Next]_(HonestPromise!vars)
<1>1. PICK s : s = Committed.streams[f.id]
  OBVIOUS
<1>2. InOrder(s, now) /\ now \in Nat
  BY <1>1 DEF LedgerInOrder, OrderedAt, CommitsSettlement, CancellationUnderWay, HostTyped, TypeOK
<1>3. /\ f.id \in DOMAIN Committed.streams /\ s \in StreamType /\ ~s.cancelled
      /\ f.amount = s.total_amount - VestedAt(s, now)
      /\ f.token = s.token /\ f.from = This /\ f.to # This
      /\ Committed'.streams = WithRecord(Committed.streams, f.id, AfterCancel(s, now))
  BY <1>1, <1>2, SettlementCommitted
<1>4. AfterCancel(s, now).token = s.token
  BY <1>2, <1>3, AfterCancelRecord
<1>5. CASE s.token \in Conforming
  <2>1. f.id \in DOMAIN honestPromise /\ honestPromise[f.id] = PromiseOf(s, now)
    BY <1>1, <1>3, <1>5 DEF honestPromise, HonestStreams
  <2>2. honestPromise' = [n \in DOMAIN honestPromise \union {f.id} |->
                            IF n = f.id
                              THEN [honestPromise[f.id] EXCEPT !.cap = honestPromise[f.id].earned,
                                                               !.open = FALSE]
                              ELSE honestPromise[n]]
    <3>1. honestPromise' = PromisesWith(f.id, PromiseOf(AfterCancel(s, now), now))
      BY <1>1, <1>3, <1>4, <1>5, OnePromise
    <3>2. PromiseOf(AfterCancel(s, now), now)
            = [honestPromise[f.id] EXCEPT !.cap = honestPromise[f.id].earned, !.open = FALSE]
      BY <1>2, <1>3, <2>1, SettledPromise
    <3> QED
      BY <3>1, <3>2 DEF PromisesWith
  <2>3. /\ honestPromise[f.id].currency = s.token
        /\ honestPromise[f.id].cap = s.total_amount
        /\ honestPromise[f.id].earned = VestedAt(s, now)
        /\ honestPromise[f.id].open = ~s.cancelled
    BY <2>1 DEF PromiseOf
  <2>4. honestPot' = [honestPot EXCEPT ![honestPromise[f.id].currency] =
                        @ - (honestPromise[f.id].cap - honestPromise[f.id].earned)]
    BY <1>3, <1>5, <2>3, PotsMoved
  <2>5. honestPromise[f.id].open
    BY <1>3, <2>3
  <2>6. HonestPromise!Close(f.id)
    BY <2>1, <2>2, <2>4, <2>5
       DEF HonestPromise!Close, HonestPromise!With, honestPromise, honestPot, HonestPot, PromiseOf
  <2> QED
    BY <2>1, <2>6 DEF HonestPromise!Next, honestPromise, PromiseOf
<1>6. CASE s.token \notin Conforming
  <2>1. honestPromise' = honestPromise
    BY <1>1, <1>3, <1>4, <1>6, OnePromise
  <2>2. honestPot' = honestPot
    BY <1>3, <1>6, PotsMoved
  <2> QED
    BY <2>1, <2>2 DEF HonestPromise!vars, honestPromise, honestPot, HonestPot, PromiseOf
<1> QED
  BY <1>5, <1>6

(* Every step of the host is a step of the promise, or none.               *)
LEMMA StepHonest ==
  ASSUME HostTyped, UnderWay, LedgerInOrder, [HostNext]_hostVars
  PROVE  [HonestPromise!Next]_(HonestPromise!vars)
<1>1. CASE Finish
  <2>1. PICK f, part : FrameTyped(f) /\ CommitsMoney(f, part) /\ CommitsCall(f)
    BY <1>1, FinishForms
  <2>2. UNCHANGED <<now, surplus>>
    BY <1>1, FinishForms
  <2> QED
    BY <2>1, <2>2, OpensHonest, PaysHonest, ClosesHonest DEF CommitsCall
<1>2. CASE ~Finish
  <2>1. RecordsKept /\ now' \in Nat /\ now <= now'
    BY <1>2, OnlyFinishCommits
  <2>2. ASSUME NEW t \in Conforming PROVE HonestPot(t)' = HonestPot(t)
    <3>1. CASE LedgerKept /\ UNCHANGED surplus
      BY <3>1 DEF LedgerKept, HonestPot
    <3>2. ASSUME AtRest, AtRest', NEW from \in Parties, NEW token \in Tokens, NEW amount \in Gifts,
                 Gift(from, token, amount)
          PROVE  HonestPot(t)' = HonestPot(t)
      <4>1. Balance(t)' = Balance(t)
        <5>1. TypeOK /\ [Next]_vars /\ t \in Tokens /\ This \in Addresses /\ This # from
              /\ from \in Addresses /\ amount \in Nat
          BY <3>2, ConformingAssumption, AddressAssumption, InputAssumption
             DEF HostTyped, Next, Addresses
        <5>2. wallet'[t][This] = wallet[t][This] + (IF t = token THEN amount ELSE 0)
          BY <3>2, <5>1 DEF Gift, Moved, TypeOK
        <5>3. surplus'[t] = surplus[t] + (IF t = token THEN amount ELSE 0)
              /\ surplus[t] \in Nat /\ wallet[t][This] \in Nat
          BY <3>2, <5>1 DEF Gift, TypeOK
        <5> QED
          BY <5>1, <5>2, <5>3 DEF Balance
      <4> QED
        BY <3>2, <4>1, LedgerAtRest DEF HonestPot, Balance
    <3> QED
      BY <1>2, <3>1, <3>2, OnlyFinishCommits
  <2> QED
    BY <2>1, <2>2, EarnsHonest DEF HonestPromise!Next
<1> QED
  BY <1>1, <1>2

(* The committed streams in conforming tokens keep the abstract promise,   *)
(* whatever the tokens of other streams do, and when: they move less than  *)
(* they say, fail, or call back.                                           *)
THEOREM HonestStreamsKeepThePromise == HostSpec => HonestPromisesKept
<1>1. HostInit => HonestPromise!Init
  <2> SUFFICES ASSUME HostInit PROVE HonestPromise!Init
    OBVIOUS
  <2>1. Committed.streams = << >> /\ Committed.wallet = wallet /\ Init
    BY LedgerAtRest DEF HostInit, Init, AtRest
  <2>2. honestPromise = << >>
    BY <2>1 DEF honestPromise, HonestStreams
  <2>3. honestPot = [t \in Conforming |-> 0]
    BY <2>1, ConformingAssumption DEF Init, honestPot, HonestPot, Addresses
  <2> QED
    BY <2>2, <2>3 DEF HonestPromise!Init, honestPromise, PromiseOf, honestPot, HonestPot
<1> QED
  BY <1>1, StepHonest, AlwaysHostTyped, AlwaysUnderWay, AlwaysLedgerInOrder, PTL
     DEF HostSpec, HonestPromisesKept, HonestPromise!Spec
=============================================================================
