------------------------- MODULE StreamContractProofs -------------------------
(***************************************************************************)
(* Safety of StreamContract for any parties, tokens, requests, limits and  *)
(* ledger times.                                                           *)
(***************************************************************************)
EXTENDS StreamContract, VestingProofs, WellFoundedInduction

(* The record-level forms of the vesting facts.                            *)
LEMMA RecordVested ==
  ASSUME NEW s \in StreamType, NEW t \in Nat
  PROVE  /\ VestedAt(s, t) \in 0 .. s.total_amount
         /\ VestedAt(s, t) \in Nat
         /\ \A u \in Nat : t <= u => VestedAt(s, t) <= VestedAt(s, u)
         /\ s.total_amount > 0 /\ t < s.end_time => VestedAt(s, t) < s.total_amount
<1>1. /\ s.total_amount \in Nat /\ s.start_time \in Nat
      /\ s.end_time \in Nat /\ s.cliff_time \in Nat
  BY DEF StreamType
<1>2. VestedAt(s, t) \in 0 .. s.total_amount
  BY <1>1, VestedBounds DEF VestedAt
<1>3. ASSUME NEW u \in Nat, t <= u PROVE VestedAt(s, t) <= VestedAt(s, u)
  BY <1>1, <1>3, VestedMonotone DEF VestedAt
<1>4. ASSUME s.total_amount > 0, t < s.end_time PROVE VestedAt(s, t) < s.total_amount
  BY <1>1, <1>4, VestedBelowTotal DEF VestedAt
<1> QED
  BY <1>1, <1>2, <1>3, <1>4

(* A withdrawal changes nothing but the amount taken.                      *)
LEMMA AfterWithdrawRecord ==
  ASSUME NEW s \in StreamType, NEW amount \in Nat
  PROVE  /\ AfterWithdraw(s, amount) \in StreamType
         /\ AfterWithdraw(s, amount).withdrawn = s.withdrawn + amount
         /\ AfterWithdraw(s, amount) = [s EXCEPT !.withdrawn = s.withdrawn + amount]
         /\ \A t : VestedAt(AfterWithdraw(s, amount), t) = VestedAt(s, t)
  BY DEF StreamType, AfterWithdraw, VestedAt

(* A cancellation freezes the record at what has vested by then.           *)
LEMMA AfterCancelRecord ==
  ASSUME NEW s \in StreamType, NEW t \in Nat
  PROVE  /\ AfterCancel(s, t) \in StreamType
         /\ AfterCancel(s, t).total_amount = VestedAt(s, t)
         /\ AfterCancel(s, t).withdrawn = s.withdrawn
         /\ AfterCancel(s, t).sender = s.sender
         /\ AfterCancel(s, t).recipient = s.recipient
         /\ AfterCancel(s, t).token = s.token
         /\ AfterCancel(s, t).cancelled
         /\ AfterCancel(s, t).end_time = t
         /\ AfterCancel(s, t).start_time = Earlier(s.start_time, t)
         /\ AfterCancel(s, t).cliff_time = Earlier(s.cliff_time, t)
         /\ \A u \in Nat : t <= u => VestedAt(AfterCancel(s, t), u) = VestedAt(s, t)
<1>1. VestedAt(s, t) \in Nat
  BY RecordVested
<1>2. Earlier(s.start_time, t) \in Nat /\ Earlier(s.cliff_time, t) \in Nat
      /\ Earlier(s.start_time, t) <= t /\ Earlier(s.cliff_time, t) <= t
  BY DEF StreamType, Earlier
<1>3. /\ AfterCancel(s, t) \in StreamType
      /\ AfterCancel(s, t).total_amount = VestedAt(s, t)
      /\ AfterCancel(s, t).withdrawn = s.withdrawn
      /\ AfterCancel(s, t).sender = s.sender
      /\ AfterCancel(s, t).recipient = s.recipient
      /\ AfterCancel(s, t).token = s.token
      /\ AfterCancel(s, t).cancelled
      /\ AfterCancel(s, t).end_time = t
      /\ AfterCancel(s, t).start_time = Earlier(s.start_time, t)
      /\ AfterCancel(s, t).cliff_time = Earlier(s.cliff_time, t)
  BY <1>1, <1>2 DEF StreamType, AfterCancel
<1>4. ASSUME NEW u \in Nat, t <= u
      PROVE  VestedAt(AfterCancel(s, t), u) = VestedAt(s, t)
  <2> DEFINE c == AfterCancel(s, t)
  <2>1. ~(u < c.cliff_time \/ u < c.start_time) /\ u >= c.end_time
    BY <1>2, <1>3, <1>4
  <2> QED
    BY <1>3, <2>1 DEF VestedAt, VestedAmount
<1> QED
  BY <1>3, <1>4
-----------------------------------------------------------------------------
(* Type correctness.                                                       *)

(* A transfer the sender can cover leaves every balance a natural.         *)
LEMMA MovedType ==
  ASSUME wallet \in [Tokens -> [Addresses -> Nat]],
         NEW token \in Tokens, NEW from \in Addresses, NEW to \in Addresses,
         NEW amount \in Nat, CanPay(token, from, amount)
  PROVE  Moved(token, from, to, amount) \in [Tokens -> [Addresses -> Nat]]
  BY DEF Moved, CanPay

(* What a transfer leaves on the books of one address.                     *)
LEMMA MovedAt ==
  ASSUME NEW token, NEW from, NEW to, NEW amount, NEW t \in Tokens, NEW a \in Addresses
  PROVE  Moved(token, from, to, amount)[t][a]
           = wallet[t][a] + (IF t = token /\ a = to   THEN amount ELSE 0)
                          - (IF t = token /\ a = from THEN amount ELSE 0)
  BY Zenon DEF Moved

(* Writing a record under a known id keeps the shape of the store.         *)
LEMMA StoreType ==
  ASSUME TypeOK, NEW id \in DOMAIN streams, NEW s \in StreamType
  PROVE  /\ WithRecord(streams, id, s) \in [0 .. streamCount - 1 -> StreamType]
         /\ DOMAIN WithRecord(streams, id, s) = DOMAIN streams
  BY DEF TypeOK, WithRecord

(* The initial store, counter and books have their types.                  *)
LEMMA InitType == Init => TypeOK
  BY LimitAssumption DEF Init, TypeOK, Reply, Results, Addresses

(* create_stream keeps the types, whatever it is called with.              *)
LEMMA CreateType ==
  ASSUME TypeOK, NEW caller \in Addresses, NEW r \in Requests, CreateStream(caller, r)
  PROVE  TypeOK'
<1> USE DEF TypeOK
<1>1. CreateResult(caller, r) \in Results
  BY DEF CreateResult, NextIdFits, NextId, Results, Codes
<1>2. reply'.result \in Results
  BY <1>1 DEF CreateStream, Reply
<1>3. CASE CreateResult(caller, r) # "Ok"
  BY <1>2, <1>3 DEF CreateStream
<1>4. CASE CreateResult(caller, r) = "Ok"
  <2>1. /\ r.sender # This /\ r.recipient # This /\ r.token # This
        /\ r.total_amount > 0 /\ streamCount + 1 <= CountMax
        /\ CanPay(r.token, r.sender, r.total_amount)
    BY <1>4, LimitAssumption, InputAssumption DEF CreateResult, NextIdFits, NextId
  <2>2. /\ r.sender \in Addresses /\ r.recipient \in Addresses /\ r.token \in Tokens
        /\ r.total_amount \in Nat
        /\ r.start_time \in Nat /\ r.end_time \in Nat /\ r.cliff_time \in Nat
    BY <2>1, InputAssumption
  <2>3. NewStream(r) \in StreamType
    BY <2>2 DEF NewStream, StreamType
  <2>4. Create(r)
    BY <1>4 DEF CreateStream
  <2>5. wallet' \in [Tokens -> [Addresses -> Nat]]
    BY <2>1, <2>2, <2>4, MovedType DEF Create, Store, NextId, Addresses
  <2>6. streamCount' = streamCount + 1 /\ streamCount' \in 0 .. CountMax
    BY <2>1, <2>4, LimitAssumption DEF Create, Store, NextId
  <2>7. streams' \in [0 .. streamCount' - 1 -> StreamType]
    BY <2>3, <2>4, <2>6 DEF Create, Store, NextId, WithRecord
  <2>8. DOMAIN events' = DOMAIN streams'
    BY <2>4 DEF Create, Store, NextId, WithRecord
  <2> QED
    BY <1>2, <2>5, <2>6, <2>7, <2>8 DEF CreateStream
<1> QED
  BY <1>3, <1>4

(* What an answered withdrawal has established before it pays.             *)
LEMMA WithdrawChecks ==
  ASSUME TypeOK, NEW id, NEW caller, NEW refusal, NEW amount,
         WithdrawResult(caller, id, refusal, amount) = "Ok"
  PROVE  /\ id \in DOMAIN streams
         /\ streams[id] \in StreamType
         /\ refusal = "Ok"
         /\ CanPay(streams[id].token, This, amount)
  BY DEF WithdrawResult, Known, TypeOK

(* Both entry points select an amount within the withdrawable balance.     *)
LEMMA SelectedAmount ==
  ASSUME TypeOK, NEW id \in DOMAIN streams
  PROVE  /\ Available(id) \in Nat
         /\ WithdrawRefusal(id) = "Ok" => Available(id) > 0
         /\ \A amount \in Int : WithdrawAmountRefusal(id, amount) = "Ok" =>
              amount \in Nat /\ amount > 0 /\ amount <= Available(id)
         /\ Available(id) > 0 =>
              streams[id].withdrawn + Available(id) = VestedAt(streams[id], now)
<1>1. streams[id] \in StreamType /\ streams[id].withdrawn \in Nat /\ now \in Nat
  BY DEF TypeOK, StreamType
<1>2. VestedAt(streams[id], now) \in Nat
  BY <1>1, RecordVested
<1> QED
  BY <1>1, <1>2
     DEF Available, WithdrawableAt, WithdrawableAmount, WithdrawRefusal, WithdrawAmountRefusal

(* A payout keeps the types.                                               *)
LEMMA PayRecipientType ==
  ASSUME TypeOK, NEW id \in DOMAIN streams, NEW amount \in Nat,
         CanPay(streams[id].token, This, amount), PayRecipient(id, amount),
         UNCHANGED <<now, streamCount, surplus>>, reply'.result \in Results
  PROVE  TypeOK'
<1>1. streams[id] \in StreamType /\ streams[id].token \in Tokens
      /\ streams[id].recipient \in Addresses /\ This \in Addresses
  BY DEF TypeOK, StreamType, Addresses
<1>2. AfterWithdraw(streams[id], amount) \in StreamType
  BY <1>1, AfterWithdrawRecord
<1>3. /\ streams' \in [0 .. streamCount - 1 -> StreamType]
      /\ DOMAIN streams' = DOMAIN streams
  BY <1>2, StoreType DEF PayRecipient, Publish
<1>4. wallet' \in [Tokens -> [Addresses -> Nat]]
  BY <1>1, MovedType DEF PayRecipient, Publish, TypeOK
<1>5. DOMAIN events' = DOMAIN events
  BY DEF PayRecipient, Publish
<1> QED
  BY <1>3, <1>4, <1>5 DEF TypeOK

(* withdraw keeps the types.                                               *)
LEMMA WithdrawType ==
  ASSUME TypeOK, NEW caller \in Addresses, NEW id \in Ids, Withdraw(caller, id)
  PROVE  TypeOK'
<1> DEFINE result == WithdrawResult(caller, id, WithdrawRefusal(id), Available(id))
<1>1. result \in Results
  BY DEF WithdrawResult, WithdrawRefusal, Results, Codes
<1>2. reply'.result = result /\ UNCHANGED <<now, streamCount, surplus>>
  BY DEF Withdraw, WithdrawWith, Reply
<1>3. CASE result # "Ok"
  BY <1>1, <1>2, <1>3 DEF Withdraw, WithdrawWith, TypeOK
<1>4. CASE result = "Ok"
  <2>1. id \in DOMAIN streams /\ CanPay(streams[id].token, This, Available(id))
    BY <1>4, WithdrawChecks
  <2>2. Available(id) \in Nat
    BY <2>1, SelectedAmount
  <2>3. PayRecipient(id, Available(id))
    BY <1>4 DEF Withdraw, WithdrawWith
  <2> QED
    BY <1>1, <1>2, <2>1, <2>2, <2>3, PayRecipientType
<1> QED
  BY <1>3, <1>4

(* withdraw_amount keeps the types.                                        *)
LEMMA WithdrawAmountType ==
  ASSUME TypeOK, NEW caller \in Addresses, NEW id \in Ids, NEW amount \in Amounts,
         WithdrawAmount(caller, id, amount)
  PROVE  TypeOK'
<1> DEFINE result == WithdrawResult(caller, id, WithdrawAmountRefusal(id, amount), amount)
<1>1. result \in Results
  BY DEF WithdrawResult, WithdrawAmountRefusal, Results, Codes
<1>2. reply'.result = result /\ UNCHANGED <<now, streamCount, surplus>>
  BY DEF WithdrawAmount, WithdrawWith, Reply
<1>3. CASE result # "Ok"
  BY <1>1, <1>2, <1>3 DEF WithdrawAmount, WithdrawWith, TypeOK
<1>4. CASE result = "Ok"
  <2>1. /\ id \in DOMAIN streams /\ CanPay(streams[id].token, This, amount)
        /\ WithdrawAmountRefusal(id, amount) = "Ok"
    BY <1>4, WithdrawChecks
  <2>2. amount \in Nat
    BY <2>1, SelectedAmount, InputAssumption
  <2>3. PayRecipient(id, amount)
    BY <1>4 DEF WithdrawAmount, WithdrawWith
  <2> QED
    BY <1>1, <1>2, <2>1, <2>2, <2>3, PayRecipientType
<1> QED
  BY <1>3, <1>4

(* What an answered cancellation has established before it settles.        *)
LEMMA CancelChecks ==
  ASSUME TypeOK, NEW id, NEW caller, CancelResult(caller, id) = "Ok"
  PROVE  /\ id \in DOMAIN streams
         /\ streams[id] \in StreamType
         /\ ~streams[id].cancelled
         /\ now < streams[id].end_time
         /\ Refund(id) = streams[id].total_amount - VestedAt(streams[id], now)
         /\ Refund(id) \in Nat
         /\ Refund(id) > 0 => CanPay(streams[id].token, This, Refund(id))
<1>1. /\ id \in DOMAIN streams /\ ~streams[id].cancelled /\ ~(now >= streams[id].end_time)
      /\ ~(Refund(id) > 0 /\ ~CanPay(streams[id].token, This, Refund(id)))
  BY DEF CancelResult, Completed, Known
<1>2. streams[id] \in StreamType /\ now \in Nat
  BY <1>1 DEF TypeOK
<1>3. streams[id].end_time \in Nat /\ streams[id].total_amount \in Nat
  BY <1>2 DEF StreamType
<1>4. Refund(id) = streams[id].total_amount - VestedAt(streams[id], now)
  BY DEF Refund, SettlementAt, Settlement
<1>5. VestedAt(streams[id], now) \in 0 .. streams[id].total_amount
  BY <1>2, RecordVested
<1> QED
  BY <1>1, <1>2, <1>3, <1>4, <1>5

(* cancel keeps the types.                                                 *)
LEMMA CancelType ==
  ASSUME TypeOK, NEW caller \in Addresses, NEW id \in Ids, Cancel(caller, id)
  PROVE  TypeOK'
<1> DEFINE result == CancelResult(caller, id)
<1>1. result \in Results
  BY DEF CancelResult, Completed, Results, Codes
<1>2. reply'.result = result /\ UNCHANGED <<now, streamCount, surplus>>
  BY DEF Cancel, Reply
<1>3. CASE result # "Ok"
  BY <1>1, <1>2, <1>3 DEF Cancel, TypeOK
<1>4. CASE result = "Ok"
  <2>1. /\ id \in DOMAIN streams /\ streams[id] \in StreamType
        /\ Refund(id) \in Nat
        /\ Refund(id) > 0 => CanPay(streams[id].token, This, Refund(id))
    BY <1>4, CancelChecks
  <2>2. Settle(id)
    BY <1>4 DEF Cancel
  <2>3. AfterCancel(streams[id], now) \in StreamType
    BY <2>1, AfterCancelRecord DEF TypeOK
  <2>4. /\ streams' \in [0 .. streamCount - 1 -> StreamType]
        /\ DOMAIN streams' = DOMAIN streams
    BY <2>1, <2>2, <2>3, StoreType DEF Settle, Publish
  <2>5. streams[id].token \in Tokens /\ streams[id].sender \in Addresses /\ This \in Addresses
    BY <2>1 DEF StreamType, Addresses
  <2>6. wallet' \in [Tokens -> [Addresses -> Nat]]
    BY <2>1, <2>2, <2>5, MovedType DEF Settle, Publish, TypeOK
  <2>7. DOMAIN events' = DOMAIN events
    BY <2>2 DEF Settle, Publish
  <2> QED
    BY <1>1, <1>2, <2>4, <2>6, <2>7 DEF TypeOK
<1> QED
  BY <1>3, <1>4

(* A closing ledger keeps the types.                                       *)
LEMMA AdvanceType ==
  ASSUME TypeOK, AdvanceLedger
  PROVE  TypeOK'
  BY InputAssumption DEF TypeOK, AdvanceLedger

(* A direct transfer to the contract keeps the types.                      *)
LEMMA GiftType ==
  ASSUME TypeOK, NEW from \in Parties, NEW token \in Tokens, NEW amount \in Gifts,
         Gift(from, token, amount)
  PROVE  TypeOK'
<1>1. amount \in Nat /\ from \in Addresses /\ This \in Addresses
  BY InputAssumption DEF Addresses
<1>2. wallet' \in [Tokens -> [Addresses -> Nat]]
  BY <1>1, MovedType DEF Gift, TypeOK
<1>3. surplus' \in [Tokens -> Nat]
  BY <1>1 DEF Gift, TypeOK
<1> QED
  BY <1>2, <1>3 DEF Gift, TypeOK

(* Every step keeps the types.                                             *)
LEMMA NextType ==
  ASSUME TypeOK, [Next]_vars
  PROVE  TypeOK'
<1>1. CASE UNCHANGED vars
  BY <1>1 DEF vars, TypeOK
<1>2. CASE Next
  BY <1>2, CreateType, WithdrawType, WithdrawAmountType, CancelType, GiftType, AdvanceType
     DEF Next, Invocation
<1> QED
  BY <1>1, <1>2

(* The store is the initial segment of ids below the counter, every record *)
(* is well formed, no balance on any token's books goes negative and the   *)
(* counter stays within its width, for any inputs.                         *)
THEOREM TypeCorrect == Spec => []TypeOK
<1>1. Init => TypeOK
  BY InitType
<1>2. TypeOK /\ [Next]_vars => TypeOK'
  BY NextType
<1> QED
  BY <1>1, <1>2, PTL DEF Spec
-----------------------------------------------------------------------------
(* What a step can do: every step leaves the records alone, or opens one   *)
(* stream, or pays one recipient, or settles one stream; with what the     *)
(* checks have established by then.                                        *)

Balance(token) == wallet[token][This] - surplus[token]

Idle ==
  /\ streams' = streams /\ streamCount' = streamCount /\ events' = events /\ now <= now'
  /\ \A token \in Tokens :
       Balance(token)' = Balance(token) /\ wallet'[token][This] >= wallet[token][This]
  /\ reply' = reply \/ reply'.result # "Ok"

Opens(r) ==
  /\ This \notin {r.sender, r.recipient}
  /\ r.token \in Tokens
  /\ r.total_amount \in 1 .. MaxAmount
  /\ r.start_time < r.end_time /\ r.start_time <= r.cliff_time /\ r.cliff_time <= r.end_time
  /\ {r.start_time, r.cliff_time, r.end_time} \subseteq Nat
  /\ now < r.end_time
  /\ CanPay(r.token, r.sender, r.total_amount)
  /\ Create(r)
  /\ reply'.call = "create_stream"
  /\ UNCHANGED <<now, surplus>>

Pays(id, amount) ==
  /\ amount > 0
  /\ streams[id].withdrawn + amount <= VestedAt(streams[id], now)
  /\ CanPay(streams[id].token, This, amount)
  /\ PayRecipient(id, amount)
  /\ reply'.result = "Ok" /\ reply'.value = amount
  /\ reply'.call \in {"withdraw", "withdraw_amount"}
  /\ reply'.call = "withdraw" => amount = Available(id)
  /\ UNCHANGED <<now, streamCount, surplus>>

Settles(id) ==
  /\ ~streams[id].cancelled /\ now < streams[id].end_time
  /\ Refund(id) = streams[id].total_amount - VestedAt(streams[id], now)
  /\ Refund(id) \in Nat
  /\ Settle(id)
  /\ reply' = Reply("cancel", "Ok", Refund(id))
  /\ UNCHANGED <<now, streamCount, surplus>>

(* A refused call leaves everything alone but the answer.                  *)
LEMMA RefusedIsIdle ==
  ASSUME TypeOK, NEW call, NEW result, NEW value, result # "Ok",
         reply' = Reply(call, result, value),
         UNCHANGED <<now, streams, streamCount, wallet, surplus, events>>
  PROVE  Idle
<1>1. reply'.result # "Ok"
  BY DEF Reply
<1>2. /\ now <= now'
      /\ \A token \in Tokens :
           Balance(token)' = Balance(token) /\ wallet'[token][This] >= wallet[token][This]
  BY DEF Balance, TypeOK, Addresses
<1> QED
  BY <1>1, <1>2 DEF Idle

(* create_stream opens one stream or leaves everything alone.              *)
LEMMA CreateEffect ==
  ASSUME TypeOK, NEW caller \in Addresses, NEW r \in Requests, CreateStream(caller, r)
  PROVE  Idle \/ Opens(r)
<1>1. CASE CreateResult(caller, r) # "Ok"
  BY <1>1, RefusedIsIdle DEF CreateStream
<1>2. CASE CreateResult(caller, r) = "Ok"
  <2>1. /\ This \notin {r.sender, r.recipient, r.token}
        /\ ~(r.total_amount <= 0) /\ ~(r.total_amount > MaxAmount)
        /\ ~(r.start_time >= r.end_time)
        /\ ~(r.cliff_time < r.start_time \/ r.cliff_time > r.end_time)
        /\ ~(r.end_time <= now)
        /\ CanPay(r.token, r.sender, r.total_amount)
    BY <1>2 DEF CreateResult, NextIdFits, NextId
  <2>2. /\ r.token \in Tokens \union {This} /\ r.total_amount \in Int
        /\ r.start_time \in Nat /\ r.end_time \in Nat /\ r.cliff_time \in Nat
        /\ MaxAmount \in Nat /\ now \in Nat
    BY InputAssumption, LimitAssumption DEF TypeOK
  <2>3. Create(r) /\ UNCHANGED <<now, surplus>> /\ reply'.call = "create_stream"
    BY <1>2 DEF CreateStream, Reply
  <2> QED
    BY <2>1, <2>2, <2>3 DEF Opens
<1> QED
  BY <1>1, <1>2

(* withdraw pays one stream or leaves everything alone.                    *)
LEMMA WithdrawEffect ==
  ASSUME TypeOK, NEW caller \in Addresses, NEW id \in Ids, Withdraw(caller, id)
  PROVE  Idle \/ (id \in DOMAIN streams /\ \E amount \in Nat : Pays(id, amount))
<1> DEFINE result == WithdrawResult(caller, id, WithdrawRefusal(id), Available(id))
<1>1. CASE result # "Ok"
  BY <1>1, RefusedIsIdle DEF Withdraw, WithdrawWith
<1>2. CASE result = "Ok"
  <2>1. /\ id \in DOMAIN streams /\ streams[id] \in StreamType
        /\ CanPay(streams[id].token, This, Available(id)) /\ WithdrawRefusal(id) = "Ok"
    BY <1>2, WithdrawChecks
  <2>2. /\ Available(id) \in Nat /\ Available(id) > 0
        /\ streams[id].withdrawn + Available(id) = VestedAt(streams[id], now)
    BY <2>1, SelectedAmount
  <2>3. PayRecipient(id, Available(id)) /\ UNCHANGED <<now, streamCount, surplus>>
        /\ reply'.call = "withdraw" /\ reply'.result = "Ok" /\ reply'.value = Available(id)
    BY <1>2 DEF Withdraw, WithdrawWith, Reply
  <2>4. VestedAt(streams[id], now) \in Nat
    BY <2>1, RecordVested DEF TypeOK
  <2>5. Pays(id, Available(id))
    BY <2>1, <2>2, <2>3, <2>4 DEF Pays
  <2> QED
    BY <2>1, <2>2, <2>5
<1> QED
  BY <1>1, <1>2

(* withdraw_amount pays one stream or leaves everything alone.             *)
LEMMA WithdrawAmountEffect ==
  ASSUME TypeOK, NEW caller \in Addresses, NEW id \in Ids, NEW amount \in Amounts,
         WithdrawAmount(caller, id, amount)
  PROVE  Idle \/ (id \in DOMAIN streams /\ amount \in Nat /\ Pays(id, amount))
<1> DEFINE result == WithdrawResult(caller, id, WithdrawAmountRefusal(id, amount), amount)
<1>1. CASE result # "Ok"
  BY <1>1, RefusedIsIdle DEF WithdrawAmount, WithdrawWith
<1>2. CASE result = "Ok"
  <2>1. /\ id \in DOMAIN streams /\ streams[id] \in StreamType
        /\ CanPay(streams[id].token, This, amount) /\ WithdrawAmountRefusal(id, amount) = "Ok"
    BY <1>2, WithdrawChecks
  <2>2. /\ amount \in Nat /\ amount > 0 /\ amount <= Available(id) /\ Available(id) \in Nat
        /\ Available(id) > 0 => streams[id].withdrawn + Available(id) = VestedAt(streams[id], now)
    BY <2>1, SelectedAmount, InputAssumption
  <2>3. streams[id].withdrawn \in Nat /\ VestedAt(streams[id], now) \in Nat
    BY <2>1, RecordVested DEF TypeOK, StreamType
  <2>4. PayRecipient(id, amount) /\ UNCHANGED <<now, streamCount, surplus>>
        /\ reply'.call = "withdraw_amount" /\ reply'.result = "Ok" /\ reply'.value = amount
    BY <1>2 DEF WithdrawAmount, WithdrawWith, Reply
  <2> QED
    BY <2>1, <2>2, <2>3, <2>4 DEF Pays
<1> QED
  BY <1>1, <1>2

(* cancel settles one stream or leaves everything alone.                   *)
LEMMA CancelEffect ==
  ASSUME TypeOK, NEW caller \in Addresses, NEW id \in Ids, Cancel(caller, id)
  PROVE  Idle \/ (id \in DOMAIN streams /\ Settles(id))
<1>1. CASE CancelResult(caller, id) # "Ok"
  BY <1>1, RefusedIsIdle DEF Cancel
<1>2. CASE CancelResult(caller, id) = "Ok"
  BY <1>2, CancelChecks DEF Cancel, Settles
<1> QED
  BY <1>1, <1>2

(* The clock and direct transfers touch no record.                         *)
LEMMA EnvironmentEffect ==
  ASSUME TypeOK,
         \/ AdvanceLedger
         \/ \E from \in Parties, token \in Tokens, amount \in Gifts : Gift(from, token, amount)
         \/ UNCHANGED vars
  PROVE  Idle
<1>1. CASE AdvanceLedger
  BY <1>1, InputAssumption DEF AdvanceLedger, Idle, Balance, TypeOK, Addresses
<1>2. CASE UNCHANGED vars
  BY <1>2 DEF vars, Idle, Balance, TypeOK, Addresses
<1>3. ASSUME NEW from \in Parties, NEW token \in Tokens, NEW amount \in Gifts,
             Gift(from, token, amount)
      PROVE  Idle
  <2>1. amount \in Nat /\ from # This /\ This \in Addresses
    BY InputAssumption, AddressAssumption DEF Addresses
  <2>2. \A t \in Tokens :
          /\ wallet'[t][This] = wallet[t][This] + (IF t = token THEN amount ELSE 0)
          /\ surplus'[t] = surplus[t] + (IF t = token THEN amount ELSE 0)
    <3> TAKE t \in Tokens
    <3>1. wallet[t][This] \in Nat
      BY <2>1 DEF TypeOK
    <3>2. wallet'[t][This] = wallet[t][This] + (IF t = token /\ This = This THEN amount ELSE 0)
                                             - (IF t = token /\ This = from THEN amount ELSE 0)
      BY <1>3, <2>1, MovedAt DEF Gift
    <3>3. surplus'[t] = surplus[t] + (IF t = token THEN amount ELSE 0)
      BY <1>3, <2>1 DEF Gift, TypeOK
    <3> QED
      BY <2>1, <3>1, <3>2, <3>3
  <2>3. \A t \in Tokens : wallet[t][This] \in Nat /\ surplus[t] \in Nat
    BY <2>1 DEF TypeOK
  <2>4. \A t \in Tokens : Balance(t)' = Balance(t)
    BY <2>1, <2>2, <2>3 DEF Balance
  <2>5. \A t \in Tokens : wallet'[t][This] >= wallet[t][This]
    BY <2>1, <2>2, <2>3
  <2>6. UNCHANGED <<now, streams, streamCount, events, reply>> /\ now \in Nat
    BY <1>3 DEF Gift, TypeOK
  <2> QED
    BY <2>4, <2>5, <2>6 DEF Idle
<1> QED
  BY <1>1, <1>2, <1>3

(* A step opens, pays or settles one stream, or touches no record.         *)
LEMMA StepEffects ==
  ASSUME TypeOK, [Next]_vars
  PROVE  \/ Idle
         \/ \E r \in Requests : Opens(r)
         \/ \E id \in DOMAIN streams : \E amount \in Nat : Pays(id, amount)
         \/ \E id \in DOMAIN streams : Settles(id)
  BY CreateEffect, WithdrawEffect, WithdrawAmountEffect, CancelEffect, EnvironmentEffect
     DEF Next, Invocation
-----------------------------------------------------------------------------
(* How the store looks after each kind of step.                            *)

(* Opening a stream adds a record under the next id.                       *)
LEMMA OpensStore ==
  ASSUME TypeOK, NEW r \in Requests, Opens(r)
  PROVE  /\ streams' = [i \in 0 .. streamCount |->
                          IF i = streamCount THEN NewStream(r) ELSE streams[i]]
         /\ DOMAIN streams = 0 .. streamCount - 1
         /\ DOMAIN streams' = 0 .. streamCount
         /\ \A id \in DOMAIN streams : id # streamCount /\ streams'[id] = streams[id]
         /\ streams'[streamCount] = NewStream(r)
  BY DEF TypeOK, Opens, Create, Store, NextId, WithRecord

(* A payout rewrites one record.                                           *)
LEMMA PaysStore ==
  ASSUME TypeOK, NEW id \in DOMAIN streams, NEW amount \in Nat, Pays(id, amount)
  PROVE  /\ DOMAIN streams' = DOMAIN streams
         /\ \A i \in DOMAIN streams :
              streams'[i] = IF i = id THEN AfterWithdraw(streams[id], amount) ELSE streams[i]
  BY DEF TypeOK, Pays, PayRecipient, Publish, WithRecord

(* A settlement rewrites one record.                                       *)
LEMMA SettlesStore ==
  ASSUME TypeOK, NEW id \in DOMAIN streams, Settles(id)
  PROVE  /\ DOMAIN streams' = DOMAIN streams
         /\ \A i \in DOMAIN streams :
              streams'[i] = IF i = id THEN AfterCancel(streams[id], now) ELSE streams[i]
  BY DEF TypeOK, Settles, Settle, Publish, WithRecord

-----------------------------------------------------------------------------
(* Claims stay in order.  TypeOK and ClaimsInOrder together are inductive: *)
(* a payout needs the order to stay below what has vested, a cancellation  *)
(* to close the schedule behind the cliff, and the clock only to know that *)
(* vesting is monotone.                                                    *)

InOrder(s, t) ==
  /\ This \notin {s.sender, s.recipient}
  /\ s.start_time <= s.cliff_time /\ s.cliff_time <= s.end_time
  /\ s.withdrawn <= VestedAt(s, t)
  /\ VestedAt(s, t) <= s.total_amount
  /\ s.total_amount <= MaxAmount

(* Claims in order stay so as time passes.                                 *)
LEMMA InOrderLater ==
  ASSUME NEW s \in StreamType, NEW t \in Nat, NEW u \in Nat, t <= u, InOrder(s, t)
  PROVE  InOrder(s, u)
<1>1. VestedAt(s, t) \in Nat /\ VestedAt(s, u) \in 0 .. s.total_amount
      /\ VestedAt(s, t) <= VestedAt(s, u)
  BY RecordVested
<1>2. s.withdrawn \in Nat /\ s.total_amount \in Nat
  BY DEF StreamType
<1> QED
  BY <1>1, <1>2 DEF InOrder

(* The claims on a new stream are in order.                                *)
LEMMA NewInOrder ==
  ASSUME NEW r, NewStream(r) \in StreamType, NEW t \in Nat,
         This \notin {r.sender, r.recipient}, r.total_amount <= MaxAmount,
         r.start_time <= r.cliff_time /\ r.cliff_time <= r.end_time
  PROVE  InOrder(NewStream(r), t)
<1>1. VestedAt(NewStream(r), t) \in 0 .. NewStream(r).total_amount
  BY RecordVested
<1>2. r.total_amount \in Nat
  BY DEF NewStream, StreamType
<1> QED
  BY <1>1, <1>2 DEF InOrder, NewStream

(* A payout within the withdrawable amount keeps them in order.            *)
LEMMA PaidInOrder ==
  ASSUME NEW s \in StreamType, NEW t \in Nat, InOrder(s, t),
         NEW amount \in Nat, s.withdrawn + amount <= VestedAt(s, t)
  PROVE  InOrder(AfterWithdraw(s, amount), t)
  BY AfterWithdrawRecord DEF InOrder, StreamType

(* So does the rewrite of a cancellation.                                  *)
LEMMA SettledInOrder ==
  ASSUME NEW s \in StreamType, NEW t \in Nat, InOrder(s, t)
  PROVE  InOrder(AfterCancel(s, t), t)
<1> DEFINE c == AfterCancel(s, t)
<1>1. /\ c.total_amount = VestedAt(s, t) /\ c.withdrawn = s.withdrawn
      /\ c.sender = s.sender /\ c.recipient = s.recipient /\ c.end_time = t
      /\ c.start_time = Earlier(s.start_time, t) /\ c.cliff_time = Earlier(s.cliff_time, t)
      /\ VestedAt(c, t) = VestedAt(s, t)
  BY AfterCancelRecord
<1>2. s.start_time \in Nat /\ s.cliff_time \in Nat /\ s.total_amount \in Nat
      /\ VestedAt(s, t) \in Nat
  BY RecordVested DEF StreamType
<1>3. c.start_time <= c.cliff_time /\ c.cliff_time <= c.end_time
  BY <1>1, <1>2 DEF InOrder, Earlier
<1> HIDE DEF c
<1>4. InOrder(c, t)
  BY <1>1, <1>2, <1>3, LimitAssumption DEF InOrder
<1> QED
  BY <1>4 DEF c

(* The invariant, record by record.                                        *)
LEMMA ClaimsAreInOrder == ClaimsInOrder <=> \A id \in DOMAIN streams : InOrder(streams[id], now)
  BY DEF ClaimsInOrder, InOrder

(* Every step keeps the claims on every stream in order.                   *)
LEMMA NextClaims ==
  ASSUME TypeOK, ClaimsInOrder, [Next]_vars
  PROVE  \A id \in DOMAIN streams' : InOrder(streams'[id], now')
<1> SUFFICES ASSUME NEW id \in DOMAIN streams'
             PROVE  InOrder(streams'[id], now')
  OBVIOUS
<1>1. TypeOK'
  BY NextType
<1>2. streams'[id] \in StreamType /\ now \in Nat /\ now' \in Nat
  BY <1>1 DEF TypeOK
<1>3. \A i \in DOMAIN streams : streams[i] \in StreamType /\ InOrder(streams[i], now)
  BY ClaimsAreInOrder DEF TypeOK
<1>4. CASE Idle
  BY <1>2, <1>3, <1>4, InOrderLater DEF Idle
<1>5. ASSUME NEW r \in Requests, Opens(r)
      PROVE  InOrder(streams'[id], now')
  <2>1. now' = now
    BY <1>5 DEF Opens
  <2>2. CASE id \in DOMAIN streams
    BY <1>3, <1>5, <2>1, <2>2, OpensStore
  <2>3. CASE id \notin DOMAIN streams
    <3>1. id = streamCount
      BY <1>5, <2>3, OpensStore DEF TypeOK
    <3>2. streams'[id] = NewStream(r)
      BY <1>5, <3>1, OpensStore
    <3>3. r.total_amount <= MaxAmount
      BY <1>5, LimitAssumption DEF Opens
    <3> QED
      BY <1>2, <1>5, <2>1, <3>2, <3>3, NewInOrder DEF Opens
  <2> QED
    BY <2>2, <2>3
<1>6. ASSUME NEW i \in DOMAIN streams, NEW amount \in Nat, Pays(i, amount)
      PROVE  InOrder(streams'[id], now')
  <2>1. now' = now /\ streams[i].withdrawn + amount <= VestedAt(streams[i], now)
    BY <1>6 DEF Pays
  <2>2. InOrder(AfterWithdraw(streams[i], amount), now)
    BY <1>2, <1>3, <2>1, PaidInOrder
  <2> QED
    BY <1>3, <1>6, <2>1, <2>2, PaysStore
<1>7. ASSUME NEW i \in DOMAIN streams, Settles(i)
      PROVE  InOrder(streams'[id], now')
  <2>1. now' = now
    BY <1>7 DEF Settles
  <2> QED
    BY <1>2, <1>3, <1>7, <2>1, SettlesStore, SettledInOrder
<1> QED
  BY <1>4, <1>5, <1>6, <1>7, StepEffects

(* No recipient is ever ahead of the schedule, no schedule is ever out of  *)
(* order and no total beyond the cap, also in records that a cancellation  *)
(* rewrote and at any later time.                                          *)
THEOREM ClaimsStayInOrder == Spec => []ClaimsInOrder
<1>1. Init => ClaimsInOrder
  BY DEF Init, ClaimsInOrder
<1>2. TypeOK /\ ClaimsInOrder /\ [Next]_vars => ClaimsInOrder'
  BY NextClaims DEF ClaimsInOrder, InOrder
<1> QED
  BY <1>1, <1>2, TypeCorrect, PTL DEF Spec

(* locked and withdrawable always account for the whole escrow of a        *)
(* stream: the clamps of the two views never hide a negative share.        *)
THEOREM ViewsAccountForEscrow == Spec => []ViewsSplitEscrow
<1>1. TypeOK /\ ClaimsInOrder => ViewsSplitEscrow
  <2> SUFFICES ASSUME TypeOK, ClaimsInOrder, NEW id \in DOMAIN streams
               PROVE  LockedAt(streams[id], now) + WithdrawableAt(streams[id], now)
                        = streams[id].total_amount - streams[id].withdrawn
    BY DEF ViewsSplitEscrow
  <2> DEFINE s == streams[id]
  <2>1. s \in StreamType /\ now \in Nat
    BY DEF TypeOK
  <2>2. VestedAt(s, now) \in Nat /\ s.total_amount \in Nat /\ s.withdrawn \in Nat
    BY <2>1, RecordVested DEF StreamType
  <2>3. s.withdrawn <= VestedAt(s, now) /\ VestedAt(s, now) <= s.total_amount
    BY DEF ClaimsInOrder
  <2> QED
    BY <2>2, <2>3 DEF LockedAt, WithdrawableAt, WithdrawableAmount
<1> QED
  BY <1>1, TypeCorrect, ClaimsStayInOrder, PTL

-----------------------------------------------------------------------------
(* What no step may do.                                                    *)

(* No step lowers what has vested on any stream.                           *)
LEMMA EntitlementStep ==
  ASSUME TypeOK, [Next]_vars, NEW id \in DOMAIN streams
  PROVE  VestedAt(streams'[id], now') >= VestedAt(streams[id], now)
<1>1. streams[id] \in StreamType /\ now \in Nat /\ now' \in Nat
  BY NextType DEF TypeOK
<1>2. VestedAt(streams[id], now) \in Nat
  BY <1>1, RecordVested
<1>3. CASE Idle
  BY <1>1, <1>2, <1>3, RecordVested DEF Idle
<1>4. ASSUME NEW r \in Requests, Opens(r)
      PROVE  VestedAt(streams'[id], now') >= VestedAt(streams[id], now)
  BY <1>2, <1>4, OpensStore DEF Opens
<1>5. ASSUME NEW i \in DOMAIN streams, NEW amount \in Nat, Pays(i, amount)
      PROVE  VestedAt(streams'[id], now') >= VestedAt(streams[id], now)
  <2>1. streams'[id] = IF id = i THEN AfterWithdraw(streams[id], amount) ELSE streams[id]
    BY <1>5, PaysStore
  <2>2. VestedAt(AfterWithdraw(streams[id], amount), now) = VestedAt(streams[id], now)
    BY <1>1, AfterWithdrawRecord
  <2> QED
    BY <1>2, <1>5, <2>1, <2>2 DEF Pays
<1>6. ASSUME NEW i \in DOMAIN streams, Settles(i)
      PROVE  VestedAt(streams'[id], now') >= VestedAt(streams[id], now)
  <2>1. VestedAt(streams'[id], now) = VestedAt(streams[id], now)
    BY <1>1, <1>6, SettlesStore, AfterCancelRecord
  <2> QED
    BY <1>2, <1>6, <2>1 DEF Settles
<1> QED
  BY <1>3, <1>4, <1>5, <1>6, StepEffects

(* No step makes a recipient's entitlement smaller: not the clock, not a   *)
(* payout, and not the sender's cancellation, which moves the total and    *)
(* the whole schedule at once.                                             *)
THEOREM EntitlementIsSafe == Spec => EntitlementNeverShrinks
<1>1. TypeOK /\ [Next]_vars =>
        \A id \in DOMAIN streams : VestedAt(streams'[id], now') >= VestedAt(streams[id], now)
  BY EntitlementStep
<1> QED
  BY <1>1, TypeCorrect, PTL DEF Spec, EntitlementNeverShrinks

(* What RecordsArePermanent asks of one record in a step.                  *)
Keeps(s, t) ==
  /\ <<t.sender, t.recipient, t.token>> = <<s.sender, s.recipient, s.token>>
  /\ t.withdrawn >= s.withdrawn
  /\ s.cancelled => t.cancelled
  /\ s.cancelled \/ ~t.cancelled => t = [s EXCEPT !.withdrawn = t.withdrawn]

(* An unchanged record has changed in no forbidden way.                    *)
LEMMA KeepsItself ==
  ASSUME NEW s \in StreamType
  PROVE  Keeps(s, s)
  BY DEF Keeps, StreamType

(* No step changes a record in a forbidden way.                            *)
LEMMA PermanentStep ==
  ASSUME TypeOK, [Next]_vars, NEW id \in DOMAIN streams
  PROVE  id \in DOMAIN streams' /\ Keeps(streams[id], streams'[id])
<1>1. streams[id] \in StreamType /\ now \in Nat
  BY DEF TypeOK
<1>2. CASE Idle
  BY <1>1, <1>2, KeepsItself DEF Idle
<1>3. ASSUME NEW r \in Requests, Opens(r)
      PROVE  id \in DOMAIN streams' /\ Keeps(streams[id], streams'[id])
  BY <1>1, <1>3, OpensStore, KeepsItself DEF TypeOK
<1>4. ASSUME NEW i \in DOMAIN streams, NEW amount \in Nat, Pays(i, amount)
      PROVE  id \in DOMAIN streams' /\ Keeps(streams[id], streams'[id])
  <2>1. Keeps(streams[id], AfterWithdraw(streams[id], amount))
    BY <1>1 DEF Keeps, AfterWithdraw, StreamType
  <2> QED
    BY <1>1, <1>4, <2>1, PaysStore, KeepsItself
<1>5. ASSUME NEW i \in DOMAIN streams, Settles(i)
      PROVE  id \in DOMAIN streams' /\ Keeps(streams[id], streams'[id])
  <2>1. CASE i = id
    <3>1. ~streams[id].cancelled
      BY <1>5, <2>1 DEF Settles
    <3>2. Keeps(streams[id], AfterCancel(streams[id], now))
      <4> DEFINE c == AfterCancel(streams[id], now)
      <4>1. /\ c.sender = streams[id].sender /\ c.recipient = streams[id].recipient
            /\ c.token = streams[id].token /\ c.withdrawn = streams[id].withdrawn
            /\ c.cancelled
        BY <1>1, AfterCancelRecord
      <4>2. streams[id].withdrawn \in Nat
        BY <1>1 DEF StreamType
      <4> HIDE DEF c
      <4>3. Keeps(streams[id], c)
        BY <3>1, <4>1, <4>2 DEF Keeps
      <4> QED
        BY <4>3 DEF c
    <3> QED
      BY <1>5, <2>1, <3>2, SettlesStore
  <2>2. CASE i # id
    BY <1>1, <1>5, <2>2, SettlesStore, KeepsItself
  <2> QED
    BY <2>1, <2>2
<1> QED
  BY <1>2, <1>3, <1>4, <1>5, StepEffects

(* An id names one stream for good: no step replaces its parties or token, *)
(* takes back what was paid, revives a cancelled stream or changes terms   *)
(* other than by the one cancellation; an exhausted counter included.      *)
THEOREM RecordsStay == Spec => RecordsArePermanent
<1>1. TypeOK /\ [Next]_vars =>
        \A id \in DOMAIN streams : id \in DOMAIN streams' /\ Keeps(streams[id], streams'[id])
  BY PermanentStep
<1>2. TypeOK /\ [Next]_vars =>
        \A id \in DOMAIN streams :
          /\ id \in DOMAIN streams'
          /\ LET s == streams[id]
                 t == streams'[id]
             IN  /\ <<t.sender, t.recipient, t.token>> = <<s.sender, s.recipient, s.token>>
                 /\ t.withdrawn >= s.withdrawn
                 /\ s.cancelled => t.cancelled
                 /\ s.cancelled \/ ~t.cancelled => t = [s EXCEPT !.withdrawn = t.withdrawn]
  BY <1>1 DEF Keeps
<1> QED
  BY <1>2, TypeCorrect, PTL DEF Spec, RecordsArePermanent
-----------------------------------------------------------------------------
(* Sums over the ids.  Escrow is a recursive function; a running total is  *)
(* a function that satisfies its recursion, and there is only one.         *)

(* A set of naturals with a member has a least one.                        *)
LEMMA LeastElement ==
  ASSUME NEW T, T \subseteq Nat, T # {}
  PROVE  \E m \in T : \A k \in T : m <= k
<1>1. PICK m \in T : \A k \in T : ~(<<k, m>> \in OpToRel(<, Nat))
  BY WFMin, NatLessThanWellFounded
<1>2. \A k \in T : ~(k < m)
  BY <1>1 DEF OpToRel
<1> QED
  BY <1>2

OwedIn(f, i, token) ==
  IF f[i].token = token THEN f[i].total_amount - f[i].withdrawn ELSE 0

RunningTotal(g, f, count, token) ==
  /\ g \in [0 .. count -> Int]
  /\ g[0] = 0
  /\ \A n \in 1 .. count : g[n] = g[n - 1] + OwedIn(f, n - 1, token)

Recursion(g, f, count, token) ==
  g = [n \in 0 .. count |-> IF n = 0 THEN 0 ELSE g[n - 1] + OwedIn(f, n - 1, token)]

(* Two functions that obey the same recurrence are equal.                  *)
LEMMA RecursionUnique ==
  ASSUME NEW f, NEW count \in Nat, NEW token, NEW g, NEW h,
         Recursion(g, f, count, token), Recursion(h, f, count, token)
  PROVE  g[count] = h[count]
<1> DEFINE Differ == {n \in 0 .. count : g[n] # h[n]}
<1>1. SUFFICES ASSUME Differ # {} PROVE FALSE
  OBVIOUS
<1>2. Differ \subseteq Nat
  OBVIOUS
<1> HIDE DEF Differ
<1>3. PICK m \in Differ : \A k \in Differ : m <= k
  BY <1>1, <1>2, LeastElement
<1> USE DEF Differ
<1>4. m # 0
  BY <1>3 DEF Recursion
<1>5. m - 1 \in 0 .. count /\ m \in 0 .. count
  BY <1>3, <1>4
<1>6. g[m - 1] = h[m - 1]
  BY <1>3, <1>5
<1>7. g[m] = g[m - 1] + OwedIn(f, m - 1, token)
      /\ h[m] = h[m - 1] + OwedIn(f, m - 1, token)
  BY <1>4, <1>5 DEF Recursion
<1> QED
  BY <1>3, <1>6, <1>7

(* Escrow is the last value of any running total of Owed.                  *)
LEMMA EscrowIsRunningTotal ==
  ASSUME TypeOK, NEW token \in Tokens, NEW g, RunningTotal(g, streams, streamCount, token)
  PROVE  Escrow(token) = g[streamCount]
<1>1. streamCount \in Nat
  BY LimitAssumption DEF TypeOK
<1>2. Recursion(g, streams, streamCount, token)
  BY <1>1 DEF RunningTotal, Recursion
<1> DEFINE upTo == CHOOSE h : Recursion(h, streams, streamCount, token)
<1>3. Recursion(upTo, streams, streamCount, token)
  BY <1>2
<1>4. Escrow(token) = upTo[streamCount]
  BY DEF Escrow, Recursion, OwedIn, Owed
<1> QED
  BY <1>1, <1>2, <1>3, <1>4, RecursionUnique

(* In h stream id is owed delta less than in f, and the others the same.   *)
Reduced(f, h, count, token, id, delta) ==
  /\ delta \in Int /\ id \in 0 .. count - 1
  /\ OwedIn(h, id, token) = OwedIn(f, id, token) - delta
  /\ \A i \in 0 .. count - 1 : i # id => OwedIn(h, i, token) = OwedIn(f, i, token)
  /\ \A i \in 0 .. count - 1 : OwedIn(f, i, token) \in Int

(* Taking delta off what one stream is owed takes it off the total.        *)
LEMMA TotalReduced ==
  ASSUME NEW f, NEW h, NEW count \in Nat, NEW token, NEW g, NEW id, NEW delta,
         RunningTotal(g, f, count, token), Reduced(f, h, count, token, id, delta)
  PROVE  \E k : RunningTotal(k, h, count, token) /\ k[count] = g[count] - delta
<1> USE DEF Reduced
<1> DEFINE k == [n \in 0 .. count |-> IF n > id THEN g[n] - delta ELSE g[n]]
<1>1. k \in [0 .. count -> Int] /\ k[0] = 0 /\ k[count] = g[count] - delta
  BY DEF RunningTotal
<1>2. ASSUME NEW n \in 1 .. count
      PROVE  k[n] = k[n - 1] + OwedIn(h, n - 1, token)
  <2>1. n - 1 \in 0 .. count - 1 /\ n - 1 \in 0 .. count /\ n \in 0 .. count
    OBVIOUS
  <2>2. g[n] = g[n - 1] + OwedIn(f, n - 1, token) /\ g[n - 1] \in Int
        /\ OwedIn(f, n - 1, token) \in Int
    BY <2>1 DEF RunningTotal
  <2>3. OwedIn(h, n - 1, token) = OwedIn(f, n - 1, token) - (IF n - 1 = id THEN delta ELSE 0)
    BY <2>1
  <2> QED
    BY <2>1, <2>2, <2>3
<1> HIDE DEF k
<1>3. RunningTotal(k, h, count, token)
  BY <1>1, <1>2 DEF RunningTotal
<1> QED
  BY <1>1, <1>3

(* h has the records of f and one more, which is owed an integer.          *)
Extended(f, h, count, token) ==
  /\ \A i \in 0 .. count - 1 : h[i] = f[i]
  /\ OwedIn(h, count, token) \in Int

(* One more stream adds what it is owed.                                   *)
LEMMA TotalExtended ==
  ASSUME NEW f, NEW h, NEW count \in Nat, NEW token, NEW g,
         RunningTotal(g, f, count, token), Extended(f, h, count, token)
  PROVE  \E k : /\ RunningTotal(k, h, count + 1, token)
                /\ k[count + 1] = g[count] + OwedIn(h, count, token)
<1> USE DEF Extended
<1> DEFINE k == [n \in 0 .. count + 1 |->
                   IF n = count + 1 THEN g[count] + OwedIn(h, count, token) ELSE g[n]]
<1>1. k \in [0 .. count + 1 -> Int] /\ k[0] = 0
      /\ k[count + 1] = g[count] + OwedIn(h, count, token)
  BY DEF RunningTotal
<1>2. ASSUME NEW n \in 1 .. count + 1
      PROVE  k[n] = k[n - 1] + OwedIn(h, n - 1, token)
  <2>1. CASE n = count + 1
    BY <2>1
  <2>2. CASE n # count + 1
    <3>1. n \in 1 .. count /\ n - 1 \in 0 .. count - 1 /\ n - 1 \in 0 .. count
      BY <2>2
    <3>2. OwedIn(h, n - 1, token) = OwedIn(f, n - 1, token)
      BY <3>1 DEF OwedIn
    <3>3. k[n] = g[n] /\ k[n - 1] = g[n - 1]
      BY <3>1
    <3> QED
      BY <3>1, <3>2, <3>3 DEF RunningTotal
  <2> QED
    BY <2>1, <2>2
<1> HIDE DEF k
<1>3. RunningTotal(k, h, count + 1, token)
  BY <1>1, <1>2 DEF RunningTotal
<1> QED
  BY <1>1, <1>3
-----------------------------------------------------------------------------
(* Solvency.  Backed is the inductive form of Solvent: it names the running*)
(* total of every token instead of the recursive function, so that a step  *)
(* only has to adjust it.                                                  *)

Backed ==
  \A token \in Tokens :
    \E g : RunningTotal(g, streams, streamCount, token) /\ g[streamCount] = Balance(token)

(* What a stream is owed is an integer.                                    *)
LEMMA OwedInt ==
  ASSUME TypeOK, NEW token
  PROVE  \A i \in 0 .. streamCount - 1 : OwedIn(streams, i, token) \in Int
<1> SUFFICES ASSUME NEW i \in 0 .. streamCount - 1
             PROVE  OwedIn(streams, i, token) \in Int
  OBVIOUS
<1>1. streams[i] \in StreamType
  BY DEF TypeOK
<1> QED
  BY <1>1 DEF OwedIn, StreamType

(* What a transfer does to the contract's own balance.                     *)
LEMMA MovedOut ==
  ASSUME TypeOK, NEW token \in Tokens, NEW to \in Addresses, NEW amount \in Nat, to # This,
         wallet' = Moved(token, This, to, amount), UNCHANGED surplus, NEW other \in Tokens
  PROVE  Balance(other)' = Balance(other) - (IF other = token THEN amount ELSE 0)
<1>1. This \in Addresses /\ wallet[other][This] \in Nat /\ surplus[other] \in Nat
  BY DEF TypeOK, Addresses
<1>2. wallet'[other][This] = wallet[other][This] - (IF other = token THEN amount ELSE 0)
  <2>1. wallet'[other][This]
          = wallet[other][This] + (IF other = token /\ This = to THEN amount ELSE 0)
                                - (IF other = token /\ This = This THEN amount ELSE 0)
    BY <1>1, MovedAt
  <2> QED
    BY <1>1, <2>1
<1> QED
  BY <1>1, <1>2 DEF Balance

(* A deposit by a party adds its amount to the contract.                   *)
LEMMA MovedIn ==
  ASSUME TypeOK, NEW token \in Tokens, NEW from \in Addresses, NEW amount \in Nat, from # This,
         wallet' = Moved(token, from, This, amount), UNCHANGED surplus, NEW other \in Tokens
  PROVE  Balance(other)' = Balance(other) + (IF other = token THEN amount ELSE 0)
<1>1. This \in Addresses /\ wallet[other][This] \in Nat /\ surplus[other] \in Nat
  BY DEF TypeOK, Addresses
<1>2. wallet'[other][This] = wallet[other][This] + (IF other = token THEN amount ELSE 0)
  <2>1. wallet'[other][This]
          = wallet[other][This] + (IF other = token /\ This = This THEN amount ELSE 0)
                                - (IF other = token /\ This = from THEN amount ELSE 0)
    BY <1>1, MovedAt
  <2> QED
    BY <1>1, <2>1
<1> QED
  BY <1>1, <1>2 DEF Balance

(* A step that pays amount out of the escrow of one stream, and of the     *)
(* balance of its token, keeps the contract backed.                        *)
LEMMA PaidOutBacked ==
  ASSUME TypeOK, Backed, NEW id \in DOMAIN streams, NEW amount \in Int, NEW s,
         s.token = streams[id].token,
         s.total_amount - s.withdrawn = streams[id].total_amount - streams[id].withdrawn - amount,
         streamCount' = streamCount,
         DOMAIN streams' = DOMAIN streams,
         \A i \in DOMAIN streams : streams'[i] = IF i = id THEN s ELSE streams[i],
         \A token \in Tokens :
           Balance(token)' = Balance(token) - (IF token = streams[id].token THEN amount ELSE 0)
  PROVE  Backed'
<1> SUFFICES ASSUME NEW token \in Tokens
             PROVE  \E g : /\ RunningTotal(g, streams', streamCount, token)
                           /\ g[streamCount] = Balance(token)'
  BY DEF Backed
<1>1. PICK g : RunningTotal(g, streams, streamCount, token) /\ g[streamCount] = Balance(token)
  BY DEF Backed
<1> DEFINE delta == IF token = streams[id].token THEN amount ELSE 0
<1>2. DOMAIN streams = 0 .. streamCount - 1 /\ streamCount \in Nat
  BY LimitAssumption DEF TypeOK
<1>3. \A i \in 0 .. streamCount - 1 : OwedIn(streams, i, token) \in Int
  BY OwedInt
<1> DEFINE h == streams'
<1>4. \A i \in 0 .. streamCount - 1 : i # id => OwedIn(h, i, token) = OwedIn(streams, i, token)
  BY <1>2 DEF OwedIn
<1>5. OwedIn(h, id, token) = OwedIn(streams, id, token) - delta
  <2>1. h[id] = s
    OBVIOUS
  <2> HIDE DEF h
  <2>2. streams[id] \in StreamType
    BY DEF TypeOK
  <2>3. streams[id].total_amount \in Nat /\ streams[id].withdrawn \in Nat
    BY <2>2 DEF StreamType
  <2>4. CASE token = streams[id].token
    <3>1. delta = amount
      BY <2>4
    <3>2. OwedIn(h, id, token) = s.total_amount - s.withdrawn
      BY <2>1, <2>4 DEF OwedIn
    <3>3. OwedIn(streams, id, token) = streams[id].total_amount - streams[id].withdrawn
      BY <2>4 DEF OwedIn
    <3> HIDE DEF delta
    <3> QED
      BY <2>3, <3>1, <3>2, <3>3
  <2>5. CASE token # streams[id].token
    BY <2>1, <2>5 DEF OwedIn
  <2> QED
    BY <2>4, <2>5
<1>6. delta \in Int /\ id \in 0 .. streamCount - 1
  BY <1>2
<1> HIDE DEF delta, h
<1>7. Reduced(streams, h, streamCount, token, id, delta)
  BY <1>3, <1>4, <1>5, <1>6 DEF Reduced
<1>8. PICK k : RunningTotal(k, h, streamCount, token) /\ k[streamCount] = g[streamCount] - delta
  BY <1>1, <1>2, <1>7, TotalReduced
<1>9. Balance(token)' = Balance(token) - delta
  BY DEF delta
<1> QED
  BY <1>1, <1>8, <1>9 DEF h

(* A deposit backs the stream it opens.                                    *)
LEMMA OpensBacked ==
  ASSUME TypeOK, Backed, NEW r \in Requests, Opens(r)
  PROVE  Backed'
<1> SUFFICES ASSUME NEW token \in Tokens
             PROVE  \E g : /\ RunningTotal(g, streams', streamCount + 1, token)
                           /\ g[streamCount + 1] = Balance(token)'
  BY DEF Backed, Opens, Create, Store, NextId
<1>1. PICK g : RunningTotal(g, streams, streamCount, token) /\ g[streamCount] = Balance(token)
  BY DEF Backed
<1>2. /\ r.sender \in Addresses /\ r.sender # This /\ r.token \in Tokens
      /\ r.total_amount \in Nat /\ streamCount \in Nat
  BY InputAssumption, LimitAssumption DEF Opens, TypeOK
<1>3. \A i \in 0 .. streamCount - 1 : streams'[i] = streams[i]
  BY OpensStore
<1>4. OwedIn(streams', streamCount, token) = IF token = r.token THEN r.total_amount ELSE 0
  <2>1. streams'[streamCount] = NewStream(r)
    BY OpensStore
  <2> QED
    BY <1>2, <2>1 DEF OwedIn, NewStream
<1>5. Balance(token)' = Balance(token) + (IF token = r.token THEN r.total_amount ELSE 0)
  BY <1>2, MovedIn DEF Opens, Create, Store, NextId
<1>6. \E k : /\ RunningTotal(k, streams', streamCount + 1, token)
             /\ k[streamCount + 1] = g[streamCount] + OwedIn(streams', streamCount, token)
  <2> DEFINE h == streams'
  <2>1. (\A i \in 0 .. streamCount - 1 : h[i] = streams[i]) /\ OwedIn(h, streamCount, token) \in Int
    BY <1>2, <1>3, <1>4
  <2> HIDE DEF h
  <2>2. Extended(streams, h, streamCount, token)
    BY <2>1 DEF Extended
  <2>3. \E k : /\ RunningTotal(k, h, streamCount + 1, token)
               /\ k[streamCount + 1] = g[streamCount] + OwedIn(h, streamCount, token)
    BY <1>1, <1>2, <2>2, TotalExtended
  <2> QED
    BY <2>3 DEF h
<1> QED
  BY <1>1, <1>4, <1>5, <1>6

(* A payout takes from the books what it takes from the escrow.            *)
LEMMA PaysBacked ==
  ASSUME TypeOK, ClaimsInOrder, Backed,
         NEW id \in DOMAIN streams, NEW amount \in Nat, Pays(id, amount)
  PROVE  Backed'
<1> DEFINE s == AfterWithdraw(streams[id], amount)
<1>1. /\ streams[id] \in StreamType /\ streams[id].token \in Tokens
      /\ streams[id].recipient \in Addresses /\ streams[id].recipient # This
      /\ streams[id].total_amount \in Nat /\ streams[id].withdrawn \in Nat
  BY DEF TypeOK, StreamType, ClaimsInOrder
<1>2. s.token = streams[id].token /\ s.total_amount = streams[id].total_amount
      /\ s.withdrawn = streams[id].withdrawn + amount
  BY <1>1 DEF AfterWithdraw, StreamType
<1>3. \A token \in Tokens :
        Balance(token)' = Balance(token) - (IF token = streams[id].token THEN amount ELSE 0)
  BY <1>1, MovedOut DEF Pays, PayRecipient, Publish
<1>4. /\ DOMAIN streams' = DOMAIN streams
      /\ \A i \in DOMAIN streams : streams'[i] = IF i = id THEN s ELSE streams[i]
  BY PaysStore
<1>5. s.total_amount - s.withdrawn = streams[id].total_amount - streams[id].withdrawn - amount
  BY <1>1, <1>2
<1>6. streamCount' = streamCount
  BY DEF Pays
<1> HIDE DEF s
<1> QED
  BY <1>2, <1>3, <1>4, <1>5, <1>6, PaidOutBacked

(* A settlement takes the refund, if there is one, out of one balance.     *)
LEMMA SettlesBalance ==
  ASSUME TypeOK, ClaimsInOrder, NEW id \in DOMAIN streams, Settles(id)
  PROVE  \A token \in Tokens :
           Balance(token)' = Balance(token) - (IF token = streams[id].token THEN Refund(id) ELSE 0)
<1>1. /\ streams[id] \in StreamType /\ streams[id].token \in Tokens
      /\ streams[id].sender \in Addresses /\ streams[id].sender # This /\ Refund(id) \in Nat
  BY DEF TypeOK, StreamType, ClaimsInOrder, Settles
<1>2. CASE Refund(id) > 0
  <2>1. wallet' = Moved(streams[id].token, This, streams[id].sender, Refund(id))
        /\ UNCHANGED surplus
    BY <1>2 DEF Settles, Settle, Publish
  <2> QED
    BY <1>1, <2>1, MovedOut
<1>3. CASE ~(Refund(id) > 0)
  <2>1. UNCHANGED <<wallet, surplus>> /\ Refund(id) = 0
    BY <1>1, <1>3 DEF Settles, Settle, Publish
  <2>2. \A token \in Tokens : Balance(token) \in Int
    BY DEF Balance, TypeOK, Addresses
  <2>3. \A token \in Tokens : Balance(token)' = Balance(token)
    BY <2>1 DEF Balance
  <2> QED
    BY <2>1, <2>2, <2>3
<1> QED
  BY <1>2, <1>3

(* A settlement refunds what it takes from the escrow.                     *)
LEMMA SettlesBacked ==
  ASSUME TypeOK, ClaimsInOrder, Backed, NEW id \in DOMAIN streams, Settles(id)
  PROVE  Backed'
<1> DEFINE s == AfterCancel(streams[id], now)
<1>1. /\ streams[id] \in StreamType /\ streams[id].token \in Tokens /\ now \in Nat
      /\ streams[id].sender \in Addresses /\ streams[id].sender # This
      /\ streams[id].total_amount \in Nat /\ streams[id].withdrawn \in Nat
  BY DEF TypeOK, StreamType, ClaimsInOrder
<1>2. s.token = streams[id].token /\ s.total_amount = VestedAt(streams[id], now)
      /\ s.withdrawn = streams[id].withdrawn
  BY <1>1, AfterCancelRecord
<1>3. VestedAt(streams[id], now) \in Nat
  BY <1>1, RecordVested
<1>4. Refund(id) \in Nat /\ Refund(id) = streams[id].total_amount - VestedAt(streams[id], now)
  BY DEF Settles
<1>5. \A token \in Tokens :
        Balance(token)' = Balance(token) - (IF token = streams[id].token THEN Refund(id) ELSE 0)
  BY SettlesBalance
<1>6. /\ DOMAIN streams' = DOMAIN streams
      /\ \A i \in DOMAIN streams : streams'[i] = IF i = id THEN s ELSE streams[i]
  BY SettlesStore
<1>7. s.total_amount - s.withdrawn = streams[id].total_amount - streams[id].withdrawn - Refund(id)
  BY <1>1, <1>2, <1>3, <1>4
<1>8. streamCount' = streamCount
  BY DEF Settles
<1> HIDE DEF s
<1> QED
  BY <1>2, <1>4, <1>5, <1>6, <1>7, <1>8, PaidOutBacked

(* Every step keeps every stream backed.                                   *)
LEMMA NextBacked ==
  ASSUME TypeOK, ClaimsInOrder, Backed, [Next]_vars
  PROVE  Backed'
<1>1. CASE Idle
  BY <1>1 DEF Idle, Backed
<1> QED
  BY <1>1, OpensBacked, PaysBacked, SettlesBacked, StepEffects

(* A contract without streams holds nothing and owes nothing.              *)
LEMMA InitBacked == Init => Backed
<1> SUFFICES ASSUME Init, NEW token \in Tokens
             PROVE  \E g : /\ RunningTotal(g, streams, streamCount, token)
                           /\ g[streamCount] = Balance(token)
  BY DEF Backed
<1> DEFINE zero == [n \in 0 .. 0 |-> 0]
<1>1. RunningTotal(zero, streams, streamCount, token)
  BY DEF Init, RunningTotal
<1>2. zero[streamCount] = Balance(token)
  BY DEF Init, Balance, Addresses
<1> QED
  BY <1>1, <1>2

(* A backed contract holds its escrow and its surplus.                     *)
LEMMA BackedIsSolvent ==
  ASSUME TypeOK, Backed
  PROVE  Solvent
<1> SUFFICES ASSUME NEW token \in Tokens
             PROVE  wallet[token][This] = Escrow(token) + surplus[token]
  BY DEF Solvent
<1>1. Escrow(token) = Balance(token)
  BY EscrowIsRunningTotal DEF Backed
<1>2. wallet[token][This] \in Nat /\ surplus[token] \in Nat
  BY DEF TypeOK, Addresses
<1> QED
  BY <1>1, <1>2 DEF Balance

(* Backed, the inductive form of Solvent, holds in every reachable state.  *)
THEOREM AlwaysBacked == Spec => []Backed
  BY InitBacked, NextBacked, TypeCorrect, ClaimsStayInOrder, PTL DEF Spec

(* The contract holds, in every token, exactly what its streams have not   *)
(* paid out or refunded yet and what it was given besides: no sequence of  *)
(* calls on any number of streams spends what backs another.               *)
THEOREM ContractIsSolvent == Spec => []Solvent
  BY BackedIsSolvent, TypeCorrect, AlwaysBacked, PTL
-----------------------------------------------------------------------------
(* Liquidity.  Since no stream is owed a negative amount, the balance that *)
(* backs all of them covers each one.                                      *)

(* No stream is owed more than the running total.                          *)
LEMMA PartBelowTotal ==
  ASSUME NEW f, NEW count \in Nat, NEW token, NEW g, NEW id \in 0 .. count - 1,
         RunningTotal(g, f, count, token),
         \A i \in 0 .. count - 1 : OwedIn(f, i, token) \in Nat
  PROVE  OwedIn(f, id, token) <= g[count]
<1> DEFINE part == OwedIn(f, id, token)
           Fails == {n \in 0 .. count : g[n] < 0 \/ (n > id /\ g[n] < part)}
<1>1. g[0] = 0 /\ \A n \in 0 .. count : g[n] \in Int
  BY DEF RunningTotal
<1>2. \A n \in 1 .. count : g[n] = g[n - 1] + OwedIn(f, n - 1, token)
  BY DEF RunningTotal
<1>3. part \in Nat
  OBVIOUS
<1>4. ASSUME Fails # {} PROVE FALSE
  <2>1. Fails \subseteq Nat
    OBVIOUS
  <2> HIDE DEF Fails
  <2>2. PICK m \in Fails : \A k \in Fails : m <= k
    BY <1>4, <2>1, LeastElement
  <2> USE DEF Fails
  <2>3. m # 0 /\ m \in 0 .. count
    BY <1>1, <2>2
  <2>4. m - 1 \in 0 .. count /\ m \in 1 .. count /\ m - 1 \in 0 .. count - 1
    BY <2>3
  <2>5. m - 1 \notin Fails
    BY <2>2, <2>3
  <2>6. g[m] = g[m - 1] + OwedIn(f, m - 1, token) /\ OwedIn(f, m - 1, token) \in Nat
    BY <1>2, <2>4
  <2>7. g[m - 1] \in Int /\ g[m] \in Int
    BY <1>1, <2>4
  <2>8. g[m - 1] >= 0 /\ (m - 1 > id => g[m - 1] >= part)
    BY <1>3, <2>4, <2>5, <2>7
  <2>9. g[m] >= 0 /\ (m > id => g[m] >= part)
    <3>1. CASE m - 1 = id
      BY <2>6, <2>7, <2>8, <3>1
    <3>2. CASE m - 1 # id
      BY <1>3, <2>3, <2>6, <2>7, <2>8, <3>2
    <3> QED
      BY <3>1, <3>2
  <2> QED
    BY <1>3, <2>2, <2>7, <2>9
<1>5. count \notin Fails
  BY <1>4
<1> QED
  BY <1>1, <1>3, <1>5

(* The contract's balance covers each stream on its own.                   *)
LEMMA EachIsCovered ==
  ASSUME TypeOK, ClaimsInOrder, Backed, NEW id \in DOMAIN streams, NEW amount \in Int,
         amount <= streams[id].total_amount - streams[id].withdrawn
  PROVE  CanPay(streams[id].token, This, amount)
<1> DEFINE token == streams[id].token
<1>1. streamCount \in Nat /\ id \in 0 .. streamCount - 1
  BY LimitAssumption DEF TypeOK
<1>2. \A i \in 0 .. streamCount - 1 : streams[i] \in StreamType /\ now \in Nat
  BY DEF TypeOK
<1>3. ASSUME NEW i \in 0 .. streamCount - 1
      PROVE  OwedIn(streams, i, token) \in Nat
  <2>1. streams[i] \in StreamType /\ i \in DOMAIN streams
    BY <1>2 DEF TypeOK
  <2>2. streams[i].total_amount \in Nat /\ streams[i].withdrawn \in Nat
        /\ VestedAt(streams[i], now) \in Nat
    BY <1>2, <2>1, RecordVested DEF StreamType
  <2>3. streams[i].withdrawn <= VestedAt(streams[i], now)
        /\ VestedAt(streams[i], now) <= streams[i].total_amount
    BY <2>1 DEF ClaimsInOrder
  <2> QED
    BY <2>2, <2>3 DEF OwedIn
<1>4. token \in Tokens
  BY <1>1, <1>2 DEF StreamType
<1>5. PICK g : RunningTotal(g, streams, streamCount, token) /\ g[streamCount] = Balance(token)
  BY <1>4 DEF Backed
<1>6. OwedIn(streams, id, token) <= g[streamCount]
  BY <1>1, <1>3, <1>5, PartBelowTotal
<1>7. OwedIn(streams, id, token) = streams[id].total_amount - streams[id].withdrawn
  BY DEF OwedIn
<1>8. wallet[token][This] \in Nat /\ surplus[token] \in Nat
  BY <1>4 DEF TypeOK, Addresses
<1>9. OwedIn(streams, id, token) \in Nat
  BY <1>1, <1>3
<1> QED
  BY <1>5, <1>6, <1>7, <1>8, <1>9 DEF CanPay, Balance

(* With its claims in order, a backed stream can always be paid.           *)
LEMMA NoPayoutFails ==
  ASSUME TypeOK, ClaimsInOrder, Backed, NEW id \in DOMAIN streams
  PROVE  /\ \A amount \in Nat : amount <= Available(id) => CanPay(streams[id].token, This, amount)
         /\ CanPay(streams[id].token, This, Refund(id))
<1>1. streams[id] \in StreamType /\ now \in Nat
  BY DEF TypeOK
<1>2. streams[id].total_amount \in Nat /\ streams[id].withdrawn \in Nat
      /\ VestedAt(streams[id], now) \in Nat
  BY <1>1, RecordVested DEF StreamType
<1>3. streams[id].withdrawn <= VestedAt(streams[id], now)
      /\ VestedAt(streams[id], now) <= streams[id].total_amount
  BY DEF ClaimsInOrder
<1>4. Available(id) = VestedAt(streams[id], now) - streams[id].withdrawn
  BY <1>2, <1>3 DEF Available, WithdrawableAt, WithdrawableAmount
<1>5. Refund(id) = streams[id].total_amount - VestedAt(streams[id], now)
  BY DEF Refund, SettlementAt, Settlement
<1>6. /\ Available(id) \in Int /\ Refund(id) \in Int
      /\ Available(id) <= streams[id].total_amount - streams[id].withdrawn
      /\ Refund(id) <= streams[id].total_amount - streams[id].withdrawn
  BY <1>2, <1>3, <1>4, <1>5
<1>7. ASSUME NEW amount \in Nat, amount <= Available(id)
      PROVE  CanPay(streams[id].token, This, amount)
  BY <1>2, <1>6, <1>7, EachIsCovered
<1> QED
  BY <1>6, <1>7, EachIsCovered

(* No step's answer is a payout refused by the token.                      *)
LEMMA PayoutStep ==
  ASSUME TypeOK, ClaimsInOrder, Backed, PayoutsNeverFail, [Next]_vars
  PROVE  PayoutsNeverFail'
<1>1. ASSUME NEW r \in Requests, NEW caller \in Addresses, CreateStream(caller, r)
      PROVE  PayoutsNeverFail'
  BY <1>1 DEF CreateStream, Reply, PayoutsNeverFail
<1>2. ASSUME NEW id \in Ids, NEW caller \in Addresses, Withdraw(caller, id)
      PROVE  PayoutsNeverFail'
  <2>1. reply'.result = WithdrawResult(caller, id, WithdrawRefusal(id), Available(id))
    BY <1>2 DEF Withdraw, WithdrawWith, Reply
  <2>2. CASE id \in DOMAIN streams
    <3>1. CanPay(streams[id].token, This, Available(id))
      BY <2>2, NoPayoutFails, SelectedAmount
    <3> QED
      BY <2>1, <3>1 DEF WithdrawResult, WithdrawRefusal, PayoutsNeverFail
  <2>3. CASE id \notin DOMAIN streams
    BY <2>1, <2>3 DEF WithdrawResult, Known, PayoutsNeverFail
  <2> QED
    BY <2>2, <2>3
<1>3. ASSUME NEW id \in Ids, NEW caller \in Addresses, NEW amount \in Amounts,
             WithdrawAmount(caller, id, amount)
      PROVE  PayoutsNeverFail'
  <2>1. reply'.result = WithdrawResult(caller, id, WithdrawAmountRefusal(id, amount), amount)
    BY <1>3 DEF WithdrawAmount, WithdrawWith, Reply
  <2>2. CASE id \in DOMAIN streams
    <3>1. WithdrawAmountRefusal(id, amount) = "Ok" => CanPay(streams[id].token, This, amount)
      BY <2>2, NoPayoutFails, SelectedAmount, InputAssumption
    <3> QED
      BY <2>1, <3>1 DEF WithdrawResult, WithdrawAmountRefusal, PayoutsNeverFail
  <2>3. CASE id \notin DOMAIN streams
    BY <2>1, <2>3 DEF WithdrawResult, Known, PayoutsNeverFail
  <2> QED
    BY <2>2, <2>3
<1>4. ASSUME NEW id \in Ids, NEW caller \in Addresses, Cancel(caller, id)
      PROVE  PayoutsNeverFail'
  <2>1. reply'.result = CancelResult(caller, id)
    BY <1>4 DEF Cancel, Reply
  <2>2. id \in DOMAIN streams => CanPay(streams[id].token, This, Refund(id))
    BY NoPayoutFails
  <2> QED
    BY <2>1, <2>2 DEF CancelResult, Completed, Known, PayoutsNeverFail
<1>5. ASSUME \/ AdvanceLedger
             \/ \E from \in Parties, token \in Tokens, amount \in Gifts : Gift(from, token, amount)
             \/ UNCHANGED vars
      PROVE  PayoutsNeverFail'
  BY <1>5 DEF AdvanceLedger, Gift, vars, PayoutsNeverFail
<1> QED
  BY <1>1, <1>2, <1>3, <1>4, <1>5 DEF Next, Invocation

(* With a conforming token no withdrawal and no cancellation is ever       *)
(* refused for lack of funds, whatever the other streams did: only the     *)
(* deposit of a new stream can be.                                         *)
THEOREM PayoutsAlwaysSucceed == Spec => []PayoutsNeverFail
<1>1. Init => PayoutsNeverFail
  BY DEF Init, Reply, PayoutsNeverFail
<1> QED
  BY <1>1, PayoutStep, TypeCorrect, ClaimsStayInOrder, AlwaysBacked, PTL DEF Spec
=============================================================================
