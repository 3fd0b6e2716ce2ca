--------------------------- MODULE StreamHostProofs ---------------------------
(***************************************************************************)
(* Safety of StreamHost for any parties, requests, limits, ledger times    *)
(* and tokens, of which any may be conforming.                             *)
(***************************************************************************)
EXTENDS StreamHost, StreamPromiseProofs

-----------------------------------------------------------------------------
(* The stack.  No invocation is entered while another one waits, so that   *)
(* it holds one frame at most.                                             *)

(* The innermost frame, and all that is below it, of a stack of one.       *)
LEMMA OneFrame ==
  ASSUME NEW f, stack = <<f>>
  PROVE  ~AtRest /\ Top = f /\ Committed = f.saved /\ Front(stack) = << >>
<1>1. Len(stack) = 1 /\ stack[1] = f
  OBVIOUS
<1>2. Front(stack) = << >>
  BY <1>1 DEF Front
<1> QED
  BY <1>1, <1>2 DEF AtRest, Top, Committed

(* A new stream can still be stored under the id read before the call, and *)
(* any other call is about a stream that is there.                         *)
FrameTyped(f) ==
  /\ f \in [call : Calls, id : Nat, token : Tokens, from : Addresses, to : Addresses,
            amount : Nat, event : {f.event}, at : {"transfer", "returned"}, saved : {f.saved}]
  /\ StateTyped(f.saved)
  /\ f.call = "create_stream" =>
       /\ f.id = streamCount /\ streamCount < CountMax
       /\ NewStream(f.event.terms) \in StreamType
  /\ f.call # "create_stream" => f.id \in DOMAIN streams

HostTyped == TypeOK /\ (AtRest \/ \E f : stack = <<f>> /\ FrameTyped(f))

(* The state an invocation starts from is well typed.                      *)
LEMMA SnapshotTyped == TypeOK => StateTyped(Snapshot)
  BY DEF TypeOK, StateTyped, Snapshot

-----------------------------------------------------------------------------
(* What the checks have established when the token is called.              *)

(* An accepted request names other parties than the contract, a token, and *)
(* an amount there is something of; and there is an id left for it.        *)
Accepted(r) ==
  /\ r \in Requests
  /\ This \notin {r.sender, r.recipient}
  /\ {r.sender, r.recipient} \subseteq Addresses
  /\ r.token \in Tokens
  /\ r.total_amount \in Nat /\ r.total_amount > 0
  /\ NewStream(r) \in StreamType
  /\ streamCount < CountMax

CreateFrame(f, r) ==
  f = [call |-> "create_stream", id |-> streamCount, token |-> r.token, from |-> r.sender,
       to |-> This, amount |-> r.total_amount, event |-> CreatedEvent(r), at |-> "transfer",
       saved |-> Snapshot]

(* create_stream has passed its checks and waits for the deposit.          *)
LEMMA CreateBegun ==
  ASSUME TypeOK, NEW caller, NEW r \in Requests, BeginCreate(caller, r)
  PROVE  /\ AtRest /\ Accepted(r) /\ caller = r.sender
         /\ UNCHANGED vars
         /\ \E f : stack' = <<f>> /\ CreateFrame(f, r)
<1>1. CreateResult(caller, r) \in {"Ok", "TokenError"}
  BY DEF BeginCreate, Passes
<1>2. /\ caller = r.sender /\ This \notin {r.sender, r.recipient, r.token}
      /\ ~(r.total_amount <= 0) /\ NextIdFits
  BY <1>1 DEF CreateResult
<1>3. /\ r.sender \in Addresses /\ r.recipient \in Addresses /\ r.token \in Tokens
      /\ r.total_amount \in Nat /\ r.total_amount > 0
      /\ r.start_time \in Nat /\ r.end_time \in Nat /\ r.cliff_time \in Nat
  BY <1>2, InputAssumption
<1>4. NewStream(r) \in StreamType
  BY <1>3 DEF NewStream, StreamType
<1>5. streamCount < CountMax
  BY <1>2, LimitAssumption DEF NextIdFits, NextId, TypeOK
<1>6. AtRest /\ UNCHANGED vars
  BY DEF BeginCreate, CallToken, CanEnter
<1> DEFINE f == [call |-> "create_stream", id |-> streamCount, token |-> r.token,
                 from |-> r.sender, to |-> This, amount |-> r.total_amount,
                 event |-> CreatedEvent(r), at |-> FirstStop(r.total_amount), saved |-> Snapshot]
<1>7. stack' = Append(stack, f)
  BY DEF BeginCreate, CallToken
<1>8. f.at = "transfer"
  BY <1>3 DEF FirstStop
<1>9. CreateFrame(f, r)
  BY <1>8 DEF CreateFrame
<1> HIDE DEF f
<1>10. stack' = <<f>>
  BY <1>6, <1>7 DEF AtRest
<1> QED
  BY <1>2, <1>3, <1>4, <1>5, <1>6, <1>9, <1>10 DEF Accepted

(* A payout of amount to one of the parties of stream id has been taken    *)
(* off its record, s from now on, and waits for the token.                 *)
PayoutBegun(f, call, id, s, to, amount, event) ==
  /\ AtRest
  /\ call \in Calls \ {"create_stream"}
  /\ id \in DOMAIN streams /\ streams[id] \in StreamType /\ s \in StreamType
  /\ <<s.sender, s.recipient, s.token>>
       = <<streams[id].sender, streams[id].recipient, streams[id].token>>
  /\ s.total_amount - s.withdrawn = streams[id].total_amount - streams[id].withdrawn - amount
  /\ to \in {s.sender, s.recipient}
  /\ amount \in Nat
  /\ streams' = WithRecord(streams, id, s)
  /\ UNCHANGED <<now, streamCount, wallet, surplus, events, reply>>
  /\ stack' = <<f>>
  /\ f = [call |-> call, id |-> id, token |-> s.token, from |-> This, to |-> to,
          amount |-> amount, event |-> event, at |-> FirstStop(amount), saved |-> Snapshot]

(* Both withdrawals begin like this; they differ in what they select.      *)
LEMMA WithdrawBegun ==
  ASSUME TypeOK, NEW call \in {"withdraw", "withdraw_amount"}, NEW caller, NEW id,
         NEW refusal \in Codes \union {"Ok"}, NEW amount,
         id \in DOMAIN streams /\ refusal = "Ok" => amount \in Nat /\ amount > 0,
         BeginWithdraw(call, caller, id, refusal, amount)
  PROVE  /\ refusal = "Ok" /\ caller = streams[id].recipient /\ amount > 0
         /\ \E f : PayoutBegun(f, call, id, AfterWithdraw(streams[id], amount),
                               streams[id].recipient, amount, WithdrawnEvent(id, amount))
<1>1. WithdrawResult(caller, id, refusal, amount) \in {"Ok", "TokenError"}
  BY DEF BeginWithdraw, Passes
<1>2. id \in DOMAIN streams /\ caller = streams[id].recipient /\ refusal = "Ok"
  BY <1>1 DEF WithdrawResult, Known, Codes
<1>3. /\ streams[id] \in StreamType /\ amount \in Nat /\ amount > 0
      /\ streams[id].total_amount \in Nat /\ streams[id].withdrawn \in Nat
  BY <1>2 DEF TypeOK, StreamType
<1> DEFINE s == AfterWithdraw(streams[id], amount)
           f == [call |-> call, id |-> id, token |-> streams[id].token, from |-> This,
                 to |-> streams[id].recipient, amount |-> amount,
                 event |-> WithdrawnEvent(id, amount), at |-> FirstStop(amount), saved |-> Snapshot]
<1>4. /\ s \in StreamType
      /\ s.sender = streams[id].sender /\ s.recipient = streams[id].recipient
      /\ s.token = streams[id].token /\ s.total_amount = streams[id].total_amount
      /\ s.withdrawn = streams[id].withdrawn + amount
  BY <1>3 DEF AfterWithdraw, StreamType
<1>5. s.total_amount - s.withdrawn = streams[id].total_amount - streams[id].withdrawn - amount
  BY <1>3, <1>4
<1>6. /\ AtRest /\ stack' = Append(stack, f)
      /\ streams' = WithRecord(streams, id, s)
      /\ UNCHANGED <<now, streamCount, wallet, surplus, events, reply>>
  BY DEF BeginWithdraw, CallToken, CanEnter
<1>7. f = [call |-> call, id |-> id, token |-> s.token, from |-> This,
           to |-> streams[id].recipient, amount |-> amount,
           event |-> WithdrawnEvent(id, amount), at |-> FirstStop(amount), saved |-> Snapshot]
  BY <1>4
<1> HIDE DEF f, s
<1>8. stack' = <<f>>
  BY <1>6 DEF AtRest
<1>9. call \in Calls \ {"create_stream"}
  BY DEF Calls
<1>10. PayoutBegun(f, call, id, s, streams[id].recipient, amount, WithdrawnEvent(id, amount))
  BY <1>2, <1>3, <1>4, <1>5, <1>6, <1>7, <1>8, <1>9 DEF PayoutBegun
<1> QED
  BY <1>2, <1>3, <1>10 DEF s

(* withdraw selects all there is, and there is some.                       *)
LEMMA HostWithdrawBegun ==
  ASSUME TypeOK, NEW caller, NEW id, HostWithdraw(caller, id)
  PROVE  \E f : PayoutBegun(f, "withdraw", id, AfterWithdraw(streams[id], Available(id)),
                            streams[id].recipient, Available(id), WithdrawnEvent(id, Available(id)))
<1>1. WithdrawRefusal(id) \in Codes \union {"Ok"}
  BY DEF WithdrawRefusal, Codes
<1>2. id \in DOMAIN streams /\ WithdrawRefusal(id) = "Ok" =>
        Available(id) \in Nat /\ Available(id) > 0
  BY SelectedAmount
<1> QED
  BY <1>1, <1>2, WithdrawBegun DEF HostWithdraw

(* withdraw_amount selects what it was asked for, within what there is.    *)
LEMMA HostWithdrawAmountBegun ==
  ASSUME TypeOK, NEW caller, NEW id, NEW amount \in Amounts, HostWithdrawAmount(caller, id, amount)
  PROVE  \E f : PayoutBegun(f, "withdraw_amount", id, AfterWithdraw(streams[id], amount),
                            streams[id].recipient, amount, WithdrawnEvent(id, amount))
<1>1. WithdrawAmountRefusal(id, amount) \in Codes \union {"Ok"}
  BY DEF WithdrawAmountRefusal, Codes
<1>2. id \in DOMAIN streams /\ WithdrawAmountRefusal(id, amount) = "Ok" =>
        amount \in Nat /\ amount > 0
  BY SelectedAmount, InputAssumption
<1> QED
  BY <1>1, <1>2, WithdrawBegun DEF HostWithdrawAmount

(* cancel has frozen the record and waits for the refund.                  *)
LEMMA CancelBegun ==
  ASSUME TypeOK, NEW caller, NEW id, BeginCancel(caller, id)
  PROVE  /\ caller = streams[id].sender
         /\ \E f : PayoutBegun(f, "cancel", id, AfterCancel(streams[id], now),
                               streams[id].sender, Refund(id), CancelledEvent(id))
<1>1. CancelResult(caller, id) \in {"Ok", "TokenError"}
  BY DEF BeginCancel, Passes
<1>2. id \in DOMAIN streams /\ caller = streams[id].sender
  BY <1>1 DEF CancelResult, Known
<1>3. /\ streams[id] \in StreamType /\ now \in Nat
      /\ streams[id].total_amount \in Nat /\ streams[id].withdrawn \in Nat
  BY <1>2 DEF TypeOK, StreamType
<1>4. VestedAt(streams[id], now) \in 0 .. streams[id].total_amount
  BY <1>3, RecordVested
<1>5. Refund(id) = streams[id].total_amount - VestedAt(streams[id], now)
  BY DEF Refund, SettlementAt, Settlement
<1> DEFINE s == AfterCancel(streams[id], now)
           f == [call |-> "cancel", id |-> id, token |-> streams[id].token, from |-> This,
                 to |-> streams[id].sender, amount |-> Refund(id),
                 event |-> CancelledEvent(id), at |-> FirstStop(Refund(id)), saved |-> Snapshot]
<1>6. /\ s \in StreamType
      /\ s.sender = streams[id].sender /\ s.recipient = streams[id].recipient
      /\ s.token = streams[id].token /\ s.total_amount = VestedAt(streams[id], now)
      /\ s.withdrawn = streams[id].withdrawn
  <2> HIDE DEF s
  <2>1. s = AfterCancel(streams[id], now)
    BY DEF s
  <2> QED
    BY <1>3, <2>1, AfterCancelRecord
<1>7. /\ AtRest /\ stack' = Append(stack, f)
      /\ streams' = WithRecord(streams, id, s)
      /\ UNCHANGED <<now, streamCount, wallet, surplus, events, reply>>
  BY DEF BeginCancel, CallToken, CanEnter
<1>8. f = [call |-> "cancel", id |-> id, token |-> s.token, from |-> This,
           to |-> streams[id].sender, amount |-> Refund(id),
           event |-> CancelledEvent(id), at |-> FirstStop(Refund(id)), saved |-> Snapshot]
  BY <1>6
<1> HIDE DEF f, s
<1>9. Refund(id) \in Nat
      /\ s.total_amount - s.withdrawn
           = streams[id].total_amount - streams[id].withdrawn - Refund(id)
  BY <1>3, <1>4, <1>5, <1>6
<1>10. stack' = <<f>>
  BY <1>7 DEF AtRest
<1>11. "cancel" \in Calls \ {"create_stream"}
  BY DEF Calls
<1>12. PayoutBegun(f, "cancel", id, s, streams[id].sender, Refund(id), CancelledEvent(id))
  BY <1>2, <1>3, <1>6, <1>7, <1>8, <1>9, <1>10, <1>11 DEF PayoutBegun
<1> QED
  BY <1>2, <1>12 DEF s
-----------------------------------------------------------------------------
(* Type correctness, of the working state and of what is kept.             *)

(* The token's step leaves the state typed, whatever part it moves.        *)
LEMMA MovesType ==
  ASSUME HostTyped, TokenMoves
  PROVE  HostTyped'
<1>1. PICK f : stack = <<f>> /\ FrameTyped(f)
  BY DEF HostTyped, TokenMoves
<1>2. Top = f /\ Front(stack) = << >>
  BY <1>1, OneFrame
<1>3. PICK part \in Nat : CanPay(f.token, f.from, part)
                          /\ wallet' = Moved(f.token, f.from, f.to, part)
  BY <1>1, <1>2 DEF TokenMoves, FrameTyped
<1>4. wallet' \in [Tokens -> [Addresses -> Nat]]
  BY <1>1, <1>3, MovedType DEF FrameTyped, HostTyped, TypeOK
<1>5. UNCHANGED <<now, streams, streamCount, surplus, events, reply>>
  BY DEF TokenMoves
<1>6. TypeOK'
  BY <1>4, <1>5 DEF HostTyped, TypeOK
<1>7. PICK g : g = [f EXCEPT !.at = "returned"]
  OBVIOUS
<1>8. stack' = <<g>>
  BY <1>2, <1>7 DEF TokenMoves
<1>9. FrameTyped(g)'
  BY <1>1, <1>5, <1>7 DEF FrameTyped, StateTyped
<1> QED
  BY <1>6, <1>8, <1>9 DEF HostTyped

(* A rollback restores a typed state.                                      *)
LEMMA FailsType ==
  ASSUME HostTyped, TokenFails
  PROVE  HostTyped'
<1>1. PICK f : stack = <<f>> /\ FrameTyped(f)
  BY DEF HostTyped, TokenFails
<1>2. Top = f /\ Front(stack) = << >>
  BY <1>1, OneFrame
<1>3. /\ streams' = f.saved.streams /\ streamCount' = f.saved.streamCount
      /\ wallet' = f.saved.wallet /\ events' = f.saved.events
      /\ UNCHANGED <<now, surplus>> /\ stack' = << >>
  BY <1>2 DEF TokenFails, RollBack
<1>4. reply'.result \in Results
  BY DEF TokenFails, Reply, Results
<1> QED
  BY <1>1, <1>3, <1>4 DEF HostTyped, TypeOK, FrameTyped, StateTyped, AtRest

(* The rest of an invocation stores and publishes what it was let to.      *)
LEMMA FinishType ==
  ASSUME HostTyped, Finish
  PROVE  HostTyped'
<1>1. PICK f : stack = <<f>> /\ FrameTyped(f)
  BY DEF HostTyped, Finish
<1>2. Top = f /\ Front(stack) = << >>
  BY <1>1, OneFrame
<1>3. stack' = << >> /\ UNCHANGED <<now, wallet, surplus>>
  BY <1>2 DEF Finish
<1>4. reply'.result \in Results
  BY DEF Finish, FinishCreate, FinishPayout, Reply, Results
<1>5. CASE FinishCreate
  <2>1. /\ f.id = streamCount /\ streamCount < CountMax /\ NewStream(f.event.terms) \in StreamType
    BY <1>1, <1>2, <1>5 DEF FinishCreate, FrameTyped
  <2>2. Store(streamCount, f.event.terms)
    BY <1>2, <1>5, <2>1 DEF FinishCreate
  <2>3. streamCount' = streamCount + 1 /\ streamCount' \in 0 .. CountMax
    BY <2>1, <2>2, LimitAssumption DEF Store, NextId, HostTyped, TypeOK
  <2>4. streams' \in [0 .. streamCount' - 1 -> StreamType]
    BY <2>1, <2>2, <2>3 DEF Store, WithRecord, HostTyped, TypeOK
  <2>5. DOMAIN events' = DOMAIN streams'
    BY <2>2 DEF Store, WithRecord, HostTyped, TypeOK
  <2> QED
    BY <1>3, <1>4, <2>3, <2>4, <2>5 DEF HostTyped, TypeOK, AtRest
<1>6. CASE FinishPayout
  BY <1>3, <1>4, <1>6 DEF FinishPayout, Publish, HostTyped, TypeOK, AtRest
<1> QED
  BY <1>5, <1>6 DEF Finish

(* A stream that is about to be stored fits.                               *)
LEMMA BeginCreateType ==
  ASSUME HostTyped, NEW caller, NEW r \in Requests, BeginCreate(caller, r)
  PROVE  HostTyped'
<1>1. TypeOK
  BY DEF HostTyped
<1>2. PICK f : stack' = <<f>> /\ CreateFrame(f, r)
  BY <1>1, CreateBegun
<1>3. Accepted(r) /\ UNCHANGED vars
  BY <1>1, CreateBegun
<1>4. This \in Addresses /\ streamCount \in Nat /\ "create_stream" \in Calls
  BY <1>1, LimitAssumption DEF TypeOK, Addresses, Calls
<1>5. TypeOK'
  BY <1>1, <1>3 DEF vars, TypeOK
<1>6. StateTyped(Snapshot)
  BY <1>1, SnapshotTyped
<1>7. FrameTyped(f)'
  BY <1>2, <1>3, <1>4, <1>6 DEF FrameTyped, CreateFrame, CreatedEvent, Accepted, vars
<1> QED
  BY <1>2, <1>5, <1>7 DEF HostTyped

(* A record that is about to be paid out is stored.                        *)
LEMMA PayoutType ==
  ASSUME HostTyped, NEW f, NEW call, NEW id, NEW s, NEW to, NEW amount, NEW event,
         PayoutBegun(f, call, id, s, to, amount, event)
  PROVE  HostTyped'
<1> USE DEF PayoutBegun
<1>1. TypeOK
  BY DEF HostTyped
<1>2. This \in Addresses /\ id \in Nat /\ s.token \in Tokens /\ to \in Addresses
  <2>1. streamCount \in Nat /\ DOMAIN streams = 0 .. streamCount - 1
    BY <1>1, LimitAssumption DEF TypeOK
  <2>2. id \in DOMAIN streams /\ s \in StreamType /\ to \in {s.sender, s.recipient}
    OBVIOUS
  <2> HIDE DEF PayoutBegun
  <2>3. id \in Nat
    BY <2>1, <2>2
  <2>4. This \in Addresses /\ s.token \in Tokens /\ to \in Addresses
    BY <2>2 DEF Addresses, StreamType
  <2> QED
    BY <2>3, <2>4
<1>3. /\ streams' \in [0 .. streamCount - 1 -> StreamType]
      /\ DOMAIN streams' = DOMAIN streams
  BY <1>1, StoreType
<1>4. TypeOK'
  BY <1>1, <1>3 DEF TypeOK
<1>5. StateTyped(Snapshot)
  BY <1>1, SnapshotTyped
<1>6. FrameTyped(f)'
  BY <1>2, <1>3, <1>5 DEF FrameTyped, FirstStop
<1> QED
  BY <1>4, <1>6 DEF HostTyped

(* Every step keeps the types.                                             *)
LEMMA HostNextType ==
  ASSUME HostTyped, [HostNext]_hostVars
  PROVE  HostTyped'
<1>1. TypeOK
  BY DEF HostTyped
<1>2. ASSUME [Next]_vars, AtRest, UNCHANGED stack PROVE HostTyped'
  BY <1>1, <1>2, NextType DEF HostTyped, AtRest
<1>3. CASE Refused
  BY <1>2, <1>3 DEF Refused, CanEnter, Next
<1>4. CASE HostAdvance
  BY <1>2, <1>4 DEF HostAdvance, Next
<1>5. ASSUME NEW from \in Parties, NEW token \in Tokens, NEW amount \in Gifts,
             HostGift(from, token, amount)
      PROVE  HostTyped'
  BY <1>2, <1>5 DEF HostGift, Next
<1>6. ASSUME NEW id \in Ids, NEW caller \in Addresses, HostWithdraw(caller, id)
      PROVE  HostTyped'
  BY <1>1, <1>6, HostWithdrawBegun, PayoutType
<1>7. ASSUME NEW id \in Ids, NEW caller \in Addresses, NEW amount \in Amounts,
             HostWithdrawAmount(caller, id, amount)
      PROVE  HostTyped'
  BY <1>1, <1>7, HostWithdrawAmountBegun, PayoutType
<1>8. ASSUME NEW id \in Ids, NEW caller \in Addresses, BeginCancel(caller, id)
      PROVE  HostTyped'
  BY <1>1, <1>8, CancelBegun, PayoutType
<1>9. CASE UNCHANGED hostVars
  BY <1>9 DEF hostVars, HostTyped, TypeOK, AtRest, FrameTyped
<1> QED
  BY <1>3, <1>4, <1>5, <1>6, <1>7, <1>8, <1>9, BeginCreateType, MovesType, FailsType, FinishType
     DEF HostNext

(* A host that has not run anything is typed.                              *)
LEMMA HostInitType == HostInit => HostTyped
  BY InitType DEF HostInit, HostTyped, AtRest

(* The inductive form of HostTypeOK implies it.                            *)
LEMMA TypedIsTypeOK == HostTyped => HostTypeOK
<1>1. CASE HostTyped /\ AtRest
  <2>1. Len(stack) = 0
    BY <1>1 DEF AtRest
  <2> QED
    BY <1>1, <2>1 DEF HostTyped, HostTypeOK
<1>2. CASE HostTyped /\ ~AtRest
  <2>1. PICK f : stack = <<f>> /\ FrameTyped(f)
    BY <1>2 DEF HostTyped
  <2>2. Len(stack) = 1 /\ \A i \in 1 .. Len(stack) : stack[i] = f
    BY <2>1
  <2>3. /\ f.call \in Calls /\ f.at \in {"transfer", "returned"}
        /\ f.token \in Tokens /\ f.amount \in Nat
        /\ StateTyped(f.saved)
        /\ {f.from, f.to} \subseteq Addresses
        /\ f.call = "create_stream" => f.id = streamCount
        /\ f.call # "create_stream" => Known(f.id)
    BY <2>1 DEF FrameTyped, Known
  <2> QED
    BY <1>2, <2>2, <2>3 DEF HostTyped, HostTypeOK
<1> QED
  BY <1>1, <1>2

(* The host's inductive typing.                                            *)
THEOREM AlwaysHostTyped == HostSpec => []HostTyped
<1>1. HostInit => HostTyped
  BY HostInitType
<1>2. HostTyped /\ [HostNext]_hostVars => HostTyped'
  BY HostNextType
<1> QED
  BY <1>1, <1>2, PTL DEF HostSpec

(* Whatever tokens do, one invocation at most waits for its token, the     *)
(* state it works on and the state to roll back to keep their types, the   *)
(* id read before a deposit is still the next one when it comes back, and  *)
(* a payout under way is of a stream that is there.                        *)
THEOREM HostTypeCorrect == HostSpec => []HostTypeOK
  BY TypedIsTypeOK, AlwaysHostTyped, PTL
-----------------------------------------------------------------------------
(* Solvency in conforming tokens.  As in StreamContractProofs the running  *)
(* totals are what is carried along: one for the records an invocation     *)
(* works on, short of what is on its way, and one for those it may be      *)
(* rolled back to.                                                         *)

ApartIn(f) == \A id \in DOMAIN f : This \notin {f[id].sender, f[id].recipient}

Held(token, s) ==
  \E g : /\ RunningTotal(g, s.streams, s.streamCount, token)
         /\ g[s.streamCount] = s.wallet[token][This] - surplus[token]

(* A deposit comes from a party and is that of the stream to be stored; a  *)
(* payout goes to a party.                                                 *)
FrameBacked(f) ==
  /\ ApartIn(f.saved.streams)
  /\ \A token \in Conforming : Held(token, f.saved)
  /\ f.call = "create_stream" =>
       /\ f.from # This /\ f.to = This
       /\ This \notin {f.event.terms.sender, f.event.terms.recipient}
       /\ f.event.terms.token = f.token /\ f.event.terms.total_amount = f.amount
  /\ f.call # "create_stream" => f.from = This /\ f.to # This

(* There is a running total of what is owed in token now that ends where   *)
(* the balance does, but for what is on its way.                           *)
BackedIn(token) ==
  \E g : /\ RunningTotal(g, streams, streamCount, token)
         /\ g[streamCount] = Balance(token) - InFlight(token)

HostBacked ==
  /\ ApartIn(streams)
  /\ \A token \in Conforming : BackedIn(token)
  /\ AtRest \/ \E f : stack = <<f>> /\ FrameBacked(f)

(* A balance is an integer.                                                *)
LEMMA BalanceInt ==
  ASSUME TypeOK, NEW token \in Tokens
  PROVE  /\ wallet[token][This] \in Nat /\ surplus[token] \in Nat
         /\ Balance(token) \in Int
  BY DEF TypeOK, Balance, Addresses

(* Nothing is on its way between invocations.                              *)
LEMMA AtRestInFlight ==
  ASSUME AtRest, NEW token
  PROVE  InFlight(token) = 0
  BY DEF InFlight

(* What is on its way in an invocation.                                    *)
OnItsWay(f, token) ==
  IF f.token = token /\ (f.at = "returned" <=> f.call = "create_stream") THEN f.amount ELSE 0

(* It is what is on its way at all, for one invocation at most waits.      *)
LEMMA FrameInFlight ==
  ASSUME NEW f, NEW token
  PROVE  /\ stack = <<f>> => InFlight(token) = OnItsWay(f, token)
         /\ stack' = <<f>> => InFlight(token)' = OnItsWay(f, token)
<1>1. ASSUME stack = <<f>> PROVE InFlight(token) = OnItsWay(f, token)
  <2>1. ~AtRest /\ Top = f
    BY <1>1, OneFrame
  <2> QED
    BY <2>1 DEF InFlight, OnItsWay
<1>2. ASSUME stack' = <<f>> PROVE InFlight(token)' = OnItsWay(f, token)
  <2>1. ~AtRest' /\ Top' = f
    BY <1>2 DEF AtRest, Top
  <2> QED
    BY <2>1 DEF InFlight, OnItsWay
<1> QED
  BY <1>1, <1>2

(* Between invocations what is backed is what a rollback would restore.    *)
LEMMA SnapshotHeld ==
  ASSUME TypeOK, AtRest, HostBacked, NEW token \in Conforming
  PROVE  Held(token, Snapshot)
<1>1. BackedIn(token) /\ InFlight(token) = 0 /\ token \in Tokens
  BY AtRestInFlight, ConformingAssumption DEF HostBacked
<1>2. PICK g : RunningTotal(g, streams, streamCount, token) /\ g[streamCount] = Balance(token) - 0
  BY <1>1 DEF BackedIn
<1> QED
  BY <1>1, <1>2, BalanceInt DEF Held, Snapshot, Balance

(* Taking amount off what one record is owed takes it off the total.       *)
LEMMA RecordReduced ==
  ASSUME TypeOK, NEW id \in DOMAIN streams, NEW s \in StreamType, NEW amount \in Nat,
         s.token = streams[id].token,
         s.total_amount - s.withdrawn = streams[id].total_amount - streams[id].withdrawn - amount,
         NEW token, NEW g, RunningTotal(g, streams, streamCount, token)
  PROVE  \E k : /\ RunningTotal(k, WithRecord(streams, id, s), streamCount, token)
                /\ k[streamCount] = g[streamCount] - (IF token = s.token THEN amount ELSE 0)
<1> DEFINE h == WithRecord(streams, id, s)
           delta == IF token = s.token THEN amount ELSE 0
<1>1. DOMAIN streams = 0 .. streamCount - 1 /\ streamCount \in Nat /\ streams[id] \in StreamType
  BY LimitAssumption DEF TypeOK
<1>2. h[id] = s /\ \A i \in 0 .. streamCount - 1 : i # id => h[i] = streams[i]
  BY <1>1 DEF WithRecord
<1> HIDE DEF h
<1>3. \A i \in 0 .. streamCount - 1 : OwedIn(streams, i, token) \in Int
  BY OwedInt
<1>4. \A i \in 0 .. streamCount - 1 : i # id => OwedIn(h, i, token) = OwedIn(streams, i, token)
  BY <1>2 DEF OwedIn
<1>5. OwedIn(h, id, token) = OwedIn(streams, id, token) - delta
  <2>1. /\ streams[id].total_amount \in Nat /\ streams[id].withdrawn \in Nat
        /\ s.total_amount \in Nat /\ s.withdrawn \in Nat
    BY <1>1 DEF StreamType
  <2>2. CASE token = s.token
    BY <1>2, <2>1, <2>2 DEF OwedIn
  <2>3. CASE token # s.token
    BY <1>2, <2>1, <2>3 DEF OwedIn
  <2> QED
    BY <2>2, <2>3
<1>6. delta \in Int /\ id \in 0 .. streamCount - 1
  BY <1>1
<1> HIDE DEF delta
<1>7. Reduced(streams, h, streamCount, token, id, delta)
  BY <1>3, <1>4, <1>5, <1>6 DEF Reduced
<1>8. \E k : RunningTotal(k, h, streamCount, token) /\ k[streamCount] = g[streamCount] - delta
  BY <1>1, <1>7, TotalReduced
<1> QED
  BY <1>8 DEF h, delta

(* Rewriting a record for the same parties keeps them apart.               *)
LEMMA RewrittenApart ==
  ASSUME ApartIn(streams), NEW id \in DOMAIN streams, NEW s,
         s.sender = streams[id].sender, s.recipient = streams[id].recipient
  PROVE  ApartIn(WithRecord(streams, id, s))
  BY DEF ApartIn, WithRecord

(* A payout under way has left the records and not yet the balance.        *)
LEMMA PayoutBacked ==
  ASSUME HostTyped, HostBacked,
         NEW f, NEW call, NEW id, NEW s, NEW to, NEW amount, NEW event,
         PayoutBegun(f, call, id, s, to, amount, event)
  PROVE  HostBacked'
<1> USE DEF PayoutBegun
<1>1. TypeOK /\ AtRest
  BY DEF HostTyped
<1>2. /\ s.sender = streams[id].sender /\ s.recipient = streams[id].recipient
      /\ s.token = streams[id].token
  OBVIOUS
<1>3. ApartIn(streams) /\ to # This
  BY <1>2 DEF HostBacked, ApartIn
<1>4. ApartIn(streams')
  BY <1>2, <1>3, RewrittenApart
<1>5. ASSUME NEW token \in Conforming PROVE BackedIn(token)'
  <2>1. PICK g : RunningTotal(g, streams, streamCount, token)
                 /\ g[streamCount] = Balance(token) - InFlight(token)
    BY DEF HostBacked, BackedIn
  <2>2. InFlight(token) = 0 /\ token \in Tokens /\ Balance(token) \in Int
    BY <1>1, AtRestInFlight, BalanceInt, ConformingAssumption
  <2>3. PICK k : /\ RunningTotal(k, streams', streamCount, token)
                 /\ k[streamCount] = g[streamCount] - (IF token = s.token THEN amount ELSE 0)
    BY <1>1, <1>2, <2>1, RecordReduced
  <2>4. InFlight(token)' = IF token = s.token THEN amount ELSE 0
    <3>1. InFlight(token)' = OnItsWay(f, token)
      BY FrameInFlight
    <3>2. /\ f.token = s.token /\ f.amount = amount /\ f.call # "create_stream"
          /\ amount > 0 => f.at = "transfer"
      BY DEF FirstStop
    <3>3. amount > 0 \/ amount = 0
      OBVIOUS
    <3> QED
      BY <3>1, <3>2, <3>3 DEF OnItsWay
  <2>5. Balance(token)' = Balance(token)
    BY DEF Balance
  <2> QED
    BY <2>1, <2>2, <2>3, <2>4, <2>5 DEF BackedIn
<1>6. FrameBacked(f)'
  <2>1. \A token \in Conforming : Held(token, Snapshot)
    BY <1>1, SnapshotHeld
  <2>2. f.saved = Snapshot /\ f.call # "create_stream" /\ f.from = This /\ f.to = to
    OBVIOUS
  <2>3. ApartIn(f.saved.streams)
    BY <1>3, <2>2 DEF Snapshot
  <2>4. \A token \in Conforming : Held(token, f.saved)'
    BY <2>1, <2>2 DEF Held
  <2> QED
    BY <1>3, <2>2, <2>3, <2>4 DEF FrameBacked
<1> QED
  BY <1>4, <1>5, <1>6 DEF HostBacked

(* A deposit that was asked for changes nothing yet.                       *)
LEMMA BeginCreateBacked ==
  ASSUME HostTyped, HostBacked, NEW caller, NEW r \in Requests, BeginCreate(caller, r)
  PROVE  HostBacked'
<1>1. TypeOK
  BY DEF HostTyped
<1>2. AtRest /\ Accepted(r) /\ UNCHANGED vars
  BY <1>1, CreateBegun
<1>3. PICK f : stack' = <<f>> /\ CreateFrame(f, r)
  BY <1>1, CreateBegun
<1>4. /\ f.call = "create_stream" /\ f.at = "transfer" /\ f.saved = Snapshot
      /\ f.from = r.sender /\ f.to = This /\ f.token = r.token /\ f.amount = r.total_amount
      /\ f.event.terms = r
  BY <1>3 DEF CreateFrame, CreatedEvent
<1>5. ASSUME NEW token \in Conforming PROVE BackedIn(token)'
  <2>1. InFlight(token) = 0
    BY <1>2, AtRestInFlight
  <2>2. InFlight(token)' = 0
    BY <1>3, <1>4, FrameInFlight DEF OnItsWay
  <2>3. BackedIn(token)
    BY DEF HostBacked
  <2>4. UNCHANGED <<streams, streamCount, wallet, surplus>>
    BY <1>2 DEF vars
  <2> QED
    BY <2>1, <2>2, <2>3, <2>4 DEF BackedIn, Balance
<1>6. ApartIn(streams) /\ ApartIn(streams')
  BY <1>2 DEF HostBacked, vars
<1>7. \A token \in Conforming : Held(token, f.saved)
  BY <1>1, <1>2, <1>4, SnapshotHeld
<1>8. \A token \in Conforming : Held(token, f.saved)'
  BY <1>2, <1>7 DEF Held, vars
<1>9. ApartIn(f.saved.streams)
  BY <1>4, <1>6 DEF Snapshot
<1>10. f.from # This /\ This \notin {r.sender, r.recipient}
  BY <1>2, <1>4 DEF Accepted
<1>11. FrameBacked(f)'
  BY <1>4, <1>8, <1>9, <1>10 DEF FrameBacked
<1> QED
  BY <1>3, <1>5, <1>6, <1>11 DEF HostBacked

(* The frame there is has all that is said of one.                         *)
LEMMA TheFrame ==
  ASSUME HostTyped, HostBacked, ~AtRest
  PROVE  \E f : stack = <<f>> /\ FrameTyped(f) /\ FrameBacked(f)
<1>1. PICK f : stack = <<f>> /\ FrameTyped(f)
  BY DEF HostTyped
<1>2. PICK g : stack = <<g>> /\ FrameBacked(g)
  BY DEF HostBacked
<1>3. f = g
  BY <1>1, <1>2
<1> QED
  BY <1>1, <1>2, <1>3

(* A conforming token takes off its way what it brings to, or takes from,  *)
(* the balance; and no other token touches that balance.                   *)
LEMMA MovesBacked ==
  ASSUME HostTyped, HostBacked, TokenMoves
  PROVE  HostBacked'
<1>1. TypeOK /\ ~AtRest
  BY DEF HostTyped, TokenMoves
<1>2. PICK f : stack = <<f>> /\ FrameTyped(f) /\ FrameBacked(f)
  BY <1>1, TheFrame
<1>3. FrameBacked(f)
  BY <1>2
<1>4. Top = f /\ Front(stack) = << >> /\ f.at = "transfer"
  BY <1>2, OneFrame DEF TokenMoves
<1>5. /\ f.call \in Calls /\ f.token \in Tokens /\ f.from \in Addresses /\ f.to \in Addresses
      /\ f.amount \in Nat
  BY <1>2 DEF FrameTyped
<1>6. PICK part \in Nat : /\ f.token \in Conforming => part = f.amount
                          /\ wallet' = Moved(f.token, f.from, f.to, part)
  BY <1>4, <1>5 DEF TokenMoves
<1>7. UNCHANGED <<streams, streamCount, surplus>>
  BY DEF TokenMoves
<1>8. PICK g : g = [f EXCEPT !.at = "returned"]
  OBVIOUS
<1>9. stack' = <<g>>
  BY <1>4, <1>8 DEF TokenMoves
<1>10. /\ g.call = f.call /\ g.token = f.token /\ g.from = f.from /\ g.to = f.to
       /\ g.amount = f.amount /\ g.event = f.event /\ g.saved = f.saved /\ g.at = "returned"
  BY <1>2, <1>8 DEF FrameTyped
<1>11. ASSUME NEW token \in Conforming PROVE BackedIn(token)'
  <2>1. PICK k : /\ RunningTotal(k, streams, streamCount, token)
                 /\ k[streamCount] = Balance(token) - InFlight(token)
    BY DEF HostBacked, BackedIn
  <2>2. token \in Tokens /\ Balance(token) \in Int
    BY <1>1, BalanceInt, ConformingAssumption
  <2>3. InFlight(token) = OnItsWay(f, token) /\ InFlight(token)' = OnItsWay(g, token)
    BY <1>2, <1>9, FrameInFlight
  <2>4. CASE token # f.token
    <3>1. InFlight(token) = 0 /\ InFlight(token)' = 0
      BY <1>10, <2>3, <2>4 DEF OnItsWay
    <3>2. Balance(token)' = Balance(token)
      <4>1. CASE f.to = This
        BY <1>1, <1>3, <1>5, <1>6, <1>7, <2>2, <2>4, <4>1, MovedIn DEF FrameBacked
      <4>2. CASE f.to # This
        BY <1>1, <1>3, <1>5, <1>6, <1>7, <2>2, <2>4, <4>2, MovedOut DEF FrameBacked
      <4> QED
        BY <4>1, <4>2
    <3> QED
      BY <1>7, <2>1, <3>1, <3>2 DEF BackedIn
  <2>5. CASE token = f.token /\ f.call = "create_stream"
    <3>1. InFlight(token) = 0 /\ InFlight(token)' = f.amount
      BY <1>4, <1>10, <2>3, <2>5 DEF OnItsWay
    <3>2. Balance(token)' = Balance(token) + f.amount
      BY <1>1, <1>3, <1>5, <1>6, <1>7, <2>2, <2>5, MovedIn DEF FrameBacked
    <3> QED
      BY <1>5, <1>7, <2>1, <2>2, <3>1, <3>2 DEF BackedIn
  <2>6. CASE token = f.token /\ f.call # "create_stream"
    <3>1. InFlight(token) = f.amount /\ InFlight(token)' = 0
      BY <1>4, <1>10, <2>3, <2>6 DEF OnItsWay
    <3>2. Balance(token)' = Balance(token) - f.amount
      BY <1>1, <1>3, <1>5, <1>6, <1>7, <2>2, <2>6, MovedOut DEF FrameBacked
    <3> QED
      BY <1>5, <1>7, <2>1, <2>2, <3>1, <3>2 DEF BackedIn
  <2> QED
    BY <2>4, <2>5, <2>6
<1>12. FrameBacked(g)'
  BY <1>3, <1>7, <1>10 DEF FrameBacked, Held
<1> QED
  BY <1>7, <1>9, <1>11, <1>12 DEF HostBacked

(* A rollback goes back to what was held.                                  *)
LEMMA FailsBacked ==
  ASSUME HostTyped, HostBacked, TokenFails
  PROVE  HostBacked'
<1>1. PICK f : stack = <<f>> /\ FrameTyped(f) /\ FrameBacked(f)
  BY TheFrame DEF TokenFails
<1>2. Top = f /\ Front(stack) = << >>
  BY <1>1, OneFrame
<1>3. /\ streams' = f.saved.streams /\ streamCount' = f.saved.streamCount
      /\ wallet' = f.saved.wallet /\ surplus' = surplus /\ stack' = << >>
  BY <1>2 DEF TokenFails, RollBack
<1>4. AtRest' /\ ApartIn(streams')
  BY <1>1, <1>3 DEF AtRest, FrameBacked
<1>5. ASSUME NEW token \in Conforming PROVE BackedIn(token)'
  <2>1. PICK g : /\ RunningTotal(g, f.saved.streams, f.saved.streamCount, token)
                 /\ g[f.saved.streamCount] = f.saved.wallet[token][This] - surplus[token]
    BY <1>1 DEF FrameBacked, Held
  <2>2. f.saved.wallet[token][This] \in Nat /\ surplus[token] \in Nat
    BY <1>1, ConformingAssumption DEF FrameTyped, StateTyped, HostTyped, TypeOK, Addresses
  <2>3. InFlight(token)' = 0
    BY <1>4 DEF InFlight
  <2>4. g[streamCount'] = Balance(token)' - InFlight(token)'
    BY <1>3, <2>1, <2>2, <2>3 DEF Balance
  <2> QED
    BY <1>3, <2>1, <2>4 DEF BackedIn
<1> QED
  BY <1>4, <1>5 DEF HostBacked

(* The stream that is stored is owed what has arrived for it.              *)
LEMMA FinishBacked ==
  ASSUME HostTyped, HostBacked, Finish
  PROVE  HostBacked'
<1>1. TypeOK /\ ~AtRest
  BY DEF HostTyped, Finish
<1>2. PICK f : stack = <<f>> /\ FrameTyped(f) /\ FrameBacked(f)
  BY <1>1, TheFrame
<1>3. Top = f /\ Front(stack) = << >>
  BY <1>2, OneFrame
<1>4. stack' = << >> /\ UNCHANGED <<wallet, surplus>> /\ f.at = "returned"
  BY <1>3 DEF Finish
<1>5. AtRest' /\ \A token : InFlight(token)' = 0
  BY <1>4 DEF AtRest, InFlight
<1>6. CASE FinishCreate
  <2> DEFINE r == f.event.terms
  <2>1. /\ f.call = "create_stream" /\ f.id = streamCount
        /\ This \notin {r.sender, r.recipient}
        /\ r.token = f.token /\ r.total_amount = f.amount /\ f.amount \in Nat
    BY <1>2, <1>3, <1>6 DEF FinishCreate, FrameTyped, FrameBacked
  <2>2. Store(streamCount, r)
    BY <1>3, <1>6, <2>1 DEF FinishCreate
  <2> HIDE DEF r
  <2>3. streamCount' = streamCount + 1 /\ streamCount \in Nat
        /\ DOMAIN streams = 0 .. streamCount - 1
    BY <1>1, <2>2, LimitAssumption DEF Store, NextId, TypeOK
  <2>4. /\ DOMAIN streams' = 0 .. streamCount
        /\ streams'[streamCount] = NewStream(r)
        /\ \A i \in 0 .. streamCount - 1 : streams'[i] = streams[i]
    BY <2>2, <2>3 DEF Store, WithRecord
  <2>5. ApartIn(streams')
    <3>1. NewStream(r).sender = r.sender /\ NewStream(r).recipient = r.recipient
      BY DEF NewStream
    <3> QED
      BY <2>1, <2>3, <2>4, <3>1 DEF ApartIn, HostBacked
  <2>6. ASSUME NEW token \in Conforming PROVE BackedIn(token)'
    <3>1. PICK g : /\ RunningTotal(g, streams, streamCount, token)
                   /\ g[streamCount] = Balance(token) - InFlight(token)
      BY DEF HostBacked, BackedIn
    <3>2. InFlight(token) = IF token = f.token THEN f.amount ELSE 0
      BY <1>2, <1>4, <2>1, FrameInFlight DEF OnItsWay
    <3> DEFINE h == streams'
    <3>3. OwedIn(h, streamCount, token) = IF token = f.token THEN f.amount ELSE 0
      BY <2>1, <2>4 DEF OwedIn, NewStream
    <3>4. (\A i \in 0 .. streamCount - 1 : h[i] = streams[i]) /\ OwedIn(h, streamCount, token) \in Int
      BY <2>1, <2>4, <3>3
    <3> HIDE DEF h
    <3>5. Extended(streams, h, streamCount, token)
      BY <3>4 DEF Extended
    <3>6. PICK k : /\ RunningTotal(k, h, streamCount + 1, token)
                   /\ k[streamCount + 1] = g[streamCount] + OwedIn(h, streamCount, token)
      BY <2>3, <3>1, <3>5, TotalExtended
    <3>7. Balance(token) \in Int /\ Balance(token)' = Balance(token)
      BY <1>1, <1>4, BalanceInt, ConformingAssumption DEF Balance
    <3>8. k[streamCount + 1] = Balance(token)' - InFlight(token)'
      BY <1>5, <2>1, <3>1, <3>2, <3>3, <3>6, <3>7
    <3> QED
      BY <2>3, <3>6, <3>8 DEF BackedIn, h
  <2> QED
    BY <1>5, <2>5, <2>6 DEF HostBacked
<1>7. CASE FinishPayout
  <2>1. f.call # "create_stream" /\ UNCHANGED <<streams, streamCount>>
    BY <1>3, <1>7 DEF FinishPayout
  <2>2. ASSUME NEW token \in Conforming PROVE BackedIn(token)'
    <3>1. InFlight(token) = 0 /\ InFlight(token)' = 0
      BY <1>2, <1>4, <1>5, <2>1, FrameInFlight DEF OnItsWay
    <3>2. Balance(token)' = Balance(token) /\ BackedIn(token)
      BY <1>4 DEF Balance, HostBacked
    <3> QED
      BY <2>1, <3>1, <3>2 DEF BackedIn
  <2> QED
    BY <1>5, <2>1, <2>2 DEF HostBacked
<1> QED
  BY <1>6, <1>7 DEF Finish

(* What happens between invocations touches neither side.                  *)
LEMMA RestBacked ==
  ASSUME HostBacked, AtRest, UNCHANGED <<streams, streamCount, stack>>,
         \A token \in Tokens : Balance(token)' = Balance(token)
  PROVE  HostBacked'
<1>1. AtRest' /\ \A token : InFlight(token) = 0 /\ InFlight(token)' = 0
  BY DEF AtRest, InFlight
<1>2. ASSUME NEW token \in Conforming PROVE BackedIn(token)'
  BY <1>1, ConformingAssumption DEF HostBacked, BackedIn
<1> QED
  BY <1>1, <1>2 DEF HostBacked

(* A refused invocation leaves no trace but its answer.                    *)
LEMMA RefusedEffect ==
  ASSUME Refused
  PROVE  AtRest /\ UNCHANGED <<now, streams, streamCount, wallet, surplus, events, stack>>
<1>1. AtRest /\ Invocation /\ reply'.result # "Ok" /\ UNCHANGED stack
  BY DEF Refused, CanEnter, Passes
<1>2. ASSUME NEW caller \in Addresses, NEW r \in Requests, CreateStream(caller, r)
      PROVE  UNCHANGED <<now, streams, streamCount, wallet, surplus, events>>
  BY <1>1, <1>2 DEF CreateStream, Reply
<1>3. ASSUME NEW call, NEW caller, NEW id, NEW refusal, NEW amount,
             WithdrawWith(call, caller, id, refusal, amount)
      PROVE  UNCHANGED <<now, streams, streamCount, wallet, surplus, events>>
  BY <1>1, <1>3 DEF WithdrawWith, Reply
<1>4. ASSUME NEW caller \in Addresses, NEW id \in Ids, Cancel(caller, id)
      PROVE  UNCHANGED <<now, streams, streamCount, wallet, surplus, events>>
  BY <1>1, <1>4 DEF Cancel, Reply
<1> QED
  BY <1>1, <1>2, <1>3, <1>4 DEF Invocation, Withdraw, WithdrawAmount

(* Every step keeps the conforming tokens backed.                          *)
LEMMA HostNextBacked ==
  ASSUME HostTyped, HostBacked, [HostNext]_hostVars
  PROVE  HostBacked'
<1>1. TypeOK
  BY DEF HostTyped
<1>2. ASSUME AtRest, UNCHANGED stack, Idle PROVE HostBacked'
  BY <1>2, RestBacked DEF Idle
<1>3. CASE Refused
  BY <1>3, RefusedEffect, RestBacked DEF Balance
<1>4. CASE HostAdvance
  BY <1>1, <1>2, <1>4, EnvironmentEffect DEF HostAdvance
<1>5. ASSUME NEW from \in Parties, NEW token \in Tokens, NEW amount \in Gifts,
             HostGift(from, token, amount)
      PROVE  HostBacked'
  BY <1>1, <1>2, <1>5, EnvironmentEffect DEF HostGift
<1>6. ASSUME NEW id \in Ids, NEW caller \in Addresses, HostWithdraw(caller, id)
      PROVE  HostBacked'
  BY <1>1, <1>6, HostWithdrawBegun, PayoutBacked
<1>7. ASSUME NEW id \in Ids, NEW caller \in Addresses, NEW amount \in Amounts,
             HostWithdrawAmount(caller, id, amount)
      PROVE  HostBacked'
  BY <1>1, <1>7, HostWithdrawAmountBegun, PayoutBacked
<1>8. ASSUME NEW id \in Ids, NEW caller \in Addresses, BeginCancel(caller, id)
      PROVE  HostBacked'
  BY <1>1, <1>8, CancelBegun, PayoutBacked
<1>9. CASE UNCHANGED hostVars
  BY <1>9 DEF hostVars, HostBacked, BackedIn, Balance, InFlight, AtRest, Top, FrameBacked, Held
<1> QED
  BY <1>3, <1>4, <1>5, <1>6, <1>7, <1>8, <1>9, BeginCreateBacked, MovesBacked, FailsBacked,
     FinishBacked
     DEF HostNext

(* A contract without streams is backed.                                   *)
LEMMA HostInitBacked == HostInit => HostBacked
<1> SUFFICES ASSUME HostInit PROVE HostBacked
  OBVIOUS
<1>1. Init /\ AtRest
  BY DEF HostInit, AtRest
<1>2. ApartIn(streams)
  BY <1>1 DEF Init, ApartIn
<1>3. ASSUME NEW token \in Conforming PROVE BackedIn(token)
  <2>1. InFlight(token) = 0 /\ token \in Tokens /\ Balance(token) \in Int
    BY <1>1, InitType, AtRestInFlight, BalanceInt, ConformingAssumption
  <2>2. PICK g : RunningTotal(g, streams, streamCount, token) /\ g[streamCount] = Balance(token)
    BY <1>1, <2>1, InitBacked DEF Backed
  <2> QED
    BY <2>1, <2>2 DEF BackedIn
<1> QED
  BY <1>1, <1>2, <1>3 DEF HostBacked

(* A backed contract holds its escrow, its surplus and what is on its way. *)
LEMMA BackedIsHonest ==
  ASSUME HostTyped, HostBacked
  PROVE  HonestTokensSolvent
<1> SUFFICES ASSUME NEW token \in Conforming
             PROVE  wallet[token][This] = Escrow(token) + surplus[token] + InFlight(token)
  BY DEF HonestTokensSolvent
<1>1. TypeOK /\ token \in Tokens
  BY ConformingAssumption DEF HostTyped
<1>2. PICK g : /\ RunningTotal(g, streams, streamCount, token)
               /\ g[streamCount] = Balance(token) - InFlight(token)
  BY DEF HostBacked, BackedIn
<1>3. Escrow(token) = Balance(token) - InFlight(token)
  BY <1>1, <1>2, EscrowIsRunningTotal
<1>4. InFlight(token) \in Nat
  <2>1. CASE AtRest
    BY <2>1, AtRestInFlight
  <2>2. CASE ~AtRest
    BY <2>2, TheFrame, FrameInFlight DEF OnItsWay, FrameTyped
  <2> QED
    BY <2>1, <2>2
<1> QED
  BY <1>1, <1>3, <1>4, BalanceInt DEF Balance

(* HostBacked, the inductive form of HonestTokensSolvent.                  *)
THEOREM AlwaysHostBacked == HostSpec => []HostBacked
  BY HostInitBacked, HostNextBacked, AlwaysHostTyped, PTL DEF HostSpec

(* Whatever the other tokens do, the contract holds of every conforming    *)
(* token exactly what its streams have in escrow and what is on its way,   *)
(* in every step of every invocation, for any number of streams.           *)
THEOREM HonestTokensAreSolvent == HostSpec => []HonestTokensSolvent
  BY BackedIsHonest, AlwaysHostTyped, AlwaysHostBacked, PTL
=============================================================================
