--------------------------- MODULE StreamProperties ---------------------------
(***************************************************************************)
(* The properties of StreamContract that relate a stream to its published  *)
(* events, to the terms it was created under, to the abstract promise of   *)
(* StreamEscrow and, under fairness, to its end.                           *)
(***************************************************************************)
EXTENDS StreamContract, SequencesExt

-----------------------------------------------------------------------------
(* Reading the event log.                                                  *)

Terms(id) == events[id][1].terms

OriginalVested(id, t) ==
  VestedAmount(Terms(id).total_amount, Terms(id).start_time, Terms(id).end_time,
               Terms(id).cliff_time, t)

(* What has been paid out by the n-th event, for each n.                   *)
PaidByEvents(log) ==
  LET upTo[n \in 0 .. Len(log)] ==
        IF n = 0 THEN 0
        ELSE upTo[n - 1] + (IF log[n].kind = "Withdrawn" THEN log[n].amount ELSE 0)
  IN  upTo

-----------------------------------------------------------------------------
(* The recipient never gets ahead of the schedule both parties agreed to,  *)
(* whatever a cancellation did to the stored one, and never falls behind   *)
(* it while the stream is not cancelled.                                   *)
FaithfulToTerms ==
  \A id \in DOMAIN streams :
    /\ streams[id].withdrawn <= OriginalVested(id, now)
    /\ VestedAt(streams[id], now) <= OriginalVested(id, now)
    /\ ~streams[id].cancelled => VestedAt(streams[id], now) = OriginalVested(id, now)

(* A reader of the events alone recovers the money in every record: a      *)
(* stream is created once, what was withdrawn is the sum of the Withdrawn  *)
(* events, a record is cancelled when there is a Cancelled event, of which *)
(* there is at most one, and that event's two amounts and the payouts      *)
(* before it make up the deposit.                                          *)
EventsExplainRecords ==
  \A id \in DOMAIN streams :
    LET s    == streams[id]
        log  == events[id]
        paid == PaidByEvents(log)
        cancellations == { n \in DOMAIN log : log[n].kind = "Cancelled" }
    IN  /\ \A n \in DOMAIN log : log[n].kind = "Created" <=> n = 1
        /\ s.withdrawn = paid[Len(log)]
        /\ s.cancelled <=> cancellations # {}
        /\ ~s.cancelled => s.total_amount = Terms(id).total_amount
        /\ \A n \in cancellations :
             /\ cancellations = {n}
             /\ s.total_amount = Terms(id).total_amount - log[n].sender_refund
             /\ log[n].recipient_amount + log[n].sender_refund + paid[n - 1]
                  = Terms(id).total_amount

(* The recipient's withdrawal and the sender's cancellation race when both *)
(* are sent for the same ledger.  Whichever is applied first, the record   *)
(* ends the same and each party gets the same money.                       *)
RaceHasOneOutcome ==
  \A id \in DOMAIN streams :
    LET s == streams[id]
        withdrawFirst == AfterWithdraw(s, WithdrawableAt(s, now))
        cancelFirst   == AfterCancel(s, now)
    IN  ~s.cancelled /\ now < s.end_time =>
          /\ AfterCancel(withdrawFirst, now)
               = AfterWithdraw(cancelFirst, WithdrawableAt(cancelFirst, now))
          /\ WithdrawableAt(s, now) = WithdrawableAt(cancelFirst, now)
          /\ SettlementAt(s, now).refund = SettlementAt(withdrawFirst, now).refund

(* cancel_preview foretells cancel: whatever it answers, a refund or the   *)
(* reason why there is none, is what the sender would get by cancelling in *)
(* the same ledger; no refund it quotes is refused by the token.           *)
PreviewForetellsCancel ==
  \A id \in Ids :
    LET sender == IF Known(id) THEN streams[id].sender ELSE This
    IN  CancelResult(sender, id) = PreviewResult(id)

-----------------------------------------------------------------------------
(* A caller whose answer was lost may send withdraw or cancel again: once  *)
(* it was done, the same call in the same ledger is refused and moves      *)
(* nothing, whatever was withdrawn before.                                 *)
RetriesAreRefused ==
  [][ \A id \in DOMAIN streams : streams'[id] # streams[id] =>
        LET s == streams[id]
        IN  /\ reply'.call = "withdraw" =>
                 (WithdrawResult(s.recipient, id, WithdrawRefusal(id), Available(id)) # "Ok")'
            /\ reply'.call = "cancel" => (CancelResult(s.sender, id) # "Ok")' ]_vars

(* A payout as the three who report it see it: the caller is told the      *)
(* amount, one event is published that names it and who gets it, and the   *)
(* books of the stream's token have moved that amount to them, no others.  *)
PaysOut(id, amount) ==
  LET e == Last(events'[id])
      Paid(party) == wallet' = Moved(streams[id].token, This, party, amount)
  IN  /\ reply'.result = "Ok" /\ reply'.value = amount
      /\ events' = [events EXCEPT ![id] = Append(@, e)]
      /\ \/ /\ reply'.call \in {"withdraw", "withdraw_amount"}
            /\ e.kind = "Withdrawn" /\ e.amount = amount /\ Paid(e.recipient)
         \/ /\ reply'.call = "cancel"
            /\ e.kind = "Cancelled" /\ e.sender_refund = amount /\ Paid(e.sender)

(* None of them reports a payout, and no stream shows one.                 *)
PaysNothing ==
  /\ \/ reply' = reply
     \/ reply'.result # "Ok"
     \/ reply'.call = "create_stream"
  /\ \A id \in DOMAIN streams : streams'[id] = streams[id] /\ events'[id] = events[id]
  /\ \A token \in Tokens : wallet'[token][This] >= wallet[token][This]

(* The return value, the one event published and the token's books agree   *)
(* on every payout and refund, on its amount and on who gets it; and when  *)
(* no tokens leave the contract, none of the three says otherwise.         *)
AnswersMatchMoney ==
  [][ PaysNothing \/ \E id \in DOMAIN streams : PaysOut(id, reply'.value) ]_vars

(* cancel does to both parties what cancel_preview, locked and             *)
(* withdrawable announced in the state it was called in: the sender        *)
(* receives the refund, and what the recipient can withdraw next is what   *)
(* they could withdraw before.                                             *)
CancelKeepsItsPreview ==
  [][ \A id \in DOMAIN streams :
        ~streams[id].cancelled /\ streams'[id].cancelled =>
          LET s == streams[id]
              preview == SettlementAt(s, now)
          IN  /\ wallet'[s.token][s.sender] = wallet[s.token][s.sender] + preview.refund
              /\ preview.refund = LockedAt(s, now)
              /\ WithdrawableAt(streams'[id], now') = preview.recipient_remaining
              /\ preview.recipient_remaining = WithdrawableAt(s, now)
              /\ LockedAt(streams'[id], now') = 0 ]_vars

(* The derived lifecycle state only moves forward, and Completed and       *)
(* Cancelled are final, although no state is stored and cancel rewrites    *)
(* the times it is derived from.                                           *)
StatusMovesForward ==
  [][ \A id \in DOMAIN streams :
        LET before == StatusAt(streams[id], now)
            after  == StatusAt(streams'[id], now')
        IN  after \in CASE before = "Pending"   -> {"Pending", "Streaming", "Completed", "Cancelled"}
                        [] before = "Streaming" -> {"Streaming", "Completed", "Cancelled"}
                        [] OTHER                -> {before} ]_vars

-----------------------------------------------------------------------------
(* The contract keeps the abstract promise of StreamEscrow: a stream is a  *)
(* promise of its total, earned as it vests.                               *)
PromiseOf(s, t) ==
  [currency |-> s.token, cap |-> s.total_amount, earned |-> VestedAt(s, t),
   paid |-> s.withdrawn, open |-> ~s.cancelled]

Promise == INSTANCE StreamEscrow WITH
  Currencies <- Tokens,
  Names      <- Ids,
  Caps       <- 1 .. MaxAmount,
  promise    <- [id \in DOMAIN streams |-> PromiseOf(streams[id], now)],
  pot        <- [t \in Tokens |-> wallet[t][This] - surplus[t]]

KeepsThePromise == Promise!Spec

-----------------------------------------------------------------------------
(* Ledgers keep closing, and every recipient keeps asking for what they    *)
(* can withdraw; nothing is assumed of senders.                            *)
Fairness ==
  /\ WF_vars(AdvanceLedger)
  /\ \A id \in Ids : WF_vars(\E p \in Parties : Withdraw(p, id) /\ reply'.result = "Ok")

FairSpec == Spec /\ Fairness

(* Every stream ends with the recipient holding all of it: whatever the    *)
(* sender does, and however the other streams are used, nothing the        *)
(* contract owes stays in it for good.                                     *)
EveryStreamIsPaidOut ==
  \A id \in Ids :
    Known(id) ~> (/\ Known(id)
                  /\ streams[id].withdrawn = streams[id].total_amount
                  /\ now >= streams[id].end_time)
=============================================================================
