------------------------ MODULE StreamPropertiesProofs ------------------------
(***************************************************************************)
(* What StreamProperties says of previews, races, repeated calls, answers, *)
(* agreed terms and published events, for any parties, tokens, requests,   *)
(* limits and ledger times.                                                *)
(***************************************************************************)
EXTENDS StreamPromiseProofs

-----------------------------------------------------------------------------
(* One record.                                                             *)

(* Two records that agree in every field are the same.                     *)
LEMMA SameRecord ==
  ASSUME NEW s \in StreamType, NEW t \in StreamType,
         s.sender = t.sender, s.recipient = t.recipient, s.token = t.token,
         s.total_amount = t.total_amount, s.withdrawn = t.withdrawn,
         s.start_time = t.start_time, s.end_time = t.end_time, s.cliff_time = t.cliff_time,
         s.cancelled = t.cancelled
  PROVE  s = t
  BY DEF StreamType

(* With its claims in order, neither view of a record is clamped.          *)
LEMMA Unclamped ==
  ASSUME NEW s \in StreamType, NEW t \in Nat, InOrder(s, t)
  PROVE  /\ s.total_amount \in Nat /\ s.withdrawn \in Nat /\ VestedAt(s, t) \in Nat
         /\ s.withdrawn <= VestedAt(s, t) /\ VestedAt(s, t) <= s.total_amount
         /\ WithdrawableAt(s, t) = VestedAt(s, t) - s.withdrawn
         /\ WithdrawableAt(s, t) \in Nat
         /\ LockedAt(s, t) = s.total_amount - VestedAt(s, t)
         /\ SettlementAt(s, t).refund = s.total_amount - VestedAt(s, t)
         /\ SettlementAt(s, t).recipient_remaining = VestedAt(s, t) - s.withdrawn
<1>1. s.total_amount \in Nat /\ s.withdrawn \in Nat /\ VestedAt(s, t) \in Nat
  BY RecordVested DEF StreamType
<1>2. s.withdrawn <= VestedAt(s, t) /\ VestedAt(s, t) <= s.total_amount
  BY DEF InOrder
<1> QED
  BY <1>1, <1>2 DEF WithdrawableAt, WithdrawableAmount, LockedAt, SettlementAt, Settlement

(* A settled record: all of it vested, and what could be withdrawn before  *)
(* still can.                                                              *)
LEMMA SettledRecord ==
  ASSUME NEW s \in StreamType, NEW t \in Nat, InOrder(s, t)
  PROVE  LET c == AfterCancel(s, t)
         IN  /\ c \in StreamType
             /\ VestedAt(c, t) = VestedAt(s, t)
             /\ WithdrawableAt(c, t) = WithdrawableAt(s, t)
             /\ LockedAt(c, t) = 0
<1> DEFINE c == AfterCancel(s, t)
<1>1. /\ c \in StreamType /\ c.total_amount = VestedAt(s, t) /\ c.withdrawn = s.withdrawn
      /\ VestedAt(c, t) = VestedAt(s, t)
  BY AfterCancelRecord
<1>2. VestedAt(s, t) \in Nat /\ WithdrawableAt(s, t) = VestedAt(s, t) - s.withdrawn
      /\ s.withdrawn \in Nat /\ s.withdrawn <= VestedAt(s, t)
  BY Unclamped
<1> HIDE DEF c
<1>3. WithdrawableAt(c, t) = WithdrawableAt(s, t) /\ LockedAt(c, t) = 0
  BY <1>1, <1>2 DEF WithdrawableAt, WithdrawableAmount, LockedAt
<1> QED
  BY <1>1, <1>3 DEF c

-----------------------------------------------------------------------------
(* The race of a withdrawal and a cancellation.                            *)

(* The two orders leave the same record and move the same money.           *)
LEMMA EitherOrder ==
  ASSUME NEW s \in StreamType, NEW t \in Nat, InOrder(s, t)
  PROVE  LET w == AfterWithdraw(s, WithdrawableAt(s, t))
             c == AfterCancel(s, t)
         IN  /\ AfterCancel(w, t) = AfterWithdraw(c, WithdrawableAt(c, t))
             /\ WithdrawableAt(s, t) = WithdrawableAt(c, t)
             /\ SettlementAt(s, t).refund = SettlementAt(w, t).refund
<1> DEFINE amount == WithdrawableAt(s, t)
           w == AfterWithdraw(s, amount)
           c == AfterCancel(s, t)
           x == AfterCancel(w, t)
           y == AfterWithdraw(c, amount)
<1>1. amount \in Nat
  BY Unclamped
<1>2. /\ w \in StreamType /\ w.withdrawn = s.withdrawn + amount
      /\ VestedAt(w, t) = VestedAt(s, t)
  BY <1>1, AfterWithdrawRecord
<1>3. /\ w.sender = s.sender /\ w.recipient = s.recipient /\ w.token = s.token
      /\ w.total_amount = s.total_amount /\ w.start_time = s.start_time
      /\ w.end_time = s.end_time /\ w.cliff_time = s.cliff_time
  BY DEF AfterWithdraw, StreamType
<1>4. /\ c \in StreamType /\ c.sender = s.sender /\ c.recipient = s.recipient
      /\ c.token = s.token /\ c.total_amount = VestedAt(s, t) /\ c.withdrawn = s.withdrawn
      /\ c.start_time = Earlier(s.start_time, t) /\ c.cliff_time = Earlier(s.cliff_time, t)
      /\ c.end_time = t /\ c.cancelled
  BY AfterCancelRecord
<1>5. WithdrawableAt(c, t) = amount
  BY SettledRecord
<1> HIDE DEF w, c, amount
<1>6. /\ x \in StreamType /\ x.sender = w.sender /\ x.recipient = w.recipient
      /\ x.token = w.token /\ x.total_amount = VestedAt(w, t) /\ x.withdrawn = w.withdrawn
      /\ x.start_time = Earlier(w.start_time, t) /\ x.cliff_time = Earlier(w.cliff_time, t)
      /\ x.end_time = t /\ x.cancelled
  BY <1>2, AfterCancelRecord
<1>7. y \in StreamType /\ y.withdrawn = c.withdrawn + amount
  BY <1>1, <1>4, AfterWithdrawRecord
<1>8. /\ y.sender = c.sender /\ y.recipient = c.recipient /\ y.token = c.token
      /\ y.total_amount = c.total_amount /\ y.start_time = c.start_time
      /\ y.end_time = c.end_time /\ y.cliff_time = c.cliff_time /\ y.cancelled = c.cancelled
  BY <1>4 DEF AfterWithdraw, StreamType
<1>9. x.cancelled = y.cancelled
  BY <1>4, <1>6, <1>7, <1>8 DEF StreamType
<1> HIDE DEF x, y
<1>10. x = y
  <2>1. /\ x.sender = y.sender /\ x.recipient = y.recipient /\ x.token = y.token
        /\ x.start_time = y.start_time /\ x.end_time = y.end_time /\ x.cliff_time = y.cliff_time
    BY <1>3, <1>4, <1>6, <1>8
  <2>2. x.total_amount = y.total_amount /\ x.withdrawn = y.withdrawn
    BY <1>2, <1>4, <1>6, <1>7, <1>8
  <2> QED
    BY <1>6, <1>7, <1>9, <2>1, <2>2, SameRecord
<1>11. SettlementAt(s, t).refund = SettlementAt(w, t).refund
  BY <1>2, <1>3 DEF SettlementAt, Settlement
<1> QED
  BY <1>5, <1>10, <1>11 DEF w, c, x, y, amount

(* Whichever of a withdrawal and a cancellation of the same ledger comes   *)
(* first, the record ends the same and both parties get the same money.    *)
THEOREM RacesHaveOneOutcome == Spec => []RaceHasOneOutcome
<1>1. TypeOK /\ ClaimsInOrder => RaceHasOneOutcome
  BY ClaimsAreInOrder, EitherOrder DEF RaceHasOneOutcome, TypeOK
<1> QED
  BY <1>1, TypeCorrect, ClaimsStayInOrder, PTL

-----------------------------------------------------------------------------
(* Previews.                                                               *)

(* cancel_preview, which sees neither signatures nor balances, answers as  *)
(* the sender's cancel would: the token never refuses the refund.          *)
THEOREM PreviewsForetell == Spec => []PreviewForetellsCancel
<1>1. TypeOK /\ ClaimsInOrder /\ Backed => PreviewForetellsCancel
  <2> SUFFICES ASSUME TypeOK, ClaimsInOrder, Backed, NEW id \in Ids
               PROVE  CancelResult(IF Known(id) THEN streams[id].sender ELSE This, id)
                        = PreviewResult(id)
    BY DEF PreviewForetellsCancel
  <2>1. CASE ~Known(id)
    BY <2>1 DEF CancelResult, PreviewResult
  <2>2. CASE Known(id)
    <3>1. CanPay(streams[id].token, This, Refund(id))
      BY <2>2, NoPayoutFails DEF Known
    <3> QED
      BY <2>2, <3>1 DEF CancelResult, PreviewResult
  <2> QED
    BY <2>1, <2>2
<1> QED
  BY <1>1, TypeCorrect, ClaimsStayInOrder, AlwaysBacked, PTL

-----------------------------------------------------------------------------
(* The derived lifecycle state.                                            *)

(* As time passes an untouched record goes forward, or stays where it is.  *)
LEMMA StatusLater ==
  ASSUME NEW s \in StreamType, NEW t \in Nat, NEW u \in Nat, t <= u
  PROVE  /\ StatusAt(s, t) \in {"Pending", "Streaming", "Completed", "Cancelled"}
         /\ StatusAt(s, t) = "Pending" =>
              StatusAt(s, u) \in {"Pending", "Streaming", "Completed", "Cancelled"}
         /\ StatusAt(s, t) = "Streaming" =>
              StatusAt(s, u) \in {"Streaming", "Completed", "Cancelled"}
         /\ StatusAt(s, t) \in {"Completed", "Cancelled"} => StatusAt(s, u) = StatusAt(s, t)
  BY DEF StatusAt, AtEnd, StreamType

(* The states that may follow a state.                                     *)
Forward(before, after) ==
  /\ before \in {"Pending", "Streaming", "Completed", "Cancelled"}
  /\ before = "Pending" => after \in {"Pending", "Streaming", "Completed", "Cancelled"}
  /\ before = "Streaming" => after \in {"Streaming", "Completed", "Cancelled"}
  /\ before \in {"Completed", "Cancelled"} => after = before

(* A step moves the state of a stream forward.                             *)
LEMMA StatusStep ==
  ASSUME TypeOK, [Next]_vars, NEW id \in DOMAIN streams
  PROVE  Forward(StatusAt(streams[id], now), StatusAt(streams'[id], now'))
<1>1. streams[id] \in StreamType /\ now \in Nat /\ now' \in Nat
  BY NextType DEF TypeOK
<1>2. CASE Idle
  BY <1>1, <1>2, StatusLater DEF Idle, Forward
<1>3. ASSUME NEW r \in Requests, Opens(r)
      PROVE  Forward(StatusAt(streams[id], now), StatusAt(streams'[id], now'))
  <2>1. streams'[id] = streams[id] /\ now' = now
    BY <1>3, OpensStore DEF Opens
  <2> QED
    BY <1>1, <2>1, StatusLater DEF Forward
<1>4. ASSUME NEW i \in DOMAIN streams, NEW amount \in Nat, Pays(i, amount)
      PROVE  Forward(StatusAt(streams[id], now), StatusAt(streams'[id], now'))
  <2>1. streams'[id] = IF id = i THEN AfterWithdraw(streams[id], amount) ELSE streams[id]
    BY <1>4, PaysStore
  <2>2. now' = now
    BY <1>4 DEF Pays
  <2>3. StatusAt(streams'[id], now') = StatusAt(streams[id], now)
    BY <1>1, <2>1, <2>2 DEF AfterWithdraw, StatusAt, AtEnd, StreamType
  <2> QED
    BY <1>1, <2>3, StatusLater DEF Forward
<1>5. ASSUME NEW i \in DOMAIN streams, Settles(i)
      PROVE  Forward(StatusAt(streams[id], now), StatusAt(streams'[id], now'))
  <2>1. streams'[id] = IF id = i THEN AfterCancel(streams[id], now) ELSE streams[id]
    BY <1>5, SettlesStore
  <2>2. now' = now
    BY <1>5 DEF Settles
  <2>3. CASE id # i
    BY <1>1, <2>1, <2>2, <2>3, StatusLater DEF Forward
  <2>4. CASE id = i
    <3>1. ~streams[id].cancelled /\ now < streams[id].end_time
      BY <1>5, <2>4 DEF Settles
    <3>2. StatusAt(streams[id], now) \in {"Pending", "Streaming"}
      BY <1>1, <3>1 DEF StatusAt, AtEnd, StreamType
    <3>3. streams'[id].cancelled
      BY <1>1, <2>1, <2>4, AfterCancelRecord
    <3>4. StatusAt(streams'[id], now') = "Cancelled"
      BY <3>3 DEF StatusAt
    <3> QED
      BY <3>2, <3>4 DEF Forward
  <2> QED
    BY <2>3, <2>4
<1> QED
  BY <1>2, <1>3, <1>4, <1>5, StepEffects

(* What StatusMovesForward asks of two states.                             *)
LEMMA ForwardCases ==
  ASSUME NEW before, NEW after, Forward(before, after)
  PROVE  after \in CASE before = "Pending"   -> {"Pending", "Streaming", "Completed", "Cancelled"}
                     [] before = "Streaming" -> {"Streaming", "Completed", "Cancelled"}
                     [] OTHER                -> {before}
  BY DEF Forward

(* The state of a stream, derived from a clock and from times that a       *)
(* cancellation rewrites, only moves forward, and its ends are final.      *)
THEOREM StatusesMoveForward == Spec => StatusMovesForward
<1>1. TypeOK /\ [Next]_vars =>
        \A id \in DOMAIN streams :
          LET before == StatusAt(streams[id], now)
              after  == StatusAt(streams'[id], now')
          IN  after \in CASE before = "Pending"   -> {"Pending", "Streaming", "Completed", "Cancelled"}
                          [] before = "Streaming" -> {"Streaming", "Completed", "Cancelled"}
                          [] OTHER                -> {before}
  BY StatusStep, ForwardCases
<1> QED
  BY <1>1, TypeCorrect, PTL DEF Spec, StatusMovesForward

-----------------------------------------------------------------------------
(* What a cancellation does to both parties.                               *)

(* The record and the sender's books after a settlement.                   *)
LEMMA SettledAsPreviewed ==
  ASSUME TypeOK, ClaimsInOrder, NEW id \in DOMAIN streams, Settles(id)
  PROVE  LET s == streams[id]
             preview == SettlementAt(s, now)
         IN  /\ wallet'[s.token][s.sender] = wallet[s.token][s.sender] + preview.refund
             /\ preview.refund = LockedAt(s, now)
             /\ WithdrawableAt(streams'[id], now') = preview.recipient_remaining
             /\ preview.recipient_remaining = WithdrawableAt(s, now)
             /\ LockedAt(streams'[id], now') = 0
<1> DEFINE s == streams[id]
           preview == SettlementAt(s, now)
<1>1. s \in StreamType /\ now \in Nat /\ InOrder(s, now)
  BY ClaimsAreInOrder DEF TypeOK
<1>2. /\ s.token \in Tokens /\ s.sender \in Addresses /\ s.sender # This
      /\ wallet[s.token][s.sender] \in Nat
  BY <1>1 DEF StreamType, InOrder, TypeOK
<1>3. /\ preview.refund = LockedAt(s, now)
      /\ preview.recipient_remaining = WithdrawableAt(s, now)
  BY <1>1, Unclamped
<1>4. streams'[id] = AfterCancel(s, now) /\ now' = now
  BY SettlesStore DEF Settles
<1>5. WithdrawableAt(streams'[id], now') = WithdrawableAt(s, now)
      /\ LockedAt(streams'[id], now') = 0
  BY <1>1, <1>4, SettledRecord
<1>6. Refund(id) = preview.refund /\ Refund(id) \in Nat /\ Settle(id)
  BY DEF Refund, Settles
<1> HIDE DEF preview
<1>7. CASE Refund(id) > 0
  <2>1. wallet' = Moved(s.token, This, s.sender, Refund(id))
    BY <1>6, <1>7 DEF Settle
  <2>2. wallet'[s.token][s.sender]
          = wallet[s.token][s.sender]
              + (IF s.token = s.token /\ s.sender = s.sender THEN Refund(id) ELSE 0)
              - (IF s.token = s.token /\ s.sender = This THEN Refund(id) ELSE 0)
    BY <1>2, <2>1, MovedAt
  <2>3. wallet'[s.token][s.sender] = wallet[s.token][s.sender] + preview.refund
    BY <1>2, <1>6, <2>2
  <2> QED
    BY <1>3, <1>5, <2>3 DEF preview
<1>8. CASE ~(Refund(id) > 0)
  <2>1. wallet' = wallet /\ preview.refund = 0
    BY <1>6, <1>8 DEF Settle
  <2> QED
    BY <1>2, <1>3, <1>5, <2>1 DEF preview
<1> QED
  BY <1>7, <1>8

(* Only a settlement cancels a stream.                                     *)
LEMMA OnlySettlesCancels ==
  ASSUME TypeOK, [Next]_vars, NEW id \in DOMAIN streams,
         ~streams[id].cancelled, streams'[id].cancelled
  PROVE  Settles(id)
<1>1. streams[id] \in StreamType
  BY DEF TypeOK
<1>2. ~Idle
  BY DEF Idle
<1>3. \A r \in Requests : ~Opens(r)
  BY OpensStore
<1>4. ASSUME NEW i \in DOMAIN streams, NEW amount \in Nat, Pays(i, amount) PROVE FALSE
  <2>1. streams'[id] = IF i = id THEN AfterWithdraw(streams[id], amount) ELSE streams[id]
    BY <1>4, PaysStore
  <2>2. AfterWithdraw(streams[id], amount).cancelled = streams[id].cancelled
    BY <1>1 DEF AfterWithdraw, StreamType
  <2> QED
    BY <2>1, <2>2
<1>5. ASSUME NEW i \in DOMAIN streams, Settles(i) PROVE i = id
  BY <1>5, SettlesStore
<1> QED
  BY <1>2, <1>3, <1>4, <1>5, StepEffects

(* Whoever reads cancel_preview, locked and withdrawable and then cancels  *)
(* in the same ledger gets the refund and leaves the rest as announced.    *)
THEOREM CancelsAsPreviewed == Spec => CancelKeepsItsPreview
<1>1. TypeOK /\ ClaimsInOrder /\ [Next]_vars =>
        \A id \in DOMAIN streams :
          ~streams[id].cancelled /\ streams'[id].cancelled =>
            LET s == streams[id]
                preview == SettlementAt(s, now)
            IN  /\ wallet'[s.token][s.sender] = wallet[s.token][s.sender] + preview.refund
                /\ preview.refund = LockedAt(s, now)
                /\ WithdrawableAt(streams'[id], now') = preview.recipient_remaining
                /\ preview.recipient_remaining = WithdrawableAt(s, now)
                /\ LockedAt(streams'[id], now') = 0
  BY OnlySettlesCancels, SettledAsPreviewed
<1> QED
  BY <1>1, TypeCorrect, ClaimsStayInOrder, PTL DEF Spec, CancelKeepsItsPreview

-----------------------------------------------------------------------------
(* Event logs.                                                             *)

EventType ==
  [kind : {"Created"}, terms : Requests]
    \union [kind : {"Withdrawn"}, recipient : Addresses, amount : Nat]
    \union [kind : {"Cancelled"}, sender : Addresses, recipient_amount : Int, sender_refund : Int]

(* A log with one more event.                                              *)
LEMMA OneMoreEvent ==
  ASSUME NEW log \in Seq(EventType), NEW e \in EventType
  PROVE  /\ Append(log, e) \in Seq(EventType)
         /\ Len(log) \in Nat /\ Len(Append(log, e)) = Len(log) + 1
         /\ Append(log, e)[Len(log) + 1] = e
         /\ \A n \in 1 .. Len(log) : Append(log, e)[n] = log[n]
  OBVIOUS

PaidIn(e) == IF e.kind = "Withdrawn" THEN e.amount ELSE 0

(* g is what had been paid out by each event of log.                       *)
PaidOut(g, log) ==
  /\ g \in [0 .. Len(log) -> Int]
  /\ g[0] = 0
  /\ \A n \in 1 .. Len(log) : g[n] = g[n - 1] + PaidIn(log[n])

PaidRecursion(g, log) ==
  g = [n \in 0 .. Len(log) |-> IF n = 0 THEN 0 ELSE g[n - 1] + PaidIn(log[n])]

(* Two functions that obey the recurrence of PaidByEvents are equal.       *)
LEMMA PaidUnique ==
  ASSUME NEW log, Len(log) \in Nat, NEW g, NEW h, PaidRecursion(g, log), PaidRecursion(h, log)
  PROVE  \A n \in 0 .. Len(log) : g[n] = h[n]
<1> DEFINE Differ == {n \in 0 .. Len(log) : g[n] # h[n]}
<1>1. SUFFICES ASSUME Differ # {} PROVE FALSE
  OBVIOUS
<1>2. Differ \subseteq Nat
  OBVIOUS
<1> HIDE DEF Differ
<1>3. PICK m \in Differ : \A k \in Differ : m <= k
  BY <1>1, <1>2, LeastElement
<1> USE DEF Differ
<1>4. m # 0
  BY <1>3 DEF PaidRecursion
<1>5. m - 1 \in 0 .. Len(log) /\ m \in 0 .. Len(log)
  BY <1>3, <1>4
<1>6. g[m - 1] = h[m - 1]
  BY <1>3, <1>5
<1>7. g[m] = g[m - 1] + PaidIn(log[m]) /\ h[m] = h[m - 1] + PaidIn(log[m])
  BY <1>4, <1>5 DEF PaidRecursion
<1> QED
  BY <1>3, <1>6, <1>7

(* PaidByEvents is the one function of that kind.                          *)
LEMMA PaidByEventsIs ==
  ASSUME NEW log, Len(log) \in Nat, NEW g, PaidOut(g, log)
  PROVE  \A n \in 0 .. Len(log) : PaidByEvents(log)[n] = g[n]
<1>1. PaidRecursion(g, log)
  BY DEF PaidOut, PaidRecursion
<1> DEFINE upTo == CHOOSE h : PaidRecursion(h, log)
<1>2. PaidRecursion(upTo, log)
  BY <1>1
<1>3. PaidByEvents(log) = upTo
  BY DEF PaidByEvents, PaidRecursion, PaidIn
<1> QED
  BY <1>1, <1>2, <1>3, PaidUnique

(* One more event adds what it paid.                                       *)
LEMMA PaidWithOneMore ==
  ASSUME NEW log \in Seq(EventType), NEW e \in EventType, NEW g, PaidOut(g, log)
  PROVE  \E h : /\ PaidOut(h, Append(log, e))
                /\ \A n \in 0 .. Len(log) : h[n] = g[n]
                /\ h[Len(log) + 1] = g[Len(log)] + PaidIn(e)
<1> DEFINE more == Append(log, e)
           last == Len(log) + 1
           h == [n \in 0 .. last |-> IF n = last THEN g[Len(log)] + PaidIn(e) ELSE g[n]]
<1>1. /\ Len(log) \in Nat /\ Len(more) = last /\ more[last] = e
      /\ \A n \in 1 .. Len(log) : more[n] = log[n]
  BY OneMoreEvent
<1>2. PaidIn(e) \in Int
  BY DEF PaidIn, EventType
<1> HIDE DEF more
<1>3. h \in [0 .. last -> Int] /\ h[0] = 0
  BY <1>1, <1>2 DEF PaidOut
<1>4. ASSUME NEW n \in 1 .. last PROVE h[n] = h[n - 1] + PaidIn(more[n])
  <2>1. CASE n = last
    BY <1>1, <2>1
  <2>2. CASE n # last
    <3>1. n \in 1 .. Len(log) /\ n - 1 \in 0 .. Len(log)
      BY <1>1, <2>2
    <3>2. h[n] = g[n] /\ h[n - 1] = g[n - 1] /\ more[n] = log[n]
      BY <1>1, <3>1
    <3> QED
      BY <3>1, <3>2 DEF PaidOut
  <2> QED
    BY <2>1, <2>2
<1>5. (\A n \in 0 .. Len(log) : h[n] = g[n]) /\ h[last] = g[Len(log)] + PaidIn(e)
  BY <1>1
<1> HIDE DEF h
<1>6. PaidOut(h, more)
  BY <1>1, <1>3, <1>4 DEF PaidOut
<1> QED
  BY <1>5, <1>6 DEF more

-----------------------------------------------------------------------------
(* A record and its log.                                                   *)

(* The n-th event is the one that settled s, and divided all there was.    *)
SettledBy(s, log, g, n) ==
  /\ log[n].kind = "Cancelled"
  /\ \A m \in 1 .. Len(log) : log[m].kind = "Cancelled" => m = n
  /\ s.total_amount = log[1].terms.total_amount - log[n].sender_refund
  /\ log[n].recipient_amount + log[n].sender_refund + g[n - 1] = log[1].terms.total_amount

Explained(s, log) ==
  /\ log \in Seq(EventType) /\ Len(log) >= 1
  /\ \A n \in 1 .. Len(log) : log[n].kind = "Created" <=> n = 1
  /\ ~s.cancelled =>
       /\ s.total_amount = log[1].terms.total_amount
       /\ \A n \in 1 .. Len(log) : log[n].kind # "Cancelled"
  /\ \E g : /\ PaidOut(g, log) /\ g[Len(log)] = s.withdrawn
            /\ s.cancelled => \E n \in 1 .. Len(log) : SettledBy(s, log, g, n)

(* A created stream is explained by its first event.                       *)
LEMMA NewExplained ==
  ASSUME NEW r \in Requests
  PROVE  Explained(NewStream(r), <<CreatedEvent(r)>>)
<1> DEFINE log == <<CreatedEvent(r)>>
           g == [n \in 0 .. 1 |-> 0]
<1>1. /\ Len(log) = 1 /\ log[1] = CreatedEvent(r)
      /\ CreatedEvent(r) \in EventType /\ log \in Seq(EventType)
  BY DEF CreatedEvent, EventType
<1>2. CreatedEvent(r).kind = "Created" /\ CreatedEvent(r).terms = r
  BY DEF CreatedEvent
<1>3. /\ ~NewStream(r).cancelled /\ NewStream(r).withdrawn = 0
      /\ NewStream(r).total_amount = r.total_amount
  BY DEF NewStream
<1> HIDE DEF log
<1>4. PaidOut(g, log) /\ g[Len(log)] = 0
  BY <1>1, <1>2 DEF PaidOut, PaidIn
<1>5. \A n \in 1 .. Len(log) : n = 1 /\ log[n].kind = "Created"
  BY <1>1, <1>2
<1> HIDE DEF g
<1>6. Explained(NewStream(r), log)
  BY <1>1, <1>2, <1>3, <1>4, <1>5 DEF Explained
<1> QED
  BY <1>6 DEF log

(* A payout and its event.                                                 *)
LEMMA PaidExplained ==
  ASSUME NEW s \in StreamType, NEW log, Explained(s, log), NEW amount \in Nat,
         NEW e \in EventType, e.kind = "Withdrawn", e.amount = amount
  PROVE  Explained(AfterWithdraw(s, amount), Append(log, e))
<1> DEFINE w == AfterWithdraw(s, amount)
           more == Append(log, e)
           last == Len(log) + 1
<1>1. /\ w.cancelled = s.cancelled /\ w.total_amount = s.total_amount
      /\ w.withdrawn = s.withdrawn + amount
  BY DEF AfterWithdraw, StreamType
<1>2. log \in Seq(EventType) /\ Len(log) >= 1
  BY DEF Explained
<1>3. /\ more \in Seq(EventType) /\ Len(log) \in Nat /\ Len(more) = last /\ more[last] = e
      /\ \A n \in 1 .. Len(log) : more[n] = log[n]
  BY <1>2, OneMoreEvent
<1>4. more[1] = log[1] /\ last # 1 /\ Len(more) >= 1
  BY <1>2, <1>3
<1>5. \A n \in 1 .. Len(more) : n \in 1 .. Len(log) \/ n = last
  BY <1>3
<1>6. PICK g : /\ PaidOut(g, log) /\ g[Len(log)] = s.withdrawn
               /\ s.cancelled => \E n \in 1 .. Len(log) : SettledBy(s, log, g, n)
  BY DEF Explained
<1>7. PICK h : /\ PaidOut(h, more) /\ \A n \in 0 .. Len(log) : h[n] = g[n]
               /\ h[last] = g[Len(log)] + PaidIn(e)
  BY <1>2, <1>6, PaidWithOneMore
<1>8. h[Len(more)] = w.withdrawn
  BY <1>1, <1>3, <1>6, <1>7 DEF PaidIn
<1> HIDE DEF w, more, last
<1>9. ASSUME s.cancelled PROVE \E n \in 1 .. Len(more) : SettledBy(w, more, h, n)
  <2>1. PICK n \in 1 .. Len(log) : SettledBy(s, log, g, n)
    BY <1>6, <1>9
  <2>2. more[n] = log[n] /\ h[n - 1] = g[n - 1] /\ n \in 1 .. Len(more)
    BY <1>3, <1>7 DEF last
  <2>3. \A m \in 1 .. Len(more) : more[m].kind = "Cancelled" => m = n
    BY <1>3, <1>5, <2>1 DEF SettledBy
  <2> QED
    BY <1>1, <1>4, <2>1, <2>2, <2>3 DEF SettledBy
<1>10. ASSUME ~s.cancelled
       PROVE  /\ w.total_amount = more[1].terms.total_amount
              /\ \A n \in 1 .. Len(more) : more[n].kind # "Cancelled"
  BY <1>1, <1>3, <1>4, <1>5, <1>10 DEF Explained
<1>11. \A n \in 1 .. Len(more) : more[n].kind = "Created" <=> n = 1
  BY <1>2, <1>3, <1>4, <1>5 DEF Explained
<1>12. Explained(w, more)
  BY <1>1, <1>3, <1>4, <1>7, <1>8, <1>9, <1>10, <1>11 DEF Explained
<1> QED
  BY <1>12 DEF w, more

(* A settlement and its event.                                             *)
LEMMA SettledExplained ==
  ASSUME NEW s \in StreamType, NEW t \in Nat, ~s.cancelled, NEW log, Explained(s, log),
         NEW e \in EventType, e.kind = "Cancelled",
         e.sender_refund = SettlementAt(s, t).refund,
         e.recipient_amount = SettlementAt(s, t).recipient_remaining
  PROVE  Explained(AfterCancel(s, t), Append(log, e))
<1> DEFINE c == AfterCancel(s, t)
           more == Append(log, e)
           last == Len(log) + 1
<1>1. c.cancelled /\ c.total_amount = VestedAt(s, t) /\ c.withdrawn = s.withdrawn
  BY AfterCancelRecord
<1>2. log \in Seq(EventType) /\ Len(log) >= 1
  BY DEF Explained
<1>3. /\ more \in Seq(EventType) /\ Len(log) \in Nat /\ Len(more) = last /\ more[last] = e
      /\ \A n \in 1 .. Len(log) : more[n] = log[n]
  BY <1>2, OneMoreEvent
<1>4. more[1] = log[1] /\ last # 1 /\ Len(more) >= 1
  BY <1>2, <1>3
<1>5. \A n \in 1 .. Len(more) : n \in 1 .. Len(log) \/ n = last
  BY <1>3
<1>6. PICK g : PaidOut(g, log) /\ g[Len(log)] = s.withdrawn
  BY DEF Explained
<1>7. PICK h : /\ PaidOut(h, more) /\ \A n \in 0 .. Len(log) : h[n] = g[n]
               /\ h[last] = g[Len(log)] + PaidIn(e)
  BY <1>2, <1>6, PaidWithOneMore
<1>8. /\ s.total_amount \in Nat /\ s.withdrawn \in Nat /\ VestedAt(s, t) \in Nat
      /\ e.sender_refund = s.total_amount - VestedAt(s, t)
      /\ e.recipient_amount = VestedAt(s, t) - s.withdrawn
  BY RecordVested DEF StreamType, SettlementAt, Settlement
<1>9. h[Len(more)] = c.withdrawn /\ h[last - 1] = s.withdrawn
  BY <1>1, <1>3, <1>6, <1>7, <1>8 DEF PaidIn
<1>10. s.total_amount = log[1].terms.total_amount
       /\ \A n \in 1 .. Len(log) : log[n].kind # "Cancelled"
  BY DEF Explained
<1> HIDE DEF c, more
<1>11. SettledBy(c, more, h, last)
  <2>1. more[last].kind = "Cancelled"
    BY <1>3
  <2>2. \A m \in 1 .. Len(more) : more[m].kind = "Cancelled" => m = last
    BY <1>3, <1>5, <1>10
  <2>3. c.total_amount = more[1].terms.total_amount - more[last].sender_refund
    BY <1>1, <1>3, <1>4, <1>8, <1>10
  <2>4. more[last].recipient_amount + more[last].sender_refund + h[last - 1]
          = more[1].terms.total_amount
    BY <1>3, <1>4, <1>8, <1>9, <1>10
  <2> QED
    BY <2>1, <2>2, <2>3, <2>4 DEF SettledBy
<1>12. \A n \in 1 .. Len(more) : more[n].kind = "Created" <=> n = 1
  BY <1>2, <1>3, <1>4, <1>5 DEF Explained
<1>13. last \in 1 .. Len(more)
  BY <1>3
<1> HIDE DEF last
<1>14. Explained(c, more)
  BY <1>1, <1>3, <1>4, <1>7, <1>9, <1>11, <1>12, <1>13 DEF Explained
<1> QED
  BY <1>14 DEF c, more

(* A record explained by its log is what EventsExplainRecords says of it.  *)
LEMMA ExplainedRecord ==
  ASSUME NEW s \in StreamType, NEW log, Explained(s, log)
  PROVE  LET paid == PaidByEvents(log)
             cancellations == { n \in DOMAIN log : log[n].kind = "Cancelled" }
         IN  /\ \A n \in DOMAIN log : log[n].kind = "Created" <=> n = 1
             /\ s.withdrawn = paid[Len(log)]
             /\ s.cancelled <=> cancellations # {}
             /\ ~s.cancelled => s.total_amount = log[1].terms.total_amount
             /\ \A n \in cancellations :
                  /\ cancellations = {n}
                  /\ s.total_amount = log[1].terms.total_amount - log[n].sender_refund
                  /\ log[n].recipient_amount + log[n].sender_refund + paid[n - 1]
                       = log[1].terms.total_amount
<1> DEFINE cancellations == { n \in DOMAIN log : log[n].kind = "Cancelled" }
<1>1. /\ log \in Seq(EventType) /\ Len(log) \in Nat /\ Len(log) >= 1
      /\ DOMAIN log = 1 .. Len(log)
  BY DEF Explained
<1>2. PICK g : /\ PaidOut(g, log) /\ g[Len(log)] = s.withdrawn
               /\ s.cancelled => \E n \in 1 .. Len(log) : SettledBy(s, log, g, n)
  BY DEF Explained
<1> DEFINE paid == PaidByEvents(log)
<1>3. \A n \in 0 .. Len(log) : paid[n] = g[n]
  BY <1>1, <1>2, PaidByEventsIs
<1> HIDE DEF paid
<1>4. s.withdrawn = paid[Len(log)] /\ \A n \in DOMAIN log : log[n].kind = "Created" <=> n = 1
  BY <1>1, <1>2, <1>3 DEF Explained
<1>5. CASE ~s.cancelled
  <2>1. cancellations = {} /\ s.total_amount = log[1].terms.total_amount
    BY <1>1, <1>5 DEF Explained
  <2> QED
    BY <1>4, <1>5, <2>1 DEF paid
<1>6. CASE s.cancelled
  <2>1. PICK n \in 1 .. Len(log) : SettledBy(s, log, g, n)
    BY <1>2, <1>6
  <2>2. cancellations = {n}
    BY <1>1, <2>1 DEF SettledBy
  <2>3. n - 1 \in 0 .. Len(log) /\ paid[n - 1] = g[n - 1]
    BY <1>1, <1>3
  <2>4. /\ s.total_amount = log[1].terms.total_amount - log[n].sender_refund
        /\ log[n].recipient_amount + log[n].sender_refund + paid[n - 1]
             = log[1].terms.total_amount
    BY <2>1, <2>3 DEF SettledBy
  <2> HIDE DEF cancellations
  <2>5. \A m \in cancellations : m = n
    BY <2>2
  <2>6. cancellations # {}
    BY <2>2
  <2>7. \A m \in cancellations :
          /\ cancellations = {m}
          /\ s.total_amount = log[1].terms.total_amount - log[m].sender_refund
          /\ log[m].recipient_amount + log[m].sender_refund + paid[m - 1]
               = log[1].terms.total_amount
    BY <2>2, <2>4, <2>5
  <2> QED
    BY <1>4, <1>6, <2>6, <2>7 DEF paid, cancellations
<1> QED
  BY <1>5, <1>6

-----------------------------------------------------------------------------
(* Every record is explained by its log, in every state.                   *)

AllExplained == \A id \in DOMAIN streams : Explained(streams[id], events[id])

(* Opening a stream starts its log.                                        *)
LEMMA OpensPublishes ==
  ASSUME TypeOK, NEW r \in Requests, Opens(r)
  PROVE  /\ events'[streamCount] = <<CreatedEvent(r)>>
         /\ \A i \in DOMAIN streams : events'[i] = events[i]
<1>1. streamCount \notin DOMAIN events
  BY DEF TypeOK
<1>2. Append(LogOf(streamCount), CreatedEvent(r)) = <<CreatedEvent(r)>>
  BY <1>1 DEF LogOf
<1> QED
  BY <1>1, <1>2 DEF TypeOK, Opens, Create, Store, WithRecord

(* A payout adds one event to the log of its stream.                       *)
LEMMA PaysPublishes ==
  ASSUME TypeOK, NEW id \in DOMAIN streams, NEW amount \in Nat, Pays(id, amount)
  PROVE  /\ WithdrawnEvent(id, amount) \in EventType
         /\ events'[id] = Append(events[id], WithdrawnEvent(id, amount))
         /\ \A i \in DOMAIN streams : i # id => events'[i] = events[i]
<1>1. streams[id].recipient \in Addresses
  BY DEF TypeOK, StreamType
<1>2. WithdrawnEvent(id, amount) \in EventType
  BY <1>1 DEF WithdrawnEvent, EventType
<1> QED
  BY <1>2 DEF TypeOK, Pays, PayRecipient, Publish

(* So does a settlement.                                                   *)
LEMMA SettlesPublishes ==
  ASSUME TypeOK, NEW id \in DOMAIN streams, Settles(id)
  PROVE  /\ CancelledEvent(id) \in EventType
         /\ events'[id] = Append(events[id], CancelledEvent(id))
         /\ \A i \in DOMAIN streams : i # id => events'[i] = events[i]
<1>1. /\ streams[id] \in StreamType /\ now \in Nat
      /\ streams[id].sender \in Addresses /\ streams[id].withdrawn \in Nat
  BY DEF TypeOK, StreamType
<1>2. VestedAt(streams[id], now) \in Nat /\ Refund(id) \in Int
  BY <1>1, RecordVested DEF Settles
<1>3. CancelledEvent(id) \in EventType
  BY <1>1, <1>2 DEF CancelledEvent, EventType, SettlementAt, Settlement
<1> QED
  BY <1>3 DEF TypeOK, Settles, Settle, Publish

(* Every step keeps every record explained.                                *)
LEMMA NextExplained ==
  ASSUME TypeOK, AllExplained, [Next]_vars
  PROVE  AllExplained'
<1> SUFFICES ASSUME NEW id \in DOMAIN streams' PROVE Explained(streams'[id], events'[id])
  BY DEF AllExplained, Explained, PaidOut, SettledBy
<1>1. \A i \in DOMAIN streams : streams[i] \in StreamType /\ Explained(streams[i], events[i])
  BY DEF TypeOK, AllExplained
<1>2. CASE Idle
  BY <1>1, <1>2 DEF Idle
<1>3. ASSUME NEW r \in Requests, Opens(r) PROVE Explained(streams'[id], events'[id])
  <2>1. id = streamCount \/ id \in DOMAIN streams
    BY <1>3, OpensStore DEF TypeOK
  <2>2. CASE id = streamCount
    BY <1>3, <2>2, OpensStore, OpensPublishes, NewExplained
  <2>3. CASE id \in DOMAIN streams
    BY <1>1, <1>3, <2>3, OpensStore, OpensPublishes
  <2> QED
    BY <2>1, <2>2, <2>3
<1>4. ASSUME NEW i \in DOMAIN streams, NEW amount \in Nat, Pays(i, amount)
      PROVE  Explained(streams'[id], events'[id])
  <2>1. id \in DOMAIN streams
        /\ streams'[id] = IF id = i THEN AfterWithdraw(streams[i], amount) ELSE streams[id]
    BY <1>4, PaysStore
  <2>2. WithdrawnEvent(i, amount).kind = "Withdrawn" /\ WithdrawnEvent(i, amount).amount = amount
    BY DEF WithdrawnEvent
  <2>3. WithdrawnEvent(i, amount) \in EventType
        /\ events'[id] = IF id = i THEN Append(events[i], WithdrawnEvent(i, amount)) ELSE events[id]
    BY <1>4, <2>1, PaysPublishes
  <2>4. Explained(AfterWithdraw(streams[i], amount), Append(events[i], WithdrawnEvent(i, amount)))
    BY <1>1, <2>2, <2>3, PaidExplained
  <2> QED
    BY <1>1, <2>1, <2>3, <2>4
<1>5. ASSUME NEW i \in DOMAIN streams, Settles(i) PROVE Explained(streams'[id], events'[id])
  <2>1. id \in DOMAIN streams
        /\ streams'[id] = IF id = i THEN AfterCancel(streams[i], now) ELSE streams[id]
    BY <1>5, SettlesStore
  <2>2. /\ CancelledEvent(i).kind = "Cancelled"
        /\ CancelledEvent(i).sender_refund = SettlementAt(streams[i], now).refund
        /\ CancelledEvent(i).recipient_amount = SettlementAt(streams[i], now).recipient_remaining
    BY DEF CancelledEvent, Refund
  <2>3. CancelledEvent(i) \in EventType
        /\ events'[id] = IF id = i THEN Append(events[i], CancelledEvent(i)) ELSE events[id]
    BY <1>5, <2>1, SettlesPublishes
  <2>4. ~streams[i].cancelled /\ now \in Nat
    BY <1>5 DEF Settles, TypeOK
  <2>5. Explained(AfterCancel(streams[i], now), Append(events[i], CancelledEvent(i)))
    BY <1>1, <2>2, <2>3, <2>4, SettledExplained
  <2> QED
    BY <1>1, <2>1, <2>3, <2>5
<1> QED
  BY <1>2, <1>3, <1>4, <1>5, StepEffects

(* The inductive form of EventsExplainRecords: a running total of the      *)
(* payouts in every log leads to the record.                               *)
THEOREM AlwaysExplained == Spec => []AllExplained
<1>1. Init => AllExplained
  BY DEF Init, AllExplained
<1> QED
  BY <1>1, NextExplained, TypeCorrect, PTL DEF Spec

(* Records explained by their logs are what EventsExplainRecords says.     *)
LEMMA ExplainedIsEnough == TypeOK /\ AllExplained => EventsExplainRecords
<1> SUFFICES ASSUME TypeOK, NEW id \in DOMAIN streams, Explained(streams[id], events[id])
             PROVE  LET s    == streams[id]
                        log  == events[id]
                        paid == PaidByEvents(log)
                        cancellations == { n \in DOMAIN log : log[n].kind = "Cancelled" }
                    IN  /\ \A n \in DOMAIN log : log[n].kind = "Created" <=> n = 1
                        /\ s.withdrawn = paid[Len(log)]
                        /\ s.cancelled <=> cancellations # {}
                        /\ ~s.cancelled => s.total_amount = Terms(id).total_amount
                        /\ \A n \in cancellations :
                             /\ cancellations = {n}
                             /\ s.total_amount = Terms(id).total_amount - log[n].sender_refund
                             /\ log[n].recipient_amount + log[n].sender_refund + paid[n - 1]
                                  = Terms(id).total_amount
  BY DEF EventsExplainRecords, AllExplained
<1>1. streams[id] \in StreamType
  BY DEF TypeOK
<1> QED
  BY <1>1, ExplainedRecord DEF Terms

(* A reader of the events alone recovers the money in every record, over   *)
(* any number of payouts.                                                  *)
THEOREM EventsAreEnough == Spec => []EventsExplainRecords
  BY ExplainedIsEnough, TypeCorrect, AlwaysExplained, PTL

-----------------------------------------------------------------------------
(* Records and the terms agreed at the start.                              *)

TermsVested(r, t) ==
  VestedAmount(r.total_amount, r.start_time, r.end_time, r.cliff_time, t)

(* Until it is cancelled a record repeats its terms r; then it stands for  *)
(* what they gave at its new end.                                          *)
FromTerms(s, r) ==
  /\ r \in Requests /\ r.total_amount \in Nat
  /\ ~s.cancelled =>
       /\ s.total_amount = r.total_amount /\ s.start_time = r.start_time
       /\ s.end_time = r.end_time /\ s.cliff_time = r.cliff_time
  /\ s.cancelled => s.total_amount = TermsVested(r, s.end_time)

AllFromTerms == \A id \in DOMAIN streams : FromTerms(streams[id], Terms(id))

(* The first event, with the terms, stays the first.                       *)
LEMMA TermsStay ==
  ASSUME TypeOK, AllExplained, [Next]_vars, NEW id \in DOMAIN streams
  PROVE  Terms(id)' = Terms(id)
<1>1. /\ events[id] \in Seq(EventType) /\ Len(events[id]) \in Nat /\ Len(events[id]) >= 1
  BY DEF AllExplained, Explained
<1>2. ASSUME NEW e \in EventType PROVE Append(events[id], e)[1] = events[id][1]
  BY <1>1, OneMoreEvent
<1>3. CASE Idle
  BY <1>3 DEF Idle, Terms
<1>4. ASSUME NEW r \in Requests, Opens(r) PROVE Terms(id)' = Terms(id)
  BY <1>4, OpensPublishes DEF Terms
<1>5. ASSUME NEW i \in DOMAIN streams, NEW amount \in Nat, Pays(i, amount)
      PROVE  Terms(id)' = Terms(id)
  <2>1. events'[id][1] = events[id][1]
    BY <1>2, <1>5, PaysPublishes
  <2> QED
    BY <2>1 DEF Terms
<1>6. ASSUME NEW i \in DOMAIN streams, Settles(i) PROVE Terms(id)' = Terms(id)
  <2>1. events'[id][1] = events[id][1]
    BY <1>2, <1>6, SettlesPublishes
  <2> QED
    BY <2>1 DEF Terms
<1> QED
  BY <1>3, <1>4, <1>5, <1>6, StepEffects

(* Every step keeps the records true to their terms.                       *)
LEMMA NextFromTerms ==
  ASSUME TypeOK, AllExplained, AllFromTerms, [Next]_vars
  PROVE  AllFromTerms'
<1> SUFFICES ASSUME NEW id \in DOMAIN streams' PROVE FromTerms(streams'[id], Terms(id)')
  BY DEF AllFromTerms, FromTerms
<1>1. \A i \in DOMAIN streams :
        /\ streams[i] \in StreamType /\ FromTerms(streams[i], Terms(i)) /\ Terms(i)' = Terms(i)
  BY TermsStay DEF TypeOK, AllFromTerms
<1>2. CASE Idle
  BY <1>1, <1>2 DEF Idle
<1>3. ASSUME NEW r \in Requests, Opens(r) PROVE FromTerms(streams'[id], Terms(id)')
  <2>1. id = streamCount \/ id \in DOMAIN streams
    BY <1>3, OpensStore DEF TypeOK
  <2>2. CASE id = streamCount
    <3>1. events'[id][1] = CreatedEvent(r) /\ streams'[id] = NewStream(r)
      BY <1>3, <2>2, OpensStore, OpensPublishes
    <3>2. Terms(id)' = r
      BY <3>1 DEF Terms, CreatedEvent
    <3>3. r.total_amount \in Nat
      BY <1>3, LimitAssumption DEF Opens
    <3> QED
      BY <3>1, <3>2, <3>3 DEF FromTerms, NewStream
  <2>3. CASE id \in DOMAIN streams
    BY <1>1, <1>3, <2>3, OpensStore
  <2> QED
    BY <2>1, <2>2, <2>3
<1>4. ASSUME NEW i \in DOMAIN streams, NEW amount \in Nat, Pays(i, amount)
      PROVE  FromTerms(streams'[id], Terms(id)')
  <2>1. id \in DOMAIN streams
        /\ streams'[id] = IF id = i THEN AfterWithdraw(streams[i], amount) ELSE streams[id]
    BY <1>4, PaysStore
  <2>2. FromTerms(AfterWithdraw(streams[i], amount), Terms(i))
    BY <1>1 DEF FromTerms, AfterWithdraw, StreamType
  <2> QED
    BY <1>1, <2>1, <2>2
<1>5. ASSUME NEW i \in DOMAIN streams, Settles(i) PROVE FromTerms(streams'[id], Terms(id)')
  <2>1. id \in DOMAIN streams
        /\ streams'[id] = IF id = i THEN AfterCancel(streams[i], now) ELSE streams[id]
    BY <1>5, SettlesStore
  <2>2. ~streams[i].cancelled /\ now \in Nat
    BY <1>5 DEF Settles, TypeOK
  <2>3. FromTerms(AfterCancel(streams[i], now), Terms(i))
    <3> DEFINE c == AfterCancel(streams[i], now)
    <3>1. c.cancelled /\ c.total_amount = VestedAt(streams[i], now) /\ c.end_time = now
      BY <1>1, <2>2, AfterCancelRecord
    <3>2. FromTerms(streams[i], Terms(i))
      BY <1>1
    <3>3. VestedAt(streams[i], now) = TermsVested(Terms(i), now)
      BY <2>2, <3>2 DEF FromTerms, VestedAt, TermsVested
    <3> HIDE DEF c
    <3>4. FromTerms(c, Terms(i))
      BY <3>1, <3>2, <3>3 DEF FromTerms
    <3> QED
      BY <3>4 DEF c
  <2> QED
    BY <1>1, <2>1, <2>3
<1> QED
  BY <1>2, <1>3, <1>4, <1>5, StepEffects

(* The inductive form of FaithfulToTerms.                                  *)
THEOREM AlwaysFromTerms == Spec => []AllFromTerms
<1>1. Init => AllFromTerms
  BY DEF Init, AllFromTerms
<1> QED
  BY <1>1, NextFromTerms, TypeCorrect, AlwaysExplained, PTL DEF Spec

(* A cancelled record stands for the terms at a time that is past.         *)
LEMMA FaithfulRecord ==
  ASSUME NEW s \in StreamType, NEW t \in Nat, InOrder(s, t), NEW r, FromTerms(s, r),
         s.cancelled => s.end_time <= t
  PROVE  /\ s.withdrawn <= TermsVested(r, t)
         /\ VestedAt(s, t) <= TermsVested(r, t)
         /\ ~s.cancelled => VestedAt(s, t) = TermsVested(r, t)
<1>1. /\ r.total_amount \in Nat /\ r.start_time \in Nat
      /\ r.end_time \in Nat /\ r.cliff_time \in Nat
  BY InputAssumption DEF FromTerms
<1>2. /\ s.withdrawn \in Nat /\ s.total_amount \in Nat /\ VestedAt(s, t) \in Nat
      /\ s.end_time \in Nat
  BY RecordVested DEF StreamType
<1>3. s.withdrawn <= VestedAt(s, t) /\ VestedAt(s, t) <= s.total_amount
  BY DEF InOrder
<1>4. CASE ~s.cancelled
  <2>1. VestedAt(s, t) = TermsVested(r, t)
    BY <1>4 DEF FromTerms, VestedAt, TermsVested
  <2> QED
    BY <1>2, <1>3, <2>1
<1>5. CASE s.cancelled
  <2>1. s.total_amount = TermsVested(r, s.end_time)
    BY <1>5 DEF FromTerms
  <2>2. TermsVested(r, s.end_time) \in Nat /\ TermsVested(r, t) \in Nat
    <3>1. ASSUME NEW u \in Nat PROVE TermsVested(r, u) \in 0 .. r.total_amount
      BY <1>1, VestedBounds DEF TermsVested
    <3> QED
      BY <1>1, <1>2, <3>1
  <2>3. TermsVested(r, s.end_time) <= TermsVested(r, t)
    BY <1>1, <1>2, <1>5, VestedMonotone DEF TermsVested
  <2> QED
    BY <1>2, <1>3, <1>5, <2>1, <2>2, <2>3
<1> QED
  BY <1>4, <1>5

(* The recipient is never ahead of the agreed schedule, whatever a         *)
(* cancellation did to the stored one, and never behind it until then.     *)
THEOREM StreamsAreFaithful == Spec => []FaithfulToTerms
<1>1. TypeOK /\ ClaimsInOrder /\ CancelledAreOver /\ AllFromTerms => FaithfulToTerms
  <2> SUFFICES ASSUME TypeOK, ClaimsInOrder, CancelledAreOver, AllFromTerms,
                      NEW id \in DOMAIN streams
               PROVE  /\ streams[id].withdrawn <= OriginalVested(id, now)
                      /\ VestedAt(streams[id], now) <= OriginalVested(id, now)
                      /\ ~streams[id].cancelled =>
                           VestedAt(streams[id], now) = OriginalVested(id, now)
    BY DEF FaithfulToTerms
  <2>1. streams[id] \in StreamType /\ now \in Nat /\ InOrder(streams[id], now)
    BY ClaimsAreInOrder DEF TypeOK
  <2>2. FromTerms(streams[id], Terms(id)) /\ (streams[id].cancelled => streams[id].end_time <= now)
    BY DEF AllFromTerms, CancelledAreOver
  <2> QED
    BY <2>1, <2>2, FaithfulRecord DEF OriginalVested, TermsVested
<1> QED
  BY <1>1, TypeCorrect, ClaimsStayInOrder, AlwaysCancelledAreOver, AlwaysFromTerms, PTL

-----------------------------------------------------------------------------
(* Calls made again.                                                       *)

(* After a withdrawal of all there was nothing is left.                    *)
LEMMA NothingLeft ==
  ASSUME TypeOK, ClaimsInOrder, NEW id \in DOMAIN streams, Pays(id, Available(id))
  PROVE  WithdrawableAt(streams'[id], now') = 0
<1> DEFINE s == streams[id]
           amount == WithdrawableAt(s, now)
<1>1. s \in StreamType /\ now \in Nat /\ InOrder(s, now)
  BY ClaimsAreInOrder DEF TypeOK
<1>2. amount \in Nat /\ amount = VestedAt(s, now) - s.withdrawn
      /\ VestedAt(s, now) \in Nat /\ s.withdrawn \in Nat
  BY <1>1, Unclamped
<1>3. Available(id) = amount
  BY DEF Available
<1>4. streams'[id] = AfterWithdraw(s, amount) /\ now' = now
  BY <1>2, <1>3, PaysStore DEF Pays
<1> HIDE DEF amount
<1>5. streams'[id].withdrawn = s.withdrawn + amount
      /\ VestedAt(streams'[id], now') = VestedAt(s, now)
  BY <1>1, <1>2, <1>4, AfterWithdrawRecord
<1> QED
  BY <1>2, <1>5 DEF WithdrawableAt, WithdrawableAmount

(* A step that changes a record was one of the calls on it.                *)
LEMMA ChangedRecord ==
  ASSUME TypeOK, [Next]_vars, NEW id \in DOMAIN streams, streams'[id] # streams[id]
  PROVE  \/ \E amount \in Nat : Pays(id, amount)
         \/ Settles(id)
<1>1. ~Idle
  BY DEF Idle
<1>2. \A r \in Requests : ~Opens(r)
  BY OpensStore
<1>3. \A i \in DOMAIN streams : \A amount \in Nat : Pays(i, amount) => i = id
  BY PaysStore
<1>4. \A i \in DOMAIN streams : Settles(i) => i = id
  BY SettlesStore
<1> QED
  BY <1>1, <1>2, <1>3, <1>4, StepEffects

(* Right after it was done the same call is refused.                       *)
LEMMA RetryRefused ==
  ASSUME TypeOK, ClaimsInOrder, [Next]_vars, NEW id \in DOMAIN streams, streams'[id] # streams[id]
  PROVE  /\ reply'.call = "withdraw" =>
              (WithdrawResult(streams[id].recipient, id, WithdrawRefusal(id), Available(id)) # "Ok")'
         /\ reply'.call = "cancel" => (CancelResult(streams[id].sender, id) # "Ok")'
<1>1. ASSUME NEW amount \in Nat, Pays(id, amount), reply'.call = "withdraw"
      PROVE  (WithdrawResult(streams[id].recipient, id, WithdrawRefusal(id), Available(id)) # "Ok")'
  <2>1. amount = Available(id)
    BY <1>1 DEF Pays
  <2>2. WithdrawableAt(streams'[id], now') = 0
    BY <1>1, <2>1, NothingLeft
  <2>3. WithdrawRefusal(id)' = "NothingToWithdraw"
    BY <2>2 DEF WithdrawRefusal, Available
  <2> QED
    BY <2>3 DEF WithdrawResult
<1>2. ASSUME Settles(id)
      PROVE  (CancelResult(streams[id].sender, id) # "Ok")'
  <2>1. streams[id] \in StreamType /\ now \in Nat
    BY DEF TypeOK
  <2>2. streams'[id].cancelled
    BY <1>2, <2>1, SettlesStore, AfterCancelRecord
  <2> QED
    BY <2>2 DEF CancelResult
<1>3. ASSUME NEW amount \in Nat, Pays(id, amount) PROVE reply'.call # "cancel"
  BY <1>3 DEF Pays
<1>4. ASSUME Settles(id) PROVE reply'.call = "cancel"
  BY <1>4 DEF Settles, Reply
<1> QED
  BY <1>1, <1>2, <1>3, <1>4, ChangedRecord

(* A caller whose answer was lost may send the same call again: it is      *)
(* refused and moves nothing.                                              *)
THEOREM RetriesDoNothing == Spec => RetriesAreRefused
<1>1. TypeOK /\ ClaimsInOrder /\ [Next]_vars =>
        \A id \in DOMAIN streams : streams'[id] # streams[id] =>
          LET s == streams[id]
          IN  /\ reply'.call = "withdraw" =>
                   (WithdrawResult(s.recipient, id, WithdrawRefusal(id), Available(id)) # "Ok")'
              /\ reply'.call = "cancel" => (CancelResult(s.sender, id) # "Ok")'
  BY RetryRefused
<1> QED
  BY <1>1, TypeCorrect, ClaimsStayInOrder, PTL DEF Spec, RetriesAreRefused

-----------------------------------------------------------------------------
(* Answers, events and money.                                              *)

(* A transfer of nothing leaves all books as they are.                     *)
LEMMA NothingMoved ==
  ASSUME TypeOK, NEW token, NEW from, NEW to
  PROVE  wallet = Moved(token, from, to, 0)
<1>1. wallet \in [Tokens -> [Addresses -> Nat]]
  BY DEF TypeOK
<1>2. ASSUME NEW t \in Tokens
      PROVE  wallet[t] = [a \in Addresses |->
                            wallet[t][a] + (IF t = token /\ a = to   THEN 0 ELSE 0)
                                         - (IF t = token /\ a = from THEN 0 ELSE 0)]
  <2>1. wallet[t] \in [Addresses -> Nat]
    BY <1>1
  <2>2. \A a \in Addresses :
          wallet[t][a] = wallet[t][a] + (IF t = token /\ a = to   THEN 0 ELSE 0)
                                      - (IF t = token /\ a = from THEN 0 ELSE 0)
    BY <2>1
  <2> QED
    BY <2>1, <2>2
<1> QED
  BY <1>1, <1>2 DEF Moved

(* The last event of a log that was published to.                          *)
LEMMA LastPublished ==
  ASSUME AllExplained, NEW id \in DOMAIN streams, NEW e \in EventType,
         events' = [events EXCEPT ![id] = Append(@, e)], DOMAIN events = DOMAIN streams
  PROVE  Last(events'[id]) = e
<1>1. events[id] \in Seq(EventType) /\ events'[id] = Append(events[id], e)
  BY DEF AllExplained, Explained
<1>2. /\ Len(events'[id]) = Len(events[id]) + 1
      /\ events'[id][Len(events[id]) + 1] = e
  BY <1>1, OneMoreEvent
<1> QED
  BY <1>2 DEF Last

(* A step that pays, answers and publishes what it pays.                   *)
LEMMA PaysAnswered ==
  ASSUME TypeOK, AllExplained, NEW id \in DOMAIN streams, NEW amount \in Nat, Pays(id, amount)
  PROVE  PaysOut(id, reply'.value)
<1> DEFINE e == WithdrawnEvent(id, amount)
<1>1. events' = [events EXCEPT ![id] = Append(@, e)] /\ e \in EventType
  BY PaysPublishes DEF Pays, PayRecipient, Publish
<1>2. Last(events'[id]) = e
  BY <1>1, LastPublished DEF TypeOK
<1>3. e.kind = "Withdrawn" /\ e.amount = amount /\ e.recipient = streams[id].recipient
  BY DEF WithdrawnEvent
<1>4. /\ reply'.result = "Ok" /\ reply'.value = amount
      /\ reply'.call \in {"withdraw", "withdraw_amount"}
      /\ wallet' = Moved(streams[id].token, This, streams[id].recipient, amount)
  BY DEF Pays, PayRecipient
<1> HIDE DEF e
<1> QED
  BY <1>1, <1>2, <1>3, <1>4 DEF PaysOut

(* So does a settlement, also one that has nothing to refund.              *)
LEMMA SettlesAnswered ==
  ASSUME TypeOK, AllExplained, NEW id \in DOMAIN streams, Settles(id)
  PROVE  PaysOut(id, reply'.value)
<1> DEFINE e == CancelledEvent(id)
<1>1. events' = [events EXCEPT ![id] = Append(@, e)] /\ e \in EventType
  BY SettlesPublishes DEF Settles, Settle, Publish
<1>2. Last(events'[id]) = e
  BY <1>1, LastPublished DEF TypeOK
<1>3. e.kind = "Cancelled" /\ e.sender_refund = Refund(id) /\ e.sender = streams[id].sender
  BY DEF CancelledEvent
<1>4. reply'.result = "Ok" /\ reply'.value = Refund(id) /\ reply'.call = "cancel"
  BY DEF Settles, Reply
<1>5. wallet' = Moved(streams[id].token, This, streams[id].sender, Refund(id))
  <2>1. CASE Refund(id) > 0
    BY <2>1 DEF Settles, Settle
  <2>2. CASE ~(Refund(id) > 0)
    <3>1. Refund(id) = 0 /\ wallet' = wallet
      BY <2>2 DEF Settles, Settle
    <3> QED
      BY <3>1, NothingMoved
  <2> QED
    BY <2>1, <2>2
<1> HIDE DEF e
<1> QED
  BY <1>1, <1>2, <1>3, <1>4, <1>5 DEF PaysOut

(* A new stream takes a deposit in and touches no other stream.            *)
LEMMA OpensPaysNothing ==
  ASSUME TypeOK, NEW r \in Requests, Opens(r)
  PROVE  PaysNothing
<1>1. \A i \in DOMAIN streams : streams'[i] = streams[i] /\ events'[i] = events[i]
  BY OpensStore, OpensPublishes
<1>2. /\ r.token \in Tokens /\ r.sender \in Addresses /\ r.sender # This /\ r.total_amount \in Nat
      /\ wallet' = Moved(r.token, r.sender, This, r.total_amount) /\ This \in Addresses
  BY InputAssumption, LimitAssumption DEF Opens, Create, Addresses
<1>3. ASSUME NEW t \in Tokens PROVE wallet'[t][This] >= wallet[t][This]
  <2>1. wallet'[t][This]
          = wallet[t][This] + (IF t = r.token /\ This = This THEN r.total_amount ELSE 0)
                            - (IF t = r.token /\ This = r.sender THEN r.total_amount ELSE 0)
    BY <1>2, <1>3, MovedAt
  <2>2. wallet[t][This] \in Nat
    BY <1>2, <1>3 DEF TypeOK
  <2> QED
    BY <1>2, <2>1, <2>2
<1> QED
  BY <1>1, <1>3 DEF Opens, PaysNothing

(* Every step either is a payout or refund that answer, event and books    *)
(* report alike, or is one of which none of them reports anything.         *)
LEMMA StepAnswered ==
  ASSUME TypeOK, AllExplained, [Next]_vars
  PROVE  PaysNothing \/ \E id \in DOMAIN streams : PaysOut(id, reply'.value)
<1>1. CASE Idle
  BY <1>1 DEF Idle, PaysNothing
<1> QED
  BY <1>1, OpensPaysNothing, PaysAnswered, SettlesAnswered, StepEffects

(* On every payout and refund the return value, the one event published    *)
(* and the token's books agree, on the amount and on who gets it; and when *)
(* no tokens leave the contract, none of the three says otherwise.         *)
THEOREM AnswersAreHonest == Spec => AnswersMatchMoney
  BY StepAnswered, TypeCorrect, AlwaysExplained, PTL DEF Spec, AnswersMatchMoney
=============================================================================
