------------------------- MODULE StreamPromiseProofs -------------------------
(***************************************************************************)
(* The stream contract implements StreamEscrow, for any parties, tokens,   *)
(* requests, limits and ledger times.                                      *)
(***************************************************************************)
EXTENDS StreamProperties, StreamContractProofs

(* What the abstract variables stand for.                                  *)
promiseNow == [id \in DOMAIN streams |-> PromiseOf(streams[id], now)]
potNow     == [t \in Tokens |-> Balance(t)]

(* A cancelled stream's window is behind the clock, so that it earns no    *)
(* more.                                                                   *)
CancelledAreOver ==
  \A id \in DOMAIN streams : streams[id].cancelled => streams[id].end_time <= now

(* A cancelled stream's window stays behind the clock.                     *)
LEMMA NextOver ==
  ASSUME TypeOK, CancelledAreOver, [Next]_vars
  PROVE  CancelledAreOver'
<1> SUFFICES ASSUME NEW id \in DOMAIN streams', streams'[id].cancelled
             PROVE  streams'[id].end_time <= now'
  BY DEF CancelledAreOver
<1>1. TypeOK' /\ now \in Nat /\ now' \in Nat /\ \A i \in DOMAIN streams : streams[i] \in StreamType
  BY NextType DEF TypeOK
<1>2. CASE Idle
  <2>1. id \in DOMAIN streams /\ streams[id].end_time \in Nat /\ streams[id].end_time <= now
    BY <1>1, <1>2 DEF Idle, CancelledAreOver, StreamType
  <2> QED
    BY <1>1, <1>2, <2>1 DEF Idle
<1>3. ASSUME NEW r \in Requests, Opens(r) PROVE streams'[id].end_time <= now'
  <2>1. id # streamCount
    <3>1. ~NewStream(r).cancelled
      BY DEF NewStream
    <3> QED
      BY <1>3, <3>1, OpensStore
  <2>2. id \in DOMAIN streams /\ streams'[id] = streams[id]
    BY <1>3, <2>1, OpensStore DEF TypeOK
  <2> QED
    BY <1>3, <2>2 DEF CancelledAreOver, Opens
<1>4. ASSUME NEW i \in DOMAIN streams, NEW amount \in Nat, Pays(i, amount)
      PROVE  streams'[id].end_time <= now'
  <2>1. id \in DOMAIN streams
        /\ streams'[id] = IF id = i THEN AfterWithdraw(streams[id], amount) ELSE streams[id]
    BY <1>4, PaysStore
  <2>2. streams'[id].cancelled = streams[id].cancelled
        /\ streams'[id].end_time = streams[id].end_time
    BY <1>1, <2>1 DEF AfterWithdraw, StreamType
  <2> QED
    BY <1>4, <2>1, <2>2 DEF CancelledAreOver, Pays
<1>5. ASSUME NEW i \in DOMAIN streams, Settles(i) PROVE streams'[id].end_time <= now'
  <2>1. id \in DOMAIN streams
        /\ streams'[id] = IF id = i THEN AfterCancel(streams[id], now) ELSE streams[id]
    BY <1>5, SettlesStore
  <2>2. AfterCancel(streams[id], now).end_time = now
    BY <1>1, <2>1, AfterCancelRecord
  <2> QED
    BY <1>1, <1>5, <2>1, <2>2 DEF CancelledAreOver, Settles
<1> QED
  BY <1>2, <1>3, <1>4, <1>5, StepEffects

(* A cancelled stream's window is behind the clock in every state.         *)
THEOREM AlwaysCancelledAreOver == Spec => []CancelledAreOver
<1>1. Init => CancelledAreOver
  BY DEF Init, CancelledAreOver
<1> QED
  BY <1>1, NextOver, TypeCorrect, PTL DEF Spec
-----------------------------------------------------------------------------
(* What becomes of the promise of one record.                              *)

(* As time passes it earns more, within its cap, unless it is over.        *)
LEMMA EarnedLater ==
  ASSUME NEW s \in StreamType, NEW t \in Nat, NEW u \in Nat, t <= u, InOrder(s, t),
         s.cancelled => s.end_time <= t
  PROVE  LET p == PromiseOf(s, t)
             q == PromiseOf(s, u)
         IN  /\ q = [p EXCEPT !.earned = q.earned]
             /\ p.earned <= q.earned /\ q.earned <= p.cap
             /\ ~p.open => q.earned = p.earned
<1>1. VestedAt(s, t) <= VestedAt(s, u) /\ VestedAt(s, u) \in 0 .. s.total_amount
      /\ s.total_amount \in Nat
  BY RecordVested DEF StreamType
<1>2. ASSUME s.cancelled PROVE VestedAt(s, u) = VestedAt(s, t)
  <2>1. s.end_time <= t /\ s.start_time <= s.cliff_time /\ s.cliff_time <= s.end_time
    BY <1>2 DEF InOrder
  <2>2. s.start_time \in Nat /\ s.cliff_time \in Nat /\ s.end_time \in Nat
    BY DEF StreamType
  <2> QED
    BY <2>1, <2>2 DEF VestedAt, VestedAmount
<1>3. PromiseOf(s, u) = [PromiseOf(s, t) EXCEPT !.earned = PromiseOf(s, u).earned]
  BY DEF PromiseOf
<1>4. /\ PromiseOf(s, t).earned = VestedAt(s, t) /\ PromiseOf(s, u).earned = VestedAt(s, u)
      /\ PromiseOf(s, t).cap = s.total_amount /\ PromiseOf(s, t).open = ~s.cancelled
  BY DEF PromiseOf
<1>5. PromiseOf(s, t).earned <= PromiseOf(s, u).earned
      /\ PromiseOf(s, u).earned <= PromiseOf(s, t).cap
  BY <1>1, <1>4
<1>6. ~PromiseOf(s, t).open => PromiseOf(s, u).earned = PromiseOf(s, t).earned
  BY <1>2, <1>4
<1> QED
  BY <1>3, <1>5, <1>6

(* A new stream promises its total, of which not all is earned yet.        *)
LEMMA NewPromise ==
  ASSUME NEW r, NewStream(r) \in StreamType, NEW t \in Nat, r.total_amount > 0, t < r.end_time
  PROVE  \E earned \in 0 .. r.total_amount - 1 :
           PromiseOf(NewStream(r), t)
             = [currency |-> r.token, cap |-> r.total_amount, earned |-> earned,
                paid |-> 0, open |-> TRUE]
<1> DEFINE earned == VestedAt(NewStream(r), t)
<1>1. NewStream(r).total_amount = r.total_amount /\ NewStream(r).end_time = r.end_time
      /\ r.total_amount \in Nat
  BY DEF NewStream, StreamType
<1>2. earned \in 0 .. r.total_amount - 1
  BY <1>1, RecordVested
<1>3. PromiseOf(NewStream(r), t)
        = [currency |-> r.token, cap |-> r.total_amount, earned |-> earned,
           paid |-> 0, open |-> TRUE]
  BY DEF PromiseOf, NewStream
<1> QED
  BY <1>2, <1>3

(* A payout is paid on the promise.                                        *)
LEMMA PaidPromise ==
  ASSUME NEW s \in StreamType, NEW t \in Nat, NEW amount \in Nat
  PROVE  PromiseOf(AfterWithdraw(s, amount), t) = [PromiseOf(s, t) EXCEPT !.paid = @ + amount]
  BY AfterWithdrawRecord DEF PromiseOf, AfterWithdraw, StreamType

(* A settled record is a promise closed at what it had earned.             *)
LEMMA ClosedPromise ==
  ASSUME NEW C,
         NEW p \in [currency : C, cap : Nat, earned : Nat, paid : Nat, open : BOOLEAN],
         NEW q \in [currency : C, cap : Nat, earned : Nat, paid : Nat, open : BOOLEAN],
         NEW v \in Nat,
         q.currency = p.currency, q.cap = v, q.earned = p.earned, q.paid = p.paid, q.open = FALSE
  PROVE  q = [p EXCEPT !.cap = v, !.open = FALSE]
  OBVIOUS

(* What a record promises is within its types.                             *)
LEMMA PromiseOfType ==
  ASSUME NEW s \in StreamType, NEW t \in Nat
  PROVE  PromiseOf(s, t) \in
           [currency : Tokens, cap : Nat, earned : Nat, paid : Nat, open : BOOLEAN]
<1>1. VestedAt(s, t) \in Nat
  BY RecordVested
<1> QED
  BY <1>1 DEF PromiseOf, StreamType

(* A settlement closes it.                                                 *)
LEMMA SettledPromise ==
  ASSUME NEW s \in StreamType, NEW t \in Nat
  PROVE  PromiseOf(AfterCancel(s, t), t)
           = [PromiseOf(s, t) EXCEPT !.cap = PromiseOf(s, t).earned, !.open = FALSE]
<1> DEFINE c == AfterCancel(s, t)
<1>1. /\ c.token = s.token /\ c.total_amount = VestedAt(s, t) /\ c.withdrawn = s.withdrawn
      /\ VestedAt(c, t) = VestedAt(s, t) /\ c \in StreamType
  BY AfterCancelRecord
<1>2. c.cancelled = TRUE /\ VestedAt(s, t) \in Nat
  BY RecordVested DEF AfterCancel, StreamType
<1>3. /\ PromiseOf(s, t) \in
           [currency : Tokens, cap : Nat, earned : Nat, paid : Nat, open : BOOLEAN]
      /\ PromiseOf(c, t) \in
           [currency : Tokens, cap : Nat, earned : Nat, paid : Nat, open : BOOLEAN]
  BY <1>1, PromiseOfType
<1> HIDE DEF c
<1>4. /\ PromiseOf(c, t).currency = PromiseOf(s, t).currency
      /\ PromiseOf(c, t).cap = PromiseOf(s, t).earned
      /\ PromiseOf(c, t).earned = PromiseOf(s, t).earned
      /\ PromiseOf(c, t).paid = PromiseOf(s, t).paid
      /\ PromiseOf(c, t).open = FALSE
      /\ PromiseOf(s, t).earned \in Nat
  BY <1>1, <1>2 DEF PromiseOf
<1>5. PromiseOf(c, t) = [PromiseOf(s, t) EXCEPT !.cap = PromiseOf(s, t).earned, !.open = FALSE]
  BY <1>3, <1>4, ClosedPromise
<1> QED
  BY <1>5 DEF c

-----------------------------------------------------------------------------
(* Each kind of step of the contract is a step of the promise.             *)

(* A step that touches no record only lets open promises earn.             *)
LEMMA IdleEarns ==
  ASSUME TypeOK, ClaimsInOrder, CancelledAreOver, [Next]_vars, Idle
  PROVE  Promise!Earn
<1>1. now \in Nat /\ now' \in Nat /\ now <= now' /\ streams' = streams
  BY NextType DEF TypeOK, Idle
<1>2. potNow' = potNow
  BY DEF Idle, potNow
<1>3. DOMAIN promiseNow' = DOMAIN promiseNow
  BY <1>1 DEF promiseNow
<1>4. ASSUME NEW n \in DOMAIN promiseNow
      PROVE  /\ promiseNow'[n] = [promiseNow[n] EXCEPT !.earned = promiseNow'[n].earned]
             /\ promiseNow[n].earned <= promiseNow'[n].earned
             /\ promiseNow'[n].earned <= promiseNow[n].cap
             /\ ~promiseNow[n].open => promiseNow'[n].earned = promiseNow[n].earned
  <2>1. n \in DOMAIN streams
    BY DEF promiseNow
  <2>2. promiseNow[n] = PromiseOf(streams[n], now) /\ promiseNow'[n] = PromiseOf(streams[n], now')
    BY <1>1, <2>1 DEF promiseNow
  <2>3. /\ streams[n] \in StreamType /\ InOrder(streams[n], now)
        /\ streams[n].cancelled => streams[n].end_time <= now
    BY <2>1, ClaimsAreInOrder DEF TypeOK, CancelledAreOver
  <2> QED
    BY <1>1, <2>2, <2>3, EarnedLater
<1> QED
  BY <1>2, <1>3, <1>4 DEF Promise!Earn, promiseNow, PromiseOf, potNow, Balance

(* create_stream opens a promise under a fresh name.                       *)
LEMMA OpensOpens ==
  ASSUME TypeOK, [Next]_vars, NEW r \in Requests, Opens(r),
         NEW id, id = streamCount, NEW earned, earned = VestedAt(NewStream(r), now)
  PROVE  /\ id \in Ids \ DOMAIN streams
         /\ r.token \in Tokens /\ r.total_amount \in 1 .. MaxAmount
         /\ earned \in 0 .. r.total_amount - 1
         /\ Promise!Open(id, r.token, r.total_amount, earned)
<1>1. /\ streamCount \in Ids /\ streamCount \notin DOMAIN streams /\ now \in Nat
      /\ \A i \in DOMAIN streams : streams[i] \in StreamType
  BY LimitAssumption DEF TypeOK, Ids
<1>2. /\ r.token \in Tokens /\ r.total_amount \in 1 .. MaxAmount /\ now < r.end_time
      /\ r.sender \in Addresses /\ r.sender # This /\ r.recipient \in Addresses
      /\ r.start_time \in Nat /\ r.end_time \in Nat /\ r.cliff_time \in Nat
      /\ r.total_amount \in Nat
  BY InputAssumption, LimitAssumption DEF Opens
<1>3. NewStream(r) \in StreamType
  BY <1>2 DEF NewStream, StreamType
<1>4. earned \in 0 .. r.total_amount - 1
  <2>1. NewStream(r).total_amount = r.total_amount /\ NewStream(r).end_time = r.end_time
    BY DEF NewStream
  <2> QED
    BY <1>1, <1>2, <1>3, <2>1, RecordVested
<1>5. promiseNow' = [n \in DOMAIN promiseNow \union {id} |->
                       IF n = id
                         THEN [currency |-> r.token, cap |-> r.total_amount, earned |-> earned,
                               paid |-> 0, open |-> TRUE]
                         ELSE promiseNow[n]]
  <2>1. now' = now /\ streams'[streamCount] = NewStream(r)
        /\ \A n \in DOMAIN streams : n # streamCount /\ streams'[n] = streams[n]
    BY OpensStore DEF Opens
  <2>3. DOMAIN streams' = DOMAIN streams \union {streamCount}
    BY OpensStore DEF Opens, Create, Store, NextId, WithRecord
  <2>2. PromiseOf(NewStream(r), now)
          = [currency |-> r.token, cap |-> r.total_amount, earned |-> earned,
             paid |-> 0, open |-> TRUE]
    BY DEF PromiseOf, NewStream
  <2> QED
    BY <2>1, <2>2, <2>3 DEF promiseNow
<1>6. potNow' = [potNow EXCEPT ![r.token] = @ + r.total_amount]
  <2>1. \A t \in Tokens : Balance(t)' = Balance(t) + (IF t = r.token THEN r.total_amount ELSE 0)
    BY <1>2, MovedIn DEF Opens, Create, Store, NextId
  <2>2. \A t \in Tokens : Balance(t) \in Int
    BY DEF Balance, TypeOK, Addresses
  <2> QED
    BY <1>2, <2>1, <2>2 DEF potNow
<1>7. id \notin DOMAIN promiseNow /\ earned < r.total_amount
  BY <1>1, <1>2, <1>4 DEF promiseNow
<1>8. Promise!Open(id, r.token, r.total_amount, earned)
  BY <1>5, <1>6, <1>7
     DEF Promise!Open, Promise!With, promiseNow, potNow, PromiseOf, Balance
<1> QED
  BY <1>1, <1>2, <1>4, <1>8

(* A withdrawal pays out of what the promise has earned.                   *)
LEMMA PaysPays ==
  ASSUME TypeOK, ClaimsInOrder, [Next]_vars,
         NEW id \in DOMAIN streams, NEW amount \in Nat, Pays(id, amount)
  PROVE  /\ amount \in 1 .. VestedAt(streams[id], now) - streams[id].withdrawn
         /\ Promise!Pay(id, amount)
<1> DEFINE s == streams[id]
<1>1. /\ s \in StreamType /\ now \in Nat /\ VestedAt(s, now) \in Nat /\ s.withdrawn \in Nat
      /\ s.token \in Tokens /\ s.recipient \in Addresses /\ s.recipient # This
  BY RecordVested DEF TypeOK, StreamType, ClaimsInOrder
<1>2. amount > 0 /\ amount <= VestedAt(s, now) - s.withdrawn
  BY <1>1 DEF Pays
<1>3. promiseNow' = [n \in DOMAIN promiseNow \union {id} |->
                       IF n = id THEN [PromiseOf(s, now) EXCEPT !.paid = @ + amount]
                                 ELSE promiseNow[n]]
  <2>1. PromiseOf(AfterWithdraw(s, amount), now) = [PromiseOf(s, now) EXCEPT !.paid = @ + amount]
    BY <1>1, PaidPromise
  <2>2. now' = now /\ DOMAIN streams' = DOMAIN streams \union {id}
        /\ \A n \in DOMAIN streams :
             streams'[n] = IF n = id THEN AfterWithdraw(s, amount) ELSE streams[n]
    BY PaysStore DEF Pays
  <2> QED
    BY <2>1, <2>2 DEF promiseNow
<1>4. potNow' = [potNow EXCEPT ![s.token] = @ - amount]
  <2>1. \A t \in Tokens : Balance(t)' = Balance(t) - (IF t = s.token THEN amount ELSE 0)
    BY <1>1, MovedOut DEF Pays, PayRecipient, Publish
  <2>2. \A t \in Tokens : Balance(t) \in Int
    BY DEF Balance, TypeOK, Addresses
  <2> QED
    BY <1>1, <2>1, <2>2 DEF potNow
<1>5. Promise!Pay(id, amount)
  BY <1>1, <1>2, <1>3, <1>4
     DEF Promise!Pay, Promise!With, promiseNow, potNow, PromiseOf, Balance
<1> QED
  BY <1>1, <1>2, <1>5

(* cancel closes one promise and takes back what was not earned.           *)
LEMMA SettlesCloses ==
  ASSUME TypeOK, ClaimsInOrder, [Next]_vars, NEW id \in DOMAIN streams, Settles(id)
  PROVE  Promise!Close(id)
<1> DEFINE s == streams[id]
<1>1. /\ s \in StreamType /\ now \in Nat /\ VestedAt(s, now) \in Nat /\ s.total_amount \in Nat
      /\ s.token \in Tokens /\ s.sender \in Addresses /\ s.sender # This /\ ~s.cancelled
  BY RecordVested DEF TypeOK, StreamType, ClaimsInOrder, Settles
<1>2. promiseNow' = [n \in DOMAIN promiseNow \union {id} |->
                       IF n = id THEN [PromiseOf(s, now) EXCEPT !.cap = VestedAt(s, now),
                                                                !.open = FALSE]
                                 ELSE promiseNow[n]]
  <2>1. PromiseOf(AfterCancel(s, now), now)
          = [PromiseOf(s, now) EXCEPT !.cap = VestedAt(s, now), !.open = FALSE]
    BY <1>1, SettledPromise DEF PromiseOf
  <2>2. now' = now /\ DOMAIN streams' = DOMAIN streams \union {id}
        /\ \A n \in DOMAIN streams :
             streams'[n] = IF n = id THEN AfterCancel(s, now) ELSE streams[n]
    BY SettlesStore DEF Settles
  <2> QED
    BY <2>1, <2>2 DEF promiseNow
<1>3. Refund(id) = s.total_amount - VestedAt(s, now) /\ Refund(id) \in Nat
  BY DEF Settles
<1>4. potNow' = [potNow EXCEPT ![s.token] = @ - (s.total_amount - VestedAt(s, now))]
  <2>1. \A t \in Tokens : Balance(t)' = Balance(t) - (IF t = s.token THEN Refund(id) ELSE 0)
    BY <1>1, SettlesBalance
  <2>2. \A t \in Tokens : Balance(t) \in Int
    BY DEF Balance, TypeOK, Addresses
  <2> QED
    BY <1>1, <1>3, <2>1, <2>2 DEF potNow
<1> QED
  BY <1>1, <1>2, <1>4
     DEF Promise!Close, Promise!With, promiseNow, potNow, PromiseOf, Balance
-----------------------------------------------------------------------------
(* The initial states promise nothing.                                     *)
LEMMA InitPromise == Init => Promise!Init
<1> SUFFICES ASSUME Init PROVE Promise!Init
  OBVIOUS
<1>1. promiseNow = << >>
  BY DEF Init, promiseNow
<1>2. potNow = [t \in Tokens |-> 0]
  BY DEF Init, potNow, Balance, Addresses
<1> QED
  BY <1>1, <1>2 DEF Promise!Init, promiseNow, PromiseOf, potNow, Balance

(* Every step of the contract is one of the promise or a stutter.          *)
LEMMA StepPromise ==
  ASSUME TypeOK, ClaimsInOrder, CancelledAreOver, [Next]_vars
  PROVE  Promise!Next
<1>1. CASE Idle
  BY <1>1, IdleEarns DEF Promise!Next
<1>2. ASSUME NEW r \in Requests, Opens(r)
      PROVE  Promise!Next
  <2>1. PICK id, earned : id = streamCount /\ earned = VestedAt(NewStream(r), now)
    OBVIOUS
  <2>2. /\ id \in Ids \ DOMAIN promiseNow
        /\ r.token \in Tokens /\ r.total_amount \in 1 .. MaxAmount
        /\ earned \in 0 .. r.total_amount - 1
        /\ Promise!Open(id, r.token, r.total_amount, earned)
    BY <1>2, <2>1, OpensOpens DEF promiseNow
  <2>3. \E name \in Ids \ DOMAIN promiseNow, c \in Tokens, cap \in 1 .. MaxAmount :
          \E e \in 0 .. cap - 1 : Promise!Open(name, c, cap, e)
    BY <2>2
  <2> QED
    BY <2>3 DEF Promise!Next, promiseNow, PromiseOf
<1>3. ASSUME NEW id \in DOMAIN streams, NEW amount \in Nat, Pays(id, amount)
      PROVE  Promise!Next
  <2>1. id \in DOMAIN promiseNow
        /\ amount \in 1 .. promiseNow[id].earned - promiseNow[id].paid
    BY <1>3, PaysPays DEF promiseNow, PromiseOf
  <2> QED
    BY <1>3, <2>1, PaysPays DEF Promise!Next, promiseNow, PromiseOf
<1>4. ASSUME NEW id \in DOMAIN streams, Settles(id)
      PROVE  Promise!Next
  <2>1. id \in DOMAIN promiseNow
    BY DEF promiseNow
  <2> QED
    BY <1>4, <2>1, SettlesCloses DEF Promise!Next, promiseNow, PromiseOf
<1> QED
  BY <1>1, <1>2, <1>3, <1>4, StepEffects

(* The contract implements the abstract escrow: seen through its records   *)
(* and its balances it only ever opens promises, lets them earn, pays out  *)
(* what was earned and closes them at what was earned.                     *)
THEOREM StreamsKeepThePromise == Spec => KeepsThePromise
  BY AlwaysCancelledAreOver, InitPromise, StepPromise, TypeCorrect, ClaimsStayInOrder, PTL
     DEF Spec, KeepsThePromise, Promise!Spec
=============================================================================
