------------------------------ MODULE StreamHost ------------------------------
(***************************************************************************)
(* The contract as the host runs it, an invocation at a time and each in   *)
(* its steps: the checks and what is saved before the token is called, the *)
(* token's own code, and what is saved and published after it returned.    *)
(* The variables of StreamContract are the state an invocation works on;   *)
(* each one that waits for a token keeps the state to roll back to.        *)
(*                                                                         *)
(* Not all tokens conform.  Those that do move exactly the amount, or fail *)
(* when the payer lacks it.  The others move any part of it and say it was *)
(* done, fail as they like, or call back while the contract waits.         *)
(***************************************************************************)
EXTENDS StreamProperties

CONSTANT Conforming  \* the tokens that keep to the rules

ASSUME ConformingAssumption == Conforming \subseteq Tokens

VARIABLE stack  \* the contract's invocations that wait for a token, innermost last

hostVars == <<now, streams, streamCount, wallet, surplus, events, reply, stack>>

AtRest == stack = << >>
Top  == stack[Len(stack)]

-----------------------------------------------------------------------------
(* Rolling back.                                                           *)
Snapshot ==
  [streams |-> streams, streamCount |-> streamCount, wallet |-> wallet, events |-> events]

(* A mistake: what was saved before the failing call stays.                *)
KeepRecords(saved) ==
  /\ wallet' = saved.wallet
  /\ UNCHANGED <<streams, streamCount, events>>

RollBack(saved) ==
  /\ streams' = saved.streams
  /\ streamCount' = saved.streamCount
  /\ wallet' = saved.wallet
  /\ events' = saved.events

(* What is in the ledger: nothing of an invocation under way.              *)
Committed == IF AtRest THEN Snapshot ELSE stack[1].saved

-----------------------------------------------------------------------------
HostInit == Init /\ stack = << >>

(* Mistakes: a token that calls back is let in, or anyone at any time.     *)
CanEnterFromToken == AtRest \/ (Len(stack) = 1 /\ Top.at = "transfer" /\ Top.token \notin Conforming)
CanEnterAnytime == TRUE

(* The host refuses a call of a contract that is on the stack.  The token  *)
(* that made it may carry on or fail.                                      *)
CanEnter == AtRest

(* The contract's own checks are passed: what may still fail is the token. *)
Passes(result) == result \in {"Ok", "TokenError"}

(* An invocation its checks refuse is over at once.                        *)
Refused ==
  /\ CanEnter
  /\ Invocation
  /\ ~Passes(reply'.result)
  /\ UNCHANGED stack

(* Any other calls its token and waits, unless it has nothing to move.     *)
FirstStop(amount) == IF amount > 0 THEN "transfer" ELSE "returned"

CallToken(call, id, token, from, to, amount, event) ==
  /\ CanEnter
  /\ stack' = Append(stack,
       [call |-> call, id |-> id, token |-> token, from |-> from, to |-> to, amount |-> amount,
        event |-> event, at |-> FirstStop(amount), saved |-> Snapshot])

(* create_stream reads its id before the token is called and saves the     *)
(* record under it, and the counter, only afterwards.                      *)
BeginCreate(caller, r) ==
  /\ Passes(CreateResult(caller, r))
  /\ CallToken("create_stream", streamCount, r.token, r.sender, This, r.total_amount,
               CreatedEvent(r))
  /\ UNCHANGED vars

(* A withdrawal and a cancellation save the record first.                  *)
BeginWithdraw(call, caller, id, refusal, amount) ==
  /\ Passes(WithdrawResult(caller, id, refusal, amount))
  /\ CallToken(call, id, streams[id].token, This, streams[id].recipient, amount,
               WithdrawnEvent(id, amount))
  /\ streams' = WithRecord(streams, id, AfterWithdraw(streams[id], amount))
  /\ UNCHANGED <<now, streamCount, wallet, surplus, events, reply>>

BeginCancel(caller, id) ==
  /\ Passes(CancelResult(caller, id))
  /\ CallToken("cancel", id, streams[id].token, This, streams[id].sender, Refund(id),
               CancelledEvent(id))
  /\ streams' = WithRecord(streams, id, AfterCancel(streams[id], now))
  /\ UNCHANGED <<now, streamCount, wallet, surplus, events, reply>>

-----------------------------------------------------------------------------
(* The token's side of the call.                                           *)

TokenMoves ==
  /\ ~AtRest /\ Top.at = "transfer"
  /\ \E part \in IF Top.token \in Conforming THEN {Top.amount} ELSE 0 .. Top.amount :
       /\ CanPay(Top.token, Top.from, part)
       /\ wallet' = Moved(Top.token, Top.from, Top.to, part)
  /\ stack' = Append(Front(stack), [Top EXCEPT !.at = "returned"])
  /\ UNCHANGED <<now, streams, streamCount, surplus, events, reply>>

(* A token that fails takes the whole invocation with it.                  *)
TokenFails ==
  /\ ~AtRest /\ Top.at = "transfer"
  /\ Top.token \in Conforming => ~CanPay(Top.token, Top.from, Top.amount)
  /\ RollBack(Top.saved)
  /\ reply' = Reply(Top.call, "TokenError", 0)
  /\ stack' = Front(stack)
  /\ UNCHANGED <<now, surplus>>

(* The rest of the invocation, with the values it had before the call.     *)
FinishCreate ==
  /\ Top.call = "create_stream"
  /\ Store(Top.id, Top.event.terms)
  /\ reply' = Reply(Top.call, "Ok", Top.id)

FinishPayout ==
  /\ Top.call # "create_stream"
  /\ Publish(Top.id, Top.event)
  /\ reply' = Reply(Top.call, "Ok", Top.amount)
  /\ UNCHANGED <<streams, streamCount>>

Finish ==
  /\ ~AtRest /\ Top.at = "returned"
  /\ FinishCreate \/ FinishPayout
  /\ stack' = Front(stack)
  /\ UNCHANGED <<now, wallet, surplus>>

-----------------------------------------------------------------------------
(* Ledgers close, and tokens are sent to the contract, between invocations.*)
HostAdvance == AtRest /\ AdvanceLedger /\ UNCHANGED stack

HostGift(from, token, amount) ==
  /\ AtRest
  /\ Gift(from, token, amount)
  /\ UNCHANGED stack

HostWithdraw(caller, id) ==
  BeginWithdraw("withdraw", caller, id, WithdrawRefusal(id), Available(id))

HostWithdrawAmount(caller, id, amount) ==
  BeginWithdraw("withdraw_amount", caller, id, WithdrawAmountRefusal(id, amount), amount)

HostNext ==
  \/ Refused
  \/ \E r \in Requests, caller \in Addresses : BeginCreate(caller, r)
  \/ \E id \in Ids, caller \in Addresses : HostWithdraw(caller, id)
  \/ \E id \in Ids, caller \in Addresses, amount \in Amounts : HostWithdrawAmount(caller, id, amount)
  \/ \E id \in Ids, caller \in Addresses : BeginCancel(caller, id)
  \/ TokenMoves
  \/ TokenFails
  \/ Finish
  \/ HostAdvance
  \/ \E from \in Parties, token \in Tokens, amount \in Gifts : HostGift(from, token, amount)

HostSpec == HostInit /\ [][HostNext]_hostVars

(* The host's limits end every invocation one way or the other.  Others    *)
(* may be served first again and again, but neither the closing of ledgers *)
(* nor a recipient who keeps asking is passed over for ever.               *)
HostFairness ==
  /\ WF_hostVars(TokenMoves \/ TokenFails \/ Finish)
  /\ SF_hostVars(HostAdvance)
  /\ \A id \in Ids : SF_hostVars(\E p \in Parties : HostWithdraw(p, id))

HostFairSpec == HostSpec /\ HostFairness
-----------------------------------------------------------------------------
Calls == {"create_stream", "withdraw", "withdraw_amount", "cancel"}

(* What an invocation keeps to roll back to has the types of what it works *)
(* on.                                                                     *)
StateTyped(s) ==
  /\ s.streamCount \in 0 .. CountMax
  /\ s.streams \in [0 .. s.streamCount - 1 -> StreamType]
  /\ DOMAIN s.events = DOMAIN s.streams
  /\ s.wallet \in [Tokens -> [Addresses -> Nat]]

(* At most one invocation waits, whatever tokens call back; it is well     *)
(* typed, as is the state it would be rolled back to, and the id that      *)
(* create_stream has read is still the next one.                           *)
HostTypeOK ==
  /\ TypeOK
  /\ Len(stack) <= 1
  /\ \A i \in 1 .. Len(stack) :
       LET f == stack[i]
       IN  /\ f.call \in Calls /\ f.at \in {"transfer", "returned"}
           /\ f.token \in Tokens /\ f.amount \in Nat
           /\ StateTyped(f.saved)
           /\ {f.from, f.to} \subseteq Addresses
           /\ f.call = "create_stream" => f.id = streamCount
           /\ f.call # "create_stream" => Known(f.id)

(* What the invocation under way has taken from the records or brought to  *)
(* the balance, but not both.                                              *)
InFlight(token) ==
  IF ~AtRest /\ Top.token = token /\ (Top.at = "returned" <=> Top.call = "create_stream")
  THEN Top.amount ELSE 0

(* The damage a token does stays in that token: whatever others do, and at *)
(* every point of an invocation, the contract holds of each conforming     *)
(* token what its streams have in escrow, and what is on its way.          *)
HonestTokensSolvent ==
  \A token \in Conforming :
    wallet[token][This] = Escrow(token) + surplus[token] + InFlight(token)

(* A token may fail at any call, after the record was saved, and still the *)
(* published events and the records agree between invocations: there is no *)
(* record of a payout, or of a cancellation, that was not carried through. *)
EventsExplainCommitted == AtRest => EventsExplainRecords

(* THREAT_MODEL.md, When a token transfer fails: retrying the same call is *)
(* safe.  In the ledger it failed in it would pass the same checks again,  *)
(* and ask the token for the same amount.                                  *)
PassesAgain(f) ==
  CASE f.call = "create_stream" ->
         Passes(CreateResult(f.from, f.event.terms)) /\ f.id = streamCount
    [] f.call = "withdraw" ->
         Passes(WithdrawResult(f.to, f.id, WithdrawRefusal(f.id), f.amount)) /\ f.amount = Available(f.id)
    [] f.call = "withdraw_amount" ->
         Passes(WithdrawResult(f.to, f.id, WithdrawAmountRefusal(f.id, f.amount), f.amount))
    [] f.call = "cancel" ->
         Passes(CancelResult(f.to, f.id)) /\ f.amount = Refund(f.id)

FailedCallsCanBeRetried ==
  [][ ~AtRest /\ stack' = << >> /\ reply'.result = "TokenError" =>
        \A f \in {Top} : PassesAgain(f)' ]_hostVars

(* The committed streams in conforming tokens keep the abstract promise,   *)
(* whatever the tokens of other streams do.                                *)
HonestStreams ==
  { id \in DOMAIN Committed.streams : Committed.streams[id].token \in Conforming }

HonestPromise == INSTANCE StreamEscrow WITH
  Currencies <- Conforming,
  Names      <- Ids,
  Caps       <- 1 .. MaxAmount,
  promise    <- [id \in HonestStreams |-> PromiseOf(Committed.streams[id], now)],
  pot        <- [t \in Conforming |-> Committed.wallet[t][This] - surplus[t]]

HonestPromisesKept == HonestPromise!Spec

(* A stream in a conforming token is paid out in full in the end, although *)
(* it shares the host, the contract and its parties with tokens that fail  *)
(* for ever.                                                               *)
HonestStreamsArePaidOut ==
  \A id \in Ids :
    (Known(id) /\ streams[id].token \in Conforming) ~>
      (/\ AtRest /\ Known(id)
       /\ streams[id].withdrawn = streams[id].total_amount
       /\ now >= streams[id].end_time)

(* With conforming tokens only, invocations are atomic: whatever steps the *)
(* host takes, the ledger goes from state to state as StreamContract says. *)
Contract == INSTANCE StreamContract WITH
  streams     <- Committed.streams,
  streamCount <- Committed.streamCount,
  wallet      <- Committed.wallet,
  events      <- Committed.events

InvocationsAreAtomic == Contract!Spec
=============================================================================
