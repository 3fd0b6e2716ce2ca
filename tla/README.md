# TricklePay stream contract: TLA+ specification, checks and proofs

This directory specifies the TricklePay stream contract
(`src/contracts/stream/src/`), a Soroban smart contract that holds tokens in
escrow and releases them to a recipient along a linear schedule with an
optional cliff. The modules are translated from the Rust code; TLC checks them
on small instances and TLAPS proves every safety property, action property and
refinement they check for every value of the constants. `PROJECT.json` lists runs, theorems, hazards and, per
definition, the source lines it stands for.

## 1. The system

### Components

| Component | State it keeps | Operations | Modelled in |
| --- | --- | --- | --- |
| Vesting arithmetic (`vesting.rs`, `types.rs`) | none | `vested_amount`, `withdrawable_amount`, `settlement` | `Vesting`, `VestingQueries` |
| Status and views (`status.rs`, `contract.rs`) | none: derived from a record and the clock | `status`, `withdrawable`, `vested`, `vested_at`, `locked`, `progress`, `cancel_preview`, `get_stream(s)`, `stream_exists`, `stream_count` | `Vesting`, `VestingQueries` |
| Entry points (`contract.rs`, `error.rs`) | through storage only | `create_stream`, `withdraw`, `withdraw_amount`, `cancel` | whole: `StreamContract`, `StreamProperties`; in their steps: `StreamHost` |
| Storage (`storage.rs`) | a record per id (persistent), the id counter (instance), a lifetime for each | read, write, extend | records: `StreamContract`; lifetimes: `StreamStorage` |
| Events (`events.rs`) | the ledger's event log | `Created`, `Withdrawn`, `Cancelled` | `StreamContract`, `StreamProperties` |
| Token contracts (external) | balances | `transfer` | conforming: `StreamContract`; any: `StreamHost` |
| Soroban host (external) | ledger time, the stack of invocations, authorization, archival | call, commit, roll back, refuse re-entry, extend, archive, restore | `StreamHost`; archival in `StreamStorage` |
| Clients, indexers (`docs/INTEGRATOR_OPERATIONS.md`) | their own | retries, event replay | no code here to model; what they need of the contract is stated over it (section 6) |
| Scripts, tests, CI | | | not modelled: no state of the running system |

### How they interact

A caller signs an invocation of an entry point. The entry point loads a record
(extending its lifetime on the way), asks the host for the signature of the
party that may act, computes with the vesting arithmetic at the current ledger
timestamp, writes the record back, calls the token contract and publishes an
event. The host commits all of that or none of it. Between invocations, ledgers
close: the timestamp advances and lifetimes shrink. All streams in one token
share one balance of the contract, to which anybody can also send tokens
directly.

### What is hard

* **A record is rewritten while others depend on it.** `cancel` changes the
  total and all three times at once; everything computed later (claims, status,
  views, `vested_at` about the past) is computed from the rewritten record.
* **Pooled balances.** A wrong amount on one stream is covered by the others,
  so that nothing fails until the last of them is paid.
* **Order.** Withdrawals and the cancellation of one stream race; calls on
  different streams interleave; the effects within a call are computed on both
  sides of the rewrite.
* **Truncation and width.** Amounts are floored at each question, products need
  127 bits.
* **Lifetimes.** Most accesses extend nothing; some views never do; the counter
  and the records live on different clocks.
* **Failure in the middle of a call**, which is left to the host's rollback: a
  withdrawal and a cancellation save the record before the token is called.
* **The token is somebody else's program.** Whoever creates a stream chooses it.
  It runs while the contract waits, and `create_stream` reads its id before that
  call and writes the record under it afterwards.

The complete list, each at its line and with the properties aimed at it, is
under `hazards` in `PROJECT.json`.

### What makes each component correct

* *Arithmetic*: the exact floor of the linear share, monotone, within the word;
  a cancellation leaves a frozen record that never claims more than the
  schedule agreed on.
* *Views*: previews come true; locked and withdrawable account for the whole
  escrow; progress and status agree with the amounts.
* *Entry points*: solvency for every token, payouts that cannot fail, claims
  that are never cut, records that are never overwritten, everything paid out in
  the end.
* *Events*: the log alone recovers every record's money.
* *Storage*: an attended stream is never archived; no id is issued twice.
* *Host and tokens*: the steps of an invocation add up to an atomic one; a token
  that does not conform harms only its own streams; what failed can be retried.

## 2. The modules

| Module | What it is |
| --- | --- |
| `Vesting` | the pure operators: vesting, settlement, views, status, and the rewrite each mutation makes of a record |
| `VestingQueries`, `MCVestingQueries` | one record in fixed-width arithmetic, with a clock and one cancellation, asked about every timestamp |
| `StreamContract` | the contract: records, counter, balances, clock, events, answers |
| `StreamEscrow` | the abstract specification: promises of a cap, earned, paid, closed |
| `StreamProperties` | properties over `StreamContract` that need its events, previews or an abstraction, and the fair specification |
| `StreamHost` | the contract in the steps of its invocations, with a stack, rollback and tokens that need not conform; implements `StreamContract` when they do |
| `MCStreamContract`, `MCStreamHost` | the requests TLC offers to `create_stream` |
| `StreamStorage` | the lifetimes of the ledger entries |
| `VestingProofs`, `VestingQueriesProofs`, `StreamContractProofs`, `StreamPromiseProofs`, `StreamPropertiesProofs`, `StreamHostProofs`, `StreamCommitProofs`, `StreamStorageProofs` | theorems and proofs |

Definitions carry the names of the code where there is one. The small operators
introduced by *A mistake* comments are deliberately wrong versions of the
definition that follows them. No specification uses them; each shows, put in
the place of the right one, that a property notices.

### StreamContract and the code

| TLA+ | Code |
| --- | --- |
| `streams` | the entries `DataKey::Stream(id)` |
| `streamCount` | `DataKey::StreamCount`; `CountMax` stands for `u64::MAX` |
| `wallet[token][address]` | the books of the token contracts |
| `surplus[token]` | history: what was sent to the contract outside of any stream |
| `events[id]` | the events published about stream `id`, in order |
| `reply` | the answer to the latest invocation, error code or value |
| `CreateStream`, `Withdraw`, `WithdrawAmount`, `Cancel` | the entry points, whole |
| `CreateResult`, `WithdrawResult`, `CancelResult` | their refusals, in the order the code makes them |
| `AdvanceLedger`, `Gift` | later ledgers; direct token transfers |

Every invocation is one step, refused ones included: a refusal is a step that
changes only `reply`. That it may be taken as one step is what `StreamHost`
shows. `caller` is the address whose signature the
invocation carries. Any address may call anything with any id.

Tokens are conforming: a transfer moves exactly the amount, or fails when the
payer does not have it. `THREAT_MODEL.md` puts the choice of any other token on
the sender; what another token can do is in `StreamHost`.

### StreamHost and the code

The variables of `StreamContract` become the state an invocation works on.
`stack` holds the invocations of the contract that wait for a token, each a
record of the call, the values that survive the token's call in local variables
(`id`, `amount`, `event`) and `saved`, what to roll back to.

| TLA+ | Code |
| --- | --- |
| `BeginCreate` | `create_stream` up to and including the call of `transfer`: nothing is written yet |
| `FinishCreate` | its rest: record, counter, event, under the id read at the start |
| `BeginWithdraw`, `BeginCancel` | `withdraw_with` and `cancel` up to `transfer`: the record is already written |
| `FinishPayout` | their rest: the event and the answer |
| `Refused` | an entry point that returns an error before any token is called |
| `TokenMoves`, `TokenFails` | the token: a conforming one moves exactly the amount, or fails when the payer lacks it; any other moves whatever part it likes, or fails as it likes |
| `CanEnter` | the host's refusal to enter a contract that is on the stack; the callback fails, and the token may go on |
| `RollBack` | the host: nothing of a failed invocation remains |
| `Committed` | the ledger, as others would see it |

Re-entry and rollback belong to the host, which is not in the repository;
`CanEnter` and `RollBack` say what `tests/reentrancy.rs` and `THREAT_MODEL.md`
(Reentrancy; When a token transfer fails) rely on. That they are needed is shown
by their wrong versions: let in by a token, a second `create_stream` gets the id
of the first and its record is overwritten; without rollback a failed payout is
recorded as paid. A cancellation with nothing to refund calls no token: its
frame starts out `at` the point after the transfer (`FirstStop`).

Left out: a token that moves other balances on its own during the call (its
issuer can do that at any time), and direct transfers to the contract in the
middle of an invocation; both would need the token, not this contract, to be
called by others.

### StreamStorage and the code

Lifetimes are counted in ledgers, which have no fixed relation to the timestamps
vesting uses, so the module is separate from `StreamContract` and abstracts from
what calls do to records. `Extended` is the host's `extend_ttl(threshold,
extend_to)`: a no-op above the threshold, never a shortening. At exactly the
threshold the code relies on neither answer and both are allowed. `Mutate`
extends twice, as `withdraw_with` and `cancel` do through `get_stream` and
`set_stream`. A refused call is no step here: its extensions are discarded. An
archived entry can neither be read nor found missing, which is what keeps the
`unwrap_or(0)` of `stream_count` from restarting the ids. `THREAT_MODEL.md` says
calls on streams go on while the instance is archived, and the model lets them;
a host that refuses them takes fewer steps, and the safety properties hold of
those too. `untouched` and `unseen` are history.

## 3. The runs

Every run finishes in less than two minutes on two workers.

| Run | Instance | What it shows |
| --- | --- | --- |
| `queries` | amounts below 16 (2^4), times below 8 (2^3), scale 5: all 63,840 states over every record `create_stream` accepts | `NoOverflow`, `ExactFloor`, `ProjectionMonotone`, `RewriteNeverOverstates`, `FrozenOnceCancelled`, `CancelAlwaysRefunds`, `ProgressIsHonest`, `StatusMatchesAmounts` |
| `single` | one stream, every schedule on the times 0..4, totals 3 and 4, requests failing each check, partial withdrawals of 0, 1 and 2 | claims, terms, events, the race, previews, repeated calls, status, entitlement |
| `pair` | two streams out of three requests, two tokens, both directions and to oneself, direct transfers, one id too few | solvency, payouts, permanence, answers, split of the escrow, and that `cancel_preview` foretells `cancel` down to the refusals |
| `promise` | two opposite streams in one token, direct transfers | `StreamContract` implements `StreamEscrow`; under `Fairness`, `EveryStreamIsPaidOut` |
| `host` | a stream in a conforming token and one in another, invocations in steps | `HonestTokensSolvent` in every step, `EventsExplainCommitted`, `FailedCallsCanBeRetried`, `HonestPromisesKept` (`StreamEscrow` again, of the ledger and the conforming tokens only), `HonestStreamsArePaidOut` |
| `atomic` | two opposite streams in one conforming token, requests to be refused, direct transfers, partial withdrawals | `StreamHost` implements `StreamContract` |
| `storage` | two streams, lifetime 5, threshold 2, network minimum 1 or 7 | attendance, touches, ids, no call shortens a lifetime |
| `doc_*` | as above | one statement of the documents each, refuted; see section 5 |

**Bounds.** One stream suffices for what relates a record to its own terms,
events and previews; the interesting cases are the orders of cliff, start,
cancellation and withdrawals, and totals that do not divide by the duration, all
of which five times and totals 3 and 4 contain. Solvency needs a second stream
in the same token, to have something to lose, and a second token, to be paid in
the wrong one; opposite directions make each party sender and recipient. A
counter limit one below the requests makes the counter run out. `queries` gives the words of the code by how many naturals each holds, where
the code has 2^63 amounts and 2^64 times, because powers are beyond the prover;
the wide word holds the product of the two, as an i128 holds 2^127. The largest
product, (2^4 - 1) * (2^3 - 1), fits it, and with an amount of one bit more it
does not. In `storage`, the
minimum below the threshold makes every new entry extend and every restored one
short-lived; a minimum above the lifetime is the one case in which setting
instead of extending would shorten. Each new or restored entry may get either. `untouched` and `unseen`
saturate one above the threshold, the last value that matters. `host` needs one
stream in each kind of token, one with a cliff and one without, and amounts of 2, so
that a token can deliver nothing, a part or all; partial withdrawals and direct
transfers add nothing to what a token can do and are left to `atomic`, where
any two of the calls compete for one balance. Both bounds let an id be read by
an invocation and asked for by a second one, which is where a broken `CanEnter`
shows.

**Deadlock** is checked in the storage runs. Elsewhere it is switched off: the
clock of an instance ends (`Times`, `MaxTimestamp`), and after that a state may
have no step left, which says nothing about the contract.

**Fairness.** `FairSpec` assumes that ledgers keep closing (the network) and
that every recipient, while something can be withdrawn, withdraws it at some
time. The latter is not a property of the code, which runs only when called; it
is the recipient's part of the bargain, and the statement is that nothing else
is needed: no cooperation of the sender, of other recipients, or of a caller who
makes up the difference. Nothing is assumed of `cancel` or `create_stream`.

`HostFairness` says that an invocation, once begun, ends (weak fairness of the
token's and the contract's steps: the host's resource limits make it return or
trap), that ledgers close, and that each recipient gets to ask. These two are
strong fairness: both are possible only between invocations, and others may
begin one whenever the previous one ends. A network that serves a caller who
pays serves it in the end, and it closes ledgers in any case. A token that fails
for ever is allowed; only conforming ones are promised anything.

## 4. The proofs

All are for arbitrary constants, under the named assumptions of the modules
(`AddressAssumption`, `LimitAssumption`, `InputAssumption`, `TtlAssumption`,
`ConformingAssumption`, `WordAssumption`), which say no more than that inputs
have their types, that the contract is not one of the parties or tokens, that
the threshold is below the lifetime, that words hold something and the basis
points are a time, and that the conforming tokens are tokens; there may be
none, or nothing else. One theorem assumes more, and says so:
`AtomicWhenAllConform`, that all of them conform.

Every property of a passing run is stated by a theorem, the two about liveness
excepted.

* `VestingProofs`: the vested amount lies in `0 .. total`, stays below a
  positive total before the end, grows with time, and is the exact floor of the
  linear share. They rest on three lemmas about products and quotients of
  integers, because the solver has no non-linear division of its own.
* `VestingQueriesProofs`: the properties of `queries` for words of any size.
  They rest on `AlwaysFromOriginal`: the record is the one `create_stream`
  stored, or is `AfterCancel` of it at a moment when the code admits the
  cancellation. That a rewrite never overstates (`RewritesNeverOverstate`) is
  arithmetic: the floor of a share of a floor is at most the floor of the whole
  share (`ShareOfShare`), the new total being at most what the old one grants in
  the shorter window.
* `StreamContractProofs`:
  * `TypeCorrect`: `TypeOK` is inductive as it stands; each action has a lemma.
  * `ClaimsStayInOrder`: `ClaimsInOrder` is inductive relative to `TypeOK`. It
    is stated record by record (`InOrder`) and needs the order of the times
    only in the rewrite of `cancel`, where the vested amount at the new end must
    be the new total.
  * `ViewsAccountForEscrow`: with the claims in order neither clamp of the views
    is ever reached.
  * `EntitlementIsSafe`, `RecordsStay`: action properties that follow from the
    two invariants and `StepEffects`, the lemma that a step opens, pays or
    settles one stream or touches no record.
  * `ContractIsSolvent`: `Solvent` compares a balance with a sum, which is a
    recursive function over the counter. The proof never unfolds it twice: the
    invariant `Backed` says that for each token *there is* a running total of
    what is owed that ends at the balance, and a step changes such a total by
    changing its tail (`Reduced`, `Extended`). That a running total is unique (`RecursionUnique`, by a
    least counterexample) turns `Backed` into `Solvent`.
  * `PayoutsAlwaysSucceed`: since no stream is owed less than nothing
    (`ClaimsInOrder`), no part exceeds the total (`PartBelowTotal`), so the
    balance covers every single payout.
* `StreamPromiseProofs`: `StreamsKeepThePromise`, the refinement. Besides the
  invariants above it needs `CancelledAreOver`: a cancelled stream's window lies
  behind the clock, so that a closed promise earns nothing. What a withdrawal or
  a cancellation does to one record's promise are lemmas about records
  (`PaidPromise`, `ClosedPromise`), used again for the ledger of the host.
* `StreamPropertiesProofs`, over `StepEffects` and the invariants above:
  * `RacesHaveOneOutcome`, `PreviewsForetell`, `CancelsAsPreviewed`: a withdrawal
    commutes with a cancellation at one timestamp on a record in order; solvency
    is why a preview that sees no balance is right about the refund.
  * `StatusesMoveForward`: by what passing time, a payout and a rewrite make of
    each status. Claims in order keep "Completed" from ending.
  * `EventsAreEnough`: what the log adds up to is a recursive function of its
    length. The invariant `AllExplained` says that *there is* a running total of
    the payouts that ends at `withdrawn`; a new event extends it, and uniqueness
    turns it into the function the property names, without induction over logs.
  * `StreamsAreFaithful`: by `AllFromTerms`. Until a cancellation the record has
    the schedule of its `Created` event; afterwards its total is what that
    schedule had vested at the rewritten end.
  * `RetriesDoNothing`, `AnswersAreHonest`: by what each kind of step answers,
    publishes and moves. `AnswersMatchMoney` speaks of every step, in both
    directions: it is a payout that answer, event and books report alike
    (`PaysOut`), or one that none of them reports (`PaysNothing`).
* `StreamHostProofs`:
  * `HostTypeCorrect`: the stack holds one frame at most, what it keeps to roll
    back to is as well typed as what it works on, and the id `create_stream` has
    read is still the next one when it stores the record. `HostTyped`, the
    inductive form, adds that there is an id left and that the record is one.
  * `HonestTokensAreSolvent`, by `HostBacked`: of each conforming token there are
    running totals, as in `Backed`, for two states at once. The one worked on is
    short of, or ahead by, what is on its way; the one to roll back to is not.
    The second is what makes a failing token harmless, and it is why the
    invariant has to speak of `saved` at all. A nonconforming token moves only
    its own balances, which leaves the totals of the others alone.
* `StreamCommitProofs`, which joins the two sides:
  * `AlwaysUnderWay` is the invariant the rest needs. A waiting invocation is
    remembered as a frame only, so the invariant says what its start had
    established: read off `Committed`, which is what a rollback would restore, the
    checks of the entry point pass, the record is the one the code writes and the
    balances differ by what the token has moved, exactly if it conforms.
  * `AtomicWhenAllConform`: with it, the end of an invocation is the step of
    `StreamContract` its beginning checked for; the beginning, the token's moves and a
    rollback are stutters; a refusal is a refusal.
  * `FailedCallsStayOpen`: after a rollback the ledger is the one the checks were
    passed in, in the same ledger time.
  * `EventsExplainTheLedger`, by `CommittedExplained` (`AllExplained` of the
    ledger), for tokens of any kind.
  * `HonestStreamsKeepThePromise`: the refinement of `StreamEscrow` by the ledger,
    for the conforming tokens only. Besides `HostBacked` it needs `LedgerInOrder`,
    that records committed after any token's call are in order and that cancelled
    ones are over.
* `StreamStorageProofs`: types; `AttendedStreamsLive`, by the strengthening
  `Covered` (an entry idle for n ledgers has at least threshold - n left);
  `IdsAreFresh`, by `TypeOK`: the entries, alive or archived, are exactly those
  below the counter, so that the id `create_stream` reads is nobody's; and
  `TouchesBuy` and `CallsNeverShorten`, by what a step does to
  any one lifetime (`LifetimeStep`).

**Only model-checked.** `EveryStreamIsPaidOut` and `HonestStreamsArePaidOut`:
liveness under fairness needs ENABLED, which is beyond the prover. The safety
half of each argument is proved: a payout that is due is never refused
(`PayoutsAlwaysSucceed`, `HonestTokensAreSolvent`), what was earned stays earned
(`EntitlementIsSafe`), and no token can put a record out of order
(`AlwaysLedgerInOrder`). The `doc_*` runs refute statements and have no theorem.

## 5. Where documents and code disagree

Each has a run that refutes the statement, and an entry under `findings`.

* `total_amount` is not always positive, nor `start_time < end_time`
  (THREAT_MODEL.md, Invariants; one run refutes both): a cancellation before
  anything vested leaves zero, one at or before the start leaves an empty window. Neither does harm:
  `ProgressAt` handles the zero, and the weak inequalities are what the proofs
  need.
* An unauthorized call may return a code of the contract (`error.rs` says
  never): an unknown id is reported before authorization is asked for.
* A stream to oneself is not refused (README.md, error 13); README.md elsewhere
  and docs/DECISIONS.md say so.
* Not every view extends a stream's lifetime (THREAT_MODEL.md): `get_streams`,
  `cancel_preview` and `stream_exists` extend nothing.
* The counter does not live as long as the streams it numbers (`storage.rs`):
  only `create_stream` extends it, as THREAT_MODEL.md explains at length. In the
  run a stream is read just before it runs out; that extends the stream, and the
  instance is archived two ledgers later. `CounterOutlivesStreams` asks less than
  the documents say: that the counter lives while a stream is attended, not only
  while some entry happens to have lifetime left.

Three smaller slips have no run: THREAT_MODEL.md (Operational mitigation)
recommends a zero-value stream to keep the instance alive, which `create_stream`
refuses with `InvalidAmount`; README.md calls `i64::MAX` "the largest value
the arithmetic admits", one below the 2^63 it derives just before; and it describes
`locked` as the vested amount where it is the unvested one.

## 6. Not modelled

* *Clients and indexers.* `docs/INTEGRATOR_OPERATIONS.md` tells others how to
  retry and how to replay events, and no code here does either, so there is
  nothing a module could be held against. What such programs build on is stated
  of the contract: `RetriesAreRefused` (a repeated `withdraw` or `cancel` is
  refused in the same ledger; a repeated `withdraw_amount` pays again, within
  `ClaimsInOrder`), `FailedCallsCanBeRetried`, `PreviewForetellsCancel`, and
  `EventsExplainRecords`, the replay of a complete log.
* Numbers of error codes and their overlap with those of tokens; the batch
  limit of `get_streams`, a comparison that changes no state.
* Fees and resource limits of the host; encoding of records, events and
  interface.
* Tokens that change balances other than by the transfer they were asked for.

## 7. Plan

Done: the arithmetic, the contract, its abstract specification, lifetimes,
invocations in their steps with arbitrary tokens, and theorems for everything
but liveness. What could still be added:

1. The safety half of liveness as one statement: as long as a recipient has
   something to withdraw, `withdraw` by that recipient is accepted and lowers
   what is owed by all of it (a well-founded measure, short of ENABLED).
2. Solvency of the committed ledger with `Solvent` itself, for the conforming
   tokens among others.
