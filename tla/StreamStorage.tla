---------------------------- MODULE StreamStorage ----------------------------
(***************************************************************************)
(* The lifetimes of the contract's ledger entries: one persistent entry    *)
(* per stream and the instance entry that holds the id counter.  A closing *)
(* ledger takes one off every lifetime, and an entry that runs out is      *)
(* archived: it is neither readable nor absent until someone restores it.  *)
(* What the calls do to the records is in StreamContract; here a call is   *)
(* what it reads, writes and extends.  A call that is refused leaves no    *)
(* trace, since the host discards its extensions with its other effects.   *)
(***************************************************************************)
EXTENDS Integers

CONSTANTS
  CountMax,       \* u64::MAX
  EntryTtl,       \* ENTRY_TTL: the lifetime an entry is extended to
  BumpThreshold,  \* BUMP_THRESHOLD: an entry with more left is not extended
  MinTtls         \* what the network gives new and restored entries: its
                  \* minimum is a setting that may change

ASSUME TtlAssumption ==
  /\ CountMax \in Nat
  /\ EntryTtl \in Nat /\ BumpThreshold \in Nat /\ MinTtls \subseteq Nat
  /\ BumpThreshold < EntryTtl

VARIABLES
  ttl,       \* ttl[id]: ledgers left for the entry of stream id, or Archived
  instance,  \* the same for the instance entry
  count,     \* the id counter stored in the instance entry
  untouched, \* untouched[id]: ledgers since a call that touches the entry
  unseen     \* unseen[id]: ledgers since any call that read the entry

vars == <<ttl, instance, count, untouched, unseen>>

Archived == -1

Live(t) == t # Archived

(* untouched and unseen are only told apart up to here.                    *)
IdleCap == BumpThreshold + 1

-----------------------------------------------------------------------------
(* The host: extend_ttl(threshold, extend_to) is a no-op above the         *)
(* threshold and never shortens a lifetime.  Exactly at the threshold the  *)
(* code relies on neither answer.                                          *)
Extended(t) ==
  LET longer == IF t < EntryTtl THEN EntryTtl ELSE t
  IN  IF t < BumpThreshold THEN {longer}
      ELSE IF t > BumpThreshold THEN {t}
      ELSE {t, longer}

OneLedgerLess(t) == IF Live(t) THEN t - 1 ELSE Archived

OneLedgerMore(n) == IF n < IdleCap THEN n + 1 ELSE n

-----------------------------------------------------------------------------
Init ==
  /\ ttl = [id \in {} |-> 0]
  /\ instance \in MinTtls
  /\ count = 0
  /\ untouched = [id \in {} |-> 0]
  /\ unseen = [id \in {} |-> 0]

Put(f, id, v) == [i \in DOMAIN f \union {id} |-> IF i = id THEN v ELSE f[i]]

Seen(id) == unseen' = Put(unseen, id, 0)

Touched(id) == untouched' = Put(untouched, id, 0) /\ Seen(id)

(* A mistake: an archived counter is taken for that of a fresh contract.   *)
CountOrZero == IF Live(instance) THEN {count} ELSE {0}

(* storage::stream_count.  Reading an archived instance traps the call, so *)
(* the default for a fresh contract cannot be taken for it.                *)
ReadableCount == IF Live(instance) THEN {count} ELSE {}

(* Mistakes: the counter is not advanced; the new record is not extended.  *)
SameId(id) == id
GrantedBare == MinTtls

NextId(id) == id + 1

(* What set_stream leaves on a new entry: the network's minimum, extended. *)
Granted == UNION { Extended(m) : m \in MinTtls }

(* create_stream: read the counter, write the record, advance the counter, *)
(* extend the instance.                                                    *)
Create ==
  \E id \in ReadableCount :
    /\ id < CountMax
    /\ \E t \in Granted : ttl' = Put(ttl, id, t)
    /\ count' = NextId(id)
    /\ instance' \in Extended(instance)
    /\ Touched(id)

(* Mistakes: the record is read without extending it, as the previews do;  *)
(* its lifetime is set instead of extended.                                *)
GetWithoutExtending(id) == UNCHANGED ttl

GetResetting(id) == ttl' = [ttl EXCEPT ![id] = EntryTtl]

(* storage::get_stream: a found record is extended.                        *)
GetStream(id) == \E t \in Extended(ttl[id]) : ttl' = [ttl EXCEPT ![id] = t]

(* get_stream, withdrawable, vested, vested_at, locked, progress, status.  *)
TouchingView(id) ==
  /\ Live(ttl[id])
  /\ GetStream(id)
  /\ Touched(id)
  /\ UNCHANGED <<instance, count>>

(* withdraw, withdraw_amount and cancel load the record with get_stream    *)
(* and write it back with set_stream, which extends it once more.          *)
Mutate(id) ==
  /\ Live(ttl[id])
  /\ \E t \in Extended(ttl[id]) : \E u \in Extended(t) : ttl' = [ttl EXCEPT ![id] = u]
  /\ Touched(id)
  /\ UNCHANGED <<instance, count>>

(* get_streams and cancel_preview read without extending, stream_exists    *)
(* asks only whether the entry is there.                                   *)
ReadOnlyView(id) ==
  /\ Live(ttl[id])
  /\ Seen(id)
  /\ UNCHANGED <<ttl, instance, count, untouched>>

-----------------------------------------------------------------------------
CloseLedger ==
  /\ ttl' = [id \in DOMAIN ttl |-> OneLedgerLess(ttl[id])]
  /\ instance' = OneLedgerLess(instance)
  /\ untouched' = [id \in DOMAIN untouched |-> OneLedgerMore(untouched[id])]
  /\ unseen' = [id \in DOMAIN unseen |-> OneLedgerMore(unseen[id])]
  /\ UNCHANGED count

(* A restore transaction, outside of the contract, brings an entry back    *)
(* with the network's minimum.                                             *)
Restore(id) ==
  /\ ~Live(ttl[id])
  /\ \E m \in MinTtls : ttl' = [ttl EXCEPT ![id] = m]
  /\ UNCHANGED <<instance, count, untouched, unseen>>

RestoreInstance ==
  /\ ~Live(instance)
  /\ instance' \in MinTtls
  /\ UNCHANGED <<ttl, count, untouched, unseen>>

Next ==
  \/ Create
  \/ \E id \in DOMAIN ttl : TouchingView(id)
  \/ \E id \in DOMAIN ttl : Mutate(id)
  \/ \E id \in DOMAIN ttl : ReadOnlyView(id)
  \/ CloseLedger
  \/ \E id \in DOMAIN ttl : Restore(id)
  \/ RestoreInstance

Spec == Init /\ [][Next]_vars

-----------------------------------------------------------------------------
TypeOK ==
  /\ count \in 0 .. CountMax
  /\ ttl \in [0 .. count - 1 -> Nat \union {Archived}]
  /\ untouched \in [0 .. count - 1 -> 0 .. IdleCap]
  /\ unseen \in [0 .. count - 1 -> 0 .. IdleCap]
  /\ instance \in Nat \union {Archived}

(* storage.rs, Lifetimes: a touching call at least once per BUMP_THRESHOLD *)
(* ledgers keeps a stream from being archived, although most of those      *)
(* calls extend nothing.                                                   *)
AttendedStaysLive ==
  \A id \in DOMAIN ttl : untouched[id] <= BumpThreshold => Live(ttl[id])

(* A touching call leaves at least BUMP_THRESHOLD ledgers on the clock.    *)
TouchBuysTheThreshold ==
  [][ \A id \in DOMAIN ttl :
        untouched'[id] = 0 /\ untouched[id] > 0 => ttl'[id] >= BumpThreshold ]_vars

(* An id is never given out twice, not even by a contract whose counter    *)
(* was archived and restored in between: every create_stream writes an     *)
(* entry that was not there, neither alive nor archived, and leaves those  *)
(* that were as they are; and no other step adds or drops an entry.        *)
IdsSurviveArchival ==
  [][ /\ Create => \E id \in DOMAIN ttl' :
                     /\ id \notin DOMAIN ttl
                     /\ DOMAIN ttl' = DOMAIN ttl \union {id}
                     /\ \A other \in DOMAIN ttl : ttl'[other] = ttl[other]
      /\ ~Create => DOMAIN ttl' = DOMAIN ttl ]_vars

(* Nobody can shorten a lifetime by calling the contract, neither that of  *)
(* a stream nor that of the instance: only closing ledgers take from it.   *)
OnlyTimeShortens ==
  [][ (instance' < instance \/ \E id \in DOMAIN ttl : ttl'[id] < ttl[id]) => CloseLedger ]_vars

-----------------------------------------------------------------------------
(* What the documents say and the code does not do; each is refuted.       *)

(* THREAT_MODEL.md: any view call keeps a stream alive.                    *)
SeenStaysLive ==
  \A id \in DOMAIN ttl : unseen[id] <= BumpThreshold => Live(ttl[id])

(* storage.rs, DataKey::StreamCount and extend_instance_ttl: the counter   *)
(* is kept alive for as long as the streams it numbers; so at least while  *)
(* one of them is attended, which keeps that stream alive                  *)
(* (AttendedStaysLive).                                                    *)
CounterOutlivesStreams ==
  (\E id \in DOMAIN ttl : untouched[id] <= BumpThreshold) => Live(instance)
=============================================================================
