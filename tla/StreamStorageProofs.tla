------------------------- MODULE StreamStorageProofs -------------------------
(***************************************************************************)
(* Lifetimes of ledger entries, for any ENTRY_TTL above BUMP_THRESHOLD and *)
(* any minimum the network gives.                                          *)
(***************************************************************************)
EXTENDS StreamStorage, TLAPS

USE TtlAssumption

(* extend_ttl leaves an entry with at least the threshold, and with no     *)
(* less than it had.                                                       *)
LEMMA ExtendedBounds ==
  ASSUME NEW t \in Nat, NEW u \in Extended(t)
  PROVE  u \in Nat /\ u >= BumpThreshold /\ u >= t
  BY DEF Extended

(* The host always has an answer to an extension.                          *)
LEMMA ExtendedExists ==
  ASSUME NEW t \in Nat
  PROVE  Extended(t) # {}
  BY DEF Extended

(* The fresh contract has its types.                                       *)
LEMMA InitType == Init => TypeOK
  BY DEF Init, TypeOK

(* A live entry has a natural lifetime.                                    *)
LEMMA LiveIsNat ==
  ASSUME TypeOK
  PROVE  /\ \A id \in DOMAIN ttl : Live(ttl[id]) <=> ttl[id] \in Nat
         /\ \A id \in DOMAIN ttl : ~Live(ttl[id]) <=> ttl[id] = Archived
         /\ Live(instance) <=> instance \in Nat
  BY DEF TypeOK, Live, Archived

(* What a call does to the lifetime of the entry it touches: afterwards it *)
(* is at least the threshold and no shorter, and the others are unchanged. *)
Touches(id) ==
  /\ DOMAIN ttl' = DOMAIN ttl \union {id}
  /\ ttl'[id] \in Nat /\ ttl'[id] >= BumpThreshold
  /\ id \in DOMAIN ttl => Live(ttl[id]) /\ ttl'[id] >= ttl[id]
  /\ \A other \in DOMAIN ttl \ {id} : ttl'[other] = ttl[other]
  /\ DOMAIN untouched' = DOMAIN untouched \union {id}
  /\ untouched'[id] = 0
  /\ \A other \in DOMAIN untouched \ {id} : untouched'[other] = untouched[other]
  /\ unseen' = Put(unseen, id, 0)

(* create_stream touches the new entry and no other.                       *)
LEMMA CreateTouches ==
  ASSUME TypeOK, Create
  PROVE  /\ Live(instance) /\ count < CountMax
         /\ count' = count + 1 /\ instance' \in Nat
         /\ count \notin DOMAIN ttl
         /\ Touches(count)
         /\ ttl' \in [0 .. count -> Nat \union {Archived}]
         /\ untouched' = Put(untouched, count, 0)
<1>1. Live(instance) /\ count < CountMax /\ count' = count + 1 /\ Touched(count)
      /\ instance' \in Extended(instance) /\ \E m \in MinTtls : \E t \in Extended(m) : ttl' = Put(ttl, count, t)
  BY DEF Create, ReadableCount, NextId, Granted
<1>2. PICK m \in MinTtls : \E t \in Extended(m) : ttl' = Put(ttl, count, t)
  BY <1>1
<1>3. PICK t \in Extended(m) : ttl' = Put(ttl, count, t)
  BY <1>2
<1>4. t \in Nat /\ t >= BumpThreshold
  BY ExtendedBounds
<1>5. instance' \in Nat
  BY <1>1, LiveIsNat, ExtendedBounds
<1>6. count \in Nat /\ DOMAIN ttl = 0 .. count - 1 /\ DOMAIN untouched = 0 .. count - 1
      /\ count \notin DOMAIN ttl
  BY DEF TypeOK
<1>7. ttl' \in [0 .. count -> Nat \union {Archived}]
  BY <1>3, <1>4, <1>6 DEF TypeOK, Put
<1>8. Touches(count)
  BY <1>1, <1>3, <1>4, <1>6 DEF Touches, Touched, Seen, Put
<1> QED
  BY <1>1, <1>5, <1>6, <1>7, <1>8 DEF Touched

(* A touching call leaves its entry the threshold and the rest alone.      *)
LEMMA CallTouches ==
  ASSUME TypeOK, NEW id \in DOMAIN ttl, TouchingView(id) \/ Mutate(id)
  PROVE  /\ Touches(id)
         /\ UNCHANGED <<instance, count>>
         /\ ttl' \in [0 .. count - 1 -> Nat \union {Archived}]
         /\ untouched' = Put(untouched, id, 0)
<1>1. Live(ttl[id]) /\ ttl[id] \in Nat /\ Touched(id) /\ UNCHANGED <<instance, count>>
  BY LiveIsNat DEF TouchingView, Mutate
<1>2. PICK u \in Nat : ttl' = [ttl EXCEPT ![id] = u] /\ u >= BumpThreshold /\ u >= ttl[id]
  <2>1. CASE TouchingView(id)
    BY <1>1, <2>1, ExtendedBounds DEF TouchingView, GetStream
  <2>2. CASE Mutate(id)
    <3>1. PICK t \in Extended(ttl[id]) : \E u \in Extended(t) : ttl' = [ttl EXCEPT ![id] = u]
      BY <2>2 DEF Mutate
    <3>2. PICK u \in Extended(t) : ttl' = [ttl EXCEPT ![id] = u]
      BY <3>1
    <3>3. t \in Nat /\ t >= ttl[id]
      BY <1>1, ExtendedBounds
    <3>4. u \in Nat /\ u >= BumpThreshold /\ u >= t
      BY <3>3, ExtendedBounds
    <3>5. u >= ttl[id]
      BY <1>1, <3>3, <3>4
    <3> QED
      BY <3>2, <3>4, <3>5
  <2> QED
    BY <2>1, <2>2
<1>3. DOMAIN ttl = 0 .. count - 1 /\ DOMAIN untouched = 0 .. count - 1
  BY DEF TypeOK
<1>4. ttl' \in [0 .. count - 1 -> Nat \union {Archived}]
  BY <1>2 DEF TypeOK
<1>5. Touches(id)
  BY <1>1, <1>2, <1>3 DEF Touches, Touched, Seen, Put
<1> QED
  BY <1>1, <1>4, <1>5 DEF Touched

(* A closing ledger takes one off every live entry.                        *)
LEMMA ClosedLedger ==
  ASSUME TypeOK, CloseLedger
  PROVE  /\ DOMAIN ttl' = DOMAIN ttl /\ count' = count
         /\ \A id \in DOMAIN ttl : ttl'[id] = OneLedgerLess(ttl[id])
         /\ \A id \in DOMAIN ttl : untouched'[id] = OneLedgerMore(untouched[id])
         /\ TypeOK'
<1>1. \A t \in Nat \union {Archived} : OneLedgerLess(t) \in Nat \union {Archived}
  BY DEF OneLedgerLess, Live, Archived
<1>2. \A n \in 0 .. IdleCap : OneLedgerMore(n) \in 0 .. IdleCap
  BY DEF OneLedgerMore, IdleCap
<1>3. /\ ttl' = [id \in 0 .. count - 1 |-> OneLedgerLess(ttl[id])]
      /\ untouched' = [id \in 0 .. count - 1 |-> OneLedgerMore(untouched[id])]
      /\ unseen' = [id \in 0 .. count - 1 |-> OneLedgerMore(unseen[id])]
      /\ instance' = OneLedgerLess(instance) /\ count' = count
  BY DEF CloseLedger, TypeOK
<1> QED
  BY <1>1, <1>2, <1>3 DEF TypeOK

(* Counting from zero keeps the shape of the idle counters.                *)
LEMMA PutOld ==
  ASSUME NEW n \in Nat, NEW S, NEW f \in [0 .. n - 1 -> S], NEW id \in 0 .. n - 1, NEW v \in S
  PROVE  Put(f, id, v) \in [0 .. n - 1 -> S]
  BY DEF Put

(* Recording the next id extends the ids by one.                           *)
LEMMA PutNew ==
  ASSUME NEW n \in Nat, NEW S, NEW f \in [0 .. n - 1 -> S], NEW v \in S
  PROVE  Put(f, n, v) \in [0 .. n -> S]
<1>1. DOMAIN f \union {n} = 0 .. n
  OBVIOUS
<1> QED
  BY <1>1 DEF Put

(* Every step keeps the types.                                             *)
LEMMA NextType ==
  ASSUME TypeOK, [Next]_vars
  PROVE  TypeOK'
<1>1. CASE Create
  <2>1. count \in Nat /\ count' \in 0 .. CountMax
    BY <1>1, CreateTouches DEF TypeOK
  <2>2. untouched' \in [0 .. count' - 1 -> 0 .. IdleCap]
        /\ unseen' \in [0 .. count' - 1 -> 0 .. IdleCap]
    <3>1. 0 \in 0 .. IdleCap
      BY DEF IdleCap
    <3>2. /\ Put(untouched, count, 0) \in [0 .. count -> 0 .. IdleCap]
          /\ Put(unseen, count, 0) \in [0 .. count -> 0 .. IdleCap]
      BY <2>1, <3>1, PutNew DEF TypeOK
    <3>3. count' - 1 = count
      BY <1>1, <2>1, CreateTouches
    <3> QED
      BY <1>1, <3>2, <3>3, CreateTouches DEF Touches
  <2>3. ttl' \in [0 .. count' - 1 -> Nat \union {Archived}]
    BY <1>1, <2>1, CreateTouches
  <2> QED
    BY <1>1, <2>1, <2>2, <2>3, CreateTouches DEF TypeOK
<1>2. ASSUME NEW id \in DOMAIN ttl, TouchingView(id) \/ Mutate(id)
      PROVE  TypeOK'
  <2>1. id \in 0 .. count - 1 /\ count \in Nat /\ 0 \in 0 .. IdleCap
    BY DEF TypeOK, IdleCap
  <2>2. Put(untouched, id, 0) \in [0 .. count - 1 -> 0 .. IdleCap]
        /\ Put(unseen, id, 0) \in [0 .. count - 1 -> 0 .. IdleCap]
    BY <2>1, PutOld DEF TypeOK
  <2> QED
    BY <1>2, <2>2, CallTouches DEF TypeOK, Touches
<1>3. ASSUME NEW id \in DOMAIN ttl, ReadOnlyView(id)
      PROVE  TypeOK'
  <2>1. id \in 0 .. count - 1 /\ count \in Nat /\ 0 \in 0 .. IdleCap
    BY DEF TypeOK, IdleCap
  <2>2. Put(unseen, id, 0) \in [0 .. count - 1 -> 0 .. IdleCap]
    BY <2>1, PutOld DEF TypeOK
  <2> QED
    BY <1>3, <2>2 DEF ReadOnlyView, Seen, TypeOK
<1>4. CASE CloseLedger
  BY <1>4, ClosedLedger
<1>5. ASSUME NEW id \in DOMAIN ttl, Restore(id)
      PROVE  TypeOK'
  BY <1>5 DEF Restore, TypeOK
<1>6. CASE RestoreInstance
  BY <1>6 DEF RestoreInstance, TypeOK
<1>7. CASE UNCHANGED vars
  BY <1>7 DEF vars, TypeOK
<1> QED
  BY <1>1, <1>2, <1>3, <1>4, <1>5, <1>6, <1>7 DEF Next

(* The entries are exactly those of the ids given out, and each is live    *)
(* with a natural lifetime or archived.                                    *)
THEOREM TypeCorrect == Spec => []TypeOK
  BY InitType, NextType, PTL DEF Spec
-----------------------------------------------------------------------------
(* Attended streams stay live.  The property is not inductive: what a step *)
(* preserves is that a touch buys BUMP_THRESHOLD ledgers and every ledger  *)
(* since has used one of them, even when the touch extended nothing.       *)

Covered ==
  \A id \in DOMAIN ttl :
    untouched[id] <= BumpThreshold => ttl[id] >= BumpThreshold - untouched[id]

(* An entry with lifetime for its whole idle allowance is live.            *)
LEMMA CoveredIsAttended ==
  ASSUME TypeOK, Covered
  PROVE  AttendedStaysLive
<1> SUFFICES ASSUME NEW id \in DOMAIN ttl, untouched[id] <= BumpThreshold
             PROVE  Live(ttl[id])
  BY DEF AttendedStaysLive
<1>1. untouched[id] \in Nat /\ ttl[id] \in Nat \union {Archived}
  BY DEF TypeOK
<1>2. ttl[id] >= BumpThreshold - untouched[id]
  BY DEF Covered
<1> QED
  BY <1>1, <1>2 DEF Live, Archived

(* A touch gives the entry lifetime for its whole idle allowance.          *)
LEMMA TouchCovers ==
  ASSUME TypeOK, Covered, NEW id, Touches(id)
  PROVE  Covered'
<1> SUFFICES ASSUME NEW i \in DOMAIN ttl', untouched'[i] <= BumpThreshold
             PROVE  ttl'[i] >= BumpThreshold - untouched'[i]
  BY DEF Covered
<1>1. CASE i = id
  BY <1>1 DEF Touches
<1>2. CASE i # id
  <2>1. i \in DOMAIN ttl /\ i \in DOMAIN untouched
    BY <1>2 DEF Touches, TypeOK
  <2>2. ttl'[i] = ttl[i] /\ untouched'[i] = untouched[i]
    BY <1>2, <2>1 DEF Touches
  <2> QED
    BY <2>1, <2>2 DEF Covered
<1> QED
  BY <1>1, <1>2

(* Every step keeps every attended entry covered.                          *)
LEMMA NextCovered ==
  ASSUME TypeOK, Covered, [Next]_vars
  PROVE  Covered'
<1>1. CASE Create
  BY <1>1, CreateTouches, TouchCovers
<1>2. ASSUME NEW id \in DOMAIN ttl, TouchingView(id) \/ Mutate(id)
      PROVE  Covered'
  BY <1>2, CallTouches, TouchCovers
<1>3. CASE CloseLedger
  <2> SUFFICES ASSUME NEW id \in DOMAIN ttl, untouched'[id] <= BumpThreshold
               PROVE  ttl'[id] >= BumpThreshold - untouched'[id]
    BY <1>3, ClosedLedger DEF Covered
  <2>1. untouched[id] \in 0 .. IdleCap /\ ttl[id] \in Nat \union {Archived}
    BY DEF TypeOK
  <2>2. ttl'[id] = OneLedgerLess(ttl[id]) /\ untouched'[id] = OneLedgerMore(untouched[id])
    BY <1>3, ClosedLedger
  <2>3. untouched'[id] = untouched[id] + 1 /\ untouched[id] < BumpThreshold
    BY <2>1, <2>2 DEF OneLedgerMore, IdleCap
  <2>4. ttl[id] >= BumpThreshold - untouched[id]
    BY <2>1, <2>3 DEF Covered
  <2>5. ttl'[id] = ttl[id] - 1 /\ ttl[id] \in Nat
    BY <2>1, <2>2, <2>3, <2>4 DEF OneLedgerLess, Live, Archived
  <2> QED
    BY <2>1, <2>3, <2>4, <2>5
<1>4. ASSUME NEW id \in DOMAIN ttl, Restore(id)
      PROVE  Covered'
  <2>1. untouched[id] \in Nat /\ untouched[id] > BumpThreshold
    BY <1>4, CoveredIsAttended DEF Restore, AttendedStaysLive, TypeOK
  <2>2. DOMAIN ttl' = DOMAIN ttl /\ untouched' = untouched
        /\ \A i \in DOMAIN ttl \ {id} : ttl'[i] = ttl[i]
    BY <1>4 DEF Restore
  <2> QED
    BY <2>1, <2>2 DEF Covered
<1>5. ASSUME \/ \E id \in DOMAIN ttl : ReadOnlyView(id)
             \/ RestoreInstance
             \/ UNCHANGED vars
      PROVE  Covered'
  BY <1>5 DEF ReadOnlyView, RestoreInstance, vars, Covered
<1> QED
  BY <1>1, <1>2, <1>3, <1>4, <1>5 DEF Next

(* A stream that some touching call reaches at least once in every         *)
(* BUMP_THRESHOLD ledgers is never archived, whatever ENTRY_TTL is and     *)
(* although the calls made while more than the threshold is left extend    *)
(* nothing.                                                                *)
THEOREM AttendedStreamsLive == Spec => []AttendedStaysLive
<1>1. Init => Covered
  BY DEF Init, Covered
<1>2. Spec => []Covered
  BY <1>1, NextCovered, TypeCorrect, PTL DEF Spec
<1> QED
  BY <1>2, CoveredIsAttended, TypeCorrect, PTL

-----------------------------------------------------------------------------
(* A new stream gets an id nobody has and leaves the other entries alone.  *)
LEMMA CreateTakesFresh ==
  ASSUME TypeOK, Create
  PROVE  \E id \in DOMAIN ttl' :
           /\ id \notin DOMAIN ttl
           /\ DOMAIN ttl' = DOMAIN ttl \union {id}
           /\ \A other \in DOMAIN ttl : ttl'[other] = ttl[other]
<1>1. count \notin DOMAIN ttl /\ Touches(count)
  BY CreateTouches
<1>2. count \in DOMAIN ttl' /\ DOMAIN ttl' = DOMAIN ttl \union {count}
      /\ \A other \in DOMAIN ttl : ttl'[other] = ttl[other]
  BY <1>1 DEF Touches
<1> QED
  BY <1>1, <1>2

(* Nothing else adds an entry, and nothing drops one.                      *)
LEMMA OthersAddNothing ==
  ASSUME TypeOK, [Next]_vars, ~Create
  PROVE  DOMAIN ttl' = DOMAIN ttl
<1>1. ASSUME NEW id \in DOMAIN ttl, TouchingView(id) \/ Mutate(id)
      PROVE  DOMAIN ttl' = DOMAIN ttl
  BY <1>1, CallTouches DEF Touches
<1>2. CASE CloseLedger
  BY <1>2, ClosedLedger
<1>3. ASSUME NEW id \in DOMAIN ttl, ReadOnlyView(id) \/ Restore(id)
      PROVE  DOMAIN ttl' = DOMAIN ttl
  BY <1>3 DEF ReadOnlyView, Restore
<1>4. CASE RestoreInstance \/ UNCHANGED vars
  BY <1>4 DEF RestoreInstance, vars
<1> QED
  BY <1>1, <1>2, <1>3, <1>4 DEF Next

(* No id is given out twice, also when the instance that holds the counter *)
(* was archived and restored in between: an archived counter is not read   *)
(* as the default of a fresh contract, and the ids in use are exactly      *)
(* those below the counter, alive or not.                                  *)
THEOREM IdsAreFresh == Spec => IdsSurviveArchival
  BY CreateTakesFresh, OthersAddNothing, TypeCorrect, PTL DEF Spec, IdsSurviveArchival
-----------------------------------------------------------------------------
(* What every step does to the lifetimes and idle counters there were.     *)
LEMMA LifetimeStep ==
  ASSUME TypeOK, [Next]_vars, NEW id \in DOMAIN ttl
  PROVE  /\ untouched'[id] = 0 /\ untouched[id] > 0 => ttl'[id] >= BumpThreshold
         /\ ttl'[id] < ttl[id] => CloseLedger
<1>1. /\ id \in DOMAIN untouched /\ untouched[id] \in Nat
      /\ ttl[id] \in Int /\ ttl[id] >= -1
  BY DEF TypeOK, Archived
<1>2. ASSUME NEW i, Touches(i)
      PROVE  /\ untouched'[id] = 0 /\ untouched[id] > 0 => ttl'[id] >= BumpThreshold
             /\ ~(ttl'[id] < ttl[id])
  <2>1. CASE id = i
    BY <1>1, <1>2, <2>1 DEF Touches
  <2>2. CASE id # i
    BY <1>1, <1>2, <2>2 DEF Touches
  <2> QED
    BY <2>1, <2>2
<1>3. CASE Create
  BY <1>2, <1>3, CreateTouches
<1>4. CASE \E i \in DOMAIN ttl : TouchingView(i) \/ Mutate(i)
  BY <1>2, <1>4, CallTouches
<1>5. CASE CloseLedger
  <2>1. untouched'[id] = OneLedgerMore(untouched[id])
    BY <1>5, ClosedLedger
  <2>2. untouched'[id] > 0
    BY <1>1, <2>1 DEF OneLedgerMore, IdleCap
  <2> QED
    BY <1>5, <2>2
<1>6. CASE \E i \in DOMAIN ttl : Restore(i)
  <2>1. PICK i \in DOMAIN ttl : Restore(i)
    BY <1>6
  <2>2. PICK m \in MinTtls : ttl' = [ttl EXCEPT ![i] = m]
    BY <2>1 DEF Restore
  <2>3. ~(ttl'[id] < ttl[id])
    BY <1>1, <2>1, <2>2 DEF Restore, Live, Archived
  <2> QED
    BY <1>1, <2>1, <2>3 DEF Restore
<1>7. CASE (\E i \in DOMAIN ttl : ReadOnlyView(i)) \/ RestoreInstance \/ UNCHANGED vars
  BY <1>1, <1>7 DEF ReadOnlyView, RestoreInstance, vars
<1> QED
  BY <1>3, <1>4, <1>5, <1>6, <1>7 DEF Next

(* A call that touches a stream after a while leaves it at least           *)
(* BUMP_THRESHOLD ledgers.                                                 *)
THEOREM TouchesBuy == Spec => TouchBuysTheThreshold
<1>1. TypeOK /\ [Next]_vars
        => \A id \in DOMAIN ttl :
             untouched'[id] = 0 /\ untouched[id] > 0 => ttl'[id] >= BumpThreshold
  BY LifetimeStep
<1> QED
  BY <1>1, TypeCorrect, PTL DEF Spec, TouchBuysTheThreshold

(* Only a closing ledger takes from the instance.                          *)
LEMMA InstanceStep ==
  ASSUME TypeOK, [Next]_vars, instance' < instance
  PROVE  CloseLedger
<1>1. instance \in Int /\ instance >= -1
  BY DEF TypeOK, Archived
<1>2. CASE Create
  <2>1. instance \in Nat /\ instance' \in Extended(instance)
    BY <1>2, CreateTouches, LiveIsNat DEF Create
  <2> QED
    BY <1>1, <2>1, ExtendedBounds
<1>3. ASSUME NEW id \in DOMAIN ttl, TouchingView(id) \/ Mutate(id) \/ ReadOnlyView(id) \/ Restore(id)
      PROVE  FALSE
  BY <1>1, <1>3 DEF TouchingView, Mutate, ReadOnlyView, Restore
<1>4. CASE RestoreInstance
  <2>1. instance = -1 /\ instance' \in Nat
    BY <1>4, LiveIsNat DEF RestoreInstance, Live, Archived
  <2> QED
    BY <2>1
<1>5. CASE UNCHANGED vars
  BY <1>1, <1>5 DEF vars
<1> QED
  BY <1>2, <1>3, <1>4, <1>5 DEF Next

(* No call shortens any lifetime, that of the instance included, for any   *)
(* network minimum: only a closing ledger does.                            *)
THEOREM CallsNeverShorten == Spec => OnlyTimeShortens
<1>1. TypeOK /\ [Next]_vars
        => ((instance' < instance \/ \E id \in DOMAIN ttl : ttl'[id] < ttl[id]) => CloseLedger)
  BY InstanceStep, LifetimeStep
<1> QED
  BY <1>1, TypeCorrect, PTL DEF Spec, OnlyTimeShortens
=============================================================================
