----------------------------- MODULE StreamEscrow -----------------------------
(***************************************************************************)
(* What the stream contract promises, with no schedule, no clock and no    *)
(* token contract: a payer puts a cap in a common pot for one payee, the   *)
(* payee's earnings only grow and stay within the cap, the payee is paid   *)
(* out of what was earned, and the payer may close a promise once, taking  *)
(* back exactly what was not earned yet.                                   *)
(***************************************************************************)
EXTENDS Integers

CONSTANTS
  Currencies,  \* what promises are made in
  Names,       \* the names promises may have
  Caps         \* the positive amounts a promise may be opened with

VARIABLES
  promise,  \* promise[name]: the open and closed promises
  pot       \* pot[currency]: what is held for all of them together

vars == <<promise, pot>>

PromiseType == [currency : Currencies, cap : Nat, earned : Nat, paid : Nat, open : BOOLEAN]

Init ==
  /\ promise = << >>
  /\ pot = [c \in Currencies |-> 0]

With(name, p) ==
  promise' = [n \in DOMAIN promise \union {name} |-> IF n = name THEN p ELSE promise[n]]

Open(name, currency, cap, earned) ==
  /\ name \notin DOMAIN promise
  /\ earned < cap
  /\ With(name, [currency |-> currency, cap |-> cap, earned |-> earned, paid |-> 0, open |-> TRUE])
  /\ pot' = [pot EXCEPT ![currency] = @ + cap]

(* Time passes: any of the open promises earn more, none beyond its cap.   *)
Earn ==
  /\ DOMAIN promise' = DOMAIN promise
  /\ \A n \in DOMAIN promise :
       /\ promise'[n] = [promise[n] EXCEPT !.earned = promise'[n].earned]
       /\ promise[n].earned <= promise'[n].earned
       /\ promise'[n].earned <= promise[n].cap
       /\ ~promise[n].open => promise'[n].earned = promise[n].earned
  /\ UNCHANGED pot

Pay(name, amount) ==
  /\ name \in DOMAIN promise
  /\ 0 < amount /\ amount <= promise[name].earned - promise[name].paid
  /\ With(name, [promise[name] EXCEPT !.paid = @ + amount])
  /\ pot' = [pot EXCEPT ![promise[name].currency] = @ - amount]

Close(name) ==
  /\ name \in DOMAIN promise
  /\ promise[name].open
  /\ With(name, [promise[name] EXCEPT !.cap = promise[name].earned, !.open = FALSE])
  /\ pot' = [pot EXCEPT ![promise[name].currency] = @ - (promise[name].cap - promise[name].earned)]

Next ==
  \/ \E name \in Names \ DOMAIN promise, c \in Currencies, cap \in Caps :
       \E earned \in 0 .. cap - 1 : Open(name, c, cap, earned)
  \/ Earn
  \/ \E name \in DOMAIN promise :
       \E amount \in 1 .. promise[name].earned - promise[name].paid : Pay(name, amount)
  \/ \E name \in DOMAIN promise : Close(name)

Spec == Init /\ [][Next]_vars
=============================================================================
