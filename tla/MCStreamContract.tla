--------------------------- MODULE MCStreamContract ---------------------------
(***************************************************************************)
(* Instances of StreamContract for TLC: the argument records offered to    *)
(* create_stream in each run.  The other constants are given in the cfg    *)
(* files.                                                                  *)
(***************************************************************************)
EXTENDS StreamProperties

CONSTANTS alice, bob, gold, silver

Request(sender, recipient, token, total, start, cliff, end) ==
  [sender |-> sender, recipient |-> recipient, token |-> token, total_amount |-> total,
   start_time |-> start, end_time |-> end, cliff_time |-> cliff]

(* One request refused by each check, in the order of the checks, and one  *)
(* that fails several of them at once.                                     *)
RefusedRequests ==
  { Request(This, bob, gold, 1, 0, 0, 2), Request(alice, This, gold, 1, 0, 0, 2),
    Request(alice, bob, This, 1, 0, 0, 2), Request(alice, bob, gold, 0, 0, 0, 2),
    Request(alice, bob, gold, MaxAmount + 1, 0, 0, 2), Request(alice, bob, gold, 1, 2, 2, 2),
    Request(alice, bob, gold, 1, 1, 0, 2), Request(alice, bob, gold, 1, 0, 3, 2),
    Request(alice, This, gold, -1, 3, 1, 2) }

(* One stream: every schedule over the ledger times, at two amounts.       *)
SingleRequests ==
  RefusedRequests \union
  { Request(alice, bob, gold, total, start, cliff, end) :
      total \in {3, 4}, <<start, cliff, end>> \in
        { s \in Times \X Times \X Times : s[1] < s[3] /\ s[1] <= s[2] /\ s[2] <= s[3] } }

(* Several streams: both directions in one token, one of them with a       *)
(* cliff, and a stream to oneself in another token.                        *)
PairRequests ==
  { Request(alice, bob, gold, 3, 0, 2, 3), Request(bob, alice, gold, 2, 1, 1, 3),
    Request(alice, alice, silver, 2, 0, 0, 3) }

(* Two streams against each other in one token.                            *)
PromiseRequests ==
  { Request(alice, bob, gold, 3, 0, 2, 3), Request(bob, alice, gold, 2, 1, 1, 3) }
=============================================================================
