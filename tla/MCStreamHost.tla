----------------------------- MODULE MCStreamHost -----------------------------
(***************************************************************************)
(* Instances of StreamHost for TLC.                                        *)
(***************************************************************************)
EXTENDS MCStreamContract, StreamHost

(* A stream in each token.                                                 *)
HostRequests == { Request(alice, bob, gold, 2, 0, 1, 2), Request(alice, bob, silver, 2, 0, 0, 2) }

(* Two streams against each other in one token, and one to be refused.     *)
AtomicRequests == PromiseRequests \union { Request(alice, bob, gold, 2, 2, 2, 1) }
=============================================================================
