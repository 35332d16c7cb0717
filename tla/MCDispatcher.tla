----------------------------- MODULE MCDispatcher -----------------------------
(* Small instances of Dispatcher for TLC.                                      *)
EXTENDS Dispatcher, TLC

CONSTANTS m1, m2, w1, w2

(* Replicas are interchangeable; so are messages of the same class.            *)
WorkerSymmetry == Permutations(Workers)
===============================================================================
