------------------------------ MODULE MCRunWorker ------------------------------
(* Model checking of RunWorker: workers are interchangeable, runs are not      *)
(* (claimNext takes the oldest).                                               *)
EXTENDS RunWorker, TLC

Symmetry == Permutations(Worker)
===============================================================================
