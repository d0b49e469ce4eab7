----------------------------- MODULE MCCorePool -----------------------------
(* The thread pool with few host threads, for TLC. *)
EXTENDS CorePool
TwoThreads == 1..2
ThreeThreads == 1..3
OneCore == {1}
OneOrTwoCores == {1, 2}
=============================================================================
