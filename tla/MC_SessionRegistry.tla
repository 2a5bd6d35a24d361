------------------------ MODULE MC_SessionRegistry ------------------------
(* SessionRegistry for TLC: request threads are interchangeable, and so    *)
(* are session ids.                                                        *)
EXTENDS SessionRegistry, TLC

Interchangeable == Permutations(Threads) \cup Permutations(Ids)
=============================================================================
