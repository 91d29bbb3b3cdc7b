--------------------------- MODULE MCPhantomConnect ---------------------------
(* Symmetry for the safety runs of PhantomConnect: sessions, callbacks and    *)
(* polls are interchangeable.                                                 *)
EXTENDS PhantomConnect, TLC

Interchangeable ==
    Permutations(SessionIds) \cup Permutations(Callbacks) \cup Permutations(Polls)
=============================================================================
