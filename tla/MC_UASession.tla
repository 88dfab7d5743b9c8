----------------------------- MODULE MC_UASession -----------------------------
(* Small instances of UASession: which worker each request reaches,
   and the symmetry of the requests when they all reach the same one. *)
EXTENDS UASession, TLC

CONSTANTS c1, c2, c3, s1, s2

OneWorker == c1 :> s1 @@ c2 :> s1 @@ c3 :> s1

Symmetry == Permutations({c1, c2, c3})

TwoOnOne == c1 :> s1 @@ c2 :> s1

TwoWorkers == c1 :> s1 @@ c2 :> s1 @@ c3 :> s2
=============================================================================
