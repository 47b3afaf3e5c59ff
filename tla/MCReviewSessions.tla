-------------------------- MODULE MCReviewSessions --------------------------
(* A small instance of ReviewSessions for TLC.                             *)
EXTENDS ReviewSessions, TLC

CONSTANTS ann, bob, s1, s2, r1, r2, reviewer, review_admin

Symmetric == Permutations(Actors) \cup Permutations(Sessions) \cup Permutations(Requests)
=============================================================================
