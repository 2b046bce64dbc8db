----------------------------- MODULE MCEnrollment -----------------------------
(* TLC instance of Enrollment.                                             *)
EXTENDS Enrollment, TLC

CONSTANTS e1, e2, p1, p2, k1, k2

MCSymmetry == Permutations({p1, p2}) \cup Permutations({e1, e2})
                \cup Permutations({k1, k2})
=============================================================================
