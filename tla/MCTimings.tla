----------------------------- MODULE MCTimings -----------------------------
(***************************************************************************)
(* A small instance of Timings, in which the margin, the limit and the     *)
(* allowances suffice for what they have to pay for.                       *)
(***************************************************************************)
EXTENDS Timings

ASSUME TimingsAssumption ==
    MarginSuffices /\ LimitSuffices /\ StartsInTime /\ AllowancesSuffice
=============================================================================
