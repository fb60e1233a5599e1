--------------------------- MODULE MCCouponLedger ---------------------------
(***************************************************************************)
(* Bounded instances of CouponLedger and CouponReads.                      *)
(***************************************************************************)
EXTENDS CouponReads

\* Codes, bad codes, redeemer commitments and accounts are only compared.
Interchangeable ==
    Permutations(Codes) \cup Permutations(Refs) \cup Permutations(Addresses)
=============================================================================
