----------------------------- MODULE MCContract -----------------------------
(***************************************************************************)
(* A bounded instance of what integrations look after in the contract: the *)
(* owner index they page through (CouponLedger with CouponReads) and the   *)
(* rent of the entries they bump (MCStorageRent).                          *)
(*                                                                         *)
(* The two share no variable, so a behaviour here is one of the part that  *)
(* `part` names, the other staying as it began.                            *)
(***************************************************************************)
EXTENDS MCCouponLedger, MCStorageRent

VARIABLE part

rentVars == <<ttl, nextBump, burned>>

ContractInit == part \in {"directory", "rent"} /\ Init /\ Rent!Init

DirectoryStep == part = "directory" /\ Next /\ UNCHANGED <<part, rentVars>>

RentStep == part = "rent" /\ Rent!Next /\ UNCHANGED <<part, vars>>

ContractNext == DirectoryStep \/ RentStep

Contract == ContractInit /\ [][ContractNext]_<<part, vars, rentVars>>
=============================================================================
