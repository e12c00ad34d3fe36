----------------------------- MODULE MCIdentity -----------------------------
(***************************************************************************)
(* Instances of Identity for TLC: which operations run together, and the   *)
(* sessions and codes earlier requests left behind.                        *)
(***************************************************************************)
EXTENDS Identity, TLC

CONSTANT s1

MCRoles == {"user", "admin"}
EveryOp == AllOps
RefreshOps == {"refresh"}

OneSession == {s1}
NoCodes == <<>>
OneEach == <<"password_reset", "email_verify">>

RequestSymmetry == Permutations(Requests)
=============================================================================
