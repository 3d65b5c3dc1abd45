----------------------------- MODULE MCAccounts -----------------------------
(* Small instances of registration and login for TLC. *)
EXTENDS Accounts, TLC

CONSTANTS r1, r2, e1, e2, n1, p1, p2, long, i1, i2

TwoRequests  == {r1, r2}
TwoEmails    == {e1, e2}
OneNickname  == {n1}
TwoPasswords == {p1, p2}
OneLong      == {long}
LikeP1       == [x \in {long} |-> p1]
TwoIds       == {i1, i2}
EveryFault   == {"dbError", "insertUnknown", "cut"}

AccountSymmetry ==
  Permutations(TwoRequests) \cup Permutations(TwoIds) \cup Permutations(TwoEmails)
=============================================================================
