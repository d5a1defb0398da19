----------------------------- MODULE MCSession -----------------------------
(* Two accounts, so that a reply can belong to the wrong one. *)
EXTENDS Session, TLC

Symmetric == Permutations(Accounts)
=============================================================================
