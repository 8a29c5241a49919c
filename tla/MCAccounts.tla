----------------------------- MODULE MCAccounts -----------------------------
(***************************************************************************)
(* Instance of Accounts for TLC: two tabs of one browser.                  *)
(***************************************************************************)
EXTENDS Accounts, TLC

CONSTANTS c1, c2, b1, p1, p2

MCBrowserOf == (c1 :> b1 @@ c2 :> b1)
MCOlder == (b1 :> <<p1>>)

\* Both tabs belong to the one browser, so accounts, tokens and tabs are alike.
Alike == Permutations(Users) \cup Permutations(Tokens) \cup Permutations(Calls)
=============================================================================
