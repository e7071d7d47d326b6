----------------------------- MODULE MCAccounts -----------------------------
(* A small instance of the accounts. *)
EXTENDS Accounts, TLC

CONSTANTS c1, c2

TwoCallers == {c1, c2}
\* One name in two spellings, of which only one is root's; an admin and a chef of
\* one name and password; a wrong password.
User(name, password, role) == [name |-> name, password |-> password, role |-> role]
FiveAccounts ==
  {User("root", "root", "ADMIN"), User("Root", "pw", "ADMIN"), User("root", "pw", "CHEF"),
   User("ann", "pw", "CHEF"), User("ann", "root", "CHEF")}
LowerCase == [n \in {"root", "Root", "ann", "pw"} |-> IF n = "Root" THEN "root" ELSE n]
NoUsers == <<>>
CallerSymmetry == Permutations(Callers)
=============================================================================
