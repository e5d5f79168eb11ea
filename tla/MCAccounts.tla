----------------------------- MODULE MCAccounts -----------------------------
(* Two people, one of them with an assertion; two requests at a time, which  *)
(* are interchangeable.                                                      *)
EXTENDS Accounts, TLC

MCSubject == [x \in Assertion |-> CHOOSE u \in User : TRUE]
Interchangeable == Permutations(Request)
=============================================================================
