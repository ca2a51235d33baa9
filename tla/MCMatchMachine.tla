--------------------------- MODULE MCMatchMachine ---------------------------
(* Instances of MatchMachine for TLC.                                      *)
EXTENDS MatchMachine, TLC

\* Rows are interchangeable: the ledger gives each the next fresh id.
RowSymmetry == Permutations(Rows)
=============================================================================
