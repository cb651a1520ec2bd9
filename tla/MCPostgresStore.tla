--------------------------- MODULE MCPostgresStore ---------------------------
(***************************************************************************)
(* Instances of PostgresStore for TLC.                                     *)
(***************************************************************************)
EXTENDS PostgresStore, TLC

CONSTANTS a, b, c, r1, r2

Symmetry == Permutations(Sessions)

(* One row with two uses, valid at second 1 only, asked for by hosts whose *)
(* clocks may read anything, by one whose authority does not match, and by *)
(* one that names an identifier without a row.                             *)
OneRow == {r1}
OneRowAndUnknown == {r1, r2}
Clock == 0 .. 2
SomeCommands ==
    [jti : {r1}, genuine : {TRUE}, time : Times]
        \cup {[jti |-> r1, genuine |-> FALSE, time |-> 1],
              [jti |-> r2, genuine |-> TRUE, time |-> 1]}

(* Two rows with one use each, for transactions that consume both.         *)
TwoRows == {r1, r2}
GenuineCommands == [jti : Receipts, genuine : {TRUE}, time : Times]

NbfOne == [r \in Receipts |-> 1]
ExpTwo == [r \in Receipts |-> 2]
MaxOne == [r \in Receipts |-> 1]
MaxTwo == [r \in Receipts |-> 2]

=============================================================================
