------------------------------- MODULE Checks -------------------------------
(***************************************************************************)
(* Guard clauses: the code tests one condition after another and leaves    *)
(* with the code of the first that does not hold.                          *)
(***************************************************************************)
EXTENDS Integers, Sequences

CONSTANT Null   \* undefined or null

\* The code of the first check that fails; each check is a pair <<holds, code>>.
FirstError(checks) ==
    LET failing == {i \in DOMAIN checks : ~checks[i][1]}
    IN  IF failing = {} THEN Null
        ELSE checks[CHOOSE i \in failing : \A j \in failing : i <= j][2]
=============================================================================
