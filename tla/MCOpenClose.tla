---------------------------- MODULE MCOpenClose ----------------------------
(***************************************************************************)
(* An instance of OpenClose for TLC: two threads of one process and one    *)
(* thread of another.                                                      *)
(***************************************************************************)
EXTENDS OpenClose

CONSTANTS t1, t2, t3, i1, i2

MCThreads == {t1, t2, t3}
MCInstances == {i1, i2}
MCInstanceOf == [t \in MCThreads |-> IF t = t3 THEN i2 ELSE i1]
MCMaxOpens == [t \in MCThreads |-> IF t = t1 THEN 2 ELSE 1]
=============================================================================
