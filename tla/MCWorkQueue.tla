---------------------------- MODULE MCWorkQueue ----------------------------
(* Small instances of WorkQueue for TLC.                                     *)
EXTENDS WorkQueue

CONSTANTS w1, w2, p1, p2

OneProcess == [w \in {w1, w2} |-> p1]
TwoProcesses == [w \in {w1, w2} |-> IF w = w1 THEN p1 ELSE p2]
AcceptAll == [w \in {w1, w2} |-> Kinds]

Workers2 == {w1, w2}

=============================================================================
