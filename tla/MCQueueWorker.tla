--------------------------- MODULE MCQueueWorker ---------------------------
(* Small instances of QueueWorker for TLC.                                   *)
EXTENDS QueueWorker, TLC

CONSTANTS w1, w2, r1, r2, p1, p2

OneProcess == [w \in {w1, w2} |-> p1]
TwoProcesses == [w \in {w1, w2} |-> IF w = w1 THEN p1 ELSE p2]

\* Both workers lease both kinds; only w2 has a handler for the second.
AcceptAll == [w \in {w1, w2} |-> Kinds]
HandleGoals == [w \in {w1, w2} |-> IF w = w1 THEN {"goal"} ELSE Kinds]

OwnIds == [r \in {r1, r2} |-> IF r = r1 THEN w1 ELSE w2]
SharedId == [r \in {r1, r2} |-> w1]

=============================================================================
