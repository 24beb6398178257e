--------------------------- MODULE MCSessionWork ---------------------------
(* Small instances of SessionWork for TLC.                                   *)
EXTENDS SessionWork, TLC

CONSTANTS s1, j1, j2, r1, r2

\* An action item with two attempts, beside an item of any other kind with one.
TwoItems == [j \in {j1, j2} |-> IF j = j1 THEN {"tool_action"}
                                ELSE {"agent_session", "task", "agent_goal"}]

Attempts == [j \in {j1, j2} |-> IF j = j1 THEN 2 ELSE 1]

Leases == {<<j1, 1>>, <<j1, 2>>, <<j2, 1>>}

AllForOne == [j \in Jobs |-> s1]

\* How a session or an item ended makes no difference to what happens after, nor
\* what a driver still remembers of work it has left, or will report in vain.
OneEnd(status) == IF status \in Ended THEN "ended" ELSE status

Remembered(d) ==
  LET r == [drv[d] EXCEPT !.result = OneEnd(@)]
      left == [r EXCEPT !.fresh = FALSE, !.conf = "unset", !.act = 0, !.did = FALSE]
      vain == IF d \in Runs /\ ~Leased(d) THEN [left EXCEPT !.result = "none"] ELSE left
  IN CASE r.pc = "releasing" -> vain
       [] r.pc = "ended" -> [vain EXCEPT !.on.to = 0, !.on.lock = 0]
       [] r.pc = "driving" -> [r EXCEPT !.conf = "unset"]
       [] OTHER -> r

\* What an item is for is looked up once in each attempt.
Looked(j) ==
  /\ work[j].stage = "leased" \/ work[j].stage \in Ended
  /\ work[j].tries = Budget[j]
  /\ \A d \in Runs : drv[d].pc = "taken" => drv[d].on.job # j

UpToEnds ==
  <<locks, grants, settled, [d \in Drivers |-> Remembered(d)],
    [s \in Sessions |-> [sess[s] EXCEPT !.status = OneEnd(@),
                                        !.acts = IF sess[s].status \in Ended THEN 0 ELSE @]],
    [j \in Jobs |-> IF Looked(j) THEN [NoItem EXCEPT !.stage = OneEnd(work[j].stage)]
                    ELSE [work[j] EXCEPT !.stage = OneEnd(@)]]>>

Interchangeable == Permutations(Runs)

=============================================================================
