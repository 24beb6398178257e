--------------------------- MODULE MCAgentSession ---------------------------
(* Small instances of AgentSession for TLC.                                  *)
EXTENDS AgentSession, TLC

CONSTANTS s1, s2, a1, a2, res

\* Tools that change the resource, and tools that change nothing.
Writes == [a \in Proposals |-> res]
Reads == [a \in Proposals |-> NoResource]

\* Two sessions around one resource: what does not touch the resource is cut.
Contending ==
  \A s \in Sessions :
    /\ ~drv[s].mem.done
    /\ drv[s].plan # "continue" /\ ~req[s].pause /\ ctl[s].op # "pause"

Symmetric == Permutations(Sessions)

\* Two proposals at the gate: what does not touch an approval is cut.
Approving ==
  \A s \in Sessions :
    /\ ~drv[s].mem.done /\ ~req[s].pause /\ ctl[s].op # "pause"

=============================================================================
