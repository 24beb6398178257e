------------------------------ MODULE MCEventFeed ------------------------------
(* A watcher of each kind for EventFeed.                                      *)
EXTENDS EventFeed, TLC

CONSTANTS s1, s2, w1, w2, w3

OneOfEachKind == w1 :> "memory" @@ w2 :> "poll" @@ w3 :> "broker"

TheirScopes == w1 :> s1 @@ w2 :> s1 @@ w3 :> Everything

=============================================================================
