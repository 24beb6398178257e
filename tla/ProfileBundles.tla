---------------------------- MODULE ProfileBundles ----------------------------
(***************************************************************************)
(* Hot-swapped profiles of the agent daemon: the cache of service bundles      *)
(* and the guard that stands before a change of a profile (AgentdApp in         *)
(* agentd/app.py), and the writes behind it (agentd/config_admin_routes.py,     *)
(* profile/store.py).                                                        *)
(*                                                                         *)
(* Requests are coroutines of one loop.  A request holds the bundle it          *)
(* resolved while it awaits; the guard awaits the list of sessions, and then    *)
(* drops the bundle and writes the profile without another await.  One          *)
(* profile stands for all, and a bundle's sessions are active or not.           *)
(***************************************************************************)
EXTENDS Integers

CONSTANTS
  Requests,
  MaxBundles,   \* bound: bundles built
  MaxEdits      \* bound: writes of the profile

ASSUME BundleAssumption == MaxBundles \in Nat /\ MaxEdits \in Nat \ {0}

VARIABLES
  config,       \* the version of the stored profile; NoConfig when it is deleted
  edits,        \* versions written so far
  patched,      \* the version of the last write that passed the guard
  builtFrom,    \* the version each bundle was built from
  cached,       \* the cached bundle
  sessions,     \* of each bundle: idle; active; raced: begun while a change was under
                \* way; or orphaned: begun on a bundle that had been dropped already
  request

bvars == <<config, edits, patched, builtFrom, cached, sessions, request>>

NoConfig == 0
NoBundle == 0
NotBuilt == -1
Bundles == 1..MaxBundles
Waiting == [at |-> "door", bundle |-> NoBundle]

BundleInit ==
  /\ config = 1 /\ edits = 1 /\ patched = 1
  /\ builtFrom = [b \in Bundles |-> NotBuilt]
  /\ cached = NoBundle
  /\ sessions = [b \in Bundles |-> "idle"]
  /\ request = [r \in Requests |-> Waiting]

AtDoor(r) == request[r].at = "door"
Proceeds(r, place, b) == request' = [request EXCEPT ![r] = [at |-> place, bundle |-> b]]
Leaves(r) == request' = [request EXCEPT ![r] = Waiting]

\* _bundle_for, under the bundle lock.
ResolveCached(r) ==
  /\ AtDoor(r) /\ cached # NoBundle
  /\ Proceeds(r, "resolved", cached)
  /\ UNCHANGED <<config, edits, patched, builtFrom, cached, sessions>>

ResolveBuilding(r, b) ==
  /\ AtDoor(r) /\ cached = NoBundle /\ config # NoConfig
  /\ builtFrom[b] = NotBuilt /\ \A c \in Bundles : c < b => builtFrom[c] # NotBuilt
  /\ builtFrom' = [builtFrom EXCEPT ![b] = config]
  /\ cached' = b
  /\ Proceeds(r, "resolved", b)
  /\ UNCHANGED <<config, edits, patched, sessions>>

Changing == \E r \in Requests : request[r].at \in {"asking", "settled"}

\* The goal is run, or the session resumed, by the bundle resolved before, which the
\* cache may have lost since to a change that is over.
BegunOn(b) == IF cached # b THEN "orphaned" ELSE IF Changing THEN "raced" ELSE "active"

BeginSession(r) ==
  /\ request[r].at = "resolved"
  /\ LET b == request[r].bundle IN
       /\ sessions[b] = "idle"
       /\ sessions' = [sessions EXCEPT ![b] = BegunOn(b)]
  /\ Leaves(r)
  /\ UNCHANGED <<config, edits, patched, builtFrom, cached>>

\* Some other use of it.
UseBundle(r) ==
  /\ request[r].at = "resolved"
  /\ Leaves(r)
  /\ UNCHANGED <<config, edits, patched, builtFrom, cached, sessions>>

SettleSession(b) ==
  /\ sessions[b] # "idle"
  /\ sessions' = [sessions EXCEPT ![b] = "idle"]
  /\ UNCHANGED <<config, edits, patched, builtFrom, cached, request>>

-----------------------------------------------------------------------------
\* What a PATCH or DELETE may come to: the profile changed, deleted, or refused.
Written(version) == edits' = edits + 1 /\ config' = version /\ patched' = edits'

WriteProfile ==
  /\ config # NoConfig /\ edits < MaxEdits                         \* bound
  /\ Written(edits + 1) \/ Written(NoConfig)

RefuseWrite == UNCHANGED <<config, edits, patched>>

\* _profile_mutation_guard: no bundle, no guard.
MutateAtOnce(r) ==
  /\ AtDoor(r) /\ cached = NoBundle
  /\ WriteProfile \/ RefuseWrite
  /\ UNCHANGED <<builtFrom, cached, sessions, request>>

AskForSessions(r) ==
  /\ AtDoor(r) /\ cached # NoBundle
  /\ Proceeds(r, "asking", cached)
  /\ UNCHANGED <<config, edits, patched, builtFrom, cached, sessions>>

\* Variant: whatever the sessions do.
LookAway(r) ==
  /\ request[r].at = "asking"
  /\ Proceeds(r, "settled", request[r].bundle)
  /\ UNCHANGED <<config, edits, patched, builtFrom, cached, sessions>>

\* The sessions as they are when they are listed: 409, or on.
LookAtSessions(r) ==
  /\ request[r].at = "asking"
  /\ IF sessions[request[r].bundle] = "idle"
     THEN Proceeds(r, "settled", request[r].bundle) ELSE Leaves(r)
  /\ UNCHANGED <<config, edits, patched, builtFrom, cached, sessions>>

\* Variant: only the bundle that was looked at is dropped.
ChangeProfileOfLooked(r) ==
  /\ request[r].at = "settled"
  /\ cached' = IF cached = request[r].bundle THEN NoBundle ELSE cached
  /\ WriteProfile \/ RefuseWrite
  /\ Leaves(r)
  /\ UNCHANGED <<builtFrom, sessions>>

\* Whatever bundle is cached by now is dropped, also when the write is refused.
ChangeProfile(r) ==
  /\ request[r].at = "settled"
  /\ cached' = NoBundle
  /\ WriteProfile \/ RefuseWrite
  /\ Leaves(r)
  /\ UNCHANGED <<builtFrom, sessions>>

\* POST /v1/profiles, and a domain bound to the profile: no guard.
WriteUnguarded ==
  /\ edits < MaxEdits                                              \* bound
  /\ edits' = edits + 1 /\ config' = edits + 1
  /\ UNCHANGED <<patched, builtFrom, cached, sessions, request>>

BundleNext ==
  \/ \E r \in Requests :
       \/ ResolveCached(r) \/ BeginSession(r) \/ UseBundle(r)
       \/ MutateAtOnce(r) \/ AskForSessions(r) \/ LookAtSessions(r) \/ ChangeProfile(r)
       \/ \E b \in Bundles : ResolveBuilding(r, b)
  \/ \E b \in Bundles : SettleSession(b)
  \/ WriteUnguarded

BundleSpec == BundleInit /\ [][BundleNext]_bvars

-----------------------------------------------------------------------------
BundleTypeOK ==
  /\ edits \in 1..MaxEdits /\ config \in 0..edits /\ patched \in 1..edits
  /\ builtFrom \in [Bundles -> {NotBuilt} \cup 1..MaxEdits]
  /\ cached \in {NoBundle} \cup Bundles
  /\ sessions \in [Bundles -> {"idle", "active", "raced", "orphaned"}]
  /\ request \in [Requests -> [at : {"door", "resolved", "asking", "settled"},
                               bundle : {NoBundle} \cup Bundles]]

(* "the next request rebuilds from the new config" (_profile_mutation_guard):     *)
(* no bundle outlives a PATCH or DELETE in the cache, although several requests   *)
(* change the profile, build and drop bundles at the same time.                  *)
PatchTakesEffect == cached # NoBundle => builtFrom[cached] >= patched

(* "Mutating its profile while a session is RUNNING/WAITING would silently orphan *)
(* the execution" (_profile_mutation_guard): a change that finds a session active   *)
(* does not drop its bundle.  Left out, as the code does not see them: the sessions *)
(* that begin while a change is under way (raced), and those that begin on a bundle *)
(* a finished change had dropped after their request resolved it (orphaned).        *)
SessionsKeepTheirBundle == \A b \in Bundles : sessions[b] = "active" => cached = b

=============================================================================
