---------------------------- MODULE SessionRebuild ----------------------------
(***************************************************************************)
(* A session that outlives its process: an InMemorySessionStore behind       *)
(* EventSourcedSessionStore (state/session.py), and the FileEventStore        *)
(* (state/event_store.py) it is rebuilt from.  EventEmitter                   *)
(* (runtime/emission.py) appends a commit's event, saves the state and appends   *)
(* the state; a rejection has no event's line before it, and what the loop saves *)
(* at each iteration (AgentRuntime._save) has no line at all.                 *)
(*                                                                         *)
(* Holders are the driver of the session and control calls: each loads, works,  *)
(* and commits what it made of it.  Neither store suspends, so that a commit    *)
(* is one step; the process may die inside it, and inside a line.  States are   *)
(* numbered in the order in which they were made.  Lines that say nothing of     *)
(* the session's state are told apart by nothing.                             *)
(***************************************************************************)
EXTENDS Integers, FiniteSets

CONSTANTS
  Holders,
  MaxStates,    \* bound: states made in the life of the session
  MaxLosses     \* bound: deaths of the process

ASSUME RebuildAssumption == MaxStates \in Nat /\ MaxLosses \in Nat

VARIABLES
  kept,       \* the record in the session store
  held,       \* the version each holder loaded
  index,      \* the states the running process knows of the journal
  written,    \* the states that can be read from the file
  ending,     \* how the file ends
  made,       \* states made so far
  stored,     \* history: states the store accepted
  returned,   \* history: states whose commit returned; a rejection's if its line was not glued
  losses

rvars == <<kept, held, index, written, ending, made, stored, returned, losses>>

Missing == [version |-> -1, state |-> 0]
NotHeld == -1

\* The file ends with a newline, with a piece of a line, or with a whole line
\* without newline: a state's, by its number.
Newline == 0
Torn == -1

\* create_session says nothing to the journal.
RebuildInit ==
  /\ kept = [version |-> 0, state |-> 0]
  /\ held = [h \in Holders |-> NotHeld]
  /\ index = {} /\ written = {} /\ ending = Newline
  /\ made = 0
  /\ stored = {} /\ returned = {}
  /\ losses = 0

\* An event's line: glued to a line without its newline it spoils both.
WrittenAfterEvent == written \ {ending}

\* A state's line with no event's before it.
WrittenAfterState(n) == IF ending = Newline THEN written \cup {n} ELSE WrittenAfterEvent

Load(h) ==
  /\ kept # Missing
  /\ held' = [held EXCEPT ![h] = kept.version]
  /\ UNCHANGED <<kept, index, written, ending, made, stored, returned, losses>>

\* rebuild_session_snapshot: the last state of the journal.
Latest(S) == CHOOSE n \in S : \A m \in S : m <= n

\* load_session on a miss; without a state in the journal the session is not found.
Rebuild(h) ==
  /\ kept = Missing /\ index # {}
  /\ kept' = [version |-> 0, state |-> Latest(index)]
  /\ held' = [held EXCEPT ![h] = 0]
  /\ UNCHANGED <<index, written, ending, made, stored, returned, losses>>

\* An event that goes with no state; also one of another session.
EmitEvent ==
  /\ ending # Newline
  /\ written' = WrittenAfterEvent
  /\ ending' = Newline
  /\ UNCHANGED <<kept, held, index, made, stored, returned, losses>>

\* commit_session_event: the event, the store, the state.
Commit(h) ==
  /\ held[h] # NotHeld /\ held[h] = kept.version
  /\ made < MaxStates                                              \* bound
  /\ made' = made + 1
  /\ kept' = [version |-> kept.version + 1, state |-> made + 1]
  /\ held' = [held EXCEPT ![h] = kept.version + 1]
  /\ written' = WrittenAfterEvent \cup {made + 1}
  /\ index' = index \cup {made + 1}
  /\ ending' = Newline
  /\ stored' = stored \cup {made + 1}
  /\ returned' = returned \cup {made + 1}
  /\ UNCHANGED losses

\* Variant, and what a store that is no StateEventCommitter gets: the state is
\* appended before it is saved.
RefuseRecorded(h) ==
  /\ held[h] # NotHeld /\ held[h] # kept.version
  /\ made < MaxStates
  /\ made' = made + 1
  /\ held' = [held EXCEPT ![h] = NotHeld]
  /\ written' = WrittenAfterEvent \cup {made + 1}
  /\ index' = index \cup {made + 1}
  /\ ending' = Newline
  /\ UNCHANGED <<kept, stored, returned, losses>>

\* SessionVersionConflictError: the event was appended, the state is neither stored
\* nor appended.
Refuse(h) ==
  /\ held[h] # NotHeld /\ held[h] # kept.version
  /\ made < MaxStates                                              \* bound
  /\ made' = made + 1
  /\ held' = [held EXCEPT ![h] = NotHeld]
  /\ written' = WrittenAfterEvent
  /\ ending' = Newline
  /\ UNCHANGED <<kept, index, stored, returned, losses>>

\* reject_session: the store and the state; the event has no line.
Reject(h) ==
  /\ held[h] # NotHeld /\ held[h] = kept.version
  /\ made < MaxStates                                              \* bound
  /\ made' = made + 1
  /\ kept' = [version |-> kept.version + 1, state |-> made + 1]
  /\ held' = [held EXCEPT ![h] = NotHeld]
  /\ written' = WrittenAfterState(made + 1)
  /\ index' = index \cup {made + 1}
  /\ ending' = Newline
  /\ stored' = stored \cup {made + 1}
  /\ returned' = IF ending = Newline THEN returned \cup {made + 1} ELSE returned
  /\ UNCHANGED losses

\* AgentRuntime._save: the store alone.
SaveIteration(h) ==
  /\ held[h] # NotHeld /\ held[h] = kept.version
  /\ made < MaxStates                                              \* bound
  /\ made' = made + 1
  /\ kept' = [version |-> kept.version + 1, state |-> made + 1]
  /\ held' = [held EXCEPT ![h] = kept.version + 1]
  /\ stored' = stored \cup {made + 1}
  /\ UNCHANGED <<index, written, ending, returned, losses>>

\* SessionVersionConflictError of either: nothing is stored or appended.
RefuseSilently(h) ==
  /\ held[h] # NotHeld /\ held[h] # kept.version
  /\ held' = [held EXCEPT ![h] = NotHeld]
  /\ UNCHANGED <<kept, index, written, ending, made, stored, returned, losses>>

-----------------------------------------------------------------------------
\* The process dies and comes back: it reads the lines it can.
ComesBackWith(readable) ==
  /\ losses < MaxLosses                                            \* bound
  /\ losses' = losses + 1
  /\ kept' = Missing
  /\ held' = [h \in Holders |-> NotHeld]
  /\ written' = readable /\ index' = readable
  /\ UNCHANGED returned

ProcessDies ==
  /\ ComesBackWith(written)
  /\ UNCHANGED <<ending, made, stored>>

\* Inside the line of an event: also that of a commit, before anything is stored.
DieInEvent ==
  /\ ComesBackWith(WrittenAfterEvent)
  /\ ending' = Torn
  /\ UNCHANGED <<made, stored>>

\* Inside a commit whose state is stored: before, in, or at the end of its line.
DieInCommit(h) ==
  /\ held[h] # NotHeld /\ held[h] = kept.version
  /\ made < MaxStates                                              \* bound
  /\ made' = made + 1
  /\ stored' = stored \cup {made + 1}
  /\ \/ ending' \in {Newline, Torn} /\ ComesBackWith(WrittenAfterEvent)
     \/ ending' = made + 1 /\ ComesBackWith(WrittenAfterEvent \cup {made + 1})

\* Inside a rejection that is stored; behind a line without its newline all is glued.
DieInReject(h) ==
  /\ held[h] # NotHeld /\ held[h] = kept.version
  /\ made < MaxStates                                              \* bound
  /\ made' = made + 1
  /\ stored' = stored \cup {made + 1}
  /\ \/ ending' = ending /\ ComesBackWith(written)
     \/ ending' = Torn /\ ComesBackWith(WrittenAfterEvent)
     \/ /\ ending = Newline /\ ending' = made + 1
        /\ ComesBackWith(WrittenAfterState(made + 1))

RebuildNext ==
  \/ \E h \in Holders :
       \/ Load(h) \/ Rebuild(h) \/ Commit(h) \/ Refuse(h) \/ DieInCommit(h)
       \/ SaveIteration(h) \/ Reject(h) \/ RefuseSilently(h) \/ DieInReject(h)
  \/ EmitEvent \/ ProcessDies \/ DieInEvent

RebuildSpec == RebuildInit /\ [][RebuildNext]_rvars

-----------------------------------------------------------------------------
RebuildTypeOK ==
  /\ kept \in [version : -1..MaxStates, state : 0..MaxStates]
  /\ held \in [Holders -> -1..MaxStates]
  /\ written \subseteq 1..made /\ index \subseteq 1..made
  /\ ending \in {Newline, Torn} \cup written
  /\ made \in 0..MaxStates
  /\ returned \subseteq stored /\ stored \subseteq 1..made
  /\ losses \in 0..MaxLosses

(* "replaying those events and taking the most recent one reproduces the session    *)
(* state" (rebuild_session_snapshot): however often the process dies, tears lines     *)
(* and is rebuilt, the session in the store is one the store accepted, never one it    *)
(* refused, and no older than any whose commit returned (commit_session_event).       *)
(* A rejection whose line was glued to a torn one, and the iterations the loop only    *)
(* saves, have no line to be rebuilt from: the session comes back as it was before.   *)
RebuildsWhatWasCommitted ==
  kept # Missing =>
    /\ kept.state \in stored \cup {0}
    /\ \A n \in returned : n <= kept.state

=============================================================================
