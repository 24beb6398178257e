----------------------------- MODULE AtomicStore -----------------------------
(***************************************************************************)
(* What a RuntimeStore promises of one session: its stored version and the  *)
(* journal of its events move together, in one step, and only for a writer  *)
(* that has the stored version.  The SQLite store is this, with the commit  *)
(* as one transaction; the file store implements it (FileJournal).          *)
(***************************************************************************)
EXTENDS Integers

CONSTANTS Writers, Events

VARIABLES
  version,   \* the stored version of the session
  journal,   \* the events that can be read
  known      \* the version each writer last saw

avars == <<version, journal, known>>

AtomicInit ==
  /\ version = 0
  /\ journal = {}
  /\ known = [w \in Writers |-> 0]

\* commit_session_event
CommitBoth(w, e) ==
  /\ known[w] = version /\ e \notin journal
  /\ version' = version + 1
  /\ journal' = journal \cup {e}
  /\ UNCHANGED known

\* The writer learns of its commit, or loads.
Learn(w) ==
  /\ known' = [known EXCEPT ![w] = version]
  /\ UNCHANGED <<version, journal>>

\* save_session: a snapshot that goes with no event
SaveOnly(w) ==
  /\ known[w] = version
  /\ version' = version + 1
  /\ known' = [known EXCEPT ![w] = version + 1]
  /\ UNCHANGED journal

\* append, of an event that goes with no snapshot
AppendOnly(e) ==
  /\ journal' = journal \cup {e}
  /\ UNCHANGED <<version, known>>

AtomicNext ==
  \/ \E w \in Writers : Learn(w) \/ SaveOnly(w) \/ \E e \in Events : CommitBoth(w, e)
  \/ \E e \in Events : AppendOnly(e)

AtomicSpec == AtomicInit /\ [][AtomicNext]_avars

=============================================================================
