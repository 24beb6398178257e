----------------------------- MODULE FileJournal -----------------------------
(***************************************************************************)
(* FileRuntimeStore (persistence/file.py): the snapshot of a session in one  *)
(* JSON file, the events of all in one JSONL file, and a commit record that  *)
(* is written before either and replayed by whoever comes next when the      *)
(* process died in between.                                                  *)
(*                                                                         *)
(* The file lock admits one operation at a time and falls with the process.  *)
(* A JSON file is replaced atomically; a line of the log is appended, and a   *)
(* process that dies while appending may leave a piece of the line, or the    *)
(* whole of it without its newline: the next line is then glued to it, and    *)
(* neither can be read.  One session stands for all.                         *)
(***************************************************************************)
EXTENDS Integers

CONSTANTS
  Writers,     \* processes
  MaxEvents,   \* bound: events in the life of the store
  MaxVersion   \* bound: versions of the session

ASSUME JournalAssumption == MaxEvents \in Nat /\ MaxVersion \in Nat

VARIABLES
  snap,        \* the version in the session's file
  lines,       \* the events that can be read from the log
  tail,        \* how the log ends
  record,      \* the commit record
  op,          \* the operation in progress, under the file lock
  seen,        \* the version each writer holds
  events,      \* events given an id so far
  lost         \* history: events whose lines were glued to others

jvars == <<snap, lines, tail, record, op, seen, events, lost>>

NoRecord == [version |-> 0, event |-> 0]
NoOp == [pc |-> "none", todo |-> "none", by |-> "nobody", event |-> 0]

\* The log ends with a newline, with a piece of a line, or with a whole line.
Clean == 0
Piece == -1

JournalInit ==
  /\ snap = 0 /\ lines = {} /\ tail = Clean
  /\ record = NoRecord
  /\ op = NoOp
  /\ seen = [w \in Writers |-> 0]
  /\ events = 0
  /\ lost = {}

Goto(pc) == op' = [op EXCEPT !.pc = pc]

\* load_session, save_session, commit_session_event; each replays what it finds first.
StartOp(w, todo) ==
  /\ op = NoOp
  /\ todo = "commit" => events < MaxEvents                       \* bound
  /\ op' = [pc |-> "recover", todo |-> todo, by |-> w, event |-> events + 1]
  /\ events' = IF todo = "commit" THEN events + 1 ELSE events
  /\ UNCHANGED <<snap, lines, tail, record, seen, lost>>

\* FileEventStore.append does not replay.
StartAppend(w) ==
  /\ op = NoOp /\ events < MaxEvents
  /\ events' = events + 1
  /\ op' = [pc |-> "append", todo |-> "append", by |-> w, event |-> events + 1]
  /\ UNCHANGED <<snap, lines, tail, record, seen, lost>>

\* Variant: a record found is thrown away.
DiscardRecord ==
  /\ op.pc = "recover" /\ record # NoRecord
  /\ record' = NoRecord
  /\ UNCHANGED <<snap, lines, tail, op, seen, events, lost>>

ReplayRecord ==
  /\ op.pc = "recover" /\ record # NoRecord
  /\ Goto("snapshot")
  /\ UNCHANGED <<snap, lines, tail, record, seen, events, lost>>

FinishLoad ==
  /\ op.pc = "recover" /\ record = NoRecord /\ op.todo = "load"
  /\ seen' = [seen EXCEPT ![op.by] = snap]
  /\ op' = NoOp
  /\ UNCHANGED <<snap, lines, tail, record, events, lost>>

\* SessionVersionConflictError
ConflictingCommit ==
  /\ op.pc = "recover" /\ record = NoRecord /\ op.todo \in {"commit", "save"}
  /\ seen[op.by] # snap
  /\ op' = NoOp
  /\ UNCHANGED <<snap, lines, tail, record, seen, events, lost>>

\* A snapshot that goes with no event is written at once.
FinishSave ==
  /\ op.pc = "recover" /\ record = NoRecord /\ op.todo = "save"
  /\ seen[op.by] = snap /\ snap < MaxVersion                       \* bound
  /\ snap' = snap + 1
  /\ seen' = [seen EXCEPT ![op.by] = snap + 1]
  /\ op' = NoOp
  /\ UNCHANGED <<lines, tail, record, events, lost>>

WriteRecord ==
  /\ op.pc = "recover" /\ record = NoRecord /\ op.todo = "commit"
  /\ seen[op.by] = snap /\ snap < MaxVersion                       \* bound
  /\ record' = [version |-> snap + 1, event |-> op.event]
  /\ op' = [op EXCEPT !.pc = "snapshot", !.todo = "done"]
  /\ UNCHANGED <<snap, lines, tail, seen, events, lost>>

\* Applying a record: one's own, or the one found.
WriteSnapshot ==
  /\ op.pc = "snapshot"
  /\ snap' = IF snap < record.version THEN record.version ELSE snap
  /\ Goto("append")
  /\ UNCHANGED <<lines, tail, record, seen, events, lost>>

Line == IF op.todo = "append" THEN op.event ELSE record.event

\* Glued to a piece a line cannot be read, and no more can a whole line that
\* lacked its newline.
Glue(line) ==
  /\ lines' = lines \ {tail}
  /\ lost' = lost \cup ({tail, line} \cap 1..events)

AppendLine ==
  /\ op.pc = "append"
  /\ IF Line \in lines THEN UNCHANGED <<lines, lost, tail>>
     ELSE /\ IF tail = Clean THEN lines' = lines \cup {Line} /\ UNCHANGED lost ELSE Glue(Line)
          /\ tail' = Clean
  /\ IF op.todo = "append" THEN op' = NoOp ELSE Goto("unlink")
  /\ UNCHANGED <<snap, record, seen, events>>

Unlink ==
  /\ op.pc = "unlink"
  /\ record' = NoRecord
  /\ IF op.todo = "done"
     THEN /\ seen' = [seen EXCEPT ![op.by] = snap]
          /\ op' = NoOp
     ELSE Goto("recover") /\ UNCHANGED seen
  /\ UNCHANGED <<snap, lines, tail, events, lost>>

\* The process dies, or the operation raises, before its next step.  `seen' is the
\* version of the session, which is only set when the store returns; the one a write
\* that raises leaves in its snapshot is thrown away with it (EventEmitter, _save).
Die ==
  /\ op # NoOp
  /\ op' = NoOp
  /\ UNCHANGED <<snap, lines, tail, record, seen, events, lost>>

\* It dies while the line is being written.
DieTearing ==
  /\ op.pc = "append" /\ Line \notin lines
  /\ op' = NoOp
  /\ \/ tail = Clean /\ tail' = Piece /\ UNCHANGED <<lines, lost>>
     \/ tail = Clean /\ tail' = Line /\ lines' = lines \cup {Line} /\ UNCHANGED lost
     \/ tail # Clean /\ tail' = Piece /\ Glue(Piece)
  /\ UNCHANGED <<snap, record, seen, events>>

JournalNext ==
  \/ \E w \in Writers : StartAppend(w) \/ \E todo \in {"load", "save", "commit"} : StartOp(w, todo)
  \/ ReplayRecord \/ FinishLoad \/ FinishSave \/ ConflictingCommit \/ WriteRecord
  \/ WriteSnapshot \/ AppendLine \/ Unlink
  \/ Die \/ DieTearing

JournalSpec == JournalInit /\ [][JournalNext]_jvars

-----------------------------------------------------------------------------
JournalTypeOK ==
  /\ snap \in 0..MaxVersion
  /\ lines \subseteq 1..MaxEvents
  /\ tail \in {Clean, Piece} \cup lines
  /\ record \in [version : 0..MaxVersion, event : 0..MaxEvents]
  /\ op.pc \in {"none", "recover", "snapshot", "append", "unlink"}
  /\ op.todo \in {"none", "load", "save", "commit", "append", "done"}
  /\ seen \in [Writers -> 0..MaxVersion]
  /\ events \in 0..MaxEvents
  /\ lost \subseteq 1..events

\* What a reader that replays first finds: the record counts as applied, and a
\* line counts as read that only became unreadable later.
Version == IF record = NoRecord THEN snap ELSE record.version
Journal == IF record = NoRecord THEN lines ELSE lines \cup {record.event}

Atomic == INSTANCE AtomicStore
  WITH Events <- 1..MaxEvents, version <- Version, journal <- Journal \cup lost, known <- seen

(* Wherever a process dies between the four writes of a commit, snapshot and  *)
(* event move together: once the record is written both are committed, before  *)
(* that neither is, and a replay repeats nothing                             *)
(* (FileRuntimeStore.commit_session_event and _recover_commits).  All that a *)
(* torn line can do is make lines of the log unreadable.                     *)
ImplementsAtomicStore == Atomic!AtomicSpec

=============================================================================
