------------------------------ MODULE EventFeed ------------------------------
(***************************************************************************)
(* Watching the journal: InMemoryEventSink.watch_events and                  *)
(* poll_event_reader (eventstream.py) and BrokerBackedEventStream             *)
(* (runtime/event_stream.py).                                                *)
(*                                                                         *)
(* A watcher is an asynchronous generator: it hands out the batch it last     *)
(* read one event at a time, as fast as its consumer asks, and the journal     *)
(* grows meanwhile.  A consumer whose connection dropped opens a new watch     *)
(* after the last event it got.  Heartbeats are not modelled as events: they   *)
(* only let the loop go round.                                               *)
(***************************************************************************)
EXTENDS Integers, Sequences, FiniteSets, FiniteSetsExt

CONSTANTS
  FeedSessions,  \* sessions that emit events
  Everything,    \* the scope of a watch that names no session
  Watchers,
  KindOf,        \* the implementation behind each watcher
  ScopeOf,       \* the session each watches, or Everything
  CatchUp,       \* max_catchup_events
  MaxFeed,       \* bound: events
  MaxDrops       \* bound: dropped connections

ASSUME FeedAssumption ==
  /\ Everything \notin FeedSessions
  /\ KindOf \in [Watchers -> {"memory", "poll", "broker"}]
  /\ ScopeOf \in [Watchers -> FeedSessions \cup {Everything}]
  /\ CatchUp \in Nat \ {0}
  /\ MaxFeed \in Nat /\ MaxDrops \in Nat

VARIABLES
  feed,     \* the journal: the session of each event, in order
  watch,    \* the watchers
  got,      \* history: the events each consumer received, by their place in the journal
  drops

fvars == <<feed, watch, got, drops>>

Closed == [pc |-> "closed", cursor |-> 0, batch |-> {}, signal |-> FALSE]

FeedInit ==
  /\ feed = <<>>
  /\ watch = [w \in Watchers |-> Closed]
  /\ got = [w \in Watchers |-> <<>>]
  /\ drops = 0

InScope(w, n) == ScopeOf[w] \in {Everything, feed[n]}
Wanted(w) == {n \in DOMAIN feed : InScope(w, n)}

\* Variant: the event at the cursor is read again.
AfterInclusive(w, cursor) == {n \in Wanted(w) : n >= cursor}

\* filter_events
After(w, cursor) == {n \in Wanted(w) : n > cursor}

\* The broker's watcher reads at most CatchUp events at a time.
Page(w, cursor) ==
  {n \in After(w, cursor) :
     KindOf[w] = "broker" => Cardinality({m \in After(w, cursor) : m < n}) < CatchUp}

-----------------------------------------------------------------------------
\* emit: subscribers in the same process are woken at once.
Emit(s) ==
  /\ Len(feed) < MaxFeed                                           \* bound
  /\ feed' = Append(feed, s)
  /\ watch' = [w \in Watchers |->
       IF KindOf[w] = "memory" /\ watch[w].pc # "closed"
       THEN [watch[w] EXCEPT !.signal = TRUE] ELSE watch[w]]
  /\ UNCHANGED <<got, drops>>

\* InMemoryEventSignalBroker.notify: about an event of the watcher's scope, at any
\* time after it was committed, or never; a signal that finds one waiting is dropped.
Notify(w) ==
  /\ KindOf[w] = "broker" /\ watch[w].pc # "closed" /\ Wanted(w) # {}
  /\ ~watch[w].signal
  /\ watch' = [watch EXCEPT ![w].signal = TRUE]
  /\ UNCHANGED <<feed, got, drops>>

\* watch_events(after_event_id = the last event received)
Open(w) ==
  /\ watch[w].pc = "closed"
  /\ LET last == IF got[w] = <<>> THEN 0 ELSE got[w][Len(got[w])] IN
       watch' = [watch EXCEPT ![w] = [Closed EXCEPT !.pc = "reading", !.cursor = last]]
  /\ UNCHANGED <<feed, got, drops>>

Read(w) ==
  /\ watch[w].pc = "reading"
  /\ LET page == Page(w, watch[w].cursor) IN
       watch' = [watch EXCEPT ![w].batch = page,
                   ![w].pc = IF page = {} /\ KindOf[w] # "memory" THEN "waiting" ELSE "serving"]
  /\ UNCHANGED <<feed, got, drops>>

\* yield event; cursor = event.id
Deliver(w) ==
  /\ watch[w].pc = "serving" /\ watch[w].batch # {}
  /\ LET n == Min(watch[w].batch) IN
       /\ got' = [got EXCEPT ![w] = Append(@, n)]
       /\ watch' = [watch EXCEPT ![w].batch = @ \ {n}, ![w].cursor = n]
  /\ UNCHANGED <<feed, drops>>

\* The consumer asks for more: the watcher in memory clears its signal and waits,
\* the others read again.
AskForMore(w) ==
  /\ watch[w].pc = "serving" /\ watch[w].batch = {}
  /\ watch' = [watch EXCEPT ![w].pc = IF KindOf[w] = "memory" THEN "waiting" ELSE "reading",
                            ![w].signal = IF KindOf[w] = "memory" THEN FALSE ELSE @]
  /\ UNCHANGED <<feed, got, drops>>

Wake(w) ==
  /\ watch[w].pc = "waiting" /\ watch[w].signal
  /\ watch' = [watch EXCEPT ![w].pc = "reading",
                            ![w].signal = IF KindOf[w] = "broker" THEN FALSE ELSE @]
  /\ UNCHANGED <<feed, got, drops>>

\* Variant: a watcher with a broker only reads when it is told to.
TimeoutHeartbeatOnly(w) ==
  /\ watch[w].pc = "waiting"
  /\ watch' = [watch EXCEPT ![w].pc = IF KindOf[w] = "memory" THEN "serving"
                                      ELSE IF KindOf[w] = "poll" THEN "reading" ELSE "waiting"]
  /\ UNCHANGED <<feed, got, drops>>

\* After heartbeat_interval the watcher in memory goes on waiting; the others read.
Timeout(w) ==
  /\ watch[w].pc = "waiting"
  /\ watch' = [watch EXCEPT ![w].pc = IF KindOf[w] = "memory" THEN "serving" ELSE "reading"]
  /\ UNCHANGED <<feed, got, drops>>

\* The connection drops; the generator is closed where it is.
Drop(w) ==
  /\ watch[w].pc # "closed" /\ drops < MaxDrops                    \* bound
  /\ watch' = [watch EXCEPT ![w] = Closed]
  /\ drops' = drops + 1
  /\ UNCHANGED <<feed, got>>

Step(w) == Open(w) \/ Read(w) \/ Deliver(w) \/ AskForMore(w)

FeedNext ==
  \/ \E s \in FeedSessions : Emit(s)
  \/ \E w \in Watchers : Step(w) \/ Notify(w) \/ Wake(w) \/ Timeout(w) \/ Drop(w)

FeedSpec == FeedInit /\ [][FeedNext]_fvars

\* Watchers and consumers keep being run, and timers fire.  No signal need ever come.
FeedFairness ==
  \A w \in Watchers : WF_fvars(Step(w)) /\ WF_fvars(Wake(w) \/ Timeout(w))

LiveFeedSpec == FeedSpec /\ FeedFairness

-----------------------------------------------------------------------------
FeedTypeOK ==
  /\ feed \in Seq(FeedSessions) /\ Len(feed) <= MaxFeed
  /\ watch \in [Watchers -> [pc : {"closed", "reading", "serving", "waiting"},
                             cursor : 0..MaxFeed, batch : SUBSET (1..MaxFeed), signal : BOOLEAN]]
  /\ got \in [Watchers -> Seq(1..MaxFeed)]
  /\ drops \in 0..MaxDrops

(* Over all its connections a consumer gets the events of its scope in their   *)
(* order, each once and none left out (filter_events and the cursor of         *)
(* watch_events).                                                            *)
InOrderOnceEach ==
  \A w \in Watchers : \A i \in DOMAIN got[w] :
    LET n == got[w][i] IN
      n \in Wanted(w) /\ Cardinality({m \in Wanted(w) : m < n}) = i - 1

Arrives(w, n) == (n \in Wanted(w)) ~> (\E i \in DOMAIN got[w] : got[w][i] = n)

(* "coalescing backpressure without losing committed events"                   *)
(* (BrokerBackedEventStream): with every signal lost and connections dropped,   *)
(* a consumer of a polled or broker-backed stream gets every event.            *)
EveryEventArrives ==
  \A w \in Watchers : \A n \in 1..MaxFeed : KindOf[w] # "memory" => Arrives(w, n)

(* "Yield events as they arrive, yielding heartbeats on idle"                  *)
(* (InMemoryEventSink.watch_events): so does one in memory.                    *)
EventsArriveInMemory ==
  \A w \in Watchers : \A n \in 1..MaxFeed : KindOf[w] = "memory" => Arrives(w, n)

=============================================================================
