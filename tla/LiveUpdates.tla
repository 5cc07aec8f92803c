---------------------------- MODULE LiveUpdates ----------------------------
(***************************************************************************)
(* How a change of the Local Store reaches an open page of the UI: the hot *)
(* event stream of contfu/src/contfu.ts, the runtime monitor that iterates *)
(* it (contfu/src/runtime-monitor.ts), the server's /api/live connections  *)
(* (server/src/server.ts) and the browser's one EventSource                *)
(* (ui/src/lib/live/event-source.ts), whose handlers make the page load    *)
(* its data again.                                                         *)
(*                                                                         *)
(* The runtime stores a change before it yields the event (module          *)
(* SyncStream), so here the two are one step.  An event is its type; a     *)
(* status is its state; the reason texts and timestamps are left out.      *)
(***************************************************************************)
EXTENDS Naturals, Sequences, FiniteSets

CONSTANTS
  Readers,        \* iterators over the same events besides the monitor's
  Monitor,        \* the monitor's iterator
  Events,         \* bound: the types of event that are yielded
  InitialDelay, MaxDelay,  \* of both restart loops
  MaxEvents,      \* bound: events published
  MaxFaults,      \* bound: instances that cannot be made, lost connections
  MaxReads        \* bound: reads of one iterator that wait at the same time

EventTypes == {"connected", "disconnected", "snapshotStart", "snapshotEnd",
               "schema", "item", "other", "commandResult"}

ASSUME ConstantsAssumption ==
  /\ Monitor \notin Readers
  /\ Events \subseteq EventTypes
  /\ {InitialDelay, MaxDelay, MaxEvents, MaxFaults, MaxReads} \subseteq Nat

VARIABLES
  store,      \* version of the data the Local Store holds
  hot,        \* run(): [phase, delay, completed] of the current instance
  published,  \* history: what the instances have published
  iter,       \* the iterators
  monitor,    \* the monitor's loop: [phase, delay, state]
  buffer,     \* bufferedCount, bufferedKinds, bufferTimer, and whether it runs
  announced,  \* history: the counts of the batches sent
  live,       \* the browser's connection to /api/live, on the server's side
  page,       \* the browser: the page, its handlers, its source and its data
  missed,     \* history: a batch was sent while the loaded page had no connection
  faults

vars == <<store, hot, published, iter, monitor, buffer, announced, live, page, missed, faults>>

Iterators == Readers \cup {Monitor}

States == {"disabled", "connecting", "syncing", "connected", "error"}
Data == {"schema", "item", "other"}  \* the types that end in bufferDataChanged
Kind(e) == IF e = "other" THEN "unknown" ELSE e

Doubled(d) == IF 2 * d < MaxDelay THEN 2 * d ELSE MaxDelay

-----------------------------------------------------------------------------
(* The hot event stream: every iterator has a queue of events and a list   *)
(* of reads that wait.                                                     *)

NoInstance == [phase |-> "none", delay |-> InitialDelay, completed |-> TRUE]

NoIterator == [member |-> FALSE, over |-> TRUE, closed |-> TRUE, queue |-> <<>>,
               reads |-> 0, from |-> 0, got |-> <<>>]

(* Faulty variant: an event is queued although a read waits.                *)
Queued(it, e) == IF it.member THEN [it EXCEPT !.queue = Append(@, e)] ELSE it

(* publish: the oldest waiting read gets the event, or it is queued.        *)
Offered(it, e) ==
  CASE ~it.member -> it
    [] it.member /\ it.reads > 0 -> [it EXCEPT !.reads = @ - 1, !.got = Append(@, e)]
    [] OTHER -> [it EXCEPT !.queue = Append(@, e)]

Publish(e) ==
  /\ published' = Append(published, e)
  /\ iter' = [i \in Iterators |-> Offered(iter[i], e)]

(* Faulty variant: the waiting reads are forgotten.                         *)
Abandoned(it) == [it EXCEPT !.over = TRUE, !.member = FALSE]

(* complete: every waiting read is told that there is nothing more.         *)
Completed(it) == [it EXCEPT !.over = TRUE, !.member = FALSE, !.reads = 0]

(* run: connect() is called.                                                *)
Open ==
  /\ hot.phase = "start"
  /\ hot' = [hot EXCEPT !.phase = "streaming"]
  /\ UNCHANGED <<store, published, iter, monitor, buffer, announced, live, page, missed, faults>>

(* An event of connect().  Command results are not passed on.               *)
Yield(e) ==
  /\ hot.phase = "streaming" /\ Len(published) < MaxEvents
  /\ IF e = "commandResult"
     THEN UNCHANGED <<store, hot, published, iter>>
     ELSE /\ store' = IF e \in Data THEN store + 1 ELSE store
          /\ hot' = IF e = "connected" THEN [hot EXCEPT !.delay = InitialDelay] ELSE hot
          /\ Publish(e)
  /\ UNCHANGED <<monitor, buffer, announced, live, page, missed, faults>>

(* connect() returned or threw: the iterators learn it and run() sleeps.    *)
End ==
  /\ hot.phase = "streaming" /\ Len(published) < MaxEvents
  /\ Publish("disconnected")
  /\ hot' = [hot EXCEPT !.phase = "sleeping"]
  /\ UNCHANGED <<store, monitor, buffer, announced, live, page, missed, faults>>

Restart ==
  /\ hot.phase = "sleeping"
  /\ hot' = [hot EXCEPT !.phase = "start", !.delay = Doubled(@)]
  /\ UNCHANGED <<store, published, iter, monitor, buffer, announced, live, page, missed, faults>>

(* run() itself fails, its timer for one: a last event, then complete.      *)
Fail ==
  /\ hot.phase = "sleeping" /\ Len(published) < MaxEvents
  /\ hot' = [hot EXCEPT !.phase = "failed", !.completed = TRUE]
  /\ published' = Append(published, "disconnected")
  /\ iter' = [i \in Iterators |-> Completed(Offered(iter[i], "disconnected"))]
  /\ UNCHANGED <<store, monitor, buffer, announced, live, page, missed, faults>>

(* [Symbol.asyncIterator](): events published before are not delivered.     *)
NewIterator(h, history) ==
  [member |-> ~h.completed, over |-> h.completed, closed |-> FALSE, queue |-> <<>>,
   reads |-> 0, from |-> Len(history), got |-> <<>>]

Iterate(r) ==
  /\ iter[r] = NoIterator /\ hot.phase # "none"
  /\ iter' = [iter EXCEPT ![r] = NewIterator(hot, published)]
  /\ UNCHANGED <<store, hot, published, monitor, buffer, announced, live, page, missed, faults>>

(* Faulty variant: a queued event is passed over while the iterator waits.  *)
WaitingFirst(it) == IF it.over THEN it ELSE [it EXCEPT !.reads = @ + 1]

(* next(): a queued event, or the end, or a read that waits.                *)
Read(it) ==
  CASE ~it.closed /\ it.queue # <<>> ->
         [it EXCEPT !.queue = Tail(@), !.got = Append(@, Head(it.queue))]
    [] it.closed \/ (it.over /\ it.queue = <<>>) -> it
    [] OTHER -> [it EXCEPT !.reads = @ + 1]

ReadNext(r) ==
  /\ iter[r] # NoIterator /\ iter[r].reads < MaxReads
  /\ iter' = [iter EXCEPT ![r] = Read(@)]
  /\ UNCHANGED <<store, hot, published, monitor, buffer, announced, live, page, missed, faults>>

(* return(): the queue is dropped and every waiting read is told the end.   *)
Return(r) ==
  /\ ~iter[r].closed
  /\ iter' = [iter EXCEPT ![r].closed = TRUE, ![r].member = FALSE,
                          ![r].queue = <<>>, ![r].reads = 0]
  /\ UNCHANGED <<store, hot, published, monitor, buffer, announced, live, page, missed, faults>>

-----------------------------------------------------------------------------
(* The server's side of the browser's connection.  One whose browser is     *)
(* gone is sent to until the server notices, which nobody sees.             *)

Closed == [open |-> FALSE, outbox |-> <<>>]

(* send                                                                     *)
Sent(m) == IF live.open THEN [live EXCEPT !.outbox = Append(@, m)] ELSE live

-----------------------------------------------------------------------------
(* The runtime monitor.                                                    *)

EmptyBuffer == [count |-> 0, kinds |-> {}, timer |-> FALSE, armed |-> FALSE]

(* setStatus publishes also a state that is not new.                        *)
SetStatus(s) ==
  /\ monitor' = [monitor EXCEPT !.state = s]
  /\ live' = Sent("status")

StatusOf(e) ==
  CASE e \in {"connected", "snapshotEnd"} -> "connected"
    [] e = "snapshotStart" -> "syncing"
    [] e = "disconnected" -> "error"

(* Faulty variant: an event while the timer runs is not counted.            *)
BufferOnce(b, e) ==
  IF b.timer THEN b
  ELSE [count |-> b.count + 1, kinds |-> b.kinds \cup {Kind(e)}, timer |-> TRUE, armed |-> TRUE]

(* bufferDataChanged: a timer is set unless the variable holds one.         *)
Buffered(b, e) ==
  [count |-> b.count + 1, kinds |-> b.kinds \cup {Kind(e)},
   timer |-> TRUE, armed |-> b.armed \/ ~b.timer]

(* handleEvent                                                              *)
HandleEvent(e) ==
  IF e \in Data
  THEN /\ buffer' = Buffered(buffer, e)
       /\ monitor' = [monitor EXCEPT !.delay = InitialDelay]
       /\ UNCHANGED live
  ELSE /\ monitor' = [monitor EXCEPT !.delay = InitialDelay, !.state = StatusOf(e)]
       /\ live' = Sent("status")
       /\ UNCHANGED buffer

(* start(), and every further round of consume().                           *)
Consume ==
  /\ monitor.phase = "off"
  /\ monitor' = [monitor EXCEPT !.phase = "iterating", !.state = "connecting"]
  /\ live' = Sent("status")
  /\ UNCHANGED <<store, hot, published, iter, buffer, announced, page, missed, faults>>

(* The server's events make an instance for every round that needs one      *)
(* (createServerEvents) and iterate it before it can publish anything.      *)
NewInstance == [phase |-> "start", delay |-> InitialDelay, completed |-> FALSE]

Subscribe ==
  /\ monitor.phase = "iterating" /\ hot.completed
  /\ monitor' = [monitor EXCEPT !.phase = "reading"]
  /\ hot' = NewInstance
  /\ iter' = [iter EXCEPT ![Monitor] = NewIterator(NewInstance, published)]
  /\ UNCHANGED <<store, published, buffer, announced, live, page, missed, faults>>

(* The instance cannot be made: consume() reports it and sleeps.            *)
SubscribeFails ==
  /\ monitor.phase = "iterating" /\ faults < MaxFaults
  /\ faults' = faults + 1
  /\ monitor' = [monitor EXCEPT !.phase = "sleeping", !.state = "error"]
  /\ live' = Sent("status")
  /\ UNCHANGED <<store, hot, published, iter, buffer, announced, page, missed>>

(* for await: an event that was queued or given to the waiting read, which  *)
(* the loop asks for as soon as it has handled the one before.              *)
Take ==
  /\ monitor.phase = "reading" /\ iter[Monitor].queue # <<>>
  /\ iter' = [iter EXCEPT ![Monitor] = Read(@)]
  /\ HandleEvent(Head(iter[Monitor].queue))
  /\ UNCHANGED <<store, hot, published, announced, page, missed, faults>>

(* The events are over: an error like any other.                            *)
TakeEnd ==
  /\ monitor.phase = "reading" /\ iter[Monitor].over /\ iter[Monitor].queue = <<>>
  /\ monitor' = [monitor EXCEPT !.phase = "sleeping", !.state = "error"]
  /\ live' = Sent("status")
  /\ UNCHANGED <<store, hot, published, iter, buffer, announced, page, missed, faults>>

Retry ==
  /\ monitor.phase = "sleeping"
  /\ monitor' = [monitor EXCEPT !.phase = "iterating", !.state = "connecting",
                                !.delay = Doubled(@)]
  /\ live' = Sent("status")
  /\ UNCHANGED <<store, hot, published, iter, buffer, announced, page, missed, faults>>

(* Faulty variant: the variable keeps the timer that has fired.             *)
StuckBuffer == [EmptyBuffer EXCEPT !.timer = TRUE]
FlushedBuffer == EmptyBuffer

(* flushDataChangedBatch, from its timer.                                   *)
Flush ==
  /\ buffer.armed /\ buffer.count > 0
  /\ live' = Sent("batch")
  /\ buffer' = FlushedBuffer
  /\ announced' = announced + buffer.count
  /\ missed' = (missed \/ (page.name # "none" /\ ~live.open))
  /\ UNCHANGED <<store, hot, published, iter, monitor, page, faults>>

-----------------------------------------------------------------------------
(* The browser.  A page is rendered with the data of its load function and *)
(* mounted, which starts the source; the home page listens to both events,  *)
(* every other page to the batches only.                                    *)

Handlers(name) == IF name = "home" THEN {"status", "batch"} ELSE {"batch"}

NoPage == [name |-> "none", reload |-> FALSE,
           view |-> [data |-> 0, state |-> "disabled"]]

Current == [data |-> store, state |-> monitor.state]

Load(name) ==
  /\ page.name = "none"
  /\ page' = [NoPage EXCEPT !.name = name, !.view = Current]
  /\ missed' = FALSE
  /\ UNCHANGED <<store, hot, published, iter, monitor, buffer, announced, live, faults>>

(* The page is left: the last handler that goes closes the source.          *)
Leave ==
  /\ page.name # "none"
  /\ page' = NoPage
  /\ missed' = FALSE
  /\ live' = Closed
  /\ UNCHANGED <<store, hot, published, iter, monitor, buffer, announced, faults>>

(* Faulty variant: the state of the sync is not sent to a new connection.   *)
BareGreeting == <<"ready">>

(* handleLive: the connection is subscribed before the greeting is sent.    *)
Greeting == <<"ready", "status">>

Connect ==
  /\ page.name # "none" /\ ~live.open
  /\ live' = [open |-> TRUE, outbox |-> Greeting]
  /\ UNCHANGED <<store, hot, published, iter, monitor, buffer, announced, page, missed, faults>>

(* The connection breaks, with what it carried; the EventSource opens       *)
(* another one.                                                             *)
Drop ==
  /\ live.open /\ faults < MaxFaults
  /\ faults' = faults + 1
  /\ missed' = (missed \/ \E k \in DOMAIN live.outbox : live.outbox[k] = "batch")
  /\ live' = Closed
  /\ UNCHANGED <<store, hot, published, iter, monitor, buffer, announced, page>>

(* A message reaches its handlers, which call invalidateAll.                *)
Deliver ==
  /\ live.outbox # <<>>
  /\ live' = [live EXCEPT !.outbox = Tail(@)]
  /\ page' = [page EXCEPT !.reload = @ \/ Head(live.outbox) \in Handlers(page.name)]
  /\ UNCHANGED <<store, hot, published, iter, monitor, buffer, announced, missed, faults>>

(* invalidateAll: the newest answer is what the page shows.                 *)
Reload ==
  /\ page.reload
  /\ page' = [page EXCEPT !.reload = FALSE, !.view = Current]
  /\ UNCHANGED <<store, hot, published, iter, monitor, buffer, announced, live, missed, faults>>

-----------------------------------------------------------------------------
Init ==
  /\ store = 0 /\ announced = 0 /\ faults = 0
  /\ hot = NoInstance /\ published = <<>>
  /\ iter = [i \in Iterators |-> NoIterator]
  /\ monitor = [phase |-> "off", delay |-> InitialDelay, state |-> "disabled"]
  /\ buffer = EmptyBuffer
  /\ live = Closed
  /\ page = NoPage /\ missed = FALSE

StreamStep == Open \/ (\E e \in Events : Yield(e)) \/ End \/ Restart \/ Fail

ReaderStep == \E r \in Readers : Iterate(r) \/ ReadNext(r) \/ Return(r)

MonitorStep == Consume \/ Subscribe \/ SubscribeFails \/ Take \/ TakeEnd \/ Retry \/ Flush

BrowserStep ==
  \/ \E name \in {"home", "items"} : Load(name)
  \/ Leave \/ Connect \/ Drop \/ Deliver \/ Reload

Next == StreamStep \/ ReaderStep \/ MonitorStep \/ BrowserStep

Spec == Init /\ [][Next]_vars

(* Timers fire, promises settle, the browser connects again, and what it    *)
(* asked for arrives; nothing obliges the stream, a reader or the user.     *)
Fairness ==
  /\ WF_vars(Consume \/ Subscribe \/ SubscribeFails \/ Take \/ TakeEnd \/ Retry)
  /\ WF_vars(Flush) /\ WF_vars(Reload)
  /\ WF_vars(Connect \/ Deliver)

FairSpec == Spec /\ Fairness

-----------------------------------------------------------------------------
(* Every iterator that is not closed gets the events published since it was *)
(* made, each once and in their order, whether a read waited for them or    *)
(* they were queued (publish, next); and no read waits on one that will get *)
(* nothing more: return() and complete() settle all, next() adds none.      *)
EventsInOrder ==
  \A i \in Iterators :
    LET it == iter[i] IN
    /\ it.member =>
         /\ it.got \o it.queue = SubSeq(published, it.from + 1, Len(published))
         /\ it.reads > 0 => it.queue = <<>>
    /\ it.closed \/ it.over => it.reads = 0

(* Every change of the store is announced in a batch, or is in the buffer   *)
(* with the timer running that will announce it, or is still queued for the *)
(* monitor - each exactly once (bufferDataChanged, flushDataChangedBatch).  *)
Changes(s) == Cardinality({k \in DOMAIN s : s[k] \in Data})

EveryChangeAnnounced ==
  /\ store = announced + buffer.count + Changes(iter[Monitor].queue)
  /\ buffer.armed <=> buffer.count > 0
  /\ buffer.kinds = {} <=> buffer.count = 0

(* A page that stays open comes to show the store as it is, if it had a     *)
(* connection whenever a batch was sent.  The home page needs no such       *)
(* condition: the state sent to every new connection makes it load again    *)
(* what it missed.                                                          *)
UpToDate == page.view.data = store

PagesCatchUp ==
  /\ (page.name = "home") ~> (page.view = Current \/ page.name # "home")
  /\ (page.name = "items" /\ ~missed) ~> (UpToDate \/ missed \/ page.name # "items")
=============================================================================
