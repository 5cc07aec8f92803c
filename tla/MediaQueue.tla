----------------------------- MODULE MediaQueue -----------------------------
(***************************************************************************)
(* The local media queue (contfu/src/shared/files/mediaQueue.ts): the file *)
(* rows of the Local Store, the in-memory queue sorted by due time, its    *)
(* one timer, and the drain that processes a batch of files at a time.     *)
(*                                                                         *)
(* A sync event that references a file creates its row, or revives a       *)
(* failed one, and queues every pending file at once.  Processing a file   *)
(* downloads it from the source URL kept in the row, writes the output     *)
(* (the default store puts it where the URL was) and marks the row ready;  *)
(* each of these is a step, and sync events, deletions, time and crashes   *)
(* come in between.                                                        *)
(*                                                                         *)
(* Due times are kept relative to the present: 0 is due.                   *)
(***************************************************************************)
EXTENDS Naturals, Sequences, FiniteSets, SequencesExt

CONSTANTS
  Files,         \* files of the Local Store, by the id of their URL
  Managed,       \* those the sync service serves itself
  Concurrency,   \* most files in a batch
  AttemptLimit,  \* attempts after which a file is given up (100)
  BackoffLimit,  \* longest wait between attempts
  NoTimer,       \* no timer is set
  MaxEvents,     \* bound: sync events
  MaxCrashes     \* bound: crashes

ASSUME ConstantsAssumption ==
  /\ IsFiniteSet(Files) /\ Managed \subseteq Files
  /\ Concurrency \in Nat \ {0} /\ AttemptLimit \in Nat \ {0} /\ BackoffLimit \in Nat \ {0}
  /\ NoTimer \notin Nat
  /\ MaxEvents \in Nat /\ MaxCrashes \in Nat

VARIABLES
  files,     \* the file rows
  repairs,   \* files whose repair was requested since their last delivery
  machine,   \* queue, timer and drain
  work,      \* the files of the batch still being processed
  events, crashes

vars == <<files, repairs, machine, work, events, crashes>>

NoFile == [status |-> "none", source |-> "missing", attempts |-> 0]
FreshFile == [status |-> "pending", source |-> "url", attempts |-> 0]

Entries == [id: Files, wait: Nat]
Pending == {f \in Files : files[f].status = "pending"}

-----------------------------------------------------------------------------
(* The queue, its timer and the selection of a batch: synchronous code,     *)
(* here functions of a machine m and of the files p that are pending.       *)

Idle(queue) == [queue |-> queue, timer |-> NoTimer, running |-> FALSE, batch |-> {}]

Due(queue) == Cardinality({i \in DOMAIN queue : queue[i].wait = 0})
Least(S) == CHOOSE n \in S : \A m \in S : n <= m

(* Faulty variant: the timer is not set again after a drain.                *)
LeaveTimer(queue) == NoTimer
TimerFor(queue) == IF queue = <<>> THEN NoTimer ELSE queue[1].wait

(* popDueIds in groups of at most Concurrency, until a group has a pending  *)
(* file; without one the drain ends and the timer is set for what is next.  *)
DrainOn(m, p) ==
  LET due == Due(m.queue)
      last(g) == Least({g * Concurrency, due})
      group(g) == {m.queue[i].id : i \in ((g - 1) * Concurrency + 1)..last(g)}
      full == {g \in 1..due : group(g) \cap p # {}}
      rest(n) == SubSeq(m.queue, n + 1, Len(m.queue))
  IN IF full = {}
     THEN [Idle(rest(due)) EXCEPT !.timer = TimerFor(rest(due))]
     ELSE [queue |-> rest(last(Least(full))), timer |-> NoTimer, running |-> TRUE,
           batch |-> group(Least(full)) \cap p]

(* Faulty variant: a timer once set is left alone.                          *)
KeepTimer(m, insertedFirst) == m.timer # NoTimer
TimerStands(m, insertedFirst) == m.timer # NoTimer /\ ~insertedFirst

ScheduleQueue(m, insertedFirst, p) ==
  IF m.queue = <<>> \/ m.running \/ TimerStands(m, insertedFirst) THEN m
  ELSE IF m.queue[1].wait = 0 THEN DrainOn([m EXCEPT !.timer = NoTimer], p)
  ELSE [m EXCEPT !.timer = m.queue[1].wait]

(* Faulty variant: a new entry goes to the end of the queue.                *)
AtEnd(queue, wait) == Len(queue) + 1
InsertionIndex(queue, wait) ==
  1 + Cardinality({i \in DOMAIN queue : queue[i].wait <= wait})

(* An id is queued once, at the earlier of its due times.                   *)
EnqueueFile(m, id, wait, p) ==
  LET found == {i \in DOMAIN m.queue : m.queue[i].id = id}
      others == IF found = {} THEN m.queue ELSE RemoveAt(m.queue, Least(found))
      index == InsertionIndex(others, wait)
  IN IF found # {} /\ m.queue[Least(found)].wait <= wait
     THEN m
     ELSE ScheduleQueue([m EXCEPT !.queue = InsertAt(others, index, [id |-> id, wait |-> wait])],
                        index = 1, p)

Orders(S) == {s \in [1..Cardinality(S) -> S] : Range(s) = S}

(* resumeMediaQueue: every pending file is due now, in table order.  The    *)
(* first one starts the drain before the others are queued.                 *)
Resume(m, p, order) ==
  LET after[n \in 0..Len(order)] ==
        IF n = 0 THEN m ELSE EnqueueFile(after[n - 1], order[n], 0, p)
  IN after[Len(order)]

(* What the files of a new batch start from: the rows as they were read.    *)
Started(m) == [f \in m.batch |-> [step |-> "download", row |-> files'[f]]]

Become(m) ==
  /\ machine' = m
  /\ work' = IF machine.running THEN work ELSE Started(m)

-----------------------------------------------------------------------------
Init ==
  /\ files = [f \in Files |-> NoFile]
  /\ repairs = {}
  /\ machine = Idle(<<>>)
  /\ work = <<>>
  /\ events = 0 /\ crashes = 0

(* A sync event references the file.                                        *)
Deliver(f) ==
  /\ events < MaxEvents
  /\ events' = events + 1
  /\ files' = [files EXCEPT ![f] = IF @.status \in {"none", "failed"} THEN FreshFile ELSE @]
  /\ repairs' = repairs \ {f}
  /\ LET p == Pending \cup {g \in {f} : files'[f].status = "pending"}
     IN \E order \in Orders(p) : Become(Resume(machine, p, order))
  /\ UNCHANGED crashes

(* No item references the file any more: its row is pruned.                 *)
Delete(f) ==
  /\ events < MaxEvents
  /\ events' = events + 1
  /\ files[f].status # "none"
  /\ files' = [files EXCEPT ![f] = NoFile]
  /\ UNCHANGED <<repairs, machine, work, crashes>>

(* Time passes while the timer waits or a batch is processed.               *)
Tick ==
  /\ \E i \in DOMAIN machine.queue : machine.queue[i].wait > 0
  /\ machine.timer # 0
  /\ machine' = [machine EXCEPT
       !.queue = [i \in DOMAIN machine.queue |->
                    [machine.queue[i] EXCEPT !.wait = IF @ > 0 THEN @ - 1 ELSE 0]],
       !.timer = IF @ = NoTimer THEN NoTimer ELSE @ - 1]
  /\ UNCHANGED <<files, repairs, work, events, crashes>>

TimerFires ==
  /\ machine.timer = 0
  /\ UNCHANGED <<files, repairs, events, crashes>>
  /\ Become(DrainOn([machine EXCEPT !.timer = NoTimer], Pending))

At(f, step) == f \in DOMAIN work /\ work[f].step = step
Go(f, step) == work' = [work EXCEPT ![f].step = step]

(* fail(): the row as it was read is written back with one attempt more.    *)
Backoff(attempts) == Least({w \in 1..BackoffLimit : w = BackoffLimit \/ w = 2 ^ attempts})

(* Faulty variant: a file that failed for now is not queued again.          *)
ForgetRetry(f, attempts) == machine
QueueRetry(f, attempts) == EnqueueFile(machine, f, Backoff(attempts), Pending)

Fail(f, permanent, repair) ==
  LET attempts == work[f].row.attempts + 1 IN
  /\ files' = [files EXCEPT ![f] =
       IF @.status = "none" THEN @
       ELSE [@ EXCEPT !.status = IF permanent THEN "failed" ELSE "pending",
                      !.attempts = attempts]]
  /\ machine' = IF permanent THEN machine ELSE QueueRetry(f, attempts)
  /\ repairs' = IF repair THEN repairs \cup {f} ELSE repairs
  /\ Go(f, "done")
  /\ UNCHANGED <<events, crashes>>

(* Faulty variant: one attempt too many.                                    *)
OneMoreAttempt(f) == work[f].row.attempts >= AttemptLimit
GivenUp(f) == work[f].row.attempts + 1 >= AttemptLimit

(* There is no source URL in the row.                                       *)
MissingSource(f) ==
  /\ At(f, "download") /\ work[f].row.source = "missing"
  /\ Fail(f, TRUE, TRUE)

Downloaded(f) ==
  /\ At(f, "download") /\ work[f].row.source = "url"
  /\ Go(f, "write")
  /\ UNCHANGED <<files, repairs, machine, events, crashes>>

(* 401, 403 or 404; any other status the source will not take back.  What   *)
(* the service serves itself is retried, and never asked of the service.    *)
DownloadRejected(f, repairable) ==
  /\ At(f, "download") /\ work[f].row.source = "url"
  /\ Fail(f, f \notin Managed \/ GivenUp(f), repairable /\ f \notin Managed)

(* The network, the source or the optimizer failed for now; or what is      *)
(* kept in place of the URL is not one.                                     *)
DownloadFailed(f) ==
  /\ At(f, "download") /\ work[f].row.source # "missing"
  /\ Fail(f, GivenUp(f), FALSE)

(* The store writes the output, which may be empty, over the URL.           *)
WriteOutput(f) ==
  /\ At(f, "write")
  /\ \E output \in {"output", "missing"} :
       files' = [files EXCEPT ![f] = IF @.status = "none" THEN @ ELSE [@ EXCEPT !.source = output]]
  /\ Go(f, "finish")
  /\ UNCHANGED <<repairs, machine, events, crashes>>

MarkReady(f) ==
  /\ At(f, "finish")
  /\ files' = [files EXCEPT ![f] =
       IF @.status = "none" THEN @
       ELSE [status |-> "ready", source |-> "output", attempts |-> work[f].row.attempts + 1]]
  /\ Go(f, "done")
  /\ UNCHANGED <<repairs, machine, events, crashes>>

(* Variants or metadata of the output could not be stored.                  *)
FinishFails(f) ==
  /\ At(f, "finish")
  /\ Fail(f, GivenUp(f), FALSE)

BatchDone ==
  /\ machine.running /\ \A f \in DOMAIN work : work[f].step = "done"
  /\ machine' = DrainOn(machine, Pending)
  /\ work' = [f \in machine'.batch |-> [step |-> "download", row |-> files[f]]]
  /\ UNCHANGED <<files, repairs, events, crashes>>

(* The application stops and starts: the queue is rebuilt from the rows.    *)
Restart ==
  /\ crashes < MaxCrashes
  /\ crashes' = crashes + 1
  /\ \E order \in Orders(Pending) :
       LET m == Resume(Idle(<<>>), Pending, order)
       IN /\ machine' = m
          /\ work' = [f \in m.batch |-> [step |-> "download", row |-> files[f]]]
  /\ UNCHANGED <<files, repairs, events>>

Process(f) ==
  \/ MissingSource(f) \/ Downloaded(f) \/ WriteOutput(f) \/ MarkReady(f)
  \/ \E repairable \in BOOLEAN : DownloadRejected(f, repairable)
  \/ DownloadFailed(f) \/ FinishFails(f)

Next ==
  \/ \E f \in Files : Deliver(f) \/ Delete(f) \/ Process(f)
  \/ Tick \/ TimerFires \/ BatchDone \/ Restart

Spec == Init /\ [][Next]_vars

(* Time passes, timers fire, downloads end and batches complete.            *)
Fairness ==
  /\ WF_vars(Tick) /\ WF_vars(TimerFires) /\ WF_vars(BatchDone)
  /\ \A f \in Files : WF_vars(Process(f))

FairSpec == Spec /\ Fairness

-----------------------------------------------------------------------------
Rows == [status: {"none", "pending", "ready", "failed"},
         source: {"url", "output", "missing"}, attempts: 0..AttemptLimit]

TypeOK ==
  /\ files \in [Files -> Rows]
  /\ repairs \in SUBSET Files
  /\ machine \in [queue: Seq(Entries), timer: {NoTimer} \cup Nat,
                  running: BOOLEAN, batch: SUBSET Files]
  /\ work \in [machine.batch -> [step: {"download", "write", "finish", "done"}, row: Rows]]

(* The queue is sorted by due time and holds an id once, whatever is        *)
(* re-queued while it waits: the timer looks at its head only.              *)
QueueIsOrdered ==
  \A i, j \in DOMAIN machine.queue :
    i < j => /\ machine.queue[i].wait <= machine.queue[j].wait
             /\ machine.queue[i].id # machine.queue[j].id

(* No wake-up is lost: unless a batch is being processed, the timer is set  *)
(* for the head of the queue, or not at all if the queue is empty.          *)
TimerMatchesQueue ==
  machine.timer = IF machine.running THEN NoTimer ELSE
                  IF machine.queue = <<>> THEN NoTimer ELSE machine.queue[1].wait

(* A pending file is always queued or being processed, after failures,      *)
(* deletions, redeliveries while it is processed, and restarts.             *)
PendingIsTracked ==
  \A f \in Pending :
    \/ \E i \in DOMAIN machine.queue : machine.queue[i].id = f
    \/ f \in DOMAIN work /\ work[f].step # "done"

(* Every pending file has its turn: it is queued, the one due first is at    *)
(* the head, and the timer is set for that one.                             *)
FilesAreScheduled == QueueIsOrdered /\ TimerMatchesQueue /\ PendingIsTracked

(* Every file is in the end ready, failed or gone.                          *)
FilesSettle == <>[](Pending = {})

(* Work that failed for lack of a source URL was reported for repair.       *)
LostSourceIsRepaired ==
  \A f \in Files :
    files[f].status = "failed" /\ files[f].source # "url" => f \in repairs
=============================================================================
