-------------------------- MODULE Delivery_proofs --------------------------
(***************************************************************************)
(* The two components that keep what they have to send until it has been   *)
(* taken: the media repair coordinator, for any number of collections,     *)
(* items, requests and disconnections, and the durable outbox of the       *)
(* Strapi plugin, for any number of entries, events, refusals, store       *)
(* failures and restarts.                                                  *)
(***************************************************************************)
EXTENDS MediaRepair, OutboxPromise, Sequences, TLAPS

CONSTANTS Entries, MaxChanges, MaxRefusals, MaxFailures
VARIABLES entries, events, handler, mirror, changes, refusals, failures

Outbox == INSTANCE StrapiOutbox WITH Items <- Entries

(* The command in flight for c is open, was sent on this connection, and    *)
(* with what waits it stands for all that is owed.                          *)
Carried(c, p, flight, open, need) ==
  \E cmd \in open :
    /\ cmd.id = flight[c] /\ cmd.collection = c /\ ~cmd.old
    /\ cmd.serves \subseteq Covers(cmd.request)
    /\ need[c] \subseteq Covers(p[c]) \cup cmd.serves

(* What holds of the two maps, the open commands and the needs, before and  *)
(* after a flush.                                                           *)
Kept(p, flight, open, need) ==
  /\ p \in [Collections -> Request \cup {None}]
  /\ flight \in [Collections -> Ids \cup {None}]
  /\ open \in SUBSET Command
  /\ \A c, d \in open : c.id = d.id => c = d
  /\ need \in [Collections -> SUBSET (Items \cup {Whole})]
  /\ \A c \in Collections :
       IF flight[c] = None THEN need[c] \subseteq Covers(p[c])
       ELSE Carried(c, p, flight, open, need)
  /\ \A cmd \in open : ~cmd.old => flight[cmd.collection] = cmd.id

Inv ==
  /\ Kept(pending, inFlight, commands, owed)
  /\ sender \in BOOLEAN
  /\ ~sender => \A c \in Collections : inFlight[c] = None
  /\ refused \in SUBSET Collections
  /\ WaitsOnlyWhenRefused
  /\ repairs \in 0..MaxRepairs

-----------------------------------------------------------------------------
(* Merging keeps what both requests ask for.                                *)
LEMMA MergedCovers ==
  ASSUME NEW request \in Request \cup {None}, NEW items \in SUBSET Items, NEW all \in BOOLEAN
  PROVE  /\ Merged(request, items, all) \in Request
         /\ Covers(request) \subseteq Covers(Merged(request, items, all))
         /\ items \subseteq Covers(Merged(request, items, all))
         /\ all => Covers(Merged(request, items, all)) = Items \cup {Whole}
BY ConstantsAssumption DEF Merged, Covers, Request

LEMMA RequeuedCovers ==
  ASSUME NEW request \in Request \cup {None}, NEW entry \in Request
  PROVE  /\ Requeued(request, entry) \in Request
         /\ Covers(request) \subseteq Covers(Requeued(request, entry))
         /\ Covers(entry) \subseteq Covers(Requeued(request, entry))
<1>1. entry.items \in SUBSET Items /\ entry.all \in BOOLEAN /\ entry # None
  BY ConstantsAssumption DEF Request
<1>2. Requeued(request, entry) = Merged(request, entry.items, entry.all)
  BY DEF Requeued
<1>3. /\ Requeued(request, entry) \in Request
      /\ Covers(request) \subseteq Covers(Requeued(request, entry))
      /\ entry.items \subseteq Covers(Requeued(request, entry))
      /\ entry.all => Covers(Requeued(request, entry)) = Items \cup {Whole}
  <2>1. \A i \in SUBSET Items, a \in BOOLEAN :
          /\ Merged(request, i, a) \in Request
          /\ Covers(request) \subseteq Covers(Merged(request, i, a))
          /\ i \subseteq Covers(Merged(request, i, a))
          /\ a => Covers(Merged(request, i, a)) = Items \cup {Whole}
    BY MergedCovers
  <2> QED BY <1>1, <1>2, <2>1, Zenon
<1>4. Covers(entry) = IF entry.all THEN Items \cup {Whole} ELSE entry.items
  BY <1>1 DEF Covers
<1> QED BY <1>1, <1>3, <1>4

LEMMA EnqueuedCovers ==
  ASSUME NEW request \in Request \cup {None}, NEW items \in SUBSET Items
  PROVE  /\ Enqueued(request, items) \in Request
         /\ Covers(request) \subseteq Covers(Enqueued(request, items))
         /\ items \subseteq Covers(Enqueued(request, items))
         /\ items = {} => Covers(Enqueued(request, items)) = Items \cup {Whole}
<1> DEFINE merged == Merged(request, items, items = {})
           many == Cardinality(merged.items) >= Threshold
<1>1. /\ merged \in Request /\ Covers(request) \subseteq Covers(merged)
      /\ items \subseteq Covers(merged)
      /\ items = {} => Covers(merged) = Items \cup {Whole}
  BY MergedCovers
<1>2. Enqueued(request, items) = [merged EXCEPT !.all = @ \/ many]
  BY DEF Enqueued
<1> HIDE DEF merged, many
<1>3. /\ Enqueued(request, items) \in Request
      /\ Enqueued(request, items).items = merged.items
      /\ merged.all => Enqueued(request, items).all
  BY <1>1, <1>2 DEF Request
<1>4. Covers(merged) \subseteq Covers(Enqueued(request, items))
  BY <1>1, <1>3, ConstantsAssumption DEF Covers, Request
<1>5. Covers(Enqueued(request, items)) \subseteq Items \cup {Whole}
  BY <1>3 DEF Covers, Request
<1> QED BY <1>1, <1>3, <1>4, <1>5

(* A flush moves each request that waits into a command of its own.         *)
LEMMA FlushKeeps ==
  ASSUME NEW p, NEW flight, NEW open, NEW need,
         Kept(p, flight, open, need), Flush(p, flight, open, need)
  PROVE  Kept(pending', inFlight', commands', need)
<1> DEFINE ready == {c \in Collections : MaySend(p, flight, c)}
           id == CHOOSE f \in Numbering(ready, FreeIds(open)) : TRUE
           sent(c) == [id |-> id[c], collection |-> c, request |-> p[c],
                       serves |-> need[c] \cap Covers(p[c]), old |-> FALSE]
<1>1. /\ Numbering(ready, FreeIds(open)) # {}
      /\ pending' = [c \in Collections |-> IF c \in ready THEN None ELSE p[c]]
      /\ inFlight' = [c \in Collections |-> IF c \in ready THEN id[c] ELSE flight[c]]
      /\ commands' = open \cup {sent(c) : c \in ready}
  BY DEF Flush
<1>2. id \in Numbering(ready, FreeIds(open))
  BY <1>1
<1> HIDE DEF id
<1>3. /\ id \in [ready -> FreeIds(open)]
      /\ \A c, d \in ready : id[c] = id[d] => c = d
  BY <1>2 DEF Numbering
<1>4. \A c \in ready : id[c] \in Ids /\ \A cmd \in open : cmd.id # id[c]
  BY <1>3 DEF FreeIds
<1>5. /\ p \in [Collections -> Request \cup {None}]
      /\ flight \in [Collections -> Ids \cup {None}]
      /\ open \in SUBSET Command
      /\ \A c, d \in open : c.id = d.id => c = d
      /\ need \in [Collections -> SUBSET (Items \cup {Whole})]
      /\ \A cmd \in open : ~cmd.old => flight[cmd.collection] = cmd.id
  BY DEF Kept
<1>6. ASSUME NEW c \in ready
      PROVE  /\ c \in Collections /\ p[c] \in Request /\ flight[c] = None
             /\ sent(c) \in Command
             /\ sent(c).id = id[c] /\ sent(c).collection = c /\ ~sent(c).old
             /\ sent(c).request = p[c] /\ sent(c).serves = need[c] \cap Covers(p[c])
  <2>1. c \in Collections /\ p[c] \in Request /\ flight[c] = None
    BY <1>5 DEF MaySend
  <2>2. need[c] \cap Covers(p[c]) \in SUBSET (Items \cup {Whole})
    BY <1>5, <2>1
  <2>3. sent(c) \in Command
    BY <2>1, <2>2, <1>4 DEF Command
  <2> QED BY <2>1, <2>3
<1> HIDE DEF sent
<1>7. /\ pending' \in [Collections -> Request \cup {None}]
      /\ inFlight' \in [Collections -> Ids \cup {None}]
      /\ commands' \in SUBSET Command
  BY <1>1, <1>4, <1>5, <1>6
<1>8. \A c, d \in commands' : c.id = d.id => c = d
  BY <1>1, <1>3, <1>4, <1>5, <1>6
<1>9. ASSUME NEW c \in Collections
      PROVE  IF inFlight'[c] = None THEN need[c] \subseteq Covers(pending'[c])
             ELSE Carried(c, pending', inFlight', commands', need)
  <2>1. CASE c \in ready
    <3>1. need[c] \subseteq Covers(p[c])
      BY <2>1, <1>6 DEF Kept
    <3>2. sent(c) \in commands' /\ inFlight'[c] = id[c] /\ inFlight'[c] # None
      BY <2>1, <1>1, <1>4, ConstantsAssumption
    <3>3. /\ sent(c).id = inFlight'[c] /\ sent(c).collection = c /\ ~sent(c).old
          /\ sent(c).serves \subseteq Covers(sent(c).request)
          /\ need[c] \subseteq sent(c).serves
      BY <2>1, <3>1, <3>2, <1>6
    <3> QED BY <3>2, <3>3 DEF Carried
  <2>2. CASE c \notin ready
    <3>1. pending'[c] = p[c] /\ inFlight'[c] = flight[c] /\ open \subseteq commands'
      BY <2>2, <1>1
    <3> QED BY <3>1 DEF Kept, Carried
  <2> QED BY <2>1, <2>2
<1>10. ASSUME NEW cmd \in commands', ~cmd.old
       PROVE  inFlight'[cmd.collection] = cmd.id
  <2>1. CASE cmd \in open
    <3>1. cmd.collection \in Collections /\ flight[cmd.collection] = cmd.id /\ cmd.id \in Ids
      BY <2>1, <1>5, <1>10 DEF Command
    <3>2. cmd.collection \notin ready
      BY <3>1, <1>6, ConstantsAssumption
    <3> QED BY <3>1, <3>2, <1>1
  <2>2. CASE \E c \in ready : cmd = sent(c)
    BY <2>2, <1>1, <1>6
  <2> QED BY <2>1, <2>2, <1>1
<1> HIDE DEF ready
<1> QED BY <1>5, <1>7, <1>8, <1>9, <1>10 DEF Kept

(* After a flush nothing waits but behind a command.                        *)
LEMMA FlushSends ==
  ASSUME NEW p, NEW flight, NEW open, NEW need,
         p \in [Collections -> Request \cup {None}], Flush(p, flight, open, need)
  PROVE  /\ refused' = {}
         /\ \A c \in Collections : inFlight'[c] = None => pending'[c] = None
<1> DEFINE ready == {c \in Collections : MaySend(p, flight, c)}
           id == CHOOSE f \in Numbering(ready, FreeIds(open)) : TRUE
<1>1. /\ Numbering(ready, FreeIds(open)) # {} /\ refused' = {}
      /\ pending' = [c \in Collections |-> IF c \in ready THEN None ELSE p[c]]
      /\ inFlight' = [c \in Collections |-> IF c \in ready THEN id[c] ELSE flight[c]]
  BY DEF Flush
<1>2. id \in Numbering(ready, FreeIds(open))
  BY <1>1
<1> HIDE DEF id
<1>3. id \in [ready -> FreeIds(open)]
  BY <1>2 DEF Numbering
<1>4. \A c \in ready : id[c] # None
  BY <1>3, ConstantsAssumption DEF FreeIds
<1> QED BY <1>1, <1>4 DEF MaySend

(* The command in flight is the one that CommandOf finds.                   *)
LEMMA InFlightCommand ==
  ASSUME Inv, NEW c \in Collections, inFlight[c] # None
  PROVE  /\ CommandOf(c) \in commands
         /\ CommandOf(c).id = inFlight[c] /\ CommandOf(c).collection = c /\ ~CommandOf(c).old
         /\ CommandOf(c).serves \subseteq Covers(CommandOf(c).request)
         /\ owed[c] \subseteq Covers(pending[c]) \cup CommandOf(c).serves
<1>1. PICK cmd \in commands :
        /\ cmd.id = inFlight[c] /\ cmd.collection = c /\ ~cmd.old
        /\ cmd.serves \subseteq Covers(cmd.request)
        /\ owed[c] \subseteq Covers(pending[c]) \cup cmd.serves
  BY DEF Inv, Kept, Carried
<1>2. \A d \in commands : d.id = inFlight[c] => d = cmd
  BY <1>1 DEF Inv, Kept
<1>3. CommandOf(c) = cmd
  BY <1>1, <1>2 DEF CommandOf
<1> QED BY <1>1, <1>3
-----------------------------------------------------------------------------
(* One lemma per action.                                                    *)

LEMMA InitInv == Init => Inv
<1> SUFFICES ASSUME Init PROVE Inv
  OBVIOUS
<1>1. Kept(pending, inFlight, commands, owed)
  BY DEF Init, Kept
<1>2. sender \in BOOLEAN /\ repairs \in 0..MaxRepairs
  <2>1. MaxRepairs \in Nat
    BY ConstantsAssumption
  <2>2. repairs = 0 /\ sender = FALSE
    BY DEF Init
  <2>3. sender \in BOOLEAN
    BY <2>2
  <2>4. repairs \in 0..MaxRepairs
    BY <2>1, <2>2
  <2> QED BY <2>3, <2>4
<1>3. \A c \in Collections : inFlight[c] = None
  BY DEF Init
<1>4. refused \in SUBSET Collections /\ WaitsOnlyWhenRefused
  BY DEF Init, WaitsOnlyWhenRefused
<1> QED BY <1>1, <1>2, <1>3, <1>4 DEF Inv

LEMMA RepairInv ==
  ASSUME Inv, NEW c \in Collections, NEW items \in SUBSET Items, Repair(c, items)
  PROVE  Inv'
<1> DEFINE asked == IF items = {} THEN {Whole} ELSE items
           p == [pending EXCEPT ![c] = Enqueued(@, items)]
           later(cmd) == IF cmd.collection = c THEN [cmd EXCEPT !.serves = @ \ asked] ELSE cmd
           open == {later(cmd) : cmd \in commands}
           need == [owed EXCEPT ![c] = @ \cup asked]
<1>1. /\ repairs' \in 0..MaxRepairs /\ sender' = sender /\ owed' = need
      /\ IF sender THEN Flush(p, inFlight, open, need) ELSE Keep(p, inFlight, open)
  BY ConstantsAssumption DEF Inv, Repair
<1>2. /\ pending \in [Collections -> Request \cup {None}]
      /\ inFlight \in [Collections -> Ids \cup {None}]
      /\ commands \in SUBSET Command
      /\ \A x, y \in commands : x.id = y.id => x = y
      /\ owed \in [Collections -> SUBSET (Items \cup {Whole})]
      /\ \A cmd \in commands : ~cmd.old => inFlight[cmd.collection] = cmd.id
  BY DEF Inv, Kept
<1>3. /\ asked \in SUBSET (Items \cup {Whole})
      /\ p[c] \in Request /\ Covers(pending[c]) \subseteq Covers(p[c]) /\ asked \subseteq Covers(p[c])
  <2>1. pending[c] \in Request \cup {None} /\ p[c] = Enqueued(pending[c], items)
    BY <1>2
  <2> QED BY <2>1, EnqueuedCovers
<1>4. ASSUME NEW cmd \in commands
      PROVE  /\ later(cmd) \in Command /\ later(cmd).id = cmd.id
             /\ later(cmd).collection = cmd.collection /\ later(cmd).old = cmd.old
             /\ later(cmd).request = cmd.request
             /\ later(cmd).serves = IF cmd.collection = c THEN cmd.serves \ asked ELSE cmd.serves
  <2>1. cmd \in Command
    BY <1>2
  <2> HIDE DEF asked
  <2> QED BY <2>1 DEF Command
<1> HIDE DEF later
<1> HIDE DEF asked
<1>5. p \in [Collections -> Request \cup {None}] /\ need \in [Collections -> SUBSET (Items \cup {Whole})]
  BY <1>2, <1>3
<1>6. open \in SUBSET Command /\ \A x, y \in open : x.id = y.id => x = y
  <2>1. \A cmd \in commands : later(cmd) \in Command /\ later(cmd).id = cmd.id
    BY <1>4
  <2> QED BY <1>2, <2>1
<1>7. ASSUME NEW d \in Collections
      PROVE  IF inFlight[d] = None THEN need[d] \subseteq Covers(p[d])
             ELSE Carried(d, p, inFlight, open, need)
  <2>1. /\ need[d] = IF d = c THEN owed[d] \cup asked ELSE owed[d]
        /\ Covers(pending[d]) \subseteq Covers(p[d])
        /\ d = c => asked \subseteq Covers(p[d])
    BY <1>2, <1>3
  <2> HIDE DEF p, need
  <2>2. CASE inFlight[d] = None
    <3>1. owed[d] \subseteq Covers(pending[d])
      BY <2>2 DEF Inv, Kept
    <3> QED BY <2>1, <2>2, <3>1
  <2>3. CASE inFlight[d] # None
    <3>1. PICK cmd \in commands :
            /\ cmd.id = inFlight[d] /\ cmd.collection = d /\ ~cmd.old
            /\ cmd.serves \subseteq Covers(cmd.request)
            /\ owed[d] \subseteq Covers(pending[d]) \cup cmd.serves
      BY <2>3 DEF Inv, Kept, Carried
    <3> DEFINE now == later(cmd)
    <3>2. now \in open
      OBVIOUS
    <3>3. /\ now.id = inFlight[d] /\ now.collection = d /\ ~now.old
          /\ now.request = cmd.request
          /\ now.serves = IF d = c THEN cmd.serves \ asked ELSE cmd.serves
      BY <3>1, <1>4
    <3> HIDE DEF now, open
    <3>4. /\ now.serves \subseteq Covers(now.request)
          /\ need[d] \subseteq Covers(p[d]) \cup now.serves
      BY <2>1, <3>1, <3>3
    <3> QED BY <2>3, <3>2, <3>3, <3>4 DEF Carried
  <2> QED BY <2>2, <2>3
<1>8. ASSUME NEW now \in open, ~now.old PROVE inFlight[now.collection] = now.id
  <2>1. PICK cmd \in commands : now = later(cmd)
    OBVIOUS
  <2>2. ~cmd.old /\ now.id = cmd.id /\ now.collection = cmd.collection
    BY <2>1, <1>4, <1>8
  <2> QED BY <2>2, <1>2
<1> HIDE DEF p, open, need
<1>9. Kept(p, inFlight, open, need)
  BY <1>2, <1>5, <1>6, <1>7, <1>8 DEF Kept
<1>10. Kept(pending', inFlight', commands', owed')
  <2>1. CASE sender
    BY <2>1, <1>1, <1>9, FlushKeeps
  <2>2. CASE ~sender
    BY <2>2, <1>1, <1>9 DEF Keep
  <2> QED BY <2>1, <2>2
<1>11. ~sender' => \A d \in Collections : inFlight'[d] = None
  BY <1>1 DEF Inv, Keep
<1>12. refused' \in SUBSET Collections /\ WaitsOnlyWhenRefused'
  <2>1. CASE sender
    BY <2>1, <1>1, <1>5, FlushSends DEF WaitsOnlyWhenRefused
  <2>2. CASE ~sender
    BY <2>2, <1>1 DEF Inv, Keep, WaitsOnlyWhenRefused
  <2> QED BY <2>1, <2>2
<1> QED BY <1>1, <1>10, <1>11, <1>12 DEF Inv

LEMMA ConnectedInv == ASSUME Inv, Connected PROVE Inv'
<1>1. Kept(pending, inFlight, commands, owed) /\ Flush(pending, inFlight, commands, owed)
  BY DEF Inv, Connected
<1>2. Kept(pending', inFlight', commands', owed)
  BY <1>1, FlushKeeps
<1>3. refused' \in SUBSET Collections /\ WaitsOnlyWhenRefused'
  BY <1>1, FlushSends DEF Kept, WaitsOnlyWhenRefused
<1> QED BY <1>2, <1>3 DEF Inv, Connected

LEMMA DisconnectedInv == ASSUME Inv, Disconnected PROVE Inv'
<1> DEFINE outdated(cmd) == [cmd EXCEPT !.old = TRUE]
<1>1. /\ sender' = FALSE /\ owed' = owed /\ repairs' = repairs
      /\ pending' = [c \in Collections |-> IF inFlight[c] = None THEN pending[c]
                                           ELSE Requeued(pending[c], CommandOf(c).request)]
      /\ inFlight' = [c \in Collections |-> None]
      /\ commands' = {outdated(cmd) : cmd \in commands}
      /\ refused' = {}
  BY DEF Disconnected
<1>2. /\ pending \in [Collections -> Request \cup {None}]
      /\ commands \in SUBSET Command
      /\ \A x, y \in commands : x.id = y.id => x = y
      /\ owed \in [Collections -> SUBSET (Items \cup {Whole})]
  BY DEF Inv, Kept
<1>3. ASSUME NEW cmd \in commands
      PROVE  outdated(cmd) \in Command /\ outdated(cmd).id = cmd.id /\ outdated(cmd).old
  BY <1>2 DEF Command
<1> HIDE DEF outdated
<1>4. /\ commands' \in SUBSET Command
      /\ \A x, y \in commands' : x.id = y.id => x = y
      /\ \A cmd \in commands' : cmd.old
  BY <1>1, <1>2, <1>3
<1>5. ASSUME NEW c \in Collections
      PROVE  pending'[c] \in Request \cup {None} /\ owed[c] \subseteq Covers(pending'[c])
  <2>1. CASE inFlight[c] = None
    BY <2>1, <1>1, <1>2 DEF Inv, Kept
  <2>2. CASE inFlight[c] # None
    <3>1. /\ CommandOf(c) \in commands
          /\ CommandOf(c).serves \subseteq Covers(CommandOf(c).request)
          /\ owed[c] \subseteq Covers(pending[c]) \cup CommandOf(c).serves
      BY <2>2, InFlightCommand
    <3>2. CommandOf(c).request \in Request /\ pending[c] \in Request \cup {None}
      BY <3>1, <1>2 DEF Command
    <3>3. pending'[c] = Requeued(pending[c], CommandOf(c).request)
      BY <2>2, <1>1
    <3> QED BY <3>1, <3>2, <3>3, RequeuedCovers
  <2> QED BY <2>1, <2>2
<1>6. pending' \in [Collections -> Request \cup {None}]
  BY <1>1, <1>5
<1>7. Kept(pending', inFlight', commands', owed')
  BY <1>1, <1>2, <1>4, <1>5, <1>6 DEF Kept
<1> QED BY <1>1, <1>7 DEF Inv, WaitsOnlyWhenRefused

(* The settlement of a command ends what is in flight only if it is that    *)
(* command, and is no news to the others.                                   *)
LEMMA OthersCarried ==
  ASSUME Inv, NEW cmd \in commands, NEW d \in Collections, inFlight[d] # None,
         d # cmd.collection \/ inFlight[d] # cmd.id
  PROVE  \E x \in commands \ {cmd} :
           /\ x.id = inFlight[d] /\ x.collection = d /\ ~x.old
           /\ x.serves \subseteq Covers(x.request)
           /\ owed[d] \subseteq Covers(pending[d]) \cup x.serves
BY DEF Inv, Kept, Carried

LEMMA AcceptedInv == ASSUME Inv, NEW cmd \in commands, Accepted(cmd) PROVE Inv'
<1> DEFINE open == commands \ {cmd}
           need == [owed EXCEPT ![cmd.collection] = @ \ cmd.serves]
           flight == IF Tracked(cmd) THEN Untrack(cmd) ELSE inFlight
<1>1. /\ owed' = need /\ sender' = sender /\ repairs' = repairs
      /\ Flush(pending, flight, open, need) \/ Keep(pending, flight, open)
      /\ ~sender => Keep(pending, flight, open)
      /\ ~Flush(pending, flight, open, need) =>
           Keep(pending, flight, open) /\ (~sender \/ ~Tracked(cmd))
  BY DEF Accepted, Onward
<1>2. /\ pending \in [Collections -> Request \cup {None}]
      /\ inFlight \in [Collections -> Ids \cup {None}]
      /\ commands \in SUBSET Command
      /\ \A x, y \in commands : x.id = y.id => x = y
      /\ owed \in [Collections -> SUBSET (Items \cup {Whole})]
      /\ \A x \in commands : ~x.old => inFlight[x.collection] = x.id
  BY DEF Inv, Kept
<1>3. cmd.collection \in Collections
  BY <1>2 DEF Command
<1>4. /\ flight \in [Collections -> Ids \cup {None}]
      /\ \A d \in Collections :
           flight[d] = IF d = cmd.collection /\ Tracked(cmd) THEN None ELSE inFlight[d]
  BY <1>2, <1>3 DEF Untrack
<1>5. /\ need \in [Collections -> SUBSET (Items \cup {Whole})]
      /\ \A d \in Collections : need[d] \subseteq owed[d]
      /\ need[cmd.collection] = owed[cmd.collection] \ cmd.serves
  BY <1>2, <1>3
<1> HIDE DEF flight, need
<1>6. ASSUME NEW d \in Collections
      PROVE  IF flight[d] = None THEN need[d] \subseteq Covers(pending[d])
             ELSE Carried(d, pending, flight, open, need)
  <2>1. CASE d = cmd.collection /\ Tracked(cmd)
    <3>1. inFlight[d] # None /\ cmd.id = inFlight[d]
      BY <2>1, <1>2, ConstantsAssumption DEF Tracked, Command
    <3>2. CommandOf(d) = cmd
      BY <3>1, <1>2, InFlightCommand
    <3>3. owed[d] \subseteq Covers(pending[d]) \cup cmd.serves
      BY <3>1, <3>2, InFlightCommand
    <3> QED BY <2>1, <3>3, <1>4, <1>5
  <2>2. CASE ~(d = cmd.collection /\ Tracked(cmd)) /\ inFlight[d] = None
    BY <2>2, <1>4, <1>5 DEF Inv, Kept
  <2>3. CASE ~(d = cmd.collection /\ Tracked(cmd)) /\ inFlight[d] # None
    <3>1. PICK x \in open :
            /\ x.id = inFlight[d] /\ x.collection = d /\ ~x.old
            /\ x.serves \subseteq Covers(x.request)
            /\ owed[d] \subseteq Covers(pending[d]) \cup x.serves
      BY <2>3, OthersCarried DEF Tracked
    <3>2. flight[d] = inFlight[d] /\ need[d] \subseteq owed[d]
      BY <2>3, <1>4, <1>5
    <3> QED BY <2>3, <3>1, <3>2 DEF Carried
  <2> QED BY <2>1, <2>2, <2>3
<1>7. ASSUME NEW x \in open, ~x.old
      PROVE  flight[x.collection] = x.id
  <2>1. x.collection \in Collections /\ inFlight[x.collection] = x.id /\ x.id # cmd.id
    BY <1>2, <1>7 DEF Command
  <2> QED BY <2>1, <1>4 DEF Tracked
<1>8. open \in SUBSET Command /\ \A x, y \in open : x.id = y.id => x = y
  BY <1>2
<1> HIDE DEF open
<1>9. Kept(pending, flight, open, need)
  BY <1>2, <1>4, <1>5, <1>6, <1>7, <1>8 DEF Kept
<1>10. Kept(pending', inFlight', commands', owed')
  BY <1>1, <1>9, FlushKeeps DEF Keep
<1>11. ~sender => \A d \in Collections : inFlight'[d] = None
  BY <1>1, <1>4 DEF Inv, Keep
<1>12. refused' \in SUBSET Collections /\ WaitsOnlyWhenRefused'
  <2>1. CASE Flush(pending, flight, open, need)
    BY <2>1, <1>2, FlushSends DEF WaitsOnlyWhenRefused
  <2>2. CASE ~Flush(pending, flight, open, need)
    <3>1. Keep(pending, flight, open) /\ (~sender \/ ~Tracked(cmd))
      BY <2>2, <1>1
    <3>2. ~Tracked(cmd) => \A d \in Collections : flight[d] = inFlight[d]
      BY <1>4
    <3>3. pending' = pending /\ inFlight' = flight /\ refused' = refused /\ sender' = sender
      BY <1>1, <3>1 DEF Keep
    <3> QED BY <3>1, <3>2, <3>3 DEF Inv, WaitsOnlyWhenRefused
  <2> QED BY <2>1, <2>2
<1> QED BY <1>1, <1>10, <1>11, <1>12 DEF Inv

LEMMA RejectedInv == ASSUME Inv, NEW cmd \in commands, Rejected(cmd) PROVE Inv'
<1>1. /\ pending \in [Collections -> Request \cup {None}]
      /\ inFlight \in [Collections -> Ids \cup {None}]
      /\ commands \in SUBSET Command
      /\ \A x, y \in commands : x.id = y.id => x = y
      /\ owed \in [Collections -> SUBSET (Items \cup {Whole})]
      /\ \A x \in commands : ~x.old => inFlight[x.collection] = x.id
  BY DEF Inv, Kept
<1>2. cmd.collection \in Collections /\ cmd.request \in Request /\ cmd.id \in Ids
  BY <1>1 DEF Command
<1>3. /\ commands' = commands \ {cmd} /\ owed' = owed /\ sender' = sender /\ repairs' = repairs
      /\ pending' = IF Tracked(cmd)
                    THEN [pending EXCEPT ![cmd.collection] = Requeued(@, cmd.request)] ELSE pending
      /\ inFlight' = IF Tracked(cmd) THEN Untrack(cmd) ELSE inFlight
      /\ refused' = IF Tracked(cmd) THEN refused \cup {cmd.collection} ELSE refused
  BY DEF Rejected
<1>4. ASSUME NEW d \in Collections
      PROVE  IF inFlight'[d] = None THEN owed[d] \subseteq Covers(pending'[d])
             ELSE Carried(d, pending', inFlight', commands', owed)
  <2>1. CASE d = cmd.collection /\ Tracked(cmd)
    <3>1. inFlight[d] # None /\ cmd.id = inFlight[d]
      BY <2>1, <1>1, <1>2, ConstantsAssumption DEF Tracked
    <3>2. CommandOf(d) = cmd
      BY <3>1, <1>1, InFlightCommand
    <3>3. owed[d] \subseteq Covers(pending[d]) \cup cmd.serves /\ cmd.serves \subseteq Covers(cmd.request)
      BY <3>1, <3>2, InFlightCommand
    <3>4. pending'[d] = Requeued(pending[d], cmd.request) /\ inFlight'[d] = None
      BY <2>1, <1>1, <1>3 DEF Untrack
    <3>5. pending[d] \in Request \cup {None}
      BY <1>1
    <3>6. /\ Covers(pending[d]) \subseteq Covers(pending'[d])
          /\ Covers(cmd.request) \subseteq Covers(pending'[d])
      BY <1>2, <3>4, <3>5, RequeuedCovers
    <3> QED BY <3>3, <3>4, <3>6
  <2>2. CASE ~(d = cmd.collection /\ Tracked(cmd))
    <3>1. pending'[d] = pending[d] /\ inFlight'[d] = inFlight[d]
      BY <2>2, <1>1, <1>2, <1>3 DEF Untrack
    <3>2. CASE inFlight[d] = None
      BY <3>1, <3>2 DEF Inv, Kept
    <3>3. CASE inFlight[d] # None
      <4>1. PICK x \in commands \ {cmd} :
              /\ x.id = inFlight[d] /\ x.collection = d /\ ~x.old
              /\ x.serves \subseteq Covers(x.request)
              /\ owed[d] \subseteq Covers(pending[d]) \cup x.serves
        BY <2>2, <3>3, OthersCarried DEF Tracked
      <4> QED BY <1>3, <3>1, <3>3, <4>1 DEF Carried
    <3> QED BY <3>2, <3>3
  <2> QED BY <2>1, <2>2
<1>5. /\ pending' \in [Collections -> Request \cup {None}]
      /\ inFlight' \in [Collections -> Ids \cup {None}]
  <2>1. pending[cmd.collection] \in Request \cup {None}
    BY <1>1, <1>2
  <2>2. Requeued(pending[cmd.collection], cmd.request) \in Request
    BY <1>2, <2>1, RequeuedCovers
  <2> QED BY <1>1, <1>3, <2>2 DEF Untrack
<1>6. ASSUME NEW x \in commands', ~x.old
      PROVE  inFlight'[x.collection] = x.id
  <2>1. x.collection \in Collections /\ inFlight[x.collection] = x.id /\ x.id # cmd.id
    BY <1>1, <1>3, <1>6 DEF Command
  <2> QED BY <2>1, <1>1, <1>3 DEF Tracked, Untrack
<1>7. Kept(pending', inFlight', commands', owed')
  BY <1>1, <1>3, <1>4, <1>5, <1>6 DEF Kept
<1>8. ~sender' => \A d \in Collections : inFlight'[d] = None
  BY <1>1, <1>3 DEF Inv, Untrack
<1>9. refused' \in SUBSET Collections /\ WaitsOnlyWhenRefused'
  BY <1>1, <1>2, <1>3 DEF Inv, Untrack, WaitsOnlyWhenRefused
<1> QED BY <1>3, <1>7, <1>8, <1>9 DEF Inv

LEMMA StutterInv == ASSUME Inv, UNCHANGED vars PROVE Inv'
BY DEF Inv, Kept, Carried, WaitsOnlyWhenRefused, vars

LEMMA NextInv == ASSUME Inv, [Next]_vars PROVE Inv'
<1>1. CASE \E c \in Collections, items \in SUBSET Items : Repair(c, items)
  BY <1>1, RepairInv
<1>2. CASE Connected
  BY <1>2, ConnectedInv
<1>3. CASE Disconnected
  BY <1>3, DisconnectedInv
<1>4. CASE \E cmd \in commands : Settles(cmd)
  BY <1>4, AcceptedInv, RejectedInv DEF Settles
<1>5. CASE UNCHANGED vars
  BY <1>5, StutterInv
<1> QED BY <1>1, <1>2, <1>3, <1>4, <1>5 DEF Next

LEMMA InvHolds == Spec => []Inv
<1>1. Init => Inv
  BY InitInv
<1>2. Inv /\ [Next]_vars => Inv'
  BY NextInv
<1> QED BY <1>1, <1>2, PTL DEF Spec

(* The maps of the coordinator and the commands whose promise is open have   *)
(* their types, and what is in flight is one of these commands.             *)
THEOREM TypeCorrect == Spec => []TypeOK
<1>1. Inv => TypeOK
  <2> SUFFICES ASSUME Inv PROVE TypeOK
    OBVIOUS
  <2>1. \A c \in Collections : inFlight[c] \in {None} \cup {cmd.id : cmd \in commands}
    BY DEF Inv, Kept, Carried
  <2> QED BY <2>1 DEF Inv, Kept, TypeOK
<1> QED BY <1>1, InvHolds, PTL

(* Merging, flushing, disconnections, refusals and promises that settle late *)
(* (mediaRepairCoordinator.ts) lose no request, for any number of each.      *)
THEOREM NothingLost == Spec => []NoRequestLost
<1>1. Inv => NoRequestLost
  <2> SUFFICES ASSUME Inv, NEW c \in Collections
               PROVE  owed[c] \subseteq Covers(pending[c])
                        \cup (IF inFlight[c] = None THEN {} ELSE CommandOf(c).serves)
    BY DEF NoRequestLost
  <2>1. CASE inFlight[c] = None
    BY <2>1 DEF Inv, Kept
  <2>2. CASE inFlight[c] # None
    BY <2>2, InFlightCommand
  <2> QED BY <2>1, <2>2
<1> QED BY <1>1, InvHolds, PTL

(* Within a connection no second command for a collection is sent before the *)
(* first has settled, whatever commands of earlier connections still do.     *)
THEOREM NoSecondCommand == Spec => []OneAtATime
<1>1. Inv => OneAtATime
  <2> SUFFICES ASSUME Inv, NEW cmd \in commands, ~cmd.old PROVE sender /\ Tracked(cmd)
    BY DEF OneAtATime
  <2>1. cmd.id \in Ids /\ cmd.collection \in Collections /\ inFlight[cmd.collection] = cmd.id
    BY DEF Inv, Kept, Command
  <2> QED BY <2>1, ConstantsAssumption DEF Inv, Tracked
<1> QED BY <1>1, InvHolds, PTL

(* Whatever is merged, refused, settled late or sent again, a request waits  *)
(* on an open stream only behind a command of its collection or because the  *)
(* server refused it and nothing has been sent since.                        *)
THEOREM NothingForgotten == Spec => []WaitsOnlyWhenRefused
<1>1. Inv => WaitsOnlyWhenRefused
  BY DEF Inv
<1> QED BY <1>1, InvHolds, PTL

-----------------------------------------------------------------------------
(* The body of the running handler.                                         *)
Own == [sequence |-> store.sequence, key |-> handler.key, version |-> handler.version]

(* What waits is the body with the last sequence; the receiver is at that   *)
(* body or just before it.                                                  *)
OutboxInv ==
  /\ store \in [sequence: Nat, outbox: SUBSET Outbox!Bodies]
  /\ receiver \in [body: Outbox!Bodies \cup {Outbox!NoBody}, gap: BOOLEAN]
  /\ \A body \in store.outbox : body.sequence = store.sequence
  /\ \A body, other \in store.outbox : body = other
  /\ \/ /\ receiver.body.sequence = store.sequence
        /\ \A body \in store.outbox : body = receiver.body
     \/ receiver.body.sequence + 1 = store.sequence /\ store.outbox # {}

(* Where the running handler is, in terms of the outbox.                    *)
HandlerInv ==
  /\ handler = Outbox!Idle \/ handler \in Outbox!Running
  /\ handler.pc \in {"flushed", "pushed"} => receiver.body.sequence = store.sequence
  /\ handler.pc = "push" => Own \in store.outbox

EventsInv ==
  entries \in [Entries -> Nat] /\ events \in Seq(Outbox!Keys) /\ changes \in Nat

WaitingInv == OutboxInv /\ HandlerInv /\ EventsInv

LEMMA SequenceType ==
  ASSUME OutboxInv
  PROVE  /\ store.sequence \in Nat /\ store.outbox \subseteq Outbox!Bodies
         /\ receiver.body \in Outbox!Bodies \cup {Outbox!NoBody} /\ receiver.body.sequence \in Nat
  BY DEF OutboxInv, Outbox!Bodies, Outbox!NoBody

LEMMA WaitingImplies ==
  ASSUME WaitingInv
  PROVE  NothingAllocatedIsLost /\ OutboxIsReady
<1>1. store.sequence \in Nat /\ receiver.body.sequence \in Nat
  BY SequenceType DEF WaitingInv
<1>2. OneBodyWaits
  BY DEF WaitingInv, OutboxInv, OneBodyWaits
<1>3. NothingAllocatedIsLost
  BY <1>1 DEF WaitingInv, OutboxInv, NothingAllocatedIsLost
<1>4. RetriesAreAccepted
  BY <1>1 DEF WaitingInv, OutboxInv, RetriesAreAccepted, Acceptable
<1> QED BY <1>2, <1>3, <1>4 DEF OutboxIsReady

LEMMA WaitingInit == Outbox!Init => WaitingInv
  BY DEF Outbox!Init, WaitingInv, OutboxInv, HandlerInv, EventsInv, Outbox!Idle, Outbox!NoBody

(* A POST of the body that waits: the receiver is then at that body, or     *)
(* nothing changed.                                                         *)
LEMMA PostInv ==
  ASSUME WaitingInv, NEW body \in store.outbox, NEW next \in {"flushed", "pushed"},
         handler \in Outbox!Running, Outbox!Post(body, next)
  PROVE  WaitingInv'
<1>1. /\ store.sequence \in Nat /\ body \in Outbox!Bodies /\ receiver.body.sequence \in Nat
      /\ body.sequence = store.sequence /\ body.sequence \in Nat
  BY SequenceType DEF WaitingInv, OutboxInv, Outbox!Bodies
<1>2. UNCHANGED <<entries, events, store, changes>>
  BY DEF Outbox!Post
<1>3. CASE Outbox!ReceiverTakes(body)
  <2>1. receiver'.body = body /\ receiver' \in [body: Outbox!Bodies \cup {Outbox!NoBody}, gap: BOOLEAN]
    BY <1>1, <1>3 DEF Outbox!ReceiverTakes, WaitingInv, OutboxInv
  <2>2. OutboxInv'
    BY <1>1, <1>2, <2>1 DEF WaitingInv, OutboxInv
  <2>3. handler' = Outbox!Idle \/ handler' = [handler EXCEPT !.pc = next]
    BY DEF Outbox!Post
  <2>4. handler' = Outbox!Idle \/ (handler' \in Outbox!Running /\ handler'.pc = next)
    BY <2>3 DEF Outbox!Running
  <2>5. HandlerInv'
    BY <1>1, <1>2, <2>1, <2>4 DEF HandlerInv, Outbox!Idle
  <2> QED BY <1>2, <2>2, <2>5 DEF WaitingInv, EventsInv
<1>4. CASE handler' = Outbox!Idle /\ UNCHANGED receiver
  BY <1>2, <1>4 DEF WaitingInv, OutboxInv, HandlerInv, EventsInv, Outbox!Idle
<1> QED BY <1>3, <1>4 DEF Outbox!Post

(* Removing the body the receiver is at leaves nothing waiting.             *)
LEMMA RemoveInv ==
  ASSUME WaitingInv, NEW next, Outbox!Remove(next), receiver.body.sequence = store.sequence,
         next = Outbox!Idle \/ (next \in Outbox!Running /\ next.pc = "flush")
  PROVE  WaitingInv'
<1>1. store'.outbox = {} /\ store'.sequence = store.sequence /\ receiver' = receiver
      /\ store' \in [sequence: Nat, outbox: SUBSET Outbox!Bodies]
  <2>1. store' = [store EXCEPT !.outbox = @ \ {receiver.body}] /\ receiver' = receiver
    BY DEF Outbox!Remove
  <2>2. \A body \in store.outbox : body = receiver.body
    BY SequenceType DEF WaitingInv, OutboxInv
  <2> QED BY <2>1, <2>2 DEF WaitingInv, OutboxInv
<1>2. OutboxInv'
  BY <1>1 DEF WaitingInv, OutboxInv
<1>3. handler' = next /\ UNCHANGED <<entries, events, changes>>
  BY DEF Outbox!Remove
<1>4. HandlerInv'
  BY <1>3 DEF HandlerInv, Outbox!Idle
<1> QED BY <1>2, <1>3, <1>4 DEF WaitingInv, EventsInv

LEMMA RunningHandler ==
  ASSUME WaitingInv, handler.pc # "idle"
  PROVE  handler \in Outbox!Running
  BY DEF WaitingInv, HandlerInv, Outbox!Idle

LEMMA WaitingNext == WaitingInv /\ [Outbox!Next]_(Outbox!vars) => WaitingInv'
<1> SUFFICES ASSUME WaitingInv, [Outbox!Next]_(Outbox!vars) PROVE WaitingInv'
  OBVIOUS
<1>0. /\ store.sequence \in Nat /\ store.outbox \subseteq Outbox!Bodies
      /\ receiver.body.sequence \in Nat
  BY SequenceType DEF WaitingInv
<1>1. ASSUME UNCHANGED <<store, receiver>>, EventsInv', handler' = Outbox!Idle PROVE WaitingInv'
  BY <1>1 DEF WaitingInv, OutboxInv, HandlerInv, Outbox!Idle
<1>2. ASSUME NEW i \in Entries, NEW operation \in Outbox!Operations, Outbox!Change(i, operation)
      PROVE  WaitingInv'
  <2>1. EventsInv'
    <3>1. <<operation, i>> \in Outbox!Keys
      BY DEF Outbox!Keys
    <3>2. events' \in Seq(Outbox!Keys)
      BY <1>2, <3>1 DEF Outbox!Change, WaitingInv, EventsInv
    <3>3. entries' \in [Entries -> Nat] /\ changes' \in Nat
      BY <1>2 DEF Outbox!Change, WaitingInv, EventsInv
    <3> QED BY <3>2, <3>3 DEF EventsInv
  <2> QED BY <1>2, <2>1 DEF Outbox!Change, WaitingInv, OutboxInv, HandlerInv, Own
<1>3. CASE Outbox!Begin
  <2>1. Head(events) \in Outbox!Keys /\ events' \in Seq(Outbox!Keys)
    BY <1>3 DEF Outbox!Begin, WaitingInv, EventsInv
  <2>2. EventsInv'
    BY <1>3, <2>1 DEF Outbox!Begin, WaitingInv, EventsInv
  <2>3. handler' = Outbox!Idle \/ (handler' \in Outbox!Running /\ handler'.pc = "flush")
    <3> DEFINE key == Head(events)
               version == IF key[1] = "delete" THEN 0 ELSE entries[key[2]]
    <3>1. version \in Nat
      BY <2>1 DEF Outbox!Keys, WaitingInv, EventsInv
    <3>2. Outbox!RetriesCurrent(key) \in BOOLEAN
      BY DEF Outbox!RetriesCurrent
    <3>3. \/ handler' = Outbox!Idle
          \/ handler' = [pc |-> "flush", key |-> key, version |-> version,
                         retried |-> Outbox!RetriesCurrent(key)]
      BY <1>3 DEF Outbox!Begin
    <3> HIDE DEF version, key
    <3> QED BY <2>1, <3>1, <3>2, <3>3 DEF Outbox!Running, key
  <2> QED BY <1>3, <2>2, <2>3 DEF Outbox!Begin, WaitingInv, OutboxInv, HandlerInv, Outbox!Idle
<1>4. CASE Outbox!FlushPost
  <2>1. Outbox!Oldest \in store.outbox
    <3>1. PICK body \in store.outbox : TRUE
      BY <1>4 DEF Outbox!FlushPost
    <3>2. \A other \in store.outbox : body.sequence <= other.sequence
      BY <1>0 DEF WaitingInv, OutboxInv
    <3> QED BY <3>1, <3>2 DEF Outbox!Oldest
  <2>2. Outbox!Post(Outbox!Oldest, "flushed") /\ handler \in Outbox!Running
    BY <1>4, RunningHandler DEF Outbox!FlushPost
  <2> QED BY <2>1, <2>2, PostInv
<1>5. CASE Outbox!FlushRemove
  <2>1. handler \in Outbox!Running /\ receiver.body.sequence = store.sequence
        /\ Outbox!Remove([handler EXCEPT !.pc = "flush"])
    BY <1>5, RunningHandler DEF Outbox!FlushRemove, WaitingInv, HandlerInv
  <2>2. [handler EXCEPT !.pc = "flush"] \in Outbox!Running
        /\ [handler EXCEPT !.pc = "flush"].pc = "flush"
    BY <2>1 DEF Outbox!Running
  <2> QED BY <2>1, <2>2, RemoveInv
<1>6. CASE Outbox!FlushedCurrent
  BY <1>1, <1>6 DEF Outbox!FlushedCurrent, WaitingInv, EventsInv
<1>7. CASE Outbox!Allocate
  <2> DEFINE body == [sequence |-> store.sequence + 1, key |-> handler.key,
                      version |-> handler.version]
  <2>1. handler \in Outbox!Running /\ store.outbox = {}
    BY <1>7, RunningHandler DEF Outbox!Allocate, Outbox!OutboxFlushed
  <2>2. body \in Outbox!Bodies /\ body.sequence = store.sequence + 1
    BY <1>0, <2>1 DEF Outbox!Running, Outbox!Bodies
  <2>3. store' = [sequence |-> store.sequence + 1, outbox |-> {body}]
    BY <1>7, <2>1 DEF Outbox!Allocate, Outbox!QueuedState, Outbox!NextSequence
  <2>4. receiver' = receiver /\ receiver.body.sequence = store.sequence
    BY <1>7, <2>1 DEF Outbox!Allocate, WaitingInv, OutboxInv
  <2>5. /\ handler' \in Outbox!Running /\ handler'.pc = "push"
        /\ handler'.key = handler.key /\ handler'.version = handler.version
    BY <1>7, <2>1 DEF Outbox!Allocate, Outbox!Running
  <2>6. OutboxInv'
    BY <1>0, <2>2, <2>3, <2>4 DEF WaitingInv, OutboxInv
  <2>7. HandlerInv'
    BY <2>3, <2>5 DEF HandlerInv, Own
  <2> QED BY <1>7, <2>6, <2>7 DEF Outbox!Allocate, WaitingInv, EventsInv
<1>8. CASE Outbox!PushPost
  <2>1. Own \in store.outbox /\ handler \in Outbox!Running /\ Outbox!Post(Own, "pushed")
    BY <1>8, RunningHandler DEF Outbox!PushPost, Own, WaitingInv, HandlerInv
  <2> QED BY <2>1, PostInv
<1>9. CASE Outbox!PushRemove
  BY <1>9, RemoveInv DEF Outbox!PushRemove, WaitingInv, HandlerInv
<1>10. CASE Outbox!HandlerThrows
  BY <1>1, <1>10 DEF Outbox!HandlerThrows, WaitingInv, EventsInv
<1>11. CASE Outbox!Restart
  <2>1. EventsInv'
    BY <1>11 DEF Outbox!Restart, WaitingInv, EventsInv
  <2> QED BY <1>1, <1>11, <2>1 DEF Outbox!Restart
<1>12. CASE UNCHANGED Outbox!vars
  BY <1>12 DEF Outbox!vars, WaitingInv, OutboxInv, HandlerInv, EventsInv, Own
<1> QED
  BY <1>2, <1>3, <1>4, <1>5, <1>6, <1>7, <1>8, <1>9, <1>10, <1>11, <1>12 DEF Outbox!Next, Outbox!Handle

LEMMA WaitingHolds == Outbox!Spec => []WaitingInv
BY WaitingInit, WaitingNext, PTL DEF Outbox!Spec

(* The receiver takes every sequence the store has ever allocated: what it  *)
(* has not taken yet is still in the outbox, body and all.                  *)
THEOREM NoBodyLost == Outbox!Spec => []NothingAllocatedIsLost
<1>1. WaitingInv => NothingAllocatedIsLost
  BY WaitingImplies
<1> QED BY <1>1, WaitingHolds, PTL

(* Every retry is the exact body the receiver is waiting for or has just    *)
(* taken, so that no body can overtake another.                             *)
THEOREM OutboxReady == Outbox!Spec => []OutboxIsReady
<1>1. WaitingInv => OutboxIsReady
  BY WaitingImplies
<1> QED BY <1>1, WaitingHolds, PTL
=============================================================================
