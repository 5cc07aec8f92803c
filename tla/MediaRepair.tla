---------------------------- MODULE MediaRepair ----------------------------
(***************************************************************************)
(* The media repair coordinator                                            *)
(* (contfu/src/features/sync/mediaRepairCoordinator.ts): requests to       *)
(* refresh items whose files cannot be downloaded are merged per           *)
(* collection, sent while the stream is connected, one command at a time   *)
(* for a collection, and kept across disconnections.                       *)
(*                                                                         *)
(* The promise of a command may settle late: after the disconnection, even *)
(* after the next connection has sent the request again.  A request that   *)
(* the server refuses is kept, but nothing sends it: it waits for whatever *)
(* flushes next, a request, a settlement or a connection.                  *)
(***************************************************************************)
EXTENDS Naturals, FiniteSets

CONSTANTS
  Collections, Items,
  Threshold,     \* items from which the whole collection is refreshed (10)
  Whole,         \* what a request without items asks for
  None,
  MaxRepairs,    \* bound: requests
  MaxCommands    \* bound: commands whose promise is open

VARIABLES
  pending,   \* the merged request of each collection that is not sent
  inFlight,  \* the request of each collection that is sent, by its command
  commands,  \* commands whose promise is open
  sender,    \* the stream is connected
  refused,   \* history: collections refused since the last flush
  owed,      \* history: what was asked for and no later command has brought
  repairs

vars == <<pending, inFlight, commands, sender, refused, owed, repairs>>

Request == [items: SUBSET Items, all: BOOLEAN]
Ids == 1..(MaxCommands + Cardinality(Collections))
Command == [id: Ids, collection: Collections, request: Request,
            serves: SUBSET (Items \cup {Whole}), old: BOOLEAN]

ASSUME ConstantsAssumption ==
  /\ Whole \notin Items
  /\ None \notin Request \cup Ids
  /\ Threshold \in Nat /\ MaxRepairs \in Nat /\ MaxCommands \in Nat

Covers(request) == IF request = None THEN {}
                   ELSE IF request.all THEN Items \cup {Whole} ELSE request.items

CommandOf(c) == CHOOSE cmd \in commands : cmd.id = inFlight[c]

-----------------------------------------------------------------------------
Merged(request, items, all) ==
  IF request = None THEN [items |-> items, all |-> all]
  ELSE [items |-> request.items \cup items, all |-> request.all \/ all]

(* enqueue: without items, or with many, the whole collection is asked for. *)
Enqueued(request, items) ==
  LET merged == Merged(request, items, items = {})
  IN [merged EXCEPT !.all = @ \/ Cardinality(merged.items) >= Threshold]

(* Faulty variant: a request that comes while one is sent replaces it.      *)
LatestOnly(request, entry) == IF request = None THEN entry ELSE request
Requeued(request, entry) == Merged(request, entry.items, entry.all)

MaySend(p, flight, c) == p[c] # None /\ flight[c] = None

FreeIds(open) == Ids \ {cmd.id : cmd \in open}
Numbering(C, free) == {f \in [C -> free] : \A c, d \in C : f[c] = f[d] => c = d}

(* flush: every collection with a request and no command in flight sends.   *)
Flush(p, flight, open, need) ==
  LET ready == {c \in Collections : MaySend(p, flight, c)}
      id == CHOOSE f \in Numbering(ready, FreeIds(open)) : TRUE
  IN /\ Numbering(ready, FreeIds(open)) # {}  \* always: there are ids enough
     /\ refused' = {}
     /\ pending' = [c \in Collections |-> IF c \in ready THEN None ELSE p[c]]
     /\ inFlight' = [c \in Collections |-> IF c \in ready THEN id[c] ELSE flight[c]]
     /\ commands' = open \cup {[id |-> id[c], collection |-> c, request |-> p[c],
                                serves |-> need[c] \cap Covers(p[c]), old |-> FALSE] :
                               c \in ready}

Keep(p, flight, open) ==
  pending' = p /\ inFlight' = flight /\ commands' = open /\ UNCHANGED refused

-----------------------------------------------------------------------------
Init ==
  /\ pending = [c \in Collections |-> None]
  /\ inFlight = [c \in Collections |-> None]
  /\ commands = {} /\ sender = FALSE /\ refused = {}
  /\ owed = [c \in Collections |-> {}]
  /\ repairs = 0

(* repair: a download has found that items of c need their files again.     *)
Repair(c, items) ==
  /\ repairs < MaxRepairs
  /\ repairs' = repairs + 1
  /\ LET asked == IF items = {} THEN {Whole} ELSE items
         p == [pending EXCEPT ![c] = Enqueued(@, items)]
         open == {IF cmd.collection = c THEN [cmd EXCEPT !.serves = @ \ asked] ELSE cmd :
                    cmd \in commands}
     IN /\ owed' = [owed EXCEPT ![c] = @ \cup asked]
        /\ IF sender THEN Flush(p, inFlight, open, owed') ELSE Keep(p, inFlight, open)
  /\ UNCHANGED sender

Connected ==
  /\ ~sender /\ Cardinality(commands) <= MaxCommands
  /\ sender' = TRUE
  /\ Flush(pending, inFlight, commands, owed)
  /\ UNCHANGED <<owed, repairs>>

(* What is in flight is to be sent again.                                   *)
Disconnected ==
  /\ sender
  /\ sender' = FALSE
  /\ pending' = [c \in Collections |-> IF inFlight[c] = None THEN pending[c]
                                       ELSE Requeued(pending[c], CommandOf(c).request)]
  /\ inFlight' = [c \in Collections |-> None]
  /\ commands' = {[cmd EXCEPT !.old = TRUE] : cmd \in commands}
  /\ refused' = {}
  /\ UNCHANGED <<owed, repairs>>

(* Faulty variant: any settlement ends what is in flight.                   *)
AnyCommand(cmd) == inFlight[cmd.collection] # None
Tracked(cmd) == inFlight[cmd.collection] = cmd.id

(* Faulty variant: the entry in flight stays after its command.             *)
KeepTracked(cmd) == inFlight
Untrack(cmd) == [inFlight EXCEPT ![cmd.collection] = None]

(* Faulty variant: what waits behind a command is not sent after it.        *)
NoFlush(p, flight, open, need) == Keep(p, flight, open)
Onward(p, flight, open, need) ==
  IF sender THEN Flush(p, flight, open, need) ELSE Keep(p, flight, open)

(* The server has the command.  A settlement of a command that is no longer *)
(* tracked changes nothing here.                                            *)
Accepted(cmd) ==
  LET open == commands \ {cmd}
      need == [owed EXCEPT ![cmd.collection] = @ \ cmd.serves]
  IN /\ owed' = need
     /\ IF Tracked(cmd) THEN Onward(pending, Untrack(cmd), open, need)
        ELSE Keep(pending, inFlight, open)
     /\ UNCHANGED <<sender, repairs>>

(* Faulty variant: a refused request is given up.                           *)
GiveUp(cmd) ==
  /\ Keep(pending, IF Tracked(cmd) THEN Untrack(cmd) ELSE inFlight, commands \ {cmd})
  /\ UNCHANGED <<sender, owed, repairs>>

(* A refused request is put back, and no flush follows.                     *)
Rejected(cmd) ==
  /\ commands' = commands \ {cmd}
  /\ IF Tracked(cmd)
     THEN /\ pending' = [pending EXCEPT ![cmd.collection] = Requeued(@, cmd.request)]
          /\ inFlight' = Untrack(cmd)
          /\ refused' = refused \cup {cmd.collection}
     ELSE UNCHANGED <<pending, inFlight, refused>>
  /\ UNCHANGED <<sender, owed, repairs>>

Settles(cmd) == Accepted(cmd) \/ Rejected(cmd)

Next ==
  \/ \E c \in Collections, items \in SUBSET Items : Repair(c, items)
  \/ Connected \/ Disconnected
  \/ \E cmd \in commands : Settles(cmd)

Spec == Init /\ [][Next]_vars

(* Every promise settles, either way (Session!RequestsSettle).  A stream    *)
(* need not connect, stay, or drop, and the server may refuse what it likes.*)
Fairness == \A i \in Ids : WF_vars(\E cmd \in commands : cmd.id = i /\ Settles(cmd))

FairSpec == Spec /\ Fairness

-----------------------------------------------------------------------------
TypeOK ==
  /\ pending \in [Collections -> Request \cup {None}]
  /\ inFlight \in [Collections -> {None} \cup {cmd.id : cmd \in commands}]
  /\ commands \in SUBSET Command
  /\ \A c, d \in commands : c.id = d.id => c = d
  /\ sender \in BOOLEAN /\ refused \in SUBSET Collections
  /\ owed \in [Collections -> SUBSET (Items \cup {Whole})]
  /\ repairs \in 0..MaxRepairs

(* What was asked for stays in a request that waits or in the command in    *)
(* flight until a command sent after the asking is accepted: merging,       *)
(* disconnections, refusals and late settlements lose nothing.              *)
NoRequestLost ==
  \A c \in Collections :
    owed[c] \subseteq Covers(pending[c])
                      \cup (IF inFlight[c] = None THEN {} ELSE CommandOf(c).serves)

(* In a connection one command at a time is open for a collection, and it   *)
(* is the one in flight.                                                    *)
OneAtATime ==
  \A cmd \in commands : ~cmd.old => sender /\ Tracked(cmd)

(* While the stream is up a request waits only behind the command of its    *)
(* collection, or because the server has refused that command and nothing   *)
(* was sent since: no request is forgotten between a merge, a settlement    *)
(* that comes late and a reconnection.                                      *)
WaitsOnlyWhenRefused ==
  sender => \A c \in Collections :
              pending[c] # None /\ inFlight[c] = None => c \in refused

(* On a stream that stays up, what was asked for is in the end brought to   *)
(* the server, unless the server refuses it and nothing else is asked for.  *)
RepairsDelivered ==
  <>[]sender => \A c \in Collections : owed[c] # {} ~> (owed[c] = {} \/ c \in refused)
=============================================================================
