---------------------------- MODULE Session_proofs ----------------------------
(***************************************************************************)
(* Proofs about Session: for every set of requests, any number of sessions *)
(* and events and both kinds of consumer, no caller, request or connection *)
(* outlives its session; and where the consumer of STREAM_CONNECTED asks   *)
(* for more at once, no event is dropped on the way.                       *)
(*                                                                         *)
(* A transport is only open while the generator is in the session that     *)
(* opened it, with currentConnection set (LinkInv): that is why every way  *)
(* out of a session - the end of the transport, a payload that cannot be   *)
(* read, return() at a yield or during a read - may leave the transport be *)
(* or closes it, and why no request is left in the maps.                   *)
(***************************************************************************)
EXTENDS Session, Integers, FiniteSetTheorems, FunctionTheorems, SequenceTheorems,
        TLAPS

(* The transport that is open is the current one; one at its end is closed; *)
(* a generator that has read has its handlers attached.                     *)
LinkInv ==
  /\ link.socket = "open" => InSession /\ current
  /\ InSession /\ ~stopping => current
  /\ link.ended => link.socket = "closed"
  /\ pc \in {"reading", "holding", "answered", "acking"} => link.listening

(* An event may only be missed before the handlers are attached.            *)
EventsInv ==
  InSession =>
    /\ taken + Cardinality(Events(link.queue)) <= sent
    /\ PromptConsumer => sent = taken + Cardinality(Events(link.queue))

Inv == TypeOK /\ NothingLeftBehind /\ LinkInv /\ EventsInv

Links == [transport: {"websocket", "http"}, socket: {"open", "closing", "closed"},
          alive: BOOLEAN, listening: BOOLEAN, queue: Seq(Payloads), ended: BOOLEAN]

-----------------------------------------------------------------------------
(* The messages of a kind in a queue are counted one by one.                *)

(* The places in a queue where a message of some kind waits.               *)
Places(queue, kind) == {k \in DOMAIN queue : queue[k] \in kind}

(* A queue is finite, and the empty one holds nothing of any kind.         *)
LEMMA PlacesFinite ==
  ASSUME NEW S, NEW queue \in Seq(S), NEW kind
  PROVE  /\ IsFiniteSet(Places(queue, kind)) /\ Cardinality(Places(queue, kind)) \in Nat
         /\ Places(queue, kind) \subseteq 1 .. Len(queue)
<1>1. Places(queue, kind) \in SUBSET (1 .. Len(queue))
  BY LenProperties DEF Places
<1>2. IsFiniteSet(1 .. Len(queue))
  BY LenProperties, FS_Interval
<1>3. IsFiniteSet(Places(queue, kind))
  BY <1>1, <1>2, FS_Subset
<1> QED BY <1>1, <1>3, FS_CardinalityType

LEMMA PlacesEmpty ==
  ASSUME NEW kind
  PROVE  Cardinality(Places(<<>>, kind)) = 0
<1>1. Places(<<>>, kind) = {}
  BY DEF Places
<1> QED BY <1>1, FS_EmptySet

(* A message put at the end counts where it is of the kind.                *)
LEMMA PlacesAppend ==
  ASSUME NEW S, NEW queue \in Seq(S), NEW e \in S, NEW kind
  PROVE  Cardinality(Places(Append(queue, e), kind))
           = Cardinality(Places(queue, kind)) + (IF e \in kind THEN 1 ELSE 0)
<1> DEFINE longer == Append(queue, e)
           last == Len(queue) + 1
<1>1. /\ DOMAIN longer = 1 .. last /\ DOMAIN queue = 1 .. Len(queue) /\ Len(queue) \in Nat
      /\ \A k \in 1 .. Len(queue) : longer[k] = queue[k]
      /\ longer[last] = e
  BY AppendProperties, LenProperties
<1>2. /\ IsFiniteSet(Places(queue, kind)) /\ Cardinality(Places(queue, kind)) \in Nat
      /\ last \notin Places(queue, kind)
  BY <1>1, PlacesFinite
<1>3. CASE e \in kind
  <2>1. Places(longer, kind) = Places(queue, kind) \cup {last}
    BY <1>1, <1>3 DEF Places
  <2> QED BY <1>2, <1>3, <2>1, FS_AddElement
<1>4. CASE e \notin kind
  <2>1. Places(longer, kind) = Places(queue, kind)
    BY <1>1, <1>4 DEF Places
  <2> QED BY <1>2, <1>4, <2>1
<1> QED BY <1>3, <1>4

(* The first message of a queue that is taken no longer counts: the places  *)
(* of the others move up by one.                                           *)
LEMMA PlacesTail ==
  ASSUME NEW S, NEW queue \in Seq(S), queue # <<>>, NEW kind
  PROVE  Cardinality(Places(queue, kind))
           = Cardinality(Places(Tail(queue), kind)) + (IF Head(queue) \in kind THEN 1 ELSE 0)
<1> DEFINE rest == Tail(queue)
           others == Places(queue, kind) \ {1}
           up == [k \in Places(rest, kind) |-> k + 1]
<1>1. /\ rest \in Seq(S) /\ Len(queue) \in Nat \ {0} /\ Len(rest) = Len(queue) - 1
      /\ DOMAIN rest = 1 .. Len(queue) - 1 /\ DOMAIN queue = 1 .. Len(queue)
      /\ \A k \in 1 .. Len(queue) - 1 : rest[k] = queue[k + 1]
      /\ Head(queue) = queue[1]
  BY HeadTailProperties, LenProperties, EmptySeq
<1>2. /\ IsFiniteSet(Places(rest, kind)) /\ Cardinality(Places(rest, kind)) \in Nat
      /\ IsFiniteSet(Places(queue, kind)) /\ Cardinality(Places(queue, kind)) \in Nat
  BY <1>1, PlacesFinite
<1>3. up \in Bijection(Places(rest, kind), others)
  <2>1. \A k \in Places(rest, kind) : k \in 1 .. Len(queue) - 1 /\ k + 1 \in others
    BY <1>1 DEF Places
  <2>2. up \in [Places(rest, kind) -> others]
    BY <2>1
  <2>3. \A a, b \in Places(rest, kind) : up[a] = up[b] => a = b
    BY <2>1
  <2>4. \A k \in others : \E j \in Places(rest, kind) : up[j] = k
    <3>1. SUFFICES ASSUME NEW k \in others
                   PROVE  \E j \in Places(rest, kind) : up[j] = k
      OBVIOUS
    <3>2. k - 1 \in Places(rest, kind) /\ k \in 1 .. Len(queue)
      BY <1>1 DEF Places
    <3> QED BY <3>2
  <2> QED BY <2>2, <2>3, <2>4, Fun_IsBij
<1>4. Cardinality(others) = Cardinality(Places(rest, kind))
  BY <1>2, <1>3, FS_Bijection DEF ExistsBijection
<1>5. 1 \in Places(queue, kind) <=> Head(queue) \in kind
  BY <1>1 DEF Places
<1>6. Cardinality(others) = IF Head(queue) \in kind THEN Cardinality(Places(queue, kind)) - 1
                            ELSE Cardinality(Places(queue, kind))
  BY <1>2, <1>5, FS_RemoveElement
<1> QED BY <1>2, <1>4, <1>6

-----------------------------------------------------------------------------
(* Lemmas about the transports, the queue and the maps.                    *)

LEMMA Transports ==
  /\ NoLink \in Links /\ NoLink.socket = "closed" /\ ~NoLink.ended
  /\ \A t \in {"websocket", "http"} :
       /\ OpenLink(t) \in Links /\ OpenLink(t).queue = <<>> /\ ~OpenLink(t).ended
  /\ \A l \in Links :
       /\ Listen(l) \in Links /\ Listen(l).socket = l.socket /\ Listen(l).queue = l.queue
       /\ Listen(l).ended = l.ended /\ Listen(l).listening
       /\ Close(l) \in Links /\ Close(l).socket # "open" /\ Close(l).queue = l.queue
       /\ Close(l).ended = l.ended /\ Close(l).listening = l.listening
       /\ l.socket # "open" => Close(l) = l
       /\ Closed(l) \in Links /\ Closed(l).socket = "closed" /\ Closed(l).queue = l.queue
       /\ Closed(l).listening = l.listening
<1>1. NoLink \in Links /\ NoLink.socket = "closed" /\ ~NoLink.ended
  BY DEF Links, NoLink
<1>2. ASSUME NEW t \in {"websocket", "http"}
      PROVE  OpenLink(t) \in Links /\ OpenLink(t).queue = <<>> /\ ~OpenLink(t).ended
  BY DEF Links, OpenLink
<1>3. ASSUME NEW l \in Links
      PROVE  /\ Listen(l) \in Links /\ Listen(l).socket = l.socket /\ Listen(l).queue = l.queue
             /\ Listen(l).ended = l.ended /\ Listen(l).listening
  BY DEF Links, Listen
<1>4. ASSUME NEW l \in Links
      PROVE  /\ Close(l) \in Links /\ Close(l).socket # "open" /\ Close(l).queue = l.queue
             /\ Close(l).ended = l.ended /\ Close(l).listening = l.listening
             /\ l.socket # "open" => Close(l) = l
  BY DEF Links, Close
<1>5. ASSUME NEW l \in Links
      PROVE  /\ Closed(l) \in Links /\ Closed(l).socket = "closed" /\ Closed(l).queue = l.queue
             /\ Closed(l).listening = l.listening
  BY DEF Links, Closed
<1> QED BY <1>1, <1>2, <1>3, <1>4, <1>5

(* What arrives is kept where somebody listens, and lost otherwise.        *)
LEMMA Received ==
  ASSUME NEW l \in Links, NEW payload \in Payloads
  PROVE  /\ Receive(l, payload) \in Links
         /\ Receive(l, payload).socket = l.socket /\ Receive(l, payload).ended = l.ended
         /\ Receive(l, payload).listening = l.listening
         /\ Receive(l, payload).queue
              = IF l.listening THEN Append(l.queue, payload) ELSE l.queue
<1>1. l.queue \in Seq(Payloads) /\ Append(l.queue, payload) \in Seq(Payloads)
  BY AppendProperties DEF Links
<1> QED BY <1>1 DEF Receive, Links

LEMMA PayloadKinds ==
  /\ {Event, Marker, Ping, Garbled} \subseteq Payloads
  /\ Marker # Event /\ Ping # Event /\ Garbled # Event
  /\ \A r \in Requests : Answer(r) \in Payloads
  /\ \A p \in Payloads :
       /\ p.kind \in {"event", "marker", "ping", "garbled", "answer"}
       /\ p = Event <=> p.kind = "event"
       /\ p.kind = "answer" => p.request \in Requests
<1>1. /\ Event.kind = "event" /\ Marker.kind = "marker"
      /\ Ping.kind = "ping" /\ Garbled.kind = "garbled"
  BY DEF Event, Marker, Ping, Garbled
<1>2. \A r : Answer(r).kind = "answer" /\ Answer(r).request = r
  BY DEF Answer
<1> QED BY <1>1, <1>2 DEF Payloads

(* The events in a queue are counted one by one.                           *)
LEMMA EventsCounted ==
  ASSUME NEW queue \in Seq(Payloads)
  PROVE  /\ Cardinality(Events(queue)) \in Nat
         /\ \A p \in Payloads :
              Cardinality(Events(Append(queue, p)))
                = Cardinality(Events(queue)) + (IF p = Event THEN 1 ELSE 0)
         /\ queue # <<>> =>
              Cardinality(Events(queue))
                = Cardinality(Events(Tail(queue))) + (IF Head(queue) = Event THEN 1 ELSE 0)
<1>1. \A q : Events(q) = Places(q, {Event})
  BY DEF Events, Places
<1>2. Cardinality(Places(queue, {Event})) \in Nat
  BY PlacesFinite
<1>3. \A p \in Payloads : Cardinality(Places(Append(queue, p), {Event}))
         = Cardinality(Places(queue, {Event})) + (IF p \in {Event} THEN 1 ELSE 0)
  BY PlacesAppend
<1>4. queue # <<>> => Cardinality(Places(queue, {Event}))
         = Cardinality(Places(Tail(queue), {Event})) + (IF Head(queue) \in {Event} THEN 1 ELSE 0)
  BY PlacesTail
<1> QED BY <1>1, <1>2, <1>3, <1>4

LEMMA NoEvents == Cardinality(Events(<<>>)) = 0
BY PlacesEmpty DEF Events, Places

LEMMA LinkTyped ==
  ASSUME TypeOK
  PROVE  link \in Links /\ link.queue \in Seq(Payloads)
BY DEF TypeOK, Links

Phases == {"new", "fetching", "awaiting", "ok", "null", "error"}

(* Whoever waits is rejected, and nobody is left in the maps.              *)
LEMMA RejectPendingInv ==
  ASSUME TypeOK, WaitersAreTracked, RejectPending
  PROVE  /\ requests' \in [Requests -> Phases] /\ pending' = {}
         /\ WaitersAreTracked'
<1>1. /\ pending' = {}
      /\ requests' = [r \in Requests |->
           IF r \in pending /\ requests[r] = "awaiting" THEN "error" ELSE requests[r]]
  BY DEF RejectPending
<1>2. requests' \in [Requests -> Phases]
  BY <1>1 DEF TypeOK, Phases
<1>3. \A r \in Requests : requests'[r] # "awaiting"
  BY <1>1 DEF WaitersAreTracked
<1> QED BY <1>1, <1>2, <1>3 DEF WaitersAreTracked

-----------------------------------------------------------------------------
LEMMA InitInv == Init => Inv
<1> SUFFICES ASSUME Init PROVE Inv
  OBVIOUS
<1>1. TypeOK
  <2>1. link \in Links /\ options \in Options
    BY Transports DEF Init
  <2>2. /\ sent \in 0..MaxEvents /\ taken \in 0..sent /\ sessions \in 0..MaxSessions
    BY ConstantsAssumption DEF Init
  <2>3. /\ stopping \in BOOLEAN /\ current \in BOOLEAN /\ conflict \in BOOLEAN
        /\ pending \in SUBSET Requests /\ asked \in SUBSET Requests
        /\ requests \in [Requests -> Phases]
    BY DEF Init, Phases
  <2> QED BY <2>1, <2>2, <2>3 DEF Init, TypeOK, Links, Phases
<1>2. NothingLeftBehind
  BY DEF Init, NothingLeftBehind, WaitersAreTracked, CurrentIsLive, StoppedReleases
<1>3. LinkInv /\ EventsInv
  BY Transports DEF Init, LinkInv, EventsInv, InSession
<1> QED BY <1>1, <1>2, <1>3 DEF Inv

(* A step of a caller changes neither the generator nor the transport: it  *)
(* enters a request into the maps of a current session, or settles it.     *)
LEMMA CallerInv ==
  ASSUME Inv, NEW r \in Requests, NEW phase \in Phases,
         UNCHANGED <<options, pc, stopping, current, link, sent, taken, conflict, sessions>>,
         asked' \in SUBSET Requests,
         \/ Settle(r, phase) /\ phase \notin {"awaiting"}
         \/ Register(r, phase) /\ phase \in {"awaiting", "fetching"} /\ current
  PROVE  Inv'
<1>1. /\ requests' = [requests EXCEPT ![r] = phase]
      /\ \/ pending' = pending \ {r} /\ phase # "awaiting"
         \/ pending' = pending \cup {r} /\ phase \in {"awaiting", "fetching"} /\ current
  BY DEF Settle, Register
<1>2. TypeOK'
  BY <1>1 DEF Inv, TypeOK, Phases
<1>3. WaitersAreTracked'
  BY <1>1 DEF Inv, TypeOK, NothingLeftBehind, WaitersAreTracked
<1>4. CurrentIsLive' /\ StoppedReleases'
  BY <1>1 DEF Inv, NothingLeftBehind, CurrentIsLive, StoppedReleases, InSession
<1>5. LinkInv' /\ EventsInv'
  BY DEF Inv, LinkInv, EventsInv, InSession
<1> QED BY <1>2, <1>3, <1>4, <1>5 DEF Inv, NothingLeftBehind

LEMMA CallersInv ==
  ASSUME Inv, NEW r \in Requests,
         SendCommand(r) \/ FetchReturns(r) \/ ResolveFileLease(r) \/ LeaseTimer(r)
  PROVE  Inv'
<1>1. /\ asked \in SUBSET Requests /\ link \in Links
      /\ {"new", "fetching", "awaiting", "ok", "null", "error"} = Phases
  BY LinkTyped DEF Inv, TypeOK, Phases
<1>2. CASE SendCommand(r)
  <2>1. CASE ~current
    BY <1>1, <1>2, <2>1, CallerInv DEF SendCommand
  <2>2. CASE current /\ link.transport = "http"
    BY <1>1, <1>2, <2>2, CallerInv DEF SendCommand
  <2>3. CASE current /\ link.transport = "websocket"
    BY <1>1, <1>2, <2>3, CallerInv DEF SendCommand
  <2> QED BY <1>1, <2>1, <2>2, <2>3 DEF Links
<1>3. CASE FetchReturns(r)
  BY <1>1, <1>3, CallerInv DEF FetchReturns
<1>4. CASE ResolveFileLease(r)
  <2>1. CASE ~current
    BY <1>1, <1>4, <2>1, CallerInv DEF ResolveFileLease
  <2>2. CASE current /\ (link.transport = "http" \/ link.socket # "open")
    BY <1>1, <1>4, <2>2, CallerInv DEF ResolveFileLease
  <2>3. CASE current /\ link.transport = "websocket" /\ link.socket = "open"
    BY <1>1, <1>4, <2>3, CallerInv DEF ResolveFileLease
  <2> QED BY <1>1, <2>1, <2>2, <2>3 DEF Links
<1>5. CASE LeaseTimer(r)
  BY <1>1, <1>5, CallerInv DEF LeaseTimer
<1> QED BY <1>2, <1>3, <1>4, <1>5

-----------------------------------------------------------------------------
(* The generator.                                                          *)

(* A step out of the session: the maps are emptied, nothing is current, and *)
(* the transport is not open.                                              *)
LEMMA LeavingInv ==
  ASSUME Inv, RejectPending, ~current', link' \in Links, link'.socket # "open",
         link'.ended => link'.socket = "closed",
         pc' \in {"opening", "disconnected", "waiting", "stopped"},
         stopping' \in BOOLEAN, conflict' \in BOOLEAN, current' \in BOOLEAN,
         taken' \in 0..sent, UNCHANGED <<options, asked, sent, sessions>>
  PROVE  Inv'
<1>1. requests' \in [Requests -> Phases] /\ pending' = {} /\ WaitersAreTracked'
  BY RejectPendingInv DEF Inv, NothingLeftBehind
<1>2. TypeOK'
  BY <1>1 DEF Inv, TypeOK, Links, Phases
<1>3. NothingLeftBehind'
  BY <1>1 DEF NothingLeftBehind, CurrentIsLive, StoppedReleases
<1>4. LinkInv' /\ EventsInv'
  BY DEF LinkInv, EventsInv, InSession
<1> QED BY <1>2, <1>3, <1>4 DEF Inv

(* Outside of a session nothing waits, and no transport is open.           *)
LEMMA OutsideSession ==
  ASSUME Inv, ~InSession
  PROVE  /\ ~current /\ pending = {} /\ link.socket # "open"
         /\ \A r \in Requests : requests[r] # "awaiting"
BY DEF Inv, NothingLeftBehind, WaitersAreTracked, CurrentIsLive, LinkInv

(* The generator goes on outside of a session.                             *)
LEMMA OutsideInv ==
  ASSUME Inv, Start \/ Reconnect \/ (ConsumerNext /\ pc = "disconnected")
  PROVE  Inv'
<1>1. /\ ~InSession /\ ~InSession' /\ pc' \in {"opening", "waiting", "stopped"}
      /\ UNCHANGED <<options, stopping, current, link, requests, pending, asked, sent, taken,
                     conflict, sessions>>
  BY DEF Start, Reconnect, ConsumerNext, Onwards, InSession
<1>2. TypeOK'
  BY <1>1 DEF Inv, TypeOK
<1>3. NothingLeftBehind'
  BY <1>1, OutsideSession
     DEF Inv, NothingLeftBehind, WaitersAreTracked, CurrentIsLive, StoppedReleases
<1>4. LinkInv' /\ EventsInv'
  BY <1>1, OutsideSession DEF Inv, LinkInv, EventsInv, InSession
<1> QED BY <1>2, <1>3, <1>4 DEF Inv

LEMMA OpenedInv ==
  ASSUME Inv, NEW transport \in {"websocket", "http"}, Opened(transport)
  PROVE  Inv'
<1> DEFINE opened == OpenLink(transport)
<1>1. /\ pc = "opening" /\ sessions < MaxSessions /\ sessions' = sessions + 1
      /\ conflict' = FALSE /\ asked' = {} /\ sent' = 0 /\ taken' = 0
      /\ UNCHANGED <<options, stopping, requests, pending>>
      /\ \/ pc' = "reading" /\ current' = TRUE /\ link' = Listen(opened)
         \/ pc' = "stopped" /\ current' = FALSE /\ link' = Close(opened)
         \/ pc' = "connected" /\ current' = TRUE /\ link' = opened
  BY DEF Opened
<1>2. /\ opened \in Links /\ opened.queue = <<>> /\ ~opened.ended
      /\ link' \in Links /\ link'.queue = <<>> /\ ~link'.ended
      /\ pc' = "stopped" => link'.socket # "open"
      /\ pc' = "reading" => link'.listening
  BY <1>1, Transports
<1>3. ~current /\ pending = {} /\ \A r \in Requests : requests[r] # "awaiting"
  BY <1>1, OutsideSession DEF InSession
<1>4. TypeOK'
  <2>1. /\ sent' \in 0..MaxEvents /\ taken' \in 0..sent' /\ sessions' \in 0..MaxSessions
    BY <1>1, ConstantsAssumption DEF Inv, TypeOK
  <2>2. current' \in BOOLEAN /\ conflict' \in BOOLEAN /\ asked' \in SUBSET Requests
    BY <1>1
  <2> QED BY <1>1, <1>2, <2>1, <2>2 DEF Inv, TypeOK, Links
<1>5. NothingLeftBehind'
  BY <1>1, <1>2, <1>3
     DEF NothingLeftBehind, WaitersAreTracked, CurrentIsLive, StoppedReleases, InSession
<1>6. LinkInv'
  BY <1>1, <1>2 DEF LinkInv, InSession
<1>7. EventsInv'
  BY <1>1, <1>2, NoEvents DEF EventsInv
<1> QED BY <1>4, <1>5, <1>6, <1>7 DEF Inv

LEMMA OpenFailsInv ==
  ASSUME Inv, NEW is409 \in BOOLEAN, OpenFails(is409)
  PROVE  Inv'
<1>1. ~current /\ link.socket # "open"
  BY OutsideSession DEF OpenFails, InSession
<1> QED BY <1>1, LeavingInv, LinkTyped
        DEF OpenFails, AfterSession, Onwards, Inv, TypeOK, LinkInv

(* The generator goes on inside of a session.                              *)
LEMMA ReadingOnInv ==
  ASSUME Inv, AckReturns \/ (ConsumerNext /\ pc \in {"connected", "answered", "holding"})
  PROVE  Inv'
<1>1. /\ InSession /\ pc' \in {"reading", "acking"}
      /\ \/ link' = Listen(link)
         \/ link' = link /\ pc \in {"holding", "acking"}
      /\ UNCHANGED <<options, stopping, current, requests, pending, asked, sent, taken,
                     conflict, sessions>>
  BY DEF ConsumerNext, AckReturns, Acknowledging, InSession
<1>2. /\ link' \in Links /\ link'.socket = link.socket /\ link'.queue = link.queue
      /\ link'.ended = link.ended /\ link'.listening
  BY <1>1, Transports, LinkTyped DEF Inv, LinkInv
<1>3. TypeOK'
  BY <1>1, <1>2 DEF Inv, TypeOK, Links
<1>4. NothingLeftBehind'
  BY <1>1, <1>2
     DEF Inv, NothingLeftBehind, WaitersAreTracked, CurrentIsLive, StoppedReleases, InSession
<1>5. LinkInv' /\ EventsInv'
  BY <1>1, <1>2 DEF Inv, LinkInv, EventsInv, InSession
<1> QED BY <1>3, <1>4, <1>5 DEF Inv

LEMMA SessionEndsInv ==
  ASSUME Inv, SessionEnds
  PROVE  Inv'
<1>1. link.socket = "closed" /\ link.ended
  BY DEF SessionEnds, Inv, LinkInv
<1> QED BY <1>1, LeavingInv, LinkTyped DEF SessionEnds, AfterSession, Onwards, Inv, TypeOK

(* A payload that cannot be read closes the connection it came on.         *)
LEMMA SessionFailsInv ==
  ASSUME Inv, SessionFails
  PROVE  Inv'
<1>1. link' = Close(link)
  BY DEF SessionFails
<1>2. /\ link' \in Links /\ link'.socket # "open"
      /\ link'.ended => link'.socket = "closed"
  BY <1>1, Transports, LinkTyped DEF Inv, LinkInv
<1> QED BY <1>2, LeavingInv DEF SessionFails, AfterSession, Onwards, Inv, TypeOK

LEMMA StopInv ==
  ASSUME Inv, Stop
  PROVE  Inv'
<1>1. /\ ~stopping /\ stopping' = TRUE /\ current' = FALSE /\ RejectPending
      /\ link' = IF current THEN Close(link) ELSE link
      /\ pc' = IF pc \in {"opening", "reading", "acking"} THEN pc ELSE "stopped"
      /\ UNCHANGED <<options, asked, sent, taken, conflict, sessions>>
  BY DEF Stop
<1>2. /\ link' \in Links /\ link'.socket # "open" /\ link'.queue = link.queue
      /\ link'.ended = link.ended /\ link'.listening = link.listening
      /\ link'.ended => link'.socket = "closed"
  BY <1>1, Transports, LinkTyped DEF Inv, LinkInv
<1>3. CASE pc \in {"reading", "acking"}
  <2>1. requests' \in [Requests -> Phases] /\ pending' = {} /\ WaitersAreTracked'
    BY <1>1, RejectPendingInv DEF Inv, NothingLeftBehind
  <2>2. TypeOK'
    BY <1>1, <1>2, <1>3, <2>1 DEF Inv, TypeOK, Links, Phases
  <2>3. NothingLeftBehind'
    BY <1>1, <1>2, <1>3, <2>1 DEF NothingLeftBehind, CurrentIsLive, StoppedReleases
  <2>4. LinkInv' /\ EventsInv'
    BY <1>1, <1>2, <1>3 DEF Inv, LinkInv, EventsInv, InSession
  <2> QED BY <2>2, <2>3, <2>4 DEF Inv
<1>4. CASE pc \notin {"reading", "acking"}
  BY <1>1, <1>2, <1>4, LeavingInv DEF Inv, TypeOK
<1> QED BY <1>3, <1>4

(* The stall timer closes a transport that the generator goes on to read.  *)
LEMMA StallInv ==
  ASSUME Inv, Stall
  PROVE  Inv'
<1>1. /\ InSession /\ current /\ link' = Close(link) /\ link.socket = "open"
      /\ UNCHANGED <<options, pc, stopping, current, requests, pending, asked, sent, taken,
                     conflict, sessions>>
  BY DEF Stall
<1>2. /\ link' \in Links /\ link'.socket # "open" /\ link'.queue = link.queue
      /\ link'.ended = link.ended /\ link'.listening = link.listening
      /\ ~link.ended
  BY <1>1, Transports, LinkTyped DEF Inv, LinkInv
<1>3. TypeOK'
  BY <1>1, <1>2 DEF Inv, TypeOK, Links
<1>4. NothingLeftBehind'
  BY <1>1, <1>2
     DEF Inv, NothingLeftBehind, WaitersAreTracked, CurrentIsLive, StoppedReleases, InSession
<1>5. LinkInv' /\ EventsInv'
  BY <1>1, <1>2 DEF Inv, LinkInv, EventsInv, InSession
<1> QED BY <1>3, <1>4, <1>5 DEF Inv

(* The next payload of the queue.                                          *)
LEMMA TakeInv ==
  ASSUME Inv, Take
  PROVE  Inv'
<1> DEFINE queue == link.queue
           payload == Head(queue)
           rest == [link EXCEPT !.queue = Tail(@)]
<1>1. /\ pc = "reading" /\ queue # <<>> /\ queue \in Seq(Payloads) /\ link \in Links
      /\ UNCHANGED <<options, stopping, asked, sent, conflict, sessions>>
  BY LinkTyped DEF Take, Inv
<1>2. payload \in Payloads /\ Tail(queue) \in Seq(Payloads)
  <2> HIDE DEF queue
  <2> QED BY <1>1, HeadTailProperties
<1>3. /\ rest \in Links /\ rest.queue = Tail(queue) /\ rest.socket = link.socket
      /\ rest.ended = link.ended /\ rest.listening = link.listening
  BY <1>1, <1>2 DEF Links
<1>4. /\ Cardinality(Events(queue)) \in Nat /\ Cardinality(Events(Tail(queue))) \in Nat
      /\ Cardinality(Events(queue))
           = Cardinality(Events(Tail(queue))) + (IF payload = Event THEN 1 ELSE 0)
  <2> HIDE DEF queue
  <2> QED BY <1>1, <1>2, EventsCounted
<1>5. /\ sent \in Nat /\ taken \in Nat /\ taken + Cardinality(Events(queue)) <= sent
      /\ PromptConsumer => sent = taken + Cardinality(Events(queue))
  BY <1>1, ConstantsAssumption DEF Inv, TypeOK, EventsInv, InSession
<1>6. taken' = taken + (IF payload = Event THEN 1 ELSE 0)
  BY <1>1, <1>5 DEF Take
<1>7. /\ taken' \in 0..sent /\ taken' + Cardinality(Events(Tail(queue))) <= sent
      /\ PromptConsumer => sent = taken' + Cardinality(Events(Tail(queue)))
  <2> DEFINE waiting == Cardinality(Events(queue))
             left == Cardinality(Events(Tail(queue)))
             one == IF payload = Event THEN 1 ELSE 0
  <2>1. waiting = left + one /\ left \in Nat /\ one \in {0, 1} /\ taken' = taken + one
    BY <1>4, <1>6
  <2>2. taken + waiting <= sent /\ (PromptConsumer => sent = taken + waiting)
    BY <1>5
  <2> HIDE DEF waiting, left, one
  <2>3. taken' \in 0..sent /\ taken' + left <= sent /\ (PromptConsumer => sent = taken' + left)
    BY <1>5, <2>1, <2>2
  <2> QED BY <2>3 DEF left
<1>8. CASE IsYielded(payload) /\ stopping
  <2>1. pc' = "stopped" /\ current' = FALSE /\ link' = Close(rest) /\ RejectPending
    BY <1>1, <1>8 DEF Take
  <2> HIDE DEF rest
  <2>2. /\ link' \in Links /\ link'.socket # "open"
        /\ link'.ended => link'.socket = "closed"
    BY <1>3, <2>1, Transports DEF Inv, LinkInv
  <2> QED BY <1>1, <1>7, <2>1, <2>2, LeavingInv DEF Inv, TypeOK
<1>9. CASE ~(IsYielded(payload) /\ stopping)
  <2>1. /\ link' = rest /\ UNCHANGED current
        /\ \/ UNCHANGED <<requests, pending>>
           \/ payload.request \in pending /\ Settle(payload.request, "ok")
    BY <1>1, <1>9 DEF Take
  <2>2. pc' \in {"holding", "answered", "reading", "acking"}
    BY <1>1, <1>9 DEF Take, Acknowledging
  <2> HIDE DEF rest, payload, queue
  <2>3. requests' \in [Requests -> Phases] /\ pending' \in SUBSET pending
    BY <2>1 DEF Settle, Inv, TypeOK, Phases
  <2>4. TypeOK'
    BY <1>1, <1>3, <1>7, <2>1, <2>2, <2>3 DEF Inv, TypeOK, Links, Phases
  <2>5. WaitersAreTracked'
    BY <2>1 DEF Settle, Inv, TypeOK, NothingLeftBehind, WaitersAreTracked
  <2>6. CurrentIsLive' /\ StoppedReleases'
    BY <1>1, <1>3, <2>1, <2>2, <2>3
       DEF Inv, NothingLeftBehind, CurrentIsLive, StoppedReleases, InSession
  <2>7. LinkInv'
    BY <1>1, <1>3, <2>1, <2>2 DEF Inv, LinkInv, InSession
  <2>8. EventsInv'
    <3>1. Events(link'.queue) = Events(Tail(queue)) /\ sent' = sent
      BY <1>1, <1>3, <2>1
    <3> QED BY <1>7, <3>1 DEF EventsInv
  <2> QED BY <2>4, <2>5, <2>6, <2>7, <2>8 DEF Inv, NothingLeftBehind
<1> QED BY <1>8, <1>9

-----------------------------------------------------------------------------
(* The network and the server: only the transport changes, which stays as  *)
(* open as it was or is closed, and keeps its queue or gets a payload.     *)
LEMMA NetworkInv ==
  ASSUME Inv, NetworkMoves, link' \in Links,
         link'.socket = "open" => link.socket = "open",
         link'.ended => link'.socket = "closed", link'.listening = link.listening,
         asked' \in SUBSET Requests, sent' \in 0..MaxEvents, sent <= sent',
         EventsInv'
  PROVE  Inv'
<1>1. /\ InSession
      /\ UNCHANGED <<options, pc, stopping, current, requests, pending, taken, conflict, sessions>>
  BY DEF NetworkMoves
<1>2. TypeOK'
  <2>1. taken' \in 0..sent'
    BY <1>1, ConstantsAssumption DEF Inv, TypeOK
  <2> QED BY <1>1, <2>1 DEF Inv, TypeOK, Links
<1>3. NothingLeftBehind'
  BY <1>1 DEF Inv, NothingLeftBehind, WaitersAreTracked, CurrentIsLive, StoppedReleases, InSession
<1>4. LinkInv'
  BY <1>1 DEF Inv, LinkInv, InSession
<1> QED BY <1>2, <1>3, <1>4 DEF Inv

LEMMA LossInv ==
  ASSUME Inv, ConnectionLost \/ PeerDies \/ CloseCompletes
  PROVE  Inv'
<1>1. /\ NetworkMoves /\ UNCHANGED <<asked, sent>>
      /\ \/ link' = Closed(link)
         \/ link' = [link EXCEPT !.alive = FALSE]
  BY DEF ConnectionLost, PeerDies, CloseCompletes
<1>2. /\ link' \in Links /\ link'.queue = link.queue /\ link'.listening = link.listening
      /\ link'.socket = "open" => link.socket = "open"
      /\ link'.ended => link'.socket = "closed"
  <2>1. link \in Links /\ (link.ended => link.socket = "closed")
    BY LinkTyped DEF Inv, LinkInv
  <2>2. CASE link' = Closed(link)
    BY <2>1, <2>2, Transports
  <2>3. CASE link' = [link EXCEPT !.alive = FALSE]
    BY <2>1, <2>3 DEF Links
  <2> QED BY <1>1, <2>2, <2>3
<1>3. EventsInv'
  BY <1>1, <1>2 DEF NetworkMoves, Inv, EventsInv, InSession
<1>4. sent \in 0..MaxEvents /\ sent <= sent'
  BY <1>1, ConstantsAssumption DEF Inv, TypeOK
<1> QED BY <1>1, <1>2, <1>3, <1>4, NetworkInv DEF Inv, TypeOK

(* What a server sends counts where it is an event, and waits in the queue *)
(* of a transport that is listened to.                                     *)
LEMMA SendsInv ==
  ASSUME Inv, NEW payload \in Payloads, ServerSends(payload), asked' \in SUBSET Requests,
         sent' = sent + (IF payload = Event THEN 1 ELSE 0), sent' <= MaxEvents
  PROVE  Inv'
<1>1. /\ NetworkMoves /\ link.socket = "open" /\ link' = Receive(link, payload)
      /\ link \in Links /\ link.queue \in Seq(Payloads) /\ ~link.ended
  BY LinkTyped DEF ServerSends, Inv, LinkInv
<1>2. /\ link' \in Links /\ link'.socket = "open" /\ ~link'.ended
      /\ link'.listening = link.listening
      /\ link'.queue = IF link.listening THEN Append(link.queue, payload) ELSE link.queue
  BY <1>1, Received
<1>3. sent \in Nat /\ taken \in Nat /\ sent' \in 0..MaxEvents /\ sent <= sent'
  BY ConstantsAssumption DEF Inv, TypeOK
<1>4. /\ Cardinality(Events(link.queue)) \in Nat
      /\ Cardinality(Events(Append(link.queue, payload)))
           = Cardinality(Events(link.queue)) + (IF payload = Event THEN 1 ELSE 0)
  BY <1>1, EventsCounted
<1>5. PromptConsumer => link.listening
  BY <1>1 DEF NetworkMoves, InSession, Inv, LinkInv
<1>6. /\ taken' = taken /\ taken + Cardinality(Events(link.queue)) <= sent
      /\ PromptConsumer => sent = taken + Cardinality(Events(link.queue))
  BY <1>1 DEF NetworkMoves, Inv, EventsInv
<1>7. EventsInv'
  <2>1. CASE link.listening
    BY <1>2, <1>3, <1>4, <1>6, <2>1 DEF EventsInv
  <2>2. CASE ~link.listening
    BY <1>2, <1>3, <1>4, <1>5, <1>6, <2>2 DEF EventsInv
  <2> QED BY <2>1, <2>2
<1> QED BY <1>1, <1>2, <1>3, <1>7, NetworkInv

LEMMA ServerInv ==
  ASSUME Inv, ServerEvent \/ \E r \in Requests : ServerAnswers(r)
  PROVE  Inv'
<1>0. sent \in Nat /\ sent <= MaxEvents /\ MaxEvents \in Nat /\ asked \in SUBSET Requests
      /\ link \in Links
  BY LinkTyped, ConstantsAssumption DEF Inv, TypeOK
<1>1. CASE ServerEvent
  <2> DEFINE others == {Marker, Ping, Garbled}
             noise == {i \in DOMAIN link.queue : link.queue[i] \in others}
  <2>1. sent + Cardinality(noise) < MaxEvents /\ UNCHANGED asked
    BY <1>1 DEF ServerEvent
  <2>2. Cardinality(noise) \in Nat
    <3>1. noise = Places(link.queue, others) /\ link.queue \in Seq(Payloads)
      BY LinkTyped DEF Places, Inv
    <3> QED BY <3>1, PlacesFinite
  <2> HIDE DEF noise, others
  <2>3. sent + 1 <= MaxEvents
    BY <1>0, <2>1, <2>2
  <2>4. CASE ServerSends(Event) /\ sent' = sent + 1
    BY <1>0, <2>1, <2>3, <2>4, SendsInv, PayloadKinds
  <2>5. ASSUME NEW payload \in others, ServerSends(payload), UNCHANGED sent
        PROVE  Inv'
    <3>1. payload \in Payloads /\ payload # Event
      BY PayloadKinds DEF others
    <3> QED BY <1>0, <2>1, <2>5, <3>1, SendsInv
  <2> QED BY <1>1, <2>4, <2>5 DEF ServerEvent, others
<1>2. ASSUME NEW r \in Requests, ServerAnswers(r) PROVE Inv'
  <2>1. Answer(r) # Event /\ Answer(r) \in Payloads
    BY PayloadKinds DEF Answer, Event
  <2> QED BY <1>0, <1>2, <2>1, SendsInv DEF ServerAnswers
<1> QED BY <1>1, <1>2

-----------------------------------------------------------------------------
LEMMA NextInv == Inv /\ [Next]_vars => Inv'
<1> SUFFICES ASSUME Inv, [Next]_vars PROVE Inv'
  OBVIOUS
<1>1. ASSUME NEW r \in Commands, SendCommand(r) \/ FetchReturns(r) PROVE Inv'
  BY <1>1, CallersInv DEF Requests
<1>2. ASSUME NEW r \in Leases, ResolveFileLease(r) \/ LeaseTimer(r) PROVE Inv'
  BY <1>2, CallersInv DEF Requests
<1>3. CASE Start \/ Reconnect \/ ConsumerNext \/ AckReturns
  <2>1. ConsumerNext => pc \in {"connected", "answered", "holding"} \/ pc = "disconnected"
    BY DEF ConsumerNext
  <2> QED BY <1>3, <2>1, OutsideInv, ReadingOnInv
<1>4. CASE Stop \/ Stall \/ Take \/ SessionEnds \/ SessionFails
  BY <1>4, StopInv, StallInv, TakeInv, SessionEndsInv, SessionFailsInv
<1>5. CASE \E transport \in {"websocket", "http"} : Opened(transport)
  BY <1>5, OpenedInv
<1>6. CASE \E is409 \in BOOLEAN : OpenFails(is409)
  BY <1>6, OpenFailsInv
<1>7. CASE ServerEvent \/ \E r \in Requests : ServerAnswers(r)
  BY <1>7, ServerInv
<1>8. CASE ConnectionLost \/ PeerDies \/ CloseCompletes
  BY <1>8, LossInv
<1>9. CASE UNCHANGED vars
  BY <1>9 DEF vars, Inv, TypeOK, NothingLeftBehind, WaitersAreTracked, CurrentIsLive,
              StoppedReleases, LinkInv, EventsInv, InSession
<1> QED BY <1>1, <1>2, <1>3, <1>4, <1>5, <1>6, <1>7, <1>8, <1>9 DEF Next

LEMMA Invariance == Spec => []Inv
BY InitInv, NextInv, PTL DEF Spec

(* The loop's state, the maps and the transport stay what the code takes    *)
(* them for; the generator never hands out more than the server has sent.   *)
THEOREM TypeCorrect == Spec => []TypeOK
<1>1. Inv => TypeOK
  BY DEF Inv
<1> QED BY <1>1, Invariance, PTL

(* No caller waits on a session that is over, no request is carried to the  *)
(* next one, and a stopped generator holds no connection, whoever ended it  *)
(* and wherever the generator was then.                                     *)
THEOREM LeavesNothingBehind == Spec => []NothingLeftBehind
<1>1. Inv => NothingLeftBehind
  BY DEF Inv
<1> QED BY <1>1, Invariance, PTL

(* Every event of a session was handed out or waits in the queue, provided  *)
(* the consumer of STREAM_CONNECTED asks for the next event at once.        *)
THEOREM MissesNothing ==
  ASSUME PromptConsumer
  PROVE  Spec => []NothingMissed
<1>1. Inv => NothingMissed
  BY DEF Inv, EventsInv, NothingMissed
<1> QED BY <1>1, Invariance, PTL
=============================================================================
