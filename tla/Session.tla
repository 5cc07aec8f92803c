------------------------------ MODULE Session ------------------------------
(***************************************************************************)
(* The Connector's connection loop (connect/src/stream-client.ts): the     *)
(* async generator that opens a transport, hands out what arrives, reports *)
(* the end of the session and opens the next one, while other callers send *)
(* commands and lease requests over whatever connection is current, and    *)
(* may stop the generator at any point.                                    *)
(*                                                                         *)
(* The generator runs only while its consumer waits for the next value: it *)
(* is suspended in "connected", "holding", "answered" and "disconnected",  *)
(* when the consumer has STREAM_CONNECTED, an event, a command's result or *)
(* STREAM_DISCONNECTED.  A WebSocket delivers messages and its close event *)
(* only to handlers, and these are attached when the generator starts to   *)
(* read; an HTTP response buffers.  A payload is one event and its          *)
(* acknowledgement; contents and batches are those of SyncStream.          *)
(***************************************************************************)
EXTENDS Naturals, Sequences, FiniteSets

CONSTANTS
  Commands, Leases,  \* requests: refresh commands and file leases
  Options,           \* the options a generator may be made with
  PromptConsumer,    \* the consumer of STREAM_CONNECTED asks for more at once
  MaxSessions,       \* bound: connections opened
  MaxEvents          \* bound: sync events and pings in a session

ASSUME ConstantsAssumption ==
  /\ Commands \cap Leases = {}
  /\ Options \subseteq [connectionEvents: BOOLEAN, commandResults: BOOLEAN, reconnect: BOOLEAN]
  /\ PromptConsumer \in BOOLEAN
  /\ MaxSessions \in Nat /\ MaxEvents \in Nat

VARIABLES
  options,    \* which kinds of events are yielded, and whether it reconnects
  pc,         \* where the generator is
  stopping,   \* return() was called
  current,    \* currentConnection is set
  link,       \* the transport of the loop's last connection
  requests,   \* what each request's caller sees
  pending,    \* pendingCommands and pendingLeases, by request
  asked,      \* requests the server has and has not answered
  sent,       \* events the server sent in this session
  taken,      \* events the generator took in this session
  conflict,   \* the last attempt to open was answered 409
  sessions

vars == <<options, pc, stopping, current, link, requests, pending,
          asked, sent, taken, conflict, sessions>>

Requests == Commands \cup Leases

Event == [kind |-> "event"]
Marker == [kind |-> "marker"]   \* of a snapshot
Ping == [kind |-> "ping"]
Garbled == [kind |-> "garbled"]
Answer(r) == [kind |-> "answer", request |-> r]
Payloads == {Event, Marker, Ping, Garbled} \cup {Answer(r) : r \in Requests}

(* What the consumer gets, and what is acknowledged.                        *)
IsYielded(payload) ==
  \/ payload = Event
  \/ payload = Marker /\ options.connectionEvents
  \/ payload.kind = "answer" /\ payload.request \in Commands /\ options.commandResults
IsAcked(payload) == payload \in {Event, Marker}

InSession == pc \in {"connected", "reading", "holding", "answered", "acking"}

-----------------------------------------------------------------------------
(* The transports.                                                         *)

NoLink == [transport |-> "http", socket |-> "closed", alive |-> FALSE,
           listening |-> FALSE, queue |-> <<>>, ended |-> FALSE]

OpenLink(t) == [transport |-> t, socket |-> "open", alive |-> TRUE,
                listening |-> t = "http", queue |-> <<>>, ended |-> FALSE]

(* events() is iterated: the WebSocket's handlers are attached.             *)
Listen(l) == [l EXCEPT !.listening = TRUE]

(* Faulty variant: the transport is left open.                              *)
LeaveOpen(l) == l
Close(l) == IF l.socket = "open" THEN [l EXCEPT !.socket = "closing"] ELSE l

(* Faulty variant: the close event finds no handler.                        *)
ClosedUnseen(l) == [l EXCEPT !.socket = "closed"]

(* The close event, lost without a handler.                                 *)
Closed(l) == [l EXCEPT !.socket = "closed", !.ended = l.listening]

(* Faulty variant: what arrives while the consumer is busy is dropped.      *)
ReceiveWhenIdle(l, p) ==
  IF l.listening /\ pc = "reading" THEN [l EXCEPT !.queue = Append(@, p)] ELSE l

(* Faulty variant: the handler is attached twice.                           *)
ReceiveTwice(l, p) == IF l.listening THEN [l EXCEPT !.queue = @ \o <<p, p>>] ELSE l
Receive(l, p) == IF l.listening THEN [l EXCEPT !.queue = Append(@, p)] ELSE l

-----------------------------------------------------------------------------
(* Requests.                                                                *)

(* Faulty variant: requests of an ended session are kept.                   *)
KeepPending == UNCHANGED <<requests, pending>>

(* A command sent over HTTP still waits for its own response, and looks at  *)
(* the stored promise only after it.                                        *)
RejectPending ==
  /\ requests' = [r \in Requests |->
                    IF r \in pending /\ requests[r] = "awaiting" THEN "error" ELSE requests[r]]
  /\ pending' = {}

Register(r, phase) ==
  /\ requests' = [requests EXCEPT ![r] = phase]
  /\ pending' = pending \cup {r}

(* Faulty variant: the entry stays in the map.                              *)
SettleOnly(r, result) ==
  /\ requests' = [requests EXCEPT ![r] = result]
  /\ UNCHANGED pending

Settle(r, result) ==
  /\ requests' = [requests EXCEPT ![r] = result]
  /\ pending' = pending \ {r}

SendCommand(r) ==
  /\ requests[r] = "new"
  /\ CASE ~current -> Settle(r, "error") /\ UNCHANGED asked
       [] current /\ link.transport = "http" -> Register(r, "fetching") /\ UNCHANGED asked
       [] current /\ link.transport = "websocket" ->
            /\ Register(r, "awaiting")
            /\ asked' = IF link.socket = "open" THEN asked \cup {r} ELSE asked
  /\ UNCHANGED <<options, pc, stopping, current, link, sent, taken, conflict, sessions>>

(* The HTTP response of a command, whatever became of its session.          *)
FetchReturns(r) ==
  /\ requests[r] = "fetching"
  /\ \E result \in {"ok", "error"} : Settle(r, result)
  /\ UNCHANGED <<options, pc, stopping, current, link, asked, sent, taken, conflict, sessions>>

ResolveFileLease(r) ==
  /\ requests[r] = "new"
  /\ CASE ~current -> Settle(r, "null") /\ UNCHANGED asked
       [] current /\ (link.transport = "http" \/ link.socket # "open") ->
            Settle(r, "error") /\ UNCHANGED asked
       [] current /\ link.transport = "websocket" /\ link.socket = "open" ->
            Register(r, "awaiting") /\ asked' = asked \cup {r}
  /\ UNCHANGED <<options, pc, stopping, current, link, sent, taken, conflict, sessions>>

(* Five seconds without an answer.                                          *)
LeaseTimer(r) ==
  /\ r \in pending /\ requests[r] = "awaiting"
  /\ Settle(r, "null")
  /\ UNCHANGED <<options, pc, stopping, current, link, asked, sent, taken, conflict, sessions>>

-----------------------------------------------------------------------------
(* The generator.                                                           *)

Init ==
  /\ options \in Options
  /\ pc = "start" /\ stopping = FALSE /\ current = FALSE /\ link = NoLink
  /\ requests = [r \in Requests |-> "new"]
  /\ pending = {} /\ asked = {}
  /\ sent = 0 /\ taken = 0
  /\ conflict = FALSE /\ sessions = 0

(* The consumer asks for the first event.                                   *)
Start ==
  /\ pc = "start"
  /\ pc' = "opening"
  /\ UNCHANGED <<options, stopping, current, link, requests, pending, asked, sent, taken,
                 conflict, sessions>>

(* A return() that came while the connection was opened takes effect at the *)
(* first yield: with connection events here, else in the session.           *)
Opened(transport) ==
  /\ pc = "opening" /\ sessions < MaxSessions
  /\ sessions' = sessions + 1
  /\ conflict' = FALSE /\ asked' = {} /\ sent' = 0 /\ taken' = 0
  /\ IF ~options.connectionEvents
     THEN pc' = "reading" /\ current' = TRUE /\ link' = Listen(OpenLink(transport))
     ELSE IF stopping
     THEN pc' = "stopped" /\ current' = FALSE /\ link' = Close(OpenLink(transport))
     ELSE pc' = "connected" /\ current' = TRUE /\ link' = OpenLink(transport)
  /\ UNCHANGED <<options, stopping, requests, pending>>

(* The delay, or the end of a generator that does not reconnect.            *)
Onwards == IF options.reconnect THEN "waiting" ELSE "stopped"

(* Faulty variant: the loop does not look at return().                      *)
AlwaysReconnect == IF options.connectionEvents THEN "disconnected" ELSE Onwards

(* Where the end of a session leads, also one that ends with an error: that  *)
(* is thrown where the generator stops.                                     *)
AfterSession == IF stopping THEN "stopped" ELSE
                IF options.connectionEvents THEN "disconnected" ELSE Onwards

(* Both transports failed; 409: the key has another consumer.               *)
OpenFails(is409) ==
  /\ pc = "opening"
  /\ conflict' = is409
  /\ pc' = AfterSession
  /\ RejectPending
  /\ UNCHANGED <<options, stopping, current, link, asked, sent, taken, sessions>>

(* The consumer asks for the next event; what it has is acknowledged first,  *)
(* by a message or by a request of its own.                                 *)
Acknowledging == IF link.transport = "http" THEN "acking" ELSE "reading"
ConsumerNext ==
  /\ \/ /\ pc \in {"connected", "answered"}
        /\ pc' = "reading" /\ link' = Listen(link)
     \/ /\ pc = "holding"
        /\ pc' = Acknowledging /\ UNCHANGED link
     \/ /\ pc = "disconnected"
        /\ pc' = Onwards /\ UNCHANGED link
  /\ UNCHANGED <<options, stopping, current, requests, pending, asked, sent, taken,
                 conflict, sessions>>

(* The HTTP response of an acknowledgement, whatever it says.               *)
AckReturns ==
  /\ pc = "acking"
  /\ pc' = "reading"
  /\ UNCHANGED <<options, stopping, current, link, requests, pending, asked, sent, taken,
                 conflict, sessions>>

(* The reconnect delay is over.                                             *)
Reconnect ==
  /\ pc = "waiting"
  /\ pc' = "opening"
  /\ UNCHANGED <<options, stopping, current, link, requests, pending, asked, sent, taken,
                 conflict, sessions>>

(* The next payload: an answer settles a request that still waits for it;   *)
(* what the consumer gets is handed out, which lets a return() through.     *)
Take ==
  /\ pc = "reading" /\ link.queue # <<>> /\ Head(link.queue) # Garbled
  /\ LET payload == Head(link.queue)
         rest == [link EXCEPT !.queue = Tail(@)]
         settled == payload.kind = "answer" /\ payload.request \in pending
     IN /\ taken' = IF payload = Event THEN taken + 1 ELSE taken
        /\ IF IsYielded(payload) /\ stopping
           THEN pc' = "stopped" /\ current' = FALSE /\ link' = Close(rest) /\ RejectPending
           ELSE /\ pc' = CASE IsYielded(payload) /\ IsAcked(payload) -> "holding"
                           [] IsYielded(payload) /\ ~IsAcked(payload) -> "answered"
                           [] ~IsYielded(payload) /\ IsAcked(payload) -> Acknowledging
                           [] OTHER -> "reading"
                /\ link' = rest
                /\ IF settled THEN Settle(payload.request, "ok") ELSE UNCHANGED <<requests, pending>>
                /\ UNCHANGED current
  /\ UNCHANGED <<options, stopping, asked, sent, conflict, sessions>>

(* The transport is at its end and everything buffered was taken.           *)
SessionEnds ==
  /\ pc = "reading" /\ link.queue = <<>> /\ link.ended
  /\ pc' = AfterSession /\ current' = FALSE
  /\ RejectPending
  /\ UNCHANGED <<options, stopping, link, asked, sent, taken, conflict, sessions>>

(* The catch block: a payload that cannot be read ends the session, and the *)
(* connection is closed.                                                    *)
SessionFails ==
  /\ pc = "reading" /\ link.queue # <<>> /\ Head(link.queue) = Garbled
  /\ pc' = AfterSession /\ current' = FALSE
  /\ link' = Close(link)
  /\ RejectPending
  /\ UNCHANGED <<options, stopping, asked, sent, taken, conflict, sessions>>

(* return(): at a yield it runs the finally block, and it interrupts the    *)
(* reconnect delay; elsewhere it waits for the generator.                   *)
Stop ==
  /\ ~stopping /\ pc # "stopped"
  /\ stopping' = TRUE /\ current' = FALSE
  /\ link' = IF current THEN Close(link) ELSE link
  /\ RejectPending
  /\ pc' = IF pc \in {"opening", "reading", "acking"} THEN pc ELSE "stopped"
  /\ UNCHANGED <<options, asked, sent, taken, conflict, sessions>>

(* The stall timer: no payload was taken for long, because none came or     *)
(* because the consumer is slow.                                            *)
Stall ==
  /\ InSession /\ current
  /\ link.alive => pc # "reading"
  /\ link.socket = "open"
  /\ link' = Close(link)
  /\ UNCHANGED <<options, pc, stopping, current, requests, pending, asked, sent, taken,
                 conflict, sessions>>

-----------------------------------------------------------------------------
(* The network and the server.                                              *)

NetworkMoves ==
  /\ InSession
  /\ PromptConsumer => pc # "connected"
  /\ UNCHANGED <<options, pc, stopping, current, requests, pending, taken, conflict, sessions>>

ServerSends(payload) ==
  /\ NetworkMoves
  /\ link.socket = "open" /\ link.alive
  /\ link' = Receive(link, payload)

ServerEvent ==
  /\ sent + Cardinality({i \in DOMAIN link.queue : link.queue[i] \in {Marker, Ping, Garbled}})
       < MaxEvents
  /\ \/ ServerSends(Event) /\ sent' = sent + 1
     \/ \E payload \in {Marker, Ping, Garbled} : ServerSends(payload) /\ UNCHANGED sent
  /\ UNCHANGED asked

ServerAnswers(r) ==
  /\ r \in asked
  /\ ServerSends(Answer(r))
  /\ asked' = asked \ {r}
  /\ UNCHANGED sent

(* The server closes the connection, or it breaks.                          *)
ConnectionLost ==
  /\ NetworkMoves
  /\ link.socket = "open" /\ link.alive
  /\ link' = Closed(link)
  /\ UNCHANGED <<asked, sent>>

(* The peer is gone and nothing tells.                                      *)
PeerDies ==
  /\ NetworkMoves
  /\ link.socket = "open" /\ link.alive
  /\ link' = [link EXCEPT !.alive = FALSE]
  /\ UNCHANGED <<asked, sent>>

(* A close() of this side is complete.                                      *)
CloseCompletes ==
  /\ NetworkMoves
  /\ link.socket = "closing"
  /\ link' = Closed(link)
  /\ UNCHANGED <<asked, sent>>

Next ==
  \/ \E r \in Commands : SendCommand(r) \/ FetchReturns(r)
  \/ \E r \in Leases : ResolveFileLease(r) \/ LeaseTimer(r)
  \/ Start \/ Stop \/ Stall
  \/ \E transport \in {"websocket", "http"} : Opened(transport)
  \/ \E is409 \in BOOLEAN : OpenFails(is409)
  \/ ConsumerNext \/ AckReturns \/ Reconnect \/ Take \/ SessionEnds \/ SessionFails
  \/ ServerEvent \/ \E r \in Requests : ServerAnswers(r)
  \/ ConnectionLost \/ PeerDies \/ CloseCompletes

Spec == Init /\ [][Next]_vars

(* The event loop runs what is ready and timers fire; the consumer comes    *)
(* back; attempts to open, closing handshakes and HTTP responses come to an *)
(* end; a live server answers the commands it has received.                 *)
Fairness ==
  /\ WF_vars(ConsumerNext) /\ WF_vars(AckReturns) /\ WF_vars(Reconnect)
  /\ WF_vars(Take) /\ WF_vars(SessionEnds) /\ WF_vars(SessionFails)
  /\ WF_vars(Stall) /\ WF_vars(CloseCompletes)
  /\ WF_vars(\E t \in {"websocket", "http"} : Opened(t) \/ \E is409 \in BOOLEAN : OpenFails(is409))
  /\ \A r \in Commands : WF_vars(FetchReturns(r)) /\ WF_vars(ServerAnswers(r))
  /\ \A r \in Leases : WF_vars(LeaseTimer(r))

FairSpec == Spec /\ Fairness

-----------------------------------------------------------------------------
Events(queue) == {i \in DOMAIN queue : queue[i] = Event}

TypeOK ==
  /\ options \in Options
  /\ pc \in {"start", "opening", "connected", "reading", "holding", "answered", "acking",
             "disconnected", "waiting", "stopped"}
  /\ stopping \in BOOLEAN /\ current \in BOOLEAN /\ conflict \in BOOLEAN
  /\ link \in [transport: {"websocket", "http"}, socket: {"open", "closing", "closed"},
               alive: BOOLEAN, listening: BOOLEAN, queue: Seq(Payloads), ended: BOOLEAN]
  /\ requests \in [Requests -> {"new", "fetching", "awaiting", "ok", "null", "error"}]
  /\ pending \in SUBSET Requests /\ asked \in SUBSET Requests
  /\ sent \in 0..MaxEvents /\ taken \in 0..sent /\ sessions \in 0..MaxSessions

(* A caller that waits for an answer from the stream is in the map of a     *)
(* session that is not over, and the maps hold nobody else: no caller is    *)
(* left behind by a session that ended, broke or was stopped.               *)
WaitersAreTracked ==
  /\ \A r \in Requests : requests[r] = "awaiting" => r \in pending /\ current
  /\ \A r \in pending : requests[r] \in {"awaiting", "fetching"}

(* A request of a session is never carried over to the next one, and the    *)
(* connection that is current is the one the generator reads.               *)
CurrentIsLive == current \/ pending # {} => InSession

(* Every event the server sent in the session was handed out or is about to *)
(* be: none was dropped on the way.                                         *)
NothingMissed == InSession => sent = taken + Cardinality(Events(link.queue))

(* A stopped generator has let go of its connection, so that the server     *)
(* frees the key for another consumer.                                      *)
StoppedReleases == pc = "stopped" => ~current /\ pending = {} /\ link.socket # "open"

(* No caller, request or connection outlives its session.                   *)
NothingLeftBehind == WaitersAreTracked /\ CurrentIsLive /\ StoppedReleases

(* Every request is answered, refused or given up.                          *)
RequestsSettle ==
  \A r \in Requests : requests[r] \in {"fetching", "awaiting"}
                        ~> requests[r] \in {"ok", "null", "error"}

(* A connection that is gone, also one whose peer went without a word, is   *)
(* noticed, and the generator leaves its session.                           *)
LossIsNoticed == (InSession /\ (link.socket # "open" \/ ~link.alive)) ~> ~InSession

(* return() stops the generator.  One without connection events that is      *)
(* stopped while it opens a connection still reads that connection, until it *)
(* has something to hand out or the connection is gone.                     *)
OpenedAfterReturn == stopping /\ current /\ ~options.connectionEvents
StopStops ==
  /\ stopping ~> (pc = "stopped" \/ OpenedAfterReturn)
  /\ (stopping /\ InSession /\ (link.socket # "open" \/ \E k \in DOMAIN link.queue : link.queue[k] = Event))
       ~> pc = "stopped"

(* An answer of 409 is final.                                               *)
ConflictIsFinal == [][conflict => pc' # "opening"]_vars
=============================================================================
