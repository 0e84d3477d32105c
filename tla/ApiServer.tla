----------------------------- MODULE ApiServer -----------------------------
(***************************************************************************)
(* The Unix socket API: connections that are accepted and read on the one  *)
(* io thread, requests handled by a pool of threads, and events written to *)
(* every SSE subscriber by whichever thread fires them.                    *)
(*                                                                         *)
(* A connection stays open as long as something in the server refers to    *)
(* it: a read, a request, a write that is not over, the subscriber list.   *)
(***************************************************************************)
EXTENDS ApiEndpoints, Integers, Sequences, FiniteSets

CONSTANTS Conn,      \* connections open at a time
          Endpoint,  \* endpoints asked for, "Unknown" when not registered
          Workers    \* threads of the pool

ASSUME ApiAssumption ==
  /\ Workers \in Nat \ {0}
  /\ Endpoint \subseteq Registered \cup {"Unknown"}

VARIABLES
  up,         \* the process has not been ended by an exception
  accepting,  \* an accept is outstanding
  client,     \* per connection, the client's end of it
  read,       \* how much of the request has been read
  endpoint,   \* what the request asks for
  where,      \* which thread has the request
  script,     \* what is left of its handler
  promise,    \* what a handler waits for
  posted,     \* requests posted to the pool
  said,       \* the statuses that the client was sent
  alive,      \* UnixSocket::is_alive
  writes,     \* writes that are not over, or have failed
  sockets,    \* the SSE subscribers, whose order nothing depends on
  capacity,   \* how many of them the vector has room for
  walk        \* per thread, the subscribers it has yet to write to

wire == <<said, alive, writes>>
request == <<client, read, endpoint>>
handling == <<where, script, promise, posted>>
listing == <<sockets, capacity>>
serverVars == <<up, accepting, request, handling, wire, listing, walk>>

\* Who writes to subscribers: the timer on the io thread, a thread of another
\* part of the server, the thread that handles a request.
Thread == {"io", "bus"} \cup Conn
NotWalking == [left |-> {}, raced |-> FALSE]
Write == {"data", "event"} \X {"stuck", "failed"}

Listed(c) == c \in sockets
Reading(c) == read[c] \in {"headers", "body"}

\* Something in the server refers to the socket.
Held(c) == Reading(c) \/ where[c] # "none" \/ writes[c] # {} \/ Listed(c)

ServerTypeOK ==
  /\ up \in BOOLEAN /\ accepting \in BOOLEAN
  /\ client \in [Conn -> {"none", "there", "gone"}]
  /\ read \in [Conn -> {"none", "backlog", "headers", "body", "done", "failed"}]
  /\ endpoint \in [Conn -> Endpoint \cup {"Unknown"}]
  /\ where \in [Conn -> {"none", "posted", "worker", "thread"}]
  /\ script \in [Conn -> Seq(Step)]
  /\ promise \in [Conn -> {"pending", "kept", "refused"}]
  /\ posted \in Seq(Conn)
  /\ \A c \in Conn : where[c] = "posted" <=> \E i \in DOMAIN posted : posted[i] = c
  /\ said \in [Conn -> Seq(Code)]
  /\ alive \in [Conn -> BOOLEAN]
  /\ writes \in [Conn -> SUBSET Write]
  /\ sockets \in SUBSET Conn /\ capacity \in Nat
  /\ walk \in [Thread -> [left : SUBSET Conn, raced : BOOLEAN]]

ServerInit ==
  /\ up = TRUE /\ accepting = TRUE
  /\ client = [c \in Conn |-> "none"]
  /\ read = [c \in Conn |-> "none"]
  /\ endpoint = [c \in Conn |-> "Unknown"]
  /\ where = [c \in Conn |-> "none"]
  /\ script = [c \in Conn |-> <<>>]
  /\ promise = [c \in Conn |-> "pending"]
  /\ posted = <<>>
  /\ said = [c \in Conn |-> <<>>]
  /\ alive = [c \in Conn |-> TRUE]
  /\ writes = [c \in Conn |-> {}]
  /\ sockets = {} /\ capacity = 0
  /\ walk = [t \in Thread |-> NotWalking]

-----------------------------------------------------------------------------
(* Clients. *)

\* A slot is reused once the server has let go of its connection.
ClientConnects(c, e) ==
  /\ up
  /\ read[c] # "backlog" /\ ~Held(c)
  /\ client' = [client EXCEPT ![c] = "there"]
  /\ read' = [read EXCEPT ![c] = "backlog"]
  /\ endpoint' = [endpoint EXCEPT ![c] = e]
  /\ said' = [said EXCEPT ![c] = <<>>]
  /\ alive' = [alive EXCEPT ![c] = TRUE]
  /\ UNCHANGED <<up, accepting, handling, writes, listing, walk>>

Leave(c) ==
  /\ up
  /\ client[c] = "there" /\ (Held(c) \/ read[c] = "backlog")
  /\ client' = [client EXCEPT ![c] = "gone"]
  /\ writes' = [writes EXCEPT ![c] = {<<w[1], "failed">> : w \in @}]
  /\ UNCHANGED <<up, accepting, read, endpoint, handling, said, alive, listing, walk>>

\* The client reads: what was stuck in the server goes out.
Drain(c) ==
  /\ up
  /\ \E w \in writes[c] : w[2] = "stuck"
  /\ writes' = [writes EXCEPT ![c] = {w \in @ : w[2] # "stuck"}]
  /\ UNCHANGED <<up, accepting, request, handling, said, alive, listing, walk>>

-----------------------------------------------------------------------------
(* Writes and the list of subscribers. *)

Reachable(c) == client[c] = "there" /\ alive[c]

\* async_write() writes at once what the kernel takes; the rest is stuck until
\* the client reads. A write to a socket that is closed on either end fails.
Written(c, kind) ==
  \/ Reachable(c) /\ UNCHANGED writes
  \/ Reachable(c) /\ writes' = [writes EXCEPT ![c] = @ \cup {<<kind, "stuck">>}]
  \/ ~Reachable(c) /\ writes' = [writes EXCEPT ![c] = @ \cup {<<kind, "failed">>}]

\* send_http(): the status line reaches the client if its socket can be written.
Say(c, code) ==
  /\ Written(c, "data")
  /\ said' = IF Reachable(c) THEN [said EXCEPT ![c] = Append(@, code)] ELSE said

Close(c) == alive' = [alive EXCEPT ![c] = FALSE]

\* A loop over the list is lost when another thread moves what it loops over.
Disturbed(t) ==
  [u \in Thread |-> IF u # t /\ walk[u].left # {}
                    THEN [left |-> walk[u].left, raced |-> TRUE] ELSE walk[u]]

\* cleanup_sockets() on the io thread, once alive' is known.
Living == {c \in sockets : alive'[c]}
CleanupSockets ==
  /\ sockets' = Living
  /\ walk' = IF Living = sockets THEN walk ELSE Disturbed("io")

\* The io thread runs one completion at a time.
IoFree == up /\ walk["io"].left = {}

\* A write that failed: close, and for an event cleanup.
WriteFailed(c, kind) ==
  /\ IoFree
  /\ <<kind, "failed">> \in writes[c]
  /\ writes' = [writes EXCEPT ![c] = @ \ {<<kind, "failed">>}]
  /\ Close(c)
  /\ IF kind = "event" THEN CleanupSockets ELSE UNCHANGED <<sockets, walk>>
  /\ UNCHANGED <<up, accepting, request, handling, said, capacity>>

\* sse_keepalive(): cleanup, then a broadcast; the timer is armed again.
Keepalive ==
  /\ IoFree
  /\ sockets # {}
  /\ UNCHANGED alive
  /\ sockets' = Living
  /\ walk' = [IF Living = sockets THEN walk ELSE Disturbed("io")
                EXCEPT !["io"].left = Living]
  /\ UNCHANGED <<up, accepting, request, handling, said, writes, capacity>>

\* sse_broadcast(): the loop starts, for an event that another part fires.
BusEvent ==
  /\ up
  /\ walk["bus"] = NotWalking /\ sockets # {}
  /\ walk' = [walk EXCEPT !["bus"].left = sockets]
  /\ UNCHANGED <<up, accepting, request, handling, wire, listing>>

\* sse_broadcast(): the next socket of the loop, in any order.
Broadcast(t) ==
  /\ up
  /\ ~walk[t].raced
  /\ \E c \in walk[t].left :
       /\ Written(c, "event")
       /\ walk' = [walk EXCEPT ![t].left = @ \ {c}]
  /\ UNCHANGED <<up, accepting, request, handling, said, alive, listing>>

\* The loop reads what is no longer a socket: it may find nothing harmful
\* there, or end the process.
BroadcastRaced(t) ==
  /\ up
  /\ walk[t].raced
  /\ walk' = [walk EXCEPT ![t] = NotWalking]
  /\ up' \in BOOLEAN
  /\ UNCHANGED <<accepting, request, handling, wire, listing>>

-----------------------------------------------------------------------------
(* Connections, on the io thread. *)

\* start_accept(): the next accept is started before the connection is read.
Accept(c) ==
  /\ IoFree /\ accepting
  /\ read[c] = "backlog"
  /\ read' = [read EXCEPT ![c] = "headers"]
  /\ UNCHANGED <<up, accepting, client, endpoint, handling, wire, listing, walk>>

\* After an error no accept is started any more.
AcceptFails ==
  /\ IoFree /\ accepting
  /\ accepting' = FALSE
  /\ UNCHANGED <<up, request, handling, wire, listing, walk>>

\* The client has gone before its request was whole.
ReadFails(c) ==
  /\ IoFree /\ Reading(c) /\ client[c] = "gone"
  /\ read' = [read EXCEPT ![c] = "failed"]
  /\ Close(c)
  /\ UNCHANGED <<up, accepting, client, endpoint, handling, said, writes, listing, walk>>

\* Chunked encoding is refused, and the socket left open.
RefuseChunked(c) ==
  /\ IoFree /\ read[c] = "headers"
  /\ read' = [read EXCEPT ![c] = "done"]
  /\ Say(c, "500")
  /\ UNCHANGED <<up, accepting, client, endpoint, handling, alive, listing, walk>>

\* A Content-Length that is no number throws on the io thread.
BadLength(c) ==
  /\ IoFree /\ read[c] = "headers"
  /\ up' = FALSE
  /\ UNCHANGED <<accepting, request, handling, wire, listing, walk>>

\* The headers have come, part of the body has not.
ReadHeaders(c) ==
  /\ IoFree /\ read[c] = "headers"
  /\ read' = [read EXCEPT ![c] = "body"]
  /\ UNCHANGED <<up, accepting, client, endpoint, handling, wire, listing, walk>>

\* handle_request(): a registered endpoint is posted to the pool.
PostRequest(c) ==
  /\ IoFree /\ Reading(c)
  /\ endpoint[c] \in Registered
  /\ read' = [read EXCEPT ![c] = "done"]
  /\ where' = [where EXCEPT ![c] = "posted"]
  /\ posted' = Append(posted, c)
  /\ UNCHANGED <<up, accepting, client, endpoint, script, promise, wire, listing, walk>>

\* Variant of NotFound for mutation: the socket is closed before the answer.
NotFoundClosesFirst(c) ==
  /\ IoFree /\ Reading(c)
  /\ endpoint[c] \notin Registered
  /\ read' = [read EXCEPT ![c] = "done"]
  /\ writes' = [writes EXCEPT ![c] = @ \cup {<<"data", "failed">>}]
  /\ Close(c)
  /\ UNCHANGED <<up, accepting, client, endpoint, handling, said, listing, walk>>

\* Any other path: 404, and the socket is closed at once.
NotFound(c) ==
  /\ IoFree /\ Reading(c)
  /\ endpoint[c] \notin Registered
  /\ read' = [read EXCEPT ![c] = "done"]
  /\ said' = IF Reachable(c) THEN [said EXCEPT ![c] = Append(@, "404")] ELSE said
  /\ writes' = IF Reachable(c) THEN writes
               ELSE [writes EXCEPT ![c] = @ \cup {<<"data", "failed">>}]
  /\ Close(c)
  /\ UNCHANGED <<up, accepting, client, endpoint, handling, listing, walk>>

-----------------------------------------------------------------------------
(* Handlers, on the threads of the pool and their own. *)

\* Variant of TakeRequest for mutation: the request stays in the queue.
TakeRequestKeepsIt ==
  /\ up /\ posted # <<>>
  /\ Cardinality({c \in Conn : where[c] = "worker"}) < Workers
  /\ LET c == Head(posted) IN
       /\ where' = [where EXCEPT ![c] = "worker"]
       /\ \E s \in Handler(endpoint[c]) : script' = [script EXCEPT ![c] = s]
  /\ UNCHANGED <<up, accepting, request, promise, posted, wire, listing, walk>>

\* A thread of the pool that is free takes the oldest request.
TakeRequest ==
  /\ up /\ posted # <<>>
  /\ Cardinality({c \in Conn : where[c] = "worker"}) < Workers
  /\ LET c == Head(posted) IN
       /\ posted' = Tail(posted)
       /\ where' = [where EXCEPT ![c] = "worker"]
       /\ \E s \in Handler(endpoint[c]) : script' = [script EXCEPT ![c] = s]
  /\ UNCHANGED <<up, accepting, request, promise, wire, listing, walk>>

Running(c) ==
  /\ up
  /\ where[c] \in {"worker", "thread"}
  /\ walk[c].left = {}

At(c, steps) == Running(c) /\ script[c] # <<>> /\ Head(script[c]) \in steps
Advance(c) == script' = [script EXCEPT ![c] = Tail(@)]

\* push_back() on the list, which moves it when it is full.
Subscribe(c) ==
  /\ At(c, {"subscribe"})
  /\ Advance(c)
  /\ sockets' = sockets \cup {c}
  /\ IF Cardinality(sockets) < capacity
     THEN UNCHANGED <<capacity, walk>>
     ELSE capacity' = (IF capacity = 0 THEN 1 ELSE 2 * capacity) /\ walk' = Disturbed(c)
  /\ UNCHANGED <<up, accepting, request, where, promise, posted, wire>>

\* fire_event(): the global handler broadcasts on this thread.
Fire(c) ==
  /\ At(c, {"fire"})
  /\ Advance(c)
  /\ walk' = [walk EXCEPT ![c].left = sockets]
  /\ UNCHANGED <<up, accepting, request, where, promise, posted, wire, listing>>

Answer(c) ==
  /\ At(c, Code)
  /\ Advance(c)
  /\ Say(c, Head(script[c]))
  /\ UNCHANGED <<up, accepting, request, where, promise, posted, alive, listing, walk>>

\* send_data() of what follows the status line.
SendLine(c) ==
  /\ At(c, {"line"})
  /\ Advance(c)
  /\ Written(c, "data")
  /\ UNCHANGED <<up, accepting, request, where, promise, posted, said, alive, listing, walk>>

Detach(c) ==
  /\ At(c, {"detach"})
  /\ Advance(c)
  /\ where' = [where EXCEPT ![c] = "thread"]
  /\ UNCHANGED <<up, accepting, request, promise, posted, wire, listing, walk>>

\* Setup of the lobby is over, or the join is: another thread sets the value.
Settle(c, how) ==
  /\ At(c, {"wait"}) /\ promise[c] = "pending"
  /\ promise' = [promise EXCEPT ![c] = how]
  /\ UNCHANGED <<up, accepting, request, where, script, posted, wire, listing, walk>>

\* wait_for() returns with the value, or at the timeout without one.
WaitOver(c) ==
  /\ At(c, {"wait"})
  /\ script' = [script EXCEPT ![c] = IF promise[c] = "kept" THEN Done ELSE Refused]
  /\ promise' = [promise EXCEPT ![c] = "pending"]
  /\ UNCHANGED <<up, accepting, request, where, posted, wire, listing, walk>>

\* An exception that leaves a handler ends the process.
Throw(c) ==
  /\ At(c, {"throw"})
  /\ up' = FALSE
  /\ UNCHANGED <<accepting, request, handling, wire, listing, walk>>

Return(c) ==
  /\ Running(c) /\ script[c] = <<>>
  /\ where' = [where EXCEPT ![c] = "none"]
  /\ UNCHANGED <<up, accepting, request, script, promise, posted, wire, listing, walk>>

-----------------------------------------------------------------------------
ClientStep(c) == Leave(c) \/ Drain(c) \/ \E e \in Endpoint : ClientConnects(c, e)

HeadersStep(c) == RefuseChunked(c) \/ BadLength(c) \/ ReadHeaders(c)
DispatchStep(c) == PostRequest(c) \/ NotFound(c)

HandlerStep(c) ==
  \/ Subscribe(c) \/ Fire(c) \/ Answer(c) \/ SendLine(c)
  \/ Detach(c) \/ WaitOver(c) \/ Throw(c) \/ Return(c)

BroadcastStep(t) == Broadcast(t) \/ BroadcastRaced(t)

ServerNext ==
  \/ AcceptFails
  \/ Keepalive
  \/ BusEvent
  \/ TakeRequest
  \/ \E t \in Thread : BroadcastStep(t)
  \/ \E c \in Conn :
       \/ ClientStep(c)
       \/ Accept(c) \/ ReadFails(c)
       \/ HeadersStep(c) \/ DispatchStep(c)
       \/ \E k \in {"data", "event"} : WriteFailed(c, k)
       \/ \E how \in {"kept", "refused"} : Settle(c, how)
       \/ HandlerStep(c)

ServerSpec == ServerInit /\ [][ServerNext]_serverVars

-----------------------------------------------------------------------------
(* Properties *)

\* The endpoints that end a request without an answer, or with two.
Silent == {"RunnerStart", "DockerPullImage"}

\* A client that has stayed gets one status line for its request, and the
\* server has not let go of the connection before: whatever the order of
\* handlers, timeouts, failed writes and closes
\* (unix_socket_server.cpp:383-403).
AnsweredOnce ==
  \A c \in Conn :
    /\ endpoint[c] # "DockerPullImage" => Len(said[c]) <= 1
    /\ /\ read[c] = "done" /\ client[c] = "there"
       /\ ~Held(c) \/ ~alive[c]
       /\ endpoint[c] \notin Silent
       => said[c] # <<>>
=============================================================================
