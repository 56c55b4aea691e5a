------------------------------- MODULE Tunnel -------------------------------
(***************************************************************************)
(* Localhost tunnels: the server's table (core/harness_tunnel.py), the     *)
(* confirmation that opens one (endpoints/mcp.py), the public requests     *)
(* that ride it (endpoints/tunnel.py), the relay loop that routes the      *)
(* agent's frames (endpoints/agents.py) and the agent at the other end     *)
(* (agent/runner.py), for one account.                                     *)
(*                                                                         *)
(* A relay socket is two FIFO channels.  A frame is handed to the          *)
(* transport in the step that looks the tunnel up; what is in a channel    *)
(* when the connection breaks is lost.  Ports, hosts, heads and payloads   *)
(* are left out except for whether they are refused: a data frame is the   *)
(* number of its chunk, and one byte of the caps.                          *)
(***************************************************************************)
EXTENDS Naturals, Sequences, FiniteSets

CONSTANTS
    Tokens,      \* one per confirmed expose_port
    Sockets,     \* relay connections, in the order they attached
    Streams,     \* public requests, each with its stream id
    Nowhere,     \* no socket, no tunnel
    MaxTunnels,  \* tunnel_max_per_user
    MaxStreams,  \* MAX_STREAMS_PER_TUNNEL
    QueueSize,   \* STREAM_QUEUE_MAXSIZE
    TotalBytes,  \* tunnel_total_bytes
    Chunks,      \* bound: chunks of a response
    BodyChunks   \* bound: chunks of a request's body

ASSUME CapsExist == /\ {MaxTunnels, MaxStreams, QueueSize} \subseteq Nat \ {0}
                    /\ {TotalBytes, Chunks, BodyChunks} \subseteq Nat
ASSUME SocketsOrdered == Sockets \subseteq Nat /\ Nowhere \notin Sockets \cup Tokens
ASSUME StreamsFinite == IsFiniteSet(Streams)

VARIABLES
    tunnels,   \* _tunnels: the live records, [ws, streams]
    old,       \* tokens past tunnel_ttl_seconds
    opener,    \* what the confirmation of each token is doing
    ack,       \* the future of _acks: none, waiting, ok or refused
    bytes,     \* bytes_total of each record
    attached,  \* sockets the server's relay loops serve
    linked,    \* sockets the agent's relay loop serves
    toAgent, toServer, \* frames under way on each socket
    req,       \* each public request: what it is doing, its tunnel, the chunks
               \* of its body and of the answer the origin has for it
    queue,     \* the bounded queue of each stream
    out,       \* chunks each client has been sent
    pump,      \* the task forwarding the request's body
    paced,     \* spenders asleep in spend: request bodies and pumps
    claimed,   \* _TUNNELS of the agent behind each socket
    serving,   \* _STREAMS: each stream's pump at the agent
    inbound    \* _INBOUND: body chunks waiting for the origin

vars == <<tunnels, old, opener, ack, bytes, attached, linked, toAgent, toServer,
          req, queue, out, pump, paced, claimed, serving, inbound>>
table == <<tunnels, old, opener, ack, bytes>>
wires == <<attached, linked, toAgent, toServer>>
public == <<req, queue, out, pump, paced>>
agent == <<claimed, serving, inbound>>
-----------------------------------------------------------------------------
(* The table.                                                              *)

\* What a stream's queue holds: a response head, chunks by number, STREAM_CLOSED.
HeadItem == 0
Closed == Chunks + 1
Items == 0..Closed
IsChunk(item) == item \in 1..Chunks

Live == DOMAIN tunnels
\* What a reader gets: an idle timer ends what STREAM_CLOSED would.
NextOf(s) == IF queue[s] = <<>> THEN Closed ELSE Head(queue[s])
\* Variant: one more than the queue takes.
HasRoomForOne(s) == Len(queue[s]) <= QueueSize
HasRoom(s) == Len(queue[s]) < QueueSize

\* Closing a stream puts STREAM_CLOSED in its queue, unless that is full.
Seal(q, ss) == [s \in Streams |->
    IF s \in ss /\ Len(q[s]) < QueueSize THEN Append(q[s], Closed) ELSE q[s]]

StreamsOf(ts) == UNION {tunnels[t].streams : t \in ts \cap Live}

\* _drop, of every token in ts: the record goes, its waiter is cancelled,
\* its streams are sealed.
Drop(ts) ==
    /\ tunnels' = [t \in Live \ ts |-> tunnels[t]]
    /\ ack' = [t \in Tokens |-> IF t \in ts \cap Live THEN "none" ELSE ack[t]]
    /\ queue' = Seal(queue, StreamsOf(ts))

\* Variant: the stream is sealed and stays in the table.
DropStreamKeeping(t, s) ==
    /\ UNCHANGED tunnels
    /\ queue' = IF t \in Live /\ s \in tunnels[t].streams
                THEN Seal(queue, {s}) ELSE queue

\* drop_stream
DropStream(t, s) ==
    IF t \in Live /\ s \in tunnels[t].streams
    THEN /\ tunnels' = [tunnels EXCEPT ![t].streams = @ \ {s}]
         /\ queue' = Seal(queue, {s})
    ELSE UNCHANGED <<tunnels, queue>>

\* socket_for: the pinned socket of a live tunnel.
SocketFor(t) == IF t \in Live THEN tunnels[t].ws ELSE Nowhere

\* send_frame: False without a pinned socket or on one already closed.
CanSend(t) == SocketFor(t) \in attached
Sent(t, frame) == [toAgent EXCEPT ![SocketFor(t)] =
                       IF SocketFor(t) \in linked THEN Append(@, frame) ELSE @]
SendFrame(t, frame) == toAgent' = IF CanSend(t) THEN Sent(t, frame) ELSE toAgent

TunnelExpires(t) ==
    /\ t \in Live \ old
    /\ old' = old \cup {t}
    /\ UNCHANGED <<tunnels, opener, ack, bytes, wires, public, agent>>
-----------------------------------------------------------------------------
(* Opening and closing: _open_tunnel, and the tunnel_close tool.           *)

OpenTunnel(t) ==
    /\ opener[t] = "idle"
    /\ IF attached = {} \/ Cardinality(Live \ old) >= MaxTunnels
       THEN /\ opener' = [opener EXCEPT ![t] = "refused"]
            /\ IF attached = {} THEN UNCHANGED <<tunnels, ack, queue>> ELSE Drop(old)
       ELSE /\ opener' = [opener EXCEPT ![t] = "pushing"]
            /\ tunnels' = [x \in (Live \ old) \cup {t} |->
                   IF x = t THEN [ws |-> Nowhere, streams |-> {}] ELSE tunnels[x]]
            /\ ack' = [x \in Tokens |-> IF x \in old THEN "none" ELSE ack[x]]
            /\ queue' = Seal(queue, StreamsOf(old))
    /\ UNCHANGED <<old, bytes, wires, req, out, pump, paced, agent>>

\* push_ws: to the socket attached first, while it still is.
PushOpen(t) ==
    /\ opener[t] = "pushing"
    /\ IF attached = {}
       THEN /\ opener' = [opener EXCEPT ![t] = "refused"]
            /\ Drop(old \cup {t})
            /\ UNCHANGED toAgent
       ELSE LET w == CHOOSE w \in attached : \A v \in attached : w <= v
            IN  /\ opener' = [opener EXCEPT ![t] = "pushed"]
                /\ toAgent' = [toAgent EXCEPT ![w] =
                       IF w \in linked THEN Append(@, <<"open", t>>) ELSE @]
                /\ UNCHANGED <<tunnels, ack, queue>>
    /\ UNCHANGED <<old, bytes, attached, linked, toServer, req, out, pump, paced, agent>>

\* await_ack registers its future after the push; an ack before it is lost.
AwaitAck(t) ==
    /\ opener[t] = "pushed"
    /\ opener' = [opener EXCEPT ![t] = IF t \in Live THEN "waiting" ELSE "timeout"]
    /\ ack' = [ack EXCEPT ![t] = IF t \in Live THEN "waiting" ELSE @]
    /\ UNCHANGED <<tunnels, old, bytes, wires, public, agent>>

\* Variant: a timed-out confirmation leaves its tunnel open.
AckMissingKeeping(t) ==
    /\ opener[t] = "waiting" /\ ack[t] \in {"waiting", "none"}
    /\ opener' = [opener EXCEPT ![t] = "timeout"]
    /\ UNCHANGED <<tunnels, queue, ack, old, bytes, wires, req, out, pump, paced, agent>>

\* The future times out, or was cancelled with the tunnel.
AckMissing(t) ==
    /\ opener[t] = "waiting" /\ ack[t] \in {"waiting", "none"}
    /\ opener' = [opener EXCEPT ![t] = "timeout"]
    /\ Drop({t})
    /\ UNCHANGED <<old, bytes, wires, req, out, pump, paced, agent>>

AckSeen(t) ==
    /\ opener[t] = "waiting" /\ ack[t] \in {"ok", "refused"}
    /\ \/ /\ ack[t] = "ok"
          /\ opener' = [opener EXCEPT ![t] = "ready"]
          /\ ack' = [ack EXCEPT ![t] = "none"]
          /\ UNCHANGED <<tunnels, queue>>
       \/ /\ ack[t] = "refused"
          /\ opener' = [opener EXCEPT ![t] = "refused"]
          /\ Drop(old \cup {t})
    /\ UNCHANGED <<old, bytes, wires, req, out, pump, paced, agent>>

\* close: the owner's, idempotent.  The agent is not told.
CloseTunnel(t) ==
    /\ opener[t] = "ready" /\ t \in Live
    /\ Drop(old \cup {t})
    /\ UNCHANGED <<old, opener, bytes, wires, req, out, pump, paced, agent>>
-----------------------------------------------------------------------------
(* A public request: tunnel_proxy, its body generator and its body pump.   *)

Goto(s, pc) == req' = [req EXCEPT ![s].pc = pc]
Cancelled(s) == IF pump[s].at = "on" THEN [pump EXCEPT ![s].at = "closing"] ELSE pump

\* lookup, socket_for and stream_queue run without a pause.
Arrive(s, t) ==
    /\ req[s].pc = "idle" /\ opener[t] = "ready"
    /\ LET served == t \in Live \ old /\ SocketFor(t) # Nowhere
           room == Cardinality(tunnels[t].streams) < MaxStreams
       IN  /\ req' = [req EXCEPT ![s].pc = IF served /\ room THEN "head" ELSE "answered",
                                 ![s].t = t]
           /\ tunnels' = [x \in Live \ old |->
                  IF x = t /\ served /\ room
                  THEN [tunnels[x] EXCEPT !.streams = @ \cup {s}] ELSE tunnels[x]]
    /\ ack' = [x \in Tokens |-> IF x \in old THEN "none" ELSE ack[x]]
    /\ queue' = Seal(queue, StreamsOf(old))
    /\ UNCHANGED <<old, opener, bytes, wires, out, pump, paced, agent>>

SendHead(s) ==
    /\ req[s].pc = "head"
    /\ LET t == req[s].t
       IN  \/ /\ CanSend(t)
              /\ Goto(s, "first")
              /\ pump' = [pump EXCEPT ![s].at = "on"]
              /\ SendFrame(t, <<"head", t, s>>)
              /\ UNCHANGED <<tunnels, queue>>
           \/ /\ ~CanSend(t)
              /\ Goto(s, "answered")
              /\ DropStream(t, s)
              /\ UNCHANGED <<pump, toAgent>>
    /\ UNCHANGED <<old, opener, ack, bytes, attached, linked, toServer, out, paced, agent>>

\* The response head comes first; anything else, or nothing for
\* STREAM_IDLE_SECONDS, answers 502 and drops the stream.
FirstItem(s) ==
    /\ req[s].pc = "first"
    /\ \/ /\ NextOf(s) = HeadItem
          /\ Goto(s, "body")
          /\ queue' = [queue EXCEPT ![s] = Tail(@)]
          /\ UNCHANGED <<tunnels, pump>>
       \/ /\ NextOf(s) # HeadItem
          /\ Goto(s, "answered")
          /\ pump' = Cancelled(s)
          /\ DropStream(req[s].t, s)
    /\ UNCHANGED <<old, opener, ack, bytes, wires, out, paced, agent>>

\* The body generator ends: its finally clause.
Finish(s, how) ==
    /\ Goto(s, how)
    /\ pump' = Cancelled(s)
    /\ DropStream(req[s].t, s)
    /\ SendFrame(req[s].t, <<"close", req[s].t, s>>)

NextItem(s) ==
    /\ req[s].pc = "body" /\ IsChunk(NextOf(s))
    /\ Goto(s, "spend")
    /\ UNCHANGED <<table, wires, queue, out, pump, paced, agent>>

\* Variant: the body waits for STREAM_CLOSED, however long.
BodyEndsOnClose(s) ==
    /\ req[s].pc = "body" /\ queue[s] # <<>> /\ ~IsChunk(NextOf(s))
    /\ Finish(s, "done")
    /\ UNCHANGED <<old, opener, ack, bytes, attached, linked, toServer, out, paced, agent>>

\* Closed, idle, or a second head.
BodyEnds(s) ==
    /\ req[s].pc = "body" /\ ~IsChunk(NextOf(s))
    /\ Finish(s, "done")
    /\ UNCHANGED <<old, opener, ack, bytes, attached, linked, toServer, out, paced, agent>>

\* spend: refused past the total, else charged at once or after a sleep.
\* Variant: the lifetime total is never looked at.
MaySpendAny(t) == t \in Live
MaySpend(t) == t \in Live /\ bytes[t] + 1 <= TotalBytes
Charge(t) == bytes' = [bytes EXCEPT ![t] = @ + 1]

Pace(s, who) ==
    /\ \/ who = "body" /\ req[s].pc = "spend"
       \/ who = "pump" /\ pump[s].at = "on" /\ pump[s].sent < req[s].body
    /\ <<s, who>> \notin paced /\ MaySpend(req[s].t)
    /\ paced' = paced \cup {<<s, who>>}
    /\ UNCHANGED <<table, wires, req, queue, out, pump, agent>>

BodySpends(s) ==
    /\ req[s].pc = "spend"
    /\ \/ /\ <<s, "body">> \in paced \/ MaySpend(req[s].t)
          /\ Charge(req[s].t)
          /\ out' = [out EXCEPT ![s] = Append(@, Head(queue[s]))]
          /\ queue' = [queue EXCEPT ![s] = Tail(@)]
          /\ Goto(s, "body")
          /\ UNCHANGED <<tunnels, pump, toAgent>>
       \/ /\ <<s, "body">> \notin paced /\ ~MaySpend(req[s].t)
          /\ Finish(s, "done")
          /\ UNCHANGED <<bytes, out>>
    /\ paced' = paced \ {<<s, "body">>}
    /\ UNCHANGED <<old, opener, ack, attached, linked, toServer, agent>>

\* The client goes away: the generator's finally clause runs, and its last
\* send is cancelled too; before the generator's first step nothing runs.
ClientGone(s) ==
    /\ req[s].pc \in {"body", "spend"}
    /\ \/ /\ Goto(s, "done")
          /\ pump' = Cancelled(s)
          /\ DropStream(req[s].t, s)
       \/ /\ req[s].pc = "body" /\ out[s] = <<>>
          /\ Goto(s, "never")
          /\ UNCHANGED <<tunnels, queue, pump>>
    /\ paced' = paced \ {<<s, "body">>}
    /\ UNCHANGED <<old, opener, ack, bytes, wires, out, agent>>

\* _pump_request_body
PumpChunk(s) ==
    /\ pump[s].at = "on" /\ pump[s].sent < req[s].body
    /\ LET t == req[s].t
           admitted == <<s, "pump">> \in paced \/ MaySpend(t)
       IN  /\ pump' = [pump EXCEPT ![s] =
                  IF admitted /\ CanSend(t) THEN [at |-> "on", sent |-> @.sent + 1]
                                            ELSE [@ EXCEPT !.at = "closing"]]
           /\ bytes' = IF admitted THEN [bytes EXCEPT ![t] = @ + 1] ELSE bytes
           /\ IF admitted THEN SendFrame(t, <<"data", t, s>>) ELSE UNCHANGED toAgent
    /\ paced' = paced \ {<<s, "pump">>}
    /\ UNCHANGED <<tunnels, old, opener, ack, attached, linked, toServer,
                   req, queue, out, agent>>

\* Ended or cancelled, its finally clause sends the half close.
PumpEnds(s) ==
    /\ pump[s].at = "closing" \/ (pump[s].at = "on" /\ <<s, "pump">> \notin paced)
    /\ pump' = [pump EXCEPT ![s].at = "off"]
    /\ paced' = paced \ {<<s, "pump">>}
    /\ SendFrame(req[s].t, <<"half", req[s].t, s>>)
    /\ UNCHANGED <<table, attached, linked, toServer, req, queue, out, agent>>
-----------------------------------------------------------------------------
(* The server's relay loop: agent_ws and _route_tunnel_frame.              *)

Receive(w) == /\ w \in attached /\ toServer[w] # <<>>
              /\ toServer' = [toServer EXCEPT ![w] = Tail(@)]

\* resolve_ack and bind_ws; an ack nobody waits for is dropped.
ReceiveAck(w) ==
    /\ Receive(w)
    /\ \E t \in Tokens, ok \in BOOLEAN :
        /\ Head(toServer[w]) = <<"ack", t, ok>>
        /\ IF ack[t] = "waiting" /\ (ok => t \in Live)
           THEN /\ ack' = [ack EXCEPT ![t] = IF ok THEN "ok" ELSE "refused"]
                /\ tunnels' = IF ok THEN [tunnels EXCEPT ![t].ws = w] ELSE tunnels
           ELSE UNCHANGED <<ack, tunnels>>
    /\ UNCHANGED <<old, opener, bytes, attached, linked, toAgent, public, agent>>

\* Variant: a chunk that finds the queue full is skipped.
ReceiveItemSkipping(w) ==
    /\ Receive(w)
    /\ \E t \in Tokens, s \in Streams, item \in Items :
        /\ Head(toServer[w]) = <<"item", t, s, item>>
        /\ queue' = IF t \in Live /\ s \in tunnels[t].streams /\ HasRoom(s)
                    THEN [queue EXCEPT ![s] = Append(@, item)] ELSE queue
    /\ UNCHANGED <<tunnels, old, opener, ack, bytes, attached, linked, toAgent,
                   req, out, pump, paced, agent>>

\* Data and heads go to the stream's queue; one that does not fit drops it.
ReceiveItem(w) ==
    /\ Receive(w)
    /\ \E t \in Tokens, s \in Streams, item \in Items :
        /\ Head(toServer[w]) = <<"item", t, s, item>>
        /\ IF t \in Live /\ s \in tunnels[t].streams /\ HasRoom(s)
           THEN queue' = [queue EXCEPT ![s] = Append(@, item)] /\ UNCHANGED tunnels
           ELSE DropStream(t, s)
    /\ UNCHANGED <<old, opener, ack, bytes, attached, linked, toAgent,
                   req, out, pump, paced, agent>>

ReceiveClose(w) ==
    /\ Receive(w)
    /\ \E t \in Tokens, s \in Streams :
        /\ Head(toServer[w]) = <<"close", t, s>>
        /\ DropStream(t, s)
    /\ UNCHANGED <<old, opener, ack, bytes, attached, linked, toAgent,
                   req, out, pump, paced, agent>>

\* Variant: the loop forgets the tunnels pinned to its socket.
DetachOnly(w) ==
    /\ w \in attached \ linked
    /\ attached' = attached \ {w}
    /\ toServer' = [toServer EXCEPT ![w] = <<>>]
    /\ UNCHANGED <<tunnels, ack, queue, old, opener, bytes, linked, toAgent,
                   req, out, pump, paced, agent>>
\* The loop's finally clause: detach_ws drops the tunnels pinned here.
Detach(w) ==
    /\ w \in attached \ linked
    /\ attached' = attached \ {w}
    /\ toServer' = [toServer EXCEPT ![w] = <<>>]
    /\ Drop({t \in Live : tunnels[t].ws = w})
    /\ UNCHANGED <<old, opener, bytes, linked, toAgent, req, out, pump, paced, agent>>

-----------------------------------------------------------------------------
(* The agent: _handle_tunnel_frame, _serve_stream and the end of its loop. *)

At(w) == w \in linked /\ toAgent[w] # <<>>
Frame(w) == Head(toAgent[w])
Consumed(w) == toAgent' = [toAgent EXCEPT ![w] = Tail(@)]
Tell(w, frame) == toServer' = [toServer EXCEPT ![w] =
                      IF w \in attached THEN Append(@, frame) ELSE @]

\* _handle_tunnel_open: claim the tunnel, then acknowledge it.
AgentOpens(w) ==
    /\ At(w) /\ Frame(w)[1] = "open" /\ Consumed(w)
    /\ \E ok \in BOOLEAN :
        /\ claimed' = [claimed EXCEPT ![w] = IF ok THEN @ \cup {Frame(w)[2]} ELSE @]
        /\ Tell(w, <<"ack", Frame(w)[2], ok>>)
    /\ UNCHANGED <<table, attached, linked, public, serving, inbound>>

\* A stream's end at the agent.  The stream's own task cancels itself first,
\* so its closing frame may not leave.
Forget(s) == /\ serving' = [serving EXCEPT ![s] = Nowhere]
             /\ inbound' = [inbound EXCEPT ![s] = <<>>]
CloseStream(w, t, s) == Forget(s) /\ Tell(w, <<"close", t, s>>)
At0(w) == [at |-> "dial", w |-> w, sent |-> 0]

AgentHead(w) ==
    /\ At(w) /\ Frame(w)[1] = "head" /\ Consumed(w)
    /\ serving' = [serving EXCEPT ![Frame(w)[3]] =
           IF Frame(w)[2] \in claimed[w] /\ @ = Nowhere THEN At0(w) ELSE @]
    /\ UNCHANGED <<table, attached, linked, toServer, public, claimed, inbound>>

\* A chunk or the end of a request's body, for a stream being served.
AgentBody(w) ==
    /\ At(w) /\ Frame(w)[1] \in {"data", "half"} /\ Consumed(w)
    /\ LET t == Frame(w)[2]
           s == Frame(w)[3]
           fits == serving[s] # Nowhere /\ Len(inbound[s]) < QueueSize
       IN  IF t \in claimed[w] /\ Frame(w)[1] = "data" /\ ~fits
           THEN CloseStream(w, t, s)
           ELSE /\ inbound' = IF t \in claimed[w] /\ fits
                              THEN [inbound EXCEPT ![s] = Append(@, Frame(w)[1])] ELSE inbound
                /\ UNCHANGED <<serving, toServer>>
    /\ UNCHANGED <<table, attached, linked, public, claimed>>

AgentCloses(w) ==
    /\ At(w) /\ Frame(w)[1] = "close" /\ Consumed(w)
    /\ CloseStream(w, Frame(w)[2], Frame(w)[3])
    /\ UNCHANGED <<table, attached, linked, public, claimed>>

ServedBy(s, w) == serving[s] # Nowhere /\ serving[s].w = w

ForwardBody(s) ==
    /\ serving[s] # Nowhere /\ serving[s].at # "dial" /\ inbound[s] # <<>>
    /\ inbound' = [inbound EXCEPT ![s] = Tail(@)]
    /\ UNCHANGED <<table, wires, public, claimed, serving>>

Serve(s, w, step) ==
    /\ ServedBy(s, w)
    /\ LET t == req[s].t
           at == serving[s].at
           n == serving[s].sent
       IN  \/ /\ step = "dial" /\ at = "dial"
              /\ serving' = [serving EXCEPT ![s].at = "head"]
              /\ UNCHANGED <<toServer, inbound>>
           \/ /\ step = "head" /\ at = "head"
              /\ serving' = [serving EXCEPT ![s].at = "data"]
              /\ Tell(w, <<"item", t, s, HeadItem>>)
              /\ UNCHANGED inbound
           \/ /\ step = "data" /\ at = "data" /\ n < req[s].size
              /\ serving' = [serving EXCEPT ![s].sent = n + 1]
              /\ Tell(w, <<"item", t, s, n + 1>>)
              /\ UNCHANGED inbound
           \/ step = "end" /\ Forget(s) /\ (Tell(w, <<"close", t, s>>) \/ UNCHANGED toServer)
    /\ UNCHANGED <<table, attached, linked, toAgent, public, claimed>>

\* The agent's loop ends: stopped, idle for three heartbeats, or cut off.
AgentLeaves(w) ==
    /\ w \in linked
    /\ linked' = linked \ {w}
    /\ toAgent' = [toAgent EXCEPT ![w] = <<>>]
    /\ \E kept \in 0..Len(toServer[w]) :
        toServer' = [toServer EXCEPT ![w] = SubSeq(@, 1, kept)]
    /\ claimed' = [claimed EXCEPT ![w] = {}]
    /\ serving' = [s \in Streams |-> IF ServedBy(s, w) THEN Nowhere ELSE serving[s]]
    /\ inbound' = [s \in Streams |-> IF ServedBy(s, w) THEN <<>> ELSE inbound[s]]
    /\ UNCHANGED <<table, attached, public>>
-----------------------------------------------------------------------------
Init ==
    /\ tunnels = [t \in {} |-> [ws |-> Nowhere, streams |-> {}]]
    /\ old = {}
    /\ opener \in [Tokens -> {"idle", "refused"}]
    /\ ack = [t \in Tokens |-> "none"]
    /\ bytes = [t \in Tokens |-> 0]
    /\ attached \in SUBSET Sockets /\ linked = attached
    /\ toAgent = [w \in Sockets |-> <<>>]
    /\ toServer = [w \in Sockets |-> <<>>]
    /\ req \in [Streams -> [pc : {"idle", "answered"}, t : {Nowhere}, body : 0..BodyChunks, size : 0..Chunks]]
    /\ queue = [s \in Streams |-> <<>>]
    /\ out = [s \in Streams |-> <<>>]
    /\ pump = [s \in Streams |-> [at |-> "off", sent |-> 0]]
    /\ paced = {}
    /\ claimed = [w \in Sockets |-> {}]
    /\ serving = [s \in Streams |-> Nowhere]
    /\ inbound = [s \in Streams |-> <<>>]

ConfirmStep == \E t \in Tokens :
    \/ OpenTunnel(t) \/ PushOpen(t) \/ AwaitAck(t) \/ AckMissing(t) \/ AckSeen(t)
RequestStep == \E s \in Streams :
    \/ SendHead(s) \/ FirstItem(s) \/ NextItem(s) \/ BodyEnds(s) \/ BodySpends(s)
PumpStep == \E s \in Streams : PumpChunk(s) \/ PumpEnds(s)
RelayStep == \E w \in Sockets :
    ReceiveAck(w) \/ ReceiveItem(w) \/ ReceiveClose(w) \/ Detach(w)
AgentStep ==
    \/ \E w \in Sockets :
        \/ AgentOpens(w) \/ AgentHead(w) \/ AgentBody(w) \/ AgentCloses(w)
        \/ \E s \in Streams, step \in {"dial", "head", "data", "end"} : Serve(s, w, step)
    \/ \E s \in Streams : ForwardBody(s)
Outside ==
    \/ \E t \in Tokens : TunnelExpires(t) \/ CloseTunnel(t)
    \/ \E s \in Streams, t \in Tokens : Arrive(s, t)
    \/ \E s \in Streams : ClientGone(s) \/ \E who \in {"body", "pump"} : Pace(s, who)
    \/ \E w \in Sockets : AgentLeaves(w)

Next == ConfirmStep \/ RequestStep \/ PumpStep \/ RelayStep \/ AgentStep \/ Outside

\* The server's loop runs every task that is ready, and its timers fire.
Fairness ==
    /\ \A t \in Tokens : WF_vars(PushOpen(t) \/ AwaitAck(t) \/ AckMissing(t) \/ AckSeen(t))
    /\ \A s \in Streams : WF_vars(SendHead(s) \/ FirstItem(s) \/ NextItem(s)
                                   \/ BodyEnds(s) \/ BodySpends(s))

TunnelSpec == Init /\ [][Next]_vars /\ Fairness
-----------------------------------------------------------------------------
TypeOK ==
    /\ Live \subseteq Tokens /\ old \subseteq Tokens
    /\ \A t \in Live : /\ tunnels[t].ws \in Sockets \cup {Nowhere}
                       /\ tunnels[t].streams \subseteq Streams
                       /\ Cardinality(tunnels[t].streams) <= MaxStreams
    /\ opener \in [Tokens -> {"idle", "pushing", "pushed", "waiting", "ready",
                              "timeout", "refused"}]
    /\ ack \in [Tokens -> {"none", "waiting", "ok", "refused"}]
    /\ bytes \in [Tokens -> Nat]
    /\ linked \subseteq attached /\ attached \subseteq Sockets
    /\ \A s \in Streams : /\ req[s].pc \in {"idle", "head", "first", "body", "spend",
                                             "answered", "done", "never"}
                          /\ Len(queue[s]) <= QueueSize /\ Len(inbound[s]) <= QueueSize
                          /\ pump[s].at \in {"off", "on", "closing"}
    /\ paced \subseteq Streams \X {"body", "pump"}
    /\ claimed \in [Sockets -> SUBSET Tokens]

\* A client is sent the origin's bytes from the first on and without a gap:
\* once a chunk finds the queue full, the stream takes no later one
\* (_route_tunnel_frame, push_to_stream).
BodyIsPrefix == \A s \in Streams : out[s] = [i \in DOMAIN out[s] |-> i]

\* A live tunnel rides the socket whose agent claimed it, and no tunnel
\* outlives its socket (bind_ws, detach_ws, _handle_tunnel_open).
Pinned ==
    \A t \in Live : tunnels[t].ws # Nowhere =>
        /\ tunnels[t].ws \in attached
        /\ tunnels[t].ws \in linked => t \in claimed[tunnels[t].ws]

\* A tunnel that was never acknowledged does not outlive the confirmation
\* that opened it, on any of its exits (_open_tunnel, await_ack).
NoneHalfOpen ==
    \A t \in Live : \/ opener[t] \in {"pushing", "pushed", "waiting"}
                    \/ (opener[t] = "ready" /\ tunnels[t].ws # Nowhere)

\* A stream holds its slot of MAX_STREAMS_PER_TUNNEL while its request runs
\* and no longer, except when the response never started (tunnel_proxy).
SlotsOfRunning ==
    \A t \in Live : \A s \in tunnels[t].streams :
        req[s].t = t /\ req[s].pc \in {"head", "first", "body", "spend", "never"}

\* No tunnel, pin or stream slot outlives what it was opened for.
TunnelsHeld == Pinned /\ NoneHalfOpen /\ SlotsOfRunning

\* The lifetime cap holds up to one chunk of every other spender: a request's
\* body and its answer spend side by side, and those asleep in their pacing
\* were admitted on the same balance (spend).
OvershootBounded ==
    \A t \in Tokens :
        LET requests == {s \in Streams : req[s].t = t}
        IN  requests # {} => bytes[t] < TotalBytes + 2 * Cardinality(requests)

\* Every public request that reaches a tunnel is answered or ends, whatever
\* the agent, the owner and the other streams do (tunnel_proxy's timers).
RequestsEnd ==
    \A s \in Streams : req[s].pc = "head" ~> req[s].pc \in {"answered", "done", "never"}
=============================================================================
