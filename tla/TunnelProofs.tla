---------------------------- MODULE TunnelProofs ----------------------------
(***************************************************************************)
(* Proofs about Tunnel, for any tokens, sockets and streams, and every     *)
(* value of the caps.                                                      *)
(***************************************************************************)
EXTENDS Tunnel, FiniteSetTheorems, SequenceTheorems, TLAPS

MaybeToken == Tokens \cup {Nowhere}
AgentFrame == ({"open"} \X Tokens)
                \cup ({"head", "data", "half", "close"} \X MaybeToken \X Streams)
ServerFrame == ({"ack"} \X Tokens \X BOOLEAN)
                 \cup ({"item"} \X MaybeToken \X Streams \X Items)
                 \cup ({"close"} \X MaybeToken \X Streams)

\* The values of the variables, frames and tasks included.
Records == [ws : Sockets \cup {Nowhere}, streams : SUBSET Streams]
Phases == {"idle", "head", "first", "body", "spend", "answered", "done", "never"}
Requests == [pc : Phases, t : MaybeToken, body : 0..BodyChunks, size : 0..Chunks]
Tasks == [at : {"dial", "head", "data"}, w : Sockets, sent : 0..Chunks]

TableTypes ==
    /\ Live \subseteq Tokens /\ old \subseteq Tokens
    /\ tunnels \in [Live -> Records]
    /\ \A t \in Live : Cardinality(tunnels[t].streams) <= MaxStreams
    /\ opener \in [Tokens -> {"idle", "pushing", "pushed", "waiting", "ready",
                              "timeout", "refused"}]
    /\ ack \in [Tokens -> {"none", "waiting", "ok", "refused"}]
    /\ bytes \in [Tokens -> Nat]
WireTypes ==
    /\ linked \subseteq attached /\ attached \subseteq Sockets
    /\ toAgent \in [Sockets -> Seq(AgentFrame)]
    /\ toServer \in [Sockets -> Seq(ServerFrame)]
QueueTypes ==
    /\ queue \in [Streams -> Seq(Items)]
    /\ \A s \in Streams : Len(queue[s]) <= QueueSize
\* A body generator about to spend holds the chunk it read, at the front.
ChunkInHand ==
    \A s \in Streams : req[s].pc = "spend" => queue[s] # <<>> /\ IsChunk(Head(queue[s]))
PublicTypes ==
    /\ req \in [Streams -> Requests]
    /\ out \in [Streams -> Seq(Items)]
    /\ pump \in [Streams -> [at : {"off", "on", "closing"}, sent : Nat]]
    /\ paced \subseteq Streams \X {"body", "pump"}
AgentTypes ==
    /\ claimed \in [Sockets -> SUBSET Tokens]
    /\ serving \in [Streams -> Tasks \cup {Nowhere}]
    /\ inbound \in [Streams -> Seq({"data", "half"})]
    /\ \A s \in Streams : Len(inbound[s]) <= QueueSize
Types == TableTypes /\ QueueTypes /\ ChunkInHand /\ WireTypes /\ PublicTypes /\ AgentTypes

\* An acknowledgement under way, or taken, is of a tunnel still open.
AcksHeld ==
    \A t \in Tokens :
        /\ ack[t] # "none" => t \in Live /\ opener[t] = "waiting"
        /\ ack[t] = "ok" => tunnels[t].ws # Nowhere
AcksClaimed ==
    \A w \in linked : \A i \in 1..Len(toServer[w]) : \A t \in Tokens :
        toServer[w][i] = <<"ack", t, TRUE>> => t \in claimed[w]

\* A request that has not begun has no tunnel and no spender.
IdleIsBare ==
    \A s \in Streams : req[s].pc = "idle" =>
        /\ req[s].t = Nowhere /\ pump[s].at = "off"
        /\ \A who \in {"body", "pump"} : <<s, who>> \notin paced
PacedAt ==
    \A s \in Streams : /\ <<s, "pump">> \in paced => pump[s].at # "off"
                       /\ <<s, "body">> \in paced => req[s].pc = "spend"

\* The spenders of a tunnel asleep in their pacing, and its requests.
RequestsOn(t) == {s \in Streams : req[s].t = t}
PacedOn(t) == {p \in paced : req[p[1]].t = t}
Spending ==
    \A t \in Tokens :
        /\ RequestsOn(t) = {} => bytes[t] = 0
        /\ RequestsOn(t) # {} => bytes[t] + Cardinality(PacedOn(t))
                                   < TotalBytes + 2 * Cardinality(RequestsOn(t))

\* Where the frames of a stream are on its wires.
IsHead(f, s) == f[1] = "head" /\ f[3] = s
IsItem(f, s) == f[1] = "item" /\ f[3] = s
HeadAt(w, i, s) == i \in 1..Len(toAgent[w]) /\ IsHead(toAgent[w][i], s)
ItemAt(w, i, s) == i \in 1..Len(toServer[w]) /\ IsItem(toServer[w][i], s)
Untouched(s) == /\ serving[s] = Nowhere
                /\ \A w \in Sockets : \A i \in Nat : ~ItemAt(w, i, s)

\* The chunk a client gets next, and the one its queue takes next.
Due(s) == IF req[s].pc \in {"idle", "head", "first"} THEN 0 ELSE Len(out[s]) + 1
NextDue(s) == Due(s) + Len(queue[s])
InTable(s) == \E t \in Live : s \in tunnels[t].streams

\* One head frame per stream, and nothing of the answer before it is read.
NoHead(s) == \A w \in Sockets : \A i \in Nat : ~HeadAt(w, i, s)
HeadOnce(s) ==
    /\ req[s].pc \in {"idle", "head"} => Untouched(s) /\ NoHead(s)
    /\ \A w \in Sockets : \A i \in Nat : HeadAt(w, i, s) =>
         /\ Untouched(s)
         /\ \A v \in Sockets : \A j \in Nat : HeadAt(v, j, s) => v = w /\ j = i

\* A stream's items travel on one socket, in the order the origin gave them.
InOrder(s) ==
    \A w \in Sockets : \A i \in Nat : ItemAt(w, i, s) =>
        /\ toServer[w][i][2] = req[s].t
        /\ \A v \in Sockets : \A j \in Nat : ItemAt(v, j, s) =>
             v = w /\ (i < j => toServer[w][i][4] < toServer[w][j][4])
        /\ serving[s] # Nowhere =>
             /\ serving[s].w = w /\ serving[s].at = "data"
             /\ toServer[w][i][4] <= serving[s].sent
OnLinked(s) ==
    serving[s] # Nowhere =>
        serving[s].w \in linked /\ (serving[s].at # "data" => serving[s].sent = 0)

\* What a stream still in the table gets next is what its queue takes next:
\* on its way first among its items, or the next its task will send.
Follows(s, w, i) ==
    \/ toServer[w][i][4] = NextDue(s)
    \/ \E j \in Nat : /\ j < i /\ ItemAt(w, j, s)
                      /\ toServer[w][j][4] + 1 = toServer[w][i][4]
NextIs(s) ==
    IF serving[s].at = "data"
    THEN \/ serving[s].sent + 1 = NextDue(s)
         \/ \E i \in Nat : /\ ItemAt(serving[s].w, i, s)
                           /\ toServer[serving[s].w][i][4] = serving[s].sent
    ELSE NextDue(s) = 0
NoGap(s) ==
    InTable(s) =>
        /\ \A w \in Sockets : \A i \in Nat : ItemAt(w, i, s) => Follows(s, w, i)
        /\ serving[s] # Nowhere => NextIs(s)
        /\ ~NoHead(s) => NextDue(s) = 0

\* What is in a queue is what its reader is due, in order.
QueueDue(s) ==
    /\ req[s].pc = "idle" => queue[s] = <<>>
    /\ req[s].pc = "head" /\ InTable(s) => queue[s] = <<>>
    /\ req[s].pc \in {"idle", "head", "first"} => out[s] = <<>>
    /\ req[s].pc \in {"idle", "head", "first", "body", "spend"} =>
         \A i \in 1..Len(queue[s]) : queue[s][i] \in {Closed, Due(s) + i - 1}

TableInv == AcksHeld /\ AcksClaimed /\ TunnelsHeld
CapInv == IdleIsBare /\ PacedAt /\ Spending
WireInv == \A s \in Streams : HeadOnce(s) /\ InOrder(s) /\ OnLinked(s)
BodyInv == BodyIsPrefix /\ \A s \in Streams : NoGap(s) /\ QueueDue(s)
IInv == Types /\ TableInv /\ CapInv /\ WireInv /\ BodyInv
-----------------------------------------------------------------------------
(* Channels, queues and the table *)

LEMMA Caps ==
    /\ MaxTunnels \in Nat /\ MaxStreams \in Nat /\ QueueSize \in Nat /\ QueueSize > 0
    /\ MaxStreams > 0 /\ TotalBytes \in Nat /\ Chunks \in Nat /\ BodyChunks \in Nat
    /\ HeadItem \in Items /\ Closed \in Items /\ Items \subseteq Nat
    /\ \A s : \A n \in 0..Chunks : n + 1 \in Items
BY CapsExist DEF HeadItem, Closed, Items

\* Sealing streams appends STREAM_CLOSED to those of their queues with room.
LEMMA SealTyped ==
    ASSUME NEW q \in [Streams -> Seq(Items)], NEW ss, \A s \in Streams : Len(q[s]) <= QueueSize
    PROVE  /\ Seal(q, ss) \in [Streams -> Seq(Items)]
           /\ \A s \in Streams : /\ Len(Seal(q, ss)[s]) <= QueueSize
                                 /\ s \notin ss => Seal(q, ss)[s] = q[s]
                                 /\ Seal(q, ss)[s] \in {q[s], Append(q[s], Closed)}
<1> USE Caps
<1>1. \A s \in Streams : q[s] \in Seq(Items) /\ Append(q[s], Closed) \in Seq(Items)
                           /\ Len(Append(q[s], Closed)) = Len(q[s]) + 1 /\ Len(q[s]) \in Nat
  OBVIOUS
<1>2. QED  BY <1>1 DEF Seal

LEMMA DropTyped ==
    ASSUME TableTypes, QueueTypes, NEW ts, Drop(ts)
    PROVE  /\ Live' \subseteq Live /\ tunnels' \in [Live' -> Records]
           /\ \A t \in Live' : t \notin ts /\ tunnels'[t] = tunnels[t]
           /\ ack' \in [Tokens -> {"none", "waiting", "ok", "refused"}]
           /\ queue' \in [Streams -> Seq(Items)]
           /\ \A s \in Streams : Len(queue'[s]) <= QueueSize
<1>1. queue' \in [Streams -> Seq(Items)] /\ \A s \in Streams : Len(queue'[s]) <= QueueSize
  BY SealTyped DEF Drop, QueueTypes
<1>2. QED  BY <1>1 DEF Drop, TableTypes, Live

LEMMA DropStreamTyped ==
    ASSUME TableTypes, QueueTypes, NEW t, NEW s \in Streams, DropStream(t, s)
    PROVE  /\ Live' = Live /\ tunnels' \in [Live' -> Records]
           /\ \A x \in Live : /\ tunnels'[x].ws = tunnels[x].ws
                              /\ tunnels'[x].streams \in {tunnels[x].streams, tunnels[x].streams \ {s}}
                              /\ x = t => s \notin tunnels'[x].streams
           /\ queue' \in [Streams -> Seq(Items)]
           /\ \A r \in Streams : Len(queue'[r]) <= QueueSize
<1> USE DEF TableTypes, QueueTypes, Live, Records
<1>1. CASE t \in Live /\ s \in tunnels[t].streams
  <2>1. /\ tunnels' = [tunnels EXCEPT ![t].streams = @ \ {s}]
        /\ queue' = Seal(queue, {s})
    BY <1>1 DEF DropStream
  <2>2. queue' \in [Streams -> Seq(Items)] /\ \A r \in Streams : Len(queue'[r]) <= QueueSize
    BY <2>1, SealTyped
  <2>3. DOMAIN tunnels' = DOMAIN tunnels /\ tunnels' \in [Live -> Records]
    BY <1>1, <2>1
  <2>4. QED  BY <1>1, <2>1, <2>2, <2>3
<1>2. CASE ~(t \in Live /\ s \in tunnels[t].streams)
  BY <1>2 DEF DropStream
<1>3. QED  BY <1>1, <1>2

\* A tunnel's streams are finitely many, and dropping one frees its slot.
LEMMA SlotsFreed ==
    ASSUME NEW S \in SUBSET Streams, NEW s, Cardinality(S) <= MaxStreams
    PROVE  Cardinality(S \ {s}) <= MaxStreams
<1>1. IsFiniteSet(S)  BY StreamsFinite, FS_Subset
<1>2. IsFiniteSet(S \ {s}) /\ Cardinality(S \ {s}) <= Cardinality(S)  BY <1>1, FS_Subset
<1>3. Cardinality(S) \in Nat /\ Cardinality(S \ {s}) \in Nat  BY <1>1, <1>2, FS_CardinalityType
<1>4. QED  BY <1>2, <1>3, Caps

LEMMA SlotTaken ==
    ASSUME NEW S \in SUBSET Streams, NEW s \in Streams, Cardinality(S) < MaxStreams
    PROVE  Cardinality(S \cup {s}) <= MaxStreams
<1>1. IsFiniteSet(S)  BY StreamsFinite, FS_Subset
<1>2. Cardinality(S \cup {s}) = IF s \in S THEN Cardinality(S) ELSE Cardinality(S) + 1
  BY <1>1, FS_AddElement
<1>3. Cardinality(S) \in Nat  BY <1>1, FS_CardinalityType
<1>4. QED  BY <1>2, <1>3, Caps

\* What a channel holds after a frame is appended at its end or taken from
\* its front.
LEMMA ChannelGains ==
    ASSUME NEW F, NEW c \in [Sockets -> Seq(F)], NEW w \in Sockets, NEW f \in F, NEW d,
           d = [c EXCEPT ![w] = Append(@, f)]
    PROVE  /\ d \in [Sockets -> Seq(F)]
           /\ \A v \in Sockets : v # w => d[v] = c[v]
           /\ Len(d[w]) = Len(c[w]) + 1 /\ d[w][Len(c[w]) + 1] = f
           /\ \A i \in 1..Len(c[w]) : d[w][i] = c[w][i]
<1>1. c[w] \in Seq(F) /\ d[w] = Append(c[w], f)  OBVIOUS
<1>2. d[w] \in Seq(F) /\ Len(d[w]) = Len(c[w]) + 1  BY <1>1
<1>3. \A i \in 1..Len(c[w]) : d[w][i] = c[w][i]  BY <1>1
<1>4. d[w][Len(c[w]) + 1] = f  BY <1>1
<1>5. QED  BY <1>2, <1>3, <1>4

LEMMA ChannelLoses ==
    ASSUME NEW F, NEW c \in [Sockets -> Seq(F)], NEW w \in Sockets, c[w] # <<>>, NEW d,
           d = [c EXCEPT ![w] = Tail(@)]
    PROVE  /\ d \in [Sockets -> Seq(F)]
           /\ \A v \in Sockets : v # w => d[v] = c[v]
           /\ Len(d[w]) = Len(c[w]) - 1 /\ Len(c[w]) \in Nat \ {0}
           /\ \A i \in 1..Len(d[w]) : d[w][i] = c[w][i + 1]
           /\ Head(c[w]) = c[w][1] /\ c[w][1] \in F
<1>1. c[w] \in Seq(F) /\ d[w] = Tail(c[w])  OBVIOUS
<1>2. d[w] \in Seq(F) /\ Len(d[w]) = Len(c[w]) - 1 /\ Len(c[w]) \in Nat \ {0}  BY <1>1
<1>3. \A i \in 1..Len(d[w]) : d[w][i] = c[w][i + 1]  BY <1>1
<1>4. Head(c[w]) = c[w][1] /\ c[w][1] \in F  BY <1>1
<1>5. QED  BY <1>2, <1>3, <1>4

\* A frame is handed to a transport both ends serve, or is lost.
LEMMA SendTyped ==
    ASSUME WireTypes, NEW t, NEW f \in AgentFrame, SendFrame(t, f)
    PROVE  \/ toAgent' = toAgent
           \/ \E w \in linked : toAgent' = [toAgent EXCEPT ![w] = Append(@, f)]
BY DEF WireTypes, SendFrame, Sent, CanSend

LEMMA TellTyped ==
    ASSUME WireTypes, NEW w \in Sockets, NEW f \in ServerFrame, Tell(w, f)
    PROVE  \/ toServer' = toServer
           \/ w \in attached /\ toServer' = [toServer EXCEPT ![w] = Append(@, f)]
BY DEF WireTypes, Tell
-----------------------------------------------------------------------------
(* Types *)

LEMMA TypesInit == Init => Types
<1> SUFFICES ASSUME Init PROVE Types  OBVIOUS
<1> USE Caps DEF Init, Live
<1>1. TableTypes
  <2>1. Live = {}  OBVIOUS
  <2>2. QED  BY <2>1 DEF TableTypes
<1>2. QueueTypes /\ WireTypes /\ AgentTypes  BY DEF QueueTypes, WireTypes, AgentTypes
<1>3. PublicTypes  BY DEF PublicTypes, Requests, Phases, MaybeToken
<1>4. \A s \in Streams : req[s].pc \in {"idle", "answered"}  OBVIOUS
<1>5. ChunkInHand  BY <1>4 DEF ChunkInHand
<1>6. QED  BY <1>1, <1>2, <1>3, <1>5 DEF Types

LEMMA ChargeTyped ==
    ASSUME NEW b \in [Tokens -> Nat], NEW t
    PROVE  [b EXCEPT ![t] = @ + 1] \in [Tokens -> Nat]
<1>1. CASE t \in Tokens  BY <1>1
<1>2. CASE t \notin Tokens  BY <1>2
<1>3. QED  BY <1>1, <1>2

\* Reading a queue from its front leaves it typed.
LEMMA TailTyped ==
    ASSUME QueueTypes, NEW s \in Streams, queue[s] # <<>>,
           queue' = [queue EXCEPT ![s] = Tail(@)]
    PROVE  QueueTypes'
<1>1. Tail(queue[s]) \in Seq(Items) /\ Len(Tail(queue[s])) = Len(queue[s]) - 1
        /\ Len(queue[s]) \in Nat
  BY DEF QueueTypes
<1>2. QED  BY <1>1, Caps DEF QueueTypes

LEMMA TableTyped == Types /\ [Next]_vars => TableTypes' /\ QueueTypes'
<1> SUFFICES ASSUME Types, [Next]_vars PROVE TableTypes' /\ QueueTypes'  OBVIOUS
<1> USE Caps DEF Types
<1>0. ASSUME UNCHANGED <<table, queue>> PROVE TableTypes' /\ QueueTypes'
  BY <1>0 DEF TableTypes, QueueTypes, Live, table
<1> DEFINE Kept(ts) == /\ Drop(ts)
                       /\ UNCHANGED <<old, bytes>>
                       /\ opener' \in [Tokens -> {"idle", "pushing", "pushed", "waiting",
                                                  "ready", "timeout", "refused"}]
           Freed(t, s) == DropStream(t, s) /\ UNCHANGED <<old, opener, ack, bytes>>
<1>1. ASSUME NEW ts, Kept(ts) PROVE TableTypes' /\ QueueTypes'
  BY <1>1, DropTyped DEF TableTypes, QueueTypes
<1>2. ASSUME NEW t, NEW s \in Streams, DropStream(t, s), UNCHANGED <<old, opener, ack>>,
             bytes' \in [Tokens -> Nat]
      PROVE  TableTypes' /\ QueueTypes'
  <2>1. \A x \in Live : tunnels[x].streams \in SUBSET Streams
                          /\ Cardinality(tunnels[x].streams) <= MaxStreams
    BY DEF TableTypes, Records
  <2>2. \A x \in Live' : Cardinality(tunnels'[x].streams) <= MaxStreams
    BY <1>2, <2>1, DropStreamTyped, SlotsFreed
  <2>3. QED  BY <1>2, <2>2, DropStreamTyped DEF TableTypes, QueueTypes
<1>3. ASSUME NEW t \in Tokens, OpenTunnel(t) PROVE TableTypes' /\ QueueTypes'
  <2>1. CASE attached = {} \/ Cardinality(Live \ old) >= MaxTunnels
    <3>1. opener' = [opener EXCEPT ![t] = "refused"] /\ UNCHANGED <<old, bytes>>
      BY <1>3, <2>1 DEF OpenTunnel
    <3>2. CASE attached = {}
      BY <1>3, <3>1, <3>2 DEF OpenTunnel, TableTypes, QueueTypes, Live
    <3>3. CASE attached # {}
      BY <1>1, <1>3, <2>1, <3>1, <3>3 DEF OpenTunnel, TableTypes
    <3>4. QED  BY <3>2, <3>3
  <2>2. CASE ~(attached = {} \/ Cardinality(Live \ old) >= MaxTunnels)
    <3>1. /\ opener' = [opener EXCEPT ![t] = "pushing"] /\ UNCHANGED <<old, bytes>>
          /\ tunnels' = [x \in (Live \ old) \cup {t} |->
                   IF x = t THEN [ws |-> Nowhere, streams |-> {}] ELSE tunnels[x]]
          /\ ack' = [x \in Tokens |-> IF x \in old THEN "none" ELSE ack[x]]
          /\ queue' = Seal(queue, StreamsOf(old))
      BY <1>3, <2>2 DEF OpenTunnel
    <3>2. QueueTypes'  BY <3>1, SealTyped DEF QueueTypes
    <3>3. Cardinality({}) <= MaxStreams  BY FS_EmptySet
    <3>4. TableTypes'  BY <3>1, <3>3 DEF TableTypes, Live, Records
    <3>5. QED  BY <3>2, <3>4
  <2>3. QED  BY <2>1, <2>2
<1>4. ASSUME NEW t \in Tokens, PushOpen(t) PROVE TableTypes' /\ QueueTypes'
  <2>1. CASE attached = {}
    <3>1. Drop(old \cup {t}) /\ UNCHANGED <<old, bytes>>
            /\ opener' = [opener EXCEPT ![t] = "refused"]
      BY <1>4, <2>1 DEF PushOpen
    <3>2. QED  BY <1>1, <3>1 DEF TableTypes
  <2>2. CASE attached # {}
    <3>1. UNCHANGED <<tunnels, old, ack, bytes, queue>> /\ opener' = [opener EXCEPT ![t] = "pushed"]
      BY <1>4, <2>2 DEF PushOpen
    <3>2. QED  BY <3>1 DEF TableTypes, QueueTypes, Live
  <2>3. QED  BY <2>1, <2>2
<1>5. ASSUME NEW t \in Tokens, AwaitAck(t) PROVE TableTypes' /\ QueueTypes'
  BY <1>5 DEF AwaitAck, TableTypes, QueueTypes, Live, public
<1>6. ASSUME NEW t \in Tokens, AckMissing(t) PROVE TableTypes' /\ QueueTypes'
  BY <1>1, <1>6 DEF AckMissing, TableTypes
<1>7. ASSUME NEW t \in Tokens, AckSeen(t) PROVE TableTypes' /\ QueueTypes'
  <2>1. CASE ack[t] = "ok"
    <3>1. UNCHANGED <<tunnels, old, bytes, queue>> /\ opener' = [opener EXCEPT ![t] = "ready"]
            /\ ack' = [ack EXCEPT ![t] = "none"]
      BY <1>7, <2>1 DEF AckSeen
    <3>2. QED  BY <3>1 DEF TableTypes, QueueTypes, Live
  <2>2. CASE ack[t] = "refused"
    <3>1. Drop(old \cup {t}) /\ UNCHANGED <<old, bytes>>
            /\ opener' = [opener EXCEPT ![t] = "refused"]
      BY <1>7, <2>2 DEF AckSeen
    <3>2. QED  BY <1>1, <3>1 DEF TableTypes
  <2>3. QED  BY <1>7, <2>1, <2>2 DEF AckSeen
<1>8. ASSUME NEW t \in Tokens, CloseTunnel(t) PROVE TableTypes' /\ QueueTypes'
  BY <1>1, <1>8 DEF CloseTunnel, TableTypes
<1>9. ASSUME NEW t \in Tokens, TunnelExpires(t) PROVE TableTypes' /\ QueueTypes'
  BY <1>9 DEF TunnelExpires, TableTypes, QueueTypes, Live, public
<1>10. ASSUME NEW s \in Streams, NEW t \in Tokens, Arrive(s, t) PROVE TableTypes' /\ QueueTypes'
  <2> DEFINE served == t \in Live \ old /\ SocketFor(t) # Nowhere
             room == Cardinality(tunnels[t].streams) < MaxStreams
  <2>1. /\ tunnels' = [x \in Live \ old |->
                  IF x = t /\ served /\ room
                  THEN [tunnels[x] EXCEPT !.streams = @ \cup {s}] ELSE tunnels[x]]
        /\ ack' = [x \in Tokens |-> IF x \in old THEN "none" ELSE ack[x]]
        /\ queue' = Seal(queue, StreamsOf(old)) /\ UNCHANGED <<old, opener, bytes>>
    BY <1>10 DEF Arrive
  <2> HIDE DEF served
  <2>2. QueueTypes'  BY <2>1, SealTyped DEF QueueTypes
  <2>3. \A x \in Live : /\ tunnels[x] \in Records /\ tunnels[x].streams \in SUBSET Streams
                        /\ Cardinality(tunnels[x].streams) <= MaxStreams
    BY DEF TableTypes, Records
  <2>4. room /\ t \in Live => Cardinality(tunnels[t].streams \cup {s}) <= MaxStreams
    BY <2>3, SlotTaken
  <2>5. \A x \in Live \ old : /\ tunnels'[x] \in Records
                              /\ Cardinality(tunnels'[x].streams) <= MaxStreams
    BY <2>1, <2>3, <2>4 DEF Records
  <2>6. TableTypes'  BY <2>1, <2>5 DEF TableTypes, Live
  <2>7. QED  BY <2>2, <2>6
<1>11. ASSUME NEW s \in Streams, SendHead(s) PROVE TableTypes' /\ QueueTypes'
  <2>1. UNCHANGED <<old, opener, ack, bytes>>
          /\ (UNCHANGED <<tunnels, queue>> \/ DropStream(req[s].t, s))
    BY <1>11 DEF SendHead
  <2>2. QED  BY <1>0, <1>2, <2>1 DEF TableTypes, table
<1>12. ASSUME NEW s \in Streams, FirstItem(s) PROVE TableTypes' /\ QueueTypes'
  <2>1. CASE NextOf(s) = HeadItem
    <3>1. UNCHANGED table /\ queue[s] # <<>> /\ queue' = [queue EXCEPT ![s] = Tail(@)]
      BY <1>12, <2>1, Caps DEF FirstItem, table, NextOf, HeadItem, Closed
    <3>2. QueueTypes'  BY <3>1, TailTyped
    <3>3. QED  BY <3>1, <3>2 DEF TableTypes, Live, table
  <2>2. CASE NextOf(s) # HeadItem
    <3>1. DropStream(req[s].t, s) /\ UNCHANGED <<old, opener, ack, bytes>>
      BY <1>12, <2>2 DEF FirstItem
    <3>2. QED  BY <1>2, <3>1 DEF TableTypes
  <2>3. QED  BY <2>1, <2>2
<1>13. ASSUME NEW s \in Streams, BodyEnds(s) PROVE TableTypes' /\ QueueTypes'
  BY <1>2, <1>13 DEF BodyEnds, Finish, TableTypes
<1>14. ASSUME NEW s \in Streams, BodySpends(s) PROVE TableTypes' /\ QueueTypes'
  <2>1. CASE UNCHANGED bytes
    <3>1. \/ DropStream(req[s].t, s) /\ UNCHANGED <<old, opener, ack, bytes>>
          \/ UNCHANGED <<tunnels, old, opener, ack>> /\ queue' = [queue EXCEPT ![s] = Tail(@)]
      BY <1>14, <2>1 DEF BodySpends, Finish
    <3>2. queue[s] # <<>>  BY <1>14 DEF BodySpends, ChunkInHand
    <3>3. CASE DropStream(req[s].t, s) /\ UNCHANGED <<old, opener, ack, bytes>>
      BY <1>2, <3>3 DEF TableTypes
    <3>4. CASE UNCHANGED <<tunnels, old, opener, ack>> /\ queue' = [queue EXCEPT ![s] = Tail(@)]
      BY <2>1, <3>2, <3>4, TailTyped DEF TableTypes, Live
    <3>5. QED  BY <3>1, <3>3, <3>4
  <2>2. CASE ~UNCHANGED bytes
    <3>1. /\ UNCHANGED <<tunnels, old, opener, ack>> /\ queue' = [queue EXCEPT ![s] = Tail(@)]
          /\ bytes' = [bytes EXCEPT ![req[s].t] = @ + 1] /\ queue[s] # <<>>
      BY <1>14, <2>2 DEF BodySpends, ChunkInHand, Charge
    <3>2. QueueTypes'  BY <3>1, TailTyped
    <3>3. bytes' \in [Tokens -> Nat]
      <4>1. bytes \in [Tokens -> Nat]  BY DEF TableTypes
      <4>2. bytes' = [bytes EXCEPT ![req[s].t] = @ + 1]  BY <3>1
      <4>3. QED  BY <4>1, <4>2, ChargeTyped
    <3>4. QED  BY <3>1, <3>2, <3>3 DEF TableTypes, Live
  <2>3. QED  BY <2>1, <2>2
<1>15. ASSUME NEW s \in Streams, ClientGone(s) PROVE TableTypes' /\ QueueTypes'
  <2>1. UNCHANGED <<old, opener, ack, bytes>>
          /\ (UNCHANGED <<tunnels, queue>> \/ DropStream(req[s].t, s))
    BY <1>15 DEF ClientGone
  <2>2. QED  BY <1>0, <1>2, <2>1 DEF TableTypes, table
<1>16. ASSUME NEW s \in Streams, PumpChunk(s) PROVE TableTypes' /\ QueueTypes'
  <2>1. UNCHANGED <<tunnels, old, opener, ack, queue>>
          /\ (bytes' = bytes \/ bytes' = [bytes EXCEPT ![req[s].t] = @ + 1])
    BY <1>16 DEF PumpChunk
  <2>2. bytes' \in [Tokens -> Nat]  BY <2>1 DEF TableTypes
  <2>3. QED  BY <2>1, <2>2 DEF TableTypes, QueueTypes, Live
<1>17. ASSUME NEW w \in Sockets, ReceiveAck(w) PROVE TableTypes' /\ QueueTypes'
  <2>1. UNCHANGED <<queue, old, opener, bytes>>  BY <1>17 DEF ReceiveAck, public
  <2>2. PICK t \in Tokens, ok \in BOOLEAN :
          IF ack[t] = "waiting" /\ (ok => t \in Live)
          THEN /\ ack' = [ack EXCEPT ![t] = IF ok THEN "ok" ELSE "refused"]
               /\ tunnels' = IF ok THEN [tunnels EXCEPT ![t].ws = w] ELSE tunnels
          ELSE UNCHANGED <<ack, tunnels>>
    BY <1>17 DEF ReceiveAck
  <2>3. CASE UNCHANGED <<ack, tunnels>>  BY <1>0, <2>1, <2>3 DEF table
  <2>4. CASE /\ ack' = [ack EXCEPT ![t] = IF ok THEN "ok" ELSE "refused"]
             /\ tunnels' = tunnels
    BY <2>1, <2>4 DEF TableTypes, QueueTypes, Live
  <2>5. CASE /\ ack' = [ack EXCEPT ![t] = "ok"] /\ t \in Live
             /\ tunnels' = [tunnels EXCEPT ![t].ws = w]
    <3>1. \A x \in Live : /\ tunnels'[x] \in Records
                          /\ tunnels'[x].streams = tunnels[x].streams
      BY <2>5 DEF TableTypes, Live, Records
    <3>2. QED  BY <2>1, <2>5, <3>1 DEF TableTypes, QueueTypes, Live
  <2>6. QED  BY <2>2, <2>3, <2>4, <2>5
<1>18. ASSUME NEW w \in Sockets, ReceiveItem(w) PROVE TableTypes' /\ QueueTypes'
  <2>1. PICK t \in Tokens, s \in Streams, item \in Items :
          IF t \in Live /\ s \in tunnels[t].streams /\ HasRoom(s)
          THEN queue' = [queue EXCEPT ![s] = Append(@, item)] /\ UNCHANGED tunnels
          ELSE DropStream(t, s)
    BY <1>18 DEF ReceiveItem
  <2>2. UNCHANGED <<old, opener, ack, bytes>>  BY <1>18 DEF ReceiveItem
  <2>3. CASE DropStream(t, s)  BY <1>2, <2>2, <2>3 DEF TableTypes
  <2>4. CASE HasRoom(s) /\ queue' = [queue EXCEPT ![s] = Append(@, item)] /\ UNCHANGED tunnels
    BY <2>2, <2>4 DEF TableTypes, QueueTypes, Live, HasRoom
  <2>5. QED  BY <2>1, <2>3, <2>4
<1>19. ASSUME NEW w \in Sockets, ReceiveClose(w) PROVE TableTypes' /\ QueueTypes'
  BY <1>2, <1>19 DEF ReceiveClose, TableTypes
<1>20. ASSUME NEW w \in Sockets, Detach(w) PROVE TableTypes' /\ QueueTypes'
  BY <1>1, <1>20 DEF Detach, TableTypes
<1>21. CASE \/ AgentStep \/ UNCHANGED vars
            \/ \E s \in Streams : NextItem(s) \/ PumpEnds(s)
            \/ \E s \in Streams, who \in {"body", "pump"} : Pace(s, who)
            \/ \E w \in Sockets : AgentLeaves(w)
  <2>1. AgentStep => UNCHANGED <<table, queue>>
    BY DEF AgentStep, AgentOpens, AgentHead, AgentBody, AgentCloses, Serve, ForwardBody, public
  <2>2. QED
    BY <1>0, <1>21, <2>1 DEF NextItem, PumpEnds, Pace, AgentLeaves, public, vars, table
<1>22. QED
  BY <1>3, <1>4, <1>5, <1>6, <1>7, <1>8, <1>9, <1>10, <1>11, <1>12, <1>13, <1>14, <1>15,
     <1>16, <1>17, <1>18, <1>19, <1>20, <1>21
     DEF Next, ConfirmStep, RequestStep, PumpStep, RelayStep, Outside

LEMMA WiresTyped == Types /\ [Next]_vars => WireTypes'
<1> SUFFICES ASSUME Types, [Next]_vars PROVE WireTypes'  OBVIOUS
<1> USE Caps DEF Types
<1> DEFINE Sides == linked' = linked /\ attached' = attached
<1>0. ASSUME UNCHANGED wires PROVE WireTypes'  BY <1>0 DEF wires, WireTypes
<1>1. ASSUME NEW t, NEW f \in AgentFrame, SendFrame(t, f), Sides, toServer' = toServer
      PROVE  WireTypes'
  <2>1. CASE toAgent' = toAgent  BY <1>1, <2>1 DEF WireTypes
  <2>2. ASSUME NEW w \in linked, toAgent' = [toAgent EXCEPT ![w] = Append(@, f)]
        PROVE  WireTypes'
    <3>1. w \in Sockets /\ toAgent \in [Sockets -> Seq(AgentFrame)]  BY DEF WireTypes
    <3>2. toAgent' \in [Sockets -> Seq(AgentFrame)]  BY <2>2, <3>1, ChannelGains
    <3>3. QED  BY <1>1, <3>2 DEF WireTypes
  <2>3. QED  BY <1>1, <2>1, <2>2, SendTyped
<1>2. ASSUME NEW w \in Sockets, Receive(w), UNCHANGED <<attached, linked, toAgent>>
      PROVE  WireTypes'
  <2>1. toServer' \in [Sockets -> Seq(ServerFrame)]
    BY <1>2, ChannelLoses DEF Receive, WireTypes
  <2>2. QED  BY <1>2, <2>1 DEF WireTypes
<1>3. ASSUME NEW w \in Sockets, At(w), Consumed(w), Sides PROVE /\ toAgent' \in [Sockets -> Seq(AgentFrame)]
                                                       /\ Frame(w) \in AgentFrame
  BY <1>3, ChannelLoses DEF At, Consumed, Frame, WireTypes
<1>4. ASSUME NEW w \in Sockets, NEW f \in ServerFrame, Tell(w, f)
      PROVE  toServer' \in [Sockets -> Seq(ServerFrame)]
  <2>1. toServer \in [Sockets -> Seq(ServerFrame)]  BY DEF WireTypes
  <2>2. \/ toServer' = toServer
        \/ toServer' = [toServer EXCEPT ![w] = Append(@, f)]
    BY <1>4, TellTyped
  <2>3. CASE toServer' = toServer  BY <2>1, <2>3
  <2>4. CASE toServer' = [toServer EXCEPT ![w] = Append(@, f)]
    BY <2>1, <2>4, ChannelGains
  <2>5. QED  BY <2>2, <2>3, <2>4
<1>5. \A t \in MaybeToken, s \in Streams : \A kind \in {"head", "data", "half", "close"} :
        <<kind, t, s>> \in AgentFrame
  BY DEF AgentFrame
<1>6. \A s \in Streams : req[s].t \in MaybeToken  BY DEF PublicTypes, Requests
<1>7. ASSUME NEW t \in Tokens, PushOpen(t) PROVE WireTypes'
  <2>1. CASE attached = {}  BY <1>0, <1>7, <2>1 DEF PushOpen, wires
  <2>2. CASE attached # {}
    <3>1. PICK w : toAgent' = [toAgent EXCEPT ![w] =
                                 IF w \in linked THEN Append(@, <<"open", t>>) ELSE @]
      BY <1>7, <2>2 DEF PushOpen
    <3>2. UNCHANGED <<attached, linked, toServer>>  BY <1>7 DEF PushOpen
    <3>3. <<"open", t>> \in AgentFrame  BY DEF AgentFrame
    <3>4. toAgent' \in [Sockets -> Seq(AgentFrame)]
      BY <3>1, <3>3, ChannelGains DEF WireTypes
    <3>5. QED  BY <3>2, <3>4 DEF WireTypes
  <2>3. QED  BY <2>1, <2>2
<1>8. ASSUME NEW s \in Streams, SendHead(s) PROVE WireTypes'
  <2>1. Sides /\ toServer' = toServer
          /\ (toAgent' = toAgent \/ SendFrame(req[s].t, <<"head", req[s].t, s>>))
    BY <1>8 DEF SendHead
  <2>2. QED  BY <1>0, <1>1, <1>5, <1>6, <2>1 DEF wires
<1>9. ASSUME NEW s \in Streams, BodyEnds(s) \/ BodySpends(s) PROVE WireTypes'
  <2>1. Sides /\ toServer' = toServer
          /\ (toAgent' = toAgent \/ SendFrame(req[s].t, <<"close", req[s].t, s>>))
    BY <1>9 DEF BodyEnds, BodySpends, Finish
  <2>2. QED  BY <1>0, <1>1, <1>5, <1>6, <2>1 DEF wires
<1>10. ASSUME NEW s \in Streams, PumpChunk(s) \/ PumpEnds(s) PROVE WireTypes'
  <2>1. Sides /\ toServer' = toServer
          /\ \/ toAgent' = toAgent
             \/ \E kind \in {"data", "half"} : SendFrame(req[s].t, <<kind, req[s].t, s>>)
    BY <1>10 DEF PumpChunk, PumpEnds
  <2>2. QED  BY <1>0, <1>1, <1>5, <1>6, <2>1 DEF wires
<1>11. ASSUME NEW w \in Sockets, ReceiveAck(w) \/ ReceiveItem(w) \/ ReceiveClose(w)
       PROVE  WireTypes'
  BY <1>2, <1>11 DEF ReceiveAck, ReceiveItem, ReceiveClose
<1>12. ASSUME NEW w \in Sockets, Detach(w) PROVE WireTypes'
  BY <1>12 DEF Detach, WireTypes
<1>13. ASSUME NEW w \in Sockets, AgentOpens(w) PROVE WireTypes'
  <2>1. Frame(w)[1] = "open" /\ Frame(w) \in AgentFrame
    BY <1>3, <1>13 DEF AgentOpens
  <2>2. Frame(w)[2] \in Tokens  BY <2>1 DEF AgentFrame
  <2>3. PICK ok \in BOOLEAN : Tell(w, <<"ack", Frame(w)[2], ok>>)  BY <1>13 DEF AgentOpens
  <2>4. <<"ack", Frame(w)[2], ok>> \in ServerFrame  BY <2>2 DEF ServerFrame
  <2>5. toServer' \in [Sockets -> Seq(ServerFrame)]  BY <1>4, <2>3, <2>4
  <2>6. QED  BY <1>3, <1>13, <2>5 DEF AgentOpens, WireTypes
<1>14. ASSUME NEW w \in Sockets, AgentHead(w) PROVE WireTypes'
  BY <1>3, <1>14 DEF AgentHead, WireTypes
<1>15. ASSUME NEW w \in Sockets, AgentBody(w) \/ AgentCloses(w) PROVE WireTypes'
  <2>1. Sides /\ At(w) /\ Consumed(w) /\ Frame(w)[1] \in {"data", "half", "close"}
    BY <1>15 DEF AgentBody, AgentCloses
  <2>2. Frame(w) \in AgentFrame  BY <1>3, <2>1
  <2>3. Frame(w)[2] \in MaybeToken /\ Frame(w)[3] \in Streams  BY <2>1, <2>2 DEF AgentFrame
  <2>4. <<"close", Frame(w)[2], Frame(w)[3]>> \in ServerFrame  BY <2>3 DEF ServerFrame
  <2>5. toServer' = toServer \/ Tell(w, <<"close", Frame(w)[2], Frame(w)[3]>>)
    BY <1>15 DEF AgentBody, AgentCloses, CloseStream
  <2>6. toServer' \in [Sockets -> Seq(ServerFrame)]  BY <1>4, <2>4, <2>5 DEF WireTypes
  <2>7. QED  BY <1>3, <2>1, <2>6 DEF WireTypes
<1>16. ASSUME NEW w \in Sockets, NEW s \in Streams, NEW step \in {"dial", "head", "data", "end"},
              Serve(s, w, step)
       PROVE  WireTypes'
  <2>1. Sides /\ toAgent' = toAgent /\ serving[s] # Nowhere  BY <1>16 DEF Serve, ServedBy
  <2>2. req[s].size \in 0..Chunks /\ serving[s].sent \in 0..Chunks
    BY <2>1 DEF PublicTypes, AgentTypes, Requests, Tasks
  <2>3. /\ <<"item", req[s].t, s, HeadItem>> \in ServerFrame
        /\ <<"close", req[s].t, s>> \in ServerFrame
        /\ serving[s].sent < req[s].size =>
             <<"item", req[s].t, s, serving[s].sent + 1>> \in ServerFrame
    <3>1. serving[s].sent < req[s].size => serving[s].sent + 1 \in Items
      BY <2>2 DEF Items, Closed
    <3>2. QED  BY <1>6, <3>1 DEF ServerFrame
  <2>4. \/ toServer' = toServer
        \/ Tell(w, <<"item", req[s].t, s, HeadItem>>)
        \/ Tell(w, <<"close", req[s].t, s>>)
        \/ serving[s].sent < req[s].size /\ Tell(w, <<"item", req[s].t, s, serving[s].sent + 1>>)
    BY <1>16 DEF Serve
  <2>5. toServer' \in [Sockets -> Seq(ServerFrame)]
    BY <1>4, <2>3, <2>4 DEF WireTypes
  <2>6. QED  BY <2>1, <2>5 DEF WireTypes
<1>17. ASSUME NEW w \in Sockets, AgentLeaves(w) PROVE WireTypes'
  <2>1. PICK kept \in 0..Len(toServer[w]) :
          toServer' = [toServer EXCEPT ![w] = SubSeq(@, 1, kept)]
    BY <1>17 DEF AgentLeaves
  <2>2. toServer[w] \in Seq(ServerFrame)  BY DEF WireTypes
  <2>3. SubSeq(toServer[w], 1, kept) \in Seq(ServerFrame)  BY <2>2, SubSeqProperties
  <2>4. toServer' \in [Sockets -> Seq(ServerFrame)]  BY <2>1, <2>3 DEF WireTypes
  <2>5. QED  BY <1>17, <2>4 DEF AgentLeaves, WireTypes
<1>18. CASE \/ \E t \in Tokens : \/ OpenTunnel(t) \/ AwaitAck(t) \/ AckMissing(t) \/ AckSeen(t)
                                 \/ TunnelExpires(t) \/ CloseTunnel(t)
            \/ \E s \in Streams : FirstItem(s) \/ NextItem(s) \/ ClientGone(s) \/ ForwardBody(s)
            \/ \E s \in Streams, who \in {"body", "pump"} : Pace(s, who)
            \/ \E s \in Streams, t \in Tokens : Arrive(s, t)
            \/ UNCHANGED vars
  BY <1>0, <1>18 DEF OpenTunnel, AwaitAck, AckMissing, AckSeen, TunnelExpires, CloseTunnel,
     FirstItem, NextItem, ClientGone, ForwardBody, Pace, Arrive, vars, wires
<1>19. QED
  BY <1>7, <1>8, <1>9, <1>10, <1>11, <1>12, <1>13, <1>14, <1>15, <1>16, <1>17, <1>18
     DEF Next, ConfirmStep, RequestStep, PumpStep, RelayStep, AgentStep, Outside

LEMMA AgentTyped == Types /\ [Next]_vars => AgentTypes'
<1> SUFFICES ASSUME Types, [Next]_vars PROVE AgentTypes'  OBVIOUS
<1> USE Caps DEF Types
<1>0. ASSUME UNCHANGED agent PROVE AgentTypes'  BY <1>0 DEF agent, AgentTypes
<1>1. ASSUME NEW s \in Streams, Forget(s), claimed' = claimed PROVE AgentTypes'
  BY <1>1 DEF Forget, AgentTypes
<1>2. ASSUME NEW w \in Sockets, At(w) PROVE Frame(w) \in AgentFrame
  <2>1. toAgent[w] \in Seq(AgentFrame) /\ toAgent[w] # <<>>  BY <1>2 DEF At, WireTypes
  <2>2. QED  BY <2>1 DEF Frame
<1>3. ASSUME NEW w \in Sockets, AgentOpens(w) PROVE AgentTypes'
  <2>1. Frame(w)[2] \in Tokens
    BY <1>2, <1>3 DEF AgentOpens, AgentFrame
  <2>2. claimed' = claimed \/ claimed' = [claimed EXCEPT ![w] = @ \cup {Frame(w)[2]}]
    BY <1>3 DEF AgentOpens, AgentTypes
  <2>3. UNCHANGED <<serving, inbound>>  BY <1>3 DEF AgentOpens
  <2>4. QED  BY <2>1, <2>2, <2>3 DEF AgentTypes
<1>4. ASSUME NEW w \in Sockets, AgentHead(w) PROVE AgentTypes'
  <2>1. serving' = serving \/ serving' = [serving EXCEPT ![Frame(w)[3]] = At0(w)]
    BY <1>4 DEF AgentHead, AgentTypes
  <2>2. At0(w) \in Tasks  BY DEF At0, Tasks
  <2>3. QED  BY <1>4, <2>1, <2>2 DEF AgentHead, AgentTypes
<1>5. ASSUME NEW w \in Sockets, AgentBody(w) PROVE AgentTypes'
  <2>1. Frame(w) \in AgentFrame /\ Frame(w)[1] \in {"data", "half"}
    BY <1>2, <1>5 DEF AgentBody
  <2>2. Frame(w)[3] \in Streams  BY <2>1 DEF AgentFrame
  <2> DEFINE s == Frame(w)[3]
  <2>3. \/ Forget(s)
        \/ serving' = serving /\ inbound' = inbound
        \/ /\ Len(inbound[s]) < QueueSize /\ serving' = serving
           /\ inbound' = [inbound EXCEPT ![s] = Append(@, Frame(w)[1])]
    BY <1>5 DEF AgentBody, CloseStream
  <2>4. claimed' = claimed  BY <1>5 DEF AgentBody
  <2>5. inbound[s] \in Seq({"data", "half"})  BY <2>2 DEF AgentTypes
  <2>6. Len(Append(inbound[s], Frame(w)[1])) = Len(inbound[s]) + 1
          /\ Append(inbound[s], Frame(w)[1]) \in Seq({"data", "half"})
    BY <2>1, <2>5
  <2>7. CASE Forget(s)  BY <1>1, <2>2, <2>4, <2>7
  <2>8. CASE serving' = serving /\ inbound' = inbound  BY <2>4, <2>8 DEF AgentTypes
  <2>9. CASE /\ Len(inbound[s]) < QueueSize /\ serving' = serving
             /\ inbound' = [inbound EXCEPT ![s] = Append(@, Frame(w)[1])]
    <3>1. Len(Append(inbound[s], Frame(w)[1])) <= QueueSize  BY <2>5, <2>6, <2>9
    <3> HIDE DEF s
    <3>2. QED  BY <2>4, <2>6, <2>9, <3>1 DEF AgentTypes
  <2>10. QED  BY <2>3, <2>7, <2>8, <2>9
<1>6. ASSUME NEW w \in Sockets, AgentCloses(w) PROVE AgentTypes'
  <2>1. Frame(w) \in AgentFrame /\ Frame(w)[1] = "close"  BY <1>2, <1>6 DEF AgentCloses
  <2>2. Frame(w)[3] \in Streams  BY <2>1 DEF AgentFrame
  <2>3. QED  BY <1>1, <1>6, <2>2 DEF AgentCloses, CloseStream
<1>7. ASSUME NEW s \in Streams, ForwardBody(s) PROVE AgentTypes'
  <2>1. inbound[s] \in Seq({"data", "half"}) /\ inbound[s] # <<>> /\ Len(inbound[s]) <= QueueSize
    BY <1>7 DEF ForwardBody, AgentTypes
  <2>2. Tail(inbound[s]) \in Seq({"data", "half"}) /\ Len(Tail(inbound[s])) <= QueueSize
    BY <2>1
  <2>3. QED  BY <1>7, <2>2 DEF ForwardBody, AgentTypes
<1>8. ASSUME NEW w \in Sockets, NEW s \in Streams, NEW step \in {"dial", "head", "data", "end"},
             Serve(s, w, step)
      PROVE  AgentTypes'
  <2>1. /\ serving[s] \in Tasks /\ req[s].size \in 0..Chunks /\ claimed' = claimed
    BY <1>8 DEF Serve, ServedBy, AgentTypes, PublicTypes, Requests
  <2>2. \/ serving' = [serving EXCEPT ![s].at = "head"] /\ inbound' = inbound
        \/ serving' = [serving EXCEPT ![s].at = "data"] /\ inbound' = inbound
        \/ /\ serving' = [serving EXCEPT ![s].sent = serving[s].sent + 1] /\ inbound' = inbound
           /\ serving[s].sent < req[s].size
        \/ Forget(s)
    BY <1>8 DEF Serve
  <2>3. serving[s].sent < req[s].size => serving[s].sent + 1 \in 0..Chunks
    BY <2>1 DEF Tasks
  <2>4. CASE Forget(s)  BY <1>1, <2>1, <2>4
  <2>5. CASE ~Forget(s)
    <3>1. inbound' = inbound
            /\ \E task \in Tasks : serving' = [serving EXCEPT ![s] = task]
      <4>1. [serving[s] EXCEPT !.at = "head"] \in Tasks /\ [serving[s] EXCEPT !.at = "data"] \in Tasks
              /\ (serving[s].sent < req[s].size =>
                    [serving[s] EXCEPT !.sent = serving[s].sent + 1] \in Tasks)
        BY <2>1, <2>3 DEF Tasks
      <4>2. QED  BY <2>2, <2>5, <4>1
    <3>2. QED  BY <2>1, <3>1 DEF AgentTypes
  <2>6. QED  BY <2>4, <2>5
<1>9. ASSUME NEW w \in Sockets, AgentLeaves(w) PROVE AgentTypes'
  BY <1>9 DEF AgentLeaves, AgentTypes
<1>10. CASE ConfirmStep \/ RequestStep \/ PumpStep \/ RelayStep \/ UNCHANGED vars
            \/ (Outside /\ ~\E w \in Sockets : AgentLeaves(w))
  <2>1. ConfirmStep => UNCHANGED agent
    BY DEF ConfirmStep, OpenTunnel, PushOpen, AwaitAck, AckMissing, AckSeen
  <2>2. RequestStep \/ PumpStep => UNCHANGED agent
    BY DEF RequestStep, PumpStep, SendHead, FirstItem, NextItem, BodyEnds, BodySpends,
       PumpChunk, PumpEnds
  <2>3. RelayStep => UNCHANGED agent
    BY DEF RelayStep, ReceiveAck, ReceiveItem, ReceiveClose, Detach
  <2>4. Outside /\ ~(\E w \in Sockets : AgentLeaves(w)) => UNCHANGED agent
    BY DEF Outside, TunnelExpires, CloseTunnel, Arrive, ClientGone, Pace
  <2>5. QED  BY <1>0, <1>10, <2>1, <2>2, <2>3, <2>4 DEF vars, agent
<1>11. QED
  BY <1>3, <1>4, <1>5, <1>6, <1>7, <1>8, <1>9, <1>10 DEF Next, AgentStep

LEMMA PublicTyped == Types /\ [Next]_vars => PublicTypes'
<1> SUFFICES ASSUME Types, [Next]_vars PROVE PublicTypes'  OBVIOUS
<1> USE Caps DEF Types
<1>0. ASSUME UNCHANGED <<req, out, pump, paced>> PROVE PublicTypes'  BY <1>0 DEF PublicTypes
<1>1. ASSUME NEW s \in Streams, NEW p \in Phases, Goto(s, p) PROVE req' \in [Streams -> Requests]
  BY <1>1 DEF Goto, PublicTypes, Requests
<1>2. \A s \in Streams : Cancelled(s) \in [Streams -> [at : {"off", "on", "closing"}, sent : Nat]]
  BY DEF Cancelled, PublicTypes
<1>3. ASSUME NEW s \in Streams, NEW t \in Tokens, Arrive(s, t) PROVE PublicTypes'
  <2>1. \E p \in {"head", "answered"} : req' = [req EXCEPT ![s].pc = p, ![s].t = t]
    BY <1>3 DEF Arrive
  <2>2. req' \in [Streams -> Requests]
    <3>1. PICK p \in {"head", "answered"} : req' = [req EXCEPT ![s].pc = p, ![s].t = t]
      BY <2>1
    <3>2. req[s] \in Requests  BY DEF PublicTypes
    <3>3. [[req[s] EXCEPT !.pc = p] EXCEPT !.t = t] \in Requests
      BY <3>2 DEF Requests, Phases, MaybeToken
    <3>4. \A r \in Streams : req'[r] = IF r = s THEN [[req[s] EXCEPT !.pc = p] EXCEPT !.t = t]
                                               ELSE req[r]
      BY <3>1 DEF PublicTypes
    <3>5. QED  BY <3>1, <3>3, <3>4 DEF PublicTypes
  <2>3. QED  BY <1>3, <2>2 DEF Arrive, PublicTypes
<1>4. ASSUME NEW s \in Streams, SendHead(s) PROVE PublicTypes'
  <2>1. \E p \in Phases : Goto(s, p)  BY <1>4 DEF SendHead, Phases
  <2>2. UNCHANGED <<out, paced>> /\ (pump' = pump \/ pump' = [pump EXCEPT ![s].at = "on"])
    BY <1>4 DEF SendHead
  <2>3. pump' \in [Streams -> [at : {"off", "on", "closing"}, sent : Nat]]
    BY <2>2 DEF PublicTypes
  <2>4. QED  BY <1>1, <2>1, <2>2, <2>3 DEF PublicTypes
<1>5. ASSUME NEW s \in Streams, FirstItem(s) \/ NextItem(s) \/ BodyEnds(s) \/ ClientGone(s)
      PROVE  PublicTypes'
  <2>1. \E p \in Phases : Goto(s, p)
    BY <1>5 DEF FirstItem, NextItem, BodyEnds, ClientGone, Finish, Phases
  <2>2. out' = out /\ (pump' = pump \/ pump' = Cancelled(s))
    BY <1>5 DEF FirstItem, NextItem, BodyEnds, ClientGone, Finish
  <2>3. paced' = paced \/ paced' = paced \ {<<s, "body">>}
    BY <1>5 DEF FirstItem, NextItem, BodyEnds, ClientGone
  <2>4. QED  BY <1>1, <1>2, <2>1, <2>2, <2>3 DEF PublicTypes
<1>6. ASSUME NEW s \in Streams, BodySpends(s) PROVE PublicTypes'
  <2>1. \E p \in Phases : Goto(s, p)  BY <1>6 DEF BodySpends, Finish, Phases
  <2>2. pump' = pump \/ pump' = Cancelled(s)  BY <1>6 DEF BodySpends, Finish
  <2>3. out' = out \/ out' = [out EXCEPT ![s] = Append(@, Head(queue[s]))]  BY <1>6 DEF BodySpends
  <2>4. queue[s] \in Seq(Items) /\ queue[s] # <<>>
    BY <1>6 DEF BodySpends, ChunkInHand, QueueTypes
  <2>5. Head(queue[s]) \in Items  BY <2>4
  <2>6. out' \in [Streams -> Seq(Items)]
    <3>1. out[s] \in Seq(Items)  BY DEF PublicTypes
    <3>2. Append(out[s], Head(queue[s])) \in Seq(Items)  BY <2>5, <3>1
    <3>3. QED  BY <2>3, <3>2 DEF PublicTypes
  <2>7. paced' = paced \ {<<s, "body">>}  BY <1>6 DEF BodySpends
  <2>8. QED  BY <1>1, <1>2, <2>1, <2>2, <2>6, <2>7 DEF PublicTypes
<1>7. ASSUME NEW s \in Streams, PumpChunk(s) PROVE PublicTypes'
  <2>1. \/ pump' = [pump EXCEPT ![s] = [at |-> "on", sent |-> @.sent + 1]]
        \/ pump' = [pump EXCEPT ![s] = [@ EXCEPT !.at = "closing"]]
    BY <1>7 DEF PumpChunk
  <2>2. pump[s] \in [at : {"off", "on", "closing"}, sent : Nat]  BY DEF PublicTypes
  <2>3. /\ [at |-> "on", sent |-> pump[s].sent + 1] \in [at : {"off", "on", "closing"}, sent : Nat]
        /\ [pump[s] EXCEPT !.at = "closing"] \in [at : {"off", "on", "closing"}, sent : Nat]
    BY <2>2
  <2>4. pump' \in [Streams -> [at : {"off", "on", "closing"}, sent : Nat]]
    BY <2>1, <2>3 DEF PublicTypes
  <2>5. QED  BY <1>7, <2>4 DEF PumpChunk, PublicTypes
<1>8. ASSUME NEW s \in Streams, PumpEnds(s) PROVE PublicTypes'
  BY <1>8 DEF PumpEnds, PublicTypes
<1>9. ASSUME NEW s \in Streams, NEW who \in {"body", "pump"}, Pace(s, who) PROVE PublicTypes'
  BY <1>9 DEF Pace, PublicTypes
<1>10. CASE \/ ConfirmStep \/ RelayStep \/ AgentStep \/ UNCHANGED vars
            \/ \E t \in Tokens : TunnelExpires(t) \/ CloseTunnel(t)
            \/ \E w \in Sockets : AgentLeaves(w)
  <2>1. ConfirmStep \/ RelayStep => UNCHANGED <<req, out, pump, paced>>
    BY DEF ConfirmStep, RelayStep, OpenTunnel, PushOpen, AwaitAck, AckMissing, AckSeen,
       ReceiveAck, ReceiveItem, ReceiveClose, Detach, public
  <2>2. AgentStep => UNCHANGED <<req, out, pump, paced>>
    BY DEF AgentStep, AgentOpens, AgentHead, AgentBody, AgentCloses, ForwardBody, Serve, public
  <2>3. QED
    BY <1>0, <1>10, <2>1, <2>2 DEF TunnelExpires, CloseTunnel, AgentLeaves, public, vars
<1>11. QED
  BY <1>3, <1>4, <1>5, <1>6, <1>7, <1>8, <1>9, <1>10
     DEF Next, RequestStep, PumpStep, Outside
-----------------------------------------------------------------------------
(* The table: slots, acknowledgements and pins *)

LEMMA SlotsKept == Types /\ SlotsOfRunning /\ [Next]_vars => SlotsOfRunning'
<1> SUFFICES ASSUME Types, SlotsOfRunning, [Next]_vars PROVE SlotsOfRunning'  OBVIOUS
<1> USE DEF Types
<1> DEFINE Running == {"head", "first", "body", "spend", "never"}
           Shrunk == \A x \in Live' : x \in Live /\ tunnels'[x].streams \subseteq tunnels[x].streams
<1>0. \A s \in Streams : req[s] \in Requests  BY DEF PublicTypes
<1>1. ASSUME Shrunk, req' = req PROVE SlotsOfRunning'
  BY <1>1 DEF SlotsOfRunning, TableTypes, Records
<1>2. ASSUME NEW s \in Streams, NEW p \in Running, Shrunk, Goto(s, p) PROVE SlotsOfRunning'
  <2>1. \A r \in Streams : /\ req'[r].t = req[r].t
                           /\ req'[r].pc = req[r].pc \/ req'[r].pc \in Running
    BY <1>0, <1>2 DEF Goto, PublicTypes, Requests
  <2>2. QED  BY <1>2, <2>1 DEF SlotsOfRunning, TableTypes, Records
<1>3. ASSUME NEW s \in Streams, NEW p, Goto(s, p), DropStream(req[s].t, s)
      PROVE  SlotsOfRunning'
  <2>1. \A r \in Streams : /\ req'[r].t = req[r].t
                           /\ r # s => req'[r].pc = req[r].pc
    BY <1>0, <1>3 DEF Goto, PublicTypes, Requests
  <2>2. \A x \in Live' : /\ x \in Live /\ tunnels'[x].streams \subseteq tunnels[x].streams
                         /\ s \notin tunnels'[x].streams
    BY <1>3, DropStreamTyped DEF SlotsOfRunning
  <2>3. \A x \in Live : tunnels[x].streams \subseteq Streams  BY DEF TableTypes, Records
  <2>4. QED  BY <2>1, <2>2, <2>3 DEF SlotsOfRunning
<1>4. ASSUME NEW ts, Drop(ts), req' = req PROVE SlotsOfRunning'
  BY <1>1, <1>4, DropTyped
<1>5. ASSUME NEW t, NEW s \in Streams, DropStream(t, s), req' = req PROVE SlotsOfRunning'
  BY <1>1, <1>5, DropStreamTyped
<1>6. ASSUME tunnels' = tunnels, req' = req PROVE SlotsOfRunning'
  BY <1>6 DEF SlotsOfRunning, Live
<1>7. ASSUME NEW t \in Tokens, OpenTunnel(t) PROVE SlotsOfRunning'
  <2>1. \/ Drop(old) \/ tunnels' = tunnels
        \/ tunnels' = [x \in (Live \ old) \cup {t} |->
                  IF x = t THEN [ws |-> Nowhere, streams |-> {}] ELSE tunnels[x]]
    BY <1>7 DEF OpenTunnel
  <2>2. req' = req  BY <1>7 DEF OpenTunnel
  <2>3. CASE tunnels' = [x \in (Live \ old) \cup {t} |->
                  IF x = t THEN [ws |-> Nowhere, streams |-> {}] ELSE tunnels[x]]
    BY <2>2, <2>3 DEF SlotsOfRunning, Live
  <2>4. QED  BY <1>4, <1>6, <2>1, <2>2, <2>3
<1>8. ASSUME NEW t \in Tokens, \/ PushOpen(t) \/ AwaitAck(t) \/ AckMissing(t) \/ AckSeen(t)
                               \/ CloseTunnel(t) \/ TunnelExpires(t)
      PROVE  SlotsOfRunning'
  <2>1. req' = req /\ (tunnels' = tunnels \/ Drop(old \cup {t}) \/ Drop({t}))
    BY <1>8 DEF PushOpen, AwaitAck, AckMissing, AckSeen, CloseTunnel, TunnelExpires, public
  <2>2. QED  BY <1>4, <1>6, <2>1
<1>9. ASSUME NEW s \in Streams, NEW t \in Tokens, Arrive(s, t) PROVE SlotsOfRunning'
  <2> DEFINE admitted == /\ t \in Live \ old /\ SocketFor(t) # Nowhere
                         /\ Cardinality(tunnels[t].streams) < MaxStreams
  <2>1. /\ req[s].pc = "idle"
        /\ req' = [req EXCEPT ![s].pc = IF admitted THEN "head" ELSE "answered", ![s].t = t]
        /\ tunnels' = [x \in Live \ old |->
              IF x = t /\ admitted THEN [tunnels[x] EXCEPT !.streams = @ \cup {s}] ELSE tunnels[x]]
    BY <1>9 DEF Arrive
  <2> HIDE DEF admitted
  <2>2. \A r \in Streams : r # s => req'[r] = req[r]  BY <2>1 DEF PublicTypes
  <2>3. req'[s].t = t /\ (admitted => req'[s].pc = "head")
    BY <1>0, <2>1 DEF PublicTypes, Requests
  <2>4. \A x \in Live : tunnels[x] \in Records /\ s \notin tunnels[x].streams
    BY <2>1 DEF SlotsOfRunning, TableTypes
  <2>5. \A x \in Live' : \A r \in tunnels'[x].streams :
          x \in Live /\ (r \in tunnels[x].streams \/ (r = s /\ x = t /\ admitted))
    BY <2>1, <2>4 DEF Live, Records
  <2>6. \A x \in Live : tunnels[x].streams \subseteq Streams  BY <2>4 DEF Records
  <2>7. QED  BY <2>2, <2>3, <2>4, <2>5, <2>6 DEF SlotsOfRunning
<1>10. ASSUME NEW s \in Streams,
              \/ SendHead(s) \/ FirstItem(s) \/ NextItem(s) \/ BodyEnds(s) \/ BodySpends(s)
              \/ ClientGone(s)
       PROVE  SlotsOfRunning'
  <2>1. \/ tunnels' = tunnels /\ \E p \in Running : Goto(s, p)
        \/ DropStream(req[s].t, s) /\ \E p \in {"answered", "done"} : Goto(s, p)
    BY <1>10 DEF SendHead, FirstItem, NextItem, BodyEnds, BodySpends, ClientGone, Finish, table
  <2>2. tunnels' = tunnels => Shrunk  BY DEF Live
  <2>3. QED  BY <1>2, <1>3, <2>1, <2>2
<1>11. ASSUME NEW w \in Sockets, ReceiveAck(w) PROVE SlotsOfRunning'
  <2>1. req' = req  BY <1>11 DEF ReceiveAck, public
  <2>2. \/ tunnels' = tunnels
        \/ \E t \in Live : tunnels' = [tunnels EXCEPT ![t].ws = w]
    BY <1>11 DEF ReceiveAck
  <2>3. Shrunk  BY <2>2 DEF TableTypes, Live, Records
  <2>4. QED  BY <1>1, <2>1, <2>3
<1>12. ASSUME NEW w \in Sockets, ReceiveItem(w) \/ ReceiveClose(w) \/ Detach(w)
       PROVE  SlotsOfRunning'
  <2>1. req' = req  BY <1>12 DEF ReceiveItem, ReceiveClose, Detach
  <2>2. \/ tunnels' = tunnels
        \/ \E t \in Tokens, s \in Streams : DropStream(t, s)
        \/ Drop({t \in Live : tunnels[t].ws = w})
    BY <1>12 DEF ReceiveItem, ReceiveClose, Detach
  <2>3. QED  BY <1>4, <1>5, <1>6, <2>1, <2>2
<1>13. CASE \/ AgentStep \/ PumpStep \/ UNCHANGED vars
            \/ \E s \in Streams, who \in {"body", "pump"} : Pace(s, who)
            \/ \E w \in Sockets : AgentLeaves(w)
  <2>1. AgentStep \/ PumpStep => UNCHANGED <<tunnels, req>>
    BY DEF AgentStep, PumpStep, AgentOpens, AgentHead, AgentBody, AgentCloses, ForwardBody,
       Serve, PumpChunk, PumpEnds, public, table
  <2>2. QED  BY <1>6, <1>13, <2>1 DEF Pace, AgentLeaves, public, table, vars
<1>14. QED
  BY <1>7, <1>8, <1>9, <1>10, <1>11, <1>12, <1>13
     DEF Next, ConfirmStep, RequestStep, RelayStep, Outside

\* An acknowledgement under way on a socket is of a tunnel its agent claimed.
LEMMA AcksClaimedKept == Types /\ AcksClaimed /\ [Next]_vars => AcksClaimed'
<1> SUFFICES ASSUME Types, AcksClaimed, [Next]_vars PROVE AcksClaimed'  OBVIOUS
<1> USE DEF Types
<1> DEFINE IsAck(f) == \E t \in Tokens : f = <<"ack", t, TRUE>>
           Fewer(v) == \A i \in 1..Len(toServer'[v]) : IsAck(toServer'[v][i]) =>
                         \E j \in 1..Len(toServer[v]) : toServer'[v][i] = toServer[v][j]
           Claims(v) == claimed[v] \subseteq claimed'[v]
<1>0. \A v : toServer'[v] = toServer[v] => Fewer(v)  OBVIOUS
<1>1. ASSUME linked' \subseteq linked, \A v \in linked' : Fewer(v) /\ Claims(v)
      PROVE  AcksClaimed'
  <2>1. SUFFICES ASSUME NEW v \in linked', NEW i \in 1..Len(toServer'[v]), NEW t \in Tokens,
                        toServer'[v][i] = <<"ack", t, TRUE>>
                 PROVE  t \in claimed'[v]
    BY DEF AcksClaimed
  <2>2. PICK j \in 1..Len(toServer[v]) : toServer'[v][i] = toServer[v][j]
    BY <1>1, <2>1
  <2>3. QED  BY <1>1, <2>1, <2>2 DEF AcksClaimed
<1>2. ASSUME toServer' = toServer, linked' = linked, claimed' = claimed PROVE AcksClaimed'
  BY <1>2 DEF AcksClaimed
<1>3. linked \subseteq Sockets /\ toServer \in [Sockets -> Seq(ServerFrame)]  BY DEF WireTypes
<1>4. ASSUME NEW w \in Sockets, NEW f \in ServerFrame, Tell(w, f), f[1] # "ack",
             linked' = linked, claimed' = claimed
      PROVE  AcksClaimed'
  <2>1. CASE toServer' = toServer  BY <1>2, <1>4, <2>1
  <2>2. CASE toServer' = [toServer EXCEPT ![w] = Append(@, f)]
    <3>1. ~IsAck(f)
      <4>1. \A t \in Tokens : <<"ack", t, TRUE>>[1] = "ack"  OBVIOUS
      <4>2. QED  BY <1>4, <4>1
    <3>2. /\ \A v \in Sockets : v # w => toServer'[v] = toServer[v]
          /\ Len(toServer'[w]) = Len(toServer[w]) + 1 /\ toServer'[w][Len(toServer[w]) + 1] = f
          /\ \A i \in 1..Len(toServer[w]) : toServer'[w][i] = toServer[w][i]
      BY <1>3, <2>2, ChannelGains
    <3>3. \A i \in 1..Len(toServer'[w]) : i \in 1..Len(toServer[w]) \/ i = Len(toServer[w]) + 1
      BY <1>3, <3>2
    <3>4. Fewer(w)  BY <3>1, <3>2, <3>3
    <3>5. \A v \in linked' : Fewer(v) /\ Claims(v)
      <4> HIDE DEF Fewer
      <4>1. \A v \in linked' : v \in Sockets /\ Claims(v)  BY <1>3, <1>4
      <4>2. \A v \in Sockets : Fewer(v)  BY <1>0, <3>2, <3>4
      <4>3. QED  BY <4>1, <4>2
    <3>6. QED  BY <1>1, <1>4, <3>5
  <2>3. QED  BY <1>4, <2>1, <2>2, TellTyped
<1>5. ASSUME NEW w \in Sockets, Receive(w), linked' = linked, claimed' = claimed
      PROVE  AcksClaimed'
  <2>1. /\ \A v \in Sockets : v # w => toServer'[v] = toServer[v]
        /\ Len(toServer'[w]) = Len(toServer[w]) - 1 /\ Len(toServer[w]) \in Nat \ {0}
        /\ \A i \in 1..Len(toServer'[w]) : toServer'[w][i] = toServer[w][i + 1]
    BY <1>3, <1>5, ChannelLoses DEF Receive
  <2>2. Fewer(w)
    <3>1. \A i \in 1..Len(toServer'[w]) : i + 1 \in 1..Len(toServer[w])  BY <2>1
    <3>2. QED  BY <2>1, <3>1
  <2>3. \A v \in linked' : Fewer(v) /\ Claims(v)
    <3> HIDE DEF Fewer
    <3>1. \A v \in linked' : v \in Sockets /\ Claims(v)  BY <1>3, <1>5
    <3>2. \A v \in Sockets : Fewer(v)  BY <1>0, <2>1, <2>2
    <3>3. QED  BY <3>1, <3>2
  <2>4. QED  BY <1>1, <1>5, <2>3
<1>6. ASSUME NEW w \in Sockets, ReceiveAck(w) \/ ReceiveItem(w) \/ ReceiveClose(w)
      PROVE  AcksClaimed'
  BY <1>5, <1>6 DEF ReceiveAck, ReceiveItem, ReceiveClose, agent
<1>7. ASSUME NEW w \in Sockets, Detach(w) PROVE AcksClaimed'
  <2>1. w \notin linked /\ linked' = linked /\ claimed' = claimed
          /\ toServer' = [toServer EXCEPT ![w] = <<>>]
    BY <1>7 DEF Detach, agent
  <2>2. \A v \in linked : toServer'[v] = toServer[v]  BY <1>3, <2>1
  <2>3. QED  BY <1>1, <2>1, <2>2
<1>8. ASSUME NEW w \in Sockets, AgentOpens(w) PROVE AcksClaimed'
  <2>1. /\ linked' = linked /\ w \in linked /\ Frame(w)[1] = "open"
        /\ Frame(w) \in AgentFrame
    <3>1. toAgent[w] \in Seq(AgentFrame) /\ toAgent[w] # <<>>
      BY <1>8 DEF AgentOpens, At, WireTypes
    <3>2. QED  BY <1>8, <3>1 DEF AgentOpens, At, Frame
  <2>2. Frame(w)[2] \in Tokens  BY <2>1 DEF AgentFrame
  <2>3. PICK ok \in BOOLEAN :
          /\ claimed' = [claimed EXCEPT ![w] = IF ok THEN @ \cup {Frame(w)[2]} ELSE @]
          /\ Tell(w, <<"ack", Frame(w)[2], ok>>)
    BY <1>8 DEF AgentOpens
  <2> DEFINE f == <<"ack", Frame(w)[2], ok>>
  <2>4. f \in ServerFrame  BY <2>2 DEF ServerFrame
  <2>5. \A v \in Sockets : Claims(v)  BY <2>3 DEF AgentTypes
  <2>6. CASE toServer' = toServer
    BY <1>1, <1>3, <2>1, <2>5, <2>6
  <2>7. CASE toServer' = [toServer EXCEPT ![w] = Append(@, f)]
    <3>1. /\ \A v \in Sockets : v # w => toServer'[v] = toServer[v]
          /\ Len(toServer'[w]) = Len(toServer[w]) + 1 /\ toServer'[w][Len(toServer[w]) + 1] = f
          /\ \A i \in 1..Len(toServer[w]) : toServer'[w][i] = toServer[w][i]
          /\ Len(toServer[w]) \in Nat
      BY <1>3, <2>4, <2>7, ChannelGains
    <3>2. SUFFICES ASSUME NEW v \in linked', NEW i \in 1..Len(toServer'[v]), NEW t \in Tokens,
                          toServer'[v][i] = <<"ack", t, TRUE>>
                   PROVE  t \in claimed'[v]
      BY DEF AcksClaimed
    <3>3. CASE v # w \/ i # Len(toServer[w]) + 1
      <4>1. v \in linked /\ i \in 1..Len(toServer[v]) /\ toServer'[v][i] = toServer[v][i]
        <5>1. v \in linked /\ v \in Sockets  BY <1>3, <2>1
        <5>2. CASE v # w  BY <3>1, <3>2, <5>1, <5>2
        <5>3. CASE v = w /\ i # Len(toServer[w]) + 1
          <6>1. i \in 1..(Len(toServer[w]) + 1)  BY <3>1, <3>2, <5>3
          <6>2. i \in 1..Len(toServer[w])  BY <3>1, <5>3, <6>1
          <6>3. QED  BY <3>1, <5>1, <5>3, <6>2
        <5>4. QED  BY <3>3, <5>2, <5>3
      <4>2. QED  BY <1>3, <2>5, <3>2, <4>1 DEF AcksClaimed
    <3>4. CASE v = w /\ i = Len(toServer[w]) + 1
      <4>1. <<"ack", Frame(w)[2], ok>> = <<"ack", t, TRUE>>  BY <3>1, <3>2, <3>4
      <4>2. t = Frame(w)[2] /\ ok = TRUE  BY <4>1
      <4>3. QED  BY <1>3, <2>1, <2>3, <3>4, <4>2 DEF AgentTypes
    <3>5. QED  BY <3>3, <3>4
  <2>8. QED  BY <2>3, <2>4, <2>6, <2>7, TellTyped
<1>9. ASSUME NEW w \in Sockets, AgentHead(w) \/ AgentBody(w) \/ AgentCloses(w) PROVE AcksClaimed'
  <2>1. linked' = linked /\ claimed' = claimed /\ At(w) /\ Frame(w)[1] \in {"head", "data", "half", "close"}
    BY <1>9 DEF AgentHead, AgentBody, AgentCloses
  <2>2. Frame(w) \in AgentFrame
    <3>1. toAgent[w] \in Seq(AgentFrame) /\ toAgent[w] # <<>>  BY <2>1 DEF At, WireTypes
    <3>2. QED  BY <3>1 DEF Frame
  <2>3. <<"close", Frame(w)[2], Frame(w)[3]>> \in ServerFrame
    BY <2>1, <2>2 DEF AgentFrame, ServerFrame
  <2>4. toServer' = toServer \/ Tell(w, <<"close", Frame(w)[2], Frame(w)[3]>>)
    BY <1>9 DEF AgentHead, AgentBody, AgentCloses, CloseStream
  <2>5. QED  BY <1>2, <1>4, <2>1, <2>3, <2>4
<1>10. ASSUME NEW w \in Sockets, NEW s \in Streams, NEW step \in {"dial", "head", "data", "end"},
              Serve(s, w, step)
       PROVE  AcksClaimed'
  <2>1. linked' = linked /\ claimed' = claimed /\ serving[s] # Nowhere  BY <1>10 DEF Serve, ServedBy
  <2>2. req[s].t \in MaybeToken /\ req[s].size \in 0..Chunks /\ serving[s].sent \in 0..Chunks
    BY <2>1 DEF PublicTypes, AgentTypes, Requests, Tasks
  <2>3. \A n \in Items : <<"item", req[s].t, s, n>> \in ServerFrame
    BY <2>2 DEF ServerFrame
  <2>4. <<"close", req[s].t, s>> \in ServerFrame  BY <2>2 DEF ServerFrame
  <2>5. \/ toServer' = toServer
        \/ Tell(w, <<"item", req[s].t, s, HeadItem>>)
        \/ Tell(w, <<"close", req[s].t, s>>)
        \/ serving[s].sent < req[s].size /\ Tell(w, <<"item", req[s].t, s, serving[s].sent + 1>>)
    BY <1>10 DEF Serve
  <2>6. serving[s].sent < req[s].size => serving[s].sent + 1 \in Items
    BY <2>2, Caps DEF Items, Closed
  <2>7. QED  BY <1>2, <1>4, <2>1, <2>3, <2>4, <2>5, <2>6, Caps
<1>11. ASSUME NEW w \in Sockets, AgentLeaves(w) PROVE AcksClaimed'
  <2>1. linked' = linked \ {w} /\ claimed' = [claimed EXCEPT ![w] = {}]
          /\ \A v \in Sockets : v # w => toServer'[v] = toServer[v]
    BY <1>3, <1>11 DEF AgentLeaves
  <2>2. \A v \in linked' : Fewer(v) /\ Claims(v)  BY <1>3, <2>1 DEF AgentTypes
  <2>3. QED  BY <1>1, <2>1, <2>2
<1>12. CASE \/ ConfirmStep \/ RequestStep \/ PumpStep \/ UNCHANGED vars
            \/ \E t \in Tokens : TunnelExpires(t) \/ CloseTunnel(t)
            \/ \E s \in Streams : ClientGone(s) \/ ForwardBody(s)
            \/ \E s \in Streams, t \in Tokens : Arrive(s, t)
            \/ \E s \in Streams, who \in {"body", "pump"} : Pace(s, who)
  <2>1. ConfirmStep \/ RequestStep \/ PumpStep => UNCHANGED <<toServer, linked, claimed>>
    BY DEF ConfirmStep, RequestStep, PumpStep, OpenTunnel, PushOpen, AwaitAck, AckMissing,
       AckSeen, SendHead, FirstItem, NextItem, BodyEnds, BodySpends, PumpChunk, PumpEnds,
       wires, agent
  <2>2. QED
    BY <1>2, <1>12, <2>1
       DEF TunnelExpires, CloseTunnel, ClientGone, ForwardBody, Arrive, Pace, wires, agent, vars
<1>13. QED
  BY <1>6, <1>7, <1>8, <1>9, <1>10, <1>11, <1>12
     DEF Next, RelayStep, AgentStep, Outside

LEMMA PinsKept ==
    Types /\ AcksHeld /\ AcksClaimed /\ Pinned /\ NoneHalfOpen /\ [Next]_vars
        => AcksHeld' /\ Pinned' /\ NoneHalfOpen'
<1> DEFINE PinInv == AcksHeld /\ Pinned /\ NoneHalfOpen
<1> SUFFICES ASSUME Types, PinInv, AcksClaimed, [Next]_vars PROVE PinInv'  OBVIOUS
<1> USE DEF Types
<1> DEFINE Ends == UNCHANGED <<attached, linked, claimed>>
           Fewer == /\ \A x \in Live' : x \in Live /\ tunnels'[x].ws = tunnels[x].ws
                    /\ \A x \in Tokens : \/ ack'[x] = ack[x] /\ (x \in Live => x \in Live')
                                         \/ ack'[x] = "none"
<1>0. /\ Live \subseteq Tokens /\ linked \subseteq attached /\ attached \subseteq Sockets
      /\ Nowhere \notin Sockets
  BY SocketsOrdered DEF TableTypes, WireTypes
<1>1. ASSUME Fewer, opener' = opener, Ends PROVE PinInv'
  BY <1>0, <1>1 DEF AcksHeld, Pinned, NoneHalfOpen
<1>2. ASSUME UNCHANGED <<tunnels, opener, ack>>, Ends PROVE PinInv'
  BY <1>1, <1>2 DEF Live
<1>3. ASSUME NEW t \in Tokens, NEW o, Fewer, opener' = [opener EXCEPT ![t] = o], Ends,
             \/ t \notin Live' /\ ack[t] = "none"
             \/ t \notin Live' /\ ack'[t] = "none"
             \/ o \in {"pushed"} /\ ack[t] = "none"
             \/ o = "ready" /\ ack'[t] = "none" /\ t \in Live /\ tunnels[t].ws # Nowhere
      PROVE  PinInv'
  <2>1. AcksHeld'  BY <1>0, <1>3 DEF AcksHeld, TableTypes
  <2>2. Pinned'  BY <1>0, <1>3 DEF Pinned
  <2>3. NoneHalfOpen'  BY <1>0, <1>3 DEF NoneHalfOpen, TableTypes
  <2>4. QED  BY <2>1, <2>2, <2>3
<1>4. ASSUME NEW ts, Drop(ts) PROVE Fewer /\ \A x \in Live' : x \notin ts
  BY <1>4 DEF Drop, Live
<1>5. UNCHANGED <<tunnels, ack>> => Fewer  BY DEF Live
<1>6. ASSUME NEW t \in Tokens, OpenTunnel(t) PROVE PinInv'
  <2>1. opener[t] = "idle" /\ Ends  BY <1>6 DEF OpenTunnel, wires, agent
  <2>2. t \notin Live /\ ack[t] = "none"  BY <2>1 DEF NoneHalfOpen, AcksHeld
  <2>3. CASE attached = {} \/ Cardinality(Live \ old) >= MaxTunnels
    <3>1. opener' = [opener EXCEPT ![t] = "refused"] /\ (UNCHANGED <<tunnels, ack>> \/ Drop(old))
      BY <1>6, <2>3 DEF OpenTunnel
    <3>2. Fewer  BY <1>4, <1>5, <3>1
    <3>3. t \notin Live'  BY <2>2, <3>2
    <3>4. QED  BY <1>3, <2>1, <2>2, <3>1, <3>2, <3>3
  <2>4. CASE ~(attached = {} \/ Cardinality(Live \ old) >= MaxTunnels)
    <3>1. /\ opener' = [opener EXCEPT ![t] = "pushing"]
          /\ tunnels' = [x \in (Live \ old) \cup {t} |->
                  IF x = t THEN [ws |-> Nowhere, streams |-> {}] ELSE tunnels[x]]
          /\ ack' = [x \in Tokens |-> IF x \in old THEN "none" ELSE ack[x]]
      BY <1>6, <2>4 DEF OpenTunnel
    <3>2. /\ Live' = (Live \ old) \cup {t} /\ tunnels'[t].ws = Nowhere
          /\ \A x \in Live' : x # t => x \in Live /\ tunnels'[x] = tunnels[x]
      BY <3>1 DEF Live
    <3>3. /\ opener'[t] = "pushing"
          /\ \A x \in Tokens : x # t => opener'[x] = opener[x]
      BY <3>1 DEF TableTypes
    <3>4. AcksHeld'  BY <1>0, <2>2, <3>1, <3>2, <3>3 DEF AcksHeld
    <3>5. Pinned'  BY <1>0, <2>1, <3>2 DEF Pinned
    <3>6. NoneHalfOpen'  BY <1>0, <3>2, <3>3 DEF NoneHalfOpen
    <3>7. QED  BY <3>4, <3>5, <3>6
  <2>5. QED  BY <2>3, <2>4
<1>7. ASSUME NEW t \in Tokens, PushOpen(t) PROVE PinInv'
  <2>1. opener[t] = "pushing" /\ Ends  BY <1>7 DEF PushOpen, agent
  <2>2. ack[t] = "none"  BY <2>1 DEF AcksHeld
  <2>3. \/ opener' = [opener EXCEPT ![t] = "refused"] /\ Drop(old \cup {t})
        \/ opener' = [opener EXCEPT ![t] = "pushed"] /\ UNCHANGED <<tunnels, ack>>
    BY <1>7 DEF PushOpen
  <2>4. QED  BY <1>3, <1>4, <1>5, <2>1, <2>2, <2>3
<1>8. ASSUME NEW t \in Tokens, AwaitAck(t) PROVE PinInv'
  <2>1. opener[t] = "pushed" /\ Ends /\ tunnels' = tunnels
    BY <1>8 DEF AwaitAck, wires, agent
  <2>2. CASE t \in Live
    <3>1. opener' = [opener EXCEPT ![t] = "waiting"] /\ ack' = [ack EXCEPT ![t] = "waiting"]
      BY <1>8, <2>2 DEF AwaitAck
    <3>2. AcksHeld'  BY <2>1, <2>2, <3>1 DEF AcksHeld, TableTypes, Live
    <3>3. Pinned'  BY <2>1 DEF Pinned, Live
    <3>4. NoneHalfOpen'  BY <1>0, <2>1, <3>1 DEF NoneHalfOpen, TableTypes, Live
    <3>5. QED  BY <3>2, <3>3, <3>4
  <2>3. CASE t \notin Live
    <3>1. opener' = [opener EXCEPT ![t] = "timeout"] /\ ack' = ack
      BY <1>8, <2>3 DEF AwaitAck, TableTypes
    <3>2. ack[t] = "none" /\ t \notin Live'  BY <2>1, <2>3 DEF AcksHeld, Live
    <3>3. QED  BY <1>3, <1>5, <2>1, <3>1, <3>2
  <2>4. QED  BY <2>2, <2>3
<1>9. ASSUME NEW t \in Tokens, AckMissing(t) PROVE PinInv'
  <2>1. Drop({t}) /\ opener' = [opener EXCEPT ![t] = "timeout"] /\ Ends
    BY <1>9 DEF AckMissing, wires, agent
  <2>2. ack'[t] = "none"  BY <2>1 DEF Drop, AcksHeld
  <2>3. QED  BY <1>3, <1>4, <2>1, <2>2
<1>10. ASSUME NEW t \in Tokens, AckSeen(t) PROVE PinInv'
  <2>1. Ends /\ opener[t] = "waiting"  BY <1>10 DEF AckSeen, wires, agent
  <2>2. CASE ack[t] = "ok"
    <3>1. /\ opener' = [opener EXCEPT ![t] = "ready"] /\ ack' = [ack EXCEPT ![t] = "none"]
          /\ tunnels' = tunnels
      BY <1>10, <2>2 DEF AckSeen
    <3>2. t \in Live /\ tunnels[t].ws # Nowhere  BY <2>2 DEF AcksHeld
    <3>3. ack'[t] = "none" /\ Fewer  BY <3>1 DEF TableTypes, Live
    <3>4. QED  BY <1>3, <2>1, <3>1, <3>2, <3>3
  <2>3. CASE ack[t] = "refused"
    <3>1. Drop(old \cup {t}) /\ opener' = [opener EXCEPT ![t] = "refused"]
      BY <1>10, <2>3 DEF AckSeen
    <3>2. ack'[t] = "none"
      <4>1. t \in Live  BY <2>3 DEF AcksHeld
      <4>2. QED  BY <3>1, <4>1 DEF Drop
    <3>3. QED  BY <1>3, <1>4, <2>1, <3>1, <3>2
  <2>4. QED  BY <1>10, <2>2, <2>3 DEF AckSeen
<1>11. ASSUME NEW t \in Tokens, CloseTunnel(t) PROVE PinInv'
  BY <1>1, <1>4, <1>11 DEF CloseTunnel, wires, agent
<1>12. ASSUME NEW s \in Streams, NEW t \in Tokens, Arrive(s, t) PROVE PinInv'
  <2> DEFINE admitted == /\ t \in Live \ old /\ SocketFor(t) # Nowhere
                         /\ Cardinality(tunnels[t].streams) < MaxStreams
  <2>1. /\ tunnels' = [x \in Live \ old |->
              IF x = t /\ admitted THEN [tunnels[x] EXCEPT !.streams = @ \cup {s}] ELSE tunnels[x]]
        /\ ack' = [x \in Tokens |-> IF x \in old THEN "none" ELSE ack[x]]
        /\ opener' = opener /\ Ends
    BY <1>12 DEF Arrive, wires, agent
  <2> HIDE DEF admitted
  <2>2. Live' = Live \ old  BY <2>1 DEF Live
  <2>3. \A x \in Live' : x \in Live /\ tunnels'[x].ws = tunnels[x].ws
    BY <2>1, <2>2 DEF TableTypes, Records
  <2>4. Fewer  BY <2>1, <2>2, <2>3
  <2>5. QED  BY <1>1, <2>1, <2>4
<1>13. ASSUME NEW t, NEW s \in Streams, DropStream(t, s) \/ tunnels' = tunnels,
              UNCHANGED <<opener, ack>>, Ends
       PROVE  PinInv'
  <2>1. CASE tunnels' = tunnels  BY <1>2, <1>13, <2>1
  <2>2. CASE DropStream(t, s)
    <3>1. Live' = Live /\ \A x \in Live : tunnels'[x].ws = tunnels[x].ws
      BY <2>2, DropStreamTyped
    <3>2. Fewer  BY <1>13, <3>1
    <3>3. QED  BY <1>1, <1>13, <3>2
  <2>3. QED  BY <1>13, <2>1, <2>2
<1>14. ASSUME NEW s \in Streams,
              \/ SendHead(s) \/ FirstItem(s) \/ BodyEnds(s) \/ BodySpends(s) \/ ClientGone(s)
       PROVE  PinInv'
  <2>1. UNCHANGED <<opener, ack>> /\ Ends /\ (DropStream(req[s].t, s) \/ tunnels' = tunnels)
    BY <1>14 DEF SendHead, FirstItem, BodyEnds, BodySpends, ClientGone, Finish, wires, agent
  <2>2. QED  BY <1>13, <2>1
<1>15. ASSUME NEW w \in Sockets, ReceiveAck(w) PROVE PinInv'
  <2>1. opener' = opener /\ Ends /\ Receive(w)  BY <1>15 DEF ReceiveAck, agent
  <2>2. PICK t \in Tokens, ok \in BOOLEAN :
          /\ Head(toServer[w]) = <<"ack", t, ok>>
          /\ IF ack[t] = "waiting" /\ (ok => t \in Live)
             THEN /\ ack' = [ack EXCEPT ![t] = IF ok THEN "ok" ELSE "refused"]
                  /\ tunnels' = IF ok THEN [tunnels EXCEPT ![t].ws = w] ELSE tunnels
             ELSE UNCHANGED <<ack, tunnels>>
    BY <1>15 DEF ReceiveAck
  <2>3. CASE UNCHANGED <<ack, tunnels>>  BY <1>2, <2>1, <2>3
  <2>4. CASE ack[t] = "waiting" /\ ~ok /\ ack' = [ack EXCEPT ![t] = "refused"] /\ tunnels' = tunnels
    <3>1. AcksHeld'  BY <2>1, <2>4 DEF AcksHeld, TableTypes, Live
    <3>2. Pinned'  BY <2>1, <2>4 DEF Pinned, Live
    <3>3. NoneHalfOpen'  BY <2>1, <2>4 DEF NoneHalfOpen, Live
    <3>4. QED  BY <3>1, <3>2, <3>3
  <2>5. CASE /\ ack[t] = "waiting" /\ ok /\ t \in Live /\ ack' = [ack EXCEPT ![t] = "ok"]
             /\ tunnels' = [tunnels EXCEPT ![t].ws = w]
    <3>1. /\ Live' = Live /\ tunnels'[t].ws = w
          /\ \A x \in Live : x # t => tunnels'[x] = tunnels[x]
      BY <2>5 DEF TableTypes, Live, Records
    <3>2. ack'[t] = "ok" /\ \A x \in Tokens : x # t => ack'[x] = ack[x]
      BY <2>5 DEF TableTypes
    <3>3. AcksHeld'
      BY <1>0, <2>1, <2>5, <3>1, <3>2 DEF AcksHeld
    <3>4. w \in attached /\ (w \in linked => t \in claimed[w])
      <4>1. w \in attached /\ toServer[w] # <<>> /\ toServer[w] \in Seq(ServerFrame)
        BY <2>1 DEF Receive, WireTypes
      <4>2. 1 \in 1..Len(toServer[w]) /\ toServer[w][1] = Head(toServer[w])  BY <4>1
      <4>3. ok = TRUE  BY <2>5
      <4>4. toServer[w][1] = <<"ack", t, TRUE>>  BY <2>2, <4>2, <4>3
      <4>5. QED  BY <4>1, <4>2, <4>4 DEF AcksClaimed
    <3>5. Pinned'  BY <2>1, <3>1, <3>4 DEF Pinned
    <3>6. NoneHalfOpen'  BY <1>0, <2>1, <2>5, <3>1 DEF NoneHalfOpen, AcksHeld
    <3>7. QED  BY <3>3, <3>5, <3>6
  <2>6. QED  BY <2>2, <2>3, <2>4, <2>5
<1>16. ASSUME NEW w \in Sockets, ReceiveItem(w) \/ ReceiveClose(w) PROVE PinInv'
  <2>1. UNCHANGED <<opener, ack>> /\ Ends
          /\ \E t \in Tokens, s \in Streams : DropStream(t, s) \/ tunnels' = tunnels
    BY <1>16 DEF ReceiveItem, ReceiveClose, agent
  <2>2. QED  BY <1>13, <2>1
<1>17. ASSUME NEW w \in Sockets, Detach(w) PROVE PinInv'
  <2>1. /\ Drop({t \in Live : tunnels[t].ws = w}) /\ w \notin linked /\ attached' = attached \ {w}
        /\ UNCHANGED <<opener, linked, claimed>>
    BY <1>17 DEF Detach, agent
  <2>2. Fewer /\ \A x \in Live' : tunnels[x].ws # w  BY <1>4, <2>1 DEF Drop, Live
  <2>3. AcksHeld'  BY <1>0, <2>1, <2>2 DEF AcksHeld
  <2>4. Pinned'  BY <1>0, <2>1, <2>2 DEF Pinned
  <2>5. NoneHalfOpen'  BY <2>1, <2>2 DEF NoneHalfOpen
  <2>6. QED  BY <2>3, <2>4, <2>5
<1>18. ASSUME NEW w \in Sockets, AgentOpens(w) PROVE PinInv'
  <2>1. UNCHANGED <<tunnels, opener, ack, attached, linked>>
          /\ \A v \in Sockets : claimed[v] \subseteq claimed'[v]
    BY <1>18 DEF AgentOpens, table, AgentTypes
  <2>2. Pinned'  BY <1>0, <2>1 DEF Pinned, Live
  <2>3. AcksHeld' /\ NoneHalfOpen'  BY <2>1 DEF AcksHeld, NoneHalfOpen, Live
  <2>4. QED  BY <2>2, <2>3
<1>19. ASSUME NEW w \in Sockets, AgentLeaves(w) PROVE PinInv'
  <2>1. /\ UNCHANGED <<tunnels, opener, ack, attached>> /\ linked' = linked \ {w}
        /\ \A v \in Sockets : v # w => claimed'[v] = claimed[v]
    BY <1>19 DEF AgentLeaves, table, AgentTypes
  <2>2. Pinned'  BY <1>0, <2>1 DEF Pinned, Live
  <2>3. AcksHeld' /\ NoneHalfOpen'  BY <2>1 DEF AcksHeld, NoneHalfOpen, Live
  <2>4. QED  BY <2>2, <2>3
<1>20. CASE \/ PumpStep \/ UNCHANGED vars
            \/ AgentStep /\ ~\E w \in Sockets : AgentOpens(w)
            \/ \E t \in Tokens : TunnelExpires(t)
            \/ \E s \in Streams : NextItem(s)
            \/ \E s \in Streams, who \in {"body", "pump"} : Pace(s, who)
  <2>1. PumpStep => UNCHANGED <<tunnels, opener, ack>> /\ Ends
    BY DEF PumpStep, PumpChunk, PumpEnds, table, agent
  <2>2. AgentStep /\ ~(\E w \in Sockets : AgentOpens(w))
          => UNCHANGED <<tunnels, opener, ack>> /\ Ends
    BY DEF AgentStep, AgentHead, AgentBody, AgentCloses, ForwardBody, Serve, table, wires
  <2>3. QED
    BY <1>2, <1>20, <2>1, <2>2 DEF TunnelExpires, NextItem, Pace, table, wires, agent, vars
<1>21. QED
  BY <1>6, <1>7, <1>8, <1>9, <1>10, <1>11, <1>12, <1>14, <1>15, <1>16, <1>17, <1>18, <1>19, <1>20
     DEF Next, ConfirmStep, RequestStep, RelayStep, AgentStep, Outside
-----------------------------------------------------------------------------
(* The lifetime cap *)

LEMMA BareKept == Types /\ IdleIsBare /\ PacedAt /\ [Next]_vars => IdleIsBare' /\ PacedAt'
<1> DEFINE Bare == IdleIsBare /\ PacedAt
<1> SUFFICES ASSUME Types, Bare, [Next]_vars PROVE Bare'  OBVIOUS
<1> USE DEF Types
<1>1. ASSUME UNCHANGED <<req, pump, paced>> PROVE Bare'
  BY <1>1 DEF IdleIsBare, PacedAt
<1>2. ASSUME NEW s \in Streams,
             \A r \in Streams : r # s => req'[r] = req[r] /\ pump'[r] = pump[r],
             paced' \subseteq paced, <<s, "body">> \in paced' => req'[s].pc = "spend",
             <<s, "pump">> \in paced' => pump'[s].at # "off",
             req'[s].pc # "idle" \/ (req'[s] = req[s] /\ pump'[s].at = "off")
      PROVE  Bare'
  <2>1. IdleIsBare'  BY <1>2 DEF IdleIsBare
  <2>2. PacedAt'  BY <1>2 DEF PacedAt
  <2>3. QED  BY <2>1, <2>2
<1>3. ASSUME NEW s \in Streams, NEW p, Goto(s, p)
      PROVE  req'[s].pc = p /\ req'[s].t = req[s].t /\ \A r \in Streams : r # s => req'[r] = req[r]
  BY <1>3 DEF Goto, PublicTypes, Requests
<1>4. ASSUME NEW s \in Streams, pump' = pump \/ pump' = Cancelled(s)
      PROVE  /\ \A r \in Streams : r # s => pump'[r] = pump[r]
             /\ pump'[s].at = "off" <=> pump[s].at = "off"
  BY <1>4 DEF Cancelled, PublicTypes
<1>5. ASSUME NEW s \in Streams, NEW t \in Tokens, Arrive(s, t) PROVE Bare'
  <2>1. /\ req[s].pc = "idle" /\ UNCHANGED <<pump, paced>>
        /\ \E p \in {"head", "answered"} : req' = [req EXCEPT ![s].pc = p, ![s].t = t]
    BY <1>5 DEF Arrive
  <2>2. req'[s].pc # "idle" /\ \A r \in Streams : r # s => req'[r] = req[r]
    BY <2>1 DEF PublicTypes, Requests
  <2>3. <<s, "body">> \notin paced /\ <<s, "pump">> \notin paced  BY <2>1 DEF IdleIsBare
  <2>4. QED  BY <1>2, <2>1, <2>2, <2>3
<1>6. ASSUME NEW s \in Streams, SendHead(s) PROVE Bare'
  <2>1. /\ req[s].pc = "head" /\ paced' = paced
        /\ pump' = pump \/ pump' = [pump EXCEPT ![s].at = "on"]
        /\ \E p \in {"first", "answered"} : Goto(s, p)
    BY <1>6 DEF SendHead
  <2>2. req'[s].pc # "idle" /\ \A r \in Streams : r # s => req'[r] = req[r]
    BY <1>3, <2>1
  <2>3. <<s, "body">> \notin paced  BY <2>1 DEF PacedAt
  <2>4. /\ \A r \in Streams : r # s => pump'[r] = pump[r]
        /\ <<s, "pump">> \in paced => pump'[s].at # "off"
    BY <2>1 DEF PacedAt, PublicTypes
  <2>5. QED  BY <1>2, <2>1, <2>2, <2>3, <2>4
<1>7. ASSUME NEW s \in Streams,
             FirstItem(s) \/ NextItem(s) \/ BodyEnds(s) \/ ClientGone(s) \/ BodySpends(s)
      PROVE  Bare'
  <2>1. /\ pump' = pump \/ pump' = Cancelled(s)
        /\ \E p \in {"body", "spend", "answered", "done", "never"} : Goto(s, p)
        /\ paced' \subseteq paced
    BY <1>7 DEF FirstItem, NextItem, BodyEnds, ClientGone, BodySpends, Finish
  <2>2. req'[s].pc # "idle" /\ \A r \in Streams : r # s => req'[r] = req[r]
    BY <1>3, <2>1
  <2>3. <<s, "body">> \in paced' => req'[s].pc = "spend"
    <3>1. CASE ClientGone(s) \/ BodySpends(s)
      BY <3>1 DEF ClientGone, BodySpends
    <3>2. CASE FirstItem(s) \/ NextItem(s) \/ BodyEnds(s)
      BY <3>2 DEF FirstItem, NextItem, BodyEnds, PacedAt
    <3>3. QED  BY <1>7, <3>1, <3>2
  <2>4. <<s, "pump">> \in paced' => pump'[s].at # "off"
    BY <1>4, <2>1 DEF PacedAt
  <2>5. QED  BY <1>2, <1>4, <2>1, <2>2, <2>3, <2>4
<1>8. ASSUME NEW s \in Streams, PumpChunk(s) \/ PumpEnds(s) PROVE Bare'
  <2>1. /\ pump[s].at # "off" /\ req' = req /\ paced' = paced \ {<<s, "pump">>}
        /\ \A r \in Streams : r # s => pump'[r] = pump[r]
    BY <1>8 DEF PumpChunk, PumpEnds, PublicTypes
  <2>2. req'[s].pc # "idle"  BY <2>1 DEF IdleIsBare
  <2>3. QED  BY <1>2, <2>1, <2>2 DEF PacedAt
<1>9. ASSUME NEW s \in Streams, NEW who \in {"body", "pump"}, Pace(s, who) PROVE Bare'
  <2>1. /\ UNCHANGED <<req, pump>> /\ paced' = paced \cup {<<s, who>>}
        /\ \/ who = "body" /\ req[s].pc = "spend"
           \/ who = "pump" /\ pump[s].at = "on"
    BY <1>9 DEF Pace
  <2>2. req[s].pc # "idle"  BY <2>1 DEF IdleIsBare
  <2>3. IdleIsBare'  BY <2>1, <2>2 DEF IdleIsBare
  <2>4. PacedAt'  BY <2>1 DEF PacedAt
  <2>5. QED  BY <2>3, <2>4
<1>10. CASE \/ ConfirmStep \/ RelayStep \/ AgentStep \/ UNCHANGED vars
            \/ \E t \in Tokens : TunnelExpires(t) \/ CloseTunnel(t)
            \/ \E w \in Sockets : AgentLeaves(w)
  <2>1. ConfirmStep \/ RelayStep => UNCHANGED <<req, pump, paced>>
    BY DEF ConfirmStep, RelayStep, OpenTunnel, PushOpen, AwaitAck, AckMissing, AckSeen,
       ReceiveAck, ReceiveItem, ReceiveClose, Detach, public
  <2>2. AgentStep => UNCHANGED <<req, pump, paced>>
    BY DEF AgentStep, AgentOpens, AgentHead, AgentBody, AgentCloses, ForwardBody, Serve, public
  <2>3. QED
    BY <1>1, <1>10, <2>1, <2>2 DEF TunnelExpires, CloseTunnel, AgentLeaves, public, vars
<1>11. QED
  BY <1>5, <1>6, <1>7, <1>8, <1>9, <1>10 DEF Next, RequestStep, PumpStep, Outside

\* Two spenders of each request at most are asleep: its body and its pump.
LEMMA SpendersFew ==
    ASSUME NEW R \in SUBSET Streams, NEW P \in SUBSET (R \X {"body", "pump"})
    PROVE  /\ IsFiniteSet(R) /\ IsFiniteSet(P)
           /\ Cardinality(R) \in Nat /\ Cardinality(P) \in Nat
           /\ Cardinality(P) <= 2 * Cardinality(R)
           /\ \A p \in (R \X {"body", "pump"}) \ P : Cardinality(P) < 2 * Cardinality(R)
<1> DEFINE Two == {"body", "pump"}
<1>1. IsFiniteSet(R) /\ Cardinality(R) \in Nat
  BY StreamsFinite, FS_Subset, FS_CardinalityType
<1>2. IsFiniteSet(Two) /\ Cardinality(Two) = 2
  <2>1. IsFiniteSet({"body"}) /\ Cardinality({"body"}) = 1  BY FS_Singleton
  <2>2. {"body"} \cup {"pump"} = Two /\ "pump" \notin {"body"}  OBVIOUS
  <2>3. IsFiniteSet({"body"} \cup {"pump"}) /\ Cardinality({"body"} \cup {"pump"}) = 1 + 1
    BY <2>1, <2>2, FS_AddElement
  <2>4. QED  BY <2>2, <2>3
<1>3. IsFiniteSet(R \X Two) /\ Cardinality(R \X Two) = Cardinality(R) * 2
  BY <1>1, <1>2, FS_Product
<1>4. IsFiniteSet(P) /\ Cardinality(P) \in Nat /\ Cardinality(P) <= Cardinality(R \X Two)
  BY <1>3, FS_Subset, FS_CardinalityType
<1>5. ASSUME NEW p \in (R \X Two) \ P PROVE Cardinality(P) < 2 * Cardinality(R)
  <2>1. Cardinality(P) # Cardinality(R \X Two)  BY <1>3, <1>5, FS_Subset
  <2>2. QED  BY <1>1, <1>3, <1>4, <2>1
<1>6. QED  BY <1>1, <1>3, <1>4, <1>5

LEMMA OnTunnel ==
    ASSUME Types, NEW t \in Tokens
    PROVE  /\ RequestsOn(t) \in SUBSET Streams
           /\ PacedOn(t) \in SUBSET (RequestsOn(t) \X {"body", "pump"})
           /\ IsFiniteSet(PacedOn(t)) /\ Cardinality(PacedOn(t)) \in Nat
           /\ IsFiniteSet(RequestsOn(t)) /\ Cardinality(RequestsOn(t)) \in Nat
           /\ bytes[t] \in Nat
<1>1. RequestsOn(t) \in SUBSET Streams /\ PacedOn(t) \in SUBSET (RequestsOn(t) \X {"body", "pump"})
  BY DEF RequestsOn, PacedOn, Types, PublicTypes
<1>2. bytes[t] \in Nat  BY DEF Types, TableTypes
<1>3. QED  BY <1>1, <1>2, SpendersFew

\* A spender charged now was asleep in its pacing, or found the balance below
\* the cap with one more asleep at most for each body and pump but itself.
LEMMA SpendingKept ==
    Types /\ Types' /\ IdleIsBare /\ PacedAt /\ Spending /\ [Next]_vars => Spending'
<1> SUFFICES ASSUME Types, Types', IdleIsBare, PacedAt, Spending, [Next]_vars
             PROVE  Spending'
  OBVIOUS
<1> USE Caps
<1> DEFINE Same == \A s \in Streams : req'[s].t = req[s].t
           Holds(t) == /\ RequestsOn(t)' = {} => bytes'[t] = 0
                       /\ RequestsOn(t)' # {} => bytes'[t] + Cardinality(PacedOn(t)')
                                        < TotalBytes + 2 * Cardinality(RequestsOn(t)')
<1>0. (\A t \in Tokens : Holds(t)) => Spending'  BY DEF Spending
<1>1. paced \subseteq Streams \X {"body", "pump"} /\ bytes \in [Tokens -> Nat]
  BY DEF Types, PublicTypes, TableTypes
<1>2. ASSUME Same, NEW t \in Tokens PROVE RequestsOn(t)' = RequestsOn(t)
  BY <1>2 DEF RequestsOn
<1>3. ASSUME Same, NEW t \in Tokens, bytes'[t] = bytes[t], PacedOn(t)' \subseteq PacedOn(t)
      PROVE  Holds(t)
  <2>1. Cardinality(PacedOn(t)') \in Nat /\ Cardinality(PacedOn(t)') <= Cardinality(PacedOn(t))
    BY <1>3, OnTunnel, FS_Subset, FS_CardinalityType
  <2>2. Cardinality(PacedOn(t)) \in Nat /\ Cardinality(RequestsOn(t)) \in Nat /\ bytes[t] \in Nat
    BY OnTunnel
  <2>3. RequestsOn(t) # {} => bytes[t] + Cardinality(PacedOn(t))
                                < TotalBytes + 2 * Cardinality(RequestsOn(t))
    BY DEF Spending
  <2>4. RequestsOn(t) = {} => bytes[t] = 0  BY DEF Spending
  <2>5. RequestsOn(t)' = RequestsOn(t)  BY <1>2, <1>3
  <2>6. CASE RequestsOn(t) = {}  BY <1>3, <2>4, <2>5, <2>6
  <2>7. CASE RequestsOn(t) # {}
    <3> DEFINE m == Cardinality(PacedOn(t))
               n == Cardinality(RequestsOn(t))
               k == Cardinality(PacedOn(t)')
    <3>1. bytes[t] + m < TotalBytes + 2 * n  BY <2>3, <2>7
    <3>2. bytes[t] + k < TotalBytes + 2 * n
      <4> HIDE DEF m, n, k
      <4>1. k \in Nat /\ m \in Nat /\ n \in Nat /\ k <= m  BY <2>1, <2>2 DEF m, n, k
      <4>2. QED  BY <2>2, <3>1, <4>1
    <3>3. QED  BY <1>3, <2>5, <2>7, <3>2
  <2>8. QED  BY <2>6, <2>7
<1>4. ASSUME Same, bytes' = bytes, paced' \subseteq paced PROVE Spending'
  <2>1. \A t \in Tokens : PacedOn(t)' \subseteq PacedOn(t)
    BY <1>1, <1>4 DEF PacedOn
  <2>2. QED  BY <1>3, <1>4, <2>1 DEF Spending
<1>5. ASSUME NEW s \in Streams, NEW who \in {"body", "pump"}, Pace(s, who) PROVE Spending'
  <2> DEFINE u == req[s].t
             p == <<s, who>>
  <2>1. /\ req' = req /\ bytes' = bytes /\ paced' = paced \cup {p} /\ p \notin paced
        /\ u \in Live /\ bytes[u] + 1 <= TotalBytes
    BY <1>5 DEF Pace, MaySpend, table
  <2>2. u \in Tokens  BY <2>1 DEF Types, TableTypes
  <2>3. ASSUME NEW t \in Tokens, t # u PROVE Holds(t)
    <3>1. PacedOn(t)' \subseteq PacedOn(t)  BY <2>1, <2>3 DEF PacedOn
    <3>2. QED  BY <1>3, <2>1, <2>3, <3>1
  <2>4. Holds(u)
    <3>1. /\ RequestsOn(u)' = RequestsOn(u) /\ s \in RequestsOn(u)
          /\ PacedOn(u)' \in SUBSET (RequestsOn(u) \X {"body", "pump"})
      BY <1>1, <2>1 DEF RequestsOn, PacedOn
    <3>2. /\ Cardinality(PacedOn(u)') <= 2 * Cardinality(RequestsOn(u))
          /\ Cardinality(PacedOn(u)') \in Nat /\ Cardinality(RequestsOn(u)) \in Nat
      BY <2>2, <3>1, OnTunnel, SpendersFew
    <3> DEFINE k == Cardinality(PacedOn(u)')
               n == Cardinality(RequestsOn(u))
    <3>3. bytes[u] + k < TotalBytes + 2 * n
      <4> HIDE DEF k, n, u
      <4>1. k <= 2 * n /\ k \in Nat /\ n \in Nat  BY <3>2 DEF k, n
      <4>2. bytes[u] \in Nat  BY <1>1, <2>2
      <4>3. QED  BY <2>1, <4>1, <4>2
    <3>4. QED  BY <2>1, <3>1, <3>3
  <2> HIDE DEF Holds, u
  <2>5. \A t \in Tokens : Holds(t)  BY <2>3, <2>4
  <2>6. QED  BY <1>0, <2>5
<1>6. ASSUME NEW s \in Streams, NEW who \in {"body", "pump"}, Same,
             bytes' = [bytes EXCEPT ![req[s].t] = @ + 1],
             <<s, who>> \in paced \/ MaySpend(req[s].t), paced' = paced \ {<<s, who>>}
      PROVE  Spending'
  <2> DEFINE u == req[s].t
             p == <<s, who>>
  <2>1. ASSUME NEW t \in Tokens, t # u PROVE Holds(t)
    <3>1. PacedOn(t)' \subseteq PacedOn(t) /\ bytes'[t] = bytes[t]
      BY <1>1, <1>6, <2>1 DEF PacedOn
    <3>2. QED  BY <1>3, <1>6, <3>1
  <2>2. ASSUME u \in Tokens PROVE Holds(u)
    <3>1. /\ RequestsOn(u)' = RequestsOn(u) /\ s \in RequestsOn(u)
      BY <1>2, <1>6, <2>2 DEF RequestsOn
    <3>2. PacedOn(u)' = PacedOn(u) \ {p} /\ p \notin PacedOn(u)'
      BY <1>1, <1>6 DEF PacedOn
    <3>3. bytes'[u] = bytes[u] + 1 /\ bytes[u] \in Nat  BY <1>1, <1>6, <2>2
    <3> DEFINE k == Cardinality(PacedOn(u)')
               m == Cardinality(PacedOn(u))
               n == Cardinality(RequestsOn(u))
    <3>4. m \in Nat /\ n \in Nat /\ IsFiniteSet(PacedOn(u))  BY <2>2, OnTunnel
    <3>5. CASE p \in paced
      <4>1. p \in PacedOn(u)  BY <3>5 DEF PacedOn
      <4>2. k = m - 1  BY <3>2, <3>4, <4>1, FS_RemoveElement
      <4>3. bytes[u] + m < TotalBytes + 2 * n  BY <2>2, <3>1 DEF Spending
      <4> HIDE DEF k, m, n, u
      <4>4. bytes'[u] + k < TotalBytes + 2 * n  BY <3>3, <3>4, <4>2, <4>3
      <4>5. QED  BY <3>1, <4>4 DEF k, n, u
    <3>6. CASE MaySpend(u)
      <4>1. bytes[u] + 1 <= TotalBytes  BY <3>6 DEF MaySpend
      <4>2. /\ PacedOn(u)' \in SUBSET (RequestsOn(u) \X {"body", "pump"})
            /\ p \in (RequestsOn(u) \X {"body", "pump"}) \ PacedOn(u)'
        BY <2>2, <3>1, <3>2, OnTunnel
      <4>3. k < 2 * n /\ k \in Nat  BY <2>2, <4>2, OnTunnel, SpendersFew
      <4> HIDE DEF k, m, n, u
      <4>4. bytes'[u] + k < TotalBytes + 2 * n  BY <3>3, <3>4, <4>1, <4>3
      <4>5. QED  BY <3>1, <4>4 DEF k, n, u
    <3>7. QED  BY <1>6, <3>5, <3>6
  <2> HIDE DEF Holds, u
  <2>3. \A t \in Tokens : Holds(t)
    <3>1. SUFFICES ASSUME NEW t \in Tokens PROVE Holds(t)  OBVIOUS
    <3>2. CASE t # u  BY <2>1, <3>2
    <3>3. CASE t = u  BY <2>2, <3>3
    <3>4. QED  BY <3>2, <3>3
  <2>4. QED  BY <1>0, <2>3
<1>7. ASSUME NEW s \in Streams, NEW t \in Tokens, Arrive(s, t) PROVE Spending'
  <2>1. /\ req[s].pc = "idle" /\ UNCHANGED <<bytes, paced>>
        /\ \E a \in {"head", "answered"} : req' = [req EXCEPT ![s].pc = a, ![s].t = t]
    BY <1>7 DEF Arrive
  <2>2. req'[s].t = t /\ \A r \in Streams : r # s => req'[r] = req[r]
    BY <2>1 DEF Types, PublicTypes, Requests
  <2>3. req[s].t \notin Tokens /\ \A p \in paced : p[1] \in Streams /\ p[1] # s
    <3>1. req[s].t = Nowhere /\ <<s, "body">> \notin paced /\ <<s, "pump">> \notin paced
      BY <2>1 DEF IdleIsBare
    <3>2. QED  BY <1>1, <3>1, SocketsOrdered
  <2>4. \A x \in Tokens : PacedOn(x)' = PacedOn(x)
    BY <2>1, <2>2, <2>3 DEF PacedOn
  <2>5. /\ \A x \in Tokens : x # t => RequestsOn(x)' = RequestsOn(x)
        /\ RequestsOn(t)' = RequestsOn(t) \cup {s} /\ s \notin RequestsOn(t)
    BY <2>2, <2>3 DEF RequestsOn
  <2>6. \A x \in Tokens : x # t => Holds(x)
    BY <2>1, <2>4, <2>5 DEF Spending
  <2>7. Holds(t)
    <3> DEFINE m == Cardinality(PacedOn(t))
               n == Cardinality(RequestsOn(t))
    <3>1. /\ m \in Nat /\ n \in Nat /\ bytes[t] \in Nat /\ IsFiniteSet(RequestsOn(t))
          /\ Cardinality(RequestsOn(t)') = n + 1
      BY <2>5, OnTunnel, FS_AddElement
    <3>2. bytes[t] + m < TotalBytes + 2 * (n + 1)
      <4>1. CASE RequestsOn(t) = {}
        <5>1. bytes[t] = 0  BY <4>1 DEF Spending
        <5>2. PacedOn(t) = {}  BY <4>1, OnTunnel
        <5>3. m = 0  BY <5>2, FS_EmptySet
        <5>4. QED  BY <3>1, <5>1, <5>3
      <4>2. CASE RequestsOn(t) # {}
        <5>1. bytes[t] + m < TotalBytes + 2 * n  BY <4>2 DEF Spending
        <5> HIDE DEF m, n
        <5>2. QED  BY <3>1, <5>1
      <4>3. QED  BY <4>1, <4>2
    <3>3. RequestsOn(t)' # {}  BY <2>5
    <3>4. QED  BY <2>1, <2>4, <3>1, <3>2, <3>3
  <2>8. QED  BY <2>6, <2>7 DEF Spending
<1>8. \A s \in Streams : \A p : Goto(s, p) => Same
  BY DEF Goto, Types, PublicTypes, Requests
<1>9. ASSUME NEW s \in Streams,
             SendHead(s) \/ FirstItem(s) \/ NextItem(s) \/ BodyEnds(s) \/ ClientGone(s)
      PROVE  Spending'
  <2>1. bytes' = bytes /\ paced' \subseteq paced /\ \E p : Goto(s, p)
    BY <1>9 DEF SendHead, FirstItem, NextItem, BodyEnds, ClientGone, Finish, table
  <2>2. QED  BY <1>4, <1>8, <2>1
<1>10. ASSUME NEW s \in Streams, BodySpends(s) PROVE Spending'
  <2>1. paced' = paced \ {<<s, "body">>} /\ \E p : Goto(s, p)
    BY <1>10 DEF BodySpends, Finish
  <2>2. \/ bytes' = bytes
        \/ /\ bytes' = [bytes EXCEPT ![req[s].t] = @ + 1]
           /\ <<s, "body">> \in paced \/ MaySpend(req[s].t)
    BY <1>10 DEF BodySpends, Charge
  <2>3. QED  BY <1>4, <1>6, <1>8, <2>1, <2>2
<1>11. ASSUME NEW s \in Streams, PumpChunk(s) PROVE Spending'
  <2>1. paced' = paced \ {<<s, "pump">>} /\ Same  BY <1>11 DEF PumpChunk
  <2>2. \/ bytes' = bytes
        \/ /\ bytes' = [bytes EXCEPT ![req[s].t] = @ + 1]
           /\ <<s, "pump">> \in paced \/ MaySpend(req[s].t)
    BY <1>11 DEF PumpChunk
  <2>3. QED  BY <1>4, <1>6, <2>1, <2>2
<1>12. ASSUME NEW s \in Streams, PumpEnds(s) PROVE Spending'
  BY <1>4, <1>12 DEF PumpEnds, table
<1>13. CASE \/ ConfirmStep \/ RelayStep \/ AgentStep \/ UNCHANGED vars
            \/ \E t \in Tokens : TunnelExpires(t) \/ CloseTunnel(t)
            \/ \E w \in Sockets : AgentLeaves(w)
  <2>1. ConfirmStep \/ RelayStep => UNCHANGED <<req, bytes, paced>>
    BY DEF ConfirmStep, RelayStep, OpenTunnel, PushOpen, AwaitAck, AckMissing, AckSeen,
       ReceiveAck, ReceiveItem, ReceiveClose, Detach, public
  <2>2. AgentStep => UNCHANGED <<req, bytes, paced>>
    BY DEF AgentStep, AgentOpens, AgentHead, AgentBody, AgentCloses, ForwardBody, Serve,
       public, table
  <2>3. UNCHANGED <<req, bytes, paced>>
    BY <1>13, <2>1, <2>2 DEF TunnelExpires, CloseTunnel, AgentLeaves, public, table, vars
  <2>4. QED  BY <1>4, <2>3
<1>14. QED
  BY <1>5, <1>7, <1>9, <1>10, <1>11, <1>12, <1>13 DEF Next, RequestStep, PumpStep, Outside
-----------------------------------------------------------------------------
(* Streams: the steps that pass a stream by *)

\* What is left of a stream's frames on each socket stands in its old order:
\* so many frames were taken from the front, and none of them was an item of
\* the stream while others of its items remain, or its agent does.
HeadsQuiet(s) ==
    \A w \in Sockets : \E k \in Nat : \A i \in Nat : HeadAt(w, i, s)' => HeadAt(w, i + k, s)
ItemsLeft(s, w, k) ==
    \A i \in Nat : ItemAt(w, i, s)' =>
        ItemAt(w, i + k, s) /\ toServer'[w][i] = toServer[w][i + k]
ItemsKept(s, w, k, last) ==
    \A j \in Nat : ItemAt(w, j, s) /\ j <= last =>
        j > k /\ ItemAt(w, j - k, s)' /\ toServer'[w][j - k] = toServer[w][j]
ItemsQuiet(s) ==
    \A w \in Sockets : \E k \in Nat :
        /\ ItemsLeft(s, w, k)
        /\ \A i \in Nat : ItemAt(w, i, s)' => ItemsKept(s, w, k, i + k)
        /\ w \in linked' => ItemsKept(s, w, k, Len(toServer[w]))
ServeQuiet(s) ==
    \/ serving'[s] = Nowhere
    \/ serving'[s] = serving[s] /\ (serving[s].w \in linked => serving[s].w \in linked')
TableQuiet(s) ==
    /\ InTable(s)' => InTable(s)
    /\ \/ queue'[s] = queue[s]
       \/ queue'[s] = Append(queue[s], Closed) /\ InTable(s) /\ ~InTable(s)'
PhaseQuiet(s) ==
    /\ out'[s] = out[s] /\ req'[s].t = req[s].t
    /\ \/ req'[s].pc = req[s].pc
       \/ req[s].pc = "body" /\ req'[s].pc \in {"spend", "never"}
       \/ /\ req[s].pc # "idle" /\ req'[s].pc \in {"answered", "done"}
          /\ ~InTable(s)'
Quiet(s) == HeadsQuiet(s) /\ ItemsQuiet(s) /\ ServeQuiet(s) /\ TableQuiet(s) /\ PhaseQuiet(s)

StreamInv(s) == HeadOnce(s) /\ InOrder(s) /\ OnLinked(s) /\ NoGap(s) /\ QueueDue(s)

LEMMA HeadsStay ==
    ASSUME NEW s \in Streams, HeadOnce(s), HeadsQuiet(s)
    PROVE  /\ NoHead(s) => NoHead(s)'
           /\ \A w, v \in Sockets : \A i, j \in Nat :
                HeadAt(w, i, s)' /\ HeadAt(v, j, s)' => ~NoHead(s) /\ v = w /\ j = i
<1>1. NoHead(s) => NoHead(s)'
  BY DEF HeadsQuiet, NoHead
<1>2. ASSUME NEW w \in Sockets, NEW v \in Sockets, NEW i \in Nat, NEW j \in Nat,
             HeadAt(w, i, s)', HeadAt(v, j, s)'
      PROVE  ~NoHead(s) /\ v = w /\ j = i
  <2>1. PICK k \in Nat : \A n \in Nat : HeadAt(w, n, s)' => HeadAt(w, n + k, s)
    BY DEF HeadsQuiet
  <2>2. PICK l \in Nat : \A n \in Nat : HeadAt(v, n, s)' => HeadAt(v, n + l, s)
    BY DEF HeadsQuiet
  <2>3. HeadAt(w, i + k, s) /\ HeadAt(v, j + l, s)  BY <1>2, <2>1, <2>2
  <2>4. v = w /\ ~NoHead(s)  BY <2>3 DEF HeadOnce, NoHead
  <2>5. HeadAt(w, j + k, s)  BY <1>2, <2>1, <2>4
  <2>6. i + k = j + k  BY <2>3, <2>5 DEF HeadOnce
  <2>7. QED  BY <2>4, <2>6
<1>3. QED  BY <1>1, <1>2

LEMMA ItemsStay ==
    ASSUME NEW s \in Streams, InOrder(s), \A w \in Sockets : \E k \in Nat : ItemsLeft(s, w, k),
           req'[s].t = req[s].t \/ Untouched(s),
           \/ serving'[s] = Nowhere
           \/ serving'[s] = serving[s]
           \/ Untouched(s)
    PROVE  InOrder(s)' /\ (Untouched(s) => \A w \in Sockets : \A i \in Nat : ~ItemAt(w, i, s)')
<1>1. ASSUME NEW w \in Sockets, NEW i \in Nat, ItemAt(w, i, s)'
      PROVE  ~Untouched(s)
  BY <1>1 DEF ItemsLeft, Untouched
<1>2. ASSUME NEW w \in Sockets, NEW i \in Nat, ItemAt(w, i, s)'
      PROVE  /\ toServer'[w][i][2] = req'[s].t
             /\ \A v \in Sockets : \A j \in Nat : ItemAt(v, j, s)' =>
                  v = w /\ (i < j => toServer'[w][i][4] < toServer'[w][j][4])
             /\ serving'[s] # Nowhere =>
                  /\ serving'[s].w = w /\ serving'[s].at = "data"
                  /\ toServer'[w][i][4] <= serving'[s].sent
  <2>1. PICK k \in Nat : ItemsLeft(s, w, k)  OBVIOUS
  <2>2. ItemAt(w, i + k, s) /\ toServer'[w][i] = toServer[w][i + k] /\ ~Untouched(s)
    BY <1>1, <1>2, <2>1 DEF ItemsLeft
  <2>3. ASSUME NEW v \in Sockets, NEW j \in Nat, ItemAt(v, j, s)'
        PROVE  v = w /\ (i < j => toServer'[w][i][4] < toServer'[w][j][4])
    <3>1. PICK l \in Nat : ItemAt(v, j + l, s)  BY <2>3 DEF ItemsLeft
    <3>2. v = w  BY <2>2, <3>1 DEF InOrder
    <3>3. ItemAt(w, j + k, s) /\ toServer'[w][j] = toServer[w][j + k]
      BY <2>1, <2>3, <3>2 DEF ItemsLeft
    <3>4. i < j => i + k < j + k  OBVIOUS
    <3>5. i < j => toServer[w][i + k][4] < toServer[w][j + k][4]
      BY <2>2, <3>3, <3>4 DEF InOrder
    <3>6. QED  BY <2>2, <3>2, <3>3, <3>5
  <2>4. QED  BY <2>2, <2>3 DEF InOrder
<1>3. QED  BY <1>1, <1>2 DEF InOrder

\* A reader's queue when its phase and its place in the table go quietly.
LEMMA QueueKept ==
    ASSUME Types, SlotsOfRunning, NEW s \in Streams, QueueDue(s), TableQuiet(s), PhaseQuiet(s)
    PROVE  QueueDue(s)'
<1>0. InTable(s)' => InTable(s) /\ queue'[s] = queue[s]
  BY DEF TableQuiet
<1>1. ~InTable(s) => queue'[s] = queue[s]  BY DEF TableQuiet
<1>2. req[s].pc = "idle" => ~InTable(s)  BY DEF SlotsOfRunning, InTable
<1>3. req'[s].pc = "idle" => req[s].pc = "idle"  BY DEF PhaseQuiet
<1>4. req'[s].pc = "head" => req[s].pc = "head"  BY DEF PhaseQuiet
<1>5. req'[s].pc \in {"idle", "head", "first"} => out'[s] = <<>>
  BY DEF PhaseQuiet, QueueDue
<1>6. ASSUME req'[s].pc \in {"idle", "head", "first", "body", "spend"},
             NEW i \in 1..Len(queue'[s])
      PROVE  queue'[s][i] \in {Closed, Due(s)' + i - 1}
  <2>1. req[s].pc \in {"idle", "head", "first", "body", "spend"} /\ Due(s)' = Due(s)
    BY <1>6 DEF PhaseQuiet, Due
  <2>2. \A n \in 1..Len(queue[s]) : queue[s][n] \in {Closed, Due(s) + n - 1}
    BY <2>1 DEF QueueDue
  <2>3. CASE queue'[s] = queue[s]  BY <1>6, <2>1, <2>2, <2>3
  <2>4. CASE queue'[s] = Append(queue[s], Closed)
    <3>1. queue[s] \in Seq(Items)  BY DEF Types, QueueTypes
    <3>2. i \in 1..Len(queue[s]) \/ i = Len(queue[s]) + 1
      BY <1>6, <2>4, <3>1
    <3>3. i \in 1..Len(queue[s]) => queue'[s][i] = queue[s][i]  BY <2>4, <3>1
    <3>4. i = Len(queue[s]) + 1 => queue'[s][i] = Closed  BY <2>4, <3>1
    <3>5. QED  BY <2>1, <2>2, <3>2, <3>3, <3>4
  <2>5. QED  BY <2>3, <2>4 DEF TableQuiet
<1>7. req'[s].pc = "head" /\ InTable(s)' => queue'[s] = <<>>
  BY <1>0, <1>4 DEF QueueDue
<1>8. req'[s].pc = "idle" => queue'[s] = <<>>
  BY <1>1, <1>2, <1>3 DEF QueueDue
<1>9. QED  BY <1>5, <1>6, <1>7, <1>8 DEF QueueDue

LEMMA QuietKeeps ==
    ASSUME Types, SlotsOfRunning, NEW s \in Streams, StreamInv(s), Quiet(s)
    PROVE  StreamInv(s)'
<1> USE DEF StreamInv, Quiet
<1>1. \A w \in Sockets : \E k \in Nat : ItemsLeft(s, w, k)  BY DEF ItemsQuiet
<1>2. InOrder(s)' /\ (Untouched(s) => \A w \in Sockets : \A i \in Nat : ~ItemAt(w, i, s)')
  BY <1>1, ItemsStay DEF ServeQuiet, PhaseQuiet
<1>3. Untouched(s) => Untouched(s)'
  BY <1>2 DEF Untouched, ServeQuiet
<1>4. req'[s].pc \in {"idle", "head"} => req[s].pc \in {"idle", "head"}
  BY DEF PhaseQuiet
<1>5. HeadOnce(s)'
  <2>1. req'[s].pc \in {"idle", "head"} => Untouched(s)' /\ NoHead(s)'
    BY <1>3, <1>4, HeadsStay DEF HeadOnce, NoHead
  <2>2. ~NoHead(s) => Untouched(s)  BY DEF HeadOnce, NoHead
  <2>3. QED  BY <1>3, <2>1, <2>2, HeadsStay DEF HeadOnce, NoHead
<1>6. OnLinked(s)'  BY DEF OnLinked, ServeQuiet
<1>7. InTable(s)' => InTable(s) /\ queue'[s] = queue[s] /\ Due(s)' = Due(s)
  BY DEF TableQuiet, PhaseQuiet, Due
<1>8. InTable(s)' => NextDue(s)' = NextDue(s)  BY <1>7 DEF NextDue
<1>9. NoGap(s)'
  <2>1. SUFFICES ASSUME InTable(s)'
                 PROVE  /\ \A w \in Sockets : \A i \in Nat : ItemAt(w, i, s)' => Follows(s, w, i)'
                        /\ serving'[s] # Nowhere => NextIs(s)'
                        /\ ~NoHead(s)' => NextDue(s)' = 0
    BY DEF NoGap
  <2>2. InTable(s) /\ NextDue(s)' = NextDue(s)  BY <1>7, <1>8, <2>1
  <2>3. ASSUME NEW w \in Sockets, NEW i \in Nat, ItemAt(w, i, s)' PROVE Follows(s, w, i)'
    <3>1. PICK k \in Nat : ItemsLeft(s, w, k) /\ ItemsKept(s, w, k, i + k)
      BY <2>3 DEF ItemsQuiet
    <3>2. ItemAt(w, i + k, s) /\ toServer'[w][i] = toServer[w][i + k]
      BY <2>3, <3>1 DEF ItemsLeft
    <3>3. Follows(s, w, i + k)  BY <2>2, <3>2 DEF NoGap
    <3>4. CASE toServer[w][i + k][4] = NextDue(s)
      BY <2>2, <3>2, <3>4 DEF Follows
    <3>5. CASE toServer[w][i + k][4] # NextDue(s)
      <4>1. PICK j \in Nat : /\ j < i + k /\ ItemAt(w, j, s)
                             /\ toServer[w][j][4] + 1 = toServer[w][i + k][4]
        BY <3>3, <3>5 DEF Follows
      <4>2. j > k /\ ItemAt(w, j - k, s)' /\ toServer'[w][j - k] = toServer[w][j]
        BY <3>1, <4>1 DEF ItemsKept
      <4>3. j - k \in Nat /\ j - k < i  BY <4>1, <4>2
      <4>4. QED  BY <3>2, <4>1, <4>2, <4>3 DEF Follows
    <3>6. QED  BY <3>4, <3>5
  <2>4. ASSUME serving'[s] # Nowhere PROVE NextIs(s)'
    <3>1. serving'[s] = serving[s] /\ serving[s].w \in linked' /\ NextIs(s)
      BY <2>2, <2>4 DEF ServeQuiet, OnLinked, NoGap
    <3>2. CASE serving[s].at # "data" \/ serving[s].sent + 1 = NextDue(s)
      BY <2>2, <3>1, <3>2 DEF NextIs
    <3>3. CASE ~(serving[s].at # "data" \/ serving[s].sent + 1 = NextDue(s))
      <4> DEFINE w == serving[s].w
      <4>1. PICK i \in Nat : ItemAt(w, i, s) /\ toServer[w][i][4] = serving[s].sent
        BY <3>1, <3>3 DEF NextIs
      <4>2. w \in Sockets /\ w \in linked'
        BY <2>4, <3>1 DEF Types, AgentTypes, Tasks
      <4>3. PICK k \in Nat : ItemsKept(s, w, k, Len(toServer[w]))
        BY <4>2 DEF ItemsQuiet
      <4>4. i <= Len(toServer[w])  BY <4>1, <4>2 DEF ItemAt, Types, WireTypes
      <4>5. i > k /\ ItemAt(w, i - k, s)' /\ toServer'[w][i - k] = toServer[w][i]
        BY <4>1, <4>3, <4>4 DEF ItemsKept
      <4>6. i - k \in Nat  BY <4>5
      <4>7. QED  BY <3>1, <3>3, <4>1, <4>5, <4>6 DEF NextIs
    <3>4. QED  BY <3>2, <3>3
  <2>5. ~NoHead(s)' => NextDue(s)' = 0
    BY <2>2, HeadsStay DEF NoGap
  <2>6. QED  BY <2>3, <2>4, <2>5
<1>10. QueueDue(s)'  BY QueueKept
<1>11. QED  BY <1>2, <1>5, <1>6, <1>9, <1>10

\* The ways a channel changes without touching a stream's frames.
LEMMA ItemsSame ==
    ASSUME NEW s \in Streams, toServer' = toServer
    PROVE  ItemsQuiet(s)
<1>1. \A w \in Sockets : \A i \in Nat : i + 0 = i /\ i - 0 = i /\ (ItemAt(w, i, s) => i > 0)
  BY DEF ItemAt
<1>2. \A w, i : ItemAt(w, i, s)' <=> ItemAt(w, i, s)  BY DEF ItemAt
<1>3. 0 \in Nat  OBVIOUS
<1>4. QED  BY <1>1, <1>2, <1>3 DEF ItemsQuiet, ItemsLeft, ItemsKept

LEMMA ItemsAppended ==
    ASSUME Types, NEW s \in Streams, NEW w \in Sockets, NEW f \in ServerFrame, ~IsItem(f, s),
           toServer' = [toServer EXCEPT ![w] = Append(@, f)]
    PROVE  ItemsQuiet(s)
<1>1. toServer \in [Sockets -> Seq(ServerFrame)]  BY DEF Types, WireTypes
<1>2. /\ \A v \in Sockets : v # w => toServer'[v] = toServer[v]
      /\ Len(toServer'[w]) = Len(toServer[w]) + 1 /\ toServer'[w][Len(toServer[w]) + 1] = f
      /\ \A i \in 1..Len(toServer[w]) : toServer'[w][i] = toServer[w][i]
  BY <1>1, ChannelGains
<1>3. Len(toServer[w]) \in Nat  BY <1>1
<1>4. ASSUME NEW v \in Sockets, NEW i \in Nat
      PROVE  /\ ItemAt(v, i, s)' <=> ItemAt(v, i, s)
             /\ ItemAt(v, i, s) => toServer'[v][i] = toServer[v][i] /\ i > 0
  <2>1. CASE v # w  BY <1>2, <2>1 DEF ItemAt
  <2>2. CASE v = w
    <3>1. i \in 1..Len(toServer'[w]) <=> i \in 1..Len(toServer[w]) \/ i = Len(toServer[w]) + 1
      BY <1>2, <1>3
    <3>2. i = Len(toServer[w]) + 1 => ~ItemAt(w, i, s)' /\ ~ItemAt(w, i, s)
      BY <1>2, <1>3 DEF ItemAt
    <3>3. QED  BY <1>2, <2>2, <3>1, <3>2 DEF ItemAt
  <2>3. QED  BY <2>1, <2>2
<1>5. \A i \in Nat : i + 0 = i /\ i - 0 = i  OBVIOUS
<1>6. \A v \in Sockets : \A last : ItemsLeft(s, v, 0) /\ ItemsKept(s, v, 0, last)
  BY <1>4, <1>5 DEF ItemsLeft, ItemsKept
<1>7. 0 \in Nat  OBVIOUS
<1>8. QED  BY <1>6, <1>7 DEF ItemsQuiet

LEMMA ItemsReceived ==
    ASSUME Types, NEW s \in Streams, NEW w \in Sockets, Receive(w)
    PROVE  /\ \A v \in Sockets : \E k \in Nat : ItemsLeft(s, v, k)
           /\ ~IsItem(Head(toServer[w]), s) => ItemsQuiet(s)
           /\ ItemsLeft(s, w, 1)
           /\ \A i \in Nat : ItemAt(w, i + 1, s) =>
                (i = 0 /\ toServer[w][1] = Head(toServer[w]))
                  \/ (ItemAt(w, i, s)' /\ toServer'[w][i] = toServer[w][i + 1])
<1>1. toServer \in [Sockets -> Seq(ServerFrame)]  BY DEF Types, WireTypes
<1>2. /\ \A v \in Sockets : v # w => toServer'[v] = toServer[v]
      /\ Len(toServer'[w]) = Len(toServer[w]) - 1 /\ Len(toServer[w]) \in Nat \ {0}
      /\ \A i \in 1..Len(toServer'[w]) : toServer'[w][i] = toServer[w][i + 1]
      /\ Head(toServer[w]) = toServer[w][1]
  BY <1>1, ChannelLoses DEF Receive
<1>3. ASSUME NEW v \in Sockets, v # w, NEW k
      PROVE  ItemsLeft(s, v, 0) /\ ItemsKept(s, v, 0, k)
  <2>1. \A i \in Nat : i + 0 = i /\ i - 0 = i /\ (ItemAt(v, i, s) => i > 0)  BY DEF ItemAt
  <2>2. \A i : ItemAt(v, i, s)' <=> ItemAt(v, i, s)  BY <1>2, <1>3 DEF ItemAt
  <2>3. QED  BY <1>2, <1>3, <2>1, <2>2 DEF ItemsLeft, ItemsKept
<1>4. ASSUME NEW i \in Nat
      PROVE  /\ i \in 1..Len(toServer'[w]) => i + 1 \in 1..Len(toServer[w])
             /\ i > 0 /\ i + 1 \in 1..Len(toServer[w]) => i \in 1..Len(toServer'[w])
  BY <1>2
<1>5. ItemsLeft(s, w, 1)  BY <1>2, <1>4 DEF ItemsLeft, ItemAt
<1>6. \A i \in Nat : ItemAt(w, i + 1, s) =>
        \/ i = 0 /\ toServer[w][1] = Head(toServer[w])
        \/ i > 0 /\ ItemAt(w, i, s)' /\ toServer'[w][i] = toServer[w][i + 1]
  BY <1>2, <1>4 DEF ItemAt
<1>7. ASSUME ~IsItem(Head(toServer[w]), s), NEW k PROVE ItemsKept(s, w, 1, k)
  <2>1. SUFFICES ASSUME NEW j \in Nat, ItemAt(w, j, s)
                 PROVE  j > 1 /\ ItemAt(w, j - 1, s)' /\ toServer'[w][j - 1] = toServer[w][j]
    BY DEF ItemsKept
  <2>2. j > 0 /\ j # 1  BY <1>2, <1>7, <2>1 DEF ItemAt
  <2>3. j - 1 \in Nat /\ (j - 1) + 1 = j /\ j - 1 > 0  BY <2>2
  <2>4. QED  BY <1>6, <2>1, <2>2, <2>3
<1>8. 0 \in Nat /\ 1 \in Nat  OBVIOUS
<1>9. \A v \in Sockets : \E k \in Nat : ItemsLeft(s, v, k)
  BY <1>3, <1>5, <1>8
<1>10. ~IsItem(Head(toServer[w]), s) => ItemsQuiet(s)
  <2>1. SUFFICES ASSUME ~IsItem(Head(toServer[w]), s), NEW v \in Sockets
                 PROVE  \E k \in Nat : ItemsLeft(s, v, k) /\ \A last : ItemsKept(s, v, k, last)
    BY DEF ItemsQuiet
  <2>2. CASE v = w  BY <1>5, <1>7, <1>8, <2>1, <2>2
  <2>3. CASE v # w  BY <1>3, <1>8, <2>3
  <2>4. QED  BY <2>2, <2>3
<1>11. QED  BY <1>5, <1>6, <1>9, <1>10

\* A socket that breaks loses what is on its way from some frame on.
LEMMA ItemsLost ==
    ASSUME Types, NEW s \in Streams, NEW w \in Sockets, w \notin linked',
           NEW n \in 0..Len(toServer[w]),
           toServer' = [toServer EXCEPT ![w] = SubSeq(@, 1, n)]
    PROVE  ItemsQuiet(s)
<1>1. toServer \in [Sockets -> Seq(ServerFrame)] /\ toServer[w] \in Seq(ServerFrame)
  BY DEF Types, WireTypes
<1>2. \A v \in Sockets : v # w => toServer'[v] = toServer[v]  BY <1>1
<1>3. toServer'[w] = SubSeq(toServer[w], 1, n)  BY <1>1
<1>4. Len(toServer'[w]) = n /\ \A i \in 1..n : toServer'[w][i] = toServer[w][i]
  BY <1>1, <1>3
<1>5. ASSUME NEW v \in Sockets PROVE ItemsLeft(s, v, 0)
  <2>1. \A i \in Nat : ItemAt(v, i, s)' => ItemAt(v, i, s) /\ toServer'[v][i] = toServer[v][i]
    <3>1. CASE v # w  BY <1>2, <3>1 DEF ItemAt
    <3>2. CASE v = w  BY <1>1, <1>4, <3>2 DEF ItemAt
    <3>3. QED  BY <3>1, <3>2
  <2>2. \A i \in Nat : i + 0 = i  OBVIOUS
  <2>3. QED  BY <2>1, <2>2 DEF ItemsLeft
<1>6. ASSUME NEW v \in Sockets, v # w, NEW k PROVE ItemsKept(s, v, 0, k)
  <2>1. \A i \in Nat : i - 0 = i /\ (ItemAt(v, i, s) => i > 0)  BY DEF ItemAt
  <2>2. \A i : ItemAt(v, i, s)' <=> ItemAt(v, i, s)  BY <1>2, <1>6 DEF ItemAt
  <2>3. QED  BY <1>2, <1>6, <2>1, <2>2 DEF ItemsKept
<1>7. ASSUME NEW i \in Nat, ItemAt(w, i, s)' PROVE ItemsKept(s, w, 0, i + 0)
  <2>1. \A j \in Nat : j <= i /\ ItemAt(w, j, s) =>
          j > 0 /\ ItemAt(w, j, s)' /\ toServer'[w][j] = toServer[w][j]
    BY <1>1, <1>4, <1>7 DEF ItemAt
  <2>2. \A j \in Nat : j - 0 = j  OBVIOUS
  <2>3. i + 0 = i  OBVIOUS
  <2>4. QED  BY <2>1, <2>2, <2>3 DEF ItemsKept
<1>8. 0 \in Nat  OBVIOUS
<1>9. SUFFICES ASSUME NEW v \in Sockets
               PROVE  \E k \in Nat :
                        /\ ItemsLeft(s, v, k)
                        /\ \A i \in Nat : ItemAt(v, i, s)' => ItemsKept(s, v, k, i + k)
                        /\ v \in linked' => ItemsKept(s, v, k, Len(toServer[v]))
  BY DEF ItemsQuiet
<1>10. CASE v = w  BY <1>5, <1>7, <1>8, <1>10
<1>11. CASE v # w  BY <1>5, <1>6, <1>8, <1>11
<1>12. QED  BY <1>10, <1>11

LEMMA HeadsGained ==
    ASSUME Types, NEW s \in Streams, NEW w \in Sockets, NEW f \in AgentFrame, ~IsHead(f, s),
           toAgent' = [toAgent EXCEPT ![w] = Append(@, f)]
    PROVE  HeadsQuiet(s)
<1>1. toAgent \in [Sockets -> Seq(AgentFrame)]  BY DEF Types, WireTypes
<1>2. /\ \A v \in Sockets : v # w => toAgent'[v] = toAgent[v]
      /\ Len(toAgent'[w]) = Len(toAgent[w]) + 1 /\ toAgent'[w][Len(toAgent[w]) + 1] = f
      /\ \A i \in 1..Len(toAgent[w]) : toAgent'[w][i] = toAgent[w][i]
  BY <1>1, ChannelGains
<1>3. Len(toAgent[w]) \in Nat  BY <1>1
<1>4. \A v \in Sockets : \A i \in Nat : HeadAt(v, i, s)' => HeadAt(v, i, s)
  <2>1. SUFFICES ASSUME NEW v \in Sockets, NEW i \in Nat, HeadAt(v, i, s)'
                 PROVE  HeadAt(v, i, s)
    OBVIOUS
  <2>2. CASE v # w  BY <1>2, <2>1, <2>2 DEF HeadAt
  <2>3. CASE v = w
    <3>1. i \in 1..Len(toAgent[w]) \/ i = Len(toAgent[w]) + 1
      BY <1>2, <1>3, <2>1, <2>3 DEF HeadAt
    <3>2. QED  BY <1>2, <2>1, <2>3, <3>1 DEF HeadAt
  <2>4. QED  BY <2>2, <2>3
<1>5. 0 \in Nat /\ \A i \in Nat : i + 0 = i  OBVIOUS
<1>6. QED  BY <1>4, <1>5 DEF HeadsQuiet

LEMMA HeadsTaken ==
    ASSUME Types, NEW s \in Streams, NEW w \in Sockets, At(w), Consumed(w)
    PROVE  /\ HeadsQuiet(s)
           /\ IsHead(Frame(w), s) <=> HeadAt(w, 1, s)
           /\ \A i \in Nat : HeadAt(w, i, s)' => HeadAt(w, i + 1, s)
           /\ \A v \in Sockets : \A i \in Nat : v # w /\ HeadAt(v, i, s)' => HeadAt(v, i, s)
<1>1. toAgent \in [Sockets -> Seq(AgentFrame)]  BY DEF Types, WireTypes
<1>2. /\ \A v \in Sockets : v # w => toAgent'[v] = toAgent[v]
      /\ Len(toAgent'[w]) = Len(toAgent[w]) - 1 /\ Len(toAgent[w]) \in Nat \ {0}
      /\ \A i \in 1..Len(toAgent'[w]) : toAgent'[w][i] = toAgent[w][i + 1]
      /\ Frame(w) = toAgent[w][1]
  BY <1>1, ChannelLoses DEF At, Consumed, Frame
<1>3. IsHead(Frame(w), s) <=> HeadAt(w, 1, s)  BY <1>2 DEF HeadAt
<1>4. \A i \in Nat : HeadAt(w, i, s)' => HeadAt(w, i + 1, s)
  <2>1. \A i \in Nat : i \in 1..Len(toAgent'[w]) => i + 1 \in 1..Len(toAgent[w])  BY <1>2
  <2>2. QED  BY <1>2, <2>1 DEF HeadAt
<1>5. \A v \in Sockets : \A i \in Nat : v # w /\ HeadAt(v, i, s)' => HeadAt(v, i, s)
  BY <1>2 DEF HeadAt
<1>6. HeadsQuiet(s)
  <2>1. 0 \in Nat /\ 1 \in Nat /\ \A i \in Nat : i + 0 = i  OBVIOUS
  <2>2. SUFFICES ASSUME NEW v \in Sockets
                 PROVE  \E k \in Nat : \A i \in Nat : HeadAt(v, i, s)' => HeadAt(v, i + k, s)
    BY DEF HeadsQuiet
  <2>3. CASE v = w  BY <1>4, <2>1, <2>3
  <2>4. CASE v # w  BY <1>5, <2>1, <2>4
  <2>5. QED  BY <2>3, <2>4
<1>7. QED  BY <1>3, <1>4, <1>5, <1>6

LEMMA HeadsSame ==
    ASSUME Types, NEW s \in Streams,
           \/ toAgent' = toAgent
           \/ \E w \in Sockets : toAgent' = [toAgent EXCEPT ![w] = <<>>]
    PROVE  HeadsQuiet(s)
<1>1. \A w \in Sockets : toAgent'[w] = toAgent[w] \/ toAgent'[w] = <<>>
  BY DEF Types, WireTypes
<1>2. \A w \in Sockets : \A i \in Nat : HeadAt(w, i, s)' => HeadAt(w, i, s)
  BY <1>1 DEF HeadAt
<1>3. 0 \in Nat /\ \A i \in Nat : i + 0 = i  OBVIOUS
<1>4. QED  BY <1>2, <1>3 DEF HeadsQuiet

\* Sealing the streams of dropped tunnels leaves the others as they were.
LEMMA SealsQuiet ==
    ASSUME Types, SlotsOfRunning, NEW s \in Streams, NEW ts,
           queue' = Seal(queue, StreamsOf(ts)),
           \A x \in Live' : s \in tunnels'[x].streams =>
               x \in Live \ ts /\ s \in tunnels[x].streams
    PROVE  TableQuiet(s)
<1>1. InTable(s)' => InTable(s)  BY DEF InTable
<1>2. queue'[s] = queue[s] \/ (s \in StreamsOf(ts) /\ queue'[s] = Append(queue[s], Closed))
  BY DEF Seal
<1>3. ASSUME s \in StreamsOf(ts) PROVE InTable(s) /\ ~InTable(s)'
  <2>1. PICK x \in ts \cap Live : s \in tunnels[x].streams  BY <1>3 DEF StreamsOf
  <2>2. req[s].t = x  BY <2>1 DEF SlotsOfRunning
  <2>3. \A y \in Live \ ts : s \notin tunnels[y].streams  BY <2>1, <2>2 DEF SlotsOfRunning
  <2>4. QED  BY <2>1, <2>3 DEF InTable
<1>4. QED  BY <1>1, <1>2, <1>3 DEF TableQuiet

LEMMA DropQuiet ==
    ASSUME Types, SlotsOfRunning, NEW s \in Streams, NEW ts, Drop(ts)
    PROVE  TableQuiet(s)
<1>1. queue' = Seal(queue, StreamsOf(ts))  BY DEF Drop
<1>2. \A x \in Live' : x \in Live \ ts /\ tunnels'[x] = tunnels[x]  BY DEF Drop, Live
<1>3. QED  BY <1>1, <1>2, SealsQuiet

LEMMA DropStreamQuiet ==
    ASSUME Types, SlotsOfRunning, NEW s \in Streams, NEW r \in Streams, NEW t, DropStream(t, r)
    PROVE  TableQuiet(s) /\ (r = s /\ t = req[s].t => ~InTable(s)')
<1>1. /\ Live' = Live
      /\ \A x \in Live : /\ tunnels'[x].streams \in {tunnels[x].streams, tunnels[x].streams \ {r}}
                         /\ x = t => r \notin tunnels'[x].streams
  BY DropStreamTyped DEF Types
<1>2. InTable(s)' => InTable(s)  BY <1>1 DEF InTable
<1>3. r = s /\ t = req[s].t => ~InTable(s)'
  BY <1>1 DEF InTable, SlotsOfRunning
<1>4. CASE t \in Live /\ r \in tunnels[t].streams
  <2>1. queue' = Seal(queue, {r}) /\ req[r].t = t  BY <1>4 DEF DropStream, SlotsOfRunning
  <2>2. queue'[s] = queue[s] \/ (s = r /\ queue'[s] = Append(queue[s], Closed))
    BY <2>1 DEF Seal
  <2>3. s = r => InTable(s) /\ ~InTable(s)'  BY <1>3, <1>4, <2>1 DEF InTable
  <2>4. QED  BY <1>2, <1>3, <2>2, <2>3 DEF TableQuiet
<1>5. CASE ~(t \in Live /\ r \in tunnels[t].streams)
  <2>1. queue' = queue  BY <1>5 DEF DropStream
  <2>2. QED  BY <1>2, <1>3, <2>1 DEF TableQuiet
<1>6. QED  BY <1>4, <1>5

LEMMA TableSame ==
    ASSUME NEW s \in Streams, queue'[s] = queue[s],
           \A x \in Live' : s \in tunnels'[x].streams => x \in Live /\ s \in tunnels[x].streams
    PROVE  TableQuiet(s)
BY DEF TableQuiet, InTable

\* The table's own steps pass every stream by.
LEMMA TableStepsQuiet ==
    ASSUME Types, SlotsOfRunning, NEW s \in Streams,
           \/ ConfirmStep
           \/ \E t \in Tokens : TunnelExpires(t) \/ CloseTunnel(t)
           \/ \E w \in Sockets : ReceiveAck(w) \/ ReceiveClose(w) \/ Detach(w)
    PROVE  Quiet(s)
<1> DEFINE Idle == UNCHANGED <<linked, serving, req, out>>
<1>1. Idle => ServeQuiet(s)  BY DEF ServeQuiet
<1>2. Idle => PhaseQuiet(s)  BY DEF PhaseQuiet
<1>3. ASSUME Idle, TableQuiet(s), toServer' = toServer, toAgent' = toAgent PROVE Quiet(s)
  BY <1>1, <1>2, <1>3, ItemsSame, HeadsSame DEF Quiet
<1>4. ASSUME NEW t \in Tokens, OpenTunnel(t) PROVE Quiet(s)
  <2>1. Idle /\ toServer' = toServer /\ toAgent' = toAgent  BY <1>4 DEF OpenTunnel, wires, agent
  <2>2. \/ UNCHANGED <<tunnels, queue>>
        \/ Drop(old)
        \/ /\ tunnels' = [x \in (Live \ old) \cup {t} |->
                  IF x = t THEN [ws |-> Nowhere, streams |-> {}] ELSE tunnels[x]]
           /\ queue' = Seal(queue, StreamsOf(old))
    BY <1>4 DEF OpenTunnel
  <2>3. CASE UNCHANGED <<tunnels, queue>>  BY <1>3, <2>1, <2>3, TableSame DEF Live
  <2>4. CASE Drop(old)  BY <1>3, <2>1, <2>4, DropQuiet
  <2>5. CASE /\ tunnels' = [x \in (Live \ old) \cup {t} |->
                  IF x = t THEN [ws |-> Nowhere, streams |-> {}] ELSE tunnels[x]]
             /\ queue' = Seal(queue, StreamsOf(old))
    <3>1. \A x \in Live' : s \in tunnels'[x].streams =>
            x \in Live \ old /\ s \in tunnels[x].streams
      BY <2>5 DEF Live
    <3>2. TableQuiet(s)  BY <2>5, <3>1, SealsQuiet
    <3>3. QED  BY <1>3, <2>1, <3>2
  <2>6. QED  BY <2>2, <2>3, <2>4, <2>5
<1>5. ASSUME NEW t \in Tokens, PushOpen(t) PROVE Quiet(s)
  <2>1. Idle /\ toServer' = toServer  BY <1>5 DEF PushOpen, agent
  <2>2. TableQuiet(s)
    <3>1. UNCHANGED <<tunnels, queue>> \/ Drop(old \cup {t})  BY <1>5 DEF PushOpen
    <3>2. QED  BY <3>1, TableSame, DropQuiet DEF Live
  <2>3. HeadsQuiet(s)
    <3>1. \/ toAgent' = toAgent
          \/ \E w : toAgent' = [toAgent EXCEPT ![w] =
                                  IF w \in linked THEN Append(@, <<"open", t>>) ELSE @]
      BY <1>5 DEF PushOpen
    <3>2. linked \subseteq Sockets  BY DEF Types, WireTypes
    <3>3. \/ toAgent' = toAgent
          \/ \E w \in Sockets : toAgent' = [toAgent EXCEPT ![w] = Append(@, <<"open", t>>)]
      BY <3>1, <3>2 DEF Types, WireTypes
    <3>4. <<"open", t>> \in AgentFrame /\ ~IsHead(<<"open", t>>, s)  BY DEF AgentFrame, IsHead
    <3>5. QED  BY <3>3, <3>4, HeadsGained, HeadsSame
  <2>4. QED  BY <1>1, <1>2, <2>1, <2>2, <2>3, ItemsSame DEF Quiet
<1>6. ASSUME NEW t \in Tokens, \/ AwaitAck(t) \/ AckMissing(t) \/ AckSeen(t)
                               \/ TunnelExpires(t) \/ CloseTunnel(t)
      PROVE  Quiet(s)
  <2>1. /\ Idle /\ toServer' = toServer /\ toAgent' = toAgent
        /\ UNCHANGED <<tunnels, queue>> \/ Drop({t}) \/ Drop(old \cup {t})
    BY <1>6 DEF AwaitAck, AckMissing, AckSeen, TunnelExpires, CloseTunnel, wires, agent, public
  <2>2. TableQuiet(s)  BY <2>1, TableSame, DropQuiet DEF Live
  <2>3. QED  BY <1>3, <2>1, <2>2
<1>7. ASSUME NEW w \in Sockets, Receive(w), ~IsItem(Head(toServer[w]), s), Idle,
             toAgent' = toAgent, TableQuiet(s)
      PROVE  Quiet(s)
  BY <1>1, <1>2, <1>7, ItemsReceived, HeadsSame DEF Quiet
<1>8. ASSUME NEW w \in Sockets, ReceiveAck(w) PROVE Quiet(s)
  <2>1. Receive(w) /\ Idle /\ toAgent' = toAgent /\ queue' = queue
    BY <1>8 DEF ReceiveAck, public, agent
  <2>2. PICK t \in Tokens, ok \in BOOLEAN :
          /\ Head(toServer[w]) = <<"ack", t, ok>>
          /\ tunnels' = tunnels \/ (t \in Live /\ tunnels' = [tunnels EXCEPT ![t].ws = w])
    BY <1>8 DEF ReceiveAck
  <2>3. ~IsItem(Head(toServer[w]), s)  BY <2>2 DEF IsItem
  <2>4. \A x \in Live' : x \in Live /\ tunnels'[x].streams = tunnels[x].streams
    BY <2>2 DEF Live, Types, TableTypes, Records
  <2>5. TableQuiet(s)  BY <2>1, <2>4, TableSame
  <2>6. QED  BY <1>7, <2>1, <2>3, <2>5
<1>9. ASSUME NEW w \in Sockets, ReceiveClose(w) PROVE Quiet(s)
  <2>1. Receive(w) /\ Idle /\ toAgent' = toAgent  BY <1>9 DEF ReceiveClose, agent
  <2>2. PICK t \in Tokens, r \in Streams :
          Head(toServer[w]) = <<"close", t, r>> /\ DropStream(t, r)
    BY <1>9 DEF ReceiveClose
  <2>3. ~IsItem(Head(toServer[w]), s)  BY <2>2 DEF IsItem
  <2>4. TableQuiet(s)  BY <2>2, DropStreamQuiet
  <2>5. QED  BY <1>7, <2>1, <2>3, <2>4
<1>10. ASSUME NEW w \in Sockets, Detach(w) PROVE Quiet(s)
  <2>1. /\ Idle /\ toAgent' = toAgent /\ w \notin linked'
        /\ toServer' = [toServer EXCEPT ![w] = <<>>]
        /\ Drop({t \in Live : tunnels[t].ws = w})
    BY <1>10 DEF Detach, agent
  <2>2. toServer \in [Sockets -> Seq(ServerFrame)]  BY DEF Types, WireTypes
  <2>3. toServer[w] \in Seq(ServerFrame) /\ 0 \in 0..Len(toServer[w])
          /\ SubSeq(toServer[w], 1, 0) = <<>>
    BY <2>2
  <2>4. toServer' = [toServer EXCEPT ![w] = SubSeq(@, 1, 0)]  BY <2>1, <2>2, <2>3
  <2>5. ItemsQuiet(s)  BY <2>1, <2>3, <2>4, ItemsLost
  <2>6. TableQuiet(s)  BY <2>1, DropQuiet
  <2>7. QED  BY <1>1, <1>2, <2>1, <2>5, <2>6, HeadsSame DEF Quiet
<1>11. QED  BY <1>4, <1>5, <1>6, <1>8, <1>9, <1>10 DEF ConfirmStep

\* A frame other than the stream's own head, handed to the agent.
LEMMA SendsQuiet ==
    ASSUME Types, NEW s \in Streams, NEW t, NEW f \in AgentFrame, ~IsHead(f, s),
           SendFrame(t, f)
    PROVE  HeadsQuiet(s)
<1>1. linked \subseteq Sockets  BY DEF Types, WireTypes
<1>2. \/ toAgent' = toAgent
      \/ \E w \in Sockets : toAgent' = [toAgent EXCEPT ![w] = Append(@, f)]
  BY <1>1, SendTyped DEF Types
<1>3. QED  BY <1>2, HeadsGained, HeadsSame

LEMMA TellsQuiet ==
    ASSUME Types, NEW s \in Streams, NEW w \in Sockets, NEW f \in ServerFrame, ~IsItem(f, s),
           Tell(w, f)
    PROVE  ItemsQuiet(s)
<1>1. \/ toServer' = toServer
      \/ toServer' = [toServer EXCEPT ![w] = Append(@, f)]
  BY TellTyped DEF Types
<1>2. QED  BY <1>1, ItemsAppended, ItemsSame

\* A request's steps pass every other stream by, and those that end it or
\* bring it no chunk pass its own by too.
LEMMA RequestStepsQuiet ==
    ASSUME Types, SlotsOfRunning, NEW s \in Streams, NEW r \in Streams,
           \/ NextItem(r) \/ BodyEnds(r) \/ ClientGone(r) \/ PumpChunk(r) \/ PumpEnds(r)
           \/ \E who \in {"body", "pump"} : Pace(r, who)
           \/ r # s /\ \E t \in Tokens : Arrive(r, t)
           \/ SendHead(r) /\ ~(r = s /\ CanSend(req[r].t))
           \/ FirstItem(r) /\ ~(r = s /\ NextOf(r) = HeadItem)
           \/ BodySpends(r) /\ ~(r = s /\ out' # out)
    PROVE  Quiet(s)
<1> DEFINE Still == UNCHANGED <<linked, serving, toServer>>
           t == req[r].t
<1>1. t \in MaybeToken /\ req[r] \in Requests /\ req[s] \in Requests
  BY DEF Types, PublicTypes, Requests
<1>2. \A kind \in {"head", "data", "half", "close"} :
        <<kind, t, r>> \in AgentFrame /\ (kind # "head" \/ r # s => ~IsHead(<<kind, t, r>>, s))
  BY <1>1 DEF AgentFrame, IsHead
<1>3. ASSUME Still, TableQuiet(s), PhaseQuiet(s),
             \/ toAgent' = toAgent
             \/ \E kind \in {"data", "half", "close"} : SendFrame(t, <<kind, t, r>>)
             \/ r # s /\ SendFrame(t, <<"head", t, r>>)
      PROVE  Quiet(s)
  <2>1. HeadsQuiet(s)  BY <1>2, <1>3, SendsQuiet, HeadsSame
  <2>2. QED  BY <1>3, <2>1, ItemsSame DEF Quiet, ServeQuiet
<1>4. ASSUME NEW p, Goto(r, p)
      PROVE  /\ req'[s].t = req[s].t /\ (r # s => req'[s].pc = req[s].pc)
             /\ req'[r].pc = p
  BY <1>1, <1>4 DEF Goto, Types, PublicTypes, Requests
<1>5. ASSUME NEW p \in {"answered", "done"}, Goto(r, p), DropStream(t, r), out' = out,
             req[r].pc # "idle"
      PROVE  TableQuiet(s) /\ PhaseQuiet(s)
  <2>1. TableQuiet(s) /\ (r = s => ~InTable(s)')  BY <1>5, DropStreamQuiet
  <2>2. QED  BY <1>4, <1>5, <2>1 DEF PhaseQuiet
<1>6. ASSUME UNCHANGED <<tunnels, queue, req, out>> PROVE TableQuiet(s) /\ PhaseQuiet(s)
  BY <1>6, TableSame DEF PhaseQuiet, Live
<1>7. CASE NextItem(r)
  <2>1. /\ req[r].pc = "body" /\ Goto(r, "spend") /\ Still /\ UNCHANGED <<tunnels, queue, out, toAgent>>
    BY <1>7 DEF NextItem, table, wires, agent
  <2>2. TableQuiet(s)  BY <2>1, TableSame DEF Live
  <2>3. PhaseQuiet(s)  BY <1>4, <2>1 DEF PhaseQuiet
  <2>4. QED  BY <1>3, <2>1, <2>2, <2>3
<1>8. CASE BodyEnds(r)
  <2>1. /\ req[r].pc = "body" /\ Goto(r, "done") /\ DropStream(t, r) /\ out' = out /\ Still
        /\ SendFrame(t, <<"close", t, r>>)
    BY <1>8 DEF BodyEnds, Finish, agent
  <2>2. QED  BY <1>3, <1>5, <2>1
<1>9. CASE ClientGone(r)
  <2>1. Still /\ UNCHANGED <<toAgent, out>>  BY <1>9 DEF ClientGone, wires, agent
  <2>2. CASE Goto(r, "done") /\ DropStream(t, r)
    <3>1. req[r].pc # "idle"  BY <1>9 DEF ClientGone
    <3>2. QED  BY <1>3, <1>5, <2>1, <2>2, <3>1
  <2>3. CASE req[r].pc = "body" /\ Goto(r, "never") /\ UNCHANGED <<tunnels, queue>>
    <3>1. TableQuiet(s)  BY <2>3, TableSame DEF Live
    <3>2. PhaseQuiet(s)  BY <1>4, <2>1, <2>3 DEF PhaseQuiet
    <3>3. QED  BY <1>3, <2>1, <3>1, <3>2
  <2>4. QED  BY <1>9, <2>2, <2>3 DEF ClientGone
<1>10. CASE PumpChunk(r)
  <2>1. /\ Still /\ UNCHANGED <<tunnels, queue, req, out>>
        /\ toAgent' = toAgent \/ SendFrame(t, <<"data", t, r>>)
    BY <1>10 DEF PumpChunk, agent
  <2>2. QED  BY <1>3, <1>6, <2>1
<1>11. CASE PumpEnds(r)
  <2>1. Still /\ UNCHANGED <<tunnels, queue, req, out>> /\ SendFrame(t, <<"half", t, r>>)
    BY <1>11 DEF PumpEnds, table, agent
  <2>2. QED  BY <1>3, <1>6, <2>1
<1>12. CASE \E who \in {"body", "pump"} : Pace(r, who)
  <2>1. Still /\ UNCHANGED <<tunnels, queue, req, out, toAgent>>
    BY <1>12 DEF Pace, table, wires, agent
  <2>2. QED  BY <1>3, <1>6, <2>1
<1>13. ASSUME r # s, NEW u \in Tokens, Arrive(r, u) PROVE Quiet(s)
  <2> DEFINE admitted == /\ u \in Live \ old /\ SocketFor(u) # Nowhere
                         /\ Cardinality(tunnels[u].streams) < MaxStreams
  <2>1. /\ req' = [req EXCEPT ![r].pc = IF admitted THEN "head" ELSE "answered", ![r].t = u]
        /\ tunnels' = [x \in Live \ old |->
              IF x = u /\ admitted THEN [tunnels[x] EXCEPT !.streams = @ \cup {r}] ELSE tunnels[x]]
        /\ queue' = Seal(queue, StreamsOf(old)) /\ Still /\ UNCHANGED <<toAgent, out>>
    BY <1>13 DEF Arrive, wires, agent
  <2> HIDE DEF admitted
  <2>2. req'[s] = req[s]  BY <1>13, <2>1 DEF Types, PublicTypes
  <2>3. \A x \in Live' : s \in tunnels'[x].streams => x \in Live \ old /\ s \in tunnels[x].streams
    BY <1>13, <2>1 DEF Live, Types, TableTypes, Records
  <2>4. TableQuiet(s)  BY <2>1, <2>3, SealsQuiet
  <2>5. PhaseQuiet(s)  BY <2>1, <2>2 DEF PhaseQuiet
  <2>6. QED  BY <1>3, <2>1, <2>4, <2>5
<1>14. CASE SendHead(r) /\ ~(r = s /\ CanSend(req[r].t))
  <2>1. Still /\ out' = out /\ req[r].pc = "head"  BY <1>14 DEF SendHead, agent
  <2>2. CASE CanSend(t)
    <3>1. Goto(r, "first") /\ UNCHANGED <<tunnels, queue>> /\ SendFrame(t, <<"head", t, r>>) /\ r # s
      BY <1>14, <2>2 DEF SendHead
    <3>2. TableQuiet(s)  BY <3>1, TableSame DEF Live
    <3>3. PhaseQuiet(s)  BY <1>4, <2>1, <3>1 DEF PhaseQuiet
    <3>4. QED  BY <1>3, <2>1, <3>1, <3>2, <3>3
  <2>3. CASE ~CanSend(t)
    <3>1. Goto(r, "answered") /\ DropStream(t, r) /\ toAgent' = toAgent
      BY <1>14, <2>3 DEF SendHead
    <3>2. QED  BY <1>3, <1>5, <2>1, <3>1
  <2>4. QED  BY <2>2, <2>3
<1>15. CASE FirstItem(r) /\ ~(r = s /\ NextOf(r) = HeadItem)
  <2>1. Still /\ UNCHANGED <<toAgent, out>> /\ req[r].pc = "first"
    BY <1>15 DEF FirstItem, wires, agent
  <2>2. CASE NextOf(r) = HeadItem
    <3>1. Goto(r, "body") /\ tunnels' = tunnels /\ queue' = [queue EXCEPT ![r] = Tail(@)] /\ r # s
      BY <1>15, <2>2 DEF FirstItem
    <3>2. queue'[s] = queue[s]  BY <3>1 DEF Types, QueueTypes
    <3>3. TableQuiet(s)  BY <3>1, <3>2, TableSame DEF Live
    <3>4. PhaseQuiet(s)  BY <1>4, <2>1, <3>1 DEF PhaseQuiet
    <3>5. QED  BY <1>3, <2>1, <3>3, <3>4
  <2>3. CASE NextOf(r) # HeadItem
    <3>1. Goto(r, "answered") /\ DropStream(t, r)  BY <1>15, <2>3 DEF FirstItem
    <3>2. QED  BY <1>3, <1>5, <2>1, <3>1
  <2>4. QED  BY <2>2, <2>3
<1>16. CASE BodySpends(r) /\ ~(r = s /\ out' # out)
  <2>1. Still /\ req[r].pc = "spend"  BY <1>16 DEF BodySpends, agent
  <2>2. CASE /\ Goto(r, "done") /\ DropStream(t, r) /\ SendFrame(t, <<"close", t, r>>) /\ out' = out
    BY <1>3, <1>5, <2>1, <2>2
  <2>3. CASE /\ out' = [out EXCEPT ![r] = Append(@, Head(queue[r]))]
             /\ queue' = [queue EXCEPT ![r] = Tail(@)] /\ Goto(r, "body")
             /\ UNCHANGED <<tunnels, toAgent>>
    <3>1. r # s
      <4>1. out[r] \in Seq(Items)  BY DEF Types, PublicTypes
      <4>2. Len(Append(out[r], Head(queue[r]))) = Len(out[r]) + 1 /\ Len(out[r]) \in Nat
        BY <4>1
      <4>3. out'[r] # out[r]  BY <2>3, <4>2 DEF Types, PublicTypes
      <4>4. QED  BY <1>16, <4>3
    <3>2. queue'[s] = queue[s] /\ out'[s] = out[s]
      BY <2>3, <3>1 DEF Types, QueueTypes, PublicTypes
    <3>3. TableQuiet(s)  BY <2>3, <3>2, TableSame DEF Live
    <3>4. PhaseQuiet(s)  BY <1>4, <2>3, <3>1, <3>2 DEF PhaseQuiet
    <3>5. QED  BY <1>3, <2>1, <2>3, <3>3, <3>4
  <2>4. QED  BY <1>16, <2>2, <2>3 DEF BodySpends, Finish
<1>17. QED
  BY <1>7, <1>8, <1>9, <1>10, <1>11, <1>12, <1>13, <1>14, <1>15, <1>16

\* The agent's steps pass by every stream but the one they serve an answer to.
LEMMA AgentStepsQuiet ==
    ASSUME Types, NEW s \in Streams,
           \/ \E w \in Sockets : \/ AgentOpens(w) \/ AgentBody(w) \/ AgentCloses(w)
                                 \/ AgentLeaves(w)
                                 \/ AgentHead(w) /\ serving'[s] = serving[s]
           \/ \E r \in Streams : ForwardBody(r)
           \/ \E w \in Sockets, r \in Streams, step \in {"dial", "head", "data", "end"} :
                Serve(r, w, step) /\ ~(r = s /\ step # "end")
    PROVE  Quiet(s)
<1> DEFINE Still == UNCHANGED <<tunnels, queue, req, out>>
<1>1. ASSUME Still, HeadsQuiet(s), ItemsQuiet(s), ServeQuiet(s) PROVE Quiet(s)
  <2>1. TableQuiet(s)  BY <1>1, TableSame DEF Live
  <2>2. PhaseQuiet(s)  BY <1>1 DEF PhaseQuiet
  <2>3. QED  BY <1>1, <2>1, <2>2 DEF Quiet
<1>2. linked' = linked /\ serving'[s] \in {serving[s], Nowhere} => ServeQuiet(s)
  BY DEF ServeQuiet
<1>3. ASSUME NEW r \in Streams, Forget(r) PROVE serving'[s] \in {serving[s], Nowhere}
  BY <1>3 DEF Forget, Types, AgentTypes
<1>4. ASSUME NEW w \in Sockets, At(w) PROVE Frame(w) \in AgentFrame
  <2>1. toAgent[w] \in Seq(AgentFrame) /\ toAgent[w] # <<>>  BY <1>4 DEF At, Types, WireTypes
  <2>2. QED  BY <2>1 DEF Frame
<1>5. ASSUME NEW w \in Sockets, AgentOpens(w) PROVE Quiet(s)
  <2>1. At(w) /\ Consumed(w) /\ Still /\ linked' = linked /\ serving' = serving /\ Frame(w)[1] = "open"
    BY <1>5 DEF AgentOpens, table, public
  <2>2. PICK ok \in BOOLEAN : Tell(w, <<"ack", Frame(w)[2], ok>>)  BY <1>5 DEF AgentOpens
  <2>3. Frame(w)[2] \in Tokens  BY <1>4, <2>1 DEF AgentFrame
  <2>4. <<"ack", Frame(w)[2], ok>> \in ServerFrame /\ ~IsItem(<<"ack", Frame(w)[2], ok>>, s)
    BY <2>3 DEF ServerFrame, IsItem
  <2>5. QED  BY <1>1, <1>2, <2>1, <2>2, <2>4, TellsQuiet, HeadsTaken
<1>6. ASSUME NEW w \in Sockets, AgentBody(w) \/ AgentCloses(w) PROVE Quiet(s)
  <2>1. At(w) /\ Consumed(w) /\ Still /\ linked' = linked /\ Frame(w)[1] \in {"data", "half", "close"}
    BY <1>6 DEF AgentBody, AgentCloses, table, public
  <2>2. Frame(w)[2] \in MaybeToken /\ Frame(w)[3] \in Streams  BY <1>4, <2>1 DEF AgentFrame
  <2> DEFINE f == <<"close", Frame(w)[2], Frame(w)[3]>>
  <2>3. f \in ServerFrame /\ ~IsItem(f, s)  BY <2>2 DEF ServerFrame, IsItem
  <2>4. \/ Forget(Frame(w)[3]) /\ Tell(w, f)
        \/ serving' = serving /\ toServer' = toServer
    BY <1>6 DEF AgentBody, AgentCloses, CloseStream
  <2>5. serving'[s] \in {serving[s], Nowhere}  BY <1>3, <2>2, <2>4
  <2>6. ItemsQuiet(s)  BY <2>3, <2>4, TellsQuiet, ItemsSame
  <2>7. QED  BY <1>1, <1>2, <2>1, <2>5, <2>6, HeadsTaken
<1>7. ASSUME NEW w \in Sockets, AgentHead(w), serving'[s] = serving[s] PROVE Quiet(s)
  <2>1. At(w) /\ Consumed(w) /\ Still /\ UNCHANGED <<linked, toServer>>
    BY <1>7 DEF AgentHead, table, public
  <2>2. QED  BY <1>1, <1>2, <1>7, <2>1, HeadsTaken, ItemsSame
<1>8. ASSUME NEW w \in Sockets, AgentLeaves(w) PROVE Quiet(s)
  <2>1. /\ Still /\ linked' = linked \ {w} /\ toAgent' = [toAgent EXCEPT ![w] = <<>>]
        /\ serving'[s] = IF ServedBy(s, w) THEN Nowhere ELSE serving[s]
    BY <1>8 DEF AgentLeaves, table, public
  <2>2. PICK n \in 0..Len(toServer[w]) : toServer' = [toServer EXCEPT ![w] = SubSeq(@, 1, n)]
    BY <1>8 DEF AgentLeaves
  <2>3. ItemsQuiet(s)  BY <2>1, <2>2, ItemsLost
  <2>4. HeadsQuiet(s)  BY <2>1, HeadsSame
  <2>5. ServeQuiet(s)  BY <2>1 DEF ServeQuiet, ServedBy
  <2>6. QED  BY <1>1, <2>1, <2>3, <2>4, <2>5
<1>9. ASSUME NEW r \in Streams, ForwardBody(r) PROVE Quiet(s)
  <2>1. Still /\ UNCHANGED <<linked, toAgent, toServer, serving>>
    BY <1>9 DEF ForwardBody, table, wires, public
  <2>2. QED  BY <1>1, <1>2, <2>1, HeadsSame, ItemsSame
<1>10. ASSUME NEW w \in Sockets, NEW r \in Streams, NEW step \in {"dial", "head", "data", "end"},
              Serve(r, w, step), ~(r = s /\ step # "end")
       PROVE  Quiet(s)
  <2>1. Still /\ UNCHANGED <<linked, toAgent>> /\ serving[r] # Nowhere
    BY <1>10 DEF Serve, ServedBy, table, public
  <2>2. req[r].t \in MaybeToken /\ req[r].size \in 0..Chunks /\ serving[r].sent \in 0..Chunks
    BY <2>1 DEF Types, PublicTypes, AgentTypes, Requests, Tasks
  <2>3. <<"close", req[r].t, r>> \in ServerFrame /\ ~IsItem(<<"close", req[r].t, r>>, s)
    BY <2>2 DEF ServerFrame, IsItem
  <2>4. CASE step = "end"
    <3>1. Forget(r) /\ (Tell(w, <<"close", req[r].t, r>>) \/ toServer' = toServer)
      BY <1>10, <2>4 DEF Serve
    <3>2. ItemsQuiet(s)  BY <2>3, <3>1, TellsQuiet, ItemsSame
    <3>3. QED  BY <1>1, <1>2, <1>3, <2>1, <3>1, <3>2, HeadsSame
  <2>5. CASE step # "end"
    <3>1. r # s  BY <1>10, <2>5
    <3>2. serving'[s] = serving[s]
      BY <1>10, <2>5, <3>1 DEF Serve, Types, AgentTypes
    <3>3. \/ toServer' = toServer
          \/ Tell(w, <<"item", req[r].t, r, HeadItem>>)
          \/ serving[r].sent < req[r].size /\ Tell(w, <<"item", req[r].t, r, serving[r].sent + 1>>)
      BY <1>10, <2>5 DEF Serve
    <3>4. \A n \in Items : <<"item", req[r].t, r, n>> \in ServerFrame
                             /\ ~IsItem(<<"item", req[r].t, r, n>>, s)
      BY <2>2, <3>1 DEF ServerFrame, IsItem
    <3>5. serving[r].sent < req[r].size => serving[r].sent + 1 \in Items
      BY <2>2, Caps DEF Items, Closed
    <3>6. ItemsQuiet(s)  BY <3>3, <3>4, <3>5, TellsQuiet, ItemsSame, Caps
    <3>7. QED  BY <1>1, <1>2, <2>1, <3>2, <3>6, HeadsSame
  <2>6. QED  BY <2>4, <2>5
<1>11. QED  BY <1>5, <1>6, <1>7, <1>8, <1>9, <1>10
-----------------------------------------------------------------------------
(* Streams: the steps that bring an answer closer *)

LEMMA ArriveKeeps ==
    ASSUME Types, SlotsOfRunning, NEW s \in Streams, StreamInv(s),
           NEW t \in Tokens, Arrive(s, t)
    PROVE  StreamInv(s)'
<1> USE DEF StreamInv
<1>1. /\ req[s].pc = "idle" /\ UNCHANGED <<linked, toAgent, toServer, serving, out>>
      /\ \E p \in {"head", "answered"} : req' = [req EXCEPT ![s].pc = p, ![s].t = t]
      /\ queue' = Seal(queue, StreamsOf(old))
  BY DEF Arrive, wires, agent
<1>2. req'[s].pc \in {"head", "answered"}  BY <1>1 DEF Types, PublicTypes, Requests
<1>3. Untouched(s) /\ NoHead(s) /\ queue[s] = <<>> /\ out[s] = <<>>
  BY <1>1 DEF HeadOnce, NoHead, QueueDue
<1>4. s \notin StreamsOf(old)
  BY <1>1 DEF StreamsOf, SlotsOfRunning
<1>5. queue'[s] = <<>>  BY <1>1, <1>3, <1>4 DEF Seal
<1>6. \A w, i : (ItemAt(w, i, s)' <=> ItemAt(w, i, s)) /\ (HeadAt(w, i, s)' <=> HeadAt(w, i, s))
  BY <1>1 DEF ItemAt, HeadAt
<1>7. Untouched(s)' /\ NoHead(s)' /\ serving'[s] = Nowhere
  BY <1>1, <1>3, <1>6 DEF Untouched, NoHead
<1>8. HeadOnce(s)'  BY <1>7 DEF HeadOnce, NoHead
<1>9. InOrder(s)' /\ OnLinked(s)'  BY <1>7 DEF InOrder, OnLinked, Untouched
<1>10. NoGap(s)'  BY <1>7 DEF NoGap, Untouched
<1>11. QueueDue(s)'
  <2>1. Len(queue'[s]) = 0  BY <1>5
  <2>2. QED  BY <1>1, <1>2, <1>3, <1>5, <2>1 DEF QueueDue
<1>12. QED  BY <1>8, <1>9, <1>10, <1>11

LEMMA SendHeadKeeps ==
    ASSUME Types, NEW s \in Streams, StreamInv(s), SendHead(s), CanSend(req[s].t)
    PROVE  StreamInv(s)'
<1> USE DEF StreamInv
<1> DEFINE f == <<"head", req[s].t, s>>
<1>1. /\ req[s].pc = "head" /\ Goto(s, "first") /\ SendFrame(req[s].t, f)
      /\ UNCHANGED <<tunnels, queue, linked, toServer, serving, out>>
  BY DEF SendHead, agent
<1>2. req'[s].pc = "first" /\ req'[s].t = req[s].t /\ req[s].t \in MaybeToken
  BY <1>1 DEF Goto, Types, PublicTypes, Requests
<1>3. Untouched(s) /\ NoHead(s) /\ out[s] = <<>> /\ (InTable(s) => queue[s] = <<>>)
  BY <1>1 DEF HeadOnce, NoHead, QueueDue
<1>4. f \in AgentFrame  BY <1>2 DEF AgentFrame
<1>5. \A w \in Sockets : \A v \in Sockets : \A i, j \in Nat :
        HeadAt(w, i, s)' /\ HeadAt(v, j, s)' => v = w /\ j = i
  <2>1. CASE toAgent' = toAgent  BY <1>3, <2>1 DEF NoHead, HeadAt
  <2>2. ASSUME NEW u \in linked, toAgent' = [toAgent EXCEPT ![u] = Append(@, f)]
        PROVE  \A w \in Sockets : \A i \in Nat :
                 HeadAt(w, i, s)' => w = u /\ i = Len(toAgent[u]) + 1
    <3>1. u \in Sockets /\ toAgent \in [Sockets -> Seq(AgentFrame)]  BY DEF Types, WireTypes
    <3>2. /\ \A v \in Sockets : v # u => toAgent'[v] = toAgent[v]
          /\ Len(toAgent'[u]) = Len(toAgent[u]) + 1 /\ Len(toAgent[u]) \in Nat
          /\ \A i \in 1..Len(toAgent[u]) : toAgent'[u][i] = toAgent[u][i]
      BY <1>4, <2>2, <3>1, ChannelGains
    <3>3. SUFFICES ASSUME NEW w \in Sockets, NEW i \in Nat, HeadAt(w, i, s)'
                   PROVE  w = u /\ i = Len(toAgent[u]) + 1
      OBVIOUS
    <3>4. w = u  BY <1>3, <3>2, <3>3 DEF NoHead, HeadAt
    <3>5. i \in 1..Len(toAgent[u]) \/ i = Len(toAgent[u]) + 1
      BY <3>2, <3>3, <3>4 DEF HeadAt
    <3>6. i \notin 1..Len(toAgent[u])  BY <1>3, <3>1, <3>2, <3>3, <3>4 DEF NoHead, HeadAt
    <3>7. QED  BY <3>4, <3>5, <3>6
  <2>3. QED
    <3>1. CASE \E u \in linked : toAgent' = [toAgent EXCEPT ![u] = Append(@, f)]
      BY <2>2, <3>1
    <3>2. QED  BY <1>1, <1>4, <2>1, <3>1, SendTyped DEF Types
<1>6. \A w, i : ItemAt(w, i, s)' <=> ItemAt(w, i, s)  BY <1>1 DEF ItemAt
<1>7. Untouched(s)' /\ serving'[s] = Nowhere  BY <1>1, <1>3, <1>6 DEF Untouched
<1>8. HeadOnce(s)'  BY <1>2, <1>5, <1>7 DEF HeadOnce
<1>9. InOrder(s)' /\ OnLinked(s)'  BY <1>7 DEF InOrder, OnLinked, Untouched
<1>10. InTable(s)' <=> InTable(s)  BY <1>1 DEF InTable, Live
<1>11. InTable(s)' => NextDue(s)' = 0
  <2>1. queue[s] = <<>> => Len(queue'[s]) = 0  BY <1>1
  <2>2. QED  BY <1>1, <1>2, <1>3, <1>10, <2>1 DEF NextDue, Due
<1>12. NoGap(s)'  BY <1>7, <1>11 DEF NoGap, Untouched
<1>13. Due(s)' = Due(s)  BY <1>1, <1>2 DEF Due
<1>14. QueueDue(s)'  BY <1>1, <1>2, <1>3, <1>13 DEF QueueDue
<1>15. QED  BY <1>8, <1>9, <1>12, <1>14

\* A reader takes what it is due from the front of its queue.
LEMMA ReadKeeps ==
    ASSUME Types, NEW s \in Streams, StreamInv(s),
           UNCHANGED <<tunnels, linked, serving, toServer>>, HeadsQuiet(s),
           queue[s] # <<>>, queue' = [queue EXCEPT ![s] = Tail(@)], Goto(s, "body"),
           \/ req[s].pc = "first" /\ out' = out
           \/ req[s].pc = "spend" /\ out' = [out EXCEPT ![s] = Append(@, Head(queue[s]))]
    PROVE  StreamInv(s)'
<1> USE DEF StreamInv
<1>1. req'[s].pc = "body" /\ req'[s].t = req[s].t  BY DEF Goto, Types, PublicTypes, Requests
<1>2. queue[s] \in Seq(Items) /\ out[s] \in Seq(Items)  BY DEF Types, QueueTypes, PublicTypes
<1>3. /\ queue'[s] = Tail(queue[s]) /\ Len(queue'[s]) = Len(queue[s]) - 1
      /\ Len(queue[s]) \in Nat \ {0} /\ \A i \in 1..Len(queue'[s]) : queue'[s][i] = queue[s][i + 1]
  BY <1>2 DEF Types, QueueTypes
<1>4. Due(s)' = Due(s) + 1 /\ Due(s) \in Nat
  <2>1. CASE req[s].pc = "first" /\ out' = out
    BY <1>1, <1>2, <2>1 DEF Due, QueueDue
  <2>2. CASE req[s].pc = "spend" /\ out' = [out EXCEPT ![s] = Append(@, Head(queue[s]))]
    <3>1. Len(out'[s]) = Len(out[s]) + 1 /\ Len(out[s]) \in Nat
      BY <1>2, <2>2 DEF Types, PublicTypes
    <3>2. QED  BY <1>1, <2>2, <3>1 DEF Due
  <2>3. QED  BY <2>1, <2>2
<1>5. NextDue(s)' = NextDue(s) /\ NextDue(s) > 0
  <2>1. NextDue(s)' = Due(s)' + Len(queue'[s]) /\ NextDue(s) = Due(s) + Len(queue[s])
    BY DEF NextDue
  <2>2. \A d, n \in Nat : n > 0 => (d + 1) + (n - 1) = d + n /\ d + n > 0  OBVIOUS
  <2>3. QED  BY <1>3, <1>4, <2>1, <2>2
<1>6. InTable(s)' <=> InTable(s)  BY DEF InTable, Live
<1>7. \A w, i : ItemAt(w, i, s)' <=> ItemAt(w, i, s)  BY DEF ItemAt
<1>8. InOrder(s)' /\ OnLinked(s)'
  BY <1>1, <1>7 DEF InOrder, OnLinked
<1>9. Untouched(s) => Untouched(s)'  BY <1>7 DEF Untouched
<1>10. HeadOnce(s)'
  <2>1. ~NoHead(s) => Untouched(s)  BY DEF HeadOnce, NoHead
  <2>2. QED  BY <1>1, <1>9, <2>1, HeadsStay DEF HeadOnce
<1>11. NoGap(s)'
  <2>1. SUFFICES ASSUME InTable(s)'
                 PROVE  /\ \A w \in Sockets : \A i \in Nat : ItemAt(w, i, s)' => Follows(s, w, i)'
                        /\ serving'[s] # Nowhere => NextIs(s)'
                        /\ ~NoHead(s)' => NextDue(s)' = 0
    BY DEF NoGap
  <2>2. \A w, i : Follows(s, w, i) => Follows(s, w, i)'  BY <1>5, <1>7 DEF Follows
  <2>3. NextIs(s) => NextIs(s)'  BY <1>5, <1>7 DEF NextIs
  <2>4. NoHead(s)  BY <1>5, <1>6, <2>1 DEF NoGap
  <2>5. NoHead(s)'  BY <2>4, HeadsStay
  <2>6. QED  BY <1>6, <1>7, <2>1, <2>2, <2>3, <2>5 DEF NoGap
<1>12. QueueDue(s)'
  <2>1. ASSUME NEW i \in 1..Len(queue'[s]) PROVE queue'[s][i] \in {Closed, Due(s)' + i - 1}
    <3>1. i + 1 \in 1..Len(queue[s])  BY <1>3
    <3>2. queue[s][i + 1] \in {Closed, Due(s) + (i + 1) - 1}  BY <3>1 DEF QueueDue
    <3>3. Due(s) + (i + 1) - 1 = Due(s)' + i - 1  BY <1>4
    <3>4. QED  BY <1>3, <3>2, <3>3
  <2>2. QED  BY <1>1, <2>1 DEF QueueDue
<1>13. QED  BY <1>8, <1>10, <1>11, <1>12

\* A head frame read starts the stream's task, if its tunnel is claimed.
LEMMA AgentHeadKeeps ==
    ASSUME Types, NEW s \in Streams, StreamInv(s),
           NEW w \in Sockets, AgentHead(w), serving'[s] # serving[s]
    PROVE  StreamInv(s)'
<1> USE DEF StreamInv
<1>1. /\ At(w) /\ Consumed(w) /\ w \in linked
      /\ UNCHANGED <<tunnels, queue, req, out, linked, toServer>>
  BY DEF AgentHead, At, table, public
<1>2. Frame(w)[1] = "head" /\ Frame(w)[3] = s /\ serving[s] = Nowhere /\ serving'[s] = At0(w)
  BY DEF AgentHead, Types, AgentTypes
<1>3. HeadAt(w, 1, s)  BY <1>1, <1>2, HeadsTaken DEF IsHead
<1>4. Untouched(s) /\ ~NoHead(s)  BY <1>3 DEF HeadOnce, NoHead
<1>5. NoHead(s)'
  <2>1. ASSUME NEW v \in Sockets, NEW i \in Nat, HeadAt(v, i, s)' PROVE FALSE
    <3>1. i > 0  BY <2>1 DEF HeadAt
    <3>2. CASE v = w
      <4>1. HeadAt(w, i + 1, s)  BY <1>1, <2>1, <3>2, HeadsTaken
      <4>2. i + 1 = 1  BY <1>3, <4>1 DEF HeadOnce
      <4>3. QED  BY <3>1, <4>2
    <3>3. CASE v # w
      <4>1. HeadAt(v, i, s)  BY <1>1, <2>1, <3>3, HeadsTaken
      <4>2. QED  BY <1>3, <3>3, <4>1 DEF HeadOnce
    <3>4. QED  BY <3>2, <3>3
  <2>2. QED  BY <2>1 DEF NoHead
<1>6. \A v, i : ItemAt(v, i, s)' <=> ItemAt(v, i, s)  BY <1>1 DEF ItemAt
<1>7. \A v \in Sockets : \A i \in Nat : ~ItemAt(v, i, s)'  BY <1>4, <1>6 DEF Untouched
<1>8. HeadOnce(s)'
  <2>1. req[s].pc \notin {"idle", "head"}  BY <1>4 DEF HeadOnce, NoHead
  <2>2. QED  BY <1>1, <1>5, <2>1 DEF HeadOnce, NoHead
<1>9. InOrder(s)'  BY <1>7 DEF InOrder
<1>10. serving'[s].at = "dial" /\ serving'[s].w = w /\ serving'[s].sent = 0
  BY <1>2 DEF At0
<1>11. OnLinked(s)'  BY <1>1, <1>10 DEF OnLinked
<1>12. /\ InTable(s)' <=> InTable(s)
       /\ NextDue(s)' = NextDue(s) /\ Due(s)' = Due(s)
  BY <1>1 DEF InTable, Live, NextDue, Due
<1>13. NoGap(s)'
  BY <1>4, <1>5, <1>7, <1>10, <1>12 DEF NoGap, NextIs
<1>14. QueueDue(s)'  BY <1>1, <1>12 DEF QueueDue
<1>15. QED  BY <1>8, <1>9, <1>11, <1>13, <1>14

\* The stream's task answers: the head first, then the chunks by number.
LEMMA ServeKeeps ==
    ASSUME Types, NEW s \in Streams, StreamInv(s),
           NEW w \in Sockets, NEW step \in {"dial", "head", "data"}, Serve(s, w, step)
    PROVE  StreamInv(s)'
<1> USE DEF StreamInv
<1> DEFINE n == serving[s].sent
           u == IF step = "head" THEN HeadItem ELSE n + 1
           f == <<"item", req[s].t, s, u>>
<1>1. /\ serving[s] # Nowhere /\ serving[s].w = w /\ serving[s] \in Tasks /\ w \in linked
      /\ UNCHANGED <<tunnels, queue, req, out, linked, toAgent>>
  BY DEF Serve, ServedBy, OnLinked, Types, AgentTypes, table, public
<1>2. n \in 0..Chunks /\ req[s].t \in MaybeToken /\ req[s].size \in 0..Chunks
  BY <1>1 DEF Tasks, Types, PublicTypes, Requests
<1>3. NoHead(s) /\ ~Untouched(s) /\ req[s].pc \notin {"idle", "head"}
  BY <1>1 DEF HeadOnce, NoHead, Untouched
<1>4. NoHead(s)'
  <2>1. \A v, i : HeadAt(v, i, s)' <=> HeadAt(v, i, s)  BY <1>1 DEF HeadAt
  <2>2. QED  BY <1>3, <2>1 DEF NoHead
<1>5. HeadOnce(s)'  BY <1>1, <1>3, <1>4 DEF HeadOnce, NoHead
<1>6. /\ InTable(s)' <=> InTable(s)
      /\ NextDue(s)' = NextDue(s) /\ Due(s)' = Due(s)
  BY <1>1 DEF InTable, Live, NextDue, Due
<1>7. QueueDue(s)'  BY <1>1, <1>6 DEF QueueDue
<1>8. CASE step = "dial"
  <2>1. serving[s].at = "dial" /\ serving' = [serving EXCEPT ![s].at = "head"] /\ toServer' = toServer
    BY <1>8 DEF Serve
  <2>2. serving'[s].at = "head" /\ serving'[s].w = w /\ serving'[s].sent = n
    BY <1>1, <2>1 DEF Types, AgentTypes, Tasks
  <2>3. \A v, i : ItemAt(v, i, s)' <=> ItemAt(v, i, s)  BY <2>1 DEF ItemAt
  <2>4. \A v \in Sockets : \A i \in Nat : ~ItemAt(v, i, s)
    BY <1>1, <2>1 DEF InOrder
  <2>5. InOrder(s)'  BY <2>3, <2>4 DEF InOrder
  <2>6. OnLinked(s)'  BY <1>1, <2>1, <2>2 DEF OnLinked
  <2>7. NoGap(s)'
    BY <1>1, <1>4, <1>6, <2>1, <2>2, <2>3, <2>4 DEF NoGap, NextIs
  <2>8. QED  BY <1>5, <1>7, <2>5, <2>6, <2>7
<1>9. CASE step # "dial"
  <2>1. /\ step = "head" => /\ serving[s].at = "head"
                            /\ serving' = [serving EXCEPT ![s].at = "data"]
        /\ step = "data" => /\ serving[s].at = "data" /\ n < req[s].size
                            /\ serving' = [serving EXCEPT ![s].sent = n + 1]
        /\ Tell(w, f)
    BY <1>9 DEF Serve
  <2>2. serving'[s].at = "data" /\ serving'[s].w = w /\ serving'[s].sent = u
    <3>1. step = "head" => n = 0  BY <1>1, <2>1 DEF OnLinked
    <3>2. CASE step = "head"
      BY <1>1, <2>1, <3>1, <3>2 DEF Types, AgentTypes, Tasks, HeadItem
    <3>3. CASE step = "data"
      BY <1>1, <2>1, <3>3 DEF Types, AgentTypes, Tasks
    <3>4. QED  BY <1>9, <3>2, <3>3
  <2>3. u \in Items
    <3>1. step = "data" => n + 1 \in Items  BY <1>2, <2>1, Caps DEF Items, Closed
    <3>2. QED  BY <1>9, <3>1, Caps
  <2>4. f \in ServerFrame /\ IsItem(f, s)  BY <1>2, <2>3 DEF ServerFrame, IsItem
  <2>5. f[2] = req[s].t /\ f[4] = u  OBVIOUS
  <2> HIDE DEF u, f
  <2>6. toServer \in [Sockets -> Seq(ServerFrame)] /\ w \in attached  BY <1>1 DEF Types, WireTypes
  <2>7. toServer' = [toServer EXCEPT ![w] = Append(@, f)]  BY <2>1, <2>6 DEF Tell
  <2>7a. PICK last \in Nat : last = Len(toServer[w]) + 1
    <3>1. Len(toServer[w]) \in Nat  BY <2>6
    <3>2. QED  BY <3>1
  <2>8. /\ \A v \in Sockets : v # w => toServer'[v] = toServer[v]
        /\ Len(toServer'[w]) = Len(toServer[w]) + 1 /\ toServer'[w][last] = f
        /\ \A i \in 1..Len(toServer[w]) : toServer'[w][i] = toServer[w][i]
        /\ Len(toServer[w]) \in Nat
    BY <2>4, <2>6, <2>7, <2>7a, ChannelGains
  <2>9. ItemAt(w, last, s)' /\ ~ItemAt(w, last, s)
    BY <2>4, <2>8, <2>7a DEF ItemAt
  <2>10. ASSUME NEW v \in Sockets, NEW i \in Nat
         PROVE  /\ ItemAt(v, i, s)' => ItemAt(v, i, s) \/ (v = w /\ i = last)
                /\ ItemAt(v, i, s) => /\ ItemAt(v, i, s)' /\ toServer'[v][i] = toServer[v][i]
                                      /\ v = w /\ i < last
    <3>1. CASE v # w
      <4>1. ~ItemAt(v, i, s)  BY <1>1, <3>1 DEF InOrder
      <4>2. QED  BY <2>8, <3>1, <4>1 DEF ItemAt
    <3>2. CASE v = w
      <4>1. i \in 1..Len(toServer'[w]) => i \in 1..Len(toServer[w]) \/ i = last  BY <2>8, <2>7a
      <4>2. i \in 1..Len(toServer[w]) => i \in 1..Len(toServer'[w]) /\ i < last  BY <2>8, <2>7a
      <4>3. QED  BY <2>8, <3>2, <4>1, <4>2 DEF ItemAt
    <3>3. QED  BY <3>1, <3>2
  <2>11. ASSUME NEW i \in Nat, ItemAt(w, i, s)
         PROVE  step = "data" /\ toServer[w][i][4] \in Nat /\ toServer[w][i][4] < u
    <3>1. serving[s].at = "data" /\ toServer[w][i][4] <= n  BY <1>1, <2>11 DEF InOrder
    <3>2. step = "data"  BY <1>9, <2>1, <3>1
    <3>3. u = n + 1  BY <3>2 DEF u
    <3>4. toServer[w][i] \in ServerFrame /\ toServer[w][i][1] = "item"
      BY <2>6, <2>11 DEF ItemAt, IsItem
    <3>5. toServer[w][i][4] \in Nat  BY <3>4, Caps DEF ServerFrame
    <3>6. QED  BY <1>2, <3>1, <3>2, <3>3, <3>5
  <2>12. InOrder(s)'
    <3>1. SUFFICES ASSUME NEW v \in Sockets, NEW i \in Nat, ItemAt(v, i, s)'
                   PROVE  /\ toServer'[v][i][2] = req'[s].t /\ v = w
                          /\ toServer'[v][i][4] <= u
                          /\ \A y \in Sockets : \A j \in Nat : ItemAt(y, j, s)' =>
                               y = v /\ (i < j => toServer'[v][i][4] < toServer'[v][j][4])
      BY <2>2 DEF InOrder
    <3>2. v = w  BY <2>10, <3>1
    <3>3. ItemAt(w, i, s) \/ i = last  BY <2>10, <3>1, <3>2
    <3>4. toServer'[w][i][2] = req'[s].t /\ toServer'[w][i][4] <= u
      <4>1. CASE i = last  BY <1>1, <2>3, <2>5, <2>8, <4>1, Caps
      <4>2. CASE ItemAt(w, i, s)
        <5>1. toServer'[w][i] = toServer[w][i]  BY <1>1, <2>10, <4>2
        <5>2. toServer[w][i][2] = req[s].t  BY <1>1, <3>2, <4>2 DEF InOrder
        <5>3. toServer[w][i][4] \in Nat /\ toServer[w][i][4] < u /\ u \in Nat
          BY <2>3, <2>11, <4>2, Caps
        <5>4. QED  BY <1>1, <5>1, <5>2, <5>3
      <4>3. QED  BY <3>3, <4>1, <4>2
    <3>5. ASSUME NEW y \in Sockets, NEW j \in Nat, ItemAt(y, j, s)'
          PROVE  y = w /\ (i < j => toServer'[w][i][4] < toServer'[w][j][4])
      <4>1. y = w  BY <2>10, <3>5
      <4>2. ItemAt(w, j, s) \/ j = last  BY <2>10, <3>5, <4>1
      <4>3. CASE ItemAt(w, j, s) /\ ItemAt(w, i, s)
        BY <1>1, <2>10, <3>2, <4>1, <4>3 DEF InOrder
      <4>4. CASE j = last /\ ItemAt(w, i, s)
        <5>1. toServer'[w][i][4] < u /\ toServer'[w][j][4] = u
          BY <2>5, <2>8, <2>10, <2>11, <3>2, <4>4
        <5>2. QED  BY <4>1, <5>1
      <4>5. CASE i = last
        <5>1. j <= last  BY <2>9, <2>10, <4>1, <4>2
        <5>2. QED  BY <2>9, <4>1, <4>5, <5>1
      <4>6. QED  BY <3>3, <4>2, <4>3, <4>4, <4>5
    <3>6. QED  BY <3>2, <3>4, <3>5
  <2>13. OnLinked(s)'  BY <1>1, <2>2 DEF OnLinked
  <2>14. NoGap(s)'
    <3>1. SUFFICES ASSUME InTable(s)'
                   PROVE  /\ \A v \in Sockets : \A i \in Nat : ItemAt(v, i, s)' => Follows(s, v, i)'
                          /\ NextIs(s)' /\ NoHead(s)'
      BY DEF NoGap
    <3>2. InTable(s) /\ NextDue(s)' = NextDue(s)  BY <1>6, <3>1
    <3>3. NextIs(s)  BY <1>1, <3>2 DEF NoGap
    <3>4. NextIs(s)'
      <4>1. toServer'[w][last][4] = u  BY <2>5, <2>8
      <4>2. QED  BY <2>2, <2>9, <4>1 DEF NextIs
    <3>5. Follows(s, w, last)'
      <4>1. toServer'[w][last][4] = u  BY <2>5, <2>8
      <4>2. CASE step = "head"
        BY <2>1, <3>2, <3>3, <4>1, <4>2 DEF NextIs, Follows, u, HeadItem
      <4>3. CASE step = "data"
        <5>1. u = n + 1 /\ serving[s].at = "data"  BY <2>1, <4>3 DEF u
        <5>2. CASE n + 1 = NextDue(s)  BY <3>2, <4>1, <5>1, <5>2 DEF Follows
        <5>3. CASE n + 1 # NextDue(s)
          <6>1. PICK i \in Nat : ItemAt(w, i, s) /\ toServer[w][i][4] = n
            BY <1>1, <3>3, <5>1, <5>3 DEF NextIs
          <6>2. i < last /\ ItemAt(w, i, s)' /\ toServer'[w][i][4] = n  BY <1>1, <2>10, <6>1
          <6>3. QED  BY <4>1, <5>1, <6>2 DEF Follows
        <5>4. QED  BY <5>2, <5>3
      <4>4. QED  BY <1>9, <4>2, <4>3
    <3>6. ASSUME NEW i \in Nat, ItemAt(w, i, s) PROVE Follows(s, w, i)'
      <4>1. Follows(s, w, i) /\ toServer'[w][i] = toServer[w][i]
        BY <1>1, <2>10, <3>2, <3>6 DEF NoGap
      <4>2. \A j \in Nat : ItemAt(w, j, s) => ItemAt(w, j, s)' /\ toServer'[w][j] = toServer[w][j]
        BY <1>1, <2>10
      <4>3. QED  BY <3>2, <4>1, <4>2 DEF Follows
    <3>7. \A v \in Sockets : \A i \in Nat : ItemAt(v, i, s)' => Follows(s, v, i)'
      BY <2>10, <3>5, <3>6
    <3>8. QED  BY <1>4, <3>4, <3>7
  <2>15. QED  BY <1>5, <1>7, <2>12, <2>13, <2>14
<1>10. QED  BY <1>8, <1>9

\* An item at the front of a channel is what its stream's queue takes next.
LEMMA ReceiveItemKeeps ==
    ASSUME Types, SlotsOfRunning, NEW s \in Streams, StreamInv(s),
           NEW w \in Sockets, ReceiveItem(w)
    PROVE  StreamInv(s)'
<1> USE DEF StreamInv
<1>1. Receive(w) /\ UNCHANGED <<linked, toAgent, req, out, serving>>
  BY DEF ReceiveItem, agent
<1>2. PICK t \in Tokens, r \in Streams, m \in Items :
        /\ Head(toServer[w]) = <<"item", t, r, m>>
        /\ \/ /\ t \in Live /\ r \in tunnels[t].streams
              /\ queue' = [queue EXCEPT ![r] = Append(@, m)] /\ tunnels' = tunnels
           \/ DropStream(t, r)
  BY DEF ReceiveItem
<1>3. HeadsQuiet(s) /\ ServeQuiet(s) /\ PhaseQuiet(s)
  BY <1>1, HeadsSame DEF ServeQuiet, PhaseQuiet
<1>4. CASE r # s
  <2>1. ItemsQuiet(s)  BY <1>1, <1>2, <1>4, ItemsReceived DEF IsItem
  <2>2. TableQuiet(s)
    <3>1. CASE queue' = [queue EXCEPT ![r] = Append(@, m)] /\ tunnels' = tunnels
      BY <1>4, <3>1, TableSame DEF Live, Types, QueueTypes
    <3>2. QED  BY <1>2, <3>1, DropStreamQuiet
  <2>3. QED  BY <1>3, <2>1, <2>2, QuietKeeps DEF Quiet
<1>5. CASE r = s
  <2>1. ItemAt(w, 1, s) /\ toServer[w][1] = <<"item", t, s, m>>
    <3>1. toServer[w] \in Seq(ServerFrame) /\ toServer[w] # <<>>
      BY <1>1 DEF Types, WireTypes, Receive
    <3>2. 1 \in 1..Len(toServer[w]) /\ Head(toServer[w]) = toServer[w][1]  BY <3>1
    <3>3. QED  BY <1>2, <1>5, <3>2 DEF ItemAt, IsItem
  <2>2. toServer[w][1][2] = t /\ toServer[w][1][4] = m /\ m \in Nat
    BY <2>1, Caps DEF Items
  <2>3. t = req[s].t  BY <2>1, <2>2 DEF InOrder
  <2>4. ~Untouched(s) /\ NoHead(s) /\ req[s].pc \notin {"idle", "head"}
    BY <2>1 DEF HeadOnce, NoHead, Untouched
  <2>5. NoHead(s)'  BY <1>3, <2>4, HeadsStay
  <2>6. HeadOnce(s)'  BY <1>1, <2>4, <2>5 DEF HeadOnce, NoHead
  <2>7. InOrder(s)'  BY <1>1, ItemsReceived, ItemsStay
  <2>8. OnLinked(s)'  BY <1>1 DEF OnLinked
  <2>9. ASSUME NEW v \in Sockets, NEW i \in Nat, ItemAt(v, i, s)' PROVE v = w
    <3>1. PICK k \in Nat : ItemAt(v, i + k, s)  BY <1>1, <2>9, ItemsReceived DEF ItemsLeft
    <3>2. QED  BY <2>1, <3>1 DEF InOrder
  <2>10. ASSUME NEW i \in Nat, ItemAt(w, i, s)
         PROVE  /\ i > 0 /\ toServer[w][i][4] \in Nat
                /\ i > 1 => /\ m < toServer[w][i][4]
                            /\ ItemAt(w, i - 1, s)' /\ toServer'[w][i - 1] = toServer[w][i]
    <3>1. i > 0  BY <2>10 DEF ItemAt
    <3>2. toServer[w][i] \in ServerFrame /\ toServer[w][i][1] = "item"
      BY <2>10 DEF ItemAt, IsItem, Types, WireTypes
    <3>3. toServer[w][i][4] \in Nat  BY <3>2, Caps DEF ServerFrame
    <3>4. i > 1 => m < toServer[w][i][4]  BY <2>1, <2>2, <2>10 DEF InOrder
    <3>5. i - 1 \in Nat /\ (i - 1) + 1 = i  BY <3>1
    <3>6. i > 1 => ItemAt(w, i - 1, s)' /\ toServer'[w][i - 1] = toServer[w][i]
      BY <1>1, <2>10, <3>5, ItemsReceived
    <3>7. QED  BY <3>1, <3>3, <3>4, <3>6
  <2>11. CASE DropStream(t, s)
    <3>1. TableQuiet(s) /\ ~InTable(s)'  BY <2>3, <2>11, DropStreamQuiet
    <3>2. QueueDue(s)'  BY <1>3, <3>1, QueueKept
    <3>3. NoGap(s)'  BY <3>1 DEF NoGap
    <3>4. QED  BY <2>6, <2>7, <2>8, <3>2, <3>3
  <2>12. CASE /\ t \in Live /\ s \in tunnels[t].streams
              /\ queue' = [queue EXCEPT ![s] = Append(@, m)] /\ tunnels' = tunnels
    <3>1. InTable(s)  BY <2>12 DEF InTable
    <3>2. m = NextDue(s)
      <4>1. Follows(s, w, 1)  BY <2>1, <3>1 DEF NoGap
      <4>2. \A j \in Nat : j < 1 => ~ItemAt(w, j, s)  BY DEF ItemAt
      <4>3. QED  BY <2>2, <4>1, <4>2 DEF Follows
    <3>3. queue[s] \in Seq(Items)  BY DEF Types, QueueTypes
    <3>4. queue'[s] = Append(queue[s], m)  BY <2>12 DEF Types, QueueTypes
    <3>5. /\ Len(queue'[s]) = Len(queue[s]) + 1 /\ Len(queue[s]) \in Nat
          /\ queue'[s][Len(queue[s]) + 1] = m
          /\ \A i \in 1..Len(queue[s]) : queue'[s][i] = queue[s][i]
      BY <3>3, <3>4
    <3>6. Due(s)' = Due(s) /\ Due(s) \in Nat
      BY <1>1 DEF Due, Types, PublicTypes
    <3>7. NextDue(s)' = m + 1
      <4>1. NextDue(s)' = Due(s)' + Len(queue'[s]) /\ NextDue(s) = Due(s) + Len(queue[s])
        BY DEF NextDue
      <4>2. QED  BY <3>2, <3>5, <3>6, <4>1
    <3>8. QueueDue(s)'
      <4>1. ASSUME req[s].pc \in {"idle", "head", "first", "body", "spend"},
                   NEW i \in 1..Len(queue'[s])
            PROVE  queue'[s][i] \in {Closed, Due(s)' + i - 1}
        <5>1. i \in 1..Len(queue[s]) \/ i = Len(queue[s]) + 1  BY <3>5
        <5>2. CASE i \in 1..Len(queue[s])
          BY <3>5, <3>6, <4>1, <5>2 DEF QueueDue
        <5>3. CASE i = Len(queue[s]) + 1
          <6>1. Due(s) + i - 1 = NextDue(s)  BY <3>5, <3>6, <5>3 DEF NextDue
          <6>2. QED  BY <3>2, <3>5, <3>6, <5>3, <6>1
        <5>4. QED  BY <5>1, <5>2, <5>3
      <4>2. QED  BY <1>1, <2>4, <4>1 DEF QueueDue
    <3>9. ASSUME NEW i \in Nat, ItemAt(w, i, s)' PROVE Follows(s, w, i)'
      <4>1. ItemAt(w, i + 1, s) /\ toServer'[w][i] = toServer[w][i + 1] /\ i > 0
        BY <1>1, <3>9, ItemsReceived DEF ItemsLeft, ItemAt
      <4>2. m < toServer[w][i + 1][4] /\ toServer[w][i + 1][4] \in Nat  BY <2>10, <4>1
      <4>3. Follows(s, w, i + 1)  BY <3>1, <4>1 DEF NoGap
      <4>4. PICK j \in Nat : /\ j < i + 1 /\ ItemAt(w, j, s)
                             /\ toServer[w][j][4] + 1 = toServer[w][i + 1][4]
        BY <2>2, <3>2, <4>2, <4>3 DEF Follows
      <4>5. CASE j = 1
        <5>1. toServer'[w][i][4] = m + 1  BY <2>2, <4>1, <4>4, <4>5
        <5>2. QED  BY <3>7, <5>1 DEF Follows
      <4>6. CASE j # 1
        <5>1. j > 1  BY <2>10, <4>4, <4>6
        <5>2. ItemAt(w, j - 1, s)' /\ toServer'[w][j - 1] = toServer[w][j]  BY <2>10, <4>4, <5>1
        <5>3. j - 1 \in Nat /\ j - 1 < i  BY <4>4, <5>1
        <5>4. toServer'[w][j - 1][4] + 1 = toServer'[w][i][4]  BY <4>1, <4>4, <5>2
        <5>5. QED  BY <5>2, <5>3, <5>4 DEF Follows
      <4>7. QED  BY <4>5, <4>6
    <3>10. ASSUME serving[s] # Nowhere PROVE NextIs(s)'
      <4>1. serving[s].at = "data" /\ serving[s].w = w /\ m <= serving[s].sent
        BY <2>1, <2>2, <3>10 DEF InOrder
      <4>2. serving[s].sent \in Nat  BY <3>10, Caps DEF Types, AgentTypes, Tasks
      <4>3. NextIs(s)  BY <3>1, <3>10 DEF NoGap
      <4>4. PICK i \in Nat : ItemAt(w, i, s) /\ toServer[w][i][4] = serving[s].sent
        BY <2>2, <3>2, <4>1, <4>2, <4>3 DEF NextIs
      <4>5. CASE i = 1
        BY <1>1, <2>2, <3>7, <4>1, <4>4, <4>5 DEF NextIs
      <4>6. CASE i # 1
        <5>1. i > 1  BY <2>10, <4>4, <4>6
        <5>2. ItemAt(w, i - 1, s)' /\ toServer'[w][i - 1][4] = serving[s].sent
          BY <2>10, <4>4, <5>1
        <5>3. i - 1 \in Nat  BY <5>1
        <5>4. QED  BY <1>1, <4>1, <5>2, <5>3 DEF NextIs
      <4>7. QED  BY <4>5, <4>6
    <3>11. NoGap(s)'
      BY <1>1, <2>5, <2>9, <3>9, <3>10 DEF NoGap
    <3>12. QED  BY <2>6, <2>7, <2>8, <3>8, <3>11
  <2>13. QED  BY <1>2, <1>5, <2>11, <2>12
<1>6. QED  BY <1>4, <1>5
-----------------------------------------------------------------------------
(* Streams: every step *)

\* What a step may be to a stream.
LEMMA StreamSteps ==
    ASSUME Types, SlotsOfRunning, NEW s \in Streams, [Next]_vars
    PROVE  \/ Quiet(s)
           \/ \E t \in Tokens : Arrive(s, t)
           \/ SendHead(s) /\ CanSend(req[s].t)
           \/ FirstItem(s) /\ NextOf(s) = HeadItem
           \/ BodySpends(s) /\ out' # out
           \/ \E w \in Sockets : AgentHead(w) /\ serving'[s] # serving[s]
           \/ \E w \in Sockets, step \in {"dial", "head", "data"} : Serve(s, w, step)
           \/ \E w \in Sockets : ReceiveItem(w)
<1>1. CASE UNCHANGED vars
  <2>1. UNCHANGED <<tunnels, queue, req, out, serving, linked, toAgent, toServer>>
    BY <1>1 DEF vars
  <2>2. TableQuiet(s)  BY <2>1, TableSame DEF Live
  <2>3. QED  BY <2>1, <2>2, ItemsSame, HeadsSame DEF Quiet, ServeQuiet, PhaseQuiet
<1>2. CASE ConfirmStep  BY <1>2, TableStepsQuiet
<1>3. CASE RelayStep  BY <1>3, TableStepsQuiet DEF RelayStep
<1>4. CASE RequestStep
  <2>1. PICK r \in Streams : \/ SendHead(r) \/ FirstItem(r) \/ NextItem(r)
                             \/ BodyEnds(r) \/ BodySpends(r)
    BY <1>4 DEF RequestStep
  <2>2. QED  BY <2>1, RequestStepsQuiet
<1>5. CASE PumpStep  BY <1>5, RequestStepsQuiet DEF PumpStep
<1>6. CASE AgentStep  BY <1>6, AgentStepsQuiet DEF AgentStep
<1>7. CASE Outside
  <2>1. CASE \E t \in Tokens : TunnelExpires(t) \/ CloseTunnel(t)
    BY <2>1, TableStepsQuiet
  <2>2. CASE \E r \in Streams, t \in Tokens : Arrive(r, t)
    BY <2>2, RequestStepsQuiet
  <2>3. CASE \E r \in Streams : ClientGone(r) \/ \E who \in {"body", "pump"} : Pace(r, who)
    BY <2>3, RequestStepsQuiet
  <2>4. CASE \E w \in Sockets : AgentLeaves(w)  BY <2>4, AgentStepsQuiet
  <2>5. QED  BY <1>7, <2>1, <2>2, <2>3, <2>4 DEF Outside
<1>8. QED  BY <1>1, <1>2, <1>3, <1>4, <1>5, <1>6, <1>7 DEF Next

LEMMA StreamKept ==
    ASSUME Types, SlotsOfRunning, NEW s \in Streams, StreamInv(s), [Next]_vars
    PROVE  StreamInv(s)'
<1>1. CASE Quiet(s)  BY <1>1, QuietKeeps
<1>2. CASE \E t \in Tokens : Arrive(s, t)  BY <1>2, ArriveKeeps
<1>3. CASE SendHead(s) /\ CanSend(req[s].t)  BY <1>3, SendHeadKeeps
<1>4. CASE FirstItem(s) /\ NextOf(s) = HeadItem
  <2>1. /\ UNCHANGED <<tunnels, linked, serving, toServer, toAgent, out>>
        /\ req[s].pc = "first" /\ Goto(s, "body") /\ queue' = [queue EXCEPT ![s] = Tail(@)]
    BY <1>4 DEF FirstItem, wires, agent
  <2>2. queue[s] # <<>>  BY <1>4, Caps DEF NextOf, HeadItem, Closed
  <2>3. HeadsQuiet(s)  BY <2>1, HeadsSame
  <2>4. QED  BY <2>1, <2>2, <2>3, ReadKeeps
<1>5. CASE BodySpends(s) /\ out' # out
  <2>1. /\ UNCHANGED <<tunnels, linked, serving, toServer, toAgent>>
        /\ req[s].pc = "spend" /\ Goto(s, "body") /\ queue' = [queue EXCEPT ![s] = Tail(@)]
        /\ out' = [out EXCEPT ![s] = Append(@, Head(queue[s]))]
    BY <1>5 DEF BodySpends, agent
  <2>2. queue[s] # <<>>  BY <2>1 DEF Types, ChunkInHand
  <2>3. HeadsQuiet(s)  BY <2>1, HeadsSame
  <2>4. QED  BY <2>1, <2>2, <2>3, ReadKeeps
<1>6. CASE \E w \in Sockets : AgentHead(w) /\ serving'[s] # serving[s]
  BY <1>6, AgentHeadKeeps
<1>7. CASE \E w \in Sockets, step \in {"dial", "head", "data"} : Serve(s, w, step)
  BY <1>7, ServeKeeps
<1>8. CASE \E w \in Sockets : ReceiveItem(w)  BY <1>8, ReceiveItemKeeps
<1>9. QED  BY <1>1, <1>2, <1>3, <1>4, <1>5, <1>6, <1>7, <1>8, StreamSteps

\* The chunk in a generator's hand stays at the front of its queue.
LEMMA ChunkInHandKept == Types /\ SlotsOfRunning /\ [Next]_vars => ChunkInHand'
<1> SUFFICES ASSUME Types, SlotsOfRunning, [Next]_vars, NEW s \in Streams, req'[s].pc = "spend"
             PROVE  queue'[s] # <<>> /\ IsChunk(Head(queue'[s]))
  BY DEF ChunkInHand, IsChunk
<1>1. req[s] \in Requests /\ queue[s] \in Seq(Items)  BY DEF Types, PublicTypes, QueueTypes
<1>2. ASSUME NextItem(s) PROVE queue'[s] # <<>> /\ IsChunk(Head(queue'[s]))
  <2>1. NextOf(s) \in 1..Chunks /\ queue' = queue  BY <1>2 DEF NextItem, IsChunk
  <2>2. QED  BY <2>1, Caps DEF NextOf, Closed, IsChunk
<1>3. NextItem(s) \/ req[s].pc = "spend"
  <2>1. ASSUME NEW r \in Streams, NEW p, Goto(r, p), p # "spend" PROVE req[s].pc = "spend"
    BY <2>1 DEF Goto, Types, PublicTypes, Requests
  <2>2. CASE UNCHANGED req  BY <2>2
  <2>3. ASSUME NEW r \in Streams, NEW t \in Tokens, Arrive(r, t) PROVE req[s].pc = "spend"
    BY <2>3 DEF Arrive, Types, PublicTypes, Requests
  <2>4. ASSUME NEW r \in Streams, NextItem(r), r # s PROVE req[s].pc = "spend"
    BY <2>4 DEF NextItem, Goto, Types, PublicTypes, Requests
  <2>5. ASSUME NEW r \in Streams, \/ SendHead(r) \/ FirstItem(r) \/ BodyEnds(r)
                                  \/ BodySpends(r) \/ ClientGone(r)
        PROVE  req[s].pc = "spend"
    <3>1. \E p \in {"first", "answered", "body", "done", "never"} : Goto(r, p)
      BY <2>5 DEF SendHead, FirstItem, BodyEnds, BodySpends, ClientGone, Finish
    <3>2. QED  BY <2>1, <3>1
  <2>6. \/ UNCHANGED req
        \/ \E r \in Streams : \/ \E t \in Tokens : Arrive(r, t)
                              \/ SendHead(r) \/ FirstItem(r) \/ BodyEnds(r)
                              \/ BodySpends(r) \/ ClientGone(r) \/ NextItem(r)
    <3>1. CASE UNCHANGED vars  BY <3>1 DEF vars
    <3>2. CASE ConfirmStep \/ RelayStep \/ PumpStep
      BY <3>2 DEF ConfirmStep, RelayStep, PumpStep, OpenTunnel, PushOpen, AwaitAck, AckMissing,
                  AckSeen, PumpChunk, PumpEnds, ReceiveAck, ReceiveItem, ReceiveClose, Detach,
                  public
    <3>3. CASE AgentStep
      BY <3>3 DEF AgentStep, AgentOpens, AgentHead, AgentBody, AgentCloses, Serve, ForwardBody,
                  public
    <3>4. CASE RequestStep  BY <3>4 DEF RequestStep
    <3>5. CASE Outside
      BY <3>5 DEF Outside, TunnelExpires, CloseTunnel, Pace, AgentLeaves, public
    <3>6. QED  BY <3>1, <3>2, <3>3, <3>4, <3>5 DEF Next
  <2>7. QED  BY <2>2, <2>3, <2>4, <2>5, <2>6
<1>4. ASSUME req[s].pc = "spend" PROVE queue'[s] # <<>> /\ IsChunk(Head(queue'[s]))
  <2>1. queue[s] # <<>> /\ IsChunk(Head(queue[s]))  BY <1>4 DEF Types, ChunkInHand
  <2>2. queue'[s] = queue[s] \/ \E m \in Items : queue'[s] = Append(queue[s], m)
    <3>1. TableQuiet(s) => \/ queue'[s] = queue[s]
                           \/ \E m \in Items : queue'[s] = Append(queue[s], m)
      BY Caps DEF TableQuiet
    <3>2. CASE Quiet(s)  BY <3>1, <3>2 DEF Quiet
    <3>3. CASE \E w \in Sockets : AgentHead(w) \/ \E step \in {"dial", "head", "data"} : Serve(s, w, step)
      BY <3>3 DEF AgentHead, Serve, public
    <3>4. CASE \E w \in Sockets : ReceiveItem(w)
      <4>1. PICK t \in Tokens, r \in Streams, m \in Items :
              queue' = [queue EXCEPT ![r] = Append(@, m)] \/ DropStream(t, r)
        BY <3>4 DEF ReceiveItem
      <4>2. CASE queue' = [queue EXCEPT ![r] = Append(@, m)]
        BY <4>2 DEF Types, QueueTypes
      <4>3. CASE DropStream(t, r)  BY <3>1, <4>3, DropStreamQuiet
      <4>4. QED  BY <4>1, <4>2, <4>3
    <3>5. ~\E t \in Tokens : Arrive(s, t)  BY <1>4 DEF Arrive
    <3>6. ~SendHead(s) /\ ~FirstItem(s)  BY <1>4 DEF SendHead, FirstItem
    <3>7. ~(BodySpends(s) /\ out' # out)
      BY <1>1 DEF BodySpends, Finish, Goto, Types, PublicTypes, Requests
    <3>8. QED  BY <3>2, <3>3, <3>4, <3>5, <3>6, <3>7, StreamSteps
  <2>3. ASSUME NEW m \in Items, queue'[s] = Append(queue[s], m)
        PROVE  queue'[s] # <<>> /\ Head(queue'[s]) = Head(queue[s])
    BY <1>1, <2>1, <2>3
  <2>4. QED  BY <2>1, <2>2, <2>3
<1>5. QED  BY <1>2, <1>3, <1>4

\* A client is only ever sent the chunk after the last.
LEMMA PrefixKept ==
    Types /\ SlotsOfRunning /\ (\A s \in Streams : QueueDue(s)) /\ BodyIsPrefix /\ [Next]_vars
        => BodyIsPrefix'
<1> SUFFICES ASSUME Types, SlotsOfRunning, BodyIsPrefix, [Next]_vars,
                    NEW s \in Streams, QueueDue(s)
             PROVE  out'[s] = [i \in DOMAIN out'[s] |-> i]
  BY DEF BodyIsPrefix
<1>1. out[s] = [i \in DOMAIN out[s] |-> i]  BY DEF BodyIsPrefix
<1>2. CASE out'[s] = out[s]  BY <1>1, <1>2
<1>3. CASE BodySpends(s) /\ out' # out
  <2>1. out' = [out EXCEPT ![s] = Append(@, Head(queue[s]))] /\ req[s].pc = "spend"
    BY <1>3 DEF BodySpends
  <2>2. queue[s] \in Seq(Items) /\ queue[s] # <<>> /\ IsChunk(Head(queue[s]))
    BY <2>1 DEF Types, ChunkInHand, QueueTypes
  <2>3. out[s] \in Seq(Items)  BY DEF Types, PublicTypes
  <2>4. Head(queue[s]) = queue[s][1] /\ 1 \in 1..Len(queue[s])  BY <2>2
  <2>5. Due(s) = Len(out[s]) + 1 /\ Len(out[s]) \in Nat  BY <2>1, <2>3 DEF Due
  <2>6. queue[s][1] \in {Closed, Due(s) + 1 - 1}  BY <2>1, <2>4 DEF QueueDue
  <2>7. Head(queue[s]) # Closed  BY <2>2, Caps DEF IsChunk, Closed
  <2>8. Head(queue[s]) = Len(out[s]) + 1  BY <2>4, <2>5, <2>6, <2>7
  <2> DEFINE n == Len(out[s]) + 1
  <2>9. out'[s] = Append(out[s], n)  BY <2>1, <2>8 DEF Types, PublicTypes
  <2>10. /\ DOMAIN out'[s] = 1..n /\ out'[s][n] = n
         /\ \A i \in 1..Len(out[s]) : out'[s][i] = out[s][i]
    <3>1. n \in Items /\ n \in Nat  BY <2>2, <2>5, <2>8
    <3>2. QED  BY <2>3, <2>5, <2>9, <3>1, AppendProperties
  <2>11. \A i \in 1..n : i \in 1..Len(out[s]) \/ i = n  BY <2>5
  <2>12. DOMAIN out[s] = 1..Len(out[s])  BY <2>3
  <2>13. \A i \in 1..n : out'[s][i] = i  BY <1>1, <2>10, <2>11, <2>12
  <2>14. out'[s] = [i \in DOMAIN out'[s] |-> out'[s][i]]  BY <2>3, <2>9
  <2>15. QED  BY <2>10, <2>13, <2>14
<1>4. QED
  <2>1. CASE Quiet(s)  BY <1>2, <2>1 DEF Quiet, PhaseQuiet
  <2>2. CASE out' = out  BY <1>2, <2>2
  <2>3. (\E t \in Tokens : Arrive(s, t)) => out' = out  BY DEF Arrive
  <2>4. SendHead(s) \/ FirstItem(s) => out' = out  BY DEF SendHead, FirstItem
  <2>5. ASSUME NEW w \in Sockets, \/ AgentHead(w) \/ ReceiveItem(w)
                                  \/ \E step \in {"dial", "head", "data"} : Serve(s, w, step)
        PROVE  out' = out
    BY <2>5 DEF AgentHead, ReceiveItem, Serve, public
  <2>6. QED  BY <1>3, <2>1, <2>2, <2>3, <2>4, <2>5, StreamSteps
-----------------------------------------------------------------------------
(* The theorems *)

\* At the start no tunnel is open, no frame under way and no chunk sent.
LEMMA InitInv == Init => IInv
<1> SUFFICES ASSUME Init PROVE IInv  OBVIOUS
<1>1. Types  BY TypesInit
<1>2. Live = {}  BY DEF Init, Live
<1>3. TableInv
  <2>1. \A w \in Sockets : Len(toServer[w]) = 0  BY DEF Init
  <2>2. AcksClaimed  BY <1>1, <2>1 DEF AcksClaimed, Types, WireTypes
  <2>3. AcksHeld  BY DEF Init, AcksHeld
  <2>4. TunnelsHeld  BY <1>2 DEF TunnelsHeld, Pinned, NoneHalfOpen, SlotsOfRunning
  <2>5. QED  BY <2>2, <2>3, <2>4 DEF TableInv
<1>4. CapInv
  <2>1. IdleIsBare /\ PacedAt  BY DEF Init, IdleIsBare, PacedAt
  <2>2. \A t \in Tokens : RequestsOn(t) = {}
    BY SocketsOrdered DEF Init, RequestsOn
  <2>3. Spending  BY <2>2 DEF Spending, Init
  <2>4. QED  BY <2>1, <2>3 DEF CapInv
<1>5. \A s \in Streams : /\ queue[s] = <<>> /\ out[s] = <<>> /\ serving[s] = Nowhere
                         /\ \A w, i : ~ItemAt(w, i, s) \/ w \notin Sockets
                         /\ \A w, i : ~HeadAt(w, i, s) \/ w \notin Sockets
  BY DEF Init, ItemAt, HeadAt
<1>6. WireInv
  BY <1>5 DEF WireInv, HeadOnce, InOrder, OnLinked, Untouched, NoHead
<1>7. BodyInv
  <2>1. \A s \in Streams : NoGap(s)  BY <1>2 DEF NoGap, InTable
  <2>2. \A s \in Streams : Len(queue[s]) = 0  BY <1>5
  <2>3. \A s \in Streams : QueueDue(s)  BY <1>5, <2>2 DEF QueueDue
  <2>4. BodyIsPrefix  BY <1>5 DEF BodyIsPrefix
  <2>5. QED  BY <2>1, <2>3, <2>4 DEF BodyInv
<1>8. QED  BY <1>1, <1>3, <1>4, <1>6, <1>7 DEF IInv

LEMMA StepInv == IInv /\ [Next]_vars => IInv'
<1> SUFFICES ASSUME IInv, [Next]_vars PROVE IInv'  OBVIOUS
<1>1. Types /\ AcksHeld /\ AcksClaimed /\ Pinned /\ NoneHalfOpen /\ SlotsOfRunning
  BY DEF IInv, TableInv, TunnelsHeld
<1>2. IdleIsBare /\ PacedAt /\ Spending  BY DEF IInv, CapInv
<1>3. BodyIsPrefix /\ \A s \in Streams : StreamInv(s)
  BY DEF IInv, WireInv, BodyInv, StreamInv
<1>4. Types'
  BY <1>1, TableTyped, WiresTyped, AgentTyped, PublicTyped, ChunkInHandKept DEF Types
<1>5. TableInv'
  BY <1>1, SlotsKept, AcksClaimedKept, PinsKept DEF TableInv, TunnelsHeld
<1>6. CapInv'
  BY <1>1, <1>2, <1>4, BareKept, SpendingKept DEF CapInv
<1>7. \A s \in Streams : StreamInv(s)'  BY <1>1, <1>3, StreamKept
<1>8. BodyIsPrefix'  BY <1>1, <1>3, PrefixKept DEF StreamInv
<1>9. WireInv' /\ BodyInv'  BY <1>7, <1>8 DEF WireInv, BodyInv, StreamInv
<1>10. QED  BY <1>4, <1>5, <1>6, <1>9 DEF IInv

\* The invariant of every reachable state: what the theorems below read off.
THEOREM Invariance == TunnelSpec => []IInv
<1>1. QED  BY InitInv, StepInv, PTL DEF TunnelSpec

\* Every record, queue and counter of the table and of the agent keeps its
\* type, MAX_STREAMS_PER_TUNNEL and STREAM_QUEUE_MAXSIZE included.
THEOREM TypesHold == TunnelSpec => []TypeOK
<1>1. IInv => TypeOK
  <2>1. SUFFICES ASSUME IInv PROVE TypeOK  OBVIOUS
  <2>2. Types  BY <2>1 DEF IInv
  <2>3. \A s \in Streams : req[s].pc \in Phases /\ pump[s].at \in {"off", "on", "closing"}
    BY <2>2 DEF Types, PublicTypes, Requests
  <2>4. \A t \in Live : tunnels[t].ws \in Sockets \cup {Nowhere} /\ tunnels[t].streams \subseteq Streams
    BY <2>2 DEF Types, TableTypes, Records
  <2>5. QED
    BY <2>2, <2>3, <2>4
    DEF Types, TypeOK, TableTypes, WireTypes, QueueTypes, PublicTypes, AgentTypes, Phases
<1>2. QED  BY <1>1, Invariance, PTL

\* _route_tunnel_frame and push_to_stream: what a client has been sent is a
\* prefix of what the origin answered, however the frames, the full queue,
\* the drops and the broken sockets fall.
THEOREM BodiesArePrefixes == TunnelSpec => []BodyIsPrefix
<1>1. IInv => BodyIsPrefix  BY DEF IInv, BodyInv
<1>2. QED  BY <1>1, Invariance, PTL

\* bind_ws, detach_ws, _open_tunnel and drop_stream: no pin outlives its
\* socket or its claim, no tunnel its failed confirmation, no slot its
\* request.
THEOREM TunnelsStayHeld == TunnelSpec => []TunnelsHeld
<1>1. IInv => TunnelsHeld  BY DEF IInv, TableInv
<1>2. QED  BY <1>1, Invariance, PTL

\* spend: the lifetime cap is overshot by less than two chunks a request.
THEOREM OvershootStaysBounded == TunnelSpec => []OvershootBounded
<1>1. IInv => OvershootBounded
  <2>1. SUFFICES ASSUME IInv, NEW t \in Tokens, RequestsOn(t) # {}
                 PROVE  bytes[t] < TotalBytes + 2 * Cardinality(RequestsOn(t))
    BY DEF OvershootBounded, RequestsOn
  <2>2. Types /\ Spending  BY <2>1 DEF IInv, CapInv
  <2> DEFINE k == Cardinality(RequestsOn(t))
             p == Cardinality(PacedOn(t))
  <2>3. k \in Nat /\ p \in Nat /\ bytes[t] \in Nat /\ TotalBytes \in Nat
    BY <2>2, OnTunnel, Caps
  <2>4. bytes[t] + p < TotalBytes + 2 * k  BY <2>1, <2>2 DEF Spending
  <2> HIDE DEF k, p
  <2>5. bytes[t] < TotalBytes + 2 * k  BY <2>3, <2>4
  <2>6. QED  BY <2>5 DEF k
<1>2. QED  BY <1>1, Invariance, PTL
=============================================================================
