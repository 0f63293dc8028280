---------------------------- MODULE Sessions_proof ----------------------------
(* Proofs about Sessions, for any clients and any number of connections: the    *)
(* server's peers are its connections but for what is on its way, and a client  *)
(* knows when its session ends.                                                 *)
EXTENDS Sessions, FiniteSetTheorems, TLAPS

--------------------------------------------------------------------------------
(* Types, and the shape of a connection.                                        *)

Connections ==
  [owner : Clients \cup {Nobody}, peer : Conns \cup Clients,
   near : {"none", "connecting", "open", "lost", "closed"},
   far : {"none", "asked", "accepted", "open", "lost", "closed"},
   down : SUBSET {"welcome", "snapshot"}, up : SUBSET {"ack"}]
Calls == [conn : Conns, status : {"connecting", "connected", "lost"}]
EventTypes == {"Connected", "Disconnected"}
Messages == [type : EventTypes \cup {"welcome", "snapshot", "ack"}, conn : Conns, peer : Conns \cup Clients]

Types ==
  /\ conn \in [Conns -> Connections]
  /\ calls \in [Ends -> Seq(Calls)]
  /\ link \in [Clients -> Conns \cup {0}] /\ welcomed \in [Clients -> Conns \cup {0}]
  /\ event_queue \in [Ends -> Seq(Messages)] /\ batch \in [Ends -> Seq(Messages)]
  /\ at \in [Ends -> {"game", "callbacks", "receive"}]

\* Connections are made in the order of their numbers, by a client, and the client's end is made first.
Made(h) == conn[h].near # "none"
ShapeOK ==
  /\ \A h \in Conns : Made(h) => conn[h].owner \in Clients /\ \A k \in 1 .. h - 1 : Made(k)
  /\ \A h \in Conns : conn[h].far # "none" => Made(h)
  /\ \A h \in Conns : conn[h].peer \in {h, conn[h].owner}
  /\ \A c \in Clients : \A h \in {link[c], welcomed[c]} \ {0} : Made(h)

\* What a queue of calls or of events holds is about a connection that was made.
MadeIn(s) == \A n \in DOMAIN s : Made(s[n].conn)
PeersIn(s) == \A n \in DOMAIN s : Made(s[n].conn) /\ s[n].peer = PeerOf(s[n].conn)
NamesOK == \A e \in Ends : MadeIn(calls[e]) /\ PeersIn(event_queue[e]) /\ PeersIn(batch[e])

\* Only the types T are in a queue of events.
OnlyIn(s, T) == \A n \in DOMAIN s : s[n].type \in T
PassesOK ==
  \A e \in Ends :
    /\ OnlyIn(event_queue[e], EventTypes)
    /\ at[e] = "game" => OnlyIn(batch[e], EventTypes)
    /\ at[e] = "callbacks" => batch[e] = <<>>
    /\ at[e] = "receive" => OnlyIn(batch[e], IF e = Server THEN {"ack"} ELSE {"welcome", "snapshot"})

\* The server's maps agree, and what they and its peers name was made.
MapsOK ==
  /\ DOMAIN conn_to_peer \subseteq Conns
  /\ \A h \in DOMAIN conn_to_peer : conn_to_peer[h] = PeerOf(h) /\ Made(h)
  /\ \A id \in DOMAIN peer_to_conn : peer_to_conn[id] \in DOMAIN conn_to_peer /\ PeerOf(peer_to_conn[id]) = id
  /\ \A id \in DOMAIN peers : peers[id] \in Conns /\ Made(peers[id]) /\ PeerOf(peers[id]) = id

Basics == Types /\ ShapeOK /\ NamesOK /\ PassesOK /\ MapsOK

--------------------------------------------------------------------------------
(* A client: what it reads is of the connection it has, or of one whose end it  *)
(* will be told; what it is told ended is not the connection it has.            *)

ClientOK(c) ==
  /\ link[c] # 0 => welcomed[c] <= link[c]
  /\ \A k \in Conns : Coming(c, "Disconnected", k) => link[c] # k
  /\ \A n \in DOMAIN batch[c] : batch[c][n].type \in {"welcome", "snapshot"} =>
       \/ batch[c][n].conn = link[c]
       \/ link[c] = 0 /\ Coming(c, "Disconnected", batch[c][n].conn)
  /\ welcomed[c] \notin {0, link[c]} => \E h \in Conns : h >= welcomed[c] /\ Coming(c, "Disconnected", h)

ClientsOK == \A c \in Clients : ClientOK(c)

--------------------------------------------------------------------------------
(* The server: the events due, in order, tell its maps from its peers.          *)

\* The events not handled yet: those handed over, or while it polls those queued.
Due == IF at[Server] = "game" THEN batch[Server] ELSE event_queue[Server]
Is(event, type, h) == event.type = type /\ event.conn = h

\* Between polls nothing is queued.
QueueOK == at[Server] = "game" => event_queue[Server] = <<>>

\* A connection announced is in the maps, or was closed by the game, or its end is announced after it.
ConnectedOK ==
  \A i \in DOMAIN Due : Due[i].type = "Connected" =>
    \/ Due[i].conn \in DOMAIN conn_to_peer \cup kicked
    \/ \E j \in DOMAIN Due : j > i /\ Is(Due[j], "Disconnected", Due[i].conn)

\* An end announced of the same peer as a connection in the maps precedes that connection, if it is no orphan.
DisconnectedOK ==
  \A i \in DOMAIN Due, h \in DOMAIN conn_to_peer \ orphaned :
    Due[i].type = "Disconnected" /\ Due[i].peer = PeerOf(h) =>
      \E j \in DOMAIN Due : j > i /\ Is(Due[j], "Connected", h)

\* A peer's connection is in the maps, or was closed by the game, or its end is announced.
PeersOK ==
  \A id \in DOMAIN peers :
    \/ peers[id] \in DOMAIN conn_to_peer \cup kicked
    \/ \E j \in DOMAIN Due : Is(Due[j], "Disconnected", peers[id])

\* A connection in the maps, but for orphans, has a peer or is announced.
MappedOK ==
  \A h \in DOMAIN conn_to_peer \ orphaned :
    PeerOf(h) \in DOMAIN peers \/ \E j \in DOMAIN Due : Is(Due[j], "Connected", h)

--------------------------------------------------------------------------------
(* A connection that was sent a snapshot was in the maps, its peer known.       *)

Served(h) ==
  \/ "snapshot" \in conn[h].down \/ conn[h].up # {}
  \/ \E c \in Clients : \E n \in DOMAIN batch[c] : Is(batch[c][n], "snapshot", h)

\* The library has not opened it yet, or its opening is still to be told, or was not told to the game yet.
Opening(h) == \E n \in DOMAIN calls[Server] : calls[Server][n] = [conn |-> h, status |-> "connected"]
Announced(h) == \E n \in DOMAIN Due : Is(Due[n], "Connected", h)

ServedOK ==
  \A h \in Conns :
    /\ Served(h) => (conn[h].far = "closed" \/ h \in DOMAIN conn_to_peer) /\ ~Opening(h) /\ ~Announced(h)
    /\ conn[h].far \in {"none", "asked", "accepted"} => h \notin DOMAIN conn_to_peer /\ ~Opening(h) /\ ~Announced(h) /\ ~Served(h)
    /\ conn[h].far = "closed" => conn[h].up = {}
    /\ Opening(h) => h \notin DOMAIN conn_to_peer /\ ~Announced(h)
    /\ \A i, j \in DOMAIN calls[Server] :
         calls[Server][i] = [conn |-> h, status |-> "connected"] /\ calls[Server][j] = calls[Server][i] => i = j

\* What a client acknowledges finds its peer.
AcksOK ==
  \A n \in DOMAIN batch[Server] :
    batch[Server][n].type = "ack" => batch[Server][n].conn \in orphaned \/ batch[Server][n].peer \in DOMAIN peers

ServerOK == QueueOK /\ ConnectedOK /\ DisconnectedOK /\ PeersOK /\ MappedOK /\ ServedOK /\ AcksOK

IInv == Basics /\ ClientsOK /\ ServerOK

--------------------------------------------------------------------------------
(* What the library orders for the server: the acknowledgements of a pass.      *)

LEMMA Orders ==
  ASSUME NEW S, IsFiniteSet(S)
  PROVE  SetToSeq(S) \in Seq(S)
<1>1. Cardinality(S) \in Nat /\ ExistsBijection(1 .. Cardinality(S), S)
  BY FS_CardinalityType
<1>2. PICK f \in [1 .. Cardinality(S) -> S] : IsInjective(f)
  BY <1>1 DEF ExistsBijection, Bijection, Injection
<1>3. SetToSeq(S) \in [1 .. Cardinality(S) -> S]
  BY <1>2 DEF SetToSeq
<1> QED
  BY <1>1, <1>3

LEMMA AcksInOrder == SetToSeq({Data("ack", h) : h \in InGroup}) \in Seq({Data("ack", h) : h \in InGroup})
<1> DEFINE T == {Data("ack", h) : h \in InGroup}
           f == [h \in InGroup |-> Data("ack", h)]
<1>1. IsFiniteSet(Conns)
  BY SessionAssumption, FS_Interval DEF Conns
<1>2. IsFiniteSet(InGroup)
  BY <1>1, FS_Subset DEF InGroup
<1>3. f \in Surjection(InGroup, T)
  BY DEF Surjection
<1>4. IsFiniteSet(T)
  BY <1>2, <1>3, FS_Surjection
<1> QED
  BY <1>4, Orders

LEMMA DataInOrder ==
  ASSUME NEW h, NEW M \in SUBSET {"welcome", "snapshot"}, NEW s \in SetToSeqs({Data(m, h) : m \in M})
  PROVE  s \in Seq({Data(m, h) : m \in M})
<1> DEFINE T == {Data(m, h) : m \in M}
<1>1. T \subseteq {Data("welcome", h), Data("snapshot", h)}
  OBVIOUS
<1>2. IsFiniteSet({Data("welcome", h), Data("snapshot", h)})
  <2>1. IsFiniteSet({Data("welcome", h)})
    BY FS_EmptySet, FS_AddElement, {} \cup {Data("welcome", h)} = {Data("welcome", h)}
  <2> QED
    BY <2>1, FS_AddElement,
       {Data("welcome", h)} \cup {Data("snapshot", h)} = {Data("welcome", h), Data("snapshot", h)}
<1>3. IsFiniteSet(T)
  BY <1>1, <1>2, FS_Subset
<1>4. Cardinality(T) \in Nat
  BY <1>3, FS_CardinalityType
<1>5. s \in [1 .. Cardinality(T) -> T]
  BY DEF SetToSeqs
<1> HIDE DEF T
<1>6. s \in Seq(T)
  BY <1>4, <1>5
<1> QED
  BY <1>6 DEF T

--------------------------------------------------------------------------------
(* Every variable keeps its type.                                               *)

LEMMA Typed ==
  ASSUME Types, NEW h \in Conns
  PROVE  /\ conn[h] \in Connections /\ PeerOf(h) \in Conns \cup Clients
         /\ \A type \in EventTypes : Event(type, h) \in Messages
         /\ \A m \in {"welcome", "snapshot", "ack"} : Data(m, h) \in Messages
BY DEF Types, Connections, Event, Data, Messages, PeerOf, EventTypes

LEMMA LibraryTypes ==
  ASSUME Basics, NEW h \in Conns, Library(h)
  PROVE  Types'
<1>1. conn[h] \in Connections /\ (Made(h) => conn[h].owner \in Ends) /\ Server \in Ends
  BY Typed DEF Basics, ShapeOK, Ends
<1>2. \A e \in Ends, status \in {"connecting", "connected", "lost"} :
        Append(calls[e], [conn |-> h, status |-> status]) \in Seq(Calls)
  <2> TAKE e \in Ends, status \in {"connecting", "connected", "lost"}
  <2>1. calls[e] \in Seq(Calls) /\ [conn |-> h, status |-> status] \in Calls
    BY DEF Basics, Types, Calls
  <2> QED BY <2>1
<1>3. CASE Asks(h)
  BY <1>1, <1>2, <1>3 DEF Asks, Post, Basics, Types, Connections, serverVars, clientVars, pollVars
<1>4. CASE OpensFar(h)
  BY <1>1, <1>2, <1>4 DEF OpensFar, Post, Basics, Types, Connections, serverVars, clientVars, pollVars
<1>5. CASE OpensNear(h)
  BY <1>1, <1>2, <1>5 DEF OpensNear, Post, Basics, Types, Connections, serverVars, clientVars, pollVars, Made
<1>6. CASE LosesFar(h)
  BY <1>1, <1>2, <1>6 DEF LosesFar, Post, Basics, Types, Connections, serverVars, clientVars, pollVars
<1>7. CASE LosesNear(h)
  BY <1>1, <1>2, <1>7 DEF LosesNear, Post, Basics, Types, Connections, serverVars, clientVars, pollVars, Made
<1> QED
  BY <1>3, <1>4, <1>5, <1>6, <1>7 DEF Library

LEMMA FarClosedTypes ==
  ASSUME conn \in [Conns -> Connections], NEW H
  PROVE  FarClosed(H) \in [Conns -> Connections]
BY ZenonT(40) DEF FarClosed, Connections

LEMMA SendTypes ==
  ASSUME conn \in [Conns -> Connections], NEW h
  PROVE  /\ NearClosed(h) \in [Conns -> Connections] /\ Ups(h, "ack") \in [Conns -> Connections]
         /\ \A m \in {"welcome", "snapshot"} : Downs(h, m) \in [Conns -> Connections]
<1>1. NearClosed(h) \in [Conns -> Connections]
  <2>1. CASE h \notin Conns
    BY <2>1 DEF NearClosed
  <2>2. CASE h \in Conns
    <3>1. PICK one : one = [conn[h] EXCEPT !.near = "closed", !.down = {}]
      OBVIOUS
    <3>2. conn[h] \in Connections
      BY <2>2
    <3>3. one \in Connections
      BY ONLY <3>1, <3>2 DEF Connections
    <3>4. NearClosed(h) = [conn EXCEPT ![h] = one]
      BY ONLY <3>1 DEF NearClosed
    <3> QED BY <2>2, <3>3, <3>4
  <2> QED BY <2>1, <2>2
<1>2. Ups(h, "ack") \in [Conns -> Connections]
  BY DEF Ups, Connections
<1>3. ASSUME NEW m \in {"welcome", "snapshot"} PROVE Downs(h, m) \in [Conns -> Connections]
  BY DEF Downs, Connections
<1> QED BY <1>1, <1>2, <1>3

LEMMA FieldTypes ==
  ASSUME conn \in [Conns -> Connections], NEW h \in Conns
  PROVE  /\ [conn EXCEPT ![h].down = {}] \in [Conns -> Connections]
         /\ [conn EXCEPT ![h].far = "accepted"] \in [Conns -> Connections]
BY DEF Connections

LEMMA GameTypes ==
  ASSUME Basics, GameStep
  PROVE  Types'
<1>1. ASSUME NEW c \in Clients, Connect(c) PROVE Types'
  <2>1. PICK h \in Conns, id \in Conns \cup Clients :
             conn' = [conn EXCEPT ![h] = [@ EXCEPT !.owner = c, !.peer = id, !.near = "connecting"]]
             /\ link' = [link EXCEPT ![c] = h]
    BY <1>1 DEF Connect
  <2>2. conn' \in [Conns -> Connections]
    <3>1. conn[h] \in Connections
      BY Typed DEF Basics
    <3>2. [conn[h] EXCEPT !.owner = c, !.peer = id, !.near = "connecting"] \in Connections
      BY <3>1 DEF Connections
    <3> QED BY <2>1, <3>2 DEF Basics, Types
  <2>3. link' \in [Clients -> Conns \cup {0}]
    BY <2>1 DEF Basics, Types
  <2> QED BY <1>1, <2>2, <2>3 DEF Connect, Basics, Types, serverVars, pollVars
<1>2. ASSUME NEW c \in Clients, Disconnect(c) PROVE Types'
  <2>1. PICK before \in {event_queue[c], <<>>} : Leaves(c, before)
    BY <1>2 DEF Disconnect
  <2>2. Append(before, Event("Disconnected", link[c])) \in Seq(Messages)
    <3>1. link[c] \in Conns /\ before \in Seq(Messages)
      <4>1. c \in Ends /\ link[c] # 0
        BY <2>1 DEF Leaves, Ends
      <4>2. link[c] \in Conns /\ event_queue[c] \in Seq(Messages) /\ <<>> \in Seq(Messages)
        BY <4>1 DEF Basics, Types
      <4> QED BY <4>2
    <3>2. Event("Disconnected", link[c]) \in Messages
      BY <3>1, Typed DEF Basics, EventTypes
    <3> QED BY <3>1, <3>2
  <2> QED BY <1>2, <2>1, <2>2, SendTypes DEF Disconnect, Leaves, LeaveQueued, Basics, Types, serverVars, Ends
<1>3. ASSUME NEW id, Kick(id) PROVE Types'
  BY <1>3, FarClosedTypes DEF Kick, Basics, Types, clientVars, pollVars
<1>4. ASSUME NEW id, SendSnapshot(id) PROVE Types'
  BY <1>4, SendTypes DEF SendSnapshot, Basics, Types, clientVars, pollVars, serverVars
<1>5. CASE StopServer
  <2>1. Server \in Ends /\ <<>> \in Seq(Messages)
    BY DEF Ends
  <2>2. event_queue' \in [Ends -> Seq(Messages)]
    BY <1>5, <2>1 DEF StopServer, Basics, Types
  <2> QED BY <1>5, <2>2, FarClosedTypes DEF StopServer, Basics, Types, clientVars
<1> QED BY <1>1, <1>2, <1>3, <1>4, <1>5 DEF GameStep

LEMMA PollTypes ==
  ASSUME Basics, NEW e \in Ends, StartPoll(e) \/ CallbacksRan(e) \/ TakesEvents(e)
  PROVE  Types'
<1>1. CASE StartPoll(e)
  BY <1>1 DEF StartPoll, Basics, Types, clientVars
<1>2. CASE CallbacksRan(e)
  BY <1>2 DEF CallbacksRan, Basics, Types, clientVars
<1>3. CASE TakesEvents(e)
  <2>1. <<>> \in Seq(Messages) /\ event_queue[e] \in Seq(Messages)
    BY DEF Basics, Types
  <2> QED BY <1>3, <2>1 DEF TakesEvents, Basics, Types, clientVars
<1> QED BY <1>1, <1>2, <1>3

LEMMA CallbackTypes ==
  ASSUME Basics, NEW e \in Ends, RunsCallback(e)
  PROVE  Types'
<1> DEFINE call == Head(calls[e])
<1>1. call \in Calls /\ Tail(calls[e]) \in Seq(Calls) /\ calls[e] \in Seq(Calls) /\ calls[e] # <<>>
  BY DEF RunsCallback, Basics, Types
<1>2. call.conn \in Conns /\ event_queue[e] \in Seq(Messages)
  BY <1>1 DEF Calls, Basics, Types
<1>3. \A type \in EventTypes : Append(event_queue[e], Event(type, call.conn)) \in Seq(Messages)
  <2> HIDE DEF call
  <2>1. \A type \in EventTypes : Event(type, call.conn) \in Messages
    BY <1>2, Typed DEF Basics
  <2> QED BY <1>2, <2>1
<1>4. calls' \in [Ends -> Seq(Calls)] /\ UNCHANGED <<at, batch>>
  BY <1>1 DEF RunsCallback, Basics, Types
<1>5. CASE e = Server
  <2>1. ServerStatus(call)
    BY <1>5 DEF RunsCallback
  <2>2. CASE Accepts(call.conn)
    <3>1. conn \in [Conns -> Connections] /\ [conn EXCEPT ![call.conn].far = "accepted"] \in [Conns -> Connections]
      BY <1>2, FieldTypes DEF Basics, Types
    <3>2. conn' \in [Conns -> Connections]
      BY <2>2, <3>1, FarClosedTypes DEF Accepts
    <3> QED BY <1>4, <2>1, <2>2, <3>2 DEF ServerStatus, Accepts, Basics, Types, clientVars
  <2>3. CASE NewPeer(call.conn)
    BY <1>3, <1>4, <1>5, <2>1, <2>3 DEF ServerStatus, NewPeer, Queued, EventTypes, Basics, Types, clientVars
  <2>4. CASE LostPeer(call.conn)
    BY <1>3, <1>4, <1>5, <2>1, <2>4, FarClosedTypes DEF ServerStatus, LostPeer, Queued, EventTypes, Basics, Types, clientVars
  <2> QED BY <2>1, <2>2, <2>3, <2>4 DEF ServerStatus
<1>6. CASE e # Server
  <2>1. ClientStatus(e, call) /\ e \in Clients
    BY <1>6 DEF RunsCallback, Ends
  <2>2. CASE UNCHANGED <<conn, link, event_queue>>
    BY <1>4, <2>1, <2>2 DEF ClientStatus, Basics, Types
  <2>3. CASE Queued(e, Event("Connected", call.conn)) /\ UNCHANGED <<conn, link>>
    BY <1>3, <1>4, <2>1, <2>3 DEF ClientStatus, Queued, EventTypes, Basics, Types
  <2>4. CASE LostServer(e, call.conn)
    BY <1>3, <1>4, <2>1, <2>4, SendTypes DEF ClientStatus, LostServer, Queued, EventTypes, Basics, Types
  <2> QED BY <2>1, <2>2, <2>3, <2>4 DEF ClientStatus
<1> QED BY <1>5, <1>6

LEMMA ReceiveTypes ==
  ASSUME Basics
  PROVE  /\ ReceivesAtServer => Types'
         /\ \A c \in Clients : ReceivesAtClient(c) => Types'
<1>1. ASSUME ReceivesAtServer PROVE Types'
  <2>1. SetToSeq({Data("ack", h) : h \in InGroup}) \in Seq(Messages)
    <3>1. \A h \in InGroup : Data("ack", h) \in Messages
      BY Typed DEF Basics, InGroup
    <3> QED BY <3>1, AcksInOrder
  <2>2. conn' \in [Conns -> Connections]
    <3>1. \A h \in Conns : conn[h] \in Connections /\ [conn[h] EXCEPT !.up = {}] \in Connections
      BY ZenonT(40) DEF Basics, Types, Connections
    <3> QED BY <1>1, <3>1 DEF ReceivesAtServer
  <2> QED BY <1>1, <2>1, <2>2 DEF ReceivesAtServer, Basics, Types, clientVars
<1>2. ASSUME NEW c \in Clients, ReceivesAtClient(c) PROVE Types'
  <2>1. link[c] \in Conns
    BY <1>2, SessionAssumption DEF ReceivesAtClient, Unread, Basics, Types
  <2>2. conn[link[c]] \in Connections
    BY <2>1, Typed DEF Basics
  <2>3. PICK order \in SetToSeqs({Data(m, link[c]) : m \in conn[link[c]].down}) : batch' = [batch EXCEPT ![c] = order]
    BY <1>2 DEF ReceivesAtClient
  <2>4. order \in Seq({Data(m, link[c]) : m \in conn[link[c]].down})
    BY <2>2, DataInOrder DEF Connections
  <2>5. order \in Seq(Messages)
    <3>1. \A m \in conn[link[c]].down : Data(m, link[c]) \in Messages
      BY <2>1, <2>2, Typed DEF Basics, Connections
    <3> QED BY <2>4, <3>1
  <2>6. conn' \in [Conns -> Connections]
    <3>1. [conn EXCEPT ![link[c]].down = {}] \in [Conns -> Connections]
      BY <2>1, FieldTypes DEF Basics, Types
    <3> QED BY <1>2, <3>1 DEF ReceivesAtClient
  <2> QED BY <1>2, <2>3, <2>5, <2>6 DEF ReceivesAtClient, Basics, Types, clientVars
<1> QED BY <1>1, <1>2

LEMMA HandleTypes ==
  ASSUME Basics
  PROVE  /\ ServerHandles => Types'
         /\ \A c \in Clients : ClientHandles(c) => Types'
<1>1. ASSUME NEW e \in Ends, batch[e] # <<>>
      PROVE  batch[e] \in Seq(Messages) /\ Head(batch[e]) \in Messages /\ Tail(batch[e]) \in Seq(Messages)
  BY <1>1 DEF Basics, Types
<1>2. ASSUME ServerHandles PROVE Types'
  <2>1. Server \in Ends /\ batch[Server] # <<>>
    BY <1>2 DEF ServerHandles, Ends
  <2>2. conn' \in [Conns -> Connections]
    BY <1>2, SendTypes DEF ServerHandles, Basics, Types
  <2>3. batch' \in [Ends -> Seq(Messages)]
    BY <1>1, <1>2, <2>1 DEF ServerHandles, Basics, Types
  <2> QED BY <1>2, <2>2, <2>3 DEF ServerHandles, Basics, Types, clientVars
<1>3. ASSUME NEW c \in Clients, ClientHandles(c) PROVE Types'
  <2> DEFINE event == Head(batch[c])
  <2>1. c \in Ends /\ batch[c] # <<>>
    BY <1>3 DEF ClientHandles, Ends
  <2>2. event \in Messages /\ event.conn \in Conns
    BY <1>1, <2>1 DEF Messages
  <2>3. batch' \in [Ends -> Seq(Messages)] /\ UNCHANGED <<calls, at>>
    BY <1>1, <1>3, <2>1 DEF ClientHandles, Basics, Types
  <2>4. CASE UNCHANGED <<conn, link, event_queue>> /\ (welcomed' = welcomed \/ \E h \in Conns \cup {0} : welcomed' = [welcomed EXCEPT ![c] = h])
    BY <2>3, <2>4 DEF Basics, Types
  <2>5. CASE Leaves(c, event_queue[c]) /\ UNCHANGED welcomed
    <3>1. link[c] \in Conns /\ event_queue[c] \in Seq(Messages)
      BY <2>1, <2>5 DEF Leaves, Basics, Types
    <3>2. Append(event_queue[c], Event("Disconnected", link[c])) \in Seq(Messages)
      BY <3>1, Typed DEF Basics, EventTypes
    <3> QED BY <2>3, <2>5, <3>2, SendTypes DEF Leaves, LeaveQueued, Basics, Types
  <2>6. CASE ReceivesSnapshot(c) /\ UNCHANGED welcomed
    BY <2>3, <2>6, SendTypes DEF ReceivesSnapshot, Basics, Types
  <2> QED BY <1>3, <2>2, <2>4, <2>5, <2>6 DEF ClientHandles, ReceivesWelcome, ReceivesSnapshot
<1> QED BY <1>2, <1>3

LEMMA TypesKept ==
  ASSUME Basics, [Next]_vars
  PROVE  Types'
<1>1. ASSUME NEW e \in Ends, PollStep(e) PROVE Types'
  BY <1>1, PollTypes, CallbackTypes, ReceiveTypes, HandleTypes DEF PollStep, Ends
<1>2. CASE UNCHANGED vars
  BY <1>2 DEF vars, clientVars, serverVars, pollVars, Basics, Types
<1> QED BY <1>1, <1>2, LibraryTypes, GameTypes, PollTypes DEF Next

--------------------------------------------------------------------------------
(* What a step does: to the connections, the links, and the queues of each end. *)

\* What no step but Connect does: it makes no connection, and names none anew.
Quiet ==
  \A h \in Conns :
    /\ conn'[h].owner = conn[h].owner /\ conn'[h].peer = conn[h].peer
    /\ (conn'[h].near = "none") = (conn[h].near = "none")
    /\ conn'[h].far # "none" => Made(h)
Stays == \A h \in Conns : Made(h) => Made(h)' /\ PeerOf(h)' = PeerOf(h)

LEMMA FarClosedQuiet ==
  ASSUME Basics, NEW H, \A h \in H : h \in Conns => Made(h), conn' = FarClosed(H)
  PROVE  Quiet
<1>1. conn \in [Conns -> Connections]
  BY DEF Basics, Types
<1>2. ASSUME NEW h \in Conns
      PROVE  /\ conn'[h].owner = conn[h].owner /\ conn'[h].peer = conn[h].peer
             /\ (conn'[h].near = "none") = (conn[h].near = "none")
             /\ conn'[h].far # "none" => Made(h)
  <2>1. CASE h \in H
    BY <1>1, <2>1 DEF FarClosed, Connections
  <2>2. CASE h \notin H
    BY <1>1, <2>2 DEF FarClosed, Connections, Basics, ShapeOK
  <2> QED BY <2>1, <2>2
<1> QED BY <1>2 DEF Quiet

LEMMA SendQuiet ==
  ASSUME Basics, NEW h, NEW m, conn' \in {conn, Downs(h, m), Ups(h, m)}
  PROVE  Quiet
<1>1. CASE conn' = conn
  BY <1>1 DEF Quiet, Basics, ShapeOK
<1>2. CASE conn' = Downs(h, m)
  BY <1>1, <1>2 DEF Quiet, Downs, Basics, ShapeOK, Types, Connections
<1>3. CASE conn' = Ups(h, m)
  BY <1>1, <1>3 DEF Quiet, Ups, Basics, ShapeOK, Types, Connections
<1> QED BY <1>1, <1>2, <1>3

LEMMA NearClosedQuiet ==
  ASSUME Basics, NEW h \in Conns, Made(h), conn' = NearClosed(h)
  PROVE  Quiet
BY DEF NearClosed, Quiet, Basics, Types, Connections, ShapeOK, Made

LEMMA MostAreQuiet ==
  ASSUME Basics, [Next]_vars
  PROVE  Quiet \/ \E c \in Clients : Connect(c)
<1> USE DEF Basics
<1>1. ASSUME NEW h \in Conns, Library(h) PROVE Quiet
  <2>1. conn[h] \in Connections /\ conn \in [Conns -> Connections]
    BY DEF Types
  <2>2. CASE Asks(h)
    BY <2>1, <2>2 DEF Asks, Quiet, ShapeOK, Made
  <2>3. CASE OpensFar(h)
    BY <2>1, <2>3 DEF OpensFar, Quiet, ShapeOK, Made
  <2>4. CASE OpensNear(h)
    BY <2>1, <2>4 DEF OpensNear, Quiet, ShapeOK, Made
  <2>5. CASE LosesFar(h)
    BY <2>1, <2>5 DEF LosesFar, Quiet, ShapeOK, Made
  <2>6. CASE LosesNear(h)
    BY <2>1, <2>6 DEF LosesNear, Quiet, ShapeOK, Made
  <2> QED BY <1>1, <2>2, <2>3, <2>4, <2>5, <2>6 DEF Library
<1>2. ASSUME conn' = conn PROVE Quiet
  BY <1>2, SendQuiet
<1>3. ASSUME NEW c \in Clients, NEW before, Leaves(c, before) PROVE Quiet
  <2>1. link[c] \in Conns /\ Made(link[c])
    BY <1>3 DEF Leaves, Types, ShapeOK
  <2> QED BY <1>3, <2>1, NearClosedQuiet DEF Leaves
<1>4. ASSUME GameStep PROVE Quiet \/ \E c \in Clients : Connect(c)
  <2>1. ASSUME NEW c \in Clients, Disconnect(c) PROVE Quiet
    BY <1>3, <2>1 DEF Disconnect
  <2>2. ASSUME NEW id \in DOMAIN peers, Kick(id) PROVE Quiet
    BY <2>2, FarClosedQuiet DEF Kick, MapsOK
  <2>3. ASSUME NEW id \in DOMAIN peers, SendSnapshot(id) PROVE Quiet
    BY <2>3, SendQuiet DEF SendSnapshot
  <2>4. CASE StopServer
    BY <2>4, FarClosedQuiet DEF StopServer, ShapeOK
  <2> QED BY <1>4, <2>1, <2>2, <2>3, <2>4 DEF GameStep
<1>5. ASSUME NEW e \in Ends, RunsCallback(e) PROVE Quiet
  <2> DEFINE call == Head(calls[e])
  <2>1. calls[e] \in Seq(Calls) /\ calls[e] # <<>>
    BY <1>5 DEF RunsCallback, Types
  <2>2. call \in Calls /\ call = calls[e][1] /\ 1 \in DOMAIN calls[e]
    BY <2>1
  <2>3. call.conn \in Conns /\ Made(call.conn)
    BY <2>2 DEF Calls, NamesOK, MadeIn
  <2>4. CASE conn' = FarClosed({call.conn})
    BY <2>3, <2>4, FarClosedQuiet
  <2>5. CASE conn' = [conn EXCEPT ![call.conn].far = "accepted"] /\ conn[call.conn].far = "asked"
    <3> HIDE DEF call
    <3> QED BY <2>3, <2>5 DEF Quiet, Types, Connections, ShapeOK
  <2>6. CASE conn' = NearClosed(call.conn)
    BY <2>3, <2>6, NearClosedQuiet
  <2>7. CASE e = Server
    <3> ServerStatus(call)
      BY <1>5, <2>7 DEF RunsCallback
    <3> HIDE DEF call
    <3> QED BY <1>2, <2>4, <2>5 DEF ServerStatus, Accepts, NewPeer, LostPeer
  <2>8. CASE e # Server
    <3> ClientStatus(e, call)
      BY <1>5, <2>8 DEF RunsCallback
    <3> HIDE DEF call
    <3> QED BY <1>2, <2>6 DEF ClientStatus, LostServer
  <2> QED BY <2>7, <2>8
<1>6. ASSUME NEW e \in Ends, PollStep(e) PROVE Quiet
  <2>1. CASE CallbacksRan(e) \/ TakesEvents(e)
    BY <1>2, <2>1 DEF CallbacksRan, TakesEvents
  <2>2. CASE ReceivesAtServer
    BY <2>2 DEF ReceivesAtServer, Quiet, ShapeOK, Types, Connections
  <2>3. CASE ReceivesAtClient(e)
    BY <2>3 DEF ReceivesAtClient, Quiet, ShapeOK, Types, Connections
  <2>4. CASE ServerHandles
    BY <2>4, SendQuiet DEF ServerHandles
  <2>5. CASE e \in Clients /\ ClientHandles(e)
    BY <1>2, <1>3, <2>5, SendQuiet DEF ClientHandles, ReceivesWelcome, ReceivesSnapshot
  <2> QED BY <1>5, <1>6, <2>1, <2>2, <2>3, <2>4, <2>5 DEF PollStep, Ends
<1>7. ASSUME NEW e \in Ends, StartPoll(e) PROVE Quiet
  BY <1>2, <1>7 DEF StartPoll
<1>8. ASSUME UNCHANGED vars PROVE Quiet
  BY <1>2, <1>8 DEF vars
<1> QED BY <1>1, <1>4, <1>6, <1>7, <1>8 DEF Next, GameStep

LEMMA ConnectMakes ==
  ASSUME Basics, NEW c \in Clients, Connect(c)
  PROVE  \E h \in Conns :
           /\ ~Made(h) /\ Made(h)' /\ conn'[h].owner = c /\ conn'[h].peer \in {h, c}
           /\ \A k \in 1 .. h - 1 : Made(k)
           /\ conn'[h].far = "none" /\ conn'[h].down = conn[h].down /\ conn'[h].up = conn[h].up
           /\ link' = [link EXCEPT ![c] = h]
           /\ \A k \in Conns \ {h} : conn'[k] = conn[k]
<1>1. PICK h \in Conns, id \in Conns \cup Clients :
        /\ id \in {c, h} /\ conn[h].near = "none" /\ \A k \in 1 .. h - 1 : conn[k].near # "none"
        /\ conn' = [conn EXCEPT ![h] = [@ EXCEPT !.owner = c, !.peer = id, !.near = "connecting"]]
        /\ link' = [link EXCEPT ![c] = h]
  BY DEF Connect
<1>2. conn[h] \in Connections /\ conn \in [Conns -> Connections] /\ conn[h].far = "none"
  BY <1>1 DEF Basics, Types, ShapeOK, Made
<1>3. conn'[h] = [conn[h] EXCEPT !.owner = c, !.peer = id, !.near = "connecting"]
      /\ \A k \in Conns \ {h} : conn'[k] = conn[k]
  BY <1>1, <1>2
<1>4. conn'[h].near = "connecting" /\ conn'[h].owner = c /\ conn'[h].peer = id /\ conn'[h].far = "none"
      /\ conn'[h].down = conn[h].down /\ conn'[h].up = conn[h].up
  BY <1>2, <1>3 DEF Connections
<1> QED BY <1>1, <1>3, <1>4 DEF Made

LEMMA Staying ==
  ASSUME Basics, [Next]_vars
  PROVE  Stays
<1>1. CASE Quiet
  BY <1>1 DEF Quiet, Stays, Made, PeerOf
<1>2. ASSUME NEW c \in Clients, Connect(c) PROVE Stays
  BY <1>2, ConnectMakes DEF Stays, Made, PeerOf
<1> QED BY <1>1, <1>2, MostAreQuiet

\* The links and welcomes that a step gives a client.
LEMMA LinksStep ==
  ASSUME Basics, [Next]_vars, NEW c \in Clients
  PROVE  /\ link'[c] \in {0, link[c]} \/ Connect(c)
         /\ welcomed'[c] \in {0, welcomed[c]} \/ (welcomed'[c] \in Conns /\ Made(welcomed'[c]))
<1> USE DEF Basics
<1>1. CASE UNCHANGED clientVars
  BY <1>1 DEF clientVars
<1>2. ASSUME NEW d \in Clients, NEW before, Leaves(d, before), UNCHANGED welcomed PROVE link'[c] \in {0, link[c]}
  BY <1>2 DEF Leaves, Types
<1>3. CASE GameStep
  <2>1. ASSUME NEW d \in Clients, Connect(d) PROVE link'[c] \in {0, link[c]} \/ Connect(c)
    <3>1. CASE c = d
      BY <2>1, <3>1
    <3>2. CASE c # d
      <4> PICK h \in Conns : link' = [link EXCEPT ![d] = h]
        BY <2>1 DEF Connect
      <4> QED BY <3>2 DEF Types
    <3> QED BY <3>1, <3>2
  <2>2. ASSUME NEW d \in Clients, Disconnect(d) PROVE link'[c] \in {0, link[c]}
    BY <2>2, <1>2 DEF Disconnect
  <2> QED BY <1>1, <1>3, <2>1, <2>2 DEF GameStep, Kick, SendSnapshot, StopServer, Connect, Disconnect
<1>4. ASSUME NEW e \in Ends, RunsCallback(e)
      PROVE  link'[c] \in {0, link[c]} /\ welcomed'[c] = welcomed[c]
  BY <1>4 DEF RunsCallback, ServerStatus, ClientStatus, LostServer, clientVars, Types
<1>5. ASSUME NEW d \in Clients, ClientHandles(d)
      PROVE  /\ link'[c] \in {0, link[c]}
             /\ welcomed'[c] \in {0, welcomed[c]} \/ (welcomed'[c] \in Conns /\ Made(welcomed'[c]))
  <2> DEFINE event == Head(batch[d])
  <2>1. event \in Messages /\ event = batch[d][1] /\ 1 \in DOMAIN batch[d]
    BY <1>5 DEF ClientHandles, Types, Ends
  <2>2. event.conn \in Conns /\ Made(event.conn)
    BY <2>1 DEF Messages, NamesOK, PeersIn, Ends
  <2>3. CASE UNCHANGED link /\ (\/ UNCHANGED welcomed \/ welcomed' = [welcomed EXCEPT ![d] = 0]
                                \/ welcomed' = [welcomed EXCEPT ![d] = event.conn])
    BY <2>2, <2>3 DEF Types
  <2>4. CASE Leaves(d, event_queue[d]) /\ UNCHANGED welcomed
    BY <1>2, <2>4
  <2> QED BY <1>5, <2>3, <2>4 DEF ClientHandles, ReceivesWelcome, ReceivesSnapshot
<1>6. CASE UNCHANGED vars
  BY <1>1, <1>6 DEF vars
<1>7. ASSUME NEW h \in Conns, Library(h) PROVE UNCHANGED clientVars
  BY <1>7 DEF Library, Asks, OpensFar, OpensNear, LosesFar, LosesNear
<1>8. ASSUME NEW e \in Ends, StartPoll(e) \/ CallbacksRan(e) \/ TakesEvents(e) PROVE UNCHANGED clientVars
  BY <1>8 DEF StartPoll, CallbacksRan, TakesEvents
<1>9. ReceivesAtServer \/ ServerHandles \/ (\E d \in Clients : ReceivesAtClient(d)) => UNCHANGED clientVars
  BY DEF ReceivesAtServer, ServerHandles, ReceivesAtClient
<1> QED BY <1>1, <1>3, <1>4, <1>5, <1>6, <1>7, <1>8, <1>9 DEF Next, PollStep, Ends

LEMMA ShapeKept ==
  ASSUME Basics, [Next]_vars
  PROVE  ShapeOK'
<1> USE DEF Basics
<1>1. CASE Quiet
  <2>1. \A h \in Conns : Made(h)' = Made(h)
    BY <1>1 DEF Quiet, Made
  <2>2. \A c \in Clients : \A h \in {link'[c], welcomed'[c]} \ {0} : Made(h)'
    <3> SUFFICES ASSUME NEW c \in Clients, NEW h \in {link'[c], welcomed'[c]} \ {0} PROVE Made(h)'
      OBVIOUS
    <3>1. h \in Conns
      BY TypesKept DEF Types
    <3>2. CASE Connect(c)
      BY <1>1, <2>1, <3>1, <3>2, ConnectMakes
    <3>3. CASE ~Connect(c)
      BY <2>1, <3>1, <3>3, LinksStep DEF ShapeOK
    <3> QED BY <3>2, <3>3
  <2>3. \A h \in Conns : \A k \in 1 .. h - 1 : k \in Conns
    BY SessionAssumption DEF Conns
  <2> QED BY <1>1, <2>1, <2>2, <2>3 DEF Quiet, ShapeOK
<1>2. ASSUME NEW c \in Clients, Connect(c) PROVE ShapeOK'
  <2>1. PICK h \in Conns :
           /\ ~Made(h) /\ Made(h)' /\ conn'[h].owner = c /\ conn'[h].peer \in {h, c}
           /\ \A k \in 1 .. h - 1 : Made(k)
           /\ conn'[h].far = "none"
           /\ link' = [link EXCEPT ![c] = h]
           /\ \A k \in Conns \ {h} : conn'[k] = conn[k]
    BY <1>2, ConnectMakes
  <2>2. \A k \in Conns : \A l \in 1 .. k - 1 : l \in Conns
    BY SessionAssumption DEF Conns
  <2>3. \A k \in Conns \ {h} : Made(k)' = Made(k)
    BY <2>1 DEF Made
  <2>4. \A d \in Clients : \A k \in {link'[d], welcomed'[d]} \ {0} : Made(k)'
    <3> SUFFICES ASSUME NEW d \in Clients, NEW k \in {link'[d], welcomed'[d]} \ {0} PROVE Made(k)'
      OBVIOUS
    <3>1. k = h \/ (k \in {link[d], welcomed[d]} \ {0} /\ Made(k))
      BY <1>2, <2>1 DEF Connect, ShapeOK, Types
    <3> QED BY <2>1, <2>3, <3>1 DEF Types
  <2> QED BY <2>1, <2>2, <2>3, <2>4 DEF ShapeOK
<1> QED BY <1>1, <1>2, MostAreQuiet

--------------------------------------------------------------------------------
(* What a step does to a queue of events.                                       *)

\* How an end polls: it goes on to the next pass, reads messages, or takes its events.
Goes(e) ==
  /\ UNCHANGED <<event_queue[e], batch[e]>> /\ batch[e] = <<>>
  /\ \/ at[e] = "game" /\ at'[e] = "callbacks"
     \/ at[e] = "callbacks" /\ at'[e] = "receive"
Reads(e, M) ==
  /\ at[e] = "receive" /\ batch[e] = <<>> /\ UNCHANGED <<event_queue[e], at[e]>>
  /\ batch'[e] \in Seq(Messages)
  /\ \A n \in DOMAIN batch'[e] : batch'[e][n] \in M
Takes(e) ==
  /\ at[e] = "receive" /\ batch[e] = <<>>
  /\ at'[e] = "game" /\ batch'[e] = event_queue[e] /\ event_queue'[e] = <<>>
Polls(e, M) == Goes(e) \/ Reads(e, M) \/ Takes(e)

\* What a client does, in terms of its own variables.
Idles(c) == UNCHANGED <<link[c], welcomed[c], event_queue[c], batch[c], at[c]>>
Joins(c) ==
  \E h \in Conns :
    /\ link[c] = 0 /\ batch[c] = <<>> /\ ~Made(h) /\ \A k \in 1 .. h - 1 : Made(k)
    /\ link'[c] = h /\ UNCHANGED <<welcomed[c], event_queue[c], batch[c], at[c]>>
EndsLink(c, before) ==
  /\ link[c] # 0 /\ link'[c] = 0 /\ event_queue'[c] = Append(before, Event("Disconnected", link[c]))
  /\ UNCHANGED <<welcomed[c], at[c]>>
Quits(c) == batch[c] = <<>> /\ UNCHANGED batch[c] /\ (EndsLink(c, event_queue[c]) \/ EndsLink(c, <<>>))
Opens(c) ==
  /\ link[c] # 0 /\ event_queue'[c] = Append(event_queue[c], Event("Connected", link[c]))
  /\ UNCHANGED <<link[c], welcomed[c], batch[c], at[c]>>
Hands(c) ==
  LET event == Head(batch[c]) IN
  /\ batch[c] # <<>> /\ batch'[c] = Tail(batch[c])
  /\ \/ event.type \in {"Connected", "snapshot"} /\ UNCHANGED <<link[c], welcomed[c], event_queue[c], at[c]>>
     \/ event.type = "Disconnected" /\ welcomed'[c] = 0 /\ UNCHANGED <<link[c], event_queue[c], at[c]>>
     \/ event.type = "welcome" /\ welcomed'[c] = event.conn /\ UNCHANGED <<link[c], event_queue[c], at[c]>>
     \/ event.type = "welcome" /\ EndsLink(c, event_queue[c])
ReadsOf(c) == {Data(m, link[c]) : m \in conn[link[c]].down}
ClientPolls(c) == (Goes(c) \/ (Reads(c, ReadsOf(c)) /\ link[c] # 0) \/ Takes(c)) /\ UNCHANGED <<link[c], welcomed[c]>>
ClientStep(c) == Idles(c) \/ Joins(c) \/ Quits(c) \/ Opens(c) \/ Hands(c) \/ ClientPolls(c)

LEMMA ClientSteps ==
  ASSUME Basics, [Next]_vars, NEW c \in Clients
  PROVE  ClientStep(c)
<1> USE DEF Basics
<1> c \in Ends /\ Server \in Ends /\ c # Server
  BY SessionAssumption DEF Ends
<1>1. CASE UNCHANGED <<clientVars, event_queue, batch, at>>
  BY <1>1 DEF clientVars, ClientStep, Idles
<1>2. ASSUME NEW d \in Clients, NEW before, Leaves(d, before), UNCHANGED <<welcomed, at>>
      PROVE  /\ d # c => link'[c] = link[c] /\ event_queue'[c] = event_queue[c]
             /\ d = c => EndsLink(c, before)
  BY <1>2 DEF Leaves, LeaveQueued, EndsLink, Types, Ends
<1>3. ASSUME NEW d \in Clients, Connect(d) PROVE ClientStep(c)
  <2>1. PICK h \in Conns : conn[h].near = "none" /\ (\A k \in 1 .. h - 1 : conn[k].near # "none") /\ link' = [link EXCEPT ![d] = h]
    BY <1>3 DEF Connect
  <2>2. UNCHANGED <<welcomed, event_queue, batch, at>> /\ InGame(d) /\ link[d] = 0
    BY <1>3 DEF Connect, pollVars
  <2>3. CASE d = c
    <3> link'[c] = h
      BY <2>1, <2>3 DEF Types
    <3> QED BY <2>1, <2>2, <2>3 DEF InGame, ClientStep, Joins, Made
  <2>4. CASE d # c
    BY <2>1, <2>2, <2>4 DEF ClientStep, Idles, Types
  <2> QED BY <2>3, <2>4
<1>4. ASSUME NEW d \in Clients, Disconnect(d) PROVE ClientStep(c)
  <2>1. PICK before \in {event_queue[d], <<>>} : Leaves(d, before)
    BY <1>4 DEF Disconnect
  <2>2. UNCHANGED <<welcomed, at, batch>> /\ batch[d] = <<>>
    BY <1>4 DEF Disconnect, InGame
  <2> QED BY <1>2, <2>1, <2>2 DEF ClientStep, Idles, Quits
<1>5. ASSUME NEW id, Kick(id) \/ SendSnapshot(id) PROVE ClientStep(c)
  BY <1>1, <1>5 DEF Kick, SendSnapshot, clientVars, pollVars
<1>6. CASE StopServer
  BY <1>6 DEF StopServer, clientVars, ClientStep, Idles, Types
<1>7. ASSUME NEW h \in Conns, Library(h) PROVE ClientStep(c)
  BY <1>1, <1>7 DEF Library, Asks, OpensFar, OpensNear, LosesFar, LosesNear, clientVars, pollVars
<1>8. ASSUME NEW e \in Ends, StartPoll(e) \/ CallbacksRan(e) PROVE ClientStep(c)
  <2>1. UNCHANGED <<clientVars, event_queue, batch>>
    BY <1>8 DEF StartPoll, CallbacksRan
  <2>2. CASE e = c /\ StartPoll(c)
    BY <2>1, <2>2 DEF StartPoll, InGame, ClientStep, ClientPolls, Goes, clientVars, Types
  <2>3. CASE e = c /\ CallbacksRan(c)
    <3> batch[c] = <<>>
      BY <2>3 DEF CallbacksRan, PassesOK
    <3> QED BY <2>1, <2>3 DEF CallbacksRan, ClientStep, ClientPolls, Goes, clientVars, Types
  <2>4. CASE e # c
    BY <1>8, <2>1, <2>4 DEF StartPoll, CallbacksRan, ClientStep, Idles, clientVars, Types
  <2> QED BY <1>8, <2>2, <2>3, <2>4
<1>9. ASSUME NEW e \in Ends, TakesEvents(e) PROVE ClientStep(c)
  <2>1. CASE e = c
    BY <1>9, <2>1 DEF TakesEvents, ClientStep, ClientPolls, Takes, clientVars, Types
  <2>2. CASE e # c
    BY <1>9, <2>2 DEF TakesEvents, ClientStep, Idles, clientVars, Types
  <2> QED BY <2>1, <2>2
<1>10. ASSUME NEW e \in Ends, RunsCallback(e) PROVE ClientStep(c)
  <2> DEFINE call == Head(calls[e])
  <2>1. UNCHANGED <<at, batch>>
    BY <1>10 DEF RunsCallback
  <2>2. CASE e = Server
    <3>1. ServerStatus(call)
      BY <1>10, <2>2 DEF RunsCallback
    <3>2. event_queue'[c] = event_queue[c] /\ UNCHANGED clientVars
      BY <3>1 DEF ServerStatus, Accepts, NewPeer, LostPeer, Queued, Types
    <3> QED BY <2>1, <3>2 DEF ClientStep, Idles, clientVars
  <2>3. CASE e # Server
    <3>1. ClientStatus(e, call) /\ e \in Clients
      BY <1>10, <2>3 DEF RunsCallback, Ends
    <3> HIDE DEF call
    <3>2. CASE e # c
      BY <2>1, <3>1, <3>2 DEF ClientStatus, LostServer, Queued, ClientStep, Idles, Types
    <3>3. CASE e = c /\ UNCHANGED <<link, event_queue>>
      BY <2>1, <3>1, <3>3 DEF ClientStatus, ClientStep, Idles
    <3>4. CASE e = c /\ call.conn = link[c] /\ Queued(c, Event("Connected", call.conn)) /\ UNCHANGED link
      <4> link[c] # 0
        <5> calls[e] \in Seq(Calls) /\ calls[e] # <<>>
          BY <1>10 DEF RunsCallback, Types
        <5> call \in Calls
          BY DEF call
        <5> QED BY <3>4 DEF Calls, Conns
      <4> QED BY <2>1, <3>1, <3>4 DEF ClientStatus, ClientStep, Opens, Queued, Types
    <3>5. CASE e = c /\ call.conn = link[c] /\ LostServer(c, call.conn)
      <4>1. link[c] # 0
        <5> calls[e] \in Seq(Calls) /\ calls[e] # <<>>
          BY <1>10 DEF RunsCallback, Types
        <5> call \in Calls
          BY DEF call
        <5> QED BY <3>5 DEF Calls, Conns
      <4>2. batch[c] = <<>>
        BY <1>10, <3>5 DEF RunsCallback, PassesOK
      <4>3. EndsLink(c, event_queue[c])
        BY <2>1, <3>1, <3>5, <4>1 DEF ClientStatus, LostServer, EndsLink, Queued, Types
      <4> QED BY <2>1, <4>2, <4>3 DEF ClientStep, Quits
    <3> QED BY <3>1, <3>2, <3>3, <3>4, <3>5 DEF ClientStatus
  <2> QED BY <2>2, <2>3
<1>11. CASE ReceivesAtServer \/ ServerHandles
  BY <1>11 DEF ReceivesAtServer, ServerHandles, clientVars, ClientStep, Idles, Types
<1>12. ASSUME NEW d \in Clients, ReceivesAtClient(d) PROVE ClientStep(c)
  <2>1. CASE d # c
    BY <1>12, <2>1 DEF ReceivesAtClient, clientVars, ClientStep, Idles, Types
  <2>2. CASE d = c
    <3>1. link[c] \in Conns
      BY <1>12, <2>2 DEF ReceivesAtClient, Unread, Types
    <3>2. PICK order \in SetToSeqs({Data(m, link[c]) : m \in conn[link[c]].down}) : batch' = [batch EXCEPT ![c] = order]
      <4> ReceivesAtClient(c)
        BY <1>12, <2>2
      <4> QED BY DEF ReceivesAtClient
    <3>3. order \in Seq(ReadsOf(c))
      BY <3>1, <3>2, DataInOrder DEF ReadsOf, Types, Connections
    <3>4. batch'[c] = order
      BY <3>2 DEF Types
    <3>5. batch'[c] \in Seq(Messages) /\ \A n \in DOMAIN batch'[c] : batch'[c][n] \in ReadsOf(c)
      BY <3>3, <3>4, TypesKept DEF Types
    <3> QED BY <1>12, <2>2, <3>1, <3>5 DEF ReceivesAtClient, clientVars, ClientStep, ClientPolls, Reads, Conns
  <2> QED BY <2>1, <2>2
<1>13. ASSUME NEW d \in Clients, ClientHandles(d) PROVE ClientStep(c)
  <2> DEFINE event == Head(batch[d])
  <2>1. batch[d] # <<>> /\ batch' = [batch EXCEPT ![d] = Tail(@)] /\ UNCHANGED at
    BY <1>13 DEF ClientHandles
  <2>2. CASE d # c
    <3>1. batch'[c] = batch[c]
      BY <2>1, <2>2 DEF Types
    <3>2. link'[c] = link[c] /\ welcomed'[c] = welcomed[c] /\ event_queue'[c] = event_queue[c]
      BY <1>2, <1>13, <2>1, <2>2 DEF ClientHandles, ReceivesWelcome, ReceivesSnapshot, Types
    <3> QED BY <2>1, <3>1, <3>2 DEF ClientStep, Idles
  <2>3. CASE d = c
    <3>1. batch'[c] = Tail(batch[c])
      BY <2>1, <2>3 DEF Types, Ends
    <3>2. CASE Head(batch[c]).type \in {"Connected", "snapshot"} /\ UNCHANGED <<link, welcomed, event_queue>>
      BY <2>1, <2>3, <3>1, <3>2 DEF ClientStep, Hands
    <3>3. CASE Head(batch[c]).type = "Disconnected" /\ UNCHANGED <<link, event_queue>> /\ welcomed' = [welcomed EXCEPT ![c] = 0]
      BY <2>1, <2>3, <3>1, <3>3 DEF ClientStep, Hands, Types
    <3>4. CASE Head(batch[c]).type = "welcome" /\ UNCHANGED <<link, event_queue>> /\ welcomed' = [welcomed EXCEPT ![c] = Head(batch[c]).conn]
      BY <2>1, <2>3, <3>1, <3>4 DEF ClientStep, Hands, Types
    <3>5. CASE Head(batch[c]).type = "welcome" /\ Leaves(c, event_queue[c]) /\ UNCHANGED welcomed
      BY <1>2, <2>1, <2>3, <3>1, <3>5 DEF ClientStep, Hands
    <3> QED BY <1>13, <2>3, <3>2, <3>3, <3>4, <3>5 DEF ClientHandles, ReceivesWelcome, ReceivesSnapshot
  <2> QED BY <2>2, <2>3
<1>14. CASE UNCHANGED vars
  BY <1>1, <1>14 DEF vars, pollVars
<1> QED BY <1>3, <1>4, <1>5, <1>6, <1>7, <1>8, <1>9, <1>10, <1>11, <1>12, <1>13, <1>14 DEF Next, GameStep, PollStep, Ends

\* What the server does, in terms of its own variables.
serverState == <<peer_to_conn, conn_to_peer, peers>>
Waits == UNCHANGED <<event_queue[Server], batch[Server], at[Server]>>
Rests == Waits /\ UNCHANGED <<serverState, kicked>>
Enters == \E h \in Conns :
  /\ Made(h) /\ at[Server] = "callbacks" /\ NewPeer(h)
  /\ event_queue'[Server] = Append(event_queue[Server], Event("Connected", h)) /\ UNCHANGED <<batch[Server], at[Server]>>
Loses == \E h \in Conns :
  /\ Made(h) /\ at[Server] = "callbacks" /\ LostPeer(h)
  /\ event_queue'[Server] = Append(event_queue[Server], Event("Disconnected", h)) /\ UNCHANGED <<batch[Server], at[Server]>>
Kicks == \E id \in DOMAIN peer_to_conn : Kick(id) /\ Waits
Stops == StopServer /\ event_queue'[Server] = <<>> /\ UNCHANGED <<batch[Server], at[Server]>>
ServerPolls == Polls(Server, {Data("ack", h) : h \in InGroup}) /\ UNCHANGED <<serverState, kicked, orphaned>>
Serves == ServerHandles /\ batch'[Server] = Tail(batch[Server]) /\ UNCHANGED <<event_queue[Server], at[Server]>>
ServerStep == Rests \/ Enters \/ Loses \/ Kicks \/ Stops \/ ServerPolls \/ Serves

LEMMA ServerSteps ==
  ASSUME Basics, [Next]_vars
  PROVE  ServerStep /\ orphaned \subseteq orphaned' /\ kicked \subseteq kicked'
<1> USE DEF Basics
<1> Server \in Ends /\ \A c \in Clients : c # Server /\ c \in Ends
  BY SessionAssumption DEF Ends
<1>1. CASE UNCHANGED <<serverVars, event_queue, batch, at>>
  BY <1>1 DEF serverVars, ServerStep, Rests, Waits, serverState
<1>2. ASSUME NEW c \in Clients, Connect(c) PROVE UNCHANGED <<serverVars, event_queue, batch, at>>
  BY <1>2 DEF Connect, pollVars
<1>3. ASSUME NEW c \in Clients, NEW before, Leaves(c, before) PROVE event_queue'[Server] = event_queue[Server]
  BY <1>3 DEF Leaves, LeaveQueued, Types
<1>4. ASSUME NEW c \in Clients, Disconnect(c) PROVE Rests /\ UNCHANGED <<orphaned, kicked>>
  BY <1>3, <1>4 DEF Disconnect, serverVars, Rests, Waits, serverState
<1>5. ASSUME NEW id, Kick(id) PROVE Kicks /\ UNCHANGED orphaned /\ kicked \subseteq kicked'
  BY <1>5 DEF Kick, Kicks, Waits, pollVars
<1>6. ASSUME NEW id, SendSnapshot(id) PROVE UNCHANGED <<serverVars, event_queue, batch, at>>
  BY <1>6 DEF SendSnapshot, pollVars
<1>7. CASE StopServer
  <2>1. event_queue'[Server] = <<>> /\ UNCHANGED <<batch, at, orphaned>> /\ kicked \subseteq kicked'
    BY <1>7 DEF StopServer, Types
  <2> QED BY <1>7, <2>1 DEF ServerStep, Stops
<1>8. ASSUME NEW h \in Conns, Library(h) PROVE UNCHANGED <<serverVars, event_queue, batch, at>>
  BY <1>8 DEF Library, Asks, OpensFar, OpensNear, LosesFar, LosesNear, pollVars
<1>9. ASSUME NEW e \in Ends, StartPoll(e) \/ CallbacksRan(e) \/ TakesEvents(e) PROVE ServerStep /\ UNCHANGED <<orphaned, kicked>>
  <2>1. UNCHANGED serverVars
    BY <1>9 DEF StartPoll, CallbacksRan, TakesEvents
  <2>2. CASE e # Server
    BY <1>9, <2>1, <2>2 DEF StartPoll, CallbacksRan, TakesEvents, serverVars, ServerStep, Rests, Waits, serverState, Types
  <2>3. CASE e = Server /\ StartPoll(Server)
    BY <2>1, <2>3 DEF StartPoll, InGame, serverVars, ServerStep, ServerPolls, Polls, Goes, serverState, Types
  <2>4. CASE e = Server /\ CallbacksRan(Server)
    <3> batch[Server] = <<>>
      BY <2>4 DEF CallbacksRan, PassesOK
    <3> QED BY <2>1, <2>4 DEF CallbacksRan, serverVars, ServerStep, ServerPolls, Polls, Goes, serverState, Types
  <2>5. CASE e = Server /\ TakesEvents(Server)
    BY <2>1, <2>5 DEF TakesEvents, serverVars, ServerStep, ServerPolls, Polls, Takes, serverState, Types
  <2> QED BY <1>9, <2>2, <2>3, <2>4, <2>5
<1>10. ASSUME NEW e \in Ends, RunsCallback(e) PROVE ServerStep /\ orphaned \subseteq orphaned' /\ kicked \subseteq kicked'
  <2> DEFINE call == Head(calls[e])
  <2>1. UNCHANGED <<at, batch>> /\ at[e] = "callbacks"
    BY <1>10 DEF RunsCallback
  <2>2. calls[e] \in Seq(Calls) /\ calls[e] # <<>>
    BY <1>10 DEF RunsCallback, Types
  <2>3. call \in Calls /\ call = calls[e][1] /\ 1 \in DOMAIN calls[e]
    BY <2>2
  <2>4. call.conn \in Conns /\ Made(call.conn)
    BY <2>3 DEF Calls, NamesOK, MadeIn
  <2>5. CASE e # Server
    <3>1. ClientStatus(e, call)
      BY <1>10, <2>5 DEF RunsCallback
    <3>2. event_queue'[Server] = event_queue[Server] /\ UNCHANGED serverVars
      BY <2>5, <3>1 DEF ClientStatus, LostServer, Queued, Types
    <3> QED BY <2>1, <3>2 DEF serverVars, ServerStep, Rests, Waits, serverState
  <2>6. CASE e = Server
    <3>1. ServerStatus(call)
      BY <1>10, <2>6 DEF RunsCallback
    <3> HIDE DEF call
    <3>2. CASE Accepts(call.conn)
      BY <1>1, <2>1, <3>2 DEF Accepts, serverVars
    <3>3. CASE NewPeer(call.conn)
      <4>1. event_queue'[Server] = Append(event_queue[Server], Event("Connected", call.conn))
            /\ UNCHANGED <<orphaned, kicked>>
        BY <3>3 DEF NewPeer, Queued, Types
      <4> QED BY <2>1, <2>4, <2>6, <3>3, <4>1 DEF ServerStep, Enters
    <3>4. CASE LostPeer(call.conn)
      <4>1. event_queue'[Server] = Append(event_queue[Server], Event("Disconnected", call.conn))
            /\ orphaned \subseteq orphaned' /\ UNCHANGED kicked
        BY <3>4 DEF LostPeer, Queued, Types
      <4> QED BY <2>1, <2>4, <2>6, <3>4, <4>1 DEF ServerStep, Loses
    <3> QED BY <3>1, <3>2, <3>3, <3>4 DEF ServerStatus
  <2> QED BY <2>5, <2>6
<1>11. CASE ReceivesAtServer
  <2>1. SetToSeq({Data("ack", h) : h \in InGroup}) \in Seq({Data("ack", h) : h \in InGroup})
    BY AcksInOrder
  <2>2. batch'[Server] = SetToSeq({Data("ack", h) : h \in InGroup})
    BY <1>11 DEF ReceivesAtServer, Types
  <2>3. batch'[Server] \in Seq(Messages) /\ \A n \in DOMAIN batch'[Server] : batch'[Server][n] \in {Data("ack", h) : h \in InGroup}
    <3> DEFINE T == {Data("ack", h) : h \in InGroup}
    <3>1. batch'[Server] \in Seq(T)
      BY <2>1, <2>2
    <3> HIDE DEF T
    <3>2. \A n \in DOMAIN batch'[Server] : batch'[Server][n] \in T
      BY <3>1
    <3>3. batch'[Server] \in Seq(Messages)
      BY TypesKept DEF Types
    <3> QED BY <3>2, <3>3 DEF T
  <2> QED BY <1>11, <2>3 DEF ReceivesAtServer, serverVars, ServerStep, ServerPolls, Polls, Reads, serverState
<1>12. ASSUME NEW c \in Clients, ReceivesAtClient(c) PROVE Rests /\ UNCHANGED <<orphaned, kicked>>
  BY <1>12 DEF ReceivesAtClient, Rests, Waits, serverVars, serverState, Types
<1>13. CASE ServerHandles
  BY <1>13 DEF ServerHandles, ServerStep, Serves, Types
<1>14. ASSUME NEW c \in Clients, ClientHandles(c) PROVE Rests /\ orphaned \subseteq orphaned' /\ UNCHANGED kicked
  <2>1. UNCHANGED <<serverState, kicked, at>> /\ batch'[Server] = batch[Server]
    BY <1>14 DEF ClientHandles, serverState, Types
  <2>2. event_queue'[Server] = event_queue[Server] /\ orphaned \subseteq orphaned'
    BY <1>3, <1>14 DEF ClientHandles, ReceivesWelcome, ReceivesSnapshot
  <2> QED BY <2>1, <2>2 DEF Rests, Waits
<1>15. CASE UNCHANGED vars
  BY <1>1, <1>15 DEF vars, pollVars
<1>16. CASE GameStep
  BY <1>1, <1>2, <1>4, <1>5, <1>6, <1>7, <1>16 DEF GameStep, ServerStep
<1> QED BY <1>1, <1>8, <1>9, <1>10, <1>11, <1>12, <1>13, <1>14, <1>15, <1>16 DEF Next, PollStep, Ends, ServerStep

--------------------------------------------------------------------------------
(* The queues name connections that were made, and hold what their pass allows. *)

\* PeersIn in the next state, of the queue s.
Later(s) == \A n \in DOMAIN s : conn'[s[n].conn].near # "none" /\ s[n].peer = conn'[s[n].conn].peer

LEMMA LaterFacts ==
  ASSUME Stays, NEW s \in Seq(Messages), PeersIn(s)
  PROVE  Later(s) /\ (s # <<>> => Later(Tail(s)))
<1>1. \A n \in DOMAIN s : s[n] \in Messages /\ s[n].conn \in Conns
  <2>1. \A n \in DOMAIN s : s[n] \in Messages
    OBVIOUS
  <2> QED BY <2>1 DEF Messages
<1>2. Later(s)
  BY <1>1 DEF Stays, PeersIn, Later, Made, PeerOf
<1>3. s # <<>> => \A n \in DOMAIN Tail(s) : n + 1 \in DOMAIN s /\ Tail(s)[n] = s[n + 1]
  OBVIOUS
<1> QED BY <1>2, <1>3 DEF Later

LEMMA LaterAppend ==
  ASSUME Types, Stays, NEW s \in Seq(Messages), PeersIn(s), NEW h \in Conns, Made(h), NEW type \in EventTypes
  PROVE  Later(Append(s, Event(type, h)))
<1> DEFINE x == Event(type, h)
           t == Append(s, x)
<1>1. x \in Messages /\ x.conn = h /\ x.peer = PeerOf(h)
  BY Typed DEF Event
<1>2. Later(s)
  BY LaterFacts
<1>3. conn'[h].near # "none" /\ PeerOf(h) = conn'[h].peer
  BY DEF Stays, Made, PeerOf
<1> HIDE DEF x
<1>4. \A n \in DOMAIN t : (n \in DOMAIN s /\ t[n] = s[n]) \/ t[n] = x
  BY <1>1
<1>5. Later(t)
  BY <1>1, <1>2, <1>3, <1>4 DEF Later
<1> QED BY <1>5 DEF x

LEMMA LaterData ==
  ASSUME Types, Stays, NEW s, NEW H, H \subseteq Conns, \A h \in H : Made(h),
         \A n \in DOMAIN s : \E h \in H, m \in {"welcome", "snapshot", "ack"} : s[n] = Data(m, h)
  PROVE  Later(s)
<1> SUFFICES ASSUME NEW n \in DOMAIN s PROVE conn'[s[n].conn].near # "none" /\ s[n].peer = conn'[s[n].conn].peer
  BY DEF Later
<1>1. PICK h \in H, m \in {"welcome", "snapshot", "ack"} : s[n] = Data(m, h)
  OBVIOUS
<1>2. s[n].conn = h /\ s[n].peer = PeerOf(h) /\ h \in Conns /\ Made(h)
  BY <1>1 DEF Data
<1> QED BY <1>2 DEF Stays, Made, PeerOf

\* Which events a queue holds after a step.
LEMMA OnlyFacts ==
  ASSUME NEW s \in Seq(Messages), NEW T, OnlyIn(s, T), NEW h, NEW type \in T, Event(type, h) \in Messages
  PROVE  OnlyIn(Append(s, Event(type, h)), T) /\ (s # <<>> => OnlyIn(Tail(s), T))
<1>1. Event(type, h).type = type
  BY DEF Event
<1>2. OnlyIn(Append(s, Event(type, h)), T)
  <2> DEFINE x == Event(type, h)
  <2> HIDE DEF x
  <2>1. \A n \in DOMAIN Append(s, x) : (n \in DOMAIN s /\ Append(s, x)[n] = s[n]) \/ Append(s, x)[n] = x
    BY DEF x
  <2> QED BY <1>1, <2>1 DEF OnlyIn, x
<1>3. s # <<>> => \A n \in DOMAIN Tail(s) : n + 1 \in DOMAIN s /\ Tail(s)[n] = s[n + 1]
  OBVIOUS
<1> QED BY <1>2, <1>3 DEF OnlyIn

\* What the queues of the end e hold after a step.
QueuesLater(e, T) ==
  /\ Later(event_queue'[e]) /\ Later(batch'[e])
  /\ OnlyIn(event_queue'[e], EventTypes)
  /\ at'[e] = "game" => OnlyIn(batch'[e], EventTypes)
  /\ at'[e] = "callbacks" => batch'[e] = <<>>
  /\ at'[e] = "receive" => OnlyIn(batch'[e], T)

LEMMA EmptyLater == Later(<<>>) /\ PeersIn(<<>>) /\ \A T : OnlyIn(<<>>, T)
BY DEF Later, PeersIn, OnlyIn

\* What an end e still has to do with the step, when its queues are left alone, get an event, or are polled.
LEMMA AppendLater ==
  ASSUME Basics, Stays, NEW e \in Ends, NEW h \in Conns, Made(h), NEW type \in EventTypes,
         NEW before \in {event_queue[e], <<>>}, event_queue'[e] = Append(before, Event(type, h))
  PROVE  Later(event_queue'[e]) /\ OnlyIn(event_queue'[e], EventTypes)
<1>1. before \in Seq(Messages) /\ PeersIn(before) /\ OnlyIn(before, EventTypes)
  <2>1. event_queue[e] \in Seq(Messages) /\ <<>> \in Seq(Messages)
    BY DEF Basics, Types
  <2> QED BY <2>1, EmptyLater DEF Basics, NamesOK, PassesOK
<1>2. Event(type, h) \in Messages
  BY Typed DEF Basics
<1>3. Later(Append(before, Event(type, h)))
  BY <1>1, LaterAppend DEF Basics
<1>4. OnlyIn(Append(before, Event(type, h)), EventTypes)
  BY <1>1, <1>2, OnlyFacts
<1> QED BY <1>3, <1>4

LEMMA SameLater ==
  ASSUME Basics, Stays, NEW e \in Ends
  PROVE  /\ event_queue'[e] = event_queue[e] => Later(event_queue'[e]) /\ OnlyIn(event_queue'[e], EventTypes)
         /\ event_queue'[e] = <<>> => Later(event_queue'[e]) /\ OnlyIn(event_queue'[e], EventTypes)
         /\ batch'[e] = batch[e] => Later(batch'[e])
BY LaterFacts, EmptyLater DEF Basics, Types, NamesOK, PassesOK

LEMMA TailLater ==
  ASSUME Basics, Stays, NEW e \in Ends, NEW T, batch[e] # <<>>, batch'[e] = Tail(batch[e]), at'[e] = at[e],
         at[e] = "receive" => OnlyIn(batch[e], T)
  PROVE  /\ Later(batch'[e])
         /\ at'[e] = "game" => OnlyIn(batch'[e], EventTypes)
         /\ at'[e] = "callbacks" => batch'[e] = <<>>
         /\ at'[e] = "receive" => OnlyIn(batch'[e], T)
<1>1. batch[e] \in Seq(Messages) /\ PeersIn(batch[e])
  BY DEF Basics, Types, NamesOK
<1>2. at[e] # "callbacks" /\ (at[e] = "game" => OnlyIn(batch[e], EventTypes))
  BY DEF Basics, PassesOK
<1>3. \A n \in DOMAIN Tail(batch[e]) : n + 1 \in DOMAIN batch[e] /\ Tail(batch[e])[n] = batch[e][n + 1]
  BY <1>1
<1> QED BY <1>1, <1>2, <1>3, LaterFacts DEF OnlyIn

\* M are data of the kinds T on the connections H, which were made.
DataOf(M, H, T) ==
  /\ H \subseteq Conns /\ \A h \in H : Made(h)
  /\ T \subseteq {"welcome", "snapshot", "ack"} /\ \A x \in M : \E h \in H, m \in T : x = Data(m, h)

LEMMA PollsLater ==
  ASSUME Basics, Stays, NEW e \in Ends, NEW M, NEW H, NEW T, DataOf(M, H, T), Polls(e, M)
  PROVE  QueuesLater(e, T)
<1>1. CASE Goes(e)
  BY <1>1, SameLater, EmptyLater DEF Goes, QueuesLater
<1>2. CASE Reads(e, M)
  <2>1. Later(batch'[e])
    <3>1. \A n \in DOMAIN batch'[e] : \E h \in H, m \in {"welcome", "snapshot", "ack"} : batch'[e][n] = Data(m, h)
      BY <1>2 DEF Reads, DataOf
    <3> QED BY <3>1, LaterData DEF Basics, DataOf
  <2>2. OnlyIn(batch'[e], T)
    BY <1>2 DEF Reads, OnlyIn, Data, DataOf
  <2> QED BY <1>2, <2>1, <2>2, SameLater DEF Reads, QueuesLater
<1>3. CASE Takes(e)
  <2>1. Later(event_queue[e]) /\ OnlyIn(event_queue[e], EventTypes)
    BY LaterFacts DEF Basics, Types, NamesOK, PassesOK
  <2> QED BY <1>3, <2>1, EmptyLater DEF Takes, QueuesLater
<1> QED BY <1>1, <1>2, <1>3 DEF Polls

LEMMA ClientQueuesKept ==
  ASSUME Basics, Stays, NEW c \in Clients, ClientStep(c)
  PROVE  QueuesLater(c, {"welcome", "snapshot"})
<1> c \in Ends /\ c # Server
  BY SessionAssumption DEF Ends
<1> USE DEF QueuesLater
<1>1. /\ at[c] = "game" => OnlyIn(batch[c], EventTypes)
      /\ at[c] = "callbacks" => batch[c] = <<>>
      /\ at[c] = "receive" => OnlyIn(batch[c], {"welcome", "snapshot"})
  BY DEF Basics, PassesOK
<1>2. link[c] # 0 => link[c] \in Conns /\ Made(link[c])
  BY DEF Basics, Types, ShapeOK
<1>3. CASE Idles(c)
  BY <1>1, <1>3, SameLater DEF Idles
<1>4. CASE Joins(c)
  BY <1>1, <1>4, SameLater DEF Joins
<1>5. ASSUME NEW before \in {event_queue[c], <<>>}, EndsLink(c, before)
      PROVE  Later(event_queue'[c]) /\ OnlyIn(event_queue'[c], EventTypes) /\ at'[c] = at[c]
  BY <1>2, <1>5, AppendLater DEF EndsLink, EventTypes
<1>6. CASE Quits(c)
  BY <1>1, <1>5, <1>6, SameLater DEF Quits
<1>7. CASE Opens(c)
  BY <1>1, <1>2, <1>7, SameLater, AppendLater DEF Opens, EventTypes
<1>8. CASE Hands(c)
  <2>1. Later(event_queue'[c]) /\ OnlyIn(event_queue'[c], EventTypes) /\ at'[c] = at[c]
    BY <1>5, <1>8, SameLater DEF Hands, EndsLink
  <2>2. batch[c] # <<>> /\ batch'[c] = Tail(batch[c])
    BY <1>8 DEF Hands
  <2> QED BY <1>1, <2>1, <2>2, TailLater
<1>9. CASE ClientPolls(c)
  <2>1. CASE Goes(c) \/ Takes(c)
    <3>1. DataOf({}, {}, {"welcome", "snapshot"}) /\ Polls(c, {})
      BY <2>1 DEF DataOf, Polls
    <3> QED BY ONLY Basics, Stays, c \in Ends, <3>1, PollsLater
  <2>2. CASE Reads(c, ReadsOf(c)) /\ link[c] # 0
    <3> DEFINE H == {link[c]}
    <3>1. conn[link[c]].down \subseteq {"welcome", "snapshot"}
      BY <1>2, <2>2 DEF Basics, Types, Connections
    <3>2. \A x \in ReadsOf(c) : \E h \in H, m \in {"welcome", "snapshot"} : x = Data(m, h)
      BY <3>1 DEF ReadsOf
    <3>3. H \subseteq Conns /\ \A h \in H : Made(h)
      BY <1>2, <2>2
    <3>4. DataOf(ReadsOf(c), {link[c]}, {"welcome", "snapshot"}) /\ Polls(c, ReadsOf(c))
      BY <2>2, <3>2, <3>3 DEF DataOf, Polls
    <3> QED BY ONLY Basics, Stays, c \in Ends, <3>4, PollsLater
  <2> QED BY <1>9, <2>1, <2>2 DEF ClientPolls
<1> QED BY <1>3, <1>4, <1>6, <1>7, <1>8, <1>9 DEF ClientStep

LEMMA ServerQueuesKept ==
  ASSUME Basics, Stays, ServerStep
  PROVE  QueuesLater(Server, {"ack"})
<1> Server \in Ends
  BY DEF Ends
<1> USE DEF QueuesLater
<1>1. /\ at[Server] = "game" => OnlyIn(batch[Server], EventTypes)
      /\ at[Server] = "callbacks" => batch[Server] = <<>>
      /\ at[Server] = "receive" => OnlyIn(batch[Server], {"ack"})
  BY DEF Basics, PassesOK
<1>2. CASE Waits
  BY <1>1, <1>2, SameLater DEF Waits
<1>3. CASE Enters \/ Loses
  BY <1>1, <1>3, SameLater, AppendLater DEF Enters, Loses, EventTypes
<1>4. CASE Stops
  BY <1>1, <1>4, SameLater DEF Stops
<1>5. CASE ServerPolls
  <2>1. InGroup \subseteq Conns /\ \A h \in InGroup : Made(h)
    BY DEF InGroup, Basics, ShapeOK
  <2>2. \A x \in {Data("ack", h) : h \in InGroup} : \E h \in InGroup, m \in {"ack"} : x = Data(m, h)
    OBVIOUS
  <2> DEFINE M == {Data("ack", h) : h \in InGroup}
  <2>3. DataOf(M, InGroup, {"ack"}) /\ Polls(Server, M)
    BY <1>5, <2>1, <2>2 DEF DataOf, ServerPolls
  <2> HIDE DEF M
  <2> QED BY ONLY Basics, Stays, Server \in Ends, <2>3, PollsLater
<1>6. CASE Serves
  <2>1. batch[Server] # <<>> /\ batch'[Server] = Tail(batch[Server]) /\ UNCHANGED <<event_queue[Server], at[Server]>>
    BY <1>6 DEF Serves, ServerHandles
  <2> QED BY <1>1, <2>1, SameLater, TailLater
<1> QED BY <1>2, <1>3, <1>4, <1>5, <1>6 DEF ServerStep, Rests, Kicks

\* The library tells of connections that were made.
LEMMA CallsKept ==
  ASSUME Basics, Stays, [Next]_vars, NEW e \in Ends
  PROVE  \A n \in DOMAIN calls'[e] : conn'[calls'[e][n].conn].near # "none"
<1> USE DEF Basics
<1>1. calls[e] \in Seq(Calls) /\ \A n \in DOMAIN calls[e] : calls[e][n] \in Calls
  <2>1. calls[e] \in Seq(Calls)
    BY DEF Types
  <2> QED BY <2>1
<1>2. \A n \in DOMAIN calls[e] : conn'[calls[e][n].conn].near # "none"
  BY <1>1 DEF Calls, NamesOK, MadeIn, Stays, Made
<1>3. CASE calls'[e] = calls[e]
  BY <1>2, <1>3
<1>4. ASSUME NEW h \in Conns, Made(h), NEW status, NEW end \in Ends, Post(end, h, status)
      PROVE  \A n \in DOMAIN calls'[e] : conn'[calls'[e][n].conn].near # "none"
  <2>1. CASE end # e
    BY <1>3, <1>4, <2>1 DEF Post, Types
  <2>2. CASE end = e
    <3> DEFINE call == [conn |-> h, status |-> status]
    <3>1. calls'[e] = Append(calls[e], call) /\ call.conn = h
      BY <1>4, <2>2 DEF Post, Types
    <3> HIDE DEF call
    <3>2. \A n \in DOMAIN calls'[e] : (n \in DOMAIN calls[e] /\ calls'[e][n] = calls[e][n]) \/ calls'[e][n] = call
      BY <1>1, <3>1
    <3> QED BY <1>2, <1>4, <3>1, <3>2 DEF Stays, Made
  <2> QED BY <2>1, <2>2
<1>5. ASSUME NEW h \in Conns, Library(h)
      PROVE  \A n \in DOMAIN calls'[e] : conn'[calls'[e][n].conn].near # "none"
  <2>1. (\E end \in Ends, status \in {"connecting", "connected", "lost"} : Post(end, h, status)) /\ Made(h)
    BY <1>5 DEF Library, Asks, OpensFar, OpensNear, LosesFar, LosesNear, ShapeOK, Made, Ends
  <2> QED BY <1>4, <2>1
<1>6. ASSUME NEW d \in Ends, RunsCallback(d)
      PROVE  \A n \in DOMAIN calls'[e] : conn'[calls'[e][n].conn].near # "none"
  <2>1. CASE d # e
    BY <1>3, <1>6, <2>1 DEF RunsCallback, Types
  <2>2. CASE d = e
    <3>1. calls'[e] = Tail(calls[e]) /\ calls[e] # <<>>
      BY <1>6, <2>2 DEF RunsCallback, Types
    <3>2. \A n \in DOMAIN calls'[e] : n + 1 \in DOMAIN calls[e] /\ calls'[e][n] = calls[e][n + 1]
      BY <1>1, <3>1
    <3> QED BY <1>2, <3>2
  <2> QED BY <2>1, <2>2
<1>7. ASSUME calls' = calls PROVE \A n \in DOMAIN calls'[e] : conn'[calls'[e][n].conn].near # "none"
  BY <1>3, <1>7
<1>8. GameStep => calls' = calls
  BY DEF GameStep, Connect, Disconnect, Kick, SendSnapshot, StopServer
<1>9. ASSUME NEW d \in Ends, StartPoll(d) \/ CallbacksRan(d) \/ TakesEvents(d) PROVE calls' = calls
  BY <1>9 DEF StartPoll, CallbacksRan, TakesEvents
<1>10. ReceivesAtServer \/ ServerHandles \/ (\E d \in Ends : ReceivesAtClient(d) \/ ClientHandles(d)) => calls' = calls
  BY DEF ReceivesAtServer, ServerHandles, ReceivesAtClient, ClientHandles
<1>11. UNCHANGED vars => calls' = calls
  BY DEF vars
<1> QED BY <1>5, <1>6, <1>7, <1>8, <1>9, <1>10, <1>11 DEF Next, PollStep

LEMMA NamesKept ==
  ASSUME Basics, [Next]_vars
  PROVE  NamesOK' /\ PassesOK'
<1>1. Stays
  BY Staying
<1>2. \A e \in Ends : QueuesLater(e, IF e = Server THEN {"ack"} ELSE {"welcome", "snapshot"})
  BY <1>1, ClientSteps, ServerSteps, ClientQueuesKept, ServerQueuesKept DEF Ends
<1>3. \A e \in Ends : \A n \in DOMAIN calls'[e] : conn'[calls'[e][n].conn].near # "none"
  BY <1>1, CallsKept
<1> QED BY <1>2, <1>3 DEF QueuesLater, Later, NamesOK, PassesOK, MadeIn, PeersIn, Made, PeerOf, OnlyIn

--------------------------------------------------------------------------------
(* The server's maps agree.                                                     *)

LEMMA MapsKept ==
  ASSUME Basics, Stays, ServerStep
  PROVE  MapsOK'
<1>1. \A h \in Conns : Made(h) => conn'[h].near # "none" /\ conn'[h].peer = PeerOf(h)
  BY DEF Stays, Made, PeerOf
<1>2. CASE UNCHANGED serverState
  BY <1>1, <1>2 DEF serverState, MapsOK, Basics, Made, PeerOf
<1>3. CASE Enters
  <2>1. PICK h \in Conns : Made(h) /\ NewPeer(h)
    BY <1>3 DEF Enters
  <2> QED BY <1>1, <2>1 DEF NewPeer, With, MapsOK, Basics, Made, PeerOf
<1>4. CASE Loses
  <2>1. PICK h \in Conns : Made(h) /\ LostPeer(h)
    BY <1>4 DEF Loses
  <2> QED BY <1>1, <2>1 DEF LostPeer, Without, MapsOK, Basics, Made, PeerOf
<1>5. ASSUME NEW id \in DOMAIN peer_to_conn, Kick(id) PROVE MapsOK'
  <2>1. PICK h : h = peer_to_conn[id]
    OBVIOUS
  <2>2. peer_to_conn' = Without(peer_to_conn, id) /\ conn_to_peer' = Without(conn_to_peer, h) /\ peers' = peers
    BY <1>5, <2>1 DEF Kick
  <2>3. \A k \in DOMAIN conn_to_peer' : k \in DOMAIN conn_to_peer /\ conn_to_peer'[k] = conn_to_peer[k]
    BY <2>2 DEF Without
  <2>4. ASSUME NEW i \in DOMAIN peer_to_conn'
        PROVE  peer_to_conn'[i] \in DOMAIN conn_to_peer' /\ conn'[peer_to_conn'[i]].peer = i
    <3>1. i \in DOMAIN peer_to_conn /\ i # id /\ peer_to_conn'[i] = peer_to_conn[i]
      BY <2>2, <2>4 DEF Without
    <3>2. peer_to_conn[i] \in DOMAIN conn_to_peer /\ conn[peer_to_conn[i]].peer = i /\ conn[h].peer = id
      BY <2>1, <3>1 DEF MapsOK, Basics, PeerOf
    <3>3. peer_to_conn[i] \in DOMAIN conn_to_peer'
      BY <2>2, <3>1, <3>2 DEF Without
    <3>4. peer_to_conn[i] \in Conns /\ Made(peer_to_conn[i])
      BY <3>2 DEF MapsOK, Basics
    <3> QED BY <1>1, <3>1, <3>2, <3>3, <3>4 DEF PeerOf
  <2> QED BY <1>1, <2>2, <2>3, <2>4 DEF MapsOK, Basics, Made, PeerOf
<1>6. CASE StopServer
  BY <1>1, <1>6 DEF StopServer, Nothing, MapsOK, Basics, Made, PeerOf
<1>7. CASE Serves
  <2> DEFINE event == Head(batch[Server])
  <2>1. batch[Server] \in Seq(Messages) /\ batch[Server] # <<>> /\ PeersIn(batch[Server])
    BY <1>7 DEF Serves, ServerHandles, Basics, Types, NamesOK, Ends
  <2>2. event \in Messages /\ event = batch[Server][1] /\ 1 \in DOMAIN batch[Server]
    BY <2>1
  <2>3. event.conn \in Conns /\ Made(event.conn) /\ event.peer = PeerOf(event.conn)
    BY <2>1, <2>2 DEF PeersIn, Messages
  <2>4. /\ UNCHANGED <<peer_to_conn, conn_to_peer>>
        /\ peers' \in {peers, With(peers, event.peer, event.conn), Without(peers, event.peer)}
    BY <1>7 DEF Serves, ServerHandles
  <2> HIDE DEF event
  <2>5. \A id \in DOMAIN peers' : peers'[id] \in Conns /\ Made(peers'[id]) /\ PeerOf(peers'[id]) = id
    BY <2>3, <2>4 DEF With, Without, MapsOK, Basics
  <2> QED BY <1>1, <2>4, <2>5 DEF MapsOK, Basics, Made, PeerOf
<1> QED BY <1>2, <1>3, <1>4, <1>5, <1>6, <1>7 DEF ServerStep, Rests, Kicks, Stops, ServerPolls

LEMMA BasicsBegin == Init => Basics
<1> SUFFICES ASSUME Init PROVE Basics
  OBVIOUS
<1> USE DEF Init
<1>1. Types
  <2>1. /\ \A h \in Conns : [owner |-> Nobody, peer |-> h, near |-> "none", far |-> "none", down |-> {}, up |-> {}] \in Connections
        /\ <<>> \in Seq(Calls) /\ <<>> \in Seq(Messages)
    BY DEF Connections
  <2> QED BY <2>1 DEF Types
<1>2. ShapeOK
  BY DEF ShapeOK, Made
<1>3. NamesOK /\ PassesOK
  BY DEF NamesOK, PassesOK, MadeIn, PeersIn, OnlyIn
<1>4. MapsOK
  BY DEF MapsOK, Nothing
<1> QED BY <1>1, <1>2, <1>3, <1>4 DEF Basics

LEMMA BasicsKept ==
  ASSUME Basics, [Next]_vars
  PROVE  Basics'
<1>1. Types' /\ ShapeOK' /\ NamesOK' /\ PassesOK'
  BY TypesKept, ShapeKept, NamesKept
<1>2. MapsOK'
  BY Staying, ServerSteps, MapsKept
<1> QED BY <1>1, <1>2 DEF Basics

--------------------------------------------------------------------------------
(* Clients: a welcome is of the connection there is, or its end is on the way.  *)

\* An event of a type and a connection is in a queue.
In(s, type, h) == \E n \in DOMAIN s : s[n].type = type /\ s[n].conn = h

LEMMA InFacts ==
  ASSUME NEW s \in Seq(Messages)
  PROVE  /\ \A type, h : ~In(<<>>, type, h)
         /\ s # <<>> => /\ Head(s) = s[1] /\ 1 \in DOMAIN s /\ Head(s) \in Messages
                        /\ \A n \in DOMAIN Tail(s) : n + 1 \in DOMAIN s /\ Tail(s)[n] = s[n + 1]
                        /\ \A type, h : In(s, type, h) <=> ((Head(s).type = type /\ Head(s).conn = h) \/ In(Tail(s), type, h))
<1>1. \A type, h : ~In(<<>>, type, h)
  BY DEF In
<1>2. ASSUME s # <<>>
      PROVE  /\ Head(s) = s[1] /\ 1 \in DOMAIN s /\ Head(s) \in Messages
             /\ \A n \in DOMAIN Tail(s) : n + 1 \in DOMAIN s /\ Tail(s)[n] = s[n + 1]
             /\ \A n \in DOMAIN s : n = 1 \/ (n - 1 \in DOMAIN Tail(s) /\ Tail(s)[n - 1] = s[n])
  BY <1>2
<1>3. ASSUME s # <<>>, NEW type, NEW h
      PROVE  In(s, type, h) <=> ((Head(s).type = type /\ Head(s).conn = h) \/ In(Tail(s), type, h))
  <2>1. \A n \in DOMAIN s : s[n].type = type /\ s[n].conn = h =>
          (Head(s).type = type /\ Head(s).conn = h) \/ In(Tail(s), type, h)
    BY <1>2, <1>3 DEF In
  <2>2. In(Tail(s), type, h) => In(s, type, h)
    BY <1>2, <1>3 DEF In
  <2>3. Head(s).type = type /\ Head(s).conn = h => In(s, type, h)
    BY <1>2, <1>3 DEF In
  <2>4. In(s, type, h) => (Head(s).type = type /\ Head(s).conn = h) \/ In(Tail(s), type, h)
    BY <2>1 DEF In
  <2>5. In(s, type, h) \in BOOLEAN /\ In(Tail(s), type, h) \in BOOLEAN
    BY DEF In
  <2> QED BY <2>2, <2>3, <2>4, <2>5
<1> QED BY <1>1, <1>2, <1>3

LEMMA InAppend ==
  ASSUME NEW s \in Seq(Messages), NEW h, NEW type
  PROVE  \A t, k : In(Append(s, Event(type, h)), t, k) <=> (In(s, t, k) \/ (t = type /\ k = h))
<1> DEFINE x == Event(type, h)
           r == Append(s, x)
<1>1. x.type = type /\ x.conn = h
  BY DEF Event
<1> HIDE DEF x
<1>2. /\ \A n \in DOMAIN r : (n \in DOMAIN s /\ r[n] = s[n]) \/ r[n] = x
      /\ \A n \in DOMAIN s : n \in DOMAIN r /\ r[n] = s[n]
      /\ Len(s) + 1 \in DOMAIN r /\ r[Len(s) + 1] = x
  OBVIOUS
<1> HIDE DEF r
<1>3. \A t, k : In(r, t, k) <=> (In(s, t, k) \/ (t = type /\ k = h))
  BY <1>1, <1>2 DEF In
<1> QED BY <1>3 DEF r, x

\* ClientOK, of the values of a client's variables.
ClientFits(l, w, queue, handed) ==
  /\ l # 0 => w <= l
  /\ \A k \in Conns : In(queue, "Disconnected", k) \/ In(handed, "Disconnected", k) => l # k
  /\ \A n \in DOMAIN handed : handed[n].type \in {"welcome", "snapshot"} =>
       \/ handed[n].conn = l
       \/ l = 0 /\ (In(queue, "Disconnected", handed[n].conn) \/ In(handed, "Disconnected", handed[n].conn))
  /\ w \notin {0, l} => \E h \in Conns : h >= w /\ (In(queue, "Disconnected", h) \/ In(handed, "Disconnected", h))

LEMMA ClientFitting ==
  /\ \A c : ClientOK(c) = ClientFits(link[c], welcomed[c], event_queue[c], batch[c])
  /\ \A c : ClientOK(c)' = ClientFits(link'[c], welcomed'[c], event_queue'[c], batch'[c])
BY DEF ClientOK, ClientFits, Coming, In

LEMMA ClientKept ==
  ASSUME Basics, NEW c \in Clients, ClientOK(c), ClientStep(c)
  PROVE  ClientOK(c)'
<1> PICK l, w, queue, handed : l = link[c] /\ w = welcomed[c] /\ queue = event_queue[c] /\ handed = batch[c]
  OBVIOUS
<1> PICK l1, w1, queue1, handed1 : l1 = link'[c] /\ w1 = welcomed'[c] /\ queue1 = event_queue'[c] /\ handed1 = batch'[c]
  OBVIOUS
<1>1. /\ l \in Conns \cup {0} /\ w \in Conns \cup {0} /\ queue \in Seq(Messages) /\ handed \in Seq(Messages)
      /\ \A h \in Conns : h \in Nat /\ h # 0
  BY SessionAssumption DEF Basics, Types, Ends, Conns
<1>2. ClientFits(l, w, queue, handed)
  BY ClientFitting
<1>3. SUFFICES ClientFits(l1, w1, queue1, handed1)
  BY ClientFitting
<1>4. \A k \in Conns : In(queue, "Disconnected", k) \/ In(handed, "Disconnected", k) => Made(k)
  BY DEF In, Basics, NamesOK, PeersIn, Ends
<1>5. (l # 0 => Made(l)) /\ (w # 0 => Made(w))
  BY DEF Basics, ShapeOK
<1>6. CASE Idles(c)
  BY <1>2, <1>6 DEF Idles
<1>7. CASE Joins(c)
  <2>1. PICK h \in Conns : l = 0 /\ handed = <<>> /\ ~Made(h) /\ (\A k \in 1 .. h - 1 : Made(k))
                           /\ l1 = h /\ w1 = w /\ queue1 = queue /\ handed1 = handed
    BY <1>7 DEF Joins
  <2>2. w <= h
    <3>1. \A k \in Conns : Made(k) => k <= h
      <4> SUFFICES ASSUME NEW k \in Conns, Made(k), k > h PROVE FALSE
        BY <1>1
      <4>1. h \in 1 .. k - 1
        BY <1>1 DEF Conns
      <4> QED BY <2>1, <4>1 DEF Basics, ShapeOK
    <3> QED BY <1>1, <1>5, <3>1
  <2>3. \A k \in Conns : In(queue, "Disconnected", k) \/ In(handed, "Disconnected", k) => h # k
    BY <1>4, <2>1
  <2> QED BY <1>2, <2>1, <2>2, <2>3 DEF ClientFits
<1>8. ASSUME NEW before \in {queue, <<>>}, EndsLink(c, before), handed = <<>>, handed1 = <<>>
      PROVE  ClientFits(l1, w1, queue1, handed1)
  <2>1. l # 0 /\ l1 = 0 /\ w1 = w /\ queue1 = Append(before, Event("Disconnected", l))
    BY <1>8 DEF EndsLink
  <2>2. In(queue1, "Disconnected", l)
    <3> before \in Seq(Messages)
      BY <1>1, <<>> \in Seq(Messages)
    <3> QED BY <2>1, InAppend
  <2>3. w1 \notin {0, l1} => \E h \in Conns : h >= w1 /\ In(queue1, "Disconnected", h)
    BY <1>1, <1>2, <2>1, <2>2 DEF ClientFits
  <2> QED BY <1>1, <1>8, <2>1, <2>3 DEF ClientFits
<1>9. CASE Quits(c)
  BY <1>8, <1>9 DEF Quits
<1>10. CASE Opens(c)
  <2>1. l1 = l /\ w1 = w /\ handed1 = handed /\ queue1 = Append(queue, Event("Connected", l))
    BY <1>10 DEF Opens
  <2>2. \A k : In(queue1, "Disconnected", k) <=> In(queue, "Disconnected", k)
    BY <1>1, <2>1, InAppend
  <2> QED BY <1>2, <2>1, <2>2 DEF ClientFits
<1>11. CASE Hands(c)
  <2> PICK event : event = Head(handed)
    OBVIOUS
  <2>1. handed # <<>> /\ handed1 = Tail(handed)
    BY <1>11 DEF Hands
  <2>2. /\ event = handed[1] /\ 1 \in DOMAIN handed /\ event \in Messages /\ event.conn \in Conns
        /\ \A n \in DOMAIN handed1 : n + 1 \in DOMAIN handed /\ handed1[n] = handed[n + 1]
        /\ \A type, h : In(handed, type, h) <=> ((event.type = type /\ event.conn = h) \/ In(handed1, type, h))
    <3>1. handed \in Seq(Messages) /\ handed # <<>>
      BY <1>1, <2>1
    <3>2. /\ event = handed[1] /\ 1 \in DOMAIN handed /\ event \in Messages
          /\ \A n \in DOMAIN handed1 : n + 1 \in DOMAIN handed /\ handed1[n] = handed[n + 1]
      BY <2>1, <3>1
    <3>3. \A type, h : In(handed, type, h) <=> ((event.type = type /\ event.conn = h) \/ In(handed1, type, h))
      BY <2>1, <3>1, InFacts
    <3> QED BY <3>2, <3>3 DEF Messages
  <2>3. CASE event.type \in {"Connected", "snapshot"} /\ l1 = l /\ w1 = w /\ queue1 = queue
    <3>1. \A k : In(handed1, "Disconnected", k) <=> In(handed, "Disconnected", k)
      BY <2>2, <2>3
    <3> QED BY <1>2, <2>2, <2>3, <3>1 DEF ClientFits
  <2>4. CASE event.type = "Disconnected" /\ l1 = l /\ w1 = 0 /\ queue1 = queue
    <3>1. at[c] = "game" /\ OnlyIn(handed, EventTypes)
      BY <2>1, <2>2, <2>4, SessionAssumption DEF Basics, PassesOK, OnlyIn, Types, Ends
    <3>2. \A n \in DOMAIN handed1 : handed1[n].type \notin {"welcome", "snapshot"}
      BY <2>2, <3>1 DEF OnlyIn, EventTypes
    <3>3. \A k : In(handed1, "Disconnected", k) => In(handed, "Disconnected", k)
      BY <2>2
    <3> QED BY <1>1, <1>2, <2>4, <3>2, <3>3 DEF ClientFits
  <2>5. CASE event.type = "welcome" /\ w1 = event.conn /\ l1 = l /\ queue1 = queue
    <3>1. \A k : In(handed1, "Disconnected", k) <=> In(handed, "Disconnected", k)
      BY <2>2, <2>5
    <3>2. event.conn = l \/ (l = 0 /\ (In(queue, "Disconnected", event.conn) \/ In(handed, "Disconnected", event.conn)))
      BY <1>2, <2>2, <2>5 DEF ClientFits
    <3>3. w1 \in Conns /\ w1 >= w1
      BY <1>1, <2>2, <2>5
    <3>4. \A n \in DOMAIN handed1 : handed1[n].type \in {"welcome", "snapshot"} =>
            handed1[n].conn = l1 \/ (l1 = 0 /\ (In(queue1, "Disconnected", handed1[n].conn) \/ In(handed1, "Disconnected", handed1[n].conn)))
      BY <1>2, <2>2, <2>5, <3>1 DEF ClientFits
    <3> QED BY <1>1, <1>2, <2>5, <3>1, <3>2, <3>3, <3>4 DEF ClientFits
  <2>6. CASE event.type = "welcome" /\ EndsLink(c, queue)
    <3>1. l # 0 /\ l1 = 0 /\ w1 = w /\ queue1 = Append(queue, Event("Disconnected", l))
      BY <2>6 DEF EndsLink
    <3>2. In(queue1, "Disconnected", l)
      BY <1>1, <3>1, InAppend
    <3>3. \A n \in DOMAIN handed1 : handed1[n].type \in {"welcome", "snapshot"} => In(queue1, "Disconnected", handed1[n].conn)
      BY <1>2, <2>2, <3>1, <3>2 DEF ClientFits
    <3>4. w1 \notin {0, l1} => \E h \in Conns : h >= w1 /\ (In(queue1, "Disconnected", h) \/ In(handed1, "Disconnected", h))
      BY <1>1, <1>2, <3>1, <3>2 DEF ClientFits
    <3> QED BY <1>1, <3>1, <3>3, <3>4 DEF ClientFits
  <2> QED BY <1>11, <2>3, <2>4, <2>5, <2>6 DEF Hands
<1>12. CASE ClientPolls(c)
  <2>1. l1 = l /\ w1 = w
    BY <1>12 DEF ClientPolls
  <2>2. CASE Goes(c)
    BY <1>2, <2>1, <2>2 DEF Goes
  <2>3. CASE Reads(c, ReadsOf(c)) /\ l # 0
    <3>1. handed = <<>> /\ queue1 = queue /\ \A n \in DOMAIN handed1 : handed1[n] \in ReadsOf(c)
      BY <2>3 DEF Reads
    <3>2. conn[l].down \subseteq {"welcome", "snapshot"}
      BY <1>1, <2>3 DEF Basics, Types, Connections
    <3>3. \A n \in DOMAIN handed1 : handed1[n].conn = l /\ handed1[n].type # "Disconnected"
      BY <3>1, <3>2 DEF ReadsOf, Data
    <3>4. \A k : ~In(handed1, "Disconnected", k) /\ ~In(handed, "Disconnected", k)
      BY <3>1, <3>3 DEF In
    <3> QED BY <1>2, <2>1, <3>1, <3>3, <3>4 DEF ClientFits
  <2>4. CASE Takes(c)
    <3>1. handed = <<>> /\ handed1 = queue /\ queue1 = <<>>
      BY <2>4 DEF Takes
    <3>2. \A n \in DOMAIN queue : queue[n].type \notin {"welcome", "snapshot"}
      BY DEF Basics, PassesOK, OnlyIn, EventTypes, Ends
    <3>3. \A k : ~In(<<>>, "Disconnected", k)
      BY DEF In
    <3> QED BY <1>2, <2>1, <3>1, <3>2, <3>3 DEF ClientFits
  <2> QED BY <1>12, <2>2, <2>3, <2>4 DEF ClientPolls
<1> QED BY <1>6, <1>7, <1>9, <1>10, <1>11, <1>12 DEF ClientStep

\* Only a client that handles an event changes what it was welcomed on.
LEMMA WelcomedChanges ==
  ASSUME Basics, [Next]_vars, NEW c \in Clients, welcomed'[c] # welcomed[c]
  PROVE  ClientHandles(c)
<1>1. ~UNCHANGED welcomed
  OBVIOUS
<1>2. \A h \in Conns : ~Library(h)
  BY <1>1 DEF Library, Asks, OpensFar, OpensNear, LosesFar, LosesNear, clientVars
<1>3. ~GameStep
  BY <1>1 DEF GameStep, Connect, Disconnect, Kick, SendSnapshot, StopServer, clientVars
<1>4. \A e \in Ends : ~StartPoll(e) /\ ~CallbacksRan(e) /\ ~TakesEvents(e)
  BY <1>1 DEF StartPoll, CallbacksRan, TakesEvents, clientVars
<1>5. \A e \in Ends : ~RunsCallback(e)
  BY <1>1 DEF RunsCallback, ServerStatus, ClientStatus, clientVars
<1>6. ~ReceivesAtServer /\ ~ServerHandles /\ \A d \in Ends : ~ReceivesAtClient(d)
  BY <1>1 DEF ReceivesAtServer, ServerHandles, ReceivesAtClient, clientVars
<1>7. PICK d \in Clients : ClientHandles(d)
  BY <1>1, <1>2, <1>3, <1>4, <1>5, <1>6 DEF Next, PollStep, Ends, vars, clientVars
<1>8. welcomed' = welcomed \/ \E x : welcomed' = [welcomed EXCEPT ![d] = x]
  BY <1>7 DEF ClientHandles, ReceivesWelcome, ReceivesSnapshot
<1>9. d = c
  BY <1>1, <1>8 DEF Basics, Types
<1> QED BY <1>7, <1>9

--------------------------------------------------------------------------------
(* The events due tell the server's maps from its peers.                        *)

\* The events due, the connections in the maps, closed by the game and orphaned, and the peers; a connection's peer.
Tells(due, M, K, O, P, N) ==
  /\ \A i \in DOMAIN due : due[i].type = "Connected" =>
       due[i].conn \in M \cup K \/ \E j \in DOMAIN due : j > i /\ Is(due[j], "Disconnected", due[i].conn)
  /\ \A i \in DOMAIN due, h \in M \ O : due[i].type = "Disconnected" /\ due[i].peer = N[h] =>
       \E j \in DOMAIN due : j > i /\ Is(due[j], "Connected", h)
  /\ \A id \in DOMAIN P : P[id] \in M \cup K \/ In(due, "Disconnected", P[id])
  /\ \A h \in M \ O : N[h] \in DOMAIN P \/ In(due, "Connected", h)

PeerNames == [h \in Conns |-> conn[h].peer]

LEMMA Telling ==
  ASSUME MapsOK
  PROVE  (ConnectedOK /\ DisconnectedOK /\ PeersOK /\ MappedOK)
           <=> Tells(Due, DOMAIN conn_to_peer, kicked, orphaned, peers, PeerNames)
<1>1. \A h \in DOMAIN conn_to_peer : PeerNames[h] = PeerOf(h)
  BY DEF MapsOK, PeerNames, PeerOf
<1> QED BY <1>1 DEF Tells, ConnectedOK, DisconnectedOK, PeersOK, MappedOK, In, Is

\* A queue that gets an event.
LEMMA Appended ==
  ASSUME NEW s \in Seq(Messages), NEW h \in Conns, NEW type \in EventTypes, Event(type, h) \in Messages
  PROVE  LET r == Append(s, Event(type, h)) IN
         /\ \A n \in DOMAIN s : n \in DOMAIN r /\ r[n] = s[n]
         /\ \A n \in DOMAIN r : n \in DOMAIN s \/ n = Len(s) + 1
         /\ Len(s) + 1 \in DOMAIN r /\ \A n \in DOMAIN s : n \in Nat /\ Len(s) + 1 > n
         /\ r[Len(s) + 1].type = type /\ r[Len(s) + 1].conn = h /\ r[Len(s) + 1].peer = PeerOf(h)
<1> DEFINE x == Event(type, h)
<1>1. x.type = type /\ x.conn = h /\ x.peer = PeerOf(h) /\ x \in Messages
  BY DEF Event
<1> HIDE DEF x
<1>2. /\ \A n \in DOMAIN s : n \in DOMAIN Append(s, x) /\ Append(s, x)[n] = s[n]
      /\ \A n \in DOMAIN Append(s, x) : n \in DOMAIN s \/ n = Len(s) + 1
      /\ Len(s) + 1 \in DOMAIN Append(s, x) /\ \A n \in DOMAIN s : n \in Nat /\ Len(s) + 1 > n
      /\ Append(s, x)[Len(s) + 1] = x
  OBVIOUS
<1> QED BY <1>1, <1>2 DEF x

LEMMA EntersTells ==
  ASSUME NEW due \in Seq(Messages), NEW M, NEW K, NEW O, NEW P, NEW N, Tells(due, M, K, O, P, N),
         NEW h \in Conns, Event("Connected", h) \in Messages
  PROVE  Tells(Append(due, Event("Connected", h)), M \cup {h}, K, O, P, N)
<1> DEFINE r == Append(due, Event("Connected", h))
           z == Len(due) + 1
<1>1. /\ \A n \in DOMAIN due : n \in DOMAIN r /\ r[n] = due[n]
      /\ \A n \in DOMAIN r : n \in DOMAIN due \/ n = z
      /\ z \in DOMAIN r /\ \A n \in DOMAIN due : n \in Nat /\ z > n
      /\ r[z].type = "Connected" /\ r[z].conn = h
  BY Appended DEF EventTypes
<1> HIDE DEF r, z
<1>2. \A type, k : In(due, type, k) => In(r, type, k)
  BY <1>1 DEF In
<1>3. \A i \in DOMAIN r : r[i].type = "Connected" =>
        r[i].conn \in M \cup {h} \cup K \/ \E j \in DOMAIN r : j > i /\ Is(r[j], "Disconnected", r[i].conn)
  BY <1>1 DEF Tells
<1>4. \A i \in DOMAIN r, k \in (M \cup {h}) \ O : r[i].type = "Disconnected" /\ r[i].peer = N[k] =>
        \E j \in DOMAIN r : j > i /\ Is(r[j], "Connected", k)
  BY <1>1 DEF Tells, Is
<1>5. \A id \in DOMAIN P : P[id] \in M \cup {h} \cup K \/ In(r, "Disconnected", P[id])
  BY <1>2 DEF Tells
<1>6. In(r, "Connected", h)
  BY <1>1 DEF In
<1> QED BY <1>2, <1>3, <1>4, <1>5, <1>6 DEF Tells, r

LEMMA LosesTells ==
  ASSUME NEW due \in Seq(Messages), NEW M, NEW K, NEW O, NEW P, NEW N, Tells(due, M, K, O, P, N),
         NEW h \in Conns, Event("Disconnected", h) \in Messages, N[h] = PeerOf(h)
  PROVE  Tells(Append(due, Event("Disconnected", h)), M \ {h}, K, O \cup {k \in M \ {h} : N[k] = N[h]}, P, N)
<1> DEFINE r == Append(due, Event("Disconnected", h))
           z == Len(due) + 1
           O1 == O \cup {k \in M \ {h} : N[k] = N[h]}
<1>1. /\ \A n \in DOMAIN due : n \in DOMAIN r /\ r[n] = due[n]
      /\ \A n \in DOMAIN r : n \in DOMAIN due \/ n = z
      /\ z \in DOMAIN r /\ \A n \in DOMAIN due : n \in Nat /\ z > n
      /\ r[z].type = "Disconnected" /\ r[z].conn = h /\ r[z].peer = N[h]
  BY Appended DEF EventTypes
<1> HIDE DEF r, z
<1>2. \A type, k : In(due, type, k) => In(r, type, k)
  BY <1>1 DEF In
<1>3. \A i \in DOMAIN r : r[i].type = "Connected" =>
        r[i].conn \in (M \ {h}) \cup K \/ \E j \in DOMAIN r : j > i /\ Is(r[j], "Disconnected", r[i].conn)
  <2> SUFFICES ASSUME NEW i \in DOMAIN r, r[i].type = "Connected", r[i].conn \notin (M \ {h}) \cup K
               PROVE  \E j \in DOMAIN r : j > i /\ Is(r[j], "Disconnected", r[i].conn)
    OBVIOUS
  <2>1. i \in DOMAIN due
    BY <1>1
  <2>2. CASE r[i].conn = h
    BY <1>1, <2>1, <2>2 DEF Is
  <2>3. CASE r[i].conn # h
    BY <1>1, <2>1, <2>3 DEF Tells
  <2> QED BY <2>2, <2>3
<1>4. \A i \in DOMAIN r, k \in (M \ {h}) \ O1 : r[i].type = "Disconnected" /\ r[i].peer = N[k] =>
        \E j \in DOMAIN r : j > i /\ Is(r[j], "Connected", k)
  BY <1>1 DEF Tells, Is
<1>5. \A id \in DOMAIN P : P[id] \in (M \ {h}) \cup K \/ In(r, "Disconnected", P[id])
  <2>1. In(r, "Disconnected", h)
    BY <1>1 DEF In
  <2> QED BY <1>2, <2>1 DEF Tells
<1>6. \A k \in (M \ {h}) \ O1 : N[k] \in DOMAIN P \/ In(r, "Connected", k)
  BY <1>2 DEF Tells
<1> QED BY <1>3, <1>4, <1>5, <1>6 DEF Tells, r

LEMMA KicksTells ==
  ASSUME NEW M, NEW K, NEW O, NEW P, NEW N, Tells(<<>>, M, K, O, P, N), NEW H
  PROVE  Tells(<<>>, M \ H, K \cup H, O, P, N)
<1>1. \A type, k : ~In(<<>>, type, k)
  BY DEF In
<1> QED BY <1>1 DEF Tells

LEMMA HandsTells ==
  ASSUME NEW due \in Seq(Messages), due # <<>>, NEW M, NEW K, NEW O, NEW P, NEW N, Tells(due, M, K, O, P, N)
  PROVE  LET event == Head(due) IN
         /\ event.type = "Connected" /\ event.peer = N[event.conn]
              => Tells(Tail(due), M, K, O, With(P, event.peer, event.conn), N)
         /\ event.type = "Disconnected" /\ (\A id \in DOMAIN P : P[id] = event.conn => event.peer = id)
              => Tells(Tail(due), M, K, O, Without(P, event.peer), N)
<1> DEFINE event == Head(due)
           r == Tail(due)
<1>1. /\ event = due[1] /\ 1 \in DOMAIN due
      /\ \A n \in DOMAIN r : n \in Nat /\ n + 1 \in DOMAIN due /\ r[n] = due[n + 1]
      /\ \A n \in DOMAIN due : n \in Nat /\ (n > 1 => n - 1 \in DOMAIN r /\ r[n - 1] = due[n])
      /\ \A n \in DOMAIN due : n >= 1
  OBVIOUS
<1> HIDE DEF event, r
<1>2. \A type, k : In(due, type, k) <=> ((event.type = type /\ event.conn = k) \/ In(r, type, k))
  BY InFacts DEF event, r
<1>3. \A i \in DOMAIN r : \A type, k : (\E j \in DOMAIN due : j > i + 1 /\ Is(due[j], type, k)) =>
        \E j \in DOMAIN r : j > i /\ Is(r[j], type, k)
  <2> SUFFICES ASSUME NEW i \in DOMAIN r, NEW type, NEW k, NEW j \in DOMAIN due, j > i + 1, Is(due[j], type, k)
               PROVE  \E l \in DOMAIN r : l > i /\ Is(r[l], type, k)
    OBVIOUS
  <2>1. j - 1 \in DOMAIN r /\ r[j - 1] = due[j] /\ j - 1 > i
    BY <1>1
  <2> QED BY <2>1
<1>4. \A i \in DOMAIN r : r[i].type = "Connected" =>
        r[i].conn \in M \cup K \/ \E j \in DOMAIN r : j > i /\ Is(r[j], "Disconnected", r[i].conn)
  BY <1>1, <1>3 DEF Tells
<1>5. \A i \in DOMAIN r, k \in M \ O : r[i].type = "Disconnected" /\ r[i].peer = N[k] =>
        \E j \in DOMAIN r : j > i /\ Is(r[j], "Connected", k)
  BY <1>1, <1>3 DEF Tells
<1>6. ASSUME event.type = "Connected", event.peer = N[event.conn]
      PROVE  Tells(r, M, K, O, With(P, event.peer, event.conn), N)
  <2>1. event.conn \in M \cup K \/ In(r, "Disconnected", event.conn)
    <3>1. event.conn \in M \cup K \/ In(due, "Disconnected", event.conn)
      BY <1>1, <1>6 DEF Tells, In, Is
    <3> QED BY <1>2, <1>6, <3>1
  <2>2. \A id \in DOMAIN P : P[id] \in M \cup K \/ In(r, "Disconnected", P[id])
    BY <1>2, <1>6 DEF Tells
  <2>3. \A k \in M \ O : N[k] \in DOMAIN P \cup {event.peer} \/ In(r, "Connected", k)
    BY <1>2, <1>6 DEF Tells
  <2> QED BY <1>4, <1>5, <2>1, <2>2, <2>3 DEF Tells, With
<1>7. ASSUME event.type = "Disconnected", \A id \in DOMAIN P : P[id] = event.conn => event.peer = id
      PROVE  Tells(r, M, K, O, Without(P, event.peer), N)
  <2>1. \A id \in DOMAIN P \ {event.peer} : P[id] \in M \cup K \/ In(r, "Disconnected", P[id])
    BY <1>2, <1>7 DEF Tells
  <2>2. \A k \in M \ O : N[k] \in DOMAIN P \ {event.peer} \/ In(r, "Connected", k)
    <3> TAKE k \in M \ O
    <3>1. CASE N[k] = event.peer
      <4>1. In(due, "Connected", k)
        BY <1>1, <1>7, <3>1 DEF Tells, In, Is
      <4> QED BY <1>2, <1>7, <4>1
    <3>2. CASE N[k] # event.peer
      BY <1>2, <1>7, <3>2 DEF Tells
    <3> QED BY <3>1, <3>2
  <2> QED BY <1>4, <1>5, <2>1, <2>2 DEF Tells, Without
<1> QED BY <1>6, <1>7 DEF event, r

Agreed == QueueOK /\ ConnectedOK /\ DisconnectedOK /\ PeersOK /\ MappedOK

\* How the events due change.
LEMMA DueStep ==
  ASSUME Basics, QueueOK, ServerStep
  PROVE  /\ QueueOK' /\ Due \in Seq(Messages) /\ PeersIn(Due)
         /\ Rests \/ ServerPolls => Due' = Due
         /\ Kicks \/ Stops => Due' = <<>> /\ Due = <<>> /\ batch[Server] = <<>>
         /\ \A h \in Conns, type \in EventTypes :
              /\ at[Server] = "callbacks" /\ UNCHANGED <<batch[Server], at[Server]>>
              /\ event_queue'[Server] = Append(event_queue[Server], Event(type, h))
              => Due' = Append(Due, Event(type, h))
         /\ Serves => \/ Due' = Due /\ Head(batch[Server]).type = "ack"
                      \/ Due' = Tail(Due) /\ Due # <<>> /\ Head(batch[Server]) = Head(Due) /\ at[Server] = "game"
<1> Server \in Ends
  BY DEF Ends
<1>1. /\ event_queue[Server] \in Seq(Messages) /\ batch[Server] \in Seq(Messages) /\ PeersIn(Due)
      /\ at[Server] \in {"game", "callbacks", "receive"}
  BY DEF Basics, Types, NamesOK, Due
<1>2. Rests \/ ServerPolls => QueueOK' /\ Due' = Due
  <2>1. Rests => QueueOK' /\ Due' = Due
    BY DEF Rests, Waits, QueueOK, Due
  <2>2. Goes(Server) => QueueOK' /\ Due' = Due
    BY DEF Goes, QueueOK, Due
  <2>3. \A M : Reads(Server, M) => QueueOK' /\ Due' = Due
    BY DEF Reads, QueueOK, Due
  <2>4. Takes(Server) => QueueOK' /\ Due' = Due
    BY DEF Takes, QueueOK, Due
  <2> QED BY <2>1, <2>2, <2>3, <2>4 DEF ServerPolls, Polls
<1>3. Kicks \/ Stops => QueueOK' /\ Due' = <<>> /\ Due = <<>> /\ batch[Server] = <<>>
  BY DEF Kicks, Kick, Stops, StopServer, Waits, InGame, QueueOK, Due
<1>4. ASSUME at[Server] = "callbacks", UNCHANGED <<batch[Server], at[Server]>>
      PROVE  Due' = event_queue'[Server] /\ Due = event_queue[Server] /\ QueueOK'
  BY <1>4 DEF Due, QueueOK
<1>5. ASSUME Serves
      PROVE  /\ QueueOK'
             /\ \/ Due' = Due /\ Head(batch[Server]).type = "ack"
                \/ Due' = Tail(Due) /\ Due # <<>> /\ Head(batch[Server]) = Head(Due) /\ at[Server] = "game"
  <2>1. batch[Server] # <<>> /\ batch'[Server] = Tail(batch[Server]) /\ UNCHANGED <<event_queue[Server], at[Server]>>
    BY <1>5 DEF Serves, ServerHandles
  <2>2. at[Server] # "callbacks" /\ (at[Server] = "receive" => Head(batch[Server]).type = "ack")
    <3>1. Head(batch[Server]) = batch[Server][1] /\ 1 \in DOMAIN batch[Server]
      BY <1>1, <2>1
    <3> QED BY <2>1, <3>1 DEF Basics, PassesOK, OnlyIn
  <2> QED BY <1>1, <2>1, <2>2 DEF Due, QueueOK
<1>6. QueueOK'
  BY <1>2, <1>3, <1>4, <1>5 DEF ServerStep, Enters, Loses
<1>7. Due \in Seq(Messages)
  BY <1>1 DEF Due
<1> QED BY <1>1, <1>2, <1>3, <1>4, <1>5, <1>6, <1>7

\* Orphans are spared, and a peer's name is that of its connection once made.
LEMMA TellsMore ==
  ASSUME NEW due, NEW M, NEW K, NEW O, NEW P, NEW N, Tells(due, M, K, O, P, N),
         NEW O1, O \subseteq O1, NEW N1, \A h \in M : N1[h] = N[h]
  PROVE  Tells(due, M, K, O1, P, N1)
BY DEF Tells

LEMMA AgreedKept ==
  ASSUME Basics, Agreed, [Next]_vars
  PROVE  Agreed'
<1> PICK due, M, K, O, P, N : due = Due /\ M = DOMAIN conn_to_peer /\ K = kicked /\ O = orphaned /\ P = peers /\ N = PeerNames
  OBVIOUS
<1>1. Stays /\ ServerStep /\ orphaned \subseteq orphaned' /\ kicked \subseteq kicked' /\ MapsOK'
  BY Staying, ServerSteps, MapsKept
<1>2. Tells(due, M, K, O, P, N)
  BY Telling DEF Agreed, Basics
<1>3. /\ QueueOK' /\ due \in Seq(Messages)
      /\ \A n \in DOMAIN due : due[n].peer = PeerOf(due[n].conn) /\ due[n].conn \in Conns /\ Made(due[n].conn)
  <2>1. QueueOK' /\ due \in Seq(Messages) /\ PeersIn(due)
    BY <1>1, DueStep DEF Agreed
  <2>2. \A n \in DOMAIN due : due[n] \in Messages
    BY <2>1
  <2> QED BY <2>1, <2>2 DEF PeersIn, Messages
<1>4. \A h \in Conns : Made(h) => PeerNames'[h] = N[h] /\ N[h] = PeerOf(h)
  BY <1>1 DEF PeerNames, Stays, PeerOf
<1>5. M \subseteq Conns /\ \A h \in M : Made(h)
  BY DEF Basics, MapsOK
<1>6. \A h \in Conns, type \in EventTypes : Event(type, h) \in Messages
  BY Typed DEF Basics
<1>7. SUFFICES \E O1 : O1 \subseteq orphaned' /\ Tells(Due', DOMAIN conn_to_peer', kicked', O1, peers', N)
  <2> SUFFICES ASSUME NEW O1, O1 \subseteq orphaned', Tells(Due', DOMAIN conn_to_peer', kicked', O1, peers', N)
               PROVE  Agreed'
    OBVIOUS
  <2>1. \A h \in DOMAIN conn_to_peer' : h \in Conns /\ PeerNames'[h] = N[h]
    <3>1. DOMAIN conn_to_peer' \subseteq M \cup {h \in Conns : Made(h)}
      BY ZenonT(40), <1>1, <1>5 DEF ServerStep, Rests, Enters, Loses, Kicks, Kick, Stops, StopServer, ServerPolls, Serves, ServerHandles,
                        serverState, NewPeer, LostPeer, With, Without, Nothing
    <3> QED BY <1>4, <1>5, <3>1
  <2>2. Tells(Due', DOMAIN conn_to_peer', kicked', orphaned', peers', PeerNames')
    BY ONLY <2>1, O1 \subseteq orphaned', Tells(Due', DOMAIN conn_to_peer', kicked', O1, peers', N), TellsMore
  <2>3. ConnectedOK' /\ DisconnectedOK' /\ PeersOK' /\ MappedOK'
    <3>1. \A h \in DOMAIN conn_to_peer' : PeerNames'[h] = PeerOf(h)'
      BY <1>1 DEF MapsOK, PeerNames, PeerOf
    <3> QED BY <2>2, <3>1 DEF Tells, ConnectedOK, DisconnectedOK, PeersOK, MappedOK, In, Is
  <2> QED BY <1>3, <2>3 DEF Agreed
<1>8. CASE Rests \/ ServerPolls
  <2>1. Due' = due /\ UNCHANGED <<serverState, kicked>>
    BY <1>1, <1>8, DueStep DEF Agreed, Rests, ServerPolls
  <2> QED BY <1>1, <1>2, <2>1 DEF serverState
<1>9. CASE Enters
  <2>1. PICK h \in Conns : /\ Made(h) /\ at[Server] = "callbacks" /\ NewPeer(h)
                           /\ event_queue'[Server] = Append(event_queue[Server], Event("Connected", h))
                           /\ UNCHANGED <<batch[Server], at[Server]>>
    BY <1>9 DEF Enters
  <2>2. Due' = Append(due, Event("Connected", h))
    BY <1>1, <2>1, DueStep DEF Agreed, EventTypes
  <2>3. DOMAIN conn_to_peer' = M \cup {h} /\ UNCHANGED <<kicked, orphaned, peers>>
    BY <2>1 DEF NewPeer, With
  <2>4. Event("Connected", h) \in Messages
    BY <1>6 DEF EventTypes
  <2>5. Tells(Append(due, Event("Connected", h)), M \cup {h}, K, O, P, N)
    <3>1. due \in Seq(Messages)
      BY <1>3
    <3> QED BY ONLY <3>1, <1>2, h \in Conns, <2>4, EntersTells
  <2> QED BY <2>2, <2>3, <2>5
<1>10. CASE Loses
  <2>1. PICK h \in Conns : /\ Made(h) /\ at[Server] = "callbacks" /\ LostPeer(h)
                           /\ event_queue'[Server] = Append(event_queue[Server], Event("Disconnected", h))
                           /\ UNCHANGED <<batch[Server], at[Server]>>
    BY <1>10 DEF Loses
  <2>2. Due' = Append(due, Event("Disconnected", h))
    BY <1>1, <2>1, DueStep DEF Agreed, EventTypes
  <2>3. DOMAIN conn_to_peer' = M \ {h} /\ UNCHANGED <<kicked, peers>>
        /\ O \cup {k \in M \ {h} : N[k] = N[h]} \subseteq orphaned'
    BY <1>4, <1>5, <2>1 DEF LostPeer, Without, SamePeer
  <2>4. Event("Disconnected", h) \in Messages /\ N[h] = PeerOf(h)
    BY <1>4, <1>6, <2>1 DEF EventTypes
  <2>5. Tells(Append(due, Event("Disconnected", h)), M \ {h}, K, O \cup {k \in M \ {h} : N[k] = N[h]}, P, N)
    BY ONLY <1>2, <1>3, h \in Conns, <2>4, LosesTells
  <2> QED BY <2>2, <2>3, <2>5
<1>11. CASE Kicks
  <2>1. PICK id \in DOMAIN peer_to_conn : Kick(id)
    BY <1>11 DEF Kicks
  <2>2. due = <<>> /\ Due' = <<>>
    BY <1>1, <1>11, DueStep DEF Agreed
  <2>3. PICK H : DOMAIN conn_to_peer' = M \ H /\ kicked' = K \cup H /\ UNCHANGED <<orphaned, peers>>
    BY <2>1 DEF Kick, Without
  <2>4. Tells(<<>>, M, K, O, P, N)
    BY <1>2, <2>2
  <2>5. Tells(<<>>, M \ H, K \cup H, O, P, N)
    BY ONLY <2>4, KicksTells
  <2> QED BY <2>2, <2>3, <2>5
<1>12. CASE Stops
  <2>1. due = <<>> /\ Due' = <<>>
    BY <1>1, <1>12, DueStep DEF Agreed
  <2>2. DOMAIN conn_to_peer' = M \ M /\ kicked' = K \cup M /\ UNCHANGED <<orphaned, peers>>
    BY <1>12 DEF Stops, StopServer, Nothing
  <2>3. Tells(<<>>, M, K, O, P, N)
    BY <1>2, <2>1
  <2>4. Tells(<<>>, M \ M, K \cup M, O, P, N)
    BY ONLY <2>3, KicksTells
  <2> QED BY <2>1, <2>2, <2>4
<1>13. CASE Serves
  <2> PICK event : event = Head(batch[Server])
    OBVIOUS
  <2>1. /\ UNCHANGED <<conn_to_peer, kicked, orphaned>>
        /\ \/ event.type = "Connected" /\ peers' = With(peers, event.peer, event.conn)
           \/ event.type = "Disconnected" /\ peers' = Without(peers, event.peer)
           \/ event.type = "ack" /\ UNCHANGED peers
    BY <1>13 DEF Serves, ServerHandles
  <2>2. CASE Due' = due /\ event.type = "ack"
    BY <1>2, <2>1, <2>2
  <2>3. CASE Due' = Tail(due) /\ due # <<>> /\ event = Head(due) /\ at[Server] = "game"
    <3>1. event = due[1] /\ 1 \in DOMAIN due /\ due = batch[Server]
      BY <1>3, <2>3 DEF Due
    <3>2. event.peer = N[event.conn] /\ event.conn \in Conns /\ event.peer = PeerOf(event.conn)
      BY <1>3, <1>4, <3>1
    <3>3. \A id \in DOMAIN P : P[id] = event.conn => event.peer = id
      BY <3>2 DEF Basics, MapsOK
    <3>4. event.type \in EventTypes
      BY <2>3, <3>1 DEF Basics, PassesOK, OnlyIn, Ends
    <3>5. /\ event.type = "Connected" /\ event.peer = N[event.conn]
                => Tells(Tail(due), M, K, O, With(P, event.peer, event.conn), N)
          /\ event.type = "Disconnected" /\ (\A id \in DOMAIN P : P[id] = event.conn => event.peer = id)
                => Tells(Tail(due), M, K, O, Without(P, event.peer), N)
      BY ONLY <1>2, <1>3, <2>3, HandsTells
    <3> QED BY <2>1, <2>3, <3>2, <3>3, <3>4, <3>5 DEF EventTypes
  <2> QED BY <1>1, <1>13, <2>2, <2>3, DueStep DEF Agreed
<1> QED BY <1>1, <1>8, <1>9, <1>10, <1>11, <1>12, <1>13 DEF ServerStep

--------------------------------------------------------------------------------
(* A connection that was sent a snapshot is in the maps, until it is closed.    *)

Early == {"none", "asked", "accepted"}

\* The server's end of a connection: what is closed stays closed and holds nothing, what is opened stays so.
FarKept ==
  \A h \in Conns :
    /\ conn'[h].far \in Early => conn[h].far \in Early
    /\ conn[h].far = "closed" => conn'[h].far = "closed"
    /\ (conn[h].far = "closed" => conn[h].up = {}) /\ conn'[h].far = "closed" => conn'[h].up = {}

LEMMA FarKeptBySame ==
  ASSUME Types, NEW H \in SUBSET Conns,
         \A h \in Conns \ H : conn'[h].far = conn[h].far /\ (conn'[h].up = conn[h].up \/ conn[h].far # "closed"),
         \A h \in H : conn'[h].far = "closed" /\ conn'[h].up = {}
  PROVE  FarKept
BY DEF FarKept, Early

LEMMA FarClosing ==
  ASSUME Types, NEW H \in SUBSET Conns, conn' = FarClosed(H)
  PROVE  FarKept /\ (\A h \in H : conn'[h].far = "closed") /\ (\A h \in Conns : conn'[h].down = conn[h].down /\ conn'[h].up \subseteq conn[h].up)
<1>1. \A h \in Conns : conn[h] \in Connections
  BY DEF Types
<1>2. \A h \in H : conn'[h].far = "closed" /\ conn'[h].up = {} /\ conn'[h].down = conn[h].down
  BY <1>1 DEF FarClosed, Connections
<1>3. \A h \in Conns \ H : conn'[h] = conn[h]
  BY DEF FarClosed
<1> QED BY <1>2, <1>3, FarKeptBySame

LEMMA FarSteps ==
  ASSUME Basics, [Next]_vars
  PROVE  FarKept
<1> USE DEF Basics
<1>1. conn \in [Conns -> Connections] /\ Types /\ \A h \in Conns : conn[h] \in Connections
  BY DEF Types
<1>2. ASSUME conn' = conn PROVE FarKept
  BY <1>2 DEF FarKept
<1>3. ASSUME NEW h \in Conns, Library(h) PROVE FarKept
  <2>1. CASE Asks(h)
    BY <1>1, <2>1 DEF Asks, FarKept, Early
  <2>2. CASE OpensFar(h)
    BY <1>1, <2>2 DEF OpensFar, FarKept, Early
  <2>3. CASE OpensNear(h)
    BY <1>1, <2>3 DEF OpensNear, FarKept, Early
  <2>4. CASE LosesFar(h)
    BY <1>1, <2>4 DEF LosesFar, FarKept, Early
  <2>5. CASE LosesNear(h)
    BY <1>1, <2>5 DEF LosesNear, FarKept, Early
  <2> QED BY <1>3, <2>1, <2>2, <2>3, <2>4, <2>5 DEF Library
<1>4. ASSUME NEW h, conn' = NearClosed(h) PROVE FarKept
  <2>1. \A k \in Conns : conn'[k].far = conn[k].far /\ conn'[k].up = conn[k].up
    BY <1>1, <1>4 DEF NearClosed, Connections
  <2> QED BY <2>1 DEF FarKept
<1>5. ASSUME NEW h, NEW m, conn' = Downs(h, m) PROVE FarKept
  <2>1. \A k \in Conns : conn'[k].far = conn[k].far /\ conn'[k].up = conn[k].up
    BY <1>1, <1>5 DEF Downs, Connections
  <2> QED BY <2>1 DEF FarKept
<1>6. ASSUME NEW h, NEW m, conn' = Ups(h, m) PROVE FarKept
  <2>1. \A k \in Conns : conn'[k].far = conn[k].far /\ (conn'[k].up = conn[k].up \/ conn[k].far # "closed")
    BY <1>1, <1>6 DEF Ups, Connections
  <2> QED BY <2>1 DEF FarKept
<1>7. CASE GameStep
  <2>1. ASSUME NEW c \in Clients, Connect(c) PROVE FarKept
    <3>1. PICK h \in Conns : /\ conn'[h].far = "none" /\ conn'[h].up = conn[h].up /\ ~Made(h)
                             /\ \A k \in Conns \ {h} : conn'[k] = conn[k]
      BY <2>1, ConnectMakes
    <3>2. conn[h].far = "none"
      BY <3>1 DEF ShapeOK
    <3> QED BY <3>1, <3>2 DEF FarKept, Early
  <2>2. ASSUME NEW c \in Clients, Disconnect(c) PROVE FarKept
    BY <1>4, <2>2 DEF Disconnect, Leaves
  <2>3. ASSUME NEW id \in DOMAIN peers, Kick(id) PROVE FarKept
    <3>1. PICK h \in Conns : conn' = FarClosed({h})
      BY <2>3 DEF Kick, MapsOK
    <3> QED BY <1>1, <3>1, FarClosing
  <2>4. ASSUME NEW id, SendSnapshot(id) PROVE FarKept
    BY <1>5, <2>4 DEF SendSnapshot
  <2>5. CASE StopServer
    <3>1. PICK H \in SUBSET Conns : conn' = FarClosed(H)
      BY <2>5 DEF StopServer
    <3> QED BY <1>1, <3>1, FarClosing
  <2> QED BY <1>7, <2>1, <2>2, <2>3, <2>4, <2>5 DEF GameStep
<1>8. ASSUME NEW e \in Ends, RunsCallback(e) PROVE FarKept
  <2> DEFINE call == Head(calls[e])
  <2>1. call.conn \in Conns
    <3> calls[e] \in Seq(Calls) /\ calls[e] # <<>>
      BY <1>8 DEF RunsCallback, Types
    <3> call \in Calls
      OBVIOUS
    <3> HIDE DEF call
    <3> QED BY DEF Calls
  <2>2. CASE e = Server
    <3> ServerStatus(call)
      BY <1>8, <2>2 DEF RunsCallback
    <3> HIDE DEF call
    <3>1. CASE conn' = FarClosed({call.conn})
      BY <1>1, <2>1, <3>1, FarClosing
    <3>2. CASE conn' = [conn EXCEPT ![call.conn].far = "accepted"] /\ conn[call.conn].far = "asked"
      BY <1>1, <2>1, <3>2 DEF FarKept, Early
    <3> QED BY <1>2, <3>1, <3>2 DEF ServerStatus, Accepts, NewPeer, LostPeer
  <2>3. CASE e # Server
    <3> ClientStatus(e, call)
      BY <1>8, <2>3 DEF RunsCallback
    <3> HIDE DEF call
    <3> QED BY <1>2, <1>4 DEF ClientStatus, LostServer
  <2> QED BY <2>2, <2>3
<1>9. ASSUME NEW e \in Ends, StartPoll(e) \/ CallbacksRan(e) \/ TakesEvents(e) PROVE FarKept
  BY <1>2, <1>9 DEF StartPoll, CallbacksRan, TakesEvents
<1>10. ASSUME ReceivesAtServer PROVE FarKept
  <2>1. \A k \in Conns : conn'[k].far = conn[k].far /\ (conn'[k].up = conn[k].up \/ conn[k].far # "closed")
    BY <1>1, <1>10 DEF ReceivesAtServer, Connections, InGroup
  <2> QED BY <2>1 DEF FarKept
<1>11. ASSUME NEW c, ReceivesAtClient(c) PROVE FarKept
  <2>1. \A k \in Conns : conn'[k].far = conn[k].far /\ conn'[k].up = conn[k].up
    BY <1>1, <1>11 DEF ReceivesAtClient, Connections
  <2> QED BY <2>1 DEF FarKept
<1>12. ASSUME ServerHandles PROVE FarKept
  BY <1>2, <1>5, <1>12 DEF ServerHandles
<1>13. ASSUME NEW c \in Clients, ClientHandles(c) PROVE FarKept
  BY <1>2, <1>4, <1>6, <1>13 DEF ClientHandles, ReceivesWelcome, Leaves, ReceivesSnapshot
<1>14. CASE UNCHANGED vars
  BY <1>2, <1>14 DEF vars
<1> QED BY <1>3, <1>7, <1>8, <1>9, <1>10, <1>11, <1>12, <1>13, <1>14 DEF Next, PollStep, Ends

\* The callback that tells the server of an open connection runs.
Pops(h) == calls[Server] # <<>> /\ Head(calls[Server]) = [conn |-> h, status |-> "connected"] /\ calls'[Server] = Tail(calls[Server])
\* A snapshot is sent on it, between polls.
SentOn(h) ==
  /\ conn[h].far = "open" /\ h \in DOMAIN conn_to_peer /\ InGame(Server)
  /\ UNCHANGED <<calls, conn_to_peer, at, batch, event_queue>>
ServedStep == \A h \in Conns : Served(h)' => Served(h) \/ SentOn(h)

LEMMA ServedBy ==
  ASSUME Basics,
         \A h \in Conns : conn'[h].down \subseteq conn[h].down \cup {"welcome"} /\ conn'[h].up \subseteq conn[h].up,
         \A c \in Clients : batch'[c] = batch[c] \/ (batch[c] # <<>> /\ batch'[c] = Tail(batch[c])) \/ OnlyIn(batch'[c], EventTypes)
  PROVE  ServedStep
<1> SUFFICES ASSUME NEW h \in Conns, Served(h)' PROVE Served(h)
  BY DEF ServedStep
<1>1. CASE "snapshot" \in conn'[h].down \/ conn'[h].up # {}
  BY <1>1 DEF Served
<1>2. ASSUME NEW c \in Clients, NEW n \in DOMAIN batch'[c], Is(batch'[c][n], "snapshot", h) PROVE Served(h)
  <2>1. batch[c] \in Seq(Messages)
    BY DEF Basics, Types, Ends
  <2>2. CASE batch'[c] = batch[c]
    BY <1>2, <2>2 DEF Served
  <2>3. CASE batch[c] # <<>> /\ batch'[c] = Tail(batch[c])
    <3>1. n + 1 \in DOMAIN batch[c] /\ batch'[c][n] = batch[c][n + 1]
      BY <1>2, <2>1, <2>3
    <3> QED BY <1>2, <3>1 DEF Served
  <2>4. CASE OnlyIn(batch'[c], EventTypes)
    BY <1>2, <2>4 DEF OnlyIn, EventTypes, Is
  <2> QED BY <1>2, <2>2, <2>3, <2>4
<1> QED BY <1>1, <1>2 DEF Served

LEMMA ServedSteps ==
  ASSUME Basics, ClientsOK, [Next]_vars
  PROVE  ServedStep
<1> USE DEF Basics
<1>1. conn \in [Conns -> Connections] /\ Types /\ \A h \in Conns : conn[h] \in Connections
  BY DEF Types
<1> DEFINE Fewer == \A h \in Conns : conn'[h].down \subseteq conn[h].down \cup {"welcome"} /\ conn'[h].up \subseteq conn[h].up
           Heard == \A c \in Clients : batch'[c] = batch[c] \/ (batch[c] # <<>> /\ batch'[c] = Tail(batch[c])) \/ OnlyIn(batch'[c], EventTypes)
<1>2. conn' = conn => Fewer
  OBVIOUS
<1>3. batch' = batch => Heard
  OBVIOUS
<1>4. ASSUME NEW h, conn' = NearClosed(h) PROVE Fewer
  BY <1>1, <1>4 DEF NearClosed, Connections
<1>5. ASSUME NEW h, conn' = Downs(h, "welcome") PROVE Fewer
  BY <1>1, <1>5 DEF Downs, Connections
<1>6. ASSUME NEW H \in SUBSET Conns, conn' = FarClosed(H) PROVE Fewer
  BY <1>1, <1>6, FarClosing
<1>7. Fewer /\ Heard => ServedStep
  BY ServedBy
<1> HIDE DEF Fewer, Heard
<1>8. ASSUME NEW h \in Conns, Library(h) PROVE ServedStep
  <2>1. batch' = batch
    BY <1>8 DEF Library, Asks, OpensFar, OpensNear, LosesFar, LosesNear, pollVars
  <2>2. \A k \in Conns : conn'[k].down = conn[k].down /\ conn'[k].up = conn[k].up
    BY <1>1, <1>8 DEF Library, Asks, OpensFar, OpensNear, LosesFar, LosesNear, Connections
  <2> QED BY <1>3, <1>7, <2>1, <2>2 DEF Fewer
<1>9. CASE GameStep
  <2>1. batch' = batch
    BY <1>9 DEF GameStep, Connect, Disconnect, Kick, SendSnapshot, StopServer, pollVars
  <2>2. ASSUME NEW c \in Clients, Connect(c) PROVE Fewer
    <3>1. PICK h \in Conns : conn'[h].down = conn[h].down /\ conn'[h].up = conn[h].up /\ \A k \in Conns \ {h} : conn'[k] = conn[k]
      BY <2>2, ConnectMakes
    <3> QED BY <3>1 DEF Fewer
  <2>3. ASSUME NEW c \in Clients, Disconnect(c) PROVE Fewer
    BY <1>4, <2>3 DEF Disconnect, Leaves
  <2>4. ASSUME NEW id \in DOMAIN peers, Kick(id) PROVE Fewer
    <3>1. PICK h \in Conns : conn' = FarClosed({h})
      BY <2>4 DEF Kick, MapsOK
    <3>2. {h} \in SUBSET Conns
      BY <3>1
    <3> QED BY <1>6, <3>1, <3>2
  <2>5. ASSUME StopServer PROVE Fewer
    <3>1. PICK H \in SUBSET Conns : conn' = FarClosed(H)
      BY <2>5 DEF StopServer
    <3> QED BY <1>6, <3>1
  <2>6. ASSUME NEW id \in DOMAIN peers, SendSnapshot(id) PROVE ServedStep
    <3> DEFINE k == peer_to_conn[id]
    <3>1. /\ InGame(Server) /\ k \in Conns /\ k \in DOMAIN conn_to_peer
          /\ conn' = Downs(k, "snapshot") /\ conn' # conn /\ UNCHANGED <<calls, conn_to_peer, at, batch, event_queue>>
      BY <2>6 DEF SendSnapshot, serverVars, pollVars, MapsOK
    <3> HIDE DEF k
    <3>2. conn[k].far = "open" /\ conn' = [conn EXCEPT ![k].down = @ \cup {"snapshot"}]
      BY <3>1 DEF Downs
    <3>3. SentOn(k)
      BY <3>1, <3>2 DEF SentOn
    <3>4. \A h \in Conns \ {k} : conn'[h] = conn[h]
      BY <3>2, <1>1
    <3> QED BY <3>1, <3>3, <3>4 DEF ServedStep, Served
  <2> QED BY <1>3, <1>7, <1>9, <2>1, <2>2, <2>3, <2>4, <2>5, <2>6 DEF GameStep
<1>10. ASSUME NEW e \in Ends, RunsCallback(e) PROVE ServedStep
  <2> DEFINE call == Head(calls[e])
  <2>1. call.conn \in Conns
    <3> calls[e] \in Seq(Calls) /\ calls[e] # <<>>
      BY <1>10 DEF RunsCallback, Types
    <3> call \in Calls
      OBVIOUS
    <3> HIDE DEF call
    <3> QED BY DEF Calls
  <2>2. Heard
    BY <1>3, <1>10 DEF RunsCallback
  <2>3. CASE e = Server
    <3> ServerStatus(call)
      BY <1>10, <2>3 DEF RunsCallback
    <3> HIDE DEF call
    <3>1. CASE conn' = FarClosed({call.conn})
      BY <1>6, <1>7, <2>1, <2>2, <3>1
    <3>2. CASE conn' = [conn EXCEPT ![call.conn].far = "accepted"]
      <4> Fewer
        BY <1>1, <2>1, <3>2 DEF Fewer, Connections
      <4> QED BY <1>7, <2>2
    <3> QED BY <1>2, <1>7, <2>2, <3>1, <3>2 DEF ServerStatus, Accepts, NewPeer, LostPeer
  <2>4. CASE e # Server
    <3> ClientStatus(e, call)
      BY <1>10, <2>4 DEF RunsCallback
    <3> HIDE DEF call
    <3> QED BY <1>2, <1>4, <1>7, <2>2 DEF ClientStatus, LostServer
  <2> QED BY <2>3, <2>4
<1>11. ASSUME NEW e \in Ends, StartPoll(e) \/ CallbacksRan(e) \/ TakesEvents(e) PROVE ServedStep
  <2>1. conn' = conn
    BY <1>11 DEF StartPoll, CallbacksRan, TakesEvents
  <2>2. batch' = batch \/ batch' = [batch EXCEPT ![e] = event_queue[e]]
    BY <1>11 DEF StartPoll, CallbacksRan, TakesEvents
  <2>3. Heard
    BY <2>2 DEF Types, PassesOK, Heard, Ends
  <2> QED BY <1>2, <1>7, <2>1, <2>3
<1>12. CASE ReceivesAtServer
  <2>1. Heard
    BY <1>12, SessionAssumption DEF ReceivesAtServer, Heard, Types
  <2>2. Fewer
    BY <1>1, <1>12 DEF ReceivesAtServer, Connections, Fewer
  <2> QED BY <1>7, <2>1, <2>2
<1>13. ASSUME NEW c \in Clients, ReceivesAtClient(c) PROVE ServedStep
  <2>1. link[c] \in Conns /\ Unread(c) # {} /\ batch[c] = <<>>
    BY <1>13, SessionAssumption DEF ReceivesAtClient, Unread, Types
  <2>2. \A h \in Conns : conn'[h].down \subseteq conn[h].down /\ conn'[h].up = conn[h].up
    BY <1>1, <1>13 DEF ReceivesAtClient, Connections
  <2>3. \A d \in Clients \ {c} : batch'[d] = batch[d]
    BY <1>13 DEF ReceivesAtClient, Types
  <2>4. \A n \in DOMAIN batch'[c] : batch'[c][n] \in ReadsOf(c)
    <3>1. ClientStep(c)
      BY ClientSteps
    <3>2. at[c] = "receive" /\ at' = at /\ event_queue' = event_queue /\ UNCHANGED clientVars
      BY <1>13 DEF ReceivesAtClient
    <3>3. CASE UNCHANGED batch[c]
      BY <2>1, <3>3
    <3> QED BY <2>1, <3>1, <3>2, <3>3 DEF ClientStep, Idles, Joins, Quits, Opens, Hands, ClientPolls, Goes, Reads, Takes
  <2> SUFFICES ASSUME NEW h \in Conns, Served(h)' PROVE Served(h)
    BY DEF ServedStep
  <2>5. CASE \E n \in DOMAIN batch'[c] : Is(batch'[c][n], "snapshot", h)
    <3>1. h = link[c] /\ "snapshot" \in conn[h].down
      BY <2>4, <2>5 DEF ReadsOf, Is, Data
    <3> QED BY <3>1 DEF Served
  <2> QED BY <2>2, <2>3, <2>5 DEF Served
<1>14. CASE ServerHandles
  <2>1. Heard
    BY <1>14, SessionAssumption DEF ServerHandles, Heard, Types
  <2> QED BY <1>2, <1>5, <1>7, <1>14, <2>1 DEF ServerHandles
<1>15. ASSUME NEW c \in Clients, ClientHandles(c) PROVE ServedStep
  <2> DEFINE event == Head(batch[c])
  <2>1. batch[c] # <<>> /\ batch' = [batch EXCEPT ![c] = Tail(@)]
    BY <1>15 DEF ClientHandles
  <2>2. Heard
    BY <2>1 DEF Types, Heard
  <2>3. CASE conn' = Ups(link[c], "ack") /\ conn' # conn /\ event.type = "snapshot"
    <3>1. link[c] \in Conns /\ conn' = [conn EXCEPT ![link[c]].up = @ \cup {"ack"}]
      BY <2>3 DEF Ups
    <3>2. event = batch[c][1] /\ 1 \in DOMAIN batch[c] /\ batch[c] \in Seq(Messages)
      <4> batch[c] \in Seq(Messages)
        BY DEF Types, Ends
      <4> QED BY <2>1
    <3>3. event.conn = link[c]
      BY <2>3, <3>1, <3>2 DEF ClientsOK, ClientOK, Conns
    <3>4. Served(link[c])
      BY <2>3, <3>2, <3>3 DEF Served, Is
    <3>5. \A h \in Conns \ {link[c]} : conn'[h] = conn[h]
      BY <1>1, <3>1
    <3>6. \A h \in Conns \ {link[c]} : Served(h)' => Served(h)
      <4> TAKE h \in Conns \ {link[c]}
      <4>1. ASSUME NEW d \in Clients, NEW n \in DOMAIN batch'[d], Is(batch'[d][n], "snapshot", h) PROVE Served(h)
        <5>1. CASE d = c
          <6>1. n + 1 \in DOMAIN batch[c] /\ batch'[c][n] = batch[c][n + 1]
            BY <2>1, <3>2, <4>1, <5>1 DEF Types, Ends
          <6> QED BY <4>1, <5>1, <6>1 DEF Served
        <5>2. CASE d # c
          <6>1. batch'[d] = batch[d]
            BY <2>1, <5>2 DEF Types
          <6> QED BY <4>1, <6>1 DEF Served
        <5> QED BY <5>1, <5>2
      <4> QED BY <3>5, <4>1 DEF Served
    <3> QED BY <3>4, <3>6 DEF ServedStep
  <2> QED BY <1>2, <1>4, <1>7, <1>15, <2>2, <2>3 DEF ClientHandles, ReceivesWelcome, Leaves, ReceivesSnapshot
<1>16. CASE UNCHANGED vars
  BY <1>2, <1>3, <1>7, <1>16 DEF vars, pollVars
<1> QED BY <1>8, <1>9, <1>10, <1>11, <1>12, <1>13, <1>14, <1>15, <1>16 DEF Next, PollStep, Ends

\* The calls waiting for the server, and what becomes of a connection in the maps or announced.
Adds(k, status) == calls'[Server] = Append(calls[Server], [conn |-> k, status |-> status])
CallsStep ==
  \/ UNCHANGED calls[Server]
  \/ calls[Server] # <<>> /\ calls'[Server] = Tail(calls[Server])
  \/ \E k \in Conns, status \in {"connecting", "connected", "lost"} :
       Adds(k, status) /\ (status = "connected" => conn[k].far = "accepted" /\ conn'[k].far = "open")
MapsStep ==
  \A h \in Conns :
    /\ h \in DOMAIN conn_to_peer' => h \in DOMAIN conn_to_peer \/ Pops(h)
    /\ h \in DOMAIN conn_to_peer /\ conn[h].far # "none" => h \in DOMAIN conn_to_peer' \/ conn'[h].far = "closed"
    /\ Announced(h)' => Announced(h) \/ Pops(h)

LEMMA CallsSteps ==
  ASSUME Basics, [Next]_vars
  PROVE  CallsStep
<1> USE DEF Basics
<1> Server \in Ends /\ calls \in [Ends -> Seq(Calls)] /\ conn \in [Conns -> Connections] /\ \A h \in Conns : conn[h] \in Connections
  BY DEF Types, Ends
<1>1. ASSUME calls' = calls PROVE CallsStep
  BY <1>1 DEF CallsStep
<1>2. ASSUME NEW h \in Conns, Library(h) PROVE CallsStep
  <2>1. ASSUME NEW e \in Ends, NEW status, Post(e, h, status)
        PROVE  UNCHANGED calls[Server] \/ Adds(h, status)
    BY <2>1 DEF Post, Adds
  <2>2. CASE Asks(h)
    BY <2>1, <2>2 DEF Asks, CallsStep
  <2>3. CASE OpensFar(h)
    <3>1. conn[h].far = "accepted" /\ conn'[h].far = "open"
      BY <2>3 DEF OpensFar
    <3> QED BY <2>1, <2>3, <3>1 DEF OpensFar, CallsStep
  <2>4. CASE OpensNear(h)
    <3>1. conn[h].owner \in Clients /\ Server \notin Clients
      BY <2>4, SessionAssumption DEF OpensNear, ShapeOK, Made
    <3>2. calls'[Server] = calls[Server]
      BY <2>4, <3>1 DEF OpensNear, Post
    <3> QED BY <3>2 DEF CallsStep
  <2>5. CASE LosesFar(h)
    BY <2>1, <2>5 DEF LosesFar, CallsStep
  <2>6. CASE LosesNear(h)
    <3>1. conn[h].owner \in Ends
      BY <2>6 DEF LosesNear, ShapeOK, Made, Ends
    <3> QED BY <2>1, <2>6, <3>1 DEF LosesNear, CallsStep
  <2> QED BY <1>2, <2>2, <2>3, <2>4, <2>5, <2>6 DEF Library
<1>3. ASSUME NEW e \in Ends, RunsCallback(e) PROVE CallsStep
  BY <1>3 DEF RunsCallback, CallsStep
<1>4. GameStep => calls' = calls
  BY DEF GameStep, Connect, Disconnect, Kick, SendSnapshot, StopServer
<1>5. ASSUME NEW e \in Ends, StartPoll(e) \/ CallbacksRan(e) \/ TakesEvents(e) PROVE calls' = calls
  BY <1>5 DEF StartPoll, CallbacksRan, TakesEvents
<1>6. ReceivesAtServer \/ ServerHandles \/ (\E d \in Ends : ReceivesAtClient(d) \/ ClientHandles(d)) => calls' = calls
  BY DEF ReceivesAtServer, ServerHandles, ReceivesAtClient, ClientHandles
<1>7. UNCHANGED vars => calls' = calls
  BY DEF vars
<1> QED BY <1>1, <1>2, <1>3, <1>4, <1>5, <1>6, <1>7 DEF Next, PollStep

\* Only a callback, a kick and a stop change the server's maps; only a callback announces.
LEMMA MapsSteps ==
  ASSUME Basics, QueueOK, [Next]_vars
  PROVE  MapsStep
<1> USE DEF Basics
<1> Server \in Ends /\ calls \in [Ends -> Seq(Calls)] /\ conn \in [Conns -> Connections] /\ \A h \in Conns : conn[h] \in Connections
  BY DEF Types, Ends
<1>1. ServerStep /\ Due \in Seq(Messages)
  BY ServerSteps, DueStep
<1>2. ASSUME DOMAIN conn_to_peer' = DOMAIN conn_to_peer, Due' \in {Due, <<>>} \/ (Due # <<>> /\ Due' = Tail(Due)) PROVE MapsStep
  <2>1. \A h \in Conns : Announced(h)' => Announced(h)
    <3> SUFFICES ASSUME NEW h \in Conns, NEW n \in DOMAIN Due', Is(Due'[n], "Connected", h) PROVE Announced(h)
      BY DEF Announced
    <3>1. CASE Due' = Due
      BY <3>1 DEF Announced
    <3>2. CASE Due # <<>> /\ Due' = Tail(Due)
      <4> n + 1 \in DOMAIN Due /\ Due'[n] = Due[n + 1]
        BY <1>1, <3>2
      <4> QED BY DEF Announced
    <3> QED BY <1>2, <3>1, <3>2
  <2> QED BY <1>2, <2>1 DEF MapsStep
<1>3. CASE Rests \/ ServerPolls \/ Serves
  <2>1. UNCHANGED conn_to_peer
    BY <1>3 DEF Rests, ServerPolls, Serves, ServerHandles, serverState
  <2> QED BY <1>1, <1>2, <1>3, <2>1, DueStep
<1>4. ASSUME Kicks \/ Stops PROVE \A h \in Conns : Announced(h)' => Announced(h)
  <2>1. Due' = <<>>
    BY <1>1, <1>4, DueStep
  <2> QED BY <2>1 DEF Announced
<1>5. ASSUME NEW H \in SUBSET Conns, conn' = FarClosed(H) PROVE \A h \in H : conn'[h].far = "closed"
  BY <1>5, FarClosing
<1>6. CASE Kicks
  <2>1. PICK id \in DOMAIN peer_to_conn : Kick(id)
    BY <1>6 DEF Kicks
  <2>2. PICK h \in Conns : h = peer_to_conn[id]
    BY DEF MapsOK
  <2>3. DOMAIN conn_to_peer' = DOMAIN conn_to_peer \ {h} /\ conn' = FarClosed({h})
    BY <2>1, <2>2 DEF Kick, Without
  <2>4. conn'[h].far = "closed"
    BY <2>3, FarClosing DEF Types
  <2> QED BY <1>4, <1>6, <2>3, <2>4 DEF MapsStep
<1>7. CASE Stops
  <2>1. DOMAIN conn_to_peer' = {} /\ conn' = FarClosed({h \in Conns : conn[h].far \notin {"none", "closed"}})
    BY <1>7 DEF Stops, StopServer, Nothing
  <2>2. \A h \in Conns : conn[h].far # "none" => conn'[h].far = "closed"
    BY <2>1 DEF FarClosed, Connections
  <2> QED BY <1>4, <1>7, <2>1, <2>2 DEF MapsStep
<1>8. ASSUME NEW h \in Conns, NEW type \in EventTypes, Due' = Append(Due, Event(type, h)), NEW k \in Conns, Announced(k)'
      PROVE  Announced(k) \/ (k = h /\ type = "Connected")
  <2>1. Event(type, h) \in Messages
    BY Typed
  <2>2. In(Append(Due, Event(type, h)), "Connected", k)
    BY <1>8 DEF Announced, In, Is
  <2>3. In(Due, "Connected", k) \/ (k = h /\ type = "Connected")
    BY <1>1, <2>2, InAppend
  <2> QED BY <2>3 DEF Announced, In, Is
<1>9. CASE Enters \/ Loses
  <2>1. RunsCallback(Server)
    <3>1. at[Server] = "callbacks" /\ UNCHANGED at[Server] /\ event_queue'[Server] # event_queue[Server] /\ UNCHANGED batch[Server]
      <4>1. \A h, type : Append(event_queue[Server], Event(type, h)) # event_queue[Server]
        <5> event_queue[Server] \in Seq(Messages)
          BY DEF Types
        <5> QED OBVIOUS
      <4> QED BY <1>9, <4>1 DEF Enters, Loses
    <3>2. \A h \in Conns : ~Library(h)
      BY <3>1 DEF Library, Asks, OpensFar, OpensNear, LosesFar, LosesNear, pollVars
    <3>3. ~GameStep
      BY <3>1, SessionAssumption DEF GameStep, Connect, Disconnect, Leaves, LeaveQueued, Kick, SendSnapshot, StopServer, InGame, pollVars, Types
    <3>4. \A e \in Ends : ~StartPoll(e) /\ ~CallbacksRan(e)
      BY <3>1 DEF StartPoll, CallbacksRan
    <3>5. \A e \in Ends : ~TakesEvents(e)
      BY <3>1 DEF TakesEvents, Types
    <3>6. ~ReceivesAtServer /\ ~ServerHandles /\ \A d \in Clients : ~ReceivesAtClient(d)
      BY <3>1 DEF ReceivesAtServer, ServerHandles, ReceivesAtClient
    <3>7. \A d \in Clients : ~ClientHandles(d)
      BY <3>1, SessionAssumption DEF ClientHandles, ReceivesWelcome, ReceivesSnapshot, Leaves, LeaveQueued, Types
    <3>8. \A d \in Clients : ~RunsCallback(d)
      BY <3>1, SessionAssumption DEF RunsCallback, ClientStatus, LostServer, Queued, Types
    <3> QED BY <3>1, <3>2, <3>3, <3>4, <3>5, <3>6, <3>7, <3>8 DEF Next, PollStep, Ends, vars, pollVars
  <2> DEFINE call == Head(calls[Server])
  <2>2. /\ calls[Server] # <<>> /\ calls'[Server] = Tail(calls[Server]) /\ ServerStatus(call) /\ call \in Calls
        /\ at[Server] = "callbacks" /\ UNCHANGED <<batch[Server], at[Server]>>
    BY <2>1 DEF RunsCallback
  <2>3. call.conn \in Conns /\ call = [conn |-> call.conn, status |-> call.status]
    BY <2>2 DEF Calls
  <2>4. CASE call.status = "connected" /\ NewPeer(call.conn)
    <3>1. Pops(call.conn)
      BY <2>2, <2>3, <2>4 DEF Pops
    <3> HIDE DEF call
    <3>2. DOMAIN conn_to_peer' = DOMAIN conn_to_peer \cup {call.conn} 
          /\ event_queue'[Server] = Append(event_queue[Server], Event("Connected", call.conn))
      BY <2>4 DEF NewPeer, With, Queued, Types
    <3>3. Due' = Append(Due, Event("Connected", call.conn)) /\ "Connected" \in EventTypes
      BY <1>1, <2>2, <2>3, <3>2, DueStep DEF EventTypes
    <3> QED BY <1>8, <2>3, <3>1, <3>2, <3>3 DEF MapsStep
  <2>5. CASE LostPeer(call.conn)
    <3> HIDE DEF call
    <3>1. /\ DOMAIN conn_to_peer' = DOMAIN conn_to_peer \ {call.conn} /\ conn' = FarClosed({call.conn})
          /\ event_queue'[Server] = Append(event_queue[Server], Event("Disconnected", call.conn))
      BY <2>5 DEF LostPeer, Without, Queued, Types
    <3>2. Due' = Append(Due, Event("Disconnected", call.conn)) /\ "Disconnected" \in EventTypes
      BY <1>1, <2>2, <2>3, <3>1, DueStep DEF EventTypes
    <3>3. conn'[call.conn].far = "closed"
      BY <2>3, <3>1, FarClosing DEF Types
    <3> QED BY <1>8, <2>3, <3>1, <3>2, <3>3 DEF MapsStep
  <2>6. CASE Accepts(call.conn)
    <3>1. UNCHANGED <<conn_to_peer, event_queue[Server]>>
      BY <2>6 DEF Accepts, serverVars
    <3>2. Due' = Due
      BY <2>2, <3>1 DEF Due
    <3> QED BY <1>2, <3>1, <3>2
  <2> QED BY <2>2, <2>4, <2>5, <2>6 DEF ServerStatus
<1> QED BY <1>1, <1>3, <1>6, <1>7, <1>9 DEF ServerStep

LEMMA ServedKept ==
  ASSUME Basics, ClientsOK, QueueOK, ServedOK, [Next]_vars
  PROVE  ServedOK'
<1>1. FarKept /\ ServedStep /\ CallsStep /\ MapsStep
  BY FarSteps, ServedSteps, CallsSteps, MapsSteps
<1> SUFFICES ASSUME NEW h \in Conns
             PROVE  /\ Served(h)' => (conn'[h].far = "closed" \/ h \in DOMAIN conn_to_peer') /\ ~Opening(h)' /\ ~Announced(h)'
                    /\ conn'[h].far \in Early => h \notin DOMAIN conn_to_peer' /\ ~Opening(h)' /\ ~Announced(h)' /\ ~Served(h)'
                    /\ conn'[h].far = "closed" => conn'[h].up = {}
                    /\ Opening(h)' => h \notin DOMAIN conn_to_peer' /\ ~Announced(h)'
                    /\ \A i, j \in DOMAIN calls'[Server] :
                         calls'[Server][i] = [conn |-> h, status |-> "connected"] /\ calls'[Server][j] = calls'[Server][i] => i = j
  BY DEF ServedOK, Early
<1> DEFINE s == calls[Server]
           opened == [conn |-> h, status |-> "connected"]
<1>2. s \in Seq(Calls) /\ opened \in Calls
  BY DEF Basics, Types, Ends, Calls
<1>3. /\ Served(h) => (conn[h].far = "closed" \/ h \in DOMAIN conn_to_peer) /\ ~Opening(h) /\ ~Announced(h)
      /\ conn[h].far \in Early => h \notin DOMAIN conn_to_peer /\ ~Opening(h) /\ ~Announced(h) /\ ~Served(h)
      /\ conn[h].far = "closed" => conn[h].up = {}
      /\ Opening(h) => h \notin DOMAIN conn_to_peer /\ ~Announced(h)
      /\ \A i, j \in DOMAIN s : s[i] = opened /\ s[j] = s[i] => i = j
  BY DEF ServedOK, Early
<1>4. Opening(h) <=> \E n \in DOMAIN s : s[n] = opened
  BY DEF Opening
<1>5. Opening(h)' <=> \E n \in DOMAIN calls'[Server] : calls'[Server][n] = opened
  BY DEF Opening
<1> HIDE DEF opened, s
<1>6. \/ calls'[Server] = s
      \/ s # <<>> /\ calls'[Server] = Tail(s)
      \/ \E k \in Conns, status \in {"connecting", "connected", "lost"} :
           calls'[Server] = Append(s, [conn |-> k, status |-> status])
           /\ (status = "connected" => conn[k].far = "accepted" /\ conn'[k].far = "open")
  BY <1>1 DEF CallsStep, Adds, s
\* An opening is told once: it was to be told already, or the connection was accepted and is open now.
<1>7. /\ Opening(h)' => Opening(h) \/ (conn[h].far = "accepted" /\ conn'[h].far = "open")
      /\ \A i, j \in DOMAIN calls'[Server] : calls'[Server][i] = opened /\ calls'[Server][j] = calls'[Server][i] => i = j
  <2>1. CASE calls'[Server] = s
    BY <1>3, <1>4, <1>5, <2>1
  <2>2. CASE s # <<>> /\ calls'[Server] = Tail(s)
    <3>1. \A n \in DOMAIN calls'[Server] : n \in Nat /\ n + 1 \in DOMAIN s /\ calls'[Server][n] = s[n + 1]
      BY <1>2, <2>2
    <3>2. \A i, j \in DOMAIN calls'[Server] : calls'[Server][i] = opened /\ calls'[Server][j] = calls'[Server][i] => i = j
      <4> TAKE i, j \in DOMAIN calls'[Server]
      <4> HAVE calls'[Server][i] = opened /\ calls'[Server][j] = calls'[Server][i]
      <4>1. i + 1 = j + 1 /\ i \in Nat /\ j \in Nat
        BY <1>3, <3>1
      <4> QED BY <4>1
    <3> QED BY <1>4, <1>5, <3>1, <3>2
  <2>3. ASSUME NEW k \in Conns, NEW status \in {"connecting", "connected", "lost"},
               calls'[Server] = Append(s, [conn |-> k, status |-> status]),
               status = "connected" => conn[k].far = "accepted" /\ conn'[k].far = "open"
        PROVE  /\ Opening(h)' => Opening(h) \/ (conn[h].far = "accepted" /\ conn'[h].far = "open")
               /\ \A i, j \in DOMAIN calls'[Server] : calls'[Server][i] = opened /\ calls'[Server][j] = calls'[Server][i] => i = j
    <3> PICK call \in Calls : call = [conn |-> k, status |-> status]
      BY DEF Calls
    <3>1. /\ \A n \in DOMAIN calls'[Server] : (n \in DOMAIN s /\ calls'[Server][n] = s[n]) \/ (n = Len(s) + 1 /\ calls'[Server][n] = call)
      BY <1>2, <2>3
    <3>2. call = opened => k = h /\ status = "connected"
      BY DEF opened
    <3>3. call = opened => ~Opening(h)
      BY <1>3, <2>3, <3>2 DEF Early
    <3>4. Opening(h)' => Opening(h) \/ call = opened
      BY <1>4, <1>5, <3>1
    <3>5. \A i, j \in DOMAIN calls'[Server] : calls'[Server][i] = opened /\ calls'[Server][j] = calls'[Server][i] => i = j
      BY <1>3, <1>4, <3>1, <3>3
    <3> QED BY <2>3, <3>2, <3>4, <3>5
  <2> QED BY <1>6, <2>1, <2>2, <2>3
\* Once it is told, none is left to be told.
<1>8. Pops(h) => Opening(h) /\ ~Opening(h)'
  <2> SUFFICES ASSUME Pops(h) PROVE Opening(h) /\ ~Opening(h)'
    OBVIOUS
  <2>1. s # <<>> /\ s[1] = opened /\ calls'[Server] = Tail(s) /\ 1 \in DOMAIN s
    BY <1>2 DEF Pops, opened, s
  <2>2. \A n \in DOMAIN calls'[Server] : n \in Nat /\ n >= 1 /\ n + 1 \in DOMAIN s /\ calls'[Server][n] = s[n + 1]
    BY <1>2, <2>1
  <2>3. ASSUME NEW n \in DOMAIN calls'[Server], calls'[Server][n] = opened PROVE FALSE
    <3>1. n + 1 = 1
      BY <1>3, <2>1, <2>2, <2>3
    <3> QED BY <2>2, <3>1
  <2> QED BY <1>4, <1>5, <2>1, <2>3
<1>9. /\ h \in DOMAIN conn_to_peer' => h \in DOMAIN conn_to_peer \/ Pops(h)
      /\ h \in DOMAIN conn_to_peer /\ conn[h].far # "none" => h \in DOMAIN conn_to_peer' \/ conn'[h].far = "closed"
      /\ Announced(h)' => Announced(h) \/ Pops(h)
  BY <1>1 DEF MapsStep
<1>10. /\ conn'[h].far \in Early => conn[h].far \in Early
       /\ conn[h].far = "closed" => conn'[h].far = "closed"
       /\ conn'[h].far = "closed" => conn'[h].up = {}
  BY <1>1, <1>3 DEF FarKept
<1>11. ASSUME Served(h)'
       PROVE  (conn'[h].far = "closed" \/ h \in DOMAIN conn_to_peer') /\ ~Opening(h)' /\ ~Announced(h)' /\ conn[h].far \notin Early
  <2>1. CASE Served(h)
    BY <1>3, <1>7, <1>8, <1>9, <1>10, <2>1 DEF Early
  <2>2. CASE SentOn(h)
    <3>1. ~Opening(h) /\ conn[h].far = "open" /\ h \in DOMAIN conn_to_peer' /\ UNCHANGED calls
      BY <1>3, <2>2 DEF SentOn
    <3>2. ~Opening(h)'
      BY <3>1 DEF Opening
    <3>3. ~Announced(h)'
      BY <2>2 DEF SentOn, InGame, Announced, Due
    <3> QED BY <3>1, <3>2, <3>3 DEF Early
  <2> QED BY <1>1, <1>11, <2>1, <2>2 DEF ServedStep
<1>12. conn'[h].far \in Early => h \notin DOMAIN conn_to_peer' /\ ~Opening(h)' /\ ~Announced(h)' /\ ~Served(h)'
  BY <1>3, <1>7, <1>8, <1>9, <1>10, <1>11 DEF Early
<1>13. Opening(h)' => h \notin DOMAIN conn_to_peer' /\ ~Announced(h)'
  BY <1>3, <1>7, <1>8, <1>9 DEF Early
<1>14. \A i, j \in DOMAIN calls'[Server] :
         calls'[Server][i] = [conn |-> h, status |-> "connected"] /\ calls'[Server][j] = calls'[Server][i] => i = j
  BY <1>7 DEF opened
<1>15. Served(h)' => (conn'[h].far = "closed" \/ h \in DOMAIN conn_to_peer') /\ ~Opening(h)' /\ ~Announced(h)'
  BY <1>11
<1>16. conn'[h].far = "closed" => conn'[h].up = {}
  BY <1>10
<1> QED BY <1>12, <1>13, <1>14, <1>15, <1>16

\* An acknowledgement is read for a connection in the maps, whose peer is known by now.
LEMMA AcksKept ==
  ASSUME Basics, Agreed, ServedOK, AcksOK, [Next]_vars
  PROVE  AcksOK'
<1> USE DEF Basics
<1>1. ServerStep /\ orphaned \subseteq orphaned'
  BY ServerSteps
<1>2. batch[Server] \in Seq(Messages) /\ Server \in Ends
  BY DEF Types, Ends
<1>3. CASE UNCHANGED <<batch[Server], peers>>
  BY <1>1, <1>3 DEF AcksOK
<1>4. CASE Takes(Server)
  BY <1>2, <1>4 DEF Takes, AcksOK, PassesOK, OnlyIn, EventTypes
<1>5. CASE Goes(Server)
  BY <1>5 DEF Goes, AcksOK
<1>6. ASSUME NEW M, M = {Data("ack", h) : h \in InGroup}, Reads(Server, M), UNCHANGED <<peers, orphaned>> PROVE AcksOK'
  <2> SUFFICES ASSUME NEW n \in DOMAIN batch'[Server]
               PROVE  batch'[Server][n].conn \in orphaned \/ batch'[Server][n].peer \in DOMAIN peers
    BY <1>6 DEF AcksOK
  <2>1. PICK h \in InGroup : batch'[Server][n] = Data("ack", h)
    BY <1>6 DEF Reads
  <2>2. h \in Conns /\ conn[h].far # "closed" /\ Served(h)
    BY <2>1 DEF InGroup, Served
  <2>3. h \in DOMAIN conn_to_peer /\ ~Announced(h)
    BY <2>2 DEF ServedOK
  <2>4. h \in orphaned \/ PeerOf(h) \in DOMAIN peers
    BY <2>3 DEF Agreed, MappedOK, Announced
  <2> QED BY <2>1, <2>4 DEF Data
<1>7. CASE ServerPolls
  BY <1>3, <1>4, <1>5, <1>6, <1>7 DEF ServerPolls, Polls, serverState
<1>8. CASE Serves
  <2>1. batch[Server] # <<>> /\ batch'[Server] = Tail(batch[Server])
    BY <1>8 DEF Serves, ServerHandles
  <2>2. \A n \in DOMAIN batch'[Server] : n + 1 \in DOMAIN batch[Server] /\ batch'[Server][n] = batch[Server][n + 1]
    BY <1>2, <2>1
  <2>3. Head(batch[Server]) = batch[Server][1] /\ 1 \in DOMAIN batch[Server]
    BY <1>2, <2>1
  <2>4. CASE Head(batch[Server]).type = "ack"
    <3>1. UNCHANGED <<peers, orphaned>>
      BY <1>8, <2>4 DEF Serves, ServerHandles
    <3> QED BY <2>2, <3>1 DEF AcksOK
  <2>5. CASE Head(batch[Server]).type # "ack"
    <3>1. at[Server] \notin {"callbacks", "receive"}
      BY <1>2, <2>1, <2>3, <2>5 DEF PassesOK, OnlyIn
    <3>2. at[Server] = "game"
      BY <1>2, <3>1 DEF Types
    <3>3. OnlyIn(batch[Server], EventTypes)
      BY <1>2, <3>2 DEF PassesOK
    <3> QED BY <2>2, <3>3 DEF AcksOK, OnlyIn, EventTypes
  <2> QED BY <2>4, <2>5
<1>9. Rests \/ Enters \/ Loses \/ Kicks \/ Stops => UNCHANGED <<batch[Server], peers>>
  BY DEF Rests, Waits, serverState, Enters, NewPeer, Loses, LostPeer, Kicks, Kick, Stops, StopServer
<1> QED BY <1>1, <1>3, <1>7, <1>8, <1>9 DEF ServerStep

--------------------------------------------------------------------------------
(* The theorems.                                                                *)

\* What the clients have and read, and what the server's events tell of its maps and peers, fits together:
\* the inductive invariant of the sessions.
THEOREM Invariance == Spec => []IInv
<1>1. Init => IInv
  <2> SUFFICES ASSUME Init PROVE ClientsOK /\ ServerOK
    BY BasicsBegin DEF IInv
  <2>1. ClientsOK
    BY DEF Init, ClientsOK, ClientOK, Coming, Ends
  <2>2. Server \in Ends
    BY DEF Ends
  <2>3. Due = <<>> /\ batch[Server] = <<>> /\ calls[Server] = <<>> /\ event_queue[Server] = <<>>
        /\ \A c \in Clients : batch[c] = <<>>
    BY <2>2 DEF Init, Due, Ends
  <2>4. QueueOK /\ ConnectedOK /\ DisconnectedOK /\ PeersOK /\ MappedOK /\ AcksOK
    BY <2>3 DEF Init, Nothing, QueueOK, ConnectedOK, DisconnectedOK, PeersOK, MappedOK, AcksOK
  <2>5. ServedOK
    BY <2>3 DEF Init, Nothing, ServedOK, Served, Opening, Announced
  <2> QED BY <2>1, <2>4, <2>5 DEF ServerOK
<1>2. IInv /\ [Next]_vars => IInv'
  <2> SUFFICES ASSUME IInv, [Next]_vars PROVE IInv'
    OBVIOUS
  <2>1. Basics /\ ClientsOK /\ Agreed /\ ServedOK /\ AcksOK
    BY DEF IInv, ServerOK, Agreed
  <2>2. Basics' /\ ClientsOK'
    BY <2>1, BasicsKept, ClientSteps, ClientKept DEF ClientsOK
  <2>3. Agreed' /\ ServedOK' /\ AcksOK'
    BY <2>1, AgreedKept, ServedKept, AcksKept DEF Agreed
  <2> QED BY <2>2, <2>3 DEF IInv, ServerOK, Agreed
<1> QED BY <1>1, <1>2, PTL DEF Spec

\* Every variable keeps its type, and the two maps of the server agree.
THEOREM TypeCorrect == Spec => []TypeOK
<1>1. IInv => TypeOK
  <2> SUFFICES ASSUME Basics PROVE TypeOK
    BY DEF IInv
  <2> USE DEF Basics
  <2>1. \A h \in Conns : conn[h] \in Connections /\ conn[h].peer \in {h, conn[h].owner}
    BY DEF Types, ShapeOK
  <2>2. \A h \in Conns : /\ conn[h].near \in {"none", "connecting", "open"} \cup Ended
                         /\ conn[h].far \in {"none", "asked", "accepted", "open"} \cup Ended
                         /\ conn[h].down \subseteq {"welcome", "snapshot"} /\ conn[h].up \subseteq {"ack"}
    BY <2>1 DEF Connections, Ended
  <2>3. \A c \in Clients : {link[c], welcomed[c]} \subseteq Conns \cup {0}
    BY DEF Types
  <2> QED BY <2>1, <2>2, <2>3 DEF TypeOK, MapsOK
<1> QED BY <1>1, Invariance, PTL

\* The server's peers are its connections, but for what is on its way, was closed by its game or is orphaned,
\* and what a welcomed client sends finds its peer (PeersAreConnected).
THEOREM PeersConnected == Spec => []PeersAreConnected
<1>1. TypeOK /\ IInv => PeersAreConnected
  <2> SUFFICES ASSUME TypeOK, IInv PROVE PeersAreConnected
    OBVIOUS
  <2> USE DEF IInv, Basics, ServerOK
  <2>1. \A type, h : (\E j \in DOMAIN Due : Is(Due[j], type, h)) => Coming(Server, type, h)
    BY DEF Due, Is, Coming
  <2>2. \A id \in DOMAIN peers : \/ peers[id] \in DOMAIN conn_to_peer \cup kicked
                                 \/ Coming(Server, "Disconnected", peers[id])
    BY <2>1 DEF PeersOK
  <2>3. \A h \in DOMAIN conn_to_peer \ orphaned : PeerOf(h) \in DOMAIN peers \/ Coming(Server, "Connected", h)
    BY <2>1 DEF MappedOK
  <2>4. ASSUME NEW h \in Conns \ orphaned, Coming(Server, "ack", h) PROVE PeerOf(h) \in DOMAIN peers
    <3>1. Server \in Ends
      BY DEF Ends
    <3>2. ~\E n \in DOMAIN event_queue[Server] : event_queue[Server][n].type = "ack"
      BY <3>1 DEF PassesOK, OnlyIn, EventTypes
    <3>3. PICK n \in DOMAIN batch[Server] : batch[Server][n].type = "ack" /\ batch[Server][n].conn = h
      BY <2>4, <3>2 DEF Coming
    <3>4. batch[Server][n].peer = PeerOf(h)
      BY <3>1, <3>3 DEF NamesOK, PeersIn
    <3> QED BY <3>3, <3>4 DEF AcksOK
  <2> QED BY <2>2, <2>3, <2>4 DEF PeersAreConnected
<1> QED BY <1>1, TypeCorrect, Invariance, PTL

\* A client welcomed on a connection it no longer has will be told of an end; a Welcome is given up on the
\* connection there is only for the late end of another one (WelcomedUntilTheEnd).
THEOREM WelcomesEnd == Spec => WelcomedUntilTheEnd
<1> DEFINE Told == \A c \in Clients : welcomed[c] \notin {0, link[c]} =>
                     \E h \in Conns : h >= welcomed[c] /\ Coming(c, "Disconnected", h)
           Kept == \A c \in Clients : welcomed[c] # 0 /\ welcomed'[c] # welcomed[c] =>
                     welcomed[c] # link[c] \/ welcomed[c] \in orphaned'
<1>1. IInv => Told
  BY DEF IInv, ClientsOK, ClientOK
<1>2. IInv /\ [Next]_vars => [Kept]_vars
  <2> SUFFICES ASSUME Basics, ClientsOK, [Next]_vars, NEW c \in Clients,
                      welcomed[c] # 0, welcomed'[c] # welcomed[c], welcomed[c] = link[c]
               PROVE  welcomed[c] \in orphaned'
    BY DEF IInv
  <2> DEFINE event == Head(batch[c])
  <2>1. ClientHandles(c)
    BY WelcomedChanges
  <2>2. c \in Ends /\ batch[c] \in Seq(Messages) /\ batch[c] # <<>>
    BY <2>1 DEF ClientHandles, Basics, Types, Ends
  <2>3. event = batch[c][1] /\ 1 \in DOMAIN batch[c] /\ event \in Messages /\ event.conn \in Conns
    <3>1. event = batch[c][1] /\ 1 \in DOMAIN batch[c] /\ event \in Messages
      BY <2>2
    <3> HIDE DEF event
    <3> QED BY <3>1 DEF Messages
  <2>4. CASE event.type = "Disconnected"
    <3>1. orphaned' = orphaned \cup ({welcomed[c]} \ {0, event.conn})
      BY <2>1, <2>4 DEF ClientHandles
    <3>2. Coming(c, "Disconnected", event.conn)
      BY <2>3, <2>4 DEF Coming
    <3>3. link[c] # event.conn
      BY <2>3, <3>2 DEF ClientsOK, ClientOK
    <3> QED BY <3>1, <3>3
  <2>5. CASE event.type = "welcome"
    <3>1. welcomed'[c] = event.conn
      BY <2>1, <2>5 DEF ClientHandles, ReceivesWelcome, Basics, Types
    <3>2. event.conn = link[c]
      BY <2>3, <2>5 DEF ClientsOK, ClientOK
    <3> QED BY <3>1, <3>2
  <2> QED BY <2>1, <2>4, <2>5 DEF ClientHandles, ReceivesSnapshot
<1>3. Spec => []Told
  BY <1>1, Invariance, PTL
<1>4. Spec => [][Kept]_vars
  BY <1>2, Invariance, PTL DEF Spec
<1> QED BY <1>3, <1>4 DEF WelcomedUntilTheEnd

================================================================================
