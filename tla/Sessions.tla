------------------------------- MODULE Sessions --------------------------------
(* A server and its clients over GameNetworkingSockets: connections that are    *)
(* made, lost, closed from either side and made again, the transport's maps and *)
(* queued events, its poll in three passes (the library's callbacks, messages,  *)
(* queued events), and what NetServer and NetClient make of them.  The library  *)
(* runs on threads of its own and may step between any two steps of a poll.     *)
(* Connections are numbered in the order they are made.                         *)
EXTENDS Naturals, Sequences, FiniteSets, SequencesExt

CONSTANTS Server, Clients,
          MaxConns       \* bound: connections ever made

ASSUME SessionAssumption ==
  /\ Server \notin Clients /\ MaxConns \in Nat
  /\ IsFiniteSet(Clients)

VARIABLES
  conn,          \* the library: each connection, its state at either end and what it carries
  calls,         \* the library: status changes waiting for RunCallbacks, by end
  listening,     \* the server's is_running_
  peer_to_conn, conn_to_peer,  \* the server's maps
  link,          \* client_conn_ of each client, 0 for none
  event_queue,   \* of each transport
  at,            \* of each end: in the "game", or in which pass of poll_events
  batch,         \* what that pass still hands over
  peers,         \* NetServer: by peer, the connection its state was made for
  welcomed,      \* NetClient: the connection whose Welcome was accepted, 0 for none
  kicked,        \* of the model: connections the server's game closed
  orphaned       \* of the model: connections given up, by the maps or by their client, when another one ended

serverVars == <<listening, peer_to_conn, conn_to_peer, peers, kicked, orphaned>>
clientVars == <<link, welcomed>>
pollVars == <<event_queue, at, batch>>
vars == <<conn, calls, serverVars, clientVars, pollVars>>

Ends == {Server} \cup Clients
Conns == 1 .. MaxConns
Nobody == "nobody"
Nothing == [x \in {} |-> x]
Without(f, x) == [y \in DOMAIN f \ {x} |-> f[y]]
With(f, x, value) == [y \in DOMAIN f \cup {x} |-> IF y = x THEN value ELSE f[y]]

Init ==
  /\ conn = [h \in Conns |-> [owner |-> Nobody, peer |-> h, near |-> "none", far |-> "none", down |-> {}, up |-> {}]]
  /\ calls = [e \in Ends |-> <<>>]
  /\ listening = TRUE
  /\ peer_to_conn = Nothing /\ conn_to_peer = Nothing
  /\ link = [c \in Clients |-> 0]
  /\ event_queue = [e \in Ends |-> <<>>]
  /\ at = [e \in Ends |-> "game"]
  /\ batch = [e \in Ends |-> <<>>]
  /\ peers = Nothing
  /\ welcomed = [c \in Clients |-> 0]
  /\ kicked = {} /\ orphaned = {}

\* The PeerId of a connection: its handle, or the SteamID of its client if that has one.
PeerOf(h) == conn[h].peer

--------------------------------------------------------------------------------
(* The library, external: `near` is the client's end, `far` the server's.       *)

Ended == {"lost", "closed"}

Post(e, h, status) == calls' = [calls EXCEPT ![e] = Append(@, [conn |-> h, status |-> status])]

\* CloseConnection of some connections by the server, or of one by its client: nothing more is read from them.
FarClosed(H) == [h \in Conns |-> IF h \in H THEN [conn[h] EXCEPT !.far = "closed", !.up = {}] ELSE conn[h]]
NearClosed(h) == [conn EXCEPT ![h] = [@ EXCEPT !.near = "closed", !.down = {}]]

\* A connection request reaches the listening server.
Asks(h) ==
  /\ conn[h].near = "connecting" /\ conn[h].far = "none" /\ listening
  /\ conn' = [conn EXCEPT ![h].far = "asked"]
  /\ Post(Server, h, "connecting")
  /\ UNCHANGED <<serverVars, clientVars, pollVars>>

\* An accepted connection is established, at each end in its own time; an old one of a client not after a new one.
OpensFar(h) ==
  /\ conn[h].far = "accepted"
  /\ \A k \in Conns : k > h /\ conn[k].owner = conn[h].owner => conn[k].far \in {"none", "asked", "accepted"}
  /\ conn' = [conn EXCEPT ![h].far = "open"]
  /\ Post(Server, h, "connected")
  /\ UNCHANGED <<serverVars, clientVars, pollVars>>

OpensNear(h) ==
  /\ conn[h].near = "connecting" /\ conn[h].far \in {"accepted", "open"}
  /\ conn' = [conn EXCEPT ![h].near = "open"]
  /\ Post(conn[h].owner, h, "connected")
  /\ UNCHANGED <<serverVars, clientVars, pollVars>>

\* An end finds the connection gone: closed by the other end, or timed out.
LosesFar(h) ==
  /\ conn[h].far \in {"asked", "accepted", "open"}
  /\ conn' = [conn EXCEPT ![h].far = "lost"]
  /\ Post(Server, h, "lost")
  /\ UNCHANGED <<serverVars, clientVars, pollVars>>

LosesNear(h) ==
  /\ conn[h].near \in {"connecting", "open"}
  /\ conn' = [conn EXCEPT ![h].near = "lost"]
  /\ Post(conn[h].owner, h, "lost")
  /\ UNCHANGED <<serverVars, clientVars, pollVars>>

\* SendMessageToConnection: refused unless the connection is open at the sender; read only if the other end still has it.
Downs(h, m) ==
  IF h \in Conns /\ conn[h].far = "open" /\ conn[h].near \in {"connecting", "open"}
  THEN [conn EXCEPT ![h].down = @ \cup {m}] ELSE conn
Ups(h, m) ==
  IF h \in Conns /\ conn[h].near = "open" /\ conn[h].far \in {"accepted", "open"}
  THEN [conn EXCEPT ![h].up = @ \cup {m}] ELSE conn

--------------------------------------------------------------------------------
(* The game between two polls.                                                  *)

\* Outside poll_events: the last events were handed over.
InGame(e) == at[e] = "game" /\ batch[e] = <<>>

Event(type, h) == [type |-> type, conn |-> h, peer |-> PeerOf(h)]
Queued(e, event) == event_queue' = [event_queue EXCEPT ![e] = Append(@, event)]

\* connect, on a transport without a connection.
Connect(c) ==
  \E h \in Conns :
    /\ InGame(c) /\ link[c] = 0
    /\ conn[h].near = "none" /\ \A k \in 1 .. h - 1 : conn[k].near # "none"
    /\ \E id \in {c, h} :
         /\ \A k \in Conns : conn[k].owner = c => (conn[k].peer = c) = (id = c)
         /\ conn' = [conn EXCEPT ![h] = [@ EXCEPT !.owner = c, !.peer = id, !.near = "connecting"]]
    /\ link' = [link EXCEPT ![c] = h]
    /\ UNCHANGED <<calls, serverVars, welcomed, pollVars>>

\* Mutant of LeaveQueued: the client that closes itself hears nothing.
LeaveQueuedSilently(c, before) == [event_queue EXCEPT ![c] = before]

\* close_local_client is not reported by the library: the transport queues it itself.
LeaveQueued(c, before) == [event_queue EXCEPT ![c] = Append(before, Event("Disconnected", link[c]))]

\* disconnect by the client, and stop, which first drops what is still queued.
Leaves(c, before) ==
  /\ link[c] # 0
  /\ conn' = NearClosed(link[c])
  /\ event_queue' = LeaveQueued(c, before)
  /\ link' = [link EXCEPT ![c] = 0]

Disconnect(c) ==
  /\ InGame(c)
  /\ \/ Leaves(c, event_queue[c])
     \/ Leaves(c, <<>>)
  /\ UNCHANGED <<calls, serverVars, welcomed, at, batch>>

\* disconnect(peer) by the server's game: no event of its own.  Of a peer that is not in the maps (any more)
\* it closes the connection of that number: that one is closed already, and a SteamID is the number of none.
Kick(id) ==
  LET h == peer_to_conn[id] IN
  /\ InGame(Server) /\ listening
  /\ id \in DOMAIN peers \cap DOMAIN peer_to_conn
  /\ peer_to_conn' = Without(peer_to_conn, id)
  /\ conn_to_peer' = Without(conn_to_peer, h)
  /\ conn' = FarClosed({h})
  /\ kicked' = kicked \cup {h}
  /\ UNCHANGED <<calls, listening, peers, orphaned, clientVars, pollVars>>

\* stop by the server's game: what is not in the maps yet goes with the listen socket.
StopServer ==
  /\ InGame(Server) /\ listening
  /\ listening' = FALSE
  /\ peer_to_conn' = Nothing /\ conn_to_peer' = Nothing
  /\ conn' = FarClosed({h \in Conns : conn[h].far \notin {"none", "closed"}})
  /\ event_queue' = [event_queue EXCEPT ![Server] = <<>>]
  /\ kicked' = kicked \cup DOMAIN conn_to_peer
  /\ UNCHANGED <<calls, peers, orphaned, clientVars, at, batch>>

\* run_net_server_send: a snapshot to a peer.
SendSnapshot(id) ==
  /\ InGame(Server) /\ listening /\ id \in DOMAIN peers \cap DOMAIN peer_to_conn
  /\ conn' = Downs(peer_to_conn[id], "snapshot") /\ conn' # conn
  /\ UNCHANGED <<calls, serverVars, clientVars, pollVars>>

--------------------------------------------------------------------------------
(* poll_events, first pass: on_connection_status_changed.                       *)

StartPoll(e) ==
  /\ InGame(e) /\ (e = Server => listening)
  /\ at' = [at EXCEPT ![e] = "callbacks"]
  /\ UNCHANGED <<conn, calls, serverVars, clientVars, event_queue, batch>>

\* A connection still asked for is accepted; one whose client gave up is closed.
Accepts(h) ==
  /\ conn' = IF conn[h].far = "asked" THEN [conn EXCEPT ![h].far = "accepted"] ELSE FarClosed({h})
  /\ UNCHANGED <<serverVars, event_queue>>

NewPeer(h) ==
  LET id == PeerOf(h) IN
  /\ peer_to_conn' = With(peer_to_conn, id, h)
  /\ conn_to_peer' = With(conn_to_peer, h, id)
  /\ Queued(Server, Event("Connected", h))
  /\ UNCHANGED <<conn, listening, peers, kicked, orphaned>>

\* The other connections that the peer of a connection has.
SamePeer(h) == {k \in DOMAIN conn_to_peer \ {h} : PeerOf(k) = PeerOf(h)}

\* Mutant of LostPeer: the server is only told of peers that never connected.
LostPeerQuietly(h) ==
  /\ peer_to_conn' = Without(peer_to_conn, PeerOf(h))
  /\ conn_to_peer' = Without(conn_to_peer, h)
  /\ IF h \in DOMAIN conn_to_peer THEN UNCHANGED event_queue ELSE Queued(Server, Event("Disconnected", h))
  /\ conn' = FarClosed({h})
  /\ orphaned' = orphaned \cup SamePeer(h)
  /\ UNCHANGED <<listening, peers, kicked>>

\* Whatever connection the peer has now: its entry goes with the one that was lost.
LostPeer(h) ==
  /\ peer_to_conn' = Without(peer_to_conn, PeerOf(h))
  /\ conn_to_peer' = Without(conn_to_peer, h)
  /\ Queued(Server, Event("Disconnected", h))
  /\ conn' = FarClosed({h})
  /\ orphaned' = orphaned \cup SamePeer(h)
  /\ UNCHANGED <<listening, peers, kicked>>

ServerStatus(call) ==
  /\ \/ call.status = "connecting" /\ Accepts(call.conn)
     \/ call.status = "connected" /\ NewPeer(call.conn)
     \/ call.status = "lost" /\ LostPeer(call.conn)
  /\ UNCHANGED <<clientVars>>

\* Mutant of LostServer: client_conn_ is kept.
LostServerKept(c, h) ==
  /\ Queued(c, Event("Disconnected", h)) /\ conn' = NearClosed(h) /\ UNCHANGED link

LostServer(c, h) ==
  /\ Queued(c, Event("Disconnected", h))
  /\ conn' = NearClosed(h)
  /\ link' = [link EXCEPT ![c] = 0]

\* The registry no longer leads from a connection the client left to its transport.
ClientStatus(c, call) ==
  /\ \/ call.conn # link[c] /\ UNCHANGED <<conn, link, event_queue>>
     \/ /\ call.conn = link[c] /\ call.status = "connected"
        /\ Queued(c, Event("Connected", call.conn))
        /\ UNCHANGED <<conn, link>>
     \/ call.conn = link[c] /\ call.status = "lost" /\ LostServer(c, call.conn)
  /\ UNCHANGED <<serverVars, welcomed>>

RunsCallback(e) ==
  /\ at[e] = "callbacks" /\ calls[e] # <<>>
  /\ calls' = [calls EXCEPT ![e] = Tail(@)]
  /\ IF e = Server THEN ServerStatus(Head(calls[e])) ELSE ClientStatus(e, Head(calls[e]))
  /\ UNCHANGED <<at, batch>>

CallbacksRan(e) ==
  /\ at[e] = "callbacks" /\ calls[e] = <<>>
  /\ at' = [at EXCEPT ![e] = "receive"]
  /\ UNCHANGED <<conn, calls, serverVars, clientVars, event_queue, batch>>

--------------------------------------------------------------------------------
(* Second pass: messages, as many batches as there are; third: queued events.   *)

Data(m, h) == [type |-> m, conn |-> h, peer |-> PeerOf(h)]

\* The poll group holds every connection accepted and not closed.
InGroup == {h \in Conns : conn[h].far \in {"accepted", "open", "lost"} /\ conn[h].up # {}}

Unread(e) == IF e = Server THEN InGroup ELSE IF link[e] = 0 THEN {} ELSE conn[link[e]].down

ReceivesAtServer ==
  /\ at[Server] = "receive" /\ batch[Server] = <<>> /\ InGroup # {}
  /\ batch' = [batch EXCEPT ![Server] = SetToSeq({Data("ack", h) : h \in InGroup})]
  /\ conn' = [h \in Conns |-> IF h \in InGroup THEN [conn[h] EXCEPT !.up = {}] ELSE conn[h]]
  /\ UNCHANGED <<calls, serverVars, clientVars, event_queue, at>>

ReceivesAtClient(c) ==
  LET h == link[c] IN
  /\ at[c] = "receive" /\ batch[c] = <<>> /\ Unread(c) # {}
  /\ \E order \in SetToSeqs({Data(m, h) : m \in conn[h].down}) : batch' = [batch EXCEPT ![c] = order]
  /\ conn' = [conn EXCEPT ![h].down = {}]
  /\ UNCHANGED <<calls, serverVars, clientVars, event_queue, at>>

\* No message is left: the events queued so far are taken.
TakesEvents(e) ==
  /\ at[e] = "receive" /\ batch[e] = <<>>
  /\ Unread(e) = {}
  /\ at' = [at EXCEPT ![e] = "game"]
  /\ batch' = [batch EXCEPT ![e] = event_queue[e]]
  /\ event_queue' = [event_queue EXCEPT ![e] = <<>>]
  /\ UNCHANGED <<conn, calls, serverVars, clientVars>>

--------------------------------------------------------------------------------
(* What the two systems do with what is handed over.                            *)

\* send to a peer: its connection, or the connection of that number.
ConnOf(id) == IF id \in DOMAIN peer_to_conn THEN peer_to_conn[id] ELSE id

\* run_net_server_receive: a new peer gets its state and a Welcome, one that left is forgotten.
ServerHandles ==
  LET event == Head(batch[Server]) IN
  /\ batch[Server] # <<>>
  /\ batch' = [batch EXCEPT ![Server] = Tail(@)]
  /\ \/ /\ event.type = "Connected"
        /\ peers' = With(peers, event.peer, event.conn)
        /\ conn' = Downs(ConnOf(event.peer), "welcome")
     \/ /\ event.type = "Disconnected"
        /\ peers' = Without(peers, event.peer)
        /\ UNCHANGED conn
     \/ /\ event.type = "ack"
        /\ UNCHANGED <<peers, conn>>
  /\ UNCHANGED <<calls, listening, peer_to_conn, conn_to_peer, kicked, orphaned, clientVars, event_queue, at>>

\* receive_welcome: accepted, or of another protocol or schema.
ReceivesWelcome(c, h) ==
  \/ /\ welcomed' = [welcomed EXCEPT ![c] = h]
     /\ UNCHANGED <<conn, link, event_queue>>
  \/ Leaves(c, event_queue[c]) /\ UNCHANGED welcomed

\* receive_snapshot: ignored until welcomed, else acknowledged on the connection there is.
ReceivesSnapshot(c) ==
  /\ conn' = IF welcomed[c] # 0 THEN Ups(link[c], "ack") ELSE conn
  /\ UNCHANGED <<link, welcomed, event_queue>>

\* run_net_client_receive.
ClientHandles(c) ==
  LET event == Head(batch[c]) IN
  /\ batch[c] # <<>>
  /\ batch' = [batch EXCEPT ![c] = Tail(@)]
  /\ \/ event.type = "Connected" /\ UNCHANGED <<conn, link, welcomed, event_queue, orphaned>>
     \/ /\ event.type = "Disconnected"
        /\ welcomed' = [welcomed EXCEPT ![c] = 0]
        /\ orphaned' = orphaned \cup ({welcomed[c]} \ {0, event.conn})
        /\ UNCHANGED <<conn, link, event_queue>>
     \/ event.type = "welcome" /\ ReceivesWelcome(c, event.conn) /\ UNCHANGED orphaned
     \/ event.type = "snapshot" /\ ReceivesSnapshot(c) /\ UNCHANGED orphaned
  /\ UNCHANGED <<calls, listening, peer_to_conn, conn_to_peer, peers, kicked, at>>

--------------------------------------------------------------------------------
Library(h) == Asks(h) \/ OpensFar(h) \/ OpensNear(h) \/ LosesFar(h) \/ LosesNear(h)

GameStep ==
  \/ \E c \in Clients : Connect(c) \/ Disconnect(c)
  \/ \E id \in DOMAIN peers : Kick(id) \/ SendSnapshot(id)
  \/ StopServer

PollStep(e) ==
  \/ RunsCallback(e) \/ CallbacksRan(e) \/ TakesEvents(e)
  \/ IF e = Server THEN ReceivesAtServer \/ ServerHandles ELSE ReceivesAtClient(e) \/ ClientHandles(e)

Next ==
  \/ \E h \in Conns : Library(h)
  \/ GameStep
  \/ \E e \in Ends : StartPoll(e) \/ PollStep(e)

Spec == Init /\ [][Next]_vars

\* Both sides poll, the library's threads run, and each end hears of what the other closed.
Hears(h) ==
  \/ LosesNear(h) /\ (conn[h].far \in Ended \/ (conn[h].far = "none" /\ ~listening))
  \/ LosesFar(h) /\ conn[h].near \in Ended
Fairness ==
  /\ \A e \in Ends : WF_vars(StartPoll(e)) /\ WF_vars(PollStep(e))
  /\ \A h \in Conns : WF_vars(Asks(h)) /\ WF_vars(OpensFar(h)) /\ WF_vars(OpensNear(h)) /\ WF_vars(Hears(h))

FairSpec == Spec /\ Fairness

--------------------------------------------------------------------------------
\* Every variable keeps its type, and the two maps of the server agree.
TypeOK ==
  /\ \A h \in Conns : /\ conn[h].peer \in {h, conn[h].owner}
                      /\ conn[h].near \in {"none", "connecting", "open"} \cup Ended
                      /\ conn[h].far \in {"none", "asked", "accepted", "open"} \cup Ended
                      /\ conn[h].down \subseteq {"welcome", "snapshot"} /\ conn[h].up \subseteq {"ack"}
  /\ DOMAIN conn_to_peer \subseteq Conns /\ \A h \in DOMAIN conn_to_peer : conn_to_peer[h] = PeerOf(h)
  /\ \A id \in DOMAIN peer_to_conn : peer_to_conn[id] \in DOMAIN conn_to_peer
  /\ \A c \in Clients : {link[c], welcomed[c]} \subseteq Conns \cup {0}

\* An event that is queued or being handed over.
Coming(e, type, h) ==
  \/ \E n \in DOMAIN event_queue[e] : event_queue[e][n].type = type /\ event_queue[e][n].conn = h
  \/ \E n \in DOMAIN batch[e] : batch[e][n].type = type /\ batch[e][n].conn = h

\* "a new peer is added and sent Welcome, a lost one is dropped" (Net.md): the server's peers are its
\* connections, but for events on their way and connections its own game closed.  Excepted is what the
\* maps keyed by SteamID do not serve: a connection is orphaned when another of the same SteamID ends.
PeersAreConnected ==
  /\ TypeOK
  /\ \A id \in DOMAIN peers :
       \/ peers[id] \in DOMAIN conn_to_peer \cup kicked
       \/ Coming(Server, "Disconnected", peers[id])
  /\ \A h \in DOMAIN conn_to_peer \ orphaned :
       PeerOf(h) \in DOMAIN peers \/ Coming(Server, "Connected", h)
  /\ \A h \in Conns \ orphaned :   \* and what a client sends once welcomed finds its peer
       Coming(Server, "ack", h) => PeerOf(h) \in DOMAIN peers

\* "A client that closes itself must hear that too" (Net.md): a client welcomed on a connection it no
\* longer has will be handed a Disconnected.  And welcomed() is "True between an accepted Welcome and
\* the end of the connection" (net_client.h), unless the Disconnected of an earlier connection comes
\* late: the game connected again before it polled, and the new Welcome was read before that event.
WelcomedUntilTheEnd ==
  /\ [](\A c \in Clients : welcomed[c] \notin {0, link[c]} =>
          \E h \in Conns : h >= welcomed[c] /\ Coming(c, "Disconnected", h))
  /\ [][\A c \in Clients : welcomed[c] # 0 /\ welcomed'[c] # welcomed[c] =>
          welcomed[c] # link[c] \/ welcomed[c] \in orphaned']_vars

\* A client that connects is welcomed or hears that the connection ended; it never waits for ever.
Joined ==
  \A c \in Clients, h \in Conns :
    link[c] = h ~> welcomed[c] = h \/ link[c] # h \/ h \in orphaned
================================================================================
