-------------------------------- MODULE P2P --------------------------------
(***************************************************************************)
(* The connections of one node (p2p/p2p.go, connection.go, client.go,      *)
(* handshake.go, peerlist.go): the table Connections, the list KnownPeers, *)
(* the handshake of every connection and the goroutines that share them.   *)
(*                                                                         *)
(* Goroutines: StartClients dials, ListenServer accepts; every connection  *)
(* has a handler (connectionMainHandling, then Kick) and two Writers;      *)
(* newConnections, incomingP2P and whoever broadcasts live in blockchain/. *)
(* The small goroutines that only wait for the lock of P2P to change       *)
(* KnownPeers run with the step that starts them.                          *)
(*                                                                         *)
(* The lock of P2P is held within one step.  The lock of a connection is   *)
(* held over two: its handler keeps it while it hands the connection to    *)
(* newConnections ("offer"), and who holds the lock of P2P and looks into  *)
(* that connection waits.                                                  *)
(*                                                                         *)
(* A host is an IP address; the remote address of an outgoing connection   *)
(* is where the host listens, that of an incoming one is its own port.     *)
(***************************************************************************)
EXTENDS Integers, FiniteSets

CONSTANTS
  Hosts,             \* IP addresses of peers
  PeerIds,           \* IDs handshakes carry
  Self,              \* the node's own ID
  Bootstrap,         \* hosts given on the command line
  MaxConns,          \* bound: connections open at once
  None,              \* no connection, no ID
  P2P_CONNECTIONS,
  MAX_PEER_FAILURES,
  MaxFaults          \* bound: failing dials, writes and sockets

ASSUME P2PAssumption ==
  /\ Bootstrap \subseteq Hosts
  /\ None \notin Nat /\ None \notin PeerIds
  /\ {MaxConns, P2P_CONNECTIONS, MAX_PEER_FAILURES, MaxFaults} \subseteq Nat

VARIABLES
  conn,       \* the connections and where their handlers are
  table,      \* Connections: remote address -> connection
  known,      \* KnownPeers: host -> entry
  node,       \* "up", "closing" (P2P.Close has returned), "down", or ended by the Go runtime
  faults

vars == <<conn, table, known, node, faults>>

Running == node \in {"up", "closing"}

Conns == 1..MaxConns
Addresses == Hosts \X (Conns \cup {0})
Address(c, r) == <<r.host, IF r.out THEN 0 ELSE c>>
AddressOf(c) == Address(c, conn[c])

Unused == [at |-> "gone", host |-> None, out |-> FALSE, hnds |-> None, id |-> None,
           alive |-> FALSE, sock |-> "closed"]
Fresh(h, out, at) ==
  [at |-> at, host |-> h, out |-> out, hnds |-> None, id |-> None, alive |-> TRUE, sock |-> "open"]

\* The name the next connection gets.
Free(c) == conn[c].at = "gone" /\ \A d \in 1..(c - 1) : conn[d].at # "gone"

Absent == [type |-> "absent", fails |-> 0, recent |-> FALSE]
Added == [type |-> "white", fails |-> 0, recent |-> FALSE]

InTable == {table[a] : a \in Addresses} \ {None}

\* View of every connection in the table gets through.
NoneLocked(c) == \A d \in InTable \ {c} : conn[d].at # "offer"

\* Start, without a peer list on disk.
Init ==
  /\ conn = [c \in Conns |-> Unused]
  /\ table = [a \in Addresses |-> None]
  /\ known = [h \in Hosts |-> IF h \in Bootstrap THEN Added ELSE Absent]
  /\ node = "up"
  /\ faults = 0

-----------------------------------------------------------------------------
(* KnownPeers.                                                             *)

\* AddPeerToList: one entry for an IP address, white from the beginning.
AddPeerToList(K, h) == [K EXCEPT ![h] = IF @.type = "absent" THEN Added ELSE @]

\* sendPeerList marks the peer it writes to.
MarkWhite(K, h) == [K EXCEPT ![h].type = IF @ = "absent" THEN @ ELSE "white"]

\* startClient, when net.Dial failed.
CountFailure(K, h) ==
  LET fails == K[h].fails + 1
  IN  [K EXCEPT ![h] = [type |-> IF fails > MAX_PEER_FAILURES THEN "black" ELSE @.type,
                        fails |-> fails, recent |-> TRUE]]

\* BLACK_DURATION seconds have passed since a failure.
BlackDurationOver(h) ==
  /\ known[h].recent
  /\ known' = [known EXCEPT ![h].recent = FALSE]
  /\ UNCHANGED <<conn, table, node, faults>>

-----------------------------------------------------------------------------
(* StartClients, ListenServer and handleConnection.                        *)

\* Mutant of HandleConnection: a second connection is kicked.
HandleConnectionKick(c, r) ==
  LET a == Address(c, r)
  IN  \/ /\ table[a] = None
         /\ table' = [table EXCEPT ![a] = c]
         /\ conn' = [conn EXCEPT ![c] = r]
      \/ /\ table[a] # None
         /\ table' = [table EXCEPT ![a] = None]
         /\ conn' = [conn EXCEPT ![c] = Unused]

\* If the address is taken the new connection is closed and the table left.
HandleConnection(c, r) ==
  LET a == Address(c, r)
  IN  \/ /\ table[a] = None
         /\ table' = [table EXCEPT ![a] = c]
         /\ conn' = [conn EXCEPT ![c] = r]
      \/ /\ table[a] # None
         /\ conn' = [conn EXCEPT ![c] = Unused]
         /\ UNCHANGED table

\* connectToRandomPeer; connections still being dialled are not counted.
Dial(c, h) ==
  /\ Free(c)
  /\ NoneLocked(None)
  /\ Cardinality({d \in InTable : conn[d].out}) < P2P_CONNECTIONS
  /\ known[h].type # "absent"
  /\ ~(known[h].type = "black" /\ known[h].recent)
  /\ \A d \in InTable : conn[d].host # h
  /\ conn' = [conn EXCEPT ![c] = Fresh(h, TRUE, "dial")]
  /\ UNCHANGED <<table, known, node, faults>>

DialFails(c) ==
  /\ conn[c].at = "dial"
  /\ faults < MaxFaults
  /\ faults' = faults + 1
  /\ known' = CountFailure(known, conn[c].host)
  /\ conn' = [conn EXCEPT ![c] = Unused]
  /\ UNCHANGED <<table, node>>

DialSucceeds(c) ==
  /\ conn[c].at = "dial"
  /\ HandleConnection(c, [conn[c] EXCEPT !.at = "hello"])
  /\ known' = [known EXCEPT ![conn[c].host].fails = 0]
  /\ UNCHANGED <<node, faults>>

Accept(c, h) ==
  /\ node = "up" /\ Free(c)
  /\ HandleConnection(c, Fresh(h, FALSE, "hello"))
  /\ UNCHANGED <<known, node, faults>>

-----------------------------------------------------------------------------
(* The handler.                                                            *)

Go(c, at) == conn' = [conn EXCEPT ![c].at = at]

\* The handler returns an error: Kick calls Close and then waits for the lock
\* of the table.
Kick(c, id) ==
  conn' = [conn EXCEPT ![c] =
             [@ EXCEPT !.at = "delete", !.hnds = None, !.id = id, !.alive = FALSE, !.sock = "closed"]]

\* The handshakes are exchanged.  A peer that called and listens itself is
\* added to the list.
ReadHandshake(c) ==
  /\ conn[c].at = "hello"
  /\ conn[c].sock = "open"
  /\ known' \in {known} \cup IF conn[c].out THEN {} ELSE {AddPeerToList(known, conn[c].host)}
  /\ \E id \in PeerIds : conn' = [conn EXCEPT ![c].hnds = id, ![c].at = "duplicate"]
  /\ UNCHANGED <<table, node, faults>>

\* Mutant of HandshakeFails: no read deadline.
HandshakeFailsWhenClosed(c) ==
  /\ conn[c].at = "hello"
  /\ conn[c].sock = "closed"
  /\ Kick(c, None)
  /\ UNCHANGED <<table, known, node, faults>>

\* An outdated or malformed handshake, a closed socket, or five seconds of
\* silence.
HandshakeFails(c) ==
  /\ conn[c].at = "hello"
  /\ Kick(c, None)
  /\ UNCHANGED <<table, known, node, faults>>

Others(c) == {d \in InTable \ {c} : conn[d].id = conn[c].hnds}

\* The first look for the peer's ID among the other connections.
CheckDuplicate(c) ==
  /\ conn[c].at = "duplicate"
  /\ NoneLocked(c)
  /\ IF Others(c) = {} THEN Go(c, "identify") ELSE Kick(c, None)
  /\ UNCHANGED <<table, known, node, faults>>

\* The ID is stored before it is looked at: it may be the node's own, or no
\* public key.
Identify(c) ==
  /\ conn[c].at = "identify"
  /\ LET id == conn[c].hnds
     IN  \/ /\ Kick(c, id)
            /\ UNCHANGED known
         \/ /\ id # Self
            /\ conn' = [conn EXCEPT ![c].id = id, ![c].at = "offer"]
            /\ known' = MarkWhite(known, conn[c].host)
  /\ UNCHANGED <<table, node, faults>>

\* newConnections receives it.
NewConnection(c) ==
  /\ conn[c].at = "offer"
  /\ Go(c, "again")
  /\ UNCHANGED <<table, known, node, faults>>

\* Mutant of CheckAgain: a third connection is let through.
CheckAgainNever(c) ==
  /\ conn[c].at = "again"
  /\ NoneLocked(c)
  /\ Go(c, "read")
  /\ UNCHANGED <<table, known, node, faults>>

\* The second look, now that this connection's ID is visible to others.
CheckAgain(c) ==
  /\ conn[c].at = "again"
  /\ NoneLocked(c)
  /\ IF Cardinality(Others(c)) >= 2 THEN Kick(c, conn[c].id) ELSE Go(c, "read")
  /\ UNCHANGED <<table, known, node, faults>>

\* A packet for the node waits until incomingP2P takes it.
ReadPacket(c) ==
  /\ conn[c].at = "read"
  /\ conn[c].sock = "open"
  /\ Go(c, "deliver")
  /\ UNCHANGED <<table, known, node, faults>>

Deliver(c) ==
  /\ conn[c].at = "deliver"
  /\ Go(c, "read")
  /\ UNCHANGED <<table, known, node, faults>>

\* OnAddPeerPacket, for each address in it.
ReadAddPeer(c, h) ==
  /\ conn[c].at = "read"
  /\ conn[c].sock = "open"
  /\ known' = AddPeerToList(known, h)
  /\ UNCHANGED <<conn, table, node, faults>>

\* The socket is closed, P2P_TIMEOUT seconds of silence, or a bad packet.
ReadFails(c) ==
  /\ conn[c].at = "read"
  /\ Kick(c, conn[c].id)
  /\ UNCHANGED <<table, known, node, faults>>

\* Kick has the lock: it deletes the entry of its address.
KickDelete(c) ==
  /\ conn[c].at = "delete"
  /\ table' = [table EXCEPT ![AddressOf(c)] = None]
  /\ conn' = [conn EXCEPT ![c] = Unused]
  /\ UNCHANGED <<known, node, faults>>

-----------------------------------------------------------------------------
(* Writers and the network.                                                *)

\* The pinger, SendStats or a broadcast has put a packet in WriteChan; a
\* Writer that takes it before the connection has a cipher closes the socket.
WriteUnencrypted(c) ==
  /\ c \in InTable
  /\ conn[c].alive
  /\ conn[c].id = None
  /\ conn[c].sock # "closed"
  /\ faults < MaxFaults
  /\ faults' = faults + 1
  /\ conn' = [conn EXCEPT ![c].sock = "closed"]
  /\ UNCHANGED <<table, known, node>>

\* The peer closes the socket, or nothing is heard of it any more.
SocketFails(c) ==
  /\ conn[c].at \notin {"gone", "dial"}
  /\ conn[c].sock = "open"
  /\ faults < MaxFaults
  /\ faults' = faults + 1
  /\ \E s \in {"silent", "closed"} : conn' = [conn EXCEPT ![c].sock = s]
  /\ UNCHANGED <<table, known, node>>

-----------------------------------------------------------------------------
(* The end of the process, and with it of everything it kept in memory.    *)

ProcessEnds(how) ==
  /\ node' = how
  /\ conn' = [c \in Conns |-> Unused]
  /\ table' = [a \in Addresses |-> None]
  /\ UNCHANGED <<known, faults>>

\* P2P.Close closes the listener and, with the lock of each, the connections
\* and saves the peer list.  It walks through the table without its lock: when
\* a handler writes to the table meanwhile, as those of the connections just
\* closed do, the Go runtime may notice and end the process before the list is
\* saved.
Close ==
  /\ node = "up" /\ NoneLocked(None)
  /\ \/ /\ node' = "closing"
        /\ conn' = [c \in Conns |-> IF c \in InTable
                                   THEN [conn[c] EXCEPT !.alive = FALSE, !.sock = "closed"]
                                   ELSE conn[c]]
        /\ UNCHANGED <<table, known, faults>>
     \/ InTable # {} /\ ProcessEnds("panic")

\* Handlers and StartClients go on until Close of the blockchain is at its end.
Exit == node = "closing" /\ ProcessEnds("down")

\* BroadcastTx too walks through the table without its lock.
BroadcastTx == InTable # {} /\ ProcessEnds("panic")

\* SendPacket found the connection alive, and sends on the channel Kick has
\* closed since.
SendOnClosed(c) ==
  /\ c \in InTable
  /\ ~conn[c].alive
  /\ ProcessEnds("panic")

-----------------------------------------------------------------------------

Handler(c) ==
  \/ ReadHandshake(c) \/ HandshakeFails(c) \/ CheckDuplicate(c) \/ Identify(c)
  \/ CheckAgain(c) \/ ReadPacket(c) \/ ReadFails(c) \/ KickDelete(c)

\* What the blockchain package does with a connection.
Client(c) == NewConnection(c) \/ Deliver(c)

Next ==
  /\ Running
  /\ \/ \E c \in Conns : \/ Handler(c) \/ Client(c)
                         \/ DialFails(c) \/ DialSucceeds(c)
                         \/ WriteUnencrypted(c) \/ SocketFails(c)
                         \/ SendOnClosed(c)
     \/ \E c \in Conns, h \in Hosts : Dial(c, h) \/ Accept(c, h) \/ ReadAddPeer(c, h)
     \/ \E h \in Hosts : BlackDurationOver(h)
     \/ Close \/ Exit \/ BroadcastTx

Spec == Init /\ [][Next]_vars

(***************************************************************************)
(* A handler that can go on does, newConnections and incomingP2P take what *)
(* they are given, and who waits for the lock of a connection gets it:     *)
(* deadlines end every wait for the network.                               *)
(***************************************************************************)
FairSpec ==
  /\ Spec
  /\ \A c \in Conns : /\ WF_vars(Running /\ Handler(c))
                      /\ WF_vars(Running /\ Client(c))
                      /\ SF_vars(Running /\ (CheckDuplicate(c) \/ CheckAgain(c)))

-----------------------------------------------------------------------------
(* Properties.                                                             *)

\* Every variable has its type.
TypeOK ==
  /\ conn \in [Conns -> [at : {"gone", "dial", "hello", "duplicate", "identify",
                               "offer", "again", "read", "deliver", "delete"},
                         host : Hosts \cup {None}, out : BOOLEAN,
                         hnds : PeerIds \cup {None}, id : PeerIds \cup {None},
                         alive : BOOLEAN, sock : {"open", "silent", "closed"}]]
  /\ table \in [Addresses -> Conns \cup {None}]
  /\ known \in [Hosts -> [type : {"absent", "white", "black"}, fails : 0..MaxFaults,
                          recent : BOOLEAN]]
  /\ node \in {"up", "closing", "down", "panic"}
  /\ faults \in 0..MaxFaults

Handled(c) == conn[c].at \notin {"gone", "dial"}
Established(c) == conn[c].at \in {"read", "deliver"}

\* However many connections to one peer shake hands at the same time, from
\* either side, at most two of them are kept, and none to the node itself:
\* the last of three to show its ID sees the other two.
TwoPerPeer ==
  \A c, d, e \in Conns :
    /\ Established(c) /\ Established(d) /\ Established(e)
    /\ conn[c].id = conn[d].id /\ conn[d].id = conn[e].id
    => Cardinality({c, d, e}) <= 2 /\ conn[c].id # Self

\* The table and the handlers agree: a connection whose handler runs is the
\* one under its address, so broadcasts reach it and its Kick removes no
\* other connection, and an entry without a handler never stays.
TableOwned ==
  /\ \A c \in Conns : Handled(c) => table[AddressOf(c)] = c
  /\ \A a \in Addresses : table[a] # None => Handled(table[a]) /\ AddressOf(table[a]) = a

\* A connection settles: a handshake ends, and a connection whose socket
\* failed or whose peer went silent leaves the table, whatever its handler was
\* doing.  No handler waits forever for the peer, for the lock of another
\* connection, for newConnections or for incomingP2P.
Settles ==
  \A c \in Conns :
    (Handled(c) /\ (~Established(c) \/ conn[c].sock # "open"))
      ~> \/ Established(c) /\ conn[c].sock = "open"
         \/ conn[c].at = "gone"
         \/ node # "up"
=============================================================================
