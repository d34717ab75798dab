----------------------------- MODULE P2PProofs -----------------------------
(***************************************************************************)
(* Proofs about P2P, for any number of hosts, IDs, connections and faults: *)
(* the table Connections agrees with the handlers, and however many        *)
(* handshakes with one peer overlap, at most two connections survive.      *)
(***************************************************************************)
EXTENDS P2P, FiniteSetTheorems, TLAPS

-----------------------------------------------------------------------------
(* The inductive invariant.                                                *)

Places == {"gone", "dial", "hello", "duplicate", "identify", "offer", "again", "read",
           "deliver", "delete"}

Connection ==
  [at : Places, host : Hosts \cup {None}, out : BOOLEAN, hnds : PeerIds \cup {None},
   id : PeerIds \cup {None}, alive : BOOLEAN, sock : {"open", "silent", "closed"}]

Entry == [type : {"absent", "white", "black"}, fails : 0..MaxFaults, recent : BOOLEAN]

\* A name in use has a host, so its remote address is one the table knows.
HostsKnown == \A c \in Conns : conn[c].at # "gone" => conn[c].host \in Hosts

\* Every failure a peer is charged with is one of the faults that happened.
FailsBounded == \A h \in Hosts : known[h].fails <= faults

\* From the moment a connection shows its ID until it is kicked, the ID is the
\* one of the handshake, which is what the second look compares, and is not
\* the node's own.
IdShown ==
  \A c \in Conns : conn[c].at \in {"offer", "again", "read", "deliver"} =>
    /\ conn[c].id = conn[c].hnds
    /\ conn[c].id # Self

Inv == TypeOK /\ HostsKnown /\ FailsBounded /\ IdShown /\ TableOwned /\ TwoPerPeer

-----------------------------------------------------------------------------
(* Typing.                                                                 *)

\* Connections are numbered, None is not one of them.
LEMMA ConnsAreNumbers == Conns \subseteq Nat /\ None \notin Conns /\ IsFiniteSet(Conns)
<1>1. MaxConns \in Nat /\ None \notin Nat
  BY P2PAssumption
<1>2. IsFiniteSet(1..MaxConns)
  BY <1>1, FS_Interval
<1> QED BY <1>1, <1>2 DEF Conns

\* The types of the five variables, named one by one.
LEMMA TypeParts ==
  TypeOK <=> /\ conn \in [Conns -> Connection]
             /\ table \in [Addresses -> Conns \cup {None}]
             /\ known \in [Hosts -> Entry]
             /\ node \in {"up", "closing", "down", "panic"}
             /\ faults \in 0..MaxFaults
BY DEF TypeOK, Connection, Places, Entry

\* What HandleConnection, Kick and ProcessEnds leave behind is well typed.
LEMMA FreshTyped ==
  ASSUME NEW h \in Hosts, NEW out \in BOOLEAN, NEW at \in Places
  PROVE  Fresh(h, out, at) \in Connection /\ Unused \in Connection
BY DEF Fresh, Unused, Connection, Places

\* A node that starts is well typed.
LEMMA TypeInit == Init => TypeOK /\ HostsKnown /\ FailsBounded
<1> SUFFICES ASSUME Init PROVE TypeOK /\ HostsKnown /\ FailsBounded
  OBVIOUS
<1> USE DEF Init
<1>1. MaxFaults \in Nat
  BY P2PAssumption
<1>2. conn \in [Conns -> Connection] /\ HostsKnown
  BY DEF Unused, Connection, Places, HostsKnown
<1>3. known \in [Hosts -> Entry] /\ FailsBounded
  BY <1>1 DEF Added, Absent, Entry, FailsBounded
<1> QED BY <1>1, <1>2, <1>3 DEF TypeOK, Connection, Places, Entry

\* A step that changes one connection.
LEMMA OneConn ==
  ASSUME conn \in [Conns -> Connection], HostsKnown,
         NEW c \in Conns, NEW r \in Connection, conn' = [conn EXCEPT ![c] = r],
         r.at # "gone" => r.host \in Hosts
  PROVE  conn' \in [Conns -> Connection] /\ HostsKnown'
BY DEF HostsKnown

\* A step of a handler that is neither HandleConnection nor KickDelete: the
\* connection stays where it is, under the same address.
MovesOn(c) ==
  /\ UNCHANGED table
  /\ \E r \in Connection :
       /\ conn' = [conn EXCEPT ![c] = r]
       /\ r.host = conn[c].host /\ r.out = conn[c].out
       /\ conn[c].at \notin {"gone", "dial"} /\ r.at \notin {"gone", "dial"}

\* Kick only moves the connection on.
LEMMA KickTyped ==
  ASSUME conn \in [Conns -> Connection], NEW c \in Conns, NEW id \in PeerIds \cup {None},
         conn[c].at \notin {"gone", "dial"}, Kick(c, id), UNCHANGED table
  PROVE  MovesOn(c)
<1> DEFINE r == [conn[c] EXCEPT !.at = "delete", !.hnds = None, !.id = id,
                                !.alive = FALSE, !.sock = "closed"]
<1>1. r \in Connection /\ conn' = [conn EXCEPT ![c] = r]
  BY DEF Kick, Connection, Places
<1>2. r.host = conn[c].host /\ r.out = conn[c].out /\ r.at = "delete"
  BY DEF Connection
<1> QED BY <1>1, <1>2 DEF MovesOn

\* So does a step of its goroutine.
LEMMA GoTyped ==
  ASSUME conn \in [Conns -> Connection], NEW c \in Conns, NEW at \in Places \ {"gone", "dial"},
         conn[c].at \notin {"gone", "dial"}, Go(c, at), UNCHANGED table
  PROVE  MovesOn(c)
<1> DEFINE r == [conn[c] EXCEPT !.at = at]
<1>1. r \in Connection /\ conn' = [conn EXCEPT ![c] = r]
  BY DEF Go, Connection, Places
<1>2. r.host = conn[c].host /\ r.out = conn[c].out /\ r.at = at
  BY DEF Connection
<1> QED BY <1>1, <1>2 DEF MovesOn, Places

\* The steps between HandleConnection and KickDelete, and those of Writers and
\* of the network.
InPlace(c) ==
  \/ ReadHandshake(c) \/ HandshakeFails(c) \/ CheckDuplicate(c) \/ Identify(c)
  \/ CheckAgain(c) \/ ReadPacket(c) \/ ReadFails(c) \/ Client(c)
  \/ WriteUnencrypted(c) \/ SocketFails(c)

\* Every step of a connection that leaves the table alone moves only it.
LEMMA InPlaceMovesOn ==
  ASSUME TypeOK, TableOwned, NEW c \in Conns, InPlace(c)
  PROVE  MovesOn(c)
<1>0. conn \in [Conns -> Connection] /\ table \in [Addresses -> Conns \cup {None}]
  BY DEF TypeOK, Connection, Places
<1>1. /\ conn[c].id \in PeerIds \cup {None}
      /\ conn[c].hnds \in PeerIds \cup {None}
  BY <1>0 DEF Connection
<1>2. CASE ReadHandshake(c)
  <2>1. PICK id \in PeerIds : conn' = [conn EXCEPT ![c].hnds = id, ![c].at = "duplicate"]
    BY <1>2 DEF ReadHandshake
  <2> DEFINE r == [conn[c] EXCEPT !.hnds = id, !.at = "duplicate"]
  <2>2. r \in Connection /\ conn' = [conn EXCEPT ![c] = r]
    BY <1>0, <2>1 DEF Connection, Places
  <2>3. r.host = conn[c].host /\ r.out = conn[c].out /\ r.at = "duplicate"
    BY <1>0 DEF Connection
  <2> QED BY <1>2, <2>2, <2>3 DEF MovesOn, ReadHandshake
<1>3. CASE HandshakeFails(c)
  BY <1>0, <1>3, KickTyped DEF HandshakeFails
<1>4. CASE CheckDuplicate(c)
  BY <1>0, <1>4, KickTyped, GoTyped DEF CheckDuplicate, Places
<1>5. CASE Identify(c)
  <2>1. CASE Kick(c, conn[c].hnds)
    BY <1>0, <1>1, <1>5, <2>1, KickTyped DEF Identify
  <2>2. CASE conn' = [conn EXCEPT ![c].id = conn[c].hnds, ![c].at = "offer"]
    <3> DEFINE r == [conn[c] EXCEPT !.id = conn[c].hnds, !.at = "offer"]
    <3>1. r \in Connection /\ conn' = [conn EXCEPT ![c] = r]
      BY <1>0, <1>1, <2>2 DEF Connection, Places
    <3>2. r.host = conn[c].host /\ r.out = conn[c].out /\ r.at = "offer"
      BY <1>0 DEF Connection
    <3> QED BY <1>5, <3>1, <3>2 DEF MovesOn, Identify
  <2> QED BY <1>5, <2>1, <2>2 DEF Identify
<1>6. CASE CheckAgain(c)
  BY <1>0, <1>1, <1>6, KickTyped, GoTyped DEF CheckAgain, Places
<1>7. CASE ReadPacket(c)
  BY <1>0, <1>7, GoTyped DEF ReadPacket, Places
<1>8. CASE ReadFails(c)
  BY <1>0, <1>1, <1>8, KickTyped DEF ReadFails
<1>9. CASE Client(c)
  BY <1>0, <1>9, GoTyped DEF Client, NewConnection, Deliver, Places
<1>10. CASE WriteUnencrypted(c) \/ SocketFails(c)
  <2>1. PICK s \in {"silent", "closed"} : conn' = [conn EXCEPT ![c].sock = s]
    BY <1>10 DEF WriteUnencrypted, SocketFails
  <2>2. conn[c].at \notin {"gone", "dial"}
    BY <1>10, ConnsAreNumbers DEF WriteUnencrypted, SocketFails, InTable, TableOwned, Handled
  <2> DEFINE r == [conn[c] EXCEPT !.sock = s]
  <2>3. r \in Connection /\ conn' = [conn EXCEPT ![c] = r]
    BY <1>0, <2>1 DEF Connection, Places
  <2>4. r.host = conn[c].host /\ r.out = conn[c].out /\ r.at = conn[c].at
    BY <1>0 DEF Connection
  <2> QED BY <1>10, <2>2, <2>3, <2>4 DEF MovesOn, WriteUnencrypted, SocketFails
<1> QED BY <1>2, <1>3, <1>4, <1>5, <1>6, <1>7, <1>8, <1>9, <1>10 DEF InPlace

-----------------------------------------------------------------------------
(* The table.                                                              *)

\* A handler that goes on keeps its entry.
LEMMA MovesOnOwned ==
  ASSUME TypeOK, HostsKnown, TableOwned, NEW c \in Conns, MovesOn(c)
  PROVE  /\ TableOwned'
         /\ conn' \in [Conns -> Connection] /\ HostsKnown'
<1>0. conn \in [Conns -> Connection] /\ table \in [Addresses -> Conns \cup {None}]
  BY DEF TypeOK, Connection, Places
<1>1. PICK r \in Connection :
        /\ conn' = [conn EXCEPT ![c] = r]
        /\ r.host = conn[c].host /\ r.out = conn[c].out
        /\ conn[c].at \notin {"gone", "dial"} /\ r.at \notin {"gone", "dial"}
  BY DEF MovesOn
<1>2. conn' \in [Conns -> Connection] /\ HostsKnown'
  BY <1>0, <1>1, OneConn DEF HostsKnown
<1>3. \A d \in Conns : /\ conn'[d].at \notin {"gone", "dial"} <=> conn[d].at \notin {"gone", "dial"}
                       /\ conn'[d].host = conn[d].host /\ conn'[d].out = conn[d].out
  BY <1>0, <1>1
<1>4. table' = table
  BY DEF MovesOn
<1>5. \A d \in Conns : /\ Handled(d)' <=> Handled(d)
                       /\ AddressOf(d)' = AddressOf(d)
  BY <1>3 DEF Handled, AddressOf, Address
<1>6. \A a \in Addresses : table[a] # None => table[a] \in Conns
  BY <1>0
<1>7. \A d \in Conns : Handled(d)' => table'[AddressOf(d)'] = d
  BY <1>4, <1>5 DEF TableOwned
<1>8. \A a \in Addresses : table'[a] # None =>
        Handled(table[a])' /\ AddressOf(table[a])' = a
  BY <1>4, <1>5, <1>6 DEF TableOwned
<1> QED BY <1>2, <1>4, <1>7, <1>8 DEF TableOwned, Handled, AddressOf, Address

\* A connection that was not handled enters the table at a free address, or
\* is closed and leaves the table as it was.
LEMMA HandleConnectionOwned ==
  ASSUME TypeOK, HostsKnown, TableOwned, NEW c \in Conns, ~Handled(c), NEW r \in Connection,
         r.at = "hello", r.host \in Hosts, HandleConnection(c, r)
  PROVE  /\ TableOwned'
         /\ table' \in [Addresses -> Conns \cup {None}]
         /\ conn' \in [Conns -> Connection] /\ HostsKnown'
<1>0. conn \in [Conns -> Connection] /\ table \in [Addresses -> Conns \cup {None}]
  BY DEF TypeOK, Connection, Places
<1> DEFINE a == Address(c, r)
<1>1. a \in Addresses
  BY DEF Address, Addresses
<1>2. Unused \in Connection
  BY DEF Unused, Connection, Places
<1>3. CASE table[a] = None /\ table' = [table EXCEPT ![a] = c] /\ conn' = [conn EXCEPT ![c] = r]
  <2>1. conn' \in [Conns -> Connection] /\ HostsKnown'
    BY <1>0, <1>3, OneConn
  <2>2. conn'[c] = r /\ \A d \in Conns \ {c} : conn'[d] = conn[d]
    BY <1>0, <1>3
  <2>3. table' \in [Addresses -> Conns \cup {None}]
    BY <1>0, <1>1, <1>3
  <2>4. table'[a] = c /\ \A b \in Addresses \ {a} : table'[b] = table[b]
    BY <1>0, <1>1, <1>3
  <2>5. Handled(c)' /\ AddressOf(c)' = a
    BY <2>2 DEF Handled, AddressOf, Address
  <2>6. \A d \in Conns \ {c} : (Handled(d)' <=> Handled(d)) /\ AddressOf(d)' = AddressOf(d)
    BY <2>2 DEF Handled, AddressOf, Address
  <2>7. \A d \in Conns : Handled(d) => AddressOf(d) \in Addresses /\ table[AddressOf(d)] = d
    BY <1>0 DEF TableOwned, HostsKnown, Handled, AddressOf, Address, Addresses
  <2>8. \A d \in Conns : Handled(d)' => table'[AddressOf(d)'] = d
    BY <1>3, <2>4, <2>5, <2>6, <2>7, ConnsAreNumbers
  <2>9. \A b \in Addresses \ {a} : table[b] # None =>
          table[b] \in Conns \ {c} /\ Handled(table[b]) /\ AddressOf(table[b]) = b
    BY <1>0 DEF TableOwned
  <2>10. \A b \in Addresses : table'[b] # None => Handled(table[b])' /\ AddressOf(table[b])' = b
    BY <2>4, <2>5, <2>6, <2>9
  <2> QED BY <2>1, <2>3, <2>8, <2>10 DEF TableOwned, Handled, AddressOf, Address
<1>4. CASE table[a] # None /\ table' = table /\ conn' = [conn EXCEPT ![c] = Unused]
  <2>1. conn' \in [Conns -> Connection] /\ HostsKnown'
    BY <1>0, <1>2, <1>4, OneConn DEF Unused
  <2>2. conn'[c].at = "gone" /\ \A d \in Conns \ {c} : conn'[d] = conn[d]
    BY <1>0, <1>4 DEF Unused
  <2>3. \A d \in Conns \ {c} : (Handled(d)' <=> Handled(d)) /\ AddressOf(d)' = AddressOf(d)
    BY <2>2 DEF Handled, AddressOf, Address
  <2>4. ~Handled(c)'
    BY <2>2 DEF Handled
  <2>5. \A b \in Addresses : table[b] # None =>
          table[b] \in Conns \ {c} /\ Handled(table[b]) /\ AddressOf(table[b]) = b
    BY <1>0 DEF TableOwned
  <2>6. \A d \in Conns : Handled(d)' => table'[AddressOf(d)'] = d
    BY <1>4, <2>3, <2>4 DEF TableOwned
  <2>7. \A b \in Addresses : table'[b] # None => Handled(table[b])' /\ AddressOf(table[b])' = b
    BY <1>4, <2>3, <2>5
  <2> QED BY <1>0, <1>4, <2>1, <2>6, <2>7 DEF TableOwned, Handled, AddressOf, Address
<1> QED BY <1>3, <1>4 DEF HandleConnection

\* The end of a handler takes its own entry out of the table and no other.
LEMMA KickDeleteOwned ==
  ASSUME TypeOK, HostsKnown, TableOwned, NEW c \in Conns, KickDelete(c)
  PROVE  /\ TableOwned'
         /\ table' \in [Addresses -> Conns \cup {None}]
         /\ conn' \in [Conns -> Connection] /\ HostsKnown'
<1>0. conn \in [Conns -> Connection] /\ table \in [Addresses -> Conns \cup {None}]
  BY DEF TypeOK, Connection, Places
<1>1. conn[c].at = "delete" /\ table' = [table EXCEPT ![AddressOf(c)] = None]
      /\ conn' = [conn EXCEPT ![c] = Unused]
  BY DEF KickDelete
<1>2. Unused \in Connection
  BY DEF Unused, Connection, Places
<1>3. conn' \in [Conns -> Connection] /\ HostsKnown'
  BY <1>0, <1>1, <1>2, OneConn DEF Unused
<1>4. \A d \in Conns : Handled(d) => AddressOf(d) \in Addresses /\ table[AddressOf(d)] = d
  BY <1>0 DEF TableOwned, HostsKnown, Handled, AddressOf, Address, Addresses
<1>5. Handled(c)
  BY <1>1 DEF Handled
<1>6. conn'[c].at = "gone" /\ \A d \in Conns \ {c} : conn'[d] = conn[d]
  BY <1>0, <1>1 DEF Unused
<1>7. \A d \in Conns \ {c} : (Handled(d)' <=> Handled(d)) /\ AddressOf(d)' = AddressOf(d)
  BY <1>6 DEF Handled, AddressOf, Address
<1>8. ~Handled(c)'
  BY <1>6 DEF Handled
<1>9. /\ table'[AddressOf(c)] = None
      /\ \A b \in Addresses \ {AddressOf(c)} : table'[b] = table[b]
  BY <1>0, <1>1, <1>4, <1>5
<1>10. \A d \in Conns : Handled(d)' => table'[AddressOf(d)'] = d
  BY <1>4, <1>5, <1>7, <1>8, <1>9
<1>11. \A b \in Addresses \ {AddressOf(c)} : table[b] # None =>
         table[b] \in Conns \ {c} /\ Handled(table[b]) /\ AddressOf(table[b]) = b
  BY <1>0 DEF TableOwned
<1>12. \A b \in Addresses : table'[b] # None => Handled(table[b])' /\ AddressOf(table[b])' = b
  BY <1>7, <1>9, <1>11
<1>13. table' \in [Addresses -> Conns \cup {None}]
  BY <1>0, <1>1
<1> QED BY <1>3, <1>10, <1>12, <1>13 DEF TableOwned, Handled, AddressOf, Address

\* The process ends with all its connections.
LEMMA ProcessEndsOwned ==
  ASSUME NEW how \in {"down", "panic"}, ProcessEnds(how)
  PROVE  /\ TableOwned'
         /\ table' \in [Addresses -> Conns \cup {None}]
         /\ conn' \in [Conns -> Connection] /\ HostsKnown'
         /\ \A c \in Conns : conn'[c].at = "gone"
<1>1. conn' = [c \in Conns |-> Unused] /\ table' = [a \in Addresses |-> None]
  BY DEF ProcessEnds
<1>2. \A c \in Conns : conn'[c] = Unused /\ conn'[c].at = "gone"
  BY <1>1 DEF Unused
<1>3. conn' \in [Conns -> Connection] /\ HostsKnown'
  BY <1>1, <1>2 DEF Unused, Connection, Places, HostsKnown
<1>4. table' \in [Addresses -> Conns \cup {None}] /\ \A a \in Addresses : table'[a] = None
  BY <1>1
<1> QED BY <1>2, <1>3, <1>4 DEF TableOwned, Handled

\* Close ends the sockets and nothing else.
SocketsClosed ==
  /\ UNCHANGED table
  /\ conn' \in [Conns -> Connection]
  /\ \A c \in Conns : /\ conn'[c].at = conn[c].at /\ conn'[c].host = conn[c].host
                      /\ conn'[c].out = conn[c].out /\ conn'[c].id = conn[c].id
                      /\ conn'[c].hnds = conn[c].hnds

\* Every handler keeps its place and its entry when the sockets are closed.
LEMMA SocketsClosedOwned ==
  ASSUME TypeOK, HostsKnown, TableOwned, SocketsClosed
  PROVE  /\ TableOwned'
         /\ table' \in [Addresses -> Conns \cup {None}]
         /\ conn' \in [Conns -> Connection] /\ HostsKnown'
<1>1. table \in [Addresses -> Conns \cup {None}] /\ table' = table
  BY DEF TypeOK, SocketsClosed
<1>2. \A d \in Conns : (Handled(d)' <=> Handled(d)) /\ AddressOf(d)' = AddressOf(d)
  BY DEF SocketsClosed, Handled, AddressOf, Address
<1>3. \A a \in Addresses : table[a] # None => table[a] \in Conns
  BY <1>1
<1>4. \A d \in Conns : Handled(d)' => table'[AddressOf(d)'] = d
  BY <1>1, <1>2 DEF TableOwned
<1>5. \A a \in Addresses : table'[a] # None => Handled(table[a])' /\ AddressOf(table[a])' = a
  BY <1>1, <1>2, <1>3 DEF TableOwned
<1>6. HostsKnown'
  BY DEF HostsKnown, SocketsClosed
<1> QED BY <1>1, <1>4, <1>5, <1>6 DEF TableOwned, Handled, AddressOf, Address, SocketsClosed

\* The ways in which a step treats the connections.
LEMMA StepKinds ==
  ASSUME TypeOK, HostsKnown, TableOwned, Next
  PROVE  \/ \E c \in Conns : InPlace(c)
         \/ \E c \in Conns : KickDelete(c)
         \/ \E c \in Conns, h \in Hosts :
              /\ Dial(c, h) \/ DialFails(c)
              /\ UNCHANGED table
              /\ \E r \in {Fresh(h, TRUE, "dial"), Unused} : conn' = [conn EXCEPT ![c] = r]
         \/ \E c \in Conns, r \in Connection :
              /\ ~Handled(c) /\ r.at = "hello" /\ r.host \in Hosts /\ HandleConnection(c, r)
         \/ ProcessEnds("down") \/ ProcessEnds("panic")
         \/ SocketsClosed
         \/ UNCHANGED <<conn, table>>
<1>0. conn \in [Conns -> Connection]
  BY DEF TypeOK, Connection, Places
<1>1. CASE \E c \in Conns : \/ Handler(c) \/ Client(c)
                            \/ WriteUnencrypted(c) \/ SocketFails(c)
  BY <1>1 DEF Handler, InPlace
<1>2. CASE \E c \in Conns : DialFails(c)
  <2>1. PICK c \in Conns : DialFails(c)
    BY <1>2
  <2>2. conn[c].host \in Hosts
    BY <2>1 DEF DialFails, HostsKnown
  <2> QED BY <2>1, <2>2 DEF DialFails
<1>3. CASE \E c \in Conns : DialSucceeds(c)
  <2>1. PICK c \in Conns : DialSucceeds(c)
    BY <1>3
  <2> DEFINE r == [conn[c] EXCEPT !.at = "hello"]
  <2>2. conn[c].at = "dial" /\ HandleConnection(c, r)
    BY <2>1 DEF DialSucceeds
  <2>3. r \in Connection /\ r.at = "hello" /\ r.host = conn[c].host
    BY <1>0 DEF Connection, Places
  <2>4. r.host \in Hosts
    BY <2>2, <2>3 DEF HostsKnown
  <2>5. ~Handled(c)
    BY <2>2 DEF Handled
  <2> QED BY <2>2, <2>3, <2>4, <2>5
<1>4. CASE \E c \in Conns : SendOnClosed(c)
  BY <1>4 DEF SendOnClosed
<1>5. CASE \E c \in Conns, h \in Hosts : Dial(c, h)
  BY <1>5 DEF Dial
<1>6. CASE \E c \in Conns, h \in Hosts : Accept(c, h)
  <2>1. PICK c \in Conns, h \in Hosts : Accept(c, h)
    BY <1>6
  <2>2. Fresh(h, FALSE, "hello") \in Connection
    BY FreshTyped DEF Places
  <2>3. Fresh(h, FALSE, "hello").at = "hello" /\ Fresh(h, FALSE, "hello").host = h
    BY DEF Fresh
  <2>4. ~Handled(c) /\ HandleConnection(c, Fresh(h, FALSE, "hello"))
    BY <2>1 DEF Accept, Free, Handled
  <2> QED BY <2>2, <2>3, <2>4
<1>7. CASE \E c \in Conns, h \in Hosts : ReadAddPeer(c, h)
  BY <1>7 DEF ReadAddPeer
<1>8. CASE \E h \in Hosts : BlackDurationOver(h)
  BY <1>8 DEF BlackDurationOver
<1>9. CASE Close
  <2>1. CASE ProcessEnds("panic")
    BY <2>1
  <2>2. CASE /\ conn' = [c \in Conns |-> IF c \in InTable
                                       THEN [conn[c] EXCEPT !.alive = FALSE, !.sock = "closed"]
                                       ELSE conn[c]]
             /\ UNCHANGED table
    <3>1. \A c \in Conns : conn'[c] \in {conn[c], [conn[c] EXCEPT !.alive = FALSE, !.sock = "closed"]}
      BY <2>2
    <3>2. \A c \in Conns : /\ conn'[c] \in Connection
                           /\ conn'[c].at = conn[c].at /\ conn'[c].host = conn[c].host
                           /\ conn'[c].out = conn[c].out /\ conn'[c].id = conn[c].id
                           /\ conn'[c].hnds = conn[c].hnds
      <4> TAKE c \in Conns
      <4> DEFINE r == [conn[c] EXCEPT !.alive = FALSE, !.sock = "closed"]
      <4>1. /\ r \in Connection
            /\ r.at = conn[c].at /\ r.host = conn[c].host /\ r.out = conn[c].out
            /\ r.id = conn[c].id /\ r.hnds = conn[c].hnds
        BY <1>0 DEF Connection
      <4>2. conn'[c] = conn[c] \/ conn'[c] = r
        BY <3>1
      <4>3. conn[c] \in Connection
        BY <1>0
      <4> HIDE DEF r
      <4> QED BY <4>1, <4>2, <4>3
    <3>3. conn' \in [Conns -> Connection]
      BY <2>2, <3>2
    <3> QED BY <2>2, <3>2, <3>3 DEF SocketsClosed
  <2> QED BY <1>9, <2>1, <2>2 DEF Close
<1>10. CASE Exit \/ BroadcastTx
  BY <1>10 DEF Exit, BroadcastTx
<1> QED BY <1>1, <1>2, <1>3, <1>4, <1>5, <1>6, <1>7, <1>8, <1>9, <1>10 DEF Next

\* The table and the handlers agree after every step.
LEMMA TableStep ==
  ASSUME TypeOK, HostsKnown, TableOwned, Next
  PROVE  /\ TableOwned'
         /\ table' \in [Addresses -> Conns \cup {None}]
         /\ conn' \in [Conns -> Connection] /\ HostsKnown'
<1>0. conn \in [Conns -> Connection] /\ table \in [Addresses -> Conns \cup {None}]
  BY DEF TypeOK, Connection, Places
<1>1. CASE \E c \in Conns : InPlace(c)
  <2>1. PICK c \in Conns : MovesOn(c)
    BY <1>1, InPlaceMovesOn
  <2> QED BY <1>0, <2>1, MovesOnOwned DEF MovesOn
<1>2. CASE \E c \in Conns : KickDelete(c)
  BY <1>2, KickDeleteOwned
<1>3. CASE \E c \in Conns, h \in Hosts :
             /\ Dial(c, h) \/ DialFails(c)
             /\ UNCHANGED table
             /\ \E r \in {Fresh(h, TRUE, "dial"), Unused} : conn' = [conn EXCEPT ![c] = r]
  <2>0. PICK c \in Conns, h \in Hosts :
          /\ Dial(c, h) \/ DialFails(c)
          /\ UNCHANGED table
          /\ \E r \in {Fresh(h, TRUE, "dial"), Unused} : conn' = [conn EXCEPT ![c] = r]
    BY <1>3
  <2>1. PICK r \in {Fresh(h, TRUE, "dial"), Unused} : conn' = [conn EXCEPT ![c] = r]
    BY <2>0
  <2>2. r \in Connection /\ r.at \in {"gone", "dial"} /\ (r.at # "gone" => r.host \in Hosts)
    <3>1. Fresh(h, TRUE, "dial") \in Connection /\ Unused \in Connection
      BY FreshTyped DEF Places
    <3>2. Fresh(h, TRUE, "dial").at = "dial" /\ Fresh(h, TRUE, "dial").host = h
      BY DEF Fresh
    <3>3. Unused.at = "gone"
      BY DEF Unused
    <3> QED BY <3>1, <3>2, <3>3
  <2>3. conn' \in [Conns -> Connection] /\ HostsKnown'
    BY <1>0, <2>1, <2>2, OneConn
  <2>4. conn[c].at \in {"gone", "dial"}
    BY <2>0 DEF Dial, Free, DialFails
  <2>5. conn'[c] = r /\ \A d \in Conns \ {c} : conn'[d] = conn[d]
    BY <1>0, <2>1
  <2>6. ~Handled(c)' /\ ~Handled(c)
    BY <2>2, <2>4, <2>5 DEF Handled
  <2>7. \A d \in Conns \ {c} : (Handled(d)' <=> Handled(d)) /\ AddressOf(d)' = AddressOf(d)
    BY <2>5 DEF Handled, AddressOf, Address
  <2>8. \A b \in Addresses : table[b] # None =>
          table[b] \in Conns \ {c} /\ Handled(table[b]) /\ AddressOf(table[b]) = b
    BY <1>0, <2>6 DEF TableOwned
  <2>9. \A d \in Conns : Handled(d)' => table'[AddressOf(d)'] = d
    BY <2>0, <2>6, <2>7 DEF TableOwned
  <2>10. \A b \in Addresses : table'[b] # None => Handled(table[b])' /\ AddressOf(table[b])' = b
    BY <2>0, <2>7, <2>8
  <2> QED BY <1>0, <2>0, <2>3, <2>9, <2>10 DEF TableOwned, Handled, AddressOf, Address
<1>4. CASE \E c \in Conns, r \in Connection :
             /\ ~Handled(c) /\ r.at = "hello" /\ r.host \in Hosts /\ HandleConnection(c, r)
  BY <1>4, HandleConnectionOwned
<1>5. CASE ProcessEnds("down") \/ ProcessEnds("panic")
  BY <1>5, ProcessEndsOwned
<1>6. CASE UNCHANGED <<conn, table>>
  BY <1>0, <1>6 DEF TableOwned, Handled, AddressOf, HostsKnown
<1>7. CASE SocketsClosed
  BY <1>7, SocketsClosedOwned
<1> QED BY <1>1, <1>2, <1>3, <1>4, <1>5, <1>6, <1>7, StepKinds

-----------------------------------------------------------------------------
(* KnownPeers and the faults.                                              *)

\* The list of known peers, the failure counts and the node stay well typed.
LEMMA KnownStep ==
  ASSUME TypeOK, HostsKnown, FailsBounded, Next
  PROVE  /\ known' \in [Hosts -> Entry] /\ FailsBounded'
         /\ node' \in {"up", "closing", "down", "panic"}
         /\ faults' \in 0..MaxFaults
<1>0. /\ known \in [Hosts -> Entry] /\ node \in {"up", "closing"} /\ faults \in 0..MaxFaults
      /\ conn \in [Conns -> Connection]
  BY DEF TypeOK, Entry, Connection, Places, Next, Running
<1>1. MaxFaults \in Nat
  BY P2PAssumption
<1>2. CASE UNCHANGED <<known, node, faults>>
  BY <1>0, <1>2 DEF FailsBounded
<1>3. ASSUME UNCHANGED <<known, node>>, faults < MaxFaults, faults' = faults + 1
      PROVE  known' \in [Hosts -> Entry] /\ FailsBounded' /\ node' \in {"up", "closing", "down", "panic"}
             /\ faults' \in 0..MaxFaults
  BY <1>0, <1>1, <1>3 DEF FailsBounded, Entry
<1>4. ASSUME NEW h \in Hosts, NEW e \in Entry, e.fails \in {0, known[h].fails},
             known' = [known EXCEPT ![h] = e], UNCHANGED <<node, faults>>
      PROVE  known' \in [Hosts -> Entry] /\ FailsBounded' /\ node' \in {"up", "closing", "down", "panic"}
             /\ faults' \in 0..MaxFaults
  BY <1>0, <1>1, <1>4 DEF FailsBounded
<1>5. ASSUME NEW h \in Hosts, known' = AddPeerToList(known, h), UNCHANGED <<node, faults>>
      PROVE  known' \in [Hosts -> Entry] /\ FailsBounded' /\ node' \in {"up", "closing", "down", "panic"}
             /\ faults' \in 0..MaxFaults
  <2>1. Added \in Entry /\ Added.fails = 0
    BY <1>1 DEF Added, Entry
  <2>2. known' = [known EXCEPT ![h] = IF known[h].type = "absent" THEN Added ELSE known[h]]
    BY <1>0, <1>5 DEF AddPeerToList
  <2> QED BY <1>0, <1>4, <1>5, <2>1, <2>2
<1>6. ASSUME NEW c \in Conns, Handler(c) \/ Client(c)
      PROVE  known' \in [Hosts -> Entry] /\ FailsBounded' /\ node' \in {"up", "closing", "down", "panic"}
             /\ faults' \in 0..MaxFaults
  <2>1. CASE ReadHandshake(c)
    BY <1>2, <1>5, <2>1 DEF ReadHandshake, HostsKnown
  <2>2. CASE Identify(c)
    <3>1. CASE known' = MarkWhite(known, conn[c].host)
      <4> DEFINE h == conn[c].host
                 e == [known[h] EXCEPT !.type = IF @ = "absent" THEN @ ELSE "white"]
      <4>1. h \in Hosts
        BY <2>2 DEF Identify, HostsKnown
      <4>2. e \in Entry /\ e.fails = known[h].fails
        BY <1>0, <4>1 DEF Entry
      <4>3. known' = [known EXCEPT ![h] = e]
        BY <1>0, <3>1, <4>1 DEF MarkWhite, Entry
      <4>4. UNCHANGED <<node, faults>>
        BY <2>2 DEF Identify
      <4> HIDE DEF h, e
      <4> QED BY <1>4, <4>1, <4>2, <4>3, <4>4
    <3> QED BY <1>2, <2>2, <3>1 DEF Identify
  <2>3. CASE \/ HandshakeFails(c) \/ CheckDuplicate(c) \/ CheckAgain(c) \/ ReadPacket(c)
             \/ ReadFails(c) \/ KickDelete(c) \/ Client(c)
    BY <1>2, <2>3 DEF HandshakeFails, CheckDuplicate, CheckAgain, ReadPacket, ReadFails,
                      KickDelete, Client, NewConnection, Deliver
  <2> QED BY <1>6, <2>1, <2>2, <2>3 DEF Handler
<1>7. ASSUME NEW c \in Conns, DialFails(c)
      PROVE  known' \in [Hosts -> Entry] /\ FailsBounded' /\ node' \in {"up", "closing", "down", "panic"}
             /\ faults' \in 0..MaxFaults
  <2> DEFINE h == conn[c].host
             f == known[h].fails + 1
             e == [type |-> IF f > MAX_PEER_FAILURES THEN "black" ELSE known[h].type,
                   fails |-> f, recent |-> TRUE]
  <2>1. h \in Hosts /\ faults < MaxFaults /\ faults' = faults + 1 /\ node' = node
    BY <1>7 DEF DialFails, HostsKnown
  <2>2. known[h] \in Entry /\ known[h].fails <= faults
    BY <1>0, <2>1 DEF FailsBounded
  <2>3. f \in 0..MaxFaults /\ f <= faults'
    BY <1>0, <1>1, <2>1, <2>2 DEF Entry
  <2>4. e \in Entry
    BY <2>2, <2>3 DEF Entry
  <2>5. known' = [known EXCEPT ![h] = e]
    BY <1>0, <1>7, <2>1 DEF DialFails, CountFailure
  <2>6. e.fails = f
    OBVIOUS
  <2> HIDE DEF h, f, e
  <2>7. known' \in [Hosts -> Entry]
    BY <1>0, <2>1, <2>4, <2>5
  <2>8. \A k \in Hosts : known'[k].fails <= faults'
    BY <1>0, <1>1, <2>1, <2>3, <2>5, <2>6 DEF FailsBounded, Entry
  <2> QED BY <1>0, <1>1, <2>1, <2>7, <2>8 DEF FailsBounded
<1>8. ASSUME NEW c \in Conns, DialSucceeds(c)
      PROVE  known' \in [Hosts -> Entry] /\ FailsBounded' /\ node' \in {"up", "closing", "down", "panic"}
             /\ faults' \in 0..MaxFaults
  <2> DEFINE h == conn[c].host
             e == [known[h] EXCEPT !.fails = 0]
  <2>1. h \in Hosts /\ UNCHANGED <<node, faults>>
    BY <1>8 DEF DialSucceeds, HostsKnown
  <2>2. e \in Entry /\ e.fails = 0
    BY <1>0, <1>1, <2>1 DEF Entry
  <2>3. known' = [known EXCEPT ![h] = e]
    BY <1>0, <1>8, <2>1 DEF DialSucceeds, Entry
  <2> HIDE DEF h, e
  <2> QED BY <1>4, <2>1, <2>2, <2>3
<1>9. ASSUME NEW h \in Hosts, BlackDurationOver(h)
      PROVE  known' \in [Hosts -> Entry] /\ FailsBounded' /\ node' \in {"up", "closing", "down", "panic"}
             /\ faults' \in 0..MaxFaults
  <2> DEFINE e == [known[h] EXCEPT !.recent = FALSE]
  <2>1. e \in Entry /\ e.fails = known[h].fails
    BY <1>0 DEF Entry
  <2>2. known' = [known EXCEPT ![h] = e] /\ UNCHANGED <<node, faults>>
    BY <1>0, <1>9 DEF BlackDurationOver, Entry
  <2> HIDE DEF e
  <2> QED BY <1>4, <2>1, <2>2
<1>10. ASSUME NEW c \in Conns, NEW h \in Hosts, Dial(c, h) \/ Accept(c, h) \/ ReadAddPeer(c, h)
       PROVE  known' \in [Hosts -> Entry] /\ FailsBounded' /\ node' \in {"up", "closing", "down", "panic"}
              /\ faults' \in 0..MaxFaults
  BY <1>2, <1>5, <1>10 DEF Dial, Accept, ReadAddPeer
<1>11. ASSUME NEW c \in Conns, WriteUnencrypted(c) \/ SocketFails(c)
       PROVE  known' \in [Hosts -> Entry] /\ FailsBounded' /\ node' \in {"up", "closing", "down", "panic"}
              /\ faults' \in 0..MaxFaults
  BY <1>3, <1>11 DEF WriteUnencrypted, SocketFails
<1>12. CASE Close \/ Exit \/ BroadcastTx \/ \E c \in Conns : SendOnClosed(c)
  BY <1>0, <1>12 DEF Close, Exit, BroadcastTx, SendOnClosed, ProcessEnds, FailsBounded
<1> QED BY <1>6, <1>7, <1>8, <1>9, <1>10, <1>11, <1>12 DEF Next

-----------------------------------------------------------------------------
(* At most two connections to a peer.                                      *)

\* No connection becomes established, and none of those that stay changes.
NoneAdmitted ==
  \A d \in Conns : conn'[d].at \in {"read", "deliver"} =>
    conn[d].at \in {"read", "deliver"} /\ conn'[d].id = conn[d].id

\* Connection c passes the second look.
Admitted(c) ==
  /\ conn[c].at = "again"
  /\ conn' = [conn EXCEPT ![c].at = "read"]
  /\ ~(Cardinality(Others(c)) >= 2)

\* A peer id is set by its handshake alone, so one connection at most is admitted by a step.
LEMMA IdStep ==
  ASSUME TypeOK, HostsKnown, TableOwned, IdShown, Next
  PROVE  IdShown' /\ (NoneAdmitted \/ \E c \in Conns : Admitted(c))
<1>0. conn \in [Conns -> Connection]
  BY DEF TypeOK, Connection, Places
<1>1. ASSUME NEW c \in Conns, NEW r, conn' = [conn EXCEPT ![c] = r],
             r.at \notin {"offer", "again", "read", "deliver"}
      PROVE  IdShown' /\ NoneAdmitted
  BY <1>0, <1>1 DEF IdShown, NoneAdmitted
<1>2. ASSUME NEW c \in Conns, NEW id, Kick(c, id)
      PROVE  IdShown' /\ NoneAdmitted
  <2> DEFINE r == [conn[c] EXCEPT !.at = "delete", !.hnds = None, !.id = id,
                                  !.alive = FALSE, !.sock = "closed"]
  <2>1. conn' = [conn EXCEPT ![c] = r]
    BY <1>2 DEF Kick
  <2>2. r.at = "delete"
    BY <1>0 DEF Connection
  <2> HIDE DEF r
  <2> QED BY <1>1, <2>1, <2>2
<1>3. ASSUME NEW c \in Conns, NEW at, Go(c, at),
             \/ at \notin {"offer", "again", "read", "deliver"}
             \/ /\ conn[c].at \in {"offer", "again", "read", "deliver"}
                /\ at = "again" \/ conn[c].at \in {"read", "deliver"}
      PROVE  IdShown' /\ NoneAdmitted
  <2>1. /\ conn'[c].at = at /\ conn'[c].id = conn[c].id /\ conn'[c].hnds = conn[c].hnds
        /\ \A d \in Conns \ {c} : conn'[d] = conn[d]
    BY <1>0, <1>3 DEF Go, Connection
  <2> QED BY <1>3, <2>1 DEF IdShown, NoneAdmitted
<1>4. CASE \E c \in Conns : InPlace(c)
  <2>1. PICK c \in Conns : InPlace(c)
    BY <1>4
  <2>2. CASE ReadHandshake(c)
    <3>1. PICK id \in PeerIds : conn' = [conn EXCEPT ![c].hnds = id, ![c].at = "duplicate"]
      BY <2>2 DEF ReadHandshake
    <3> DEFINE r == [conn[c] EXCEPT !.hnds = id, !.at = "duplicate"]
    <3>2. conn' = [conn EXCEPT ![c] = r] /\ r.at = "duplicate"
      BY <1>0, <3>1 DEF Connection
    <3> HIDE DEF r
    <3> QED BY <1>1, <3>2
  <2>3. CASE HandshakeFails(c) \/ ReadFails(c)
    BY <1>2, <2>3 DEF HandshakeFails, ReadFails
  <2>4. CASE CheckDuplicate(c)
    BY <1>2, <1>3, <2>4 DEF CheckDuplicate
  <2>5. CASE Identify(c)
    <3>1. CASE Kick(c, conn[c].hnds)
      BY <1>2, <3>1
    <3>2. CASE conn[c].hnds # Self
               /\ conn' = [conn EXCEPT ![c].id = conn[c].hnds, ![c].at = "offer"]
      <4>1. /\ conn'[c].at = "offer" /\ conn'[c].id = conn[c].hnds /\ conn'[c].hnds = conn[c].hnds
            /\ \A d \in Conns \ {c} : conn'[d] = conn[d]
        BY <1>0, <3>2 DEF Connection
      <4> QED BY <3>2, <4>1 DEF IdShown, NoneAdmitted
    <3> QED BY <2>5, <3>1, <3>2 DEF Identify
  <2>6. CASE CheckAgain(c)
    <3>1. CASE Kick(c, conn[c].id)
      BY <1>2, <3>1
    <3>2. CASE ~(Cardinality(Others(c)) >= 2) /\ Go(c, "read")
      <4>1. Admitted(c)
        BY <2>6, <3>2 DEF CheckAgain, Go, Admitted
      <4>2. /\ conn'[c].id = conn[c].id /\ conn'[c].hnds = conn[c].hnds
            /\ \A d \in Conns \ {c} : conn'[d] = conn[d]
        BY <1>0, <3>2 DEF Go, Connection
      <4>3. IdShown'
        BY <2>6, <4>2 DEF IdShown, CheckAgain
      <4> QED BY <4>1, <4>3
    <3> QED BY <2>6, <3>1, <3>2 DEF CheckAgain
  <2>7. CASE ReadPacket(c) \/ Client(c)
    BY <1>3, <2>7 DEF ReadPacket, Client, NewConnection, Deliver
  <2>8. CASE WriteUnencrypted(c) \/ SocketFails(c)
    <3>1. PICK s \in {"silent", "closed"} : conn' = [conn EXCEPT ![c].sock = s]
      BY <2>8 DEF WriteUnencrypted, SocketFails
    <3>2. \A d \in Conns : /\ conn'[d].at = conn[d].at
                           /\ conn'[d].id = conn[d].id /\ conn'[d].hnds = conn[d].hnds
      BY <1>0, <3>1 DEF Connection
    <3> QED BY <3>2 DEF IdShown, NoneAdmitted
  <2> QED BY <2>1, <2>2, <2>3, <2>4, <2>5, <2>6, <2>7, <2>8 DEF InPlace
<1>5. CASE \E c \in Conns : KickDelete(c)
  BY <1>1, <1>5 DEF KickDelete, Unused
<1>6. CASE \E c \in Conns, h \in Hosts :
             /\ Dial(c, h) \/ DialFails(c)
             /\ UNCHANGED table
             /\ \E r \in {Fresh(h, TRUE, "dial"), Unused} : conn' = [conn EXCEPT ![c] = r]
  <2>1. \A h \in Hosts : Fresh(h, TRUE, "dial").at = "dial" /\ Unused.at = "gone"
    BY DEF Fresh, Unused
  <2> QED BY <1>1, <1>6, <2>1
<1>7. CASE \E c \in Conns, r \in Connection :
             /\ ~Handled(c) /\ r.at = "hello" /\ r.host \in Hosts /\ HandleConnection(c, r)
  <2>1. Unused.at = "gone"
    BY DEF Unused
  <2> QED BY <1>1, <1>7, <2>1 DEF HandleConnection
<1>8. CASE ProcessEnds("down") \/ ProcessEnds("panic")
  <2>1. \A c \in Conns : conn'[c].at = "gone"
    BY <1>8, ProcessEndsOwned
  <2> QED BY <2>1 DEF IdShown, NoneAdmitted
<1>9. CASE UNCHANGED <<conn, table>>
  BY <1>9 DEF IdShown, NoneAdmitted
<1>10. CASE SocketsClosed
  BY <1>10 DEF SocketsClosed, IdShown, NoneAdmitted
<1> QED BY <1>4, <1>5, <1>6, <1>7, <1>8, <1>9, <1>10, StepKinds

\* The last of three connections to pass the second look would have found the
\* two others in the table.
LEMMA TwoPerPeerStep ==
  ASSUME TypeOK, HostsKnown, TableOwned, IdShown, TwoPerPeer, Next
  PROVE  TwoPerPeer'
<1>0. conn \in [Conns -> Connection] /\ table \in [Addresses -> Conns \cup {None}]
  BY DEF TypeOK, Connection, Places
<1>1. CASE NoneAdmitted
  BY <1>1 DEF NoneAdmitted, TwoPerPeer, Established
<1>2. CASE \E c \in Conns : Admitted(c)
  <2>1. PICK c \in Conns : Admitted(c)
    BY <1>2
  <2>2. /\ conn'[c].at = "read" /\ conn'[c].id = conn[c].id
        /\ \A d \in Conns \ {c} : conn'[d] = conn[d]
    BY <1>0, <2>1 DEF Admitted, Connection
  <2>3. conn[c].id = conn[c].hnds /\ conn[c].id # Self
    BY <2>1 DEF Admitted, IdShown
  <2>4. \A d \in Conns : Established(d) => d \in InTable
    <3>1. \A d \in Conns : Established(d) => AddressOf(d) \in Addresses /\ table[AddressOf(d)] = d
      BY <1>0 DEF Established, TableOwned, HostsKnown, Handled, AddressOf, Address, Addresses
    <3> QED BY <3>1, ConnsAreNumbers DEF InTable
  <2>5. ASSUME NEW d \in Conns \ {c}, NEW e \in Conns \ {c}, d # e, Established(d), Established(e),
               conn[d].id = conn[c].id, conn[e].id = conn[c].id
        PROVE  FALSE
    <3>1. {d, e} \subseteq Others(c)
      BY <2>3, <2>4, <2>5 DEF Others
    <3>2. Others(c) \subseteq Conns
      BY <1>0 DEF Others, InTable
    <3>3. IsFiniteSet(Others(c))
      BY <3>2, ConnsAreNumbers, FS_Subset
    <3>4. Cardinality({d}) = 1 /\ IsFiniteSet({d})
      BY FS_Singleton
    <3>5. Cardinality({d} \cup {e}) = IF e \in {d} THEN 1 ELSE 2
      BY <3>4, FS_AddElement
    <3>6. Cardinality({d, e}) = 2
      <4>1. {d} \cup {e} = {d, e} /\ e \notin {d}
        BY <2>5
      <4> QED BY <3>5, <4>1
    <3>7. Cardinality({d, e}) <= Cardinality(Others(c))
      BY <3>1, <3>3, FS_Subset
    <3>8. Cardinality(Others(c)) \in Nat
      BY <3>3, FS_CardinalityType
    <3> QED BY <2>1, <3>6, <3>7, <3>8 DEF Admitted
  <2>6. \A x, y : Cardinality({x, y}) <= 2
    <3> TAKE x, y
    <3>1. Cardinality({x}) = 1 /\ IsFiniteSet({x})
      BY FS_Singleton
    <3>2. Cardinality({x} \cup {y}) = IF y \in {x} THEN 1 ELSE 2
      BY <3>1, FS_AddElement
    <3>3. {x} \cup {y} = {x, y}
      OBVIOUS
    <3> QED BY <3>2, <3>3
  <2>7. SUFFICES ASSUME NEW x \in Conns, NEW y \in Conns, NEW z \in Conns,
                        conn'[x].at \in {"read", "deliver"}, conn'[y].at \in {"read", "deliver"},
                        conn'[z].at \in {"read", "deliver"},
                        conn'[x].id = conn'[y].id, conn'[y].id = conn'[z].id
                 PROVE  Cardinality({x, y, z}) <= 2 /\ conn'[x].id # Self
    BY DEF TwoPerPeer, Established
  <2>8. conn'[x].id # Self
    BY <2>2, <2>3, <2>7 DEF IdShown
  <2>9. CASE x = y \/ y = z \/ x = z
    <3>1. {x, y, z} = {x, y} \/ {x, y, z} = {x, z}
      BY <2>9
    <3> QED BY <2>6, <2>8, <3>1
  <2>10. CASE x # y /\ y # z /\ x # z
    <3>1. \A d \in Conns \ {c} : conn'[d].at \in {"read", "deliver"} =>
            Established(d) /\ conn'[d].id = conn[d].id
      BY <2>2 DEF Established
    <3>2. CASE c \in {x, y, z}
      BY <2>2, <2>5, <2>7, <2>10, <3>1, <3>2
    <3>3. CASE c \notin {x, y, z}
      <4>1. /\ Established(x) /\ Established(y) /\ Established(z)
            /\ conn[x].id = conn[y].id /\ conn[y].id = conn[z].id
        BY <2>7, <3>1, <3>3
      <4> QED BY <2>8, <4>1 DEF TwoPerPeer
    <3> QED BY <3>2, <3>3
  <2> QED BY <2>9, <2>10
<1> QED BY <1>1, <1>2, IdStep

-----------------------------------------------------------------------------
(* The theorems.                                                           *)

\* A node that starts satisfies the invariant.
LEMMA InvInit == Init => Inv
<1> SUFFICES ASSUME Init PROVE Inv
  OBVIOUS
<1>1. \A c \in Conns : conn[c].at = "gone"
  BY DEF Init, Unused
<1>2. \A a \in Addresses : table[a] = None
  BY DEF Init
<1>3. TableOwned /\ IdShown /\ TwoPerPeer
  BY <1>1, <1>2 DEF TableOwned, Handled, IdShown, TwoPerPeer, Established
<1> QED BY <1>3, TypeInit DEF Inv

\* Every step keeps the invariant.
LEMMA InvStep == Inv /\ [Next]_vars => Inv'
<1> SUFFICES ASSUME Inv, [Next]_vars PROVE Inv'
  OBVIOUS
<1> USE DEF Inv
<1>1. CASE Next
  <2>1. TypeOK'
    BY <1>1, TableStep, KnownStep DEF TypeOK, Connection, Places, Entry
  <2> QED BY <1>1, <2>1, TableStep, KnownStep, IdStep, TwoPerPeerStep
<1>2. CASE UNCHANGED vars
  BY <1>2 DEF vars, TypeOK, HostsKnown, FailsBounded, IdShown, TableOwned, TwoPerPeer,
              Handled, Established, AddressOf
<1> QED BY <1>1, <1>2

\* The inductive invariant holds in every state: the table belongs to live
\* connections, and no peer is admitted beyond its two.
THEOREM Invariance == Spec => []Inv
BY InvInit, InvStep, PTL DEF Spec

\* Every variable keeps its type; in particular no peer is charged with more
\* failures than there were faults.
THEOREM TypeCorrect == Spec => []TypeOK
<1>1. Inv => TypeOK
  BY DEF Inv
<1> QED BY <1>1, Invariance, PTL

\* A connection whose handler runs is the one in Connections under its remote
\* address, and every entry has a handler: handleConnection refuses an address
\* in use, and Kick deletes nobody else's entry.
THEOREM ConnectionsOwned == Spec => []TableOwned
<1>1. Inv => TableOwned
  BY DEF Inv
<1> QED BY <1>1, Invariance, PTL

\* However many handshakes with one peer run at once, the two looks for its ID
\* in connectionMainHandling leave at most two connections, and none to the
\* node itself.
THEOREM AtMostTwo == Spec => []TwoPerPeer
<1>1. Inv => TwoPerPeer
  BY DEF Inv
<1> QED BY <1>1, Invariance, PTL
=============================================================================
