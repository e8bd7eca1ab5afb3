----------------------------- MODULE TftpProofs -----------------------------
(***************************************************************************)
(* Proofs about Tftp, for files of any size, any number of block numbers   *)
(* and of server processes, and whatever the network loses, duplicates and *)
(* reorders: a transfer implements Transfer, and a sender that ends knows  *)
(* what its receiver has.                                                  *)
(*                                                                         *)
(* The argument is the one for a stop-and-wait protocol.  Every packet on  *)
(* the network was sent by the other side at its present or an earlier     *)
(* block (ReadPacket and so on), and neither side is more than one block   *)
(* ahead.  So the block that is awaited can only be the next one, also in  *)
(* 16 bits: no number comes around twice, since an automaton of scapy that *)
(* needs one too large stops with an exception or waits for ever.          *)
(***************************************************************************)
EXTENDS Tftp, TLAPS

-----------------------------------------------------------------------------
(* The invariant, one part for each of the four automata. *)

PeerStates == {"idle", "asking", "sending", "receiving", "done", "failed"}
Pieces == [src : Peers \cup {Scapy}, piece : Nat]
Peer == [st : PeerStates, blk : Nat, got : Seq(Pieces), optioned : BOOLEAN]

SetupOK ==
    /\ role \in Roles /\ flags \in SUBSET Flags[role]
    /\ size \in Nat \ {0}

\* What a receiver has is the start of one source's file.
StartOf(g, src) ==
    /\ g \in Seq(Pieces)
    /\ Len(g) <= size /\ Len(g) <= MaxBlock
    /\ \A i \in 1..Len(g) : g[i] = Data(src, i)

IsIdle(p) == peer[p].st = "idle" /\ peer[p].got = <<>>

\* A peer that sends is at most one block ahead of what scapy has of it.
SendsAhead(p, n) ==
    /\ peer[p].st \in {"sending", "done"} =>
         /\ peer[p].blk \in 1..size /\ peer[p].blk <= n + 1
    /\ peer[p].st = "done" => n = size

\* TFTP_read

ReadPacket(m) ==
    \/ m = Out(AnyPort, "RRQ", 0)
    \/ \E p \in Servers : m = In(p, "ERROR", 0)
    \/ \E p \in Servers, i \in 1..size :
         /\ m = PieceFrom(p, i)
         /\ peer[p].st \in {"sending", "done"} /\ i <= peer[p].blk
    \/ tid \in Servers /\ \E b \in 1..Len(res) : m = Out(tid, "ACK", b)

ReadInv ==
    /\ peer \in [Peers -> Peer]
    /\ st \in {"WAITING", "END", "ERROR"}
    /\ StartOf(res, tid) /\ blk = Len(res) + 1
    /\ tid \in Servers \cup {AnyPort}
    /\ tid = AnyPort => res = <<>>
    /\ st = "END" <=> Len(res) = size
    /\ IsIdle(Client)
    /\ \A p \in Servers :
         /\ peer[p].st \in {"idle", "sending", "done"} /\ peer[p].got = <<>>
         /\ SendsAhead(p, IF p = tid THEN Len(res) ELSE 0)
    /\ \A m \in net \cup {last} : ReadPacket(m)

\* TFTP_write

WritePacket(m) ==
    \/ m = Out(AnyPort, "WRQ", 0)
    \/ \E p \in Servers : m = In(p, "ERROR", 0)
    \/ \E p \in Servers, b \in 0..MaxBlock :
         m = In(p, "ACK", b) /\ b <= Len(peer[p].got)
    \/ tid \in Servers /\ \E b \in 1..size :
         /\ b <= MaxBlock /\ b <= Len(peer[tid].got) + 1
         /\ m = Packet(tid, Scapy, "DATA", b, Data(Scapy, b))

WriteInv ==
    /\ peer \in [Peers -> Peer]
    /\ st \in {"WAITING_ACK", "END", "ERROR", "EXCEPTION"}
    /\ blk \in Nat /\ (st = "WAITING_ACK" => blk < size)
    /\ IF tid = AnyPort THEN blk = 0 ELSE blk <= Len(peer[tid].got) + 1
    /\ tid \in Servers \cup {AnyPort} /\ res = <<>>
    /\ IsIdle(Client)
    /\ \A p \in Servers :
         /\ peer[p].st \in {"idle", "receiving", "done"}
         /\ StartOf(peer[p].got, Scapy)
         /\ p # tid \/ peer[p].st = "idle" => peer[p].got = <<>>
         /\ peer[p].st = "done" <=> Len(peer[p].got) = size
    /\ \A m \in net \cup {last} : WritePacket(m)

\* TFTP_WRQ_server, but for a file it spoils

TakePacket(m) ==
    \/ m = In(Client, "WRQ", 0)
    \/ m = Out(Client, "OACK", 0)
    \/ \E i \in 1..size :
         /\ m = PieceFrom(Client, i)
         /\ peer[Client].st \in {"sending", "done"} /\ i <= peer[Client].blk
    \/ \E b \in 1..Len(res) : m = Out(Client, "ACK", b)

TakeInv ==
    /\ peer \in [Peers -> Peer]
    /\ st \in {"BEGIN", "WAIT_DATA", "END", "EXCEPTION"}
    /\ StartOf(res, Client)
    /\ blk = IF st = "END" THEN Len(res) ELSE Len(res) + 1
    /\ st \in {"BEGIN", "EXCEPTION"} => res = <<>>
    /\ st \in {"WAIT_DATA", "END"} => tid = Client
    /\ st = "END" <=> Len(res) = size
    /\ \A p \in Servers : IsIdle(p)
    /\ peer[Client].st \in {"asking", "sending", "done"}
    /\ peer[Client].got = <<>> /\ SendsAhead(Client, Len(res))
    /\ \A m \in net \cup {last} : TakePacket(m)

\* TFTP_RRQ_server

ServePacket(m) ==
    \/ m = In(Client, "RRQ", 0)
    \/ m = Out(Client, "OACK", 0)
    \/ m = Out(Client, "ERROR", 0)
    \/ \E b \in 0..Len(peer[Client].got) : m = In(Client, "ACK", b)
    \/ \E b \in 1..size :
         /\ b <= MaxBlock /\ b <= Len(peer[Client].got) + 1
         /\ m = Packet(Client, Scapy, "DATA", b, Data(Scapy, b))

ServeInv ==
    /\ peer \in [Peers -> Peer]
    /\ st \in {"WAIT_RRQ", "SEND_FILE", "END", "EXCEPTION"}
    /\ st = "SEND_FILE" => /\ tid = Client
                           /\ blk \in 1..size /\ blk <= MaxBlock
    /\ blk \in 0..Len(peer[Client].got) + 1
    /\ \A p \in Servers : IsIdle(p)
    /\ peer[Client].st \in {"asking", "receiving", "done", "failed"}
    /\ peer[Client].st = "asking" => peer[Client].got = <<>>
    /\ StartOf(peer[Client].got, Scapy)
    /\ Len(peer[Client].got) = size => peer[Client].st = "done"
    /\ peer[Client].st = "done" => Lost \/ Len(peer[Client].got) = size
    /\ \A m \in net \cup {last} : ServePacket(m)

TakeStates == {"BEGIN", "WAIT_DATA", "END", "EXCEPTION"}

FInv ==
    /\ SetupOK
    /\ role = "read" => ReadInv
    /\ role = "write" => WriteInv
    /\ role = "take" => st \in TakeStates /\ (~Spoilt => TakeInv)
    /\ role = "serve" => ServeInv

-----------------------------------------------------------------------------
(* Lemmas. *)

\* The block numbers that fit are themselves in a packet, and the next is 0.
LEMMA WireFits == \A b \in 0..MaxBlock : Wire(b) = b
BY TftpAssumption DEF Wire

LEMMA WireWraps == Wire(MaxBlock + 1) = 0
BY TftpAssumption DEF Wire

\* A peer that is at most one block ahead sends no number twice.
LEMMA WireNext ==
    ASSUME NEW n \in Nat, n <= MaxBlock, NEW i \in 1..n + 1,
           Wire(i) = n + 1
    PROVE  i = n + 1 /\ n + 1 <= MaxBlock
<1> USE TftpAssumption
<1>1. CASE i <= MaxBlock
  BY <1>1, WireFits
<1>2. CASE i = MaxBlock + 1
  BY <1>2, WireWraps
<1> QED BY <1>1, <1>2

LEMMA RoleNames == Roles = {"read", "write", "take", "serve"}
BY DEF Roles, Flags

LEMMA Ports ==
    /\ Client \notin Servers /\ Scapy \notin Servers /\ Scapy # Client
    /\ AnyPort \notin Servers /\ AnyPort # Client /\ AnyPort # Scapy
    /\ \A p \in Servers : p \in Peers
    /\ Client \in Peers
BY TftpAssumption DEF Peers

LEMMA PeerUpdated ==
    ASSUME peer \in [Peers -> Peer], NEW p \in Peers, NEW q \in Peer,
           PeerIs(p, q)
    PROVE  /\ peer' \in [Peers -> Peer] /\ peer'[p] = q
           /\ \A r \in Peers : r # p => peer'[r] = peer[r]
BY DEF PeerIs

LEMMA ArrivesAdds ==
    ASSUME NEW m \in net, NEW out, Arrives(m, out) PROVE net' \subseteq net \cup out
BY DEF Arrives

\* The next piece makes the start of a file one piece longer.
LEMMA StartGrows ==
    ASSUME size \in Nat, NEW src \in Peers \cup {Scapy}, NEW g,
           StartOf(g, src), Len(g) + 1 <= size, Len(g) + 1 <= MaxBlock,
           size' = size
    PROVE  /\ StartOf(Append(g, Data(src, Len(g) + 1)), src)
           /\ Len(Append(g, Data(src, Len(g) + 1))) = Len(g) + 1
<1> DEFINE d == Data(src, Len(g) + 1)
<1>1. d \in Pieces /\ g \in Seq(Pieces)
  BY DEF Data, Pieces, StartOf
<1> HIDE DEF d
<1>2. /\ Append(g, d) \in Seq(Pieces) /\ Len(Append(g, d)) = Len(g) + 1
      /\ \A i \in 1..Len(g) : Append(g, d)[i] = g[i]
      /\ Append(g, d)[Len(g) + 1] = d
  BY <1>1
<1> QED BY <1>1, <1>2 DEF StartOf, d

-----------------------------------------------------------------------------
(* TFTP_read *)

LEMMA ReadDataInv ==
    ASSUME SetupOK, ReadInv, ReadData, role = "read"
    PROVE  ReadInv'
<1> USE TftpAssumption, Ports
<1>1. UNCHANGED <<setup, peer>> /\ st = "WAITING" /\ blk' = blk + 1
  BY DEF ReadData
<1>2. PICK m \in net :
        /\ m.op = "DATA" /\ Mine(m) /\ Awaited(m)
        /\ tid' = m.from
        /\ last' = Out(tid', "ACK", blk)
        /\ Arrives(m, {last'})
        /\ res' = Append(res, m.data)
        /\ st' = IF m.data.piece = size THEN "END" ELSE "WAITING"
  BY DEF ReadData
<1>3. PICK p \in Servers, i \in 1..size :
        /\ m = PieceFrom(p, i)
        /\ peer[p].st \in {"sending", "done"} /\ i <= peer[p].blk
  BY <1>2 DEF ReadInv, ReadPacket, Out, In, Packet
<1>4. m.from = p /\ m.block = Wire(i) /\ m.data = Data(p, i)
  BY <1>3 DEF PieceFrom, Packet
<1>5. p = tid \/ (tid = AnyPort /\ res = <<>>)
  BY <1>2, <1>4 DEF Mine, ReadInv
<1>6. StartOf(res, p) /\ Len(res) \in Nat /\ blk = Len(res) + 1
  BY <1>5 DEF ReadInv, StartOf
<1>7. i <= Len(res) + 1
  BY <1>3, <1>5, <1>6 DEF ReadInv, SendsAhead, SetupOK
<1>8. i = Len(res) + 1 /\ Len(res) + 1 <= MaxBlock
  <2>1. Len(res) \in Nat /\ Len(res) <= MaxBlock /\ i \in 1..Len(res) + 1
    BY <1>6, <1>7 DEF StartOf, SetupOK
  <2>2. Wire(i) = Len(res) + 1
    BY <1>2, <1>4, <1>6 DEF Awaited
  <2> QED BY <2>1, <2>2, WireNext
<1>9. StartOf(res, p)' /\ Len(res') = Len(res) + 1 /\ res' # <<>>
  <2>1. res' = Append(res, Data(p, Len(res) + 1))
    BY <1>2, <1>4, <1>8
  <2>2. size \in Nat /\ size' = size
    BY <1>1 DEF SetupOK, setup
  <2>3. /\ StartOf(res', p) /\ Len(res') = Len(res) + 1
    BY <1>6, <1>8, <2>1, <2>2, StartGrows
  <2> QED BY <1>6, <2>2, <2>3 DEF StartOf
<1>10. (st' = "END" <=> Len(res') = size) /\ st' \in {"WAITING", "END"}
  BY <1>2, <1>4, <1>8, <1>9 DEF Data
<1>11. \A q \in Servers :
         /\ peer'[q].st \in {"idle", "sending", "done"} /\ peer'[q].got = <<>>
         /\ SendsAhead(q, IF q = tid THEN Len(res) ELSE 0)'
  <2> SUFFICES ASSUME NEW q \in Servers
               PROVE  /\ peer'[q].st \in {"idle", "sending", "done"}
                      /\ peer'[q].got = <<>>
                      /\ SendsAhead(q, IF q = tid THEN Len(res) ELSE 0)'
    OBVIOUS
  <2>1. /\ peer[q].st \in {"idle", "sending", "done"} /\ peer[q].got = <<>>
        /\ SendsAhead(q, IF q = tid THEN Len(res) ELSE 0)
    BY DEF ReadInv
  <2>2. Len(res) < size
    BY <1>6, <1>8 DEF SetupOK
  <2>3. peer[q].st = "done" => FALSE
    BY <1>6, <2>1, <2>2 DEF SendsAhead, SetupOK
  <2>4. peer[q].st = "sending" =>
          peer[q].blk \in 1..size
          /\ peer[q].blk <= (IF q = p THEN Len(res) ELSE 0) + 1
    BY <1>5, <2>1 DEF SendsAhead
  <2> QED BY <1>1, <1>2, <1>4, <1>6, <1>9, <2>1, <2>3, <2>4
          DEF SendsAhead, SetupOK, setup
<1>12. \A x \in net' \cup {last'} : ReadPacket(x)'
  <2>1. ASSUME NEW x, ReadPacket(x) PROVE ReadPacket(x)'
    <3>1. CASE tid \in Servers /\ \E b \in 1..Len(res) : x = Out(tid, "ACK", b)
      BY <1>2, <1>4, <1>5, <1>6, <1>9, <3>1 DEF ReadPacket
    <3>2. CASE ~ (tid \in Servers /\ \E b \in 1..Len(res) : x = Out(tid, "ACK", b))
      BY <1>1, <2>1, <3>2 DEF ReadPacket, setup
    <3> QED BY <3>1, <3>2
  <2>2. ASSUME NEW x, x = last' PROVE ReadPacket(x)'
    BY <1>2, <1>4, <1>6, <1>9, <2>2 DEF ReadPacket
  <2>3. net' \subseteq net \cup {last'}
    BY <1>2, ArrivesAdds
  <2> QED BY <2>1, <2>2, <2>3 DEF ReadInv
<1>13. StartOf(res, tid)' /\ tid' \in Servers /\ blk' = Len(res') + 1
  BY <1>1, <1>2, <1>4, <1>6, <1>9 DEF StartOf
<1>14. \A q \in Servers : SendsAhead(q, IF q = tid THEN Len(res) ELSE 0)'
  BY <1>11
<1>15. IsIdle(Client)' /\ peer' \in [Peers -> Peer]
  BY <1>1 DEF ReadInv, IsIdle
<1> QED BY <1>1, <1>10, <1>11, <1>12, <1>13, <1>14, <1>15 DEF ReadInv, setup

\* What keeps the automaton and the peers as they are.
LEMMA ReadNetInv ==
    ASSUME SetupOK, ReadInv, UNCHANGED <<setup, blk, tid, last, res, peer>>,
           st' = st \/ (st = "WAITING" /\ st' = "ERROR"),
           \A m \in net' : m \in net \/ ReadPacket(m)
    PROVE  ReadInv'
<1>1. \A x : ReadPacket(x) => ReadPacket(x)'
  BY DEF ReadPacket, setup
<1>2. \A p \in Servers : SendsAhead(p, IF p = tid THEN Len(res) ELSE 0)'
  BY DEF ReadInv, SendsAhead, setup
<1>3. StartOf(res, tid)'
  BY DEF ReadInv, StartOf, setup
<1> QED BY <1>1, <1>2, <1>3 DEF ReadInv, IsIdle, setup

LEMMA ReadOthersInv ==
    ASSUME SetupOK, ReadInv, role = "read",
           \/ ClientError \/ Timeout \/ Lose
           \/ \E p \in Peers : PeerTimeout(p)
    PROVE  ReadInv'
<1> USE Ports
<1>1. CASE ClientError
  <2>1. \E m \in net : Arrives(m, {})
    BY <1>1 DEF ClientError
  <2>2. net' \subseteq net
    BY <2>1 DEF Arrives
  <2> QED BY <1>1, <2>2, ReadNetInv DEF ClientError, ReadInv
<1>2. CASE Timeout
  <2>1. net' = net \cup {last}
    BY <1>2 DEF Timeout, Again, ReadInv
  <2>2. ReadPacket(last)
    BY DEF ReadInv
  <2> QED BY <1>2, <2>1, <2>2, ReadNetInv DEF Timeout, automaton
<1>3. CASE Lose
  BY <1>3, ReadNetInv DEF Lose, automaton
<1>4. ASSUME NEW p \in Peers, PeerTimeout(p) PROVE ReadInv'
  <2>1. p \in Servers /\ peer[p].st = "sending"
    BY <1>4 DEF PeerTimeout, ReadInv, IsIdle, Peers
  <2>2. peer[p].blk \in 1..size /\ PeerAgain(p) = PieceFrom(p, peer[p].blk)
    BY <2>1 DEF ReadInv, SendsAhead, PeerAgain
  <2>3. ReadPacket(PeerAgain(p))
    BY <2>1, <2>2 DEF ReadPacket, SetupOK
  <2> QED BY <1>4, <2>3, ReadNetInv DEF PeerTimeout, automaton
<1> QED BY <1>1, <1>2, <1>3, <1>4

LEMMA NewPeer ==
    ASSUME NEW s \in PeerStates, NEW b \in Nat, NEW q,
           q = [st |-> s, blk |-> b, got |-> <<>>, optioned |-> FALSE]
    PROVE  q \in Peer /\ q.st = s /\ q.blk = b /\ q.got = <<>>
<1>1. <<>> \in Seq(Pieces)
  OBVIOUS
<1>2. q \in Peer
  BY <1>1 DEF Peer
<1> QED BY <1>2

LEMMA StartedSending ==
    ASSUME NEW q, q = [Idle EXCEPT !.st = "sending", !.blk = 1]
    PROVE  q \in Peer /\ q.st = "sending" /\ q.blk = 1 /\ q.got = <<>>
<1>1. q = [st |-> "sending", blk |-> 1, got |-> <<>>, optioned |-> FALSE]
  BY DEF Idle
<1>2. q \in Peer
  BY <1>1, NewPeer DEF PeerStates
<1>3. q.st = "sending" /\ q.blk = 1 /\ q.got = <<>>
  BY DEF Idle
<1> QED BY <1>2, <1>3

LEMMA StartedReceiving ==
    ASSUME NEW q, q = [Idle EXCEPT !.st = "receiving"]
    PROVE  q \in Peer /\ q.st = "receiving" /\ q.got = <<>>
<1>1. q = [st |-> "receiving", blk |-> 0, got |-> <<>>, optioned |-> FALSE]
  BY DEF Idle
<1>2. q \in Peer
  BY <1>1, NewPeer DEF PeerStates
<1>3. q.st = "receiving" /\ q.got = <<>>
  BY DEF Idle
<1> QED BY <1>2, <1>3

\* A peer that sends goes on to a block that scapy does not have yet, or ends.
LEMMA ReadPeerInv ==
    ASSUME SetupOK, ReadInv, role = "read", NEW p \in Servers, NEW q \in Peer,
           NEW out, PeerIs(p, q), UNCHANGED <<setup, automaton>>,
           q.st \in {"sending", "done"}, q.got = <<>>,
           q.blk \in 1..size, q.blk <= (IF p = tid THEN Len(res) ELSE 0) + 1,
           q.st = "done" => (IF p = tid THEN Len(res) ELSE 0) = size,
           peer[p].st = "idle" \/ peer[p].blk <= q.blk,
           net' \subseteq net \cup out,
           out \subseteq {PieceFrom(p, q.blk)}
    PROVE  ReadInv'
<1> USE Ports DEF setup, automaton
<1>1. /\ peer' \in [Peers -> Peer] /\ peer'[p] = q
      /\ \A r \in Peers : r # p => peer'[r] = peer[r]
  BY PeerUpdated DEF ReadInv
<1>2. \A r \in Servers :
        /\ peer'[r].st \in {"idle", "sending", "done"} /\ peer'[r].got = <<>>
        /\ SendsAhead(r, IF r = tid THEN Len(res) ELSE 0)'
  <2> SUFFICES ASSUME NEW r \in Servers
               PROVE  /\ peer'[r].st \in {"idle", "sending", "done"}
                      /\ peer'[r].got = <<>>
                      /\ SendsAhead(r, IF r = tid THEN Len(res) ELSE 0)'
    OBVIOUS
  <2>1. CASE r = p
    BY <1>1, <2>1 DEF SendsAhead
  <2>2. CASE r # p
    BY <1>1, <2>2 DEF ReadInv, SendsAhead
  <2> QED BY <2>1, <2>2
<1>3. ASSUME NEW x, ReadPacket(x) PROVE ReadPacket(x)'
  <2>1. ASSUME NEW r \in Servers, NEW i \in 1..size, x = PieceFrom(r, i),
               peer[r].st \in {"sending", "done"}, i <= peer[r].blk
        PROVE  peer'[r].st \in {"sending", "done"} /\ i <= peer'[r].blk
    <3>1. CASE r = p
      BY <1>1, <2>1, <3>1 DEF ReadInv, SendsAhead, SetupOK
    <3>2. CASE r # p
      BY <1>1, <2>1, <3>2
    <3> QED BY <3>1, <3>2
  <2> QED BY <1>3, <2>1 DEF ReadPacket
<1>4. ASSUME NEW x, x = PieceFrom(p, q.blk) PROVE ReadPacket(x)'
  BY <1>1, <1>4 DEF ReadPacket, SetupOK
<1>5. \A x \in net' \cup {last'} : ReadPacket(x)'
  BY <1>3, <1>4 DEF ReadInv
<1>6. IsIdle(Client)'
  BY <1>1 DEF ReadInv, IsIdle
<1>7. StartOf(res, tid)'
  BY DEF ReadInv, StartOf
<1> QED BY <1>1, <1>2, <1>5, <1>6, <1>7 DEF ReadInv

LEMMA ReadServerStartsInv ==
    ASSUME SetupOK, ReadInv, role = "read",
           NEW p \in Peers, ServerStarts(p)
    PROVE  ReadInv'
<1> USE Ports
<1>1. PICK m \in net :
        /\ m.to = AnyPort
        /\ \/ /\ m.op = "RRQ" /\ "missing" \in flags
              /\ Arrives(m, {In(p, "ERROR", 0)})
              /\ UNCHANGED peer
           \/ /\ m.op = "RRQ" /\ "missing" \notin flags
              /\ PeerIs(p, [Idle EXCEPT !.st = "sending", !.blk = 1])
              /\ Arrives(m, {PieceFrom(p, 1)})
           \/ /\ m.op = "WRQ"
              /\ PeerIs(p, [Idle EXCEPT !.st = "receiving"])
              /\ Arrives(m, {In(p, "ACK", 0)})
           \/ /\ m.op = "WRQ"
              /\ Arrives(m, {In(p, "ERROR", 0)})
              /\ UNCHANGED peer
  BY DEF ServerStarts
<1>2. p \in Servers /\ peer[p].st = "idle" /\ UNCHANGED <<setup, automaton>>
  BY DEF ServerStarts
<1>3. m.op # "WRQ"
  BY DEF ReadInv, ReadPacket, Out, In, PieceFrom, Packet
<1>4. CASE Arrives(m, {In(p, "ERROR", 0)}) /\ UNCHANGED peer
  <2>1. ReadPacket(In(p, "ERROR", 0))
    BY <1>2 DEF ReadPacket
  <2>2. net' \subseteq net \cup {In(p, "ERROR", 0)}
    BY <1>4, ArrivesAdds
  <2> QED BY <1>2, <1>4, <2>1, <2>2, ReadNetInv DEF automaton
<1>5. CASE /\ PeerIs(p, [Idle EXCEPT !.st = "sending", !.blk = 1])
           /\ Arrives(m, {PieceFrom(p, 1)})
  <2> DEFINE q == [Idle EXCEPT !.st = "sending", !.blk = 1]
  <2>1. q \in Peer /\ q.st = "sending" /\ q.blk = 1 /\ q.got = <<>>
    BY StartedSending
  <2> HIDE DEF q
  <2>2. net' \subseteq net \cup {PieceFrom(p, q.blk)}
    BY <1>5, <2>1, ArrivesAdds
  <2>3. q.blk <= (IF p = tid THEN Len(res) ELSE 0) + 1 /\ q.blk \in 1..size
    BY <2>1 DEF ReadInv, StartOf, SetupOK
  <2>4. PeerIs(p, q)
    BY <1>5 DEF q
  <2> QED BY <1>2, <2>1, <2>2, <2>3, <2>4, ReadPeerInv
<1> QED BY <1>1, <1>3, <1>4, <1>5

LEMMA ReadPeerAckInv ==
    ASSUME SetupOK, ReadInv, role = "read",
           NEW p \in Peers, PeerAck(p)
    PROVE  /\ ReadInv'
           /\ p = tid /\ (peer'[p].st = "done" => Len(res) = size)
<1> USE Ports
<1>1. PICK m \in net :
        /\ m.to = p /\ m.op = "ACK" /\ m.block = Wire(peer[p].blk)
        /\ \/ /\ peer[p].blk = size
              /\ PeerIs(p, [peer[p] EXCEPT !.st = "done"])
              /\ Arrives(m, {})
           \/ /\ peer[p].blk < size
              /\ PeerIs(p, [peer[p] EXCEPT !.blk = @ + 1])
              /\ Arrives(m, {PieceFrom(p, peer[p].blk + 1)})
  BY DEF PeerAck
<1>2. peer[p].st = "sending" /\ UNCHANGED <<setup, automaton>> /\ p \in Servers
  BY DEF PeerAck, ReadInv, IsIdle, Peers
<1>3. PICK b \in 1..Len(res) : m = Out(tid, "ACK", b)
  BY <1>1, <1>2 DEF ReadInv, ReadPacket, Out, In, PieceFrom, Packet
<1>4. p = tid /\ m.block = b
  BY <1>1, <1>3 DEF Out, Packet
<1>5. /\ Len(res) \in Nat /\ Len(res) <= MaxBlock /\ Len(res) <= size
      /\ peer[p].blk \in 1..Len(res) + 1 /\ peer[p].blk \in 1..size
      /\ peer[p] \in Peer /\ peer[p].got = <<>>
  BY <1>2, <1>4 DEF ReadInv, StartOf, SendsAhead, SetupOK
<1>6. peer[p].blk \in 1..Len(res)
  <2>1. CASE peer[p].blk <= Len(res)
    BY <1>5, <2>1
  <2>2. CASE peer[p].blk = Len(res) + 1 /\ Len(res) < MaxBlock
    BY <1>1, <1>3, <1>4, <1>5, <2>2, WireFits, TftpAssumption
  <2>3. CASE peer[p].blk = Len(res) + 1 /\ Len(res) = MaxBlock
    BY <1>1, <1>3, <1>4, <1>5, <2>3, WireWraps, TftpAssumption
  <2> QED BY <1>5, <2>1, <2>2, <2>3, TftpAssumption
<1>7. CASE /\ peer[p].blk = size
           /\ PeerIs(p, [peer[p] EXCEPT !.st = "done"])
           /\ Arrives(m, {})
  <2> DEFINE q == [peer[p] EXCEPT !.st = "done"]
  <2>1. q \in Peer /\ q.st = "done" /\ q.blk = peer[p].blk /\ q.got = <<>>
    BY <1>5 DEF Peer, PeerStates
  <2> HIDE DEF q
  <2>2. net' \subseteq net \cup {}
    BY <1>7, ArrivesAdds
  <2>3. PeerIs(p, q) /\ Len(res) = size
    BY <1>5, <1>6, <1>7 DEF q, SetupOK
  <2>4. /\ q.blk <= (IF p = tid THEN Len(res) ELSE 0) + 1
        /\ peer[p].blk <= q.blk
    BY <1>4, <1>5, <2>1
  <2>5. ReadInv'
    BY <1>2, <1>4, <1>5, <2>1, <2>2, <2>3, <2>4, ReadPeerInv
  <2> QED BY <1>4, <2>3, <2>5
<1>8. CASE /\ peer[p].blk < size
           /\ PeerIs(p, [peer[p] EXCEPT !.blk = @ + 1])
           /\ Arrives(m, {PieceFrom(p, peer[p].blk + 1)})
  <2> DEFINE q == [peer[p] EXCEPT !.blk = @ + 1]
  <2>1. q \in Peer /\ q.st = "sending" /\ q.blk = peer[p].blk + 1 /\ q.got = <<>>
    BY <1>2, <1>5 DEF Peer, PeerStates
  <2> HIDE DEF q
  <2>2. net' \subseteq net \cup {PieceFrom(p, q.blk)}
    BY <1>8, <2>1, ArrivesAdds
  <2>3. PeerIs(p, q)
    BY <1>8 DEF q
  <2>4. /\ q.blk <= (IF p = tid THEN Len(res) ELSE 0) + 1
        /\ peer[p].blk <= q.blk /\ q.blk \in 1..size
    BY <1>4, <1>5, <1>6, <1>8, <2>1 DEF SetupOK
  <2>5. ReadInv'
    BY <1>2, <2>1, <2>2, <2>3, <2>4, ReadPeerInv
  <2>6. peer'[p].st = "sending"
    BY <2>1, <2>3, PeerUpdated DEF ReadInv
  <2> QED BY <1>4, <2>5, <2>6
<1> QED BY <1>1, <1>7, <1>8

\* The other actions are those of other automata.
LEMMA ReadActions ==
    ASSUME SetupOK, ReadInv, role = "read", FNext
    PROVE  \/ ReadData \/ ClientError \/ Timeout \/ Lose
           \/ \E p \in Peers : ServerStarts(p) \/ PeerAck(p) \/ PeerTimeout(p)
<1>1. ~ (WriteData \/ TakeRequest \/ TakeData \/ ServeRequest \/ ServeAck)
  BY DEF ReadInv, WriteData, TakeRequest, TakeData, ServeRequest, ServeAck
<1>2. \A p \in Peers : /\ peer[p].st \in {"idle", "sending", "done"}
                       /\ peer[p].got = <<>>
  BY DEF ReadInv, IsIdle, Peers
<1>3. \A p \in Peers : ~ (PeerOptions(p) \/ PeerData(p) \/ PeerDataAgain(p)
                            \/ PeerError(p))
  BY <1>2 DEF PeerOptions, PeerData, PeerDataAgain, PeerError
<1> QED BY <1>1, <1>3 DEF FNext, Receive, PeerReceive

LEMMA ReadStep ==
    ASSUME SetupOK, ReadInv, role = "read", FNext PROVE ReadInv'
BY ReadActions, ReadDataInv, ReadOthersInv, ReadServerStartsInv, ReadPeerAckInv

-----------------------------------------------------------------------------
(* TFTP_write *)

LEMMA WritePacketKept ==
    ASSUME SetupOK, WriteInv, UNCHANGED setup, tid \in Servers => tid' = tid,
           \A p \in Servers : /\ Len(peer[p].got) \in Nat
                              /\ Len(peer'[p].got) \in Nat
                              /\ Len(peer[p].got) <= Len(peer'[p].got),
           NEW x, WritePacket(x)
    PROVE  WritePacket(x)'
<1>1. ASSUME NEW p \in Servers, NEW b \in 0..MaxBlock,
             x = In(p, "ACK", b) /\ b <= Len(peer[p].got)
      PROVE  WritePacket(x)'
  <2>1. b <= Len(peer'[p].got)
    BY <1>1, TftpAssumption
  <2> QED BY <1>1, <2>1 DEF WritePacket
<1>2. ASSUME tid \in Servers, NEW b \in 1..size, b <= MaxBlock,
             b <= Len(peer[tid].got) + 1,
             x = Packet(tid, Scapy, "DATA", b, Data(Scapy, b))
      PROVE  WritePacket(x)'
  <2>1. b \in 1..size' /\ b <= Len(peer'[tid'].got) + 1 /\ tid' = tid
    BY <1>2 DEF setup, SetupOK
  <2> QED BY <1>2, <2>1 DEF WritePacket, setup
<1>3. CASE \/ x = Out(AnyPort, "WRQ", 0)
           \/ \E p \in Servers : x = In(p, "ERROR", 0)
  BY <1>3 DEF WritePacket
<1> QED BY <1>1, <1>2, <1>3 DEF WritePacket

\* What keeps the peers as they are, and perhaps adds a packet.
LEMMA WriteNetInv ==
    ASSUME SetupOK, WriteInv, UNCHANGED <<setup, blk, tid, last, res, peer>>,
           st' = st \/ (st = "WAITING_ACK" /\ st' = "ERROR"),
           \A m \in net' : m \in net \/ WritePacket(m)
    PROVE  WriteInv'
<1>1. \A p \in Servers : Len(peer[p].got) \in Nat
  BY DEF WriteInv, StartOf
<1>2. \A x : WritePacket(x) => WritePacket(x)'
  BY <1>1, WritePacketKept
<1>3. \A p \in Servers : StartOf(peer[p].got, Scapy)'
  BY DEF WriteInv, StartOf, setup
<1> QED BY <1>2, <1>3 DEF WriteInv, IsIdle, setup

LEMMA WriteDataInv ==
    ASSUME SetupOK, WriteInv, role = "write", WriteData
    PROVE  /\ WriteInv'
           /\ st' = "END" => Len(peer'[tid'].got) >= size - 1
<1> USE Ports, TftpAssumption
<1>1. /\ UNCHANGED <<setup, res, peer>> /\ st = "WAITING_ACK" /\ blk' = blk + 1
      /\ blk \in Nat /\ blk < size /\ size \in Nat \ {0}
  BY DEF WriteData, WriteInv, SetupOK
<1>2. PICK m \in net :
        /\ m.op = "ACK" /\ Mine(m) /\ Awaited(m)
        /\ tid' = m.from
        /\ NextData
        /\ Arrives(m, IF st' = "EXCEPTION" THEN {} ELSE {last'})
  BY DEF WriteData
<1>3. PICK p \in Servers, b \in 0..MaxBlock :
        m = In(p, "ACK", b) /\ b <= Len(peer[p].got)
  BY <1>2 DEF WriteInv, WritePacket, Out, In, Packet
<1>4. m.from = p /\ m.block = b /\ b = blk
  BY <1>2, <1>3 DEF In, Packet, Awaited
<1>5. p = tid \/ tid = AnyPort
  BY <1>2, <1>4 DEF Mine
<1>6. /\ st' \in {"WAITING_ACK", "END", "EXCEPTION"}
      /\ st' = "WAITING_ACK" => blk + 1 < size
      /\ st' = "END" => blk + 1 = size
      /\ st' = "EXCEPTION" => last' = last
      /\ st' # "EXCEPTION" =>
           /\ blk + 1 <= MaxBlock
           /\ last' = Packet(p, Scapy, "DATA", blk + 1, Data(Scapy, blk + 1))
  BY <1>1, <1>2, <1>4 DEF NextData
<1>7. \A r \in Servers : Len(peer[r].got) \in Nat
  BY DEF WriteInv, StartOf
<1>8. ASSUME NEW x, WritePacket(x) PROVE WritePacket(x)'
  BY <1>1, <1>2, <1>4, <1>5, <1>7, <1>8, WritePacketKept
<1>9. ASSUME NEW x, x = last', st' # "EXCEPTION" PROVE WritePacket(x)'
  <2>1. /\ tid' = p /\ blk + 1 \in 1..size' /\ blk + 1 <= MaxBlock
        /\ blk + 1 <= Len(peer'[p].got) + 1
    BY <1>1, <1>2, <1>3, <1>4, <1>6, <1>7, <1>9 DEF setup
  <2> QED BY <1>6, <1>9, <2>1 DEF WritePacket
<1>10. \A x \in net' \cup {last'} : WritePacket(x)'
  <2>1. net' \subseteq net \cup IF st' = "EXCEPTION" THEN {} ELSE {last'}
    BY <1>2, ArrivesAdds
  <2> QED BY <1>6, <1>8, <1>9, <2>1 DEF WriteInv
<1>11. \A r \in Servers :
         /\ peer'[r].st \in {"idle", "receiving", "done"}
         /\ StartOf(peer[r].got, Scapy)'
         /\ r # tid' \/ peer'[r].st = "idle" => peer'[r].got = <<>>
         /\ peer'[r].st = "done" <=> Len(peer'[r].got) = size'
  BY <1>1, <1>2, <1>4, <1>5 DEF WriteInv, StartOf, setup
<1>12. tid' = p /\ blk' <= Len(peer'[p].got) + 1 /\ p # AnyPort
  BY <1>1, <1>2, <1>3, <1>4, <1>7
<1>13. WriteInv'
  BY <1>1, <1>2, <1>4, <1>6, <1>10, <1>11, <1>12 DEF WriteInv, IsIdle, setup
<1>14. st' = "END" => Len(peer'[tid'].got) >= size - 1
  BY <1>1, <1>2, <1>3, <1>4, <1>6, <1>7
<1> QED BY <1>13, <1>14

LEMMA WriteOthersInv ==
    ASSUME SetupOK, WriteInv, role = "write",
           \/ ClientError \/ Timeout \/ Lose
           \/ \E p \in Peers : PeerTimeout(p) \/ PeerDataAgain(p)
    PROVE  WriteInv'
<1> USE Ports, TftpAssumption
<1>1. CASE ClientError
  <2>1. \E m \in net : Arrives(m, {})
    BY <1>1 DEF ClientError
  <2>2. net' \subseteq net
    BY <2>1 DEF Arrives
  <2> QED BY <1>1, <2>2, WriteNetInv DEF ClientError, WriteInv
<1>2. CASE Timeout
  <2>1. net' = net \cup {last}
    BY <1>2 DEF Timeout, Again, WriteInv
  <2>2. WritePacket(last)
    BY DEF WriteInv
  <2> QED BY <1>2, <2>1, <2>2, WriteNetInv DEF Timeout, automaton
<1>3. CASE Lose
  BY <1>3, WriteNetInv DEF Lose, automaton
<1>4. ASSUME NEW p \in Peers, PeerTimeout(p) PROVE WriteInv'
  <2>1. p \in Servers /\ peer[p].st = "receiving"
    BY <1>4 DEF PeerTimeout, WriteInv, IsIdle, Peers
  <2>2. Len(peer[p].got) \in 0..MaxBlock
    BY <2>1 DEF WriteInv, StartOf
  <2>3. PeerAgain(p) = In(p, "ACK", Len(peer[p].got))
    BY <2>1, <2>2, WireFits DEF PeerAgain
  <2>4. WritePacket(PeerAgain(p))
    BY <2>1, <2>2, <2>3 DEF WritePacket
  <2> QED BY <1>4, <2>4, WriteNetInv DEF PeerTimeout, automaton
<1>5. ASSUME NEW p \in Peers, PeerDataAgain(p) PROVE WriteInv'
  <2>1. p \in Servers
    BY <1>5 DEF PeerDataAgain, WriteInv, IsIdle, Peers
  <2>2. Len(peer[p].got) \in 0..MaxBlock
    BY <2>1 DEF WriteInv, StartOf
  <2>3. PICK m \in net : /\ m.block = Wire(Len(peer[p].got))
                         /\ Arrives(m, {In(p, "ACK", m.block)})
    BY <1>5 DEF PeerDataAgain
  <2>4. net' \subseteq net \cup {In(p, "ACK", m.block)}
    BY <2>3, ArrivesAdds
  <2>5. WritePacket(In(p, "ACK", m.block))
    BY <2>1, <2>2, <2>3, WireFits DEF WritePacket
  <2> QED BY <1>5, <2>4, <2>5, WriteNetInv DEF PeerDataAgain, automaton
<1> QED BY <1>1, <1>2, <1>3, <1>4, <1>5

\* A peer that receives has all its pieces when it is done.
LEMMA WritePeerInv ==
    ASSUME SetupOK, WriteInv, role = "write", NEW p \in Servers, NEW q \in Peer,
           NEW b \in 0..MaxBlock, PeerIs(p, q), UNCHANGED <<setup, automaton>>,
           q.st \in {"receiving", "done"}, StartOf(q.got, Scapy),
           Len(peer[p].got) <= Len(q.got), b <= Len(q.got),
           p # tid => q.got = <<>>, q.st = "done" <=> Len(q.got) = size,
           net' \subseteq net \cup {In(p, "ACK", b)}
    PROVE  WriteInv'
<1> USE Ports DEF setup, automaton
<1>1. /\ peer' \in [Peers -> Peer] /\ peer'[p] = q
      /\ \A r \in Peers : r # p => peer'[r] = peer[r]
  BY PeerUpdated DEF WriteInv
<1>2. \A r \in Servers :
        /\ peer'[r].st \in {"idle", "receiving", "done"}
        /\ StartOf(peer[r].got, Scapy)'
        /\ r # tid \/ peer'[r].st = "idle" => peer'[r].got = <<>>
        /\ peer'[r].st = "done" <=> Len(peer'[r].got) = size
  BY <1>1 DEF WriteInv, StartOf
<1>3. \A r \in Servers : /\ Len(peer[r].got) \in Nat
                         /\ Len(peer'[r].got) \in Nat
                         /\ Len(peer[r].got) <= Len(peer'[r].got)
  BY <1>1 DEF WriteInv, StartOf
<1>4. ASSUME NEW x, WritePacket(x) PROVE WritePacket(x)'
  BY <1>3, <1>4, WritePacketKept
<1>5. ASSUME NEW x, x = In(p, "ACK", b) PROVE WritePacket(x)'
  BY <1>1, <1>5 DEF WritePacket
<1>6. \A x \in net' \cup {last'} : WritePacket(x)'
  BY <1>4, <1>5 DEF WriteInv
<1>7. IsIdle(Client)'
  BY <1>1 DEF WriteInv, IsIdle
<1>8. tid \in Servers => blk <= Len(peer'[tid].got) + 1
  BY <1>3 DEF WriteInv
<1> QED BY <1>1, <1>2, <1>6, <1>7, <1>8 DEF WriteInv

LEMMA WriteServerStartsInv ==
    ASSUME SetupOK, WriteInv, role = "write",
           NEW p \in Peers, ServerStarts(p)
    PROVE  WriteInv'
<1> USE Ports, TftpAssumption
<1>1. PICK m \in net :
        /\ m.to = AnyPort
        /\ \/ /\ m.op = "RRQ" /\ "missing" \in flags
              /\ Arrives(m, {In(p, "ERROR", 0)})
              /\ UNCHANGED peer
           \/ /\ m.op = "RRQ" /\ "missing" \notin flags
              /\ PeerIs(p, [Idle EXCEPT !.st = "sending", !.blk = 1])
              /\ Arrives(m, {PieceFrom(p, 1)})
           \/ /\ m.op = "WRQ"
              /\ PeerIs(p, [Idle EXCEPT !.st = "receiving"])
              /\ Arrives(m, {In(p, "ACK", 0)})
           \/ /\ m.op = "WRQ"
              /\ Arrives(m, {In(p, "ERROR", 0)})
              /\ UNCHANGED peer
  BY DEF ServerStarts
<1>2. p \in Servers /\ peer[p].st = "idle" /\ UNCHANGED <<setup, automaton>>
  BY DEF ServerStarts
<1>3. m.op # "RRQ"
  BY DEF WriteInv, WritePacket, Out, In, Packet
<1>4. CASE Arrives(m, {In(p, "ERROR", 0)}) /\ UNCHANGED peer
  <2>1. WritePacket(In(p, "ERROR", 0))
    BY <1>2 DEF WritePacket
  <2>2. net' \subseteq net \cup {In(p, "ERROR", 0)}
    BY <1>4, ArrivesAdds
  <2> QED BY <1>2, <1>4, <2>1, <2>2, WriteNetInv DEF automaton
<1>5. CASE /\ PeerIs(p, [Idle EXCEPT !.st = "receiving"])
           /\ Arrives(m, {In(p, "ACK", 0)})
  <2> DEFINE q == [Idle EXCEPT !.st = "receiving"]
  <2>1. q \in Peer /\ q.st = "receiving" /\ q.got = <<>>
    BY StartedReceiving
  <2> HIDE DEF q
  <2>2. net' \subseteq net \cup {In(p, "ACK", 0)}
    BY <1>5, ArrivesAdds
  <2>3. PeerIs(p, q)
    BY <1>5 DEF q
  <2>4. StartOf(q.got, Scapy) /\ Len(q.got) = 0 /\ Len(q.got) # size
    BY <2>1 DEF StartOf, SetupOK
  <2>5. Len(peer[p].got) = 0
    BY <1>2 DEF WriteInv
  <2> QED BY <1>2, <2>1, <2>2, <2>3, <2>4, <2>5, WritePeerInv
<1> QED BY <1>1, <1>3, <1>4, <1>5

\* The packet of data that a peer receives is its next piece.
LEMMA WritePeerDataInv ==
    ASSUME SetupOK, WriteInv, role = "write",
           NEW p \in Peers, PeerData(p)
    PROVE  WriteInv'
<1> USE Ports, TftpAssumption
<1>1. PICK m \in net :
        /\ m.to = p /\ m.op = "DATA" /\ m.block = Wire(Len(peer[p].got) + 1)
        /\ PeerIs(p, [peer[p] EXCEPT
                        !.got = Append(@, m.data),
                        !.st = IF LooksShort(p, m.data.piece) THEN "done"
                                                         ELSE "receiving"])
        /\ Arrives(m, {In(p, "ACK", m.block)})
  BY DEF PeerData
<1>2. /\ peer[p].st = "receiving" /\ UNCHANGED <<setup, automaton>>
      /\ p \in Servers /\ peer[p] \in Peer /\ StartOf(peer[p].got, Scapy)
      /\ Len(peer[p].got) # size
  BY DEF PeerData, WriteInv, IsIdle, Peers
<1>3. PICK b \in 1..size :
        b <= MaxBlock /\ m = Packet(tid, Scapy, "DATA", b, Data(Scapy, b))
  BY <1>1 DEF WriteInv, WritePacket, Out, In, Packet
<1>4. /\ p = tid /\ m.block = b /\ m.data = Data(Scapy, b)
      /\ m.data.piece = b
  BY <1>1, <1>3 DEF Packet, Data
<1> DEFINE n == Len(peer[p].got)
<1>5. n \in Nat /\ n <= size /\ n < size /\ n <= MaxBlock /\ size \in Nat
  BY <1>2 DEF StartOf, SetupOK
<1>6. b = n + 1
  <2>1. CASE n < MaxBlock
    BY <1>1, <1>4, <1>5, <2>1, WireFits
  <2>2. CASE n = MaxBlock
    BY <1>1, <1>3, <1>4, <2>2, WireWraps
  <2> QED BY <1>5, <2>1, <2>2
<1> DEFINE g == Append(peer[p].got, Data(Scapy, n + 1))
           s == IF b = size THEN "done" ELSE "receiving"
           q == [peer[p] EXCEPT !.got = g, !.st = s]
<1>7. StartOf(g, Scapy) /\ Len(g) = n + 1
  BY <1>2, <1>3, <1>5, <1>6, StartGrows DEF setup
<1>8. LooksShort(p, m.data.piece) <=> b = size
  BY <1>4 DEF LooksShort, SetupOK, Flags
<1>9. PeerIs(p, q)
  BY <1>1, <1>4, <1>6, <1>8
<1> HIDE DEF g, s
<1>10. s \in {"receiving", "done"} /\ (s = "done" <=> b = size)
  BY DEF s
<1>11. q \in Peer /\ q.st = s /\ q.got = g
  BY <1>2, <1>7, <1>10 DEF Peer, PeerStates, StartOf
<1>12. net' \subseteq net \cup {In(p, "ACK", b)}
  BY <1>1, <1>4, ArrivesAdds
<1> HIDE DEF q
<1> QED BY <1>2, <1>3, <1>4, <1>5, <1>6, <1>7, <1>9, <1>10, <1>11, <1>12,
           WritePeerInv

LEMMA WriteActions ==
    ASSUME SetupOK, WriteInv, role = "write", FNext
    PROVE  \/ WriteData \/ ClientError \/ Timeout \/ Lose
           \/ \E p \in Peers : \/ ServerStarts(p) \/ PeerData(p)
                               \/ PeerTimeout(p) \/ PeerDataAgain(p)
<1>1. ~ (ReadData \/ TakeRequest \/ TakeData \/ ServeRequest \/ ServeAck)
  BY DEF WriteInv, ReadData, TakeRequest, TakeData, ServeRequest, ServeAck
<1>2. \A p \in Peers : peer[p].st \in {"idle", "receiving", "done"}
  BY DEF WriteInv, IsIdle, Peers
<1>3. \A m \in net : m.op # "ERROR" \/ m.to = Scapy
  BY DEF WriteInv, WritePacket, Out, In, Packet
<1>4. \A p \in Peers : ~ (PeerOptions(p) \/ PeerAck(p) \/ PeerError(p))
  BY <1>2, <1>3, Ports DEF PeerOptions, PeerAck, PeerError, Peers
<1> QED BY <1>1, <1>4 DEF FNext, Receive, PeerReceive

LEMMA WriteStep ==
    ASSUME SetupOK, WriteInv, role = "write", FNext PROVE WriteInv'
BY WriteActions, WriteDataInv, WriteOthersInv, WriteServerStartsInv,
   WritePeerDataInv

-----------------------------------------------------------------------------
(* TFTP_WRQ_server *)

\* What keeps the automaton and the peers as they are.
LEMMA TakeNetInv ==
    ASSUME SetupOK, TakeInv, UNCHANGED <<setup, automaton, peer>>,
           \A m \in net' : m \in net \/ TakePacket(m)
    PROVE  TakeInv'
<1>1. \A x : TakePacket(x) => TakePacket(x)'
  BY DEF TakePacket, setup, automaton
<1>2. StartOf(res, Client)' /\ SendsAhead(Client, Len(res))'
  BY DEF TakeInv, StartOf, SendsAhead, setup, automaton
<1> QED BY <1>1, <1>2 DEF TakeInv, IsIdle, setup, automaton

LEMMA TakeRequestInv ==
    ASSUME SetupOK, TakeInv, role = "take", TakeRequest
    PROVE  TakeInv'
<1>1. /\ UNCHANGED <<setup, blk, res, peer>> /\ st = "BEGIN"
      /\ res = <<>> /\ blk = Len(res) + 1
  BY DEF TakeRequest, TakeInv
<1>2. PICK m \in net :
        /\ m.op = "WRQ" /\ tid' = m.from
        /\ \/ st' = "EXCEPTION" /\ Arrives(m, {}) /\ UNCHANGED last
           \/ /\ st' = "WAIT_DATA" /\ last' = Out(m.from, "OACK", 0)
              /\ Arrives(m, {last'})
  BY DEF TakeRequest
<1>3. m.from = Client
  BY <1>2 DEF TakeInv, TakePacket, Out, In, PieceFrom, Packet
<1>4. ASSUME NEW x, TakePacket(x) PROVE TakePacket(x)'
  BY <1>1, <1>4 DEF TakePacket, setup
<1>5. ASSUME NEW x, x = Out(Client, "OACK", 0) PROVE TakePacket(x)'
  BY <1>5 DEF TakePacket
<1>6. \A x \in net' \cup {last'} : TakePacket(x)'
  <2>1. CASE st' = "EXCEPTION" /\ Arrives(m, {}) /\ UNCHANGED last
    <3>1. net' \subseteq net \cup {}
      BY <2>1, ArrivesAdds
    <3> QED BY <1>4, <2>1, <3>1 DEF TakeInv
  <2>2. CASE last' = Out(m.from, "OACK", 0) /\ Arrives(m, {last'})
    <3>1. net' \subseteq net \cup {last'}
      BY <2>2, ArrivesAdds
    <3> QED BY <1>3, <1>4, <1>5, <2>2, <3>1 DEF TakeInv
  <2> QED BY <1>2, <2>1, <2>2
<1>7. StartOf(res, Client)' /\ SendsAhead(Client, Len(res))'
  BY <1>1 DEF TakeInv, StartOf, SendsAhead, setup
<1>8. st' \in {"WAIT_DATA", "EXCEPTION"} /\ Len(res) # size
  BY <1>1, <1>2 DEF SetupOK
<1> QED BY <1>1, <1>2, <1>3, <1>6, <1>7, <1>8 DEF TakeInv, IsIdle, setup

LEMMA TakeDataInv ==
    ASSUME SetupOK, TakeInv, role = "take", ~ Spoilt, TakeData
    PROVE  TakeInv'
<1> USE TftpAssumption
<1>1. /\ UNCHANGED <<setup, tid, peer>> /\ st = "WAIT_DATA" /\ tid = Client
      /\ blk = Len(res) + 1 /\ StartOf(res, Client) /\ Len(res) \in Nat
      /\ size \in Nat
  BY DEF TakeData, TakeInv, StartOf, SetupOK
<1>2. PICK m \in net :
        /\ m.op = "DATA" /\ m.to = Scapy /\ Awaited(m)
        /\ last' = Out(tid, "ACK", blk)
        /\ Arrives(m, {last'})
        /\ res' = Append(res, m.data)
        /\ st' = IF m.data.piece = size THEN "END" ELSE "WAIT_DATA"
        /\ blk' = IF st' = "WAIT_DATA" THEN blk + 1 ELSE blk
  BY DEF TakeData, Padded, Spoilt
<1>3. PICK i \in 1..size :
        /\ m = PieceFrom(Client, i)
        /\ peer[Client].st \in {"sending", "done"} /\ i <= peer[Client].blk
  BY <1>2 DEF TakeInv, TakePacket, Out, In, Packet
<1>4. m.block = Wire(i) /\ m.data = Data(Client, i) /\ m.data.piece = i
  BY <1>3 DEF PieceFrom, Packet, Data
<1>5. i = Len(res) + 1 /\ Len(res) + 1 <= MaxBlock
  <2>1. Len(res) <= MaxBlock /\ i \in 1..Len(res) + 1
    BY <1>1, <1>3 DEF StartOf, TakeInv, SendsAhead
  <2>2. Wire(i) = Len(res) + 1
    BY <1>1, <1>2, <1>4 DEF Awaited
  <2> QED BY <1>1, <2>1, <2>2, WireNext
<1>6. StartOf(res', Client) /\ Len(res') = Len(res) + 1
  <2>1. res' = Append(res, Data(Client, Len(res) + 1)) /\ size' = size
    BY <1>1, <1>2, <1>4, <1>5 DEF setup
  <2> QED BY <1>1, <1>5, <2>1, StartGrows, Ports
<1>7. /\ st' \in {"END", "WAIT_DATA"} /\ (st' = "END" <=> Len(res') = size)
      /\ blk' = IF st' = "END" THEN Len(res') ELSE Len(res') + 1
  BY <1>1, <1>2, <1>4, <1>5, <1>6
<1>8. StartOf(res, Client)'
  BY <1>1, <1>6 DEF StartOf, setup
<1>9. SendsAhead(Client, Len(res))'
  <2>1. peer[Client].st # "done"
    BY <1>1, <1>3, <1>5 DEF TakeInv, SendsAhead
  <2> QED BY <1>1, <1>6, <2>1 DEF TakeInv, SendsAhead, setup
<1>10. \A x \in net' \cup {last'} : TakePacket(x)'
  <2>1. ASSUME NEW x, TakePacket(x) PROVE TakePacket(x)'
    BY <1>1, <1>6, <2>1 DEF TakePacket, setup
  <2>2. ASSUME NEW x, x = last' PROVE TakePacket(x)'
    BY <1>1, <1>2, <1>6, <2>2 DEF TakePacket
  <2>3. net' \subseteq net \cup {last'}
    BY <1>2, ArrivesAdds
  <2> QED BY <2>1, <2>2, <2>3 DEF TakeInv
<1> QED BY <1>1, <1>7, <1>8, <1>9, <1>10 DEF TakeInv, IsIdle, setup

\* The client goes on to a block that scapy does not have yet, or ends.
LEMMA TakePeerInv ==
    ASSUME SetupOK, TakeInv, role = "take", NEW q \in Peer, NEW out,
           PeerIs(Client, q), UNCHANGED <<setup, automaton>>,
           q.st \in {"sending", "done"}, q.got = <<>>,
           q.blk \in 1..size, q.blk <= Len(res) + 1,
           q.st = "done" => Len(res) = size,
           peer[Client].st = "asking" \/ peer[Client].blk <= q.blk,
           net' \subseteq net \cup out, out \subseteq {PieceFrom(Client, q.blk)}
    PROVE  TakeInv'
<1> USE Ports DEF setup, automaton
<1>1. /\ peer' \in [Peers -> Peer] /\ peer'[Client] = q
      /\ \A r \in Peers : r # Client => peer'[r] = peer[r]
  BY PeerUpdated DEF TakeInv
<1>2. StartOf(res, Client)' /\ SendsAhead(Client, Len(res))'
  BY <1>1 DEF TakeInv, StartOf, SendsAhead
<1>3. ASSUME NEW x, TakePacket(x) PROVE TakePacket(x)'
  <2>1. ASSUME NEW i \in 1..size, x = PieceFrom(Client, i),
               peer[Client].st \in {"sending", "done"}, i <= peer[Client].blk
        PROVE  i <= peer'[Client].blk
    BY <1>1, <2>1 DEF TakeInv, SendsAhead, SetupOK
  <2> QED BY <1>1, <1>3, <2>1 DEF TakePacket
<1>4. ASSUME NEW x, x = PieceFrom(Client, q.blk) PROVE TakePacket(x)'
  BY <1>1, <1>4 DEF TakePacket, SetupOK
<1>5. \A x \in net' \cup {last'} : TakePacket(x)'
  BY <1>3, <1>4 DEF TakeInv
<1>6. \A r \in Servers : IsIdle(r)'
  BY <1>1 DEF TakeInv, IsIdle
<1> QED BY <1>1, <1>2, <1>5, <1>6 DEF TakeInv

LEMMA TakeOptionsInv ==
    ASSUME SetupOK, TakeInv, role = "take", PeerOptions(Client)
    PROVE  TakeInv'
<1>1. PICK m \in net : /\ PeerIs(Client, [peer[Client] EXCEPT
                                           !.st = "sending", !.blk = 1])
                       /\ Arrives(m, {PieceFrom(Client, 1)})
  BY DEF PeerOptions
<1>2. /\ peer[Client].st = "asking" /\ UNCHANGED <<setup, automaton>>
      /\ peer[Client] \in Peer /\ peer[Client].got = <<>>
  BY Ports DEF PeerOptions, TakeInv
<1> DEFINE q == [peer[Client] EXCEPT !.st = "sending", !.blk = 1]
<1>3. q \in Peer /\ q.st = "sending" /\ q.blk = 1 /\ q.got = <<>>
  BY <1>2 DEF Peer, PeerStates
<1>4. PeerIs(Client, q)
  BY <1>1
<1> HIDE DEF q
<1>5. net' \subseteq net \cup {PieceFrom(Client, q.blk)}
  BY <1>1, <1>3, ArrivesAdds
<1>6. q.blk \in 1..size /\ q.blk <= Len(res) + 1
  BY <1>3 DEF TakeInv, StartOf, SetupOK
<1> QED BY <1>2, <1>3, <1>4, <1>5, <1>6, TakePeerInv

LEMMA TakePeerAckInv ==
    ASSUME SetupOK, TakeInv, role = "take", PeerAck(Client)
    PROVE  /\ TakeInv'
           /\ peer'[Client].st = "done" => Len(res) = size
<1> USE Ports, TftpAssumption
<1>1. PICK m \in net :
        /\ m.to = Client /\ m.op = "ACK" /\ m.block = Wire(peer[Client].blk)
        /\ \/ /\ peer[Client].blk = size
              /\ PeerIs(Client, [peer[Client] EXCEPT !.st = "done"])
              /\ Arrives(m, {})
           \/ /\ peer[Client].blk < size
              /\ PeerIs(Client, [peer[Client] EXCEPT !.blk = @ + 1])
              /\ Arrives(m, {PieceFrom(Client, peer[Client].blk + 1)})
  BY DEF PeerAck
<1>2. peer[Client].st = "sending" /\ UNCHANGED <<setup, automaton>>
  BY DEF PeerAck
<1>3. PICK b \in 1..Len(res) : m = Out(Client, "ACK", b)
  BY <1>1 DEF TakeInv, TakePacket, Out, In, PieceFrom, Packet
<1>4. m.block = b
  BY <1>3 DEF Out, Packet
<1>5. /\ Len(res) \in Nat /\ Len(res) <= MaxBlock /\ Len(res) <= size
      /\ peer[Client].blk \in 1..Len(res) + 1 /\ peer[Client].blk \in 1..size
      /\ peer[Client] \in Peer /\ peer[Client].got = <<>> /\ size \in Nat
  BY <1>2 DEF TakeInv, StartOf, SendsAhead, SetupOK
<1>6. peer[Client].blk \in 1..Len(res)
  <2>1. CASE peer[Client].blk <= Len(res)
    BY <1>5, <2>1
  <2>2. CASE peer[Client].blk = Len(res) + 1 /\ Len(res) < MaxBlock
    BY <1>1, <1>3, <1>4, <1>5, <2>2, WireFits
  <2>3. CASE peer[Client].blk = Len(res) + 1 /\ Len(res) = MaxBlock
    BY <1>1, <1>3, <1>4, <1>5, <2>3, WireWraps
  <2> QED BY <1>5, <2>1, <2>2, <2>3
<1>7. CASE /\ peer[Client].blk = size
           /\ PeerIs(Client, [peer[Client] EXCEPT !.st = "done"])
           /\ Arrives(m, {})
  <2> DEFINE q == [peer[Client] EXCEPT !.st = "done"]
  <2>1. q \in Peer /\ q.st = "done" /\ q.blk = peer[Client].blk /\ q.got = <<>>
    BY <1>5 DEF Peer, PeerStates
  <2>2. PeerIs(Client, q) /\ Len(res) = size
    BY <1>5, <1>6, <1>7
  <2> HIDE DEF q
  <2>3. net' \subseteq net \cup {}
    BY <1>7, ArrivesAdds
  <2>4. q.blk <= Len(res) + 1 /\ peer[Client].blk <= q.blk
    BY <1>5, <2>1
  <2>5. TakeInv'
    BY <1>2, <1>5, <2>1, <2>2, <2>3, <2>4, TakePeerInv
  <2> QED BY <2>2, <2>5
<1>8. CASE /\ peer[Client].blk < size
           /\ PeerIs(Client, [peer[Client] EXCEPT !.blk = @ + 1])
           /\ Arrives(m, {PieceFrom(Client, peer[Client].blk + 1)})
  <2> DEFINE q == [peer[Client] EXCEPT !.blk = @ + 1]
  <2>1. /\ q \in Peer /\ q.st = "sending" /\ q.blk = peer[Client].blk + 1
        /\ q.got = <<>>
    BY <1>2, <1>5 DEF Peer, PeerStates
  <2>2. PeerIs(Client, q)
    BY <1>8
  <2> HIDE DEF q
  <2>3. net' \subseteq net \cup {PieceFrom(Client, q.blk)}
    BY <1>8, <2>1, ArrivesAdds
  <2>4. /\ q.blk <= Len(res) + 1 /\ peer[Client].blk <= q.blk
        /\ q.blk \in 1..size
    BY <1>5, <1>6, <1>8, <2>1
  <2>5. TakeInv'
    BY <1>2, <2>1, <2>2, <2>3, <2>4, TakePeerInv
  <2>6. peer'[Client].st = "sending"
    BY <2>1, <2>2, PeerUpdated DEF TakeInv
  <2> QED BY <2>5, <2>6
<1> QED BY <1>1, <1>7, <1>8

LEMMA TakeOthersInv ==
    ASSUME SetupOK, TakeInv, role = "take",
           Timeout \/ Lose \/ PeerTimeout(Client)
    PROVE  TakeInv'
<1>1. CASE Timeout
  <2>1. net' = net \cup {last}
    BY <1>1 DEF Timeout, Again, TakeInv
  <2>2. TakePacket(last)
    BY DEF TakeInv
  <2> QED BY <1>1, <2>1, <2>2, TakeNetInv DEF Timeout
<1>2. CASE Lose
  BY <1>2, TakeNetInv DEF Lose
<1>3. CASE PeerTimeout(Client)
  <2>1. peer[Client].st \in {"asking", "sending"}
    BY <1>3 DEF PeerTimeout, TakeInv
  <2>2. CASE peer[Client].st = "asking"
    <3>1. TakePacket(PeerAgain(Client))
      BY <2>2 DEF TakePacket, PeerAgain, Request
    <3> QED BY <1>3, <3>1, TakeNetInv DEF PeerTimeout
  <2>3. CASE peer[Client].st = "sending"
    <3>1. /\ peer[Client].blk \in 1..size
          /\ PeerAgain(Client) = PieceFrom(Client, peer[Client].blk)
      BY <2>3 DEF TakeInv, SendsAhead, PeerAgain
    <3>2. TakePacket(PeerAgain(Client))
      BY <2>3, <3>1 DEF TakePacket, SetupOK
    <3> QED BY <1>3, <3>2, TakeNetInv DEF PeerTimeout
  <2> QED BY <2>1, <2>2, <2>3
<1> QED BY <1>1, <1>2, <1>3

LEMMA TakeActions ==
    ASSUME SetupOK, TakeInv, role = "take", FNext
    PROVE  \/ TakeRequest \/ TakeData \/ Timeout \/ Lose
           \/ PeerOptions(Client) \/ PeerAck(Client) \/ PeerTimeout(Client)
<1>1. ~ (ReadData \/ ClientError \/ WriteData \/ ServeRequest \/ ServeAck)
  BY DEF TakeInv, ReadData, ClientError, WriteData, ServeRequest, ServeAck
<1>2. \A m \in net : m.op \notin {"ERROR", "RRQ"} /\ m.to # AnyPort
                     /\ (m.op = "DATA" => m.to = Scapy)
  BY Ports DEF TakeInv, TakePacket, Out, In, PieceFrom, Packet
<1>3. \A p \in Peers : ~ ServerStarts(p)
  BY <1>2 DEF ServerStarts
<1>4. ~ (PeerData(Client) \/ PeerDataAgain(Client) \/ PeerError(Client))
  BY <1>2, Ports DEF PeerData, PeerDataAgain, PeerError
<1>5. \A p \in Servers :
        ~ (\/ PeerOptions(p) \/ PeerData(p) \/ PeerAck(p) \/ PeerError(p)
           \/ PeerDataAgain(p) \/ PeerTimeout(p))
  BY DEF TakeInv, IsIdle, PeerOptions, PeerData, PeerAck, PeerError,
         PeerDataAgain, PeerTimeout
<1> QED BY <1>1, <1>3, <1>4, <1>5 DEF FNext, Receive, PeerReceive, Peers

LEMMA TakeStep ==
    ASSUME SetupOK, TakeInv, role = "take", ~ Spoilt, FNext PROVE TakeInv'
BY TakeActions, TakeRequestInv, TakeDataInv, TakeOptionsInv, TakePeerAckInv,
   TakeOthersInv

-----------------------------------------------------------------------------
(* TFTP_RRQ_server *)

\* The packets of before are still those of a client that has more by now.
LEMMA ServePacketKept ==
    ASSUME SetupOK, UNCHANGED setup,
           Len(peer[Client].got) \in Nat, Len(peer'[Client].got) \in Nat,
           Len(peer[Client].got) <= Len(peer'[Client].got),
           NEW x, ServePacket(x)
    PROVE  ServePacket(x)'
<1>1. ASSUME NEW b \in 0..Len(peer[Client].got), x = In(Client, "ACK", b)
      PROVE  ServePacket(x)'
  <2>1. b \in 0..Len(peer'[Client].got)
    OBVIOUS
  <2> QED BY <1>1, <2>1 DEF ServePacket
<1>2. ASSUME NEW b \in 1..size, b <= MaxBlock,
             b <= Len(peer[Client].got) + 1,
             x = Packet(Client, Scapy, "DATA", b, Data(Scapy, b))
      PROVE  ServePacket(x)'
  <2>1. b \in 1..size' /\ b <= Len(peer'[Client].got) + 1
    BY <1>2 DEF setup, SetupOK
  <2> QED BY <1>2, <2>1 DEF ServePacket
<1>3. CASE \/ x = In(Client, "RRQ", 0) \/ x = Out(Client, "OACK", 0)
           \/ x = Out(Client, "ERROR", 0)
  BY <1>3 DEF ServePacket
<1> QED BY <1>1, <1>2, <1>3 DEF ServePacket

\* What keeps the peers as they are: scapy goes on or stops.
LEMMA ServeNetInv ==
    ASSUME SetupOK, ServeInv, UNCHANGED <<setup, peer>>,
           st' \in {"WAIT_RRQ", "SEND_FILE", "END", "EXCEPTION"},
           st' = "SEND_FILE" =>
               tid' = Client /\ blk' \in 1..size /\ blk' <= MaxBlock,
           blk' \in 0..Len(peer[Client].got) + 1,
           \A m \in net' \cup {last'} :
               m \in net \cup {last} \/ ServePacket(m)
    PROVE  ServeInv'
<1>1. Len(peer[Client].got) \in Nat
  BY DEF ServeInv, StartOf
<1>2. \A x : ServePacket(x) => ServePacket(x)'
  BY <1>1, ServePacketKept
<1>3. StartOf(peer[Client].got, Scapy)'
  BY DEF ServeInv, StartOf, setup
<1>4. Lost' <=> Lost
  BY DEF Lost, setup
<1> QED BY <1>2, <1>3, <1>4 DEF ServeInv, IsIdle, setup

LEMMA ServeRequestInv ==
    ASSUME SetupOK, ServeInv, role = "serve", ServeRequest
    PROVE  ServeInv'
<1> USE TftpAssumption
<1>1. /\ UNCHANGED <<setup, res, peer>> /\ blk \in 0..Len(peer[Client].got) + 1
      /\ Len(peer[Client].got) \in Nat
  BY DEF ServeRequest, ServeInv, StartOf
<1>2. PICK m \in net :
        /\ m.op = "RRQ" /\ tid' = m.from
        /\ \/ /\ st' = "EXCEPTION" /\ Arrives(m, {})
              /\ UNCHANGED <<blk, last>>
           \/ /\ st' = "WAIT_RRQ" /\ blk' = 0
              /\ last' = Out(m.from, "OACK", 0)
              /\ Arrives(m, {last', Out(m.from, "ERROR", 0)})
           \/ /\ st' = "SEND_FILE" /\ blk' = 1
              /\ last' = Out(m.from, "OACK", 0)
              /\ Arrives(m, {last', Block(1)})
  BY DEF ServeRequest
<1>3. m.from = Client
  BY <1>2 DEF ServeInv, ServePacket, Out, In, Packet
<1>4. /\ ServePacket(Out(Client, "OACK", 0)) /\ ServePacket(Out(Client, "ERROR", 0))
      /\ ServePacket(Packet(Client, Scapy, "DATA", 1, Data(Scapy, 1)))
  BY <1>1 DEF ServePacket, SetupOK
<1>5. Block(1) = Packet(Client, Scapy, "DATA", 1, Data(Scapy, 1))
  BY <1>2, <1>3 DEF Block
<1>6. CASE st' = "EXCEPTION" /\ Arrives(m, {}) /\ UNCHANGED <<blk, last>>
  <2>1. net' \subseteq net \cup {}
    BY <1>6, ArrivesAdds
  <2> QED BY <1>1, <1>6, <2>1, ServeNetInv
<1>7. CASE /\ st' = "WAIT_RRQ" /\ blk' = 0
           /\ last' = Out(m.from, "OACK", 0)
           /\ Arrives(m, {last', Out(m.from, "ERROR", 0)})
  <2>1. net' \subseteq net \cup {last', Out(Client, "ERROR", 0)}
    BY <1>3, <1>7, ArrivesAdds
  <2>2. blk' \in 0..Len(peer[Client].got) + 1
    BY <1>1, <1>7
  <2> QED BY <1>1, <1>3, <1>4, <1>7, <2>1, <2>2, ServeNetInv
<1>8. CASE /\ st' = "SEND_FILE" /\ blk' = 1
           /\ last' = Out(m.from, "OACK", 0)
           /\ Arrives(m, {last', Block(1)})
  <2>1. net' \subseteq net \cup {last', Block(1)}
    BY <1>8, ArrivesAdds
  <2>2. /\ blk' \in 1..size /\ blk' <= MaxBlock /\ tid' = Client
        /\ blk' \in 0..Len(peer[Client].got) + 1
    BY <1>1, <1>2, <1>3, <1>8 DEF SetupOK
  <2> QED BY <1>1, <1>3, <1>4, <1>5, <1>8, <2>1, <2>2, ServeNetInv
<1> QED BY <1>2, <1>6, <1>7, <1>8

\* When the last block is acknowledged the client has them all.
LEMMA ServeAckInv ==
    ASSUME SetupOK, ServeInv, role = "serve", ServeAck
    PROVE  /\ ServeInv'
           /\ st' \in {"END", "WAIT_RRQ"} => Len(peer[Client].got) = size
<1> USE TftpAssumption
<1>1. /\ UNCHANGED <<setup, tid, last, res, peer>>
      /\ tid = Client /\ blk \in 1..size /\ blk <= MaxBlock /\ size \in Nat
      /\ Len(peer[Client].got) \in Nat
  BY DEF ServeAck, ServeInv, SetupOK, StartOf
<1>2. PICK m \in net :
        /\ m.op = "ACK" /\ m.to = Scapy /\ Awaited(m)
        /\ \/ /\ blk >= size
              /\ st' \in {"END", "WAIT_RRQ"} /\ blk' \in {0, blk + 1}
              /\ Arrives(m, {})
           \/ /\ blk < size /\ blk < MaxBlock
              /\ st' = "SEND_FILE"
              /\ blk' = blk + 1
              /\ Arrives(m, {Block(blk')})
           \/ /\ blk < size /\ blk = MaxBlock
              /\ st' = "EXCEPTION" /\ blk' = blk + 1
              /\ Arrives(m, {})
  BY DEF ServeAck, Blknb
<1>3. PICK b \in 0..Len(peer[Client].got) : m = In(Client, "ACK", b)
  BY <1>2 DEF ServeInv, ServePacket, Out, In, Packet
<1>4. b = blk /\ blk <= Len(peer[Client].got)
  BY <1>1, <1>2, <1>3 DEF Awaited, In, Packet
<1>5. blk' \in {0, blk + 1} => blk' \in 0..Len(peer[Client].got) + 1
  BY <1>1, <1>4
<1>6. CASE /\ blk >= size /\ st' \in {"END", "WAIT_RRQ"}
           /\ blk' \in {0, blk + 1} /\ Arrives(m, {})
  <2>1. net' \subseteq net \cup {}
    BY <1>6, ArrivesAdds
  <2>2. ServeInv'
    BY <1>1, <1>5, <1>6, <2>1, ServeNetInv
  <2>3. Len(peer[Client].got) = size
    BY <1>1, <1>3, <1>4, <1>6 DEF ServeInv, StartOf
  <2> QED BY <2>2, <2>3
<1>7. CASE /\ blk < size /\ blk < MaxBlock
           /\ st' = "SEND_FILE"
           /\ blk' = blk + 1
           /\ Arrives(m, {Block(blk')})
  <2>1. net' \subseteq net \cup {Block(blk')}
    BY <1>7, ArrivesAdds
  <2>2. Block(blk') = Packet(Client, Scapy, "DATA", blk + 1, Data(Scapy, blk + 1))
    BY <1>1, <1>7 DEF Block
  <2>3. ServePacket(Packet(Client, Scapy, "DATA", blk + 1, Data(Scapy, blk + 1)))
    BY <1>1, <1>4, <1>7 DEF ServePacket
  <2>4. blk' \in 1..size /\ blk' <= MaxBlock
    BY <1>1, <1>7
  <2> QED BY <1>1, <1>5, <1>7, <2>1, <2>2, <2>3, <2>4, ServeNetInv
<1>8. CASE st' = "EXCEPTION" /\ blk' = blk + 1 /\ Arrives(m, {})
  <2>1. net' \subseteq net \cup {}
    BY <1>8, ArrivesAdds
  <2> QED BY <1>1, <1>5, <1>8, <2>1, ServeNetInv
<1> QED BY <1>2, <1>6, <1>7, <1>8

LEMMA ServeOthersInv ==
    ASSUME SetupOK, ServeInv, role = "serve",
           Timeout \/ Lose \/ PeerTimeout(Client) \/ PeerDataAgain(Client)
    PROVE  ServeInv'
<1> USE TftpAssumption
<1>1. Len(peer[Client].got) \in 0..MaxBlock
  BY DEF ServeInv, StartOf
<1>2. CASE Timeout
  <2>1. /\ st = "SEND_FILE" /\ tid = Client /\ blk \in 1..size /\ blk <= MaxBlock
        /\ blk \in 0..Len(peer[Client].got) + 1
    BY <1>2 DEF Timeout, ServeInv
  <2>2. net' = net \cup {Packet(Client, Scapy, "DATA", blk, Data(Scapy, blk))}
    BY <1>2, <2>1 DEF Timeout, Again
  <2>3. ServePacket(Packet(Client, Scapy, "DATA", blk, Data(Scapy, blk)))
    BY <2>1 DEF ServePacket
  <2> QED BY <1>2, <2>1, <2>2, <2>3, ServeNetInv DEF Timeout, automaton
<1>3. CASE Lose
  BY <1>3, ServeNetInv DEF Lose, automaton, ServeInv
<1>4. CASE PeerTimeout(Client)
  <2>1. peer[Client].st \in {"asking", "receiving"}
    BY <1>4 DEF PeerTimeout, ServeInv
  <2>2. /\ peer[Client].st = "asking" => PeerAgain(Client) = In(Client, "RRQ", 0)
        /\ peer[Client].st = "receiving" =>
             PeerAgain(Client) = In(Client, "ACK", Len(peer[Client].got))
    BY <1>1, WireFits DEF PeerAgain, Request
  <2>3. ServePacket(PeerAgain(Client))
    BY <1>1, <2>1, <2>2 DEF ServePacket
  <2> QED BY <1>4, <2>3, ServeNetInv DEF PeerTimeout, automaton, ServeInv
<1>5. CASE PeerDataAgain(Client)
  <2>1. PICK m \in net : /\ m.block = Wire(Len(peer[Client].got))
                         /\ Arrives(m, {In(Client, "ACK", m.block)})
    BY <1>5 DEF PeerDataAgain
  <2>2. net' \subseteq net \cup {In(Client, "ACK", m.block)}
    BY <2>1, ArrivesAdds
  <2>3. ServePacket(In(Client, "ACK", m.block))
    BY <1>1, <2>1, WireFits DEF ServePacket
  <2> QED BY <1>5, <2>2, <2>3, ServeNetInv DEF PeerDataAgain, automaton, ServeInv
<1> QED BY <1>2, <1>3, <1>4, <1>5

\* The client goes on.
LEMMA ServePeerInv ==
    ASSUME SetupOK, ServeInv, role = "serve", NEW q \in Peer,
           NEW b \in 0..MaxBlock, PeerIs(Client, q), UNCHANGED <<setup, automaton>>,
           q.st \in {"receiving", "done", "failed"}, StartOf(q.got, Scapy),
           Len(peer[Client].got) <= Len(q.got),
           Len(q.got) = size => q.st = "done",
           q.st = "done" => Lost' \/ Len(q.got) = size,
           b <= Len(q.got), net' \subseteq net \cup {In(Client, "ACK", b)}
    PROVE  ServeInv'
<1> USE Ports DEF setup, automaton
<1>1. /\ peer' \in [Peers -> Peer] /\ peer'[Client] = q
      /\ \A r \in Peers : r # Client => peer'[r] = peer[r]
  BY PeerUpdated DEF ServeInv
<1>2. Len(peer[Client].got) \in Nat /\ Len(q.got) \in Nat
  BY DEF ServeInv, StartOf
<1>3. ASSUME NEW x, ServePacket(x) PROVE ServePacket(x)'
  BY <1>1, <1>2, <1>3, ServePacketKept
<1>4. ASSUME NEW x, x = In(Client, "ACK", b) PROVE ServePacket(x)'
  BY <1>1, <1>2, <1>4 DEF ServePacket
<1>5. \A x \in net' \cup {last'} : ServePacket(x)'
  BY <1>3, <1>4 DEF ServeInv
<1>6. \A r \in Servers : IsIdle(r)'
  BY <1>1 DEF ServeInv, IsIdle
<1>7. StartOf(peer[Client].got, Scapy)'
  BY <1>1 DEF StartOf
<1> HIDE DEF Lost
<1> QED BY <1>1, <1>5, <1>6, <1>7 DEF ServeInv

LEMMA ServeOptionsInv ==
    ASSUME SetupOK, ServeInv, role = "serve", PeerOptions(Client)
    PROVE  ServeInv' /\ peer[Client].got = <<>> /\ peer'[Client].got = <<>>
                     /\ peer'[Client].st = "receiving"
<1>1. PICK m \in net :
        /\ PeerIs(Client, [peer[Client] EXCEPT !.st = "receiving",
                                               !.optioned = TRUE])
        /\ Arrives(m, {In(Client, "ACK", 0)})
  BY DEF PeerOptions
<1>2. /\ peer[Client].st = "asking" /\ UNCHANGED <<setup, automaton>>
      /\ peer[Client] \in Peer /\ peer[Client].got = <<>>
  BY Ports DEF PeerOptions, ServeInv
<1> DEFINE q == [peer[Client] EXCEPT !.st = "receiving", !.optioned = TRUE]
<1>3. q \in Peer /\ q.st = "receiving" /\ q.got = <<>>
  BY <1>2 DEF Peer, PeerStates
<1>4. PeerIs(Client, q)
  BY <1>1
<1> HIDE DEF q
<1>5. net' \subseteq net \cup {In(Client, "ACK", 0)}
  BY <1>1, ArrivesAdds
<1>6. /\ StartOf(q.got, Scapy) /\ Len(q.got) = 0 /\ Len(q.got) # size
      /\ Len(peer[Client].got) = 0
  BY <1>2, <1>3 DEF ServeInv, StartOf, SetupOK
<1>6a. Len(q.got) = size => q.st = "done"
  BY <1>6
<1>6b. q.st = "done" => Lost' \/ Len(q.got) = size
  BY <1>3
<1>6c. Len(peer[Client].got) <= Len(q.got)
  BY <1>6
<1>7. ServeInv'
  BY <1>2, <1>3, <1>4, <1>5, <1>6, <1>6a, <1>6b, <1>6c, TftpAssumption, ServePeerInv
<1>8. peer'[Client] = q
  BY <1>3, <1>4, PeerUpdated, Ports DEF ServeInv
<1> QED BY <1>2, <1>3, <1>7, <1>8

LEMMA ServePeerErrorInv ==
    ASSUME SetupOK, ServeInv, role = "serve", PeerError(Client)
    PROVE  ServeInv' /\ peer'[Client].got = peer[Client].got
                     /\ peer'[Client].optioned = peer[Client].optioned
                     /\ peer'[Client].st # "done" /\ peer[Client].st # "done"
<1>1. PICK m \in net : Arrives(m, {})
  BY DEF PeerError
<1>2. /\ peer[Client].st \in {"asking", "receiving"}
      /\ PeerIs(Client, [peer[Client] EXCEPT !.st = "failed"])
      /\ UNCHANGED <<setup, automaton>> /\ peer[Client] \in Peer
      /\ StartOf(peer[Client].got, Scapy) /\ Len(peer[Client].got) # size
  BY Ports DEF PeerError, ServeInv
<1> DEFINE q == [peer[Client] EXCEPT !.st = "failed"]
<1>3. q \in Peer /\ q.st = "failed" /\ q.got = peer[Client].got
  BY <1>2 DEF Peer, PeerStates
<1>4. q.optioned = peer[Client].optioned
  BY <1>2 DEF Peer
<1>5. PeerIs(Client, q)
  BY <1>2
<1> HIDE DEF q
<1>6. net' \subseteq net \cup {}
  BY <1>1, ArrivesAdds
<1>6a. StartOf(q.got, Scapy) /\ Len(q.got) \in Nat
  BY <1>2, <1>3 DEF StartOf
<1>6b. Len(q.got) # size
  BY <1>2, <1>3
<1>6c. q.st = "done" => Lost' \/ Len(q.got) = size
  BY <1>3
<1>6d. Len(peer[Client].got) <= Len(q.got)
  BY <1>3, <1>6a
<1>6e. 0 \in 0..MaxBlock /\ 0 <= Len(q.got)
  BY TftpAssumption, <1>6a
<1>7. ServeInv'
  BY <1>2, <1>3, <1>5, <1>6, <1>6a, <1>6b, <1>6c, <1>6d, <1>6e,
     ServePeerInv
<1>8. peer'[Client] = q
  BY <1>3, <1>5, PeerUpdated, Ports DEF ServeInv
<1> QED BY <1>2, <1>3, <1>4, <1>7, <1>8

LEMMA ServePeerDataInv ==
    ASSUME SetupOK, ServeInv, role = "serve", PeerData(Client)
    PROVE  /\ ServeInv'
           /\ Len(peer'[Client].got) = Len(peer[Client].got) + 1
           /\ Lost' <=> Lost
<1> USE Ports, TftpAssumption
<1>1. PICK m \in net :
        /\ m.to = Client /\ m.op = "DATA"
        /\ m.block = Wire(Len(peer[Client].got) + 1)
        /\ PeerIs(Client, [peer[Client] EXCEPT
                             !.got = Append(@, m.data),
                             !.st = IF LooksShort(Client, m.data.piece)
                                      THEN "done" ELSE "receiving"])
        /\ Arrives(m, {In(Client, "ACK", m.block)})
  BY DEF PeerData
<1>2. /\ peer[Client].st \in {"asking", "receiving"}
      /\ UNCHANGED <<setup, automaton>> /\ peer[Client] \in Peer
      /\ StartOf(peer[Client].got, Scapy) /\ Len(peer[Client].got) # size
  BY DEF PeerData, ServeInv
<1>3. PICK b \in 1..size :
        b <= MaxBlock /\ m = Packet(Client, Scapy, "DATA", b, Data(Scapy, b))
  BY <1>1 DEF ServeInv, ServePacket, Out, In, Packet
<1>4. m.block = b /\ m.data = Data(Scapy, b) /\ m.data.piece = b
  BY <1>3 DEF Packet, Data
<1> DEFINE n == Len(peer[Client].got)
<1>5. n \in Nat /\ n <= size /\ n < size /\ n <= MaxBlock /\ size \in Nat
  BY <1>2 DEF StartOf, SetupOK
<1>6. b = n + 1
  <2>1. CASE n < MaxBlock
    BY <1>1, <1>4, <1>5, <2>1, WireFits
  <2>2. CASE n = MaxBlock
    BY <1>1, <1>3, <1>4, <2>2, WireWraps
  <2> QED BY <1>5, <2>1, <2>2
<1> DEFINE g == Append(peer[Client].got, Data(Scapy, n + 1))
           s == IF LooksShort(Client, b) THEN "done" ELSE "receiving"
           q == [peer[Client] EXCEPT !.got = g, !.st = s]
<1>7. StartOf(g, Scapy) /\ Len(g) = n + 1
  BY <1>2, <1>3, <1>5, <1>6, StartGrows DEF setup
<1>8. LooksShort(Client, b) <=> b = size \/ Lost
  BY DEF LooksShort, Lost
<1>9. PeerIs(Client, q)
  BY <1>1, <1>4, <1>6
<1> HIDE DEF g, s
<1>10. s \in {"receiving", "done"} /\ (s = "done" <=> b = size \/ Lost)
  BY <1>8 DEF s
<1>11. q.st = s /\ q.got = g
  BY <1>2, <1>7 DEF Peer
<1>12. q \in Peer
  BY <1>2, <1>7, <1>10 DEF Peer, PeerStates, StartOf
<1>13. net' \subseteq net \cup {In(Client, "ACK", b)}
  BY <1>1, <1>4, ArrivesAdds
<1>14. peer'[Client] = q
  BY <1>9, <1>12, PeerUpdated DEF ServeInv
<1>15. q.optioned = peer[Client].optioned
  BY <1>2 DEF Peer
<1>16. Lost' <=> Lost
  BY <1>2, <1>14, <1>15 DEF Lost, setup
<1> HIDE DEF q
<1>17. ServeInv'
  BY <1>2, <1>3, <1>5, <1>6, <1>7, <1>9, <1>10, <1>11, <1>12, <1>13, <1>16,
     ServePeerInv
<1>18. Len(peer'[Client].got) = n + 1
  BY <1>7, <1>11, <1>14
<1> QED BY <1>16, <1>17, <1>18

LEMMA ServeActions ==
    ASSUME SetupOK, ServeInv, role = "serve", FNext
    PROVE  \/ ServeRequest \/ ServeAck \/ Timeout \/ Lose
           \/ PeerOptions(Client) \/ PeerData(Client) \/ PeerError(Client)
           \/ PeerTimeout(Client) \/ PeerDataAgain(Client)
<1>1. ~ (ReadData \/ ClientError \/ WriteData \/ TakeRequest \/ TakeData)
  BY DEF ServeInv, ReadData, ClientError, WriteData, TakeRequest, TakeData
<1>2. \A m \in net : m.to # AnyPort
  BY Ports DEF ServeInv, ServePacket, Out, In, Packet
<1>3. \A p \in Peers : ~ ServerStarts(p)
  BY <1>2 DEF ServerStarts
<1>4. ~ PeerAck(Client)
  BY DEF PeerAck, ServeInv
<1>5. \A p \in Servers :
        ~ (\/ PeerOptions(p) \/ PeerData(p) \/ PeerAck(p) \/ PeerError(p)
           \/ PeerDataAgain(p) \/ PeerTimeout(p))
  BY DEF ServeInv, IsIdle, PeerOptions, PeerData, PeerAck, PeerError,
         PeerDataAgain, PeerTimeout
<1> QED BY <1>1, <1>3, <1>4, <1>5 DEF FNext, Receive, PeerReceive, Peers

LEMMA ServeStep ==
    ASSUME SetupOK, ServeInv, role = "serve", FNext PROVE ServeInv'
BY ServeActions, ServeRequestInv, ServeAckInv, ServeOthersInv,
   ServeOptionsInv, ServePeerDataInv, ServePeerErrorInv

-----------------------------------------------------------------------------
(* All four. *)

LEMMA SetupConstant == FNext => UNCHANGED setup
BY DEF FNext, Receive, PeerReceive, ReadData, ClientError, WriteData,
       TakeRequest, TakeData, ServeRequest, ServeAck, Timeout, Lose,
       ServerStarts, PeerOptions, PeerData, PeerAck, PeerError,
       PeerDataAgain, PeerTimeout

LEMMA StartEmpty ==
    ASSUME SetupOK, NEW src PROVE StartOf(<<>>, src)
BY TftpAssumption DEF StartOf, SetupOK

LEMMA FirstPeers ==
    ASSUME FInit
    PROVE  /\ peer \in [Peers -> Peer]
           /\ \A p \in Peers : peer[p].got = <<>>
           /\ \A p \in Servers : peer[p].st = "idle"
           /\ peer[Client].st =
                IF role \in {"take", "serve"} THEN "asking" ELSE "idle"
<1>1. PICK i : i = Idle
  OBVIOUS
<1>2. PICK a : a = [Idle EXCEPT !.st = "asking"]
  OBVIOUS
<1>3. i \in Peer /\ i.st = "idle" /\ i.got = <<>>
  BY <1>1 DEF Idle, Peer, PeerStates
<1>4. a \in Peer /\ a.st = "asking" /\ a.got = <<>>
  <2>1. a = [st |-> "asking", blk |-> 0, got |-> <<>>, optioned |-> FALSE]
    BY <1>2 DEF Idle
  <2>2. a \in Peer
    BY <2>1, NewPeer DEF PeerStates
  <2> QED BY <2>1, <2>2
<1>5. peer = [p \in Peers |-> IF p = Client /\ role \in {"take", "serve"}
                                THEN a ELSE i]
  BY <1>1, <1>2 DEF FInit
<1> QED BY <1>3, <1>4, <1>5, Ports

LEMMA FInvStarts == FInit => FInv
<1> SUFFICES ASSUME FInit PROVE FInv
  OBVIOUS
<1> USE TftpAssumption, Ports
<1>1. SetupOK
  BY DEF FInit, SetupOK
<1>2. res = <<>> /\ net \cup {last} = {Request} /\ tid = AnyPort
  BY DEF FInit
<1>3. /\ StartOf(<<>>, AnyPort) /\ StartOf(<<>>, Scapy) /\ StartOf(<<>>, Client)
      /\ Len(<<>>) = 0 /\ size # 0
  BY <1>1, StartEmpty DEF SetupOK
<1>4. CASE role = "read"
  <2>1. st = "WAITING" /\ blk = 1
    BY <1>4 DEF FInit
  <2>2. ReadPacket(Request)
    BY <1>4 DEF ReadPacket, Request
  <2>3. ReadInv
    BY <1>1, <1>2, <1>3, <1>4, <2>1, <2>2, FirstPeers
    DEF ReadInv, IsIdle, SendsAhead
  <2> QED BY <1>1, <1>4, <2>3 DEF FInv
<1>5. CASE role = "write"
  <2>1. st = "WAITING_ACK" /\ blk = 0
    BY <1>5 DEF FInit
  <2>2. WritePacket(Request)
    BY <1>5 DEF WritePacket, Request
  <2>3. WriteInv
    BY <1>1, <1>2, <1>3, <1>5, <2>1, <2>2, FirstPeers
    DEF WriteInv, IsIdle, SetupOK
  <2> QED BY <1>1, <1>5, <2>3 DEF FInv
<1>6. CASE role = "take"
  <2>1. st = "BEGIN" /\ blk = 1 /\ st \in TakeStates
    BY <1>6 DEF FInit, TakeStates
  <2>2. TakePacket(Request)
    BY <1>6 DEF TakePacket, Request
  <2>3. TakeInv
    BY <1>1, <1>2, <1>3, <1>6, <2>1, <2>2, FirstPeers
    DEF TakeInv, IsIdle, SendsAhead
  <2> QED BY <1>1, <1>6, <2>1, <2>3 DEF FInv
<1>7. CASE role = "serve"
  <2>1. st = "WAIT_RRQ" /\ blk = 0
    BY <1>7 DEF FInit
  <2>2. ServePacket(Request)
    BY <1>7 DEF ServePacket, Request
  <2>3. ServeInv
    BY <1>1, <1>2, <1>3, <1>7, <2>1, <2>2, FirstPeers
    DEF ServeInv, IsIdle
  <2> QED BY <1>1, <1>7, <2>3 DEF FInv
<1> QED BY <1>1, <1>4, <1>5, <1>6, <1>7, RoleNames DEF SetupOK

LEMMA FInvStutters ==
    ASSUME FInv, UNCHANGED fVars PROVE FInv'
<1> USE DEF fVars, setup, automaton
<1>1. SetupOK'
  BY DEF FInv, SetupOK
<1>2. UNCHANGED <<setup, automaton, peer, net>> /\ (Spoilt' <=> Spoilt)
  BY DEF Spoilt
<1>3. \A g, src : StartOf(g, src)' <=> StartOf(g, src)
  BY DEF StartOf
<1>4. ReadInv => ReadInv'
  <2>1. \A m : ReadPacket(m)' <=> ReadPacket(m)
    BY DEF ReadPacket, PieceFrom
  <2> QED BY <1>3, <2>1 DEF ReadInv, IsIdle, SendsAhead
<1>5. WriteInv => WriteInv'
  <2>1. \A m : WritePacket(m)' <=> WritePacket(m)
    BY DEF WritePacket
  <2> QED BY <1>3, <2>1 DEF WriteInv, IsIdle
<1>6. TakeInv => TakeInv'
  <2>1. \A m : TakePacket(m)' <=> TakePacket(m)
    BY DEF TakePacket, PieceFrom
  <2> QED BY <1>3, <2>1 DEF TakeInv, IsIdle, SendsAhead
<1>7. ServeInv => ServeInv'
  <2>1. \A m : ServePacket(m)' <=> ServePacket(m)
    BY DEF ServePacket
  <2> QED BY <1>3, <2>1 DEF ServeInv, IsIdle, Lost
<1> QED BY <1>1, <1>2, <1>4, <1>5, <1>6, <1>7 DEF FInv

\* The states of TFTP_WRQ_server, also when it spoils a file.
LEMMA TakeStatesStep ==
    ASSUME st \in TakeStates, FNext PROVE st' \in TakeStates
<1>1. CASE TakeRequest
  BY <1>1 DEF TakeRequest, TakeStates
<1>2. CASE TakeData
  <2>1. PICK m \in net : st' \in TakeStates
    BY <1>2 DEF TakeData, TakeStates
  <2> QED BY <2>1
<1>3. ~ (ReadData \/ ClientError \/ WriteData \/ ServeRequest \/ ServeAck)
  BY DEF TakeStates, ReadData, ClientError, WriteData, ServeRequest, ServeAck
<1>4. TakeRequest \/ TakeData \/ st' = st
  BY <1>3 DEF FNext, Receive, PeerReceive, Timeout, Lose, ServerStarts,
              PeerOptions, PeerData, PeerAck, PeerError, PeerDataAgain,
              PeerTimeout, automaton
<1> QED BY <1>1, <1>2, <1>4

LEMMA FInvStep ==
    ASSUME FInv, FNext PROVE FInv'
<1>1. SetupOK /\ SetupOK' /\ role' = role /\ (Spoilt' <=> Spoilt)
  BY SetupConstant DEF FInv, SetupOK, setup, Spoilt
<1> QED BY <1>1, ReadStep, WriteStep, TakeStep, TakeStatesStep, ServeStep DEF FInv

LEMMA FInvAlways == FSpec => []FInv
<1>1. FInv /\ [FNext]_fVars => FInv'
  BY FInvStutters, FInvStep
<1> QED BY <1>1, FInvStarts, PTL DEF FSpec

\* What the receiver has of the file that p sends.
Has(p) == IF p \in {Scapy, tid} THEN Len(Received) ELSE 0

\* The block of a sender is one ahead of its receiver at most, and so is every
\* piece of data under way.
InStep ==
    /\ role \in {"write", "serve"} => blk <= Has(Scapy) + 1
    /\ ~Spoilt =>
         /\ \A p \in Peers : peer[p].st = "sending" => peer[p].blk <= Has(p) + 1
         /\ \A m \in net : m.op = "DATA" => m.data.piece <= Has(m.from) + 1

\* A packet of data carries a piece of the file of the one who sent it.
LEMMA PieceSent ==
    ASSUME NEW p, NEW i, NEW q, NEW b
    PROVE  /\ PieceFrom(p, i).op = "DATA" /\ PieceFrom(p, i).from = p
           /\ PieceFrom(p, i).data.piece = i
           /\ LET m == Packet(q, Scapy, "DATA", b, Data(Scapy, b))
              IN  m.op = "DATA" /\ m.from = Scapy /\ m.data.piece = b
BY DEF PieceFrom, Packet, Data

LEMMA NotData ==
    ASSUME NEW p, NEW op, op # "DATA", NEW b
    PROVE  In(p, op, b).op # "DATA" /\ Out(p, op, b).op # "DATA"
BY DEF In, Out, Packet

LEMMA ReadInStep ==
    ASSUME SetupOK, ReadInv, role = "read" PROVE InStep
<1> USE Ports
<1>1. Received = res /\ Len(res) \in Nat
  BY DEF Received, ReadInv, StartOf
<1>2. \A p \in Servers : Has(p) = IF p = tid THEN Len(res) ELSE 0
  BY <1>1 DEF Has
<1>3. \A p \in Servers : peer[p].st \in {"sending", "done"} =>
         peer[p].blk \in Nat /\ peer[p].blk <= Has(p) + 1
  BY <1>2 DEF ReadInv, SendsAhead, SetupOK
<1>4. \A p \in Peers : peer[p].st = "sending" => peer[p].blk <= Has(p) + 1
  BY <1>3 DEF ReadInv, IsIdle, Peers
<1>5. ASSUME NEW m \in net, m.op = "DATA" PROVE m.data.piece <= Has(m.from) + 1
  <2>1. PICK p \in Servers, i \in 1..size :
          /\ m = PieceFrom(p, i)
          /\ peer[p].st \in {"sending", "done"} /\ i <= peer[p].blk
    BY <1>5, NotData DEF ReadInv, ReadPacket
  <2>2. m.from = p /\ m.data.piece = i
    BY <2>1, PieceSent
  <2>3. Has(p) \in Nat
    BY <1>1, <1>2
  <2> QED BY <1>3, <2>1, <2>2, <2>3 DEF SetupOK
<1> QED BY <1>4, <1>5 DEF InStep

LEMMA WriteInStep ==
    ASSUME SetupOK, WriteInv, role = "write" PROVE InStep
<1> USE Ports
<1>1. Has(Scapy) = IF tid = AnyPort THEN 0 ELSE Len(peer[tid].got)
  BY DEF Has, Received
<1>2. blk <= Has(Scapy) + 1
  BY <1>1 DEF WriteInv
<1>3. \A p \in Peers : peer[p].st # "sending"
  BY DEF WriteInv, IsIdle, Peers
<1>4. ASSUME NEW m \in net, m.op = "DATA" PROVE m.data.piece <= Has(m.from) + 1
  <2>1. PICK b \in 1..size :
          /\ tid \in Servers /\ b <= Len(peer[tid].got) + 1
          /\ m = Packet(tid, Scapy, "DATA", b, Data(Scapy, b))
    BY <1>4, NotData DEF WriteInv, WritePacket
  <2>2. m.from = Scapy /\ m.data.piece = b
    BY <2>1, PieceSent
  <2> QED BY <1>1, <2>1, <2>2
<1> QED BY <1>2, <1>3, <1>4 DEF InStep

LEMMA TakeInStep ==
    ASSUME SetupOK, TakeInv, role = "take" PROVE InStep
<1> USE Ports
<1>1. Received = res /\ Len(res) \in Nat /\ Len(<<>>) = 0
  BY DEF Received, TakeInv, StartOf
<1>2. Has(Client) = Len(res)
  BY <1>1 DEF Has, TakeInv
<1>3. peer[Client].st \in {"sending", "done"} =>
         peer[Client].blk \in Nat /\ peer[Client].blk <= Has(Client) + 1
  BY <1>2 DEF TakeInv, SendsAhead, SetupOK
<1>4. \A p \in Peers : peer[p].st = "sending" => peer[p].blk <= Has(p) + 1
  BY <1>3 DEF TakeInv, IsIdle, Peers
<1>5. ASSUME NEW m \in net, m.op = "DATA" PROVE m.data.piece <= Has(m.from) + 1
  <2>1. PICK i \in 1..size :
          /\ m = PieceFrom(Client, i)
          /\ peer[Client].st \in {"sending", "done"} /\ i <= peer[Client].blk
    BY <1>5, NotData DEF TakeInv, TakePacket
  <2>2. m.from = Client /\ m.data.piece = i
    BY <2>1, PieceSent
  <2> QED BY <1>1, <1>2, <1>3, <2>1, <2>2 DEF SetupOK
<1> QED BY <1>4, <1>5 DEF InStep

LEMMA ServeInStep ==
    ASSUME SetupOK, ServeInv, role = "serve" PROVE InStep
<1> USE Ports
<1>1. Has(Scapy) = Len(peer[Client].got)
  BY DEF Has, Received
<1>2. blk <= Has(Scapy) + 1
  BY <1>1 DEF ServeInv
<1>3. \A p \in Peers : peer[p].st # "sending"
  BY DEF ServeInv, IsIdle, Peers
<1>4. ASSUME NEW m \in net, m.op = "DATA" PROVE m.data.piece <= Has(m.from) + 1
  <2>1. PICK b \in 1..size :
          /\ b <= Len(peer[Client].got) + 1
          /\ m = Packet(Client, Scapy, "DATA", b, Data(Scapy, b))
    BY <1>4, NotData DEF ServeInv, ServePacket
  <2>2. m.from = Scapy /\ m.data.piece = b
    BY <2>1, PieceSent
  <2> QED BY <1>1, <2>1, <2>2
<1> QED BY <1>2, <1>3, <1>4 DEF InStep

LEMMA SpoiltInStep ==
    ASSUME SetupOK, Spoilt PROVE InStep
BY DEF InStep, Spoilt

\* However long the file, however wide the block number and whatever is lost,
\* repeated or overtaken, whoever sends is one block ahead of what its receiver
\* has at most, and no piece under way is further ahead: the two scapy automata
\* that send (tftp.py:211-289, 369-473) and the peers of the two that receive
\* (tftp.py:119-206, 292-366), unless TFTP_WRQ_server spoils the file.
THEOREM TransfersAreInStep == FSpec => []InStep
<1>1. FInv => InStep
  BY ReadInStep, WriteInStep, TakeInStep, ServeInStep, SpoiltInStep, RoleNames
  DEF FInv, SetupOK
<1> QED BY <1>1, FInvAlways, PTL

-----------------------------------------------------------------------------
(* A sender that comes to its end. *)

LEMMA WriterKnows ==
    ASSUME SetupOK, WriteInv, role = "write", FNext, st # "END", st' = "END"
    PROVE  Len(peer'[tid'].got) >= size - 1
<1>1. CASE WriteData
  BY <1>1, WriteDataInv
<1>2. CASE ClientError \/ Timeout \/ Lose
  BY <1>2 DEF ClientError, Timeout, Lose, automaton
<1>3. ASSUME NEW p \in Peers, \/ ServerStarts(p) \/ PeerData(p)
                              \/ PeerTimeout(p) \/ PeerDataAgain(p)
      PROVE  FALSE
  BY <1>3 DEF ServerStarts, PeerData, PeerTimeout, PeerDataAgain, automaton
<1> QED BY <1>1, <1>2, <1>3, WriteActions

LEMMA ServerKnows ==
    ASSUME FInv, FNext, st = "SEND_FILE", st' \in {"END", "WAIT_RRQ"}
    PROVE  Len(peer[Client].got) = size
<1>1. SetupOK /\ ServeInv /\ role = "serve"
  BY RoleNames DEF FInv, SetupOK, ReadInv, WriteInv, TakeStates
<1>2. ServeAck
  <2>1. ~ ServeRequest
    BY DEF ServeRequest
  <2>2. ~ (\/ Timeout \/ Lose
           \/ PeerOptions(Client) \/ PeerData(Client) \/ PeerError(Client)
           \/ PeerTimeout(Client) \/ PeerDataAgain(Client))
    BY DEF Timeout, Lose, PeerOptions, PeerData, PeerError, PeerTimeout,
           PeerDataAgain, automaton
  <2> QED BY <1>1, <2>1, <2>2, ServeActions
<1> QED BY <1>1, <1>2, ServeAckInv

LEMMA ReadPeerKnows ==
    ASSUME SetupOK, ReadInv, role = "read", FNext, NEW p \in Peers,
           peer[p].st = "sending", peer'[p].st = "done"
    PROVE  st = "END" /\ tid = p /\ Len(res) = size
<1>1. p \in Servers /\ peer \in [Peers -> Peer]
  BY Ports DEF ReadInv, IsIdle, Peers
<1>2. peer' # peer
  OBVIOUS
<1>3. PICK r \in Peers : ServerStarts(r) \/ PeerAck(r)
  BY <1>2, ReadActions DEF ReadData, ClientError, Timeout, Lose, PeerTimeout
<1>4. \E q : PeerIs(r, q)
  BY <1>2, <1>3 DEF ServerStarts, PeerAck
<1>5. r = p
  BY <1>1, <1>4 DEF PeerIs
<1>6. PeerAck(p)
  BY <1>3, <1>5 DEF ServerStarts
<1>7. p = tid /\ Len(res) = size
  BY <1>1, <1>6, ReadPeerAckInv
<1> QED BY <1>7 DEF ReadInv

LEMMA TakePeerKnows ==
    ASSUME SetupOK, TakeInv, role = "take", FNext, NEW p \in Peers,
           peer[p].st = "sending", peer'[p].st = "done"
    PROVE  st = "END" /\ tid = p /\ Len(res) = size
<1>1. p = Client /\ peer \in [Peers -> Peer]
  BY DEF TakeInv, IsIdle, Peers
<1>2. peer' # peer
  OBVIOUS
<1>3. PeerOptions(Client) \/ PeerAck(Client)
  BY <1>2, TakeActions DEF TakeRequest, TakeData, Timeout, Lose, PeerTimeout
<1>4. PeerAck(Client)
  BY <1>1, <1>3 DEF PeerOptions
<1>5. Len(res) = size
  BY <1>1, <1>4, TakePeerAckInv
<1> QED BY <1>1, <1>5 DEF TakeInv

LEMMA WriterHearsNoSender ==
    WriteInv => \A p \in Peers : peer[p].st # "sending"
BY DEF WriteInv, IsIdle, Peers

LEMMA ServerHearsNoSender ==
    ServeInv => \A p \in Peers : peer[p].st # "sending"
BY DEF ServeInv, IsIdle, Peers

\* A sender that comes to its end can rely on it: TFTP_RRQ_server (no_more_data,
\* tftp.py:461-466) and both peers that send have had the last piece
\* acknowledged by the one who has it all, TFTP_write (SEND_DATA,
\* tftp.py:270-277) all but the last.
THEOREM SendersKnow == FSpec => SenderKnows
<1>1. ASSUME FInv, FNext
      PROVE  /\ role = "write" /\ st # "END" /\ st' = "END"
                  => Len(peer'[tid'].got) >= size - 1
             /\ st = "SEND_FILE" /\ st' \in {"END", "WAIT_RRQ"}
                  => Len(peer[Client].got) = size
             /\ \A p \in Peers :
                  peer[p].st = "sending" /\ peer'[p].st = "done" /\ ~Spoilt
                    => st = "END" /\ tid = p /\ Len(res) = size
  <2>1. SetupOK /\ role \in {"read", "write", "take", "serve"}
    BY <1>1, RoleNames DEF FInv, SetupOK
  <2>2. role = "write" /\ st # "END" /\ st' = "END"
           => Len(peer'[tid'].got) >= size - 1
    BY <1>1, WriterKnows DEF FInv
  <2>3. st = "SEND_FILE" /\ st' \in {"END", "WAIT_RRQ"}
           => Len(peer[Client].got) = size
    BY <1>1, ServerKnows
  <2>4. ASSUME NEW p \in Peers, peer[p].st = "sending", peer'[p].st = "done",
               ~Spoilt
        PROVE  st = "END" /\ tid = p /\ Len(res) = size
    <3>1. CASE role = "read"
      BY <1>1, <2>4, <3>1, ReadPeerKnows DEF FInv
    <3>2. CASE role = "take"
      BY <1>1, <2>4, <3>2, TakePeerKnows DEF FInv
    <3>3. CASE role \in {"write", "serve"}
      BY <1>1, <2>4, <3>3, WriterHearsNoSender, ServerHearsNoSender DEF FInv
    <3> QED BY <2>1, <3>1, <3>2, <3>3
  <2> QED BY <2>2, <2>3, <2>4
<1>2. ASSUME FInv, UNCHANGED fVars
      PROVE  /\ role = "write" /\ st # "END" /\ st' = "END"
                  => Len(peer'[tid'].got) >= size - 1
             /\ st = "SEND_FILE" /\ st' \in {"END", "WAIT_RRQ"}
                  => Len(peer[Client].got) = size
             /\ \A p \in Peers :
                  peer[p].st = "sending" /\ peer'[p].st = "done" /\ ~Spoilt
                    => st = "END" /\ tid = p /\ Len(res) = size
  BY <1>2 DEF fVars, automaton
<1> QED BY <1>1, <1>2, FInvAlways, PTL DEF FSpec, SenderKnows

-----------------------------------------------------------------------------
(* The refinement of Transfer. *)

\* The receiver of Transfer, and who its file is from.
Mapped == IF Spoilt \/ Lost THEN <<>> ELSE Received
Finished == Complete /\ ~Spoilt /\ ~Lost
Holds(src) == StartOf(Mapped, src) /\ (Finished <=> Len(Mapped) = size)

\* The start of a file grows in one way only.
LEMMA OneLonger ==
    ASSUME NEW src, NEW g, NEW h, StartOf(g, src), StartOf(h, src),
           Len(h) = Len(g) + 1
    PROVE  /\ h = Append(g, Data(src, Len(g) + 1))
           /\ \A i \in DOMAIN g : g[i].src = src
<1>1. /\ g \in Seq(Pieces) /\ h \in Seq(Pieces) /\ Len(g) \in Nat
      /\ \A i \in 1..Len(g) : g[i] = Data(src, i)
      /\ \A i \in 1..Len(h) : h[i] = Data(src, i)
  BY DEF StartOf
<1>2. Data(src, Len(g) + 1) \in Pieces
  <2>1. Len(h) \in 1..Len(h)
    BY <1>1
  <2> QED BY <1>1, <2>1
<1> DEFINE d == Data(src, Len(g) + 1)
<1>3. /\ Append(g, d) \in Seq(Pieces) /\ Len(Append(g, d)) = Len(g) + 1
      /\ \A i \in 1..Len(g) : Append(g, d)[i] = g[i]
      /\ Append(g, d)[Len(g) + 1] = d
  BY <1>1, <1>2
<1>4. \A i \in 1..Len(h) : Append(g, d)[i] = h[i]
  BY <1>1, <1>3
<1> HIDE DEF d
<1>5. h = Append(g, d)
  BY <1>1, <1>3, <1>4
<1>6. \A i \in DOMAIN g : g[i].src = src
  BY <1>1 DEF Data
<1> QED BY <1>5, <1>6 DEF d

LEMMA DeliversOne ==
    ASSUME SetupOK, NEW src \in Peers \cup {Scapy}, size' = size, Holds(src),
           Holds(src)', Len(Mapped') = Len(Mapped) + 1
    PROVE  Promise!Deliver(src)
<1>1. StartOf(Mapped, src)' => StartOf(Mapped', src)
  BY DEF StartOf
<1>2. /\ Mapped' = Append(Mapped, Data(src, Len(Mapped) + 1))
      /\ \A i \in DOMAIN Mapped : Mapped[i].src = src
  BY <1>1, OneLonger DEF Holds
<1>3. ~Finished
  BY <1>1 DEF Holds, StartOf, SetupOK
<1>4. Finished' <=> Len(Mapped') = size
  BY DEF Holds
<1>5. Finished' = (Len(Mapped') = size')
  BY <1>4 DEF Finished
<1>6. Data(src, Len(Mapped) + 1) = Promise!Piece(src, Len(Mapped) + 1)
  BY DEF Data, Promise!Piece
<1> QED BY <1>2, <1>3, <1>5, <1>6 DEF Promise!Deliver, Mapped, Finished

\* No step of Transfer.
Same == UNCHANGED <<Mapped, Finished>>

LEMMA ReadDelivers ==
    ASSUME SetupOK, ReadInv, ReadInv', role = "read", UNCHANGED setup, FNext
    PROVE  Same \/ \E src \in Peers \cup {Scapy} : Promise!Deliver(src)
<1> USE Ports
<1>1. /\ Mapped = res /\ Mapped' = res'
      /\ Finished <=> st = "END"
      /\ (Finished <=> st = "END")'
  BY DEF Mapped, Finished, Spoilt, Lost, Received, Complete, setup, SetupOK,
         Flags
<1>2. CASE ReadData
  <2>1. PICK m \in net : /\ tid = AnyPort \/ m.from = tid
                         /\ tid' = m.from /\ res' = Append(res, m.data)
    BY <1>2 DEF ReadData, Mine
  <2>2. res \in Seq(Pieces) /\ res' \in Seq(Pieces) /\ Len(res) \in Nat
    BY DEF ReadInv, StartOf
  <2>3. Len(res') = Len(res) + 1
    BY <2>1, <2>2
  <2>4. tid' \in Servers /\ tid \in Servers \cup {AnyPort}
    BY <2>2, <2>3 DEF ReadInv
  <2>5. PICK s : s = tid'
    OBVIOUS
  <2>6. StartOf(res, s)
    BY <2>1, <2>5, StartEmpty DEF ReadInv
  <2>7. StartOf(res, s)'
    BY <2>5 DEF ReadInv, StartOf
  <2>8. Holds(s)
    BY <1>1, <2>6 DEF Holds, ReadInv
  <2>9. Holds(s)'
    BY <1>1, <2>7 DEF Holds, ReadInv, StartOf
  <2> QED BY <1>1, <2>3, <2>4, <2>5, <2>8, <2>9, DeliversOne DEF setup
<1>3. CASE ClientError \/ Timeout \/ Lose
  <2>1. res' = res /\ (st' = "END" <=> st = "END")
    BY <1>3 DEF ClientError, Timeout, Lose, automaton
  <2> QED BY <1>1, <2>1 DEF Same, Finished
<1>4. ASSUME NEW p \in Peers, ServerStarts(p) \/ PeerAck(p) \/ PeerTimeout(p)
      PROVE  Same
  <2>1. res' = res /\ st' = st
    BY <1>4 DEF ServerStarts, PeerAck, PeerTimeout, automaton
  <2> QED BY <1>1, <2>1 DEF Same, Finished
<1> QED BY <1>2, <1>3, <1>4, ReadActions

LEMMA WriteDelivers ==
    ASSUME SetupOK, WriteInv, WriteInv', role = "write", UNCHANGED setup, FNext
    PROVE  Same \/ \E src \in Peers \cup {Scapy} : Promise!Deliver(src)
<1> USE Ports
<1> DEFINE has == IF tid = AnyPort THEN <<>> ELSE peer[tid].got
<1>1. /\ Mapped = has /\ Mapped' = has'
      /\ Finished <=> tid # AnyPort /\ peer[tid].st = "done"
      /\ (Finished <=> tid # AnyPort /\ peer[tid].st = "done")'
  BY DEF Mapped, Finished, Spoilt, Lost, Received, Complete, setup, SetupOK,
         Flags
<1>2. /\ Finished <=> Len(Mapped) = size
      /\ (Finished <=> Len(Mapped) = size)'
      /\ StartOf(Mapped, Scapy) /\ StartOf(Mapped, Scapy)'
  <2>1. Len(<<>>) = 0 /\ size # 0 /\ size' # 0 /\ StartOf(<<>>, Scapy)
    BY StartEmpty DEF SetupOK, setup
  <2>2. StartOf(<<>>, Scapy)'
    BY <2>1 DEF StartOf, setup
  <2> QED BY <1>1, <2>1, <2>2 DEF WriteInv
<1>3. CASE WriteData
  <2>1. PICK m \in net : (tid = AnyPort \/ m.from = tid) /\ tid' = m.from
    BY <1>3 DEF WriteData, Mine
  <2>2. UNCHANGED peer
    BY <1>3 DEF WriteData
  <2>3. CASE tid' = tid
    BY <1>1, <2>2, <2>3 DEF Same, Finished
  <2>4. CASE tid = AnyPort /\ tid' # AnyPort
    <3>1. peer'[tid'].got = <<>>
      BY <2>2, <2>4 DEF WriteInv
    <3>2. Mapped = <<>> /\ Mapped' = <<>>
      BY <1>1, <2>4, <3>1
    <3> QED BY <1>2, <3>2 DEF Same, Finished, setup
  <2> QED BY <2>1, <2>3, <2>4
<1>4. CASE ClientError \/ Timeout \/ Lose
  <2>1. UNCHANGED <<tid, peer>>
    BY <1>4 DEF ClientError, Timeout, Lose, automaton
  <2> QED BY <1>1, <2>1 DEF Same, Finished
<1>5. ASSUME NEW p \in Peers, ServerStarts(p)
      PROVE  Same
  <2>1. UNCHANGED tid /\ (UNCHANGED peer \/ \E q : PeerIs(p, q) /\ q.got = <<>>)
    BY <1>5, StartedSending, StartedReceiving DEF ServerStarts, automaton
  <2>2. peer[p].got = <<>> /\ peer \in [Peers -> Peer]
    BY <1>5 DEF ServerStarts, WriteInv
  <2>3. tid # AnyPort => peer'[tid].got = peer[tid].got
    BY <2>1, <2>2 DEF PeerIs, WriteInv, Peers
  <2>4. Mapped' = Mapped
    BY <1>1, <2>1, <2>3
  <2> QED BY <1>2, <2>4 DEF Same, Finished, setup
<1>6. ASSUME NEW p \in Peers, PeerData(p)
      PROVE  Same \/ Promise!Deliver(Scapy)
  <2>1. PICK d, s : PeerIs(p, [peer[p] EXCEPT !.got = Append(@, d), !.st = s])
    BY <1>6 DEF PeerData
  <2>2. UNCHANGED tid /\ peer \in [Peers -> Peer]
    BY <1>6 DEF PeerData, automaton, WriteInv
  <2>3. CASE p = tid
    <3>a. tid # AnyPort /\ peer[p] \in Peer
      BY <2>2, <2>3 DEF Peers
    <3>b. peer'[p] = [peer[p] EXCEPT !.got = Append(@, d), !.st = s]
      BY <2>1, <2>2 DEF PeerIs
    <3>c. peer'[p].got = Append(peer[p].got, d)
      BY <3>a, <3>b DEF Peer
    <3>1. peer'[tid].got = Append(peer[tid].got, d) /\ tid # AnyPort
      BY <2>3, <3>a, <3>c
    <3>2. Mapped' = Append(Mapped, d)
      BY <1>1, <2>2, <3>1
    <3>3. Len(Mapped') = Len(Mapped) + 1
      BY <1>2, <3>2 DEF StartOf
    <3> QED BY <1>2, <3>3, DeliversOne DEF Holds, setup
  <2>4. CASE p # tid
    <3>1. tid # AnyPort => peer'[tid] = peer[tid]
      BY <2>1, <2>2, <2>4 DEF PeerIs, WriteInv, Peers
    <3>2. Mapped' = Mapped
      BY <1>1, <2>2, <3>1
    <3> QED BY <1>2, <3>2 DEF Same, Finished, setup
  <2> QED BY <2>3, <2>4
<1>7. ASSUME NEW p \in Peers, PeerTimeout(p) \/ PeerDataAgain(p)
      PROVE  Same
  <2>1. UNCHANGED <<tid, peer>>
    BY <1>7 DEF PeerTimeout, PeerDataAgain, automaton
  <2> QED BY <1>1, <2>1 DEF Same, Finished
<1> QED BY <1>3, <1>4, <1>5, <1>6, <1>7, WriteActions

LEMMA TakeDelivers ==
    ASSUME SetupOK, TakeInv, TakeInv', role = "take", ~Spoilt,
           UNCHANGED setup, FNext
    PROVE  Same \/ \E src \in Peers \cup {Scapy} : Promise!Deliver(src)
<1> USE Ports
<1>1. /\ Mapped = res /\ Mapped' = res'
      /\ Finished <=> st = "END"
      /\ (Finished <=> st = "END")'
  BY DEF Mapped, Finished, Spoilt, Lost, Received, Complete, setup, SetupOK,
         Flags
<1>2. Holds(Client) /\ Holds(Client)'
  BY <1>1 DEF Holds, TakeInv
<1>3. CASE TakeData
  <2>1. PICK m \in net : res' = Append(res, m.data)
    BY <1>3 DEF TakeData, Padded, Spoilt
  <2>2. Len(res') = Len(res) + 1
    BY <2>1 DEF TakeInv, StartOf
  <2> QED BY <1>1, <1>2, <2>2, DeliversOne DEF setup
<1>4. CASE TakeRequest
  <2>1. UNCHANGED res
    BY <1>4 DEF TakeRequest
  <2> QED BY <1>1, <1>2, <2>1 DEF Same, Holds, Finished, setup
<1>5. CASE \/ Timeout \/ Lose \/ PeerOptions(Client) \/ PeerAck(Client)
           \/ PeerTimeout(Client)
  <2>1. UNCHANGED <<res, st>>
    BY <1>5 DEF Timeout, Lose, PeerOptions, PeerAck, PeerTimeout, automaton
  <2> QED BY <1>1, <2>1 DEF Same, Finished
<1> QED BY <1>3, <1>4, <1>5, TakeActions

LEMMA ServeDelivers ==
    ASSUME SetupOK, ServeInv, ServeInv', role = "serve", UNCHANGED setup, FNext
    PROVE  Same \/ \E src \in Peers \cup {Scapy} : Promise!Deliver(src)
<1> USE Ports
<1>1. /\ ~Spoilt /\ Received = peer[Client].got
      /\ ~Spoilt' /\ Received' = peer'[Client].got
  BY DEF Spoilt, Received, setup
<1>a. Complete <=> peer[Client].st = "done"
  BY DEF Complete
<1>b. Complete' <=> peer'[Client].st = "done"
  BY DEF Complete, setup
<1>2. ~Lost => Mapped = peer[Client].got /\ Holds(Scapy)
  <2> SUFFICES ASSUME ~Lost
               PROVE  Mapped = peer[Client].got /\ Holds(Scapy)
    OBVIOUS
  <2>1. Mapped = peer[Client].got
    BY <1>1 DEF Mapped
  <2>2. Finished <=> peer[Client].st = "done"
    BY <1>1, <1>a DEF Finished
  <2> QED BY <2>1, <2>2 DEF Holds, ServeInv
<1>3. ~Lost' => Mapped' = peer'[Client].got /\ Holds(Scapy)'
  <2> SUFFICES ASSUME ~Lost'
               PROVE  Mapped' = peer'[Client].got /\ Holds(Scapy)'
    OBVIOUS
  <2>1. Mapped' = peer'[Client].got
    BY <1>1 DEF Mapped
  <2>2. Finished' <=> peer'[Client].st = "done"
    BY <1>1, <1>b DEF Finished
  <2> QED BY <2>1, <2>2 DEF Holds, ServeInv
<1>4. Lost => Mapped = <<>> /\ ~Finished
  BY DEF Mapped, Finished
<1>5. Lost' => Mapped' = <<>> /\ ~Finished'
  BY DEF Mapped, Finished
<1>6. ASSUME Lost' <=> Lost, peer'[Client].got = peer[Client].got
      PROVE  Same
  <2>1. Mapped' = Mapped
    BY <1>2, <1>3, <1>4, <1>5, <1>6
  <2>2. Finished' <=> Finished
    BY <1>2, <1>3, <1>4, <1>5, <1>6, <2>1 DEF Holds, setup
  <2> QED BY <2>1, <2>2 DEF Same, Finished
<1>7. CASE \/ ServeRequest \/ ServeAck \/ Timeout \/ Lose
           \/ PeerTimeout(Client) \/ PeerDataAgain(Client)
  <2>1. UNCHANGED peer
    BY <1>7 DEF ServeRequest, ServeAck, Timeout, Lose, PeerTimeout,
                PeerDataAgain
  <2>2. Lost' <=> Lost
    BY <2>1 DEF Lost, setup
  <2> QED BY <1>6, <2>1, <2>2
<1>8. CASE PeerOptions(Client)
  <2>1. peer[Client].got = <<>> /\ peer'[Client].got = <<>>
    BY <1>8, ServeOptionsInv
  <2>2. Len(<<>>) # size
    BY DEF SetupOK
  <2>3. Mapped = <<>> /\ ~Finished
    BY <1>2, <1>4, <2>1, <2>2 DEF Holds
  <2>4. Mapped' = <<>> /\ ~Finished'
    BY <1>3, <1>5, <2>1, <2>2 DEF Holds, setup
  <2> QED BY <2>3, <2>4 DEF Same, Finished
<1>9. CASE PeerError(Client)
  <2>1. /\ peer'[Client].got = peer[Client].got
        /\ peer'[Client].optioned = peer[Client].optioned
    BY <1>9, ServePeerErrorInv
  <2>2. Lost' <=> Lost
    BY <2>1 DEF Lost, setup
  <2> QED BY <1>6, <2>1, <2>2
<1>10. CASE PeerData(Client)
  <2>1. /\ Len(peer'[Client].got) = Len(peer[Client].got) + 1
        /\ Lost' <=> Lost
    BY <1>10, ServePeerDataInv
  <2>2. CASE Lost
    BY <1>4, <1>5, <2>1, <2>2 DEF Same, Finished
  <2>3. CASE ~Lost
    BY <1>2, <1>3, <2>1, <2>3, DeliversOne DEF setup
  <2> QED BY <2>2, <2>3
<1> QED BY <1>7, <1>8, <1>9, <1>10, ServeActions

\* Whatever the network loses, repeats and reorders, the receiver gets the
\* pieces of one file in order, and calls it complete (the END of
\* tftp.py:204-206 and 364-366, or the peer's) exactly when it has all of
\* them: every step of the four automata is a step of Transfer or none.
THEOREM TransfersDeliver == FSpec => TransferDelivers
<1>1. ASSUME FInit PROVE Promise!Init
  <2>1. SetupOK
    BY <1>1, FInvStarts DEF FInv
  <2>2. role \in {"read", "write", "take", "serve"}
    BY <2>1, RoleNames DEF SetupOK
  <2>3. Received = <<>>
    BY <1>1, <2>2, FirstPeers, Ports DEF FInit, Received
  <2>4. Mapped = <<>>
    BY <2>3 DEF Mapped
  <2>5. ~Complete
    <3>1. CASE role \in {"read", "take"}
      <4>1. st # "END"
        BY <1>1, <3>1 DEF FInit
      <4> QED BY <3>1, <4>1 DEF Complete
    <3>2. CASE role = "write"
      <4>1. tid = AnyPort
        BY <1>1 DEF FInit
      <4> QED BY <3>2, <4>1 DEF Complete
    <3>3. CASE role = "serve"
      <4>1. peer[Client].st = "asking"
        BY <1>1, <3>3, FirstPeers
      <4> QED BY <3>3, <4>1 DEF Complete
    <3> QED BY <2>2, <3>1, <3>2, <3>3
  <2>6. Finished = FALSE
    BY <2>5 DEF Finished
  <2> QED BY <2>1, <2>4, <2>6 DEF Promise!Init, Mapped, Finished, SetupOK
<1>2. ASSUME FInv, FInv', FNext
      PROVE  Promise!Next \/ UNCHANGED Promise!tVars
  <2>1. SetupOK /\ UNCHANGED setup /\ role' = role
    BY <1>2, SetupConstant DEF FInv, setup
  <2>2. role \in {"read", "write", "take", "serve"}
    BY <2>1, RoleNames DEF SetupOK
  <2>3. Spoilt' <=> Spoilt
    BY <2>1 DEF Spoilt, setup
  <2>4. Same \/ \E src \in Peers \cup {Scapy} : Promise!Deliver(src)
    <3>1. CASE role = "read"
      BY <1>2, <2>1, <3>1, ReadDelivers DEF FInv
    <3>2. CASE role = "write"
      BY <1>2, <2>1, <3>2, WriteDelivers DEF FInv
    <3>3. CASE role = "take" /\ ~Spoilt
      BY <1>2, <2>1, <2>3, <3>3, TakeDelivers DEF FInv
    <3>4. CASE role = "serve"
      BY <1>2, <2>1, <3>4, ServeDelivers DEF FInv
    <3>5. CASE Spoilt
      BY <2>3, <3>5 DEF Same, Mapped, Finished
    <3> QED BY <2>2, <3>1, <3>2, <3>3, <3>4, <3>5
  <2>5. Same => UNCHANGED Promise!tVars
    BY <2>1 DEF Same, Mapped, Finished, Promise!tVars, setup
  <2> QED BY <2>4, <2>5 DEF Promise!Next
<1>3. ASSUME UNCHANGED fVars PROVE UNCHANGED Promise!tVars
  BY <1>3 DEF fVars, setup, automaton, Promise!tVars, Spoilt, Lost, Received,
              Complete
<1>4. FInv /\ FInv' /\ [FNext]_fVars => [Promise!Next]_Promise!tVars
  BY <1>2, <1>3
<1> QED BY <1>1, <1>4, FInvAlways, PTL
        DEF FSpec, TransferDelivers, Promise!Spec
=============================================================================
