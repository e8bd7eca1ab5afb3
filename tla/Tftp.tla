-------------------------------- MODULE Tftp --------------------------------
(***************************************************************************)
(* The four TFTP automata of scapy's layers/tftp.py, each against the      *)
(* other side of its protocol, over a network that loses, duplicates and   *)
(* reorders packets:                                                       *)
(*   "read"   TFTP_read, getting a file from a server                      *)
(*   "write"  TFTP_write, putting a file on a server                       *)
(*   "take"   TFTP_WRQ_server, getting a file from a client that writes    *)
(*   "serve"  TFTP_RRQ_server, giving a file to a client that reads        *)
(* A server process takes up every request it sees, each under a transfer  *)
(* identifier (a UDP port) of its own, as RFC 1350 has it.                 *)
(*                                                                         *)
(* A file is a number of pieces, the last one shorter than a block, and    *)
(* empty when the file's length is a multiple of the block size.           *)
(***************************************************************************)
EXTENDS Integers, Sequences, FiniteSets

CONSTANTS
    Servers,    \* the processes of the server scapy talks to
    Client,     \* the client that talks to scapy
    Scapy,      \* scapy as the source of data
    Sizes,      \* bound: the pieces of a file
    MaxBlock    \* the largest block number, 65535 in a packet

AnyPort == "port 69"    \* where requests go, before anybody has answered

ASSUME TftpAssumption ==
    /\ Sizes \subseteq Nat \ {0} /\ MaxBlock \in Nat \ {0}
    /\ Client \notin Servers /\ Scapy \notin Servers \cup {Client}
    /\ AnyPort \notin Servers \cup {Client, Scapy}

\* What else may be so of a transfer:
\* "exact"    the last piece is empty
\* "bare"     the client's request has no options
\* "small"    the client asks for blocks of less than 512 bytes
\* "missing"  the file is not there
\* "one"      serve_one
Flags == [read |-> {"missing"}, write |-> {}, take |-> {"exact", "bare"},
          serve |-> {"small", "bare", "missing", "one"}]

Roles == DOMAIN Flags
Peers == Servers \cup {Client}

VARIABLES
    role, flags, size,  \* the transfer: constant
    st,         \* the automaton's state
    blk,        \* its awaiting or blk
    tid,        \* its server_tid: whom it talks to
    last,       \* its last_packet
    res,        \* its res or filedata
    peer,       \* the other side
    net         \* packets under way

setup == <<role, flags, size>>
automaton == <<st, blk, tid, last, res>>
fVars == <<setup, automaton, peer, net>>

Wire(b) == b % (MaxBlock + 1)   \* a 16 bit field

\* Packets to and from a peer; a piece of data carries where it comes from.
Packet(to, from, op, b, data) ==
    [to |-> to, from |-> from, op |-> op, block |-> b, data |-> data]
NoData == <<>>
Data(src, i) == [src |-> src, piece |-> i]
In(p, op, b) == Packet(Scapy, p, op, b, NoData)
Out(p, op, b) == Packet(p, Scapy, op, b, NoData)

Request == CASE role = "read" -> Out(AnyPort, "RRQ", 0)
             [] role = "write" -> Out(AnyPort, "WRQ", 0)
             [] role = "take" -> In(Client, "WRQ", 0)
             [] role = "serve" -> In(Client, "RRQ", 0)

Idle == [st |-> "idle", blk |-> 0, got |-> <<>>, optioned |-> FALSE]

FInit ==
    /\ role \in Roles
    /\ flags \in SUBSET Flags[role]
    /\ size \in Sizes
    /\ st = CASE role = "read" -> "WAITING" [] role = "write" -> "WAITING_ACK"
              [] role = "take" -> "BEGIN" [] role = "serve" -> "WAIT_RRQ"
    /\ blk = IF role \in {"read", "take"} THEN 1 ELSE 0
    /\ tid = AnyPort
    /\ last = Request
    /\ res = <<>>
    /\ peer = [p \in Peers |-> IF p = Client /\ role \in {"take", "serve"}
                                 THEN [Idle EXCEPT !.st = "asking"] ELSE Idle]
    /\ net = {Request}

\* A packet may arrive again later; those in out are sent.
Arrives(m, out) == net' \in {net \cup out, (net \ {m}) \cup out}

-----------------------------------------------------------------------------
(* TFTP_read *)

\* Both clients: once the server has answered, only its port counts.
Mine(m) == m.to = Scapy /\ (tid = AnyPort \/ m.from = tid)

Awaited_Earlier(m) == m.block <= blk
Awaited(m) == m.block = blk

ReadData ==
    /\ st = "WAITING"
    /\ \E m \in net :
        /\ m.op = "DATA" /\ Mine(m) /\ Awaited(m)
        /\ tid' = m.from
        /\ last' = Out(tid', "ACK", blk)
        /\ Arrives(m, {last'})
        /\ res' = Append(res, m.data)
        /\ blk' = blk + 1
        /\ st' = IF m.data.piece = size THEN "END" ELSE "WAITING"
    /\ UNCHANGED <<setup, peer>>

ClientError ==
    /\ st \in {"WAITING", "WAITING_ACK"}
    /\ \E m \in net : m.op = "ERROR" /\ Mine(m) /\ Arrives(m, {})
    /\ st' = "ERROR"
    /\ UNCHANGED <<setup, blk, tid, last, res, peer>>

-----------------------------------------------------------------------------
(* TFTP_write *)

\* A block number that does not fit is an exception when the packet is built.
NextData ==
    LET packet == Packet(tid', Scapy, "DATA", blk + 1, Data(Scapy, blk + 1))
    IN  IF blk + 1 > MaxBlock
          THEN st' = "EXCEPTION" /\ UNCHANGED last
          ELSE /\ last' = packet
               /\ st' = IF blk + 1 = size THEN "END" ELSE "WAITING_ACK"

WriteData ==
    /\ st = "WAITING_ACK"
    /\ \E m \in net :
        /\ m.op = "ACK" /\ Mine(m) /\ Awaited(m)
        /\ tid' = m.from
        /\ NextData
        /\ Arrives(m, IF st' = "EXCEPTION" THEN {} ELSE {last'})
    /\ blk' = blk + 1
    /\ UNCHANGED <<setup, res, peer>>

-----------------------------------------------------------------------------
(* TFTP_WRQ_server *)

\* A request without options has no options layer to look for.
TakeRequest ==
    /\ st = "BEGIN"
    /\ \E m \in net :
        /\ m.op = "WRQ"
        /\ tid' = m.from
        /\ IF "bare" \in flags
             THEN st' = "EXCEPTION" /\ Arrives(m, {}) /\ UNCHANGED last
             ELSE /\ st' = "WAIT_DATA"
                  /\ last' = Out(m.from, "OACK", 0)
                  /\ Arrives(m, {last'})
    /\ UNCHANGED <<setup, blk, res, peer>>

\* An empty piece has no payload to load, or only what fills up the frame.
Padded(m) == "exact" \in flags /\ m.data.piece = size

TakeData ==
    /\ st = "WAIT_DATA"
    /\ \E m \in net :
        /\ m.op = "DATA" /\ m.to = Scapy /\ Awaited(m)
        /\ last' = Out(tid, "ACK", blk)
        /\ Arrives(m, {last'})
        /\ \/ /\ ~Padded(m)
              /\ res' = Append(res, m.data)
              /\ st' = IF m.data.piece = size THEN "END" ELSE "WAIT_DATA"
           \/ /\ Padded(m)
              /\ res' = Append(res, Data("padding", m.data.piece))
              /\ st' = "END"
           \/ /\ Padded(m)
              /\ st' = "EXCEPTION"
              /\ UNCHANGED res
        /\ blk' = IF st' = "WAIT_DATA" THEN blk + 1 ELSE blk
    /\ UNCHANGED <<setup, tid, peer>>

-----------------------------------------------------------------------------
(* TFTP_RRQ_server *)

Block(b) == Packet(tid', Scapy, "DATA", b, Data(Scapy, b))

\* The answer to the options is followed by the first block, or by the error.
ServeRequest ==
    /\ st = "WAIT_RRQ"
    /\ \E m \in net :
        /\ m.op = "RRQ"
        /\ tid' = m.from
        /\ LET answer == Out(m.from, "OACK", 0)
           IN  \/ /\ "bare" \in flags
                  /\ st' = "EXCEPTION" /\ Arrives(m, {})
                  /\ UNCHANGED <<blk, last>>
               \/ /\ flags \cap {"bare", "missing"} = {"missing"}
                  /\ st' = "WAIT_RRQ" /\ blk' = 0 /\ last' = answer
                  /\ Arrives(m, {answer, Out(m.from, "ERROR", 0)})
               \/ /\ flags \cap {"bare", "missing"} = {}
                  /\ st' = "SEND_FILE" /\ blk' = 1 /\ last' = answer
                  /\ Arrives(m, {answer, Block(1)})
    /\ UNCHANGED <<setup, res, peer>>

\* len(data)/blksize+1, in which an empty last piece counts too
Blknb_Rounded == IF size = 1 THEN 1 ELSE size - 1
Blknb == size

\* Nobody looks at who sent an acknowledgement.
ServeAck ==
    /\ st = "SEND_FILE"
    /\ UNCHANGED tid
    /\ \E m \in net :
        /\ m.op = "ACK" /\ m.to = Scapy /\ Awaited(m)
        /\ \/ /\ blk >= Blknb
              /\ st' = IF "one" \in flags THEN "END" ELSE "WAIT_RRQ"
              /\ blk' = IF "one" \in flags THEN blk + 1 ELSE 0
              /\ Arrives(m, {})
           \/ /\ blk < Blknb /\ blk < MaxBlock
              /\ st' = "SEND_FILE"
              /\ blk' = blk + 1
              /\ Arrives(m, {Block(blk')})
           \/ /\ blk < Blknb /\ blk = MaxBlock
              /\ st' = "EXCEPTION"
              /\ blk' = blk + 1
              /\ Arrives(m, {})
    /\ UNCHANGED <<setup, last, res, peer>>

\* All four send again what they sent last; the server that gives a file only
\* its block, never its answer to the options.
Again_Last == last
Again == IF st = "SEND_FILE"
           THEN Packet(tid, Scapy, "DATA", blk, Data(Scapy, blk)) ELSE last

Timeout ==
    /\ st \in {"WAITING", "WAITING_ACK", "WAIT_DATA", "SEND_FILE"}
    /\ net' = net \cup {Again}
    /\ UNCHANGED <<setup, automaton, peer>>

-----------------------------------------------------------------------------
(* The other side, as RFC 1350 and RFC 2347 describe it. *)

PeerIs(p, q) == peer' = [peer EXCEPT ![p] = q]

PieceFrom(p, i) == Packet(Scapy, p, "DATA", Wire(i), Data(p, i))

\* What a peer sends when nothing came.
PeerAgain(p) ==
    CASE peer[p].st = "asking" -> Request
      [] peer[p].st = "sending" -> PieceFrom(p, peer[p].blk)
      [] peer[p].st = "receiving" -> In(p, "ACK", Wire(Len(peer[p].got)))

PeerTimeout(p) ==
    /\ peer[p].st \in {"asking", "sending", "receiving"}
    /\ net' = net \cup {PeerAgain(p)}
    /\ UNCHANGED <<setup, automaton, peer>>

\* A process of scapy's server takes up a request, or the server has no file.
ServerStarts(p) ==
    /\ p \in Servers /\ peer[p].st = "idle"
    /\ \E m \in net :
        /\ m.to = AnyPort
        /\ \/ /\ m.op = "RRQ" /\ "missing" \in flags
              /\ Arrives(m, {In(p, "ERROR", 0)})
              /\ UNCHANGED peer
           \/ /\ m.op = "RRQ" /\ "missing" \notin flags
              /\ PeerIs(p, [Idle EXCEPT !.st = "sending", !.blk = 1])
              /\ Arrives(m, {PieceFrom(p, 1)})
           \/ /\ m.op = "WRQ"
              /\ PeerIs(p, [Idle EXCEPT !.st = "receiving"])
              /\ Arrives(m, {In(p, "ACK", 0)})
           \/ /\ m.op = "WRQ"
              /\ Arrives(m, {In(p, "ERROR", 0)})
              /\ UNCHANGED peer
    /\ UNCHANGED <<setup, automaton>>

\* The client's options were answered.
PeerOptions(p) ==
    /\ peer[p].st = "asking"
    /\ \E m \in net :
        /\ m.to = p /\ m.op = "OACK"
        /\ \/ /\ role = "take"
              /\ PeerIs(p, [peer[p] EXCEPT !.st = "sending", !.blk = 1])
              /\ Arrives(m, {PieceFrom(p, 1)})
           \/ /\ role = "serve"
              /\ PeerIs(p, [peer[p] EXCEPT !.st = "receiving", !.optioned = TRUE])
              /\ Arrives(m, {In(p, "ACK", 0)})
    /\ UNCHANGED <<setup, automaton>>

\* A client that gets data at once takes its options for refused; small blocks
\* are then shorter than the 512 bytes of a full one.
LooksShort(p, i) == i = size \/ ("small" \in flags /\ ~peer[p].optioned)

PeerData(p) ==
    /\ peer[p].st \in {"asking", "receiving"}
    /\ \E m \in net :
        /\ m.to = p /\ m.op = "DATA" /\ m.block = Wire(Len(peer[p].got) + 1)
        /\ PeerIs(p, [peer[p] EXCEPT
                        !.got = Append(@, m.data),
                        !.st = IF LooksShort(p, m.data.piece) THEN "done"
                                                         ELSE "receiving"])
        /\ Arrives(m, {In(p, "ACK", m.block)})
    /\ UNCHANGED <<setup, automaton>>

\* The last block again: its acknowledgement was lost.
PeerDataAgain(p) ==
    /\ peer[p].got # <<>>
    /\ \E m \in net :
        /\ m.to = p /\ m.op = "DATA" /\ m.block = Wire(Len(peer[p].got))
        /\ Arrives(m, {In(p, "ACK", m.block)})
    /\ UNCHANGED <<setup, automaton, peer>>

PeerAck(p) ==
    /\ peer[p].st = "sending"
    /\ \E m \in net :
        /\ m.to = p /\ m.op = "ACK" /\ m.block = Wire(peer[p].blk)
        /\ \/ /\ peer[p].blk = size
              /\ PeerIs(p, [peer[p] EXCEPT !.st = "done"])
              /\ Arrives(m, {})
           \/ /\ peer[p].blk < size
              /\ PeerIs(p, [peer[p] EXCEPT !.blk = @ + 1])
              /\ Arrives(m, {PieceFrom(p, peer[p].blk + 1)})
    /\ UNCHANGED <<setup, automaton>>

PeerError(p) ==
    /\ peer[p].st \in {"asking", "receiving"}
    /\ \E m \in net : m.to = p /\ m.op = "ERROR" /\ Arrives(m, {})
    /\ PeerIs(p, [peer[p] EXCEPT !.st = "failed"])
    /\ UNCHANGED <<setup, automaton>>

-----------------------------------------------------------------------------
\* Lost on the way, or read by somebody who does not wait for it.
Lose ==
    /\ \E m \in net : net' = net \ {m}
    /\ UNCHANGED <<setup, automaton, peer>>

Receive == ReadData \/ ClientError \/ WriteData \/ TakeRequest \/ TakeData
             \/ ServeRequest \/ ServeAck

PeerReceive(p) == ServerStarts(p) \/ PeerOptions(p) \/ PeerData(p)
                    \/ PeerAck(p) \/ PeerError(p)

FNext == Receive \/ Timeout \/ Lose
           \/ \E p \in Peers : PeerReceive(p) \/ PeerDataAgain(p) \/ PeerTimeout(p)

\* Timers run out, and of packets sent again and again some arrive.
FSpec == /\ FInit /\ [][FNext]_fVars
         /\ WF_fVars(Timeout) /\ SF_fVars(Receive)
         /\ \A p \in Peers : /\ WF_fVars(PeerTimeout(p))
                            /\ SF_fVars(PeerReceive(p))
                            /\ SF_fVars(PeerDataAgain(p))

-----------------------------------------------------------------------------
(* Properties *)

\* Who receives, and what it has. A client's options must not be lost on it,
\* and the empty piece at the end must not be written to TFTP_WRQ_server.
Lost == "small" \in flags /\ ~peer[Client].optioned
Spoilt == role = "take" /\ "exact" \in flags

Received ==
    CASE role \in {"read", "take"} -> res
      [] role = "write" -> IF tid = AnyPort THEN <<>> ELSE peer[tid].got
      [] role = "serve" -> peer[Client].got

Complete ==
    CASE role \in {"read", "take"} -> st = "END"
      [] role = "write" -> tid # AnyPort /\ peer[tid].st = "done"
      [] role = "serve" -> peer[Client].st = "done"

Promise == INSTANCE Transfer WITH
    Sources <- Peers \cup {Scapy},
    got <- IF Spoilt \/ Lost THEN <<>> ELSE Received,
    complete <- Complete /\ ~Spoilt /\ ~Lost

\* Whatever the network does, a receiver gets the pieces of one file in order,
\* and calls it complete (tftp.py's END, or the peer's) when it has all of them;
\* also when a file has more pieces than there are block numbers, and when a
\* request is taken up twice.
TransferDelivers == Promise!Spec

\* A sender that comes to its end can rely on it: TFTP_RRQ_server and both peers
\* that send have had the last piece acknowledged by the one who has it all,
\* TFTP_write (SEND_DATA, which does not wait for the last ACK) all but that.
SenderKnows == [][
    /\ role = "write" /\ st # "END" /\ st' = "END"
         => Len(peer'[tid'].got) >= size - 1
    /\ st = "SEND_FILE" /\ st' \in {"END", "WAIT_RRQ"}
         => Len(peer[Client].got) = size
    /\ \A p \in Peers : peer[p].st = "sending" /\ peer'[p].st = "done" /\ ~Spoilt
         => st = "END" /\ tid = p /\ Len(res) = size ]_fVars

\* A transfer that fits the block numbers ends although packets are lost, the
\* clients and TFTP_WRQ_server by their own account, and for TFTP_RRQ_server the
\* client; only an error that is lost leaves that client waiting.
Ended == CASE role = "serve" -> peer[Client].st = "done"
           [] OTHER -> st \in {"END", "ERROR", "EXCEPTION"}

TransferEnds ==
    (size <= MaxBlock /\ (role = "serve" => flags \cap {"bare", "missing"} = {}))
      => <>Ended
=============================================================================
