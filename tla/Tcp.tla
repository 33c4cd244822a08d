-------------------------------- MODULE Tcp ---------------------------------
(***************************************************************************)
(* The TCP connections between the clients and the server, as the two      *)
(* programs see them through connect, accept, send, recv and close.  The   *)
(* kernel is not part of the repository: this module is the environment    *)
(* that src/server.cpp and src/client.cpp are written against.             *)
(*                                                                         *)
(* A client opens one connection in its life, so a connection is named by  *)
(* its client.  Each direction is a stream with two positions, as in TCP's *)
(* own sequence numbers: what the sender's kernel has accepted (Snd) and   *)
(* what the receiver has read (Rcv).  The first HdrLen units of a stream   *)
(* are a header whose content is upInfo or downInfo.                       *)
(***************************************************************************)
EXTENDS Wire, Sequences

CONSTANTS
  Clients,     \* the AnoClient processes
  NoInfo,      \* no header yet
  HdrLen,      \* units in a FileInfo header
  Cap,         \* units the kernels buffer in one direction of a connection
  MaxBacklog,  \* LENGTH_OF_LISTEN_QUEUE
  HeaderSplits \* recv may return part of a header

\* A header fits into an empty send buffer: FileInfo is 680 bytes, and the
\* smallest send buffer Linux gives a socket is larger.
ASSUME TcpAssumption ==
  /\ HdrLen \in Nat \ {0}
  /\ Cap \in Nat
  /\ Cap >= HdrLen
  /\ MaxBacklog \in Nat \ {0}
  /\ HeaderSplits \in BOOLEAN
  /\ NoInfo \notin FileInfo
  /\ NoInfo \notin ResInfo

VARIABLES
  listening,   \* the server's listening socket is open
  backlog,     \* connections established and not accepted, oldest first
  cSock,       \* the client's end of each connection
  sSock,       \* the server's end of each connection
  upInfo,      \* the request header sent on each connection
  upSnd,       \* units the client has sent
  upRcv,       \* units the server has read
  downInfo,    \* the reply header sent on each connection
  downSnd,     \* units the server has sent
  downRcv      \* units the client has read

netVars == <<listening, backlog, cSock, sSock, upInfo, upSnd, upRcv,
             downInfo, downSnd, downRcv>>

NetInit ==
  /\ listening = FALSE
  /\ backlog = <<>>
  /\ cSock = [c \in Clients |-> "none"]
  /\ sSock = [c \in Clients |-> "none"]
  /\ upInfo = [c \in Clients |-> NoInfo]
  /\ upSnd = [c \in Clients |-> 0]
  /\ upRcv = [c \in Clients |-> 0]
  /\ downInfo = [c \in Clients |-> NoInfo]
  /\ downSnd = [c \in Clients |-> 0]
  /\ downRcv = [c \in Clients |-> 0]

NetTypeOK ==
  /\ listening \in BOOLEAN
  /\ backlog \in Seq(Clients)
  /\ cSock \in [Clients -> {"none", "open", "closed"}]
  /\ sSock \in [Clients -> {"none", "queued", "open", "closed"}]
  /\ upInfo \in [Clients -> FileInfo \cup {NoInfo}]
  /\ upSnd \in [Clients -> Nat]
  /\ upRcv \in [Clients -> Nat]
  /\ downInfo \in [Clients -> ResInfo \cup {NoInfo}]
  /\ downSnd \in [Clients -> Nat]
  /\ downRcv \in [Clients -> Nat]

-----------------------------------------------------------------------------
\* Units that recv would return at once, and units that send would take.
UpReady(c) == upSnd[c] - upRcv[c]
UpRoom(c) == Cap - UpReady(c)
DownReady(c) == downSnd[c] - downRcv[c]
DownRoom(c) == Cap - DownReady(c)

\* What recv may return when asked for n units: TCP keeps no message
\* boundaries, so any part of what is ready.
Chunk(n, ready) == {k \in 1..n : k <= ready}

(***************************************************************************)
(* connect completes in the kernel as soon as the listen queue has room,   *)
(* long before the server calls accept.                                    *)
(***************************************************************************)
CanConnect == listening /\ Len(backlog) < MaxBacklog

Establish(c) ==
  /\ CanConnect
  /\ backlog' = Append(backlog, c)
  /\ cSock' = [cSock EXCEPT ![c] = "open"]
  /\ sSock' = [sSock EXCEPT ![c] = "queued"]

\* The server process is gone: the kernel closes everything it held.
CloseAllServerSockets ==
  /\ listening' = FALSE
  /\ backlog' = <<>>
  /\ sSock' = [c \in Clients |-> IF sSock[c] = "none" THEN "none" ELSE "closed"]

(***************************************************************************)
(* recv reports the end of a stream when the peer has closed and nothing   *)
(* is left to read.  An end that is closed with unread data, or that data  *)
(* reaches afterwards, answers with a reset: the peer's recv may then fail *)
(* at any point of what was on its way.                                    *)
(***************************************************************************)
UpEnds(c) == cSock[c] = "closed" /\ (UpReady(c) = 0 \/ DownReady(c) > 0)
DownEnds(c) == sSock[c] = "closed" /\ (DownReady(c) = 0 \/ UpReady(c) > 0)

=============================================================================
