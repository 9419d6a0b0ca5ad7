-------------------------------- MODULE Time --------------------------------
(***************************************************************************)
(* The time server and client of examples/networking (package              *)
(* ddis.networking.time) on Netty.                                         *)
(*                                                                         *)
(* The server writes the time to every channel that becomes active and     *)
(* closes the channel when the write has ended.  The client prints the     *)
(* time of its first read and closes too.  The time is four bytes, of      *)
(* Radix values each; the connection keeps their order and cuts them up.   *)
(* It may break, and the server may be stopped.                            *)
(***************************************************************************)
EXTENDS Integers, Sequences

CONSTANTS Clients,      \* the clients
          Radix,        \* values of a byte
          Epoch,        \* seconds from 1900 to 1970
          MaxNow        \* bound of the clock

ASSUME RadixAssumption == Radix \in Nat \ {0, 1}
ASSUME EpochAssumption == Epoch \in Nat /\ MaxNow \in Nat

VARIABLES
  now,          \* seconds since 1970, the same for all
  main,         \* the main thread of the client
  began,        \* when the client began
  client,       \* the channel of the client
  server,       \* the channel at the server
  outbound,     \* bytes in the outbound buffer of the server's channel
  wire,         \* bytes under way to the client
  broken,       \* the connection is broken
  printed       \* the times, in seconds since 1970, that the client has printed

serverVars == <<server, outbound>>
vars == <<now, main, began, client, serverVars, wire, broken, printed>>

\* What the bytes of an int count for, and the number of ints.
Place == <<Radix * Radix * Radix, Radix * Radix, Radix, 1>>
Wrap == Radix * (Radix * Radix * Radix)

Init ==
  /\ now \in 0 .. MaxNow
  /\ main = [c \in Clients |-> "connecting"]
  /\ began = [c \in Clients |-> now]
  /\ client = [c \in Clients |-> "connecting"]
  /\ server = [c \in Clients |-> "none"]
  /\ outbound = [c \in Clients |-> <<>>]
  /\ wire = [c \in Clients |-> <<>>]
  /\ broken = [c \in Clients |-> FALSE]
  /\ printed = [c \in Clients |-> <<>>]

Tick ==
  /\ now < MaxNow
  /\ now' = now + 1
  /\ UNCHANGED <<main, began, client, serverVars, wire, broken, printed>>

-----------------------------------------------------------------------------
(* The server's channel. *)

\* buffer.writeInt: the four bytes of the low 32 bits, the highest first.
WriteInt(long) == [i \in 1 .. 4 |-> (long \div Place[i]) % Radix]

\* The connection is accepted; channelActive writes and flushes the time.
ServerChannelActive(c) ==
  /\ client[c] = "active" /\ server[c] = "none"
  /\ server' = [server EXCEPT ![c] = "active"]
  /\ outbound' = [outbound EXCEPT ![c] = WriteInt(now + Epoch)]
  /\ UNCHANGED <<now, main, began, client, wire, broken, printed>>

\* The socket takes some of the bytes.
WriteSocket(c) ==
  /\ server[c] = "active" /\ ~broken[c]
  /\ \E n \in 1 .. Len(outbound[c]) :
       /\ wire' = [wire EXCEPT ![c] = @ \o SubSeq(outbound[c], 1, n)]
       /\ outbound' = [outbound EXCEPT ![c] = SubSeq(@, n + 1, Len(@))]
  /\ UNCHANGED <<now, main, began, client, server, broken, printed>>

CloseServer(c, as) ==
  /\ server' = [server EXCEPT ![c] = as]
  /\ outbound' = [outbound EXCEPT ![c] = <<>>]
  /\ UNCHANGED <<now, main, began, client, wire, broken, printed>>

\* A faulty variant: the channel is closed without waiting for the write.
OperationComplete_AtOnce(c) ==
  server[c] = "active" /\ CloseServer(c, "closed")

\* The listener of the write, which has ended, well or not, closes the channel.
OperationComplete(c) ==
  /\ server[c] = "active" /\ (outbound[c] = <<>> \/ broken[c])
  /\ CloseServer(c, "closed")

\* A read fails on the broken connection, and exceptionCaught closes the channel.
ServerExceptionCaught(c) ==
  server[c] = "active" /\ broken[c] /\ CloseServer(c, "closed")

\* The client has closed: the read loop meets the end of the stream, or a reset.
ServerSeesEnd(c) ==
  server[c] = "active" /\ client[c] = "closed" /\ CloseServer(c, "closed")

\* The server is stopped; what its sockets have taken is still delivered.
ServerStops(c) ==
  server[c] = "active" /\ CloseServer(c, "stopped")

ConnectionBreaks(c) ==
  /\ client[c] = "active" /\ ~broken[c]
  /\ broken' = [broken EXCEPT ![c] = TRUE]
  /\ wire' = [wire EXCEPT ![c] = <<>>]
  /\ UNCHANGED <<now, main, began, client, serverVars, printed>>

-----------------------------------------------------------------------------
(* The client's channel. *)

Connect(c, outcome) ==
  /\ client[c] = "connecting"
  /\ client' = [client EXCEPT ![c] = outcome]
  /\ UNCHANGED <<now, main, began, serverVars, wire, broken, printed>>

\* A faulty variant: readInt for readUnsignedInt.
ReadUnsignedInt_Signed(bytes) ==
  LET int == bytes[1] * Place[1] + bytes[2] * Place[2] + bytes[3] * Place[3] + bytes[4]
  IN  IF int < Wrap \div 2 THEN int ELSE int - Wrap

ReadUnsignedInt(bytes) ==
  bytes[1] * Place[1] + bytes[2] * Place[2] + bytes[3] * Place[3] + bytes[4]

CurrentTime(bytes) == ReadUnsignedInt(bytes) - Epoch

\* channelRead gets what has arrived.  With less than four bytes readUnsignedInt
\* raises and exceptionCaught closes the channel; otherwise channelRead does.
ChannelRead(c) ==
  /\ client[c] = "active"
  /\ \E n \in 1 .. Len(wire[c]) :
       /\ wire' = [wire EXCEPT ![c] = SubSeq(@, n + 1, Len(@))]
       /\ \/ n < 4 /\ UNCHANGED printed
          \/ /\ n = 4
             /\ printed' = [printed EXCEPT ![c] = Append(@, CurrentTime(SubSeq(wire[c], 1, 4)))]
  /\ client' = [client EXCEPT ![c] = "closed"]
  /\ UNCHANGED <<now, main, began, serverVars, broken>>

CloseClient(c) ==
  /\ client' = [client EXCEPT ![c] = "closed"]
  /\ UNCHANGED <<now, main, began, serverVars, wire, broken, printed>>

\* The stream ends without a time: the read loop closes the channel.
ClientSeesEnd(c) ==
  client[c] = "active" /\ server[c] \in {"closed", "stopped"} /\ wire[c] = <<>> /\ CloseClient(c)

\* A read fails on the broken connection, and exceptionCaught closes the channel.
ClientExceptionCaught(c) ==
  client[c] = "active" /\ broken[c] /\ CloseClient(c)

-----------------------------------------------------------------------------
(* The main thread of the client. *)

MainGoesOn(c, from, to) ==
  /\ main[c] = from
  /\ main' = [main EXCEPT ![c] = to]
  /\ UNCHANGED <<now, began, client, serverVars, wire, broken, printed>>

\* b.connect().sync() returns.
MainConnected(c) ==
  client[c] \in {"active", "closed"} /\ MainGoesOn(c, "connecting", "waiting")

\* A faulty variant: the group of event loops is shut down after a close only,
\* and its threads keep the program alive.
MainThrows_NoFinally(c) ==
  client[c] = "failed" /\ MainGoesOn(c, "connecting", "connecting")

\* b.connect().sync() throws; the finally block shuts the group down.
MainThrows(c) ==
  client[c] = "failed" /\ MainGoesOn(c, "connecting", "exited")

\* f.channel().closeFuture().sync() returns; the finally block shuts the group
\* down.
MainSeesClose(c) ==
  client[c] = "closed" /\ MainGoesOn(c, "waiting", "exited")

-----------------------------------------------------------------------------
ClientNext(c) ==
  \/ Connect(c, "active") \/ Connect(c, "failed")
  \/ ChannelRead(c) \/ ClientSeesEnd(c) \/ ClientExceptionCaught(c)

MainNext(c) == MainConnected(c) \/ MainThrows(c) \/ MainSeesClose(c)

ServerNext(c) ==
  \/ ServerChannelActive(c) \/ WriteSocket(c) \/ OperationComplete(c)
  \/ ServerExceptionCaught(c) \/ ServerSeesEnd(c)

Next ==
  \/ Tick
  \/ \E c \in Clients :
       ClientNext(c) \/ MainNext(c) \/ ServerNext(c) \/ ServerStops(c) \/ ConnectionBreaks(c)

\* Threads are scheduled, event loops serve every ready channel, an attempt to
\* connect succeeds or fails in the end.  Nothing makes the connection break.
Fairness ==
  \A c \in Clients :
    WF_vars(ClientNext(c)) /\ WF_vars(MainNext(c)) /\ WF_vars(ServerNext(c))

Spec == Init /\ [][Next]_vars /\ Fairness

-----------------------------------------------------------------------------
\* A client prints at most one time, one at which it was already running, or that
\* time so many times 2^32 seconds earlier as the int of the server has wrapped
\* around.
TimeIsCurrent ==
  \A c \in Clients :
    /\ Len(printed[c]) <= 1
    /\ printed[c] # <<>> =>
         \E t \in began[c] .. now :
           printed[c][1] = ((t + Epoch) % Wrap) - Epoch

\* A server that closes a sound connection to a client that has read nothing has
\* put the whole time on it: the close waits for the write.
CloseAfterTime ==
  \A c \in Clients :
    server[c] = "closed" /\ client[c] = "active" /\ ~broken[c] => Len(wire[c]) = 4

\* Every client ends, printed or not, and every channel of the server is closed
\* even if the client has left before its time was sent.
EveryoneLeaves ==
  \A c \in Clients :
    /\ <>(main[c] = "exited")
    /\ server[c] = "active" ~> server[c] # "active"
=============================================================================
