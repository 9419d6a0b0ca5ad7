-------------------------------- MODULE Echo --------------------------------
(***************************************************************************)
(* The echo server and client of examples/networking (package              *)
(* ddis.networking.echo) on Netty.                                         *)
(*                                                                         *)
(* For every client: its main thread (EchoClient.start), its channel       *)
(* (EchoClientHandler), the connection, and the channel that the server    *)
(* accepts for it (EchoServerHandler).  The handlers of a channel run one  *)
(* at a time on its event loop.  The server handler is shared by all       *)
(* channels and has no state.                                              *)
(*                                                                         *)
(* A message is the sequence of its byte positions.  The connection is     *)
(* reliable and ordered, but cuts the bytes up at will.  What Netty and    *)
(* TCP do is modelled as far as the handlers depend on it: the read loop   *)
(* that ends with channelReadComplete, the outbound buffer that is written *)
(* to the socket after a flush only, the listener on a write that closes   *)
(* the channel, and the reset of a connection that is closed while bytes   *)
(* for it are unread or under way.  A client may be killed, and so may the *)
(* server, with all its channels.                                          *)
(***************************************************************************)
EXTENDS Naturals, SequencesExt, FiniteSetsExt, Selection

CONSTANTS Clients,      \* the clients
          MessageLength,\* bytes of the message that a client sends
          BufferSize    \* bytes that one read takes at most

ASSUME LengthAssumption == MessageLength \in Nat \ {0} /\ BufferSize \in Nat \ {0}

VARIABLES
  running,      \* the server has not been killed
  main,         \* the main thread of the client
  client,       \* the channel of the client
  unsent,       \* bytes the client has written that are not on the connection yet
  up,           \* bytes under way to the server, or arrived and not read
  server,       \* the channel at the server
  loop,         \* its read loop: "idle", "reading", "completing"
  outbound,     \* its outbound buffer, of bytes and Close entries
  flushed,      \* how many entries of outbound are flushed
  down,         \* bytes under way to the client, and the end of the stream
  reset,        \* the connection was reset, by either side
  received,     \* bytes that channelRead0 has printed
  read,         \* how many bytes the server read before its first channelReadComplete
  ending        \* how the client's channel was closed

vars == <<running, main, client, unsent, up, server, loop, outbound, flushed, down, reset,
          received, read, ending>>

Message == [i \in 1 .. MessageLength |-> i]

\* Two markers that are no byte positions: the empty buffer whose write closes
\* the channel, and the end of a stream.
Close == 0
EndOfStream == 0

Init ==
  /\ running = TRUE
  /\ main = [c \in Clients |-> "connecting"]
  /\ client = [c \in Clients |-> "connecting"]
  /\ unsent = [c \in Clients |-> <<>>]
  /\ up = [c \in Clients |-> <<>>]
  /\ server = [c \in Clients |-> "none"]
  /\ loop = [c \in Clients |-> "idle"]
  /\ outbound = [c \in Clients |-> <<>>]
  /\ flushed = [c \in Clients |-> 0]
  /\ down = [c \in Clients |-> <<>>]
  /\ reset = [c \in Clients |-> FALSE]
  /\ received = [c \in Clients |-> <<>>]
  /\ read = [c \in Clients |-> 0]
  /\ ending = [c \in Clients |-> "none"]

clientVars == <<client, unsent, received, ending>>
serverVars == <<server, loop, outbound, flushed, read>>
wireVars == <<up, down, reset>>

FirstBytes(s, n) == SubSeq(s, 1, n)
Without(s, n) == SubSeq(s, n + 1, Len(s))
OnlyBytes(s) == Selected(s, 1 .. MessageLength)

-----------------------------------------------------------------------------
(* The client's channel. *)

\* The connection is established and channelActive writes the message.
ChannelActive(c) ==
  /\ client[c] = "connecting" /\ running
  /\ client' = [client EXCEPT ![c] = "active"]
  /\ unsent' = [unsent EXCEPT ![c] = Message]
  /\ UNCHANGED <<running, main, wireVars, serverVars, received, ending>>

\* Nothing listens at the port, or it cannot be reached.
ConnectFails(c) ==
  /\ client[c] = "connecting"
  /\ client' = [client EXCEPT ![c] = "failed"]
  /\ UNCHANGED <<running, main, wireVars, serverVars, unsent, received, ending>>

\* The socket takes some of the bytes.
ClientSends(c) ==
  /\ client[c] = "active" /\ ~reset[c]
  /\ \E n \in 1 .. Len(unsent[c]) :
       /\ up' = [up EXCEPT ![c] = @ \o FirstBytes(unsent[c], n)]
       /\ unsent' = [unsent EXCEPT ![c] = Without(@, n)]
  /\ UNCHANGED <<running, main, client, received, ending, serverVars, down, reset>>

\* channelRead0 prints some of the bytes that have arrived.
ClientReads(c) ==
  /\ client[c] = "active"
  /\ \E n \in 1 .. Len(down[c]) :
       /\ EndOfStream \notin ToSet(FirstBytes(down[c], n))
       /\ received' = [received EXCEPT ![c] = @ \o FirstBytes(down[c], n)]
       /\ down' = [down EXCEPT ![c] = Without(@, n)]
  /\ UNCHANGED <<running, main, client, unsent, ending, up, reset, serverVars>>

CloseClient(c, how) ==
  /\ client' = [client EXCEPT ![c] = "closed"]
  /\ ending' = [ending EXCEPT ![c] = how]
  /\ unsent' = [unsent EXCEPT ![c] = <<>>]
  /\ UNCHANGED <<running, received, serverVars>>

\* The read loop meets the end of the stream and closes the channel.
ClientSeesEnd(c) ==
  /\ client[c] = "active" /\ down[c] # <<>> /\ Head(down[c]) = EndOfStream
  /\ CloseClient(c, "end")
  /\ UNCHANGED <<main, wireVars>>

\* A read or write fails on the reset connection, and exceptionCaught closes
\* the channel.
ClientExceptionCaught(c) ==
  /\ client[c] = "active" /\ reset[c]
  /\ CloseClient(c, "reset")
  /\ UNCHANGED <<main, wireVars>>

\* A client with a connection is killed, whatever its threads are doing.  What
\* has arrived unread resets the connection.
KillClient(c) ==
  /\ client[c] = "active"
  /\ CloseClient(c, "killed")
  /\ main' = [main EXCEPT ![c] = "killed"]
  /\ \/ OnlyBytes(down[c]) # <<>> /\ reset' = [reset EXCEPT ![c] = TRUE]
     \/ UNCHANGED reset
  /\ UNCHANGED <<up, down>>

-----------------------------------------------------------------------------
(* The main thread of the client. *)

MainGoesOn(c, from, to) ==
  /\ main[c] = from
  /\ main' = [main EXCEPT ![c] = to]
  /\ UNCHANGED <<running, clientVars, wireVars, serverVars>>

\* b.connect().sync() returns.
MainConnected(c) ==
  client[c] \in {"active", "closed"} /\ MainGoesOn(c, "connecting", "waiting")

\* b.connect().sync() throws; the finally block shuts the group down.
MainThrows(c) ==
  client[c] = "failed" /\ MainGoesOn(c, "connecting", "exited")

\* f.channel().closeFuture().sync() returns; the finally block shuts the group
\* down.
MainSeesClose(c) ==
  client[c] = "closed" /\ MainGoesOn(c, "waiting", "exited")

-----------------------------------------------------------------------------
(* The server's channel. *)

\* The connection, established by the kernel, is accepted and registered; its
\* client may have been killed by then.
Accept(c) ==
  /\ client[c] \in {"active", "closed"} /\ server[c] = "none" /\ running
  /\ server' = [server EXCEPT ![c] = "active"]
  /\ UNCHANGED <<running, main, clientVars, wireVars, loop, outbound, flushed, read>>

\* Faulty variants: the bytes are released, as by the discard server; they are
\* written before those of an earlier read.
Written_Discarded(buffer, in) == buffer
Written_First(buffer, in) == in \o buffer

\* ctx.write(in)
Written(buffer, in) == buffer \o in

\* channelRead: the bytes of a read are written to the outbound buffer, not
\* flushed.  The read loop goes on only after a read that filled its buffer.
ChannelRead(c) ==
  /\ server[c] = "active" /\ loop[c] \in {"idle", "reading"}
  /\ \E n \in 1 .. Min({Len(up[c]), BufferSize}) :
       /\ outbound' = [outbound EXCEPT ![c] = Written(@, FirstBytes(up[c], n))]
       /\ up' = [up EXCEPT ![c] = Without(@, n)]
       /\ loop' = [loop EXCEPT ![c] = IF n = BufferSize THEN "reading" ELSE "completing"]
       /\ read' = [read EXCEPT ![c] = IF Close \in ToSet(outbound[c]) THEN @ ELSE @ + n]
  /\ UNCHANGED <<running, main, clientVars, server, flushed, down, reset>>

\* A faulty variant: no listener is added to the write of the empty buffer.
EmptyBuffer_NoListener == <<>>

\* Unpooled.EMPTY_BUFFER, whose listener is ChannelFutureListener.CLOSE.
EmptyBuffer == <<Close>>

\* channelReadComplete: writeAndFlush of an empty buffer whose listener closes
\* the channel.  The loop also ends when the last read finds nothing.
ChannelReadComplete(c) ==
  /\ server[c] = "active" /\ loop[c] \in {"reading", "completing"}
  /\ outbound' = [outbound EXCEPT ![c] = @ \o EmptyBuffer]
  /\ flushed' = [flushed EXCEPT ![c] = Len(outbound'[c])]
  /\ loop' = [loop EXCEPT ![c] = "idle"]
  /\ UNCHANGED <<running, main, clientVars, server, read, wireVars>>

\* Flushed bytes go to the socket as it has room for them, in a flush or when
\* it is writable again; never between two reads of one loop.
WriteSocket(c) ==
  /\ server[c] = "active" /\ loop[c] = "idle" /\ ~reset[c]
  /\ flushed[c] > 0 /\ Head(outbound[c]) # Close
  /\ down' = [down EXCEPT ![c] = Append(@, Head(outbound[c]))]
  /\ outbound' = [outbound EXCEPT ![c] = Tail(@)]
  /\ flushed' = [flushed EXCEPT ![c] = @ - 1]
  /\ UNCHANGED <<running, main, clientVars, server, loop, read, up, reset>>

\* The channels of a set are closed and what their outbound buffers hold fails.
\* Some connections are reset, the streams of the others end.
CloseChannels(closed, as, resets) ==
  /\ server' = [c \in Clients |-> IF c \in closed THEN as ELSE server[c]]
  /\ loop' = [c \in Clients |-> IF c \in closed THEN "idle" ELSE loop[c]]
  /\ outbound' = [c \in Clients |-> IF c \in closed THEN <<>> ELSE outbound[c]]
  /\ flushed' = [c \in Clients |-> IF c \in closed THEN 0 ELSE flushed[c]]
  /\ reset' = [c \in Clients |-> reset[c] \/ c \in resets]
  /\ down' = [c \in Clients |-> IF c \in closed \ resets /\ ~reset[c]
                                THEN Append(down[c], EndOfStream) ELSE down[c]]
  /\ UNCHANGED <<main, clientVars, read, up>>

\* A close with bytes unread resets the connection; those of up may have arrived.
CloseServer(c) ==
  /\ \/ CloseChannels({c}, "closed", {})
     \/ up[c] # <<>> /\ CloseChannels({c}, "closed", {c})
  /\ UNCHANGED running

\* A faulty variant: the close does not wait for the bytes written before.
WriteEnded_AtOnce(c) == Close \in ToSet(outbound[c])

\* The empty buffer is the first that is left to write.
WriteEnded(c) == flushed[c] > 0 /\ Head(outbound[c]) = Close

\* The listener of the empty buffer closes the channel.
CloseListener(c) ==
  server[c] = "active" /\ loop[c] = "idle" /\ WriteEnded(c) /\ CloseServer(c)

\* The read loop meets the end of the stream of a client that was killed: its
\* channelReadComplete, or the loop itself, closes the channel.
ServerSeesEnd(c) ==
  /\ server[c] = "active" /\ loop[c] # "completing"
  /\ client[c] = "closed" /\ up[c] = <<>> /\ ~reset[c]
  /\ CloseServer(c)

\* A read or write fails on the connection that the killed client has reset, and
\* exceptionCaught closes the channel.
ServerExceptionCaught(c) ==
  server[c] = "active" /\ reset[c] /\ CloseServer(c)

\* The server is killed: its sockets are closed, and connections that wait to
\* be accepted are reset.
KillServer ==
  /\ running /\ running' = FALSE
  /\ LET waiting == {c \in Clients : client[c] # "connecting" /\ server[c] = "none"}
         open == {c \in Clients : server[c] = "active"}
     IN  \E unread \in SUBSET {c \in open : up[c] # <<>>} :
           CloseChannels(open, "killed", waiting \cup unread)

\* Bytes that arrive at a closed socket are answered with a reset.
LateArrival(c) ==
  /\ ~reset[c]
  /\ \/ server[c] \in {"closed", "killed"} /\ up[c] # <<>>
     \/ client[c] = "closed" /\ OnlyBytes(down[c]) # <<>>
  /\ reset' = [reset EXCEPT ![c] = TRUE]
  /\ UNCHANGED <<running, main, clientVars, serverVars, up, down>>

-----------------------------------------------------------------------------
ClientNext(c) ==
  \/ ChannelActive(c) \/ ConnectFails(c) \/ ClientSends(c) \/ ClientReads(c)
  \/ ClientSeesEnd(c) \/ ClientExceptionCaught(c)

MainNext(c) == MainConnected(c) \/ MainThrows(c) \/ MainSeesClose(c)

ServerNext(c) ==
  \/ Accept(c) \/ ChannelRead(c) \/ ChannelReadComplete(c) \/ WriteSocket(c)
  \/ CloseListener(c) \/ ServerSeesEnd(c) \/ ServerExceptionCaught(c)

Next ==
  \/ KillServer
  \/ \E c \in Clients :
       ClientNext(c) \/ MainNext(c) \/ ServerNext(c) \/ KillClient(c) \/ LateArrival(c)

\* Threads are scheduled, event loops serve every ready channel, an attempt to
\* connect succeeds or fails in the end, and the connection delivers.  Nothing
\* makes anyone be killed.
Fairness ==
  \A c \in Clients :
    /\ WF_vars(ClientNext(c)) /\ WF_vars(MainNext(c))
    /\ WF_vars(ServerNext(c)) /\ WF_vars(LateArrival(c))

Spec == Init /\ [][Next]_vars /\ Fairness

-----------------------------------------------------------------------------
\* While both ends are open, every byte of the message is in one place, in order:
\* printed, under way back, in the outbound buffer, under way there, or unsent.
NoByteLost ==
  \A c \in Clients : server[c] \in {"none", "active"} /\ client[c] = "active" =>
    received[c] \o down[c] \o OnlyBytes(outbound[c]) \o up[c] \o unsent[c] = Message

\* The bytes that the server read before its first channelReadComplete are on
\* the connection when it closes: the close waits for the write.
CloseAfterEcho ==
  \A c \in Clients : server[c] = "closed" /\ client[c] = "active" =>
    Len(received[c] \o OnlyBytes(down[c])) >= read[c]

\* A server that has read the message to its end in the first read loop does not
\* reset its client, and the client gets the message in full.
WholeMessageEchoed ==
  \A c \in Clients : server[c] = "closed" /\ read[c] = MessageLength =>
    /\ client[c] = "active" => ~reset[c]
    /\ ending[c] # "reset"
    /\ ending[c] = "end" => received[c] = Message

\* Every client returns from start in the end unless it is killed, since the
\* server closes every channel; and it closes those of killed clients too.
EveryoneLeaves ==
  \A c \in Clients :
    /\ <>(main[c] \in {"exited", "killed"})
    /\ server[c] = "active" ~> server[c] # "active"

\* What the clients get is the echo service that EchoService specifies.
Outcome(c) ==
  CASE client[c] = "failed" -> "refused"
    [] ending[c] = "end" -> IF server[c] = "killed" THEN "abandoned" ELSE "answered"
    [] ending[c] = "none" /\ client[c] # "failed" -> "pending"
    [] OTHER -> ending[c]

Service == INSTANCE EchoService
             WITH reply <- received, outcome <- [c \in Clients |-> Outcome(c)]
ImplementsEchoService == Service!Spec
=============================================================================
