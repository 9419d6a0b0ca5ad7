------------------------------ MODULE EchoProofs ------------------------------
(***************************************************************************)
(* Proofs about the echo server and its clients, for any number of         *)
(* clients, every message length and every size of the read buffer.        *)
(***************************************************************************)
EXTENDS Echo, DataLemmas

Bytes == 1 .. MessageLength
Entries == Bytes \cup {Close}

\* The first m bytes of the message.
Beginning(m) == [i \in 1 .. m |-> i]

-----------------------------------------------------------------------------
(* The inductive invariant: the types, and what holds of every client. *)

\* The types of the variables.
TypeOK ==
  /\ running \in BOOLEAN
  /\ client \in [Clients -> {"connecting", "active", "failed", "closed"}]
  /\ unsent \in [Clients -> Seq(Bytes)]
  /\ up \in [Clients -> Seq(Bytes)]
  /\ server \in [Clients -> {"none", "active", "closed", "killed"}]
  /\ loop \in [Clients -> {"idle", "reading", "completing"}]
  /\ outbound \in [Clients -> Seq(Entries)]
  /\ flushed \in [Clients -> Nat]
  /\ down \in [Clients -> Seq(Entries)]
  /\ reset \in [Clients -> BOOLEAN]
  /\ received \in [Clients -> Seq(Bytes)]
  /\ read \in [Clients -> Nat]
  /\ ending \in [Clients -> {"none", "end", "reset", "killed"}]

\* Before a client is connected nothing has happened on its connection.
ConnectingOK(c) ==
  client[c] \in {"connecting", "failed"} =>
    /\ server[c] = "none" /\ unsent[c] = <<>> /\ up[c] = <<>>
    /\ client[c] = "connecting" => ~reset[c]

\* Before the server has accepted a connection nothing was read or written.
AcceptingOK(c) ==
  server[c] = "none" =>
    /\ loop[c] = "idle" /\ outbound[c] = <<>> /\ flushed[c] = 0 /\ down[c] = <<>>
    /\ received[c] = <<>> /\ read[c] = 0

\* An ending is recorded when the client closes.
EndingOK(c) ==
  /\ ending[c] = "none" <=> client[c] # "closed"
  /\ ending[c] = "end" => server[c] \in {"closed", "killed"}
  /\ ending[c] = "end" /\ server[c] = "closed" =>
       received[c] # <<>> /\ (read[c] = MessageLength => received[c] = Message)
  /\ ending[c] = "reset" =>
       \/ server[c] = "killed"
       \/ server[c] = "none" /\ ~running
       \/ server[c] = "closed" /\ read[c] # MessageLength

\* The connection of an open client is reset by the end of the server's channel
\* only, or by the end of the server before it has accepted the connection.
ResetOK(c) ==
  client[c] = "active" /\ reset[c] =>
    \/ server[c] \in {"closed", "killed"}
    \/ server[c] = "none" /\ ~running

\* The stream to the client ends once, when the server closes the channel.
StreamOK(c) ==
  \A i \in 1 .. Len(down[c]) :
    down[c][i] = EndOfStream => server[c] \in {"closed", "killed"} /\ i = Len(down[c])

\* Only entries are flushed that are there, and the channel has read something
\* once it has written anything or reads in a loop.
OutboundOK(c) ==
  server[c] = "active" =>
    /\ flushed[c] <= Len(outbound[c])
    /\ loop[c] # "idle" \/ outbound[c] # <<>> => read[c] > 0

\* NoByteLost, of one client.
Conserved(c) ==
  server[c] \in {"none", "active"} /\ client[c] = "active" =>
    received[c] \o down[c] \o OnlyBytes(outbound[c]) \o up[c] \o unsent[c] = Message

\* The first k entries of a buffer are ahead of its first empty buffer.
Ahead(buffer, k) ==
  /\ k \in 0 .. Len(buffer)
  /\ \A i \in 1 .. k : buffer[i] # Close
  /\ k = Len(buffer) \/ buffer[k + 1] = Close

\* While both ends are open, read counts the bytes before the first empty buffer.
ReadSoFar(c) ==
  server[c] = "active" /\ client[c] = "active" =>
    \E k \in 0 .. Len(outbound[c]) :
      Ahead(outbound[c], k) /\ read[c] = Len(received[c]) + Len(down[c]) + k

\* What has come back, and is under way to an open client, is a beginning of the
\* message.
BeginningOK(c) ==
  \E m \in 0 .. MessageLength :
    IF client[c] = "active" THEN received[c] \o OnlyBytes(down[c]) = Beginning(m)
    ELSE received[c] = Beginning(m)

\* When the server has closed the channel of an open client, all that it had read
\* before its first empty buffer is on the connection; if that was the message,
\* nothing is left that could reset the connection.
ClosedOK(c) ==
  server[c] = "closed" /\ client[c] = "active" =>
    /\ read[c] > 0 /\ Len(received[c] \o OnlyBytes(down[c])) >= read[c]
    /\ read[c] = MessageLength =>
         /\ ~reset[c] /\ up[c] = <<>> /\ unsent[c] = <<>>
         /\ received[c] \o OnlyBytes(down[c]) = Message

ClientOK(c) ==
  /\ ConnectingOK(c) /\ AcceptingOK(c) /\ EndingOK(c) /\ ResetOK(c) /\ StreamOK(c)
  /\ OutboundOK(c) /\ Conserved(c) /\ ReadSoFar(c) /\ BeginningOK(c) /\ ClosedOK(c)

IndInv == TypeOK /\ \A c \in Clients : ClientOK(c)

-----------------------------------------------------------------------------
(* Lemmas about sequences of bytes. *)

\* Concatenation, as a symbol the provers leave alone, and five buffers in a row.
Cat(x, y) == x \o y
Joined(r, d, o, u, w) == Cat(Cat(Cat(Cat(r, d), o), u), w)

\* Concatenation has no need of parentheses.
LEMMA CatProperties ==
  ASSUME NEW A
  PROVE  /\ \A x, y \in Seq(A) : Cat(x, y) \in Seq(A)
         /\ \A x, y, z \in Seq(A) : Cat(Cat(x, y), z) = Cat(x, Cat(y, z))
<1>1. \A x, y \in Seq(A) : Cat(x, y) \in Seq(A)
  BY ConcatProperties DEF Cat
<1>2. \A x, y, z \in Seq(A) : Cat(Cat(x, y), z) = Cat(x, Cat(y, z))
  BY ConcatAssociative DEF Cat
<1> QED
  BY <1>1, <1>2

\* Bytes that move from the front of one buffer to the end of the one before it
\* leave the concatenation of the buffers as it was.
LEMMA Moved ==
  ASSUME NEW A, NEW b1 \in Seq(A), NEW b2 \in Seq(A), NEW b3 \in Seq(A), NEW b4 \in Seq(A),
         NEW b5 \in Seq(A), NEW moved \in Seq(A)
  PROVE  /\ Joined(b1, b2, b3, Cat(b4, moved), b5) = Joined(b1, b2, b3, b4, Cat(moved, b5))
         /\ Joined(Cat(b1, moved), b2, b3, b4, b5) = Joined(b1, Cat(moved, b2), b3, b4, b5)
         /\ Joined(b1, b2, Cat(b3, moved), b4, b5) = Joined(b1, b2, b3, Cat(moved, b4), b5)
         /\ Joined(b1, Cat(b2, moved), b3, b4, b5) = Joined(b1, b2, Cat(moved, b3), b4, b5)
<1> DEFINE T == Seq(A)
<1>1. \A x, y \in T : Cat(x, y) \in T
  BY CatProperties
<1>2. \A x, y, z \in T : Cat(Cat(x, y), z) = Cat(x, Cat(y, z))
  BY CatProperties
<1>0. b1 \in T /\ b2 \in T /\ b3 \in T /\ b4 \in T /\ b5 \in T /\ moved \in T
  OBVIOUS
<1> HIDE DEF T
<1>3. \A x, y, z \in T : Cat(Cat(x, Cat(y, moved)), z) = Cat(Cat(x, y), Cat(moved, z))
  BY <1>0, <1>1, <1>2
<1>4. Cat(Cat(b1, moved), b2) = Cat(b1, Cat(moved, b2))
  BY <1>0, <1>2
<1>5. Cat(Cat(b1, Cat(b2, moved)), b3) = Cat(Cat(b1, b2), Cat(moved, b3))
  BY <1>0, <1>3
<1>6. Cat(b1, b2) \in T /\ Cat(Cat(b1, b2), b3) \in T
  BY <1>0, <1>1
<1>7. Cat(Cat(Cat(b1, b2), Cat(b3, moved)), b4) = Cat(Cat(Cat(b1, b2), b3), Cat(moved, b4))
  BY <1>0, <1>3, <1>6
<1>8. Cat(Cat(Cat(Cat(b1, b2), b3), Cat(b4, moved)), b5) = Cat(Cat(Cat(Cat(b1, b2), b3), b4), Cat(moved, b5))
  BY <1>0, <1>3, <1>6
<1> QED
  BY <1>4, <1>5, <1>7, <1>8, Zenon DEF Joined

\* One name for the conditions makes the instances easy to find.
Strings(b1, b2, b3, b4, b5, moved) ==
  /\ b1 \in Seq(Bytes) /\ b2 \in Seq(Bytes) /\ b3 \in Seq(Bytes)
  /\ b4 \in Seq(Bytes) /\ b5 \in Seq(Bytes) /\ moved \in Seq(Bytes)

\* So bytes may move between any two neighbours of the five buffers.
LEMMA MovedBytes ==
  \A b1, b2, b3, b4, b5, moved :
    Strings(b1, b2, b3, b4, b5, moved) =>
      /\ Joined(b1, b2, b3, Cat(b4, moved), b5) = Joined(b1, b2, b3, b4, Cat(moved, b5))
      /\ Joined(Cat(b1, moved), b2, b3, b4, b5) = Joined(b1, Cat(moved, b2), b3, b4, b5)
      /\ Joined(b1, b2, Cat(b3, moved), b4, b5) = Joined(b1, b2, b3, Cat(moved, b4), b5)
      /\ Joined(b1, Cat(b2, moved), b3, b4, b5) = Joined(b1, b2, Cat(moved, b3), b4, b5)
BY Moved DEF Strings

\* The concatenations here are those of strings of bytes.
LEMMA CatBytes == \A x, y \in Seq(Bytes) : Cat(x, y) \in Seq(Bytes)
BY CatProperties

\* Strings of bytes need no parentheses.
LEMMA CatGroups ==
  \A x, y, z \in Seq(Bytes) : Cat(Cat(x, y), z) = Cat(x, Cat(y, z))
BY CatProperties

\* The first n elements of a sequence and the others.
LEMMA FirstAndOthers ==
  ASSUME NEW A, NEW s \in Seq(A), NEW n \in 1 .. Len(s)
  PROVE  /\ FirstBytes(s, n) \in Seq(A) /\ Len(FirstBytes(s, n)) = n
         /\ \A i \in 1 .. n : FirstBytes(s, n)[i] = s[i]
         /\ Without(s, n) \in Seq(A) /\ Len(Without(s, n)) = Len(s) - n
         /\ \A i \in 1 .. Len(s) - n : Without(s, n)[i] = s[n + i]
         /\ FirstBytes(s, n) \o Without(s, n) = s
<1>1. Len(s) \in Nat /\ n \in Int /\ 1 <= n /\ n <= Len(s) /\ \A i \in 1 .. Len(s) : s[i] \in A
  BY LenProperties, ElementOfSeq
<1>2. FirstBytes(s, n) \in Seq(A) /\ Len(FirstBytes(s, n)) = n
      /\ \A i \in 1 .. n : FirstBytes(s, n)[i] = s[i]
  BY <1>1, SubSeqProperties DEF FirstBytes
<1>3. Without(s, n) \in Seq(A) /\ Len(Without(s, n)) = Len(s) - n
      /\ \A i \in 1 .. Len(s) - n : Without(s, n)[i] = s[n + i]
  BY <1>1, SubSeqProperties DEF Without
<1>4. SubSeq(s, 1, n) \o SubSeq(s, n + 1, Len(s)) = SubSeq(s, 1, Len(s))
  BY <1>1, ConcatAdjacentSubSeq
<1>5. SubSeq(s, 1, Len(s)) = s
  BY SubSeqFull
<1> QED
  BY <1>2, <1>3, <1>4, <1>5, Zenon DEF FirstBytes, Without

\* The message.
LEMMA MessageFacts ==
  /\ MessageLength \in Nat \ {0} /\ BufferSize \in Nat \ {0}
  /\ Message = Beginning(MessageLength)
  /\ Close \notin Bytes /\ EndOfStream = Close
  /\ \A m \in 0 .. MessageLength : Beginning(m) \in Seq(Bytes) /\ Len(Beginning(m)) = m
BY LengthAssumption DEF Message, Beginning, Bytes, Close, EndOfStream

\* A beginning of a beginning of the message is one.
LEMMA BeginningOfBeginning ==
  ASSUME NEW r \in Seq(Bytes), NEW x \in Seq(Bytes), NEW m \in 0 .. MessageLength,
         r \o x = Beginning(m)
  PROVE  /\ Len(r) \in 0 .. MessageLength /\ r = Beginning(Len(r))
         /\ Len(r) \in Nat /\ Len(x) \in Nat /\ m = Len(r) + Len(x)
<1>1. Len(r) \in Nat /\ Len(x) \in Nat
  BY LenProperties
<1>2. Len(r \o x) = Len(r) + Len(x) /\ \A i \in 1 .. Len(r) : (r \o x)[i] = r[i]
  BY <1>1, ConcatProperties
<1>3. Len(Beginning(m)) = m /\ m \in Nat /\ MessageLength \in Nat
  BY MessageFacts
<1>4. m = Len(r) + Len(x)
  BY <1>2, <1>3
<1>5. Len(r) \in 0 .. MessageLength
  BY <1>1, <1>3, <1>4
<1>6. ASSUME NEW i \in 1 .. Len(r) PROVE r[i] = i
  <2>1. (r \o x)[i] = r[i]
    BY <1>2, Zenon
  <2>2. i \in 1 .. m
    BY <1>1, <1>4
  <2>3. Beginning(m)[i] = i
    BY <2>2 DEF Beginning
  <2> QED
    BY <2>1, <2>3, Zenon
<1>7. \A i \in 1 .. Len(r) : Beginning(Len(r))[i] = i
  BY DEF Beginning
<1>8. Beginning(Len(r)) \in Seq(Bytes) /\ Len(Beginning(Len(r))) = Len(r)
  BY <1>5, MessageFacts
<1>9. r = Beginning(Len(r))
  BY <1>6, <1>7, <1>8, SeqEqual
<1> QED
  BY <1>1, <1>4, <1>5, <1>9

\* The bytes among the entries of a buffer or of a stream.
LEMMA OnlyBytesFacts ==
  /\ OnlyBytes(<<>>) = <<>>
  /\ \A s \in Seq(Entries) : OnlyBytes(s) \in Seq(Bytes)
  /\ \A s \in Seq(Bytes) : OnlyBytes(s) = s /\ s \in Seq(Entries)
  /\ \A s, t \in Seq(Entries) : OnlyBytes(s \o t) = OnlyBytes(s) \o OnlyBytes(t)
  /\ OnlyBytes(<<Close>>) = <<>> /\ <<Close>> \in Seq(Entries)
  /\ \A s \in Seq(Entries) :
       /\ OnlyBytes(Append(s, Close)) = OnlyBytes(s) /\ Append(s, Close) \in Seq(Entries)
       /\ s # <<>> /\ Head(s) # Close => OnlyBytes(s) = <<Head(s)>> \o OnlyBytes(Tail(s))
       /\ s # <<>> /\ Head(s) = Close => OnlyBytes(s) = OnlyBytes(Tail(s))
<1>1. Entries \cap Bytes = Bytes /\ Close \in Entries /\ Close \notin Bytes
  BY MessageFacts DEF Entries
<1>2. \A s : OnlyBytes(s) = Selected(s, Bytes)
  BY DEF OnlyBytes, Bytes
<1>3. OnlyBytes(<<>>) = <<>>
  BY <1>2, SelectedEmpty
<1>4. ASSUME NEW s \in Seq(Entries) PROVE OnlyBytes(s) \in Seq(Bytes)
  BY <1>1, <1>2, SelectedType
<1>5. ASSUME NEW s \in Seq(Bytes) PROVE OnlyBytes(s) = s /\ s \in Seq(Entries)
  BY <1>2, SelectedAll, SeqMonotonic DEF Entries
<1>6. ASSUME NEW s \in Seq(Entries), NEW t \in Seq(Entries)
      PROVE  OnlyBytes(s \o t) = OnlyBytes(s) \o OnlyBytes(t)
  BY <1>2, SelectedConcat, Zenon
<1>7. OnlyBytes(<<Close>>) = <<>> /\ <<Close>> \in Seq(Entries)
  BY <1>1, <1>2, SelectedOne
<1>8. ASSUME NEW s \in Seq(Entries)
      PROVE  OnlyBytes(Append(s, Close)) = OnlyBytes(s) /\ Append(s, Close) \in Seq(Entries)
  BY <1>1, <1>2, SelectedAppend, AppendProperties
<1>9. ASSUME NEW s \in Seq(Entries), s # <<>>
      PROVE  OnlyBytes(s) = IF Head(s) # Close THEN <<Head(s)>> \o OnlyBytes(Tail(s))
                            ELSE OnlyBytes(Tail(s))
  <2>1. Head(s) \in Bytes <=> Head(s) # Close
    BY <1>1, <1>9, HeadAndTail DEF Entries
  <2>2. Selected(s, Bytes) = IF Head(s) \in Bytes THEN <<Head(s)>> \o Selected(Tail(s), Bytes)
                             ELSE Selected(Tail(s), Bytes)
    BY <1>9, SelectedHead
  <2> QED
    BY <1>2, <2>1, <2>2
<1> QED
  BY <1>3, <1>4, <1>5, <1>6, <1>7, <1>8, <1>9

\* Entries without a marker are bytes.
LEMMA NoMarker ==
  ASSUME NEW s \in Seq(Entries), \A i \in 1 .. Len(s) : s[i] # Close
  PROVE  s \in Seq(Bytes) /\ OnlyBytes(s) = s
<1>1. \A i \in 1 .. Len(s) : s[i] \in Bytes
  BY ElementOfSeq DEF Entries
<1>2. Len(s) \in Nat /\ s \in [1 .. Len(s) -> Entries]
  BY LenProperties
<1>3. s \in [1 .. Len(s) -> Bytes]
  BY <1>1, <1>2
<1>4. s \in Seq(Bytes)
  BY <1>2, <1>3
<1> QED
  BY <1>4, OnlyBytesFacts

\* What is ahead of the first empty buffer after a read, after the write of an
\* empty buffer, and after a byte has gone to the socket.
LEMMA AheadAfterRead ==
  ASSUME NEW buffer \in Seq(Entries), NEW k, Ahead(buffer, k), NEW f \in Seq(Bytes)
  PROVE  Ahead(buffer \o f, IF Close \in ToSet(buffer) THEN k ELSE k + Len(f))
<1> DEFINE whole == buffer \o f
<1>1. /\ Len(buffer) \in Nat /\ Len(f) \in Nat /\ Len(whole) = Len(buffer) + Len(f)
      /\ \A i \in 1 .. Len(buffer) : whole[i] = buffer[i]
      /\ \A i \in Len(buffer) + 1 .. Len(buffer) + Len(f) : whole[i] = f[i - Len(buffer)]
  BY ConcatProperties, LenProperties
<1>2. \A i \in 1 .. Len(f) : f[i] # Close
  BY ElementOfSeq, MessageFacts
<1> HIDE DEF whole
<1>3. CASE Close \in ToSet(buffer)
  <2>1. PICK j \in 1 .. Len(buffer) : buffer[j] = Close
    BY <1>3 DEF ToSet
  <2>2. k \in 0 .. Len(buffer) /\ k # Len(buffer) /\ buffer[k + 1] = Close
    BY <1>1, <2>1 DEF Ahead
  <2>3. Ahead(whole, k)
    BY <1>1, <2>2 DEF Ahead
  <2> QED
    BY <1>3, <2>3 DEF whole
<1>4. CASE Close \notin ToSet(buffer)
  <2>1. \A i \in 1 .. Len(buffer) : buffer[i] # Close
    BY <1>4 DEF ToSet
  <2>2. k = Len(buffer)
    BY <1>1, <2>1 DEF Ahead
  <2>3. \A i \in 1 .. Len(buffer) + Len(f) : whole[i] # Close
    <3> SUFFICES ASSUME NEW i \in 1 .. Len(buffer) + Len(f) PROVE whole[i] # Close
      OBVIOUS
    <3>1. CASE i <= Len(buffer)
      BY <1>1, <2>1, <3>1
    <3>2. CASE ~ (i <= Len(buffer))
      <4>1. i \in Len(buffer) + 1 .. Len(buffer) + Len(f) /\ i - Len(buffer) \in 1 .. Len(f)
        BY <1>1, <3>2
      <4> QED
        BY <1>1, <1>2, <4>1
    <3> QED
      BY <3>1, <3>2
  <2>4. Ahead(whole, k + Len(f))
    BY <1>1, <2>2, <2>3 DEF Ahead
  <2> QED
    BY <1>4, <2>4 DEF whole
<1> QED
  BY <1>3, <1>4

\* The empty write of channelReadComplete adds no byte ahead of the marker.
LEMMA AheadAfterMarker ==
  ASSUME NEW buffer \in Seq(Entries), NEW k, Ahead(buffer, k)
  PROVE  Ahead(Append(buffer, Close), k)
<1> DEFINE whole == Append(buffer, Close)
<1>1. /\ Len(buffer) \in Nat /\ Len(whole) = Len(buffer) + 1 /\ whole[Len(buffer) + 1] = Close
      /\ \A i \in 1 .. Len(buffer) : whole[i] = buffer[i]
  BY AppendProperties, LenProperties
<1> HIDE DEF whole
<1>2. Ahead(whole, k)
  BY <1>1 DEF Ahead
<1> QED
  BY <1>2 DEF whole

\* A byte that is written to the socket is no longer ahead of the marker.
LEMMA AheadAfterWrite ==
  ASSUME NEW buffer \in Seq(Entries), NEW k, Ahead(buffer, k), buffer # <<>>, Head(buffer) # Close
  PROVE  k \in Nat \ {0} /\ Ahead(Tail(buffer), k - 1)
<1> DEFINE rest == Tail(buffer)
<1>1. /\ Len(buffer) \in Nat \ {0} /\ Len(rest) = Len(buffer) - 1 /\ buffer[1] # Close
      /\ \A i \in 1 .. Len(buffer) - 1 : rest[i] = buffer[i + 1]
  BY HeadAndTail
<1> HIDE DEF rest
<1>2. k \in Nat \ {0} /\ Ahead(rest, k - 1)
  BY <1>1 DEF Ahead
<1> QED
  BY <1>2 DEF rest

-----------------------------------------------------------------------------
(* The steps. *)

\* All that ClientOK says of a client is about these values, and running.
View(c) ==
  <<client[c], unsent[c], up[c], server[c], loop[c], outbound[c], flushed[c], down[c],
    reset[c], received[c], read[c], ending[c]>>

\* A client is untouched by a step that leaves its own variables alone.
LEMMA SameView ==
  ASSUME NEW c, ClientOK(c), View(c)' = View(c), running' => running
  PROVE  ClientOK(c)'
<1>1. /\ client'[c] = client[c] /\ unsent'[c] = unsent[c] /\ up'[c] = up[c]
      /\ server'[c] = server[c] /\ loop'[c] = loop[c] /\ outbound'[c] = outbound[c]
      /\ flushed'[c] = flushed[c] /\ down'[c] = down[c] /\ reset'[c] = reset[c]
      /\ received'[c] = received[c] /\ read'[c] = read[c] /\ ending'[c] = ending[c]
  BY DEF View
<1>2. ConnectingOK(c)' /\ AcceptingOK(c)'
  BY <1>1 DEF ClientOK, ConnectingOK, AcceptingOK
<1>3. EndingOK(c)' /\ ResetOK(c)'
  BY <1>1 DEF ClientOK, EndingOK, ResetOK
<1>4. StreamOK(c)' /\ OutboundOK(c)'
  BY <1>1 DEF ClientOK, StreamOK, OutboundOK
<1>5. Conserved(c)'
  BY <1>1 DEF ClientOK, Conserved
<1>6. ReadSoFar(c)' /\ BeginningOK(c)' /\ ClosedOK(c)'
  BY <1>1 DEF ClientOK, ReadSoFar, BeginningOK, ClosedOK
<1> QED
  BY <1>2, <1>3, <1>4, <1>5, <1>6 DEF ClientOK

\* A step of one client leaves the others as they were.
LEMMA OneClient ==
  ASSUME IndInv, NEW c \in Clients, TypeOK', running' = running,
         \A d \in Clients \ {c} : View(d)' = View(d), ClientOK(c)'
  PROVE  IndInv'
<1>1. \A d \in Clients \ {c} : ClientOK(d)'
  BY SameView DEF IndInv
<1> QED
  BY <1>1 DEF IndInv

\* What the invariant says of one client, and the types of its values.
LEMMA OfClient ==
  ASSUME IndInv, NEW c \in Clients
  PROVE  /\ TypeOK
         /\ client[c] \in {"connecting", "active", "failed", "closed"}
         /\ server[c] \in {"none", "active", "closed", "killed"}
         /\ unsent[c] \in Seq(Bytes) /\ up[c] \in Seq(Bytes) /\ received[c] \in Seq(Bytes)
         /\ outbound[c] \in Seq(Entries) /\ down[c] \in Seq(Entries)
         /\ Len(unsent[c]) \in Nat /\ Len(up[c]) \in Nat /\ Len(received[c]) \in Nat
         /\ Len(outbound[c]) \in Nat /\ Len(down[c]) \in Nat
         /\ flushed[c] \in Nat /\ read[c] \in Nat /\ reset[c] \in BOOLEAN
         /\ ConnectingOK(c) /\ AcceptingOK(c) /\ EndingOK(c) /\ ResetOK(c) /\ StreamOK(c)
         /\ OutboundOK(c) /\ Conserved(c) /\ ReadSoFar(c) /\ BeginningOK(c) /\ ClosedOK(c)
<1>1. TypeOK /\ ClientOK(c)
  BY DEF IndInv
<1>2. /\ unsent[c] \in Seq(Bytes) /\ up[c] \in Seq(Bytes) /\ received[c] \in Seq(Bytes)
      /\ outbound[c] \in Seq(Entries) /\ down[c] \in Seq(Entries)
  BY <1>1 DEF TypeOK
<1>3. /\ client[c] \in {"connecting", "active", "failed", "closed"}
      /\ server[c] \in {"none", "active", "closed", "killed"}
      /\ flushed[c] \in Nat /\ read[c] \in Nat /\ reset[c] \in BOOLEAN
  BY <1>1 DEF TypeOK
<1> QED
  BY <1>1, <1>2, <1>3, LenProperties DEF ClientOK

\* The whole message is unsent when the client becomes active.
LEMMA ChannelActiveIndInv ==
  ASSUME IndInv, NEW c \in Clients, ChannelActive(c)
  PROVE  IndInv'
<1>1. /\ client[c] = "connecting" /\ running
      /\ client' = [client EXCEPT ![c] = "active"] /\ unsent' = [unsent EXCEPT ![c] = Message]
      /\ running' = running /\ up' = up /\ server' = server /\ loop' = loop
      /\ outbound' = outbound /\ flushed' = flushed /\ down' = down /\ reset' = reset
      /\ received' = received /\ read' = read /\ ending' = ending
  BY DEF ChannelActive, wireVars, serverVars
<1>2. TypeOK'
  <2>1. Message \in Seq(Bytes)
    BY MessageFacts
  <2> QED
    BY <1>1, <2>1 DEF IndInv, TypeOK
<1>3. \A d \in Clients \ {c} : View(d)' = View(d)
  BY <1>1, OfClient DEF TypeOK, View
<1>4. client'[c] = "active" /\ unsent'[c] = Message
  BY <1>1, OfClient DEF TypeOK
<1>5. /\ server[c] = "none" /\ up[c] = <<>> /\ ~reset[c]
      /\ loop[c] = "idle" /\ outbound[c] = <<>> /\ flushed[c] = 0 /\ down[c] = <<>>
      /\ received[c] = <<>> /\ read[c] = 0 /\ ending[c] = "none"
  BY <1>1, OfClient DEF ConnectingOK, AcceptingOK, EndingOK
<1>6. ConnectingOK(c)' /\ AcceptingOK(c)' /\ EndingOK(c)' /\ ResetOK(c)' /\ OutboundOK(c)'
  BY <1>1, <1>4, <1>5 DEF ConnectingOK, AcceptingOK, EndingOK, ResetOK, OutboundOK
<1>7. StreamOK(c)' /\ ReadSoFar(c)' /\ ClosedOK(c)'
  BY <1>1, <1>4, <1>5, EmptySeq DEF StreamOK, ReadSoFar, ClosedOK, Ahead
<1>8. Conserved(c)'
  <2>1. <<>> \o <<>> \o <<>> \o <<>> \o Message = Message
    BY MessageFacts, EmptySeq, ConcatEmptySeq
  <2> QED
    BY <1>1, <1>4, <1>5, <2>1, OnlyBytesFacts DEF Conserved
<1>9. BeginningOK(c)'
  <2>1. <<>> \o <<>> = Beginning(0) /\ 0 \in 0 .. MessageLength
    BY MessageFacts, EmptySeq, ConcatEmptySeq DEF Beginning
  <2> QED
    BY <1>1, <1>4, <1>5, <2>1, OnlyBytesFacts DEF BeginningOK
<1> QED
  BY <1>1, <1>2, <1>3, <1>6, <1>7, <1>8, <1>9, OneClient DEF ClientOK

\* Nothing has happened on a connection that fails.
LEMMA ConnectFailsIndInv ==
  ASSUME IndInv, NEW c \in Clients, ConnectFails(c)
  PROVE  IndInv'
<1>1. /\ client[c] = "connecting" /\ client' = [client EXCEPT ![c] = "failed"]
      /\ running' = running /\ unsent' = unsent /\ up' = up /\ server' = server /\ loop' = loop
      /\ outbound' = outbound /\ flushed' = flushed /\ down' = down /\ reset' = reset
      /\ received' = received /\ read' = read /\ ending' = ending
  BY DEF ConnectFails, wireVars, serverVars
<1>2. TypeOK'
  BY <1>1, OfClient DEF TypeOK
<1>3. \A d \in Clients \ {c} : View(d)' = View(d)
  BY <1>1, OfClient DEF TypeOK, View
<1>4. client'[c] = "failed"
  BY <1>1, OfClient DEF TypeOK
<1>5. ConnectingOK(c) /\ AcceptingOK(c) /\ EndingOK(c) /\ ResetOK(c) /\ StreamOK(c) /\ OutboundOK(c)
  BY OfClient
<1>6. /\ ConnectingOK(c)' /\ AcceptingOK(c)' /\ EndingOK(c)' /\ ResetOK(c)' /\ OutboundOK(c)'
      /\ StreamOK(c)' /\ ReadSoFar(c)' /\ ClosedOK(c)' /\ Conserved(c)'
  BY <1>1, <1>4, <1>5 DEF ConnectingOK, AcceptingOK, EndingOK, ResetOK, OutboundOK, StreamOK,
     ReadSoFar, ClosedOK, Conserved
<1>7. received[c] = <<>>
  BY <1>1, <1>5 DEF ConnectingOK, AcceptingOK
<1>8. <<>> = Beginning(0) /\ 0 \in 0 .. MessageLength
  BY MessageFacts DEF Beginning
<1>9. BeginningOK(c)'
  BY <1>1, <1>4, <1>7, <1>8 DEF BeginningOK
<1> QED
  BY <1>1, <1>2, <1>3, <1>6, <1>9, OneClient DEF ClientOK

\* Bytes move from unsent to up.  When the server has read the whole message and
\* closed the channel, there are none.
LEMMA ClientSendsIndInv ==
  ASSUME IndInv, NEW c \in Clients, ClientSends(c)
  PROVE  IndInv'
<1>1. /\ client[c] = "active" /\ ~reset[c]
      /\ running' = running /\ client' = client /\ server' = server /\ loop' = loop
      /\ outbound' = outbound /\ flushed' = flushed /\ down' = down /\ reset' = reset
      /\ received' = received /\ read' = read /\ ending' = ending
  BY DEF ClientSends, serverVars
<1>2. unsent[c] \in Seq(Bytes) /\ up[c] \in Seq(Bytes)
  BY OfClient
<1>3. \E f, w \in Seq(Bytes) : /\ f \o w = unsent[c] /\ unsent[c] # <<>>
                              /\ up' = [up EXCEPT ![c] = up[c] \o f]
                              /\ unsent' = [unsent EXCEPT ![c] = w]
  <2>1. PICK n \in 1 .. Len(unsent[c]) :
          /\ up' = [up EXCEPT ![c] = up[c] \o FirstBytes(unsent[c], n)]
          /\ unsent' = [unsent EXCEPT ![c] = Without(unsent[c], n)]
    BY DEF ClientSends
  <2>2. /\ FirstBytes(unsent[c], n) \in Seq(Bytes) /\ Without(unsent[c], n) \in Seq(Bytes)
        /\ FirstBytes(unsent[c], n) \o Without(unsent[c], n) = unsent[c]
    BY <1>2, FirstAndOthers
  <2>3. unsent[c] # <<>>
    BY EmptySeq
  <2> QED
    BY <2>1, <2>2, <2>3, Zenon
<1>4. PICK f \in Seq(Bytes), w \in Seq(Bytes) :
        /\ f \o w = unsent[c] /\ unsent[c] # <<>>
        /\ up' = [up EXCEPT ![c] = up[c] \o f]
        /\ unsent' = [unsent EXCEPT ![c] = w]
  BY <1>3
<1>5. up[c] \o f \in Seq(Bytes)
  BY <1>2, ConcatProperties
<1>6. TypeOK'
  BY <1>1, <1>4, <1>5, OfClient DEF TypeOK
<1>7. \A d \in Clients \ {c} : View(d)' = View(d)
  BY <1>1, <1>4, OfClient DEF TypeOK, View
<1>8. up'[c] = up[c] \o f /\ unsent'[c] = w
  BY <1>4, OfClient DEF TypeOK
<1>9. /\ ConnectingOK(c) /\ AcceptingOK(c) /\ EndingOK(c) /\ ResetOK(c) /\ StreamOK(c) /\ OutboundOK(c)
      /\ Conserved(c) /\ ReadSoFar(c) /\ BeginningOK(c) /\ ClosedOK(c)
  BY OfClient
<1>10. ConnectingOK(c)' /\ AcceptingOK(c)' /\ EndingOK(c)' /\ ResetOK(c)' /\ OutboundOK(c)'
  BY <1>1, <1>9 DEF ConnectingOK, AcceptingOK, EndingOK, ResetOK, OutboundOK
<1>11. StreamOK(c)' /\ ReadSoFar(c)' /\ BeginningOK(c)'
  BY <1>1, <1>9 DEF StreamOK, ReadSoFar, BeginningOK
<1>12. ClosedOK(c)'
  BY <1>1, <1>4, <1>9 DEF ClosedOK
<1>13. Conserved(c)'
  <2> DEFINE buffered == OnlyBytes(outbound[c])
  <2>1. SUFFICES ASSUME server[c] \in {"none", "active"}
                 PROVE  Joined(received[c], down[c], buffered, Cat(up[c], f), w) = Message
    BY <1>1, <1>8, Zenon DEF Conserved, Joined, Cat
  <2>2. \A i \in 1 .. Len(down[c]) : down[c][i] # Close
    BY <1>9, <2>1, MessageFacts DEF StreamOK
  <2>3. down[c] \in Seq(Bytes) /\ buffered \in Seq(Bytes) /\ received[c] \in Seq(Bytes)
    BY <2>2, OfClient, NoMarker, OnlyBytesFacts
  <2>4. Joined(received[c], down[c], buffered, up[c], unsent[c]) = Message
    BY <1>1, <1>9, <2>1 DEF Conserved, Joined, Cat
  <2> HIDE DEF buffered
  <2>5. Joined(received[c], down[c], buffered, Cat(up[c], f), w)
          = Joined(received[c], down[c], buffered, up[c], Cat(f, w))
    <3>1. Strings(received[c], down[c], buffered, up[c], w, f)
      BY <1>2, <2>3 DEF Strings
    <3> QED
      BY <3>1, MovedBytes
  <2> QED
    BY <1>4, <2>4, <2>5, Zenon DEF Cat
<1> QED
  BY <1>1, <1>6, <1>7, <1>10, <1>11, <1>12, <1>13, OneClient DEF ClientOK

\* The first bytes on the way to the client move to received.
LEMMA ClientReadsIndInv ==
  ASSUME IndInv, NEW c \in Clients, ClientReads(c)
  PROVE  /\ IndInv'
         /\ \E f \in Seq(Bytes) : f # <<>> /\ received' = [received EXCEPT ![c] = received[c] \o f]
<1>1. /\ client[c] = "active"
      /\ running' = running /\ client' = client /\ unsent' = unsent /\ up' = up
      /\ server' = server /\ loop' = loop /\ outbound' = outbound /\ flushed' = flushed
      /\ reset' = reset /\ read' = read /\ ending' = ending
  BY DEF ClientReads, serverVars
<1>2. /\ down[c] \in Seq(Entries) /\ received[c] \in Seq(Bytes) /\ outbound[c] \in Seq(Entries)
      /\ up[c] \in Seq(Bytes) /\ unsent[c] \in Seq(Bytes) /\ Len(down[c]) \in Nat
  BY OfClient
<1>3. \E f \in Seq(Bytes), w \in Seq(Entries) :
        /\ f \o w = down[c] /\ f # <<>> /\ Len(down[c]) = Len(f) + Len(w)
        /\ \A i \in 1 .. Len(w) : w[i] = down[c][Len(f) + i]
        /\ received' = [received EXCEPT ![c] = received[c] \o f]
        /\ down' = [down EXCEPT ![c] = w]
  <2>1. PICK n \in 1 .. Len(down[c]) :
          /\ EndOfStream \notin ToSet(FirstBytes(down[c], n))
          /\ received' = [received EXCEPT ![c] = received[c] \o FirstBytes(down[c], n)]
          /\ down' = [down EXCEPT ![c] = Without(down[c], n)]
    BY DEF ClientReads
  <2> DEFINE f == FirstBytes(down[c], n)
             w == Without(down[c], n)
  <2>2. /\ f \in Seq(Entries) /\ Len(f) = n /\ w \in Seq(Entries) /\ Len(w) = Len(down[c]) - n
        /\ \A i \in 1 .. Len(down[c]) - n : w[i] = down[c][n + i]
        /\ f \o w = down[c]
    <3>1. down[c] \in Seq(Entries)
      BY <1>2
    <3>2. f \in Seq(Entries) /\ Len(f) = n /\ f \o w = down[c]
      BY <3>1, FirstAndOthers
    <3>3. w \in Seq(Entries) /\ Len(w) = Len(down[c]) - n
      BY <3>1, FirstAndOthers
    <3>4. \A i \in 1 .. Len(down[c]) - n : w[i] = down[c][n + i]
      BY <3>1, FirstAndOthers
    <3> QED
      BY <3>2, <3>3, <3>4
  <2>3. EndOfStream \notin ToSet(f) /\ received' = [received EXCEPT ![c] = received[c] \o f]
        /\ down' = [down EXCEPT ![c] = w]
    BY <2>1
  <2> HIDE DEF f, w
  <2>4. \A i \in 1 .. Len(f) : f[i] # Close
    BY <2>3, MessageFacts DEF ToSet
  <2>5. f \in Seq(Bytes)
    BY <2>2, <2>4, NoMarker
  <2>6. f # <<>> /\ Len(down[c]) = Len(f) + Len(w)
        /\ \A i \in 1 .. Len(w) : w[i] = down[c][Len(f) + i]
    BY <1>2, <2>2, EmptySeq
  <2> QED
    BY <2>2, <2>3, <2>5, <2>6, Zenon
<1>4. PICK f \in Seq(Bytes), w \in Seq(Entries) :
        /\ f \o w = down[c] /\ f # <<>> /\ Len(down[c]) = Len(f) + Len(w)
        /\ \A i \in 1 .. Len(w) : w[i] = down[c][Len(f) + i]
        /\ received' = [received EXCEPT ![c] = received[c] \o f]
        /\ down' = [down EXCEPT ![c] = w]
  BY <1>3
<1>5. received[c] \o f \in Seq(Bytes) /\ Len(received[c] \o f) = Len(received[c]) + Len(f)
      /\ Len(f) \in Nat /\ Len(w) \in Nat /\ Len(received[c]) \in Nat
  BY <1>2, ConcatProperties, LenProperties
<1>6. TypeOK'
  BY <1>1, <1>4, <1>5, OfClient DEF TypeOK
<1>7. \A d \in Clients \ {c} : View(d)' = View(d)
  BY <1>1, <1>4, OfClient DEF TypeOK, View
<1>8. received'[c] = received[c] \o f /\ down'[c] = w
  BY <1>4, OfClient DEF TypeOK
<1>9. /\ ConnectingOK(c) /\ AcceptingOK(c) /\ EndingOK(c) /\ ResetOK(c) /\ StreamOK(c) /\ OutboundOK(c)
      /\ Conserved(c) /\ ReadSoFar(c) /\ BeginningOK(c) /\ ClosedOK(c)
  BY OfClient
<1>10. server[c] # "none"
  <2>1. Len(f) # 0
    BY <1>4, EmptySeq
  <2>2. Len(down[c]) # 0
    BY <1>4, <1>5, <2>1
  <2> QED
    BY <1>9, <2>2, EmptySeq DEF AcceptingOK
<1>11. ConnectingOK(c)' /\ AcceptingOK(c)' /\ ResetOK(c)' /\ OutboundOK(c)' /\ EndingOK(c)'
  BY <1>1, <1>9, <1>10 DEF ConnectingOK, AcceptingOK, ResetOK, OutboundOK, EndingOK
<1>12. StreamOK(c)'
  <2> SUFFICES ASSUME NEW i \in 1 .. Len(w), w[i] = EndOfStream
               PROVE  server[c] \in {"closed", "killed"} /\ i = Len(w)
    BY <1>1, <1>8 DEF StreamOK
  <2>1. Len(f) + i \in 1 .. Len(down[c]) /\ down[c][Len(f) + i] = EndOfStream
    BY <1>4, <1>5
  <2> QED
    BY <1>4, <1>5, <1>9, <2>1 DEF StreamOK
<1>13. Conserved(c)'
  <2> DEFINE buffered == OnlyBytes(outbound[c])
  <2>1. SUFFICES ASSUME server[c] \in {"none", "active"}
                 PROVE  Joined(Cat(received[c], f), w, buffered, up[c], unsent[c]) = Message
    BY <1>1, <1>8, Zenon DEF Conserved, Joined, Cat
  <2>2. \A i \in 1 .. Len(down[c]) : down[c][i] # Close
    BY <1>9, <2>1, MessageFacts DEF StreamOK
  <2>3. ASSUME NEW i \in 1 .. Len(w) PROVE w[i] # Close
    <3>1. Len(f) + i \in 1 .. Len(down[c]) /\ w[i] = down[c][Len(f) + i]
      BY <1>4, <1>5
    <3> QED
      BY <2>2, <3>1
  <2>4. w \in Seq(Bytes) /\ buffered \in Seq(Bytes)
    BY <1>2, <2>3, NoMarker, OnlyBytesFacts
  <2>5. Joined(received[c], down[c], buffered, up[c], unsent[c]) = Message
    BY <1>1, <1>9, <2>1 DEF Conserved, Joined, Cat
  <2> HIDE DEF buffered
  <2>6. Strings(received[c], w, buffered, up[c], unsent[c], f)
    BY <1>2, <2>4 DEF Strings
  <2>7. Joined(Cat(received[c], f), w, buffered, up[c], unsent[c])
          = Joined(received[c], Cat(f, w), buffered, up[c], unsent[c])
    BY <2>6, MovedBytes
  <2> QED
    BY <1>4, <2>5, <2>7, Zenon DEF Cat
<1>14. ReadSoFar(c)'
  <2>1. Len(received[c] \o f) + Len(w) = Len(received[c]) + Len(down[c])
    <3>1. Len(down[c]) = Len(f) + Len(w)
      BY <1>4
    <3>2. \A i, j, k \in Nat : (i + j) + k = i + (j + k)
      OBVIOUS
    <3>3. (Len(received[c]) + Len(f)) + Len(w) = Len(received[c]) + (Len(f) + Len(w))
      BY <1>5, <3>2, Zenon
    <3> QED
      BY <1>5, <3>1, <3>3, Zenon
  <2> QED
    BY <1>1, <1>8, <1>9, <2>1 DEF ReadSoFar
<1>15. (received[c] \o f) \o OnlyBytes(w) = received[c] \o OnlyBytes(down[c])
  <2>1. OnlyBytes(w) \in Seq(Bytes) /\ OnlyBytes(f) = f /\ f \in Seq(Entries)
    BY OnlyBytesFacts
  <2>2. OnlyBytes(f \o w) = OnlyBytes(f) \o OnlyBytes(w)
    BY <2>1, OnlyBytesFacts
  <2>3. (received[c] \o f) \o OnlyBytes(w) = received[c] \o (f \o OnlyBytes(w))
    <3>1. Cat(Cat(received[c], f), OnlyBytes(w)) = Cat(received[c], Cat(f, OnlyBytes(w)))
      <4>1. received[c] \in Seq(Bytes) /\ OnlyBytes(w) \in Seq(Bytes)
        BY <1>2, <2>1
      <4> QED
        BY <4>1, CatGroups, Zenon
    <3> QED
      BY <3>1, Zenon DEF Cat
  <2> QED
    BY <1>4, <2>1, <2>2, <2>3, Zenon
<1>16. BeginningOK(c)' /\ ClosedOK(c)'
  BY <1>1, <1>8, <1>9, <1>15 DEF BeginningOK, ClosedOK
<1>17. IndInv'
  BY <1>1, <1>6, <1>7, <1>11, <1>12, <1>13, <1>14, <1>16, OneClient DEF ClientOK
<1> QED
  BY <1>4, <1>17

\* A client that closes has received a beginning of the message.
LEMMA CloseClientIndInv ==
  ASSUME IndInv, NEW c \in Clients, client[c] = "active",
         NEW how \in {"end", "reset", "killed"}, CloseClient(c, how), up' = up, down' = down,
         reset' \in {reset, [reset EXCEPT ![c] = TRUE]},
         how = "end" =>
           /\ server[c] \in {"closed", "killed"}
           /\ server[c] = "closed" =>
                received[c] # <<>> /\ (read[c] = MessageLength => received[c] = Message),
         how = "reset" =>
           \/ server[c] = "killed"
           \/ server[c] = "none" /\ ~running
           \/ server[c] = "closed" /\ read[c] # MessageLength
  PROVE  IndInv'
<1>1. /\ client' = [client EXCEPT ![c] = "closed"] /\ ending' = [ending EXCEPT ![c] = how]
      /\ unsent' = [unsent EXCEPT ![c] = <<>>]
      /\ running' = running /\ received' = received /\ server' = server /\ loop' = loop
      /\ outbound' = outbound /\ flushed' = flushed /\ read' = read
  BY DEF CloseClient, serverVars
<1>2. TypeOK'
  BY <1>1, OfClient, EmptySeq DEF TypeOK
<1>3. \A d \in Clients \ {c} : View(d)' = View(d)
  BY <1>1, OfClient DEF TypeOK, View
<1>4. client'[c] = "closed" /\ ending'[c] = how /\ unsent'[c] = <<>>
  BY <1>1, OfClient DEF TypeOK
<1>5. /\ AcceptingOK(c) /\ StreamOK(c) /\ OutboundOK(c) /\ BeginningOK(c)
  BY OfClient
<1>6. ConnectingOK(c)' /\ ResetOK(c)' /\ Conserved(c)' /\ ReadSoFar(c)' /\ ClosedOK(c)'
  BY <1>4 DEF ConnectingOK, ResetOK, Conserved, ReadSoFar, ClosedOK
<1>7. AcceptingOK(c)' /\ StreamOK(c)' /\ OutboundOK(c)'
  BY <1>1, <1>5 DEF AcceptingOK, StreamOK, OutboundOK
<1>8. EndingOK(c)'
  BY <1>1, <1>4 DEF EndingOK
<1>9. BeginningOK(c)'
  <2>1. PICK m \in 0 .. MessageLength : received[c] \o OnlyBytes(down[c]) = Beginning(m)
    BY <1>5 DEF BeginningOK
  <2>2. received[c] \in Seq(Bytes) /\ OnlyBytes(down[c]) \in Seq(Bytes)
    BY OfClient, OnlyBytesFacts
  <2>3. Len(received[c]) \in 0 .. MessageLength /\ received[c] = Beginning(Len(received[c]))
    BY <2>1, <2>2, BeginningOfBeginning, Zenon
  <2> QED
    BY <1>1, <1>4, <2>3 DEF BeginningOK
<1> QED
  BY <1>1, <1>2, <1>3, <1>6, <1>7, <1>8, <1>9, OneClient DEF ClientOK

\* At the end of the stream of a server that lives, all of it is received.
LEMMA ClientSeesEndIndInv ==
  ASSUME IndInv, NEW c \in Clients, ClientSeesEnd(c)
  PROVE  /\ IndInv' /\ CloseClient(c, "end") /\ client[c] = "active"
         /\ server[c] \in {"closed", "killed"} /\ (server[c] = "closed" => received[c] # <<>>)
<1>1. /\ client[c] = "active" /\ down[c] # <<>> /\ Head(down[c]) = Close
      /\ CloseClient(c, "end") /\ up' = up /\ down' = down /\ reset' = reset
  BY MessageFacts DEF ClientSeesEnd, wireVars
<1>2. /\ down[c] \in Seq(Entries) /\ received[c] \in Seq(Bytes) /\ read[c] \in Nat
      /\ StreamOK(c) /\ ClosedOK(c)
  BY OfClient
<1>3. /\ Len(down[c]) \in Nat \ {0} /\ down[c][1] = Close
      /\ Tail(down[c]) \in Seq(Entries) /\ Len(Tail(down[c])) = Len(down[c]) - 1
  BY <1>1, <1>2, HeadAndTail
<1>4. server[c] \in {"closed", "killed"} /\ 1 = Len(down[c])
  <2>1. 1 \in 1 .. Len(down[c]) /\ down[c][1] = EndOfStream
    BY <1>3, MessageFacts
  <2> QED
    BY <1>2, <2>1 DEF StreamOK
<1>5. OnlyBytes(down[c]) = <<>>
  <2>1. Tail(down[c]) = <<>>
    <3>1. Len(Tail(down[c])) = 0
      BY <1>3, <1>4
    <3> QED
      BY <1>3, <3>1, EmptySeq
  <2>2. OnlyBytes(down[c]) = OnlyBytes(Tail(down[c]))
    BY <1>1, <1>2, OnlyBytesFacts
  <2> QED
    BY <2>1, <2>2, OnlyBytesFacts
<1>6. received[c] \o OnlyBytes(down[c]) = received[c]
  BY <1>2, <1>5, ConcatEmptySeq
<1>7. server[c] = "closed" => received[c] # <<>> /\ (read[c] = MessageLength => received[c] = Message)
  <2> SUFFICES ASSUME server[c] = "closed"
               PROVE  received[c] # <<>> /\ (read[c] = MessageLength => received[c] = Message)
    OBVIOUS
  <2>1. /\ read[c] > 0 /\ Len(received[c]) >= read[c]
        /\ read[c] = MessageLength => received[c] = Message
    BY <1>1, <1>2, <1>6 DEF ClosedOK
  <2>2. Len(received[c]) # 0
    BY <1>2, <2>1, LenProperties
  <2> QED
    BY <2>1, <2>2, EmptySeq
<1>8. IndInv'
  BY <1>1, <1>4, <1>7, CloseClientIndInv
<1> QED
  BY <1>1, <1>4, <1>7, <1>8

\* A reset comes from a server that has not read the message in full.
LEMMA ClientExceptionCaughtIndInv ==
  ASSUME IndInv, NEW c \in Clients, ClientExceptionCaught(c)
  PROVE  IndInv'
<1>1. /\ client[c] = "active" /\ reset[c] /\ CloseClient(c, "reset")
      /\ up' = up /\ down' = down /\ reset' = reset
  BY DEF ClientExceptionCaught, wireVars
<1>2. ResetOK(c) /\ ClosedOK(c)
  BY OfClient
<1>3. \/ server[c] = "killed"
      \/ server[c] = "none" /\ ~running
      \/ server[c] = "closed" /\ read[c] # MessageLength
  BY <1>1, <1>2 DEF ResetOK, ClosedOK
<1> QED
  BY <1>1, <1>3, CloseClientIndInv

\* A client may be killed at any moment.
LEMMA KillClientIndInv ==
  ASSUME IndInv, NEW c \in Clients, KillClient(c)
  PROVE  IndInv'
<1>1. /\ client[c] = "active" /\ CloseClient(c, "killed") /\ up' = up /\ down' = down
      /\ reset' \in {reset, [reset EXCEPT ![c] = TRUE]}
  BY DEF KillClient
<1> QED
  BY <1>1, CloseClientIndInv

\* The invariant does not depend on the main threads.
LEMMA MainIndInv ==
  ASSUME IndInv,
         UNCHANGED <<running, client, unsent, up, server, loop, outbound, flushed, down, reset,
                     received, read, ending>>
  PROVE  IndInv'
<1>1. TypeOK'
  BY DEF IndInv, TypeOK
<1>2. \A c \in Clients : ClientOK(c)'
  BY SameView DEF IndInv, View
<1> QED
  BY <1>1, <1>2 DEF IndInv

\* A channel that is accepted is empty.
LEMMA AcceptIndInv ==
  ASSUME IndInv, NEW c \in Clients, Accept(c)
  PROVE  IndInv'
<1>1. /\ client[c] \in {"active", "closed"} /\ server[c] = "none" /\ running
      /\ server' = [server EXCEPT ![c] = "active"]
      /\ running' = running /\ client' = client /\ unsent' = unsent /\ up' = up /\ loop' = loop
      /\ outbound' = outbound /\ flushed' = flushed /\ down' = down /\ reset' = reset
      /\ received' = received /\ read' = read /\ ending' = ending
  BY DEF Accept, clientVars, wireVars
<1>2. TypeOK'
  BY <1>1, OfClient DEF TypeOK
<1>3. \A d \in Clients \ {c} : View(d)' = View(d)
  BY <1>1, OfClient DEF TypeOK, View
<1>4. server'[c] = "active"
  BY <1>1, OfClient DEF TypeOK
<1>5. /\ ConnectingOK(c) /\ AcceptingOK(c) /\ EndingOK(c) /\ ResetOK(c) /\ Conserved(c) /\ BeginningOK(c)
  BY OfClient
<1>6. /\ loop[c] = "idle" /\ outbound[c] = <<>> /\ flushed[c] = 0 /\ down[c] = <<>>
      /\ received[c] = <<>> /\ read[c] = 0
  BY <1>1, <1>5 DEF AcceptingOK
<1>7. ConnectingOK(c)' /\ AcceptingOK(c)' /\ EndingOK(c)' /\ ResetOK(c)'
  BY <1>1, <1>4, <1>5 DEF ConnectingOK, AcceptingOK, EndingOK, ResetOK
<1>8. StreamOK(c)' /\ OutboundOK(c)' /\ ReadSoFar(c)'
  BY <1>1, <1>4, <1>6, EmptySeq DEF StreamOK, OutboundOK, ReadSoFar, Ahead
<1>9. Conserved(c)' /\ BeginningOK(c)' /\ ClosedOK(c)'
  BY <1>1, <1>4, <1>5 DEF Conserved, BeginningOK, ClosedOK
<1> QED
  BY <1>1, <1>2, <1>3, <1>7, <1>8, <1>9, OneClient DEF ClientOK

\* Bytes move from up to the outbound buffer; read counts them, unless an empty
\* buffer was written before them.
LEMMA ChannelReadIndInv ==
  ASSUME IndInv, NEW c \in Clients, ChannelRead(c)
  PROVE  IndInv'
<1>1. /\ server[c] = "active"
      /\ running' = running /\ client' = client /\ unsent' = unsent /\ server' = server
      /\ flushed' = flushed /\ down' = down /\ reset' = reset /\ received' = received
      /\ ending' = ending
  BY DEF ChannelRead, clientVars
<1>2. /\ up[c] \in Seq(Bytes) /\ outbound[c] \in Seq(Entries) /\ read[c] \in Nat
      /\ received[c] \in Seq(Bytes) /\ unsent[c] \in Seq(Bytes) /\ down[c] \in Seq(Entries)
      /\ Len(up[c]) \in Nat /\ flushed[c] \in Nat
  BY OfClient
<1>3. \E f, w \in Seq(Bytes), l \in {"reading", "completing"} :
        /\ f \o w = up[c] /\ Len(f) > 0
        /\ outbound' = [outbound EXCEPT ![c] = outbound[c] \o f]
        /\ up' = [up EXCEPT ![c] = w]
        /\ loop' = [loop EXCEPT ![c] = l]
        /\ read' = [read EXCEPT ![c] = IF Close \in ToSet(outbound[c]) THEN read[c]
                                       ELSE read[c] + Len(f)]
  <2>1. PICK n \in 1 .. Min({Len(up[c]), BufferSize}) :
          /\ outbound' = [outbound EXCEPT ![c] = outbound[c] \o FirstBytes(up[c], n)]
          /\ up' = [up EXCEPT ![c] = Without(up[c], n)]
          /\ loop' = [loop EXCEPT ![c] = IF n = BufferSize THEN "reading" ELSE "completing"]
          /\ read' = [read EXCEPT ![c] = IF Close \in ToSet(outbound[c]) THEN read[c] ELSE read[c] + n]
    BY DEF ChannelRead, Written
  <2>2. n \in 1 .. Len(up[c])
    <3>1. Len(up[c]) \in Nat /\ BufferSize \in Nat
      BY <1>2, MessageFacts
    <3>2. \A i, j \in Nat : Min({i, j}) \in Nat /\ Min({i, j}) <= i
      BY DEF Min
    <3> QED
      BY <3>1, <3>2
  <2>3. /\ FirstBytes(up[c], n) \in Seq(Bytes) /\ Without(up[c], n) \in Seq(Bytes)
        /\ Len(FirstBytes(up[c], n)) = n
        /\ FirstBytes(up[c], n) \o Without(up[c], n) = up[c]
    <3>1. up[c] \in Seq(Bytes)
      BY <1>2
    <3> QED
      BY <2>2, <3>1, FirstAndOthers
  <2>4. (IF n = BufferSize THEN "reading" ELSE "completing") \in {"reading", "completing"} /\ n > 0
    BY <2>2
  <2> QED
    BY <2>1, <2>3, <2>4, Zenon
<1>4. PICK f \in Seq(Bytes), w \in Seq(Bytes), l \in {"reading", "completing"} :
        /\ f \o w = up[c] /\ Len(f) > 0
        /\ outbound' = [outbound EXCEPT ![c] = outbound[c] \o f]
        /\ up' = [up EXCEPT ![c] = w]
        /\ loop' = [loop EXCEPT ![c] = l]
        /\ read' = [read EXCEPT ![c] = IF Close \in ToSet(outbound[c]) THEN read[c]
                                       ELSE read[c] + Len(f)]
  BY <1>3
<1>5. Len(f) \in Nat /\ f \in Seq(Entries)
  BY LenProperties, OnlyBytesFacts
<1>6. outbound[c] \o f \in Seq(Entries) /\ Len(outbound[c] \o f) = Len(outbound[c]) + Len(f)
      /\ Len(outbound[c]) \in Nat
  BY <1>2, <1>5, ConcatProperties, LenProperties
<1>7. TypeOK'
  BY <1>1, <1>2, <1>4, <1>5, <1>6 DEF IndInv, TypeOK
<1>8. \A d \in Clients \ {c} : View(d)' = View(d)
  BY <1>1, <1>4, OfClient DEF TypeOK, View
<1>9. /\ outbound'[c] = outbound[c] \o f /\ up'[c] = w /\ loop'[c] = l
      /\ read'[c] = IF Close \in ToSet(outbound[c]) THEN read[c] ELSE read[c] + Len(f)
  BY <1>4, OfClient DEF TypeOK
<1>10. /\ ConnectingOK(c) /\ EndingOK(c) /\ ResetOK(c) /\ StreamOK(c) /\ OutboundOK(c)
       /\ Conserved(c) /\ ReadSoFar(c) /\ BeginningOK(c)
  BY OfClient
<1>11. ConnectingOK(c)' /\ AcceptingOK(c)' /\ EndingOK(c)' /\ ResetOK(c)' /\ StreamOK(c)'
  BY <1>1, <1>10 DEF ConnectingOK, AcceptingOK, EndingOK, ResetOK, StreamOK
<1>12. BeginningOK(c)' /\ ClosedOK(c)'
  BY <1>1, <1>10 DEF BeginningOK, ClosedOK
<1>13. OutboundOK(c)'
  <2>1. flushed[c] <= Len(outbound[c]) /\ (outbound[c] # <<>> => read[c] > 0)
    BY <1>1, <1>10 DEF OutboundOK
  <2>2. flushed[c] <= Len(outbound[c] \o f)
    BY <1>2, <1>5, <1>6, <2>1
  <2>3. Close \in ToSet(outbound[c]) => outbound[c] # <<>>
    BY EmptySeq DEF ToSet
  <2>4. read'[c] > 0
    BY <1>2, <1>4, <1>5, <1>9, <2>1, <2>3
  <2> QED
    BY <1>1, <1>9, <2>2, <2>4 DEF OutboundOK
<1>14. Conserved(c)'
  <2> DEFINE buffered == OnlyBytes(outbound[c])
  <2>0. OnlyBytes(outbound[c] \o f) = Cat(buffered, f)
    <3>1. OnlyBytes(outbound[c] \o f) = OnlyBytes(outbound[c]) \o OnlyBytes(f)
      BY <1>2, <1>5, OnlyBytesFacts
    <3>2. OnlyBytes(f) = f
      BY OnlyBytesFacts
    <3> QED
      BY <3>1, <3>2, Zenon DEF Cat
  <2>1. SUFFICES ASSUME client[c] = "active"
                 PROVE  Joined(received[c], down[c], Cat(buffered, f), w, unsent[c]) = Message
    BY <1>1, <1>9, <2>0, Zenon DEF Conserved, Joined, Cat
  <2>2. \A i \in 1 .. Len(down[c]) : down[c][i] # Close
    BY <1>1, <1>10, MessageFacts DEF StreamOK
  <2>3. down[c] \in Seq(Bytes) /\ buffered \in Seq(Bytes)
    BY <1>2, <2>2, NoMarker, OnlyBytesFacts
  <2>4. Joined(received[c], down[c], buffered, up[c], unsent[c]) = Message
    BY <1>1, <1>10, <2>1 DEF Conserved, Joined, Cat
  <2> HIDE DEF buffered
  <2>5. Strings(received[c], down[c], buffered, w, unsent[c], f)
    BY <1>2, <2>3 DEF Strings
  <2>6. Joined(received[c], down[c], Cat(buffered, f), w, unsent[c])
          = Joined(received[c], down[c], buffered, Cat(f, w), unsent[c])
    BY <2>5, MovedBytes
  <2> QED
    BY <1>4, <2>4, <2>6, Zenon DEF Cat
<1>15. ReadSoFar(c)'
  <2> SUFFICES ASSUME client[c] = "active"
               PROVE  \E k \in 0 .. Len(outbound[c] \o f) :
                        /\ Ahead(outbound[c] \o f, k)
                        /\ read'[c] = Len(received[c]) + Len(down[c]) + k
    BY <1>1, <1>9 DEF ReadSoFar
  <2>1. PICK k \in 0 .. Len(outbound[c]) :
          Ahead(outbound[c], k) /\ read[c] = Len(received[c]) + Len(down[c]) + k
    BY <1>1, <1>10 DEF ReadSoFar
  <2> DEFINE m == IF Close \in ToSet(outbound[c]) THEN k ELSE k + Len(f)
  <2>2. Ahead(outbound[c] \o f, m)
    BY <1>2, <2>1, AheadAfterRead
  <2>3. read'[c] = Len(received[c]) + Len(down[c]) + m
    <3>1. \A i, j, p \in Nat : (i + j) + p = i + (j + p) /\ i + j \in Nat
      OBVIOUS
    <3>2. Len(received[c]) + Len(down[c]) \in Nat /\ k \in Nat
      <4>1. Len(received[c]) \in Nat /\ Len(down[c]) \in Nat
        BY OfClient
      <4>2. k \in Nat
        BY <1>6
      <4> QED
        BY <3>1, <4>1, <4>2, Zenon
    <3>3. (Len(received[c]) + Len(down[c]) + k) + Len(f) = Len(received[c]) + Len(down[c]) + (k + Len(f))
      BY <1>5, <3>1, <3>2, Zenon
    <3> QED
      BY <1>9, <2>1, <3>3
  <2>4. m \in 0 .. Len(outbound[c] \o f)
    BY <2>2 DEF Ahead
  <2> QED
    BY <2>2, <2>3, <2>4
<1> QED
  BY <1>1, <1>7, <1>8, <1>11, <1>12, <1>13, <1>14, <1>15, OneClient DEF ClientOK

\* An empty buffer is no byte.
LEMMA ChannelReadCompleteIndInv ==
  ASSUME IndInv, NEW c \in Clients, ChannelReadComplete(c)
  PROVE  IndInv'
<1>1. /\ server[c] = "active" /\ loop[c] # "idle"
      /\ outbound' = [outbound EXCEPT ![c] = outbound[c] \o <<Close>>]
      /\ flushed' = [flushed EXCEPT ![c] = Len(outbound'[c])]
      /\ loop' = [loop EXCEPT ![c] = "idle"]
      /\ running' = running /\ client' = client /\ unsent' = unsent /\ server' = server /\ up' = up
      /\ down' = down /\ reset' = reset /\ received' = received /\ read' = read /\ ending' = ending
  BY DEF ChannelReadComplete, clientVars, wireVars, EmptyBuffer
<1>2. outbound[c] \in Seq(Entries) /\ Close \in Entries
  BY OfClient DEF Entries
<1> DEFINE whole == Append(outbound[c], Close)
<1>3. whole = outbound[c] \o <<Close>>
  BY <1>2, AppendIsConcat
<1>4. /\ whole \in Seq(Entries) /\ Len(whole) \in Nat /\ whole # <<>>
      /\ OnlyBytes(whole) = OnlyBytes(outbound[c])
  <2>1. whole \in Seq(Entries) /\ OnlyBytes(whole) = OnlyBytes(outbound[c])
    BY <1>2, OnlyBytesFacts
  <2>2. Len(whole) \in Nat /\ whole # <<>>
    BY <1>2, AppendProperties, LenProperties
  <2> QED
    BY <2>1, <2>2
<1>5. outbound'[c] = whole /\ outbound' = [outbound EXCEPT ![c] = whole]
  BY <1>1, <1>3, OfClient, Zenon DEF TypeOK
<1> HIDE DEF whole
<1>6. flushed' = [flushed EXCEPT ![c] = Len(whole)]
  BY <1>1, <1>5
<1>7. TypeOK'
  BY <1>1, <1>4, <1>5, <1>6 DEF IndInv, TypeOK
<1>8. \A d \in Clients \ {c} : View(d)' = View(d)
  BY <1>1, <1>5, <1>6, OfClient DEF TypeOK, View
<1>9. flushed'[c] = Len(whole) /\ loop'[c] = "idle"
  BY <1>1, <1>6, OfClient DEF TypeOK
<1>10. /\ ConnectingOK(c) /\ EndingOK(c) /\ ResetOK(c) /\ StreamOK(c) /\ OutboundOK(c)
       /\ Conserved(c) /\ ReadSoFar(c) /\ BeginningOK(c)
  BY OfClient
<1>11. ConnectingOK(c)' /\ AcceptingOK(c)' /\ EndingOK(c)' /\ ResetOK(c)' /\ StreamOK(c)'
  BY <1>1, <1>10 DEF ConnectingOK, AcceptingOK, EndingOK, ResetOK, StreamOK
<1>12. BeginningOK(c)' /\ ClosedOK(c)'
  BY <1>1, <1>10 DEF BeginningOK, ClosedOK
<1>13. OutboundOK(c)'
  BY <1>1, <1>4, <1>5, <1>9, <1>10 DEF OutboundOK
<1>14. Conserved(c)'
  BY <1>1, <1>4, <1>5, <1>10 DEF Conserved
<1>15. ReadSoFar(c)'
  <2> SUFFICES ASSUME client[c] = "active"
               PROVE  \E k \in 0 .. Len(whole) :
                        Ahead(whole, k) /\ read[c] = Len(received[c]) + Len(down[c]) + k
    BY <1>1, <1>5 DEF ReadSoFar
  <2>1. PICK k \in 0 .. Len(outbound[c]) :
          Ahead(outbound[c], k) /\ read[c] = Len(received[c]) + Len(down[c]) + k
    BY <1>1, <1>10 DEF ReadSoFar
  <2>2. Ahead(whole, k)
    BY <1>2, <2>1, AheadAfterMarker DEF whole
  <2>3. k \in 0 .. Len(whole)
    BY <2>2 DEF Ahead
  <2> QED
    BY <2>1, <2>2, <2>3
<1> QED
  BY <1>1, <1>7, <1>8, <1>11, <1>12, <1>13, <1>14, <1>15, OneClient DEF ClientOK

\* What is received and on the way to an open client is a beginning of the message.
LEMMA JoinedBeginning ==
  ASSUME NEW b1 \in Seq(Bytes), NEW b2 \in Seq(Bytes), NEW b3 \in Seq(Bytes),
         NEW b4 \in Seq(Bytes), NEW b5 \in Seq(Bytes), Joined(b1, b2, b3, b4, b5) = Message
  PROVE  \E m \in 0 .. MessageLength : b1 \o b2 = Beginning(m)
<1> DEFINE front == Cat(b1, b2)
           back == Cat(Cat(b3, b4), b5)
<1>1. front \in Seq(Bytes)
  BY CatBytes
<1>2. Cat(b3, b4) \in Seq(Bytes)
  BY CatBytes
<1>3. back \in Seq(Bytes)
  BY <1>2, CatBytes
<1>4. Cat(Cat(Cat(front, b3), b4), b5) = Cat(front, back)
  <2> HIDE DEF front
  <2>1. Cat(Cat(front, b3), b4) = Cat(front, Cat(b3, b4))
    BY <1>1, CatGroups
  <2>2. Cat(Cat(front, Cat(b3, b4)), b5) = Cat(front, Cat(Cat(b3, b4), b5))
    BY <1>1, <1>2, CatGroups
  <2> QED
    BY <2>1, <2>2, Zenon
<1>5. Cat(front, back) = Beginning(MessageLength)
  BY <1>4, MessageFacts DEF Joined
<1> HIDE DEF front, back
<1>6. front \o back = Beginning(MessageLength) /\ MessageLength \in 0 .. MessageLength
  BY <1>5, MessageFacts DEF Cat
<1>7. Len(front) \in 0 .. MessageLength /\ front = Beginning(Len(front))
  BY <1>1, <1>3, <1>6, BeginningOfBeginning
<1> QED
  BY <1>7, Zenon DEF front, Cat

\* A flushed byte moves from the outbound buffer to down.
LEMMA WriteSocketIndInv ==
  ASSUME IndInv, NEW c \in Clients, WriteSocket(c)
  PROVE  IndInv'
<1> DEFINE first == Head(outbound[c])
           rest == Tail(outbound[c])
<1>1. /\ server[c] = "active" /\ loop[c] = "idle" /\ flushed[c] > 0 /\ first # Close
      /\ down' = [down EXCEPT ![c] = Append(down[c], first)]
      /\ outbound' = [outbound EXCEPT ![c] = rest]
      /\ flushed' = [flushed EXCEPT ![c] = flushed[c] - 1]
      /\ running' = running /\ client' = client /\ unsent' = unsent /\ server' = server /\ up' = up
      /\ loop' = loop /\ reset' = reset /\ received' = received /\ read' = read /\ ending' = ending
  BY DEF WriteSocket, clientVars
<1>2. /\ ConnectingOK(c) /\ EndingOK(c) /\ ResetOK(c) /\ StreamOK(c) /\ OutboundOK(c)
      /\ Conserved(c) /\ ReadSoFar(c) /\ BeginningOK(c)
      /\ outbound[c] \in Seq(Entries) /\ down[c] \in Seq(Entries) /\ received[c] \in Seq(Bytes)
      /\ up[c] \in Seq(Bytes) /\ unsent[c] \in Seq(Bytes)
      /\ Len(received[c]) \in Nat /\ Len(down[c]) \in Nat /\ Len(outbound[c]) \in Nat
      /\ flushed[c] \in Nat
  BY OfClient
<1>3. outbound[c] # <<>> /\ flushed[c] <= Len(outbound[c]) /\ read[c] > 0
  <2>1. flushed[c] <= Len(outbound[c]) /\ (outbound[c] # <<>> => read[c] > 0)
    BY <1>1, <1>2 DEF OutboundOK
  <2>2. Len(outbound[c]) # 0
    BY <1>1, <1>2, <2>1
  <2> QED
    BY <2>1, <2>2, EmptySeq
<1>4. /\ first \in Entries /\ rest \in Seq(Entries) /\ Len(rest) = Len(outbound[c]) - 1
      /\ Len(rest) \in Nat
  BY <1>2, <1>3, HeadAndTail, LenProperties
<1>5. first \in Bytes /\ <<first>> \in Seq(Bytes)
  BY <1>1, <1>4, MessageFacts DEF Entries
<1>6. OnlyBytes(outbound[c]) = <<first>> \o OnlyBytes(rest)
  BY <1>1, <1>2, <1>3, OnlyBytesFacts
<1>7. /\ Append(down[c], first) \in Seq(Entries) /\ Len(Append(down[c], first)) = Len(down[c]) + 1
      /\ \A i \in 1 .. Len(down[c]) : down[c][i] # Close
      /\ down[c] \in Seq(Bytes) /\ Append(down[c], first) \in Seq(Bytes)
      /\ Append(down[c], first) = down[c] \o <<first>>
  <2>1. \A i \in 1 .. Len(down[c]) : down[c][i] # Close
    BY <1>1, <1>2, MessageFacts DEF StreamOK
  <2>2. down[c] \in Seq(Bytes)
    BY <1>2, <2>1, NoMarker
  <2>3. Append(down[c], first) \in Seq(Bytes) /\ Len(Append(down[c], first)) = Len(down[c]) + 1
    BY <1>5, <2>2, AppendProperties
  <2>4. Append(down[c], first) \in Seq(Entries)
    BY <2>3, OnlyBytesFacts
  <2>5. Append(down[c], first) = down[c] \o <<first>>
    BY <1>5, <2>2, AppendIsConcat
  <2> QED
    BY <2>1, <2>2, <2>3, <2>4, <2>5
<1>8. flushed[c] - 1 \in Nat
  BY <1>1, <1>2
<1>9. /\ down'[c] = Append(down[c], first) /\ outbound'[c] = rest /\ flushed'[c] = flushed[c] - 1
  BY <1>1, OfClient, Zenon DEF TypeOK
<1> DEFINE stream == Append(down[c], first)
<1> HIDE DEF first, rest, stream
<1>10. TypeOK'
  BY <1>1, <1>4, <1>7, <1>8, OfClient DEF TypeOK
<1>11. \A d \in Clients \ {c} : View(d)' = View(d)
  BY <1>1, OfClient DEF TypeOK, View
<1>12. ConnectingOK(c)' /\ AcceptingOK(c)' /\ EndingOK(c)' /\ ResetOK(c)' /\ ClosedOK(c)'
  BY <1>1, <1>2 DEF ConnectingOK, AcceptingOK, EndingOK, ResetOK, ClosedOK
<1>13. StreamOK(c)'
  <2>1. stream \in Seq(Bytes)
    BY <1>7 DEF stream
  <2>2. \A i \in 1 .. Len(stream) : stream[i] # Close
    BY <2>1, ElementOfSeq, MessageFacts
  <2> QED
    BY <1>9, <2>2, MessageFacts DEF StreamOK, stream
<1>14. OutboundOK(c)'
  <2>1. flushed[c] - 1 <= Len(rest)
    BY <1>2, <1>3, <1>4
  <2> QED
    BY <1>1, <1>3, <1>9, <2>1 DEF OutboundOK
<1>15. client[c] = "active" =>
         Joined(received[c], Cat(down[c], <<first>>), OnlyBytes(rest), up[c], unsent[c]) = Message
  <2> SUFFICES ASSUME client[c] = "active"
               PROVE  Joined(received[c], Cat(down[c], <<first>>), OnlyBytes(rest), up[c], unsent[c]) = Message
    OBVIOUS
  <2>1. Joined(received[c], down[c], Cat(<<first>>, OnlyBytes(rest)), up[c], unsent[c]) = Message
    BY <1>1, <1>2, <1>6 DEF Conserved, Joined, Cat
  <2>2. OnlyBytes(rest) \in Seq(Bytes)
    BY <1>4, OnlyBytesFacts
  <2>3. Strings(received[c], down[c], OnlyBytes(rest), up[c], unsent[c], <<first>>)
    BY <1>2, <1>5, <1>7, <2>2 DEF Strings
  <2>4. Joined(received[c], Cat(down[c], <<first>>), OnlyBytes(rest), up[c], unsent[c])
          = Joined(received[c], down[c], Cat(<<first>>, OnlyBytes(rest)), up[c], unsent[c])
    BY <2>3, MovedBytes
  <2> QED
    BY <2>1, <2>4, Zenon
<1>16. Conserved(c)'
  <2> SUFFICES ASSUME client[c] = "active"
               PROVE  Joined(received[c], Append(down[c], first), OnlyBytes(rest), up[c], unsent[c]) = Message
    BY <1>1, <1>9, Zenon DEF Conserved, Joined, Cat
  <2> QED
    BY <1>7, <1>15, Zenon DEF Cat
<1>17. BeginningOK(c)'
  <2>1. CASE client[c] # "active"
    BY <1>1, <1>2, <2>1 DEF BeginningOK
  <2>2. CASE client[c] = "active"
    <3>1. Joined(received[c], stream, OnlyBytes(rest), up[c], unsent[c]) = Message
      BY <1>7, <1>15, <2>2, Zenon DEF Cat, stream
    <3>2. OnlyBytes(rest) \in Seq(Bytes) /\ stream \in Seq(Bytes) /\ OnlyBytes(stream) = stream
      BY <1>4, <1>7, OnlyBytesFacts DEF stream
    <3>3. \E m \in 0 .. MessageLength : received[c] \o stream = Beginning(m)
      BY <1>2, <3>1, <3>2, JoinedBeginning
    <3>4. down'[c] = stream
      BY <1>9 DEF stream
    <3> QED
      BY <1>1, <2>2, <3>2, <3>3, <3>4 DEF BeginningOK
  <2> QED
    BY <2>1, <2>2
<1>18. ReadSoFar(c)'
  <2> SUFFICES ASSUME client[c] = "active"
               PROVE  \E k \in 0 .. Len(rest) :
                        /\ Ahead(rest, k)
                        /\ read[c] = Len(received[c]) + Len(Append(down[c], first)) + k
    BY <1>1, <1>9 DEF ReadSoFar
  <2>1. PICK k \in 0 .. Len(outbound[c]) :
          Ahead(outbound[c], k) /\ read[c] = Len(received[c]) + Len(down[c]) + k
    BY <1>1, <1>2 DEF ReadSoFar
  <2>2. k \in Nat \ {0} /\ Ahead(rest, k - 1)
    BY <1>1, <1>2, <1>3, <2>1, AheadAfterWrite DEF first, rest
  <2>3. read[c] = Len(received[c]) + Len(Append(down[c], first)) + (k - 1)
    <3>1. \A i, j \in Nat, p \in Nat \ {0} : i + j + p = i + (j + 1) + (p - 1)
      OBVIOUS
    <3>2. Len(received[c]) + Len(down[c]) + k = Len(received[c]) + (Len(down[c]) + 1) + (k - 1)
      BY <1>2, <2>2, <3>1, Zenon
    <3> QED
      BY <1>7, <2>1, <3>2, Zenon
  <2>4. k - 1 \in 0 .. Len(rest)
    BY <2>2 DEF Ahead
  <2> QED
    BY <2>2, <2>3, <2>4
<1> QED
  BY <1>1, <1>10, <1>11, <1>12, <1>13, <1>14, <1>16, <1>17, <1>18, OneClient DEF ClientOK

\* The channels of a set are closed: by a listener, whose empty buffer is the next
\* to write, after the end of the client, or with the server.
LEMMA CloseChannelsIndInv ==
  ASSUME IndInv, NEW closed \in SUBSET Clients, NEW as \in {"closed", "killed"}, NEW resets,
         CloseChannels(closed, as, resets), running' \in BOOLEAN, running' => running,
         \A c \in closed : /\ server[c] = "active"
                           /\ client[c] = "active" /\ as = "closed" =>
                                WriteEnded(c) /\ (c \in resets => up[c] # <<>>),
         \A c \in resets \ closed : client[c] # "connecting" /\ server[c] = "none" /\ ~running'
  PROVE  IndInv'
<1>1. /\ server' = [c \in Clients |-> IF c \in closed THEN as ELSE server[c]]
      /\ loop' = [c \in Clients |-> IF c \in closed THEN "idle" ELSE loop[c]]
      /\ outbound' = [c \in Clients |-> IF c \in closed THEN <<>> ELSE outbound[c]]
      /\ flushed' = [c \in Clients |-> IF c \in closed THEN 0 ELSE flushed[c]]
      /\ reset' = [c \in Clients |-> reset[c] \/ c \in resets]
      /\ down' = [c \in Clients |-> IF c \in closed \ resets /\ ~reset[c]
                                    THEN Append(down[c], EndOfStream) ELSE down[c]]
      /\ client' = client /\ unsent' = unsent /\ received' = received /\ ending' = ending
      /\ read' = read /\ up' = up
  BY DEF CloseChannels, clientVars
<1>2. \A c \in Clients : /\ Append(down[c], EndOfStream) \in Seq(Entries)
                         /\ OnlyBytes(Append(down[c], EndOfStream)) = OnlyBytes(down[c])
  BY OfClient, OnlyBytesFacts, MessageFacts
<1>3. TypeOK'
  <2>1. /\ server' \in [Clients -> {"none", "active", "closed", "killed"}]
        /\ loop' \in [Clients -> {"idle", "reading", "completing"}]
        /\ flushed' \in [Clients -> Nat] /\ reset' \in [Clients -> BOOLEAN]
    BY <1>1 DEF IndInv, TypeOK
  <2>2. outbound' \in [Clients -> Seq(Entries)] /\ down' \in [Clients -> Seq(Entries)]
    BY <1>1, <1>2, EmptySeq DEF IndInv, TypeOK
  <2> QED
    BY <1>1, <2>1, <2>2 DEF IndInv, TypeOK
<1>4. ASSUME NEW c \in closed PROVE ClientOK(c)'
  <2>1. /\ server[c] = "active" /\ server'[c] = as /\ loop'[c] = "idle" /\ outbound'[c] = <<>>
        /\ flushed'[c] = 0
        /\ reset'[c] = (reset[c] \/ c \in resets)
        /\ down'[c] \in {down[c], Append(down[c], EndOfStream)}
    BY <1>1
  <2>2. /\ ConnectingOK(c) /\ EndingOK(c) /\ ResetOK(c) /\ StreamOK(c) /\ OutboundOK(c)
        /\ Conserved(c) /\ ReadSoFar(c) /\ BeginningOK(c)
        /\ outbound[c] \in Seq(Entries) /\ down[c] \in Seq(Entries) /\ received[c] \in Seq(Bytes)
        /\ up[c] \in Seq(Bytes) /\ unsent[c] \in Seq(Bytes)
        /\ Len(received[c]) \in Nat /\ Len(down[c]) \in Nat /\ Len(outbound[c]) \in Nat
        /\ flushed[c] \in Nat /\ read[c] \in Nat
    BY OfClient
  <2>3. OnlyBytes(down'[c]) = OnlyBytes(down[c])
    BY <1>2, <2>1
  <2>4. ConnectingOK(c)' /\ AcceptingOK(c)' /\ EndingOK(c)' /\ ResetOK(c)'
    BY <1>1, <2>1, <2>2 DEF ConnectingOK, AcceptingOK, EndingOK, ResetOK
  <2>5. OutboundOK(c)' /\ Conserved(c)' /\ ReadSoFar(c)' /\ BeginningOK(c)'
    BY <1>1, <2>1, <2>2, <2>3 DEF OutboundOK, Conserved, ReadSoFar, BeginningOK
  <2>6. \A i \in 1 .. Len(down[c]) : down[c][i] # Close
    BY <2>1, <2>2, MessageFacts DEF StreamOK
  <2>7. StreamOK(c)'
    <3>1. CASE down'[c] = down[c]
      BY <2>6, <3>1, MessageFacts DEF StreamOK
    <3>2. CASE down'[c] = Append(down[c], EndOfStream)
      <4> DEFINE stream == Append(down[c], EndOfStream)
      <4>1. Len(stream) = Len(down[c]) + 1 /\ \A i \in 1 .. Len(down[c]) : stream[i] = down[c][i]
        BY <2>2, MessageFacts, AppendProperties DEF Entries
      <4> HIDE DEF stream
      <4>2. ASSUME NEW i \in 1 .. Len(stream), stream[i] = EndOfStream PROVE i = Len(stream)
        <5>1. i \notin 1 .. Len(down[c])
          BY <2>6, <4>1, <4>2, MessageFacts
        <5>2. Len(down[c]) \in Nat
          BY <2>2
        <5> QED
          BY <4>1, <5>1, <5>2
      <4> QED
        BY <2>1, <3>2, <4>2 DEF StreamOK, stream
    <3> QED
      BY <2>1, <3>1, <3>2
  <2>8. ClosedOK(c)'
    <3>1. SUFFICES ASSUME client[c] = "active", as = "closed"
                   PROVE  /\ read[c] > 0 /\ Len(received[c] \o OnlyBytes(down[c])) >= read[c]
                          /\ read[c] = MessageLength =>
                               /\ ~(reset[c] \/ c \in resets) /\ up[c] = <<>> /\ unsent[c] = <<>>
                               /\ received[c] \o OnlyBytes(down[c]) = Message
      BY <1>1, <2>1, <2>3 DEF ClosedOK
    <3>2. flushed[c] > 0 /\ Head(outbound[c]) = Close /\ (c \in resets => up[c] # <<>>)
      BY <3>1 DEF WriteEnded
    <3>3. outbound[c] # <<>> /\ read[c] > 0
      <4>1. flushed[c] <= Len(outbound[c]) /\ (outbound[c] # <<>> => read[c] > 0)
        BY <2>1, <2>2 DEF OutboundOK
      <4>2. Len(outbound[c]) # 0
        BY <2>2, <3>2, <4>1
      <4> QED
        BY <4>1, <4>2, EmptySeq
    <3>4. down[c] \in Seq(Bytes) /\ OnlyBytes(down[c]) = down[c]
      BY <2>2, <2>6, NoMarker
    <3>5. read[c] = Len(received[c]) + Len(down[c])
      <4>1. PICK k \in 0 .. Len(outbound[c]) :
              Ahead(outbound[c], k) /\ read[c] = Len(received[c]) + Len(down[c]) + k
        BY <2>1, <2>2, <3>1 DEF ReadSoFar
      <4>2. outbound[c][1] = Close
        BY <2>2, <3>2, <3>3, HeadAndTail
      <4>3. k = 0
        BY <2>2, <4>1, <4>2 DEF Ahead
      <4> QED
        BY <2>2, <4>1, <4>3
    <3>6. Len(received[c] \o down[c]) = Len(received[c]) + Len(down[c])
      BY <2>2, <3>4, ConcatProperties
    <3>7. ASSUME read[c] = MessageLength
          PROVE  /\ ~(reset[c] \/ c \in resets) /\ up[c] = <<>> /\ unsent[c] = <<>>
                 /\ received[c] \o down[c] = Message
      <4>1. PICK m \in 0 .. MessageLength : received[c] \o down[c] = Beginning(m)
        BY <2>2, <3>1, <3>4 DEF BeginningOK
      <4>2. m = MessageLength
        BY <3>5, <3>6, <3>7, <4>1, MessageFacts
      <4>3. received[c] \o down[c] = Message
        BY <4>1, <4>2, MessageFacts
      <4>4. up[c] = <<>> /\ unsent[c] = <<>>
        <5> DEFINE buffered == OnlyBytes(outbound[c])
                   back == Cat(Cat(buffered, up[c]), unsent[c])
        <5>1. buffered \in Seq(Bytes)
          BY <2>2, OnlyBytesFacts
        <5>2. Joined(received[c], down[c], buffered, up[c], unsent[c]) = Message
          BY <2>1, <2>2, <3>1 DEF Conserved, Joined, Cat
        <5> HIDE DEF buffered
        <5>3. Cat(buffered, up[c]) \in Seq(Bytes) /\ back \in Seq(Bytes)
          <6>1. Cat(buffered, up[c]) \in Seq(Bytes)
            BY <2>2, <5>1, CatBytes
          <6> QED
            BY <2>2, <6>1, CatBytes
        <5>4. Cat(Message, back) = Message
          <6>1. Joined(received[c], down[c], buffered, up[c], unsent[c])
                  = Cat(Cat(Cat(Message, buffered), up[c]), unsent[c])
            BY <4>3, Zenon DEF Joined, Cat
          <6>2. Message \in Seq(Bytes)
            BY MessageFacts
          <6>3. Cat(Cat(Message, buffered), up[c]) = Cat(Message, Cat(buffered, up[c]))
            <7>1. up[c] \in Seq(Bytes)
              BY <2>2
            <7> QED
              BY <5>1, <6>2, <7>1, CatGroups, Zenon
          <6>4. Cat(Cat(Message, Cat(buffered, up[c])), unsent[c]) = Cat(Message, back)
            <7>1. unsent[c] \in Seq(Bytes)
              BY <2>2
            <7> QED
              BY <5>3, <6>2, <7>1, CatGroups, Zenon
          <6> QED
            BY <5>2, <6>1, <6>3, <6>4, Zenon
        <5>5. Len(back) = 0
          <6> HIDE DEF back
          <6>1. Message \in Seq(Bytes) /\ back \in Seq(Bytes)
            BY <5>3, MessageFacts
          <6>2. Len(Cat(Message, back)) = Len(Message) + Len(back)
            BY <6>1, ConcatProperties DEF Cat
          <6>3. Len(Message) \in Nat /\ Len(back) \in Nat
            BY <6>1, LenProperties
          <6>4. Len(Message) = Len(Message) + Len(back)
            BY <5>4, <6>2, Zenon
          <6> QED
            BY <6>3, <6>4
        <5>6. Len(back) = Len(Cat(buffered, up[c])) + Len(unsent[c])
          BY <2>2, <5>3, ConcatProperties DEF Cat
        <5>7. Len(Cat(buffered, up[c])) = Len(buffered) + Len(up[c])
          BY <2>2, <5>1, ConcatProperties DEF Cat
        <5>8. Len(buffered) \in Nat /\ Len(up[c]) \in Nat /\ Len(unsent[c]) \in Nat
          BY <5>1, OfClient, LenProperties
        <5> HIDE DEF back
        <5>9. Len(up[c]) = 0 /\ Len(unsent[c]) = 0
          <6>1. \A i, j, k \in Nat : 0 = (i + j) + k => j = 0 /\ k = 0
            OBVIOUS
          <6>2. 0 = (Len(buffered) + Len(up[c])) + Len(unsent[c])
            BY <5>5, <5>6, <5>7, Zenon
          <6> QED
            BY <5>8, <6>1, <6>2, Zenon
        <5> QED
          BY <2>2, <5>9, EmptySeq
      <4>5. ~reset[c]
        BY <2>1, <2>2, <3>1 DEF ResetOK
      <4> QED
        BY <3>2, <4>3, <4>4, <4>5
    <3>8. Len(received[c] \o down[c]) >= read[c]
      BY <2>2, <3>5, <3>6
    <3> QED
      BY <3>3, <3>4, <3>7, <3>8
  <2> QED
    BY <2>4, <2>5, <2>7, <2>8 DEF ClientOK
<1>5. ASSUME NEW c \in Clients \ closed, c \in resets PROVE ClientOK(c)'
  <2>1. /\ client[c] # "connecting" /\ server[c] = "none" /\ ~running'
        /\ server'[c] = server[c] /\ loop'[c] = loop[c] /\ outbound'[c] = outbound[c]
        /\ flushed'[c] = flushed[c] /\ down'[c] = down[c] /\ reset'[c] = TRUE
    BY <1>1, <1>5
  <2>2. /\ ConnectingOK(c) /\ AcceptingOK(c) /\ EndingOK(c) /\ StreamOK(c)
        /\ Conserved(c) /\ BeginningOK(c)
    BY OfClient
  <2>3. ConnectingOK(c)' /\ AcceptingOK(c)' /\ EndingOK(c)' /\ ResetOK(c)' /\ StreamOK(c)'
    BY <1>1, <2>1, <2>2 DEF ConnectingOK, AcceptingOK, EndingOK, ResetOK, StreamOK
  <2>4. OutboundOK(c)' /\ Conserved(c)' /\ ReadSoFar(c)' /\ BeginningOK(c)' /\ ClosedOK(c)'
    BY <1>1, <2>1, <2>2 DEF OutboundOK, Conserved, ReadSoFar, BeginningOK, ClosedOK
  <2> QED
    BY <2>3, <2>4 DEF ClientOK
<1>6. ASSUME NEW c \in Clients \ closed, c \notin resets PROVE ClientOK(c)'
  <2>1. reset[c] \in BOOLEAN /\ ClientOK(c)
    BY OfClient DEF IndInv
  <2>2. /\ server'[c] = server[c] /\ loop'[c] = loop[c] /\ outbound'[c] = outbound[c]
        /\ flushed'[c] = flushed[c] /\ down'[c] = down[c] /\ reset'[c] = reset[c]
    BY <1>1, <1>6, <2>1
  <2>3. View(c)' = View(c)
    BY <1>1, <2>2 DEF View
  <2> QED
    BY <2>1, <2>3, SameView
<1> QED
  BY <1>3, <1>4, <1>5, <1>6 DEF IndInv

\* One channel is closed; an open client sees it only after the marker is next.
LEMMA CloseServerIndInv ==
  ASSUME IndInv, NEW c \in Clients, server[c] = "active", CloseServer(c),
         client[c] = "active" => WriteEnded(c)
  PROVE  IndInv'
<1>1. running' = running /\ running \in BOOLEAN
  BY DEF CloseServer, IndInv, TypeOK
<1>2. CASE CloseChannels({c}, "closed", {})
  BY <1>1, <1>2, CloseChannelsIndInv
<1>3. CASE up[c] # <<>> /\ CloseChannels({c}, "closed", {c})
  <2> DEFINE one == {c}
  <2>1. one \in SUBSET Clients /\ CloseChannels(one, "closed", one)
    BY <1>3
  <2>2. \A d \in one : /\ server[d] = "active"
                       /\ client[d] = "active" /\ "closed" = "closed" =>
                            WriteEnded(d) /\ (d \in one => up[d] # <<>>)
    BY <1>3
  <2>3. \A d \in one \ one : client[d] # "connecting" /\ server[d] = "none" /\ ~running'
    OBVIOUS
  <2> HIDE DEF one
  <2> QED
    BY <1>1, <2>1, <2>2, <2>3, CloseChannelsIndInv
<1> QED
  BY <1>2, <1>3 DEF CloseServer

\* The three ways in which the server closes a channel: after the echo, at the end
\* of the stream, and after an exception.
LEMMA ServerClosesIndInv ==
  ASSUME IndInv, NEW c \in Clients,
         CloseListener(c) \/ ServerSeesEnd(c) \/ ServerExceptionCaught(c)
  PROVE  IndInv'
<1>1. server[c] = "active" /\ CloseServer(c)
  BY DEF CloseListener, ServerSeesEnd, ServerExceptionCaught
<1>2. ResetOK(c)
  BY OfClient
<1>3. client[c] = "active" => WriteEnded(c)
  BY <1>1, <1>2 DEF CloseListener, ServerSeesEnd, ServerExceptionCaught, ResetOK
<1> QED
  BY <1>1, <1>3, CloseServerIndInv

\* The server may be killed at any moment.
LEMMA KillServerIndInv ==
  ASSUME IndInv, KillServer
  PROVE  IndInv'
<1> DEFINE waiting == {c \in Clients : client[c] # "connecting" /\ server[c] = "none"}
           open == {c \in Clients : server[c] = "active"}
<1>1. PICK unread \in SUBSET {c \in open : up[c] # <<>>} :
        CloseChannels(open, "killed", waiting \cup unread)
  BY DEF KillServer
<1>2. running' \in BOOLEAN /\ ~running'
  BY DEF KillServer
<1>3. \A c \in open : server[c] = "active"
  OBVIOUS
<1>4. \A c \in (waiting \cup unread) \ open : client[c] # "connecting" /\ server[c] = "none"
  OBVIOUS
<1>5. open \in SUBSET Clients
  OBVIOUS
<1> HIDE DEF waiting, open
<1> QED
  BY <1>1, <1>2, <1>3, <1>4, <1>5, CloseChannelsIndInv

\* A reset by what arrives late does not take what the server has sent before it
\* has closed a channel from which it had read the message in full.
LEMMA LateArrivalIndInv ==
  ASSUME IndInv, NEW c \in Clients, LateArrival(c)
  PROVE  IndInv'
<1>1. /\ \/ server[c] \in {"closed", "killed"} /\ up[c] # <<>>
         \/ client[c] = "closed"
      /\ reset' = [reset EXCEPT ![c] = TRUE]
      /\ running' = running /\ client' = client /\ unsent' = unsent /\ server' = server /\ up' = up
      /\ loop' = loop /\ outbound' = outbound /\ flushed' = flushed /\ down' = down
      /\ received' = received /\ read' = read /\ ending' = ending
  BY DEF LateArrival, clientVars, serverVars
<1>2. TypeOK'
  BY <1>1, OfClient DEF TypeOK
<1>3. \A d \in Clients \ {c} : View(d)' = View(d)
  BY <1>1, OfClient DEF TypeOK, View
<1>4. reset'[c] = TRUE
  BY <1>1, OfClient DEF TypeOK
<1>5. /\ ConnectingOK(c) /\ AcceptingOK(c) /\ EndingOK(c) /\ StreamOK(c) /\ OutboundOK(c)
      /\ Conserved(c) /\ ReadSoFar(c) /\ BeginningOK(c) /\ ClosedOK(c)
  BY OfClient
<1>6. ConnectingOK(c)' /\ AcceptingOK(c)' /\ EndingOK(c)' /\ ResetOK(c)' /\ ClosedOK(c)'
  BY <1>1, <1>4, <1>5 DEF ConnectingOK, AcceptingOK, EndingOK, ResetOK, ClosedOK
<1>7. StreamOK(c)' /\ OutboundOK(c)' /\ Conserved(c)' /\ ReadSoFar(c)' /\ BeginningOK(c)'
  BY <1>1, <1>5 DEF StreamOK, OutboundOK, Conserved, ReadSoFar, BeginningOK
<1> QED
  BY <1>1, <1>2, <1>3, <1>6, <1>7, OneClient DEF ClientOK

\* Nothing has been sent at the beginning.
LEMMA InitIndInv ==
  ASSUME Init
  PROVE  IndInv
<1>1. TypeOK
  BY EmptySeq DEF Init, TypeOK
<1>2. ASSUME NEW c \in Clients PROVE ClientOK(c)
  <2>1. /\ client[c] = "connecting" /\ unsent[c] = <<>> /\ up[c] = <<>> /\ server[c] = "none"
        /\ loop[c] = "idle" /\ outbound[c] = <<>> /\ flushed[c] = 0 /\ down[c] = <<>>
        /\ reset[c] = FALSE /\ received[c] = <<>> /\ read[c] = 0 /\ ending[c] = "none"
    BY DEF Init
  <2>2. ConnectingOK(c) /\ AcceptingOK(c) /\ EndingOK(c) /\ ResetOK(c)
    BY <2>1 DEF ConnectingOK, AcceptingOK, EndingOK, ResetOK
  <2>3. StreamOK(c) /\ OutboundOK(c) /\ Conserved(c) /\ ReadSoFar(c) /\ ClosedOK(c)
    BY <2>1, EmptySeq DEF StreamOK, OutboundOK, Conserved, ReadSoFar, ClosedOK
  <2>4. BeginningOK(c)
    <3>1. <<>> = Beginning(0) /\ 0 \in 0 .. MessageLength
      BY MessageFacts DEF Beginning
    <3> QED
      BY <2>1, <3>1 DEF BeginningOK
  <2> QED
    BY <2>2, <2>3, <2>4 DEF ClientOK
<1> QED
  BY <1>1, <1>2 DEF IndInv

\* The step lemmas together.
LEMMA NextIndInv ==
  ASSUME IndInv, [Next]_vars
  PROVE  IndInv'
<1>1. CASE KillServer
  BY <1>1, KillServerIndInv
<1>2. ASSUME NEW c \in Clients, ClientNext(c) PROVE IndInv'
  <2>1. CASE ChannelActive(c)
    BY <2>1, ChannelActiveIndInv
  <2>2. CASE ConnectFails(c)
    BY <2>2, ConnectFailsIndInv
  <2>3. CASE ClientSends(c)
    BY <2>3, ClientSendsIndInv
  <2>4. CASE ClientReads(c)
    BY <2>4, ClientReadsIndInv
  <2>5. CASE ClientSeesEnd(c)
    BY <2>5, ClientSeesEndIndInv
  <2>6. CASE ClientExceptionCaught(c)
    BY <2>6, ClientExceptionCaughtIndInv
  <2> QED
    BY <1>2, <2>1, <2>2, <2>3, <2>4, <2>5, <2>6 DEF ClientNext
<1>3. ASSUME NEW c \in Clients, MainNext(c) PROVE IndInv'
  BY <1>3, MainIndInv DEF MainNext, MainConnected, MainThrows, MainSeesClose, MainGoesOn,
     clientVars, wireVars, serverVars
<1>4. ASSUME NEW c \in Clients, ServerNext(c) PROVE IndInv'
  <2>1. CASE Accept(c)
    BY <2>1, AcceptIndInv
  <2>2. CASE ChannelRead(c)
    BY <2>2, ChannelReadIndInv
  <2>3. CASE ChannelReadComplete(c)
    BY <2>3, ChannelReadCompleteIndInv
  <2>4. CASE WriteSocket(c)
    BY <2>4, WriteSocketIndInv
  <2>5. CASE CloseListener(c) \/ ServerSeesEnd(c) \/ ServerExceptionCaught(c)
    BY <2>5, ServerClosesIndInv
  <2> QED
    BY <1>4, <2>1, <2>2, <2>3, <2>4, <2>5 DEF ServerNext
<1>5. ASSUME NEW c \in Clients, KillClient(c) PROVE IndInv'
  BY <1>5, KillClientIndInv
<1>6. ASSUME NEW c \in Clients, LateArrival(c) PROVE IndInv'
  BY <1>6, LateArrivalIndInv
<1>7. CASE UNCHANGED vars
  BY <1>7, MainIndInv DEF vars
<1> QED
  BY <1>1, <1>2, <1>3, <1>4, <1>5, <1>6, <1>7 DEF Next

\* The inductive invariant holds in every state.
THEOREM IndInvHolds == Spec => []IndInv
<1>1. Init => IndInv
  BY InitIndInv
<1>2. IndInv /\ [Next]_vars => IndInv'
  BY NextIndInv
<1> QED
  BY <1>1, <1>2, PTL DEF Spec

\* While both ends of a connection are open, no byte is lost, copied or reordered
\* between the client's write, the server's buffers and the client's print.
THEOREM NoBytesAreLost == Spec => []NoByteLost
<1>1. IndInv => NoByteLost
  BY DEF IndInv, ClientOK, Conserved, NoByteLost
<1> QED
  BY <1>1, IndInvHolds, PTL

\* The close that channelReadComplete asks for waits for the bytes that were
\* written before it: those read before the first channelReadComplete.  Of bytes
\* that are read later, and may be lost, nothing is said.
THEOREM ClosesWaitForTheEcho == Spec => []CloseAfterEcho
<1>1. IndInv => CloseAfterEcho
  BY DEF IndInv, ClientOK, ClosedOK, CloseAfterEcho
<1> QED
  BY <1>1, IndInvHolds, PTL

\* A message that was read in full is echoed in full, and no reset takes it.
THEOREM WholeMessagesAreEchoed == Spec => []WholeMessageEchoed
<1>1. ASSUME IndInv, NEW c \in Clients, server[c] = "closed", read[c] = MessageLength
      PROVE  /\ client[c] = "active" => ~reset[c]
             /\ ending[c] # "reset"
             /\ ending[c] = "end" => received[c] = Message
  <2>1. EndingOK(c) /\ ClosedOK(c)
    BY <1>1, OfClient
  <2> QED
    BY <1>1, <2>1 DEF EndingOK, ClosedOK
<1>2. IndInv => WholeMessageEchoed
  BY <1>1 DEF WholeMessageEchoed
<1> QED
  BY <1>2, IndInvHolds, PTL

-----------------------------------------------------------------------------
(* The refinement of EchoService. *)

\* How the service of a client stands, in one formula.
LEMMA OutcomeFacts ==
  ASSUME IndInv, NEW c \in Clients
  PROVE  /\ client[c] \in {"connecting", "active"} => Outcome(c) = "pending"
         /\ client[c] = "failed" => Outcome(c) = "refused"
         /\ client[c] = "closed" =>
              Outcome(c) = IF ending[c] = "end"
                           THEN IF server[c] = "killed" THEN "abandoned" ELSE "answered"
                           ELSE ending[c]
<1>1. ending[c] = "none" <=> client[c] # "closed"
  BY OfClient DEF EndingOK
<1>2. client[c] \in {"connecting", "active"} => Outcome(c) = "pending"
  BY <1>1 DEF Outcome
<1>3. client[c] = "failed" => Outcome(c) = "refused"
  <2> SUFFICES ASSUME client[c] = "failed" PROVE Outcome(c) = "refused"
    OBVIOUS
  <2>1. ending[c] = "none" /\ ending[c] # "end"
    BY <1>1
  <2> QED
    BY <2>1 DEF Outcome
<1>4. client[c] = "closed" =>
        Outcome(c) = IF ending[c] = "end"
                     THEN IF server[c] = "killed" THEN "abandoned" ELSE "answered"
                     ELSE ending[c]
  BY <1>1 DEF Outcome
<1> QED
  BY <1>2, <1>3, <1>4

\* A step that leaves the outcome of all clients but one, and what they received,
\* is a step of the service of that client.
LEMMA ServiceUnchanged ==
  ASSUME received' = received, \A c \in Clients : Outcome(c)' = Outcome(c)
  PROVE  UNCHANGED Service!vars
BY DEF Service!vars

\* A client whose outcome is no longer pending has finished, in the abstract service.
LEMMA FinishOf ==
  ASSUME NEW c \in Clients, Outcome(c) = "pending", received' = received,
         \A d \in Clients \ {c} : Outcome(d)' = Outcome(d),
         \/ Outcome(c)' = "answered" /\ received[c] # <<>>
         \/ Outcome(c)' = "refused" /\ received[c] = <<>>
         \/ Outcome(c)' \in {"reset", "killed", "abandoned"}
  PROVE  Service!Finish(c)
<1> DEFINE now == [d \in Clients |-> Outcome(d)]
           next == [d \in Clients |-> Outcome(d)']
<1>1. next = [now EXCEPT ![c] = Outcome(c)'] /\ now[c] = "pending"
  OBVIOUS
<1> QED
  BY <1>1 DEF Service!Finish

\* A step of the server, of a main thread or of the connection changes nothing
\* that the service shows: a channel is closed or killed once.
LEMMA ServerIsHidden ==
  ASSUME IndInv, received' = received, client' = client, ending' = ending,
         \A c \in Clients : server[c] \in {"closed", "killed"} => server'[c] = server[c]
  PROVE  UNCHANGED Service!vars
<1>1. ASSUME NEW c \in Clients PROVE Outcome(c)' = Outcome(c)
  <2>1. ending[c] = "end" => server[c] \in {"closed", "killed"}
    BY OfClient DEF EndingOK
  <2> QED
    BY <2>1 DEF Outcome
<1> QED
  BY <1>1, ServiceUnchanged

\* The abstract service sees nothing of what a server channel does.
LEMMA ServerNextIsHidden ==
  ASSUME IndInv, NEW c \in Clients, ServerNext(c)
  PROVE  UNCHANGED Service!vars
<1>1. CASE Accept(c)
  BY <1>1, ServerIsHidden DEF Accept, clientVars, IndInv, TypeOK
<1>2. CASE ChannelRead(c) \/ ChannelReadComplete(c) \/ WriteSocket(c)
  BY <1>2, ServerIsHidden DEF ChannelRead, ChannelReadComplete, WriteSocket, clientVars
<1>3. CASE CloseListener(c) \/ ServerSeesEnd(c) \/ ServerExceptionCaught(c)
  <2>1. server[c] = "active" /\ CloseServer(c)
    BY <1>3 DEF CloseListener, ServerSeesEnd, ServerExceptionCaught
  <2>2. /\ server' = [d \in Clients |-> IF d \in {c} THEN "closed" ELSE server[d]]
        /\ received' = received /\ client' = client /\ ending' = ending
    BY <2>1 DEF CloseServer, CloseChannels, clientVars
  <2>3. \A d \in Clients : server[d] \in {"closed", "killed"} => server'[d] = server[d]
    BY <2>1, <2>2
  <2> QED
    BY <2>2, <2>3, ServerIsHidden
<1> QED
  BY <1>1, <1>2, <1>3 DEF ServerNext

\* Nor of the end of the server: its clients find out later.
LEMMA KillServerIsHidden ==
  ASSUME IndInv, KillServer
  PROVE  UNCHANGED Service!vars
<1> DEFINE open == {c \in Clients : server[c] = "active"}
<1>1. \E resets : CloseChannels(open, "killed", resets)
  BY DEF KillServer
<1>2. /\ server' = [d \in Clients |-> IF d \in open THEN "killed" ELSE server[d]]
      /\ received' = received /\ client' = client /\ ending' = ending
  BY <1>1 DEF CloseChannels, clientVars
<1>3. \A d \in Clients : server[d] \in {"closed", "killed"} => server'[d] = server[d]
  BY <1>2
<1> QED
  BY <1>2, <1>3, ServerIsHidden

\* What a client prints is the next bytes of the message.
LEMMA ClientReadsReturns ==
  ASSUME IndInv, NEW c \in Clients, ClientReads(c)
  PROVE  Service!Return(c)
<1>1. /\ client[c] = "active" /\ client' = client /\ ending' = ending /\ server' = server
  BY DEF ClientReads, serverVars
<1>2. PICK f \in Seq(Bytes) : f # <<>> /\ received' = [received EXCEPT ![c] = received[c] \o f]
  BY ClientReadsIndInv
<1> DEFINE printed == received[c] \o f
<1>3. IndInv' /\ received'[c] = printed
  <2>1. IndInv'
    BY ClientReadsIndInv
  <2>2. received \in [Clients -> Seq(Bytes)]
    BY DEF IndInv, TypeOK
  <2> HIDE DEF printed
  <2>3. received'[c] = printed
    BY <1>2, <2>2 DEF printed
  <2> QED
    BY <2>1, <2>3
<1>4. /\ received[c] \in Seq(Bytes) /\ Len(received[c]) \in Nat
      /\ Len(f) \in Nat /\ Len(f) # 0
  BY <1>2, OfClient, LenProperties, EmptySeq
<1>5. Len(printed) = Len(received[c]) + Len(f) /\ printed \in Seq(Bytes)
  BY <1>4, ConcatProperties
<1>6. Len(printed) \in 0 .. MessageLength /\ printed = Beginning(Len(printed))
  <2>1. BeginningOK(c)' /\ down'[c] \in Seq(Entries)
    BY <1>3 DEF IndInv, ClientOK, TypeOK
  <2>2. PICK m \in 0 .. MessageLength : printed \o OnlyBytes(down'[c]) = Beginning(m)
    BY <1>1, <1>3, <2>1 DEF BeginningOK
  <2>3. OnlyBytes(down'[c]) \in Seq(Bytes)
    BY <2>1, OnlyBytesFacts
  <2> HIDE DEF printed
  <2> QED
    BY <1>5, <2>2, <2>3, BeginningOfBeginning
<1> DEFINE n == Len(printed)
<1>7. n \in Len(received[c]) + 1 .. MessageLength
  BY <1>4, <1>5, <1>6, MessageFacts
<1>8. received' = [received EXCEPT ![c] = Beginning(n)]
  BY <1>2, <1>6
<1>9. \A d \in Clients : Outcome(d)' = Outcome(d)
  BY <1>1 DEF Outcome
<1>10. Outcome(c) = "pending"
  BY <1>1, OutcomeFacts
<1> HIDE DEF printed, n
<1>11. \E k \in Len(received[c]) + 1 .. MessageLength :
         received' = [received EXCEPT ![c] = [i \in 1 .. k |-> i]]
  BY <1>7, <1>8 DEF Beginning
<1> QED
  BY <1>9, <1>10, <1>11 DEF Service!Return

\* A channel that closes, or is not opened, ends the service of its client.
LEMMA CloseClientFinishes ==
  ASSUME IndInv, NEW c \in Clients, client[c] = "active",
         NEW how \in {"end", "reset", "killed"}, CloseClient(c, how),
         how = "end" => (server[c] = "closed" => received[c] # <<>>)
                        /\ server[c] \in {"closed", "killed"}
  PROVE  Service!Finish(c)
<1>1. /\ client' = [client EXCEPT ![c] = "closed"] /\ ending' = [ending EXCEPT ![c] = how]
      /\ received' = received /\ server' = server
  BY DEF CloseClient, serverVars
<1>2. client'[c] = "closed" /\ ending'[c] = how
  BY <1>1, OfClient DEF TypeOK
<1>3. \A d \in Clients \ {c} : client'[d] = client[d] /\ ending'[d] = ending[d]
  BY <1>1, OfClient DEF TypeOK
<1>4. \A d \in Clients \ {c} : Outcome(d)' = Outcome(d)
  BY <1>1, <1>3 DEF Outcome
<1>5. Outcome(c) = "pending"
  BY OutcomeFacts
<1>6. Outcome(c)' = IF how = "end"
                    THEN IF server[c] = "killed" THEN "abandoned" ELSE "answered"
                    ELSE how
  BY <1>1, <1>2 DEF Outcome
<1>7. \/ Outcome(c)' = "answered" /\ received[c] # <<>>
      \/ Outcome(c)' \in {"reset", "killed", "abandoned"}
  BY <1>6
<1> QED
  BY <1>1, <1>4, <1>5, <1>7, FinishOf

\* A client that is refused has finished without an answer.
LEMMA ConnectFailsFinishes ==
  ASSUME IndInv, NEW c \in Clients, ConnectFails(c)
  PROVE  Service!Finish(c)
<1>1. /\ client[c] = "connecting" /\ client' = [client EXCEPT ![c] = "failed"]
      /\ ending' = ending /\ received' = received /\ server' = server
  BY DEF ConnectFails, serverVars
<1>2. client'[c] = "failed" /\ \A d \in Clients \ {c} : client'[d] = client[d]
  BY <1>1, OfClient DEF TypeOK
<1>3. ConnectingOK(c) /\ AcceptingOK(c) /\ EndingOK(c)
  BY OfClient
<1>4. received[c] = <<>> /\ ending[c] = "none"
  BY <1>1, <1>3 DEF ConnectingOK, AcceptingOK, EndingOK
<1>5. Outcome(c)' = "refused"
  BY <1>1, <1>2, <1>4 DEF Outcome
<1>6. \A d \in Clients \ {c} : Outcome(d)' = Outcome(d)
  BY <1>1, <1>2 DEF Outcome
<1>7. Outcome(c) = "pending"
  BY <1>1, OutcomeFacts
<1> QED
  BY <1>1, <1>4, <1>5, <1>6, <1>7, FinishOf

\* Every step of the protocol is a step of the service or leaves it unchanged.
LEMMA NextIsServed ==
  ASSUME IndInv, [Next]_vars
  PROVE  [\E c \in Clients : Service!Return(c) \/ Service!Finish(c)]_Service!vars
<1>1. CASE KillServer
  BY <1>1, KillServerIsHidden
<1>2. ASSUME NEW c \in Clients, ClientNext(c)
      PROVE  Service!Return(c) \/ Service!Finish(c) \/ UNCHANGED Service!vars
  <2>1. CASE ChannelActive(c)
    <3>1. /\ client[c] = "connecting" /\ client' = [client EXCEPT ![c] = "active"]
          /\ received' = received /\ ending' = ending /\ server' = server
      BY <2>1 DEF ChannelActive, serverVars
    <3>2. client'[c] = "active" /\ \A d \in Clients \ {c} : client'[d] = client[d]
      BY <3>1, OfClient DEF TypeOK
    <3>3. ending[c] = "none"
      BY <3>1, OfClient DEF EndingOK
    <3>4. \A d \in Clients : Outcome(d)' = Outcome(d)
      BY <3>1, <3>2, <3>3 DEF Outcome
    <3> QED
      BY <3>1, <3>4, ServiceUnchanged
  <2>2. CASE ConnectFails(c)
    BY <2>2, ConnectFailsFinishes
  <2>3. CASE ClientSends(c)
    BY <2>3, ServerIsHidden DEF ClientSends, serverVars
  <2>4. CASE ClientReads(c)
    BY <2>4, ClientReadsReturns
  <2>5. CASE ClientSeesEnd(c)
    BY <2>5, ClientSeesEndIndInv, CloseClientFinishes
  <2>6. CASE ClientExceptionCaught(c)
    BY <2>6, CloseClientFinishes DEF ClientExceptionCaught
  <2> QED
    BY <1>2, <2>1, <2>2, <2>3, <2>4, <2>5, <2>6 DEF ClientNext
<1>3. ASSUME NEW c \in Clients, MainNext(c) PROVE UNCHANGED Service!vars
  BY <1>3, ServerIsHidden DEF MainNext, MainConnected, MainThrows, MainSeesClose, MainGoesOn,
     clientVars, serverVars
<1>4. ASSUME NEW c \in Clients, ServerNext(c) PROVE UNCHANGED Service!vars
  BY <1>4, ServerNextIsHidden
<1>5. ASSUME NEW c \in Clients, KillClient(c) PROVE Service!Finish(c)
  BY <1>5, CloseClientFinishes DEF KillClient
<1>6. ASSUME NEW c \in Clients, LateArrival(c) PROVE UNCHANGED Service!vars
  BY <1>6, ServerIsHidden DEF LateArrival, clientVars, serverVars
<1>7. CASE UNCHANGED vars
  BY <1>7, ServerIsHidden DEF vars
<1> QED
  BY <1>1, <1>2, <1>3, <1>4, <1>5, <1>6, <1>7 DEF Next

\* The protocol implements the service: what comes back to a client is its message
\* from the beginning, and its service ends once, orderly only after something was
\* returned, unless the server was killed.
THEOREM EchoImplementsService == Spec => ImplementsEchoService
<1>1. Init => Service!Init
  <2> SUFFICES ASSUME Init PROVE Service!Init
    OBVIOUS
  <2>1. \A c \in Clients : client[c] = "connecting" /\ ending[c] = "none"
    BY DEF Init
  <2>2. \A c \in Clients : Outcome(c) = "pending"
    BY <2>1 DEF Outcome
  <2> QED
    BY <2>2 DEF Init, Service!Init
<1>2. IndInv /\ [Next]_vars => [\E c \in Clients : Service!Return(c) \/ Service!Finish(c)]_Service!vars
  BY NextIsServed
<1> QED
  BY <1>1, <1>2, IndInvHolds, PTL DEF Spec, ImplementsEchoService, Service!Spec

=============================================================================
