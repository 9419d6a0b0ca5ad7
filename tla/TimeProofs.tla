----------------------------- MODULE TimeProofs -----------------------------
(***************************************************************************)
(* Proofs about the time server and its clients, for any number of         *)
(* clients, bytes of any size, every epoch and every time.                 *)
(***************************************************************************)
EXTENDS Time, TLAPS, SequenceTheorems

-----------------------------------------------------------------------------
(* The bytes of an int give it back, up to the wrap. *)

\* There is one way to write a number as a quotient and a remainder.
LEMMA DivisionIsUnique ==
  ASSUME NEW d \in Nat \ {0}, NEW q \in Nat, NEW r \in Nat, r < d
  PROVE  (q * d + r) \div d = q /\ (q * d + r) % d = r
<1> DEFINE n == q * d + r
           p == n \div d
           s == n % d
<1>1. n \in Nat
  OBVIOUS
<1>2. p \in Nat /\ s \in 0 .. d - 1 /\ n = d * p + s
  BY <1>1
<1>3. CASE p > q
  <2>1. PICK e \in Nat : p = q + 1 + e
    BY <1>2, <1>3
  <2>2. d * p = d * q + d + d * e /\ d * e \in Nat
    BY <2>1
  <2> QED BY <1>2, <2>2
<1>4. CASE p < q
  <2>1. PICK e \in Nat : q = p + 1 + e
    BY <1>2, <1>4
  <2>2. d * q = d * p + d + d * e /\ d * e \in Nat
    BY <2>1
  <2> QED BY <1>2, <2>2
<1>5. CASE p = q
  BY <1>2, <1>5
<1> QED BY <1>2, <1>3, <1>4, <1>5
\* The places of an int are powers of the radix, and none of them is 0.
LEMMA RadixFacts == /\ Radix \in Nat \ {0}
                    /\ Wrap \in Nat \ {0}
                    /\ \A i \in 1 .. 4 : Place[i] \in Nat \ {0}
                    /\ Place[1] = Radix * Place[2] /\ Place[2] = Radix * Place[3]
                    /\ Place[3] = Radix /\ Place[4] = 1 /\ Wrap = Radix * Place[1]
<1>1. Radix \in Nat \ {0}
  BY RadixAssumption
<1>2. \A m, n \in Nat \ {0} : m * n \in Nat \ {0}
  <2> SUFFICES ASSUME NEW m \in Nat \ {0}, NEW n \in Nat \ {0}  PROVE m * n \in Nat \ {0}
    OBVIOUS
  <2>1. PICK k \in Nat : m = k + 1
    <3>1. m - 1 \in Nat /\ m = (m - 1) + 1
      OBVIOUS
    <3> QED BY <3>1
  <2>2. m * n = k * n + n /\ k * n \in Nat
    BY <2>1
  <2> QED BY <2>2
<1>3. Radix * Radix \in Nat \ {0}
  BY <1>1, <1>2
<1>4. Radix * Radix * Radix \in Nat \ {0} /\ Radix * Radix * Radix = Radix * (Radix * Radix)
  <2>1. Radix * Radix * Radix = Radix * (Radix * Radix)
    BY <1>1
  <2> QED BY <1>1, <1>2, <1>3, <2>1
<1>5. Wrap \in Nat \ {0}
  BY <1>1, <1>2, <1>4 DEF Wrap
<1> QED BY <1>1, <1>3, <1>4, <1>5 DEF Place, Wrap

\* Dividing twice is dividing by the product.
LEMMA DivideTwice ==
  ASSUME NEW d \in Nat \ {0}, NEW e \in Nat \ {0}, d * e \in Nat \ {0}, NEW n \in Nat
  PROVE  n \div (d * e) = (n \div e) \div d
<1> DEFINE q == n \div e
           r == n % e
           p == q \div d
           s == q % d
<1>1. q \in Nat /\ r \in 0 .. e - 1 /\ n = q * e + r
  OBVIOUS
<1>2. p \in Nat /\ s \in 0 .. d - 1 /\ q = p * d + s
  BY <1>1
<1> HIDE DEF q, r, p, s
<1>3. n = p * (d * e) + (s * e + r)
  <2>1. q * e = p * (d * e) + s * e
    BY <1>1, <1>2
  <2> QED BY <1>1, <1>2, <2>1
<1>4. s * e + r \in Nat /\ s * e + r < d * e
  <2>1. PICK k \in Nat : d = s + 1 + k
    <3>1. d - 1 - s \in Nat /\ d = s + 1 + (d - 1 - s)
      BY <1>2
    <3> QED BY <3>1
  <2>2. d * e = s * e + e + k * e /\ k * e \in Nat /\ s * e \in Nat
    BY <1>2, <2>1
  <2> QED BY <1>1, <2>2
<1>5. n \div (d * e) = p
  BY <1>2, <1>3, <1>4, DivisionIsUnique
<1> QED BY <1>5 DEF p, q

\* What readUnsignedInt reads of the bytes that writeInt has written is the
\* number, less the multiple of the wrap that the bytes cannot hold.
LEMMA IntRoundTrip ==
  ASSUME NEW long \in Nat
  PROVE  ReadUnsignedInt(WriteInt(long)) = long % Wrap
<1> DEFINE q1 == long \div Radix
           q2 == q1 \div Radix
           q3 == q2 \div Radix
           q4 == q3 \div Radix
<1>1. q1 \in Nat /\ q2 \in Nat /\ q3 \in Nat /\ q4 \in Nat
  BY RadixFacts
<1>2. /\ long = q1 * Radix + (long % Radix) /\ q1 = q2 * Radix + (q1 % Radix)
      /\ q2 = q3 * Radix + (q2 % Radix) /\ q3 = q4 * Radix + (q3 % Radix)
      /\ \A q \in Nat : q % Radix \in Nat /\ q % Radix < Radix
  <2>1. Radix \in Nat \ {0}
    BY RadixFacts
  <2>2. \A q \in Nat :
          /\ q = (q \div Radix) * Radix + (q % Radix)
          /\ q % Radix \in Nat /\ q % Radix < Radix
    <3> SUFFICES ASSUME NEW q \in Nat
                 PROVE  /\ q = (q \div Radix) * Radix + (q % Radix)
                        /\ q % Radix \in Nat /\ q % Radix < Radix
      OBVIOUS
    <3>1. q % Radix \in Nat /\ q % Radix < Radix
      BY <2>1
    <3>2. q = Radix * (q \div Radix) + (q % Radix)
      BY <2>1
    <3>3. q \div Radix \in Nat
      BY <2>1
    <3>4. Radix * (q \div Radix) = (q \div Radix) * Radix
      BY <2>1, <3>3
    <3> QED BY <3>1, <3>2, <3>4
  <2> HIDE DEF q1, q2, q3, q4
  <2>3. q1 = long \div Radix /\ q2 = q1 \div Radix /\ q3 = q2 \div Radix /\ q4 = q3 \div Radix
    BY DEF q1, q2, q3, q4
  <2> QED BY <1>1, <2>2, <2>3
<1>3. long \div Place[4] = long /\ long \div Place[3] = q1
  BY RadixFacts
<1>4. long \div Place[2] = q2
  <2>1. Radix \in Nat \ {0} /\ Place[3] \in Nat \ {0} /\ Radix * Place[3] \in Nat \ {0}
        /\ Place[2] = Radix * Place[3]
    BY RadixFacts
  <2>2. long \div Place[2] = (long \div Place[3]) \div Radix
    BY <2>1, DivideTwice
  <2> QED BY <1>3, <2>2
<1>5. long \div Place[1] = q3
  <2>1. Radix \in Nat \ {0} /\ Place[2] \in Nat \ {0} /\ Radix * Place[2] \in Nat \ {0}
        /\ Place[1] = Radix * Place[2]
    BY RadixFacts
  <2>2. long \div Place[1] = (long \div Place[2]) \div Radix
    BY <2>1, DivideTwice
  <2> QED BY <1>4, <2>2
<1> HIDE DEF q1, q2, q3, q4
<1> DEFINE b4 == long % Radix
           b3 == q1 % Radix
           b2 == q2 % Radix
           b1 == q3 % Radix
           int == b1 * Place[1] + b2 * Place[2] + b3 * Place[3] + b4
<1>6. ReadUnsignedInt(WriteInt(long)) = int
  BY <1>3, <1>4, <1>5 DEF ReadUnsignedInt, WriteInt
<1>7. b1 \in Nat /\ b2 \in Nat /\ b3 \in Nat /\ b4 \in Nat
      /\ b1 < Radix /\ b2 < Radix /\ b3 < Radix /\ b4 < Radix
  BY <1>1, <1>2
<1>8. long = q1 * Radix + b4 /\ q1 = q2 * Radix + b3 /\ q2 = q3 * Radix + b2 /\ q3 = q4 * Radix + b1
  BY <1>2
<1> HIDE DEF b1, b2, b3, b4
<1>9. PICK p1 \in Nat, p2 \in Nat : p1 = Place[1] /\ p2 = Place[2]
  BY RadixFacts
<1>10. long = q4 * Wrap + int
  <2>1. q1 * Radix = q2 * p2 + b3 * Radix
    BY <1>1, <1>7, <1>8, <1>9, RadixFacts
  <2>2. q2 * p2 = q3 * p1 + b2 * p2
    BY <1>1, <1>7, <1>8, <1>9, RadixFacts
  <2>3. q3 * p1 = q4 * Wrap + b1 * p1
    BY <1>1, <1>7, <1>8, <1>9, RadixFacts
  <2>5. q4 * Wrap \in Int /\ b1 * p1 \in Int /\ b2 * p2 \in Int /\ b3 * Radix \in Int
    BY <1>1, <1>7, <1>9, RadixFacts
  <2>6. int = b1 * p1 + b2 * p2 + b3 * Radix + b4
    BY <1>9, RadixFacts
  <2> HIDE DEF int
  <2> QED BY <1>7, <1>8, <2>1, <2>2, <2>3, <2>5, <2>6
<1>11. int \in Nat /\ int < Wrap
  <2>1. \A m, n, k \in Nat : m < n => (n * k) \in Nat /\ m * k \in Nat /\ m * k + k <= n * k
    <3> SUFFICES ASSUME NEW m \in Nat, NEW n \in Nat, NEW k \in Nat, m < n
                 PROVE  (n * k) \in Nat /\ m * k \in Nat /\ m * k + k <= n * k
      OBVIOUS
    <3>1. PICK e \in Nat : n = m + 1 + e
      <4>1. n - 1 - m \in Nat /\ n = m + 1 + (n - 1 - m)
        OBVIOUS
      <4> QED BY <4>1
    <3>2. n * k = m * k + k + e * k /\ e * k \in Nat /\ m * k \in Nat
      BY <3>1
    <3> QED BY <3>2
  <2>2. b1 * p1 \in Nat /\ b1 * p1 + p1 <= Wrap
    BY <1>7, <1>9, <2>1, RadixFacts
  <2>3. b2 * p2 \in Nat /\ b2 * p2 + p2 <= p1
    BY <1>7, <1>9, <2>1, RadixFacts
  <2>4. b3 * Radix \in Nat /\ b3 * Radix + Radix <= p2
    BY <1>7, <1>9, <2>1, RadixFacts
  <2> QED BY <1>7, <1>9, <2>2, <2>3, <2>4, RadixFacts
<1> HIDE DEF int
<1>12. Wrap \in Nat \ {0}
  BY RadixFacts
<1>13. long % Wrap = int
  BY <1>1, <1>10, <1>11, <1>12, DivisionIsUnique
<1> QED BY <1>6, <1>13

-----------------------------------------------------------------------------
(* The inductive invariant.  While the client is active, what is on the wire *)
(* is the beginning of one int, and the outbound buffer has its rest.        *)

OnTheWay(c) ==
  \E t \in began[c] .. now, k \in 0 .. 4 :
    /\ wire[c] = SubSeq(WriteInt(t + Epoch), 1, k)
    /\ server[c] = "active" /\ ~broken[c] => outbound[c] = SubSeq(WriteInt(t + Epoch), k + 1, 4)
    /\ server[c] = "closed" /\ ~broken[c] => k = 4

ClientInv(c) ==
  /\ began[c] \in 0 .. now
  /\ server[c] = "none" => wire[c] = <<>>
  /\ client[c] \in {"connecting", "failed"} => server[c] = "none"
  /\ client[c] # "closed" => printed[c] = <<>>
  /\ client[c] = "active" /\ server[c] # "none" => OnTheWay(c)
  /\ printed[c] # <<>> => \E t \in began[c] .. now : printed[c] = <<((t + Epoch) % Wrap) - Epoch>>

Types ==
  /\ now \in Nat
  /\ DOMAIN main = Clients
  /\ began \in [Clients -> Nat]
  /\ client \in [Clients -> {"connecting", "active", "failed", "closed"}]
  /\ server \in [Clients -> {"none", "active", "closed", "stopped"}]
  /\ outbound \in [Clients -> Seq(Int)]
  /\ wire \in [Clients -> Seq(Int)]
  /\ broken \in [Clients -> BOOLEAN]
  /\ printed \in [Clients -> Seq(Int)]

IndInv == Types /\ \A c \in Clients : ClientInv(c)

\* Nothing that a client's part of the invariant speaks of has changed, but the
\* clock may have gone on.
Same(c) ==
  /\ now' \in Nat /\ now <= now'
  /\ began'[c] = began[c] /\ client'[c] = client[c] /\ server'[c] = server[c]
  /\ outbound'[c] = outbound[c] /\ wire'[c] = wire[c] /\ broken'[c] = broken[c]
  /\ printed'[c] = printed[c]

\* ... and then that part still holds, since a later clock only adds times.
LEMMA SameInv ==
  ASSUME Types, NEW c \in Clients, ClientInv(c), Same(c)
  PROVE  ClientInv(c)'
<1>1. began[c] \in Nat /\ now \in Nat /\ now' \in Nat /\ now <= now' /\ began'[c] = began[c]
  BY DEF Types, Same
<1>2. began[c] .. now \subseteq began'[c] .. now'
  BY <1>1
<1>3. ASSUME OnTheWay(c)  PROVE OnTheWay(c)'
  BY <1>2, <1>3 DEF OnTheWay, Same
<1>4. ASSUME \E t \in began[c] .. now : printed[c] = <<((t + Epoch) % Wrap) - Epoch>>
      PROVE  \E t \in began'[c] .. now' : printed'[c] = <<((t + Epoch) % Wrap) - Epoch>>
  BY <1>2, <1>4 DEF Same
<1>5. began'[c] \in 0 .. now'
  BY <1>1 DEF ClientInv
<1> QED BY <1>3, <1>4, <1>5 DEF ClientInv, Same

\* writeInt writes four bytes.
LEMMA WriteIntType ==
  ASSUME NEW long \in Nat
  PROVE  /\ WriteInt(long) \in Seq(Int) /\ Len(WriteInt(long)) = 4
         /\ \A i \in 1 .. 4 : WriteInt(long)[i] \in Int
<1>1. \A i \in 1 .. 4 : (long \div Place[i]) % Radix \in Int
  <2> SUFFICES ASSUME NEW i \in 1 .. 4  PROVE (long \div Place[i]) % Radix \in Int
    OBVIOUS
  <2>1. Place[i] \in Nat \ {0} /\ Radix \in Nat \ {0}
    BY RadixFacts
  <2>2. long \div Place[i] \in Nat
    BY <2>1
  <2> QED BY <2>1, <2>2
<1>2. WriteInt(long) \in [1 .. 4 -> Int]
  BY <1>1 DEF WriteInt
<1>3. WriteInt(long) \in Seq(Int)
  BY <1>2, SeqDef
<1> QED BY <1>2, <1>3, LenProperties

\* No connection has been made yet.
LEMMA InitInv == Init => IndInv
<1> SUFFICES ASSUME Init  PROVE IndInv
  OBVIOUS
<1>1. now \in Nat
  BY EpochAssumption DEF Init
<1>2. Types
  BY <1>1 DEF Init, Types
<1>3. ASSUME NEW c \in Clients  PROVE ClientInv(c)
  BY <1>1 DEF Init, ClientInv
<1> QED BY <1>2, <1>3 DEF IndInv

\* The parts of a sequence: a beginning, the beginning of the rest, the rest.
LEMMA CutAgain ==
  ASSUME NEW s \in Seq(Int), NEW k \in 0 .. Len(s), NEW n \in 1 .. Len(s) - k
  PROVE  /\ Len(SubSeq(s, k + 1, Len(s))) = Len(s) - k
         /\ SubSeq(s, 1, k) \o SubSeq(SubSeq(s, k + 1, Len(s)), 1, n) = SubSeq(s, 1, k + n)
         /\ SubSeq(SubSeq(s, k + 1, Len(s)), n + 1, Len(s) - k) = SubSeq(s, k + n + 1, Len(s))
<1>0. Len(s) \in Nat /\ \A i \in 1 .. Len(s) : s[i] \in Int
  OBVIOUS
<1>1. PICK len \in Nat : len = Len(s)
  BY <1>0
<1>2. k + 1 \in 1 .. len + 1 /\ k \in 0 .. len /\ k + n \in k .. len
  BY <1>1
<1>3. Len(SubSeq(s, k + 1, len)) = len - k
  <2>1. \A i \in k + 1 .. len : s[i] \in Int
    BY <1>0, <1>1
  <2> QED BY <1>1, <2>1, SubSeqProperties
<1>4. k + 1 \in 1 .. len /\ len \in 1 .. len /\ 1 \in 1 .. len - (k + 1) + 1 /\ n \in 1 .. len - (k + 1) + 1
      /\ (k + 1) + 1 - 1 = k + 1 /\ (k + 1) + n - 1 = k + n
  BY <1>1
<1>5. SubSeq(SubSeq(s, k + 1, len), 1, n) = SubSeq(s, k + 1, k + n)
  BY <1>1, <1>4, SubSeqOfSubSeq
<1>6. SubSeq(s, 1, k) \o SubSeq(s, k + 1, k + n) = SubSeq(s, 1, k + n)
  <2>1. 1 \in 1 .. len + 1 /\ k \in 1 - 1 .. len
    BY <1>1
  <2> QED BY <1>1, <1>2, <2>1, ConcatAdjacentSubSeq
<1>7. SubSeq(SubSeq(s, k + 1, len), n + 1, len - k) = SubSeq(s, k + n + 1, len)
  <2>1. CASE n = len - k
    <3>1. len - k < n + 1 /\ len < k + n + 1 /\ n + 1 \in Int /\ len - k \in Int /\ k + n + 1 \in Int
      BY <2>1
    <3> QED BY <3>1, SubSeqEmpty
  <2>2. CASE n # len - k
    <3>1. n + 1 \in 1 .. len - (k + 1) + 1 /\ len - k \in 1 .. len - (k + 1) + 1
          /\ (k + 1) + (n + 1) - 1 = k + n + 1 /\ (k + 1) + (len - k) - 1 = len
      BY <1>1, <2>2
    <3> QED BY <1>1, <1>4, <3>1, SubSeqOfSubSeq
  <2> QED BY <2>1, <2>2
<1> QED BY <1>1, <1>3, <1>5, <1>6, <1>7

-----------------------------------------------------------------------------
(* Each step preserves the invariant: that of the client that acts by what the *)
(* step does, those of the others since nothing of theirs has changed.         *)

\* A step of one client leaves the others as they are.
LEMMA OthersInv ==
  ASSUME IndInv, NEW c \in Clients, Types', ClientInv(c)',
         \A d \in Clients \ {c} : Same(d)
  PROVE  IndInv'
<1>1. ASSUME NEW d \in Clients \ {c}  PROVE ClientInv(d)'
  BY <1>1, SameInv DEF IndInv
<1> QED BY <1>1 DEF IndInv

\* The clock goes on.
LEMMA TickInv == ASSUME IndInv, Tick  PROVE IndInv'
<1>1. Types' /\ now' = now + 1 /\ now \in Nat
  BY DEF IndInv, Types, Tick, serverVars
<1>2. ASSUME NEW d \in Clients  PROVE Same(d)
  BY <1>1 DEF Tick, Same, serverVars
<1> QED BY <1>1, <1>2, SameInv DEF IndInv

\* A client that has just connected has no server channel yet.
LEMMA ConnectInv ==
  ASSUME IndInv, NEW c \in Clients, NEW outcome \in {"active", "failed"}, Connect(c, outcome)
  PROVE  IndInv'
<1>1. Types'
  BY DEF IndInv, Types, Connect, serverVars
<1>2. \A d \in Clients \ {c} : Same(d)
  BY DEF IndInv, Types, Connect, serverVars, Same
<1>3. client[c] = "connecting" /\ client'[c] = outcome /\ server[c] = "none" /\ ClientInv(c)
  BY DEF IndInv, Types, Connect, ClientInv
<1>4. began'[c] = began[c] /\ now' = now /\ server'[c] = server[c] /\ wire'[c] = wire[c]
      /\ printed'[c] = printed[c]
  BY DEF Connect, serverVars
<1>5. ClientInv(c)'
  BY <1>3, <1>4 DEF ClientInv
<1> QED BY <1>1, <1>2, <1>5, OthersInv

\* The whole int is in the buffer: nothing on the wire, all of it outbound.
LEMMA ServerChannelActiveInv ==
  ASSUME IndInv, NEW c \in Clients, ServerChannelActive(c)
  PROVE  IndInv'
<1>1. ClientInv(c) /\ client[c] = "active" /\ server[c] = "none" /\ now \in Nat /\ now + Epoch \in Nat
      /\ began[c] \in 0 .. now
  BY EpochAssumption DEF IndInv, Types, ServerChannelActive, ClientInv
<1>2. PICK int : int = WriteInt(now + Epoch)
  OBVIOUS
<1>3. int \in Seq(Int) /\ Len(int) = 4
  BY <1>1, <1>2, WriteIntType
<1>4. /\ server' = [server EXCEPT ![c] = "active"]
      /\ outbound' = [outbound EXCEPT ![c] = int]
      /\ UNCHANGED <<now, main, began, client, wire, broken, printed>>
  BY <1>2 DEF ServerChannelActive
<1>5. Types'
  BY <1>3, <1>4 DEF IndInv, Types
<1>6. \A d \in Clients \ {c} : Same(d)
  BY <1>4 DEF IndInv, Types, Same
<1>7. server'[c] = "active" /\ outbound'[c] = int /\ wire'[c] = <<>>
  BY <1>1, <1>4 DEF IndInv, Types, ClientInv
<1>8. int = SubSeq(int, 0 + 1, 4) /\ <<>> = SubSeq(int, 1, 0)
  BY <1>3, SubSeqFull, SubSeqEmpty
<1>9. now \in began'[c] .. now' /\ 0 \in 0 .. 4
  BY <1>1, <1>4
<1>10. OnTheWay(c)'
  BY <1>2, <1>7, <1>8, <1>9 DEF OnTheWay
<1>11. ClientInv(c)'
  BY <1>1, <1>4, <1>7, <1>10 DEF ClientInv
<1> QED BY <1>5, <1>6, <1>11, OthersInv

\* The cut between the wire and the buffer moves.
LEMMA WriteSocketInv ==
  ASSUME IndInv, NEW c \in Clients, WriteSocket(c)
  PROVE  IndInv'
<1>1. PICK n \in 1 .. Len(outbound[c]) :
        /\ wire' = [wire EXCEPT ![c] = @ \o SubSeq(outbound[c], 1, n)]
        /\ outbound' = [outbound EXCEPT ![c] = SubSeq(@, n + 1, Len(@))]
  BY DEF WriteSocket
<1>2. server[c] = "active" /\ ~broken[c] /\ UNCHANGED <<now, main, began, client, server, broken, printed>>
  BY DEF WriteSocket
<1>3. ClientInv(c) /\ Types /\ wire[c] \in Seq(Int) /\ outbound[c] \in Seq(Int)
  BY DEF IndInv, Types
<1>4. PICK w, o : w = wire[c] \o SubSeq(outbound[c], 1, n) /\ o = SubSeq(outbound[c], n + 1, Len(outbound[c]))
  OBVIOUS
<1>5. w \in Seq(Int) /\ o \in Seq(Int)
  <2>1. \A i \in 1 .. Len(outbound[c]) : outbound[c][i] \in Int
    BY <1>3
  <2>2. Len(outbound[c]) \in Nat
    BY <1>3
  <2>3. SubSeq(outbound[c], 1, n) \in Seq(Int)
    BY <2>1, <2>2, SubSeqProperties
  <2>4. o \in Seq(Int)
    BY <1>4, <2>1, <2>2, SubSeqProperties
  <2> QED BY <1>3, <1>4, <2>3, <2>4, ConcatProperties
<1>6. wire' = [wire EXCEPT ![c] = w] /\ outbound' = [outbound EXCEPT ![c] = o]
  BY <1>1, <1>4
<1>7. Types'
  BY <1>2, <1>3, <1>5, <1>6 DEF Types
<1>8. \A d \in Clients \ {c} : Same(d)
  BY <1>2, <1>3, <1>6 DEF Types, Same
<1>9. wire'[c] = w /\ outbound'[c] = o
  BY <1>3, <1>6 DEF Types
<1>10. ASSUME client[c] = "active"  PROVE OnTheWay(c)'
  <2>1. PICK t \in began[c] .. now, k \in 0 .. 4 :
          /\ wire[c] = SubSeq(WriteInt(t + Epoch), 1, k)
          /\ outbound[c] = SubSeq(WriteInt(t + Epoch), k + 1, 4)
    BY <1>2, <1>3, <1>10 DEF ClientInv, OnTheWay
  <2>2. PICK int : int = WriteInt(t + Epoch)
    OBVIOUS
  <2>3. t + Epoch \in Nat
    BY <1>3, EpochAssumption DEF Types
  <2>4. int \in Seq(Int) /\ Len(int) = 4 /\ \A i \in 1 .. 4 : int[i] \in Int
    BY <2>2, <2>3, WriteIntType
  <2>5. Len(outbound[c]) = 4 - k
    <3>1. \A i \in k + 1 .. 4 : int[i] \in Int
      BY <2>4
    <3> QED BY <2>1, <2>2, <3>1, SubSeqProperties
  <2>6. n \in 1 .. Len(int) - k /\ k \in 0 .. Len(int) /\ k + n \in 0 .. 4
    BY <2>4, <2>5
  <2>7. /\ SubSeq(int, 1, k) \o SubSeq(SubSeq(int, k + 1, Len(int)), 1, n) = SubSeq(int, 1, k + n)
        /\ SubSeq(SubSeq(int, k + 1, Len(int)), n + 1, Len(int) - k) = SubSeq(int, k + n + 1, Len(int))
    BY <2>4, <2>6, CutAgain
  <2>8. w = SubSeq(int, 1, k + n) /\ o = SubSeq(int, (k + n) + 1, 4)
    BY <1>4, <2>1, <2>2, <2>4, <2>5, <2>7
  <2>9. t \in began'[c] .. now' /\ server'[c] = "active" /\ broken'[c] = broken[c]
    BY <1>2
  <2> QED BY <1>9, <2>2, <2>6, <2>8, <2>9 DEF OnTheWay
<1>11. ClientInv(c)'
  BY <1>2, <1>3, <1>9, <1>10 DEF ClientInv
<1> QED BY <1>7, <1>8, <1>11, OthersInv

\* All the ways in which the server's channel closes.
LEMMA CloseServerInv ==
  ASSUME IndInv, NEW c \in Clients, NEW as \in {"closed", "stopped"}, CloseServer(c, as),
         server[c] = "active",
         as = "closed" /\ client[c] = "active" => outbound[c] = <<>> \/ broken[c]
  PROVE  IndInv'
<1>1. ClientInv(c) /\ Types
  BY DEF IndInv
<1>2. Types'
  BY <1>1, EmptySeq DEF Types, CloseServer
<1>3. \A d \in Clients \ {c} : Same(d)
  BY <1>1 DEF Types, CloseServer, Same
<1>4. /\ server'[c] = as
      /\ UNCHANGED <<now, began, client, wire, broken, printed>>
  BY <1>1 DEF Types, CloseServer
<1>5. ASSUME client[c] = "active"  PROVE OnTheWay(c)'
  <2>1. PICK t \in began[c] .. now, k \in 0 .. 4 :
          /\ wire[c] = SubSeq(WriteInt(t + Epoch), 1, k)
          /\ ~broken[c] => outbound[c] = SubSeq(WriteInt(t + Epoch), k + 1, 4)
    BY <1>1, <1>5 DEF ClientInv, OnTheWay
  <2>2. ASSUME as = "closed", ~broken[c]  PROVE k = 4
    <3>1. t + Epoch \in Nat
      BY <1>1, EpochAssumption DEF Types
    <3>2. PICK int : int = WriteInt(t + Epoch)
      OBVIOUS
    <3>3. int \in Seq(Int) /\ Len(int) = 4 /\ \A i \in 1 .. 4 : int[i] \in Int
      BY <3>1, <3>2, WriteIntType
    <3>4. \A i \in k + 1 .. 4 : int[i] \in Int
      BY <3>3
    <3>5. Len(SubSeq(int, k + 1, 4)) = IF k + 1 <= 4 THEN 4 - (k + 1) + 1 ELSE 0
      BY <3>4, SubSeqProperties
    <3>6. Len(SubSeq(int, k + 1, 4)) = 0
      BY <1>5, <2>1, <2>2, <3>2
    <3> QED BY <3>5, <3>6
  <2>3. t \in began'[c] .. now' /\ wire'[c] = wire[c] /\ broken'[c] = broken[c] /\ server'[c] # "active"
    BY <1>4
  <2> QED BY <1>4, <2>1, <2>2, <2>3 DEF OnTheWay
<1>6. ClientInv(c)'
  BY <1>1, <1>4, <1>5 DEF ClientInv
<1> QED BY <1>2, <1>3, <1>6, OthersInv

\* A broken connection has nothing on the wire, which is a beginning of any int.
LEMMA ConnectionBreaksInv ==
  ASSUME IndInv, NEW c \in Clients, ConnectionBreaks(c)
  PROVE  IndInv'
<1>1. ClientInv(c) /\ Types /\ client[c] = "active"
  BY DEF IndInv, ConnectionBreaks
<1>2. Types'
  BY <1>1, EmptySeq DEF Types, ConnectionBreaks, serverVars
<1>3. \A d \in Clients \ {c} : Same(d)
  BY <1>1 DEF Types, ConnectionBreaks, Same, serverVars
<1>4. /\ broken'[c] = TRUE /\ wire'[c] = <<>>
      /\ UNCHANGED <<now, began, client, server, outbound, printed>>
  BY <1>1 DEF Types, ConnectionBreaks, serverVars
<1>5. OnTheWay(c)'
  <2>1. began'[c] \in began'[c] .. now'
    BY <1>1, <1>4 DEF ClientInv
  <2>2. <<>> = SubSeq(WriteInt(began'[c] + Epoch), 1, 0)
    BY SubSeqEmpty
  <2> QED BY <1>4, <2>1, <2>2 DEF OnTheWay
<1>6. ClientInv(c)'
  BY <1>1, <1>4, <1>5 DEF ClientInv
<1> QED BY <1>2, <1>3, <1>6, OthersInv

\* Only a read of four bytes prints, and it has the whole int.
LEMMA ChannelReadInv ==
  ASSUME IndInv, NEW c \in Clients, ChannelRead(c)
  PROVE  IndInv'
<1>1. ClientInv(c) /\ Types /\ client[c] = "active" /\ client' = [client EXCEPT ![c] = "closed"]
      /\ UNCHANGED <<now, main, began, server, outbound, broken>>
  BY DEF IndInv, ChannelRead, serverVars
<1>2. PICK n \in 1 .. Len(wire[c]) :
       /\ wire' = [wire EXCEPT ![c] = SubSeq(@, n + 1, Len(@))]
       /\ \/ n < 4 /\ UNCHANGED printed
          \/ /\ n = 4
             /\ printed' = [printed EXCEPT ![c] = Append(@, CurrentTime(SubSeq(wire[c], 1, 4)))]
  BY DEF ChannelRead
<1>3. wire[c] \in Seq(Int) /\ Len(wire[c]) \in Nat /\ wire[c] # <<>> /\ printed[c] = <<>>
  <2>1. wire[c] \in Seq(Int) /\ printed[c] = <<>>
    BY <1>1 DEF Types, ClientInv
  <2>2. Len(wire[c]) \in Nat
    BY <2>1, LenProperties
  <2>3. wire[c] # <<>>
    BY <1>2, <2>2
  <2> QED BY <2>1, <2>2, <2>3
<1>4. PICK rest : rest = SubSeq(wire[c], n + 1, Len(wire[c]))
  OBVIOUS
<1>5. rest \in Seq(Int)
  <2>1. \A i \in n + 1 .. Len(wire[c]) : wire[c][i] \in Int
    BY <1>3, ElementOfSeq
  <2> QED BY <1>3, <1>4, <2>1, SubSeqProperties
<1>6. \A d \in Clients : printed'[d] = printed[d] \/ d = c
  BY <1>1, <1>2 DEF Types
<1>7. \A d \in Clients \ {c} : Same(d)
  <2>1. wire' = [wire EXCEPT ![c] = rest]
    BY <1>2, <1>4
  <2> QED BY <1>1, <1>6, <2>1 DEF Types, Same
\* The client has read a whole int.
<1>8. ASSUME n = 4, printed' = [printed EXCEPT ![c] = Append(@, CurrentTime(SubSeq(wire[c], 1, 4)))]
      PROVE  \E t \in began[c] .. now : printed'[c] = <<((t + Epoch) % Wrap) - Epoch>>
  <2>1. server[c] # "none"
    BY <1>1, <1>3 DEF ClientInv
  <2>2. PICK t \in began[c] .. now, k \in 0 .. 4 : wire[c] = SubSeq(WriteInt(t + Epoch), 1, k)
    BY <1>1, <2>1 DEF ClientInv, OnTheWay
  <2>3. t + Epoch \in Nat
    BY <1>1, EpochAssumption DEF Types
  <2>4. PICK int : int = WriteInt(t + Epoch)
    OBVIOUS
  <2>5. int \in Seq(Int) /\ Len(int) = 4 /\ \A i \in 1 .. 4 : int[i] \in Int
    BY <2>3, <2>4, WriteIntType
  <2>6. k = 4
    <3>1. Len(wire[c]) = IF 1 <= k THEN k - 1 + 1 ELSE 0
      BY <2>2, <2>4, <2>5, SubSeqProperties
    <3> QED BY <1>8, <3>1
  <2>7. SubSeq(int, 1, 4) = int
    BY <2>5, SubSeqFull
  <2>8. SubSeq(wire[c], 1, 4) = int
    BY <2>2, <2>4, <2>6, <2>7
  <2>9. CurrentTime(SubSeq(wire[c], 1, 4)) = ((t + Epoch) % Wrap) - Epoch
    BY <2>3, <2>4, <2>8, IntRoundTrip DEF CurrentTime
  <2>10. printed'[c] = Append(<<>>, ((t + Epoch) % Wrap) - Epoch)
    BY <1>1, <1>3, <1>8, <2>9 DEF Types
  <2> QED BY <2>10
<1>9. printed'[c] = <<>> \/ \E t \in began[c] .. now : printed'[c] = <<((t + Epoch) % Wrap) - Epoch>>
  BY <1>2, <1>3, <1>8
<1>10. printed'[c] \in Seq(Int)
  <2>1. \A t \in began[c] .. now : ((t + Epoch) % Wrap) - Epoch \in Int
    <3> SUFFICES ASSUME NEW t \in began[c] .. now  PROVE ((t + Epoch) % Wrap) - Epoch \in Int
      OBVIOUS
    <3>1. t + Epoch \in Nat /\ Epoch \in Nat /\ Wrap \in Nat \ {0}
      BY <1>1, EpochAssumption, RadixFacts DEF Types
    <3> QED BY <3>1
  <2>2. printed'[c] = <<>> \/ \E e \in Int : printed'[c] = <<e>>
    BY <1>9, <2>1
  <2>3. \A e \in Int : <<e>> \in Seq(Int)
    OBVIOUS
  <2> QED BY <2>2, <2>3, EmptySeq
<1>11. printed' \in [Clients -> Seq(Int)]
  <2>1. \A d \in Clients : printed'[d] \in Seq(Int)
    BY <1>1, <1>6, <1>10 DEF Types
  <2>2. printed' = [d \in Clients |-> printed'[d]]
    BY <1>1, <1>2 DEF Types
  <2> QED BY <2>1, <2>2
<1>12. Types'
  <2>1. wire' = [wire EXCEPT ![c] = rest]
    BY <1>2, <1>4
  <2> QED BY <1>1, <1>5, <1>11, <2>1 DEF Types
<1>13. ClientInv(c)'
  <2>1. client'[c] = "closed" /\ server[c] # "none"
    BY <1>1, <1>3 DEF Types, ClientInv
  <2> QED BY <1>1, <1>9, <2>1 DEF ClientInv
<1> QED BY <1>7, <1>12, <1>13, OthersInv

\* A client that leaves without a time has printed nothing.
LEMMA CloseClientInv ==
  ASSUME IndInv, NEW c \in Clients, client[c] = "active", CloseClient(c)
  PROVE  IndInv'
<1>1. ClientInv(c) /\ Types
  BY DEF IndInv
<1>2. Types'
  BY <1>1 DEF Types, CloseClient, serverVars
<1>3. \A d \in Clients \ {c} : Same(d)
  BY <1>1 DEF Types, CloseClient, Same, serverVars
<1>4. /\ client'[c] = "closed"
      /\ UNCHANGED <<now, began, server, outbound, wire, broken, printed>>
  BY <1>1 DEF Types, CloseClient, serverVars
<1>5. ClientInv(c)'
  BY <1>1, <1>4 DEF ClientInv
<1> QED BY <1>2, <1>3, <1>5, OthersInv

\* The main thread changes nothing but its own place.
LEMMA MainInv == ASSUME IndInv, NEW c \in Clients, MainNext(c)  PROVE IndInv'
<1>1. UNCHANGED <<now, began, client, server, outbound, wire, broken, printed>>
  BY DEF MainNext, MainConnected, MainThrows, MainSeesClose, MainGoesOn, serverVars
<1>2. DOMAIN main' = Clients
  BY DEF IndInv, Types, MainNext, MainConnected, MainThrows, MainSeesClose, MainGoesOn
<1>3. Types'
  BY <1>1, <1>2 DEF IndInv, Types
<1>4. \A d \in Clients : Same(d)
  BY <1>1 DEF IndInv, Types, Same
<1> QED BY <1>3, <1>4, SameInv DEF IndInv

\* Every step preserves the invariant.
LEMMA NextInv == ASSUME IndInv, [Next]_vars  PROVE IndInv'
<1>1. CASE Tick
  BY <1>1, TickInv
<1>2. CASE \E c \in Clients : ClientNext(c)
  <2> PICK c \in Clients : ClientNext(c)
    BY <1>2
  <2>1. CASE Connect(c, "active") \/ Connect(c, "failed")
    BY <2>1, ConnectInv
  <2>2. CASE ChannelRead(c)
    BY <2>2, ChannelReadInv
  <2>3. CASE ClientSeesEnd(c) \/ ClientExceptionCaught(c)
    BY <2>3, CloseClientInv DEF ClientSeesEnd, ClientExceptionCaught
  <2> QED BY <2>1, <2>2, <2>3 DEF ClientNext
<1>3. CASE \E c \in Clients : MainNext(c)
  BY <1>3, MainInv
<1>4. CASE \E c \in Clients : ServerNext(c)
  <2> PICK c \in Clients : ServerNext(c)
    BY <1>4
  <2>1. CASE ServerChannelActive(c)
    BY <2>1, ServerChannelActiveInv
  <2>2. CASE WriteSocket(c)
    BY <2>2, WriteSocketInv
  <2>3. CASE OperationComplete(c)
    BY <2>3, CloseServerInv DEF OperationComplete
  <2>4. CASE ServerExceptionCaught(c)
    BY <2>4, CloseServerInv DEF ServerExceptionCaught
  <2>5. CASE ServerSeesEnd(c)
    BY <2>5, CloseServerInv DEF ServerSeesEnd
  <2> QED BY <2>1, <2>2, <2>3, <2>4, <2>5 DEF ServerNext
<1>5. CASE \E c \in Clients : ServerStops(c)
  BY <1>5, CloseServerInv DEF ServerStops
<1>6. CASE \E c \in Clients : ConnectionBreaks(c)
  BY <1>6, ConnectionBreaksInv
<1>7. CASE UNCHANGED vars
  <2>1. Types' /\ \A d \in Clients : Same(d)
    BY <1>7 DEF IndInv, Types, Same, vars, serverVars
  <2> QED BY <2>1, SameInv DEF IndInv
<1> QED BY <1>1, <1>2, <1>3, <1>4, <1>5, <1>6, <1>7 DEF Next

\* The invariant holds in every state of the time server and its clients.
THEOREM IndInvHolds == Spec => []IndInv
<1>1. Init => IndInv
  BY InitInv
<1>2. IndInv /\ [Next]_vars => IndInv'
  BY NextInv
<1> QED BY <1>1, <1>2, PTL DEF Spec

-----------------------------------------------------------------------------
\* What channelRead of the client prints is the time at which channelActive of the
\* server ran, between the client's start and now, less the wraps of the int; and
\* it is printed once.
THEOREM TimesAreCurrent == Spec => []TimeIsCurrent
<1>1. IndInv => TimeIsCurrent
  <2> SUFFICES ASSUME IndInv, NEW c \in Clients
               PROVE  /\ Len(printed[c]) <= 1
                      /\ printed[c] # <<>> =>
                           \E t \in began[c] .. now : printed[c][1] = ((t + Epoch) % Wrap) - Epoch
    BY DEF TimeIsCurrent
  <2>1. printed[c] = <<>> \/ \E t \in began[c] .. now : printed[c] = <<((t + Epoch) % Wrap) - Epoch>>
    BY DEF IndInv, ClientInv
  <2>2. CASE printed[c] = <<>>
    BY <2>2
  <2>3. ASSUME NEW t \in began[c] .. now, printed[c] = <<((t + Epoch) % Wrap) - Epoch>>
        PROVE  Len(printed[c]) <= 1 /\ printed[c][1] = ((t + Epoch) % Wrap) - Epoch
    <3>1. PICK e : e = ((t + Epoch) % Wrap) - Epoch
      OBVIOUS
    <3>2. printed[c] = <<e>>
      BY <2>3, <3>1
    <3>3. Len(<<e>>) = 1 /\ <<e>>[1] = e
      OBVIOUS
    <3> QED BY <3>1, <3>2, <3>3
  <2> QED BY <2>1, <2>2, <2>3
<1> QED BY <1>1, IndInvHolds, PTL

\* The listener closes the channel when all four bytes have been written, unless
\* the connection is broken or the client has left.
THEOREM ClosesWaitForTheTime == Spec => []CloseAfterTime
<1>1. IndInv => CloseAfterTime
  <2> SUFFICES ASSUME IndInv, NEW c \in Clients,
                      server[c] = "closed", client[c] = "active", ~broken[c]
               PROVE  Len(wire[c]) = 4
    BY DEF CloseAfterTime
  <2>1. PICK t \in began[c] .. now : wire[c] = SubSeq(WriteInt(t + Epoch), 1, 4)
    BY DEF IndInv, ClientInv, OnTheWay
  <2>2. t + Epoch \in Nat
    BY EpochAssumption DEF IndInv, Types
  <2>3. \A i \in 1 .. 4 : WriteInt(t + Epoch)[i] \in Int
    BY <2>2, WriteIntType
  <2> QED BY <2>1, <2>3, SubSeqProperties
<1> QED BY <1>1, IndInvHolds, PTL
=============================================================================
