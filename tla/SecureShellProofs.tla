------------------------- MODULE SecureShellProofs -------------------------
(***************************************************************************)
(* Proofs about SecureShell, for every packet length, number of requests   *)
(* and size of the buffers.                                                *)
(***************************************************************************)
EXTENDS SecureShell, ListsProofs, FiniteSetTheorems, SequenceTheorems

\* The bytes of the first n packets.
Boundary(n) == n * PacketLen

\* A piece of the stream: the bytes that follow the first `from'.
Run(s, from) == \A k \in Positions(s) : s[k] = from + k

\* The packet the buffer of Receive belongs to, counted from 0: the one that
\* would be read next, unless the handler has overtaken a complete one.
Start == IF Buf = <<>> THEN packets ELSE (Buf[1] - 1) \div PacketLen

----------------------------------------------------------------------------
(* Packets and their bytes                                                 *)

\* A packet is its header and its payload; neither is empty.
LEMMA Lengths ==
  /\ HeaderLen \in Nat \ {0} /\ PayloadLen \in Nat \ {0} /\ PacketLen \in Nat \ {0}
  /\ PacketLen = HeaderLen + PayloadLen
  BY LengthsAssumption DEF PacketLen

\* Packets follow one another without gaps.
LEMMA BoundaryFacts ==
  /\ Boundary(0) = 0
  /\ \A n \in Nat : Boundary(n) \in Nat /\ Boundary(n + 1) = Boundary(n) + PacketLen
  /\ \A m, n \in Nat : m <= n <=> Boundary(m) <= Boundary(n)
  <1>1. Boundary(0) = 0
    BY Lengths DEF Boundary
  <1>2. ASSUME NEW n \in Nat
        PROVE  Boundary(n) \in Nat /\ Boundary(n + 1) = Boundary(n) + PacketLen
    BY Lengths DEF Boundary
  <1>3. \A L \in Nat \ {0}, m, n \in Nat : m <= n => m * L <= n * L
    OBVIOUS
  <1>4. \A L \in Nat \ {0}, m, n \in Nat : m + 1 <= n => m * L + L <= n * L
    <2>1. SUFFICES ASSUME NEW L \in Nat \ {0}, NEW m \in Nat, NEW n \in Nat, m + 1 <= n
                   PROVE  m * L + L <= n * L
      OBVIOUS
    <2>2. (m + 1) * L <= n * L
      BY <1>3, <2>1
    <2>3. (m + 1) * L = m * L + L
      OBVIOUS
    <2>4. QED
      BY <2>2, <2>3
  <1>5. ASSUME NEW m \in Nat, NEW n \in Nat
        PROVE  m <= n <=> Boundary(m) <= Boundary(n)
    <2>1. CASE m <= n
      BY <2>1, <1>3, Lengths DEF Boundary
    <2>2. CASE ~(m <= n)
      <3>1. n + 1 <= m
        BY <2>2
      <3>2. n * PacketLen + PacketLen <= m * PacketLen
        BY <3>1, <1>4, Lengths
      <3>3. \A a, b \in Nat : a + PacketLen <= b => ~(b <= a)
        BY Lengths
      <3>4. ~(m * PacketLen <= n * PacketLen)
        BY <3>2, <3>3, <1>2 DEF Boundary
      <3>5. QED
        BY <2>2, <3>4 DEF Boundary
    <2>3. QED
      BY <2>1, <2>2
  <1>6. QED
    BY <1>1, <1>2, <1>5

\* A byte tells its packet, and its place in the packet.
LEMMA PlaceFacts ==
  ASSUME NEW n \in Nat, NEW r \in 0..(PacketLen - 1)
  PROVE  (Boundary(n) + r) % PacketLen = r /\ (Boundary(n) + r) \div PacketLen = n
  <1>1. ASSUME NEW L \in Nat \ {0}, NEW x \in 0..(L - 1)
        PROVE  (n * L + x) \div L = n /\ (n * L + x) % L = x
    OBVIOUS
  <1>2. QED
    BY <1>1, Lengths DEF Boundary

\* The first byte of the buffer, or of the pending ones.
LEMMA FirstByte ==
  ASSUME NEW n \in Nat
  PROVE  /\ ((Boundary(n) + 1) - 1) \div PacketLen = n
         /\ StartsPacket(Boundary(n) + 1)
         /\ Packet(Boundary(n) + 1) = answered[n + 1]
         /\ \A r \in 1..(PacketLen - 1) : ~StartsPacket(Boundary(n) + r + 1)
  <1> DEFINE b == Boundary(n)
  <1>1. b \in Nat
    BY BoundaryFacts
  <1>2. 0 \in 0..(PacketLen - 1) /\ \A r \in 1..(PacketLen - 1) : r \in 0..(PacketLen - 1) /\ r # 0
    BY Lengths
  <1>3. \A r \in 0..(PacketLen - 1) : (b + r) % PacketLen = r /\ (b + r) \div PacketLen = n
    BY PlaceFacts
  <1> HIDE DEF b
  <1>4. (b + 1) - 1 = b + 0 /\ \A r \in 1..(PacketLen - 1) : (b + r + 1) - 1 = b + r
    BY <1>1, Lengths
  <1>5. ((b + 1) - 1) % PacketLen = 0 /\ ((b + 1) - 1) \div PacketLen = n
    BY <1>2, <1>3, <1>4
  <1>6. ASSUME NEW r \in 1..(PacketLen - 1)
        PROVE  ~StartsPacket(b + r + 1)
    <2>1. ((b + r + 1) - 1) % PacketLen = r /\ r # 0
      BY <1>2, <1>3, <1>4
    <2>2. QED
      BY <2>1 DEF StartsPacket
  <1>7. StartsPacket(b + 1) /\ Packet(b + 1) = answered[n + 1]
    BY <1>5 DEF StartsPacket, Packet
  <1>8. QED
    BY <1>5, <1>6, <1>7 DEF b

----------------------------------------------------------------------------
(* Pieces of the stream                                                    *)

\* What cutting a sequence in two gives.
LEMMA Pieces ==
  ASSUME NEW S, NEW s \in Seq(S), NEW n \in 0..Len(s)
  PROVE  /\ Prefix(s, n) \in Seq(S) /\ Len(Prefix(s, n)) = n
         /\ \A k \in 1..n : Prefix(s, n)[k] = s[k]
         /\ Suffix(s, n) \in Seq(S) /\ Len(Suffix(s, n)) = Len(s) - n
         /\ \A k \in 1..(Len(s) - n) : Suffix(s, n)[k] = s[n + k]
  <1>1. Len(s) \in Nat
    OBVIOUS
  <1>2. /\ Prefix(s, n) \in Seq(S) /\ Len(Prefix(s, n)) = n
        /\ \A k \in 1..n : Prefix(s, n)[k] = s[k]
    BY <1>1 DEF Prefix
  <1>3. /\ Suffix(s, n) \in Seq(S) /\ Len(Suffix(s, n)) = Len(s) - n
        /\ \A k \in 1..(Len(s) - n) : Suffix(s, n)[k] = s[n + k]
    BY <1>1 DEF Suffix
  <1>4. QED
    BY <1>2, <1>3

\* Both pieces of a piece of the stream are pieces of the stream.
LEMMA RunPieces ==
  ASSUME NEW s \in Seq(Nat), NEW n \in 0..Len(s), NEW from \in Nat, Run(s, from)
  PROVE  Run(Prefix(s, n), from) /\ Run(Suffix(s, n), from + n)
  <1>1. Len(s) \in Nat
    OBVIOUS
  <1>2. Run(Prefix(s, n), from)
    BY <1>1, Pieces DEF Run, Positions
  <1>3. Run(Suffix(s, n), from + n)
    <2> DEFINE t == Suffix(s, n)
    <2>1. Len(t) = Len(s) - n /\ \A k \in 1..(Len(s) - n) : t[k] = s[n + k]
      BY Pieces
    <2> HIDE DEF t
    <2>2. SUFFICES ASSUME NEW k \in 1..(Len(s) - n) PROVE t[k] = from + n + k
      BY <2>1 DEF Run, Positions, t
    <2>3. n + k \in 1..Len(s)
      BY <1>1
    <2>4. s[n + k] = from + (n + k)
      BY <2>3 DEF Run, Positions
    <2>5. QED
      BY <1>1, <2>1, <2>4
  <1>4. QED
    BY <1>2, <1>3

\* Two adjacent pieces of the stream make one.
LEMMA RunConcat ==
  ASSUME NEW s \in Seq(Nat), NEW t \in Seq(Nat), NEW from \in Nat,
         Run(s, from), Run(t, from + Len(s))
  PROVE  s \o t \in Seq(Nat) /\ Len(s \o t) = Len(s) + Len(t) /\ Run(s \o t, from)
  <1> DEFINE u == s \o t
  <1>1. /\ u \in Seq(Nat) /\ Len(u) = Len(s) + Len(t) /\ Len(s) \in Nat /\ Len(t) \in Nat
        /\ \A k \in 1..(Len(s) + Len(t)) : u[k] = IF k <= Len(s) THEN s[k] ELSE t[k - Len(s)]
    OBVIOUS
  <1> HIDE DEF u
  <1>2. ASSUME NEW k \in Positions(u) PROVE u[k] = from + k
    <2>1. CASE k <= Len(s)
      <3>1. k \in Positions(s) /\ u[k] = s[k]
        BY <1>1, <2>1 DEF Positions
      <3>2. QED
        BY <3>1 DEF Run
    <2>2. CASE ~(k <= Len(s))
      <3>1. k - Len(s) \in Positions(t)
        BY <1>1, <2>2 DEF Positions
      <3>2. t[k - Len(s)] = from + Len(s) + (k - Len(s))
        BY <3>1 DEF Run
      <3>3. QED
        BY <1>1, <2>2, <3>2 DEF Positions
    <2>3. QED
      BY <2>1, <2>2
  <1>3. QED
    BY <1>1, <1>2 DEF Run, u

----------------------------------------------------------------------------
(* Counting                                                                *)

\* A list of different requests is no longer than their number.
LEMMA DistinctLength ==
  ASSUME NEW n \in Nat, NEW s \in Seq(1..n), Distinct(s)
  PROVE  Len(s) <= n
  <1> DEFINE f == [k \in 1..Len(s) |-> s[k]]
             A == 1..Len(s)
             B == 1..n
  <1>1. Len(s) \in Nat /\ \A k \in 1..Len(s) : s[k] \in 1..n
    OBVIOUS
  <1>2. f \in [1..Len(s) -> 1..n]
    BY <1>1
  <1>3. /\ IsFiniteSet(1..n) /\ Cardinality(1..n) = n
        /\ IsFiniteSet(1..Len(s)) /\ Cardinality(1..Len(s)) = Len(s)
    <2>1. \A m \in Nat : IsFiniteSet(1..m) /\ Cardinality(1..m) = m
      <3>1. TAKE m \in Nat
      <3>2. 1 \in Int /\ m \in Int
        OBVIOUS
      <3>3. IsFiniteSet(1..m) /\ Cardinality(1..m) = IF 1 > m THEN 0 ELSE m - 1 + 1
        BY <3>2, FS_Interval
      <3>4. QED
        BY <3>3
    <2>2. QED
      BY <1>1, <2>1
  <1>4. ASSUME Len(s) > n PROVE FALSE
    <2>1. IsFiniteSet(A) /\ IsFiniteSet(B) /\ Cardinality(A) > Cardinality(B) /\ f \in [A -> B]
      BY <1>2, <1>3, <1>4
    <2> HIDE DEF A, B, f
    <2>2. \E j, k \in A : j # k /\ f[j] = f[k]
      BY <2>1, FS_PigeonHole
    <2>3. QED
      BY <2>2 DEF A, f, Distinct, Positions
  <1>5. QED
    BY <1>1, <1>4

\* The requests of a kind, in the first n.
OfKind(s, kind) == {k \in Positions(s) : s[k] = kind}

\* The requests of a kind can be counted.
LEMMA OfKindFinite ==
  ASSUME NEW S, NEW s \in Seq(S), NEW kind
  PROVE  IsFiniteSet(OfKind(s, kind)) /\ Cardinality(OfKind(s, kind)) \in Nat
  <1>1. Len(s) \in Nat
    OBVIOUS
  <1>2. 1 \in Int /\ Len(s) \in Int
    BY <1>1
  <1>3. IsFiniteSet(1..Len(s))
    BY <1>2, FS_Interval
  <1>4. OfKind(s, kind) \subseteq 1..Len(s)
    BY DEF OfKind, Positions
  <1>5. IsFiniteSet(OfKind(s, kind))
    BY <1>3, <1>4, FS_Subset
  <1>6. QED
    BY <1>5, FS_CardinalityType

\* Appending a request counts it with its kind.
LEMMA OfKindAppend ==
  ASSUME NEW S, NEW s \in Seq(S), NEW kind, NEW new \in S
  PROVE  Cardinality(OfKind(Append(s, new), kind)) =
           Cardinality(OfKind(s, kind)) + IF new = kind THEN 1 ELSE 0
  <1> DEFINE t == Append(s, new)
  <1>1. /\ Len(s) \in Nat /\ Len(t) = Len(s) + 1 /\ t[Len(s) + 1] = new
        /\ \A k \in 1..Len(s) : t[k] = s[k]
    OBVIOUS
  <1> HIDE DEF t
  <1>2. OfKind(t, kind) = IF new = kind THEN OfKind(s, kind) \union {Len(s) + 1} ELSE OfKind(s, kind)
    BY <1>1 DEF OfKind, Positions
  <1>3. Len(s) + 1 \notin OfKind(s, kind)
    BY <1>1 DEF OfKind, Positions
  <1>4. Cardinality(OfKind(s, kind) \union {Len(s) + 1}) = Cardinality(OfKind(s, kind)) + 1
    BY <1>3, OfKindFinite, FS_AddElement
  <1>5. Cardinality(OfKind(s, kind)) \in Nat
    BY OfKindFinite
  <1>6. QED
    BY <1>2, <1>4, <1>5 DEF t

\* There are no others than write requests and dummy commands.
LEMMA TwoKinds ==
  ASSUME NEW s \in Seq({"write", "dummy"})
  PROVE  Len(s) = Cardinality(OfKind(s, "write")) + Cardinality(OfKind(s, "dummy"))
  <1> DEFINE W == OfKind(s, "write")
             D == OfKind(s, "dummy")
  <1>1. Len(s) \in Nat /\ \A k \in 1..Len(s) : s[k] = "write" \/ s[k] = "dummy"
    OBVIOUS
  <1>2. W \union D = 1..Len(s) /\ W \intersect D = {}
    BY <1>1 DEF OfKind, Positions
  <1>3. IsFiniteSet(W) /\ IsFiniteSet(D) /\ Cardinality(W) \in Nat /\ Cardinality(D) \in Nat
    BY OfKindFinite
  <1> HIDE DEF W, D
  <1>4. Cardinality(W \union D) = Cardinality(W) + Cardinality(D) - Cardinality(W \intersect D)
    BY <1>3, FS_Union
  <1>5. Cardinality(W \intersect D) = 0
    BY <1>2, FS_EmptySet
  <1>6. Cardinality(1..Len(s)) = Len(s)
    <2>1. 1 \in Int /\ Len(s) \in Int
      BY <1>1
    <2>2. Cardinality(1..Len(s)) = IF 1 > Len(s) THEN 0 ELSE Len(s) - 1 + 1
      BY <2>1, FS_Interval
    <2>3. QED
      BY <1>1, <2>2
  <1>7. Cardinality(W \union D) = Len(s)
    BY <1>2, <1>6
  <1>8. Len(s) = Cardinality(W) + Cardinality(D)
    BY <1>3, <1>4, <1>5, <1>7
  <1>9. QED
    BY <1>8 DEF W, D

----------------------------------------------------------------------------
(* The inductive invariant                                                 *)

\* The types, without their bounds.
ShellTypeOK ==
  /\ pc \in {"sending", "question", "send", "sent", "dispatch", "stalled", "read", "receive",
             "timeout", "answered", "done", "failed"}
  /\ asked \in Seq({"write", "dummy"}) /\ FRequests \in Seq(Positions(asked))
  /\ awaited \in Positions(asked) \union {NULL} /\ stored \subseteq Positions(asked)
  /\ discarded \subseteq Positions(asked) /\ packets \in Nat /\ OutLen \in Nat
  /\ Buf \in Seq(Nat) /\ Pending \in Seq(Nat)
  /\ FOnReceive \in BOOLEAN /\ FFrozen \in BOOLEAN /\ writable \in BOOLEAN
  /\ blocked \in BOOLEAN /\ armed \in BOOLEAN /\ closed \in BOOLEAN
  /\ Events \in NetworkEvents /\ recorded \in NetworkEvents /\ behind \in NetworkEvents
  /\ BufSize \in Nat
  /\ flushed \in Nat /\ answered \in Seq(1..flushed)
  /\ arrived \in Nat /\ delivered \in Nat
  /\ confused \in BOOLEAN /\ forgotten \in BOOLEAN

\* The bounds of the configuration limit what is sent.
CountInv == Cardinality(WriteRequests) <= Writes /\ Dummies <= MaxDummies

\* No request is answered before it was sent, or twice; no byte is read before it
\* has arrived; and the room of the network only grows.
FlowInv ==
  /\ flushed <= Len(asked) /\ flushed <= Len(answered) + Window
  /\ Distinct(answered)
  /\ arrived <= Boundary(Len(answered)) /\ delivered <= arrived

\* The packets read, the buffer of Receive and the pending bytes are the stream.
StreamInv ==
  /\ delivered = Boundary(packets) + Len(Buf) + Len(Pending)
  /\ Run(Pending, Boundary(packets) + Len(Buf))
  /\ Run(Buf, Boundary(Start))
  /\ Start \in 0..packets
  /\ Len(Buf) < PacketLen => Start = packets

\* A call of Receive fills its buffer up to the header or the packet, and leaves
\* nothing pending while it wants more.
Reading == {"receive", "timeout", "answered"}
StageInv ==
  /\ OutLen > 0 => Pending = <<>>
  /\ Len(Buf) + OutLen <= PacketLen
  /\ pc \in Reading => Len(Buf) + OutLen \in {HeaderLen, PacketLen}
  /\ pc \notin Reading \union {"failed"} => Len(Buf) = 0 /\ OutLen = 0

\* Blocking calls are those of a dummy command, and those of the disposal, when
\* the handler is not registered any more.
CallInv ==
  /\ FFrozen => FOnReceive
  /\ pc \in Reading \union {"read"} => awaited # NULL \/ ~FOnReceive
  /\ pc \in {"sending", "question", "done"} => awaited = NULL
  /\ pc \in Reading /\ awaited = NULL => FRequests # <<>>
  /\ awaited # NULL \/ confused => Dummies > 0

\* The handler leaves none of its responses behind, whatever else is waited for.
NoneLeft == \A k \in Positions(Pending) : Complete(k) => ~Contains(FRequests, Packet(Pending[k]))
HandledInv == pc # "failed" /\ FOnReceive /\ ~FFrozen => NoneLeft

IInv == /\ ShellTypeOK /\ CountInv /\ FlowInv /\ StreamInv /\ StageInv /\ CallInv
        /\ HandledInv

----------------------------------------------------------------------------
(* Filling the buffer                                                      *)

\* The first bytes of `source', the next ones of the stream, are appended.
LEMMA Fills ==
  ASSUME Buf \in Seq(Nat), packets \in Nat, StreamInv,
         NEW source \in Seq(Nat), NEW used \in 0..Len(source),
         used > 0 => Run(source, Boundary(packets) + Len(Buf)) /\ Len(Buf) < PacketLen,
         Buf' = Buf \o Prefix(source, used), packets' = packets
  PROVE  /\ Buf' \in Seq(Nat) /\ Len(Buf') = Len(Buf) + used
         /\ Run(Buf', Boundary(Start)) /\ Start' = Start
  <1> DEFINE p == Prefix(source, used)
             start == Start
             from == Boundary(start)
  <1>1. start \in Nat /\ Len(Buf) \in Nat /\ Run(Buf, from) /\ (Len(Buf) < PacketLen => start = packets)
    BY DEF StreamInv
  <1>2. from \in Nat
    BY <1>1, BoundaryFacts
  <1>3. p \in Seq(Nat) /\ Len(p) = used /\ used \in Nat
    BY Pieces
  <1>4. Run(p, from + Len(Buf))
    <2>1. CASE used > 0
      <3>1. from + Len(Buf) \in Nat /\ Run(source, from + Len(Buf))
        BY <1>1, <1>2, <2>1
      <3>2. QED
        BY <3>1, RunPieces
    <2>2. CASE used = 0
      BY <1>3, <2>2 DEF Run, Positions
    <2>3. QED
      BY <1>3, <2>1, <2>2
  <1> HIDE DEF p, from
  <1>5. Buf \o p \in Seq(Nat) /\ Len(Buf \o p) = Len(Buf) + Len(p) /\ Run(Buf \o p, from)
    BY <1>1, <1>2, <1>3, <1>4, RunConcat
  <1>6. Buf' \in Seq(Nat) /\ Len(Buf') = Len(Buf) + used /\ Run(Buf', from)
    BY <1>3, <1>5 DEF p
  <1>7. Start' = start
    <2>1. CASE Buf' = <<>>
      <3>1. Buf = <<>>
        BY <1>1, <1>3, <1>6, <2>1, EmptySeq
      <3>2. QED
        BY <2>1, <3>1 DEF Start
    <2>2. CASE Buf' # <<>>
      <3>1. 1 \in Positions(Buf')
        BY <1>6, <2>2, EmptySeq DEF Positions
      <3>2. Buf'[1] = from + 1
        BY <1>6, <3>1 DEF Run
      <3>3. ((from + 1) - 1) \div PacketLen = start
        BY <1>1, FirstByte DEF from
      <3>4. Start' = (Buf'[1] - 1) \div PacketLen
        BY <2>2 DEF Start
      <3>5. QED
        BY <1>2, <3>2, <3>3, <3>4
    <2>3. QED
      BY <2>1, <2>2
  <1>8. QED
    BY <1>6, <1>7 DEF from

\* Receive takes pending bytes.
LEMMA ReceiveFacts ==
  ASSUME ShellTypeOK, StreamInv, OutLen = 0, NEW n \in Nat \ {0}, Len(Buf) + n <= PacketLen,
         Receive(n), packets' = packets, delivered' = delivered
  PROVE  /\ Buf' \in Seq(Nat) /\ Pending' \in Seq(Nat) /\ OutLen' \in Nat
         /\ StreamInv' /\ Start' = Start
         /\ OutLen' > 0 => Pending' = <<>>
         /\ Len(Buf') + OutLen' = Len(Buf) + n
         /\ Len(Pending') <= Len(Pending)
  <1> DEFINE used == Fewer(n, Len(Pending))
  <1>1. /\ Pending \in Seq(Nat) /\ Len(Pending) \in Nat /\ Buf \in Seq(Nat) /\ Len(Buf) \in Nat
        /\ packets \in Nat /\ delivered \in Nat
    BY DEF ShellTypeOK
  <1>2. used \in 0..Len(Pending) /\ used \in Nat /\ n - used \in Nat /\ (n - used > 0 => used = Len(Pending))
    BY <1>1 DEF Fewer
  <1>3. /\ Buf' = Buf \o Prefix(Pending, used) /\ Pending' = Suffix(Pending, used)
        /\ OutLen' = n - used
    BY DEF Receive
  <1> HIDE DEF used
  <1>4. Run(Pending, Boundary(packets) + Len(Buf)) /\ Len(Buf) < PacketLen
    BY <1>1, Lengths DEF StreamInv
  <1>5. /\ Buf' \in Seq(Nat) /\ Len(Buf') = Len(Buf) + used
        /\ Run(Buf', Boundary(Start)) /\ Start' = Start
    BY <1>1, <1>2, <1>3, <1>4, Fills
  <1>6. Pending' \in Seq(Nat) /\ Len(Pending') = Len(Pending) - used
    BY <1>1, <1>2, <1>3, Pieces
  <1>7. Boundary(packets) \in Nat
    BY <1>1, BoundaryFacts
  <1>8. Run(Pending', Boundary(packets) + Len(Buf'))
    <2>1. Run(Suffix(Pending, used), Boundary(packets) + Len(Buf) + used)
      <3>1. Boundary(packets) + Len(Buf) \in Nat
        BY <1>1, <1>7
      <3>2. QED
        BY <1>1, <1>2, <1>4, <3>1, RunPieces
    <2>2. Boundary(packets) + Len(Buf) + used = Boundary(packets) + Len(Buf')
      BY <1>1, <1>2, <1>5, <1>7
    <2>3. QED
      BY <1>3, <2>1, <2>2
  <1>9. StreamInv'
    <2>1. delivered' = Boundary(packets') + Len(Buf') + Len(Pending')
      BY <1>1, <1>2, <1>5, <1>6, <1>7 DEF StreamInv
    <2>2. Start' \in 0..packets' /\ (Len(Buf') < PacketLen => Start' = packets')
      BY <1>4, <1>5 DEF StreamInv
    <2>3. Run(Buf', Boundary(Start'))
      BY <1>5
    <2>4. Run(Pending', Boundary(packets') + Len(Buf'))
      BY <1>8
    <2>5. QED
      BY <2>1, <2>2, <2>3, <2>4 DEF StreamInv, Boundary, Run, Positions
  <1>10. OutLen' > 0 => Pending' = <<>>
    BY <1>2, <1>3, <1>6, EmptySeq
  <1>11. QED
    BY <1>1, <1>2, <1>3, <1>5, <1>6, <1>9, <1>10

\* What the backend reads goes into the buffer, and is pending then.
LEMMA FromBackendFacts ==
  ASSUME ShellTypeOK, StreamInv, OutLen > 0 => Pending = <<>>, Len(Buf) + OutLen <= PacketLen,
         NEW data \in Seq(Nat), Run(data, delivered), NEW others, FromBackend(data, others),
         packets' = packets
  PROVE  /\ Buf' \in Seq(Nat) /\ Pending' \in Seq(Nat) /\ OutLen' \in Nat
         /\ delivered' = delivered + Len(data)
         /\ StreamInv' /\ Start' = Start
         /\ OutLen' > 0 => Pending' = <<>>
         /\ Len(Buf') + OutLen' = Len(Buf) + OutLen
  <1> DEFINE used == Fewer(OutLen, Len(data))
             rest == Suffix(data, used)
             base == Boundary(packets)
  <1>1. /\ Pending \in Seq(Nat) /\ Len(Pending) \in Nat /\ Buf \in Seq(Nat) /\ Len(Buf) \in Nat
        /\ packets \in Nat /\ delivered \in Nat /\ OutLen \in Nat /\ Len(data) \in Nat
    BY DEF ShellTypeOK
  <1>0. base \in Nat
    BY <1>1, BoundaryFacts
  <1>2. /\ used \in 0..Len(data) /\ used \in Nat /\ OutLen - used \in Nat /\ used <= OutLen
        /\ OutLen - used > 0 => used = Len(data)
    BY <1>1 DEF Fewer
  <1>3. /\ Buf' = Buf \o Prefix(data, used) /\ Pending' = Pending \o rest
        /\ OutLen' = OutLen - used /\ delivered' = delivered + Len(data)
    BY DEF FromBackend, Distribute
  <1>4. rest \in Seq(Nat) /\ Len(rest) = Len(data) - used
    BY <1>2, Pieces
  <1>5. Run(rest, delivered + used)
    BY <1>1, <1>2, RunPieces
  <1> HIDE DEF used, rest, base
  <1>6. delivered = base + Len(Buf) + Len(Pending) /\ Run(Pending, base + Len(Buf))
    BY DEF StreamInv, base
  <1>7. used > 0 => Len(Pending) = 0 /\ delivered = base + Len(Buf) /\ Len(Buf) < PacketLen
    <2>1. used > 0 => OutLen > 0
      BY <1>1, <1>2
    <2>2. OutLen > 0 => Len(Pending) = 0
      BY <1>1, EmptySeq
    <2>3. OutLen > 0 => Len(Buf) < PacketLen
      BY <1>1, Lengths
    <2>4. QED
      BY <1>0, <1>1, <1>6, <2>1, <2>2, <2>3
  <1>8. /\ Buf' \in Seq(Nat) /\ Len(Buf') = Len(Buf) + used
        /\ Run(Buf', Boundary(Start)) /\ Start' = Start
    <2>1. used > 0 => Run(data, Boundary(packets) + Len(Buf)) /\ Len(Buf) < PacketLen
      BY <1>7 DEF base
    <2>2. QED
      BY <1>1, <1>2, <1>3, <2>1, Fills
  <1>9. /\ Pending' \in Seq(Nat) /\ Len(Pending') = Len(Pending) + Len(rest)
        /\ Run(Pending', base + Len(Buf'))
    <2>1. base + Len(Buf') \in Nat /\ base + Len(Buf') = base + Len(Buf) + used
      BY <1>0, <1>1, <1>2, <1>8
    <2>2. Run(Pending, base + Len(Buf'))
      <3>1. CASE used > 0
        BY <1>7, <3>1 DEF Run, Positions
      <3>2. CASE used = 0
        BY <1>0, <1>1, <1>6, <1>8, <3>2
      <3>3. QED
        BY <1>2, <3>1, <3>2
    <2>3. base + Len(Buf') + Len(Pending) = delivered + used
      BY <1>0, <1>1, <1>2, <1>6, <1>8
    <2>4. Run(rest, base + Len(Buf') + Len(Pending))
      BY <1>5, <2>3
    <2>5. QED
      BY <1>1, <1>3, <1>4, <2>1, <2>2, <2>4, RunConcat
  <1>10. StreamInv'
    <2>1. delivered' = base + Len(Buf') + Len(Pending')
      BY <1>0, <1>1, <1>2, <1>3, <1>4, <1>6, <1>8, <1>9
    <2>2. Start' \in 0..packets' /\ (Len(Buf') < PacketLen => Start' = packets')
      <3>1. Len(Buf') < PacketLen => Len(Buf) < PacketLen
        BY <1>1, <1>2, <1>8, Lengths
      <3>2. QED
        BY <1>8, <3>1 DEF StreamInv
    <2>3. Run(Buf', Boundary(Start'))
      BY <1>8
    <2>4. base' = base
      BY DEF base, Boundary
    <2>5. QED
      BY <1>9, <2>1, <2>2, <2>3, <2>4 DEF StreamInv, base, Boundary, Run, Positions
  <1>11. OutLen' > 0 => Pending' = <<>>
    <2>1. OutLen' > 0 => OutLen > 0 /\ used = Len(data)
      BY <1>1, <1>2, <1>3
    <2>2. OutLen > 0 => Len(Pending) = 0
      BY <1>1, EmptySeq
    <2>3. OutLen' > 0 => Len(Pending') = 0
      BY <1>1, <1>2, <1>4, <1>9, <2>1, <2>2
    <2>4. QED
      BY <1>9, <2>3, EmptySeq
  <1>12. QED
    BY <1>1, <1>2, <1>3, <1>8, <1>9, <1>10, <1>11

----------------------------------------------------------------------------
(* Handling network events                                                 *)

Selects == SendSelects \/ Dispatches \/ Waits \/ Idle \/ HandleCaptured

\* What all functions that handle network events do: they may read, which runs
\* the handler, and they may send.
Handled ==
  /\ Buf' \in Seq(Nat) /\ Pending' \in Seq(Nat) /\ OutLen' \in Nat
  /\ delivered' \in Nat /\ delivered' <= arrived
  /\ StreamInv' /\ Start' = Start
  /\ OutLen' > 0 => Pending' = <<>>
  /\ Len(Buf') + OutLen' = Len(Buf) + OutLen
  /\ FFrozen' \in BOOLEAN /\ (FFrozen' => FOnReceive)
  /\ FFrozen' \/ ~FOnReceive \/ (FFrozen' = FFrozen /\ Pending' = Pending)
  /\ armed' \in BOOLEAN /\ recorded' \in NetworkEvents /\ behind' \in NetworkEvents

\* What TrySend does to the output buffer.
SentMore(total) ==
  /\ flushed' \in Nat /\ flushed <= flushed' /\ flushed' <= total
  /\ flushed' <= Len(answered) + Window
  /\ writable' \in BOOLEAN /\ blocked' \in BOOLEAN

\* TrySend never takes back what was sent, nor sends what was not asked.
LEMMA TrySendFacts ==
  ASSUME ShellTypeOK, FlowInv, NEW total \in Nat, Len(asked) <= total, TrySend(total)
  PROVE  SentMore(total)
  <1>1. /\ flushed \in Nat /\ Len(asked) \in Nat /\ Len(answered) \in Nat /\ Window \in Nat
        /\ flushed <= Len(asked) /\ flushed <= Len(answered) + Window
    BY LimitsAssumption DEF ShellTypeOK, FlowInv
  <1>2. flushed' = Fewer(total, Len(answered) + Window)
    BY DEF TrySend
  <1>3. flushed' \in Nat /\ flushed <= flushed' /\ flushed' <= total /\ flushed' <= Len(answered) + Window
    BY <1>1, <1>2 DEF Fewer
  <1>4. writable' \in BOOLEAN /\ blocked' \in BOOLEAN
    BY DEF TrySend
  <1>5. QED
    BY <1>3, <1>4 DEF SentMore

\* The events behind a read may send, and end the connection.
LEMMA HandleOthersFacts ==
  ASSUME ShellTypeOK, FlowInv, NEW events, NEW next, HandleOthers(events, next)
  PROVE  SentMore(Len(asked)) /\ pc' \in {next, "failed"}
  <1>1. Len(asked) \in Nat
    BY DEF ShellTypeOK
  <1>2. CASE "write" \in events
    <2>1. TrySend(Len(asked))
      BY <1>2 DEF HandleOthers
    <2>2. SentMore(Len(asked))
      BY <1>1, <2>1, TrySendFacts
    <2>3. QED
      BY <2>2 DEF HandleOthers
  <1>3. CASE "write" \notin events
    BY <1>1, <1>3 DEF HandleOthers, SentMore, outputVars, ShellTypeOK, FlowInv
  <1>4. QED
    BY <1>2, <1>3

\* HandleNetworkEvents does no more than that, whatever events it handles.
LEMMA HandleNetworkEventsFacts ==
  ASSUME IInv, NEW events \in NetworkEvents, NEW others \in NetworkEvents, NEW next,
         HandleNetworkEvents(events, others, next),
         packets' = packets, FOnReceive' = FOnReceive
  PROVE  Handled /\ SentMore(Len(asked)) /\ pc' \in {next, "failed"}
  <1> USE DEF IInv
  <1>1. /\ Pending \in Seq(Nat) /\ Buf \in Seq(Nat) /\ Len(Buf) \in Nat /\ delivered \in Nat
        /\ arrived \in Nat /\ OutLen \in Nat /\ FOnReceive \in BOOLEAN /\ FFrozen \in BOOLEAN
        /\ armed \in BOOLEAN /\ delivered <= arrived /\ Len(asked) \in Nat
        /\ behind \in NetworkEvents
    BY DEF ShellTypeOK, FlowInv
  <1>2. (OutLen > 0 => Pending = <<>>) /\ Len(Buf) + OutLen <= PacketLen
    BY DEF StageInv
  <1>3. ASSUME UNCHANGED receiveVars PROVE /\ StreamInv' /\ Start' = Start
    BY <1>3 DEF StreamInv, receiveVars, Run, Positions, Boundary, Start
  <1>4. Handled
    <2>1. CASE "read" \notin events
      <3>1. UNCHANGED receiveVars /\ armed' = armed /\ recorded' = others
        BY <2>1 DEF HandleNetworkEvents
      <3>2. QED
        BY <1>1, <1>2, <1>3, <3>1 DEF Handled, receiveVars, CallInv
    <2>2. CASE "read" \in events
      <3>1. HandleRead(events \ {"read"}, others)
        BY <2>2 DEF HandleNetworkEvents
      <3>2. armed' \in BOOLEAN /\ recorded' \in NetworkEvents
        BY <3>1 DEF HandleRead, NetworkEvents
      <3>3. CASE ~(arrived > delivered)
        <4>1. UNCHANGED receiveVars
          BY <3>1, <3>3 DEF HandleRead
        <4>2. QED
          BY <1>1, <1>2, <1>3, <3>2, <4>1 DEF Handled, receiveVars, CallInv
      <3>4. CASE arrived > delivered
        <4>1. PICK n \in 1..(arrived - delivered) :
                 FromBackend([k \in 1..n |-> delivered + k], events \ {"read"})
          BY <3>1, <3>4 DEF HandleRead
        <4> DEFINE data == [k \in 1..n |-> delivered + k]
        <4>2. n \in Nat /\ \A k \in 1..n : delivered + k \in Nat
          BY <1>1
        <4>3. data \in [1..n -> Nat]
          BY <4>2
        <4>4. data \in Seq(Nat) /\ Len(data) = n /\ \A k \in 1..n : data[k] = delivered + k
          BY <4>2, <4>3
        <4>5. Run(data, delivered) /\ FromBackend(data, events \ {"read"})
          BY <4>1, <4>4 DEF Run, Positions
        <4> HIDE DEF data
        <4>6. /\ Buf' \in Seq(Nat) /\ Pending' \in Seq(Nat) /\ OutLen' \in Nat
              /\ delivered' = delivered + Len(data)
              /\ StreamInv' /\ Start' = Start
              /\ OutLen' > 0 => Pending' = <<>>
              /\ Len(Buf') + OutLen' = Len(Buf) + OutLen
          BY <1>2, <4>4, <4>5, FromBackendFacts
        <4>7. delivered' \in Nat /\ delivered' <= arrived
          BY <1>1, <4>1, <4>4, <4>6
        <4>8. FFrozen' = FOnReceive /\ behind' \in NetworkEvents
          BY <4>5 DEF FromBackend, NetworkEvents
        <4>9. QED
          BY <1>1, <3>2, <4>6, <4>7, <4>8 DEF Handled
      <3>5. QED
        BY <3>3, <3>4
    <2>3. QED
      BY <2>1, <2>2
  <1>5. SentMore(Len(asked)) /\ pc' \in {next, "failed"}
    <2>1. CASE FFrozen'
      BY <1>1, <2>1 DEF HandleNetworkEvents, SentMore, outputVars, ShellTypeOK, FlowInv
    <2>2. CASE ~FFrozen'
      <3>1. HandleOthers(events, next)
        BY <2>2 DEF HandleNetworkEvents
      <3>2. QED
        BY <3>1, HandleOthersFacts
    <2>3. QED
      BY <2>1, <2>2
  <1>6. QED
    BY <1>4, <1>5

\* Nothing else changes, and the function goes on.
LEMMA SelectsFacts ==
  ASSUME IInv, Selects
  PROVE  /\ Handled /\ SentMore(Len(asked))
         /\ \/ pc' = "failed"
            \/ pc = "send" /\ pc' = "sent"
            \/ pc \in {"dispatch", "receive", "question", "stalled"} /\ pc' = pc
            \/ pc = "answered" /\ pc' = "receive"
         /\ Events' \in NetworkEvents
         /\ UNCHANGED <<uploadVars, FOnReceive, BufSize, serverVars, historyVars>>
  <1>1. /\ recorded \in NetworkEvents /\ Events \in NetworkEvents
        /\ {} \in NetworkEvents
    BY DEF IInv, ShellTypeOK, NetworkEvents
  <1>2. ASSUME NEW next, EventSelectLoop(next)
        PROVE  /\ Handled /\ SentMore(Len(asked)) /\ pc' \in {next, "failed"}
               /\ Events' \in NetworkEvents
               /\ UNCHANGED <<uploadVars, FOnReceive, BufSize, serverVars, historyVars>>
    <2>1. /\ HandleNetworkEvents(recorded, {}, next)
          /\ UNCHANGED <<uploadVars, FOnReceive, BufSize, Events, serverVars, historyVars>>
      BY <1>2 DEF EventSelectLoop
    <2>2. packets' = packets /\ FOnReceive' = FOnReceive
      BY <2>1 DEF uploadVars
    <2>3. QED
      BY <1>1, <2>1, <2>2, HandleNetworkEventsFacts
  <1>3. CASE SendSelects
    BY <1>2, <1>3 DEF SendSelects
  <1>4. CASE Dispatches
    BY <1>2, <1>4 DEF Dispatches
  <1>5. CASE Waits
    BY <1>2, <1>5 DEF Waits
  <1>6. CASE Idle
    BY <1>2, <1>6 DEF Idle, IdleSelects
  <1>7. CASE HandleCaptured
    <2>1. /\ pc = "answered" /\ HandleNetworkEvents(Events, recorded, "receive") /\ Events' = {}
          /\ UNCHANGED <<uploadVars, FOnReceive, BufSize, serverVars, historyVars>>
      BY <1>7 DEF HandleCaptured
    <2>2. packets' = packets /\ FOnReceive' = FOnReceive
      BY <2>1 DEF uploadVars
    <2>3. QED
      BY <1>1, <2>1, <2>2, HandleNetworkEventsFacts
  <1>8. QED
    BY <1>3, <1>4, <1>5, <1>6, <1>7 DEF Selects

----------------------------------------------------------------------------
(* Reading a packet                                                        *)

\* A packet all of whose bytes have been read is one of the answers.
LEMMA PacketAnswered ==
  ASSUME ShellTypeOK, FlowInv, NEW j \in Nat, Boundary(j) + PacketLen <= delivered
  PROVE  j < Len(answered) /\ answered[j + 1] \in Positions(asked)
  <1>1. /\ Len(answered) \in Nat /\ Len(asked) \in Nat /\ flushed \in Nat /\ flushed <= Len(asked)
        /\ answered \in Seq(1..flushed) /\ delivered \in Nat /\ arrived \in Nat
        /\ delivered <= arrived /\ arrived <= Boundary(Len(answered))
    BY DEF ShellTypeOK, FlowInv
  <1>2. Boundary(j + 1) = Boundary(j) + PacketLen /\ Boundary(j + 1) \in Nat
        /\ Boundary(Len(answered)) \in Nat /\ j + 1 \in Nat
    <2>1. j + 1 \in Nat
      OBVIOUS
    <2>2. QED
      BY <1>1, <2>1, BoundaryFacts
  <1>3. Boundary(j + 1) <= Boundary(Len(answered))
    BY <1>1, <1>2
  <1>4. j + 1 <= Len(answered)
    BY <1>1, <1>2, <1>3, BoundaryFacts
  <1>5. answered[j + 1] \in 1..flushed
    BY <1>1, <1>2, <1>4
  <1>6. QED
    BY <1>1, <1>4, <1>5 DEF Positions

\* So is a packet that is complete in the pending bytes.
LEMMA CompleteAnswered ==
  ASSUME ShellTypeOK, FlowInv, StreamInv, NEW k \in Positions(Pending), Complete(k)
  PROVE  \E j \in Nat : /\ Pending[k] = Boundary(j) + 1 /\ j < Len(answered)
                        /\ Packet(Pending[k]) = answered[j + 1]
                        /\ answered[j + 1] \in Positions(asked)
  <1> DEFINE start == Boundary(packets) + Len(Buf)
             byte == start + k
             j == (byte - 1) \div PacketLen
  <1>1. /\ packets \in Nat /\ Len(Buf) \in Nat /\ Len(Pending) \in Nat /\ delivered \in Nat
        /\ delivered = Boundary(packets) + Len(Buf) + Len(Pending)
        /\ Run(Pending, Boundary(packets) + Len(Buf))
    BY DEF ShellTypeOK, StreamInv
  <1>2. Boundary(packets) \in Nat /\ k \in Nat \ {0} /\ k <= Len(Pending)
    BY <1>1, BoundaryFacts DEF Positions
  <1>3. start \in Nat /\ Pending[k] = start + k
    BY <1>1, <1>2 DEF Run
  <1>4. StartsPacket(start + k) /\ Len(Pending) - k + 1 >= PacketLen
    BY <1>3 DEF Complete
  <1>5. delivered = start + Len(Pending)
    BY <1>1, <1>2
  <1> HIDE DEF start
  <1>6. byte - 1 \in Nat /\ byte - 1 + PacketLen <= delivered
    BY <1>1, <1>2, <1>3, <1>4, <1>5, Lengths
  <1>7. (byte - 1) % PacketLen = 0
    BY <1>4 DEF StartsPacket
  <1> HIDE DEF byte
  <1>8. \A x \in Nat, L \in Nat \ {0} : x % L = 0 => x \div L \in Nat /\ x = (x \div L) * L
    OBVIOUS
  <1>9. j \in Nat /\ byte - 1 = Boundary(j)
    BY <1>6, <1>7, <1>8, Lengths DEF Boundary
  <1> HIDE DEF j
  <1>10. Boundary(j) \in Nat
    BY <1>9, BoundaryFacts
  <1>11. j < Len(answered) /\ answered[j + 1] \in Positions(asked)
    BY <1>6, <1>9, PacketAnswered
  <1>12. Pending[k] = Boundary(j) + 1
    BY <1>1, <1>2, <1>3, <1>9, <1>10 DEF byte
  <1>13. Packet(Pending[k]) = answered[j + 1]
    BY <1>9, <1>12, FirstByte
  <1>14. QED
    BY <1>9, <1>11, <1>12, <1>13

\* PacketReceived reads the packet in the buffer.
LEMMA PacketReceivedFacts ==
  ASSUME IInv, PacketReceived
  PROVE  /\ StreamInv' /\ packets' \in Nat /\ Len(Buf') = 0 /\ Buf' \in Seq(Nat)
         /\ Packet(Buf[1]) \in Positions(asked)
  <1> DEFINE start == Start
  <1>1. /\ packets \in Nat /\ Buf \in Seq(Nat) /\ Len(Buf) \in Nat /\ Pending \in Seq(Nat)
        /\ Len(Pending) \in Nat /\ delivered \in Nat /\ start \in Nat /\ start <= packets
        /\ delivered = Boundary(packets) + Len(Buf) + Len(Pending)
        /\ Run(Pending, Boundary(packets) + Len(Buf)) /\ Run(Buf, Boundary(start))
    BY DEF IInv, ShellTypeOK, StreamInv
  <1>2. /\ Len(Buf) = PacketLen /\ Buf' = <<>> /\ packets' = packets + 1
        /\ Pending' = Pending /\ delivered' = delivered
    BY DEF PacketReceived, receiveVars
  <1>3. /\ Boundary(packets) \in Nat /\ Boundary(start) \in Nat
        /\ Boundary(packets + 1) = Boundary(packets) + PacketLen
        /\ Boundary(start) <= Boundary(packets)
    BY <1>1, BoundaryFacts
  <1>4. Start' = packets + 1
    BY <1>2 DEF Start
  <1>6. Packet(Buf[1]) = answered[start + 1]
    <2>1. Buf[1] = Boundary(start) + 1
      BY <1>1, <1>2, Lengths DEF Run, Positions
    <2>2. QED
      BY <1>1, <2>1, FirstByte
  <1>7. start < Len(answered) /\ answered[start + 1] \in Positions(asked)
    <2>1. Boundary(start) + PacketLen <= delivered
      BY <1>1, <1>2, <1>3, Lengths
    <2>2. QED
      BY <1>1, <2>1, PacketAnswered DEF IInv
  <1>8. StreamInv'
    <2>1. Len(Buf') = 0 /\ Boundary(packets') + 0 = Boundary(packets) + Len(Buf)
      BY <1>2, <1>3, Lengths
    <2>2. delivered' = Boundary(packets') + Len(Buf') + Len(Pending')
      BY <1>1, <1>2, <1>3, <2>1, Lengths
    <2>3. Run(Pending', Boundary(packets') + Len(Buf'))
      BY <1>1, <1>2, <2>1
    <2>4. Run(Buf', Boundary(Start'))
      BY <2>1 DEF Run, Positions
    <2>5. Start' \in 0..packets' /\ Start' = packets'
      BY <1>1, <1>2, <1>4
    <2>6. QED
      BY <2>2, <2>3, <2>4, <2>5 DEF StreamInv, Boundary, Run, Positions
  <1>9. Buf' \in Seq(Nat) /\ Len(Buf') = 0
    BY <1>2
  <1> HIDE DEF start
  <1>10. QED
    BY <1>1, <1>2, <1>6, <1>7, <1>8, <1>9

\* So does the handler: the packet that begins with the pending bytes.
HandlerReads == HandlerStores \/ (HandlerReceives /\ Oldest \notin stored)

\* The handler reads the packet behind the one in the buffer, or the next one.
LEMMA HandlerReadsFacts ==
  ASSUME IInv, HandlerReads
  PROVE  /\ StreamInv' /\ packets' \in Nat /\ Pending' \in Seq(Nat) /\ Pending # <<>>
         /\ Packet(Pending[1]) \in Positions(asked)
  <1> DEFINE start == Start
             j == IF Len(Buf) = 0 THEN packets ELSE packets + 1
  <1>1. /\ packets \in Nat /\ Buf \in Seq(Nat) /\ Len(Buf) \in Nat /\ Pending \in Seq(Nat)
        /\ Len(Pending) \in Nat /\ delivered \in Nat /\ start \in Nat /\ start <= packets
        /\ delivered = Boundary(packets) + Len(Buf) + Len(Pending)
        /\ Run(Pending, Boundary(packets) + Len(Buf)) /\ Run(Buf, Boundary(start))
        /\ Len(Buf) <= PacketLen
        /\ Len(Buf) < PacketLen => start = packets
    <2>1. Len(Buf) <= PacketLen
      <3>1. Len(Buf) \in Nat /\ OutLen \in Nat /\ Len(Buf) + OutLen <= PacketLen
        BY DEF IInv, ShellTypeOK, StageInv
      <3>2. QED
        BY <3>1, Lengths
    <2>2. QED
      BY <2>1 DEF IInv, ShellTypeOK, StreamInv
  <1>2. /\ Peeked /\ packets' = packets + 1 /\ Pending' = Suffix(Pending, PacketLen)
        /\ Buf' = Buf /\ delivered' = delivered
    BY DEF HandlerReads, HandlerStores, HandlerReceives, HandlerRuns, TakePacket
  <1>3. Len(Pending) >= PacketLen /\ StartsPacket(Pending[1])
    BY <1>2 DEF Peeked
  <1>4. /\ Boundary(packets) \in Nat /\ packets + 1 \in Nat
        /\ Boundary(packets + 1) = Boundary(packets) + PacketLen
        /\ Boundary(packets + 1) \in Nat
    <2>1. packets + 1 \in Nat
      BY <1>1
    <2>2. QED
      BY <1>1, <2>1, BoundaryFacts
  <1>5. Pending[1] = Boundary(packets) + Len(Buf) + 1
    BY <1>1, <1>3, Lengths DEF Run, Positions
  <1>6. Len(Buf) = 0 \/ Len(Buf) = PacketLen
    <2>1. ASSUME Len(Buf) \in 1..(PacketLen - 1) PROVE FALSE
      BY <1>1, <1>3, <1>5, <2>1, FirstByte
    <2>2. QED
      BY <1>1, <2>1, Lengths
  <1>7. j \in Nat /\ Boundary(j) = Boundary(packets) + Len(Buf) /\ Boundary(j) \in Nat
    <2>1. CASE Len(Buf) = 0
      <3>1. j = packets /\ Boundary(packets) + Len(Buf) = Boundary(packets)
        BY <1>4, <2>1
      <3>2. QED
        BY <1>1, <1>4, <3>1
    <2>2. CASE Len(Buf) # 0
      <3>1. j = packets + 1 /\ Len(Buf) = PacketLen
        BY <1>6, <2>2
      <3>2. QED
        BY <1>4, <3>1
    <2>3. QED
      BY <2>1, <2>2
  <1>8. Start' = IF Len(Buf) = 0 THEN packets + 1 ELSE start
    <2>1. CASE Len(Buf) = 0
      BY <1>1, <1>2, <2>1, EmptySeq DEF Start
    <2>2. CASE Len(Buf) # 0
      BY <1>1, <1>2, <2>2, EmptySeq DEF Start
    <2>3. QED
      BY <2>1, <2>2
  <1> HIDE DEF j
  <1>10. Packet(Pending[1]) = answered[j + 1]
    BY <1>5, <1>7, FirstByte
  <1>11. j < Len(answered) /\ answered[j + 1] \in Positions(asked)
    <2>1. Boundary(j) + PacketLen <= delivered
      BY <1>1, <1>3, <1>7, Lengths
    <2>2. QED
      BY <1>7, <2>1, PacketAnswered DEF IInv
  <1>12. /\ Pending' \in Seq(Nat) /\ Len(Pending') = Len(Pending) - PacketLen
         /\ Run(Pending', Boundary(packets) + Len(Buf) + PacketLen)
    <2>1. PacketLen \in 0..Len(Pending)
      BY <1>1, <1>3, Lengths
    <2>2. Boundary(packets) + Len(Buf) \in Nat
      BY <1>1, <1>4
    <2>3. QED
      BY <1>1, <1>2, <2>1, <2>2, Pieces, RunPieces
  <1>13. StreamInv'
    <2>1. Boundary(packets') + Len(Buf') = Boundary(packets) + Len(Buf) + PacketLen
      BY <1>1, <1>2, <1>4, Lengths
    <2>2. delivered' = Boundary(packets') + Len(Buf') + Len(Pending')
      BY <1>1, <1>2, <1>3, <1>4, <1>12, Lengths
    <2>3. Run(Pending', Boundary(packets') + Len(Buf'))
      BY <1>12, <2>1
    <2>4. Run(Buf', Boundary(Start'))
      <3>1. CASE Len(Buf) = 0
        BY <1>2, <3>1 DEF Run, Positions
      <3>2. CASE Len(Buf) # 0
        BY <1>1, <1>2, <1>8, <3>2
      <3>3. QED
        BY <3>1, <3>2
    <2>5. Start' \in 0..packets' /\ (Len(Buf') < PacketLen => Start' = packets')
      BY <1>1, <1>2, <1>6, <1>8, Lengths
    <2>6. QED
      BY <2>2, <2>3, <2>4, <2>5 DEF StreamInv, Boundary, Run, Positions
  <1>15. Pending # <<>> /\ packets' \in Nat
    BY <1>1, <1>2, <1>3, Lengths
  <1>16. QED
    BY <1>10, <1>11, <1>12, <1>13, <1>15

----------------------------------------------------------------------------
(* Sending                                                                 *)

\* A sequence over a set is one over any larger set.
LEMMA SeqOfMore ==
  ASSUME NEW S, NEW T, S \subseteq T, NEW s \in Seq(S)
  PROVE  s \in Seq(T)
  <1>1. Len(s) \in Nat /\ s \in [1..Len(s) -> S]
    OBVIOUS
  <1>2. s \in [1..Len(s) -> T]
    BY <1>1
  <1>3. QED
    BY <1>1, <1>2

\* SendPacket appends one request, and may send some.
LEMMA SendPacketFacts ==
  ASSUME ShellTypeOK, FlowInv, NEW kind \in {"write", "dummy"}, SendPacket(kind)
  PROVE  /\ asked' = Append(asked, kind) /\ asked' \in Seq({"write", "dummy"})
         /\ Len(asked) \in Nat /\ Len(asked') = Len(asked) + 1
         /\ Positions(asked') = Positions(asked) \union {Len(asked) + 1}
         /\ FRequests \in Seq(Positions(asked'))
         /\ SentMore(Len(asked) + 1)
         /\ BufSize' \in Nat /\ pc' = "send"
  <1>1. /\ asked \in Seq({"write", "dummy"}) /\ Len(asked) \in Nat /\ flushed \in Nat
        /\ Len(answered) \in Nat /\ writable \in BOOLEAN /\ blocked \in BOOLEAN
        /\ flushed <= Len(asked) /\ flushed <= Len(answered) + Window
        /\ FRequests \in Seq(Positions(asked))
    BY DEF ShellTypeOK, FlowInv
  <1>2. asked' = Append(asked, kind) /\ pc' = "send" /\ BufSize' = Len(asked) + 1 - flushed'
    BY DEF SendPacket
  <1>3. asked' \in Seq({"write", "dummy"}) /\ Len(asked') = Len(asked) + 1
    BY <1>1, <1>2, AppendFacts
  <1>4. Positions(asked') = Positions(asked) \union {Len(asked) + 1}
    BY <1>1, <1>3 DEF Positions
  <1>5. FRequests \in Seq(Positions(asked'))
    BY <1>1, <1>4, SeqOfMore
  <1>6. SentMore(Len(asked) + 1)
    <2>1. CASE writable
      <3>1. TrySend(Len(asked) + 1)
        BY <2>1 DEF SendPacket
      <3>2. Len(asked) + 1 \in Nat /\ Len(asked) <= Len(asked) + 1
        BY <1>1
      <3>3. QED
        BY <3>1, <3>2, TrySendFacts
    <2>2. CASE ~writable
      <3>1. flushed' = flushed /\ writable' = writable /\ blocked' = blocked
        BY <2>2 DEF SendPacket, outputVars
      <3>2. QED
        BY <1>1, <3>1 DEF SentMore
    <2>3. QED
      BY <2>1, <2>2
  <1>7. BufSize' \in Nat
    <2>1. flushed' \in Nat /\ flushed' <= Len(asked) + 1
      BY <1>6 DEF SentMore
    <2>2. QED
      BY <1>1, <1>2, <2>1
  <1>8. QED
    BY <1>1, <1>2, <1>3, <1>4, <1>5, <1>6, <1>7

\* The actions of the thread that neither read packets nor handle events.
Steps == \/ HandlerMisreads \/ Sent \/ Dispatched \/ PoolForData \/ Disposed
         \/ Ask \/ Retry \/ Dispose \/ TimesOut \/ Prolong

\* The actions, sorted by what they do to the stream.
LEMMA NextCases ==
  ASSUME Next
  PROVE  \/ HandlerReceives \/ HandlerStores \/ HandlerEnds \/ SendWrite \/ SendDummy
         \/ ReceiveHeader \/ ReceivePayload
         \/ PacketReceived \/ StoredBefore \/ Selects \/ Steps \/ Answer \/ Arrive \/ Close
  BY DEF Next, Program, User, Handler, Selects, Steps

----------------------------------------------------------------------------
(* Types                                                                   *)

\* Those that neither read nor send keep the types.
LEMMA StepsTyped ==
  ASSUME ShellTypeOK, Steps
  PROVE  ShellTypeOK'
  <1> USE DEF ShellTypeOK, uploadVars, receiveVars, outputVars, socketVars, serverVars,
         historyVars
  <1>1. CASE HandlerMisreads
    BY <1>1 DEF HandlerMisreads
  <1>2. CASE Sent \/ Dispatched
    BY <1>2 DEF Sent, Dispatched, Return
  <1>3. CASE PoolForData
    BY <1>3 DEF PoolForData, NetworkEvents
  <1>4. CASE Disposed \/ Ask \/ Retry \/ TimesOut
    BY <1>4 DEF Disposed, Ask, Retry, TimesOut
  <1>5. CASE Dispose
    BY <1>5 DEF Dispose, Unregistered
  <1>6. CASE Prolong
    BY <1>6 DEF Prolong, NetworkEvents
  <1>7. QED
    BY <1>1, <1>2, <1>3, <1>4, <1>5, <1>6 DEF Steps

\* So does sending a request.
LEMMA SendsTyped ==
  ASSUME IInv, SendWrite \/ SendDummy
  PROVE  ShellTypeOK'
  <1> USE DEF IInv
  <1>1. answered \in Seq(1..flushed) /\ flushed \in Nat
    BY DEF ShellTypeOK
  <1>2. ASSUME NEW total, SentMore(total)
        PROVE  flushed' \in Nat /\ answered \in Seq(1..flushed') /\ writable' \in BOOLEAN /\ blocked' \in BOOLEAN
    <2>1. flushed' \in Nat /\ flushed <= flushed'
      BY <1>2 DEF SentMore
    <2>2. 1..flushed \subseteq 1..flushed'
      BY <1>1, <2>1
    <2>3. answered \in Seq(1..flushed')
      BY <1>1, <2>2, SeqOfMore
    <2>4. QED
      BY <1>2, <2>1, <2>3 DEF SentMore
  <1>3. CASE SendWrite
    <2>1. SendPacket("write") /\ FRequests' = Append(FRequests, Len(asked) + 1)
      BY <1>3 DEF SendWrite
    <2>2. /\ asked' \in Seq({"write", "dummy"}) /\ Positions(asked') = Positions(asked) \union {Len(asked) + 1}
          /\ FRequests \in Seq(Positions(asked')) /\ SentMore(Len(asked) + 1)
          /\ BufSize' \in Nat /\ pc' = "send"
      BY <2>1, SendPacketFacts
    <2>3. FRequests' \in Seq(Positions(asked'))
      BY <2>1, <2>2, AppendFacts
    <2>4. flushed' \in Nat /\ answered \in Seq(1..flushed') /\ writable' \in BOOLEAN /\ blocked' \in BOOLEAN
      BY <1>2, <2>2
    <2>5. UNCHANGED <<awaited, stored, discarded, packets, receiveVars, FOnReceive, Events,
                      socketVars, serverVars, historyVars>>
      BY <1>3 DEF SendWrite
    <2>6. /\ awaited' \in Positions(asked') \union {NULL} /\ stored' \subseteq Positions(asked')
          /\ discarded' \subseteq Positions(asked')
      BY <2>2, <2>5 DEF ShellTypeOK
    <2>7. QED
      BY <2>2, <2>3, <2>4, <2>5, <2>6 DEF ShellTypeOK, receiveVars, socketVars, serverVars,
         historyVars
  <1>4. CASE SendDummy
    <2>1. SendPacket("dummy") /\ awaited' = Len(asked) + 1
      BY <1>4 DEF SendDummy
    <2>2. /\ asked' \in Seq({"write", "dummy"}) /\ Positions(asked') = Positions(asked) \union {Len(asked) + 1}
          /\ FRequests \in Seq(Positions(asked')) /\ SentMore(Len(asked) + 1)
          /\ BufSize' \in Nat /\ pc' = "send"
      BY <2>1, SendPacketFacts
    <2>4. flushed' \in Nat /\ answered \in Seq(1..flushed') /\ writable' \in BOOLEAN /\ blocked' \in BOOLEAN
      BY <1>2, <2>2
    <2>5. UNCHANGED <<FRequests, stored, discarded, packets, receiveVars, FOnReceive, Events,
                      socketVars, serverVars, historyVars>>
      BY <1>4 DEF SendDummy
    <2>6. /\ awaited' \in Positions(asked') \union {NULL} /\ stored' \subseteq Positions(asked')
          /\ discarded' \subseteq Positions(asked')
      BY <2>1, <2>2, <2>5 DEF ShellTypeOK
    <2>7. QED
      BY <2>2, <2>4, <2>5, <2>6 DEF ShellTypeOK, receiveVars, socketVars, serverVars, historyVars
  <1>5. QED
    BY <1>3, <1>4

\* So does sending what is in the output buffer.
LEMMA SentTyped ==
  ASSUME ShellTypeOK, SentMore(Len(asked)), answered' = answered
  PROVE  /\ flushed' \in Nat /\ answered' \in Seq(1..flushed')
         /\ writable' \in BOOLEAN /\ blocked' \in BOOLEAN
  <1>1. flushed \in Nat /\ flushed' \in Nat /\ flushed <= flushed'
    BY DEF SentMore, ShellTypeOK
  <1>2. 1..flushed \subseteq 1..flushed'
    BY <1>1
  <1>3. answered' \in Seq(1..flushed')
    BY <1>2, SeqOfMore DEF ShellTypeOK
  <1>4. QED
    BY <1>1, <1>3 DEF SentMore

\* So does the handler when it ends.
LEMMA EndsTyped ==
  ASSUME IInv, HandlerEnds
  PROVE  ShellTypeOK'
  <1>1. ShellTypeOK /\ SentMore(Len(asked)) /\ pc' \in {pc, "failed"}
    BY HandleOthersFacts DEF HandlerEnds, IInv
  <1>2. /\ flushed' \in Nat /\ answered' \in Seq(1..flushed')
        /\ writable' \in BOOLEAN /\ blocked' \in BOOLEAN
    BY <1>1, SentTyped DEF HandlerEnds, serverVars
  <1>3. QED
    BY <1>1, <1>2 DEF HandlerEnds, ShellTypeOK, NetworkEvents, uploadVars, socketVars, serverVars,
                      historyVars

\* So does handling network events.
LEMMA SelectsTyped ==
  ASSUME IInv, Selects
  PROVE  ShellTypeOK'
  <1>1. /\ Handled /\ SentMore(Len(asked)) /\ Events' \in NetworkEvents
        /\ UNCHANGED <<uploadVars, FOnReceive, BufSize, serverVars, historyVars>>
        /\ ShellTypeOK
    BY SelectsFacts DEF IInv
  <1>2. pc' \in {"sending", "question", "send", "sent", "dispatch", "stalled", "read", "receive",
                 "timeout", "answered", "done", "failed"}
    BY SelectsFacts
  <1>3. flushed' \in Nat /\ answered' \in Seq(1..flushed')
    BY <1>1, SentTyped DEF serverVars
  <1>4. QED
    BY <1>1, <1>2, <1>3 DEF ShellTypeOK, Handled, SentMore, uploadVars, serverVars, historyVars

\* Which request a response is taken for.
LEMMA ResponseTyped ==
  ASSUME ShellTypeOK, awaited # NULL \/ FRequests # <<>>, ResponseReceived
  PROVE  /\ FRequests' \in Seq(Positions(asked)) /\ awaited' \in Positions(asked) \union {NULL}
         /\ pc' \in {"question", "read"} /\ Target \in Positions(asked)
  <1>1. FRequests \in Seq(Positions(asked)) /\ awaited \in Positions(asked) \union {NULL}
    BY DEF ShellTypeOK
  <1>2. CASE awaited # NULL
    BY <1>1, <1>2 DEF ResponseReceived, Target
  <1>3. CASE awaited = NULL
    BY <1>1, <1>3, TailFacts DEF ResponseReceived, Target
  <1>4. QED
    BY <1>2, <1>3

\* So does reading packets.
LEMMA ReadingTyped ==
  ASSUME IInv, \/ ReceiveHeader \/ ReceivePayload \/ PacketReceived \/ StoredBefore
               \/ HandlerReceives \/ HandlerStores
  PROVE  ShellTypeOK'
  <1> USE DEF IInv, uploadVars, receiveVars, outputVars, socketVars, serverVars, historyVars
  <1>1. CASE ReceiveHeader
    <2>1. OutLen = 0 /\ Len(Buf) = 0 /\ Receive(HeaderLen) /\ packets' = packets /\ delivered' = delivered
      BY <1>1 DEF ReceiveHeader, Receiving, StageInv, Reading
    <2>2. HeaderLen \in Nat \ {0} /\ Len(Buf) + HeaderLen <= PacketLen
      BY <2>1, Lengths
    <2>3. Buf' \in Seq(Nat) /\ Pending' \in Seq(Nat) /\ OutLen' \in Nat
      BY <2>1, <2>2, ReceiveFacts
    <2>4. QED
      BY <1>1, <2>3 DEF ReceiveHeader, ShellTypeOK
  <1>2. CASE ReceivePayload
    <2>1. OutLen = 0 /\ Len(Buf) = HeaderLen /\ Receive(PayloadLen) /\ packets' = packets /\ delivered' = delivered
      BY <1>2 DEF ReceivePayload, Receiving
    <2>2. PayloadLen \in Nat \ {0} /\ Len(Buf) + PayloadLen <= PacketLen
      BY <2>1, Lengths
    <2>3. Buf' \in Seq(Nat) /\ Pending' \in Seq(Nat) /\ OutLen' \in Nat
      BY <2>1, <2>2, ReceiveFacts
    <2>4. QED
      BY <1>2, <2>3 DEF ReceivePayload, ShellTypeOK
  <1>3. CASE PacketReceived
    <2>1. packets' \in Nat /\ Buf' \in Seq(Nat) /\ Packet(Buf[1]) \in Positions(asked)
      BY <1>3, PacketReceivedFacts
    <2>2. CASE Packet(Buf[1]) = Target
      <3>1. ResponseReceived /\ UNCHANGED <<stored, discarded>>
        BY <1>3, <2>2 DEF PacketReceived
      <3>2. pc \in Reading
        <4>1. pc \in Reading \union {"read"} /\ Len(Buf) # 0
          BY <1>3, Lengths DEF PacketReceived, Receiving, Reading
        <4>2. QED
          BY <4>1 DEF StageInv, Reading
      <3>3. awaited # NULL \/ FRequests # <<>>
        BY <3>2 DEF CallInv
      <3>4. /\ FRequests' \in Seq(Positions(asked)) /\ awaited' \in Positions(asked) \union {NULL}
            /\ pc' \in {"question", "read"}
        BY <3>1, <3>3, ResponseTyped
      <3>5. QED
        BY <1>3, <2>1, <3>1, <3>4 DEF PacketReceived, ShellTypeOK
    <2>3. CASE Packet(Buf[1]) # Target
      BY <1>3, <2>1, <2>3 DEF PacketReceived, StoreReserved, ShellTypeOK
    <2>4. QED
      BY <2>2, <2>3
  <1>4. CASE StoredBefore
    <2>1. /\ FRequests' \in Seq(Positions(asked)) /\ awaited' \in Positions(asked) \union {NULL}
          /\ pc' \in {"question", "read"}
      BY <1>4, ResponseTyped DEF StoredBefore
    <2>2. QED
      BY <1>4, <2>1 DEF StoredBefore, ShellTypeOK
  <1>5. CASE HandlerReceives \/ HandlerStores
    <2>1. FRequests \in Seq(Positions(asked)) /\ FRequests # <<>>
      BY <1>5 DEF HandlerReceives, HandlerStores, HandlerRuns, ShellTypeOK
    <2>2. Tail(FRequests) \in Seq(Positions(asked)) /\ Oldest \in Positions(asked)
      BY <2>1, TailFacts DEF Oldest
    <2>3. packets' \in Nat /\ Pending' \in Seq(Nat)
      <3>1. CASE HandlerReads
        BY <3>1, HandlerReadsFacts
      <3>2. CASE ~HandlerReads
        BY <1>5, <3>2 DEF HandlerReads, HandlerReceives, ShellTypeOK
      <3>3. QED
        BY <3>1, <3>2
    <2>4. CASE HandlerReceives
      <3>1. stored' \subseteq Positions(asked)
        BY <2>4 DEF HandlerReceives, ShellTypeOK
      <3>2. QED
        BY <2>2, <2>3, <2>4, <3>1 DEF HandlerReceives, HandlesMore, ShellTypeOK
    <2>5. CASE HandlerStores
      <3>1. Packet(Pending[1]) \in Positions(asked)
        BY <2>5, HandlerReadsFacts DEF HandlerReads
      <3>2. stored' \subseteq Positions(asked) /\ discarded' \subseteq Positions(asked)
        BY <2>2, <2>5, <3>1 DEF HandlerStores, StoreReserved, ShellTypeOK
      <3>3. /\ FRequests' \in Seq(Positions(asked)) /\ FFrozen' \in BOOLEAN /\ FOnReceive' \in BOOLEAN
            /\ behind' \in NetworkEvents /\ forgotten' \in BOOLEAN
            /\ pc' \in {pc, "read", "failed"}
        BY <2>2, <2>5 DEF HandlerStores, HandlerThrows, Unregistered, NetworkEvents, ShellTypeOK
      <3>4. QED
        BY <2>3, <2>5, <3>2, <3>3 DEF HandlerStores, ShellTypeOK
    <2>6. QED
      BY <1>5, <2>4, <2>5
  <1>6. QED
    BY <1>1, <1>2, <1>3, <1>4, <1>5

\* So do the network and the server.
LEMMA NetworkTyped ==
  ASSUME ShellTypeOK, Answer \/ Arrive \/ Close
  PROVE  ShellTypeOK'
  <1> USE DEF ShellTypeOK, uploadVars, receiveVars, outputVars, historyVars, Records,
         NetworkEvents
  <1>1. CASE Answer
    <2>1. answered' \in Seq(1..flushed)
      <3>1. PICK q \in 1..flushed : answered' = Append(answered, q)
        BY <1>1 DEF Answer
      <3>2. QED
        BY <3>1, AppendFacts
    <2>2. recorded' \in NetworkEvents
      BY <1>1 DEF Answer
    <2>3. QED
      BY <1>1, <2>1, <2>2 DEF Answer
  <1>2. CASE Arrive
    <2>1. arrived' \in Nat
      BY <1>2 DEF Arrive
    <2>2. recorded' \in NetworkEvents
      BY <1>2 DEF Arrive
    <2>3. QED
      BY <1>2, <2>1, <2>2 DEF Arrive
  <1>3. CASE Close
    BY <1>3 DEF Close
  <1>4. QED
    BY <1>1, <1>2, <1>3

\* Every step keeps the types.
LEMMA Typed ==
  ASSUME IInv, Next
  PROVE  ShellTypeOK'
  BY NextCases, StepsTyped, EndsTyped, SendsTyped, SelectsTyped, ReadingTyped, NetworkTyped DEF
     IInv

----------------------------------------------------------------------------
(* What is sent and answered                                               *)

\* Only these send requests.
LEMMA OthersSendNothing ==
  ASSUME IInv, Next, ~SendWrite, ~SendDummy
  PROVE  asked' = asked
  <1> USE DEF uploadVars
  <1>1. CASE Selects
    BY <1>1, SelectsFacts
  <1>2. CASE Steps
    BY <1>2 DEF Steps, HandlerMisreads, Sent, Dispatched, PoolForData, Disposed, Ask,
                Retry, Dispose, TimesOut, Prolong
  <1>3. CASE \/ ReceiveHeader \/ ReceivePayload \/ PacketReceived \/ StoredBefore
             \/ HandlerReceives \/ HandlerStores \/ HandlerEnds
    BY <1>3 DEF ReceiveHeader, ReceivePayload, PacketReceived, StoredBefore, HandlerReceives,
                HandlerStores, HandlerEnds
  <1>4. CASE Answer \/ Arrive \/ Close
    BY <1>4 DEF Answer, Arrive, Close
  <1>5. QED
    BY <1>1, <1>2, <1>3, <1>4, NextCases

\* The counters of the specification count the requests by their kind.
LEMMA Kinds ==
  WriteRequests = OfKind(asked, "write") /\ Dummies = Cardinality(OfKind(asked, "dummy"))
  BY DEF WriteRequests, Dummies, OfKind

\* Sending counts the request.
LEMMA SendsCounted ==
  ASSUME ShellTypeOK, FlowInv, NEW kind \in {"write", "dummy"}, SendPacket(kind)
  PROVE  /\ Cardinality(WriteRequests)' = Cardinality(WriteRequests) + IF kind = "write" THEN 1 ELSE 0
         /\ Dummies' = Dummies + IF kind = "dummy" THEN 1 ELSE 0
         /\ Cardinality(WriteRequests) \in Nat /\ Dummies \in Nat
  <1>1. asked \in Seq({"write", "dummy"}) /\ asked' = Append(asked, kind)
    BY SendPacketFacts DEF ShellTypeOK
  <1>2. \A k \in {"write", "dummy"} :
          /\ Cardinality(OfKind(asked', k)) = Cardinality(OfKind(asked, k)) + IF kind = k THEN 1 ELSE 0
          /\ Cardinality(OfKind(asked, k)) \in Nat
    BY <1>1, OfKindAppend, OfKindFinite
  <1>3. WriteRequests' = OfKind(asked', "write") /\ Dummies' = Cardinality(OfKind(asked', "dummy"))
    BY DEF WriteRequests, Dummies, OfKind, Positions
  <1>4. QED
    BY <1>2, <1>3, Kinds

\* Every step keeps to the bounds of the configuration.
LEMMA Counted ==
  ASSUME IInv, Next
  PROVE  CountInv'
  <1>1. CASE SendWrite
    <2>1. SendPacket("write") /\ Cardinality(WriteRequests) < Writes
      BY <1>1 DEF SendWrite
    <2>2. /\ Cardinality(WriteRequests)' = Cardinality(WriteRequests) + 1
          /\ Dummies' = Dummies + 0 /\ Cardinality(WriteRequests) \in Nat /\ Dummies \in Nat
      BY <2>1, SendsCounted DEF IInv
    <2>3. Writes \in Nat /\ Dummies <= MaxDummies
      BY LimitsAssumption DEF IInv, CountInv
    <2>4. QED
      BY <2>1, <2>2, <2>3 DEF CountInv
  <1>2. CASE SendDummy
    <2>1. SendPacket("dummy") /\ Dummies < MaxDummies
      BY <1>2 DEF SendDummy
    <2>2. /\ Cardinality(WriteRequests)' = Cardinality(WriteRequests) + 0
          /\ Dummies' = Dummies + 1 /\ Cardinality(WriteRequests) \in Nat /\ Dummies \in Nat
      BY <2>1, SendsCounted DEF IInv
    <2>3. MaxDummies \in Nat /\ Cardinality(WriteRequests) <= Writes
      BY LimitsAssumption DEF IInv, CountInv
    <2>4. QED
      BY <2>1, <2>2, <2>3 DEF CountInv
  <1>3. CASE ~SendWrite /\ ~SendDummy
    <2>1. asked' = asked
      BY <1>3, OthersSendNothing
    <2>2. QED
      BY <2>1 DEF IInv, CountInv, WriteRequests, Dummies, Positions
  <1>4. QED
    BY <1>1, <1>2, <1>3

\* Every step keeps the order: asked, flushed, answered, arrived, delivered.
LEMMA Flows ==
  ASSUME IInv, Next
  PROVE  FlowInv'
  <1>1. /\ flushed \in Nat /\ Len(asked) \in Nat /\ Len(answered) \in Nat /\ Window \in Nat
        /\ arrived \in Nat /\ delivered \in Nat /\ answered \in Seq(1..flushed)
        /\ FlowInv
    BY LimitsAssumption DEF IInv, ShellTypeOK
  <1>2. CASE SendWrite \/ SendDummy
    <2>1. PICK kind \in {"write", "dummy"} : SendPacket(kind)
      BY <1>2 DEF SendWrite, SendDummy
    <2>2. Len(asked') = Len(asked) + 1 /\ SentMore(Len(asked) + 1)
      BY <2>1, SendPacketFacts DEF IInv
    <2>3. answered' = answered /\ arrived' = arrived /\ delivered' = delivered
      BY <1>2 DEF SendWrite, SendDummy, serverVars, receiveVars
    <2>4. QED
      BY <1>1, <2>2, <2>3 DEF FlowInv, SentMore, Boundary, Distinct, Positions
  <1>3. CASE Selects \/ HandlerEnds
    <2>1. SentMore(Len(asked))
      BY <1>3, SelectsFacts, HandleOthersFacts DEF HandlerEnds, IInv
    <2>2. /\ delivered' \in Nat /\ delivered' <= arrived /\ UNCHANGED <<uploadVars, serverVars>>
      <3>1. CASE Selects
        BY <3>1, SelectsFacts DEF Handled
      <3>2. CASE HandlerEnds
        BY <1>1, <3>2 DEF HandlerEnds, FlowInv
      <3>3. QED
        BY <1>3, <3>1, <3>2
    <2>3. QED
      BY <1>1, <2>1, <2>2 DEF FlowInv, SentMore, Boundary, Distinct, Positions, uploadVars,
         serverVars
  <1>4. CASE Answer
    <2>1. PICK q \in 1..flushed : ~Contains(answered, q) /\ answered' = Append(answered, q)
      BY <1>4 DEF Answer
    <2>2. Len(answered') = Len(answered) + 1 /\ Distinct(answered')
      BY <1>1, <2>1, AppendFacts, AppendElements DEF FlowInv
    <2>3. UNCHANGED <<asked, flushed, arrived, delivered>>
      BY <1>4 DEF Answer, uploadVars, receiveVars
    <2>4. /\ Boundary(Len(answered)) \in Nat /\ Boundary(Len(answered')) \in Nat
          /\ Boundary(Len(answered)) <= Boundary(Len(answered'))
      <3>1. Len(answered') \in Nat /\ Len(answered) <= Len(answered')
        BY <1>1, <2>2
      <3>2. QED
        BY <1>1, <3>1, BoundaryFacts
    <2>5. arrived' <= Boundary(Len(answered'))
      BY <1>1, <2>3, <2>4 DEF FlowInv
    <2>6. Boundary(Len(answered))' = Boundary(Len(answered'))
      BY DEF Boundary
    <2>7. flushed' <= Len(answered') + Window
      BY <1>1, <2>2, <2>3 DEF FlowInv
    <2>8. QED
      BY <1>1, <2>2, <2>3, <2>5, <2>6, <2>7 DEF FlowInv
  <1>5. CASE Arrive
    <2>1. PICK n \in 0..(Len(answered) * PacketLen - arrived) : arrived' = arrived + n
      BY <1>5 DEF Arrive
    <2>2. Boundary(Len(answered)) \in Nat /\ Boundary(Len(answered)) = Len(answered) * PacketLen
      BY <1>1, BoundaryFacts DEF Boundary
    <2>3. arrived' <= Boundary(Len(answered)) /\ arrived <= arrived'
      BY <1>1, <2>1, <2>2
    <2>4. UNCHANGED <<asked, flushed, answered, delivered>>
      BY <1>5 DEF Arrive, uploadVars, receiveVars, outputVars
    <2>5. arrived \in Nat /\ arrived' \in Nat
      BY <1>1, <2>1, <2>2
    <2>6. QED
      BY <1>1, <2>3, <2>4, <2>5 DEF FlowInv, Boundary, Distinct, Positions
  <1>6. CASE Steps \/ Close
    <2>1. UNCHANGED <<asked, flushed, answered, arrived, delivered>>
      BY <1>6 DEF Steps, HandlerMisreads, Sent, Dispatched, PoolForData, Disposed, Ask,
                  Retry, Dispose, TimesOut, Prolong, Close, uploadVars, receiveVars, outputVars, serverVars
    <2>2. QED
      BY <1>1, <2>1 DEF FlowInv, Boundary, Distinct, Positions
  <1>7. CASE \/ ReceiveHeader \/ ReceivePayload \/ PacketReceived \/ StoredBefore
             \/ HandlerReceives \/ HandlerStores
    <2>1. UNCHANGED <<asked, flushed, answered, arrived, delivered>>
      BY <1>7 DEF ReceiveHeader, ReceivePayload, PacketReceived, StoredBefore, HandlerReceives,
                  HandlerStores, uploadVars, receiveVars, outputVars, serverVars
    <2>2. QED
      BY <1>1, <2>1 DEF FlowInv, Boundary, Distinct, Positions
  <1>8. QED
    BY <1>2, <1>3, <1>4, <1>5, <1>6, <1>7, NextCases

----------------------------------------------------------------------------
(* The stream                                                              *)

\* The actions that leave the bytes alone.
LEMMA OthersReadNothing ==
  ASSUME Next, ~Selects, ~ReceiveHeader, ~ReceivePayload, ~PacketReceived, ~HandlerReads
  PROVE  UNCHANGED <<packets, OutLen, Buf, Pending, delivered>>
  <1> USE DEF uploadVars, receiveVars
  <1>1. CASE SendWrite \/ SendDummy \/ StoredBefore
    BY <1>1 DEF SendWrite, SendDummy, StoredBefore
  <1>2. CASE Steps
    BY <1>2 DEF Steps, HandlerMisreads, Sent, Dispatched, PoolForData, Disposed, Ask,
                Retry, Dispose, TimesOut, Prolong
  <1>3. CASE HandlerReceives \/ HandlerStores \/ HandlerEnds
    BY <1>3 DEF HandlerReads, HandlerReceives, HandlerEnds
  <1>4. CASE Answer \/ Arrive \/ Close
    BY <1>4 DEF Answer, Arrive, Close
  <1>5. QED
    BY <1>1, <1>2, <1>3, <1>4, NextCases

\* To receive a header, a call begins to fill an empty buffer.
LEMMA HeaderFacts ==
  ASSUME IInv, ReceiveHeader
  PROVE  /\ StreamInv' /\ Start' = Start /\ pc' = "receive"
         /\ OutLen' > 0 => Pending' = <<>>
         /\ Len(Buf') + OutLen' = HeaderLen /\ Len(Pending') <= Len(Pending)
  <1>1. /\ OutLen = 0 /\ Len(Buf) = 0 /\ Receive(HeaderLen) /\ packets' = packets
        /\ delivered' = delivered /\ pc' = "receive"
    BY DEF ReceiveHeader, Receiving, StageInv, Reading, IInv, uploadVars
  <1>2. HeaderLen \in Nat \ {0} /\ Len(Buf) + HeaderLen <= PacketLen /\ Len(Buf) + HeaderLen = HeaderLen
    BY <1>1, Lengths
  <1>3. QED
    BY <1>1, <1>2, ReceiveFacts DEF IInv

\* To receive a payload, the call fills the rest of it.
LEMMA PayloadFacts ==
  ASSUME IInv, ReceivePayload
  PROVE  /\ StreamInv' /\ Start' = Start /\ pc' = pc /\ pc \in Reading
         /\ OutLen' > 0 => Pending' = <<>>
         /\ Len(Buf') + OutLen' = PacketLen /\ Len(Pending') <= Len(Pending)
  <1>1. /\ OutLen = 0 /\ Len(Buf) = HeaderLen /\ Receive(PayloadLen) /\ packets' = packets
        /\ delivered' = delivered /\ pc' = pc /\ pc \in {"read", "receive"}
    BY DEF ReceivePayload, Receiving, IInv, uploadVars
  <1>2. PayloadLen \in Nat \ {0} /\ Len(Buf) + PayloadLen = PacketLen /\ Len(Buf) + PayloadLen <= PacketLen
    BY <1>1, Lengths
  <1>3. pc \in Reading
    BY <1>1, Lengths DEF IInv, StageInv, Reading
  <1>4. QED
    BY <1>1, <1>2, <1>3, ReceiveFacts DEF IInv

\* Every step keeps the stream in one piece.
LEMMA Streams ==
  ASSUME IInv, Next
  PROVE  StreamInv'
  <1>1. CASE Selects
    BY <1>1, SelectsFacts DEF Handled
  <1>2. CASE ReceiveHeader
    BY <1>2, HeaderFacts
  <1>3. CASE ReceivePayload
    BY <1>3, PayloadFacts
  <1>4. CASE PacketReceived
    BY <1>4, PacketReceivedFacts
  <1>5. CASE HandlerReads
    BY <1>5, HandlerReadsFacts
  <1>6. CASE ~Selects /\ ~ReceiveHeader /\ ~ReceivePayload /\ ~PacketReceived /\ ~HandlerReads
    <2>1. UNCHANGED <<packets, OutLen, Buf, Pending, delivered>>
      BY <1>6, OthersReadNothing
    <2>2. QED
      BY <2>1 DEF IInv, StreamInv, Run, Positions, Boundary, Start
  <1>7. QED
    BY <1>1, <1>2, <1>3, <1>4, <1>5, <1>6

\* Every step keeps the buffer to the header or the packet.
LEMMA Staged ==
  ASSUME IInv, Next
  PROVE  StageInv'
  <1>1. /\ OutLen \in Nat /\ Len(Buf) \in Nat /\ Len(Pending) \in Nat /\ Pending \in Seq(Nat)
        /\ StageInv
    BY DEF IInv, ShellTypeOK
  <1>2. CASE Selects
    <2>1. /\ Buf' \in Seq(Nat) /\ Len(Buf') \in Nat /\ OutLen' \in Nat
          /\ Len(Buf') + OutLen' = Len(Buf) + OutLen
          /\ OutLen' > 0 => Pending' = <<>>
      BY <1>2, SelectsFacts DEF Handled
    <2>2. /\ pc' \in Reading => pc \in Reading
          /\ pc' \notin Reading \union {"failed"} => pc \notin Reading \union {"failed"}
      BY <1>2, SelectsFacts DEF Reading
    <2>3. QED
      BY <1>1, <2>1, <2>2 DEF StageInv
  <1>3. CASE ReceiveHeader
    <2>1. Len(Buf') + OutLen' <= PacketLen
      BY <1>3, HeaderFacts, Lengths
    <2>2. QED
      BY <1>3, <2>1, HeaderFacts DEF StageInv, Reading
  <1>4. CASE ReceivePayload
    <2>1. Len(Buf') + OutLen' <= PacketLen
      BY <1>4, PayloadFacts, Lengths
    <2>2. QED
      BY <1>4, <2>1, PayloadFacts DEF StageInv, Reading
  <1>5. CASE PacketReceived
    <2>1. OutLen = 0 /\ OutLen' = 0 /\ Len(Buf') = 0
      BY <1>5, PacketReceivedFacts DEF PacketReceived, Receiving
    <2>2. pc' \in {"question", "read"}
      BY <1>5 DEF PacketReceived, ResponseReceived
    <2>3. QED
      BY <2>1, <2>2, Lengths DEF StageInv, Reading
  <1>6. CASE HandlerReads
    <2>1. Pending # <<>>
      BY <1>6, HandlerReadsFacts
    <2>2. OutLen = 0
      BY <1>1, <2>1 DEF StageInv
    <2>3. Buf' = Buf /\ OutLen' = OutLen
      BY <1>6 DEF HandlerReads, HandlerReceives, HandlerStores
    <2>4. \/ pc' = pc \/ pc' = "failed"
          \/ pc \in {"sent", "dispatch"} /\ pc' = "read"
      BY <1>6 DEF HandlerReads, HandlerReceives, HandlerStores, HandlerThrows
    <2>5. QED
      BY <1>1, <2>2, <2>3, <2>4 DEF StageInv, Reading
  <1>7. CASE ~Selects /\ ~ReceiveHeader /\ ~ReceivePayload /\ ~PacketReceived /\ ~HandlerReads
    <2>1. UNCHANGED <<packets, OutLen, Buf, Pending, delivered>>
      BY <1>7, OthersReadNothing
    <2>2. /\ pc' \in Reading => pc \in Reading
          /\ pc' \notin Reading \union {"failed"} => pc \notin Reading \union {"failed"}
      <3>1. CASE SendWrite \/ SendDummy
        BY <3>1 DEF SendWrite, SendDummy, SendPacket, Reading
      <3>2. CASE StoredBefore
        BY <3>2 DEF StoredBefore, Receiving, ResponseReceived, Reading
      <3>3. CASE HandlerReceives \/ Answer \/ Arrive \/ Close
        BY <3>3 DEF HandlerReceives, Answer, Arrive, Close
      <3>4. CASE HandlerMisreads \/ HandlerEnds \/ PoolForData \/ Disposed
        BY <3>4 DEF HandlerMisreads, HandlerEnds, HandleOthers, PoolForData, Disposed, Reading,
           Receiving
      <3>5. CASE Sent \/ Dispatched
        BY <3>5 DEF Sent, Dispatched, Return, Reading
      <3>6. CASE Ask \/ Retry \/ Dispose \/ TimesOut \/ Prolong
        BY <3>6 DEF Ask, Retry, Dispose, TimesOut, Prolong, Reading
      <3>7. QED
        BY <1>7, <3>1, <3>2, <3>3, <3>4, <3>5, <3>6, NextCases DEF Steps, HandlerReads
    <2>3. QED
      BY <1>1, <2>1, <2>2 DEF StageInv
  <1>8. QED
    BY <1>2, <1>3, <1>4, <1>5, <1>6, <1>7

----------------------------------------------------------------------------
(* Calls and their responses                                               *)

\* Dummy commands are not taken back.
LEMMA DummiesGrow ==
  ASSUME IInv, Next
  PROVE  Dummies > 0 => Dummies' > 0
  <1>1. CASE SendWrite
    <2>1. SendPacket("write")
      BY <1>1 DEF SendWrite
    <2>2. Dummies' = Dummies + 0 /\ Dummies \in Nat
      BY <2>1, SendsCounted DEF IInv
    <2>3. QED
      BY <2>2
  <1>2. CASE SendDummy
    <2>1. SendPacket("dummy")
      BY <1>2 DEF SendDummy
    <2>2. Dummies' = Dummies + 1 /\ Dummies \in Nat
      BY <2>1, SendsCounted DEF IInv
    <2>3. QED
      BY <2>2
  <1>3. CASE ~SendWrite /\ ~SendDummy
    <2>1. asked' = asked
      BY <1>3, OthersSendNothing
    <2>2. QED
      BY <2>1 DEF Dummies, Positions
  <1>4. QED
    BY <1>1, <1>2, <1>3

\* Without a dummy command, the handler runs between the packets only: while no
\* call receives, for it is not registered when the queue is disposed of; and
\* every response is to a request of the queue.
LEMMA NothingMisread ==
  ASSUME IInv, HandlerMisreads
  PROVE  Dummies > 0
  <1>1. FFrozen /\ FOnReceive /\ pc # "failed"
    BY DEF HandlerMisreads, IInv, CallInv
  <1>2. CASE awaited # NULL
    BY <1>2 DEF IInv, CallInv
  <1>3. CASE awaited = NULL /\ LengthInvalid
    <2>1. pc \notin Reading /\ Len(Buf) = 0
      BY <1>1, <1>3 DEF IInv, CallInv, StageInv, Reading
    <2>2. /\ packets \in Nat /\ Len(Pending) \in Nat /\ Len(Pending) >= HeaderLen
          /\ Run(Pending, Boundary(packets) + 0)
      BY <1>3, <2>1 DEF IInv, ShellTypeOK, StreamInv, LengthInvalid
    <2>3. Boundary(packets) \in Nat /\ 1 \in Positions(Pending)
      BY <2>2, BoundaryFacts, Lengths DEF Positions
    <2>4. Pending[1] = Boundary(packets) + 1
      BY <2>2, <2>3 DEF Run
    <2>5. StartsPacket(Pending[1])
      BY <2>2, <2>4, FirstByte
    <2>6. QED
      BY <1>3, <2>5 DEF LengthInvalid
  <1>4. CASE ~LengthInvalid
    <2>1. Peeked /\ OfDummy
      BY <1>4 DEF HandlerMisreads, HandlerRuns
    <2>2. Len(Pending) \in Nat /\ Len(Pending) >= PacketLen /\ StartsPacket(Pending[1])
      BY <2>1 DEF Peeked, IInv, ShellTypeOK
    <2>3. 1 \in Positions(Pending) /\ Complete(1)
      BY <2>2, Lengths DEF Positions, Complete
    <2>4. Packet(Pending[1]) \in Positions(asked)
      BY <2>3, CompleteAnswered DEF IInv
    <2>5. OfKind(asked, "dummy") # {}
      BY <2>1, <2>4 DEF OfDummy, OfKind
    <2>6. IsFiniteSet(OfKind(asked, "dummy")) /\ Cardinality(OfKind(asked, "dummy")) \in Nat
      BY OfKindFinite DEF IInv, ShellTypeOK
    <2>7. Cardinality(OfKind(asked, "dummy")) # 0
      BY <2>5, <2>6, FS_EmptySet
    <2>8. QED
      BY <2>6, <2>7, Kinds
  <1>5. QED
    BY <1>2, <1>3, <1>4

\* Every step keeps the blocking calls apart from the handler.
LEMMA Calls ==
  ASSUME IInv, Next
  PROVE  CallInv'
  <1>1. /\ CallInv /\ FOnReceive \in BOOLEAN /\ FFrozen \in BOOLEAN
        /\ FRequests \in Seq(Positions(asked)) /\ awaited \in Positions(asked) \union {NULL}
        /\ Len(asked) \in Nat
    BY DEF IInv, ShellTypeOK
  <1>2. FFrozen' => FOnReceive'
    <2>1. CASE Selects
      BY <2>1, SelectsFacts DEF Handled
    <2>2. CASE HandlerReceives \/ HandlerStores \/ HandlerEnds
      BY <1>1, <2>2 DEF HandlerReceives, HandlerStores, HandlerThrows, HandlerRuns, HandlerEnds,
         CallInv
    <2>3. CASE Steps
      BY <1>1, <2>3 DEF Steps, HandlerMisreads, Sent, Dispatched, PoolForData, Disposed,
                  Ask, Retry, Dispose, TimesOut, Prolong, CallInv, receiveVars
    <2>4. CASE SendWrite \/ SendDummy \/ ReceiveHeader \/ ReceivePayload \/ PacketReceived \/ StoredBefore
      BY <1>1, <2>4 DEF SendWrite, SendDummy, ReceiveHeader, ReceivePayload, PacketReceived,
                  StoredBefore, CallInv, receiveVars
    <2>5. CASE Answer \/ Arrive \/ Close
      BY <1>1, <2>5 DEF Answer, Arrive, Close, CallInv, receiveVars
    <2>6. QED
      BY <2>1, <2>2, <2>3, <2>4, <2>5, NextCases
  <1>3. awaited' # NULL \/ confused' => Dummies' > 0
    <2>1. CASE ~(awaited' # NULL \/ confused') \/ (awaited' = awaited /\ confused' = confused) \/ Dummies > 0
      BY <1>1, <2>1, DummiesGrow DEF CallInv
    <2>2. CASE HandlerMisreads
      BY <2>2, NothingMisread, DummiesGrow
    <2>3. CASE SendDummy
      <3>1. SendPacket("dummy")
        BY <2>3 DEF SendDummy
      <3>2. Dummies' = Dummies + 1 /\ Dummies \in Nat
        BY <3>1, SendsCounted DEF IInv
      <3>3. QED
        BY <3>2
    <2>4. CASE SendWrite \/ ReceiveHeader \/ ReceivePayload \/ Answer \/ Arrive \/ Close
      BY <2>1, <2>4 DEF SendWrite, ReceiveHeader, ReceivePayload, Answer, Arrive, Close,
         uploadVars, historyVars
    <2>5. CASE Selects
      BY <2>1, <2>5, SelectsFacts DEF uploadVars, historyVars
    <2>6. CASE HandlerReceives \/ HandlerStores \/ HandlerEnds \/ (Steps /\ ~HandlerMisreads)
      BY <2>1, <2>6 DEF HandlerReceives, HandlerStores, HandlerEnds, Steps, Sent, Dispatched,
         PoolForData, Disposed,
                  Ask, Retry, Dispose, TimesOut, Prolong, uploadVars, historyVars
    <2>7. CASE PacketReceived \/ StoredBefore
      <3>1. confused' = confused /\ (awaited' = awaited \/ awaited' = NULL)
        BY <2>7 DEF PacketReceived, StoredBefore, ResponseReceived, historyVars
      <3>2. QED
        BY <1>1, <2>1, <3>1 DEF CallInv
    <2>8. QED
      BY <2>2, <2>3, <2>4, <2>5, <2>6, <2>7, NextCases
  <1>4. /\ pc' \in Reading \union {"read"} => awaited' # NULL \/ ~FOnReceive'
        /\ pc' \in {"sending", "question", "done"} => awaited' = NULL
        /\ pc' \in Reading /\ awaited' = NULL => FRequests' # <<>>
    <2>1. CASE SendWrite \/ SendDummy
      BY <2>1 DEF SendWrite, SendDummy, SendPacket, Reading
    <2>2. CASE Selects
      BY <1>1, <2>2, SelectsFacts DEF CallInv, Reading, uploadVars
    <2>3. CASE HandlerReceives
      <3>1. UNCHANGED <<pc, awaited, FOnReceive>> /\ FFrozen
        BY <2>3 DEF HandlerReceives, HandlerRuns
      <3>2. pc \in Reading => awaited # NULL
        BY <1>1, <3>1 DEF CallInv
      <3>3. QED
        BY <1>1, <3>1, <3>2 DEF CallInv
    <2>0. CASE HandlerStores
      <3>1. /\ UNCHANGED awaited
            /\ \/ UNCHANGED <<pc, FRequests, FOnReceive>>
               \/ pc' = "read" /\ ~FOnReceive'
               \/ UNCHANGED <<pc, FOnReceive>> /\ pc \in {"question", "stalled"}
               \/ pc' = "failed"
        BY <2>0 DEF HandlerStores, HandlerThrows, Unregistered
      <3>2. QED
        BY <1>1, <3>1 DEF CallInv, Reading
    <2>4. CASE HandlerMisreads \/ HandlerEnds \/ PoolForData \/ Disposed
      BY <1>1, <2>4 DEF HandlerMisreads, HandlerEnds, HandleOthers, PoolForData, Disposed,
         CallInv, Reading, uploadVars
    <2>5. CASE Sent
      BY <1>1, <2>5 DEF Sent, Return, CallInv, Reading, uploadVars
    <2>6. CASE Dispatched
      BY <1>1, <2>6 DEF Dispatched, Return, CallInv, Reading, uploadVars
    <2>7. CASE Ask \/ Retry \/ Dispose
      BY <1>1, <2>7 DEF Ask, Retry, Dispose, Unregistered, CallInv, Reading, uploadVars
    <2>8. CASE TimesOut \/ Prolong
      BY <1>1, <2>8 DEF TimesOut, Prolong, CallInv, Reading, uploadVars
    <2>9. CASE ReceiveHeader \/ ReceivePayload
      BY <1>1, <2>9, PayloadFacts DEF ReceiveHeader, ReceivePayload, Receiving, CallInv, Reading,
         uploadVars
    <2>10. CASE PacketReceived
      BY <1>1, <2>10 DEF PacketReceived, Receiving, ResponseReceived, CallInv, Reading
    <2>11. CASE StoredBefore
      BY <1>1, <2>11 DEF StoredBefore, Receiving, ResponseReceived, CallInv, Reading
    <2>12. CASE Answer \/ Arrive \/ Close
      BY <1>1, <2>12 DEF Answer, Arrive, Close, CallInv, uploadVars
    <2>13. QED
      BY <2>0, <2>1, <2>2, <2>3, <2>4, <2>5, <2>6, <2>7, <2>8, <2>9, <2>10, <2>11, <2>12,
         NextCases
         DEF Steps
  <1>5. QED
    BY <1>2, <1>3, <1>4 DEF CallInv

\* What a call of Receive leaves pending was pending.
LEMMA LeftPending ==
  ASSUME ShellTypeOK, NEW n \in Nat, Receive(n), NEW k \in Positions(Pending')
  PROVE  \E i \in Positions(Pending) :
           Pending'[k] = Pending[i] /\ Len(Pending') - k = Len(Pending) - i
  <1> DEFINE used == Fewer(n, Len(Pending))
  <1>1. Pending \in Seq(Nat) /\ Len(Pending) \in Nat /\ Pending' = Suffix(Pending, used)
    BY DEF ShellTypeOK, Receive
  <1>2. used \in 0..Len(Pending)
    BY <1>1 DEF Fewer
  <1> HIDE DEF used
  <1>3. /\ Len(Pending') = Len(Pending) - used
        /\ \A i \in 1..(Len(Pending) - used) : Pending'[i] = Pending[used + i]
    BY <1>1, <1>2, Pieces
  <1>4. k \in 1..(Len(Pending) - used) /\ used + k \in Positions(Pending)
    BY <1>1, <1>2, <1>3 DEF Positions
  <1>5. Pending'[k] = Pending[used + k] /\ Len(Pending') - k = Len(Pending) - (used + k)
    BY <1>1, <1>2, <1>3, <1>4
  <1>6. QED
    BY <1>4, <1>5

\* A list that is too short for a packet has none.
LEMMA TooShort ==
  ASSUME Len(Pending) \in Nat, Len(Pending) < PacketLen, NEW k \in Positions(Pending)
  PROVE  ~Complete(k)
  BY Lengths DEF Positions, Complete

\* A step that adds neither bytes nor requests leaves none behind.
LEMMA StillNoneLeft ==
  ASSUME NoneLeft, Pending' = Pending, FRequests' = FRequests, answered' = answered
  PROVE  NoneLeft'
  BY DEF NoneLeft, Complete, Packet, StartsPacket, Contains, Positions

\* No step leaves a complete response behind.
LEMMA HandledKept ==
  ASSUME IInv, Next
  PROVE  HandledInv'
  <1>1. /\ HandledInv /\ FOnReceive \in BOOLEAN /\ FFrozen \in BOOLEAN /\ Len(Pending) \in Nat
        /\ FRequests \in Seq(Positions(asked)) /\ Len(asked) \in Nat
    BY DEF IInv, ShellTypeOK
  <1>2. CASE Selects
    <2>1. /\ FFrozen' \/ ~FOnReceive \/ (FFrozen' = FFrozen /\ Pending' = Pending)
          /\ FOnReceive' = FOnReceive /\ FRequests' = FRequests /\ answered' = answered
          /\ pc' # "failed" => pc # "failed"
      BY <1>2, SelectsFacts DEF Handled, uploadVars, serverVars
    <2>2. QED
      BY <1>1, <2>1, StillNoneLeft DEF HandledInv
  <1>3. CASE HandlerReceives \/ HandlerMisreads \/ Dispose
    BY <1>3 DEF HandlerReceives, HandlesMore, HandlerMisreads, Dispose, Unregistered, HandledInv
  <1>4. CASE HandlerStores
    <2>1. CASE Peeked' \/ LengthInvalid'
      BY <1>4, <2>1 DEF HandlerStores, HandlerRuns, HandledInv
    <2>2. CASE ~(Peeked' \/ LengthInvalid')
      <3>1. Len(Pending') \in Nat
        BY Typed DEF ShellTypeOK
      <3>2. Len(Pending') >= PacketLen => Len(Pending') >= HeaderLen
        BY <3>1, Lengths
      <3>3. Len(Pending') < PacketLen
        BY <2>2, <3>1, <3>2, Lengths DEF Peeked, LengthInvalid
      <3>4. \A k \in Positions(Pending') : ~Complete(k)'
        BY <3>1, <3>3, Lengths DEF Positions, Complete
      <3>5. QED
        BY <3>4 DEF HandledInv, NoneLeft
    <2>3. QED
      BY <2>1, <2>2
  <1>5. CASE HandlerEnds
    <2>1. /\ ~LengthInvalid /\ (FRequests = <<>> \/ ~Peeked)
          /\ UNCHANGED <<FRequests, Pending, answered>>
      BY <1>5 DEF HandlerEnds, uploadVars, serverVars
    <2>2. Len(Pending) >= PacketLen => Len(Pending) >= HeaderLen
      BY <1>1, Lengths
    <2>3. NoneLeft
      <3>1. CASE FRequests = <<>>
        BY <3>1 DEF NoneLeft, Contains, Positions
      <3>2. CASE FRequests # <<>>
        <4>1. Len(Pending) < PacketLen
          BY <1>1, <2>1, <2>2, <3>2, Lengths DEF LengthInvalid, Peeked
        <4>2. QED
          BY <1>1, <4>1, TooShort DEF NoneLeft
      <3>3. QED
        BY <3>1, <3>2
    <2>4. QED
      BY <2>1, <2>3, StillNoneLeft DEF HandledInv
  <1>6. CASE SendWrite
    <2>1. /\ UNCHANGED <<Pending, FFrozen, FOnReceive, answered>> /\ pc = "sending"
          /\ FRequests' = Append(FRequests, Len(asked) + 1)
      BY <1>6 DEF SendWrite, receiveVars, serverVars
    <2>2. SUFFICES ASSUME FOnReceive, ~FFrozen PROVE NoneLeft'
      BY <2>1 DEF HandledInv
    <2>3. NoneLeft
      BY <1>1, <2>1, <2>2 DEF HandledInv
    <2>4. ASSUME NEW k \in Positions(Pending), Complete(k)
          PROVE  ~Contains(FRequests', Packet(Pending[k]))
      <3>1. Packet(Pending[k]) \in Positions(asked)
        BY <2>4, CompleteAnswered DEF IInv
      <3>2. Packet(Pending[k]) # Len(asked) + 1
        BY <1>1, <3>1 DEF Positions
      <3>3. ~Contains(FRequests, Packet(Pending[k]))
        BY <2>3, <2>4 DEF NoneLeft
      <3>4. Len(FRequests') = Len(FRequests) + 1 /\ \A i \in 1..Len(FRequests) : FRequests'[i] = FRequests[i]
        BY <1>1, <2>1
      <3>5. FRequests'[Len(FRequests) + 1] = Len(asked) + 1 /\ Len(FRequests) \in Nat
        BY <1>1, <2>1
      <3>6. QED
        BY <3>2, <3>3, <3>4, <3>5 DEF Contains, Positions
    <2>5. QED
      BY <2>1, <2>4 DEF NoneLeft, Complete, StartsPacket, Packet, Contains, Positions
  <1>7. CASE ReceiveHeader \/ ReceivePayload
    <2>1. PICK n \in Nat : Receive(n)
      BY <1>7, Lengths DEF ReceiveHeader, ReceivePayload
    <2>2. UNCHANGED <<FRequests, FFrozen, FOnReceive, answered>> /\ pc # "failed"
      BY <1>7 DEF ReceiveHeader, ReceivePayload, Receiving, uploadVars, serverVars
    <2>3. Len(Pending') \in Nat
      BY Typed DEF ShellTypeOK
    <2>4. ASSUME NoneLeft, NEW k \in Positions(Pending'), Complete(k)'
          PROVE  ~Contains(FRequests, Packet(Pending'[k]))
      <3>1. PICK i \in Positions(Pending) : Pending'[k] = Pending[i] /\ Len(Pending') - k = Len(Pending) - i
        BY <2>1, LeftPending DEF IInv
      <3>2. StartsPacket(Pending'[k]) /\ Len(Pending') - k + 1 >= PacketLen
        BY <2>4 DEF Complete, StartsPacket
      <3>3. Complete(i)
        BY <3>1, <3>2 DEF Complete
      <3>4. QED
        BY <2>4, <3>1, <3>3 DEF NoneLeft
    <2>5. QED
      BY <1>1, <2>2, <2>4 DEF HandledInv, NoneLeft, Packet, Contains, Positions
  <1>8. CASE PacketReceived \/ StoredBefore
    <2>1. UNCHANGED <<Pending, FFrozen, FOnReceive, answered>> /\ pc \in {"read", "receive"}
      BY <1>8 DEF PacketReceived, StoredBefore, Receiving, receiveVars, serverVars
    <2>2. FRequests' = FRequests \/ awaited = NULL
      BY <1>8 DEF PacketReceived, StoredBefore, ResponseReceived
    <2>3. FRequests' = FRequests \/ ~FOnReceive'
      BY <2>1, <2>2 DEF IInv, CallInv, Reading
    <2>4. QED
      BY <1>1, <2>1, <2>3, StillNoneLeft DEF HandledInv
  <1>9. CASE Answer
    <2>1. UNCHANGED <<FRequests, Pending, FFrozen, FOnReceive, pc>>
      BY <1>9 DEF Answer, uploadVars, receiveVars
    <2>2. PICK q \in 1..flushed : answered' = Append(answered, q)
      BY <1>9 DEF Answer
    <2>3. Len(answered) \in Nat /\ \A i \in 1..Len(answered) : answered'[i] = answered[i]
      BY <2>2 DEF IInv, ShellTypeOK
    <2>4. ASSUME NEW k \in Positions(Pending), Complete(k)
          PROVE  Packet(Pending[k])' = Packet(Pending[k])
      <3>1. PICK j \in Nat : /\ Pending[k] = Boundary(j) + 1 /\ j < Len(answered)
                             /\ Packet(Pending[k]) = answered[j + 1]
        BY <2>4, CompleteAnswered DEF IInv
      <3>2. (Pending[k] - 1) \div PacketLen = j
        BY <3>1, FirstByte
      <3>3. j + 1 \in 1..Len(answered)
        BY <2>3, <3>1
      <3>4. QED
        BY <2>1, <2>3, <3>1, <3>2, <3>3 DEF Packet
    <2>5. NoneLeft => NoneLeft'
      BY <2>1, <2>4 DEF NoneLeft, Complete, StartsPacket, Contains, Positions
    <2>6. QED
      BY <1>1, <2>1, <2>5 DEF HandledInv
  <1>10. CASE SendDummy \/ Arrive \/ Close
    <2>1. /\ UNCHANGED <<FRequests, Pending, FFrozen, FOnReceive, answered>>
          /\ pc' # "failed" => pc # "failed"
      BY <1>10 DEF SendDummy, Arrive, Close, uploadVars, receiveVars, serverVars
    <2>2. QED
      BY <1>1, <2>1, StillNoneLeft DEF HandledInv
  <1>11. CASE Steps /\ ~HandlerMisreads /\ ~Dispose
    <2>1. /\ UNCHANGED <<FRequests, Pending, FFrozen, FOnReceive, answered>>
          /\ pc' # "failed" => pc # "failed"
      BY <1>11 DEF Steps, Sent, Dispatched, PoolForData, Disposed, Ask, Retry, TimesOut, Prolong,
                   Receiving, uploadVars, receiveVars, serverVars
    <2>2. QED
      BY <1>1, <2>1, StillNoneLeft DEF HandledInv
  <1>12. QED
    BY <1>2, <1>3, <1>4, <1>5, <1>6, <1>7, <1>8, <1>9, <1>10, <1>11, NextCases DEF Steps

----------------------------------------------------------------------------
(* The invariant and what it implies                                       *)

\* The upload starts with nothing sent and nothing read.
LEMMA InitInv == Init => IInv
  <1> SUFFICES ASSUME Init PROVE IInv
    OBVIOUS
  <1> USE DEF Init
  <1>1. /\ <<>> \in Seq({"write", "dummy"}) /\ <<>> \in Seq(Positions(asked)) /\ <<>> \in Seq(Nat)
        /\ <<>> \in Seq(1..flushed) /\ Len(<<>>) = 0
    OBVIOUS
  <1>2. ShellTypeOK
    BY <1>1 DEF ShellTypeOK, NetworkEvents
  <1>3. WriteRequests = {} /\ Dummies = 0
    <2>1. OfKind(asked, "write") = {} /\ OfKind(asked, "dummy") = {}
      BY DEF OfKind, Positions
    <2>2. QED
      BY <2>1, Kinds, FS_EmptySet
  <1>4. CountInv
    <2>1. Cardinality(WriteRequests) = 0
      BY <1>3, FS_EmptySet
    <2>2. QED
      BY <1>3, <2>1, LimitsAssumption DEF CountInv
  <1>5. FlowInv
    BY <1>1, BoundaryFacts, LimitsAssumption DEF FlowInv, Distinct, Positions
  <1>6. StreamInv
    BY <1>1, BoundaryFacts DEF StreamInv, Run, Positions, Start
  <1>7. StageInv
    BY <1>1, Lengths DEF StageInv, Reading
  <1>8. CallInv
    BY <1>3 DEF CallInv, Reading
  <1>9. HandledInv
    BY <1>1 DEF HandledInv, NoneLeft, Positions
  <1>10. QED
    BY <1>2, <1>4, <1>5, <1>6, <1>7, <1>8, <1>9 DEF IInv

\* The invariant is inductive.
LEMMA NextInv == IInv /\ [Next]_vars => IInv'
  <1> SUFFICES ASSUME IInv, [Next]_vars PROVE IInv'
    OBVIOUS
  <1>1. CASE Next
    BY <1>1, Typed, Counted, Flows, Streams, Staged, Calls, HandledKept DEF IInv
  <1>2. CASE UNCHANGED vars
    <2> USE <1>2 DEF vars, uploadVars, receiveVars, outputVars, socketVars, serverVars,
           historyVars
    <2>1. ShellTypeOK'
      BY DEF IInv, ShellTypeOK
    <2>2. CountInv'
      BY DEF IInv, CountInv, WriteRequests, Dummies, Positions
    <2>3. FlowInv'
      BY DEF IInv, FlowInv, Boundary, Distinct, Positions
    <2>4. StreamInv'
      BY DEF IInv, StreamInv, Run, Boundary, Start, Positions
    <2>5. StageInv'
      BY DEF IInv, StageInv
    <2>6. CallInv'
      BY DEF IInv, CallInv, Dummies, Positions
    <2>7. HandledInv'
      BY StillNoneLeft DEF IInv, HandledInv
    <2>8. QED
      BY <2>1, <2>2, <2>3, <2>4, <2>5, <2>6, <2>7 DEF IInv
  <1>3. QED
    BY <1>1, <1>2

\* The inductive invariant holds in every reachable state.
THEOREM Invariance == Spec => []IInv
  <1>1. Init => IInv
    BY InitInv
  <1>2. IInv /\ [Next]_vars => IInv'
    BY NextInv
  <1>3. QED
    BY <1>1, <1>2, PTL DEF Spec

\* Every request fits into the bounds of the configuration, every byte into what
\* the server can have sent.
LEMMA InvTypeOK == IInv => TypeOK
  <1> SUFFICES ASSUME IInv PROVE TypeOK
    OBVIOUS
  <1> DEFINE limit == Writes + MaxDummies
  <1>1. ShellTypeOK
    BY DEF IInv
  <1>2. /\ Len(asked) \in Nat /\ Len(answered) \in Nat /\ flushed \in Nat /\ arrived \in Nat
        /\ delivered \in Nat /\ packets \in Nat /\ OutLen \in Nat /\ Len(Buf) \in Nat
        /\ Len(Pending) \in Nat /\ answered \in Seq(1..flushed)
    BY <1>1 DEF ShellTypeOK
  <1>3. limit \in Nat /\ Len(asked) <= limit
    <2>1. Len(asked) = Cardinality(OfKind(asked, "write")) + Cardinality(OfKind(asked, "dummy"))
      BY <1>1, TwoKinds DEF ShellTypeOK
    <2>2. /\ Cardinality(OfKind(asked, "write")) \in Nat /\ Cardinality(OfKind(asked, "dummy")) \in Nat
      BY <1>1, OfKindFinite DEF ShellTypeOK
    <2>3. /\ Cardinality(OfKind(asked, "write")) <= Writes
          /\ Cardinality(OfKind(asked, "dummy")) <= MaxDummies
      BY Kinds DEF IInv, CountInv
    <2>4. QED
      BY <2>1, <2>2, <2>3, LimitsAssumption
  <1> HIDE DEF limit
  <1>4. Len(answered) <= flushed /\ flushed <= Len(asked)
    BY <1>2, DistinctLength DEF IInv, FlowInv
  <1>5. Len(answered) <= limit /\ Len(answered) <= Len(asked)
    BY <1>2, <1>3, <1>4
  <1>6. /\ Boundary(Len(answered)) \in Nat /\ Boundary(limit) \in Nat /\ Boundary(packets) \in Nat
        /\ Boundary(Len(answered)) <= Boundary(limit)
    BY <1>2, <1>3, <1>5, BoundaryFacts
  <1>7. /\ arrived <= Boundary(Len(answered)) /\ delivered <= arrived
        /\ delivered = Boundary(packets) + Len(Buf) + Len(Pending)
    BY DEF IInv, FlowInv, StreamInv
  <1>8. packets <= Len(answered)
    <2>1. Boundary(packets) <= Boundary(Len(answered))
      BY <1>2, <1>6, <1>7
    <2>2. QED
      BY <1>2, <2>1, BoundaryFacts
  <1>9. Buf \in Seq(Bytes) /\ Pending \in Seq(Bytes)
    <2>1. Bytes = 1..Boundary(limit)
      BY DEF Bytes, Boundary, limit
    <2>2. ASSUME NEW k \in 1..Len(Pending) PROVE Pending[k] \in Bytes
      <3>1. Pending[k] = Boundary(packets) + Len(Buf) + k
        BY <2>2 DEF IInv, StreamInv, Run, Positions
      <3>2. QED
        BY <1>2, <1>6, <1>7, <2>1, <3>1
    <2>3. ASSUME NEW k \in 1..Len(Buf) PROVE Buf[k] \in Bytes
      <3>1. Buf[k] = Boundary(Start) + k
        BY <2>3 DEF IInv, StreamInv, Run, Positions
      <3>2. Start \in Nat /\ Start <= packets
        BY <1>2 DEF IInv, StreamInv
      <3>3. Boundary(Start) \in Nat /\ Boundary(Start) <= Boundary(packets)
        BY <1>2, <3>2, BoundaryFacts
      <3>4. Len(Buf) \in Nat /\ Len(Pending) \in Nat
        BY <1>1 DEF ShellTypeOK
      <3>5. Boundary(packets) + Len(Buf) <= Boundary(limit)
        BY ONLY <1>2, <1>6, <1>7, <3>4, SMTT(30)
      <3>6. Buf[k] \in 1..Boundary(limit)
        BY ONLY <1>6, <2>3, <3>1, <3>3, <3>4, <3>5, SMTT(30)
      <3>7. QED
        BY <2>1, <3>6
    <2>4. Buf \in Seq(Nat) /\ Pending \in Seq(Nat)
      BY <1>1 DEF ShellTypeOK
    <2>5. ASSUME NEW s \in Seq(Nat), \A k \in 1..Len(s) : s[k] \in Bytes
          PROVE  s \in Seq(Bytes)
      <3>1. Len(s) \in Nat /\ s = [k \in 1..Len(s) |-> s[k]]
        OBVIOUS
      <3>2. s \in [1..Len(s) -> Bytes]
        BY <2>5, <3>1
      <3>3. QED
        BY <3>1, <3>2
    <2>6. QED
      BY <2>2, <2>3, <2>4, <2>5
  <1>10. Positions(asked) \subseteq Requests
    BY <1>2, <1>3 DEF Positions, Requests, limit
  <1>11. /\ FRequests \in Seq(Requests) /\ awaited \in Requests \union {NULL}
         /\ stored \subseteq Requests /\ discarded \subseteq Requests
    BY <1>1, <1>10, SeqOfMore DEF ShellTypeOK
  <1>12. OutLen \in 0..PacketLen
    BY <1>2, Lengths DEF IInv, StageInv
  <1>13. arrived \in 0..(Len(answered) * PacketLen) /\ delivered \in 0..arrived
    BY <1>2, <1>6, <1>7 DEF Boundary
  <1>14. packets \in 0..Len(asked) /\ flushed \in 0..Len(asked)
    BY <1>2, <1>4, <1>5, <1>8
  <1>15. {FOnReceive, FFrozen, writable, blocked, armed, closed} \subseteq BOOLEAN
    BY <1>1 DEF ShellTypeOK
  <1>16. {confused, forgotten} \subseteq BOOLEAN
    BY <1>1 DEF ShellTypeOK
  <1>17. QED
    BY <1>1, <1>9, <1>11, <1>12, <1>13, <1>14, <1>15, <1>16 DEF TypeOK, ShellTypeOK

\* The types of the variables, within the bounds of the configuration.
THEOREM TypeCorrectness == Spec => []TypeOK
  BY Invariance, InvTypeOK, PTL

\* Pieces of the stream at their places are the stream.
LEMMA InvStreamIntact == IInv => StreamIntact
  <1> SUFFICES ASSUME IInv PROVE StreamIntact
    OBVIOUS
  <1>1. /\ Len(Buf) \in Nat /\ Len(Pending) \in Nat /\ packets \in Nat /\ delivered \in Nat
        /\ Start \in Nat /\ Buf \in Seq(Nat) /\ Pending \in Seq(Nat)
        /\ delivered = Boundary(packets) + Len(Buf) + Len(Pending)
        /\ Run(Pending, Boundary(packets) + Len(Buf)) /\ Run(Buf, Boundary(Start))
    BY DEF IInv, ShellTypeOK, StreamInv
  <1>2. Boundary(packets) \in Nat /\ Boundary(Start) \in Nat
    BY <1>1, BoundaryFacts
  <1>3. Len(Buf) + Len(Pending) = delivered - packets * PacketLen
    <2>1. Len(Buf) + Len(Pending) = delivered - Boundary(packets)
      BY <1>1, <1>2
    <2>2. QED
      BY <2>1 DEF Boundary
  <1>4. ASSUME NEW s \in Seq(Nat), NEW from \in Nat, Run(s, from)
        PROVE  Consecutive(s)
    <2>1. SUFFICES ASSUME NEW k \in 2..Len(s) PROVE s[k] = s[k - 1] + 1
      BY DEF Consecutive
    <2>2. k \in Positions(s) /\ k - 1 \in Positions(s)
      BY DEF Positions
    <2>3. s[k] = from + k /\ s[k - 1] = from + (k - 1)
      BY <1>4, <2>2 DEF Run
    <2>4. QED
      BY <2>2, <2>3
  <1>5. Consecutive(Buf) /\ Consecutive(Pending)
    <2>1. Boundary(packets) + Len(Buf) \in Nat
      BY <1>1, <1>2
    <2>2. QED
      BY <1>1, <1>2, <1>4, <2>1
  <1>6. Buf # <<>> => StartsPacket(Buf[1])
    <2>1. SUFFICES ASSUME Buf # <<>> PROVE StartsPacket(Buf[1])
      OBVIOUS
    <2>2. 1 \in Positions(Buf)
      BY <1>1, <2>1, EmptySeq DEF Positions
    <2>3. Buf[1] = Boundary(Start) + 1
      BY <1>1, <2>2 DEF Run
    <2>4. QED
      BY <1>1, <2>3, FirstByte
  <1>7. Pending # <<>> => Pending[Len(Pending)] = delivered
    <2>1. SUFFICES ASSUME Pending # <<>> PROVE Pending[Len(Pending)] = delivered
      OBVIOUS
    <2>2. Len(Pending) \in Positions(Pending)
      BY <1>1, <2>1, EmptySeq DEF Positions
    <2>3. Pending[Len(Pending)] = Boundary(packets) + Len(Buf) + Len(Pending)
      BY <1>1, <2>2 DEF Run
    <2>4. QED
      BY <1>1, <2>3
  <1>8. QED
    BY <1>3, <1>5, <1>6, <1>7 DEF StreamIntact

\* However the answers are cut into pieces, and whether Receive, the handler or a
\* question reads them, every byte is handed on once and in its place.
THEOREM ByteOrder == Spec => []StreamIntact
  BY Invariance, InvStreamIntact, PTL

\* A packet is misread only when a dummy command has interrupted the upload.
THEOREM Unconfused == Spec => []NotConfused
  <1>1. IInv => NotConfused
    BY DEF IInv, CallInv, NotConfused
  <1>2. QED
    BY Invariance, <1>1, PTL

\* Whatever the order of the answers, no complete response to a request of the
\* queue is left pending when the handler has run.
THEOREM NoneLeftBehind == Spec => []ResponsesTaken
  <1>1. IInv => ResponsesTaken
    BY DEF IInv, HandledInv, NoneLeft, ResponsesTaken
  <1>2. QED
    BY Invariance, <1>1, PTL
=============================================================================
