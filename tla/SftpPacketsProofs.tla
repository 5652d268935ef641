-------------------------- MODULE SftpPacketsProofs --------------------------
(***************************************************************************)
(* What the operations of SftpPackets keep, whoever calls them: the two    *)
(* lists of reservations stay parallel and a stored response stays with    *)
(* the packet it answers.                                                  *)
(***************************************************************************)
EXTENDS SftpPackets, ListsProofs

\* The sending half of PacketTypeOK ...
RequestsOK == FMessageCounter \in Nat /\ outgoing \in Seq(Request)

\* ... and the receiving half with what is said of it.
ResponsesOK ==
  /\ incoming \subseteq Response
  /\ FPacketReservations \in Seq(Nat) /\ FPacketNumbers \in Seq(Nat)
  /\ Len(FPacketReservations) = Len(FPacketNumbers)
  /\ stored \subseteq [packet : Nat \ {NULL}, response : Response]
  /\ StoredInOwnPacket

\* The two halves together.
LEMMA Halves == RequestsOK /\ ResponsesOK <=> PacketTypeOK /\ StoredInOwnPacket
  BY DEF RequestsOK, ResponsesOK, PacketTypeOK

\* SendPacket appends a request to those under way.
LEMMA SendKeeps ==
  ASSUME RequestsOK, NEW kind \in Kinds, NEW file \in Files, NEW block \in Nat,
         SendPacket(kind, file, block)
  PROVE  RequestsOK'
  <1>1. NextNumber \in Nat
    BY DEF RequestsOK, NextNumber
  <1>2. [number |-> NextNumber, kind |-> kind, file |-> file, block |-> block] \in Request
    BY <1>1 DEF Request
  <1>3. QED
    BY <1>1, <1>2 DEF RequestsOK, SendPacket

\* The two lists as functions over one interval.
LEMMA Parallel ==
  ASSUME ResponsesOK
  PROVE  /\ Len(FPacketReservations) \in Nat /\ Len(FPacketNumbers) = Len(FPacketReservations)
         /\ FPacketReservations \in Seq(Nat) /\ FPacketNumbers \in Seq(Nat)
         /\ \A k \in 1..Len(FPacketReservations) :
              /\ FPacketReservations[k] \in Nat /\ FPacketNumbers[k] \in Nat
              /\ FPacketReservations[k] \in {NULL, FPacketNumbers[k]}
  BY DEF ResponsesOK, StoredInOwnPacket, Positions

\* A packet that reserves its response takes no other packet's reservation.
LEMMA ReserveKeeps ==
  ASSUME ResponsesOK, NEW packet \in Nat, ReserveResponse(packet), UNCHANGED <<incoming, stored>>
  PROVE  ResponsesOK'
  <1> DEFINE n == Len(FPacketReservations)
  <1>1. /\ FPacketReservations' \in Seq(Nat) /\ FPacketNumbers' \in Seq(Nat)
        /\ Len(FPacketReservations') = n + 1 /\ Len(FPacketNumbers') = n + 1
        /\ \A k \in 1..n : /\ FPacketReservations'[k] = FPacketReservations[k]
                           /\ FPacketNumbers'[k] = FPacketNumbers[k]
        /\ FPacketReservations'[n + 1] = packet /\ FPacketNumbers'[n + 1] = packet
    BY Parallel DEF ReserveResponse
  <1>2. n \in Nat /\ \A k \in 1..n : FPacketReservations[k] \in {NULL, FPacketNumbers[k]}
    BY Parallel
  <1> HIDE DEF n
  <1>3. \A k \in 1..(n + 1) : FPacketReservations'[k] \in {NULL, FPacketNumbers'[k]}
    BY <1>1, <1>2
  <1>4. ASSUME NEW x, IsReserved(x) PROVE IsReserved(x)'
    <2>1. PICK k \in 1..n : FPacketReservations[k] = x
      BY <1>4 DEF IsReserved, Contains, Positions, n
    <2>2. k \in 1..Len(FPacketReservations') /\ FPacketReservations'[k] = x
      BY <1>1, <1>2, <2>1
    <2>3. QED
      BY <2>2 DEF IsReserved, Contains, Positions
  <1>5. StoredInOwnPacket'
    BY <1>1, <1>3, <1>4 DEF ResponsesOK, StoredInOwnPacket, Positions
  <1>6. QED
    BY <1>1, <1>5 DEF ResponsesOK

\* Taking out one reservation keeps the lists parallel, provided nothing is
\* stored for it any more.
LEMMA RemovalKeeps ==
  ASSUME ResponsesOK, NEW k \in Positions(FPacketReservations), RemoveReservation(k),
         incoming' \subseteq incoming, stored' \subseteq stored,
         \A s \in stored' : s.packet # FPacketReservations[k]
  PROVE  ResponsesOK'
  <1> DEFINE n == Len(FPacketReservations)
  <1>1. n \in Nat /\ k \in 1..n /\ k \in Positions(FPacketNumbers)
    BY Parallel DEF Positions
  <1>2. /\ FPacketReservations' = DeleteAt(FPacketReservations, k)
        /\ FPacketNumbers' = DeleteAt(FPacketNumbers, k)
    BY DEF RemoveReservation
  <1>3. /\ FPacketReservations' \in Seq(Nat)
        /\ Len(FPacketReservations') = n - 1
        /\ \A j \in 1..(n - 1) : FPacketReservations'[j] =
             IF j < k THEN FPacketReservations[j] ELSE FPacketReservations[j + 1]
    BY <1>2, Parallel, DeleteAtFacts
  <1>4. /\ FPacketNumbers' \in Seq(Nat)
        /\ Len(FPacketNumbers') = n - 1
        /\ \A j \in 1..(n - 1) : FPacketNumbers'[j] =
             IF j < k THEN FPacketNumbers[j] ELSE FPacketNumbers[j + 1]
    BY <1>1, <1>2, Parallel, DeleteAtFacts
  <1>5. \A j \in 1..n : FPacketReservations[j] \in {NULL, FPacketNumbers[j]}
    BY Parallel
  <1> HIDE DEF n
  <1>6. ASSUME NEW j \in 1..(n - 1) PROVE FPacketReservations'[j] \in {NULL, FPacketNumbers'[j]}
    <2>1. CASE j < k
      <3>1. j \in 1..n /\ FPacketReservations'[j] = FPacketReservations[j]
                       /\ FPacketNumbers'[j] = FPacketNumbers[j]
        BY <1>1, <1>3, <1>4, <2>1
      <3>2. QED
        BY <1>5, <3>1
    <2>2. CASE ~(j < k)
      <3>1. j + 1 \in 1..n /\ FPacketReservations'[j] = FPacketReservations[j + 1]
                           /\ FPacketNumbers'[j] = FPacketNumbers[j + 1]
        BY <1>1, <1>3, <1>4, <2>2
      <3>2. QED
        BY <1>5, <3>1
    <2>3. QED
      BY <2>1, <2>2
  <1>7. \A s \in stored' : s.response.number = s.packet /\ IsReserved(s.packet)'
    BY <1>2, Parallel, DeleteAtKeeps DEF ResponsesOK, StoredInOwnPacket, IsReserved
  <1>8. StoredInOwnPacket'
    BY <1>3, <1>6, <1>7 DEF StoredInOwnPacket, Positions
  <1>9. QED
    BY <1>3, <1>4, <1>8 DEF ResponsesOK

\* ReceivePacket returns: the response is taken and the reservation with it.
LEMMA AcceptKeeps ==
  ASSUME ResponsesOK, NEW packet, NEW p, Accept(packet, p)
  PROVE  ResponsesOK'
  <1>1. /\ incoming' \subseteq incoming /\ stored' \subseteq stored
        /\ \A s \in stored' : s.packet # packet
    BY DEF Accept, Stored
  <1>2. CASE IsReserved(packet)
    <2>1. /\ Reservation(packet) \in Positions(FPacketReservations)
          /\ FPacketReservations[Reservation(packet)] = packet
      BY <1>2, IndexOfFacts DEF IsReserved, Reservation
    <2>2. RemoveReservation(Reservation(packet))
      BY <1>2 DEF Accept
    <2>3. QED
      BY <1>1, <2>1, <2>2, RemovalKeeps
  <1>3. CASE ~IsReserved(packet)
    <2>1. UNCHANGED reservationVars
      BY <1>3 DEF Accept
    <2>2. QED
      BY <1>1, <2>1 DEF ResponsesOK, StoredInOwnPacket, reservationVars, IsReserved, Contains, Positions
  <1>4. QED
    BY <1>2, <1>3

\* Another response arrives: it goes into the packet that has its number.
LEMMA StoreKeeps ==
  ASSUME ResponsesOK, NEW packet, StoreReserved(packet)
  PROVE  ResponsesOK'
  <1> DEFINE Taken(p, k) ==
        /\ incoming' = incoming \ {p}
        /\ IF FPacketReservations[k] # NULL
             THEN /\ stored' = stored \union {[packet |-> FPacketReservations[k], response |-> p]}
                  /\ UNCHANGED reservationVars
             ELSE RemoveReservation(k) /\ UNCHANGED stored
  <1>0. PICK p \in Arriving : \E k \in ReservedFor(packet, p) : Taken(p, k)
    BY DEF StoreReserved
  <1>1. PICK k \in ReservedFor(packet, p) : Taken(p, k)
    BY <1>0
  <1>2. /\ p \in Response /\ k \in Positions(FPacketReservations)
        /\ FPacketNumbers[k] = p.number /\ FPacketReservations[k] \in Nat
    BY DEF Arriving, ReservedFor, ResponsesOK, Positions
  <1>3. CASE FPacketReservations[k] # NULL
    <2> DEFINE s == [packet |-> FPacketReservations[k], response |-> p]
    <2>1. FPacketReservations[k] = p.number
      BY <1>2, <1>3 DEF ResponsesOK, StoredInOwnPacket
    <2>2. s.response.number = s.packet /\ IsReserved(s.packet)
      BY <1>2, <2>1 DEF IsReserved, Contains
    <2>3. s \in [packet : Nat \ {NULL}, response : Response]
      BY <1>2, <1>3
    <2>4. incoming' \subseteq incoming /\ stored' = stored \union {s} /\ UNCHANGED reservationVars
      BY <1>1, <1>3
    <2> HIDE DEF s
    <2>5. QED
      BY <2>2, <2>3, <2>4
      DEF ResponsesOK, StoredInOwnPacket, reservationVars, IsReserved, Contains, Positions
  <1>4. CASE FPacketReservations[k] = NULL
    <2>1. RemoveReservation(k) /\ UNCHANGED stored /\ incoming' \subseteq incoming
      BY <1>1, <1>4
    <2>2. \A s \in stored' : s.packet # FPacketReservations[k]
      BY <1>4, <2>1 DEF ResponsesOK
    <2>3. QED
      BY <1>2, <2>1, <2>2, RemovalKeeps
  <1>5. QED
    BY <1>3, <1>4

\* A packet is destroyed: its response, if still to come, has no taker.
LEMMA UnreserveKeeps ==
  ASSUME ResponsesOK, NEW packet, UnreserveResponse(packet), UNCHANGED incoming
  PROVE  ResponsesOK'
  <1>1. stored' \subseteq stored /\ \A s \in stored' : s.packet # packet
    BY DEF UnreserveResponse, Stored
  <1>2. CASE ~IsReserved(packet)
    <2>1. UNCHANGED reservationVars
      BY <1>2 DEF UnreserveResponse
    <2>2. QED
      BY <1>1, <2>1 DEF ResponsesOK, StoredInOwnPacket, reservationVars, IsReserved, Contains, Positions
  <1>3. ASSUME IsReserved(packet)
        PROVE  /\ Reservation(packet) \in Positions(FPacketReservations)
               /\ FPacketReservations[Reservation(packet)] = packet
    BY <1>3, IndexOfFacts DEF IsReserved, Reservation
  <1>4. CASE IsReserved(packet) /\ Stored(packet) # {}
    BY <1>1, <1>3, <1>4, RemovalKeeps DEF UnreserveResponse
  <1>5. CASE IsReserved(packet) /\ Stored(packet) = {}
    <2> DEFINE at == Reservation(packet)
    <2>1. /\ FPacketReservations' = [FPacketReservations EXCEPT ![at] = NULL]
          /\ UNCHANGED FPacketNumbers
      BY <1>5 DEF UnreserveResponse
    <2>2. /\ at \in Positions(FPacketReservations) /\ FPacketReservations[at] = packet
      BY <1>3, <1>5
    <2> HIDE DEF at
    <2>3. /\ FPacketReservations' \in Seq(Nat)
          /\ Len(FPacketReservations') = Len(FPacketReservations)
          /\ \A k \in Positions(FPacketReservations) :
               FPacketReservations'[k] = IF k = at THEN NULL ELSE FPacketReservations[k]
      BY <2>1, <2>2 DEF ResponsesOK, Positions, NULL
    <2>4. \A s \in stored' : IsReserved(s.packet)'
      BY <1>1, <2>2, <2>3 DEF ResponsesOK, StoredInOwnPacket, IsReserved, Contains, Positions
    <2>5. StoredInOwnPacket'
      BY <1>1, <2>1, <2>3, <2>4 DEF ResponsesOK, StoredInOwnPacket, Positions
    <2>6. QED
      BY <1>1, <2>1, <2>3, <2>5 DEF ResponsesOK
  <1>6. QED
    BY <1>2, <1>4, <1>5

\* A connection starts with nothing under way.
LEMMA FreshOK ==
  ASSUME FMessageCounter = 0, outgoing = <<>>, incoming = {},
         FPacketReservations = <<>>, FPacketNumbers = <<>>, stored = {}
  PROVE  RequestsOK /\ ResponsesOK
  BY DEF RequestsOK, ResponsesOK, StoredInOwnPacket, Positions

\* ResetConnection forgets all of the old connection.
LEMMA ResetKeeps == ASSUME ResetConnection PROVE RequestsOK' /\ ResponsesOK'
  BY DEF ResetConnection, RequestsOK, ResponsesOK, StoredInOwnPacket, Positions

----------------------------------------------------------------------------
(* What may be received                                                    *)

\* With nothing reserved or stored, only what has arrived can be received ...
LEMMA UnreservedReceives ==
  ASSUME FPacketReservations = <<>>, FPacketNumbers = <<>>, stored = {}, NEW packet,
         NEW p \in Acceptable(packet)
  PROVE  /\ p \in incoming
         /\ Accept(packet, p) => /\ incoming' = incoming \ {p}
                                 /\ UNCHANGED <<FPacketReservations, FPacketNumbers, stored>>
  <1>1. Stored(packet) = {} /\ ~IsReserved(packet)
    BY DEF Stored, IsReserved, Contains, Positions
  <1>2. QED
    BY <1>1 DEF Acceptable, Arriving, Accept, reservationVars

\* ... and nothing is put aside.
LEMMA UnreservedStoresNothing ==
  ASSUME FPacketNumbers = <<>>, NEW packet
  PROVE  ~StoreReserved(packet)
  BY DEF StoreReserved, ReservedFor, Positions
----------------------------------------------------------------------------
(* The numbers of requests and responses                                   *)

\* The numbers of the responses that are still to be read.
Due == {outgoing[k].number : k \in Positions(outgoing)} \union {p.number : p \in incoming}

\* Somebody has reserved the response, or has left word that it be skipped.
Noted(number) == Contains(FPacketNumbers, number)

\* A number is used once on a connection, and its response read once.
NumbersOK ==
  /\ \A n \in Due : n \in 1..FMessageCounter
  /\ \A k \in Positions(FPacketNumbers) : FPacketNumbers[k] \in 1..FMessageCounter
  /\ \A j, k \in Positions(outgoing) : outgoing[j].number = outgoing[k].number => j = k
  /\ \A p, q \in incoming : p.number = q.number => p = q
  /\ \A p \in incoming, k \in Positions(outgoing) : outgoing[k].number # p.number
  /\ \A s \in stored : s.packet \notin Due

\* A request that is sent is due, whether its response is reserved or not.
LEMMA SendNumbers ==
  ASSUME RequestsOK, ResponsesOK, NumbersOK, NEW kind, NEW file, NEW block,
         SendPacket(kind, file, block), UNCHANGED <<incoming, stored>>,
         FPacketNumbers' \in {FPacketNumbers, Append(FPacketNumbers, NextNumber)},
         [number |-> NextNumber, kind |-> kind, file |-> file, block |-> block] \in Request
  PROVE  NumbersOK' /\ Due' = Due \union {NextNumber}
  <1> DEFINE q == [number |-> NextNumber, kind |-> kind, file |-> file, block |-> block]
             n == Len(outgoing)
  <1>1. FMessageCounter \in Nat /\ NextNumber = FMessageCounter + 1 /\ FMessageCounter' = NextNumber
    BY DEF RequestsOK, SendPacket, NextNumber
  <1>2. outgoing \in Seq(Request) /\ outgoing' = Append(outgoing, q)
    BY DEF RequestsOK, SendPacket
  <1>3. q \in Request /\ q.number = NextNumber
    OBVIOUS
  <1> HIDE DEF q
  <1>4. /\ n \in Nat /\ Len(outgoing') = n + 1 /\ outgoing'[n + 1] = q
        /\ \A k \in 1..n : outgoing'[k] = outgoing[k]
    BY <1>2, <1>3, AppendFacts
  <1> HIDE DEF n
  <1>5. Positions(outgoing) = 1..n /\ Positions(outgoing') = 1..(n + 1) /\ n + 1 \in 1..(n + 1)
    BY <1>4 DEF Positions, n
  <1>6. Due' = Due \union {NextNumber}
    <2>1. {outgoing'[k].number : k \in 1..(n + 1)} = {outgoing[k].number : k \in 1..n} \union {NextNumber}
      BY <1>3, <1>4
    <2>2. QED
      BY <1>5, <2>1 DEF Due
  <1>7. \A m \in Due : m \in 1..FMessageCounter /\ m # NextNumber
    BY <1>1 DEF NumbersOK
  <1>8. \A m \in Due' : m \in 1..FMessageCounter'
    BY <1>1, <1>6, <1>7
  <1>9. \A k \in 1..n : outgoing'[k].number \in Due
    BY <1>4, <1>5 DEF Due
  <1>10. \A j, k \in Positions(outgoing') : outgoing'[j].number = outgoing'[k].number => j = k
    <2> SUFFICES ASSUME NEW j \in 1..(n + 1), NEW k \in 1..(n + 1), outgoing'[j].number = outgoing'[k].number
                 PROVE  j = k
      BY <1>5
    <2>1. (j \in 1..n \/ j = n + 1) /\ (k \in 1..n \/ k = n + 1)
      BY <1>4
    <2>2. j \in 1..n /\ k \in 1..n => j = k
      BY <1>4, <1>5 DEF NumbersOK
    <2>3. QED
      BY <1>3, <1>4, <1>7, <1>9, <2>1, <2>2
  <1>11. \A p \in incoming' : p.number \in Due
    BY DEF Due
  <1>12. \A p \in incoming', k \in Positions(outgoing') : outgoing'[k].number # p.number
    <2> SUFFICES ASSUME NEW p \in incoming, NEW k \in 1..(n + 1) PROVE outgoing'[k].number # p.number
      BY <1>5
    <2>1. CASE k \in 1..n
      BY <1>4, <1>5, <2>1 DEF NumbersOK
    <2>2. CASE k = n + 1
      BY <1>3, <1>4, <1>7, <1>11, <2>2
    <2>3. QED
      BY <1>4, <2>1, <2>2
  <1>13. \A k \in Positions(FPacketNumbers') : FPacketNumbers'[k] \in 1..FMessageCounter'
    <2>1. FPacketNumbers \in Seq(Nat) /\ NextNumber \in Nat
      BY <1>1 DEF ResponsesOK
    <2>2. \A k \in Positions(FPacketNumbers) : FPacketNumbers[k] \in 1..FMessageCounter'
      BY <1>1 DEF NumbersOK
    <2>3. CASE FPacketNumbers' = FPacketNumbers
      BY <2>2, <2>3
    <2>4. CASE FPacketNumbers' = Append(FPacketNumbers, NextNumber)
      <3>1. /\ Len(FPacketNumbers) \in Nat /\ Len(FPacketNumbers') = Len(FPacketNumbers) + 1
            /\ FPacketNumbers'[Len(FPacketNumbers) + 1] = NextNumber
            /\ \A k \in 1..Len(FPacketNumbers) : FPacketNumbers'[k] = FPacketNumbers[k]
        BY <2>1, <2>4, AppendFacts
      <3>2. QED
        BY <1>1, <2>2, <3>1 DEF Positions
    <2>5. QED
      BY <2>3, <2>4
  <1>14. \A s \in stored' : s.packet \notin Due'
    <2> SUFFICES ASSUME NEW s \in stored PROVE s.packet \notin Due'
      OBVIOUS
    <2>1. s.packet \notin Due /\ s.packet # NULL /\ IsReserved(s.packet)
      BY DEF NumbersOK, ResponsesOK, StoredInOwnPacket
    <2>2. PICK k \in Positions(FPacketReservations) : FPacketReservations[k] = s.packet
      BY <2>1 DEF IsReserved, Contains
    <2>3. FPacketNumbers[k] = s.packet /\ k \in Positions(FPacketNumbers)
      BY <2>1, <2>2 DEF ResponsesOK, StoredInOwnPacket, Positions
    <2>4. s.packet \in 1..FMessageCounter
      BY <2>3 DEF NumbersOK
    <2>5. QED
      BY <1>1, <1>6, <2>1, <2>4
  <1>15. QED
    BY <1>6, <1>8, <1>10, <1>12, <1>13, <1>14 DEF NumbersOK

\* The server answers the oldest request: what is due stays due.
LEMMA ServeNumbers ==
  ASSUME RequestsOK, NumbersOK, outgoing # <<>>, outgoing' = Tail(outgoing),
         NEW p, p.number = Head(outgoing).number, incoming' = incoming \union {p},
         UNCHANGED <<FMessageCounter, reservationVars, stored>>
  PROVE  NumbersOK' /\ Due' = Due
  <1> DEFINE n == Len(outgoing)
  <1>1. outgoing \in Seq(Request)
    BY DEF RequestsOK
  <1>2. /\ n \in Nat \ {0} /\ Len(outgoing') = n - 1 /\ Head(outgoing) = outgoing[1]
        /\ \A k \in 1..(n - 1) : outgoing'[k] = outgoing[k + 1]
    BY <1>1, TailFacts
  <1> HIDE DEF n
  <1>3. Positions(outgoing) = 1..n /\ Positions(outgoing') = 1..(n - 1) /\ 1 \in 1..n
    BY <1>2 DEF Positions, n
  <1>4. \A k \in 1..(n - 1) : k + 1 \in 1..n /\ k + 1 # 1
    BY <1>2
  <1>5. \A k \in 1..n : k = 1 \/ (k - 1 \in 1..(n - 1) /\ outgoing'[k - 1] = outgoing[k])
    BY <1>2
  <1>6. Due' = Due
    <2>1. ASSUME NEW m \in Due' PROVE m \in Due
      <3>1. CASE \E k \in 1..(n - 1) : m = outgoing'[k].number
        BY <1>2, <1>3, <1>4, <3>1 DEF Due
      <3>2. CASE \E q \in incoming' : m = q.number
        BY <1>2, <1>3, <3>2 DEF Due
      <3>3. QED
        BY <1>3, <2>1, <3>1, <3>2 DEF Due
    <2>2. ASSUME NEW m \in Due PROVE m \in Due'
      <3>1. CASE \E k \in 1..n : m = outgoing[k].number
        <4>1. PICK k \in 1..n : m = outgoing[k].number
          BY <3>1
        <4>2. CASE k = 1
          BY <1>2, <4>1, <4>2 DEF Due
        <4>3. CASE k # 1
          BY <1>3, <1>5, <4>1, <4>3 DEF Due
        <4>4. QED
          BY <4>2, <4>3
      <3>2. CASE \E q \in incoming : m = q.number
        BY <3>2 DEF Due
      <3>3. QED
        BY <1>3, <2>2, <3>1, <3>2 DEF Due
    <2>3. QED
      BY <2>1, <2>2
  <1>7. \A j, k \in Positions(outgoing') : outgoing'[j].number = outgoing'[k].number => j = k
    <2> SUFFICES ASSUME NEW j \in 1..(n - 1), NEW k \in 1..(n - 1), outgoing'[j].number = outgoing'[k].number
                 PROVE  j = k
      BY <1>3
    <2>1. j + 1 \in Positions(outgoing) /\ k + 1 \in Positions(outgoing)
          /\ outgoing[j + 1].number = outgoing[k + 1].number
      BY <1>2, <1>3, <1>4
    <2>2. j + 1 = k + 1
      BY <2>1 DEF NumbersOK
    <2>3. QED
      BY <2>2
  <1>8. \A q \in incoming : q.number # outgoing[1].number
    BY <1>3 DEF NumbersOK
  <1>9. \A q, r \in incoming' : q.number = r.number => q = r
    BY <1>2, <1>8 DEF NumbersOK
  <1>10. \A q \in incoming', k \in Positions(outgoing') : outgoing'[k].number # q.number
    <2> SUFFICES ASSUME NEW q \in incoming', NEW k \in 1..(n - 1) PROVE outgoing'[k].number # q.number
      BY <1>3
    <2>1. outgoing'[k] = outgoing[k + 1] /\ k + 1 \in Positions(outgoing) /\ k + 1 # 1
          /\ 1 \in Positions(outgoing)
      BY <1>2, <1>3, <1>4
    <2>2. CASE q \in incoming
      BY <2>1, <2>2 DEF NumbersOK
    <2>3. CASE q = p
      BY <1>2, <2>1, <2>3 DEF NumbersOK
    <2>4. QED
      BY <2>2, <2>3
  <1>11. QED
    BY <1>6, <1>7, <1>9, <1>10 DEF NumbersOK, reservationVars

\* Somebody who waits for one response receives it and no other, provided every
\* response due is reserved or his own.
LEMMA OwnResponse ==
  ASSUME ResponsesOK, NEW packet \in Nat \ {NULL}, NEW p \in Acceptable(packet),
         \A n \in Due : Noted(n) \/ n = packet
  PROVE  p.number = packet
  <1>1. CASE Stored(packet) # {}
    <2>1. PICK s \in stored : s.packet = packet /\ p = s.response
      BY <1>1 DEF Acceptable, Stored
    <2>2. QED
      BY <2>1 DEF ResponsesOK, StoredInOwnPacket
  <1>2. CASE Stored(packet) = {}
    <2>1. p \in incoming /\ ReservedFor(packet, p) = {}
      BY <1>2 DEF Acceptable, Arriving
    <2>2. p.number \in Due
      BY <2>1 DEF Due
    <2>3. CASE Noted(p.number)
      <3>1. PICK k \in Positions(FPacketNumbers) : FPacketNumbers[k] = p.number
        BY <2>3 DEF Noted, Contains
      <3>2. IsReserved(packet) /\ FPacketNumbers[Reservation(packet)] = p.number
        BY <2>1, <3>1 DEF ReservedFor
      <3>3. /\ Reservation(packet) \in Positions(FPacketReservations)
            /\ FPacketReservations[Reservation(packet)] = packet
        BY <3>2, IndexOfFacts DEF IsReserved, Reservation
      <3>4. FPacketNumbers[Reservation(packet)] = packet
        BY <3>3 DEF ResponsesOK, StoredInOwnPacket
      <3>5. QED
        BY <3>2, <3>4
    <2>4. QED
      BY <2>2, <2>3
  <1>3. QED
    BY <1>1, <1>2

\* What is left of the numbers when responses are read or put aside.
LEMMA FewerNumbers ==
  ASSUME NumbersOK, UNCHANGED <<FMessageCounter, outgoing>>, incoming' \subseteq incoming,
         \A s \in stored' : s \in stored \/ (\E p \in incoming \ incoming' : p.number = s.packet),
         \A k \in Positions(FPacketNumbers') : \E j \in Positions(FPacketNumbers) : FPacketNumbers'[k] = FPacketNumbers[j]
  PROVE  /\ NumbersOK' /\ Due' \subseteq Due
         /\ \A p \in incoming \ incoming' : p.number \notin Due'
  <1>1. Due' \subseteq Due
    BY DEF Due
  <1>2. ASSUME NEW p \in incoming \ incoming' PROVE p.number \notin Due'
    BY <1>2 DEF Due, NumbersOK
  <1>3. \A s \in stored' : s.packet \notin Due'
    BY <1>1, <1>2 DEF NumbersOK
  <1>4. QED
    BY <1>1, <1>2, <1>3 DEF NumbersOK

\* Removing one reservation leaves the others.
LEMMA RemovalNumbers ==
  ASSUME ResponsesOK, NEW k \in Positions(FPacketReservations), RemoveReservation(k)
  PROVE  /\ \A j \in Positions(FPacketNumbers') : \E i \in Positions(FPacketNumbers) :
              FPacketNumbers'[j] = FPacketNumbers[i]
         /\ \A n : Noted(n) /\ n # FPacketNumbers[k] => Noted(n)'
         /\ \A x : IsReserved(x) /\ x # FPacketReservations[k] => IsReserved(x)'
         /\ \A x : IsReserved(x)' => IsReserved(x)
  <1> DEFINE n == Len(FPacketReservations)
  <1>1. n \in Nat /\ k \in 1..n /\ k \in Positions(FPacketNumbers) /\ Len(FPacketNumbers) = n
    BY Parallel DEF Positions
  <1>2. /\ FPacketReservations' = DeleteAt(FPacketReservations, k)
        /\ FPacketNumbers' = DeleteAt(FPacketNumbers, k)
    BY DEF RemoveReservation
  <1>3. /\ Len(FPacketReservations') = n - 1
        /\ \A j \in 1..(n - 1) : FPacketReservations'[j] =
             IF j < k THEN FPacketReservations[j] ELSE FPacketReservations[j + 1]
    BY <1>2, Parallel, DeleteAtFacts
  <1>4. /\ Len(FPacketNumbers') = n - 1
        /\ \A j \in 1..(n - 1) : FPacketNumbers'[j] =
             IF j < k THEN FPacketNumbers[j] ELSE FPacketNumbers[j + 1]
    BY <1>1, <1>2, Parallel, DeleteAtFacts
  <1>5. \A m : Noted(m) /\ m # FPacketNumbers[k] => Noted(m)'
    BY <1>1, <1>2, Parallel, DeleteAtKeeps DEF Noted
  <1>6. \A x : IsReserved(x) /\ x # FPacketReservations[k] => IsReserved(x)'
    BY <1>2, Parallel, DeleteAtKeeps DEF IsReserved
  <1> HIDE DEF n
  <1>7. \A j \in 1..(n - 1) : j \in 1..n /\ j + 1 \in 1..n
    BY <1>1
  <1>8. ASSUME NEW j \in Positions(FPacketNumbers')
        PROVE  \E i \in Positions(FPacketNumbers) : FPacketNumbers'[j] = FPacketNumbers[i]
    <2>1. j \in 1..(n - 1) /\ Positions(FPacketNumbers) = 1..n
      BY <1>1, <1>4 DEF Positions
    <2>2. QED
      BY <1>4, <1>7, <2>1
  <1>9. ASSUME NEW x, IsReserved(x)' PROVE IsReserved(x)
    <2>1. PICK j \in 1..(n - 1) : FPacketReservations'[j] = x
      BY <1>3, <1>9 DEF IsReserved, Contains, Positions
    <2>2. Positions(FPacketReservations) = 1..n
      BY DEF Positions, n
    <2>3. QED
      BY <1>3, <1>7, <2>1, <2>2 DEF IsReserved, Contains
  <1>10. QED
    BY <1>5, <1>6, <1>8, <1>9

\* Putting a response aside, or skipping it, takes no other one's place.
LEMMA StoreNumbers ==
  ASSUME ResponsesOK, NumbersOK, NEW packet, StoreReserved(packet)
  PROVE  /\ NumbersOK' /\ Due' \subseteq Due
         /\ \A n \in Due' : Noted(n) => Noted(n)'
         /\ \A x \in Nat \ {NULL} : IsReserved(x) <=> IsReserved(x)'
  <1> DEFINE Taken(p, k) ==
        /\ incoming' = incoming \ {p}
        /\ IF FPacketReservations[k] # NULL
             THEN /\ stored' = stored \union {[packet |-> FPacketReservations[k], response |-> p]}
                  /\ UNCHANGED reservationVars
             ELSE RemoveReservation(k) /\ UNCHANGED stored
  <1>0. PICK p \in Arriving : \E k \in ReservedFor(packet, p) : Taken(p, k)
    BY DEF StoreReserved
  <1>1. PICK k \in ReservedFor(packet, p) : Taken(p, k)
    BY <1>0
  <1>2. /\ p \in incoming /\ k \in Positions(FPacketReservations) /\ k \in Positions(FPacketNumbers)
        /\ FPacketNumbers[k] = p.number
    BY DEF Arriving, ReservedFor, ResponsesOK, Positions
  <1>3. UNCHANGED <<FMessageCounter, outgoing>> /\ incoming' = incoming \ {p} /\ p \in incoming \ incoming'
    BY <1>1, <1>2 DEF StoreReserved
  <1>4. CASE FPacketReservations[k] # NULL
    <2>1. stored' = stored \union {[packet |-> FPacketReservations[k], response |-> p]}
          /\ UNCHANGED <<FPacketReservations, FPacketNumbers>>
      BY <1>1, <1>4 DEF reservationVars
    <2>2. FPacketReservations[k] = p.number
      BY <1>2, <1>4 DEF ResponsesOK, StoredInOwnPacket
    <2>3. \A s \in stored' : s \in stored \/ (\E q \in incoming \ incoming' : q.number = s.packet)
      BY <1>3, <2>1, <2>2
    <2>4. NumbersOK' /\ Due' \subseteq Due
      BY <1>3, <2>1, <2>3, FewerNumbers
    <2>5. QED
      BY <2>1, <2>4 DEF Noted, IsReserved
  <1>5. CASE FPacketReservations[k] = NULL
    <2>1. RemoveReservation(k) /\ UNCHANGED stored
      BY <1>1, <1>5
    <2>2. /\ \A j \in Positions(FPacketNumbers') : \E i \in Positions(FPacketNumbers) :
               FPacketNumbers'[j] = FPacketNumbers[i]
          /\ \A n : Noted(n) /\ n # FPacketNumbers[k] => Noted(n)'
          /\ \A x : IsReserved(x) /\ x # FPacketReservations[k] => IsReserved(x)'
          /\ \A x : IsReserved(x)' => IsReserved(x)
      BY <1>2, <2>1, RemovalNumbers
    <2>3. NumbersOK' /\ Due' \subseteq Due /\ p.number \notin Due'
      BY <1>3, <2>1, <2>2, FewerNumbers
    <2>4. QED
      BY <1>2, <1>5, <2>2, <2>3
  <1>6. QED
    BY <1>4, <1>5

\* Receiving one's own response leaves the others' to come.
LEMMA AcceptNumbers ==
  ASSUME ResponsesOK, NumbersOK, NEW packet \in Nat \ {NULL}, NEW p \in Acceptable(packet),
         p.number = packet, Accept(packet, p), UNCHANGED <<FMessageCounter, outgoing>>
  PROVE  /\ NumbersOK' /\ Due' \subseteq Due \ {packet}
         /\ \A n \in Due' : Noted(n) => Noted(n)'
         /\ \A x : IsReserved(x) /\ x # packet => IsReserved(x)'
  <1>1. incoming' \subseteq incoming /\ stored' \subseteq stored
    BY DEF Accept
  <1>2. /\ \A j \in Positions(FPacketNumbers') : \E i \in Positions(FPacketNumbers) :
             FPacketNumbers'[j] = FPacketNumbers[i]
        /\ \A n : Noted(n) /\ n # packet => Noted(n)'
        /\ \A x : IsReserved(x) /\ x # packet => IsReserved(x)'
    <2>1. CASE IsReserved(packet)
      <3>1. /\ Reservation(packet) \in Positions(FPacketReservations)
            /\ FPacketReservations[Reservation(packet)] = packet
        BY <2>1, IndexOfFacts DEF IsReserved, Reservation
      <3>2. FPacketNumbers[Reservation(packet)] = packet /\ RemoveReservation(Reservation(packet))
        BY <2>1, <3>1 DEF ResponsesOK, StoredInOwnPacket, Accept
      <3>3. QED
        BY <3>1, <3>2, RemovalNumbers
    <2>2. CASE ~IsReserved(packet)
      BY <2>2 DEF Accept, reservationVars, Noted, IsReserved
    <2>3. QED
      BY <2>1, <2>2
  <1>3. NumbersOK' /\ Due' \subseteq Due /\ \A q \in incoming \ incoming' : q.number \notin Due'
    BY <1>1, <1>2, FewerNumbers
  <1>4. packet \notin Due'
    <2>1. CASE Stored(packet) # {}
      <3>1. PICK s \in stored : s.packet = packet
        BY <2>1 DEF Stored
      <3>2. packet \notin Due
        BY <3>1 DEF NumbersOK
      <3>3. QED
        BY <1>3, <3>2
    <2>2. CASE Stored(packet) = {}
      <3>1. p \in incoming \ incoming'
        BY <2>2 DEF Acceptable, Arriving, Accept
      <3>2. QED
        BY <1>3, <3>1
    <2>3. QED
      BY <2>1, <2>2
  <1>5. QED
    BY <1>2, <1>3, <1>4
=============================================================================
