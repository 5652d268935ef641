---------------------------- MODULE SftpPackets ----------------------------
(***************************************************************************)
(* Requests and responses of one SFTP connection, from                     *)
(* source/core/SftpFileSystem.cpp: numbered requests go out in order, and  *)
(* a response is either read by the one who waits for it or, when another  *)
(* one arrives first, stored in the packet that has reserved it.           *)
(*                                                                         *)
(* A TSFTPPacket object that takes a response is identified by the number  *)
(* of the request.  FPacketReservations and FPacketNumbers are parallel    *)
(* lists, as in the code: who takes the response (NULL: the packet is      *)
(* gone), and which number it will have.  FMessageCounter starts again     *)
(* with a connection to keep it small: nothing of a lost connection meets  *)
(* the numbers of the next one.                                            *)
(***************************************************************************)
EXTENDS Naturals, FiniteSets, Lists

CONSTANTS
  Kinds,      \* of requests, and of responses that are not data or a plain status
  Files,      \* on the server
  Overtaking  \* the kinds whose responses may overtake earlier ones

VARIABLES
  FMessageCounter, \* numbers assigned on this connection
  outgoing,        \* requests sent and not served yet
  incoming,        \* responses sent by the server and not read yet
  FPacketReservations, FPacketNumbers,
  stored           \* responses put into the packets that have reserved them

packetVars ==
  <<FMessageCounter, outgoing, incoming, FPacketReservations, FPacketNumbers, stored>>
reservationVars == <<FPacketReservations, FPacketNumbers>>

NULL == 0
Request == [number : Nat, kind : Kinds, file : Files, block : Nat]
Response == [number : Nat, kind : Kinds, ok : BOOLEAN]

----------------------------------------------------------------------------
NextNumber == FMessageCounter + 1

SendPacket(kind, file, block) ==
  /\ FMessageCounter' = NextNumber
  /\ outgoing' = Append(outgoing,
       [number |-> NextNumber, kind |-> kind, file |-> file, block |-> block])

ReserveResponse(packet) ==
  /\ FPacketReservations' = Append(FPacketReservations, packet)
  /\ FPacketNumbers' = Append(FPacketNumbers, packet)

\* ReserveResponse with no packet: the response will be skipped when it comes.
ExpectResponse(number) ==
  /\ FPacketReservations' = Append(FPacketReservations, NULL)
  /\ FPacketNumbers' = Append(FPacketNumbers, number)

\* Mutant: the numbers are not moved down with the packets.
RemoveReservationOnly(k) ==
  /\ FPacketReservations' = DeleteAt(FPacketReservations, k)
  /\ FPacketNumbers' = FPacketNumbers

RemoveReservation(k) ==
  /\ FPacketReservations' = DeleteAt(FPacketReservations, k)
  /\ FPacketNumbers' = DeleteAt(FPacketNumbers, k)

IsReserved(packet) == Contains(FPacketReservations, packet)
Reservation(packet) == IndexOf(FPacketReservations, packet)
Stored(packet) == {s \in stored : s.packet = packet}

\* The destructor of a packet: the response it has not received will still
\* come, and is remembered as one to be skipped.
UnreserveResponse(packet) ==
  /\ stored' = stored \ Stored(packet)
  /\ IF ~IsReserved(packet) THEN UNCHANGED reservationVars
     ELSE IF Stored(packet) # {} THEN RemoveReservation(Reservation(packet))
     ELSE /\ FPacketReservations' = [FPacketReservations EXCEPT ![Reservation(packet)] = NULL]
          /\ UNCHANGED FPacketNumbers

----------------------------------------------------------------------------
(* ReceivePacket and ReceiveResponse                                       *)

Arriving == {p \in incoming : p.kind \in Overtaking \/ \A q \in incoming : p.number <= q.number}

\* The reservations of p other than the one of the packet being received.
ReservedFor(packet, p) ==
  {k \in Positions(FPacketNumbers) :
     /\ FPacketNumbers[k] = p.number
     /\ IsReserved(packet) => FPacketNumbers[Reservation(packet)] # p.number}

\* While the response to one packet is awaited, one that another packet has
\* reserved arrives: it is stored there, or discarded with its reservation.
\* (Then the loop goes on; without waiting (TryOnly) it throws unless another
\* packet has arrived, see HandleThrows of SftpUpload.)
StoreReserved(packet) ==
  /\ Stored(packet) = {}
  /\ \E p \in Arriving : \E k \in ReservedFor(packet, p) :
       /\ incoming' = incoming \ {p}
       /\ IF FPacketReservations[k] # NULL
            THEN /\ stored' = stored \union {[packet |-> FPacketReservations[k], response |-> p]}
                 /\ UNCHANGED reservationVars
            ELSE RemoveReservation(k) /\ UNCHANGED stored
  /\ UNCHANGED <<FMessageCounter, outgoing>>

\* What ReceivePacket may end with: the response already stored in the
\* packet, or one that no other packet has reserved.
Acceptable(packet) ==
  IF Stored(packet) # {} THEN {s.response : s \in Stored(packet)}
  ELSE {p \in Arriving : ReservedFor(packet, p) = {}}

Accept(packet, p) ==
  /\ incoming' = incoming \ {p}
  /\ stored' = stored \ Stored(packet)
  /\ IF IsReserved(packet) THEN RemoveReservation(Reservation(packet))
                           ELSE UNCHANGED reservationVars

\* The status of the response is looked at before its number.
Verdict(packet, p) ==
  IF ~p.ok THEN "refused" ELSE IF p.number # packet THEN "fatal" ELSE "ok"

----------------------------------------------------------------------------
ResetConnection ==
  /\ FMessageCounter' = 0 /\ outgoing' = <<>> /\ incoming' = {}
  /\ FPacketReservations' = <<>> /\ FPacketNumbers' = <<>> /\ stored' = {}

PacketsInit ==
  /\ FMessageCounter = 0 /\ outgoing = <<>> /\ incoming = {}
  /\ FPacketReservations = <<>> /\ FPacketNumbers = <<>> /\ stored = {}

----------------------------------------------------------------------------
(* Properties                                                              *)

PacketTypeOK ==
  /\ FMessageCounter \in Nat
  /\ outgoing \in Seq(Request) /\ incoming \subseteq Response
  /\ FPacketReservations \in Seq(Nat) /\ FPacketNumbers \in Seq(Nat)
  /\ Len(FPacketReservations) = Len(FPacketNumbers)
  /\ stored \subseteq [packet : Nat \ {NULL}, response : Response]

\* A response put aside is in the packet of the request it answers, which
\* still has its reservation (the two lists of TSFTPFileSystem stay parallel
\* while ReceivePacket removes from them).
StoredInOwnPacket ==
  /\ \A s \in stored : s.response.number = s.packet /\ IsReserved(s.packet)
  /\ \A k \in Positions(FPacketReservations) :
       FPacketReservations[k] \in {NULL, FPacketNumbers[k]}
=============================================================================
