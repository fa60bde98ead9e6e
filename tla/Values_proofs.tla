--------------------------- MODULE Values_proofs ----------------------------
(***************************************************************************)
(* Proofs about the values that cross the border between Java and the      *)
(* library: the labels of events for every width and any number of events, *)
(* addresses for every number of values of a byte, and flags for any       *)
(* number of assignments and instances.                                    *)
(***************************************************************************)
EXTENDS MCValues, EjfatUris_proofs, SequenceTheorems

-----------------------------------------------------------------------------
(* EventLabels.                                                            *)

(* What a Segmenter keeps, what a header carries and what a receiver is    *)
(* given, as functions of the arguments.                                   *)
Kept(args) == [dataId |-> ToUnsigned(Short, args.dataId),
               eventSrcId |-> ToUnsigned(Int32, args.eventSrcId)]

CarriesLabels(event) ==
  /\ event.eventNumber # 0 => event.header.eventNum = ToUnsigned(Long, event.eventNumber)
  /\ event.header.dataId = IF ToUnsigned(Short, event.dataId) = 0 THEN segmenter.dataId
                           ELSE ToUnsigned(Short, event.dataId)

Delivers(r) ==
  /\ r.eventNum = ToSigned(Long, sent[r.index].header.eventNum)
  /\ r.dataId = sent[r.index].header.dataId

LabelInv ==
  /\ LabelTypeOK
  /\ created # NoSegmenter => segmenter = Kept(created)
  /\ created = NoSegmenter => sent = <<>>
  /\ synced # {} => created # NoSegmenter /\ synced = {segmenter.eventSrcId}
  /\ \A k \in DOMAIN sent : CarriesLabels(sent[k])
  /\ \A r \in received : Delivers(r)

-----------------------------------------------------------------------------
(* A cast to an unsigned type stays in it and keeps what is in it already. *)
LEMMA UnsignedType ==
  ASSUME NEW half \in Nat \ {0}, NEW x \in Int
  PROVE  ToUnsigned(half, x) \in Unsigned(half)
BY DEF ToUnsigned, Unsigned

LEMMA UnsignedKeeps ==
  ASSUME NEW half \in Nat \ {0}, NEW x \in Unsigned(half)
  PROVE  ToUnsigned(half, x) = x
BY DEF ToUnsigned, Unsigned

LEMMA SignedType ==
  ASSUME NEW half \in Nat \ {0}, NEW x \in Unsigned(half)
  PROVE  ToSigned(half, x) \in Signed(half)
BY DEF ToSigned, Unsigned, Signed

(* A long is the same after the way to an unsigned type and back, and 0    *)
(* there only if it is 0 here.                                             *)
LEMMA RoundTrip ==
  ASSUME NEW half \in Nat \ {0}, NEW x \in Signed(half)
  PROVE  /\ ToSigned(half, ToUnsigned(half, x)) = x
         /\ ToUnsigned(half, x) = 0 => x = 0
<1>1. CASE x >= 0
  BY <1>1, UnsignedKeeps DEF ToSigned, Unsigned, Signed
<1>2. CASE x < 0
  <2>1. x % (2 * half) = x + 2 * half
    BY <1>2 DEF Signed
  <2> QED BY <1>2, <2>1 DEF ToSigned, ToUnsigned, Signed
<1> QED BY <1>1, <1>2 DEF Signed

-----------------------------------------------------------------------------
LEMMA LabelInitInv == LabelInit => LabelInv
BY DEF LabelInit, LabelInv, LabelTypeOK, NoSegmenter

LEMMA CreateInv ==
  ASSUME LabelInv, NEW d \in DataIds, NEW s \in SourceIds, initSegmentor(d, s)
  PROVE  LabelInv'
<1>1. d \in Signed(Int32) /\ s \in Signed(Long) /\ d \in Int /\ s \in Int
  BY ArgumentAssumption, WidthAssumption DEF Signed
<1>2. created' \in [dataId : Signed(Int32), eventSrcId : Signed(Long)] /\ created' # NoSegmenter
  BY <1>1 DEF initSegmentor, NoSegmenter
<1>3. segmenter' = Kept(created')
  BY DEF initSegmentor, Kept
<1>4. segmenter' \in [dataId : Unsigned(Short), eventSrcId : Unsigned(Int32)]
  BY <1>1, UnsignedType, WidthAssumption DEF initSegmentor
<1>5. segmenter' # NoSegmenter
  BY DEF initSegmentor, NoSegmenter
<1>6. /\ sent = <<>> /\ synced = {}
      /\ UNCHANGED <<synced, sent, received>>
  BY DEF initSegmentor, LabelInv
<1>7. LabelTypeOK'
  BY <1>2, <1>4, <1>5, <1>6 DEF LabelInv, LabelTypeOK
<1>8. received = {}
  BY <1>6 DEF LabelInv, LabelTypeOK
<1> QED BY <1>3, <1>6, <1>7, <1>8 DEF LabelInv

LEMMA SyncInv == LabelInv /\ SendSync => LabelInv'
<1> SUFFICES ASSUME LabelInv, SendSync PROVE LabelInv'
  OBVIOUS
<1>1. created # NoSegmenter /\ segmenter.eventSrcId \in Unsigned(Int32)
  BY DEF SendSync, LabelInv, LabelTypeOK
<1>2. synced' = {segmenter.eventSrcId}
  BY DEF SendSync, LabelInv
<1>3. LabelTypeOK'
  BY <1>1, <1>2 DEF SendSync, LabelInv, LabelTypeOK
<1> QED BY <1>1, <1>3 DEF SendSync, LabelInv, CarriesLabels, Delivers

LEMMA SendInv ==
  ASSUME LabelInv, NEW e \in EventNumbers, NEW d \in DataIds, send(e, d)
  PROVE  LabelInv'
<1>1. e \in Signed(Long) /\ d \in Signed(Int32) /\ e \in Int /\ d \in Int
  BY ArgumentAssumption, WidthAssumption DEF Signed
<1> DEFINE eventNum == ToUnsigned(Long, e)
           dataId == ToUnsigned(Short, d)
<1>2. eventNum \in Unsigned(Long) /\ dataId \in Unsigned(Short) /\ (eventNum = 0 => e = 0)
  BY <1>1, UnsignedType, RoundTrip, WidthAssumption
<1>3. PICK header \in Headers(eventNum, dataId) :
        sent' = Append(sent, [eventNumber |-> e, dataId |-> d, header |-> header])
  BY DEF send
<1> DEFINE event == [eventNumber |-> e, dataId |-> d, header |-> header]
<1> HIDE DEF eventNum, dataId
<1>4. /\ created # NoSegmenter /\ segmenter # NoSegmenter /\ segmenter.dataId \in Unsigned(Short)
      /\ UNCHANGED <<created, segmenter, synced, received>>
  BY DEF send, LabelInv, LabelTypeOK
<1>5. /\ header.eventNum \in IF eventNum = 0 THEN InternalNumbers ELSE {eventNum}
      /\ header.dataId = IF dataId = 0 THEN segmenter.dataId ELSE dataId
      /\ header = [eventNum |-> header.eventNum, dataId |-> header.dataId]
  BY <1>3 DEF Headers
<1>6. header.eventNum \in Unsigned(Long) /\ header.dataId \in Unsigned(Short)
  BY <1>2, <1>4, <1>5, ArgumentAssumption
<1>7. event \in Event
  BY <1>1, <1>5, <1>6 DEF Event
<1>8. sent \in Seq(Event) /\ sent' = Append(sent, event)
  BY <1>3 DEF LabelInv, LabelTypeOK
<1>9. /\ sent' \in Seq(Event)
      /\ DOMAIN sent \subseteq DOMAIN sent'
      /\ \A k \in DOMAIN sent : sent'[k] = sent[k]
      /\ \A k \in DOMAIN sent' : k \in DOMAIN sent \/ sent'[k] = event
  BY <1>7, <1>8
<1>10. CarriesLabels(event)
  BY <1>2, <1>5 DEF CarriesLabels, eventNum, dataId
<1>11. (\A k \in DOMAIN sent : CarriesLabels(sent[k]))'
  BY <1>4, <1>9, <1>10 DEF LabelInv, CarriesLabels
<1>12. \A r \in received : r.index \in DOMAIN sent
  BY DEF LabelInv, LabelTypeOK
<1>13. (\A r \in received : Delivers(r))'
  BY <1>4, <1>9, <1>12 DEF LabelInv, Delivers
<1>14. LabelTypeOK'
  BY <1>4, <1>9 DEF LabelInv, LabelTypeOK
<1> QED BY <1>4, <1>11, <1>13, <1>14 DEF LabelInv

LEMMA ReceiveInv ==
  ASSUME LabelInv, NEW k \in DOMAIN sent, receive(k)
  PROVE  LabelInv'
<1> DEFINE header == sent[k].header
           r == [index |-> k, eventNum |-> ToSigned(Long, header.eventNum),
                 dataId |-> header.dataId]
<1>1. received' = received \cup {r} /\ UNCHANGED <<created, segmenter, synced, sent>>
  BY DEF receive
<1>2. sent[k] \in Event
  BY DEF LabelInv, LabelTypeOK
<1>3. header.eventNum \in Unsigned(Long) /\ header.dataId \in Unsigned(Short)
  BY <1>2 DEF Event
<1>4. r \in [index : DOMAIN sent, eventNum : Signed(Long), dataId : Unsigned(Short)]
  BY <1>3, SignedType, WidthAssumption
<1>5. Delivers(r)
  BY DEF Delivers
<1> HIDE DEF r
<1>6. LabelTypeOK'
  BY <1>1, <1>4 DEF LabelInv, LabelTypeOK
<1> QED BY <1>1, <1>5, <1>6 DEF LabelInv, Delivers, CarriesLabels

(* The labels at each stage are the casts of those of the stage before.    *)
THEOREM LabelInvariantHolds == LabelSpec => []LabelInv
<1>1. LabelInv /\ [LabelNext]_labelVars => LabelInv'
  <2> SUFFICES ASSUME LabelInv, [LabelNext]_labelVars PROVE LabelInv'
    OBVIOUS
  <2>1. CASE LabelNext
    BY <2>1, CreateInv, SyncInv, SendInv, ReceiveInv DEF LabelNext
  <2>2. CASE UNCHANGED labelVars
    BY <2>2 DEF labelVars, LabelInv, LabelTypeOK, CarriesLabels, Delivers
  <2> QED BY <2>1, <2>2
<1> QED BY <1>1, LabelInitInv, PTL DEF LabelSpec

-----------------------------------------------------------------------------
(* A receiver is told the event number it was sent, for every long but 0,  *)
(* and the dataId of the event or of the Segmenter, if it fits.            *)
THEOREM LabelsCorrect == LabelSpec => []LabelsArrive
<1>1. ASSUME LabelInv PROVE LabelsArrive
  <2> SUFFICES ASSUME NEW r \in received
               PROVE  LET call == sent[r.index]
                          dataId == IF call.dataId = 0 THEN created.dataId ELSE call.dataId
                      IN  /\ call.eventNumber # 0 => r.eventNum = call.eventNumber
                          /\ dataId \in Unsigned(Short) => r.dataId = dataId
    BY DEF LabelsArrive
  <2> DEFINE call == sent[r.index]
  <2>1. r.index \in DOMAIN sent /\ call \in Event /\ Delivers(r) /\ CarriesLabels(call)
    BY <1>1 DEF LabelInv, LabelTypeOK
  <2>2. call.eventNumber \in Signed(Long) /\ call.dataId \in Signed(Int32)
    BY <2>1 DEF Event
  <2>3. created # NoSegmenter
    BY <1>1, <2>1 DEF LabelInv
  <2>4. segmenter.dataId = ToUnsigned(Short, created.dataId)
    BY <1>1, <2>3 DEF LabelInv, Kept
  <2>5. call.eventNumber # 0 => r.eventNum = call.eventNumber
    BY <2>1, <2>2, RoundTrip, WidthAssumption DEF Delivers, CarriesLabels
  <2>6. CASE call.dataId = 0
    <3>1. ToUnsigned(Short, call.dataId) = 0
      BY <2>6, UnsignedKeeps, WidthAssumption DEF Unsigned
    <3>2. r.dataId = ToUnsigned(Short, created.dataId)
      BY <2>1, <2>4, <3>1 DEF Delivers, CarriesLabels
    <3> QED BY <2>5, <2>6, <3>2, UnsignedKeeps, WidthAssumption
  <2>7. CASE call.dataId # 0
    <3>1. SUFFICES ASSUME call.dataId \in Unsigned(Short) PROVE r.dataId = call.dataId
      BY <2>5, <2>7
    <3>2. ToUnsigned(Short, call.dataId) = call.dataId
      BY <3>1, UnsignedKeeps, WidthAssumption
    <3> QED BY <2>1, <2>7, <3>2 DEF Delivers, CarriesLabels
  <2> QED BY <2>6, <2>7
<1> QED BY <1>1, LabelInvariantHolds, PTL

(* The load balancer is told a source identifier of 32 bits as it is.      *)
THEOREM SourceIdCorrect == LabelSpec => []SourceIdArrives
<1>1. ASSUME LabelInv PROVE SourceIdArrives
  <2> SUFFICES ASSUME synced # {}, created.eventSrcId \in Unsigned(Int32)
               PROVE  synced = {created.eventSrcId}
    BY DEF SourceIdArrives
  <2>1. synced = {segmenter.eventSrcId}
        /\ segmenter.eventSrcId = ToUnsigned(Int32, created.eventSrcId)
    BY <1>1 DEF LabelInv, Kept
  <2> QED BY <2>1, UnsignedKeeps, WidthAssumption
<1> QED BY <1>1, LabelInvariantHolds, PTL

(* Headers and delivered events stay within the types of C++ and Java.     *)
THEOREM LabelTypeCorrect == LabelSpec => []LabelTypeOK
BY LabelInvariantHolds, PTL DEF LabelInv

-----------------------------------------------------------------------------
(* Addresses.                                                              *)

(* Each endpoint is what the conversions make of the addresses given, in   *)
(* the field for its version.                                              *)
Converted(f) ==
  given[f] # NoAddress =>
    /\ given[f] \in InetSocketAddress
    /\ stored[f] = convertInetSocketAddress(given[f])
    /\ f = "dataAddrv4" => Len(given[f].ip) = 4
    /\ f = "dataAddrv6" => Len(given[f].ip) = 16

AddressInv ==
  /\ node \in Nodes
  /\ listening # NoAddress => listening = [address |-> convertInetAddressToBoostIp(node.ip),
                                      port |-> node.port % Port]
  /\ registered # NoAddress => registered = [address |-> make_address(node.ip),
                                        port |-> node.port % Port]
  /\ given \in [Fields -> InetSocketAddress \cup {NoAddress}] /\ DOMAIN stored = Fields
  /\ \A f \in Fields : given[f] = NoAddress => stored[f] = NoAddress
  /\ \A f \in Fields : Converted(f)

-----------------------------------------------------------------------------
(* Four bytes, as a sequence.                                              *)
LEMMA FourBytes ==
  ASSUME NEW b \in Bytes(4)
  PROVE  /\ b \in Seq(0 .. Byte - 1) /\ Len(b) = 4
         /\ \A i \in 1 .. 4 : b[i] \in 0 .. Byte - 1
<1>1. b \in Seq(0 .. Byte - 1) /\ Len(b) = 4
  BY DEF Bytes
<1>2. ASSUME NEW i \in 1 .. Len(b)
      PROVE  b[i] \in 0 .. Byte - 1
  BY <1>1, ElementOfSeq
<1> QED BY <1>1, <1>2

(* The reverse of four bytes, low byte first, is their number.             *)
LEMMA ReverseOfFour ==
  ASSUME NEW b \in Bytes(4)
  PROVE  LowByteFirst(Reverse(b)) = HighByteFirst(b)
<1>1. b \in Seq(0 .. Byte - 1) /\ Len(b) = 4
  BY FourBytes
<1>2. /\ Reverse(b)[1] = b[4] /\ Reverse(b)[2] = b[3]
      /\ Reverse(b)[3] = b[2] /\ Reverse(b)[4] = b[1]
  BY <1>1 DEF Reverse
<1>3. b[1] \in Int /\ b[2] \in Int /\ b[3] \in Int /\ b[4] \in Int /\ Byte \in Int
  BY FourBytes, NumberAssumption
<1> DEFINE b1 == b[1]
           b2 == b[2]
           b3 == b[3]
           b4 == b[4]
<1>4. b4 + Byte * b3 + Byte * Byte * b2 + Byte * Byte * Byte * b1
        = ((b1 * Byte + b2) * Byte + b3) * Byte + b4
  <2> HIDE DEF b1, b2, b3, b4
  <2>1. b1 \in Int /\ b2 \in Int /\ b3 \in Int /\ b4 \in Int /\ Byte \in Int
    BY <1>3 DEF b1, b2, b3, b4
  <2> QED BY <2>1
<1> QED BY <1>2, <1>4 DEF LowByteFirst, HighByteFirst

(* What a division by a byte makes of a number and the byte after it.      *)
LEMMA SplitByte ==
  ASSUME NEW high \in Nat, NEW low \in 0 .. Byte - 1
  PROVE  /\ high * Byte + low \in Nat
         /\ (high * Byte + low) \div Byte = high
         /\ (high * Byte + low) % Byte = low
BY NumberAssumption

LEMMA Products ==
  ASSUME NEW a \in Nat \ {0}, NEW b \in Nat \ {0}
  PROVE  a * b \in Nat \ {0}
<1>1. a * b >= a /\ a * b \in Int
  OBVIOUS
<1> QED BY <1>1

LEMMA DivByProduct ==
  ASSUME NEW n \in Nat, NEW a \in Nat \ {0}, NEW b \in Nat \ {0}
  PROVE  n \div (a * b) = (n \div a) \div b
OBVIOUS

(* The text of the number of four bytes is the four bytes.                 *)
LEMMA TextOfNumber ==
  ASSUME NEW b \in Bytes(4)
  PROVE  /\ HighByteFirst(b) \in 0 .. Byte * Byte * Byte * Byte - 1
         /\ to_string(AddressV4(HighByteFirst(b))) = b
<1> DEFINE n2 == b[1] * Byte + b[2]
           n3 == n2 * Byte + b[3]
           n4 == n3 * Byte + b[4]
<1>1. /\ b[1] \in 0 .. Byte - 1 /\ b[2] \in 0 .. Byte - 1
      /\ b[3] \in 0 .. Byte - 1 /\ b[4] \in 0 .. Byte - 1
  BY FourBytes
<1>2. n2 \in Nat /\ n2 \div Byte = b[1] /\ n2 % Byte = b[2]
  <2>1. b[1] \in Nat
    BY <1>1, NumberAssumption
  <2> QED BY <1>1, <2>1, SplitByte
<1> HIDE DEF n2
<1>3. n3 \in Nat /\ n3 \div Byte = n2 /\ n3 % Byte = b[3]
  BY <1>1, <1>2, SplitByte, NumberAssumption
<1> HIDE DEF n3
<1>4. n4 \in Nat /\ n4 \div Byte = n3 /\ n4 % Byte = b[4]
  BY <1>1, <1>3, SplitByte, NumberAssumption
<1> HIDE DEF n4
<1>5. Byte \in Nat \ {0} /\ Byte * Byte \in Nat \ {0}
  BY NumberAssumption, Products
<1>6. n4 \div (Byte * Byte) = n2
  BY <1>3, <1>4, <1>5, DivByProduct
<1>7. n4 \div (Byte * Byte * Byte) = b[1]
  BY <1>2, <1>4, <1>5, <1>6, DivByProduct
<1>8. HighByteFirst(b) = n4
  BY DEF HighByteFirst, n2, n3, n4
<1>9. n4 < Byte * Byte * Byte * Byte
  <2>1. n2 + 1 <= Byte * Byte
    <3>1. (b[1] + 1) * Byte <= Byte * Byte
      BY <1>1, <1>5
    <3> QED BY <3>1, <1>1, <1>5 DEF n2
  <2>2. n3 + 1 <= Byte * Byte * Byte
    <3>1. (n2 + 1) * Byte <= Byte * Byte * Byte
      BY <2>1, <1>2, <1>5
    <3> QED BY <3>1, <1>1, <1>2, <1>5 DEF n3
  <2>3. (n3 + 1) * Byte <= Byte * Byte * Byte * Byte
    BY <2>2, <1>3, <1>5
  <2> QED BY <2>3, <1>1, <1>3, <1>5 DEF n4
<1> DEFINE text == to_string(AddressV4(n4))
<1>10. text = [i \in 1 .. 4 |-> CASE i = 1 -> b[1] [] i = 2 -> b[2] [] i = 3 -> b[3] [] i = 4 -> b[4]]
  BY <1>2, <1>3, <1>4, <1>6, <1>7 DEF to_string, AddressV4
<1>11. b = [i \in 1 .. 4 |-> b[i]]
  BY FourBytes
<1>12. text = b
  BY <1>10, <1>11
<1>13. Byte * Byte * Byte * Byte \in Nat
  BY <1>5
<1> QED BY <1>4, <1>8, <1>9, <1>12, <1>13

-----------------------------------------------------------------------------
(* Addresses of Java are of four bytes, or of sixteen that are not mapped. *)
LEMMA Versions ==
  ASSUME NEW ip \in InetAddress
  PROVE  \/ ip \in Bytes(4) /\ Len(ip) = 4
         \/ ip \in Bytes(16) /\ Len(ip) = 16 /\ ~Mapped(ip)
BY AddressAssumption DEF InetAddress, Bytes

(* For an IPv4 address the two ways into the library agree.                *)
LEMMA WaysAgree ==
  ASSUME NEW ip \in Bytes(4)
  PROVE  convertInetAddressToBoostIp(ip) = make_address(ip)
BY ReverseOfFour, FourBytes DEF convertInetAddressToBoostIp, make_address

(* Either way makes an endpoint.                                           *)
LEMMA WaysLeadToEndpoints ==
  ASSUME NEW ip \in InetAddress, NEW port \in Int
  PROVE  /\ IsEndpoint([address |-> make_address(ip), port |-> port % Port])
         /\ IsEndpoint([address |-> convertInetAddressToBoostIp(ip), port |-> port % Port])
<1>1. port % Port \in 0 .. Port - 1
  BY NumberAssumption
<1>2. CASE ip \in Bytes(4) /\ Len(ip) = 4
  <2>1. make_address(ip) = AddressV4(HighByteFirst(ip))
    BY <1>2 DEF make_address
  <2>2. HighByteFirst(ip) \in 0 .. Byte * Byte * Byte * Byte - 1
    BY <1>2, TextOfNumber
  <2> HIDE <1>2
  <2>3. IsEndpoint([address |-> make_address(ip), port |-> port % Port])
    BY <1>1, <2>1, <2>2 DEF IsEndpoint, AddressV4
  <2> QED BY <1>2, <2>3, WaysAgree
<1>3. CASE ip \in Bytes(16) /\ Len(ip) = 16
  <2>1. ip \in Seq(0 .. Byte - 1)
    BY <1>3 DEF Bytes
  <2>2. Reverse(ip) \in Seq(0 .. Byte - 1) /\ Len(Reverse(ip)) = 16
    <3>1. Reverse(ip) = [i \in 1 .. 16 |-> ip[16 - i + 1]]
      BY <1>3 DEF Reverse
    <3>2. ASSUME NEW i \in 1 .. 16 PROVE ip[16 - i + 1] \in 0 .. Byte - 1
      <4>1. 16 - i + 1 \in 1 .. Len(ip)
        BY <1>3
      <4> QED BY <2>1, <4>1, ElementOfSeq
    <3> QED BY <3>1, <3>2
  <2>3. Reverse(ip) \in Bytes(16)
    BY <2>2 DEF Bytes
  <2>4. make_address(ip) = AddressV6(ip) /\ convertInetAddressToBoostIp(ip) = AddressV6(Reverse(ip))
    BY <1>3 DEF make_address, convertInetAddressToBoostIp
  <2>5. \A b \in Bytes(16) : IsEndpoint([address |-> AddressV6(b), port |-> port % Port])
    BY <1>1 DEF IsEndpoint, AddressV6
  <2> QED BY <1>3, <2>3, <2>4, <2>5
<1> QED BY <1>2, <1>3, Versions

(* What was made of a text reads as the text again.                        *)
LEMMA TextComesBack ==
  ASSUME NEW ip \in InetAddress
  PROVE  convertBoostIpToInetAddress(make_address(ip)) = ip
<1>1. CASE ip \in Bytes(4) /\ Len(ip) = 4
  BY <1>1, TextOfNumber DEF convertBoostIpToInetAddress, make_address, getByName
<1>2. CASE ip \in Bytes(16) /\ Len(ip) = 16 /\ ~Mapped(ip)
  BY <1>2 DEF convertBoostIpToInetAddress, make_address, getByName, to_string, AddressV6
<1> QED BY <1>1, <1>2, Versions

LEMMA SocketComesBack ==
  ASSUME NEW socket \in InetSocketAddress
  PROVE  convertBoostIpAndPortToInetSocketAddress(convertInetSocketAddress(socket)) = socket
<1>1. socket.ip \in InetAddress /\ socket.port \in 0 .. Port - 1
      /\ socket = [ip |-> socket.ip, port |-> socket.port]
  BY DEF InetSocketAddress
<1>2. socket.port % Port = socket.port
  BY <1>1, NumberAssumption
<1> QED BY <1>1, <1>2, TextComesBack
        DEF convertBoostIpAndPortToInetSocketAddress, convertInetSocketAddress

-----------------------------------------------------------------------------
LEMMA AddressInitInv == AddressInit => AddressInv
BY DEF AddressInit, AddressInv, Converted

LEMMA SetAddressInv ==
  ASSUME AddressInv, NEW f \in Fields, NEW socket \in InetSocketAddress, Store(f, socket),
         f = "dataAddrv4" => Len(socket.ip) = 4,
         f = "dataAddrv6" => Len(socket.ip) = 16
  PROVE  AddressInv'
<1>1. /\ given' = [given EXCEPT ![f] = socket]
      /\ stored' = [stored EXCEPT ![f] = convertInetSocketAddress(socket)]
      /\ UNCHANGED <<node, listening, registered>>
  BY DEF Store
<1>2. given'[f] = socket /\ stored'[f] = convertInetSocketAddress(socket)
  BY <1>1 DEF AddressInv
<1>3. \A g \in Fields \ {f} : given'[g] = given[g] /\ stored'[g] = stored[g]
  BY <1>1 DEF AddressInv
<1>4. (\A g \in Fields : Converted(g))'
  BY <1>2, <1>3 DEF AddressInv, Converted
<1>5. socket # NoAddress
  <2>1. DOMAIN socket = {"ip", "port"} /\ DOMAIN NoAddress = {}
    BY DEF InetSocketAddress, NoAddress
  <2> QED BY <2>1
<1>6. \A g \in Fields : given'[g] = NoAddress => stored'[g] = NoAddress
  BY <1>2, <1>3, <1>5 DEF AddressInv
<1>7. given' \in [Fields -> InetSocketAddress \cup {NoAddress}] /\ DOMAIN stored' = Fields
  BY <1>1 DEF AddressInv
<1> QED BY <1>1, <1>4, <1>6, <1>7 DEF AddressInv

LEMMA AddressStepInv == AddressInv /\ [AddressNext]_addressVars => AddressInv'
<1> SUFFICES ASSUME AddressInv, [AddressNext]_addressVars PROVE AddressInv'
  OBVIOUS
<1>1. CASE initReassembler
  BY <1>1 DEF initReassembler, AddressInv, Converted
<1>2. CASE registerWorkerAddr
  BY <1>2 DEF registerWorkerAddr, AddressInv, Converted
<1>3. ASSUME NEW socket \in InetSocketAddress, storeSyncAddr(socket)
      PROVE  AddressInv'
  BY <1>3, SetAddressInv DEF storeSyncAddr, Fields
<1>4. ASSUME NEW socket \in InetSocketAddress, storeDataAddr(socket)
      PROVE  AddressInv'
  <2> DEFINE version == convertInetSocketAddress(socket).address.version
             field == IF version = 4 THEN "dataAddrv4" ELSE "dataAddrv6"
  <2>1. socket.ip \in InetAddress
    BY DEF InetSocketAddress
  <2>2. (version = 4 => Len(socket.ip) = 4) /\ (version # 4 => Len(socket.ip) = 16)
    BY <2>1, Versions DEF convertInetSocketAddress, make_address, AddressV4, AddressV6
  <2>3. Store(field, socket) /\ field \in Fields
    BY <1>4 DEF storeDataAddr, Fields
  <2>4. (field = "dataAddrv4" => version = 4) /\ (field = "dataAddrv6" => version # 4)
    OBVIOUS
  <2> HIDE DEF field, version
  <2> QED BY <2>2, <2>3, <2>4, SetAddressInv
<1>5. CASE UNCHANGED addressVars
  BY <1>5 DEF addressVars, AddressInv, Converted
<1> QED BY <1>1, <1>2, <1>3, <1>4, <1>5 DEF AddressNext

(* Endpoints are the conversions of what the application gave.             *)
THEOREM AddressInvariantHolds == AddressSpec => []AddressInv
BY AddressInitInv, AddressStepInv, PTL DEF AddressSpec

(* A worker with an IPv4 address listens where the load balancer was told, *)
(* whatever its port: the reversal of the bytes and their order in memory  *)
(* cancel out.                                                             *)
THEOREM WorkersCorrect == AddressSpec => []WorkersAreReached
<1>1. ASSUME AddressInv PROVE WorkersAreReached
  <2>1. node.ip \in InetAddress
    BY <1>1 DEF AddressInv, Nodes
  <2> QED BY <1>1, <2>1, Versions, WaysAgree DEF AddressInv, WorkersAreReached
<1> QED BY <1>1, AddressInvariantHolds, PTL

(* What is set in a URI is read from it, IPv4 and IPv6 each in its field.  *)
THEOREM AddressesCorrect == AddressSpec => []AddressesComeBack
<1>1. ASSUME AddressInv PROVE AddressesComeBack
  BY <1>1, SocketComesBack DEF AddressInv, Converted, AddressesComeBack, readAddr
<1> QED BY <1>1, AddressInvariantHolds, PTL

(* Endpoints are numbers of four bytes or sixteen bytes, with a port in    *)
(* range, on every side.                                                   *)
THEOREM AddressTypeCorrect == AddressSpec => []AddressTypeOK
<1>1. ASSUME AddressInv PROVE AddressTypeOK
  <2>1. node.ip \in InetAddress /\ node.port \in Int
    BY <1>1, PortAssumption DEF AddressInv, Nodes
  <2>2. /\ listening = NoAddress \/ IsEndpoint(listening)
        /\ registered = NoAddress \/ IsEndpoint(registered)
    BY <1>1, <2>1, WaysLeadToEndpoints DEF AddressInv
  <2>3. ASSUME NEW f \in Fields, given[f] # NoAddress PROVE IsEndpoint(stored[f])
    <3>1. /\ given[f].ip \in InetAddress /\ given[f].port \in Int
          /\ stored[f] = [address |-> make_address(given[f].ip), port |-> given[f].port % Port]
      BY <1>1, <2>3, PortAssumption
      DEF AddressInv, Converted, InetSocketAddress, convertInetSocketAddress
    <3> QED BY <3>1, WaysLeadToEndpoints
  <2> QED BY <1>1, <2>2, <2>3 DEF AddressInv, AddressTypeOK
<1> QED BY <1>1, AddressInvariantHolds, PTL

-----------------------------------------------------------------------------
(* ConfigFlags.                                                            *)

LEMMA FieldsOfFlags ==
  ASSUME NEW class \in Classes
  PROVE  /\ ParseFlags(class)
              = [m \in DOMAIN Declared[class] |-> Read(m, Declared[class][m])]
         /\ DOMAIN Defaults[class] = DOMAIN Declared[class]
<1>1. CASE class = "SegmenterFlags"
  <2>1. /\ DOMAIN parseSegmenterFlags = DOMAIN Declared.SegmenterFlags
        /\ DOMAIN Defaults.SegmenterFlags = DOMAIN Declared.SegmenterFlags
    BY DEF parseSegmenterFlags, Declared, Defaults
  <2>2. \A m \in DOMAIN Declared.SegmenterFlags :
          parseSegmenterFlags[m] = Read(m, Declared.SegmenterFlags[m])
    BY DEF parseSegmenterFlags, Declared, Read
  <2>3. parseSegmenterFlags = [m \in DOMAIN parseSegmenterFlags |-> parseSegmenterFlags[m]]
    BY DEF parseSegmenterFlags
  <2> QED BY <1>1, <2>1, <2>2, <2>3 DEF ParseFlags
<1>2. CASE class = "ReassemblerFlags"
  <2>1. /\ DOMAIN parseReassemblerFlags = DOMAIN Declared.ReassemblerFlags
        /\ DOMAIN Defaults.ReassemblerFlags = DOMAIN Declared.ReassemblerFlags
    BY DEF parseReassemblerFlags, Declared, Defaults
  <2>2. \A m \in DOMAIN Declared.ReassemblerFlags :
          parseReassemblerFlags[m] = Read(m, Declared.ReassemblerFlags[m])
    BY DEF parseReassemblerFlags, Declared, Read
  <2>3. parseReassemblerFlags = [m \in DOMAIN parseReassemblerFlags |-> parseReassemblerFlags[m]]
    BY DEF parseReassemblerFlags
  <2> QED BY <1>2, <2>1, <2>2, <2>3 DEF ParseFlags
<1> QED BY <1>1, <1>2 DEF Classes

LEMMA EveryFieldIsFound == FieldsAreFound
BY FieldsOfFlags DEF FieldsAreFound, Found, Read

(* The values a field has by default or is assigned.                       *)
FlagValues ==
  UNION {UNION {{Defaults[class][f], Other(Declared[class][f], Defaults[class][f])} :
                  f \in DOMAIN Declared[class]} : class \in Classes}

Objects(class) == [DOMAIN Declared[class] -> FlagValues]

Instances ==
  {i \in [class : Classes, given : UNION {Objects(c) : c \in Classes},
          used : UNION {Objects(c) : c \in Classes}] : i.used = i.given}

FlagInv ==
  /\ DOMAIN flags = Classes
  /\ \A class \in Classes : flags[class] \in Objects(class)
  /\ changes \in 0 .. MaxChanges
  /\ instances \in Seq(Instances)
  /\ Len(instances) <= MaxInstances

LEMMA ValuesOfFields ==
  ASSUME NEW class \in Classes, NEW f \in DOMAIN Declared[class]
  PROVE  /\ Defaults[class][f] \in FlagValues
         /\ Other(Declared[class][f], Defaults[class][f]) \in FlagValues
BY DEF FlagValues

LEMMA FlagInitInv == FlagInit => FlagInv
<1> SUFFICES ASSUME FlagInit PROVE FlagInv
  OBVIOUS
<1>1. DOMAIN Defaults = Classes
  BY DEF Defaults, Classes
<1>2. ASSUME NEW class \in Classes
      PROVE  Defaults[class] \in Objects(class)
  <2>1. Defaults[class] = [f \in DOMAIN Defaults[class] |-> Defaults[class][f]]
    BY DEF Defaults, Classes
  <2> QED BY <2>1, FieldsOfFlags, ValuesOfFields DEF Objects
<1> QED BY <1>1, <1>2, BoundAssumption DEF FlagInit, FlagInv

LEMMA SetFlagInv ==
  ASSUME FlagInv, NEW class \in Classes, NEW f \in DOMAIN Declared[class], SetFlag(class, f)
  PROVE  FlagInv'
<1> DEFINE v == Other(Declared[class][f], Defaults[class][f])
<1>1. v \in FlagValues
  BY ValuesOfFields
<1> HIDE DEF v
<1>2. flags' = [flags EXCEPT ![class][f] = v] /\ UNCHANGED instances /\ changes < MaxChanges
      /\ changes' = changes + 1
  BY DEF SetFlag, v
<1>3. ASSUME NEW c \in Classes PROVE flags'[c] \in Objects(c)
  BY <1>1, <1>2 DEF FlagInv, Objects
<1>4. DOMAIN flags' = Classes /\ changes' \in 0 .. MaxChanges
  BY <1>2, BoundAssumption DEF FlagInv
<1> QED BY <1>4, <1>2, <1>3, BoundAssumption DEF FlagInv

LEMMA ConstructInv ==
  ASSUME FlagInv, NEW class \in Classes, Construct(class)
  PROVE  FlagInv'
<1> DEFINE parse == ParseFlags(class)
           used == [m \in DOMAIN parse |->
                      IF Found(class, parse[m]) THEN flags[class][parse[m].name] ELSE Missing]
           new == [class |-> class, given |-> flags[class], used |-> used]
<1>1. used = [m \in DOMAIN Declared[class] |-> flags[class][m]]
  BY FieldsOfFlags DEF Found, Read
<1>2. used = flags[class] /\ flags[class] \in Objects(class)
  BY <1>1 DEF FlagInv, Objects
<1>3. new \in Instances
  BY <1>2 DEF Instances
<1>4. /\ instances' = Append(instances, new) /\ Len(instances) < MaxInstances
      /\ UNCHANGED <<flags, changes>>
  BY DEF Construct
<1> HIDE DEF new
<1>5. instances' \in Seq(Instances) /\ Len(instances') = Len(instances) + 1
  BY <1>3, <1>4 DEF FlagInv
<1> QED BY <1>4, <1>5, BoundAssumption DEF FlagInv

(* The instances made so far have the flags they were given, in each state.*)
THEOREM FlagInvariantHolds == FlagSpec => []FlagInv
<1>1. FlagInv /\ [FlagNext]_flagVars => FlagInv'
  <2> SUFFICES ASSUME FlagInv, [FlagNext]_flagVars PROVE FlagInv'
    OBVIOUS
  <2>1. CASE FlagNext
    BY <2>1, SetFlagInv, ConstructInv
    DEF FlagNext, initSegmentorWithFlags, initReassemblerWithFlags, Classes
  <2>2. CASE UNCHANGED flagVars
    BY <2>2 DEF flagVars, FlagInv
  <2> QED BY <2>1, <2>2
<1> QED BY <1>1, FlagInitInv, PTL DEF FlagSpec

THEOREM FlagsCorrect == FlagSpec => []FlagsArrive
<1>1. ASSUME FlagInv PROVE FlagsArrive
  <2> SUFFICES ASSUME NEW i \in DOMAIN instances PROVE instances[i].used = instances[i].given
    BY DEF FlagsArrive
  <2>1. instances[i] \in Instances
    BY <1>1 DEF FlagInv
  <2> QED BY <2>1 DEF Instances
<1> QED BY <1>1, FlagInvariantHolds, PTL

THEOREM FlagTypeCorrect == FlagSpec => []FlagTypeOK
<1>1. FlagInv => FlagTypeOK
  BY EveryFieldIsFound DEF FlagInv, FlagTypeOK, Objects
<1> QED BY <1>1, FlagInvariantHolds, PTL

-----------------------------------------------------------------------------
(* All four modules at once, as the run has them: the steps of one leave   *)
(* the others alone, so that each keeps its types.                         *)
THEOREM TypesCorrect == MCSpec => []MCTypeOK
<1>1. MCInit => Init /\ LabelInit /\ AddressInit /\ FlagInit
  BY DEF MCInit
<1>2. [MCNext]_<<part, vars, labelVars, addressVars, flagVars>> =>
        /\ [Next]_vars /\ [LabelNext]_labelVars
        /\ [AddressNext]_addressVars /\ [FlagNext]_flagVars
  BY DEF MCNext
<1>3. MCSpec => Spec /\ LabelSpec /\ AddressSpec /\ FlagSpec
  BY <1>1, <1>2, PTL DEF MCSpec, Spec, LabelSpec, AddressSpec, FlagSpec
<1>4. TypeOK /\ OneOwnerPerUri /\ LabelTypeOK /\ AddressTypeOK /\ FlagTypeOK => MCTypeOK
  BY DEF MCTypeOK
<1> QED BY <1>3, <1>4, OwnersCorrect, LabelTypeCorrect, AddressTypeCorrect, FlagTypeCorrect, PTL
=============================================================================
