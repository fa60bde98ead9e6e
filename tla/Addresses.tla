----------------------------- MODULE Addresses -----------------------------
(***************************************************************************)
(* IP addresses and ports between Java and the library: a worker that      *)
(* makes a Reassembler for its InetAddress and registers itself with the   *)
(* load balancer by the text of the same address (LbManager), and the      *)
(* data plane and sync addresses set and read in an EjfatURI.              *)
(*                                                                         *)
(* There are two ways from Java to a boost::asio::ip::address.  One takes  *)
(* the bytes of an InetAddress in reverse and reads an IPv4 address as the *)
(* number in the memory of a machine that has the low byte first; the      *)
(* other goes through the text of the address.  A text is modelled by what *)
(* it denotes: the bytes of the address, most significant first.           *)
(***************************************************************************)
EXTENDS Integers, Sequences, SequencesExt

CONSTANTS
  Byte,       \* number of values of a byte
  Port,       \* number of ports
  Addresses4, \* IPv4 addresses of nodes and load balancers
  Addresses6, \* IPv6 addresses of nodes and load balancers
  Ports       \* ports the application gives

Bytes(n) == {b \in Seq(0 .. Byte - 1) : Len(b) = n}

(* The IPv6 addresses ::ffff:a.b.c.d, which Java turns into IPv4.          *)
Mapped(b) ==
  /\ \A i \in 1 .. 10 : b[i] = 0
  /\ b[11] = Byte - 1 /\ b[12] = Byte - 1

ASSUME NumberAssumption == Byte \in Nat \ {0} /\ Port \in Nat \ {0}

ASSUME AddressAssumption ==
  /\ \A ip \in Addresses4 : ip \in Bytes(4)
  /\ \A ip \in Addresses6 : ip \in Bytes(16) /\ ~Mapped(ip)

ASSUME PortAssumption == Ports \subseteq Int

InetAddress == Addresses4 \cup Addresses6
Nodes == [ip : InetAddress, port : Ports]

(* An InetSocketAddress takes ports in their range only.                   *)
InetSocketAddress == [ip : InetAddress, port : Ports \cap 0 .. Port - 1]

Fields == {"syncAddr", "dataAddrv4", "dataAddrv6"}

VARIABLES
  node,        \* the address and port of the worker
  listening,   \* the endpoint of its Reassembler
  registered,  \* the endpoint under which the load balancer knows it
  stored,         \* the addresses in the e2sar::EjfatURI
  given        \* what they were set to

addressVars == <<node, listening, registered, stored, given>>

NoAddress == <<>>

AddressInit ==
  /\ node \in Nodes
  /\ listening = NoAddress
  /\ registered = NoAddress
  /\ stored = [f \in Fields |-> NoAddress]
  /\ given = [f \in Fields |-> NoAddress]

-----------------------------------------------------------------------------
(* The addresses of boost::asio: a number, or 16 bytes.                    *)
AddressV4(number) == [version |-> 4, value |-> number]
AddressV6(bytes) == [version |-> 6, value |-> bytes]

LowByteFirst(b) == b[1] + Byte * b[2] + Byte * Byte * b[3] + Byte * Byte * Byte * b[4]
HighByteFirst(b) == ((b[1] * Byte + b[2]) * Byte + b[3]) * Byte + b[4]

(* Mutated form: the bytes are not reversed.                               *)
convertInetAddressInOrder(bytes) ==
  IF Len(bytes) = 4 THEN AddressV4(LowByteFirst(bytes)) ELSE AddressV6(bytes)

(* convertInetAddressToBoostIp: the bytes reversed, whatever their number. *)
convertInetAddressToBoostIp(bytes) ==
  LET buffer == Reverse(bytes) IN
  IF Len(bytes) = 4 THEN AddressV4(LowByteFirst(buffer)) ELSE AddressV6(buffer)

(* make_address of boost::asio, of the text of an address.                 *)
make_address(text) ==
  IF Len(text) = 4 THEN AddressV4(HighByteFirst(text)) ELSE AddressV6(text)

(* Mutated form: by way of the bytes, as for a Reassembler.                *)
convertInetSocketAddressByBytes(socket) ==
  [address |-> convertInetAddressToBoostIp(socket.ip), port |-> socket.port % Port]

(* convertInetSocketAddress: by way of getHostAddress().                   *)
convertInetSocketAddress(socket) ==
  [address |-> make_address(socket.ip), port |-> socket.port % Port]

(* to_string of boost::asio, and getByName of java.net.                    *)
to_string(address) ==
  IF address.version = 4
  THEN [i \in 1 .. 4 |->
         CASE i = 1 -> address.value \div (Byte * Byte * Byte)
           [] i = 2 -> (address.value \div (Byte * Byte)) % Byte
           [] i = 3 -> (address.value \div Byte) % Byte
           [] i = 4 -> address.value % Byte]
  ELSE address.value

getByName(text) ==
  IF Len(text) = 16 /\ Mapped(text) THEN SubSeq(text, 13, 16) ELSE text

(* convertBoostIpAndPortToInetSocketAddress; convertBoostIpToInetAddress   *)
(* is the same without a port.                                             *)
convertBoostIpToInetAddress(address) == getByName(to_string(address))
convertBoostIpAndPortToInetSocketAddress(e) ==
  [ip |-> convertBoostIpToInetAddress(e.address), port |-> e.port]

-----------------------------------------------------------------------------
(* new Reassembler(dpUri, ipAddress, startingPort, ...).                   *)
initReassembler ==
  /\ listening = NoAddress
  /\ listening' = [address |-> convertInetAddressToBoostIp(node.ip), port |-> node.port % Port]
  /\ UNCHANGED <<node, registered, stored, given>>

(* LbManager.registerWorker(nodeName, nodeIP, port, ...).                  *)
registerWorkerAddr ==
  /\ registered = NoAddress
  /\ registered' = [address |-> make_address(node.ip), port |-> node.port % Port]
  /\ UNCHANGED <<node, listening, stored, given>>

Store(f, socket) ==
  /\ stored' = [stored EXCEPT ![f] = convertInetSocketAddress(socket)]
  /\ given' = [given EXCEPT ![f] = socket]
  /\ UNCHANGED <<node, listening, registered>>

storeSyncAddr(socket) == Store("syncAddr", socket)

(* set_dataAddr of the library goes by the version of the address.         *)
storeDataAddr(socket) ==
  Store(IF convertInetSocketAddress(socket).address.version = 4 THEN "dataAddrv4"
      ELSE "dataAddrv6", socket)

(* getSyncAddr, getDataAddrv4, getDataAddrv6.                              *)
readAddr(f) == convertBoostIpAndPortToInetSocketAddress(stored[f])

AddressNext ==
  \/ initReassembler \/ registerWorkerAddr
  \/ \E socket \in InetSocketAddress : storeSyncAddr(socket) \/ storeDataAddr(socket)

AddressSpec == AddressInit /\ [][AddressNext]_addressVars

-----------------------------------------------------------------------------
IsEndpoint(e) ==
  /\ DOMAIN e = {"address", "port"}
  /\ e.port \in 0 .. Port - 1
  /\ \/ e.address.version = 4 /\ e.address.value \in 0 .. Byte * Byte * Byte * Byte - 1
     \/ e.address.version = 6 /\ e.address.value \in Bytes(16)

AddressTypeOK ==
  /\ node \in Nodes
  /\ listening = NoAddress \/ IsEndpoint(listening)
  /\ registered = NoAddress \/ IsEndpoint(registered)
  /\ \A f \in Fields : stored[f] = NoAddress \/ IsEndpoint(stored[f])
  /\ given \in [Fields -> InetSocketAddress \cup {NoAddress}]

(* A worker with an IPv4 address listens where the load balancer has been  *)
(* told to send: the way by bytes and the way by text agree.               *)
WorkersAreReached ==
  Len(node.ip) = 4 /\ listening # NoAddress /\ registered # NoAddress => listening = registered

(* An address set in a URI is the address read from it, in the field of    *)
(* its version.                                                            *)
AddressesComeBack ==
  \A f \in Fields : given[f] # NoAddress =>
    /\ readAddr(f) = given[f]
    /\ f = "dataAddrv4" => Len(readAddr(f).ip) = 4
    /\ f = "dataAddrv6" => Len(readAddr(f).ip) = 16
=============================================================================
