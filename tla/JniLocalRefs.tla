---------------------------- MODULE JniLocalRefs ----------------------------
(***************************************************************************)
(* The JNI local references that the conversions of native results to Java *)
(* objects, and of Java lists to native ones, make, use and delete: the    *)
(* lists built and read by jnie2sarHelper.cpp, the statistics and events   *)
(* of Segmenter and Reassembler, the LBStatus that LbManager.getStatus     *)
(* returns and the LBOverview of getOverview.                              *)
(*                                                                         *)
(* A local reference is the number of a slot in the frame of the native    *)
(* call.  JNI may hand out a slot again once it was deleted, and forbids   *)
(* a second deletion; what that one does to a slot that has been handed    *)
(* out since is to delete it there.                                        *)
(*                                                                         *)
(* A conversion is the sequence of its JNI calls.  Objects have the names  *)
(* of the C++ variables that hold the references.                          *)
(***************************************************************************)
EXTENDS Naturals, Sequences

CONSTANTS
  MaxSize,    \* bound on the elements of a list
  MaxWorkers, \* bound on the workers of an LB
  MaxSenders, \* bound on the senders of an LB
  MaxReserved \* bound on the LBs of an overview

ASSUME SizeAssumption == {MaxSize, MaxWorkers, MaxSenders, MaxReserved} \subseteq Nat

(* What a reference refers to: the object of a variable, an element of a   *)
(* vector, a class, or nothing any more.                                   *)
Object(variable) == <<"object", variable, 0>>
Element(vector, i) == <<"element", vector, i>>
Class(name) == <<"class", name, 0>>
Free == <<"free", "", 0>>

(* The JNI calls: one that makes a reference, of the objects it is given;  *)
(* one that only uses references; DeleteLocalRef.                          *)
New(name, args) == [op |-> "new", name |-> name, args |-> args]
Use(args) == [op |-> "use", name |-> Free, args |-> args]
DeleteLocalRef(name) == [op |-> "delete", name |-> name, args |-> {}]

(* The rounds of a loop one after the other, all with as many calls.       *)
InTurn(rounds) ==
  IF Len(rounds) = 0 THEN <<>>
  ELSE LET n == Len(rounds[1]) IN
       [k \in 1 .. n * Len(rounds) |-> rounds[((k - 1) \div n) + 1][((k - 1) % n) + 1]]

(* FindClass makes a reference to the class, which nothing deletes.        *)
FindClass(name) == New(Class(name), {})

(* convertJobjectVectorToArrayList: every element is deleted once added.   *)
convertJobjectVectorToArrayList(list, vec, n) ==
  <<FindClass(list), New(Object(list), {Class(list)})>>
    \o InTurn([i \in 1 .. n |-> <<Use({Object(list), Element(vec, i)}),
                                 DeleteLocalRef(Element(vec, i))>>])

makeStrings(n) == InTurn([i \in 1 .. n |-> <<New(Element("jStr", i), {})>>])
deleteElements(vec, n) == InTurn([i \in 1 .. n |-> <<DeleteLocalRef(Element(vec, i))>>])

(* Mutated form: the cleanup deletes the list too.                         *)
convertAndDeleteArrayList(list, n) ==
  makeStrings(n) \o convertJobjectVectorToArrayList(list, "jStr", n)
    \o deleteElements("jStr", n) \o <<DeleteLocalRef(Object(list))>>

(* Both delete the elements again.                                         *)
convertStringVectorToArrayList(list, n) ==
  makeStrings(n) \o convertJobjectVectorToArrayList(list, "jStr", n) \o deleteElements("jStr", n)

convertIntVectorToArrayList(list, n) ==
  InTurn([i \in 1 .. n |-> <<FindClass("Integer"), FindClass("Integer"),
                            New(Element("integerObj", i), {Class("Integer")})>>])
    \o convertJobjectVectorToArrayList(list, "integerObj", n) \o deleteElements("integerObj", n)

convertTimestampToInstant(variable) ==
  <<FindClass(variable), New(Object(variable), {Class(variable)})>>

(* Mutated form: the name is deleted before it is used.                    *)
convertToJWorkerStatusEarly(i) ==
  <<New(Object("jName"), {})>> \o convertTimestampToInstant("jLastUpdated")
    \o <<FindClass("jWorkerStatus"), DeleteLocalRef(Object("jName")),
         New(Element("jWorker", i),
             {Class("jWorkerStatus"), Object("jName"), Object("jLastUpdated")}),
         DeleteLocalRef(Object("jLastUpdated"))>>

convertToJWorkerStatus(i) ==
  <<New(Object("jName"), {})>> \o convertTimestampToInstant("jLastUpdated")
    \o <<FindClass("jWorkerStatus"),
         New(Element("jWorker", i),
             {Class("jWorkerStatus"), Object("jName"), Object("jLastUpdated")}),
         DeleteLocalRef(Object("jName")), DeleteLocalRef(Object("jLastUpdated"))>>

(* convertToJLBStatus: the workers, deleted when they were added to their  *)
(* list, are deleted again after the result was made.                      *)
convertToJLBStatus(workers, senders) ==
  convertTimestampToInstant("jInstantTimestamp") \o convertTimestampToInstant("jExpiresAt")
    \o convertStringVectorToArrayList("jSenderAddresses", senders)
    \o InTurn([i \in 1 .. workers |-> convertToJWorkerStatus(i)])
    \o convertJobjectVectorToArrayList("jWorkerArrayList", "jWorker", workers)
    \o <<FindClass("jLBStatus"),
         New(Object("jLBStatus"),
             {Class("jLBStatus"), Object("jInstantTimestamp"), Object("jExpiresAt"),
              Object("jWorkerArrayList"), Object("jSenderAddresses")}),
         DeleteLocalRef(Object("jInstantTimestamp")), DeleteLocalRef(Object("jExpiresAt"))>>
    \o deleteElements("jWorker", workers)

(* convertBoostIpToInetAddress and its likes with a port or a host name.   *)
convertBoostIp(class, variable) ==
  <<New(Object("jIpStr"), {}), FindClass(class),
    New(Object(variable), {Class(class), Object("jIpStr")}), DeleteLocalRef(Object("jIpStr"))>>

(* convertToLBOverivew: the parts stay, as many as there are.              *)
convertToLBOverivew(i, workers, senders) ==
  <<New(Object("jLbName"), {}), New(Object("jLbid"), {})>>
    \o convertBoostIp("InetSocketAddress", "jSyncAndPort")
    \o convertBoostIp("InetAddress", "jDataIPv4") \o convertBoostIp("InetAddress", "jDataIPv6")
    \o convertToJLBStatus(workers, senders)
    \o <<FindClass("jOverview"),
         New(Element("jOverviewEntry", i),
             {Class("jOverview"), Object("jLbName"), Object("jLbid"), Object("jSyncAndPort"),
              Object("jDataIPv4"), Object("jDataIPv6"), Object("jLBStatus")})>>

(* convertToJSyncStats, convertToJSendStats and convertToJRecvStats.       *)
convertToJStats == <<FindClass("jStats"), New(Object("result"), {Class("jStats")})>>

(* createOptionalJavaReassembledEvent and, without the buffer,             *)
(* convertLostEventToOptionalJLostEvent.                                   *)
createOptional(buffers) ==
  [i \in 1 .. Len(buffers) |-> New(buffers[i], {})]
    \o <<FindClass("optional"), FindClass("jEvent"),
         New(Object("eventObj"), {Class("jEvent")} \cup {buffers[i] : i \in DOMAIN buffers}),
         New(Object("result"), {Class("optional"), Object("eventObj")})>>

(* Mutated form: the string is not deleted.                                *)
jstringArray2VectorLeak(n) ==
  InTurn([i \in 1 .. n |-> <<New(Element("input", i), {}), Use({Element("input", i)})>>])

jstringArray2Vector(n) ==
  InTurn([i \in 1 .. n |-> <<New(Element("input", i), {}), Use({Element("input", i)}),
                            DeleteLocalRef(Element("input", i))>>])

(* A list is read through an iterator.                                     *)
Iterate(n) ==
  InTurn([i \in 1 .. n |->
           <<Use({Object("iterator")}), New(Element("input", i), {Object("iterator")}),
             Use({Element("input", i)}), DeleteLocalRef(Element("input", i))>>])
    \o <<Use({Object("iterator")}), DeleteLocalRef(Object("iterator"))>>

jstringList2Vector(n) ==
  <<FindClass("list"), FindClass("iterator"), New(Object("iterator"), {})>> \o Iterate(n)

jIntList2Vector(n) ==
  <<FindClass("list"), FindClass("iterator"), New(Object("iterator"), {}), FindClass("integer")>>
    \o Iterate(n)

(* The references made on the way to an address stay until the return.     *)
convertInetSocketAddress ==
  <<FindClass("inetSocketAddress"), New(Object("inetAddress"), {}),
    New(Class("inetAddress"), {Object("inetAddress")}),
    New(Object("ipAddressString"), {Object("inetAddress")}), Use({Object("ipAddressString")})>>

convertInetAddressToBoostIp ==
  <<FindClass("inetAddress"), New(Object("addressBytes"), {}), Use({Object("addressBytes")})>>

(* Those that read one object, an Instant or the field of a peer.          *)
convertInstantToTimestamp == <<FindClass("instant")>>
getLongField == <<FindClass("cls")>>

-----------------------------------------------------------------------------
Method(name, calls) == [name |-> name, calls |-> calls]

Inputs ==
  UNION {{Method("input", jstringArray2Vector(n)), Method("input", jstringList2Vector(n)),
          Method("input", jIntList2Vector(n))} : n \in 0 .. MaxSize}

(* version, whose list has three strings, and getRecvPorts, of two ports.  *)
Lists ==
  UNION {{Method("list", convertStringVectorToArrayList("result", n)),
          Method("list", convertIntVectorToArrayList("result", n))} : n \in 0 .. MaxSize}

getStatus ==
  {Method("getStatus", convertToJLBStatus(w, n)) : w \in 0 .. MaxWorkers, n \in 0 .. MaxSenders}

(* getOverview of LBs with as many workers and senders each.               *)
getOverview ==
  {Method("getOverview",
          InTurn([i \in 1 .. m |-> convertToLBOverivew(i, w, n)])
            \o convertJobjectVectorToArrayList("result", "jOverviewEntry", m)) :
     m \in 0 .. MaxReserved, w \in 0 .. MaxWorkers, n \in 0 .. MaxSenders}

Objects ==
  {Method("object", convertToJStats), Method("object", createOptional(<<>>)),
   Method("object", createOptional(<<Object("jDirectBuffer")>>))}

(* The setters of addresses, sendState, and the constructors.              *)
Arguments ==
  {Method("argument", convertInetSocketAddress), Method("argument", convertInstantToTimestamp),
   Method("argument", getLongField \o convertInetAddressToBoostIp)}

Methods == Arguments \cup Inputs \cup Lists \cup getStatus \cup getOverview \cup Objects

VARIABLES
  method,  \* the native method that runs
  next,    \* the JNI call it has come to
  slots,   \* the slots in use so far, and what each refers to
  ref      \* the C++ variables: the slot each object was given

vars == <<method, next, slots, ref>>

Init ==
  /\ method \in Methods
  /\ next = 1
  /\ slots = <<>>
  /\ ref = <<>>

Call == method.calls[next]
Running == next <= Len(method.calls)

(* The calls still to come use or delete the object of this name, before   *)
(* they make another one.                                                  *)
Mentions(i, x) == x \in method.calls[i].args \/ method.calls[i] = DeleteLocalRef(x)
Makes(i, x) == method.calls[i].op = "new" /\ method.calls[i].name = x

InUse(x) ==
  \E i \in next .. Len(method.calls) :
    Mentions(i, x) /\ \A k \in next .. i - 1 : ~Makes(k, x)

(* The slots JNI may hand out: any free one that a variable still in use   *)
(* stands for, and one of all others, free or above, which are alike.      *)
FreeSlots == {s \in DOMAIN slots : slots[s] = Free}
StaleSlots == {s \in FreeSlots : \E x \in DOMAIN ref : ref[x] = s /\ InUse(x)}
AnySlot ==
  StaleSlots \cup {CHOOSE s \in (FreeSlots \ StaleSlots) \cup {Len(slots) + 1} : TRUE}

(* Mutated form: the reference is not kept.                                *)
NewRefDropped ==
  /\ Running /\ Call.op = "new"
  /\ \E s \in AnySlot :
       slots' = [i \in DOMAIN slots \cup {s} |-> IF i = s THEN Call.name ELSE slots[i]]
  /\ next' = next + 1
  /\ UNCHANGED <<method, ref>>

NewRef ==
  /\ Running /\ Call.op = "new"
  /\ \E s \in AnySlot :
       /\ slots' = [i \in DOMAIN slots \cup {s} |-> IF i = s THEN Call.name ELSE slots[i]]
       /\ ref' = [x \in DOMAIN ref \cup {Call.name} |-> IF x = Call.name THEN s ELSE ref[x]]
  /\ next' = next + 1
  /\ UNCHANGED method

UseRefs ==
  /\ Running /\ Call.op = "use"
  /\ next' = next + 1
  /\ UNCHANGED <<method, slots, ref>>

DeleteRef ==
  /\ Running /\ Call.op = "delete"
  /\ slots' = [slots EXCEPT ![ref[Call.name]] = Free]
  /\ next' = next + 1
  /\ UNCHANGED <<method, ref>>

Next == NewRef \/ UseRefs \/ DeleteRef

Spec == Init /\ [][Next]_vars

-----------------------------------------------------------------------------
TypeOK ==
  /\ method \in Methods
  /\ next \in 1 .. Len(method.calls) + 1
  /\ slots \in Seq(DOMAIN ref \cup {Free})
  /\ \A x \in DOMAIN ref : ref[x] \in DOMAIN slots

IsAlive(x) == x \in DOMAIN ref /\ slots[ref[x]] = x

(* No object is handed to a JNI call through a reference that was deleted, *)
(* or that by now stands for another object: what is added to a list or    *)
(* given to a constructor is what the code has just made, although slots   *)
(* are reused and elements are deleted twice.  The status in an overview   *)
(* is the exception: the deletion StatusIsAlive is about may have hit it.   *)
ArgumentsAreAlive ==
  Running => \A x \in Call.args \ {Object("jLBStatus")} : IsAlive(x)

(* A list returned by version() or getRecvPorts() survives the second      *)
(* deletion of its elements, and so does the list of an overview.          *)
ListIsAlive ==
  method.name \in {"list", "getOverview", "object"} /\ ~Running => IsAlive(Object("result"))

(* However long a list of senders or cores is, reading it takes one slot   *)
(* for its elements: JNI promises no more than 16 slots in all.            *)
OneElementAtATime ==
  method.name = "input" =>
    \A s1, s2 \in DOMAIN slots :
      slots[s1][2] = "input" /\ slots[s2][2] = "input" => s1 = s2

(* LbManager.java: getStatus returns "LBStatus instance": a reference to   *)
(* the LBStatus it has made.                                               *)
StatusIsAlive ==
  method.name = "getStatus" /\ ~Running => IsAlive(Object("jLBStatus"))
=============================================================================
