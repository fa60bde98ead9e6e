---------------------------- MODULE NativeCalls ----------------------------
(***************************************************************************)
(* A native method from its call to its return: it converts its arguments, *)
(* asks the library, converts the answer, and somewhere on the way it may  *)
(* set a Java exception, which takes effect only when it returns.          *)
(*                                                                         *)
(* A method is the sequence of these steps, each named after the function  *)
(* that takes it.  An argument is good, or bad in the way its conversion   *)
(* has to reckon with.  An exception belongs to the thread that runs the   *)
(* method, so that one thread is enough.  The methods that poll events are *)
(* the subject of Reassembler, where an error is an empty Optional.        *)
(***************************************************************************)
EXTENDS Naturals, Sequences

(* Conversions of arguments, by what a bad one leads to.  A null, an       *)
(* InetSocketAddress that was not resolved or the text of no address ends  *)
(* the JVM: by an access to a null reference, or by a C++ exception that   *)
(* leaves the native method.                                               *)
StringConversions == {"jstring2string", "jstringList2Vector"}
ObjectConversions ==
  {"getEjfatUriFromField", "jIntList2Vector", "convertInetAddressToBoostIp",
   "convertInetSocketAddress", "convertInstantToTimestamp", "parseFlags"}
EndTheJvm == StringConversions \cup ObjectConversions \cup {"make_address"}

(* An exception is set and the method returns.                             *)
Files == {"getFromINI", "getFromFile"}
ThrowAndReturn == Files \cup {"duration_from_string"}

(* An exception is set and the method goes on: a direct buffer without     *)
(* memory, such as getEvent makes of an empty queue.                       *)
ThrowAndGoOn == {"getDirectByteBufferPointer"}

(* A call to JNI between the conversions and the library.                  *)
KeepsRef == {"NewGlobalRef"}

SslCredentials == {"parseSslCredemtialOptions"}

(* The library is asked to do something, which it can refuse, or is told   *)
(* or read something, which it cannot.                                     *)
Asks == {"library", "constructor"}
Tells == {"tell", "new LBManager"}

(* The conversion of the answer to a Java object.                          *)
Results == {"convertResult"}

Kinds == EndTheJvm \cup ThrowAndReturn \cup ThrowAndGoOn \cup KeepsRef \cup SslCredentials
           \cup Asks \cup Tells \cup Results

(* Steps that call JNI functions, if all goes well or to throw a refusal.  *)
UseJni ==
  (EndTheJvm \ {"make_address"}) \cup ThrowAndReturn \cup ThrowAndGoOn \cup KeepsRef
    \cup SslCredentials \cup Asks \cup Results

-----------------------------------------------------------------------------
M(name, steps) == [name |-> name, steps |-> steps]

UriConstructors ==
  {M("initEjfatUri", <<"jstring2string", "constructor">>),
   M("getUriFromFile", <<"jstring2string", "getFromFile", "tell">>)}

(* setInstanceToken, setLbName, setLbid, setSessionId; setSyncAddr and     *)
(* setDataAddr.                                                            *)
UriSetters ==
  {M("set", <<"jstring2string", "tell">>),
   M("setAddr", <<"convertInetSocketAddress", "tell">>)}

(* The tokens and addresses, which may be missing; the names, which are    *)
(* empty then.                                                             *)
UriGetters ==
  {M("getToken", <<"library", "convertResult">>), M("getName", <<"tell", "convertResult">>)}

LbConstructor ==
  {M("initLbManager",
     <<"getEjfatUriFromField", "parseSslCredemtialOptions", "new LBManager">>)}

reserveLB ==
  {M("reserveLB for a duration",
     <<"jstring2string", "jstring2string", "duration_from_string", "jstringList2Vector",
       "library">>),
   M("reserveLB for seconds", <<"jstring2string", "jstringList2Vector", "library">>)}

(* getLB, and in the same way deregisterWorker and freeLB.                 *)
getLB == {M("getLB", <<"library">>), M("getLB of an lbid", <<"jstring2string", "library">>)}

(* getStatus; getOverview and version are as getStatus without lbid.       *)
getStatusMethods ==
  {M("getStatus", <<"library", "convertResult">>),
   M("getStatus of an lbid", <<"jstring2string", "library", "convertResult">>)}

Senders == {M("addSenders", <<"jstringList2Vector", "library">>)}

registerWorker ==
  {M("registerWorker", <<"jstring2string", "jstring2string", "make_address", "library">>)}

sendState ==
  {M("sendState", <<"library">>),
   M("sendState with a timestamp", <<"convertInstantToTimestamp", "library">>)}

SegmenterConstructors ==
  {M("initSegmentor", <<"getEjfatUriFromField", "constructor">>),
   M("initSegmentor with flags", <<"getEjfatUriFromField", "parseFlags", "constructor">>),
   M("initSegmentor with ini file",
     <<"getEjfatUriFromField", "jstring2string", "getFromINI", "constructor">>)}

Sends ==
  {M("sendEventDirect", <<"getDirectByteBufferPointer", "library">>),
   M("addToSendQueueDirect", <<"getDirectByteBufferPointer", "NewGlobalRef", "library">>)}

(* Those with cores; those with a number of threads do without the list.   *)
ReassemblerConstructors ==
  {M("initReassembler",
     <<"getEjfatUriFromField", "jIntList2Vector", "convertInetAddressToBoostIp",
       "constructor">>),
   M("initReassembler with flags",
     <<"getEjfatUriFromField", "parseFlags", "jIntList2Vector",
       "convertInetAddressToBoostIp", "constructor">>),
   M("initReassembler with ini file",
     <<"getEjfatUriFromField", "jIntList2Vector", "convertInetAddressToBoostIp",
       "jstring2string", "getFromINI", "constructor">>)}

(* openAndStart of Segmenter and Reassembler, and deregisterWorker.        *)
WorkerCalls ==
  {M("Reassembler.registerWorker", <<"jstring2string", "library">>),
   M("openAndStart", <<"library">>)}

(* Statistics, ports and sizes of Segmenter and Reassembler.               *)
Figures == {M("getStats", <<"tell", "convertResult">>)}

NativeMethods ==
  UriConstructors \cup UriSetters \cup UriGetters \cup LbConstructor \cup reserveLB \cup getLB
    \cup getStatusMethods \cup Senders \cup registerWorker \cup sendState \cup SegmenterConstructors
    \cup Sends \cup ReassemblerConstructors \cup WorkerCalls \cup Figures

(* The SSL options: none, as three nulls; the names of files that can be   *)
(* read or cannot; certificates themselves, not from a file; fewer than    *)
(* three strings.                                                          *)
Ssl == {"none", "files", "no such files", "certificates", "too few"}

Argument(kind) ==
  IF kind \in SslCredentials THEN Ssl
  ELSE IF kind \in EndTheJvm \cup ThrowAndReturn \cup ThrowAndGoOn THEN {"good", "bad"}
  ELSE {"good"}

ArgumentsOf(m) ==
  {args \in [DOMAIN m.steps -> UNION {Argument(m.steps[i]) : i \in DOMAIN m.steps}] :
     \A i \in DOMAIN m.steps : args[i] \in Argument(m.steps[i])}

VARIABLES
  call,     \* the method that runs
  args,     \* its arguments, by the step that converts them
  pc,       \* the step it has come to
  pending,  \* the step that has set the pending exception, or 0
  asked,    \* the library has been asked to do something, or told
  refused,  \* and has refused
  trusted,  \* the certificates an LBManager was made with
  outcome   \* "running", "returned", "ended": the JVM is gone

nativeVars == <<call, args, pc, pending, asked, refused, trusted, outcome>>

NoException == 0

NativeInit ==
  /\ call \in NativeMethods
  /\ args \in ArgumentsOf(call)
  /\ pc = 1
  /\ pending = NoException
  /\ asked = FALSE
  /\ refused = FALSE
  /\ trusted = "none"
  /\ outcome = "running"

Executing == outcome = "running" /\ pc <= Len(call.steps)
Step == call.steps[pc]
End == Len(call.steps) + 1

-----------------------------------------------------------------------------
Convert ==
  /\ Executing
  /\ Step \in EndTheJvm \cup ThrowAndReturn \cup ThrowAndGoOn
  /\ args[pc] = "good"
  /\ pc' = pc + 1
  /\ UNCHANGED <<call, args, pending, asked, refused, trusted, outcome>>

EndJvm ==
  /\ Executing
  /\ Step \in EndTheJvm
  /\ args[pc] = "bad"
  /\ outcome' = "ended"
  /\ UNCHANGED <<call, args, pc, pending, asked, refused, trusted>>

(* Mutated form: the return after throwJavaException is missing.           *)
ThrowWithoutReturn ==
  /\ Executing
  /\ Step \in ThrowAndReturn
  /\ args[pc] = "bad"
  /\ pending' = pc
  /\ pc' = pc + 1
  /\ UNCHANGED <<call, args, asked, refused, trusted, outcome>>

throwJavaException ==
  /\ Executing
  /\ Step \in ThrowAndReturn
  /\ args[pc] = "bad"
  /\ pending' = pc
  /\ pc' = End
  /\ UNCHANGED <<call, args, asked, refused, trusted, outcome>>

getDirectByteBufferPointer ==
  /\ Executing
  /\ Step \in ThrowAndGoOn
  /\ args[pc] = "bad"
  /\ pending' = pc
  /\ pc' = pc + 1
  /\ UNCHANGED <<call, args, asked, refused, trusted, outcome>>

(* The buffer is kept for the send thread.  Behind an exception JNI does   *)
(* not allow the call, nor does it say what becomes of it: it is done, or  *)
(* the process exits.                                                      *)
NewGlobalRef ==
  /\ Executing
  /\ Step \in KeepsRef
  /\ \/ pc' = pc + 1 /\ UNCHANGED outcome
     \/ pending # NoException /\ outcome' = "ended" /\ UNCHANGED pc
  /\ UNCHANGED <<call, args, pending, asked, refused, trusted>>

(* The options are taken for file names in any case.  Files that cannot be *)
(* read give default options without a word.  Of files that can, the error *)
(* is asked for, which there is none of: an exception with whatever        *)
(* message, or one of C++ that ends the JVM.  Three strings are read,      *)
(* however many there are: the read past the end of the vector ends the    *)
(* JVM, or finds some name of no file.                                     *)
parseSslCredemtialOptions ==
  /\ Executing
  /\ Step \in SslCredentials
  /\ IF args[pc] = "files"
     THEN pending' = pc /\ pc' = pc + 1 /\ trusted' = "files" /\ UNCHANGED outcome
     ELSE pc' = pc + 1 /\ UNCHANGED <<pending, trusted, outcome>>
  /\ UNCHANGED <<call, args, asked, refused>>

parseSslCredemtialOptionsEndsJvm ==
  /\ Executing
  /\ Step \in SslCredentials
  /\ args[pc] \in {"files", "too few"}
  /\ outcome' = "ended"
  /\ UNCHANGED <<call, args, pc, pending, asked, refused, trusted>>

Tell ==
  /\ Executing
  /\ Step \in Tells
  /\ asked' = TRUE
  /\ pc' = pc + 1
  /\ UNCHANGED <<call, args, pending, refused, trusted, outcome>>

Accept ==
  /\ Executing
  /\ Step \in Asks
  /\ asked' = TRUE
  /\ pc' = pc + 1
  /\ UNCHANGED <<call, args, pending, refused, trusted, outcome>>

(* Mutated form: the error is not tested for.                              *)
RefuseUnseen ==
  /\ Executing
  /\ Step \in Asks
  /\ asked' = TRUE
  /\ refused' = TRUE
  /\ pc' = pc + 1
  /\ UNCHANGED <<call, args, pending, trusted, outcome>>

(* An error in the result, or an E2SARException of a constructor.  If an   *)
(* exception is pending already, throwJavaException calls FindClass behind *)
(* it: the class is found and the exception replaced, or left; or it is    *)
(* not, and the process exits.                                             *)
Refuse ==
  /\ Executing
  /\ Step \in Asks
  /\ asked' = TRUE
  /\ refused' = TRUE
  /\ pending' \in {pc} \cup ({pending} \ {NoException})
  /\ pc' = End
  /\ UNCHANGED <<call, args, trusted, outcome>>

RefuseEndsJvm ==
  /\ Executing
  /\ Step \in Asks
  /\ pending # NoException
  /\ asked' = TRUE
  /\ refused' = TRUE
  /\ pc' = End
  /\ outcome' = "ended"
  /\ UNCHANGED <<call, args, pending, trusted>>

convertResult ==
  /\ Executing
  /\ Step \in Results
  /\ pc' = pc + 1
  /\ UNCHANGED <<call, args, pending, asked, refused, trusted, outcome>>

(* A class is missing: FindClass sets an Error, and the code goes on to    *)
(* FindClass the class of its own exception.  JNI does not say what        *)
(* becomes of that: the Error stays, or the process exits.  A class is     *)
(* missing from a jar packed for an application without the classes that   *)
(* only the native library names.                                          *)
convertResultFails ==
  /\ Executing
  /\ Step \in Results
  /\ \/ pending' = pc /\ pc' = pc + 1 /\ UNCHANGED outcome
     \/ outcome' = "ended" /\ UNCHANGED <<pending, pc>>
  /\ UNCHANGED <<call, args, asked, refused, trusted>>

Return ==
  /\ outcome = "running"
  /\ pc = End
  /\ outcome' = "returned"
  /\ UNCHANGED <<call, args, pc, pending, asked, refused, trusted>>

(* The application catches the exception, if any, and calls again.         *)
CallNext ==
  /\ outcome = "returned"
  /\ call' \in NativeMethods
  /\ args' \in ArgumentsOf(call')
  /\ pc' = 1
  /\ pending' = NoException
  /\ asked' = FALSE
  /\ refused' = FALSE
  /\ trusted' = "none"
  /\ outcome' = "running"

NativeNext ==
  \/ Convert \/ EndJvm \/ throwJavaException \/ getDirectByteBufferPointer \/ NewGlobalRef
  \/ parseSslCredemtialOptions \/ parseSslCredemtialOptionsEndsJvm
  \/ Tell \/ Accept \/ Refuse \/ RefuseEndsJvm
  \/ convertResult \/ convertResultFails \/ Return \/ CallNext

NativeSpec == NativeInit /\ [][NativeNext]_nativeVars

-----------------------------------------------------------------------------
NativeTypeOK ==
  /\ call \in NativeMethods
  /\ args \in ArgumentsOf(call)
  /\ pc \in 1 .. End
  /\ pending \in 0 .. Len(call.steps)
  /\ asked \in BOOLEAN /\ refused \in BOOLEAN
  /\ trusted \in {"none", "files"}
  /\ outcome \in {"running", "returned", "ended"}

Cause == call.steps[pending]

(* An exception about an argument means that the library was not asked: a  *)
(* caller who puts the argument right and calls again reserves, registers  *)
(* or sends once.  Not so for the two conversions that go on: a buffer     *)
(* without memory is still sent, and an LBManager is still made.           *)
NothingDoneBehindAnException ==
  pending # NoException /\ asked =>
    Cause \in Asks \cup ThrowAndGoOn \cup SslCredentials \cup Results

(* No step that calls JNI functions begins while an exception is pending,  *)
(* when JNI allows no call but a few, although no method tests for one     *)
(* between its steps; nor does the question whose refusal would be thrown  *)
(* on top of it.  The code breaks this with one exception, and with no     *)
(* other: that of a direct buffer without memory, behind which             *)
(* addToSendQueueDirect makes a global reference and both sends may throw  *)
(* the refusal of the library.                                             *)
JniBeginsClean ==
  Executing /\ Step \in UseJni /\ pending # NoException => Cause \in ThrowAndGoOn

(* A method that returns without an exception has done all it was called   *)
(* for: arguments as they were given, the library asked and not refused;   *)
(* the pointer a constructor puts in its field is to an instance.  Not so  *)
(* for SSL options, where a file that cannot be read passes in silence.    *)
SuccessIsReal ==
  outcome = "returned" /\ pending = NoException =>
    /\ ~refused
    /\ asked
    /\ \A i \in DOMAIN call.steps : args[i] # "bad"
=============================================================================
