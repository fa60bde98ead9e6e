------------------------- MODULE NativeCalls_proofs -------------------------
(***************************************************************************)
(* Proofs about NativeCalls, for every native method with every            *)
(* combination of good and bad arguments, called any number of times.      *)
(*                                                                         *)
(* A method nowhere tests for a pending exception.  That none disturbs     *)
(* what follows rests on the order of its steps, WellOrdered, which holds  *)
(* of each method's code, and on what an exception leaves behind.          *)
(***************************************************************************)
EXTENDS MCNativeMethods, JniLocalRefs_proofs

Conversions ==
  EndTheJvm \cup ThrowAndReturn \cup ThrowAndGoOn \cup KeepsRef \cup SslCredentials

Plain == EndTheJvm \cup ThrowAndReturn

(* What a step of the kind of x may be followed by, now or later.  The     *)
(* arguments are converted before the library is asked or told, once, and  *)
(* the answer is converted last.  Only a buffer is converted with an       *)
(* exception left pending before the library is asked; behind SSL options  *)
(* the library is told, which it cannot refuse.                            *)
MayFollow(y, x) ==
  \/ x \in Plain /\ y \in Kinds
  \/ x \in ThrowAndGoOn /\ y \in KeepsRef \cup Asks
  \/ x \in KeepsRef /\ y \in Asks
  \/ x \in SslCredentials /\ y \in Tells
  \/ x \in Asks \cup Tells /\ y \in Results

WellOrdered(steps) ==
  /\ steps \in Seq(Kinds)
  /\ \E a \in DOMAIN steps : steps[a] \in Asks \cup Tells
  /\ \A i, j \in DOMAIN steps : i < j => MayFollow(steps[j], steps[i])

(* What an exception says of the rest, by the step that has set it.        *)
PendingInv ==
  pending # NoException =>
    /\ pending < pc
    /\ Cause \in ThrowAndReturn => pc = End /\ ~asked
    /\ Cause \in Asks \cup Results => pc = End
    /\ Cause \in ThrowAndReturn \cup ThrowAndGoOn \cup SslCredentials \cup Asks \cup Results

(* What the library has been asked, by the step the method has come to.    *)
AskedInv ==
  /\ asked => \E i \in DOMAIN call.steps : i < pc /\ call.steps[i] \in Asks \cup Tells
  /\ pending = NoException /\ ~asked =>
       \A i \in DOMAIN call.steps : i < pc => call.steps[i] \notin Asks \cup Tells
  /\ refused => pending # NoException /\ pc = End

(* The arguments behind a method without an exception were good.           *)
ArgumentsInv ==
  pending = NoException => \A i \in DOMAIN call.steps : i < pc => args[i] # "bad"

CallInv ==
  /\ NativeTypeOK
  /\ outcome = "returned" => pc = End
  /\ PendingInv
  /\ AskedInv
  /\ ArgumentsInv

-----------------------------------------------------------------------------
(* The kinds of steps are different ones.                                  *)
LEMMA KindsDiffer ==
  /\ Conversions \cap (Asks \cup Tells \cup Results) = {}
  /\ Asks \cap Tells = {} /\ (Asks \cup Tells) \cap Results = {}
  /\ Plain \cap (ThrowAndGoOn \cup KeepsRef \cup SslCredentials) = {}
  /\ EndTheJvm \cap ThrowAndReturn = {}
  /\ ThrowAndGoOn \cap (KeepsRef \cup SslCredentials) = {}
  /\ KeepsRef \cap SslCredentials = {}
  /\ UseJni \cap Tells = {}
BY
DEF Conversions, Plain, Asks, Tells, Results, EndTheJvm, ThrowAndReturn, ThrowAndGoOn,
    KeepsRef, SslCredentials, UseJni, StringConversions, ObjectConversions, Files

(* The shapes of the methods: up to five conversions, a question, and in   *)
(* some an answer.                                                         *)
LEMMA ShapeA ==
  ASSUME NEW a \in Asks \cup Tells
  PROVE  WellOrdered(<<a>>)
<1> DEFINE s == <<a>>
<1>1. DOMAIN s = 1 .. 1 /\ Len(s) = 1
  OBVIOUS
<1>2. s[1] = a
  OBVIOUS
<1>3. s \in Seq(Kinds)
  BY DEF Kinds, Plain
<1> HIDE DEF s
<1>4. WellOrdered(s)
  BY <1>1, <1>2, <1>3 DEF WellOrdered, MayFollow, Plain, Kinds
<1> QED BY <1>4 DEF s

LEMMA ShapeAR ==
  ASSUME NEW a \in Asks \cup Tells, NEW r \in Results
  PROVE  WellOrdered(<<a, r>>)
<1> DEFINE s == <<a, r>>
<1>1. DOMAIN s = 1 .. 2 /\ Len(s) = 2
  OBVIOUS
<1>2. s[1] = a /\ s[2] = r
  OBVIOUS
<1>3. s \in Seq(Kinds)
  BY DEF Kinds, Plain
<1> HIDE DEF s
<1>4. WellOrdered(s)
  BY <1>1, <1>2, <1>3 DEF WellOrdered, MayFollow, Plain, Kinds
<1> QED BY <1>4 DEF s

LEMMA ShapeCA ==
  ASSUME NEW c \in Plain, NEW a \in Asks \cup Tells
  PROVE  WellOrdered(<<c, a>>)
<1> DEFINE s == <<c, a>>
<1>1. DOMAIN s = 1 .. 2 /\ Len(s) = 2
  OBVIOUS
<1>2. s[1] = c /\ s[2] = a
  OBVIOUS
<1>3. s \in Seq(Kinds)
  BY DEF Kinds, Plain
<1> HIDE DEF s
<1>4. WellOrdered(s)
  BY <1>1, <1>2, <1>3 DEF WellOrdered, MayFollow, Plain, Kinds
<1> QED BY <1>4 DEF s

LEMMA ShapeCAR ==
  ASSUME NEW c \in Plain, NEW a \in Asks \cup Tells, NEW r \in Results
  PROVE  WellOrdered(<<c, a, r>>)
<1> DEFINE s == <<c, a, r>>
<1>1. DOMAIN s = 1 .. 3 /\ Len(s) = 3
  OBVIOUS
<1>2. s[1] = c /\ s[2] = a /\ s[3] = r
  OBVIOUS
<1>3. s \in Seq(Kinds)
  BY DEF Kinds, Plain
<1> HIDE DEF s
<1>4. WellOrdered(s)
  BY <1>1, <1>2, <1>3 DEF WellOrdered, MayFollow, Plain, Kinds
<1> QED BY <1>4 DEF s

LEMMA ShapeCCA ==
  ASSUME NEW c1 \in Plain, NEW c2 \in Plain, NEW a \in Asks \cup Tells
  PROVE  WellOrdered(<<c1, c2, a>>)
<1> DEFINE s == <<c1, c2, a>>
<1>1. DOMAIN s = 1 .. 3 /\ Len(s) = 3
  OBVIOUS
<1>2. s[1] = c1 /\ s[2] = c2 /\ s[3] = a
  OBVIOUS
<1>3. s \in Seq(Kinds)
  BY DEF Kinds, Plain
<1> HIDE DEF s
<1>4. WellOrdered(s)
  BY <1>1, <1>2, <1>3 DEF WellOrdered, MayFollow, Plain, Kinds
<1> QED BY <1>4 DEF s

LEMMA ShapeCCCA ==
  ASSUME NEW c1 \in Plain, NEW c2 \in Plain, NEW c3 \in Plain,
         NEW a \in Asks \cup Tells
  PROVE  WellOrdered(<<c1, c2, c3, a>>)
<1> DEFINE s == <<c1, c2, c3, a>>
<1>1. DOMAIN s = 1 .. 4 /\ Len(s) = 4
  OBVIOUS
<1>2. s[1] = c1 /\ s[2] = c2 /\ s[3] = c3 /\ s[4] = a
  OBVIOUS
<1>3. s \in Seq(Kinds)
  BY DEF Kinds, Plain
<1> HIDE DEF s
<1>4. WellOrdered(s)
  BY <1>1, <1>2, <1>3 DEF WellOrdered, MayFollow, Plain, Kinds
<1> QED BY <1>4 DEF s

LEMMA ShapeCCCCA ==
  ASSUME NEW c1 \in Plain, NEW c2 \in Plain, NEW c3 \in Plain,
         NEW c4 \in Plain, NEW a \in Asks \cup Tells
  PROVE  WellOrdered(<<c1, c2, c3, c4, a>>)
<1> DEFINE s == <<c1, c2, c3, c4, a>>
<1>1. DOMAIN s = 1 .. 5 /\ Len(s) = 5
  OBVIOUS
<1>2. s[1] = c1 /\ s[2] = c2 /\ s[3] = c3 /\ s[4] = c4 /\ s[5] = a
  OBVIOUS
<1>3. s \in Seq(Kinds)
  BY DEF Kinds, Plain
<1> HIDE DEF s
<1>4. WellOrdered(s)
  BY <1>1, <1>2, <1>3 DEF WellOrdered, MayFollow, Plain, Kinds
<1> QED BY <1>4 DEF s

LEMMA ShapeCCCCCA ==
  ASSUME NEW c1 \in Plain, NEW c2 \in Plain, NEW c3 \in Plain,
         NEW c4 \in Plain, NEW c5 \in Plain, NEW a \in Asks \cup Tells
  PROVE  WellOrdered(<<c1, c2, c3, c4, c5, a>>)
<1> DEFINE s == <<c1, c2, c3, c4, c5, a>>
<1>1. DOMAIN s = 1 .. 6 /\ Len(s) = 6
  OBVIOUS
<1>2. s[1] = c1 /\ s[2] = c2 /\ s[3] = c3 /\ s[4] = c4 /\ s[5] = c5 /\ s[6] = a
  OBVIOUS
<1>3. s \in Seq(Kinds)
  BY DEF Kinds, Plain
<1> HIDE DEF s
<1>4. WellOrdered(s)
  BY <1>1, <1>2, <1>3 DEF WellOrdered, MayFollow, Plain, Kinds
<1> QED BY <1>4 DEF s

(* The ones that may go on behind an exception.                            *)
LEMMA ShapeSsl ==
  ASSUME NEW c \in Plain, NEW ssl \in SslCredentials, NEW t \in Tells
  PROVE  WellOrdered(<<c, ssl, t>>)
<1> DEFINE s == <<c, ssl, t>>
<1>1. DOMAIN s = 1 .. 3 /\ Len(s) = 3
  OBVIOUS
<1>2. s[1] = c /\ s[2] = ssl /\ s[3] = t
  OBVIOUS
<1>3. s \in Seq(Kinds)
  BY DEF Kinds, Plain
<1> HIDE DEF s
<1>4. WellOrdered(s)
  BY <1>1, <1>2, <1>3 DEF WellOrdered, MayFollow, Plain, Kinds
<1> QED BY <1>4 DEF s

LEMMA ShapeSend ==
  ASSUME NEW b \in ThrowAndGoOn, NEW a \in Asks
  PROVE  WellOrdered(<<b, a>>)
<1> DEFINE s == <<b, a>>
<1>1. DOMAIN s = 1 .. 2 /\ Len(s) = 2
  OBVIOUS
<1>2. s[1] = b /\ s[2] = a
  OBVIOUS
<1>3. s \in Seq(Kinds)
  BY DEF Kinds, Plain
<1> HIDE DEF s
<1>4. WellOrdered(s)
  BY <1>1, <1>2, <1>3 DEF WellOrdered, MayFollow, Plain, Kinds
<1> QED BY <1>4 DEF s

LEMMA ShapeQueue ==
  ASSUME NEW b \in ThrowAndGoOn, NEW k \in KeepsRef, NEW a \in Asks
  PROVE  WellOrdered(<<b, k, a>>)
<1> DEFINE s == <<b, k, a>>
<1>1. DOMAIN s = 1 .. 3 /\ Len(s) = 3
  OBVIOUS
<1>2. s[1] = b /\ s[2] = k /\ s[3] = a
  OBVIOUS
<1>3. s \in Seq(Kinds)
  BY DEF Kinds, Plain
<1> HIDE DEF s
<1>4. WellOrdered(s)
  BY <1>1, <1>2, <1>3 DEF WellOrdered, MayFollow, Plain, Kinds
<1> QED BY <1>4 DEF s

(* Which steps of the code are of which kind.                              *)
LEMMA KindOfStep ==
  /\ "jstring2string" \in Plain /\ "jstringList2Vector" \in Plain
  /\ "jIntList2Vector" \in Plain /\ "getEjfatUriFromField" \in Plain
  /\ "convertInetAddressToBoostIp" \in Plain /\ "convertInetSocketAddress" \in Plain
  /\ "convertInstantToTimestamp" \in Plain /\ "parseFlags" \in Plain
  /\ "make_address" \in Plain /\ "getFromINI" \in Plain /\ "getFromFile" \in Plain
  /\ "duration_from_string" \in Plain
  /\ "getDirectByteBufferPointer" \in ThrowAndGoOn /\ "NewGlobalRef" \in KeepsRef
  /\ "parseSslCredemtialOptions" \in SslCredentials
  /\ "library" \in Asks /\ "constructor" \in Asks
  /\ "tell" \in Tells /\ "new LBManager" \in Tells
  /\ "convertResult" \in Results
BY
DEF Plain, Asks, Tells, Results, EndTheJvm, ThrowAndReturn, ThrowAndGoOn, KeepsRef,
    SslCredentials, StringConversions, ObjectConversions, Files

LEMMA StepsOfM == \A name, steps : M(name, steps).steps = steps
BY DEF M

(* Each method, group by group, from the code.                             *)
LEMMA MethodsAreWellOrdered ==
  ASSUME NEW m \in NativeMethods
  PROVE  WellOrdered(m.steps)
<1>1. ASSUME m \in UriConstructors PROVE WellOrdered(m.steps)
  <2>1. WellOrdered(<<"jstring2string", "constructor">>)
    BY KindOfStep, ShapeCA
  <2>2. WellOrdered(<<"jstring2string", "getFromFile", "tell">>)
    BY KindOfStep, ShapeCCA
  <2> QED BY <1>1, <2>1, <2>2, StepsOfM DEF UriConstructors
<1>2. ASSUME m \in UriSetters PROVE WellOrdered(m.steps)
  <2>1. WellOrdered(<<"jstring2string", "tell">>)
    BY KindOfStep, ShapeCA
  <2>2. WellOrdered(<<"convertInetSocketAddress", "tell">>)
    BY KindOfStep, ShapeCA
  <2> QED BY <1>2, <2>1, <2>2, StepsOfM DEF UriSetters
<1>3. ASSUME m \in UriGetters PROVE WellOrdered(m.steps)
  <2>1. WellOrdered(<<"library", "convertResult">>)
    BY KindOfStep, ShapeAR
  <2>2. WellOrdered(<<"tell", "convertResult">>)
    BY KindOfStep, ShapeAR
  <2> QED BY <1>3, <2>1, <2>2, StepsOfM DEF UriGetters
<1>4. ASSUME m \in LbConstructor PROVE WellOrdered(m.steps)
  <2>1. WellOrdered(<<"getEjfatUriFromField", "parseSslCredemtialOptions", "new LBManager">>)
    BY KindOfStep, ShapeSsl
  <2> QED BY <1>4, <2>1, StepsOfM DEF LbConstructor
<1>5. ASSUME m \in reserveLB PROVE WellOrdered(m.steps)
  <2>1. WellOrdered(<<"jstring2string", "jstring2string", "duration_from_string",
                    "jstringList2Vector", "library">>)
    BY KindOfStep, ShapeCCCCA
  <2>2. WellOrdered(<<"jstring2string", "jstringList2Vector", "library">>)
    BY KindOfStep, ShapeCCA
  <2> QED BY <1>5, <2>1, <2>2, StepsOfM DEF reserveLB
<1>6. ASSUME m \in getLB PROVE WellOrdered(m.steps)
  <2>1. WellOrdered(<<"library">>)
    BY KindOfStep, ShapeA
  <2>2. WellOrdered(<<"jstring2string", "library">>)
    BY KindOfStep, ShapeCA
  <2> QED BY <1>6, <2>1, <2>2, StepsOfM DEF getLB
<1>7. ASSUME m \in getStatusMethods PROVE WellOrdered(m.steps)
  <2>1. WellOrdered(<<"library", "convertResult">>)
    BY KindOfStep, ShapeAR
  <2>2. WellOrdered(<<"jstring2string", "library", "convertResult">>)
    BY KindOfStep, ShapeCAR
  <2> QED BY <1>7, <2>1, <2>2, StepsOfM DEF getStatusMethods
<1>8. ASSUME m \in Senders PROVE WellOrdered(m.steps)
  <2>1. WellOrdered(<<"jstringList2Vector", "library">>)
    BY KindOfStep, ShapeCA
  <2> QED BY <1>8, <2>1, StepsOfM DEF Senders
<1>9. ASSUME m \in registerWorker PROVE WellOrdered(m.steps)
  <2>1. WellOrdered(<<"jstring2string", "jstring2string", "make_address", "library">>)
    BY KindOfStep, ShapeCCCA
  <2> QED BY <1>9, <2>1, StepsOfM DEF registerWorker
<1>10. ASSUME m \in sendState PROVE WellOrdered(m.steps)
  <2>1. WellOrdered(<<"library">>)
    BY KindOfStep, ShapeA
  <2>2. WellOrdered(<<"convertInstantToTimestamp", "library">>)
    BY KindOfStep, ShapeCA
  <2> QED BY <1>10, <2>1, <2>2, StepsOfM DEF sendState
<1>11. ASSUME m \in SegmenterConstructors PROVE WellOrdered(m.steps)
  <2>1. WellOrdered(<<"getEjfatUriFromField", "constructor">>)
    BY KindOfStep, ShapeCA
  <2>2. WellOrdered(<<"getEjfatUriFromField", "parseFlags", "constructor">>)
    BY KindOfStep, ShapeCCA
  <2>3. WellOrdered(<<"getEjfatUriFromField", "jstring2string", "getFromINI", "constructor">>)
    BY KindOfStep, ShapeCCCA
  <2> QED BY <1>11, <2>1, <2>2, <2>3, StepsOfM DEF SegmenterConstructors
<1>12. ASSUME m \in Sends PROVE WellOrdered(m.steps)
  <2>1. WellOrdered(<<"getDirectByteBufferPointer", "library">>)
    BY KindOfStep, ShapeSend
  <2>2. WellOrdered(<<"getDirectByteBufferPointer", "NewGlobalRef", "library">>)
    BY KindOfStep, ShapeQueue
  <2> QED BY <1>12, <2>1, <2>2, StepsOfM DEF Sends
<1>13. ASSUME m \in ReassemblerConstructors PROVE WellOrdered(m.steps)
  <2>1. WellOrdered(<<"getEjfatUriFromField", "jIntList2Vector",
                    "convertInetAddressToBoostIp", "constructor">>)
    BY KindOfStep, ShapeCCCA
  <2>2. WellOrdered(<<"getEjfatUriFromField", "parseFlags", "jIntList2Vector",
                    "convertInetAddressToBoostIp", "constructor">>)
    BY KindOfStep, ShapeCCCCA
  <2>3. WellOrdered(<<"getEjfatUriFromField", "jIntList2Vector",
                    "convertInetAddressToBoostIp", "jstring2string", "getFromINI",
                    "constructor">>)
    BY KindOfStep, ShapeCCCCCA
  <2> QED BY <1>13, <2>1, <2>2, <2>3, StepsOfM DEF ReassemblerConstructors
<1>14. ASSUME m \in WorkerCalls PROVE WellOrdered(m.steps)
  <2>1. WellOrdered(<<"jstring2string", "library">>)
    BY KindOfStep, ShapeCA
  <2>2. WellOrdered(<<"library">>)
    BY KindOfStep, ShapeA
  <2> QED BY <1>14, <2>1, <2>2, StepsOfM DEF WorkerCalls
<1>15. ASSUME m \in Figures PROVE WellOrdered(m.steps)
  <2>1. WellOrdered(<<"tell", "convertResult">>)
    BY KindOfStep, ShapeAR
  <2> QED BY <1>15, <2>1, StepsOfM DEF Figures
<1> QED
  BY <1>1, <1>2, <1>3, <1>4, <1>5, <1>6, <1>7, <1>8, <1>9, <1>10, <1>11, <1>12,
     <1>13, <1>14, <1>15 DEF NativeMethods

-----------------------------------------------------------------------------
(* What the order means for two steps of the running method.               *)
LEMMA OrderOfSteps ==
  ASSUME NativeTypeOK
  PROVE  /\ Len(call.steps) \in Nat /\ DOMAIN call.steps = 1 .. Len(call.steps)
         /\ End = Len(call.steps) + 1
         /\ \E a \in DOMAIN call.steps : call.steps[a] \in Asks \cup Tells
         /\ \A i, j \in DOMAIN call.steps : i < j =>
              /\ call.steps[j] \in Asks \cup Tells => call.steps[i] \in Conversions
              /\ call.steps[i] \in Asks \cup Tells => call.steps[j] \in Results
              /\ call.steps[i] \in SslCredentials => call.steps[j] \in Tells
              /\ call.steps[i] \notin Results
<1> DEFINE steps == call.steps
<1>1. WellOrdered(steps)
  BY MethodsAreWellOrdered DEF NativeTypeOK
<1> HIDE DEF steps
<1>2. Len(steps) \in Nat /\ DOMAIN steps = 1 .. Len(steps)
  BY <1>1 DEF WellOrdered
<1>3. ASSUME NEW i \in DOMAIN steps, NEW j \in DOMAIN steps, i < j
      PROVE  /\ steps[j] \in Asks \cup Tells => steps[i] \in Conversions
             /\ steps[i] \in Asks \cup Tells => steps[j] \in Results
             /\ steps[i] \in SslCredentials => steps[j] \in Tells
             /\ steps[i] \notin Results
  <2>1. MayFollow(steps[j], steps[i])
    BY <1>1, <1>3 DEF WellOrdered
  <2> QED BY <2>1, KindsDiffer DEF MayFollow, Conversions, Plain
<1> QED BY <1>1, <1>2, <1>3 DEF steps, End, WellOrdered

-----------------------------------------------------------------------------
LEMMA GoodArguments ==
  ASSUME NativeTypeOK, NEW i \in DOMAIN call.steps
  PROVE  /\ args[i] \in Argument(call.steps[i])
         /\ call.steps[i] \in KeepsRef \cup SslCredentials \cup Asks \cup Tells \cup Results =>
              args[i] # "bad"
<1>1. args[i] \in Argument(call.steps[i])
  BY DEF NativeTypeOK, ArgumentsOf
<1>2. CASE call.steps[i] \in KeepsRef \cup SslCredentials \cup Asks \cup Tells \cup Results
  BY <1>1, <1>2, KindsDiffer DEF Argument, Conversions, Plain, Ssl
<1> QED BY <1>1, <1>2

LEMMA CallInitInv == NativeInit => CallInv
<1> SUFFICES ASSUME NativeInit PROVE CallInv
  OBVIOUS
<1>1. call \in NativeMethods /\ Len(call.steps) \in Nat
  BY MethodsAreWellOrdered DEF NativeInit, WellOrdered
<1>2. NativeTypeOK
  <2>1. pc \in 1 .. End /\ pending \in 0 .. Len(call.steps)
    BY <1>1 DEF NativeInit, End, NoException
  <2> QED BY <2>1 DEF NativeInit, NativeTypeOK
<1>3. \A i \in DOMAIN call.steps : ~(i < pc)
  BY <1>1, <1>2, OrderOfSteps DEF NativeInit
<1> QED
  BY <1>2, <1>3 DEF NativeInit, CallInv, PendingInv, AskedInv, ArgumentsInv

LEMMA ConvertInv == CallInv /\ Convert => CallInv'
<1> SUFFICES ASSUME CallInv, Convert PROVE CallInv'
  OBVIOUS
<1>1. NativeTypeOK'
  BY DEF CallInv, NativeTypeOK, Convert, Executing, End
<1>2. PendingInv'
  BY DEF CallInv, NativeTypeOK, PendingInv, Convert, Executing, End, Cause
<1>3. AskedInv'
  BY KindsDiffer
     DEF CallInv, NativeTypeOK, AskedInv, Convert, Executing, Step, End,
         Conversions
<1>4. ArgumentsInv'
  BY DEF CallInv, NativeTypeOK, ArgumentsInv, Convert
<1>5. (outcome = "returned" => pc = End)'
  BY DEF Convert, Executing
<1> QED BY <1>1, <1>2, <1>3, <1>4, <1>5 DEF CallInv

LEMMA EndJvmInv == CallInv /\ EndJvm => CallInv'
<1> SUFFICES ASSUME CallInv, EndJvm PROVE CallInv'
  OBVIOUS
<1> QED
  BY DEF CallInv, NativeTypeOK, PendingInv, AskedInv, ArgumentsInv, EndJvm, End,
         Cause

LEMMA throwJavaExceptionInv == CallInv /\ throwJavaException => CallInv'
<1> SUFFICES ASSUME CallInv, throwJavaException PROVE CallInv'
  OBVIOUS
<1> QED
  BY OrderOfSteps, GoodArguments
     DEF CallInv, NativeTypeOK, PendingInv, AskedInv, ArgumentsInv,
         throwJavaException, Executing, Step, End, Cause, NoException

LEMMA getDirectByteBufferPointerInv == CallInv /\ getDirectByteBufferPointer => CallInv'
<1> SUFFICES ASSUME CallInv, getDirectByteBufferPointer PROVE CallInv'
  OBVIOUS
<1> QED
  BY GoodArguments, KindsDiffer
     DEF CallInv, NativeTypeOK, PendingInv, AskedInv, ArgumentsInv,
         getDirectByteBufferPointer, Executing, Step, End, Cause, NoException,
         Conversions, Plain

LEMMA NewGlobalRefInv == CallInv /\ NewGlobalRef => CallInv'
<1> SUFFICES ASSUME CallInv, NewGlobalRef PROVE CallInv'
  OBVIOUS
<1>1. NativeTypeOK'
  BY DEF CallInv, NativeTypeOK, NewGlobalRef, Executing, End
<1>2. PendingInv'
  BY DEF CallInv, NativeTypeOK, PendingInv, NewGlobalRef, Executing, End, Cause
<1>3. AskedInv'
  BY KindsDiffer
     DEF CallInv, NativeTypeOK, AskedInv, NewGlobalRef, Executing, Step, End,
         Conversions
<1>4. ArgumentsInv'
  BY GoodArguments
     DEF CallInv, NativeTypeOK, ArgumentsInv, NewGlobalRef, Executing, Step
<1>5. (outcome = "returned" => pc = End)'
  BY DEF NewGlobalRef, Executing
<1> QED BY <1>1, <1>2, <1>3, <1>4, <1>5 DEF CallInv

LEMMA parseSslCredemtialOptionsInv == CallInv /\ parseSslCredemtialOptions => CallInv'
<1> SUFFICES ASSUME CallInv, parseSslCredemtialOptions PROVE CallInv'
  OBVIOUS
<1>1. NativeTypeOK'
  BY DEF CallInv, NativeTypeOK, parseSslCredemtialOptions, Executing, End
<1>2. PendingInv'
  BY KindsDiffer
     DEF CallInv, NativeTypeOK, PendingInv, parseSslCredemtialOptions, Executing,
         Step, End, Cause, Conversions, Plain
<1>3. AskedInv'
  BY KindsDiffer
     DEF CallInv, NativeTypeOK, AskedInv, parseSslCredemtialOptions, Executing,
         Step, End, NoException, Conversions
<1>4. ArgumentsInv'
  BY GoodArguments
     DEF CallInv, NativeTypeOK, ArgumentsInv, parseSslCredemtialOptions, Step,
         NoException
<1>5. (outcome = "returned" => pc = End)'
  BY DEF parseSslCredemtialOptions, Executing
<1> QED BY <1>1, <1>2, <1>3, <1>4, <1>5 DEF CallInv

LEMMA parseSslCredemtialOptionsEndsJvmInv ==
  CallInv /\ parseSslCredemtialOptionsEndsJvm => CallInv'
<1> SUFFICES ASSUME CallInv, parseSslCredemtialOptionsEndsJvm PROVE CallInv'
  OBVIOUS
<1> QED
  BY OrderOfSteps, GoodArguments, KindsDiffer
  DEF CallInv, NativeTypeOK, PendingInv, AskedInv, ArgumentsInv,
      parseSslCredemtialOptionsEndsJvm, Executing, Step, End, Cause, NoException

LEMMA TellInv == CallInv /\ Tell => CallInv'
<1> SUFFICES ASSUME CallInv, Tell PROVE CallInv'
  OBVIOUS
<1> QED
  BY GoodArguments
     DEF CallInv, NativeTypeOK, PendingInv, AskedInv, ArgumentsInv, Tell,
         Executing, Step, End, Cause

LEMMA AcceptInv == CallInv /\ Accept => CallInv'
<1> SUFFICES ASSUME CallInv, Accept PROVE CallInv'
  OBVIOUS
<1> QED
  BY GoodArguments
     DEF CallInv, NativeTypeOK, PendingInv, AskedInv, ArgumentsInv, Accept,
         Executing, Step, End, Cause

LEMMA RefuseInv == CallInv /\ Refuse => CallInv'
<1> SUFFICES ASSUME CallInv, Refuse PROVE CallInv'
  OBVIOUS
<1>1. NativeTypeOK'
  BY DEF CallInv, NativeTypeOK, Refuse, Executing, End
<1>2. PendingInv'
  BY KindsDiffer
     DEF CallInv, NativeTypeOK, PendingInv, Refuse, Executing, Step, End, Cause,
         Conversions
<1>3. AskedInv'
  BY DEF CallInv, NativeTypeOK, AskedInv, Refuse, Executing, Step, End,
         NoException
<1>4. ArgumentsInv'
  BY DEF CallInv, NativeTypeOK, ArgumentsInv, Refuse, NoException
<1>5. (outcome = "returned" => pc = End)'
  BY DEF Refuse, End
<1> QED BY <1>1, <1>2, <1>3, <1>4, <1>5 DEF CallInv

LEMMA RefuseEndsJvmInv == CallInv /\ RefuseEndsJvm => CallInv'
<1> SUFFICES ASSUME CallInv, RefuseEndsJvm PROVE CallInv'
  OBVIOUS
<1> QED
  BY OrderOfSteps, KindsDiffer
     DEF CallInv, NativeTypeOK, PendingInv, AskedInv, ArgumentsInv, RefuseEndsJvm,
         Executing, Step, End, Cause, NoException, Conversions

LEMMA convertResultInv == CallInv /\ convertResult => CallInv'
<1> SUFFICES ASSUME CallInv, convertResult PROVE CallInv'
  OBVIOUS
<1> QED
  BY GoodArguments, KindsDiffer
     DEF CallInv, NativeTypeOK, PendingInv, AskedInv, ArgumentsInv,
         convertResult, Executing, Step, End, Cause

LEMMA convertResultFailsInv == CallInv /\ convertResultFails => CallInv'
<1> SUFFICES ASSUME CallInv, convertResultFails PROVE CallInv'
  OBVIOUS
<1>1. pc = Len(call.steps) /\ pc \in DOMAIN call.steps
  <2>1. /\ pc \in DOMAIN call.steps /\ call.steps[pc] \in Results
        /\ Len(call.steps) \in DOMAIN call.steps
    BY DEF CallInv, NativeTypeOK, convertResultFails, Executing, Step
  <2>2. ~(pc < Len(call.steps))
    BY <2>1, OrderOfSteps DEF CallInv
  <2> QED BY <2>1, <2>2, OrderOfSteps DEF CallInv
<1>2. NativeTypeOK'
  BY DEF CallInv, NativeTypeOK, convertResultFails, Executing, End
<1>3. PendingInv'
  BY <1>1, KindsDiffer
     DEF CallInv, PendingInv, convertResultFails, Step, End, Cause, Conversions
<1>4. AskedInv'
  BY DEF CallInv, NativeTypeOK, AskedInv, convertResultFails, Executing, End,
         NoException
<1>5. ArgumentsInv'
  BY DEF CallInv, NativeTypeOK, ArgumentsInv, convertResultFails, NoException
<1>6. (outcome = "returned" => pc = End)'
  BY DEF convertResultFails, Executing
<1> QED BY <1>2, <1>3, <1>4, <1>5, <1>6 DEF CallInv

LEMMA ReturnInv == CallInv /\ Return => CallInv'
<1> SUFFICES ASSUME CallInv, Return PROVE CallInv'
  OBVIOUS
<1> QED
  BY DEF CallInv, NativeTypeOK, PendingInv, AskedInv, ArgumentsInv, Return, End,
         Cause

LEMMA CallNextInv == CallInv /\ CallNext => CallInv'
<1> SUFFICES ASSUME CallInv, CallNext PROVE CallInv'
  OBVIOUS
<1>1. call' \in NativeMethods /\ Len(call'.steps) \in Nat
  BY MethodsAreWellOrdered DEF CallNext, WellOrdered
<1>2. NativeTypeOK'
  <2>1. pc' \in 1 .. End' /\ pending' \in 0 .. Len(call'.steps)
    BY <1>1 DEF CallNext, End, NoException
  <2> QED BY <2>1 DEF CallNext, NativeTypeOK
<1>3. \A i \in DOMAIN call'.steps : ~(i < pc')
  BY <1>1, MethodsAreWellOrdered DEF CallNext, WellOrdered
<1> QED
  BY <1>2, <1>3 DEF CallNext, CallInv, PendingInv, AskedInv, ArgumentsInv

(* The order of the steps and what an exception leaves of a method, in     *)
(* every state: from this the properties follow.                           *)
THEOREM CallInvariantHolds == NativeSpec => []CallInv
<1>1. CallInv /\ [NativeNext]_nativeVars => CallInv'
  <2> SUFFICES ASSUME CallInv, [NativeNext]_nativeVars PROVE CallInv'
    OBVIOUS
  <2>1. CASE NativeNext
    BY <2>1, ConvertInv, EndJvmInv, throwJavaExceptionInv,
       getDirectByteBufferPointerInv, parseSslCredemtialOptionsInv,
       parseSslCredemtialOptionsEndsJvmInv, NewGlobalRefInv, TellInv,
       AcceptInv, RefuseInv, RefuseEndsJvmInv,
       convertResultInv, convertResultFailsInv, ReturnInv, CallNextInv
       DEF NativeNext
  <2>2. CASE UNCHANGED nativeVars
    BY <2>2
       DEF nativeVars, CallInv, NativeTypeOK, PendingInv, AskedInv, ArgumentsInv,
           End, Cause
  <2> QED BY <2>1, <2>2
<1> QED BY <1>1, CallInitInv, PTL DEF NativeSpec

-----------------------------------------------------------------------------
(* A method is at a step it has, and its arguments fit its steps.          *)
THEOREM CallTypeCorrect == NativeSpec => []NativeTypeOK
BY CallInvariantHolds, PTL DEF CallInv

(* After an exception about an argument, the library has not been asked.   *)
THEOREM RetryIsSafe == NativeSpec => []NothingDoneBehindAnException
<1>1. CallInv => NothingDoneBehindAnException
  BY DEF CallInv, PendingInv, NothingDoneBehindAnException
<1> QED BY <1>1, CallInvariantHolds, PTL

(* Of all exceptions, only that of a direct buffer without memory has      *)
(* steps behind it that call JNI functions, in any method.                 *)
THEOREM JniCallsClean == NativeSpec => []JniBeginsClean
<1>1. ASSUME CallInv PROVE JniBeginsClean
  <2> SUFFICES ASSUME Executing, Step \in UseJni, pending # NoException
               PROVE  Cause \in ThrowAndGoOn
    BY DEF JniBeginsClean
  <2>1. pending < pc /\ pending \in DOMAIN call.steps /\ pc \in DOMAIN call.steps
    BY <1>1 DEF CallInv, PendingInv, NativeTypeOK, Executing, NoException
  <2>2. Cause \in ThrowAndGoOn \cup SslCredentials
    BY <1>1, OrderOfSteps DEF CallInv, PendingInv, Executing
  <2>3. Cause \in SslCredentials => Step \in Tells
    BY <1>1, <2>1, OrderOfSteps DEF CallInv, Cause, Step
  <2> QED BY <2>2, <2>3, KindsDiffer
<1> QED BY <1>1, CallInvariantHolds, PTL

(* A method that returns without an exception has asked or told the        *)
(* library, was not refused, and had good arguments.                       *)
THEOREM SuccessCorrect == NativeSpec => []SuccessIsReal
<1>1. ASSUME CallInv PROVE SuccessIsReal
  <2> SUFFICES ASSUME outcome = "returned", pending = NoException
               PROVE  ~refused /\ asked /\ \A i \in DOMAIN call.steps : args[i] # "bad"
    BY DEF SuccessIsReal
  <2>1. pc = End
    BY <1>1 DEF CallInv
  <2>2. \A i \in DOMAIN call.steps : i < pc
    BY <1>1, <2>1, OrderOfSteps DEF CallInv
  <2>3. asked
    BY <1>1, <2>2, OrderOfSteps DEF CallInv, AskedInv
  <2>4. ~refused
    BY <1>1 DEF CallInv, AskedInv
  <2>5. \A i \in DOMAIN call.steps : args[i] # "bad"
    BY <1>1, <2>2 DEF CallInv, ArgumentsInv
  <2> QED BY <2>3, <2>4, <2>5
<1> QED BY <1>1, CallInvariantHolds, PTL

(* A run along with the references a method makes: the steps of one module *)
(* leave the other alone, so that each keeps its types.                    *)
THEOREM TypesCorrect == MCSpec => []MCTypeOK
<1>1. MCInit => Init /\ NativeInit
  BY DEF MCInit
<1>2. [MCNext]_<<part, vars, nativeVars>> => [Next]_vars /\ [NativeNext]_nativeVars
  BY DEF MCNext
<1>3. MCSpec => Spec /\ NativeSpec
  BY <1>1, <1>2, PTL DEF MCSpec, Spec, NativeSpec
<1>4. TypeOK /\ NativeTypeOK => MCTypeOK
  BY DEF MCTypeOK
<1> QED BY <1>3, <1>4, TypeCorrect, CallTypeCorrect, PTL
=============================================================================
