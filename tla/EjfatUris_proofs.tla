-------------------------- MODULE EjfatUris_proofs --------------------------
(***************************************************************************)
(* That every object has a URI of its own, for any number of objects,      *)
(* addresses, values and calls.  The invariant the proof needs beyond the  *)
(* types: a cell in use belongs to one object, and the EjfatURI that       *)
(* getEjfatURI has made looks at the cell of its manager.                  *)
(***************************************************************************)
EXTENDS EjfatUris, TLAPS

AliasIsOwn ==
  \A m \in Managers :
    /\ Live(m) /\ uri[m] # NoUri => uri[m] = native[m]
    /\ native[m] = Unborn => uri[m] = NoUri

Inv == TypeOK /\ OneOwnerPerUri /\ AliasIsOwn

(* A step makes an object, frees one, caches a manager's address, or       *)
(* writes to the cell of one object.                                       *)
Makes(o, contents) == Allocate(o, contents) /\ UNCHANGED <<uri, sets>>

Writes(o, fields, v) == Live(o) /\ Update(native[o], fields, v)

LEMMA StringType ==
  ASSUME Inv, NEW s \in Strings
  PROVE  s.token \in Data /\ s.others \in [Field \ Token -> Data]
<1>1. CASE s \in UriStrings
  BY <1>1, StringAssumption
<1>2. CASE \E h \in Handles, kind \in Token : Usable(h) /\ s = toString(h, kind)
  <2>1. PICK h \in Handles, kind \in Token : Usable(h) /\ s = toString(h, kind)
    BY <1>2
  <2>2. Pointer(h) \in Addrs /\ heap[Pointer(h)] \in Uri
    BY <2>1, ConstantAssumption
    DEF Inv, TypeOK, OneOwnerPerUri, AliasIsOwn, Usable, Live, Pointer, Handles, Owners
  <2>3. heap[Pointer(h)] \in [Field -> Data] /\ Token \subseteq Field
    BY <2>2 DEF Uri, Field
  <2> QED BY <2>1, <2>3 DEF toString
<1> QED BY <1>1, <1>2 DEF Strings

(* What makes an object gives it a well-formed URI.                        *)
LEMMA StepCases ==
  ASSUME Inv, Next
  PROVE  \/ \E u \in Uris, contents \in Uri : Makes(u, contents)
         \/ \E p \in Owners \ Uris, h \in Handles : Live(h) /\ Makes(p, heap[native[h]])
         \/ \E m \in Managers : getEjfatURI(m)
         \/ \E o \in Owners : free(o)
         \/ \E o \in Owners, fields \in Groups, v \in Values : Writes(o, fields, v)
<1>1. ASSUME NEW u \in Uris, NEW s \in Strings, NEW kind \in Token,
             initEjfatUri(u, s, kind) \/ getUriFromFile(u, s, kind)
      PROVE  \E contents \in Uri : Makes(u, contents)
  <2>1. Parse(s, kind) \in Uri /\ Parse(s, "ADMIN") \in Uri
    BY StringType DEF Parse, Uri, Field, Token, Data
  <2> QED BY <1>1, <2>1 DEF initEjfatUri, getUriFromFile, Makes
<1>2. ASSUME NEW p \in Owners \ Uris, NEW h \in Handles, initPeer(p, h)
      PROVE  Live(h) /\ Makes(p, heap[native[h]])
  <2>1. Live(h) /\ Pointer(h) = native[h]
    BY <1>2 DEF initPeer, Inv, AliasIsOwn, Usable, Pointer
  <2> QED BY <1>2, <2>1 DEF initPeer, Makes
<1>3. ASSUME NEW h \in Handles, NEW v \in Values, NEW f \in Field, Usable(h),
             Update(Pointer(h), {f}, v)
      PROVE  \E o \in Owners, fields \in Groups : Writes(o, fields, v)
  <2>1. h \in Owners /\ Live(h) /\ Pointer(h) = native[h]
    BY <1>3 DEF Inv, AliasIsOwn, Usable, Pointer, Handles, Owners
  <2>2. {f} \in Groups
    BY DEF Groups
  <2> QED BY <1>3, <2>1, <2>2 DEF Writes
<1>4. ASSUME NEW h \in Handles, NEW v \in Values,
             \/ setInstanceToken(h, v) \/ setSessionToken(h, v) \/ setLbName(h, v)
             \/ setLbid(h, v) \/ setSessionId(h, v) \/ setSyncAddr(h, v) \/ setDataAddr(h, v)
      PROVE  \E o \in Owners, fields \in Groups : Writes(o, fields, v)
  <2>1. \E f \in Field : Usable(h) /\ Update(Pointer(h), {f}, v)
    BY <1>4 DEF setInstanceToken, setSessionToken, setLbName, setLbid, setSessionId,
                setSyncAddr, setDataAddr, Set, Field, Token, Settable
  <2> QED BY <1>3, <2>1
<1>5. ASSUME NEW m \in Managers, NEW v \in Values, reserveLB(m, v) \/ getLB(m, v)
      PROVE  \E o \in Owners, fields \in Groups : Writes(o, fields, v)
  BY <1>5 DEF reserveLB, getLB, Grant, Writes, Groups, Owners
<1>6. ASSUME NEW o \in Managers \cup Reassemblers, NEW v \in Values, registerWorker(o, v)
      PROVE  \E p \in Owners, fields \in Groups : Writes(p, fields, v)
  BY <1>6 DEF registerWorker, Grant, Writes, Groups, Owners
<1> QED BY <1>1, <1>2, <1>4, <1>5, <1>6 DEF Next

LEMMA WrittenUri ==
  ASSUME NEW old \in Uri, NEW v \in Values, NEW fields
  PROVE  [f \in Field |-> IF f \in fields THEN v ELSE old[f]] \in Uri
BY DEF Uri, Data

LEMMA GroupType == \A fields \in Groups : fields \subseteq Field
BY DEF Groups, Located, Reserved, Registered, Field, Token, Settable

-----------------------------------------------------------------------------
LEMMA InitInv == Init => Inv
BY StringAssumption, ConstantAssumption
DEF Init, Inv, TypeOK, OneOwnerPerUri, AliasIsOwn, Live

LEMMA MakeInv ==
  ASSUME Inv, NEW o \in Owners, NEW contents \in Uri, Makes(o, contents)
  PROVE  Inv'
<1>1. PICK a \in Addrs : /\ heap[a] = NoUri
                         /\ heap' = [heap EXCEPT ![a] = contents]
                         /\ native' = [native EXCEPT ![o] = a]
  BY DEF Makes, Allocate
<1>2. native[o] = Unborn /\ uri' = uri /\ sets' = sets
  BY DEF Makes, Allocate
<1>3. contents # NoUri
  BY ConstantAssumption
<1>4. TypeOK'
  BY <1>1, <1>2 DEF Inv, TypeOK
<1>5. OneOwnerPerUri'
  BY <1>1, <1>2, <1>3 DEF Inv, TypeOK, OneOwnerPerUri, Live
<1>6. AliasIsOwn'
  BY <1>1, <1>2, ConstantAssumption DEF Inv, TypeOK, AliasIsOwn, Live, Owners
<1> QED BY <1>4, <1>5, <1>6 DEF Inv

LEMMA FreeInv ==
  ASSUME Inv, NEW o \in Owners, free(o)
  PROVE  Inv'
<1>1. /\ native[o] \in Addrs
      /\ heap' = [heap EXCEPT ![native[o]] = NoUri]
      /\ native' = [native EXCEPT ![o] = Freed]
      /\ uri' = uri /\ sets' = sets
  BY DEF free, Live
<1>2. Freed \notin Addrs /\ Freed # Unborn
  BY ConstantAssumption
<1>3. TypeOK'
  BY <1>1 DEF Inv, TypeOK
<1>4. OneOwnerPerUri'
  BY <1>1, <1>2 DEF Inv, TypeOK, OneOwnerPerUri, Live
<1>5. AliasIsOwn'
  BY <1>1, <1>2 DEF Inv, TypeOK, AliasIsOwn, Live, Owners
<1> QED BY <1>3, <1>4, <1>5 DEF Inv

LEMMA CacheInv ==
  ASSUME Inv, NEW m \in Managers, getEjfatURI(m)
  PROVE  Inv'
<1>1. /\ native[m] \in Addrs /\ m \in Owners
      /\ uri' = [uri EXCEPT ![m] = native[m]]
      /\ UNCHANGED <<native, heap, sets>>
  BY DEF getEjfatURI, Live, Owners
<1>2. TypeOK'
  BY <1>1 DEF Inv, TypeOK
<1>3. OneOwnerPerUri'
  BY <1>1 DEF Inv, OneOwnerPerUri, Live
<1>4. AliasIsOwn'
  BY <1>1, ConstantAssumption DEF Inv, TypeOK, AliasIsOwn, Live
<1> QED BY <1>2, <1>3, <1>4 DEF Inv

LEMMA WriteInv ==
  ASSUME Inv, NEW o \in Owners, NEW fields, NEW v \in Values, Writes(o, fields, v)
  PROVE  Inv'
<1> DEFINE new == [f \in Field |-> IF f \in fields THEN v ELSE heap[native[o]][f]]
<1>1. /\ native[o] \in Addrs /\ heap[native[o]] \in Uri
      /\ sets < MaxSets /\ sets' = sets + 1
      /\ UNCHANGED <<native, uri>>
  BY DEF Writes, Update, Inv, TypeOK, OneOwnerPerUri, Live
<1>2. heap' = [heap EXCEPT ![native[o]] = new]
  BY <1>1 DEF Writes, Update, Inv, TypeOK
<1>3. new \in Uri /\ new # NoUri
  BY <1>1, WrittenUri, ConstantAssumption
<1> HIDE DEF new
<1>4. TypeOK'
  BY <1>1, <1>2, <1>3, StringAssumption DEF Inv, TypeOK
<1>5. OneOwnerPerUri'
  BY <1>1, <1>2, <1>3 DEF Inv, TypeOK, OneOwnerPerUri, Live
<1>6. AliasIsOwn'
  BY <1>1 DEF Inv, AliasIsOwn, Live
<1> QED BY <1>4, <1>5, <1>6 DEF Inv

LEMMA NextInv == Inv /\ [Next]_vars => Inv'
<1> SUFFICES ASSUME Inv, [Next]_vars PROVE Inv'
  OBVIOUS
<1>1. CASE Next
  <2>1. ASSUME NEW p \in Owners \ Uris, NEW h \in Handles, Live(h), Makes(p, heap[native[h]])
        PROVE  Inv'
    <3>1. heap[native[h]] \in Uri
      BY <2>1 DEF Inv, TypeOK, OneOwnerPerUri, Live, Handles, Owners
    <3> QED BY <2>1, <3>1, MakeInv
  <2>2. ASSUME NEW u \in Uris, NEW contents \in Uri, Makes(u, contents)
        PROVE  Inv'
    BY <2>2, MakeInv DEF Owners
  <2> QED BY <1>1, <2>1, <2>2, StepCases, FreeInv, CacheInv, WriteInv
<1>2. CASE UNCHANGED vars
  BY <1>2 DEF vars, Inv, TypeOK, OneOwnerPerUri, AliasIsOwn, Live
<1> QED BY <1>1, <1>2

LEMMA InvHolds == Spec => []Inv
BY InitInv, NextInv, PTL DEF Spec

(* The types; and two live objects never share a cell, through any number  *)
(* of constructions, frees and reuses of addresses.                        *)
THEOREM OwnersCorrect == Spec => [](TypeOK /\ OneOwnerPerUri)
BY InvHolds, PTL DEF Inv

-----------------------------------------------------------------------------
(* The references to an object lead to its own URI ...                     *)
LEMMA PointerIsOwn ==
  ASSUME Inv, NEW h \in Handles, Usable(h)
  PROVE  /\ h \in Owners /\ Live(h)
         /\ heap[Pointer(h)] = value[h]
         /\ value[h] \in [Field -> Data]
<1>1. h \in Owners /\ Live(h) /\ Pointer(h) = native[h]
  BY DEF Inv, AliasIsOwn, Usable, Pointer, Handles, Owners
<1>2. value[h] = heap[native[h]]
  BY <1>1 DEF value
<1>3. heap[native[h]] \in Uri
  BY <1>1 DEF Inv, TypeOK, OneOwnerPerUri, Live
<1> QED BY <1>1, <1>2, <1>3 DEF Uri

(* ... so the getters of every EjfatURI, the manager's included, answer    *)
(* for the object it belongs to.                                           *)
THEOREM GettersCorrect == Spec => []GettersAnswerForTheOwner
<1>1. Inv => GettersAnswerForTheOwner
  <2> SUFFICES ASSUME Inv, NEW h \in Handles, Usable(h)
               PROVE  /\ \A kind \in Token : getToken(h, kind) = Present(value[h][kind])
                      /\ \A f \in Settable : getName(h, f) = value[h][f]
                      /\ hasDataAddr(h) <=> \E f \in {"dataAddrv4", "dataAddrv6"} :
                                              getAddr(h, f) # Exception
    BY DEF GettersAnswerForTheOwner
  <2>1. heap[Pointer(h)] = value[h] /\ value[h] \in [Field -> Data]
    BY PointerIsOwn
  <2>2. \A f \in Field : getAddr(h, f) # Exception <=> has(h, f)
    BY <2>1, ConstantAssumption DEF getAddr, has, Present, Data, Unset, Exception
  <2>3. hasDataAddr(h) <=> \E f \in {"dataAddrv4", "dataAddrv6"} : getAddr(h, f) # Exception
    BY <2>2 DEF hasDataAddr, Field, Settable
  <2> QED BY <2>1, <2>3 DEF getToken, getName
<1> QED BY <1>1, InvHolds, PTL

(* A URI handed on as a string keeps the token it is written with and all  *)
(* that is not a token.                                                    *)
THEOREM StringsCorrect == Spec => []StringsCarryTheirToken
<1>1. Inv => StringsCarryTheirToken
  <2> SUFFICES ASSUME Inv, NEW h \in Handles, NEW kind \in Token, Usable(h),
                      NEW f \in (Field \ Token) \cup {kind}
               PROVE  Parse(toString(h, kind), kind)[f] = value[h][f]
    BY DEF StringsCarryTheirToken
  <2>1. heap[Pointer(h)] = value[h] /\ f \in Field
    BY PointerIsOwn DEF Field
  <2> QED BY <2>1 DEF Parse, toString
<1> QED BY <1>1, InvHolds, PTL

-----------------------------------------------------------------------------
(* The step that makes an object, in terms of the URIs of the objects.     *)
LEMMA MakeValue ==
  ASSUME Inv, NEW o \in Owners, NEW contents \in Uri, Makes(o, contents)
  PROVE  value[o] = Unborn /\ value' = [value EXCEPT ![o] = contents]
<1>1. PICK a \in Addrs : /\ heap[a] = NoUri
                         /\ heap' = [heap EXCEPT ![a] = contents]
                         /\ native' = [native EXCEPT ![o] = a]
  BY DEF Makes, Allocate
<1>2. native[o] = Unborn /\ Unborn \notin Addrs
  BY ConstantAssumption DEF Makes, Allocate
<1>3. \A p \in Owners : Live(p) => native[p] # a
  BY <1>1 DEF Inv, OneOwnerPerUri
<1>4. ASSUME NEW p \in Owners
      PROVE  value'[p] = [value EXCEPT ![o] = contents][p]
  BY <1>1, <1>2, <1>3 DEF value, Live, Inv, TypeOK
<1> QED BY <1>2, <1>4 DEF value, Live

LEMMA WriteValue ==
  ASSUME Inv, NEW o \in Owners, NEW fields, NEW v \in Values, Writes(o, fields, v)
  PROVE  /\ Live(o)
         /\ value' = [value EXCEPT ![o] = [f \in Field |-> IF f \in fields THEN v ELSE @[f]]]
<1> DEFINE new == [f \in Field |-> IF f \in fields THEN v ELSE heap[native[o]][f]]
<1>1. native[o] \in Addrs /\ native' = native
  BY DEF Writes, Update, Live
<1>2. heap' = [heap EXCEPT ![native[o]] = new]
  BY <1>1 DEF Writes, Update, Inv, TypeOK
<1>3. value[o] = heap[native[o]]
  BY <1>1 DEF value, Live
<1> HIDE DEF new
<1>4. ASSUME NEW p \in Owners
      PROVE  value'[p] = [value EXCEPT ![o] = new][p]
  BY <1>1, <1>2 DEF value, Live, Inv, TypeOK, OneOwnerPerUri
<1>5. value' = [value EXCEPT ![o] = new]
  BY <1>4 DEF value
<1>6. [value EXCEPT ![o] = [f \in Field |-> IF f \in fields THEN v ELSE @[f]]]
        = [value EXCEPT ![o] = new]
  BY <1>3 DEF value, new
<1> QED BY <1>1, <1>5, <1>6 DEF Live

LEMMA LiveValue ==
  ASSUME Inv, NEW o \in Owners, Live(o)
  PROVE  value[o] = heap[native[o]] /\ value[o] \in Uri /\ value[o] \notin {Unborn, Freed}
BY ConstantAssumption DEF value, Live, Inv, TypeOK, OneOwnerPerUri

LEMMA FreeValue ==
  ASSUME Inv, NEW o \in Owners, free(o)
  PROVE  Live(o) /\ value' = [value EXCEPT ![o] = Freed]
<1>1. /\ native[o] \in Addrs
      /\ heap' = [heap EXCEPT ![native[o]] = NoUri]
      /\ native' = [native EXCEPT ![o] = Freed]
  BY DEF free, Live
<1>2. Freed \notin Addrs
  BY ConstantAssumption
<1>3. ASSUME NEW p \in Owners
      PROVE  value'[p] = [value EXCEPT ![o] = Freed][p]
  BY <1>1, <1>2 DEF value, Live, Inv, TypeOK, OneOwnerPerUri
<1> QED BY <1>1, <1>3 DEF value, Live

LEMMA AbstractStep == Inv /\ [Next]_vars => [Abstract!Next]_value
<1> SUFFICES ASSUME Inv, [Next]_vars PROVE [Abstract!Next]_value
  OBVIOUS
<1>1. ASSUME NEW u \in Uris, NEW contents \in Uri, Makes(u, contents)
      PROVE  Abstract!Make(u)
  <2>1. value[u] = Unborn /\ value' = [value EXCEPT ![u] = contents]
    BY <1>1, MakeValue DEF Owners
  <2>2. value'[u] = contents
    BY <2>1 DEF value, Owners
  <2> QED BY <2>1, <2>2 DEF Abstract!Make, Uri
<1>2. ASSUME NEW p \in Owners \ Uris, NEW h \in Handles, Live(h), Makes(p, heap[native[h]])
      PROVE  Abstract!Copy(p, h)
  <2>1. value[h] = heap[native[h]] /\ value[h] \in Uri /\ value[h] \notin {Unborn, Freed}
    BY <1>2, LiveValue DEF Handles, Owners
  <2>2. value[p] = Unborn /\ value' = [value EXCEPT ![p] = value[h]]
    BY <1>2, <2>1, MakeValue
  <2> QED BY <2>1, <2>2 DEF Abstract!Copy
<1>3. ASSUME NEW m \in Managers, getEjfatURI(m)
      PROVE  value' = value
  BY <1>3 DEF getEjfatURI, value, Live
<1>4. ASSUME NEW o \in Owners, free(o)
      PROVE  Abstract!Drop(o)
  BY <1>4, FreeValue, LiveValue DEF Abstract!Drop
<1>5. ASSUME NEW o \in Owners, NEW fields \in Groups, NEW v \in Values, Writes(o, fields, v)
      PROVE  Abstract!Write(o, fields)
  BY <1>5, WriteValue, LiveValue DEF Abstract!Write, Data
<1>6. CASE Next
  BY <1>6, <1>1, <1>2, <1>3, <1>4, <1>5, StepCases
  DEF Abstract!Next, Handles, Owners
<1>7. CASE UNCHANGED vars
  BY <1>7 DEF vars, value, Live
<1> QED BY <1>6, <1>7

(* The cells and the addresses in the Java fields implement a URI for each *)
(* object: however the references go, a call changes the URI of one.       *)
THEOREM UrisCorrect == Spec => UrisAreSeparate
<1>1. Init => Abstract!Init
  BY ConstantAssumption DEF Init, Abstract!Init, value, Live
<1> QED BY <1>1, AbstractStep, InvHolds, PTL DEF Spec, UrisAreSeparate, Abstract!Spec
=============================================================================
