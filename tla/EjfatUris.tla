----------------------------- MODULE EjfatUris -----------------------------
(***************************************************************************)
(* The URIs behind the Java objects of org.jlab.hpdf: the e2sar::EjfatURI  *)
(* an EjfatURI owns, the copy inside the instance of an LbManager, a       *)
(* Segmenter or a Reassembler, and the second EjfatURI object that         *)
(* LbManager.getEjfatURI makes for the copy of the manager.                *)
(*                                                                         *)
(* The module is about the contents of the URIs: which of them a           *)
(* constructor, a setter, a getter or a grant of the control plane works   *)
(* on.  Calls are atomic; what they do to the memory of each other is the  *)
(* subject of NativePeers, whose conditions on the application (nothing is *)
(* used after it was freed) are kept here.                                 *)
(*                                                                         *)
(* A field of a URI holds a value or is unset; what parsing a URI string   *)
(* gives, which is the library's affair, is a constant.                    *)
(***************************************************************************)
EXTENDS Naturals

CONSTANTS
  Uris,        \* objects made by "new EjfatURI", getFromEnv or getFromFile
  Managers,    \* objects made by "new LbManager"
  Segmenters,   \* objects made by "new Segmenter"
  Reassemblers, \* objects made by "new Reassembler"
  Addrs,       \* addresses the C++ allocator hands out
  Values,      \* what a field can be set to
  UriStrings,  \* URI strings: a token, and what they say of the other fields
  MaxSets,     \* bound on the setters called and the grants made
  Unborn,      \* the native field before the constructor returns
  Freed,       \* the native field after free()
  NoUri        \* in a free cell; in LbManager.uri before getEjfatURI()

Unset == "unset"          \* a field of the URI that is empty
Exception == "exception"  \* in place of what a getter returns

Token == {"ADMIN", "INSTANCE", "SESSION"}
Settable == {"lbName", "lbid", "sessionId", "syncAddr", "dataAddrv4", "dataAddrv6"}
Field == Token \cup Settable \cup {"useTls", "cpAddr", "cpHost"}

Data == Values \cup {Unset}
Uri == [Field -> Data]
Owners == Uris \cup Managers \cup Segmenters \cup Reassemblers

ASSUME OwnerAssumption == Uris \cap Managers = {}

ASSUME ConstantAssumption ==
  /\ {Unborn, Freed, NoUri} \cap (Addrs \cup Uri) = {}
  /\ Unborn # Freed
  /\ {Unset, Exception} \cap Values = {}

ASSUME StringAssumption ==
  /\ MaxSets \in Nat
  /\ \A s \in UriStrings : s.token \in Data /\ s.others \in [Field \ Token -> Data]

VARIABLES
  native,  \* nativeEjfatURI, nativeLbManager, nativeSegmenter, nativeReassembler
  uri,     \* LbManager.uri, as the address its nativeEjfatURI points to
  heap,    \* the URI in each cell, of its own or inside an instance
  called,  \* what setSessionToken or getFromFile has just been asked for
  sets     \* setters and grants so far

vars == <<native, uri, heap, called, sets>>

Nothing == <<>>

Init ==
  /\ native = [o \in Owners |-> Unborn]
  /\ uri = [m \in Managers |-> NoUri]
  /\ heap = [a \in Addrs |-> NoUri]
  /\ called = Nothing
  /\ sets = 0

Live(o) == native[o] \in Addrs

-----------------------------------------------------------------------------
(* The EjfatURI objects: those of Uris, and for a manager the one that     *)
(* getEjfatURI has made.  Its address is what their methods work with.     *)
Handles == Uris \cup Managers

Usable(h) == Live(h) /\ (h \in Managers => uri[h] # NoUri)

Pointer(h) == IF h \in Managers THEN uri[h] ELSE native[h]

(* The getters.  To ask for an unset token or address is an exception, an  *)
(* unset name is empty.                                                    *)
Present(d) == IF d = Unset THEN Exception ELSE d

getToken(h, kind) == Present(heap[Pointer(h)][kind])
getAddr(h, f) == Present(heap[Pointer(h)][f])
getName(h, f) == heap[Pointer(h)][f]
has(h, f) == heap[Pointer(h)][f] # Unset
hasDataAddr(h) == has(h, "dataAddrv4") \/ has(h, "dataAddrv6")

(* Mutated form: the token asked for is not passed on.                     *)
toStringAdmin(h, kind) ==
  [token |-> heap[Pointer(h)]["ADMIN"],
   others |-> [f \in Field \ Token |-> heap[Pointer(h)][f]]]

(* toString(token): the token of that kind, and all but the other tokens.  *)
toString(h, kind) ==
  [token |-> heap[Pointer(h)][kind],
   others |-> [f \in Field \ Token |-> heap[Pointer(h)][f]]]

-----------------------------------------------------------------------------
(* A new instance with this URI in it, at any free address.                *)
Allocate(o, contents) ==
  /\ native[o] = Unborn
  /\ \E a \in Addrs :
       /\ heap[a] = NoUri
       /\ heap' = [heap EXCEPT ![a] = contents]
       /\ native' = [native EXCEPT ![o] = a]

(* The token of a URI string is taken for one of the kind given.           *)
Parse(s, kind) ==
  [f \in Field |-> IF f = kind THEN s.token
                   ELSE IF f \in Token THEN Unset ELSE s.others[f]]

(* new EjfatURI(uri, token, preferv6), and getFromEnv once the variable is *)
(* found to be set.  A string that does not parse changes nothing.         *)
initEjfatUri(u, s, kind) ==
  /\ Allocate(u, Parse(s, kind))
  /\ called' = Nothing
  /\ UNCHANGED <<uri, sets>>

(* getFromFile(fileName, token, preferv6): the token is taken for one of   *)
(* the default kind.                                                       *)
getUriFromFile(u, s, kind) ==
  /\ Allocate(u, Parse(s, "ADMIN"))
  /\ called' = <<u, kind, s.token>>
  /\ UNCHANGED <<uri, sets>>

(* Mutated form: the instance works on the URI it is given.                *)
initByReference(p, h) ==
  /\ Usable(h)
  /\ native[p] = Unborn
  /\ native' = [native EXCEPT ![p] = Pointer(h)]
  /\ called' = Nothing
  /\ UNCHANGED <<uri, heap, sets>>

(* new LbManager, new Segmenter, new Reassembler: "copied, not by          *)
(* reference".  The EjfatURI given may be that of a manager, with what the *)
(* control plane has granted by then.                                      *)
initPeer(p, h) ==
  /\ Usable(h)
  /\ Allocate(p, heap[Pointer(h)])
  /\ called' = Nothing
  /\ UNCHANGED <<uri, sets>>

(* Mutated form: the URI of the manager is copied.                         *)
getCopyOfURI(m) ==
  /\ Live(m)
  /\ uri[m] = NoUri
  /\ \E a \in Addrs :
       /\ heap[a] = NoUri
       /\ heap' = [heap EXCEPT ![a] = heap[native[m]]]
       /\ uri' = [uri EXCEPT ![m] = a]
  /\ called' = Nothing
  /\ UNCHANGED <<native, sets>>

(* LbManager.getEjfatURI: the first call caches the address of the URI     *)
(* inside the manager.                                                     *)
getEjfatURI(m) ==
  /\ Live(m)
  /\ uri[m] = NoUri
  /\ uri' = [uri EXCEPT ![m] = native[m]]
  /\ called' = Nothing
  /\ UNCHANGED <<native, heap, sets>>

(* Mutated form: the field keeps the address.                              *)
freeKeepsField(o) ==
  /\ Live(o)
  /\ heap' = [heap EXCEPT ![native[o]] = NoUri]
  /\ called' = Nothing
  /\ UNCHANGED <<native, uri, sets>>

(* free(): the instance is deleted with the URI in it.                     *)
free(o) ==
  /\ Live(o)
  /\ heap' = [heap EXCEPT ![native[o]] = NoUri]
  /\ native' = [native EXCEPT ![o] = Freed]
  /\ called' = Nothing
  /\ UNCHANGED <<uri, sets>>

-----------------------------------------------------------------------------
Update(a, fields, v) ==
  /\ sets < MaxSets
  /\ heap' = [heap EXCEPT ![a] = [f \in Field |-> IF f \in fields THEN v ELSE @[f]]]
  /\ sets' = sets + 1
  /\ UNCHANGED <<native, uri>>

Set(h, f, v) == Usable(h) /\ Update(Pointer(h), {f}, v) /\ called' = Nothing

(* The setters.  The family of a data plane address decides which of the   *)
(* two is set.                                                             *)
setInstanceToken(h, v) == Set(h, "INSTANCE", v)
setLbName(h, v) == Set(h, "lbName", v)
setLbid(h, v) == Set(h, "lbid", v)
setSessionId(h, v) == Set(h, "sessionId", v)
setSyncAddr(h, v) == Set(h, "syncAddr", v)
setDataAddr(h, v) == \E f \in {"dataAddrv4", "dataAddrv6"} : Set(h, f, v)

(* setSessionToken of EjfatURI.java calls the native setInstanceToken; the *)
(* native method of its own name is never called.                          *)
setSessionToken(h, v) ==
  /\ Usable(h)
  /\ Update(Pointer(h), {"INSTANCE"}, v)
  /\ called' = <<h, "SESSION", v>>

-----------------------------------------------------------------------------
(* What the control plane grants goes into the URI of the instance that    *)
(* has asked for it.  A call that fails changes nothing.                   *)
Grant(o, fields, v) == Live(o) /\ Update(native[o], fields, v) /\ called' = Nothing

(* LbManager.getLB, which has no instance token to set, and reserveLB.     *)
Located == {{"syncAddr"} \cup addrs : addrs \in SUBSET {"dataAddrv4", "dataAddrv6"}}
Reserved == {addrs \cup {"INSTANCE", "lbid"} : addrs \in Located}
Registered == {"SESSION", "sessionId"}

getLB(m, v) == \E fields \in Located : Grant(m, fields, v)
reserveLB(m, v) == \E fields \in Reserved : Grant(m, fields, v)

(* registerWorker of LbManager and of Reassembler.                         *)
registerWorker(o, v) == Grant(o, Registered, v)

Strings == UriStrings \cup {toString(h, kind) : h \in {g \in Handles : Usable(g)}, kind \in Token}

Next ==
  \/ \E u \in Uris, s \in Strings, kind \in Token :
       initEjfatUri(u, s, kind) \/ getUriFromFile(u, s, kind)
  \/ \E p \in Owners \ Uris, h \in Handles : initPeer(p, h)
  \/ \E m \in Managers : getEjfatURI(m)
  \/ \E o \in Owners : free(o)
  \/ \E h \in Handles, v \in Values :
       \/ setInstanceToken(h, v) \/ setSessionToken(h, v)
       \/ setLbName(h, v) \/ setLbid(h, v) \/ setSessionId(h, v)
       \/ setSyncAddr(h, v) \/ setDataAddr(h, v)
  \/ \E m \in Managers, v \in Values : reserveLB(m, v) \/ getLB(m, v)
  \/ \E o \in Managers \cup Reassemblers, v \in Values : registerWorker(o, v)

Spec == Init /\ [][Next]_vars

-----------------------------------------------------------------------------
TypeOK ==
  /\ native \in [Owners -> Addrs \cup {Unborn, Freed}]
  /\ uri \in [Managers -> Addrs \cup {NoUri}]
  /\ heap \in [Addrs -> Uri \cup {NoUri}]
  /\ sets \in 0 .. MaxSets

(* A cell that is in use belongs to one object, whatever was freed in      *)
(* between and given to another object since.                              *)
OneOwnerPerUri ==
  /\ \A o \in Owners : Live(o) => heap[native[o]] # NoUri
  /\ \A o, p \in Owners : Live(o) /\ native[o] = native[p] => o = p

(* "This is copied, not by reference": every object has a URI of its own;  *)
(* a setter, a grant or free() changes the URI of one object.              *)
value == [o \in Owners |-> IF Live(o) THEN heap[native[o]] ELSE native[o]]

Groups == {{f} : f \in Field} \cup Located \cup Reserved \cup {Registered}

Abstract == INSTANCE UriRegisters

UrisAreSeparate == Abstract!Spec

(* getEjfatURI "gets the Internal EjfatURI used by the LBManager": what    *)
(* the control plane grants a manager is what the getters of that EjfatURI *)
(* answer, and what they answer is what the manager works with.            *)
GettersAnswerForTheOwner ==
  \A h \in Handles : Usable(h) =>
    /\ \A kind \in Token : getToken(h, kind) = Present(value[h][kind])
    /\ \A f \in Settable : getName(h, f) = value[h][f]
    /\ hasDataAddr(h) <=> \E f \in {"dataAddrv4", "dataAddrv6"} : getAddr(h, f) # Exception

(* A URI handed on as a string is the URI, as far as the token it is       *)
(* written with goes: whoever reads it with the same kind of token finds   *)
(* that token and all that is not a token.                                 *)
StringsCarryTheirToken ==
  \A h \in Handles, kind \in Token : Usable(h) =>
    \A f \in (Field \ Token) \cup {kind} :
      Parse(toString(h, kind), kind)[f] = value[h][f]

(* EjfatURI.java: setSessionToken "Set session token of internal           *)
(* e2sar::EjfatURI instance"; getFromFile "token - convert to this token   *)
(* type (admin, instance, session)": a token that is given to a URI as one *)
(* of a kind is its token of that kind.                                    *)
TokensHaveTheirKind ==
  called # Nothing =>
    LET h == called[1]
        kind == called[2]
    IN  heap[Pointer(h)][kind] = called[3]
=============================================================================
