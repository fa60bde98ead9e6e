---------------------------- MODULE NativePeers ----------------------------
(***************************************************************************)
(* The Java objects of org.jlab.hpdf that own a native peer (EjfatURI,     *)
(* LbManager, Segmenter, Reassembler), the C++ heap their native instances *)
(* live in, and the threads that construct them, call them and free them.  *)
(*                                                                         *)
(* Each Java object keeps the address of its instance in a long field.     *)
(* Every method copies the field into the native frame and dereferences    *)
(* the copy; free() tests the field, reads it again as an argument of      *)
(* freeNativePointer, deletes, and only then clears it.  Those are         *)
(* separate steps here, so steps of other threads, and the reuse of an     *)
(* address by the allocator, come between them.                            *)
(*                                                                         *)
(* LbManager.getEjfatURI() makes a second kind of EjfatURI: its field      *)
(* holds an address inside the LBManager instance.  Its methods, and the   *)
(* constructors it is given to, work in the memory of the manager.         *)
(*                                                                         *)
(* The classes have no locks.  What the application must do instead is     *)
(* stated by MayUse and MayFree: an object is not used once it was freed,  *)
(* and nobody else is inside one of its methods while it is freed.         *)
(* Concurrent calls, repeated calls of free(), and the freeing of a URI    *)
(* whose peers live on are all allowed.                                    *)
(***************************************************************************)
CONSTANTS
  Threads,   \* threads of the application
  Uris,      \* Java objects made by "new EjfatURI"
  Managers,  \* Java objects made by "new LbManager"
  Pipes,     \* Java objects made by "new Segmenter" and "new Reassembler"
  Addrs      \* addresses the C++ allocator hands out

Null   == "null"     \* the field after free()
Unborn == "unborn"   \* the constructor has not returned yet
Failed == "failed"   \* the constructor threw: there is no Java object
NoUri  == "noUri"    \* LbManager.uri before the first getEjfatURI()
Nobody == "nobody"   \* heap cell that holds no instance

Handles == Uris \cup Managers \cup Pipes

ASSUME HandleAssumption ==
  /\ Uris \cap Managers = {} /\ Uris \cap Pipes = {} /\ Managers \cap Pipes = {}
  /\ Nobody \notin Handles

ASSUME AddrAssumption == Addrs \cap {Null, Unborn, Failed, NoUri} = {}

VARIABLES
  native,  \* nativeEjfatURI, nativeLbManager, nativeSegmenter, nativeReassembler
  uri,     \* LbManager.uri, as the address its nativeEjfatURI points into
  heap,    \* the Java object each heap cell's instance was made for
  frame    \* what each thread is doing, with the values it has read

vars == <<native, uri, heap, frame>>

Idle == [pc |-> "idle", obj |-> Nobody, src |-> Nobody, ptr |-> Null]

Frame(pc, obj, src, ptr) == [pc |-> pc, obj |-> obj, src |-> src, ptr |-> ptr]

-----------------------------------------------------------------------------
(* What the application does in place of the locks the classes lack.       *)

Freeing == {"checked", "deleting", "zeroing"}

Within(t, h) == frame[t].obj = h \/ frame[t].src = h

MayUse(h) ==
  /\ native[h] \in Addrs
  /\ \A t \in Threads : Within(t, h) => frame[t].pc \notin Freeing

MayFree(h) ==
  /\ native[h] \in Addrs \cup {Null}
  /\ \A t \in Threads : ~Within(t, h)

MayConstruct(h) ==
  /\ native[h] = Unborn
  /\ \A t \in Threads : ~Within(t, h)

-----------------------------------------------------------------------------
Init ==
  /\ native = [h \in Handles |-> Unborn]
  /\ uri = [m \in Managers |-> NoUri]
  /\ heap = [a \in Addrs |-> Nobody]
  /\ frame = [t \in Threads |-> Idle]

(* new EjfatURI(...): the instance is allocated and the field set before   *)
(* any other thread knows the object.                                      *)
NewUri(t, u) ==
  /\ frame[t] = Idle
  /\ MayConstruct(u)
  /\ \E a \in Addrs :
       /\ heap[a] = Nobody
       /\ heap' = [heap EXCEPT ![a] = u]
       /\ native' = [native EXCEPT ![u] = a]
  /\ UNCHANGED <<uri, frame>>

(* The URI does not parse: nothing is allocated, the exception leaves the  *)
(* constructor.                                                            *)
NewUriThrows(t, u) ==
  /\ frame[t] = Idle
  /\ MayConstruct(u)
  /\ native' = [native EXCEPT ![u] = Failed]
  /\ UNCHANGED <<uri, heap, frame>>

(* The EjfatURI objects, each named after the object whose instance holds  *)
(* the URI, and the address in their field.                                *)
EjfatURIs == Uris \cup {m \in Managers : uri[m] # NoUri}

nativeEjfatURI(e) == IF e \in Managers THEN uri[e] ELSE native[e]

(* The constructors of the other classes start by reading the address of   *)
(* the EjfatURI they are given out of its Java field: one of the           *)
(* application's own, or the one inside an LbManager.                      *)
getEjfatUriFromField(t, p, e) ==
  /\ frame[t] = Idle
  /\ MayConstruct(p)
  /\ MayUse(e)
  /\ frame' = [frame EXCEPT ![t] = Frame("ctor", p, e, nativeEjfatURI(e))]
  /\ UNCHANGED <<native, uri, heap>>

(* Mutated form: the new instance takes the URI over, and it is deleted.   *)
NewPeerTakesUri(t) ==
  LET p == frame[t].obj IN
  /\ frame[t].pc = "ctor"
  /\ \E a \in Addrs :
       /\ heap[a] = Nobody
       /\ heap' = [heap EXCEPT ![a] = p, ![frame[t].ptr] = Nobody]
       /\ native' = [native EXCEPT ![p] = a]
  /\ frame' = [frame EXCEPT ![t] = Idle]
  /\ UNCHANGED uri

(* They then copy the URI into a new instance.                             *)
NewPeer(t) ==
  LET p == frame[t].obj IN
  /\ frame[t].pc = "ctor"
  /\ \E a \in Addrs :
       /\ heap[a] = Nobody
       /\ heap' = [heap EXCEPT ![a] = p]
       /\ native' = [native EXCEPT ![p] = a]
  /\ frame' = [frame EXCEPT ![t] = Idle]
  /\ UNCHANGED uri

(* The constructors of Segmenter and Reassembler may throw before they     *)
(* have an instance.                                                       *)
NewPipeThrows(t) ==
  /\ frame[t].pc = "ctor"
  /\ frame[t].obj \in Pipes
  /\ native' = [native EXCEPT ![frame[t].obj] = Failed]
  /\ frame' = [frame EXCEPT ![t] = Idle]
  /\ UNCHANGED <<uri, heap>>

(* initLbManager goes on after parseSslCredemtialOptions has left an       *)
(* exception pending: the instance exists and no Java object will hold it. *)
NewManagerThrows(t) ==
  LET m == frame[t].obj IN
  /\ frame[t].pc = "ctor"
  /\ m \in Managers
  /\ \E a \in Addrs :
       /\ heap[a] = Nobody
       /\ heap' = [heap EXCEPT ![a] = m]
  /\ native' = [native EXCEPT ![m] = Failed]
  /\ frame' = [frame EXCEPT ![t] = Idle]
  /\ UNCHANGED uri

(* A method reads the field and enters its native function ...             *)
Call(t, h) ==
  /\ frame[t] = Idle
  /\ MayUse(h)
  /\ frame' = [frame EXCEPT ![t] = Frame("native", h, Nobody, native[h])]
  /\ UNCHANGED <<native, uri, heap>>

(* ... which uses the instance until it returns.                           *)
Return(t) ==
  /\ frame[t].pc = "native"
  /\ frame' = [frame EXCEPT ![t] = Idle]
  /\ UNCHANGED <<native, uri, heap>>

(* LbManager.getEjfatURI(), on an object that has no cached URI yet: the   *)
(* address is computed from the field, then cached.                        *)
getInternalUri(t, m) ==
  /\ frame[t] = Idle
  /\ MayUse(m)
  /\ uri[m] = NoUri
  /\ frame' = [frame EXCEPT ![t] = Frame("internal", m, Nobody, native[m])]
  /\ UNCHANGED <<native, uri, heap>>

(* Mutated form: the address is not checked, and a null one is cached.     *)
getEjfatURIOfNull(t) ==
  /\ frame[t].pc = "internal"
  /\ uri' = [uri EXCEPT ![frame[t].obj] = Null]
  /\ frame' = [frame EXCEPT ![t] = Idle]
  /\ UNCHANGED <<native, heap>>

getEjfatURI(t) ==
  /\ frame[t].pc = "internal"
  /\ uri' = [uri EXCEPT ![frame[t].obj] = frame[t].ptr]
  /\ frame' = [frame EXCEPT ![t] = Idle]
  /\ UNCHANGED <<native, heap>>

(* A method of the cached URI runs inside the LBManager instance.          *)
CallInternalUri(t, m) ==
  /\ frame[t] = Idle
  /\ MayUse(m)
  /\ uri[m] # NoUri
  /\ frame' = [frame EXCEPT ![t] = Frame("native", m, Nobody, uri[m])]
  /\ UNCHANGED <<native, uri, heap>>

(* Mutated form: free() without its test.                                  *)
FreeUnchecked(t, h) ==
  /\ frame[t] = Idle
  /\ MayFree(h)
  /\ frame' = [frame EXCEPT ![t] = Frame("checked", h, Nobody, Null)]
  /\ UNCHANGED <<native, uri, heap>>

(* free(): "if (native != 0)".  Freed already: nothing happens.            *)
FreeCheck(t, h) ==
  /\ frame[t] = Idle
  /\ MayFree(h)
  /\ native[h] # Null
  /\ frame' = [frame EXCEPT ![t] = Frame("checked", h, Nobody, Null)]
  /\ UNCHANGED <<native, uri, heap>>

(* The field is read again as the argument of freeNativePointer.           *)
FreeRead(t) ==
  /\ frame[t].pc = "checked"
  /\ frame' = [frame EXCEPT ![t] = Frame("deleting", frame[t].obj, Nobody, native[frame[t].obj])]
  /\ UNCHANGED <<native, uri, heap>>

(* Mutated form: freeNativePointer without delete.                         *)
freeNativePointerKeeps(t) ==
  /\ frame[t].pc = "deleting"
  /\ frame' = [frame EXCEPT ![t] = Frame("zeroing", frame[t].obj, Nobody, frame[t].ptr)]
  /\ UNCHANGED <<native, uri, heap>>

(* delete.                                                                 *)
freeNativePointer(t) ==
  /\ frame[t].pc = "deleting"
  /\ heap' = [heap EXCEPT ![frame[t].ptr] = Nobody]
  /\ frame' = [frame EXCEPT ![t] = Frame("zeroing", frame[t].obj, Nobody, frame[t].ptr)]
  /\ UNCHANGED <<native, uri>>

(* Mutated form: the field keeps the deleted address.                      *)
FreeKeepsField(t) ==
  /\ frame[t].pc = "zeroing"
  /\ frame' = [frame EXCEPT ![t] = Idle]
  /\ UNCHANGED <<native, uri, heap>>

(* "native = 0".                                                           *)
FreeZero(t) ==
  /\ frame[t].pc = "zeroing"
  /\ native' = [native EXCEPT ![frame[t].obj] = Null]
  /\ frame' = [frame EXCEPT ![t] = Idle]
  /\ UNCHANGED <<uri, heap>>

Next ==
  \E t \in Threads :
    \/ \E u \in Uris : NewUri(t, u) \/ NewUriThrows(t, u)
    \/ \E p \in Managers \cup Pipes, e \in EjfatURIs : getEjfatUriFromField(t, p, e)
    \/ NewPeer(t) \/ NewPipeThrows(t) \/ NewManagerThrows(t)
    \/ \E h \in Handles : Call(t, h) \/ FreeCheck(t, h)
    \/ Return(t)
    \/ \E m \in Managers : getInternalUri(t, m) \/ CallInternalUri(t, m)
    \/ getEjfatURI(t)
    \/ FreeRead(t) \/ freeNativePointer(t) \/ FreeZero(t)

Spec == Init /\ [][Next]_vars

-----------------------------------------------------------------------------
Pointers == Addrs \cup {Null}

TypeOK ==
  /\ native \in [Handles -> Addrs \cup {Null, Unborn, Failed}]
  /\ uri \in [Managers -> Addrs \cup {NoUri}]
  /\ heap \in [Addrs -> Handles \cup {Nobody}]
  /\ frame \in [Threads -> [pc : {"idle", "ctor", "native", "internal"} \cup Freeing,
                            obj : Handles \cup {Nobody},
                            src : Uris \cup Managers \cup {Nobody},
                            ptr : Pointers]]

(* The object whose instance a frame is working on, the one it is freeing. *)
UsedIn(f) == CASE f.pc = "ctor" -> f.src
               [] f.pc \in {"native", "internal"} -> f.obj
               [] OTHER -> Nobody

FreedIn(f) == IF f.pc \in Freeing THEN f.obj ELSE Nobody

(* From the moment a method or a constructor has copied a pointer out of a *)
(* Java field until the native function returns, the address holds the     *)
(* very instance that object owns: neither free() of another object, nor   *)
(* the reuse of its address, nor the freeing of the URI a peer was built   *)
(* from pulls the memory away.  Holds for the URI cached by getEjfatURI()  *)
(* too, whose pointer aims inside the LBManager, in its own methods and in *)
(* a constructor it is given to.                                           *)
UseWhileLive ==
  \A t \in Threads : UsedIn(frame[t]) # Nobody => /\ frame[t].ptr \in Addrs
                                                  /\ heap[frame[t].ptr] = UsedIn(frame[t])

(* free() "if called multiple time it will be a noop": whenever a thread   *)
(* is about to delete, the address holds the instance of the object being  *)
(* freed, never a freed cell or the instance of another object that was    *)
(* given the same address since.                                           *)
FreeDeletesOwnInstance ==
  \A t \in Threads : frame[t].pc = "deleting" => /\ frame[t].ptr \in Addrs
                                                 /\ heap[frame[t].ptr] = frame[t].obj

(* "Memory leaks will happen if free is not called", and only then: every  *)
(* live instance is still reachable through the field free() reads.  The   *)
(* one exception is the LBManager allocated behind a pending exception.    *)
InstancesStayReachable ==
  \A a \in Addrs : heap[a] # Nobody =>
    \/ native[heap[a]] = a
    \/ heap[a] \in Managers /\ native[heap[a]] = Failed

(* The fields, frames and heap implement the life of an instance that      *)
(* InstanceLife promises: made once, borrowed while it lives, destroyed    *)
(* once and by its claimant.                                               *)
LifeOf(h) == IF \E a \in Addrs : heap[a] = h
               THEN IF native[h] = Failed THEN "lost" ELSE "live"
               ELSE IF native[h] = Unborn THEN "none" ELSE "gone"

life == [h \in Handles |-> LifeOf(h)]
user == [t \in Threads |-> UsedIn(frame[t])]
reaper == [t \in Threads |-> FreedIn(frame[t])]

Abstract == INSTANCE InstanceLife WITH Objects <- Handles

InstancesLiveOnce == Abstract!Spec
=============================================================================
