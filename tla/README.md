# TLA+ verification of e2sar-java

e2sar-java is a JNI wrapper around the C++ library E2SAR: Java classes whose
methods are native functions that call a C++ object. E2SAR itself segments
events into UDP datagrams for a hardware load balancer, reassembles them on
the other side, and talks to the balancer's control plane; it is **not** in
this repository. What the repository adds, and what is modelled here, is the
ownership of native objects and memory across the language border, the order
in which calls and callbacks may happen, the conversion of arguments, results
and errors between two type systems, the URIs that carry tokens and addresses,
and a command line tool that chains control plane calls through them.

Paths below are relative to the repository (`src/main/java/org/jlab/hpdf/` is
written `J/`). In `PROJECT.json` the repository is the directory `src`.

## 1. Inventory

| Part | Code | State | Operations | What makes it correct |
|---|---|---|---|---|
| Native peers | `J/EjfatURI`, `J/LbManager`, `J/Segmenter`, `J/Reassembler` | a `long` field with the address of a C++ instance; `LbManager.uri` | constructors, ~60 methods that pass the field to a native function, `getEjfatURI()`, `free()` | an address in use is that of a live instance of this object; one delete per instance; nothing lost |
| Send path | `J/Segmenter`, `src/cpp/jniDpSegmenter.cpp` | JNI global references; the library's send queue and thread | `openAndStart`, `sendEventDirect`, `addToSendQueueDirect`, the callback `freeGlobalByteBuffer`, `free` | memory still to be read is not collected; every reference is deleted once, by its own callback; accepted events are sent |
| Receive path | `J/Reassembler`, `src/cpp/jniDpReassembler.cpp` | the library's event queue; native event buffers behind `ByteBuffer`s; `allocatedBuffers` | `openAndStart`, `getEvent`, `recvEvent`, `getLostEvent`, `freeDirectBytebBuffer`, `free`, (de)registration | an event has one receiver, in order; it stays readable; waits end; no event made of nothing |
| Control plane calls | `J/LbManager`, `src/cpp/jniLbManager.cpp` | the internal URI of the native LBManager | reserve, get, free, register, deregister, sendState, senders, status, overview, version | errors become exceptions; tokens end up in the URI |
| URI and tokens | `J/EjfatURI`, `src/cpp/jnie2sarEjfatUri.cpp` | three kinds of token, ids, addresses; copies of them in the other objects | parse with a token kind, print with a token kind, setters and getters | a token is used as what it is; a call changes one URI; getters tell what is in it |
| `Lbadm` | `J/cli/Lbadm` | `EJFAT_URI` of the shell, between runs | option checks, token type, dispatch, ten commands | a printed URI hands on what was granted; checked options suffice |
| Conversions | `src/cpp/jnie2sarHelper.cpp`, and the `convertTo...` functions | local references of the native frame; a pending exception | lists, statuses, overviews, addresses, numbers, timestamps, SSL options | a reference in use or returned is alive; a number or address means the same on both sides; an exception ends the method |
| Flags | `J/config`, `parseSegmenterFlags`, `parseReassemblerFlags` | fields with default values | assignment, copy into the native structure | every flag reaches its member |
| Messages, exceptions, version | `J/messages`, `J/exceptions`, `J/E2sarUtil`, `src/cpp/jnie2sar.cpp` | plain data | none that changes state | (not modelled) |

**Interaction.** A Java method copies its object's field into a native frame
and calls the library there. The constructors of the other classes read the
field of an `EjfatURI` and copy the URI. `LbManager.getEjfatURI()` makes an
`EjfatURI` whose field points *into* the LBManager, and which is given to
constructors as any other (`src/test/.../E2sarSegmenterLiveTest.java:67`). `addToSendQueueDirect`
leaves a global reference and a callback with the library, whose send thread
runs it later. `getEvent` and `recvEvent` wrap memory the library's receive
threads have filled. `Lbadm` runs are connected by the URI one prints and the
next is started with, and by the control plane both talk to.

**What is hard.** There is no lock in the Java classes; `free()` is
check-delete-clear; addresses and reference slots are reused; buffers outlive
the call, the object and the application's interest in them; queues are
bounded; waits race with arrivals; sessions expire between two commands. An
exception set by native code takes effect only when the method returns, so that
every early return counts. Java has no unsigned types, and its byte order is
not that of the machine. Native code names Java fields by strings. One URI
lives on in several copies, and is seen through two objects.
`PROJECT.json` lists each hazard at its line, with the property that covers it
or the reason why none does.

## 2. Modules

| Module | Models | Checked by |
|---|---|---|
| `NativePeers` | fields, heap, native frames of all four classes | `native_peers`, and proofs |
| `InstanceLife` | abstract: the life of an instance, without addresses | refined by `NativePeers` |
| `Segmenter` | send path, collector, send thread | `segmenter`, `segmenter_leak`, and proofs |
| `BufferLease` | abstract: buffers leased to pending events | refined by `Segmenter` |
| `Reassembler` | receive path | `reassembler`, `get_event_empty`, `free_buffers`, and proofs |
| `EventDelivery` | abstract: where an event is | refined by `Reassembler` |
| `EjfatUris` | contents of all URIs and of their copies | `values`, `token_kinds`, and proofs |
| `UriRegisters` | abstract: one register per object | refined by `EjfatUris` |
| `EventLabels` | event numbers, dataIds and source identifiers from sender to receiver | `values`, and proofs |
| `Addresses` | IP addresses and ports between Java and the library | `values`, and proofs |
| `NativeCalls` | a native method from its call to its return or exception | `native_methods`, and proofs |
| `ConfigFlags` | flags objects and their copies | `values`, and proofs |
| `UriTokens` | the token part of an EJFAT URI | used by `Lbadm` |
| `Lbadm` | the tool in several shells, the control plane | `lbadm`, `lbadm_export`, and proofs |
| `JniLocalRefs` | local references of all conversions | `native_methods`, `status_ref`, and proofs |
| `MCNativePeers`, `MCSegmenter`, `MCReassembler`, `MCLbadm` | a small instance of one module each | their runs |
| `MCValues` | small instances of `EjfatUris`, `EventLabels`, `Addresses` and `ConfigFlags` | `values`, `token_kinds` |
| `MCNativeMethods` | small instances of `JniLocalRefs` and `NativeCalls` | `native_methods`, `status_ref` |
| `*_proofs` | theorems and their proofs: one module each for `NativePeers`, `Segmenter`, `Reassembler`, `EjfatUris`, `Lbadm`, `JniLocalRefs` and `NativeCalls`; `Values_proofs` for `EventLabels`, `Addresses` and `ConfigFlags` | TLAPS |

`NativePeers` is about the memory of URIs and other instances, `EjfatUris`
about what is in them; `Segmenter` and `Reassembler` are about the memory of
events, `EventLabels` about their numbers; `JniLocalRefs` is about the
references a method makes, `NativeCalls` about how it ends. Each leaves the
other's state out, and keeps the other's conditions on the application.
`MCValues` and `MCNativeMethods` put modules side by side that share no state:
the variable `part`, chosen at the start, says which of them moves, so that a
run goes through the sum of their states and not through the product. Names that
would clash are told apart by a prefix (`LabelNext`, `AddressNext`, ...).

Definitions have the names of the functions they translate; `map` in
`PROJECT.json` gives the lines. Definitions marked *external* there stand for
code outside the repository: the E2SAR library, the JVM, the control plane, the
application or the user. Operators introduced by the comment *Mutated form*
are not part of any specification: each is a plausible mistake in the operator
that follows it, and with it in place of that operator the property named in
`PROJECT.json` fails.

### NativePeers

`native` is the `long` field of each object (`Unborn` before the constructor
returns, `Failed` after it threw, `Null` for 0), `uri` the address cached by
`getEjfatURI`, `heap` which object's instance each address holds, `frame` what
each thread has copied out of fields. `EjfatURIs` are the objects a constructor
may be given: those of the application, and the one of each manager that
`getEjfatURI` has made, which the constructor reads inside the memory of the
manager. A method is two steps (`Call`, `Return`), a constructor that reads a
URI two, `getEjfatURI` two, `free()` three after its
test: `FreeCheck` reads the field for `if (native != 0)`, `FreeRead` reads it
again as the argument of `freeNativePointer`, `freeNativePointer` deletes,
`FreeZero` clears. `NewManagerThrows` is the LBManager that `initLbManager`
allocates behind the exception of `parseSslCredemtialOptions`.

The code has no guard against misuse: methods do not test the field, and
`free()` is not atomic. What the application has to do instead is part of the
model, as `MayUse` (an object that was freed is not used) and `MayFree` (nobody
is inside an object while it is freed). Allowed are concurrent calls, calls of
different objects in any order, repeated `free()`, and freeing a URI while
peers made from it live on, as the javadoc of the constructors asks. A
constructor that is given the URI of a manager is inside the manager as far as
these two are concerned. The client never calls `free()` of the URI it got from `getEjfatURI()`: that would
delete an address inside another object.

*Properties.* `UseWhileLive`, `FreeDeletesOwnInstance`,
`InstancesStayReachable`, and the refinement `InstancesLiveOnce`.

### Segmenter

`addToSendQueueDirect` is three steps: the address is taken, `NewGlobalRef`,
and the offer to the queue (`addToSendQueue` or `AddThrows`). The send thread
is `TakeEvent`, `SegmentEvent`, `freeGlobalByteBuffer`. `Forget` drops the
application's reference to a buffer, `Collect` is the collector: it takes a
buffer that is not reachable, not in a frame and not globally referenced. The
library's queue is modelled from what the wrapper relies on: an add may be
refused with an error (queue full), accepted events are sent in order, and the
callback runs once afterwards. Errors that open sockets or sending may report
change nothing in the wrapper and have no step of their own.

*Properties.* `ReadMemoryIsLive`, `OwnReference`, the refinement
`BuffersAreLeased`, and, with fairness, `AcceptedIsSent`.
`segmenter_leak` shows that the documented deletion of references does not
happen for a refused event.

### Reassembler

An event is the number of its assembly; its native buffer has the same name.
`getEvent` and `recvEvent` take an event into a frame (`taken`), and
`ReturnEvent` wraps it: these are the library call and the construction of the
`ByteBuffer` and the `Optional`. `recvEvent` waits (`waiting`), with or without
limit. `Enqueue` is the receive thread, which loses events at a full queue.
An empty queue is taken to give the value -1 without an error: `recvEvent`
tests for exactly this, and `J/Reassembler` calls it the "blocking variant of
getEvent()". `get_event_empty` shows what this assumption about the library means
for `getEvent`, which does not test. If the library reported an error instead,
that divergence would not exist, and every other property would hold as well.

*Properties.* `DeliveredOnce`, `ReadableUntilReturned`,
`RecvReturnsRealEvents`, `TakenInOrder` (an action property), the refinement
`EventsAreDelivered` (the place of an event, queued, lost, held, delivered or
gone, is computed from the queues, frames and sets of the implementation), and,
with fairness, `TimedWaitEnds` and `HeadReachesWaiter`. `free_buffers` shows that
`free()` releases no delivered buffer: nothing fills `allocatedBuffers`.
`ReadableUntilReturned` says nothing of what is left after `free()`, which is
documented to take the buffers that have yet to be freed
(`J/Reassembler.java:252`); neither it nor its proof depends on that set being
empty.

### Lbadm

A run of the tool is `main` (checks, token type, dispatch), one command, and
`NextPrompt`, where the user puts the printed URI into this or another shell's
`EJFAT_URI` or does not. The control plane and the library's choice of token
are external and follow the texts of `LbManager`'s javadoc and `Lbadm`'s
options: reserve needs the administrator's token, and so on; a state update
needs the token of its session. Workers and reservations may expire at any time.
Command lines are sets of option names. Three options have a value in the model,
those that override what the environment says: `--uri` (a URI that is, or could
be, in some shell's environment), `--lbid` and `--session` (identifiers that
were handed out). The values of the others, and the printing of everything but
the URI, are left out.

*Properties.* `PrintedUriIsTheGrant`, `NoMissingArgument`,
`SessionUriIsAccepted`. `lbadm_export` shows a disagreement with the option
texts.

### EjfatUris

`native` is the field of each object, `uri` the second handle a manager gives
out, `heap` the URI in each cell, whether it is an instance of `EjfatURI` or
inside that of an LbManager, a Segmenter or a Reassembler. Constructors parse
a string (`initEjfatUri`, `getUriFromFile`) or copy a URI (`initPeer`), be it
that of an `EjfatURI` or the one inside a manager, with whatever it was granted;
setters go through `Pointer`, the address the Java object works with; grants
(`reserveLB`, `getLB`, `registerWorker`) go to the URI of the instance that
asked. Calls are atomic here, their interleaving being the subject of
`NativePeers`. What the library writes into a URI after a grant is external and
follows the javadoc of `LbManager`; grants and setters set one value per call.

*Properties.* `OneOwnerPerUri`, `GettersAnswerForTheOwner`,
`StringsCarryTheirToken`, and the refinement `UrisAreSeparate`: seen from
outside, each object has a register for each field, whoever shares memory with
whom. `called` remembers the token that was given last, with the kind it was
given as; `token_kinds` shows that the URI may not have it as that.

### EventLabels

A width is half the number of its values, so that the proofs cover 16, 32 and
64 bits and the runs small ones. `initSegmentor` cuts its arguments, `send`
cuts those of an event, `Headers` is the library's replacement of zeros,
`receive` is the conversion to a `ReassembledEvent`. Events arrive in any order
or never. *Properties.* `LabelsArrive`, `SourceIdArrives`. The first is about
dataIds that fit: one that does not is cut, and a multiple of 65536 becomes the
zero that stands for the constructor's dataId.

### Addresses

`convertInetAddressToBoostIp` reverses bytes and reads them as a machine
number with the low byte first; `convertInetSocketAddress` and `registerWorker`
go through text. A byte has `Byte` values. Addresses that Java itself turns
from IPv6 into IPv4 are excluded (`AddressAssumption`). *Properties.*
`WorkersAreReached`, `AddressesComeBack`. The first is about IPv4: the bytes of
an IPv6 address are reversed as well, and nothing reverses them back.

### NativeCalls

A native method is the sequence of its conversions, its request to the library
and the conversion of the answer; an argument is good or bad in the way its
conversion has to reckon with. `pending` is the step that has set the pending
exception, `asked` and `refused` what the library has heard and answered.
Bad arguments of conversions without a test end the JVM: the access to a null
reference and the uncaught C++ exception are undefined or fatal, and one
outcome stands for them. `addToSendQueueDirect` is told from `sendEventDirect` by
the `NewGlobalRef` between conversion and request. Behind a pending exception
JNI allows almost no call; where the code makes one all the same, both outcomes
are there: it is done, or the process exits (`NewGlobalRef`, and `Refuse` and
`RefuseEndsJvm` for the `FindClass` of `throwJavaException`). *Properties.*
`NothingDoneBehindAnException`, `JniBeginsClean`, `SuccessIsReal`, with the
exceptions the code has named in them. For `JniBeginsClean` there is one, the
exception of a buffer without memory: the two sends go on behind it. It is about
where the steps of a method begin, not about calls within one conversion.

### ConfigFlags

The declared fields and defaults come from the Java classes, the names and
types asked for from the native functions; `Construct` copies the one through
the other. *Properties.* `FlagsArrive`; its type invariant says that every
field asked for is declared with that type.

### JniLocalRefs

A conversion is the sequence of its JNI calls; a loop is its rounds one after
the other (`InTurn`), and an object has the name of the C++ variable that holds
the reference to it, an element that of its vector, with an index. The result of
`getStatus` is `jLBStatus`, the variable of the conversion; the LBs of an
overview have as many workers and senders each. A new reference gets any free
slot, or a new one; a deletion frees whatever is in the slot, which is what a
second deletion does in a JVM that has handed the slot out again. Of the free
slots that no variable still in use stands for, one is tried for all: they
are alike (`AnySlot`). Error paths (a class or constructor that is not found)
are in `NativeCalls`.

*Properties.* `ArgumentsAreAlive`, `ListIsAlive`, `OneElementAtATime`.
`status_ref` shows that the second deletion of the workers can hit the result
of `getStatus`; the status in an overview comes from the same conversion, and is
the one argument `ArgumentsAreAlive` leaves out.

## 3. Runs and bounds

| Run | Instance | Distinct states | Why it is enough |
|---|---|---|---|
| `native_peers` | 3 threads, 2 URIs, 1 LbManager, 1 Segmenter/Reassembler, 3 addresses; symmetry | 9.0 k | four objects over three addresses: every address is reused; three threads: a user, a constructor and a freer at once, each from the URI of the application or that of the manager |
| `segmenter` | 2 threads, 2 buffers, 3 reference slots, queue of 2 | 74 k | one buffer queued twice; two adds race for the last place; slots are reused, and run out |
| `reassembler` | 2 threads, 3 events, queue of 2 | 45 k | a third event is lost at a full queue or taken by a waiting thread; two takers race |
| `lbadm` | 2 shells, 2 reservations, 1 session, 19 command lines; symmetry | 1.3 M | URIs and identifiers of two reservations are mixed up across shells, by hand and by options; a session outlives or not its reservation |
| `values`, URIs | 2 URIs, 1 LbManager, 1 Reassembler, 2 cells, 2 setters or grants, one value; symmetry | 63 k | every cell is given out again, to an object of another class; a set field differs from an unset one |
| `values`, labels | longs of 5 bits, ints of 4 and dataIds of 2; 2 events | 146 k | negative, zero, just fitting, too large by one and by a whole turn; one event overtakes the other |
| `values`, addresses | bytes of 4 values, 3 IPv4 and 2 IPv6 addresses, 3 ports | 23 k | addresses that read differently backwards; ports that fit and that do not |
| `values`, flags | 2 assignments, 2 instances | 8.2 k | two fields mixed up; an object changed after it was used |
| `native_methods`, references | up to 3 elements, 2 workers, 2 senders, 2 LBs | 11 k | one element's slot is reused while the others are deleted twice; the proofs know no bound |
| `native_methods`, calls | all methods, all combinations of arguments | 510 | nothing is bounded |

The counters bounded for checking are `MaxEvents` (events that arrive),
`QueueSize`, `MaxSets`, `MaxSends`, `MaxChanges`, `MaxInstances`, `MaxSize`,
`MaxWorkers`, `MaxSenders` and `MaxReserved`; reservations and sessions are handed
out once each (`used`). The violation runs use the same instances. Deadlock is
not checked: each system really stops, when everything has been freed, used up
or returned. Symmetry is used only in runs without liveness properties.

## 4. Fairness

- `Segmenter`: weak fairness of the send thread's three steps and of native
  calls in progress, except `NewGlobalRef`. The thread runs until `free()`; a
  native call does not block, its add being non-blocking. None for the
  application, the collector, or `openAndStart`: `AcceptedIsSent` has "open" as
  a hypothesis and "freed" as an alternative.
- `Reassembler`: weak fairness of the continuation of each native call. A call
  that has something to take, whose time is up, or which has taken something, goes
  on. None for arrivals and for the application, so that a wait without limit
  need not end (and `HeadReachesWaiter` only says that the head does not stay).

The other modules state safety only.

## 5. What is proved

With TLAPS, for every value of the constants.

**NativePeers** (from `HandleAssumption`: the kinds of objects are disjoint;
`AddrAssumption`: no address equals a marker). `UseWhileLive` is not inductive:
that memory in use is not freed depends on where pointers came from. The
invariant `IInv` adds what a frame looks like at each place, that an object
with an address in its field owns exactly that heap cell, that a cached URI is the address of its manager, and that a thread that frees an object is
alone inside it. From it follow `TypeCorrect`, `NoUseAfterFree`,
`NoDoubleDelete`, `NoLostInstance`, and `LifeRefinement`: each action maps to
one action of `InstanceLife` or to a stutter.

**Segmenter** (from `RefAssumption`, `QueueAssumption`). `ReadMemoryIsLive` is
not inductive: the collector does not know about queued events, only about
references. `IInv` follows a reference from `NewGlobalRef` in a frame
(`FrameRefInv`) through the queue to the callback (`OwnReference`), shows that no
two of these ever share one, and that whatever the collector looks at is not
collected (`LiveInv`). From it follow `TypeCorrect`, `ReferencesAreOwned`,
`NoReadAfterCollection` and `LeaseRefinement` (a step of the implementation is one
of `BufferLease`, or a stutter; `free()` may end several leases).

**Reassembler** (from `BoundAssumption`). `DeliveredOnce` is not inductive: it
does not say why the head of the queue is an event nobody has had. `IInv` adds
that the numbers in the queue and in the list of lost events grow, that those
queued lie above all that were taken or delivered, that a frame holds an event
only between taking and returning it. From it follow `TypeCorrect`,
`OneCallerPerEvent`, `EventsStayReadable`, `RecvIsHonest`, `InOrder` and
`DeliveryRefinement`. The refinement needs that
the head of the queue is the smallest number in it, for `EventDelivery` takes
events in the order of their numbers.

**EjfatUris** (from `OwnerAssumption`, `ConstantAssumption`,
`StringAssumption`). The getters' property needs that a second handle has the
address of its manager as long as the manager lives, the refinement that a
cell has one owner: `OneOwnerPerUri`, with the type invariant, is what makes a
write to a cell a write to one register. `OwnersCorrect`, `GettersCorrect`,
`StringsCorrect`, `UrisCorrect`.

**EventLabels** (from `WidthAssumption`, `ArgumentAssumption`). `LabelsArrive`
needs what a header was made from: the inductive invariant connects each sent
header with the arguments of its call and each received event with its header,
and one lemma says that casting a number to unsigned and back returns it. For
all widths, so for 16, 32 and 64 bits. `LabelsCorrect`, `SourceIdCorrect`,
`LabelTypeCorrect`.

**Addresses** (from `NumberAssumption`, `AddressAssumption`, `PortAssumption`).
The two ways compose the same number, and dividing it up again gives the
bytes back; the arithmetic is done once, in lemmas, for every size of a byte.
`WorkersCorrect`, `AddressesCorrect`, `AddressTypeCorrect`.

**ConfigFlags**, for any number of assignments and instances. `FlagsArrive`
needs that each native member is read from the field of its own name, with the
type it is declared with, and into a place of its own: the lemmas go through the
lists of both classes once, and the invariant says that what an instance
was given is an object with exactly the declared fields. `FlagsCorrect`,
`FlagTypeCorrect`.

**Lbadm** (from `ShellAssumption`, `IdAssumption`), for any number of shells,
reservations and sessions. `PrintedUriIsTheGrant` speaks of one run of the tool;
what it needs is about all of them: an identifier is handed out once, and a
URI that holds a session's token names that session, wherever a shell or a user
took it from. `IInv` says this of every environment and every run (`Names`), and
adds what a run knows at each of its places: while the command calls, after the
reservation, after the registration, after a refusal. The control plane's own
steps only end reservations and registrations, so that one lemma
covers them for all the other runs. From it follow `TypeCorrect`,
`PrintedUriCorrect`, `NoCrash` and `SessionsStay`.

**NativeCalls**, for every method, every combination of arguments and every
number of calls. No method tests for a pending exception between its steps; what
one can disturb rests on their order. `WellOrdered` says of a method, by what may
follow what (`MayFollow`), that it converts its arguments before it asks the
library, once, that the answer comes last, and that behind the two conversions
that go on with an exception there is only the request, or the `NewGlobalRef`
before it. It is proved of each method's code (`MethodsAreWellOrdered`), and the invariant `CallInv` adds what a pending
exception leaves to be done, by the step that has set it (`PendingInv`), and what
has been asked by then (`AskedInv`). A method to which a step is added in the
wrong place makes the first fail, a missing return the second. From it follow
`RetryIsSafe`, `JniCallsClean` and `SuccessCorrect`.

**JniLocalRefs** (from `SizeAssumption`), for lists, workers, senders and LBs in
any number, and whatever slot JNI hands out for a new reference.
`ArgumentsAreAlive` is not inductive, and its strengthening depends on where in
its code a method is. It is a proof outline: for the point before each call,
what is known (`Known`) of the references, namely which objects are alive, which
were deleted, and which input holds a slot. `Outline` says that each call may be
made with what is known before it (`CallLeads`) and that what is known after it
follows; `Leads` that a conversion has an outline from one to another. Outlines
are put together as conversions are: one after the other (`LeadBoth`), and round
by round (`LeadLoop`, where the place of a call in a loop is computed by `\div`
and `%`). There is no induction over the length of a list in this: an outline of
a loop is given for all its rounds at once. `MethodLeads` gives one for every
method. The second deletion of an element is
harmless as long as its slot was not handed out in between; where it may have
been, between the deletion of the workers and that of the status's parts, only
`Victims` were made, and what is known after it leaves them out. This is why
the status is the exception in `ArgumentsAreAlive`, and why nothing else is. The
invariant `IInv` says that the method has an outline, and that what it says at
the current point holds of slots and variables (`Holds`). From it follow
`TypeCorrect`, `ArgumentsCorrect`, `ListsCorrect` and `InputsCorrect`. `IInv` quantifies
over outlines, so that TLC checks what follows from it and not `IInv` itself.

The types of the modules that share a run are those of each, since a step of one
leaves the others alone (`TypesCorrect` in `Values_proofs` and in
`NativeCalls_proofs`).

**Only model-checked.** Liveness: `AcceptedIsSent`, `TimedWaitEnds` and
`HeadReachesWaiter`, which rest on fairness, out of the prover's reach. Every
other property of a passing run is a theorem. What the violation runs show is
shown by their traces.

## 6. Disagreements found

Shown by a run of their own:

1. A refused event leaves its global reference behind (`segmenter_leak`).
2. `getEvent` on an empty queue returns an event (`get_event_empty`).
3. `free()` and `freeDirectBytebBuffer` release no buffer (`free_buffers`).
4. `Lbadm --register --export` prints a URI that cannot send state (`lbadm_export`).
5. `getStatus` may return a deleted reference (`status_ref`), which also reaches
   the entries of an overview.
6. `getFromFile` ignores the kind of token it is asked for, and
   `setSessionToken` sets the instance token (`token_kinds`).

Met in the code while modelling it, and modelled as the code does it; the
properties above name or exclude them, and no run is spent on them:

7. `Lbadm --addsenders` prints the help text: the dispatch asks for an option
   `addSenders` (`J/cli/Lbadm.java:447`; documented at line 283). `Branches`.
8. A dataId that is a multiple of 65536 stands for the constructor's
   (`src/cpp/jniDpSegmenter.cpp:100`; `J/Segmenter.java:94`). `send`, `Headers`.
9. A Reassembler for an IPv6 address listens on its reverse
   (`src/cpp/jnie2sarHelper.cpp:514`; `J/Reassembler.java:62`).
   `convertInetAddressToBoostIp` of `Addresses`.
10. SSL options: files that can be read are refused, and certificates given as
    strings are taken for files and dropped (`src/cpp/jniLbManager.cpp:8` and
    17; `J/LbManager.java:50`). `parseSslCredemtialOptions`.
11. An LBStatus that cannot be made is not reported as documented
    (`src/cpp/jniLbManager.cpp:115`; `J/LbManager.java:110`).
    `convertResultFails`.
12. Both sends of a Segmenter go on behind the exception of a buffer without
    memory, and `addToSendQueueDirect` calls `NewGlobalRef` behind it
    (`src/cpp/jniDpSegmenter.cpp:98`, 116 and 119; `jnie2sarHelper.cpp:483`).
    `getDirectByteBufferPointer`, `NewGlobalRef`.
13. `usecAsEventNum` is on by default, and documented as off
    (`J/config/SegmenterFlags.java:78` and 43). `Defaults`.

## 7. What is not modelled, and why

- The E2SAR library, gRPC, UDP and the load balancer: not in this repository.
- Message classes, the exception class, version and library loading: plain
  data. Where they are created or thrown is modelled.
- Conversions that keep their value: `Instant` and `Timestamp` (both seconds
  and nanoseconds), float and double; and modified UTF-8, which differs from
  what the library reads only in characters that tokens and names do not have.
- Printing of class members in `jnie2sarHelper.cpp`, which nothing calls.
- In `Lbadm`, the choice between IPv4 and IPv6, certificate validation, and the
  numbers of a registration and a state update: they go to the library as they
  are. The branches for an option `root` are dead: the parser does not know it.
- A `JNIEnv` used in another thread: undefined, so that a model could only say
  that anything may happen.
- Concurrent `free()` of one object by two threads: excluded by `MayFree`.
- What becomes of a worker that is still registered when its Reassembler is
  freed: the library's destructor decides.

## 8. Plan

Done in this order: ownership first, because everything else is memory-unsafe
without it; then the two data paths; then the tool; then references.

Second: the contents of URIs, the conversions of numbers and addresses, the
course of a native method, flags, all references; the abstract receive path and
its refinement; proofs of `Reassembler`, `EjfatUris`, `EventLabels` and
`Addresses`.

Also second: the options of `Lbadm` that override URI, LB and session, and the
proof of its properties.

Third: proofs of `NativeCalls`, `ConfigFlags` and `JniLocalRefs`, the last after
its conversions were restated without a bound in their lists.

Next: a composition of `NativePeers` and `Segmenter`, for the buffers of a
Segmenter that is freed while a thread is inside `addToSendQueueDirect`; and
that the outlines of `JniLocalRefs` bound the slots a method takes, which grow
with the number of LBs in an overview, whose parts are not deleted.
