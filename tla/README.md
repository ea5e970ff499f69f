# A verification project for python-pkcs11

TLA+ models of the parts of python-pkcs11 that keep state between calls, TLC
configurations that check them on small instances, and TLAPS proofs of their most
important properties. Paths are those of the repository under `src/`; `_pkcs11.pyx`
stands for `src/pkcs11/_pkcs11.pyx`.

## 1. Inventory

| Component | State | Operations | Talks to |
|---|---|---|---|
| Library registry (`pkcs11/__init__.py`) | `_loaded`: path → `lib` object | `lib()`, `unload()` | `lib` |
| `lib` (`_pkcs11.pyx:1958`) | function list, dlopen handle, `initialized` | construct, `initialize`, `finalize`, `reinitialize`, `unload`, `get_slots`, `get_tokens`, `wait_for_slot_event` | C library, loader (`extern/load_module.c`) |
| `Slot`, `Token` | copies of C structures and of the function list | `get_token`, `get_mechanisms`, `Token.open` | C library |
| `Session` | handle, user type, `operation_lock` (an RLock), attribute mapper, cancel strategy | `close`, searches, digests, key generation, PINs, random | token |
| `OperationContext` and subclasses | `active`, output buffer | `__enter__`, update, finish, `__exit__`, `_finalize`, `__del__` | session lock, token |
| `AttributeMapper` (`attributes.py`) | three default templates, handlers | template builders, pack, unpack | key generation |
| `AttributeList`, `ObjectHandleWrapper`, `make_object` | C attribute arrays | build, fetch, free; choose a class | token |
| `MechanismWithParam`, `defaults.py` | a `CK_MECHANISM`, the structure of its parameter | choose a mechanism, pack its parameter, free | token |
| objects (`ObjectHandleWrapper`, mixins) | a handle | get, set, copy, destroy, wrap, unwrap, derive | token |
| `types.py`, `constants.py`, `mechanisms.py`, `exceptions.py` | none | the public API, enumerations | – |
| `util/` | none | DER conversions | – |

How they interact: the program calls `pkcs11.lib()`, finds a token, opens a session
(`C_OpenSession`, `C_Login`) and calls methods of it and of its keys. A one-step method is
one C call. A multi-step operation is a `with` statement over an `OperationContext`:
`__enter__` takes the session's lock and calls `C_XInit`, the body makes updates and a
final call, and `__exit__`/`__del__` clean up. Searches and the chunked forms of encryption
and decryption run inside a *generator*: the body is suspended at each yield, with the lock
held, and goes on in whichever thread asks for the next item, or drops it.

What is hard:

- *Interleaving.* C calls are made `with nogil`. Every other thread may run during any of
  them, and at every yield.
- *Suspended operations* that own a lock of a particular thread.
- *Reentrancy.* The caller's iterator runs inside an operation and may start another one.
- *Partial failure.* Each of `C_XInit`, `C_XUpdate`, `C_XFinal`, a cancellation, `C_Login`,
  `C_Logout`, `C_CloseSession`, `C_Initialize`, `C_Finalize` may fail, and what remains is for
  the next call to cope with.
- *State elsewhere.* The token's operation state, its login (one for all sessions), the
  library's initialisation (one for all wrapper objects) and the mapper's templates (one for
  all sessions that share it) can disagree with the Python object that stands for them.

What makes each part correct:

- operations: one thread at a time has operations of its own, the lock is taken and released in balance, a call
  never reaches another object's operation, the session is handed over clean, every call ends;
- sessions: a handle belongs to one object, closing closes, nobody stays logged in, the
  object's user type is the truth;
- templates: a key gets the attributes of its own call;
- registry: `initialized` is the truth, a call never goes through an unloaded wrapper (unless the
  program unloaded it with `lib.unload()` itself), the next `lib()` succeeds;
- output: a token stays inside its buffer, and a caller gets the output of its own operation,
  in order and whole;
- discovery: what a search returns was there, and is exact if nothing was plugged meanwhile;
- objects: the classes of Python objects say what the token objects can do, values that are
  read are values the object had, searches are exact and end, what was created is not lost;
- mechanism parameters: a token reads the structure of its mechanism, with every field set;
  the wrapper frees its memory; the tables of defaults agree.

The hazards behind these, line by line, are the list `hazards` of `PROJECT.json`.

## 2. Modules

| Module | Models | Runs |
|---|---|---|
| `SessionLock` | abstract: what the docs promise of a session's lock | as `KeepsPromise` |
| `OperationContext` | the multi-step operations of one session, its lock, its token | `OperationContext_*` |
| `OutputStream` | abstract: what the caller of an operation with output may rely on | as `ImplementsStream` |
| `BufferedOutput` | the output buffers of these operations, from the length query to the copy | `BufferedOutput_streams` |
| `SessionLifecycle` | `Token.open`, `Session.close`, handles and login | `SessionLifecycle_sessions` |
| `KeyTemplates` | `AttributeMapper` templates and the generate functions | `KeyTemplates_*` |
| `LibRegistry` | `lib()`, `unload()`, the `lib` object, the C library | `LibRegistry_threads` |
| `TokenSearch` | slots, tokens and mechanisms, while readers and tokens come and go | `TokenSearch_plugging` |
| `ReturnValues` | operators: the exception each return value becomes | in the next two and in `TokenSearch` |
| `AttributeLists` | operators: `get_attribute_list` and the token's answers to it | in `ObjectCalls` |
| `ObjectCalls` | `make_object`, searches, and the calls that create, read, change and destroy objects | `ObjectCalls_*` |
| `MechanismParams` | defaults, `MechanismWithParam`, the memory of templates, `wrap_key` | `MechanismParams_defaults` |
| `...Proofs` | theorems about the module of that name | – |
| `MC...` | the module of that name with symmetry sets and definitions of its constants, for TLC | all |

`ObjectCalls` extends `AttributeLists`, which with `TokenSearch` extends `ReturnValues`.
`OperationContext` and `BufferedOutput` are two views of the same classes: the first has the
life of an operation in full and no data, the second the data and a simpler life.

### OperationContext

State: `lockOwner`/`lockCount` (the RLock), and per operation object `active` (the flag of
the class), `phase` (where the body is), `kind` (the class), `lazy` (it lives in a
generator) and `starter` (the thread that entered it); per thread `calls`, the stack of
operations whose code it is in; `tok`, which operation the token runs for each kind;
`sessionOpen`.

An action is one C call, or one acquisition of the lock, together with the Python code that
follows it up to the next one. Python code between two C calls can be preempted as well, by
threads that do not hold the session's lock. They can wait for the lock, close the session, or
run a generator that was passed to them. Of the last, the Python code touches the state of that
generator's own operation only; its `release()` raises, since the thread is not the owner, and
leaves the lock as it is. All three commute with the code merged into the action. A
successful update changes nothing in this state and is a stutter.

| Action | Code |
|---|---|
| `Call` | the program calls `encrypt`, `get_objects`, ... |
| `Enter` | `operation_lock.acquire()`, `active = True` (571-573) |
| `Initiate`, `InitiateFails`, `SearchInitiateFails` | `_initiate` and `_operation_aware_assert`; `SearchIter` raises without it |
| `UpdateFails`, `Finish`, `FinishTooSmall` | update and final calls, `_handle_final_retval` |
| `Leave` | the body ends with the operation active |
| `Finalize`, `FinalizeTooSmall`, `CancelAccepted`, `CancelIgnored`, `CancelFails` | `_finalize` from `__next__`, `__exit__` or `__del__`, with both cancel strategies |
| `CloseSession` | `Session.close`, which takes no lock |

The token is external: it refuses a `C_XInit` while it runs an operation of that kind (or any
operation, `SingleOperation`), ends an operation on any error and on a final call, and
answers any error listed in `Faults`. A generator is dropped only by a thread that runs the
program's code (`Free`); a garbage collection in the middle of another call is not modelled.

### SessionLifecycle

State: the token's open handles and login, per session object its stage, handle and user
type, and per thread the C call it makes next. A session in stage "failed" has no object, but
its handle may still be open. The program closes each session it has, again if `close`
raised, and never after it succeeded; it does not close one session from two threads at once.
An open handle of a failed login is nobody's: `LoginEndsWithSessions` says that it does not count
as logged in.

### KeyTemplates

A template is a function from attributes to values; capabilities are one attribute with the
set of those that are true, `id` is handled as `label` is. A call goes through the steps of
`generate_key` or `generate_keypair`, one for each access to the default templates. A domain
parameter pair may fail to read its parameters (ignored for two exception classes, raised for
others), an RSA pair may lack its `key_length`; both leave the template filled in.

`SerialPairs` is a discipline of the program: one key pair at a time with a mapper. Without it
two threads fill in the same public template, and the capabilities, the label and the `TOKEN`
flag of one call end up on the key of the other; the steps of the model are fine enough to show it
(`SerialPairs = FALSE` violates `CapabilitiesAreOwn`). Secret keys need no discipline.

### LibRegistry

One path. Wrapper objects have a function list and the flag `initialized`; the C library
behind them is initialised or not, once for the process (`up`). The model stops at each place
where the GIL is given up: before and after `C_Initialize` and `C_GetInfo`, and around any
other C call (`Use`). It also stops between the statements of `lib()` and `unload()`. A wrapper is
unloaded by `pkcs11.unload()`, by `__dealloc__` when its constructor fails, when nothing refers to
it any more (`Drop`), and by the program that calls its method `unload()` (`UnloadDirectly`). The
last does not touch the registry; `closed` is the history of the wrappers it was called on.

`disciplined`, chosen at the start, says that the program finalises the library only while no
other thread is in a call, unloads it only while no other thread is in a call or has the wrapper,
and calls `lib()` at any time but while a thread unloads.
An undisciplined program may call through a wrapper that another thread unloads: the process
would crash, and the model goes on, to see what becomes of the registry.

### BufferedOutput and OutputStream

State: per operation its buffer `buf` (a sequence of bytes; a byte is a pair of an operation and
a position in its output, or `Unwritten`), `dataLen`, the answer `need` to the length query, and
`phase`; the lock's `holders`; and three histories: what the token has `made`, what the caller was
`given`, and the operations a token has `misled` by asking for too little.

| Action | Code |
|---|---|
| `Begin` | `_setup`, `__enter__` (571-575, 613-625) |
| `Ask`, `AskRaises` | the length query, `resize_buffer`; `&output_buf[0]` of an empty buffer (634-667) |
| `UpdateWrites`, `UpdateTooSmall` | the writing call of an update; the chunk is handed over at once |
| `FinalWrites`, `FinalTooSmall` | the writing call of a final; it ends the operation and releases the lock |
| `Deliver` | the copy of the output, after the release for a final call |
| `Feed`, `CallFails`, `Leave`, `Cancel` | calls without output, errors, bodies left early, cancellation by init |
| `HailAsks`, `HailWrites`, `HailFails`, `HailTooSmall`, `HailRaises` | `_finalize` of an operation that is still active |

`OutputStream` has three variables, `sent`, `got` and `status`. `BufferedOutput` implements it:
`sent` is `made`, `got` the part of `given` before the token first misled the library, and an
operation is complete when its body has returned and broken when it raised.

### TokenSearch

State: `inside`, what is in each slot, which changes at any time (`PlugReader`, `UnplugReader`,
`ChangeToken`); `call`, the call the program is in, with its `buffer` of ids. `C_GetSlotList` and
`C_GetMechanismList` are called twice, for the length and for the contents; an entry of the second
call that is not written holds any id (`Filled`). `GetTokenInfo`, `CountMechanisms` and
`GetMechanismList` are the calls made for one slot, and `get_tokens` yields in between. What
`Slot.make` and `Token.make` take out of the C structures is in `MakeSlot` and `MakeToken`.

### AttributeLists and ObjectCalls

`AttributeLists` has no state. It says what a token answers to the two calls of
`C_GetAttributeValue` (honestly: `SizeAnswer`, `ValueAnswer`; oddly: `OddSizeAnswers`,
`OddValueAnswers`), and what the code makes of it: which entries are scanned (`Scanned`), which
get a buffer (`Retrievable`, `Buffers`), and the two checks (`QueryStatus`, `FillStatus`).

State of `ObjectCalls`: the token's `objects`, its `search` (which stands for the lock as well:
`OperationContext` has it in full), per thread the `call` it is in, and the Python objects `held`
by the program with the mixins they got. `QuerySizes` and `FillValues` are the two C calls of
every read; a read in which the token deviates goes into `odd`. `Making` and `OneByOne` are the bulk
read and the fallback of `make_object`, and `NewObject` its choice of classes. Every call that makes an object continues in these:
`CreateObject`, `GeneratePair`, `GenerateDSA`, `GenerateFrom`, `CopyObject`, `MakeWithKey`, and
`FindObjects`/`NextObject` of a search. Nothing but a search holds a lock, so another thread may
change or destroy the object between any two of these steps.

### MechanismParams

State: the key the program has, the `call` it is in, the blocks of `PyMem_Malloc` in use (`heap`),
the fields of the `MechanismWithParam` (`wrapper`), and what the token read. A parameter is
the form of the Python object, a length, and whether its optional bytes are there. `Begin` is a
method up to `__cinit__`; `BadMechanism`, `Fill` and `FillFails` are `__init__`, with the branch of
the mechanism (`Branch`), its allocation (`Mallocs`), what can raise in it (`Fits`) and the fields
it assigns (`Packed`); `Send`, `AskLength` and `WrapKey` are the C calls. Calls share nothing, so
one at a time is enough.

The methods that send a template pack it first (`AttributeList.from_template`): `list` is the
`AttributeList`, its count and the attributes whose pointer is set, and `values` the attributes whose
value has a block. `PackTemplate` packs all of them, `PackFails` some, with the count already that of
all. `Dealloc` is `__dealloc__` of both wrappers; `FreesUnset` frees a pointer that was never set,
after which the behaviour is undefined (phase "undefined"). Which attributes and values they are does
not matter here, and a key pair, which has two templates, has one list in the model.

## 3. Runs

Passing runs:

| Run | Instance | Shows |
|---|---|---|
| `OperationContext_local` | 2 threads, 3 operations, search/encrypt/sign, generators local, errors of init and update | `LockBalanced`, `TokenServesOwner`, `ReleasedWhenDone`, the refinement `KeepsPromise`, and `EveryCallEnds` under fairness |
| `OperationContext_faults` | 2 threads, 3 operations, search/decrypt/digest, generators in any thread, cancel with init, all faults | `MutualExclusion`, `LockCoversOps`, `OpenOperationOwnsToken` |
| `BufferedOutput_streams` | 2 threads, 2 operations, decrypt/digest/sign, buffers of 0 and 1, both cancel strategies, errors and tokens that find the room too small | `RoomForOutput`, `OutputInOrder`, `NothingForeign`, the refinement `ImplementsStream`, and, under fairness, `LockIsReleased`; cancellations succeed here |
| `SessionLifecycle_sessions` | 2 threads, 3 sessions, 2 handles, 2 user types, 1 refused login, 1 broken call | `HandlesAreOwn`, `LoginEndsWithSessions`; `UserTypeIsTrue` and, under fairness, `ClosingCloses` until a call to close has failed |
| `KeyTemplates_serial` | 2 threads, 2 calls, 2 labels, all shapes, one pair at a time | `SecretKeysAreOwn`, `CapabilitiesAreOwn`, `GivenLabelIsSent` |
| `LibRegistry_threads` | 3 threads, 4 wrappers, disciplined programs and others, 1 failure of `C_Finalize` | `RegisteredIsLoaded` (but for wrappers the program unloaded itself); for disciplined programs `FlagsAgree`, `CallsAreMapped`; `NextLibSucceeds` until `C_Finalize` has failed |
| `TokenSearch_plugging` | 3 slots, 2 tokens and an unrecognised one, 2 mechanisms, 3 plug events | `ListsAreTrue`, `TokensAreTrue`, `QuietSearchesAreExact` (exactness without `mechanisms`) |
| `ObjectCalls_tokens` | 2 threads, 2 stored and 3 new objects, 3 calls, batches of 2, a token that deviates in up to two reads | `FalseMixinsHaveCause`, `CapabilitiesAreMixins`, `ReadsAreTrue`, `SearchesAreExact`, `SearchHasCaller`, `OrphansHaveCause` |
| `MechanismParams_defaults` | every mechanism with a structure, 20 parameters, 10 key types, templates of 1 and 2 attributes | `ParameterFitsMechanism`, `StructuresAreComplete`, `NothingLeaks`, `DefaultKeysWork`, `WrapsAreWhole` |

The type invariants of `OperationContext`, `SessionLifecycle`, `KeyTemplates`, `LibRegistry` and
`BufferedOutput` are proved (section 4), and so are not among the invariants of their runs.

Runs that find a violation. Each is an entry of `findings` in `PROJECT.json`, with the line
of the documentation it contradicts:

| Run | What the code does |
|---|---|
| `OperationContext_cross` | a generator finished in another thread leaves the lock held for ever |
| `KeyTemplates_leak` | a pair without a label gets the label of the pair before |
| `ObjectCalls_mixins` | on a token that fails bulk reads, an object gets the mixins of flags that could not be read |

What else the models and the reading of the code showed:

- A search nested in a search of the same thread raises, as the comment at `_pkcs11.pyx:876` says;
  but the object that failed is still active, and its `__del__` ends the outer search (764).
- `Token.open` leaves the session of a failed login open (538): nobody has an object to close it.
- After `C_Logout` succeeded and `C_CloseSession` failed, every later `close` stops at `C_Logout`
  (905). A retried close also logs out whoever has logged in meanwhile.
- After a failed `C_Finalize` the flag is cleared and each `lib()` raises (2025).
- A cancellation that fails, in `__exit__` and again in `__del__`, keeps the lock (`"cancel_failed"`
  in `Faults`); no property of a run says otherwise, since `ReleasedWhenDone`, `EveryCallEnds` and
  `LockIsReleased` are about tokens whose cancellations succeed. Dropping the generator of an encryption does cancel it, although `types.py:967`
  says it cannot.
- Two threads mix up their key pairs (`SerialPairs = FALSE`).
- An operation with `buffer_size=0` that is left early raises in `_finalize` and keeps the lock,
  unless the session cancels by init (`LockIsReleased` says so).
- A token that answers `CKR_OK` to the size query although an attribute is unavailable: if that
  attribute is not the first, the list is cut short without an error (1230-1233).
- An error of the size query that leaves the lengths 0 is overwritten by that of the second call
  (1219, 1242), which finds buffers of no length and becomes `FunctionFailed`. When `make_object`
  reads one by one it passes over that (1376), so any error of the token while the class is read
  gives a bare `Object`, which can do nothing. `CapabilitiesAreMixins` leaves out objects that were read
  so; it takes a second deviating read, which is why `MaxOdd` is 2.
- The mixins of `ObjectCalls_mixins` that the token object never had do not need a token that
  deviates. It is enough that another thread gives a flag that was empty a value between the two
  calls of the bulk read (1219, 1241): the flags are then read one by one, and those that the object
  does not show become mixins. `FalseMixinsHaveCause` says that nothing else leads there, and
  `ObjectCalls_tokens` has both ways.
- A template that cannot be packed half way (86) has the full count but not all of its pointers, and
  `AttributeList.__dealloc__` frees those too (128-133). `NothingLeaks` says that nothing else leads
  there.
- `get_key` that raises `MultipleObjectsReturned` leaves its search open as long as the exception is
  kept (`types.py:374`): the exception refers to the frame, and that to the generator.
  `SearchHasCaller` names this as the third case in which the session goes on searching.
- A bare `Object` in place of domain parameters makes `generate_keypair` of DSA raise
  `AttributeError` (`types.py:574`; in `Receive`).
- An object whose class is not in `ObjectClass` makes `make_object` raise `ValueError`, which ends
  a search (`OrphansHaveCause`, `SearchHasCaller`), where an enumerated class that has no Python
  class gives a plain object.
- The domain parameters that `generate_keypair` makes for a DSA pair stay on the token
  (`types.py:572`, a cause in `OrphansHaveCause`).
- `get_tokens(mechanisms=...)` and `get_token(mechanisms=...)` never find a token (2146: the set is
  looked for as an element of the slot's mechanisms), although `docs/api.rst:34-42` says that the
  parameter gives the mechanisms required. `QuietSearchesAreExact` claims exactness of searches
  without the parameter only. `wait_for_slot_event` always raises `TypeError` when there is an event
  (2190).
- After a direct `lib.unload()` (2193, public in `_pkcs11.pyi:25`) the registry keeps the wrapper:
  the next `lib()` finds it, `initialize()` does nothing without a function list (2013), and `lib()`
  returns a wrapper that cannot be called. `pkcs11.unload()` deletes the entry and so recovers.
  `RegisteredIsLoaded` and `CallsAreMapped` name the wrappers in `closed` as the exception.
- The PSS mechanisms with SHA-3 are refused a tuple of parameters (220), although
  `docs/applied.rst:1019-1021` lists `SHA*_RSA_PKCS_PSS` as taking one, and get no default.
  `ParameterFitsMechanism` compares with the structures that mechanisms are documented to take
  (`Takers`), not with the branches of the code (`BranchFor`), and names these four as the
  exception. All PSS mechanisms have SHA-1 as
  the default hash. `GCMParams` says "less than 12" of a nonce and accepts 12.
- X9.42 DH keys have default mechanisms and no default capabilities: their `capabilities` must be
  given.

**Bounds.** Two threads are enough for a lock: it has one owner, and the others are
interchangeable. Three operations give a nested one under a suspended one while the other
thread waits. Kinds are told apart only as search, digest, key operations with a buffer and
`verify`, and each run has three of them. The sets of kinds differ between the runs so
that each kind but `verify` occurs in one (`verify` differs from `sign` only in that it has
no buffer that could be too small). Buffers of length 0 and 1 and estimates up to 2 give a buffer
that does not exist, one that fits and one that is replaced; one chunk and a final call give two
pieces of output. Three sessions on two handles make a token run out of
handles and give one out twice. `MaxRefused`, `MaxBroken` and `MaxFailed` (failures) and
`MaxCalls` (calls of generate functions) bound what could go on for ever. One failure of each sort
is enough to leave a session behind or to bring about a retry, and two calls are enough for one to
see what another left. Wrappers are used up by `lib()` calls that make a new one: four let three
threads load at once and one load again. Three plug events let a slot go, come back and
change its token within one search. Objects: five handles, two there at the start, let one thread
make a pair while the other destroys half of it, and let two batches be filled; the three stored
and created classes of objects are one with all its flags, one with a flag that is not shown, and
one of a class the library does not know. A public key has an empty flag, which another thread may
set to a value of a byte in the middle of a read. `MaxOdd` is two reads in which the token deviates,
the bulk read of an object and one of its single reads; the properties that need a read without
deviation say of which object and sort (`odd` is the set of the others). `Counts` are templates of one
attribute, whose packing fails at once, and of two, which can fail half way; a longer one does nothing
new. Parameters of mechanisms come in lengths on both sides of each limit (12 for
GCM, 15 and 16 for CTR and CBC). The proofs below need none of these bounds.

**Fairness.** `OperationContext!FairSpec`: weak fairness for each operation and thread of the
library's own steps (the interpreter runs every thread, C calls return) and of the ends
of a body (the program consumes or drops its generators). The lock itself needs no strong fairness
here because an operation is entered at most once, so the lock cannot be taken from a waiting
thread for ever. A program that starts operations without end could starve it:
`threading.RLock` promises no order. `SessionLifecycle!FairSpec`: calls go on, and the
program closes what it has opened and tries again if that raised. `BufferedOutput!FairSpec`: weak
fairness for the next step of each operation, which again are the interpreter's steps, returning C
calls, and the program that consumes or drops its generators.

**Deadlock** is checked except where the system really stops: a lock that is held for ever
(`OperationContext_faults` and `_cross`, whose programs give generators to other threads, and
`BufferedOutput_streams`, where an empty buffer strands it or all operations are over), and where
the bound on calls is reached (`ObjectCalls_*`).

## 4. Proofs

TLAPS proves, for every value of the constants (any number of threads, operations, sessions,
handles, failures):

*OperationContextProofs*

- `LockInvariant`, `TypeCorrect`, `OneThreadAtATime`: from `LockInv`. `OwnerStartedAll`, the first
  part of `MutualExclusion`, is not inductive alone: that a release by the owner leaves no other live
  operation uncovered needs the count (`LockCoversOps`). The second part is that a thread inside a
  live operation that is no generator owns the lock. With generators passed around, two threads can
  be inside operations at once; the same thread then started both operations. That the thread that gets the lock is the starter of the
  operation needs the call stacks (`StackInv`), and that an operation that is released had
  the flag set needs the phases (`PhaseInv`).
- `CallsReachTheirOwnOperation`: `OpenOperationOwnsToken` with `LockInv`, no assumption on faults.
- `SessionHandedOverClean` (`TokenServesOwner`), from `TokenInv`, if final calls end the operation
  at the token (`FinalMeansFinal`: no `CKR_BUFFER_TOO_SMALL` from a final call and no token
  that ignores a cancellation).
- `LockStaysBalanced` and `LockReleasedWhenDone`, for programs whose generators stay in their
  thread; the second also excludes failed cancellations. `OperationContext_cross` shows that
  the first assumption is needed.
- `ImplementsSessionLock`: under both assumptions the detailed specification implements
  `SessionLock`. `Enter` is `Begin`, `Initiate` is `Start`, every end of an operation is
  `End`, `CloseSession` is `Reset`, and the rest are stutters.

*SessionLifecycleProofs*

- `SessionInvariant`: `TypeOK`, `CallInv` (a call is the only one at work on its session),
  `HandleInv` (a session that has a handle has it for itself until it is closed) and
  `LoginInv` (whoever is logged in is so by a session that has not logged out or will try again).
- `SessionsKeepTheirHandles`, `NobodyStaysLoggedIn`: consequences, with any number of failures.
- `UserTypeStaysTrue`: `UserTypeIsTrue`, from `OwnerInv`: as long as no call to close has
  failed, at most one session is logged in, and it is the one the token says.

*KeyTemplatesProofs*

- `TemplatesKeepTheirAttributes` (`TypeOK`) and `SecretKeysGetTheirOwn` (`SecretKeysAreOwn`): no
  step changes the secret template, as long as a call that makes a secret key never reaches the
  places where the other templates are filled in (`PlaceInv`).
- `PairsMayDoWhatTheyShould` and `PairsGetTheirLabel`, if pairs are generated one at a time: the
  invariant `PairInv` says for each place of a call what is right so far about the shared
  template (`Fits`) and about the lists copied from it (`ListFits`), whatever was there before.

*LibRegistryProofs*

- `TypeCorrect` and `RegistryHoldsALibrary`, for any program, from `NewInv`: a new wrapper belongs
  to the thread that makes it until it is registered, and one that `pkcs11.unload()` is unloading is
  not in the registry. What the program unloads itself is in `closed`.
- `FlagsTellTheTruth`, `CallsReachALibrary` and `NextLibGetsALibrary`, for a disciplined program,
  from `DisciplinedInv`: one thread at a time is between `C_Initialize` and its flag, and then no
  wrapper has the flag (`SetInv`); a constructor never registers over another wrapper
  (`NewFlagInv`); whenever the library is initialised, a wrapper or a thread in its
  constructor knows (`KnownInv`, which a failed `C_Finalize` breaks).

*BufferedOutputProofs*

- `BufferInvariant`, `TypeCorrect`: `BufferInv` ties, for each phase of an operation, the buffer,
  the lengths and the histories together (`OpInv`): what is in the buffer before it is copied is
  what the token wrote for this operation after what its caller already has. Without the
  lengths the invariant of the output is not inductive.
- `TokenStaysInBuffer`, `CallerGetsTheOutput`, `OutputIsOwn`: consequences, for any sizes, any
  estimates and any number of operations. The first and the last hold of all operations, the second
  of those the token has not misled; the last says what the others may get, bytes of their own or
  memory nobody has written.
- `ImplementsOutputStream`: every step is a step of `OutputStream` or a stutter. `UpdateWrites`
  and `FinalWrites` are `Produce`, `Deliver` is `Receive`, ends by an error are `Break`, and the
  output of a hail mary, which nobody receives, is `Waste`.

*MechanismParamsProofs*

- `WrapperFreesItsOwn`, from `HeapInv`: in every phase of a call the blocks in use are those the
  wrappers hold, those of the values being the pointers that are set; and from `PointerInv`: the list
  counts no pointer that was not set, until a template fails half way and in what is undefined after
  that. For templates of any length.
- `TokenReadsTheParameter` and `TokenReadsNoGarbage`, from `SentInv`: a wrapper that is ready has the
  structure of its mechanism with the fields of that structure. For any requests, sizes of
  nonces and IVs included. `BranchesFit` relates the code's branches to the documented structures.
- `DefaultsAgree`, from `DefaultInv`: a key with default capabilities has those of its type, and the
  tables give a mechanism for each.
- `WrapsComeWhole`: `WrapsAreWhole`, since the token writes no more than it has estimated.

*TokenSearchProofs*

- `TypeCorrect`: `TypeOK`, from `CallOK`, which says for each step of a call what it has by then.
- `TruthfulTokens` and `TruthfulLists`, from `TruthInv`: the pairs found so far are in `past`, and so
  are the slots that a list still holds.
- `ExactSearches`, from `QuietInv`: as long as nothing is plugged, the count is the number of
  slots, the slots done and the buffer still to do hold each slot once, and the tokens found
  are those of the slots already done. Of a search with `mechanisms` only that it found nothing
  that does not fit. Assumed of the constants (`WorldAssumption`): no `mechanisms`
  filter is itself a mechanism, and each token has finitely many.

*ObjectCallsProofs*

- `TypeCorrect` and `SearchBelongs`, from `TypeInv`: who has the token's search is part of it, since
  that a search only goes on in a call is what makes its lists of handles fit that call. That
  `MultipleObjectsReturned` comes of a search with more than one match is from `ExactInv`.
- `ExactSearches`, from `ExactInv`: the handles that the token listed are, in order, those of the
  objects handed out, the one being read, the rest of the batch and what `C_FindObjects` has
  still to give. So the size of batches does not matter.
- `TrueReads`, from `HistoryInv` (a value of an attribute is one it has had) and
  `TruthInv`: in the second call there is a buffer for each attribute that could be read all the
  time, and what passes the check of the second call is what the object then had.
- `TrueMixins` (`FalseMixinsHaveCause`), from `TruthInv` and `SteadyInv`. The finding of
  `ObjectCalls_mixins` bounded: which mixins can be wrong, and why. For a call that reads one
  attribute after the other, `OneTrue` carries why the bulk read failed and, of each flag that is done
  and was not read, why not. A read that fails is traced to its cause (`WhyUnread`): the
  object is gone, and then the next read raises; the token deviated; the object shows none of the
  attributes; or a value did not fit a buffer whose size an earlier value gave. That the object shows
  no class makes it a bare `Object` without mixins, for which `SteadyInv` is needed: what an object
  does not show, and its class, stay as they are.
- `TrueCapabilities` (`CapabilitiesAreMixins`), also from `TruthInv`. In a bulk read without deviation,
  each attribute that could be read all the time has a buffer of its size, then a value. In the
  fallback, where a flag that was not read counts as set, all hangs on the class: it has been read or
  is being read now, and then its buffer has its size.
- `CausedOrphans` (`OrphansHaveCause`), from `LostInv`. The property alone is not inductive: for each
  call that creates objects it must be said what the call has in hand (the handle it reads, those
  to come, the objects made), that all of these were created together, and that one of an unknown
  class is the only one. When a call then lets go of them by an exception, the exception is traced
  to a read that failed, and that to an object that is gone, a deviation or an unknown class;
  none of these is ever undone.
- Assumed: a flag without bytes, which reads as False, is not "yes", and the special values are not
  values of attributes (`ValuesAssumption`); the keys that `make_object` reads are the class and the
  flags (`KeysAssumption`), and the class always has a size and a handler (`ClassAssumption`).

Only model-checked: liveness (`EveryCallEnds`, `ClosingCloses`, `LockIsReleased`), which with
fairness and ENABLED is out of the prover's reach. The three violations are counterexamples and
have nothing to prove. Every other property of a run is a theorem.

## 5. Not modelled

- The packing of single attribute values (`attributes.py:20-104`): a conversion. What its failure
  does to the memory of a template is in `MechanismParams`.
- DER conversion (`util/`), enumerations, empty exception classes: pure functions and tables.
- One-call methods that return no object (random, PINs, `get_mechanism_info`): the library keeps
  nothing between calls.
- Cached properties of keys (`key_length`, `key_type`, ...): read once and kept, also when the
  attribute changes later.
- The loader of Windows; a file without `C_GetFunctionList`, which stays mapped.
- Garbage collection inside another call. A parameter object that is changed by another
  thread while a call uses it. Use of slots, tokens and sessions after `unload()`.
- The locks of two sessions in one program: in which order a program takes them is its own.

## 6. Plan

What is left that would add most:

1. `TwoSessions`: two session locks in one program, waiting in a circle.
2. Composition of `SessionLifecycle` with the operations of several sessions on one token.
3. Slots, tokens and sessions that keep a function list after `unload()`.
