----------------------------- MODULE LibRegistry -----------------------------
(***************************************************************************)
(* pkcs11.lib(), pkcs11.unload() and the life of the C library behind them. *)
(*                                                                         *)
(* One path: the registry pkcs11._loaded has one entry or none.  Each      *)
(* wrapper object (_pkcs11.lib) has a dlopen handle of its own, but they   *)
(* all refer to the same library, which is initialised, or not, once for   *)
(* the process, and is unmapped with the last handle.  A wrapper keeps its *)
(* own flag `initialized'.                                                 *)
(*                                                                         *)
(* C_Initialize, C_GetInfo and the functions of slots, tokens and sessions *)
(* are called `with nogil'; C_Finalize, dlopen and dlclose are not.        *)
(***************************************************************************)
EXTENDS Naturals, FiniteSets

CONSTANTS
    Threads,        \* threads of the calling program
    Wrappers,       \* the lib objects that may be made
    NoLib,          \* None
    MaxFailed       \* calls of C_Finalize that fail (bound)

ASSUME NoLibAssumption  == NoLib \notin Wrappers
ASSUME BoundAssumption  == MaxFailed \in Nat

VARIABLES
    loaded,        \* pkcs11._loaded[so]
    funclist,      \* per wrapper: "new" (no object yet), "valid", or "NULL" after unload
    initialized,   \* lib.initialized
    up,            \* the C library: C_Initialize has succeeded, C_Finalize has not
    pc,            \* per thread: where it is
    lib,           \* per thread: the wrapper it works on, or has got from lib()
    failed,        \* how often C_Finalize has failed (bound)
    disciplined,   \* whether the program ends only a library no other thread uses
    closed         \* history: the wrappers whose own unload() the program has called

library == <<up, failed>>
program == <<disciplined, closed>>
vars    == <<loaded, funclist, initialized, up, pc, lib, failed, disciplined, closed>>

\* "read": lib() is to look at `initialized'; "dlopen", "new_init", "getinfo",
\* "register": in the constructor of a new wrapper; "init": in initialize();
\* "unregister", "unload": in unload().  "C_..." are C calls without the GIL, and
\* "new_set", "set" wait for it after C_Initialize.
InC    == {"C_new_init", "C_init", "C_getinfo", "C_call"}
Places == InC \cup {"idle", "read", "dlopen", "new_init", "new_set", "getinfo",
                    "register", "init", "set", "unregister", "unload"}

\* Type invariant: what the registry, the wrappers and the threads may hold; a thread
\* at work on a wrapper has one.
TypeOK ==
    /\ loaded \in Wrappers \cup {NoLib}
    /\ funclist \in [Wrappers -> {"new", "valid", "NULL"}]
    /\ initialized \in [Wrappers -> BOOLEAN]
    /\ up \in BOOLEAN
    /\ pc \in [Threads -> Places]
    /\ lib \in [Threads -> Wrappers \cup {NoLib}]
    /\ failed \in 0 .. MaxFailed
    /\ disciplined \in BOOLEAN
    /\ closed \subseteq Wrappers
    /\ \A t \in Threads : pc[t] \notin {"idle", "dlopen"} => lib[t] # NoLib

Init ==
    /\ loaded = NoLib
    /\ funclist = [w \in Wrappers |-> "new"]
    /\ initialized = [w \in Wrappers |-> FALSE]
    /\ up = FALSE
    /\ pc = [t \in Threads |-> "idle"]
    /\ lib = [t \in Threads |-> NoLib]
    /\ failed = 0
    /\ disciplined \in BOOLEAN
    /\ closed = {}

-----------------------------------------------------------------------------
Goto(t, from, to) == pc[t] = from /\ pc' = [pc EXCEPT ![t] = to]

\* dlopen counts: the library is mapped while some wrapper has a handle.
Mapped(fl) == \E w \in Wrappers : fl[w] = "valid"

\* C_Finalize, which fails if the library is not initialised and may fail if it is.
FinalizeOk    == up /\ up' = FALSE /\ UNCHANGED failed
FinalizeError ==
    /\ UNCHANGED up
    /\ IF up THEN failed < MaxFailed /\ failed' = failed + 1 ELSE UNCHANGED failed

\* lib._finalize calls it only if the flag is set, and clears the flag in any case.
ClearFlag(w) == initialized' = [initialized EXCEPT ![w] = FALSE]

\* What lib.unload does to the library: _finalize, whatever it returns, and dlclose.
EndLibrary(w) ==
    \/ ~Mapped(funclist') /\ up' = FALSE /\ UNCHANGED failed
    \/ Mapped(funclist') /\ initialized[w] /\ (FinalizeOk \/ FinalizeError)
    \/ Mapped(funclist') /\ ~initialized[w] /\ UNCHANGED library

\* Mutant: the library is finalised whatever the flag says.
UnloadFinalizing(w) ==
    /\ funclist' = [funclist EXCEPT ![w] = "NULL"]
    /\ up' = FALSE /\ UNCHANGED failed
    /\ ClearFlag(w)

\* lib.unload, also from __dealloc__; funclist = NULL, and a second time nothing is left
\* to do.
Unload(w) ==
    /\ funclist' = [funclist EXCEPT ![w] = "NULL"]
    /\ \/ funclist[w] # "NULL" /\ ClearFlag(w) /\ EndLibrary(w)
       \/ funclist[w] = "NULL" /\ UNCHANGED <<initialized, library>>

-----------------------------------------------------------------------------
(* pkcs11.lib(so) *)

\* The discipline that some programs keep: lib() is not called while a thread unloads, ...
Unloading(u) == pc[u] \in {"unregister", "unload"}
MayLoad      == disciplined => \A u \in Threads : ~Unloading(u)

\* ... no thread finalises the library while another is in a call, ...
MayFinalize(t) == disciplined => \A u \in Threads \ {t} : pc[u] = "idle"

\* ... and none unloads it while another is in a call or has its wrapper.
MayUnload(t, w) ==
    disciplined => \A u \in Threads \ {t} :
                      Unloading(u) \/ (pc[u] = "idle" /\ lib[u] # w)

\* _loaded[so] is there.
Hit(t) ==
    /\ MayLoad
    /\ loaded # NoLib
    /\ Goto(t, "idle", "read")
    /\ lib' = [lib EXCEPT ![t] = loaded]
    /\ UNCHANGED <<loaded, funclist, initialized, library, program>>

\* It is returned as it is, or initialised first.
ReadInitialized(t) ==
    /\ Goto(t, "read", IF initialized[lib[t]] THEN "idle" ELSE "init")
    /\ UNCHANGED <<loaded, funclist, initialized, library, lib, program>>

\* KeyError: a new wrapper is made.
Miss(t) ==
    /\ MayLoad
    /\ loaded = NoLib
    /\ Goto(t, "idle", "dlopen")
    /\ lib' = [lib EXCEPT ![t] = NoLib]
    /\ UNCHANGED <<loaded, funclist, initialized, library, program>>

\* lib.__cinit__: dlopen and C_GetFunctionList; initialized = False.
Load(t, w) ==
    /\ funclist[w] = "new"
    /\ Goto(t, "dlopen", "new_init")
    /\ funclist' = [funclist EXCEPT ![w] = "valid"]
    /\ lib' = [lib EXCEPT ![t] = w]
    /\ UNCHANGED <<loaded, initialized, library, program>>

\* The file cannot be loaded: PKCS11Error, no object.
LoadFails(t) ==
    /\ Goto(t, "dlopen", "idle")
    /\ UNCHANGED <<loaded, funclist, initialized, library, lib, program>>

\* _loaded[so] = _lib, even if another thread has stored its own by now.
Register(t) ==
    /\ Goto(t, "register", "idle")
    /\ loaded' = lib[t]
    /\ UNCHANGED <<funclist, initialized, library, lib, program>>

GetInfo(t) ==
    /\ \/ Goto(t, "getinfo", "C_getinfo")
       \/ Goto(t, "C_getinfo", "register")
    /\ UNCHANGED <<loaded, funclist, initialized, library, lib, program>>

\* C_GetInfo fails: __init__ raises, the object is gone and __dealloc__ unloads it.
GetInfoFails(t) ==
    /\ Goto(t, "C_getinfo", "idle")
    /\ Unload(lib[t])
    /\ lib' = [lib EXCEPT ![t] = NoLib]
    /\ UNCHANGED <<loaded, program>>

-----------------------------------------------------------------------------
(* lib.initialize(), of a new wrapper or of one that was finalised *)

\* Nothing to do: no function list, or the flag is set (never so in a constructor).
InitializeSkips(t) ==
    /\ Goto(t, "init", "idle")
    /\ funclist[lib[t]] # "valid" \/ initialized[lib[t]]
    /\ UNCHANGED <<loaded, funclist, initialized, library, lib, program>>

InitializeCalls(t) ==
    /\ Goto(t, "init", "C_init") \/ Goto(t, "new_init", "C_new_init")
    /\ funclist[lib[t]] = "valid" /\ ~initialized[lib[t]]
    /\ UNCHANGED <<loaded, funclist, initialized, library, lib, program>>

InitializeSucceeds(t) ==
    /\ ~up
    /\ up' = TRUE /\ UNCHANGED failed
    /\ Goto(t, "C_init", "set") \/ Goto(t, "C_new_init", "new_set")
    /\ UNCHANGED <<loaded, funclist, initialized, lib, program>>

\* Mutant: the flag is not set.
SetNothing(t) ==
    /\ Goto(t, "set", "idle") \/ Goto(t, "new_set", "getinfo")
    /\ UNCHANGED <<loaded, funclist, initialized, library, lib, program>>

SetInitialized(t) ==
    /\ Goto(t, "set", "idle") \/ Goto(t, "new_set", "getinfo")
    /\ initialized' = [initialized EXCEPT ![lib[t]] = TRUE]
    /\ UNCHANGED <<loaded, funclist, library, lib, program>>

\* CKR_CRYPTOKI_ALREADY_INITIALIZED is raised: initialize() fails ...
InitializeFails(t) ==
    /\ up
    /\ Goto(t, "C_init", "idle")
    /\ UNCHANGED <<loaded, funclist, initialized, library, lib, program>>

\* ... and a new wrapper is gone.
NewInitializeFails(t) ==
    /\ up
    /\ Goto(t, "C_new_init", "idle")
    /\ Unload(lib[t])
    /\ lib' = [lib EXCEPT ![t] = NoLib]
    /\ UNCHANGED <<loaded, program>>

-----------------------------------------------------------------------------
(* What the program does with the wrapper lib() returned *)

Has(t) == pc[t] = "idle" /\ lib[t] # NoLib

\* A function of the library, through the wrapper or one of its slots.  (Through a NULL
\* function list the process may also end here, and nothing more happens.)
Use(t) ==
    /\ \/ Has(t) /\ Goto(t, "idle", "C_call")
       \/ Goto(t, "C_call", "idle")
    /\ UNCHANGED <<loaded, funclist, initialized, library, lib, program>>

\* finalize() of a wrapper that has nothing to finalise is a stutter.
FinalizeLib(t) ==
    /\ Has(t) /\ initialized[lib[t]] /\ funclist[lib[t]] = "valid"
    /\ MayFinalize(t)
    /\ ClearFlag(lib[t])
    /\ FinalizeOk \/ FinalizeError
    /\ UNCHANGED <<loaded, funclist, pc, lib, program>>

\* reinitialize: finalize(), and initialize() unless that raised.
Reinitialize(t) ==
    /\ Has(t)
    /\ MayFinalize(t)
    /\ funclist[lib[t]] = "valid"
    /\ ClearFlag(lib[t])
    /\ IF initialized[lib[t]] THEN FinalizeOk ELSE UNCHANGED library
    /\ Goto(t, "idle", "init")
    /\ UNCHANGED <<loaded, funclist, lib, program>>

\* pkcs11.unload(so): the entry is read, deleted, and the wrapper unloaded.
ReadEntry(t) ==
    /\ MayUnload(t, loaded)
    /\ loaded # NoLib
    /\ Goto(t, "idle", "unregister")
    /\ lib' = [lib EXCEPT ![t] = loaded]
    /\ UNCHANGED <<loaded, funclist, initialized, library, program>>

\* Mutant: the entry stays.
LeaveEntry(t) ==
    /\ Goto(t, "unregister", "unload")
    /\ UNCHANGED <<loaded, funclist, initialized, library, lib, program>>

DeleteEntry(t) ==
    /\ Goto(t, "unregister", "unload")
    /\ loaded # NoLib
    /\ loaded' = NoLib
    /\ UNCHANGED <<funclist, initialized, library, lib, program>>

\* Another thread has deleted it: KeyError.
DeleteEntryFails(t) ==
    /\ Goto(t, "unregister", "idle")
    /\ loaded = NoLib
    /\ lib' = [lib EXCEPT ![t] = NoLib]
    /\ UNCHANGED <<loaded, funclist, initialized, library, program>>

UnloadEntry(t) ==
    /\ Goto(t, "unload", "idle")
    /\ Unload(lib[t])
    /\ lib' = [lib EXCEPT ![t] = NoLib]
    /\ UNCHANGED <<loaded, program>>

\* lib.unload() as a call of the program: the registry is not told, nor is anybody who
\* has the wrapper, this thread included.
UnloadDirectly(t) ==
    /\ Has(t)
    /\ MayUnload(t, lib[t])
    /\ Unload(lib[t])
    /\ closed' = closed \cup {lib[t]}
    /\ UNCHANGED <<loaded, pc, lib, disciplined>>

\* A wrapper that nothing refers to any more: __dealloc__.
Drop(w) ==
    /\ funclist[w] = "valid" /\ loaded # w
    /\ \A t \in Threads : lib[t] # w
    /\ Unload(w)
    /\ UNCHANGED <<loaded, pc, lib, program>>

-----------------------------------------------------------------------------
Step(t) ==
    \/ Hit(t) \/ ReadInitialized(t)
    \/ Miss(t) \/ LoadFails(t) \/ GetInfo(t) \/ GetInfoFails(t) \/ Register(t)
    \/ \E w \in Wrappers : Load(t, w)
    \/ InitializeSkips(t) \/ InitializeCalls(t) \/ InitializeSucceeds(t)
    \/ SetInitialized(t) \/ InitializeFails(t) \/ NewInitializeFails(t)
    \/ Use(t) \/ FinalizeLib(t) \/ Reinitialize(t)
    \/ ReadEntry(t) \/ DeleteEntry(t) \/ DeleteEntryFails(t) \/ UnloadEntry(t)
    \/ UnloadDirectly(t)

Next == (\E t \in Threads : Step(t)) \/ (\E w \in Wrappers : Drop(w))

Spec == Init /\ [][Next]_vars

-----------------------------------------------------------------------------
(* Properties *)

\* The registry holds an unloaded wrapper only if the program itself has called unload()
\* of that wrapper, which does not delete the entry; never because threads call lib() and
\* pkcs11.unload() at once, or a constructor fails.  (Of any program.)
RegisteredIsLoaded ==
    loaded # NoLib => funclist[loaded] = "valid" \/ loaded \in closed

\* A wrapper that says it is initialised refers to an initialised library, and no
\* two wrappers say so: whoever loses a race for C_Initialize, or fails later in
\* its constructor, takes nothing from the others.  (Of a disciplined program.)
FlagsAreOwn ==
    /\ \A w \in Wrappers : initialized[w] => up /\ funclist[w] = "valid"
    /\ \A v, w \in Wrappers : initialized[v] /\ initialized[w] => v = w

FlagsAgree == disciplined => FlagsAreOwn

\* No C function is called through a wrapper that was unloaded, unless the program has
\* called unload() of that very wrapper.  (Of a disciplined program.)  After that there is
\* no promise: lib() finds the entry, initialize() has no function list and does nothing,
\* and lib() returns the dead wrapper.
CallsAreMapped ==
    disciplined => \A t \in Threads :
                      pc[t] \in InC => funclist[lib[t]] = "valid" \/ lib[t] \in closed

\* Whatever was finalised, unloaded or failed before, the next call of lib() does not
\* meet a library that is initialised and of which the registered wrapper knows nothing,
\* so that C_Initialize would fail.  (Whether that wrapper can be called is the matter of
\* RegisteredIsLoaded.)
Recovers ==
    up /\ (\A t \in Threads : pc[t] = "idle") => loaded # NoLib /\ initialized[loaded]

\* ... as long as C_Finalize does not fail.  (Of a disciplined program.)
NextLibSucceeds == disciplined /\ failed = 0 => Recovers
=============================================================================
