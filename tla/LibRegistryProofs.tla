-------------------------- MODULE LibRegistryProofs --------------------------
(***************************************************************************)
(* The registry of libraries for every number of threads and wrappers,     *)
(* proved with TLAPS.                                                      *)
(***************************************************************************)
EXTENDS LibRegistry, TLAPS

\* C_Finalize, whatever it returns: it never initialises.
LEMMA FinalizeMeans ==
    ASSUME TypeOK, FinalizeOk \/ FinalizeError
    PROVE  /\ up' \in BOOLEAN /\ failed' \in 0 .. MaxFailed
           /\ up' => up
           /\ failed' = 0 => failed = 0 /\ ~up'
<1>1. up \in BOOLEAN /\ failed \in 0 .. MaxFailed
  BY DEF TypeOK
<1>2. CASE FinalizeOk
  BY <1>1, <1>2 DEF FinalizeOk
<1>3. CASE FinalizeError /\ up
  BY <1>1, <1>3, BoundAssumption DEF FinalizeError
<1>4. CASE FinalizeError /\ ~up
  BY <1>1, <1>4 DEF FinalizeError
<1> QED
  BY <1>2, <1>3, <1>4

\* Unloading a wrapper, once or again, keeps the types and leaves other wrappers alone.
LEMMA UnloadKeepsTypes ==
    ASSUME TypeOK, NEW w \in Wrappers, Unload(w)
    PROVE  /\ funclist' = [funclist EXCEPT ![w] = "NULL"]
           /\ initialized' \in [Wrappers -> BOOLEAN]
           /\ up' \in BOOLEAN /\ failed' \in 0 .. MaxFailed
<1>1. /\ up \in BOOLEAN /\ failed \in 0 .. MaxFailed
      /\ initialized \in [Wrappers -> BOOLEAN]
  BY DEF TypeOK
<1>2. funclist' = [funclist EXCEPT ![w] = "NULL"]
  BY DEF Unload
<1>3. CASE funclist[w] # "NULL" /\ ClearFlag(w) /\ EndLibrary(w)
  <2>1. initialized' \in [Wrappers -> BOOLEAN]
    BY <1>1, <1>3 DEF ClearFlag
  <2>2. CASE FinalizeOk \/ FinalizeError
    BY <1>2, <2>1, <2>2, FinalizeMeans
  <2>3. CASE (up' = FALSE /\ UNCHANGED failed) \/ UNCHANGED library
    BY <1>1, <1>2, <2>1, <2>3 DEF library
  <2> QED
    BY <1>3, <2>2, <2>3 DEF EndLibrary
<1>4. CASE funclist[w] = "NULL" /\ UNCHANGED <<initialized, library>>
  BY <1>1, <1>2, <1>4 DEF library
<1> QED
  BY <1>3, <1>4 DEF Unload

\* It clears the flag, if the flag was only set with a function list, and leaves the
\* library if others have it mapped and the wrapper was not initialised.
LEMMA UnloadMeans ==
    ASSUME TypeOK, NEW w \in Wrappers, Unload(w), initialized[w] => funclist[w] # "NULL"
    PROVE  /\ funclist' = [funclist EXCEPT ![w] = "NULL"]
           /\ initialized' = [initialized EXCEPT ![w] = FALSE]
           /\ up' => up
           /\ ~initialized[w] /\ Mapped(funclist') => UNCHANGED library
           /\ initialized[w] /\ failed' = 0 => ~up'
           /\ failed' = 0 => failed = 0
<1>1. up \in BOOLEAN /\ failed \in 0 .. MaxFailed
  BY DEF TypeOK
<1>2. funclist' = [funclist EXCEPT ![w] = "NULL"]
  BY DEF Unload
<1>3. CASE funclist[w] # "NULL" /\ ClearFlag(w) /\ EndLibrary(w)
  <2>1. initialized' = [initialized EXCEPT ![w] = FALSE]
    BY <1>3 DEF ClearFlag
  <2>2. CASE ~Mapped(funclist') /\ up' = FALSE /\ UNCHANGED failed
    BY <1>1, <1>2, <2>1, <2>2
  <2>3. CASE Mapped(funclist') /\ initialized[w] /\ (FinalizeOk \/ FinalizeError)
    BY <1>1, <1>2, <2>1, <2>3, FinalizeMeans
  <2>4. CASE Mapped(funclist') /\ ~initialized[w] /\ UNCHANGED library
    BY <1>1, <1>2, <2>1, <2>4 DEF library
  <2> QED
    BY <1>3, <2>2, <2>3, <2>4 DEF EndLibrary
<1>4. CASE funclist[w] = "NULL" /\ UNCHANGED <<initialized, library>>
  <2>1. initialized' = [initialized EXCEPT ![w] = FALSE]
    BY <1>4 DEF TypeOK
  <2> QED
    BY <1>1, <1>2, <1>4, <2>1 DEF library
<1> QED
  BY <1>3, <1>4 DEF Unload

-----------------------------------------------------------------------------
(* Any program *)

\* In the constructor of a new wrapper.
NewPlaces == {"new_init", "C_new_init", "new_set", "getinfo", "C_getinfo", "register"}

\* A new wrapper belongs to the thread that makes it, until it is registered; one that
\* pkcs11.unload() is about to unload is not in the registry.
NewInv ==
    /\ loaded # NoLib => funclist[loaded] # "new"
    /\ \A t \in Threads :
          /\ pc[t] \in NewPlaces =>
                /\ funclist[lib[t]] = "valid" /\ lib[t] # loaded
                /\ \A u \in Threads \ {t} : lib[u] # lib[t]
          /\ pc[t] = "unload" => lib[t] # loaded
          /\ pc[t] = "dlopen" => lib[t] = NoLib
          /\ lib[t] # NoLib => funclist[lib[t]] # "new"

RegistryInv == TypeOK /\ RegisteredIsLoaded /\ NewInv

LEMMA InitRegistry == Init => RegistryInv
<1> SUFFICES ASSUME Init PROVE RegistryInv
  OBVIOUS
<1>1. TypeOK
  <2>1. "idle" \in Places /\ 0 \in 0 .. MaxFailed
    BY BoundAssumption DEF Places
  <2>2. /\ funclist \in [Wrappers -> {"new", "valid", "NULL"}]
        /\ initialized \in [Wrappers -> BOOLEAN]
    BY DEF Init
  <2>3. pc \in [Threads -> Places] /\ lib \in [Threads -> Wrappers \cup {NoLib}]
    BY <2>1 DEF Init
  <2> QED
    BY <2>1, <2>2, <2>3 DEF Init, TypeOK
<1>2. RegisteredIsLoaded /\ NewInv
  BY DEF Init, RegisteredIsLoaded, NewInv, NewPlaces
<1> QED
  BY <1>1, <1>2 DEF RegistryInv

LEMMA NextRegistry ==
    ASSUME RegistryInv, [Next]_vars
    PROVE  RegistryInv'
<1> USE DEF RegistryInv, library, program
<1>1. ASSUME NEW t \in Threads, Hit(t)
      PROVE  RegistryInv'
  <2>1. TypeOK'
    BY <1>1 DEF Hit, Goto, TypeOK, Places
  <2>2. RegisteredIsLoaded'
    BY <1>1 DEF Hit, RegisteredIsLoaded
  <2>3. NewInv'
    BY <1>1 DEF Hit, Goto, RegisteredIsLoaded, NewInv, NewPlaces
  <2> QED
    BY <2>1, <2>2, <2>3
<1>2. ASSUME NEW t \in Threads, ReadInitialized(t)
      PROVE  RegistryInv'
  <2>1. TypeOK'
    BY <1>2 DEF ReadInitialized, Goto, TypeOK, Places
  <2>2. RegisteredIsLoaded'
    BY <1>2 DEF ReadInitialized, RegisteredIsLoaded
  <2>3. NewInv'
    BY <1>2 DEF ReadInitialized, Goto, NewInv, NewPlaces
  <2> QED
    BY <2>1, <2>2, <2>3
<1>3. ASSUME NEW t \in Threads, Miss(t)
      PROVE  RegistryInv'
  <2>1. TypeOK'
    BY <1>3 DEF Miss, Goto, TypeOK, Places
  <2>2. RegisteredIsLoaded'
    BY <1>3 DEF Miss, RegisteredIsLoaded
  <2>3. NewInv'
    BY <1>3 DEF Miss, Goto, TypeOK, NewInv, NewPlaces
  <2> QED
    BY <2>1, <2>2, <2>3
<1>4. ASSUME NEW t \in Threads, LoadFails(t)
      PROVE  RegistryInv'
  <2>1. TypeOK'
    BY <1>4 DEF LoadFails, Goto, TypeOK, Places
  <2>2. RegisteredIsLoaded'
    BY <1>4 DEF LoadFails, RegisteredIsLoaded
  <2>3. NewInv'
    BY <1>4 DEF LoadFails, Goto, NewInv, NewPlaces
  <2> QED
    BY <2>1, <2>2, <2>3
<1>5. ASSUME NEW t \in Threads, GetInfo(t)
      PROVE  RegistryInv'
  <2>1. TypeOK'
    BY <1>5 DEF GetInfo, Goto, TypeOK, Places, InC
  <2>2. RegisteredIsLoaded'
    BY <1>5 DEF GetInfo, RegisteredIsLoaded
  <2>3. NewInv'
    BY <1>5 DEF GetInfo, Goto, TypeOK, NewInv, NewPlaces
  <2> QED
    BY <2>1, <2>2, <2>3
<1>6. ASSUME NEW t \in Threads, GetInfoFails(t)
      PROVE  RegistryInv'
  <2>0. /\ lib[t] \in Wrappers
        /\ funclist' = [funclist EXCEPT ![lib[t]] = "NULL"]
        /\ initialized' \in [Wrappers -> BOOLEAN]
        /\ up' \in BOOLEAN /\ failed' \in 0 .. MaxFailed
    BY <1>6, UnloadKeepsTypes DEF GetInfoFails, Goto, TypeOK
  <2>1. TypeOK'
    BY <1>6, <2>0 DEF GetInfoFails, Goto, TypeOK, Places
  <2>2. RegisteredIsLoaded'
    BY <1>6, <2>0 DEF GetInfoFails, Goto, RegisteredIsLoaded, NewInv, NewPlaces
  <2>3. NewInv'
    BY <1>6, <2>0 DEF GetInfoFails, Goto, TypeOK, NewInv, NewPlaces
  <2> QED
    BY <2>1, <2>2, <2>3
<1>7. ASSUME NEW t \in Threads, Register(t)
      PROVE  RegistryInv'
  <2>1. TypeOK'
    BY <1>7 DEF Register, Goto, TypeOK, Places
  <2>2. RegisteredIsLoaded'
    BY <1>7 DEF Register, Goto, RegisteredIsLoaded, NewInv, NewPlaces
  <2>3. NewInv'
    BY <1>7 DEF Register, Goto, TypeOK, NewInv, NewPlaces
  <2> QED
    BY <2>1, <2>2, <2>3
<1>8. ASSUME NEW t \in Threads, NEW w \in Wrappers, Load(t, w)
      PROVE  RegistryInv'
  <2>1. TypeOK'
    BY <1>8, NoLibAssumption DEF Load, Goto, TypeOK, Places
  <2>2. RegisteredIsLoaded'
    BY <1>8 DEF Load, RegisteredIsLoaded
  <2>3. NewInv'
    BY <1>8, NoLibAssumption DEF Load, Goto, TypeOK, RegisteredIsLoaded, NewInv
  <2> QED
    BY <2>1, <2>2, <2>3
<1>9. ASSUME NEW t \in Threads, InitializeSkips(t)
      PROVE  RegistryInv'
  <2>1. TypeOK'
    BY <1>9 DEF InitializeSkips, Goto, TypeOK, Places
  <2>2. RegisteredIsLoaded'
    BY <1>9 DEF InitializeSkips, RegisteredIsLoaded
  <2>3. NewInv'
    BY <1>9 DEF InitializeSkips, Goto, NewInv, NewPlaces
  <2> QED
    BY <2>1, <2>2, <2>3
<1>10. ASSUME NEW t \in Threads, InitializeCalls(t)
      PROVE  RegistryInv'
  <2>1. TypeOK'
    BY <1>10 DEF InitializeCalls, Goto, TypeOK, Places, InC
  <2>2. RegisteredIsLoaded'
    BY <1>10 DEF InitializeCalls, RegisteredIsLoaded
  <2>3. NewInv'
    BY <1>10 DEF InitializeCalls, Goto, TypeOK, NewInv, NewPlaces
  <2> QED
    BY <2>1, <2>2, <2>3
<1>11. ASSUME NEW t \in Threads, InitializeSucceeds(t)
      PROVE  RegistryInv'
  <2>1. TypeOK'
    BY <1>11 DEF InitializeSucceeds, Goto, TypeOK, Places
  <2>2. RegisteredIsLoaded'
    BY <1>11 DEF InitializeSucceeds, RegisteredIsLoaded
  <2>3. NewInv'
    BY <1>11 DEF InitializeSucceeds, Goto, TypeOK, NewInv, NewPlaces
  <2> QED
    BY <2>1, <2>2, <2>3
<1>12. ASSUME NEW t \in Threads, SetInitialized(t)
      PROVE  RegistryInv'
  <2>1. TypeOK'
    BY <1>12 DEF SetInitialized, Goto, TypeOK, Places
  <2>2. RegisteredIsLoaded'
    BY <1>12 DEF SetInitialized, RegisteredIsLoaded
  <2>3. NewInv'
    BY <1>12 DEF SetInitialized, Goto, TypeOK, NewInv, NewPlaces
  <2> QED
    BY <2>1, <2>2, <2>3
<1>13. ASSUME NEW t \in Threads, InitializeFails(t)
      PROVE  RegistryInv'
  <2>1. TypeOK'
    BY <1>13 DEF InitializeFails, Goto, TypeOK, Places
  <2>2. RegisteredIsLoaded'
    BY <1>13 DEF InitializeFails, RegisteredIsLoaded
  <2>3. NewInv'
    BY <1>13 DEF InitializeFails, Goto, NewInv, NewPlaces
  <2> QED
    BY <2>1, <2>2, <2>3
<1>14. ASSUME NEW t \in Threads, NewInitializeFails(t)
      PROVE  RegistryInv'
  <2>0. /\ lib[t] \in Wrappers
        /\ funclist' = [funclist EXCEPT ![lib[t]] = "NULL"]
        /\ initialized' \in [Wrappers -> BOOLEAN]
        /\ up' \in BOOLEAN /\ failed' \in 0 .. MaxFailed
    BY <1>14, UnloadKeepsTypes DEF NewInitializeFails, Goto, TypeOK
  <2>1. TypeOK'
    BY <1>14, <2>0 DEF NewInitializeFails, Goto, TypeOK, Places
  <2>2. RegisteredIsLoaded'
    BY <1>14, <2>0 DEF NewInitializeFails, Goto, RegisteredIsLoaded, NewInv, NewPlaces
  <2>3. NewInv'
    BY <1>14, <2>0 DEF NewInitializeFails, Goto, TypeOK, NewInv, NewPlaces
  <2> QED
    BY <2>1, <2>2, <2>3
<1>15. ASSUME NEW t \in Threads, Use(t)
      PROVE  RegistryInv'
  <2>1. TypeOK'
    BY <1>15 DEF Use, Has, Goto, TypeOK, Places, InC
  <2>2. RegisteredIsLoaded'
    BY <1>15 DEF Use, RegisteredIsLoaded
  <2>3. NewInv'
    BY <1>15 DEF Use, Goto, TypeOK, NewInv, NewPlaces
  <2> QED
    BY <2>1, <2>2, <2>3
<1>16. ASSUME NEW t \in Threads, FinalizeLib(t)
      PROVE  RegistryInv'
  <2>0. up' \in BOOLEAN /\ failed' \in 0 .. MaxFailed
    BY <1>16, FinalizeMeans DEF FinalizeLib
  <2>1. TypeOK'
    BY <1>16, <2>0 DEF FinalizeLib, ClearFlag, TypeOK
  <2>2. RegisteredIsLoaded'
    BY <1>16 DEF FinalizeLib, RegisteredIsLoaded
  <2>3. NewInv'
    BY <1>16 DEF FinalizeLib, NewInv
  <2> QED
    BY <2>1, <2>2, <2>3
<1>17. ASSUME NEW t \in Threads, Reinitialize(t)
      PROVE  RegistryInv'
  <2>1. TypeOK'
    BY <1>17 DEF Reinitialize, ClearFlag, FinalizeOk, FinalizeError, Has, Goto, TypeOK,
       Places
  <2>2. RegisteredIsLoaded'
    BY <1>17 DEF Reinitialize, FinalizeError, RegisteredIsLoaded
  <2>3. NewInv'
    BY <1>17 DEF Reinitialize, FinalizeError, Goto, NewInv, NewPlaces
  <2> QED
    BY <2>1, <2>2, <2>3
<1>18. ASSUME NEW t \in Threads, ReadEntry(t)
      PROVE  RegistryInv'
  <2>1. TypeOK'
    BY <1>18 DEF ReadEntry, Goto, TypeOK, Places
  <2>2. RegisteredIsLoaded'
    BY <1>18 DEF ReadEntry, RegisteredIsLoaded
  <2>3. NewInv'
    BY <1>18 DEF ReadEntry, Goto, RegisteredIsLoaded, NewInv, NewPlaces
  <2> QED
    BY <2>1, <2>2, <2>3
<1>19. ASSUME NEW t \in Threads, DeleteEntry(t)
      PROVE  RegistryInv'
  <2>1. TypeOK'
    BY <1>19 DEF DeleteEntry, Goto, TypeOK, Places
  <2>2. RegisteredIsLoaded'
    BY <1>19 DEF DeleteEntry, RegisteredIsLoaded
  <2>3. NewInv'
    BY <1>19 DEF DeleteEntry, Goto, TypeOK, NewInv, NewPlaces
  <2> QED
    BY <2>1, <2>2, <2>3
<1>20. ASSUME NEW t \in Threads, DeleteEntryFails(t)
      PROVE  RegistryInv'
  <2>1. TypeOK'
    BY <1>20 DEF DeleteEntryFails, Goto, TypeOK, Places
  <2>2. RegisteredIsLoaded'
    BY <1>20 DEF DeleteEntryFails, RegisteredIsLoaded
  <2>3. NewInv'
    BY <1>20 DEF DeleteEntryFails, Goto, NewInv, NewPlaces
  <2> QED
    BY <2>1, <2>2, <2>3
<1>21. ASSUME NEW t \in Threads, UnloadEntry(t)
      PROVE  RegistryInv'
  <2>0. /\ lib[t] \in Wrappers
        /\ funclist' = [funclist EXCEPT ![lib[t]] = "NULL"]
        /\ initialized' \in [Wrappers -> BOOLEAN]
        /\ up' \in BOOLEAN /\ failed' \in 0 .. MaxFailed
    BY <1>21, UnloadKeepsTypes DEF UnloadEntry, Goto, TypeOK
  <2>1. TypeOK'
    BY <1>21, <2>0 DEF UnloadEntry, Goto, TypeOK, Places
  <2>2. RegisteredIsLoaded'
    BY <1>21, <2>0 DEF UnloadEntry, Goto, RegisteredIsLoaded, NewInv
  <2>3. NewInv'
    BY <1>21, <2>0 DEF UnloadEntry, Goto, TypeOK, NewInv, NewPlaces
  <2> QED
    BY <2>1, <2>2, <2>3
<1>22. ASSUME NEW w \in Wrappers, Drop(w)
      PROVE  RegistryInv'
  <2>0. /\ w \in Wrappers
        /\ funclist' = [funclist EXCEPT ![w] = "NULL"]
        /\ initialized' \in [Wrappers -> BOOLEAN]
        /\ up' \in BOOLEAN /\ failed' \in 0 .. MaxFailed
    BY <1>22, UnloadKeepsTypes DEF Drop, Goto, TypeOK
  <2>1. TypeOK'
    BY <1>22, <2>0 DEF Drop, TypeOK
  <2>2. RegisteredIsLoaded'
    BY <1>22, <2>0 DEF Drop, RegisteredIsLoaded
  <2>3. NewInv'
    BY <1>22, <2>0 DEF Drop, NewInv
  <2> QED
    BY <2>1, <2>2, <2>3
<1>23. ASSUME NEW t \in Threads, UnloadDirectly(t)
      PROVE  RegistryInv'
  <2>0. /\ lib[t] \in Wrappers
        /\ funclist' = [funclist EXCEPT ![lib[t]] = "NULL"]
        /\ initialized' \in [Wrappers -> BOOLEAN]
        /\ up' \in BOOLEAN /\ failed' \in 0 .. MaxFailed
    BY <1>23, UnloadKeepsTypes DEF UnloadDirectly, Has, TypeOK
  <2>1. TypeOK'
    BY <1>23, <2>0 DEF UnloadDirectly, TypeOK
  <2>2. RegisteredIsLoaded'
    BY <1>23, <2>0 DEF UnloadDirectly, RegisteredIsLoaded, TypeOK
  <2>3. NewInv'
    BY <1>23, <2>0 DEF UnloadDirectly, Has, TypeOK, NewInv, NewPlaces
  <2> QED
    BY <2>1, <2>2, <2>3
<1>24. CASE UNCHANGED vars
  BY <1>24 DEF vars, TypeOK, RegisteredIsLoaded, NewInv
<1> QED
  BY <1>1, <1>2, <1>3, <1>4, <1>5, <1>6, <1>7, <1>8, <1>9, <1>10, <1>11, <1>12, <1>13,
     <1>14, <1>15, <1>16, <1>17, <1>18, <1>19, <1>20, <1>21, <1>22, <1>23, <1>24 DEF Next, Step

-----------------------------------------------------------------------------
(* Disciplined programs *)

\* While a thread unloads, the others have no wrapper or unload too.  A thread has the
\* registered wrapper or makes a new one.
UseInv == \A t \in Threads :
    /\ Unloading(t) =>
          \A u \in Threads \ {t} : Unloading(u) \/ (pc[u] \in {"idle", "C_call"} /\ lib[u] = NoLib)
    /\ pc[t] = "unregister" => loaded \in {lib[t], NoLib}
    /\ pc[t] = "unload" => loaded = NoLib
    /\ ~Unloading(t) /\ lib[t] # NoLib => lib[t] = loaded \/ pc[t] \in NewPlaces

\* Between C_Initialize and the flag.
SetPlaces == {"set", "new_set"}

\* One thread at a time is there, and then no wrapper has the flag; its own wrapper has
\* not been unloaded since initialize() looked.
SetInv ==
    /\ \A t \in Threads : pc[t] \in {"C_init", "set"} => funclist[lib[t]] = "valid"
    /\ \A t \in Threads : pc[t] \in SetPlaces => up /\ \A w \in Wrappers : ~initialized[w]
    /\ \A t, u \in Threads : pc[t] \in SetPlaces /\ pc[u] \in SetPlaces => t = u

\* A constructor that goes on after C_Initialize has the flag; and while there is a
\* constructor at work, the registered wrapper has it.
NewFlagInv == \A t \in Threads :
    /\ pc[t] \in {"getinfo", "C_getinfo", "register"} => initialized[lib[t]]
    /\ pc[t] \in NewPlaces \cup {"dlopen"} => (loaded # NoLib => initialized[loaded])

\* Somebody knows that the library is initialised.
Known ==
    \/ loaded # NoLib /\ initialized[loaded]
    \/ \E t \in Threads : pc[t] \in SetPlaces
    \/ \E t \in Threads : pc[t] \in NewPlaces \cup {"unload"} /\ initialized[lib[t]]

KnownInv == up /\ failed = 0 => Known

DisciplinedInv ==
    RegistryInv /\ UseInv /\ SetInv /\ NewFlagInv /\ FlagsAreOwn /\ KnownInv

LEMMA NextDisciplined ==
    ASSUME disciplined, DisciplinedInv, [Next]_vars
    PROVE  DisciplinedInv'
<1>0. RegistryInv'
  BY NextRegistry DEF DisciplinedInv
<1> USE DEF DisciplinedInv, RegistryInv, library, program
<1>1. ASSUME NEW t \in Threads, Hit(t)
      PROVE  DisciplinedInv'
  <2>1. UseInv'
    BY <1>1 DEF Hit, MayLoad, Goto, TypeOK, UseInv, Unloading
  <2>2. SetInv'
    BY <1>1 DEF Hit, Goto, SetInv, SetPlaces
  <2>3. NewFlagInv'
    BY <1>1 DEF Hit, Goto, NewPlaces, NewFlagInv
  <2>4. FlagsAreOwn'
    BY <1>1 DEF Hit, FlagsAreOwn
  <2>5. KnownInv'
    BY <1>1 DEF Hit, Goto, NewPlaces, SetPlaces, KnownInv, Known
  <2> QED
    BY <1>0, <2>1, <2>2, <2>3, <2>4, <2>5
<1>2. ASSUME NEW t \in Threads, ReadInitialized(t)
      PROVE  DisciplinedInv'
  <2>1. UseInv'
    BY <1>2 DEF ReadInitialized, Goto, UseInv, Unloading, NewPlaces
  <2>2. SetInv'
    BY <1>2 DEF ReadInitialized, Goto, SetInv, SetPlaces
  <2>3. NewFlagInv'
    BY <1>2 DEF ReadInitialized, Goto, NewPlaces, NewFlagInv
  <2>4. FlagsAreOwn'
    BY <1>2 DEF ReadInitialized, FlagsAreOwn
  <2>5. KnownInv'
    BY <1>2 DEF ReadInitialized, Goto, NewPlaces, SetPlaces, KnownInv, Known
  <2> QED
    BY <1>0, <2>1, <2>2, <2>3, <2>4, <2>5
<1>3. ASSUME NEW t \in Threads, Miss(t)
      PROVE  DisciplinedInv'
  <2>1. UseInv'
    BY <1>3 DEF Miss, MayLoad, Goto, TypeOK, UseInv, Unloading
  <2>2. SetInv'
    BY <1>3 DEF Miss, Goto, SetInv, SetPlaces
  <2>3. NewFlagInv'
    BY <1>3 DEF Miss, Goto, NewFlagInv
  <2>4. FlagsAreOwn'
    BY <1>3 DEF Miss, FlagsAreOwn
  <2>5. KnownInv'
    BY <1>3 DEF Miss, Goto, NewPlaces, SetPlaces, KnownInv, Known
  <2> QED
    BY <1>0, <2>1, <2>2, <2>3, <2>4, <2>5
<1>4. ASSUME NEW t \in Threads, LoadFails(t)
      PROVE  DisciplinedInv'
  <2>1. UseInv'
    BY <1>4 DEF LoadFails, Goto, UseInv, Unloading, NewPlaces
  <2>2. SetInv'
    BY <1>4 DEF LoadFails, Goto, SetInv, SetPlaces
  <2>3. NewFlagInv'
    BY <1>4 DEF LoadFails, Goto, NewFlagInv
  <2>4. FlagsAreOwn'
    BY <1>4 DEF LoadFails, FlagsAreOwn
  <2>5. KnownInv'
    BY <1>4 DEF LoadFails, Goto, NewPlaces, SetPlaces, KnownInv, Known
  <2> QED
    BY <1>0, <2>1, <2>2, <2>3, <2>4, <2>5
<1>5. ASSUME NEW t \in Threads, GetInfo(t)
      PROVE  DisciplinedInv'
  <2>1. UseInv'
    BY <1>5 DEF GetInfo, Goto, TypeOK, UseInv, Unloading, NewPlaces
  <2>2. SetInv'
    BY <1>5 DEF GetInfo, Goto, TypeOK, SetInv, SetPlaces
  <2>3. NewFlagInv'
    BY <1>5 DEF GetInfo, Goto, TypeOK, NewPlaces, NewFlagInv
  <2>4. FlagsAreOwn'
    BY <1>5 DEF GetInfo, FlagsAreOwn
  <2>5. KnownInv'
    BY <1>5 DEF GetInfo, Goto, TypeOK, NewPlaces, SetPlaces, KnownInv, Known
  <2> QED
    BY <1>0, <2>1, <2>2, <2>3, <2>4, <2>5
<1>6. ASSUME NEW t \in Threads, GetInfoFails(t)
      PROVE  DisciplinedInv'
  <2>0. /\ lib[t] \in Wrappers
        /\ funclist' = [funclist EXCEPT ![lib[t]] = "NULL"]
        /\ initialized' = [initialized EXCEPT ![lib[t]] = FALSE]
        /\ up' => up
        /\ ~initialized[lib[t]] /\ (\E v \in Wrappers : funclist'[v] = "valid")
              => up' = up /\ failed' = failed
        /\ initialized[lib[t]] /\ failed' = 0 => ~up'
        /\ failed' = 0 => failed = 0
    BY <1>6, UnloadMeans DEF FlagsAreOwn, GetInfoFails, Goto, TypeOK, Mapped
  <2>a. \A u \in Threads \ {t} : pc[u] \in SetPlaces => lib[u] \in Wrappers /\ funclist'[lib[u]] = "valid"
    BY <1>6, <2>0 DEF GetInfoFails, Goto, TypeOK, UseInv, Unloading, NewInv, NewPlaces,
       SetPlaces, SetInv
  <2>1. UseInv'
    BY <1>6, <2>a DEF GetInfoFails, Goto, TypeOK, UseInv, Unloading
  <2>c. pc' = [pc EXCEPT ![t] = "idle"] /\ \A u \in Threads \ {t} : lib'[u] = lib[u] /\ lib[u] # lib[t]
    BY <1>6 DEF GetInfoFails, Goto, TypeOK, NewInv, NewPlaces
  <2>d. \A u \in Threads \ {t} : funclist[lib[u]] = "valid" => funclist'[lib'[u]] = "valid"
    BY <2>0, <2>c DEF TypeOK
  <2>2. SetInv'
    BY <2>0, <2>a, <2>c, <2>d DEF TypeOK, SetInv, SetPlaces
  <2>3. NewFlagInv'
    BY <1>6, <2>0, <2>a DEF GetInfoFails, Goto, TypeOK, NewInv, NewPlaces, NewFlagInv
  <2>4. FlagsAreOwn'
    BY <1>6, <2>0, <2>a DEF GetInfoFails, TypeOK, FlagsAreOwn
  <2>5. KnownInv'
    BY <1>6, <2>0, <2>a DEF GetInfoFails, Goto, SetPlaces, KnownInv, Known
  <2> QED
    BY <1>0, <2>1, <2>2, <2>3, <2>4, <2>5
<1>7. ASSUME NEW t \in Threads, Register(t)
      PROVE  DisciplinedInv'
  <2>1. UseInv'
    BY <1>7 DEF Register, Goto, TypeOK, UseInv, Unloading, NewFlagInv, FlagsAreOwn
  <2>2. SetInv'
    BY <1>7 DEF Register, Goto, SetInv, SetPlaces
  <2>3. NewFlagInv'
    BY <1>7 DEF Register, Goto, NewFlagInv
  <2>4. FlagsAreOwn'
    BY <1>7 DEF Register, FlagsAreOwn
  <2>5. KnownInv'
    BY <1>7 DEF Register, Goto, TypeOK, NewFlagInv, KnownInv, Known
  <2> QED
    BY <1>0, <2>1, <2>2, <2>3, <2>4, <2>5
<1>8. ASSUME NEW t \in Threads, NEW w \in Wrappers, Load(t, w)
      PROVE  DisciplinedInv'
  <2>1. UseInv'
    BY <1>8 DEF Load, Goto, TypeOK, UseInv, Unloading, NewPlaces
  <2>2. SetInv'
    BY <1>8 DEF Load, Goto, SetInv, SetPlaces
  <2>3. NewFlagInv'
    BY <1>8 DEF Load, Goto, NewFlagInv
  <2>4. FlagsAreOwn'
    BY <1>8 DEF Load, FlagsAreOwn
  <2>5. KnownInv'
    BY <1>8 DEF Load, Goto, NewPlaces, SetPlaces, KnownInv, Known
  <2> QED
    BY <1>0, <2>1, <2>2, <2>3, <2>4, <2>5
<1>9. ASSUME NEW t \in Threads, InitializeSkips(t)
      PROVE  DisciplinedInv'
  <2>1. UseInv'
    BY <1>9 DEF InitializeSkips, Goto, UseInv, Unloading, NewPlaces
  <2>2. SetInv'
    BY <1>9 DEF InitializeSkips, Goto, SetInv, SetPlaces
  <2>3. NewFlagInv'
    BY <1>9 DEF InitializeSkips, Goto, NewPlaces, NewFlagInv
  <2>4. FlagsAreOwn'
    BY <1>9 DEF InitializeSkips, FlagsAreOwn
  <2>5. KnownInv'
    BY <1>9 DEF InitializeSkips, Goto, NewPlaces, SetPlaces, KnownInv, Known
  <2> QED
    BY <1>0, <2>1, <2>2, <2>3, <2>4, <2>5
<1>10. ASSUME NEW t \in Threads, InitializeCalls(t)
      PROVE  DisciplinedInv'
  <2>1. UseInv'
    BY <1>10 DEF InitializeCalls, Goto, TypeOK, UseInv, Unloading, NewPlaces
  <2>2. SetInv'
    BY <1>10 DEF InitializeCalls, Goto, TypeOK, SetInv, SetPlaces
  <2>3. NewFlagInv'
    BY <1>10 DEF InitializeCalls, Goto, TypeOK, NewPlaces, NewFlagInv
  <2>4. FlagsAreOwn'
    BY <1>10 DEF InitializeCalls, FlagsAreOwn
  <2>5. KnownInv'
    BY <1>10 DEF InitializeCalls, Goto, TypeOK, SetPlaces, KnownInv, Known
  <2> QED
    BY <1>0, <2>1, <2>2, <2>3, <2>4, <2>5
<1>11. ASSUME NEW t \in Threads, InitializeSucceeds(t)
      PROVE  DisciplinedInv'
  <2>1. UseInv'
    BY <1>11 DEF InitializeSucceeds, Goto, TypeOK, UseInv, Unloading, NewPlaces
  <2>2. SetInv'
    BY <1>11 DEF InitializeSucceeds, Goto, TypeOK, SetInv, FlagsAreOwn
  <2>3. NewFlagInv'
    BY <1>11 DEF InitializeSucceeds, Goto, TypeOK, NewPlaces, NewFlagInv
  <2>4. FlagsAreOwn'
    BY <1>11 DEF InitializeSucceeds, FlagsAreOwn
  <2>5. KnownInv'
    BY <1>11 DEF InitializeSucceeds, Goto, TypeOK, SetPlaces, KnownInv, Known
  <2> QED
    BY <1>0, <2>1, <2>2, <2>3, <2>4, <2>5
<1>12. ASSUME NEW t \in Threads, SetInitialized(t)
      PROVE  DisciplinedInv'
  <2>1. UseInv'
    BY <1>12 DEF SetInitialized, Goto, TypeOK, UseInv, Unloading, NewPlaces
  <2>2. SetInv'
    BY <1>12 DEF SetInitialized, Goto, TypeOK, SetInv, SetPlaces
  <2>3. NewFlagInv'
    BY <1>12 DEF SetInitialized, Goto, TypeOK, NewPlaces, NewFlagInv
  <2>4. FlagsAreOwn'
    <3>1. /\ pc[t] \in SetPlaces /\ lib[t] \in Wrappers /\ UNCHANGED <<up, funclist>>
          /\ initialized' = [initialized EXCEPT ![lib[t]] = TRUE]
      BY <1>12 DEF SetInitialized, Goto, SetPlaces, TypeOK
    <3>2. up /\ \A w \in Wrappers : ~initialized[w]
      BY <3>1 DEF SetInv
    <3>3. funclist[lib[t]] = "valid"
      BY <3>1 DEF SetInv, SetPlaces, NewInv, NewPlaces
    <3> QED
      BY <3>1, <3>2, <3>3 DEF TypeOK, FlagsAreOwn
  <2>5. KnownInv'
    BY <1>12 DEF SetInitialized, Goto, TypeOK, UseInv, Unloading, NewPlaces, KnownInv,
       Known
  <2> QED
    BY <1>0, <2>1, <2>2, <2>3, <2>4, <2>5
<1>13. ASSUME NEW t \in Threads, InitializeFails(t)
      PROVE  DisciplinedInv'
  <2>1. UseInv'
    BY <1>13 DEF InitializeFails, Goto, UseInv, Unloading, NewPlaces
  <2>2. SetInv'
    BY <1>13 DEF InitializeFails, Goto, SetInv, SetPlaces
  <2>3. NewFlagInv'
    BY <1>13 DEF InitializeFails, Goto, NewPlaces, NewFlagInv
  <2>4. FlagsAreOwn'
    BY <1>13 DEF InitializeFails, FlagsAreOwn
  <2>5. KnownInv'
    BY <1>13 DEF InitializeFails, Goto, NewPlaces, SetPlaces, KnownInv, Known
  <2> QED
    BY <1>0, <2>1, <2>2, <2>3, <2>4, <2>5
<1>14. ASSUME NEW t \in Threads, NewInitializeFails(t)
      PROVE  DisciplinedInv'
  <2>0. /\ lib[t] \in Wrappers
        /\ funclist' = [funclist EXCEPT ![lib[t]] = "NULL"]
        /\ initialized' = [initialized EXCEPT ![lib[t]] = FALSE]
        /\ up' => up
        /\ ~initialized[lib[t]] /\ (\E v \in Wrappers : funclist'[v] = "valid")
              => up' = up /\ failed' = failed
        /\ initialized[lib[t]] /\ failed' = 0 => ~up'
        /\ failed' = 0 => failed = 0
    BY <1>14, UnloadMeans DEF FlagsAreOwn, NewInitializeFails, Goto, TypeOK, Mapped
  <2>a. \A u \in Threads \ {t} : pc[u] \in SetPlaces => lib[u] \in Wrappers /\ funclist'[lib[u]] = "valid"
    BY <1>14, <2>0 DEF NewInitializeFails, Goto, TypeOK, UseInv, Unloading, NewInv,
       NewPlaces,
       SetPlaces, SetInv
  <2>1. UseInv'
    BY <1>14, <2>a DEF NewInitializeFails, Goto, TypeOK, UseInv, Unloading
  <2>b. pc' = [pc EXCEPT ![t] = "idle"]
    BY <1>14 DEF NewInitializeFails, Goto
  <2>2. SetInv'
    <3>1. ASSUME NEW u \in Threads, pc'[u] \in SetPlaces
          PROVE  u # t /\ pc[u] \in SetPlaces
      BY <2>b, <3>1 DEF TypeOK, SetPlaces
    <3>2. ASSUME NEW u \in Threads, pc'[u] \in SetPlaces
          PROVE  up' /\ \A w \in Wrappers : ~initialized'[w]
      <4>1. up /\ \A w \in Wrappers : ~initialized[w]
        BY <3>1, <3>2 DEF SetInv
      <4>2. up' = up
        BY <2>0, <2>a, <3>1, <3>2, <4>1
      <4> QED
        BY <2>0, <4>1, <4>2 DEF TypeOK
    <3>3. ASSUME NEW u \in Threads, pc'[u] \in {"C_init", "set"}
          PROVE  funclist'[lib'[u]] = "valid"
      <4>1. u # t /\ pc[u] = pc'[u] /\ funclist[lib[u]] = "valid"
        BY <2>b, <3>3 DEF TypeOK, SetInv
      <4>2. lib'[u] = lib[u] /\ lib[u] # lib[t]
        BY <1>14, <4>1 DEF NewInitializeFails, Goto, TypeOK, NewInv, NewPlaces
      <4> QED
        BY <2>0, <4>1, <4>2 DEF TypeOK
    <3> QED
      BY <3>1, <3>2, <3>3 DEF SetInv
  <2>3. NewFlagInv'
    BY <1>14, <2>0, <2>a DEF NewInitializeFails, Goto, NewInv, NewPlaces, NewFlagInv
  <2>4. FlagsAreOwn'
    <3>1. ASSUME NEW v \in Wrappers, initialized'[v]
          PROVE  v # lib[t] /\ initialized[v] /\ ~initialized[lib[t]]
      BY <2>0, <3>1 DEF TypeOK, FlagsAreOwn
    <3>2. ASSUME NEW v \in Wrappers, initialized'[v]
          PROVE  up' /\ funclist'[v] = "valid"
      <4>1. up /\ funclist'[v] = "valid"
        BY <2>0, <3>1, <3>2 DEF FlagsAreOwn
      <4>2. up' = up
        BY <2>0, <3>1, <3>2, <4>1
      <4> QED
        BY <4>1, <4>2
    <3> QED
      BY <3>1, <3>2 DEF FlagsAreOwn
  <2>5. KnownInv'
    BY <1>14, <2>0, <2>a DEF NewInitializeFails, Goto, SetPlaces, KnownInv, Known
  <2> QED
    BY <1>0, <2>1, <2>2, <2>3, <2>4, <2>5
<1>15. ASSUME NEW t \in Threads, Use(t)
      PROVE  DisciplinedInv'
  <2>1. UseInv'
    BY <1>15 DEF Use, Goto, TypeOK, UseInv, Unloading, NewPlaces
  <2>2. SetInv'
    BY <1>15 DEF Use, Goto, TypeOK, SetInv, SetPlaces
  <2>3. NewFlagInv'
    BY <1>15 DEF Use, Goto, TypeOK, NewPlaces, NewFlagInv
  <2>4. FlagsAreOwn'
    BY <1>15 DEF Use, FlagsAreOwn
  <2>5. KnownInv'
    BY <1>15 DEF Use, Goto, TypeOK, NewPlaces, SetPlaces, KnownInv, Known
  <2> QED
    BY <1>0, <2>1, <2>2, <2>3, <2>4, <2>5
<1>16. ASSUME NEW t \in Threads, FinalizeLib(t)
      PROVE  DisciplinedInv'
  <2>0. /\ up' => up
        /\ failed' = 0 => failed = 0 /\ ~up'
    BY <1>16, FinalizeMeans DEF FinalizeLib
  <2>1. UseInv'
    BY <1>16 DEF FinalizeLib, UseInv, Unloading
  <2>2. SetInv'
    BY <1>16 DEF FinalizeLib, Has, TypeOK, SetInv
  <2>3. NewFlagInv'
    BY <1>16 DEF FinalizeLib, MayFinalize, Has, NewPlaces, NewFlagInv
  <2>4. FlagsAreOwn'
    BY <1>16 DEF FinalizeLib, ClearFlag, Has, TypeOK, FlagsAreOwn
  <2>5. KnownInv'
    BY <1>16, <2>0 DEF FinalizeLib, KnownInv, Known
  <2> QED
    BY <1>0, <2>1, <2>2, <2>3, <2>4, <2>5
<1>17. ASSUME NEW t \in Threads, Reinitialize(t)
      PROVE  DisciplinedInv'
  <2>1. UseInv'
    BY <1>17 DEF Reinitialize, MayFinalize, Goto, UseInv, Unloading, NewPlaces
  <2>2. SetInv'
    BY <1>17 DEF Reinitialize, MayFinalize, Goto, SetInv, SetPlaces
  <2>3. NewFlagInv'
    BY <1>17 DEF Reinitialize, MayFinalize, Goto, NewPlaces, NewFlagInv
  <2>4. FlagsAreOwn'
    BY <1>17 DEF Reinitialize, ClearFlag, Has, TypeOK, FlagsAreOwn
  <2>5. KnownInv'
    <3>1. CASE initialized[lib[t]]
      BY <1>17, <3>1 DEF Reinitialize, FinalizeOk, KnownInv
    <3>2. CASE ~initialized[lib[t]]
      <4>1. UNCHANGED <<loaded, initialized, up, failed, lib>>
        BY <1>17, <3>2 DEF Reinitialize, ClearFlag, TypeOK
      <4> QED
        BY <1>17, <3>2, <4>1 DEF Reinitialize, Goto, KnownInv, Known, SetPlaces
    <3> QED
      BY <3>1, <3>2
  <2> QED
    BY <1>0, <2>1, <2>2, <2>3, <2>4, <2>5
<1>18. ASSUME NEW t \in Threads, ReadEntry(t)
      PROVE  DisciplinedInv'
  <2>1. UseInv'
    BY <1>18 DEF ReadEntry, MayUnload, Goto, TypeOK, UseInv, Unloading, NewPlaces
  <2>2. SetInv'
    BY <1>18 DEF ReadEntry, Goto, SetInv, SetPlaces
  <2>3. NewFlagInv'
    BY <1>18 DEF ReadEntry, Goto, NewPlaces, NewFlagInv
  <2>4. FlagsAreOwn'
    BY <1>18 DEF ReadEntry, FlagsAreOwn
  <2>5. KnownInv'
    BY <1>18 DEF ReadEntry, Goto, NewPlaces, SetPlaces, KnownInv, Known
  <2> QED
    BY <1>0, <2>1, <2>2, <2>3, <2>4, <2>5
<1>19. ASSUME NEW t \in Threads, DeleteEntry(t)
      PROVE  DisciplinedInv'
  <2>1. UseInv'
    BY <1>19 DEF DeleteEntry, Goto, UseInv, Unloading
  <2>2. SetInv'
    BY <1>19 DEF DeleteEntry, Goto, SetInv, SetPlaces
  <2>3. NewFlagInv'
    BY <1>19 DEF DeleteEntry, Goto, NewFlagInv
  <2>4. FlagsAreOwn'
    BY <1>19 DEF DeleteEntry, FlagsAreOwn
  <2>5. KnownInv'
    BY <1>19 DEF DeleteEntry, Goto, TypeOK, UseInv, SetPlaces, KnownInv, Known
  <2> QED
    BY <1>0, <2>1, <2>2, <2>3, <2>4, <2>5
<1>20. ASSUME NEW t \in Threads, DeleteEntryFails(t)
      PROVE  DisciplinedInv'
  <2>1. UseInv'
    BY <1>20 DEF DeleteEntryFails, Goto, TypeOK, UseInv, Unloading
  <2>2. SetInv'
    BY <1>20 DEF DeleteEntryFails, Goto, SetInv, SetPlaces
  <2>3. NewFlagInv'
    BY <1>20 DEF DeleteEntryFails, Goto, NewFlagInv
  <2>4. FlagsAreOwn'
    BY <1>20 DEF DeleteEntryFails, FlagsAreOwn
  <2>5. KnownInv'
    BY <1>20 DEF DeleteEntryFails, Goto, NewPlaces, SetPlaces, KnownInv, Known
  <2> QED
    BY <1>0, <2>1, <2>2, <2>3, <2>4, <2>5
<1>21. ASSUME NEW t \in Threads, UnloadEntry(t)
      PROVE  DisciplinedInv'
  <2>0. /\ lib[t] \in Wrappers
        /\ funclist' = [funclist EXCEPT ![lib[t]] = "NULL"]
        /\ initialized' = [initialized EXCEPT ![lib[t]] = FALSE]
        /\ up' => up
        /\ ~initialized[lib[t]] /\ (\E v \in Wrappers : funclist'[v] = "valid")
              => up' = up /\ failed' = failed
        /\ initialized[lib[t]] /\ failed' = 0 => ~up'
        /\ failed' = 0 => failed = 0
    BY <1>21, UnloadMeans DEF FlagsAreOwn, UnloadEntry, Goto, TypeOK, Mapped
  <2>1. UseInv'
    BY <1>21 DEF UnloadEntry, Goto, TypeOK, UseInv, Unloading
  <2>2. SetInv'
    BY <1>21 DEF UnloadEntry, Goto, UseInv, Unloading, SetInv, SetPlaces
  <2>3. NewFlagInv'
    BY <1>21 DEF UnloadEntry, Goto, UseInv, Unloading, NewFlagInv
  <2>4. FlagsAreOwn'
    BY <1>21, <2>0 DEF UnloadEntry, TypeOK, FlagsAreOwn
  <2>5. KnownInv'
    BY <1>21, <2>0 DEF UnloadEntry, Goto, SetPlaces, KnownInv, Known
  <2> QED
    BY <1>0, <2>1, <2>2, <2>3, <2>4, <2>5
<1>22. ASSUME NEW w \in Wrappers, Drop(w)
      PROVE  DisciplinedInv'
  <2>0. /\ w \in Wrappers
        /\ funclist' = [funclist EXCEPT ![w] = "NULL"]
        /\ initialized' = [initialized EXCEPT ![w] = FALSE]
        /\ up' => up
        /\ ~initialized[w] /\ (\E v \in Wrappers : funclist'[v] = "valid")
              => up' = up /\ failed' = failed
        /\ initialized[w] /\ failed' = 0 => ~up'
        /\ failed' = 0 => failed = 0
    BY <1>22, UnloadMeans DEF FlagsAreOwn, Drop, Goto, TypeOK, Mapped
  <2>a. \A u \in Threads : pc[u] \in SetPlaces => lib[u] \in Wrappers /\ funclist'[lib[u]] = "valid"
    BY <1>22, <2>0 DEF Drop, Goto, TypeOK, UseInv, Unloading, NewInv, NewPlaces,
       SetPlaces, SetInv
  <2>1. UseInv'
    BY <1>22, <2>a DEF Drop, UseInv, Unloading
  <2>2. SetInv'
    BY <1>22, <2>0, <2>a DEF Drop, SetInv
  <2>3. NewFlagInv'
    BY <1>22, <2>0, <2>a DEF Drop, NewFlagInv
  <2>4. FlagsAreOwn'
    BY <1>22, <2>0, <2>a DEF Drop, TypeOK, FlagsAreOwn
  <2>5. KnownInv'
    BY <1>22, <2>0, <2>a DEF Drop, KnownInv, Known
  <2> QED
    BY <1>0, <2>1, <2>2, <2>3, <2>4, <2>5
<1>23. ASSUME NEW t \in Threads, UnloadDirectly(t)
      PROVE  DisciplinedInv'
  <2>0. /\ lib[t] \in Wrappers
        /\ funclist' = [funclist EXCEPT ![lib[t]] = "NULL"]
        /\ initialized' = [initialized EXCEPT ![lib[t]] = FALSE]
        /\ up' => up
        /\ ~initialized[lib[t]] /\ (\E v \in Wrappers : funclist'[v] = "valid")
              => up' = up /\ failed' = failed
        /\ initialized[lib[t]] /\ failed' = 0 => ~up'
        /\ failed' = 0 => failed = 0
    BY <1>23, UnloadMeans DEF UnloadDirectly, Has, TypeOK, Mapped, FlagsAreOwn
  <2>a. /\ pc[t] = "idle" /\ lib[t] # NoLib /\ UNCHANGED <<loaded, pc, lib>>
        /\ \A u \in Threads \ {t} : Unloading(u) \/ (pc[u] = "idle" /\ lib[u] # lib[t])
    BY <1>23 DEF UnloadDirectly, Has, MayUnload
  <2>b. \A u \in Threads : pc[u] = "idle"
    BY <2>a DEF UseInv, Unloading
  <2>1. UseInv'
    BY <2>a DEF UseInv, Unloading
  <2>2. SetInv'
    BY <2>a, <2>b DEF SetInv, SetPlaces
  <2>3. NewFlagInv'
    BY <2>a, <2>b DEF NewFlagInv, NewPlaces
  <2>4. FlagsAreOwn'
    BY <2>0 DEF TypeOK, FlagsAreOwn
  <2>5. KnownInv'
    BY <2>0, <2>a, <2>b DEF KnownInv, Known, SetPlaces, NewPlaces, FlagsAreOwn
  <2> QED
    BY <1>0, <2>1, <2>2, <2>3, <2>4, <2>5
<1>24. CASE UNCHANGED vars
  BY <1>0, <1>24 DEF vars, UseInv, Unloading, SetInv, NewFlagInv, FlagsAreOwn, KnownInv,
     Known
<1> QED
  BY <1>1, <1>2, <1>3, <1>4, <1>5, <1>6, <1>7, <1>8, <1>9, <1>10, <1>11, <1>12, <1>13,
     <1>14, <1>15, <1>16, <1>17, <1>18, <1>19, <1>20, <1>21, <1>22, <1>23, <1>24 DEF Next, Step


-----------------------------------------------------------------------------
(* Theorems *)

LEMMA RegistryInvariant == Spec => []RegistryInv
<1>1. RegistryInv /\ [Next]_vars => RegistryInv'
  BY NextRegistry
<1> QED
  BY <1>1, InitRegistry, PTL DEF Spec

\* Every variable keeps its type, and a thread at work on a wrapper has one.
THEOREM TypeCorrect == Spec => []TypeOK
<1>1. RegistryInv => TypeOK
  BY DEF RegistryInv
<1> QED
  BY <1>1, RegistryInvariant, PTL

\* Whatever any number of threads do with lib(), unload() and the wrappers, in use or not,
\* the registry holds no unloaded wrapper but one whose own unload() the program called.
THEOREM RegistryHoldsALibrary == Spec => []RegisteredIsLoaded
<1>1. RegistryInv => RegisteredIsLoaded
  BY DEF RegistryInv
<1> QED
  BY <1>1, RegistryInvariant, PTL

LEMMA DisciplineStays ==
    ASSUME [Next]_vars
    PROVE  disciplined' = disciplined
<1>1. ASSUME NEW t \in Threads, Step(t) PROVE disciplined' = disciplined
  BY <1>1 DEF Step, Hit, ReadInitialized, Miss, Load, LoadFails, Register, GetInfo,
     GetInfoFails, InitializeSkips, InitializeCalls, InitializeSucceeds, SetInitialized,
     InitializeFails, NewInitializeFails, Use, FinalizeLib, Reinitialize, ReadEntry,
     DeleteEntry, DeleteEntryFails, UnloadEntry, UnloadDirectly, program
<1>2. ASSUME NEW w \in Wrappers, Drop(w) PROVE disciplined' = disciplined
  BY <1>2 DEF Drop, program
<1>3. CASE UNCHANGED vars
  BY <1>3 DEF vars
<1> QED
  BY <1>1, <1>2, <1>3 DEF Next

\* The inductive invariant: that of disciplined programs, for those that are.
KeptInv == disciplined => DisciplinedInv

LEMMA DisciplinedInvariant == Spec => [](KeptInv /\ RegistryInv)
<1>1. Init => KeptInv
  <2> SUFFICES ASSUME Init PROVE DisciplinedInv
    BY DEF KeptInv
  <2>1. UseInv /\ SetInv /\ NewFlagInv
    BY DEF Init, UseInv, SetInv, NewFlagInv, Unloading, SetPlaces, NewPlaces
  <2>2. FlagsAreOwn /\ KnownInv
    BY DEF Init, FlagsAreOwn, KnownInv
  <2> QED
    BY <2>1, <2>2, InitRegistry DEF DisciplinedInv
<1>2. KeptInv /\ [Next]_vars => KeptInv'
  BY NextDisciplined, DisciplineStays DEF KeptInv
<1> QED
  BY <1>1, <1>2, RegistryInvariant, PTL DEF Spec

\* If nobody ends a library that others are using, a wrapper that says it is initialised
\* is, and it is the only one: failed constructors and failed calls of C_Finalize included.
THEOREM FlagsTellTheTruth == Spec => []FlagsAgree
<1>1. KeptInv => FlagsAgree
  BY DEF KeptInv, DisciplinedInv, FlagsAgree
<1> QED
  BY <1>1, DisciplinedInvariant, PTL

\* ... no C function is called through an unloaded wrapper, unless the program called
\* unload() of that wrapper itself, ...
THEOREM CallsReachALibrary == Spec => []CallsAreMapped
<1>1. KeptInv => CallsAreMapped
  <2> SUFFICES ASSUME DisciplinedInv, NEW t \in Threads, pc[t] \in InC
               PROVE  funclist[lib[t]] = "valid" \/ lib[t] \in closed
    BY DEF KeptInv, CallsAreMapped
  <2>1. ~Unloading(t) /\ lib[t] # NoLib
    BY DEF DisciplinedInv, RegistryInv, TypeOK, InC, Unloading
  <2>2. lib[t] = loaded \/ pc[t] \in NewPlaces
    BY <2>1 DEF DisciplinedInv, UseInv
  <2> QED
    BY <2>1, <2>2 DEF DisciplinedInv, RegistryInv, RegisteredIsLoaded, NewInv
<1> QED
  BY <1>1, DisciplinedInvariant, PTL

\* ... and as long as C_Finalize has not failed, lib() finds the library uninitialised or
\* registered as initialised, however it was finalised, unloaded and loaded before.
THEOREM NextLibGetsALibrary == Spec => []NextLibSucceeds
<1>1. KeptInv => NextLibSucceeds
  BY DEF KeptInv, DisciplinedInv, KnownInv, Known, NextLibSucceeds, Recovers, SetPlaces,
     NewPlaces
<1> QED
  BY <1>1, DisciplinedInvariant, PTL
=============================================================================
