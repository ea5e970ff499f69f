--------------------------- MODULE OperationContext ---------------------------
(***************************************************************************)
(* The multi-step operations of one pkcs11 Session and the reentrant lock  *)
(* that serialises them.                                                   *)
(*                                                                         *)
(* An operation (search, digest, encrypt, decrypt, sign, verify) is an     *)
(* OperationContext object used in a `with' statement: __enter__ takes     *)
(* Session.operation_lock and calls C_XInit, the body calls C_XUpdate and  *)
(* C_XFinal, __exit__ and __del__ call _finalize.  Searches and chunked    *)
(* encryption run inside a generator: their body is suspended at every     *)
(* yield and goes on in whichever thread asks for the next item, or in the *)
(* one that drops the last reference.                                      *)
(*                                                                         *)
(* The C calls are made `with nogil'; the Python code between two of them  *)
(* does not give up the interpreter lock.  So an action is one C call, or  *)
(* one acquisition of the lock, with the code that follows it.             *)
(***************************************************************************)
EXTENDS Naturals, Sequences, FiniteSets

CONSTANTS
    Threads,          \* threads of the calling program
    Ops,              \* operation objects, each entered at most once
    Kinds,            \* the kinds of operation the program uses
    NoThread, NoOp,   \* None
    SingleOperation,  \* the token refuses any second operation in a session
    CancelWithInit,   \* cancel_strategy = CANCEL_WITH_INIT
    CrossThread,      \* a generator may be resumed or dropped by any thread
    Faults            \* what the token may answer besides CKR_OK

AllKinds  == {"search", "digest", "encrypt", "decrypt", "sign", "verify"}
KeyKinds  == {"encrypt", "decrypt", "sign", "verify"}
AllFaults == {"init_error", "update_error", "buffer_too_small",
              "cancel_failed", "cancel_unsupported"}

ASSUME KindsAssumption  == Kinds \subseteq AllKinds
ASSUME NoneAssumption   == NoThread \notin Threads /\ NoOp \notin Ops
ASSUME OpsAssumption    == IsFiniteSet(Ops)
ASSUME SwitchAssumption == /\ SingleOperation \in BOOLEAN
                           /\ CancelWithInit  \in BOOLEAN
                           /\ CrossThread     \in BOOLEAN
ASSUME FaultsAssumption == Faults \subseteq AllFaults

\* A C_XFinal, or a cancellation, that returns ends the operation at the token.
FinalMeansFinal == {"buffer_too_small", "cancel_unsupported"} \cap Faults = {}

VARIABLES
    lockOwner,    \* the thread that holds Session.operation_lock
    lockCount,    \* how many times it holds it
    phase,        \* where the body of each operation is
    active,       \* OperationContext.active
    kind,         \* the class of the operation object
    lazy,         \* the operation lives in a generator
    starter,      \* the thread that entered the `with' statement
    calls,        \* per thread: the operations whose code it is in, innermost first
    tok,          \* the token: which operation it runs, for each kind
    sessionOpen   \* C_CloseSession has not been called

lockVars == <<lockOwner, lockCount>>
opVars   == <<phase, active, calls>>
vars     == <<lockOwner, lockCount, phase, active, kind, lazy, starter, calls,
              tok, sessionOpen>>

(***************************************************************************)
(* "entering"     blocked in operation_lock.acquire()                      *)
(* "initiating"   lock taken, active set, C_XInit not yet called           *)
(* "open"         in the `with' body, or suspended at a yield of it        *)
(* "exiting"      the body was left with the operation active: _finalize   *)
(* "discarded"    __enter__ or __exit__ raised with the operation active:  *)
(*                the last reference is gone and __del__ is next           *)
(* "dead"         the object is gone                                       *)
(***************************************************************************)
Phases == {"new", "entering", "initiating", "open", "exiting", "discarded", "dead"}

TypeOK ==
    /\ lockOwner \in Threads \cup {NoThread}
    /\ lockCount \in Nat
    /\ phase \in [Ops -> Phases]
    /\ active \in [Ops -> BOOLEAN]
    /\ kind \in [Ops -> Kinds \cup {"none"}]
    /\ lazy \in [Ops -> BOOLEAN]
    /\ starter \in [Ops -> Threads \cup {NoThread}]
    /\ calls \in [Threads -> Seq(Ops)]
    /\ tok \in [Kinds -> Ops \cup {NoOp}]
    /\ sessionOpen \in BOOLEAN

Init ==
    /\ lockOwner = NoThread
    /\ lockCount = 0
    /\ phase = [o \in Ops |-> "new"]
    /\ active = [o \in Ops |-> FALSE]
    /\ kind = [o \in Ops |-> "none"]
    /\ lazy = [o \in Ops |-> FALSE]
    /\ starter = [o \in Ops |-> NoThread]
    /\ calls = [t \in Threads |-> <<>>]
    /\ tok = [k \in Kinds |-> NoOp]
    /\ sessionOpen = TRUE

-----------------------------------------------------------------------------
(* Threads and generators *)

\* t is inside the code of o and of no operation nested in it.
Inner(t, o) == calls[t] # <<>> /\ Head(calls[t]) = o

\* The body of o iterates over the caller's chunks: the caller's code may run.
RunsCallerCode(o) == phase[o] = "open" /\ kind[o] \in {"digest", "sign", "verify"}

\* t runs code of the program, which may call the library.
Free(t) == calls[t] # <<>> => RunsCallerCode(Head(calls[t]))

\* t may go on with the body of o: a generator is resumed from the program's
\* code, any other operation is on the stack of the thread that called it.
Runs(t, o) ==
    /\ phase[o] = "open"
    /\ IF lazy[o] THEN Free(t) /\ (CrossThread \/ t = starter[o])
                  ELSE Inner(t, o)

Push(t, o) == calls' = [calls EXCEPT ![t] = <<o>> \o @]
Pop(t)     == calls' = [calls EXCEPT ![t] = Tail(@)]

\* The program calls the library: a new operation o of kind k enters its `with'
\* statement.  Searches are generators, encryption of an iterable too.
MayBeLazy(k) ==
    CASE k = "search"                  -> {TRUE}
      [] k \in {"encrypt", "decrypt"} -> {TRUE, FALSE}
      [] OTHER                         -> {FALSE}

Call(t, o, k, z) ==
    /\ phase[o] = "new"
    /\ Free(t)
    /\ z \in MayBeLazy(k)
    /\ phase' = [phase EXCEPT ![o] = "entering"]
    /\ kind' = [kind EXCEPT ![o] = k]
    /\ lazy' = [lazy EXCEPT ![o] = z]
    /\ starter' = [starter EXCEPT ![o] = t]
    /\ Push(t, o)
    /\ UNCHANGED <<lockVars, active, tok, sessionOpen>>

-----------------------------------------------------------------------------
(* The lock, and the end of an operation *)

\* Mutant: a lock that does not look at its owner.
AcquireAnyway(t) ==
    /\ lockOwner' = t
    /\ lockCount' = lockCount + 1

\* RLock.acquire() returns in t.
Acquire(t) ==
    /\ lockOwner \in {NoThread, t}
    /\ lockOwner' = t
    /\ lockCount' = lockCount + 1

\* Mutant: a lock that is not reentrant.
ReleaseOutright(t) ==
    IF lockOwner = t THEN lockCount' = 0 /\ lockOwner' = NoThread
                     ELSE UNCHANGED lockVars

\* RLock.release() in t: a RuntimeError, and no effect, if t is not the owner.
Release(t) ==
    IF lockOwner = t
      THEN /\ lockCount' = lockCount - 1
           /\ lockOwner' = IF lockCount = 1 THEN NoThread ELSE t
      ELSE UNCHANGED lockVars

\* Mutant: the flag alone.
OnlyClearFlag(t, o) ==
    /\ active' = [active EXCEPT ![o] = FALSE]
    /\ UNCHANGED lockVars

\* _handle_final_retval: the flag first, then the lock, then the return value.
HandleFinalRetval(t, o) ==
    /\ active' = [active EXCEPT ![o] = FALSE]
    /\ Release(t)

\* The `with' statement is left for good; a generator that was resumed for this
\* is not on the stack.
Gone(t, o) ==
    /\ phase' = [phase EXCEPT ![o] = "dead"]
    /\ IF Inner(t, o) THEN Pop(t) ELSE UNCHANGED calls

\* The token's operation of that kind ends, whichever object started it.
EndTokenOp(o) == tok' = [tok EXCEPT ![kind[o]] = NoOp]

Over(t, o) ==
    /\ HandleFinalRetval(t, o)
    /\ Gone(t, o)
    /\ UNCHANGED <<kind, lazy, starter, sessionOpen>>

-----------------------------------------------------------------------------
(* __enter__ *)

\* operation_lock.acquire(); self.active = True
Enter(t, o) ==
    /\ phase[o] = "entering"
    /\ Inner(t, o)
    /\ Acquire(t)
    /\ active' = [active EXCEPT ![o] = TRUE]
    /\ phase' = [phase EXCEPT ![o] = "initiating"]
    /\ UNCHANGED <<kind, lazy, starter, calls, tok, sessionOpen>>

\* C_XInit succeeds only if the session is open and has no such operation.
Accepts(k) ==
    /\ sessionOpen
    /\ \A j \in Kinds : tok[j] = NoOp \/ (j # k /\ ~SingleOperation)

\* _initiate, CKR_OK: a generator then runs to its first yield.
Initiate(t, o) ==
    /\ phase[o] = "initiating"
    /\ Inner(t, o)
    /\ Accepts(kind[o])
    /\ tok' = [tok EXCEPT ![kind[o]] = o]
    /\ phase' = [phase EXCEPT ![o] = "open"]
    /\ IF lazy[o] THEN Pop(t) ELSE UNCHANGED calls
    /\ UNCHANGED <<lockVars, active, kind, lazy, starter, sessionOpen>>

InitiateRefused(t, o) ==
    /\ phase[o] = "initiating"
    /\ Inner(t, o)
    /\ ~Accepts(kind[o]) \/ "init_error" \in Faults

\* Mutants: the operation is dropped with the lock held and nothing to release
\* it, or is left to __del__ as a search is.
InitiateRaises(t, o) ==
    /\ InitiateRefused(t, o)
    /\ kind[o] # "search"
    /\ Gone(t, o)
    /\ UNCHANGED <<lockVars, active, kind, lazy, starter, tok, sessionOpen>>

InitiateLeftToDel(t, o) ==
    /\ InitiateRefused(t, o)
    /\ kind[o] # "search"
    /\ phase' = [phase EXCEPT ![o] = "discarded"]
    /\ UNCHANGED <<lockVars, active, kind, lazy, starter, calls, tok, sessionOpen>>

\* _initiate, any other answer: _operation_aware_assert ends the operation.
InitiateFails(t, o) ==
    /\ InitiateRefused(t, o)
    /\ kind[o] # "search"
    /\ Over(t, o)
    /\ UNCHANGED tok

\* SearchIter._initiate only raises: the lock is still held and active still
\* set when __enter__ is left, and the object is dropped.
SearchInitiateFails(t, o) ==
    /\ InitiateRefused(t, o)
    /\ kind[o] = "search"
    /\ phase' = [phase EXCEPT ![o] = "discarded"]
    /\ UNCHANGED <<lockVars, active, kind, lazy, starter, calls, tok, sessionOpen>>

-----------------------------------------------------------------------------
(* The body of the `with' statement *)

\* C_XUpdate fails, as it must when the token runs no such operation: the error
\* ends the operation at the token and here.  An update that succeeds changes
\* nothing of this state.
UpdateFails(t, o) ==
    /\ Runs(t, o)
    /\ kind[o] # "search"
    /\ tok[kind[o]] = NoOp \/ "update_error" \in Faults
    /\ EndTokenOp(o)
    /\ Over(t, o)

\* C_XFinal, or the one-shot C_X: whatever it answers ends the operation.
Finish(t, o) ==
    /\ Runs(t, o)
    /\ kind[o] # "search"
    /\ EndTokenOp(o)
    /\ Over(t, o)

\* ... but CKR_BUFFER_TOO_SMALL does not end it at the token, only here.
FinishTooSmall(t, o) ==
    /\ Runs(t, o)
    /\ kind[o] \notin {"search", "verify"}
    /\ tok[kind[o]] # NoOp
    /\ "buffer_too_small" \in Faults
    /\ Over(t, o)
    /\ UNCHANGED tok

\* The body is left with the operation active: an exception of the caller's
\* iterator or of reaffirm_credentials, GeneratorExit because the generator was
\* closed or dropped, or C_FindObjects found nothing more or failed.
Leave(t, o) ==
    /\ Runs(t, o)
    /\ phase' = [phase EXCEPT ![o] = "exiting"]
    /\ IF lazy[o] THEN Push(t, o) ELSE UNCHANGED calls
    /\ UNCHANGED <<lockVars, active, kind, lazy, starter, tok, sessionOpen>>

-----------------------------------------------------------------------------
(* _finalize of an active operation, from __next__ or __exit__ and, if that  *)
(* raised before it released the lock, from __del__                          *)

Finalizing(t, o) == phase[o] \in {"exiting", "discarded"} /\ Inner(t, o)

CancelsWithInit(o) == CancelWithInit /\ kind[o] \in KeyKinds

\* Mutant: OperationContext._finalize for every operation.
FinalizeHereOnly(t, o) ==
    /\ Finalizing(t, o)
    /\ ~CancelsWithInit(o)
    /\ Over(t, o)
    /\ UNCHANGED tok

\* C_FindObjectsFinal, C_DigestFinal, or unclean_shutdown's C_XFinal.
Finalize(t, o) ==
    /\ Finalizing(t, o)
    /\ ~CancelsWithInit(o)
    /\ EndTokenOp(o)
    /\ Over(t, o)

\* The buffer is too small for that C_XFinal too.
FinalizeTooSmall(t, o) ==
    /\ Finalizing(t, o)
    /\ ~CancelsWithInit(o)
    /\ kind[o] \notin {"search", "verify"}
    /\ tok[kind[o]] # NoOp
    /\ "buffer_too_small" \in Faults
    /\ Over(t, o)
    /\ UNCHANGED tok

\* C_XInit with a NULL mechanism cancels the operation ...
CancelAccepted(t, o) ==
    /\ Finalizing(t, o)
    /\ CancelsWithInit(o)
    /\ EndTokenOp(o)
    /\ Over(t, o)

\* ... or fails with an error that is ignored ...
CancelIgnored(t, o) ==
    /\ Finalizing(t, o)
    /\ CancelsWithInit(o)
    /\ ~sessionOpen \/ "cancel_unsupported" \in Faults
    /\ Over(t, o)
    /\ UNCHANGED tok

\* ... or with CKR_OPERATION_CANCEL_FAILED, which is raised before the flag is
\* cleared and the lock released: __del__ tries again, once.
CancelFails(t, o) ==
    /\ Finalizing(t, o)
    /\ CancelsWithInit(o)
    /\ "cancel_failed" \in Faults
    /\ IF phase[o] = "exiting"
         THEN phase' = [phase EXCEPT ![o] = "discarded"] /\ UNCHANGED calls
         ELSE Gone(t, o)
    /\ UNCHANGED <<lockVars, active, kind, lazy, starter, tok, sessionOpen>>

-----------------------------------------------------------------------------
\* Session.close(): takes no lock; C_CloseSession ends every operation.
CloseSession(t) ==
    /\ sessionOpen
    /\ Free(t)
    /\ sessionOpen' = FALSE
    /\ tok' = [k \in Kinds |-> NoOp]
    /\ UNCHANGED <<lockVars, opVars, kind, lazy, starter>>

\* The program is done.
Terminated ==
    /\ \A o \in Ops : phase[o] = "dead"
    /\ UNCHANGED vars

\* What the library does next in t, once it has been called.
Step(t, o) ==
    \/ Enter(t, o)
    \/ Initiate(t, o) \/ InitiateFails(t, o) \/ SearchInitiateFails(t, o)
    \/ Finalize(t, o) \/ FinalizeTooSmall(t, o)
    \/ CancelAccepted(t, o) \/ CancelIgnored(t, o) \/ CancelFails(t, o)

\* The program, or the `with' body it drives, ends operation o.
Consume(t, o) ==
    \/ UpdateFails(t, o) \/ Finish(t, o) \/ FinishTooSmall(t, o) \/ Leave(t, o)

Next ==
    \/ \E t \in Threads, o \in Ops :
          \/ \E k \in Kinds, z \in BOOLEAN : Call(t, o, k, z)
          \/ Step(t, o)
          \/ Consume(t, o)
    \/ \E t \in Threads : CloseSession(t)
    \/ Terminated

Spec == Init /\ [][Next]_vars

\* The interpreter runs every thread, and the program consumes or drops what it
\* starts.
FairSpec ==
    /\ Spec
    /\ \A t \in Threads, o \in Ops : WF_vars(Step(t, o)) /\ WF_vars(Consume(t, o))

-----------------------------------------------------------------------------
(* Properties *)

\* The operations whose flag is set: the library believes they run.
LiveOps == {o \in Ops : active[o]}

\* What the token runs.
RunningOps == {tok[k] : k \in Kinds} \ {NoOp}

\* Every live operation, from __enter__ to _handle_final_retval, was started by
\* the owner of the lock.
OwnerStartedAll == \A o \in Ops : active[o] => lockOwner = starter[o]

\* Two threads never have operations of their own going in the session at once,
\* whatever the token answers: what the token runs for this library was started by
\* one thread.  Another thread gets inside a live operation only by resuming or
\* dropping a generator that was passed to it, which it may do even while the
\* starter is inside another operation; the lock does not prevent that.
MutualExclusion ==
    /\ OwnerStartedAll
    /\ \A t \in Threads : \A i \in DOMAIN calls[t] :
          active[calls[t][i]] => lockOwner = t \/ lazy[calls[t][i]]

\* The lock is held at least once for every live operation, so that the release
\* of a nested one never opens the session under an outer one.
LockCoversOps ==
    /\ lockOwner = NoThread <=> lockCount = 0
    /\ lockCount >= Cardinality(LiveOps)

\* A generator that stays in its thread leaves the lock balanced: held exactly
\* once for every live operation, never released by a stranger.
LockBalanced == lockCount = Cardinality(LiveOps)

\* The inductive form of MutualExclusion and LockCoversOps.  The flag says where
\* the body is; an operation that waits for the lock, or is no generator, is on
\* the stack of the thread that started it, and in a program whose generators
\* stay in their thread so is every operation.
PhaseInv ==
    \A o \in Ops :
        /\ phase[o] \in {"new", "entering"} => ~active[o]
        /\ phase[o] \in {"initiating", "open", "exiting", "discarded"} => active[o]
        /\ phase[o] # "new" => starter[o] \in Threads /\ kind[o] \in Kinds

StackInv ==
    \A t \in Threads : \A i \in DOMAIN calls[t] :
        /\ phase[calls[t][i]] # "new"
        /\ ~CrossThread \/ phase[calls[t][i]] = "entering" \/ ~lazy[calls[t][i]]
              => starter[calls[t][i]] = t

LockInv == TypeOK /\ PhaseInv /\ StackInv /\ OwnerStartedAll /\ LockCoversOps

\* What the token runs belongs to the thread that has the lock: the next thread
\* to get the session never meets OPERATION_ACTIVE because of the last one.
TokenServesOwner ==
    \A k \in Kinds : tok[k] # NoOp => /\ active[tok[k]]
                                      /\ kind[tok[k]] = k
                                      /\ lockOwner = starter[tok[k]]

\* The inductive form of TokenServesOwner: no operation is at the token before
\* its C_XInit, and a closed session runs none.
TokenInv ==
    /\ \A k \in Kinds :
          tok[k] # NoOp => /\ active[tok[k]] /\ kind[tok[k]] = k
                           /\ phase[tok[k]] \notin {"new", "entering", "initiating"}
    /\ ~sessionOpen => \A k \in Kinds : tok[k] = NoOp

\* While the session is open, the token runs exactly the operation an object
\* stands for: no update or final call of one operation, key and data of one
\* thread, is ever applied to another operation of that kind.
OpenOperationOwnsToken ==
    \A o \in Ops :
        (/\ sessionOpen /\ kind[o] # "search"
         /\ phase[o] \in {"open", "exiting", "discarded"})
        => tok[kind[o]] = o

\* When no operation is in progress and none is suspended, the session is free:
\* docs/concurrency.rst, "The lock is not released until the iterator is
\* consumed (or garbage collected)".
ReleasedWhenDone ==
    (\A o \in Ops : phase[o] \in {"new", "entering", "dead"}) => lockOwner = NoThread

\* Every call ends: a thread that asks for the session gets it, and leaves the
\* operation, if the program consumes or drops its generators.
EveryCallEnds == \A o \in Ops : phase[o] = "entering" ~> phase[o] = "dead"

\* The operations and their lock implement the documented promise.
Promise == INSTANCE SessionLock WITH
    owner   <- lockOwner,
    live    <- LiveOps,
    running <- RunningOps

KeepsPromise == Promise!Spec
=============================================================================
