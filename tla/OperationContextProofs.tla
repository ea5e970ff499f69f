------------------------ MODULE OperationContextProofs ------------------------
(***************************************************************************)
(* What holds of the operations of a Session for every number of threads   *)
(* and operations, proved with TLAPS.                                      *)
(***************************************************************************)
EXTENDS OperationContext, FiniteSetTheorems, TLAPS

(***************************************************************************)
(* The live operations are finitely many, and an operation that becomes    *)
(* live, or ceases to be, changes their number by one.                     *)
(***************************************************************************)
LEMMA LiveOpsFinite ==
    /\ IsFiniteSet(LiveOps)
    /\ Cardinality(LiveOps) \in Nat
BY OpsAssumption, FS_Subset, FS_CardinalityType DEF LiveOps

\* An operation that enters becomes live.
LEMMA LiveOpsGrow ==
    ASSUME TypeOK, NEW o \in Ops, ~active[o],
           active' = [active EXCEPT ![o] = TRUE]
    PROVE  /\ LiveOps' = LiveOps \cup {o}
           /\ Cardinality(LiveOps') = Cardinality(LiveOps) + 1
<1>1. LiveOps' = LiveOps \cup {o}
  BY DEF LiveOps, TypeOK
<1>2. o \notin LiveOps
  BY DEF LiveOps
<1> QED
  BY <1>1, <1>2, LiveOpsFinite, FS_AddElement

\* An operation that ends ceases to be live; the last one leaves none.
LEMMA LiveOpsShrink ==
    ASSUME TypeOK, NEW o \in Ops, active[o],
           active' = [active EXCEPT ![o] = FALSE]
    PROVE  /\ LiveOps' = LiveOps \ {o}
           /\ Cardinality(LiveOps') = Cardinality(LiveOps) - 1
           /\ Cardinality(LiveOps) \in Nat \ {0}
           /\ Cardinality(LiveOps') \in Nat
           /\ Cardinality(LiveOps') = 0 => LiveOps' = {}
<1>1. LiveOps' = LiveOps \ {o}
  BY DEF LiveOps, TypeOK
<1>2. o \in LiveOps
  BY DEF LiveOps
<1>3. IsFiniteSet(LiveOps')
  BY <1>1, LiveOpsFinite, FS_RemoveElement
<1>4. Cardinality(LiveOps') = Cardinality(LiveOps) - 1
  BY <1>1, <1>2, LiveOpsFinite, FS_RemoveElement
<1>5. Cardinality(LiveOps) # 0
  BY <1>2, LiveOpsFinite, FS_EmptySet
<1>6. Cardinality(LiveOps') = 0 => LiveOps' = {}
  BY <1>3, FS_EmptySet
<1> QED
  BY <1>1, <1>4, <1>5, <1>6, LiveOpsFinite

(***************************************************************************)
(* What the call stacks hold after a step: what they held before, and the  *)
(* operations that were pushed, given as pairs <<thread, operation>>.      *)
(***************************************************************************)
StacksGainOnly(Pushed) ==
    /\ calls' \in [Threads -> Seq(Ops)]
    /\ \A u \in Threads : \A i \in DOMAIN calls'[u] :
          \/ \E j \in DOMAIN calls[u] : calls'[u][i] = calls[u][j]
          \/ <<u, calls'[u][i]>> \in Pushed

\* A return takes the top of a stack away, and adds nothing.
LEMMA PopStack ==
    ASSUME TypeOK, NEW t \in Threads, calls[t] # <<>>, Pop(t)
    PROVE  StacksGainOnly({})
<1>1. calls[t] \in Seq(Ops) /\ \A u \in Threads : calls[u] \in Seq(Ops)
  BY DEF TypeOK
<1>2. Tail(calls[t]) \in Seq(Ops)
  BY <1>1
<1>3. calls' = [calls EXCEPT ![t] = Tail(calls[t])]
  BY DEF Pop
<1>4. calls' \in [Threads -> Seq(Ops)]
  BY <1>2, <1>3 DEF TypeOK
<1>5. ASSUME NEW u \in Threads, NEW i \in DOMAIN calls'[u]
      PROVE  \E j \in DOMAIN calls[u] : calls'[u][i] = calls[u][j]
  <2>1. CASE u = t
    <3>1. calls'[u] = Tail(calls[u])
      BY <2>1, <1>3 DEF TypeOK
    <3>2. i + 1 \in DOMAIN calls[u] /\ calls'[u][i] = calls[u][i + 1]
      BY <3>1, <1>1, <2>1
    <3> QED
      BY <3>2
  <2>2. CASE u # t
    BY <2>2, <1>3 DEF TypeOK
  <2> QED
    BY <2>1, <2>2
<1> QED
  BY <1>4, <1>5 DEF StacksGainOnly

\* A call puts the operation on top of the stack of its thread.
LEMMA PushStack ==
    ASSUME TypeOK, NEW t \in Threads, NEW o \in Ops, Push(t, o)
    PROVE  StacksGainOnly({<<t, o>>})
<1>1. calls[t] \in Seq(Ops) /\ \A u \in Threads : calls[u] \in Seq(Ops)
  BY DEF TypeOK
<1>2. <<o>> \o calls[t] \in Seq(Ops)
  BY <1>1
<1>3. calls' = [calls EXCEPT ![t] = <<o>> \o calls[t]]
  BY DEF Push
<1>4. calls' \in [Threads -> Seq(Ops)]
  BY <1>2, <1>3 DEF TypeOK
<1>5. ASSUME NEW u \in Threads, NEW i \in DOMAIN calls'[u]
      PROVE  \/ \E j \in DOMAIN calls[u] : calls'[u][i] = calls[u][j]
             \/ <<u, calls'[u][i]>> \in {<<t, o>>}
  <2>1. CASE u = t
    <3>1. calls'[u] = <<o>> \o calls[u]
      BY <2>1, <1>3 DEF TypeOK
    <3>2. CASE i = 1
      BY <3>1, <3>2, <1>1, <2>1
    <3>3. CASE i # 1
      <4>1. i - 1 \in DOMAIN calls[u] /\ calls'[u][i] = calls[u][i - 1]
        BY <3>1, <3>3, <1>1, <2>1
      <4> QED
        BY <4>1
    <3> QED
      BY <3>2, <3>3
  <2>2. CASE u # t
    BY <2>2, <1>3 DEF TypeOK
  <2> QED
    BY <2>1, <2>2
<1> QED
  BY <1>4, <1>5 DEF StacksGainOnly

\* A step that leaves the stacks alone adds nothing to them.
LEMMA SameStack ==
    ASSUME TypeOK, UNCHANGED calls
    PROVE  StacksGainOnly({})
BY DEF StacksGainOnly, TypeOK

(***************************************************************************)
(* An operation that is past the wait for the lock, and is on the stacks   *)
(* where it may be, moves to a phase other than "new" and "entering".      *)
(***************************************************************************)
LEMMA StackInvMove ==
    ASSUME TypeOK, StackInv, NEW o \in Ops,
           NEW q \in Phases \ {"new", "entering"},
           phase' = [phase EXCEPT ![o] = q],
           UNCHANGED <<lazy, starter>>,
           NEW Pushed, StacksGainOnly(Pushed),
           \A u \in Threads, x \in Ops :
               <<u, x>> \in Pushed => x = o /\ (~CrossThread \/ ~lazy[o] => starter[o] = u)
    PROVE  StackInv'
<1> SUFFICES ASSUME NEW u \in Threads, NEW i \in DOMAIN calls'[u]
             PROVE  /\ phase'[calls'[u][i]] # "new"
                    /\ ~CrossThread \/ phase'[calls'[u][i]] = "entering" \/ ~lazy'[calls'[u][i]]
                          => starter'[calls'[u][i]] = u
  BY DEF StackInv
<1>1. CASE \E j \in DOMAIN calls[u] : calls'[u][i] = calls[u][j]
  <2>1. PICK j \in DOMAIN calls[u] : calls'[u][i] = calls[u][j]
    BY <1>1
  <2>2. calls[u] \in Seq(Ops)
    BY DEF TypeOK
  <2>3. calls[u][j] \in Ops
    BY <2>2
  <2>4. /\ phase[calls[u][j]] # "new"
        /\ ~CrossThread \/ phase[calls[u][j]] = "entering" \/ ~lazy[calls[u][j]]
              => starter[calls[u][j]] = u
    BY DEF StackInv
  <2> QED
    BY <2>1, <2>3, <2>4 DEF TypeOK
<1>2. CASE <<u, calls'[u][i]>> \in Pushed
  <2>1. calls'[u] \in Seq(Ops)
    BY DEF StacksGainOnly
  <2>2. calls'[u][i] \in Ops
    BY <2>1
  <2>3. calls'[u][i] = o /\ (~CrossThread \/ ~lazy[o] => starter[o] = u)
    BY <1>2, <2>2
  <2> QED
    BY <2>3 DEF TypeOK
<1> QED
  BY <1>1, <1>2 DEF StacksGainOnly

(***************************************************************************)
(* The end of an operation keeps the lock invariant, whichever thread      *)
(* brings it about: if it is not the owner's, the lock is not touched.     *)
(***************************************************************************)
LEMMA OverKeepsLockInv ==
    ASSUME LockInv, NEW t \in Threads, NEW o \in Ops, active[o], phase[o] # "new",
           Over(t, o), tok' \in [Kinds -> Ops \cup {NoOp}]
    PROVE  LockInv'
<1> USE DEF LockInv
<1>a. /\ active' = [active EXCEPT ![o] = FALSE]
      /\ phase' = [phase EXCEPT ![o] = "dead"]
      /\ UNCHANGED <<kind, lazy, starter, sessionOpen>>
  BY DEF Over, HandleFinalRetval, Gone
<1>b. StacksGainOnly({})
  BY PopStack, SameStack DEF Over, Gone, Inner
<1>c. /\ lockOwner = t => /\ lockCount' = lockCount - 1
                          /\ lockOwner' = IF lockCount = 1 THEN NoThread ELSE t
      /\ lockOwner # t => UNCHANGED <<lockOwner, lockCount>>
  BY DEF Over, HandleFinalRetval, Release, lockVars
<1>1. /\ Cardinality(LiveOps) \in Nat \ {0}
      /\ Cardinality(LiveOps') = Cardinality(LiveOps) - 1
      /\ Cardinality(LiveOps') \in Nat
      /\ Cardinality(LiveOps') = 0 => LiveOps' = {}
  BY <1>a, LiveOpsShrink
<1>2. lockCount \in Nat \ {0}
  BY <1>1 DEF LockCoversOps, TypeOK
<1>3. TypeOK'
  <2>1. calls' \in [Threads -> Seq(Ops)]
    BY <1>b DEF StacksGainOnly
  <2>2. lockCount' \in Nat /\ lockOwner' \in Threads \cup {NoThread}
    BY <1>2, <1>c DEF TypeOK
  <2> QED
    BY <1>a, <2>1, <2>2 DEF TypeOK, Phases
<1>4. PhaseInv'
  BY <1>a DEF PhaseInv, TypeOK
<1>5. StackInv'
  BY <1>a, <1>b, StackInvMove DEF Phases
<1>6. LockCoversOps'
  BY <1>1, <1>2, <1>c, NoneAssumption DEF LockCoversOps, TypeOK
<1>7. OwnerStartedAll'
  <2>1. CASE lockOwner' = NoThread
    <3>1. LiveOps' = {}
      BY <2>1, <1>1, <1>6, <1>3 DEF LockCoversOps, TypeOK
    <3> QED
      BY <3>1 DEF LiveOps, OwnerStartedAll
  <2>2. CASE lockOwner' # NoThread
    <3>1. lockOwner' = lockOwner
      BY <2>2, <1>c
    <3> QED
      BY <3>1, <1>a DEF OwnerStartedAll, TypeOK
  <2> QED
    BY <2>1, <2>2
<1> QED
  BY <1>3, <1>4, <1>5, <1>6, <1>7

(***************************************************************************)
(* So does a step that only moves the body of a live operation.       *)
(***************************************************************************)
LEMMA MoveKeepsLockInv ==
    ASSUME LockInv, NEW o \in Ops, active[o], phase[o] # "new",
           NEW q \in Phases \ {"new", "entering"},
           phase' = [phase EXCEPT ![o] = q],
           UNCHANGED <<lockOwner, lockCount, active, kind, lazy, starter, sessionOpen>>,
           tok' \in [Kinds -> Ops \cup {NoOp}],
           NEW Pushed, StacksGainOnly(Pushed),
           \A u \in Threads, x \in Ops :
               <<u, x>> \in Pushed => x = o /\ (~CrossThread \/ ~lazy[o] => starter[o] = u)
    PROVE  LockInv'
<1> USE DEF LockInv
<1>1. TypeOK'
  BY DEF TypeOK, StacksGainOnly
<1>2. PhaseInv'
  BY DEF PhaseInv, TypeOK, Phases
<1>3. StackInv'
  BY StackInvMove
<1>4. OwnerStartedAll' /\ LockCoversOps'
  BY DEF OwnerStartedAll, LockCoversOps, LiveOps
<1> QED
  BY <1>1, <1>2, <1>3, <1>4

(***************************************************************************)
(* A thread that enters an operation is the one that started it.           *)
(***************************************************************************)
LEMMA InnerIsOnStack ==
    ASSUME TypeOK, NEW t \in Threads, NEW o \in Ops, Inner(t, o)
    PROVE  calls[t] # <<>> /\ 1 \in DOMAIN calls[t] /\ calls[t][1] = o
<1>1. calls[t] \in Seq(Ops) /\ calls[t] # <<>> /\ Head(calls[t]) = o
  BY DEF TypeOK, Inner
<1> QED
  BY <1>1

\* __enter__: the new owner of the lock is the only one with live operations.
LEMMA EnterKeepsLockInv ==
    ASSUME LockInv, NEW t \in Threads, NEW o \in Ops, Enter(t, o)
    PROVE  LockInv'
<1> USE DEF LockInv
<1>1. /\ phase[o] = "entering"
      /\ active' = [active EXCEPT ![o] = TRUE]
      /\ phase' = [phase EXCEPT ![o] = "initiating"]
      /\ lockOwner \in {NoThread, t}
      /\ lockOwner' = t
      /\ lockCount' = lockCount + 1
      /\ UNCHANGED <<kind, lazy, starter, calls, tok, sessionOpen>>
  BY DEF Enter, Acquire
<1>2. starter[o] = t
  BY <1>1, InnerIsOnStack DEF Enter, StackInv
<1>3. ~active[o]
  BY <1>1 DEF PhaseInv
<1>4. TypeOK'
  BY <1>1 DEF TypeOK, Phases
<1>5. PhaseInv'
  BY <1>1 DEF PhaseInv, TypeOK
<1>6. StackInv'
  BY <1>1, SameStack, StackInvMove DEF Phases
<1>7. OwnerStartedAll'
  <2>1. \A x \in Ops : active[x] => starter[x] = t
    <3>1. \A x \in Ops : active[x] => phase[x] # "new"
      BY DEF PhaseInv
    <3>2. \A x \in Ops : active[x] => starter[x] \in Threads
      BY <3>1 DEF PhaseInv
    <3> QED
      BY <3>2, <1>1, NoneAssumption DEF OwnerStartedAll
  <2> QED
    BY <2>1, <1>1, <1>2 DEF OwnerStartedAll, TypeOK
<1>8. LockCoversOps'
  <2>1. Cardinality(LiveOps') = Cardinality(LiveOps) + 1
    BY <1>1, <1>3, LiveOpsGrow
  <2> QED
    BY <2>1, <1>1, LiveOpsFinite, NoneAssumption DEF LockCoversOps, TypeOK
<1> QED
  BY <1>4, <1>5, <1>6, <1>7, <1>8

\* A call waits for the lock: it is not live yet.
LEMMA CallKeepsLockInv ==
    ASSUME LockInv, NEW t \in Threads, NEW o \in Ops, NEW k \in Kinds,
           NEW z \in BOOLEAN, Call(t, o, k, z)
    PROVE  LockInv'
<1> USE DEF LockInv
<1>1. /\ phase[o] = "new"
      /\ phase' = [phase EXCEPT ![o] = "entering"]
      /\ kind' = [kind EXCEPT ![o] = k]
      /\ lazy' = [lazy EXCEPT ![o] = z]
      /\ starter' = [starter EXCEPT ![o] = t]
      /\ UNCHANGED <<lockOwner, lockCount, active, tok, sessionOpen>>
  BY DEF Call, lockVars
<1>2. StacksGainOnly({<<t, o>>})
  BY PushStack DEF Call
<1>3. TypeOK'
  BY <1>1, <1>2 DEF TypeOK, Phases, StacksGainOnly
<1>4. PhaseInv'
  BY <1>1 DEF PhaseInv, TypeOK
<1>5. StackInv'
  <2> SUFFICES ASSUME NEW u \in Threads, NEW i \in DOMAIN calls'[u]
               PROVE  /\ phase'[calls'[u][i]] # "new"
                      /\ ~CrossThread \/ phase'[calls'[u][i]] = "entering" \/ ~lazy'[calls'[u][i]]
                            => starter'[calls'[u][i]] = u
    BY DEF StackInv
  <2>1. CASE \E j \in DOMAIN calls[u] : calls'[u][i] = calls[u][j]
    <3>1. PICK j \in DOMAIN calls[u] : calls'[u][i] = calls[u][j]
      BY <2>1
    <3>2. calls[u] \in Seq(Ops)
      BY DEF TypeOK
    <3>3. calls[u][j] \in Ops \ {o}
      BY <3>2, <1>1 DEF StackInv
    <3> QED
      BY <3>1, <3>3, <1>1 DEF TypeOK, StackInv
  <2>2. CASE u = t /\ calls'[u][i] = o
    BY <2>2, <1>1 DEF TypeOK
  <2> QED
    BY <2>1, <2>2, <1>2 DEF StacksGainOnly
<1>6. OwnerStartedAll'
  BY <1>1 DEF OwnerStartedAll, PhaseInv, TypeOK
<1>7. LockCoversOps'
  BY <1>1 DEF LockCoversOps, LiveOps
<1> QED
  BY <1>3, <1>4, <1>5, <1>6, <1>7

-----------------------------------------------------------------------------
(***************************************************************************)
(* The lock invariant is inductive.                                        *)
(***************************************************************************)
LEMMA LockInvInit == Init => LockInv
<1> SUFFICES ASSUME Init PROVE LockInv
  OBVIOUS
<1>1. TypeOK
  BY DEF Init, TypeOK, Phases
<1>2. PhaseInv /\ StackInv /\ OwnerStartedAll
  BY DEF Init, PhaseInv, StackInv, OwnerStartedAll
<1>3. LockCoversOps
  <2>1. LiveOps = {}
    BY DEF Init, LiveOps
  <2> QED
    BY <2>1, FS_EmptySet DEF Init, LockCoversOps
<1> QED
  BY <1>1, <1>2, <1>3 DEF LockInv

\* C_XFinal, or a cancelled operation: the entry of its kind is cleared.
LEMMA EndTokenOpType ==
    ASSUME TypeOK, NEW o \in Ops, EndTokenOp(o)
    PROVE  tok' \in [Kinds -> Ops \cup {NoOp}]
BY DEF EndTokenOp, TypeOK

\* The body of the `with' statement runs with the flag set.
LEMMA RunsIsLive ==
    ASSUME LockInv, NEW t \in Threads, NEW o \in Ops, Runs(t, o)
    PROVE  active[o] /\ phase[o] = "open"
BY DEF LockInv, Runs, PhaseInv

\* _finalize finds the flag set.
LEMMA FinalizingIsLive ==
    ASSUME LockInv, NEW t \in Threads, NEW o \in Ops, Finalizing(t, o)
    PROVE  active[o] /\ phase[o] # "new" /\ calls[t] # <<>>
BY DEF LockInv, Finalizing, PhaseInv, Inner

\* Every C call of the library keeps the lock invariant.
LEMMA StepKeepsLockInv ==
    ASSUME LockInv, NEW t \in Threads, NEW o \in Ops, Step(t, o)
    PROVE  LockInv'
<1>t. TypeOK
  BY DEF LockInv
<1>1. CASE Enter(t, o)
  BY <1>1, EnterKeepsLockInv
<1>2. CASE Initiate(t, o)
  <2>1. active[o] /\ phase[o] # "new"
    BY <1>2 DEF Initiate, LockInv, PhaseInv
  <2>2. StacksGainOnly({})
    BY <1>2, <1>t, PopStack, SameStack DEF Initiate, Inner
  <2>3. tok' \in [Kinds -> Ops \cup {NoOp}]
    BY <1>2, <1>t DEF Initiate, TypeOK
  <2> QED
    BY <2>1, <2>2, <2>3, <1>2, MoveKeepsLockInv DEF Initiate, Phases, lockVars
<1>3. CASE InitiateFails(t, o)
  <2>1. active[o] /\ phase[o] # "new"
    BY <1>3 DEF InitiateFails, InitiateRefused, LockInv, PhaseInv
  <2> QED
    BY <2>1, <1>3, <1>t, OverKeepsLockInv DEF InitiateFails, TypeOK
<1>4. CASE SearchInitiateFails(t, o)
  <2>1. active[o] /\ phase[o] # "new"
    BY <1>4 DEF SearchInitiateFails, InitiateRefused, LockInv, PhaseInv
  <2>2. StacksGainOnly({})
    BY <1>4, <1>t, SameStack DEF SearchInitiateFails
  <2> QED
    BY <2>1, <2>2, <1>4, <1>t, MoveKeepsLockInv
       DEF SearchInitiateFails, Phases, lockVars, TypeOK
<1>5. CASE Finalize(t, o) \/ CancelAccepted(t, o)
  BY <1>5, <1>t, FinalizingIsLive, EndTokenOpType, OverKeepsLockInv
     DEF Finalize, CancelAccepted
<1>6. CASE FinalizeTooSmall(t, o) \/ CancelIgnored(t, o)
  BY <1>6, <1>t, FinalizingIsLive, OverKeepsLockInv
     DEF FinalizeTooSmall, CancelIgnored, TypeOK
<1>7. CASE CancelFails(t, o)
  <2>1. active[o] /\ phase[o] # "new" /\ calls[t] # <<>>
    BY <1>7, FinalizingIsLive DEF CancelFails
  <2>2. StacksGainOnly({})
    BY <1>7, <1>t, PopStack, SameStack DEF CancelFails, Gone, Inner
  <2>3. \E q \in Phases \ {"new", "entering"} : phase' = [phase EXCEPT ![o] = q]
    BY <1>7 DEF CancelFails, Gone, Phases
  <2> QED
    BY <2>1, <2>2, <2>3, <1>7, <1>t, MoveKeepsLockInv
       DEF CancelFails, lockVars, TypeOK
<1> QED
  BY <1>1, <1>2, <1>3, <1>4, <1>5, <1>6, <1>7 DEF Step

\* So does every way to end the body of an operation.
LEMMA ConsumeKeepsLockInv ==
    ASSUME LockInv, NEW t \in Threads, NEW o \in Ops, Consume(t, o)
    PROVE  LockInv'
<1>t. TypeOK
  BY DEF LockInv
<1>1. CASE UpdateFails(t, o) \/ Finish(t, o)
  BY <1>1, <1>t, RunsIsLive, EndTokenOpType, OverKeepsLockInv
     DEF UpdateFails, Finish
<1>2. CASE FinishTooSmall(t, o)
  BY <1>2, <1>t, RunsIsLive, OverKeepsLockInv DEF FinishTooSmall, TypeOK
<1>3. CASE Leave(t, o)
  <2>1. active[o] /\ phase[o] # "new"
    BY <1>3, RunsIsLive DEF Leave
  <2>2. phase' = [phase EXCEPT ![o] = "exiting"]
    BY <1>3 DEF Leave
  <2>3. CASE lazy[o]
    <3>1. StacksGainOnly({<<t, o>>})
      BY <2>3, <1>3, <1>t, PushStack DEF Leave
    <3>2. ~CrossThread \/ ~lazy[o] => starter[o] = t
      BY <2>3, <1>3 DEF Leave, Runs
    <3>3. \A u \in Threads, x \in Ops :
             <<u, x>> \in {<<t, o>>} => x = o /\ (~CrossThread \/ ~lazy[o] => starter[o] = u)
      BY <3>2
    <3>4. UNCHANGED <<lockOwner, lockCount, active, kind, lazy, starter, sessionOpen>>
      BY <1>3 DEF Leave, lockVars
    <3>5. tok' \in [Kinds -> Ops \cup {NoOp}]
      BY <1>3, <1>t DEF Leave, TypeOK
    <3>6. "exiting" \in Phases \ {"new", "entering"}
      BY DEF Phases
    <3> QED
      BY <2>1, <2>2, <3>1, <3>3, <3>4, <3>5, <3>6, MoveKeepsLockInv
  <2>4. CASE ~lazy[o]
    <3>1. StacksGainOnly({})
      BY <2>4, <1>3, <1>t, SameStack DEF Leave
    <3> QED
      BY <2>1, <2>2, <3>1, <1>3, <1>t, MoveKeepsLockInv
         DEF Leave, lockVars, Phases, TypeOK
  <2> QED
    BY <2>3, <2>4
<1> QED
  BY <1>1, <1>2, <1>3 DEF Consume

\* Session.close() touches neither the lock nor an operation.
LEMMA CloseKeepsLockInv ==
    ASSUME LockInv, NEW t \in Threads, CloseSession(t)
    PROVE  LockInv'
<1> USE DEF CloseSession, lockVars, opVars, LockInv
<1>1. TypeOK'
  BY DEF TypeOK
<1>2. PhaseInv' /\ StackInv' /\ OwnerStartedAll'
  BY DEF PhaseInv, StackInv, OwnerStartedAll
<1>3. LockCoversOps'
  BY DEF LockCoversOps, LiveOps
<1> QED
  BY <1>1, <1>2, <1>3

\* Stuttering.
LEMMA SameKeepsLockInv ==
    ASSUME LockInv, UNCHANGED vars
    PROVE  LockInv'
BY DEF LockInv, vars, TypeOK, PhaseInv, StackInv, OwnerStartedAll,
       LockCoversOps, LiveOps

\* Every step.
LEMMA LockInvNext == LockInv /\ [Next]_vars => LockInv'
<1> SUFFICES ASSUME LockInv, [Next]_vars PROVE LockInv'
  OBVIOUS
<1>1. ASSUME NEW t \in Threads, NEW o \in Ops, NEW k \in Kinds,
             NEW z \in BOOLEAN, Call(t, o, k, z)
      PROVE  LockInv'
  BY <1>1, CallKeepsLockInv
<1>2. ASSUME NEW t \in Threads, NEW o \in Ops, Step(t, o)
      PROVE  LockInv'
  BY <1>2, StepKeepsLockInv
<1>3. ASSUME NEW t \in Threads, NEW o \in Ops, Consume(t, o)
      PROVE  LockInv'
  BY <1>3, ConsumeKeepsLockInv
<1>4. ASSUME NEW t \in Threads, CloseSession(t)
      PROVE  LockInv'
  BY <1>4, CloseKeepsLockInv
<1>5. CASE Terminated \/ UNCHANGED vars
  BY <1>5, SameKeepsLockInv DEF Terminated
<1> QED
  BY <1>1, <1>2, <1>3, <1>4, <1>5 DEF Next

\* The lock invariant holds in every state.
THEOREM LockInvariant == Spec => []LockInv
BY LockInvInit, LockInvNext, PTL DEF Spec

(***************************************************************************)
(* Every variable keeps its type: in particular the lock is never released *)
(* more often than it was taken.                                           *)
(***************************************************************************)
THEOREM TypeCorrect == Spec => []TypeOK
<1>1. LockInv => TypeOK
  BY DEF LockInv
<1> QED
  BY <1>1, LockInvariant, PTL

(***************************************************************************)
(* The operations in progress were all started by the thread that owns the *)
(* lock, for any number of threads, whatever the token answers, whichever  *)
(* cancel strategy is used; and a thread that does not own it is inside no *)
(* operation in progress but a generator that was passed to it.            *)
(***************************************************************************)
THEOREM OneThreadAtATime == Spec => [](MutualExclusion /\ LockCoversOps)
<1>1. LockInv => MutualExclusion /\ LockCoversOps
  <2> SUFFICES ASSUME LockInv PROVE MutualExclusion
    BY DEF LockInv
  <2>1. ASSUME NEW t \in Threads, NEW i \in DOMAIN calls[t], active[calls[t][i]]
        PROVE  lockOwner = t \/ lazy[calls[t][i]]
    <3>1. calls[t] \in Seq(Ops)
      BY DEF LockInv, TypeOK
    <3>2. calls[t][i] \in Ops
      BY <3>1
    <3> QED
      BY <2>1, <3>2 DEF LockInv, StackInv, OwnerStartedAll
  <2> QED
    BY <2>1 DEF LockInv, MutualExclusion
<1> QED
  BY <1>1, LockInvariant, PTL

(***************************************************************************)
(* The lock is held at least once for each operation in progress, so that  *)
(* the end of a nested one never lets another thread in under the outer.   *)
(***************************************************************************)
THEOREM LockCoversOperations == Spec => []LockCoversOps
<1>1. LockInv => LockCoversOps
  BY DEF LockInv
<1> QED
  BY <1>1, LockInvariant, PTL

-----------------------------------------------------------------------------
(***************************************************************************)
(* The token runs the operation an object stands for.                      *)
(***************************************************************************)

\* The `with' statement was entered and not left.
InBody(o) == phase[o] \in {"open", "exiting", "discarded"}

\* An operation ends at the token together with its object.
LEMMA EndKeepsOwners ==
    ASSUME LockInv, OpenOperationOwnsToken, NEW o \in Ops, InBody(o),
           EndTokenOp(o), phase' = [phase EXCEPT ![o] = "dead"],
           UNCHANGED <<kind, sessionOpen>>
    PROVE  OpenOperationOwnsToken'
<1> SUFFICES ASSUME NEW x \in Ops, sessionOpen, kind[x] # "search",
                    phase'[x] \in {"open", "exiting", "discarded"}
             PROVE  tok'[kind[x]] = x
  BY DEF OpenOperationOwnsToken
<1>1. x # o /\ phase[x] \in {"open", "exiting", "discarded"}
  BY DEF LockInv, TypeOK
<1>2. tok[kind[x]] = x
  BY <1>1 DEF OpenOperationOwnsToken
<1>3. kind[x] # kind[o]
  BY <1>1, <1>2 DEF OpenOperationOwnsToken, InBody
<1>4. kind[x] \in Kinds
  BY <1>1 DEF LockInv, PhaseInv
<1> QED
  BY <1>2, <1>3, <1>4 DEF EndTokenOp, LockInv, TypeOK

\* The token goes on as it was, and no operation comes into its body.
LEMMA MoveKeepsOwners ==
    ASSUME LockInv, OpenOperationOwnsToken, NEW o \in Ops,
           NEW q, phase' = [phase EXCEPT ![o] = q],
           q \in {"open", "exiting", "discarded"} => InBody(o) \/ kind[o] = "search",
           UNCHANGED <<kind, sessionOpen, tok>>
    PROVE  OpenOperationOwnsToken'
BY DEF OpenOperationOwnsToken, InBody, LockInv, TypeOK

\* No C call of the library takes the token from an operation in progress.
LEMMA StepKeepsOwners ==
    ASSUME LockInv, OpenOperationOwnsToken, NEW t \in Threads, NEW o \in Ops, Step(t, o)
    PROVE  OpenOperationOwnsToken'
<1>1. CASE Enter(t, o)
  BY <1>1, MoveKeepsOwners DEF Enter
<1>2. CASE Initiate(t, o)
  <2>1. /\ phase[o] = "initiating"
        /\ \A j \in Kinds : tok[j] = NoOp \/ j # kind[o]
        /\ tok' = [tok EXCEPT ![kind[o]] = o]
        /\ phase' = [phase EXCEPT ![o] = "open"]
        /\ UNCHANGED <<kind, sessionOpen>>
    BY <1>2 DEF Initiate, Accepts
  <2>2. kind[o] \in Kinds
    BY <2>1 DEF LockInv, PhaseInv
  <2> SUFFICES ASSUME NEW x \in Ops, sessionOpen, kind[x] # "search",
                      phase'[x] \in {"open", "exiting", "discarded"}
               PROVE  tok'[kind[x]] = x
    BY <2>1 DEF OpenOperationOwnsToken
  <2>3. CASE x = o
    BY <2>1, <2>2, <2>3 DEF LockInv, TypeOK
  <2>4. CASE x # o
    <3>1. phase[x] \in {"open", "exiting", "discarded"}
      BY <2>1, <2>4 DEF LockInv, TypeOK
    <3>2. tok[kind[x]] = x /\ kind[x] \in Kinds
      BY <3>1 DEF OpenOperationOwnsToken, LockInv, PhaseInv
    <3>3. kind[x] # kind[o]
      BY <3>2, <2>1, NoneAssumption
    <3> QED
      BY <3>2, <3>3, <2>1 DEF LockInv, TypeOK
  <2> QED
    BY <2>3, <2>4
<1>3. CASE InitiateFails(t, o)
  BY <1>3, MoveKeepsOwners DEF InitiateFails, Over, Gone
<1>4. CASE SearchInitiateFails(t, o)
  BY <1>4, MoveKeepsOwners DEF SearchInitiateFails
<1>5. CASE Finalize(t, o) \/ CancelAccepted(t, o)
  BY <1>5, EndKeepsOwners DEF Finalize, CancelAccepted, Finalizing, InBody, Over, Gone
<1>6. CASE FinalizeTooSmall(t, o) \/ CancelIgnored(t, o)
  BY <1>6, MoveKeepsOwners DEF FinalizeTooSmall, CancelIgnored, Over, Gone
<1>7. CASE CancelFails(t, o)
  BY <1>7, MoveKeepsOwners DEF CancelFails, Finalizing, InBody, Gone
<1> QED
  BY <1>1, <1>2, <1>3, <1>4, <1>5, <1>6, <1>7 DEF Step

\* No end of an operation does.
LEMMA ConsumeKeepsOwners ==
    ASSUME LockInv, OpenOperationOwnsToken, NEW t \in Threads, NEW o \in Ops, Consume(t, o)
    PROVE  OpenOperationOwnsToken'
<1>1. CASE UpdateFails(t, o) \/ Finish(t, o)
  BY <1>1, EndKeepsOwners DEF UpdateFails, Finish, Runs, InBody, Over, Gone
<1>2. CASE FinishTooSmall(t, o)
  BY <1>2, MoveKeepsOwners DEF FinishTooSmall, Over, Gone
<1>3. CASE Leave(t, o)
  BY <1>3, MoveKeepsOwners DEF Leave, Runs, InBody
<1> QED
  BY <1>1, <1>2, <1>3 DEF Consume

\* No step does.
LEMMA OwnersNext ==
    LockInv /\ OpenOperationOwnsToken /\ [Next]_vars => OpenOperationOwnsToken'
<1> SUFFICES ASSUME LockInv, OpenOperationOwnsToken, [Next]_vars
             PROVE  OpenOperationOwnsToken'
  OBVIOUS
<1>1. ASSUME NEW t \in Threads, NEW o \in Ops, NEW k \in Kinds,
             NEW z \in BOOLEAN, Call(t, o, k, z)
      PROVE  OpenOperationOwnsToken'
  <2>1. /\ phase' = [phase EXCEPT ![o] = "entering"]
        /\ kind' = [kind EXCEPT ![o] = k]
        /\ UNCHANGED <<tok, sessionOpen>>
    BY <1>1 DEF Call
  <2> SUFFICES ASSUME NEW x \in Ops, sessionOpen, kind'[x] # "search",
                      phase'[x] \in {"open", "exiting", "discarded"}
               PROVE  tok'[kind'[x]] = x
    BY <2>1, Zenon DEF OpenOperationOwnsToken
  <2>2. x # o /\ phase[x] = phase'[x] /\ kind'[x] = kind[x]
    BY <2>1 DEF LockInv, TypeOK
  <2> QED
    BY <2>1, <2>2 DEF OpenOperationOwnsToken
<1>2. ASSUME NEW t \in Threads, NEW o \in Ops, Step(t, o) \/ Consume(t, o)
      PROVE  OpenOperationOwnsToken'
  BY <1>2, StepKeepsOwners, ConsumeKeepsOwners
<1>3. ASSUME NEW t \in Threads, CloseSession(t)
      PROVE  OpenOperationOwnsToken'
  <2>1. ~sessionOpen'
    BY <1>3 DEF CloseSession
  <2> QED
    BY <2>1, Zenon DEF OpenOperationOwnsToken
<1>4. CASE Terminated \/ UNCHANGED vars
  BY <1>4 DEF Terminated, vars, OpenOperationOwnsToken
<1> QED
  BY <1>1, <1>2, <1>3, <1>4 DEF Next

(***************************************************************************)
(* No update, final or cancel call made for a cryptographic operation ever *)
(* reaches another one: as long as the session is open, the token's        *)
(* operation of that kind is the object's own.                             *)
(***************************************************************************)
THEOREM CallsReachTheirOwnOperation == Spec => []OpenOperationOwnsToken
<1>1. Init => OpenOperationOwnsToken
  BY DEF Init, OpenOperationOwnsToken
<1> QED
  BY <1>1, OwnersNext, LockInvariant, PTL DEF Spec

-----------------------------------------------------------------------------
(***************************************************************************)
(* A session handed over is clean, if its token ends what it is told to.   *)
(***************************************************************************)
LEMMA EndKeepsTokenInv ==
    ASSUME LockInv, TokenInv, NEW t \in Threads, NEW o \in Ops, InBody(o),
           EndTokenOp(o), Over(t, o)
    PROVE  TokenInv'
<1>1. /\ phase' = [phase EXCEPT ![o] = "dead"]
      /\ active' = [active EXCEPT ![o] = FALSE]
      /\ tok' = [tok EXCEPT ![kind[o]] = NoOp]
      /\ UNCHANGED <<kind, sessionOpen>>
  BY DEF Over, HandleFinalRetval, Gone, EndTokenOp
<1>2. ASSUME NEW k \in Kinds, tok'[k] # NoOp
      PROVE  /\ active'[tok'[k]] /\ kind'[tok'[k]] = k
             /\ phase'[tok'[k]] \notin {"new", "entering", "initiating"}
  <2>1. k # kind[o] /\ tok'[k] = tok[k]
    BY <1>1, <1>2 DEF LockInv, TypeOK
  <2>2. tok[k] # o /\ tok[k] \in Ops
    BY <2>1, <1>2 DEF TokenInv, LockInv, TypeOK
  <2> QED
    BY <2>1, <2>2, <1>1, <1>2 DEF TokenInv, LockInv, TypeOK
<1>3. ~sessionOpen' => \A k \in Kinds : tok'[k] = NoOp
  BY <1>1 DEF TokenInv, LockInv, TypeOK
<1> QED
  BY <1>2, <1>3 DEF TokenInv

\* C_XInit succeeds only where the token ran nothing of that kind.
LEMMA StartKeepsTokenInv ==
    ASSUME LockInv, TokenInv, NEW t \in Threads, NEW o \in Ops, Initiate(t, o)
    PROVE  TokenInv'
<1>1. /\ phase[o] = "initiating" /\ active[o]
      /\ kind[o] \in Kinds /\ sessionOpen
      /\ tok' = [tok EXCEPT ![kind[o]] = o]
      /\ phase' = [phase EXCEPT ![o] = "open"]
      /\ UNCHANGED <<active, kind, sessionOpen>>
  BY DEF Initiate, Accepts, LockInv, PhaseInv
<1>2. ASSUME NEW k \in Kinds, tok'[k] # NoOp
      PROVE  /\ active'[tok'[k]] /\ kind'[tok'[k]] = k
             /\ phase'[tok'[k]] \notin {"new", "entering", "initiating"}
  <2>1. CASE k = kind[o]
    BY <2>1, <1>1 DEF LockInv, TypeOK
  <2>2. CASE k # kind[o]
    BY <2>2, <1>1, <1>2 DEF TokenInv, LockInv, TypeOK
  <2> QED
    BY <2>1, <2>2
<1> QED
  BY <1>1, <1>2 DEF TokenInv

\* An operation the token does not run ends, or moves on.
LEMMA OtherKeepsTokenInv ==
    ASSUME LockInv, TokenInv, NEW o \in Ops, \A k \in Kinds : tok[k] # o,
           \E q : phase' = [phase EXCEPT ![o] = q],
           \E b : active' = [active EXCEPT ![o] = b],
           \E k : kind' = [kind EXCEPT ![o] = k],
           UNCHANGED <<sessionOpen, tok>>
    PROVE  TokenInv'
BY DEF TokenInv, LockInv, TypeOK

\* The token does not run an operation before its C_XInit.
LEMMA NotRunning ==
    ASSUME TokenInv, NEW o \in Ops, phase[o] \in {"new", "entering", "initiating"}
    PROVE  \A k \in Kinds : tok[k] # o
BY NoneAssumption DEF TokenInv

\* Every C call of the library keeps the token invariant.
LEMMA StepKeepsTokenInv ==
    ASSUME FinalMeansFinal, LockInv, TokenInv, NEW t \in Threads, NEW o \in Ops,
           Step(t, o)
    PROVE  TokenInv'
<1>1. CASE Enter(t, o)
  <2>1. \A k \in Kinds : tok[k] # o
    BY <1>1, NotRunning DEF Enter
  <2>2. kind' = [kind EXCEPT ![o] = kind[o]]
    BY <1>1 DEF Enter, LockInv, TypeOK
  <2> QED
    BY <1>1, <2>1, <2>2, OtherKeepsTokenInv DEF Enter
<1>2. CASE Initiate(t, o)
  BY <1>2, StartKeepsTokenInv
<1>3. CASE InitiateFails(t, o)
  <2>1. \A k \in Kinds : tok[k] # o
    BY <1>3, NotRunning DEF InitiateFails, InitiateRefused
  <2>2. kind' = [kind EXCEPT ![o] = kind[o]]
    BY <1>3 DEF InitiateFails, Over, LockInv, TypeOK
  <2> QED
    BY <1>3, <2>1, <2>2, OtherKeepsTokenInv
       DEF InitiateFails, Over, Gone, HandleFinalRetval
<1>4. CASE SearchInitiateFails(t, o)
  BY <1>4 DEF SearchInitiateFails, TokenInv, LockInv, TypeOK
<1>5. CASE Finalize(t, o) \/ CancelAccepted(t, o)
  BY <1>5, EndKeepsTokenInv DEF Finalize, CancelAccepted, Finalizing, InBody
<1>6. CASE FinalizeTooSmall(t, o)
  BY <1>6 DEF FinalizeTooSmall, FinalMeansFinal
<1>7. CASE CancelIgnored(t, o)
  <2>1. \A k \in Kinds : tok[k] = NoOp /\ tok'[k] = NoOp
    BY <1>7 DEF CancelIgnored, FinalMeansFinal, TokenInv
  <2> QED
    BY <2>1 DEF TokenInv
<1>8. CASE CancelFails(t, o)
  BY <1>8 DEF CancelFails, Gone, TokenInv, LockInv, TypeOK
<1> QED
  BY <1>1, <1>2, <1>3, <1>4, <1>5, <1>6, <1>7, <1>8 DEF Step

\* So does every way to end the body of an operation.
LEMMA ConsumeKeepsTokenInv ==
    ASSUME FinalMeansFinal, LockInv, TokenInv, NEW t \in Threads, NEW o \in Ops,
           Consume(t, o)
    PROVE  TokenInv'
<1>1. CASE UpdateFails(t, o) \/ Finish(t, o)
  BY <1>1, EndKeepsTokenInv DEF UpdateFails, Finish, Runs, InBody
<1>2. CASE FinishTooSmall(t, o)
  BY <1>2 DEF FinishTooSmall, FinalMeansFinal
<1>3. CASE Leave(t, o)
  BY <1>3 DEF Leave, TokenInv, LockInv, TypeOK
<1> QED
  BY <1>1, <1>2, <1>3 DEF Consume

\* So does every step.
LEMMA TokenInvNext ==
    FinalMeansFinal /\ LockInv /\ TokenInv /\ [Next]_vars => TokenInv'
<1> SUFFICES ASSUME FinalMeansFinal, LockInv, TokenInv, [Next]_vars
             PROVE  TokenInv'
  OBVIOUS
<1>1. ASSUME NEW t \in Threads, NEW o \in Ops, NEW k \in Kinds,
             NEW z \in BOOLEAN, Call(t, o, k, z)
      PROVE  TokenInv'
  <2>1. \A j \in Kinds : tok[j] # o
    BY <1>1, NotRunning DEF Call
  <2>2. active' = [active EXCEPT ![o] = active[o]]
    BY <1>1 DEF Call, LockInv, TypeOK
  <2> QED
    BY <1>1, <2>1, <2>2, OtherKeepsTokenInv DEF Call
<1>2. ASSUME NEW t \in Threads, NEW o \in Ops, Step(t, o) \/ Consume(t, o)
      PROVE  TokenInv'
  BY <1>2, StepKeepsTokenInv, ConsumeKeepsTokenInv
<1>3. ASSUME NEW t \in Threads, CloseSession(t)
      PROVE  TokenInv'
  BY <1>3 DEF CloseSession, TokenInv
<1>4. CASE Terminated \/ UNCHANGED vars
  BY <1>4 DEF Terminated, vars, TokenInv
<1> QED
  BY <1>1, <1>2, <1>3, <1>4 DEF Next

\* The token invariant holds in every state.
LEMMA TokenInvariant == ASSUME FinalMeansFinal PROVE Spec => []TokenInv
<1>1. Init => TokenInv
  BY DEF Init, TokenInv
<1>2. LockInv /\ TokenInv /\ [Next]_vars => TokenInv'
  BY TokenInvNext
<1> QED
  BY <1>1, <1>2, LockInvariant, PTL DEF Spec

(***************************************************************************)
(* A thread that gets the session meets nothing of another thread's at the *)
(* token: what the token runs is live, and its thread holds the lock.      *)
(***************************************************************************)
THEOREM SessionHandedOverClean ==
    ASSUME FinalMeansFinal
    PROVE  Spec => []TokenServesOwner
<1>1. LockInv /\ TokenInv => TokenServesOwner
  BY DEF LockInv, TypeOK, TokenInv, OwnerStartedAll, TokenServesOwner
<1> QED
  BY <1>1, LockInvariant, TokenInvariant, PTL

-----------------------------------------------------------------------------
(***************************************************************************)
(* If generators stay in their thread, an operation is ended by the thread *)
(* that has the lock, and the lock counts the live operations.             *)
(***************************************************************************)
\* t runs code of o that may end it.
InCode(t, o) == Runs(t, o) \/ (Inner(t, o) /\ phase[o] \in {"initiating", "exiting", "discarded"})

\* The thread in the code of an operation has the lock for it.
LEMMA OwnerRunsIt ==
    ASSUME ~CrossThread, LockInv, NEW t \in Threads, NEW o \in Ops, InCode(t, o)
    PROVE  active[o] /\ lockOwner = t
<1>1. active[o]
  BY DEF InCode, Runs, LockInv, PhaseInv
<1>2. starter[o] = t
  <2>1. CASE Inner(t, o)
    BY <2>1, InnerIsOnStack DEF LockInv, StackInv
  <2>2. CASE ~Inner(t, o)
    BY <2>2 DEF InCode, Runs
  <2> QED
    BY <2>1, <2>2
<1> QED
  BY <1>1, <1>2 DEF LockInv, OwnerStartedAll

\* An operation that ends gives the lock back once, and frees it if it was the last.
LEMMA OverReleases ==
    ASSUME ~CrossThread, LockInv, LockBalanced, NEW t \in Threads, NEW o \in Ops,
           InCode(t, o), Over(t, o)
    PROVE  /\ LockBalanced'
           /\ o \in LiveOps
           /\ LiveOps' = LiveOps \ {o}
           /\ lockOwner' = IF LiveOps' = {} THEN NoThread ELSE lockOwner
<1>1. active[o] /\ lockOwner = t
  BY OwnerRunsIt
<1>2. /\ lockCount' = lockCount - 1
      /\ lockOwner' = IF lockCount = 1 THEN NoThread ELSE t
      /\ active' = [active EXCEPT ![o] = FALSE]
  BY <1>1 DEF Over, HandleFinalRetval, Release
<1>3. /\ LiveOps' = LiveOps \ {o}
      /\ Cardinality(LiveOps') = Cardinality(LiveOps) - 1
      /\ Cardinality(LiveOps) \in Nat \ {0}
      /\ Cardinality(LiveOps') = 0 => LiveOps' = {}
  BY <1>1, <1>2, LiveOpsShrink DEF LockInv
<1>4. LiveOps' = {} => Cardinality(LiveOps') = 0
  BY FS_EmptySet
<1>5. lockCount = 1 <=> LiveOps' = {}
  BY <1>3, <1>4 DEF LockBalanced
<1> QED
  BY <1>1, <1>2, <1>3, <1>5 DEF LockBalanced, LiveOps

\* Every step keeps the lock balanced.
LEMMA BalancedNext ==
    ASSUME ~CrossThread
    PROVE  LockInv /\ LockBalanced /\ [Next]_vars => LockBalanced'
<1> SUFFICES ASSUME LockInv, LockBalanced, [Next]_vars PROVE LockBalanced'
  OBVIOUS
<1>1. ASSUME NEW t \in Threads, NEW o \in Ops, Enter(t, o)
      PROVE  LockBalanced'
  <2>1. /\ ~active[o]
        /\ active' = [active EXCEPT ![o] = TRUE]
        /\ lockCount' = lockCount + 1
    BY <1>1 DEF Enter, Acquire, LockInv, PhaseInv
  <2> QED
    BY <2>1, LiveOpsGrow DEF LockInv, LockBalanced
<1>2. ASSUME NEW t \in Threads, NEW o \in Ops, InCode(t, o), Over(t, o)
      PROVE  LockBalanced'
  BY <1>2, OverReleases
<1>3. ASSUME UNCHANGED <<lockCount, active>>
      PROVE  LockBalanced'
  BY <1>3 DEF LockBalanced, LiveOps
<1>4. ASSUME NEW t \in Threads, NEW o \in Ops, Step(t, o) \/ Consume(t, o)
      PROVE  LockBalanced'
  <2>1. \/ Enter(t, o)
        \/ InCode(t, o) /\ Over(t, o)
        \/ UNCHANGED <<lockCount, active>>
    BY <1>4 DEF Step, Consume, Initiate, InitiateFails, SearchInitiateFails,
                InitiateRefused, UpdateFails, Finish, FinishTooSmall, Leave,
                Finalize, FinalizeTooSmall, CancelAccepted, CancelIgnored,
                CancelFails, Finalizing, InCode, lockVars
  <2> QED
    BY <2>1, <1>1, <1>2, <1>3
<1>5. ASSUME NEW t \in Threads, NEW o \in Ops, NEW k \in Kinds,
             NEW z \in BOOLEAN, Call(t, o, k, z)
      PROVE  LockBalanced'
  BY <1>5, <1>3 DEF Call, lockVars
<1>6. ASSUME NEW t \in Threads, CloseSession(t)
      PROVE  LockBalanced'
  BY <1>6, <1>3 DEF CloseSession, lockVars, opVars
<1>7. CASE Terminated \/ UNCHANGED vars
  BY <1>7, <1>3 DEF Terminated, vars
<1> QED
  BY <1>4, <1>5, <1>6, <1>7 DEF Next

\* It is balanced at first.
LEMMA BalancedInit == Init => LockBalanced
<1> SUFFICES ASSUME Init PROVE LockBalanced
  OBVIOUS
<1>1. LiveOps = {}
  BY DEF Init, LiveOps
<1> QED
  BY <1>1, FS_EmptySet DEF Init, LockBalanced

(***************************************************************************)
(* A program that keeps each generator in one thread leaves the lock       *)
(* balanced: held once for every operation in progress.                    *)
(***************************************************************************)
THEOREM LockStaysBalanced == ASSUME ~CrossThread PROVE Spec => []LockBalanced
BY BalancedInit, BalancedNext, LockInvariant, PTL DEF Spec

\* An object that is gone is not live.
DeadIsInactive == \A o \in Ops : phase[o] = "dead" => ~active[o]

\* An object that is gone has cleared its flag, if no cancellation failed.
LEMMA DeadNext ==
    ASSUME "cancel_failed" \notin Faults
    PROVE  LockInv /\ DeadIsInactive /\ [Next]_vars => DeadIsInactive'
<1> SUFFICES ASSUME LockInv, DeadIsInactive, [Next]_vars PROVE DeadIsInactive'
  OBVIOUS
<1>1. ASSUME NEW t \in Threads, NEW o \in Ops, Over(t, o)
      PROVE  DeadIsInactive'
  BY <1>1 DEF Over, HandleFinalRetval, Gone, DeadIsInactive, LockInv, TypeOK
<1>2. ASSUME NEW o \in Ops, NEW q, q # "dead", phase' = [phase EXCEPT ![o] = q],
             UNCHANGED active
      PROVE  DeadIsInactive'
  BY <1>2 DEF DeadIsInactive, LockInv, TypeOK
<1>3. ASSUME NEW t \in Threads, NEW o \in Ops, Enter(t, o)
      PROVE  DeadIsInactive'
  BY <1>3 DEF Enter, DeadIsInactive, LockInv, TypeOK
<1>4. ASSUME NEW t \in Threads, NEW o \in Ops, Step(t, o) \/ Consume(t, o)
      PROVE  DeadIsInactive'
  <2>1. CASE Initiate(t, o) \/ SearchInitiateFails(t, o) \/ Leave(t, o)
    BY <2>1, <1>2 DEF Initiate, SearchInitiateFails, Leave
  <2>2. CASE ~(Initiate(t, o) \/ SearchInitiateFails(t, o) \/ Leave(t, o) \/ Enter(t, o))
    BY <2>2, <1>4, <1>1
       DEF Step, Consume, InitiateFails, UpdateFails, Finish, FinishTooSmall,
           Finalize, FinalizeTooSmall, CancelAccepted, CancelIgnored, CancelFails
  <2> QED
    BY <2>1, <2>2, <1>3
<1>5. ASSUME NEW t \in Threads, NEW o \in Ops, NEW k \in Kinds,
             NEW z \in BOOLEAN, Call(t, o, k, z)
      PROVE  DeadIsInactive'
  BY <1>5, <1>2 DEF Call
<1>6. ASSUME NEW t \in Threads, CloseSession(t)
      PROVE  DeadIsInactive'
  BY <1>6 DEF CloseSession, opVars, DeadIsInactive
<1>7. CASE Terminated \/ UNCHANGED vars
  BY <1>7 DEF Terminated, vars, DeadIsInactive
<1> QED
  BY <1>4, <1>5, <1>6, <1>7 DEF Next

(***************************************************************************)
(* The same program gets the session back when no operation is in progress *)
(* or suspended, unless the token fails to cancel.                         *)
(***************************************************************************)
THEOREM LockReleasedWhenDone ==
    ASSUME ~CrossThread, "cancel_failed" \notin Faults
    PROVE  Spec => []ReleasedWhenDone
<1>1. Init => DeadIsInactive
  BY DEF Init, DeadIsInactive
<1>2. LockInv /\ DeadIsInactive /\ [Next]_vars => DeadIsInactive'
  BY DeadNext
<1>3. LockInv /\ LockBalanced /\ DeadIsInactive => ReleasedWhenDone
  <2> SUFFICES ASSUME LockInv, LockBalanced, DeadIsInactive,
                      \A o \in Ops : phase[o] \in {"new", "entering", "dead"}
               PROVE  lockOwner = NoThread
    BY DEF ReleasedWhenDone
  <2>1. LiveOps = {}
    BY DEF LiveOps, DeadIsInactive, LockInv, PhaseInv
  <2> QED
    BY <2>1, FS_EmptySet DEF LockBalanced, LockInv, LockCoversOps
<1> QED
  BY <1>1, <1>2, <1>3, LockInvariant, LockStaysBalanced, PTL DEF Spec

-----------------------------------------------------------------------------
\* The abstract step of each concrete one.
LEMMA EnterBegins ==
    ASSUME LockInv, NEW t \in Threads, NEW o \in Ops, Enter(t, o)
    PROVE  Promise!Begin(t, o)
<1>1. /\ ~active[o]
      /\ active' = [active EXCEPT ![o] = TRUE]
      /\ lockOwner \in {NoThread, t}
      /\ lockOwner' = t
      /\ tok' = tok
  BY DEF Enter, Acquire, LockInv, PhaseInv
<1>2. LiveOps' = LiveOps \cup {o}
  BY <1>1, LiveOpsGrow DEF LockInv
<1>3. o \notin LiveOps
  BY <1>1 DEF LiveOps
<1>4. RunningOps' = RunningOps
  BY <1>1 DEF RunningOps
<1> QED
  BY <1>1, <1>2, <1>3, <1>4 DEF Promise!Begin

\* C_XInit starts the operation at the token.
LEMMA InitiateStarts ==
    ASSUME LockInv, NEW t \in Threads, NEW o \in Ops, Initiate(t, o)
    PROVE  Promise!Start(o)
<1>1. /\ active[o] /\ kind[o] \in Kinds
      /\ tok[kind[o]] = NoOp
      /\ tok' = [tok EXCEPT ![kind[o]] = o]
      /\ UNCHANGED <<lockOwner, active>>
  BY DEF Initiate, Accepts, lockVars, LockInv, PhaseInv
<1>2. \A k \in Kinds : tok'[k] = IF k = kind[o] THEN o ELSE tok[k]
  BY <1>1 DEF LockInv, TypeOK
<1>3. RunningOps' = RunningOps \cup {o}
  <2>1. ASSUME NEW x \in RunningOps' PROVE x \in RunningOps \cup {o}
    BY <2>1, <1>2 DEF RunningOps
  <2>2. o \in RunningOps'
    BY <1>1, <1>2, NoneAssumption DEF RunningOps
  <2>3. ASSUME NEW x \in RunningOps PROVE x \in RunningOps'
    <3>1. PICK k \in Kinds : x = tok[k] /\ x # NoOp
      BY <2>3 DEF RunningOps
    <3>2. tok'[k] = x
      BY <3>1, <1>1, <1>2
    <3> QED
      BY <3>1, <3>2 DEF RunningOps
  <2> QED
    BY <2>1, <2>2, <2>3
<1>4. LiveOps' = LiveOps /\ o \in LiveOps
  BY <1>1 DEF LiveOps
<1> QED
  BY <1>1, <1>3, <1>4 DEF Promise!Start

\* Every end of an operation is an End of the promise.
LEMMA OverEnds ==
    ASSUME ~CrossThread, LockInv, LockBalanced, TokenInv,
           NEW t \in Threads, NEW o \in Ops, InCode(t, o), Over(t, o),
           \/ EndTokenOp(o)
           \/ UNCHANGED tok /\ \A k \in Kinds : tok[k] # o
    PROVE  Promise!End(o)
<1>1. \A k \in Kinds : tok'[k] = NoOp \/ (tok'[k] = tok[k] /\ tok[k] # o)
  <2>1. CASE EndTokenOp(o)
    <3>1. \A k \in Kinds : tok'[k] = IF k = kind[o] THEN NoOp ELSE tok[k]
      BY <2>1 DEF EndTokenOp, LockInv, TypeOK
    <3>2. \A k \in Kinds : tok[k] = o => k = kind[o]
      BY NoneAssumption DEF TokenInv
    <3> QED
      BY <3>1, <3>2
  <2> QED
    BY <2>1
<1>2. RunningOps' \in SUBSET (RunningOps \ {o})
  BY <1>1 DEF RunningOps
<1> QED
  BY <1>2, OverReleases DEF Promise!End

\* Every C call, and every end of a body, is a step of the promise or none.
LEMMA StepImplements ==
    ASSUME ~CrossThread, FinalMeansFinal, LockInv, LockBalanced, TokenInv,
           NEW t \in Threads, NEW o \in Ops, Step(t, o) \/ Consume(t, o)
    PROVE  [Promise!Next]_(Promise!vars)
<1>1. CASE Enter(t, o)
  BY <1>1, EnterBegins DEF Promise!Next
<1>2. CASE Initiate(t, o)
  BY <1>2, InitiateStarts DEF Promise!Next
<1>3. CASE InitiateFails(t, o)
  <2>1. InCode(t, o) /\ \A k \in Kinds : tok[k] # o
    BY <1>3, NotRunning DEF InitiateFails, InitiateRefused, InCode
  <2> QED
    BY <2>1, <1>3, OverEnds DEF InitiateFails, Promise!Next
<1>4. CASE SearchInitiateFails(t, o) \/ CancelFails(t, o) \/ Leave(t, o)
  <2>1. UNCHANGED <<lockOwner, lockCount, active, tok>>
    BY <1>4 DEF SearchInitiateFails, CancelFails, Leave, lockVars
  <2> QED
    BY <2>1 DEF LiveOps, RunningOps, Promise!vars
<1>5. CASE \/ Finalize(t, o) \/ CancelAccepted(t, o)
           \/ UpdateFails(t, o) \/ Finish(t, o)
  <2>1. InCode(t, o) /\ EndTokenOp(o) /\ Over(t, o)
    BY <1>5 DEF Finalize, CancelAccepted, UpdateFails, Finish, Finalizing, InCode
  <2> QED
    BY <2>1, OverEnds DEF Promise!Next
<1>6. CASE FinalizeTooSmall(t, o) \/ FinishTooSmall(t, o)
  BY <1>6 DEF FinalizeTooSmall, FinishTooSmall, FinalMeansFinal
<1>7. CASE CancelIgnored(t, o)
  <2>1. InCode(t, o) /\ UNCHANGED tok /\ Over(t, o)
    BY <1>7 DEF CancelIgnored, Finalizing, InCode
  <2>2. \A k \in Kinds : tok[k] # o
    BY <1>7, NoneAssumption DEF CancelIgnored, FinalMeansFinal, TokenInv
  <2> QED
    BY <2>1, <2>2, OverEnds DEF Promise!Next
<1> QED
  BY <1>1, <1>2, <1>3, <1>4, <1>5, <1>6, <1>7 DEF Step, Consume

\* So is every step.
LEMMA NextImplements ==
    ASSUME ~CrossThread, FinalMeansFinal
    PROVE  LockInv /\ LockBalanced /\ TokenInv /\ [Next]_vars
              => [Promise!Next]_(Promise!vars)
<1> SUFFICES ASSUME LockInv, LockBalanced, TokenInv, [Next]_vars
             PROVE  [Promise!Next]_(Promise!vars)
  OBVIOUS
<1>1. ASSUME NEW t \in Threads, NEW o \in Ops, NEW k \in Kinds,
             NEW z \in BOOLEAN, Call(t, o, k, z)
      PROVE  [Promise!Next]_(Promise!vars)
  <2>1. UNCHANGED <<lockOwner, lockCount, active, tok>>
    BY <1>1 DEF Call, lockVars
  <2> QED
    BY <2>1 DEF LiveOps, RunningOps, Promise!vars
<1>2. ASSUME NEW t \in Threads, NEW o \in Ops, Step(t, o) \/ Consume(t, o)
      PROVE  [Promise!Next]_(Promise!vars)
  BY <1>2, StepImplements
<1>3. ASSUME NEW t \in Threads, CloseSession(t)
      PROVE  [Promise!Next]_(Promise!vars)
  <2>1. /\ UNCHANGED <<lockOwner, lockCount, active>>
        /\ tok' = [k \in Kinds |-> NoOp]
    BY <1>3 DEF CloseSession, lockVars, opVars
  <2>2. RunningOps' = {}
    BY <2>1 DEF RunningOps
  <2> QED
    BY <2>1, <2>2 DEF LiveOps, Promise!Reset, Promise!Next
<1>4. CASE Terminated \/ UNCHANGED vars
  BY <1>4 DEF Terminated, vars, LiveOps, RunningOps, Promise!vars
<1> QED
  BY <1>1, <1>2, <1>3, <1>4 DEF Next

\* A new session is free.
LEMMA InitImplements == Init => Promise!Init
BY DEF Init, LiveOps, RunningOps, Promise!Init

(***************************************************************************)
(* A program that keeps each generator in one thread, with a token that    *)
(* ends what it is told to end, gets what the documentation promises of a  *)
(* Session's lock.                                                         *)
(***************************************************************************)
THEOREM ImplementsSessionLock ==
    ASSUME ~CrossThread, FinalMeansFinal
    PROVE  Spec => KeepsPromise
<1>1. LockInv /\ LockBalanced /\ TokenInv /\ [Next]_vars
          => [Promise!Next]_(Promise!vars)
  BY NextImplements
<1>2. Init => Promise!Init
  BY InitImplements
<1> QED
  BY <1>1, <1>2, LockInvariant, TokenInvariant, LockStaysBalanced, PTL
     DEF Spec, KeepsPromise, Promise!Spec
=============================================================================
