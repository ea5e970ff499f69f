----------------------------- MODULE BufferedOutput ----------------------------
(***************************************************************************)
(* The output buffers of the operations of one session.                    *)
(*                                                                         *)
(* A call with output (C_EncryptUpdate, C_SignFinal, C_Digest, ...) is two *)
(* calls of the token: the first one, without a buffer, asks how much room *)
(* the output may need, the second one writes it.  In between the buffer   *)
(* of the operation object is replaced if it is too small.  The bytes are  *)
(* then copied out of it: an update's before the operation goes on, a      *)
(* final call's after the session's lock was released.  When the body is   *)
(* left early the same two calls are made once more (the "hail mary"), and *)
(* their result ignored.                                                   *)
(*                                                                         *)
(* OperationContext has the life of an operation in full; here the token   *)
(* accepts C_XInit and cancellations, and generators stay in their thread. *)
(* An action is one C call, or one stretch of Python code between two of   *)
(* them in which another thread can run: making the bytes object may run   *)
(* the garbage collector, and that the finalizers of others.               *)
(***************************************************************************)
EXTENDS Naturals, Sequences, FiniteSets

CONSTANTS
    Threads,          \* threads of the calling program
    Ops,              \* operation objects
    NoThread,         \* None
    Unwritten,        \* what a new buffer holds: C bytes are not initialised
    Kinds,            \* the kinds of operation the program uses
    Sizes,            \* the buffer_size arguments of the program
    DefaultSize,      \* the buffer when there is no such argument: 8192, 1024
    MaxEstimate,      \* bound: the most room one call is said to need
    MaxChunks,        \* bound: chunks of data per operation
    Strategies,       \* the sessions the program opens: with CANCEL_WITH_INIT?
    Faults            \* what the token may answer besides CKR_OK

CryptKinds == {"encrypt", "decrypt"}
AllKinds   == CryptKinds \cup {"digest", "sign"}
AllFaults  == {"error", "short_update", "short_final"}

ASSUME ThreadsAssumption == NoThread \notin Threads
ASSUME GarbageAssumption == Unwritten \notin Ops \X Nat
ASSUME KindsAssumption   == Kinds \subseteq AllKinds
ASSUME SizesAssumption   == /\ Sizes \subseteq Nat
                            /\ DefaultSize \in Nat \ {0}
                            /\ MaxEstimate \in Nat
                            /\ MaxChunks \in Nat
ASSUME SwitchAssumption  == Strategies \subseteq BOOLEAN /\ Faults \subseteq AllFaults

VARIABLES
    cancelWithInit,  \* the session's cancel_strategy
    phase,      \* where each operation is, see Phases
    kind,       \* the class of the operation object
    by,         \* the thread that runs it
    whole,      \* the data are one bytes object: a single call C_X
    call,       \* the call with output it is in
    need,       \* what the token answered to the query: the local `length'
    buf,        \* output_buf; its length is buffer_size
    dataLen,    \* buffer_data_length
    chunks,     \* how many chunks were taken from the caller
    made,       \* how many bytes the token has written for it
    given,      \* the bytes its caller has received
    sound,      \* how many of them before the token first misled an update
    misled,     \* the operations whose update the token misled about the room
    holders,    \* the operations that hold Session.operation_lock
    running     \* the operations the token runs

bufVars    == <<need, buf, dataLen>>
streamVars == <<made, given, sound, misled>>
sessionVars == <<cancelWithInit, holders, running>>
vars == <<phase, kind, by, whole, call, chunks, bufVars, streamVars, sessionVars>>

(***************************************************************************)
(* "body"      in the `with' body, or suspended at a yield of it           *)
(* "asked"     between the query and the call that writes                  *)
(* "written"   the token has written; current_output() is next             *)
(* "exiting"   the body was left with the operation active: _finalize      *)
(* "hail"      the same two calls of the hail mary, between them           *)
(* "done"      the last output was handed over                             *)
(* "broken"    it ended in an error, or its caller gave it up              *)
(* "stranded"  _finalize raised, and again in __del__: the lock stays held  *)
(***************************************************************************)
Phases == {"new", "body", "asked", "written", "exiting", "hail",
           "done", "broken", "stranded"}
Calls  == {"none", "update", "final", "full"}

Bytes(o, n)  == [i \in 1 .. n |-> <<o, i>>]
NewBuffer(n) == [i \in 1 .. n |-> Unwritten]
Contents     == (Ops \X Nat) \cup {Unwritten}
Own(o, n)    == {<<o, i>> : i \in 1 .. n} \cup {Unwritten}

TypeOK ==
    /\ cancelWithInit \in BOOLEAN
    /\ phase \in [Ops -> Phases]
    /\ kind \in [Ops -> Kinds \cup {"none"}]
    /\ by \in [Ops -> Threads \cup {NoThread}]
    /\ whole \in [Ops -> BOOLEAN]
    /\ call \in [Ops -> Calls]
    /\ need \in [Ops -> Nat]
    /\ buf \in [Ops -> Seq(Contents)]
    /\ dataLen \in [Ops -> Nat]
    /\ chunks \in [Ops -> Nat]
    /\ made \in [Ops -> Nat]
    /\ given \in [Ops -> Seq(Contents)]
    /\ sound \in [Ops -> Nat]
    /\ misled \subseteq Ops
    /\ holders \subseteq Ops
    /\ running \subseteq Ops

Init ==
    /\ cancelWithInit \in Strategies
    /\ phase = [o \in Ops |-> "new"]
    /\ kind = [o \in Ops |-> "none"]
    /\ by = [o \in Ops |-> NoThread]
    /\ whole = [o \in Ops |-> FALSE]
    /\ call = [o \in Ops |-> "none"]
    /\ need = [o \in Ops |-> 0]
    /\ buf = [o \in Ops |-> <<>>]
    /\ dataLen = [o \in Ops |-> 0]
    /\ chunks = [o \in Ops |-> 0]
    /\ made = [o \in Ops |-> 0]
    /\ given = [o \in Ops |-> <<>>]
    /\ sound = [o \in Ops |-> 0]
    /\ misled = {}
    /\ holders = {}
    /\ running = {}

-----------------------------------------------------------------------------
(* The session *)

\* The thread of o is in the program's code, which may call the library.
Idle(t) == \A p \in Ops : by[p] = t => phase[p] \notin {"asked", "written", "hail"}

\* operation_lock.acquire() returns in t.
Acquires(t, o) ==
    /\ \A p \in holders : by[p] = t
    /\ holders' = holders \cup {o}

\* The operation object is gone, and its buffer with it.
Gone(o) ==
    /\ need' = [need EXCEPT ![o] = 0]
    /\ buf' = [buf EXCEPT ![o] = <<>>]
    /\ dataLen' = [dataLen EXCEPT ![o] = 0]
    /\ call' = [call EXCEPT ![o] = "none"]

\* Mutant: the lock is kept.
OverAtToken(o) ==
    /\ running' = running \ {o}
    /\ UNCHANGED <<cancelWithInit, holders>>

\* active = False; operation_lock.release(): after a call that ended the
\* operation at the token.
Over(o) ==
    /\ holders' = holders \ {o}
    /\ running' = running \ {o}
    /\ UNCHANGED cancelWithInit

\* encrypt and decrypt hand buffer_size on to the generator only, digest has
\* no such argument.
BufferSize(k, w, n) ==
    IF k = "digest" \/ (k \in CryptKinds /\ w) THEN DefaultSize ELSE n

-----------------------------------------------------------------------------
(* The life of an operation *)

\* The object is set up with its buffer and entered: C_XInit is accepted if the
\* token runs no operation of that kind.
Begin(t, o, k, w, n) ==
    /\ phase[o] = "new"
    /\ Idle(t)
    /\ \A p \in running : kind[p] # k
    /\ Acquires(t, o)
    /\ running' = running \cup {o}
    /\ phase' = [phase EXCEPT ![o] = "body"]
    /\ kind' = [kind EXCEPT ![o] = k]
    /\ by' = [by EXCEPT ![o] = t]
    /\ whole' = [whole EXCEPT ![o] = w]
    /\ buf' = [buf EXCEPT ![o] = NewBuffer(BufferSize(k, w, n))]
    /\ UNCHANGED <<call, need, dataLen, chunks, streamVars, cancelWithInit>>

InBody(o) == phase[o] = "body" /\ Idle(by[o])

\* The calls with output that the body of o makes next, each at its place: one
\* for all the data, or one for each chunk if it is en- or decrypted, and a last
\* one.
Makes(o, c) ==
    CASE c = "full"   -> whole[o]
      [] c = "update" -> ~whole[o] /\ kind[o] \in CryptKinds /\ chunks[o] < MaxChunks
      [] c = "final"  -> ~whole[o]
      [] OTHER        -> FALSE

\* Mutant: the buffer is never replaced.
NotResized(b, n) == b

\* resize_buffer, if the token asks for more than there is.
Resized(b, n) == IF n > Len(b) THEN NewBuffer(n) ELSE b

\* The query of a call with output succeeds.
Ask(o, c, n) ==
    /\ InBody(o)
    /\ Makes(o, c)
    /\ Len(buf[o]) > 0
    /\ call' = [call EXCEPT ![o] = c]
    /\ need' = [need EXCEPT ![o] = n]
    /\ buf' = [buf EXCEPT ![o] = Resized(@, n)]
    /\ phase' = [phase EXCEPT ![o] = "asked"]
    /\ UNCHANGED <<kind, by, whole, dataLen, chunks, streamVars, sessionVars>>

\* &output_buf[0] raises before the query if there is no buffer.
AskRaises(o) ==
    /\ InBody(o)
    /\ \E c \in Calls : Makes(o, c)
    /\ Len(buf[o]) = 0
    /\ phase' = [phase EXCEPT ![o] = "exiting"]
    /\ UNCHANGED <<kind, by, whole, call, chunks, bufVars, streamVars, sessionVars>>

\* Mutant: there is one buffer for all the operations of the session.
StoreShared(o, n) ==
    buf' = [p \in Ops |-> [i \in DOMAIN buf[p] |->
                             IF i <= n THEN <<o, made[o] + i>> ELSE buf[p][i]]]

\* The token writes the next n bytes of its output into the buffer of o.
Store(o, n) ==
    buf' = [buf EXCEPT ![o] = [i \in DOMAIN @ |->
                                 IF i <= n THEN <<o, made[o] + i>> ELSE @[i]]]

\* Mutant: buffer_data_length keeps the value of the call before.
UpdateKeepsLength(o, n) ==
    /\ phase[o] = "asked"
    /\ call[o] = "update"
    /\ n <= need[o]
    /\ Store(o, n)
    /\ made' = [made EXCEPT ![o] = @ + n]
    /\ chunks' = [chunks EXCEPT ![o] = @ + 1]
    /\ need' = [need EXCEPT ![o] = 0]
    /\ phase' = [phase EXCEPT ![o] = "written"]
    /\ UNCHANGED <<kind, by, whole, call, dataLen, given, sound, misled, sessionVars>>

\* The writing call of an update succeeds.
UpdateWrites(o, n) ==
    /\ phase[o] = "asked"
    /\ call[o] = "update"
    /\ n <= need[o]
    /\ Store(o, n)
    /\ dataLen' = [dataLen EXCEPT ![o] = n]
    /\ made' = [made EXCEPT ![o] = @ + n]
    /\ chunks' = [chunks EXCEPT ![o] = @ + 1]
    /\ need' = [need EXCEPT ![o] = 0]
    /\ phase' = [phase EXCEPT ![o] = "written"]
    /\ UNCHANGED <<kind, by, whole, call, given, sound, misled, sessionVars>>

\* The writing call of C_XFinal or C_X succeeds; _handle_final_retval.
FinalWrites(o, n) ==
    /\ phase[o] = "asked"
    /\ call[o] \in {"final", "full"}
    /\ n <= need[o]
    /\ Store(o, n)
    /\ dataLen' = [dataLen EXCEPT ![o] = n]
    /\ made' = [made EXCEPT ![o] = @ + n]
    /\ Over(o)
    /\ need' = [need EXCEPT ![o] = 0]
    /\ phase' = [phase EXCEPT ![o] = "written"]
    /\ UNCHANGED <<kind, by, whole, call, chunks, given, sound, misled>>

Shorter(m, n) == IF m <= n THEN m ELSE n

\* Mutant: the whole buffer, not its first buffer_data_length bytes.
WholeBuffer(o) == buf[o]

\* current_output(): a slice, cut off at the end of the buffer.
CurrentOutput(o) == SubSeq(buf[o], 1, Shorter(dataLen[o], Len(buf[o])))

\* The caller receives it: yielded by the generator, or returned.
Deliver(o) ==
    /\ phase[o] = "written"
    /\ given' = [given EXCEPT ![o] = @ \o CurrentOutput(o)]
    /\ sound' = [sound EXCEPT ![o] = IF o \in misled THEN @ ELSE @ + dataLen[o]]
    /\ IF call[o] = "update"
         THEN /\ phase' = [phase EXCEPT ![o] = "body"]
              /\ call' = [call EXCEPT ![o] = "none"]
              /\ UNCHANGED bufVars
         ELSE phase' = [phase EXCEPT ![o] = "done"] /\ Gone(o)
    /\ UNCHANGED <<kind, by, whole, chunks, made, misled, sessionVars>>

\* CKR_BUFFER_TOO_SMALL for an update: _operation_aware_assert takes it for
\* success.  The token has written nothing and says how much room it needs.
UpdateTooSmall(o, n) ==
    /\ phase[o] = "asked"
    /\ call[o] = "update"
    /\ "short_update" \in Faults
    /\ n > need[o]
    /\ dataLen' = [dataLen EXCEPT ![o] = n]
    /\ misled' = misled \cup {o}
    /\ chunks' = [chunks EXCEPT ![o] = @ + 1]
    /\ need' = [need EXCEPT ![o] = 0]
    /\ phase' = [phase EXCEPT ![o] = "written"]
    /\ UNCHANGED <<kind, by, whole, call, buf, made, given, sound, sessionVars>>

\* The same for a final call ends the operation here, but not at the token.
FinalTooSmall(o) ==
    /\ phase[o] = "asked"
    /\ call[o] \in {"final", "full"}
    /\ "short_final" \in Faults
    /\ holders' = holders \ {o}
    /\ Gone(o)
    /\ phase' = [phase EXCEPT ![o] = "broken"]
    /\ UNCHANGED <<kind, by, whole, chunks, streamVars, running,
                   cancelWithInit>>

FeedsOnly(o) == ~whole[o] /\ kind[o] \notin CryptKinds

\* C_DigestUpdate, C_DigestKey or C_SignUpdate: a chunk without output.
Feed(o) ==
    /\ InBody(o)
    /\ FeedsOnly(o)
    /\ chunks[o] < MaxChunks
    /\ chunks' = [chunks EXCEPT ![o] = @ + 1]
    /\ UNCHANGED <<phase, kind, by, whole, call, bufVars, streamVars, sessionVars>>

\* Any of these calls, or either call of a pair, fails.
CallFails(o) ==
    /\ "error" \in Faults
    /\ \/ InBody(o) /\ (Len(buf[o]) > 0 \/ FeedsOnly(o))
       \/ phase[o] = "asked"
    /\ Over(o)
    /\ Gone(o)
    /\ phase' = [phase EXCEPT ![o] = "broken"]
    /\ UNCHANGED <<kind, by, whole, chunks, streamVars>>

\* The body is left with the operation active: an exception of the caller's
\* iterator, or its generator is closed, or dropped at any time.
Leave(o) ==
    /\ phase[o] = "body"
    /\ phase' = [phase EXCEPT ![o] = "exiting"]
    /\ UNCHANGED <<kind, by, whole, call, chunks, bufVars, streamVars, sessionVars>>

-----------------------------------------------------------------------------
(* _finalize of an active operation *)

Cancels(o) == cancelWithInit /\ kind[o] # "digest"

\* C_XInit without a mechanism.
Cancel(o) ==
    /\ phase[o] = "exiting"
    /\ Cancels(o)
    /\ Over(o)
    /\ Gone(o)
    /\ phase' = [phase EXCEPT ![o] = "broken"]
    /\ UNCHANGED <<kind, by, whole, chunks, streamVars>>

\* The hail mary: the query of C_XFinal ...
HailAsks(o, n) ==
    /\ phase[o] = "exiting"
    /\ ~Cancels(o)
    /\ Len(buf[o]) > 0
    /\ need' = [need EXCEPT ![o] = n]
    /\ buf' = [buf EXCEPT ![o] = Resized(@, n)]
    /\ phase' = [phase EXCEPT ![o] = "hail"]
    /\ UNCHANGED <<kind, by, whole, call, dataLen, chunks, streamVars, sessionVars>>

\* ... which fails the same way as AskRaises did if there is no buffer ...
HailRaises(o) ==
    /\ phase[o] = "exiting"
    /\ ~Cancels(o)
    /\ Len(buf[o]) = 0
    /\ phase' = [phase EXCEPT ![o] = "stranded"]
    /\ UNCHANGED <<kind, by, whole, call, chunks, bufVars, streamVars, sessionVars>>

\* ... the call that writes ...
HailWrites(o, n) ==
    /\ phase[o] = "hail"
    /\ n <= need[o]
    /\ made' = [made EXCEPT ![o] = @ + n]
    /\ Over(o)
    /\ Gone(o)
    /\ phase' = [phase EXCEPT ![o] = "broken"]
    /\ UNCHANGED <<kind, by, whole, chunks, given, sound, misled>>

\* ... or either call answers an error, which ends the operation too ...
HailFails(o) ==
    /\ phase[o] = "hail" \/ (phase[o] = "exiting" /\ ~Cancels(o) /\ Len(buf[o]) > 0)
    /\ "error" \in Faults
    /\ Over(o)
    /\ Gone(o)
    /\ phase' = [phase EXCEPT ![o] = "broken"]
    /\ UNCHANGED <<kind, by, whole, chunks, streamVars>>

\* ... unless it is CKR_BUFFER_TOO_SMALL.
HailTooSmall(o) ==
    /\ phase[o] = "hail"
    /\ "short_final" \in Faults
    /\ holders' = holders \ {o}
    /\ Gone(o)
    /\ phase' = [phase EXCEPT ![o] = "broken"]
    /\ UNCHANGED <<kind, by, whole, chunks, streamVars, running,
                   cancelWithInit>>

-----------------------------------------------------------------------------
Step(o) ==
    \/ \E c \in Calls, n \in 0 .. MaxEstimate : Ask(o, c, n)
    \/ AskRaises(o)
    \/ \E n \in 0 .. MaxEstimate :
          \/ UpdateWrites(o, n) \/ FinalWrites(o, n) \/ UpdateTooSmall(o, n)
          \/ HailAsks(o, n) \/ HailWrites(o, n)
    \/ Deliver(o) \/ FinalTooSmall(o) \/ Feed(o) \/ CallFails(o) \/ Leave(o)
    \/ Cancel(o) \/ HailRaises(o) \/ HailFails(o) \/ HailTooSmall(o)

Next ==
    \/ \E t \in Threads, o \in Ops, k \in Kinds, w \in BOOLEAN, n \in Sizes :
          Begin(t, o, k, w, n)
    \/ \E o \in Ops : Step(o)

Spec == Init /\ [][Next]_vars

\* The interpreter runs every thread, and the program consumes or drops what it
\* starts.
FairSpec == Spec /\ \A o \in Ops : WF_vars(Step(o))

-----------------------------------------------------------------------------
(* Properties *)

\* The token never writes past the end of the buffer it was given: between the
\* two calls of update_resizing_output and execute_resizing_output the buffer
\* has the room that was passed on to the second one.
RoomForOutput ==
    \A o \in Ops : phase[o] \in {"asked", "hail"} => need[o] <= Len(buf[o])

\* What the caller receives, joined, is the token's output for its operation, in
\* order, without garbage, and all of it when the operation completes; unless
\* the token misled the library about the room an update needs.
OutputInOrder ==
    \A o \in Ops \ misled :
        /\ given[o] = Bytes(o, Len(given[o]))
        /\ phase[o] = "done" => Len(given[o]) = made[o]

\* Even then, and although the lock is released before the output is copied, no
\* output of another operation is handed over.  Memory that nobody has written
\* may be: _operation_aware_assert takes CKR_BUFFER_TOO_SMALL for success and
\* current_output() copies what the buffer happens to hold, but only to the
\* caller of an operation that the token misled so.
NothingForeign ==
    \A o \in Ops : \A i \in DOMAIN given[o] :
        \/ given[o][i] \in {<<o, n>> : n \in 1 .. made[o]}
        \/ given[o][i] = Unwritten /\ o \in misled

\* The inductive form of the three.  A buffer, as long as its operation lives,
\* and what was received from it hold nothing but the operation's own bytes;
\* between two calls of an operation that was not misled nothing is on its way,
\* and after the token has written, exactly the front of the buffer is.
Settled == {"new", "body", "asked", "exiting", "hail", "done"}

OpInv(o) ==
    /\ phase[o] \in {"asked", "hail"} => need[o] <= Len(buf[o])
    /\ \A i \in 1 .. Len(buf[o]) : buf[o][i] \in Own(o, made[o])
    /\ \A i \in 1 .. Len(given[o]) : given[o][i] \in Own(o, made[o])
    /\ sound[o] <= Len(given[o])
    /\ \A i \in 1 .. sound[o] : given[o][i] = <<o, i>>
    /\ o \notin misled =>
          /\ Len(given[o]) = sound[o]
          /\ phase[o] \in Settled => sound[o] = made[o]
          /\ phase[o] = "written" =>
                /\ dataLen[o] <= Len(buf[o])
                /\ made[o] = sound[o] + dataLen[o]
                /\ \A i \in 1 .. dataLen[o] : buf[o][i] = <<o, sound[o] + i>>

BufferInv == TypeOK /\ \A o \in Ops : OpInv(o)

\* An operation with a buffer gives the session back, whatever the token answers
\* to its updates and final calls and whenever it is left.  (C_XInit without a
\* mechanism always succeeds here; what a cancellation that fails does to the
\* lock is in OperationContext.)
LockIsReleased ==
    \A o \in Ops : (o \in holders /\ (Len(buf[o]) > 0 \/ cancelWithInit))
                       ~> o \notin holders

\* The operations implement the abstract stream of output.  One whose update the
\* token misled counts as broken from then on.
Status(o) ==
    CASE o \in misled                        -> "broken"
      [] o \notin misled /\ phase[o] = "done" -> "complete"
      [] o \notin misled /\ phase[o] \in {"broken", "stranded"} -> "broken"
      [] OTHER                               -> "open"

Stream == INSTANCE OutputStream WITH
    sent   <- made,
    got    <- [o \in Ops |-> SubSeq(given[o], 1, sound[o])],
    status <- [o \in Ops |-> Status(o)]

ImplementsStream == Stream!Spec
=============================================================================
