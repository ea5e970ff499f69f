------------------------------ MODULE SessionLock ------------------------------
(***************************************************************************)
(* What the documentation promises of the lock of a Session: multi-step    *)
(* operations of different threads do not overlap, and a thread that gets  *)
(* the session finds nothing of another thread's at the token.  (The same  *)
(* thread may nest operations: the lock is reentrant.)                     *)
(***************************************************************************)
EXTENDS Naturals

CONSTANTS Threads, Ops, NoThread

VARIABLES
    owner,     \* the thread that has the session, or NoThread
    live,      \* the operations it is inside of
    running    \* the operations the token runs

vars == <<owner, live, running>>

Init == owner = NoThread /\ live = {} /\ running = {}

\* t takes the session for one more operation.
Begin(t, o) ==
    /\ owner \in {NoThread, t}
    /\ o \notin live
    /\ owner' = t
    /\ live' = live \cup {o}
    /\ UNCHANGED running

\* The token accepts an operation of the thread that has the session.
Start(o) ==
    /\ o \in live
    /\ running' = running \cup {o}
    /\ UNCHANGED <<owner, live>>

\* An operation is over, and the token no longer runs it; the session is given
\* back with the last one.
End(o) ==
    /\ o \in live
    /\ live' = live \ {o}
    /\ owner' = IF live' = {} THEN NoThread ELSE owner
    /\ running' \in SUBSET (running \ {o})

\* The token drops everything.
Reset == running' = {} /\ UNCHANGED <<owner, live>>

Next ==
    \/ \E t \in Threads, o \in Ops : Begin(t, o)
    \/ \E o \in Ops : Start(o) \/ End(o)
    \/ Reset

Spec == Init /\ [][Next]_vars
=============================================================================
