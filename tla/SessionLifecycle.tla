--------------------------- MODULE SessionLifecycle ---------------------------
(***************************************************************************)
(* Token.open and Session.close: session handles and the login state.      *)
(*                                                                         *)
(* Token.open makes up to two C calls (C_OpenSession, C_Login) and only    *)
(* then builds the Session object; Session.close makes up to two           *)
(* (C_Logout, C_CloseSession) and keeps no record of what it did.  Login   *)
(* belongs to the token, not to a session.  The C calls are made `with     *)
(* nogil', so other threads run between any two of them.                   *)
(***************************************************************************)
EXTENDS Naturals, FiniteSets

CONSTANTS
    Threads,     \* threads of the calling program
    Sessions,    \* calls of Token.open, each with the object it may return
    Handles,     \* the session handles the token can give out
    UserTypes,   \* the user types the program logs in as
    NoSession, NoHandle,   \* None
    MaxRefused,  \* logins the token refuses (bound)
    MaxBroken    \* C_CloseSession and C_Logout calls that fail (bound)

Nobody == "nobody"   \* UserType.NOBODY

ASSUME NoneAssumption  == NoSession \notin Sessions /\ NoHandle \notin Handles
ASSUME UserAssumption  == Nobody \notin UserTypes
ASSUME BoundAssumption == MaxRefused \in Nat /\ MaxBroken \in Nat

VARIABLES
    handles,   \* the token: the open session handles
    login,     \* the token: who is logged in
    stage,     \* how far each session has come
    handle,    \* Session.handle (of Token.open's local variable, until there is one)
    userType,  \* Session.user_type
    at,        \* per thread: the C call it makes next, or "idle"
    on,        \* ... and for which session
    refused, broken   \* how often the token has failed (bounds)

objects == <<stage, handle, userType>>
faults  == <<refused, broken>>
vars    == <<handles, login, stage, handle, userType, at, on, refused, broken>>

(***************************************************************************)
(* "new"       Token.open has not been called                              *)
(* "opening"   in Token.open                                               *)
(* "failed"    Token.open raised: there is no object                       *)
(* "usable"    Token.open returned the object                              *)
(* "closing"   in Session.close                                            *)
(* "unclosed"  Session.close raised                                        *)
(* "closed"    Session.close returned                                      *)
(***************************************************************************)
Stages == {"new", "opening", "failed", "usable", "closing", "unclosed", "closed"}

Init ==
    /\ handles = {}
    /\ login = Nobody
    /\ stage = [s \in Sessions |-> "new"]
    /\ handle = [s \in Sessions |-> NoHandle]
    /\ userType = [s \in Sessions |-> Nobody]
    /\ at = [t \in Threads |-> "idle"]
    /\ on = [t \in Threads |-> NoSession]
    /\ refused = 0 /\ broken = 0

-----------------------------------------------------------------------------
(* Steps of a call *)

Idle(t) == at[t] = "idle"
Doing(t, step, s) == at[t] = step /\ on[t] = s

\* t goes on with its call, or returns from it and leaves the session in a stage.
Proceed(t, step) == at' = [at EXCEPT ![t] = step] /\ UNCHANGED <<on, stage>>
Return(t, s, g) ==
    /\ at' = [at EXCEPT ![t] = "idle"]
    /\ on' = [on EXCEPT ![t] = NoSession]
    /\ stage' = [stage EXCEPT ![s] = g]

Begin(t, s, g, step) ==
    /\ at' = [at EXCEPT ![t] = step]
    /\ on' = [on EXCEPT ![t] = s]
    /\ stage' = [stage EXCEPT ![s] = g]

Refuse == refused < MaxRefused /\ refused' = refused + 1 /\ UNCHANGED broken
Break  == broken < MaxBroken /\ broken' = broken + 1 /\ UNCHANGED refused

-----------------------------------------------------------------------------
(* Token.open *)

\* The arguments are checked before anything is opened.
Open(t, s, u) ==
    /\ Idle(t)
    /\ stage[s] = "new"
    /\ userType' = [userType EXCEPT ![s] = u]
    /\ Begin(t, s, "opening", "C_OpenSession")
    /\ UNCHANGED <<handles, login, handle, faults>>

OpenSession(t, s, h) ==
    /\ Doing(t, "C_OpenSession", s)
    /\ h \notin handles
    /\ handles' = handles \cup {h}
    /\ handle' = [handle EXCEPT ![s] = h]
    /\ IF userType[s] = Nobody THEN Return(t, s, "usable") ELSE Proceed(t, "C_Login")
    /\ UNCHANGED <<login, userType, faults>>

\* CKR_SESSION_COUNT, CKR_DEVICE_REMOVED and the like: whatever the reason, there is
\* no handle.
OpenSessionFails(t, s) ==
    /\ Doing(t, "C_OpenSession", s)
    /\ Return(t, s, "failed")
    /\ UNCHANGED <<handles, login, handle, userType, faults>>

Login(t, s) ==
    /\ Doing(t, "C_Login", s)
    /\ login = Nobody
    /\ login' = userType[s]
    /\ Return(t, s, "usable")
    /\ UNCHANGED <<handles, handle, userType, faults>>

\* A wrong PIN, or CKR_USER_ALREADY_LOGGED_IN and the like; also ArgumentsBad for
\* a token without a protected authentication path.
LoginRefused(t, s) ==
    /\ Doing(t, "C_Login", s)
    /\ IF login # Nobody THEN UNCHANGED faults ELSE Refuse

\* Mutant: a user who is logged in already is not an error.
LoginTolerated(t, s) ==
    /\ LoginRefused(t, s)
    /\ Return(t, s, "usable")
    /\ UNCHANGED <<handles, login, handle, userType>>

\* assertRV raises; the session stays open, and no object has its handle.
LoginFails(t, s) ==
    /\ LoginRefused(t, s)
    /\ Return(t, s, "failed")
    /\ UNCHANGED <<handles, login, handle, userType>>

-----------------------------------------------------------------------------
(* Session.close *)

\* Mutant: C_CloseSession is enough.
CloseOnly(t, s) ==
    /\ Idle(t)
    /\ stage[s] \in {"usable", "unclosed"}
    /\ Begin(t, s, "closing", "C_CloseSession")
    /\ UNCHANGED <<handles, login, handle, userType, faults>>

\* The program closes a session it has, and tries again if that raised.  Only
\* user_type, which never changes, decides whether to log out.
Close(t, s) ==
    /\ Idle(t)
    /\ stage[s] \in {"usable", "unclosed"}
    /\ Begin(t, s, "closing", IF userType[s] = Nobody THEN "C_CloseSession" ELSE "C_Logout")
    /\ UNCHANGED <<handles, login, handle, userType, faults>>

Logout(t, s) ==
    /\ Doing(t, "C_Logout", s)
    /\ login # Nobody
    /\ login' = Nobody
    /\ Proceed(t, "C_CloseSession")
    /\ UNCHANGED <<handles, handle, userType, faults>>

\* assertRV raises CKR_USER_NOT_LOGGED_IN, or an error of the device, and
\* C_CloseSession is not called.
LogoutFails(t, s) ==
    /\ Doing(t, "C_Logout", s)
    /\ IF login = Nobody THEN UNCHANGED faults ELSE Break
    /\ Return(t, s, "unclosed")
    /\ UNCHANGED <<handles, login, handle, userType>>

\* Mutant: C_CloseAllSessions.
CloseAllSessions(t, s) ==
    /\ Doing(t, "C_CloseSession", s)
    /\ handle[s] \in handles
    /\ handles' = {}
    /\ login' = Nobody
    /\ Return(t, s, "closed")
    /\ UNCHANGED <<handle, userType, faults>>

\* The token logs out when its last session is closed.
CloseSession(t, s) ==
    /\ Doing(t, "C_CloseSession", s)
    /\ handle[s] \in handles
    /\ handles' = handles \ {handle[s]}
    /\ login' = IF handles' = {} THEN Nobody ELSE login
    /\ Return(t, s, "closed")
    /\ UNCHANGED <<handle, userType, faults>>

\* CKR_SESSION_HANDLE_INVALID, or an error of the device.
CloseSessionFails(t, s) ==
    /\ Doing(t, "C_CloseSession", s)
    /\ IF handle[s] \notin handles THEN UNCHANGED faults ELSE Break
    /\ Return(t, s, "unclosed")
    /\ UNCHANGED <<handles, login, handle, userType>>

-----------------------------------------------------------------------------
Terminated ==
    /\ \A s \in Sessions : stage[s] \in {"failed", "closed"}
    /\ UNCHANGED vars

\* What the library does next in t.
Step(t, s) ==
    \/ \E h \in Handles : OpenSession(t, s, h)
    \/ OpenSessionFails(t, s) \/ Login(t, s) \/ LoginFails(t, s)
    \/ Logout(t, s) \/ LogoutFails(t, s)
    \/ CloseSession(t, s) \/ CloseSessionFails(t, s)

Next ==
    \/ \E t \in Threads, s \in Sessions :
          \/ \E u \in UserTypes \cup {Nobody} : Open(t, s, u)
          \/ Close(t, s)
          \/ Step(t, s)
    \/ Terminated

Spec == Init /\ [][Next]_vars

\* A call goes on, and the program closes what it has opened.
FairSpec ==
    /\ Spec
    /\ \A t \in Threads, s \in Sessions : WF_vars(Step(t, s))
    /\ \A s \in Sessions : WF_vars(\E t \in Threads : Close(t, s))

-----------------------------------------------------------------------------
(* Properties *)

\* The sessions the program can use, and those a call works on.
Usable == {s \in Sessions : stage[s] = "usable"}
Busy   == {on[t] : t \in Threads} \ {NoSession}

TypeOK ==
    /\ handles \subseteq Handles
    /\ login \in UserTypes \cup {Nobody}
    /\ stage \in [Sessions -> Stages]
    /\ handle \in [Sessions -> Handles \cup {NoHandle}]
    /\ userType \in [Sessions -> UserTypes \cup {Nobody}]
    /\ at \in [Threads -> {"idle", "C_OpenSession", "C_Login", "C_Logout", "C_CloseSession"}]
    /\ on \in [Threads -> Sessions \cup {NoSession}]
    /\ refused \in 0 .. MaxRefused /\ broken \in 0 .. MaxBroken
    /\ \A s \in Sessions : s \in Busy <=> stage[s] \in {"opening", "closing"}

\* A session the program can use is open at the token under a handle no other
\* such session has: closing, or failing to open, one session never closes or
\* hands out the handle of another.
HandlesAreOwn ==
    \A s \in Usable :
        /\ handle[s] \in handles
        /\ \A r \in Usable \ {s} : handle[r] # handle[s]

\* Session.user_type is the truth: while the program has not begun to close a
\* session that logged in, the token is logged in as that user, whatever the
\* other sessions do.  (As long as the token has not failed to log out or to close:
\* a close() that is tried again logs out whoever is logged in by then.)
UserTypeIsTrue ==
    broken = 0 => \A s \in Usable : userType[s] # Nobody => login = userType[s]

\* The token is not left logged in: when every session that logged in has been
\* closed, nobody is, even if a session leaked and keeps the login alive.
LoginEndsWithSessions ==
    (\A s \in Sessions : userType[s] # Nobody => stage[s] \in {"new", "failed", "closed"})
        => login = Nobody

\* The inductive form of the above.  A thread is in at most one call, which is the
\* only one at work on its session ...
CallInv ==
    /\ \A t \in Threads :
          /\ at[t] = "idle" <=> on[t] = NoSession
          /\ at[t] \in {"C_OpenSession", "C_Login"} => stage[on[t]] = "opening"
          /\ at[t] \in {"C_Logout", "C_CloseSession"} => stage[on[t]] = "closing"
          /\ at[t] \in {"C_Login", "C_Logout"} => userType[on[t]] # Nobody
    /\ \A t, u \in Threads : on[t] = on[u] => t = u \/ on[t] = NoSession

\* ... a session that has a handle has it for itself until it is closed ...
Holders == {s \in Sessions : handle[s] # NoHandle /\ stage[s] # "closed"}

HandleOfStage ==
    \A s \in Sessions :
        /\ s \in Holders => handle[s] \in handles
        /\ stage[s] \in {"usable", "closing", "unclosed"} => s \in Holders
        /\ stage[s] = "new" => handle[s] = NoHandle

HandleOfCall ==
    \A t \in Threads :
        /\ at[t] = "C_OpenSession" => handle[on[t]] = NoHandle
        /\ at[t] = "C_Login" => handle[on[t]] # NoHandle

HandlesApart == \A r, s \in Holders : handle[r] = handle[s] => r = s

HandleInv == HandleOfStage /\ HandleOfCall /\ HandlesApart

\* ... and who is logged in is so by a session that has not logged out, or that
\* will try again.
LoggingOut == {on[t] : t \in {u \in Threads : at[u] = "C_Logout"}}
LoggedIn   == {s \in Sessions : /\ userType[s] # Nobody
                                /\ stage[s] \in {"usable", "unclosed"} \/ s \in LoggingOut}

LoginInv == login # Nobody => LoggedIn # {}

\* As long as the token has not failed to close a session, there is no more than
\* one such session, and it is logged in.
OwnerInv ==
    /\ \A s \in LoggedIn : stage[s] # "unclosed" /\ login = userType[s]
    /\ \A r, s \in LoggedIn : r = s

\* A session the program closes gets closed, unless the token fails to.
ClosingCloses ==
    \A s \in Sessions : stage[s] = "closing" ~> stage[s] = "closed" \/ broken > 0
=============================================================================
