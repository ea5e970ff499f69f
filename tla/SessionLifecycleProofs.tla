------------------------ MODULE SessionLifecycleProofs ------------------------
(***************************************************************************)
(* What holds of the sessions of a token for every number of threads,      *)
(* sessions and handles, proved with TLAPS.                                *)
(***************************************************************************)
EXTENDS SessionLifecycle, TLAPS

\* What a call in progress says about its session.
LEMMA DoingMeans ==
    ASSUME TypeOK, CallInv, NEW t \in Threads, NEW s \in Sessions,
           NEW step \in {"C_OpenSession", "C_Login", "C_Logout", "C_CloseSession"},
           Doing(t, step, s)
    PROVE  /\ at[t] = step /\ on[t] = s
           /\ \A u \in Threads : on[u] = s => u = t
           /\ step \in {"C_OpenSession", "C_Login"} => stage[s] = "opening"
           /\ step \in {"C_Logout", "C_CloseSession"} => stage[s] = "closing"
           /\ step \in {"C_Login", "C_Logout"} => userType[s] # Nobody
BY NoneAssumption DEF Doing, CallInv, TypeOK

\* A call that begins is the only one at work on its session.
LEMMA BeginKeepsCalls ==
    ASSUME TypeOK, CallInv, NEW t \in Threads, NEW s \in Sessions,
           NEW g \in {"opening", "closing"},
           NEW step \in {"C_OpenSession", "C_Logout", "C_CloseSession"},
           Idle(t), stage[s] \notin {"opening", "closing"},
           Begin(t, s, g, step),
           step = "C_OpenSession" <=> g = "opening",
           step = "C_Logout" => userType'[s] # Nobody,
           \A u \in Threads : on[u] \in Sessions \ {s} => userType'[on[u]] = userType[on[u]]
    PROVE  /\ CallInv'
           /\ stage' \in [Sessions -> Stages]
           /\ at' \in [Threads -> {"idle", "C_OpenSession", "C_Login", "C_Logout", "C_CloseSession"}]
           /\ on' \in [Threads -> Sessions \cup {NoSession}]
           /\ \A r \in Sessions : r \in Busy' <=> stage'[r] \in {"opening", "closing"}
<1>1. \A u \in Threads : on[u] # s
  BY NoneAssumption DEF TypeOK, Busy
<1>2. on[t] = NoSession
  BY DEF CallInv, Idle
<1>3. /\ stage' = [stage EXCEPT ![s] = g]
      /\ at' = [at EXCEPT ![t] = step]
      /\ on' = [on EXCEPT ![t] = s]
  BY DEF Begin
<1>4. /\ stage' \in [Sessions -> Stages]
      /\ at' \in [Threads -> {"idle", "C_OpenSession", "C_Login", "C_Logout", "C_CloseSession"}]
      /\ on' \in [Threads -> Sessions \cup {NoSession}]
  BY <1>3 DEF TypeOK, Stages
<1>5. Busy' = Busy \cup {s}
  BY <1>2, <1>3, NoneAssumption DEF Busy, TypeOK
<1>6. \A r \in Sessions : r \in Busy' <=> stage'[r] \in {"opening", "closing"}
  BY <1>3, <1>5 DEF TypeOK
<1>7. CallInv'
  BY <1>1, <1>2, <1>3, NoneAssumption DEF CallInv, TypeOK
<1> QED
  BY <1>4, <1>6, <1>7

\* A call that returns leaves the others as they are.
LEMMA ReturnKeepsCalls ==
    ASSUME TypeOK, CallInv, NEW t \in Threads, NEW s \in Sessions,
           NEW g \in Stages \ {"opening", "closing"},
           on[t] = s, \A u \in Threads : on[u] = s => u = t,
           Return(t, s, g), UNCHANGED userType
    PROVE  /\ CallInv'
           /\ stage' \in [Sessions -> Stages]
           /\ at' \in [Threads -> {"idle", "C_OpenSession", "C_Login", "C_Logout", "C_CloseSession"}]
           /\ on' \in [Threads -> Sessions \cup {NoSession}]
           /\ \A r \in Sessions : r \in Busy' <=> stage'[r] \in {"opening", "closing"}
<1>1. /\ stage' = [stage EXCEPT ![s] = g]
      /\ at' = [at EXCEPT ![t] = "idle"]
      /\ on' = [on EXCEPT ![t] = NoSession]
  BY DEF Return
<1>2. /\ stage' \in [Sessions -> Stages]
      /\ at' \in [Threads -> {"idle", "C_OpenSession", "C_Login", "C_Logout", "C_CloseSession"}]
      /\ on' \in [Threads -> Sessions \cup {NoSession}]
  BY <1>1 DEF TypeOK
<1>3. Busy' = Busy \ {s}
  BY <1>1 DEF Busy, TypeOK
<1>4. \A r \in Sessions : r \in Busy' <=> stage'[r] \in {"opening", "closing"}
  BY <1>1, <1>3 DEF TypeOK
<1>5. CallInv'
  BY <1>1, NoneAssumption DEF CallInv, TypeOK
<1> QED
  BY <1>2, <1>4, <1>5

\* A call that goes on is still the only one at work on its session.
LEMMA ProceedKeepsCalls ==
    ASSUME TypeOK, CallInv, NEW t \in Threads, NEW s \in Sessions,
           NEW step \in {"C_Login", "C_CloseSession"},
           on[t] = s,
           stage[s] = (IF step = "C_Login" THEN "opening" ELSE "closing"),
           step = "C_Login" => userType[s] # Nobody,
           Proceed(t, step), UNCHANGED userType
    PROVE  /\ CallInv'
           /\ stage' \in [Sessions -> Stages]
           /\ at' \in [Threads -> {"idle", "C_OpenSession", "C_Login", "C_Logout", "C_CloseSession"}]
           /\ on' \in [Threads -> Sessions \cup {NoSession}]
           /\ \A r \in Sessions : r \in Busy' <=> stage'[r] \in {"opening", "closing"}
<1>1. at' = [at EXCEPT ![t] = step] /\ on' = on /\ stage' = stage
  BY DEF Proceed
<1>2. Busy' = Busy
  BY <1>1 DEF Busy
<1>3. CallInv'
  BY <1>1, NoneAssumption DEF CallInv, TypeOK
<1> QED
  BY <1>1, <1>2, <1>3 DEF TypeOK

\* Every step keeps the types and the calls apart.
LEMMA CallsStep == TypeOK /\ CallInv /\ [Next]_vars => TypeOK' /\ CallInv'
<1> SUFFICES ASSUME TypeOK, CallInv, [Next]_vars
             PROVE  TypeOK' /\ CallInv'
  OBVIOUS
<1> USE BoundAssumption
<1>1. ASSUME NEW t \in Threads, NEW s \in Sessions, NEW u \in UserTypes \cup {Nobody},
             Open(t, s, u)
      PROVE  TypeOK' /\ CallInv'
  <2>1. userType' = [userType EXCEPT ![s] = u] /\ stage[s] = "new" /\ Idle(t)
    BY <1>1 DEF Open
  <2>2. Begin(t, s, "opening", "C_OpenSession")
    BY <1>1 DEF Open
  <2>3. \A v \in Threads : on[v] \in Sessions \ {s} => userType'[on[v]] = userType[on[v]]
    BY <2>1 DEF TypeOK
  <2>4. /\ CallInv'
        /\ stage' \in [Sessions -> Stages]
        /\ at' \in [Threads -> {"idle", "C_OpenSession", "C_Login", "C_Logout", "C_CloseSession"}]
        /\ on' \in [Threads -> Sessions \cup {NoSession}]
        /\ \A r \in Sessions : r \in Busy' <=> stage'[r] \in {"opening", "closing"}
    BY <2>1, <2>2, <2>3, BeginKeepsCalls
  <2> QED
    BY <1>1, <2>1, <2>4 DEF TypeOK, Open, faults
<1>2. ASSUME NEW t \in Threads, NEW s \in Sessions, Close(t, s)
      PROVE  TypeOK' /\ CallInv'
  <2> DEFINE step == IF userType[s] = Nobody THEN "C_CloseSession" ELSE "C_Logout"
  <2>1. Begin(t, s, "closing", step) /\ Idle(t) /\ stage[s] \notin {"opening", "closing"}
        /\ UNCHANGED userType
    BY <1>2 DEF Close
  <2>2. step \in {"C_Logout", "C_CloseSession"} /\ (step = "C_Logout" => userType'[s] # Nobody)
    BY <2>1
  <2> HIDE DEF step
  <2>3. /\ CallInv'
        /\ stage' \in [Sessions -> Stages]
        /\ at' \in [Threads -> {"idle", "C_OpenSession", "C_Login", "C_Logout", "C_CloseSession"}]
        /\ on' \in [Threads -> Sessions \cup {NoSession}]
        /\ \A r \in Sessions : r \in Busy' <=> stage'[r] \in {"opening", "closing"}
    BY <2>1, <2>2, BeginKeepsCalls
  <2> QED
    BY <1>2, <2>3 DEF TypeOK, Close, faults
<1>3. ASSUME NEW t \in Threads, NEW s \in Sessions, NEW g \in Stages \ {"opening", "closing"},
             NEW step \in {"C_OpenSession", "C_Login", "C_Logout", "C_CloseSession"},
             Doing(t, step, s), Return(t, s, g), UNCHANGED userType,
             handles' \subseteq Handles,
             login' \in UserTypes \cup {Nobody},
             handle' \in [Sessions -> Handles \cup {NoHandle}],
             refused' \in 0 .. MaxRefused, broken' \in 0 .. MaxBroken
      PROVE  TypeOK' /\ CallInv'
  <2>1. on[t] = s /\ \A u \in Threads : on[u] = s => u = t
    BY <1>3, DoingMeans
  <2>2. /\ CallInv'
        /\ stage' \in [Sessions -> Stages]
        /\ at' \in [Threads -> {"idle", "C_OpenSession", "C_Login", "C_Logout", "C_CloseSession"}]
        /\ on' \in [Threads -> Sessions \cup {NoSession}]
        /\ \A r \in Sessions : r \in Busy' <=> stage'[r] \in {"opening", "closing"}
    BY <1>3, <2>1, ReturnKeepsCalls
  <2> QED
    BY <1>3, <2>2 DEF TypeOK
<1>4. ASSUME NEW t \in Threads, NEW s \in Sessions, NEW step \in {"C_Login", "C_CloseSession"},
             Doing(t, IF step = "C_Login" THEN "C_OpenSession" ELSE "C_Logout", s),
             step = "C_Login" => userType[s] # Nobody,
             Proceed(t, step), UNCHANGED <<userType, refused, broken>>,
             handles' \subseteq Handles,
             login' \in UserTypes \cup {Nobody},
             handle' \in [Sessions -> Handles \cup {NoHandle}]
      PROVE  TypeOK' /\ CallInv'
  <2>1. on[t] = s /\ stage[s] = (IF step = "C_Login" THEN "opening" ELSE "closing")
    BY <1>4, DoingMeans
  <2>2. /\ CallInv'
        /\ stage' \in [Sessions -> Stages]
        /\ at' \in [Threads -> {"idle", "C_OpenSession", "C_Login", "C_Logout", "C_CloseSession"}]
        /\ on' \in [Threads -> Sessions \cup {NoSession}]
        /\ \A r \in Sessions : r \in Busy' <=> stage'[r] \in {"opening", "closing"}
    BY <1>4, <2>1, ProceedKeepsCalls
  <2> QED
    BY <1>4, <2>2 DEF TypeOK
<1>5. ASSUME NEW t \in Threads, NEW s \in Sessions, NEW h \in Handles, OpenSession(t, s, h)
      PROVE  TypeOK' /\ CallInv'
  <2>1. /\ handles' \subseteq Handles
        /\ login' \in UserTypes \cup {Nobody}
        /\ handle' \in [Sessions -> Handles \cup {NoHandle}]
        /\ refused' \in 0 .. MaxRefused /\ broken' \in 0 .. MaxBroken
        /\ UNCHANGED <<userType, refused, broken>>
    BY <1>5 DEF OpenSession, TypeOK, faults
  <2>2. CASE userType[s] = Nobody
    BY <1>3, <1>5, <2>1, <2>2 DEF OpenSession, Stages
  <2>3. CASE userType[s] # Nobody
    BY <1>4, <1>5, <2>1, <2>3 DEF OpenSession
  <2> QED
    BY <2>2, <2>3
<1>6. ASSUME NEW t \in Threads, NEW s \in Sessions, OpenSessionFails(t, s)
      PROVE  TypeOK' /\ CallInv'
  BY <1>3, <1>6 DEF OpenSessionFails, TypeOK, faults, Stages
<1>7. ASSUME NEW t \in Threads, NEW s \in Sessions, Login(t, s)
      PROVE  TypeOK' /\ CallInv'
  <2>1. login' \in UserTypes \cup {Nobody}
    BY <1>7 DEF Login, TypeOK
  <2> QED
    BY <1>3, <1>7, <2>1 DEF Login, TypeOK, faults, Stages
<1>8. ASSUME NEW t \in Threads, NEW s \in Sessions, LoginFails(t, s)
      PROVE  TypeOK' /\ CallInv'
  <2>1. refused' \in 0 .. MaxRefused /\ broken' \in 0 .. MaxBroken
    BY <1>8 DEF LoginFails, LoginRefused, Refuse, TypeOK, faults
  <2> QED
    BY <1>3, <1>8, <2>1 DEF LoginFails, LoginRefused, TypeOK, Stages
<1>9. ASSUME NEW t \in Threads, NEW s \in Sessions, Logout(t, s)
      PROVE  TypeOK' /\ CallInv'
  BY <1>4, <1>9 DEF Logout, TypeOK, faults
<1>10. ASSUME NEW t \in Threads, NEW s \in Sessions, LogoutFails(t, s)
       PROVE  TypeOK' /\ CallInv'
  <2>1. refused' \in 0 .. MaxRefused /\ broken' \in 0 .. MaxBroken
    BY <1>10 DEF LogoutFails, Break, TypeOK, faults
  <2> QED
    BY <1>3, <1>10, <2>1 DEF LogoutFails, TypeOK, Stages
<1>11. ASSUME NEW t \in Threads, NEW s \in Sessions, CloseSession(t, s)
       PROVE  TypeOK' /\ CallInv'
  <2>1. login' \in UserTypes \cup {Nobody} /\ handles' \subseteq Handles
    BY <1>11 DEF CloseSession, TypeOK
  <2> QED
    BY <1>3, <1>11, <2>1 DEF CloseSession, TypeOK, faults, Stages
<1>12. ASSUME NEW t \in Threads, NEW s \in Sessions, CloseSessionFails(t, s)
       PROVE  TypeOK' /\ CallInv'
  <2>1. refused' \in 0 .. MaxRefused /\ broken' \in 0 .. MaxBroken
    BY <1>12 DEF CloseSessionFails, Break, TypeOK, faults
  <2> QED
    BY <1>3, <1>12, <2>1 DEF CloseSessionFails, TypeOK, Stages
<1>13. ASSUME UNCHANGED vars
       PROVE  TypeOK' /\ CallInv'
  BY <1>13 DEF vars, TypeOK, CallInv, Busy
<1> QED
  BY <1>1, <1>2, <1>5, <1>6, <1>7, <1>8, <1>9, <1>10, <1>11, <1>12, <1>13
  DEF Next, Step, Terminated

(***************************************************************************)
(* Handles                                                                 *)
(***************************************************************************)

\* A step that changes only how far one session has come, and does not end in
\* "closed", keeps the handles apart.
LEMMA HandlesMove ==
    ASSUME TypeOK, HandleInv, NEW s \in Sessions,
           NEW g \in Stages \ {"new", "closed"},
           stage' = [stage EXCEPT ![s] = g],
           stage[s] # "closed",
           g \in {"usable", "closing", "unclosed"} => handle[s] # NoHandle,
           HandleOfCall',
           UNCHANGED <<handle, handles>>
    PROVE  HandleInv'
<1>1. Holders' = Holders
  BY DEF Holders, TypeOK
<1>2. ASSUME NEW r \in Sessions
      PROVE  /\ stage'[r] \in {"usable", "closing", "unclosed"} => r \in Holders
             /\ stage'[r] = "new" => handle[r] = NoHandle
  <2>1. CASE r = s
    BY <2>1 DEF Holders, TypeOK
  <2>2. CASE r # s
    BY <2>2 DEF HandleInv, HandleOfStage, HandleOfCall, HandlesApart, TypeOK
  <2> QED
    BY <2>1, <2>2
<1>3. handle' = handle /\ handles' = handles
  OBVIOUS
<1>4. \A r, q \in Holders' : handle'[r] = handle'[q] => r = q
  BY <1>1, <1>3 DEF HandleInv, HandleOfStage, HandleOfCall, HandlesApart
<1>5. \A r \in Sessions :
         /\ r \in Holders' => handle'[r] \in handles'
         /\ stage'[r] \in {"usable", "closing", "unclosed"} => r \in Holders'
         /\ stage'[r] = "new" => handle'[r] = NoHandle
  <2>1. ASSUME NEW r \in Sessions, r \in Holders
        PROVE  handle[r] \in handles
    BY <2>1 DEF HandleInv, HandleOfStage, HandleOfCall, HandlesApart
  <2> QED
    BY <1>1, <1>2, <1>3, <2>1
<1> QED
  <2>1. HandlesApart'
    BY <1>4 DEF HandlesApart
  <2>2. HandleOfStage'
    BY <1>5 DEF HandleOfStage
  <2> QED
    BY <2>1, <2>2 DEF HandleInv

\* Every step keeps the handles apart: C_OpenSession gives out one that is not in
\* use, and C_CloseSession ends the session that goes on to forget it.
LEMMA HandlesStep == TypeOK /\ CallInv /\ HandleInv /\ [Next]_vars => HandleInv'
<1> SUFFICES ASSUME TypeOK, CallInv, HandleInv, [Next]_vars
             PROVE  HandleInv'
  OBVIOUS
<1>1. ASSUME NEW t \in Threads, NEW s \in Sessions, NEW u \in UserTypes \cup {Nobody},
             Open(t, s, u)
      PROVE  HandleInv'
  <2>1. /\ stage[s] = "new" /\ stage' = [stage EXCEPT ![s] = "opening"]
        /\ at' = [at EXCEPT ![t] = "C_OpenSession"]
        /\ on' = [on EXCEPT ![t] = s]
        /\ UNCHANGED <<handle, handles>>
    BY <1>1 DEF Open, Begin
  <2>2. handle[s] = NoHandle
    BY <2>1 DEF HandleInv, HandleOfStage, HandleOfCall, HandlesApart
  <2>3. HandleOfCall'
    BY <2>1, <2>2 DEF HandleInv, HandleOfStage, HandleOfCall, HandlesApart, TypeOK
  <2> QED
    BY <2>1, <2>3, HandlesMove DEF Stages
<1>2. ASSUME NEW t \in Threads, NEW s \in Sessions, Close(t, s)
      PROVE  HandleInv'
  <2>1. /\ stage[s] \in {"usable", "unclosed"} /\ stage' = [stage EXCEPT ![s] = "closing"]
        /\ \A v \in Threads \ {t} : at'[v] = at[v] /\ on'[v] = on[v]
        /\ at'[t] \notin {"C_OpenSession", "C_Login"}
        /\ UNCHANGED <<handle, handles>>
    BY <1>2 DEF Close, Begin, TypeOK
  <2>2. handle[s] # NoHandle
    BY <2>1 DEF HandleInv, HandleOfStage, HandleOfCall, HandlesApart, Holders
  <2>3. HandleOfCall'
    BY <2>1 DEF HandleInv, HandleOfStage, HandleOfCall, HandlesApart
  <2> QED
    BY <2>1, <2>2, <2>3, HandlesMove DEF Stages
<1>3. ASSUME NEW t \in Threads, NEW s \in Sessions,
             NEW g \in {"failed", "usable", "unclosed"},
             NEW step \in {"C_OpenSession", "C_Login", "C_Logout", "C_CloseSession"},
             Doing(t, step, s), Return(t, s, g), UNCHANGED <<handle, handles>>,
             g # "failed" => handle[s] # NoHandle
      PROVE  HandleInv'
  <2>1. stage[s] \in {"opening", "closing"} /\ on[t] = s
    BY <1>3, DoingMeans
  <2>2. /\ stage' = [stage EXCEPT ![s] = g]
        /\ \A v \in Threads \ {t} : at'[v] = at[v] /\ on'[v] = on[v]
        /\ at'[t] \notin {"C_OpenSession", "C_Login"}
    BY <1>3 DEF Return, TypeOK
  <2>3. HandleOfCall'
    BY <1>3, <2>2 DEF HandleInv, HandleOfStage, HandleOfCall, HandlesApart
  <2> QED
    BY <1>3, <2>1, <2>2, <2>3, HandlesMove DEF Stages
<1>4. ASSUME NEW t \in Threads, NEW s \in Sessions, NEW h \in Handles, OpenSession(t, s, h)
      PROVE  HandleInv'
  <2>1. /\ stage[s] = "opening" /\ handle[s] = NoHandle /\ on[t] = s
        /\ \A v \in Threads : on[v] = s => v = t
    BY <1>4, DoingMeans DEF OpenSession, HandleInv, HandleOfStage, HandleOfCall, HandlesApart, Doing
  <2>2. /\ handle' = [handle EXCEPT ![s] = h]
        /\ handles' = handles \cup {h} /\ h \notin handles
        /\ stage' \in {[stage EXCEPT ![s] = "usable"], stage}
        /\ at'[t] # "C_OpenSession"
        /\ at'[t] = "C_Login" => on'[t] = s
        /\ \A v \in Threads \ {t} : at'[v] = at[v] /\ on'[v] = on[v]
    BY <1>4, <2>1 DEF OpenSession, Return, Proceed, TypeOK
  <2>3. h # NoHandle
    BY NoneAssumption
  <2>4. Holders' = Holders \cup {s} /\ handle'[s] = h
    BY <2>1, <2>2, <2>3 DEF Holders, TypeOK
  <2>5. \A r \in Sessions \ {s} : handle'[r] = handle[r] /\ stage'[r] = stage[r]
    BY <2>2 DEF TypeOK
  <2>6. \A r \in Holders : handle[r] \in handles /\ handle[r] # h
    BY <2>2 DEF HandleInv, HandleOfStage, HandleOfCall, HandlesApart, Holders
  <2>7. \A v \in Threads : /\ at'[v] = "C_OpenSession" => handle'[on'[v]] = NoHandle
                           /\ at'[v] = "C_Login" => handle'[on'[v]] # NoHandle
    <3> TAKE v \in Threads
    <3>1. CASE v = t
      BY <3>1, <2>2, <2>3, <2>4
    <3>2. CASE v # t /\ at[v] \in {"C_OpenSession", "C_Login"}
      <4>1. on[v] \in Sessions /\ on[v] # s
        BY <2>1, <3>2 DEF CallInv, TypeOK
      <4> QED
        BY <4>1, <3>2, <2>2, <2>5 DEF HandleInv, HandleOfStage, HandleOfCall, HandlesApart
    <3> QED
      BY <3>1, <3>2, <2>2
  <2>8. \A r \in Sessions :
           /\ r \in Holders' => handle'[r] \in handles'
           /\ stage'[r] \in {"usable", "closing", "unclosed"} => r \in Holders'
           /\ stage'[r] = "new" => handle'[r] = NoHandle
    <3> TAKE r \in Sessions
    <3>1. CASE r = s
      BY <3>1, <2>1, <2>2, <2>4 DEF TypeOK
    <3>2. CASE r # s
      BY <3>2, <2>2, <2>4, <2>5 DEF HandleInv, HandleOfStage, HandleOfCall, HandlesApart
    <3> QED
      BY <3>1, <3>2
  <2>9. \A q, r \in Holders' : handle'[q] = handle'[r] => q = r
    <3>1. \A r \in Holders \ {s} : handle'[r] = handle[r] /\ handle'[r] # h
      BY <2>5, <2>6 DEF Holders
    <3> QED
      BY <3>1, <2>4 DEF HandleInv, HandleOfStage, HandleOfCall, HandlesApart
  <2> QED
    BY <2>7, <2>8, <2>9 DEF HandleInv, HandleOfStage, HandleOfCall, HandlesApart
<1>5. ASSUME NEW t \in Threads, NEW s \in Sessions, OpenSessionFails(t, s)
      PROVE  HandleInv'
  BY <1>3, <1>5 DEF OpenSessionFails
<1>6. ASSUME NEW t \in Threads, NEW s \in Sessions, Login(t, s)
      PROVE  HandleInv'
  <2>1. handle[s] # NoHandle
    BY <1>6 DEF Login, Doing, HandleInv, HandleOfStage, HandleOfCall, HandlesApart
  <2> QED
    BY <1>3, <1>6, <2>1 DEF Login
<1>7. ASSUME NEW t \in Threads, NEW s \in Sessions, LoginFails(t, s)
      PROVE  HandleInv'
  BY <1>3, <1>7 DEF LoginFails, LoginRefused
<1>8. ASSUME NEW t \in Threads, NEW s \in Sessions, Logout(t, s)
      PROVE  HandleInv'
  <2>1. /\ at' = [at EXCEPT ![t] = "C_CloseSession"]
        /\ UNCHANGED <<on, stage, handle, handles>>
    BY <1>8 DEF Logout, Proceed
  <2> QED
    BY <2>1 DEF HandleInv, HandleOfStage, HandleOfCall, HandlesApart, Holders, TypeOK
<1>9. ASSUME NEW t \in Threads, NEW s \in Sessions,
             Doing(t, "C_Logout", s) \/ Doing(t, "C_CloseSession", s)
      PROVE  handle[s] # NoHandle
  BY <1>9, DoingMeans DEF HandleInv, HandleOfStage, HandleOfCall, HandlesApart, Holders
<1>10. ASSUME NEW t \in Threads, NEW s \in Sessions, LogoutFails(t, s)
       PROVE  HandleInv'
  BY <1>3, <1>9, <1>10 DEF LogoutFails
<1>11. ASSUME NEW t \in Threads, NEW s \in Sessions, CloseSession(t, s)
       PROVE  HandleInv'
  <2>1. /\ stage[s] = "closing" /\ handle[s] # NoHandle
    BY <1>9, <1>11, DoingMeans DEF CloseSession
  <2>2. /\ handle' = handle
        /\ handles' = handles \ {handle[s]}
        /\ stage' = [stage EXCEPT ![s] = "closed"]
        /\ at' = [at EXCEPT ![t] = "idle"]
        /\ on' = [on EXCEPT ![t] = NoSession]
    BY <1>11 DEF CloseSession, Return
  <2>3. Holders' = Holders \ {s} /\ s \in Holders
    BY <2>1, <2>2 DEF Holders, TypeOK
  <2>4. \A r \in Sessions \ {s} : stage'[r] = stage[r]
    BY <2>2 DEF TypeOK
  <2>5. \A r \in Holders \ {s} : handle[r] # handle[s]
    BY <2>3 DEF HandleInv, HandleOfStage, HandleOfCall, HandlesApart
  <2>6. \A v \in Threads : /\ at'[v] = "C_OpenSession" => handle[on'[v]] = NoHandle
                           /\ at'[v] = "C_Login" => handle[on'[v]] # NoHandle
    BY <2>2 DEF HandleInv, HandleOfStage, HandleOfCall, HandlesApart, TypeOK
  <2>7. stage'[s] = "closed"
    BY <2>2 DEF TypeOK
  <2> QED
    BY <2>2, <2>3, <2>4, <2>5, <2>6, <2>7 DEF HandleInv, HandleOfStage, HandleOfCall, HandlesApart
<1>12. ASSUME NEW t \in Threads, NEW s \in Sessions, CloseSessionFails(t, s)
       PROVE  HandleInv'
  BY <1>3, <1>9, <1>12 DEF CloseSessionFails
<1>13. ASSUME UNCHANGED vars
       PROVE  HandleInv'
  BY <1>13 DEF vars, HandleInv, HandleOfStage, HandleOfCall, HandlesApart, Holders
<1> QED
  BY <1>1, <1>2, <1>4, <1>5, <1>6, <1>7, <1>8, <1>10, <1>11, <1>12, <1>13
  DEF Next, Step, Terminated

(***************************************************************************)
(* Logins                                                                  *)
(***************************************************************************)

\* The sessions that are about to log out: a call that begins or ends concerns only
\* its own session.
LEMMA LoggingOutMoves ==
    ASSUME TypeOK, CallInv, NEW t \in Threads, NEW s \in Sessions,
           on[t] = s \/ on[t] = NoSession,
           \A v \in Threads : on[v] = s => v = t,
           \A v \in Threads \ {t} : at'[v] = at[v] /\ on'[v] = on[v],
           on'[t] = s \/ at'[t] # "C_Logout"
    PROVE  /\ \A r \in Sessions \ {s} : r \in LoggingOut' <=> r \in LoggingOut
           /\ s \in LoggingOut <=> (at[t] = "C_Logout" /\ on[t] = s)
           /\ s \in LoggingOut' <=> (at'[t] = "C_Logout" /\ on'[t] = s)
BY NoneAssumption DEF LoggingOut, CallInv

\* Every step leaves somebody to answer for the login: C_Login its own session, and
\* no other step takes a session from those that may be logged in while it leaves
\* the token logged in.
LEMMA LoginStep == TypeOK /\ CallInv /\ LoginInv /\ [Next]_vars => LoginInv'
<1> SUFFICES ASSUME TypeOK, CallInv, LoginInv, [Next]_vars
             PROVE  LoginInv'
  OBVIOUS
\* A step of t on s, which changes nothing of the other sessions.
<1>1. ASSUME NEW t \in Threads, NEW s \in Sessions,
             on[t] = s \/ on[t] = NoSession,
             \A v \in Threads : on[v] = s => v = t,
             \A v \in Threads \ {t} : at'[v] = at[v] /\ on'[v] = on[v],
             on'[t] = s \/ at'[t] # "C_Logout",
             \A r \in Sessions \ {s} : stage'[r] = stage[r] /\ userType'[r] = userType[r]
      PROVE  LoggedIn \ {s} \subseteq LoggedIn'
  <2>1. \A r \in Sessions \ {s} : r \in LoggingOut' <=> r \in LoggingOut
    BY <1>1, LoggingOutMoves
  <2> QED
    BY <1>1, <2>1 DEF LoggedIn
\* The facts of such a step, for a call that goes on or returns.
<1>2. ASSUME NEW t \in Threads, NEW s \in Sessions,
             NEW step \in {"C_OpenSession", "C_Login", "C_Logout", "C_CloseSession"},
             Doing(t, step, s),
             \/ \E g \in Stages : Return(t, s, g)
             \/ \E next \in {"C_Login", "C_CloseSession"} : Proceed(t, next),
             UNCHANGED userType
      PROVE  /\ LoggedIn \ {s} \subseteq LoggedIn'
             /\ step # "C_Logout" => s \notin LoggedIn
             /\ (userType[s] # Nobody /\ stage'[s] \in {"usable", "unclosed"}) => s \in LoggedIn'
  <2>1. /\ at[t] = step /\ on[t] = s
        /\ \A u \in Threads : on[u] = s => u = t
        /\ stage[s] \notin {"usable", "unclosed"}
    BY <1>2, DoingMeans
  <2>2. /\ \A v \in Threads \ {t} : at'[v] = at[v] /\ on'[v] = on[v]
        /\ at'[t] # "C_Logout"
        /\ \A r \in Sessions \ {s} : stage'[r] = stage[r] /\ userType'[r] = userType[r]
    BY <1>2 DEF Return, Proceed, TypeOK
  <2>3. LoggedIn \ {s} \subseteq LoggedIn'
    BY <1>1, <2>1, <2>2
  <2>4. s \in LoggingOut <=> step = "C_Logout"
    BY <2>1, <2>2, LoggingOutMoves
  <2> QED
    BY <1>2, <2>1, <2>3, <2>4 DEF LoggedIn
<1>3. ASSUME NEW t \in Threads, NEW s \in Sessions, NEW u \in UserTypes \cup {Nobody},
             Open(t, s, u)
      PROVE  LoginInv'
  <2>1. /\ on[t] = NoSession
        /\ \A v \in Threads : on[v] # s
        /\ stage[s] = "new"
    BY <1>3, NoneAssumption DEF Open, Idle, CallInv, TypeOK, Busy
  <2>2. /\ \A v \in Threads \ {t} : at'[v] = at[v] /\ on'[v] = on[v]
        /\ at'[t] # "C_Logout"
        /\ \A r \in Sessions \ {s} : stage'[r] = stage[r] /\ userType'[r] = userType[r]
        /\ login' = login
    BY <1>3 DEF Open, Begin, TypeOK
  <2>3. s \notin LoggedIn
    BY <2>1, <2>2, LoggingOutMoves, NoneAssumption DEF LoggedIn
  <2>4. LoggedIn \ {s} \subseteq LoggedIn'
    BY <1>1, <2>1, <2>2
  <2> QED
    BY <2>2, <2>3, <2>4 DEF LoginInv
<1>4. ASSUME NEW t \in Threads, NEW s \in Sessions, Close(t, s)
      PROVE  LoginInv'
  <2>1. /\ on[t] = NoSession
        /\ \A v \in Threads : on[v] # s
        /\ stage[s] \in {"usable", "unclosed"}
    BY <1>4, NoneAssumption DEF Close, Idle, CallInv, TypeOK, Busy
  <2>2. /\ \A v \in Threads \ {t} : at'[v] = at[v] /\ on'[v] = on[v]
        /\ on'[t] = s
        /\ userType[s] # Nobody => at'[t] = "C_Logout"
        /\ \A r \in Sessions \ {s} : stage'[r] = stage[r]
        /\ userType' = userType
        /\ login' = login
    BY <1>4 DEF Close, Begin, TypeOK
  <2>3. userType[s] # Nobody => s \in LoggingOut'
    BY <2>1, <2>2, LoggingOutMoves
  <2>4. s \in LoggedIn => s \in LoggedIn'
    BY <2>2, <2>3 DEF LoggedIn
  <2>5. LoggedIn \ {s} \subseteq LoggedIn'
    BY <1>1, <2>1, <2>2
  <2> QED
    BY <2>2, <2>4, <2>5 DEF LoginInv
<1>5. ASSUME NEW t \in Threads, NEW s \in Sessions, NEW h \in Handles, OpenSession(t, s, h)
      PROVE  LoginInv'
  BY <1>2, <1>5 DEF OpenSession, LoginInv, Stages
<1>6. ASSUME NEW t \in Threads, NEW s \in Sessions, OpenSessionFails(t, s)
      PROVE  LoginInv'
  BY <1>2, <1>6 DEF OpenSessionFails, LoginInv, Stages
<1>7. ASSUME NEW t \in Threads, NEW s \in Sessions, Login(t, s)
      PROVE  LoginInv'
  <2>1. stage'[s] = "usable" /\ userType[s] # Nobody
    BY <1>7, DoingMeans DEF Login, Return, TypeOK
  <2> QED
    BY <1>2, <1>7, <2>1 DEF Login, LoginInv, Stages
<1>8. ASSUME NEW t \in Threads, NEW s \in Sessions, LoginFails(t, s)
      PROVE  LoginInv'
  BY <1>2, <1>8 DEF LoginFails, LoginRefused, LoginInv, Stages
<1>9. ASSUME NEW t \in Threads, NEW s \in Sessions, Logout(t, s)
      PROVE  LoginInv'
  BY <1>9 DEF Logout, LoginInv
<1>10. ASSUME NEW t \in Threads, NEW s \in Sessions, LogoutFails(t, s)
       PROVE  LoginInv'
  <2>1. stage'[s] = "unclosed" /\ userType[s] # Nobody
    BY <1>10, DoingMeans DEF LogoutFails, Return, TypeOK
  <2> QED
    BY <1>2, <1>10, <2>1 DEF LogoutFails, LoginInv, Stages
<1>11. ASSUME NEW t \in Threads, NEW s \in Sessions, CloseSession(t, s)
       PROVE  LoginInv'
  <2>1. login' \in {Nobody, login}
    BY <1>11 DEF CloseSession
  <2> QED
    BY <1>2, <1>11, <2>1 DEF CloseSession, LoginInv, Stages
<1>12. ASSUME NEW t \in Threads, NEW s \in Sessions, CloseSessionFails(t, s)
       PROVE  LoginInv'
  BY <1>2, <1>12 DEF CloseSessionFails, LoginInv, Stages
<1>13. ASSUME UNCHANGED vars
       PROVE  LoginInv'
  BY <1>13 DEF vars, LoginInv, LoggedIn, LoggingOut
<1> QED
  BY <1>3, <1>4, <1>5, <1>6, <1>7, <1>8, <1>9, <1>10, <1>11, <1>12, <1>13
  DEF Next, Step, Terminated

\* The failures of the token are counted.
LEMMA BrokenCounts == TypeOK /\ [Next]_vars => broken' \in {broken, broken + 1}
<1> SUFFICES ASSUME TypeOK, [Next]_vars
             PROVE  broken' \in {broken, broken + 1}
  OBVIOUS
<1>1. ASSUME NEW t \in Threads, NEW s \in Sessions, Step(t, s)
      PROVE  broken' \in {broken, broken + 1}
  <2>1. ASSUME NEW h \in Handles, OpenSession(t, s, h)
        PROVE  broken' = broken
    BY <2>1 DEF OpenSession, faults
  <2>2. ASSUME OpenSessionFails(t, s) \/ Login(t, s) \/ LoginFails(t, s)
               \/ Logout(t, s) \/ CloseSession(t, s)
        PROVE  broken' = broken
    BY <2>2 DEF OpenSessionFails, Login, LoginFails, LoginRefused, Refuse, Logout,
         CloseSession, faults
  <2>3. ASSUME LogoutFails(t, s) \/ CloseSessionFails(t, s)
        PROVE  broken' \in {broken, broken + 1}
    BY <2>3 DEF LogoutFails, CloseSessionFails, Break, faults
  <2> QED
    BY <1>1, <2>1, <2>2, <2>3 DEF Step
<1>2. ASSUME NEW t \in Threads, NEW s \in Sessions, NEW u \in UserTypes \cup {Nobody},
             Open(t, s, u) \/ Close(t, s)
      PROVE  broken' = broken
  BY <1>2 DEF Open, Close, faults
<1>3. ASSUME NEW t \in Threads, NEW s \in Sessions, Close(t, s)
      PROVE  broken' = broken
  BY <1>3 DEF Close, faults
<1>4. UNCHANGED vars => broken' = broken
  BY DEF vars
<1> QED
  BY <1>1, <1>2, <1>3, <1>4 DEF Next, Terminated

\* As long as the token has not failed to close a session, every step leaves at
\* most one session that may be logged in, and it is.
LEMMA OwnerStep ==
    TypeOK /\ CallInv /\ HandleInv /\ LoginInv /\ OwnerInv /\ [Next]_vars /\ broken' = 0
        => OwnerInv'
<1> SUFFICES ASSUME TypeOK, CallInv, HandleInv, LoginInv, OwnerInv, [Next]_vars,
                    broken' = 0
             PROVE  OwnerInv'
  OBVIOUS
<1> USE BoundAssumption
\* A step of t on s, which takes a session from those that may be logged in, or
\* moves it among them, and leaves the login alone.
<1>1. ASSUME NEW t \in Threads, NEW s \in Sessions,
             on[t] = s \/ on[t] = NoSession,
             \A v \in Threads : on[v] = s => v = t,
             \A v \in Threads \ {t} : at'[v] = at[v] /\ on'[v] = on[v],
             on'[t] = s \/ at'[t] # "C_Logout",
             \A r \in Sessions \ {s} : stage'[r] = stage[r] /\ userType'[r] = userType[r]
      PROVE  LoggedIn' \subseteq LoggedIn \cup {s}
  <2>1. \A r \in Sessions \ {s} : r \in LoggingOut' <=> r \in LoggingOut
    BY <1>1, LoggingOutMoves
  <2> QED
    BY <1>1, <2>1 DEF LoggedIn
<1>2. ASSUME NEW t \in Threads, NEW s \in Sessions,
             NEW step \in {"C_OpenSession", "C_Login", "C_Logout", "C_CloseSession"},
             Doing(t, step, s),
             \/ \E g \in Stages : Return(t, s, g)
             \/ \E next \in {"C_Login", "C_CloseSession"} : Proceed(t, next),
             UNCHANGED userType
      PROVE  /\ LoggedIn' \subseteq LoggedIn \cup {s}
             /\ \A r \in Sessions \ {s} : stage'[r] = stage[r]
             /\ step = "C_Logout" => s \in LoggedIn
             /\ (userType[s] = Nobody \/ stage'[s] \notin {"usable", "unclosed"})
                   => s \notin LoggedIn'
  <2>1. /\ at[t] = step /\ on[t] = s
        /\ \A u \in Threads : on[u] = s => u = t
        /\ step = "C_Logout" => userType[s] # Nobody
    BY <1>2, DoingMeans
  <2>2. /\ \A v \in Threads \ {t} : at'[v] = at[v] /\ on'[v] = on[v]
        /\ at'[t] # "C_Logout"
        /\ \A r \in Sessions \ {s} : stage'[r] = stage[r] /\ userType'[r] = userType[r]
    BY <1>2 DEF Return, Proceed, TypeOK
  <2>3. LoggedIn' \subseteq LoggedIn \cup {s}
    BY <1>1, <2>1, <2>2
  <2>4. /\ s \in LoggingOut <=> step = "C_Logout"
        /\ s \notin LoggingOut'
    BY <2>1, <2>2, LoggingOutMoves
  <2> QED
    BY <1>2, <2>1, <2>2, <2>3, <2>4 DEF LoggedIn
\* What follows when such a step takes s from them and the login stays.
<1>3. ASSUME NEW s \in Sessions,
             LoggedIn' \subseteq LoggedIn \cup {s}, s \notin LoggedIn',
             \A r \in Sessions \ {s} : stage'[r] = stage[r],
             userType' = userType,
             login' = login
      PROVE  OwnerInv'
  <2>1. LoggedIn' \subseteq LoggedIn \ {s}
    BY <1>3
  <2>2. \A r \in LoggedIn' : stage'[r] # "unclosed" /\ login' = userType'[r]
    BY <1>3, <2>1 DEF OwnerInv, LoggedIn
  <2> QED
    BY <2>1, <2>2 DEF OwnerInv
\* Nobody is logged in, and no session may be.
<1>4. LoggedIn' = {} => OwnerInv'
  BY DEF OwnerInv
<1>5. ASSUME NEW t \in Threads, NEW s \in Sessions, NEW u \in UserTypes \cup {Nobody},
             Open(t, s, u)
      PROVE  OwnerInv'
  <2>1. /\ on[t] = NoSession
        /\ \A v \in Threads : on[v] # s
        /\ stage[s] = "new"
    BY <1>5, NoneAssumption DEF Open, Idle, CallInv, TypeOK, Busy
  <2>2. /\ \A v \in Threads \ {t} : at'[v] = at[v] /\ on'[v] = on[v]
        /\ at'[t] # "C_Logout"
        /\ stage'[s] = "opening"
        /\ \A r \in Sessions \ {s} : stage'[r] = stage[r] /\ userType'[r] = userType[r]
        /\ login' = login
    BY <1>5 DEF Open, Begin, TypeOK
  <2>3. s \notin LoggedIn'
    BY <2>1, <2>2, LoggingOutMoves, NoneAssumption DEF LoggedIn
  <2>4. LoggedIn' \subseteq LoggedIn \ {s}
    BY <1>1, <2>1, <2>2, <2>3
  <2>5. \A r \in LoggedIn' : stage'[r] # "unclosed" /\ login' = userType'[r]
    BY <2>2, <2>4 DEF OwnerInv, LoggedIn
  <2> QED
    BY <2>4, <2>5 DEF OwnerInv
<1>6. ASSUME NEW t \in Threads, NEW s \in Sessions, Close(t, s)
      PROVE  OwnerInv'
  <2>1. /\ on[t] = NoSession
        /\ \A v \in Threads : on[v] # s
        /\ stage[s] \in {"usable", "unclosed"}
    BY <1>6, NoneAssumption DEF Close, Idle, CallInv, TypeOK, Busy
  <2>2. /\ \A v \in Threads \ {t} : at'[v] = at[v] /\ on'[v] = on[v]
        /\ on'[t] = s
        /\ stage'[s] = "closing"
        /\ \A r \in Sessions \ {s} : stage'[r] = stage[r]
        /\ userType' = userType
        /\ login' = login
    BY <1>6 DEF Close, Begin, TypeOK
  <2>3. LoggedIn' \subseteq LoggedIn \cup {s}
    BY <1>1, <2>1, <2>2
  <2>4. s \in LoggedIn' => s \in LoggedIn
    BY <2>1, <2>2 DEF LoggedIn
  <2>5. \A r \in LoggedIn' : stage'[r] # "unclosed" /\ login' = userType'[r]
    BY <2>2, <2>3, <2>4 DEF OwnerInv, LoggedIn
  <2> QED
    BY <2>3, <2>4, <2>5 DEF OwnerInv
<1>7. ASSUME NEW t \in Threads, NEW s \in Sessions, NEW h \in Handles, OpenSession(t, s, h)
      PROVE  OwnerInv'
  <2>1. userType[s] = Nobody \/ stage'[s] = "opening"
    BY <1>7, DoingMeans DEF OpenSession, Proceed
  <2> QED
    BY <1>2, <1>3, <1>7, <2>1 DEF OpenSession, Stages
<1>8. ASSUME NEW t \in Threads, NEW s \in Sessions, OpenSessionFails(t, s)
      PROVE  OwnerInv'
  <2>1. stage'[s] = "failed"
    BY <1>8 DEF OpenSessionFails, Return, TypeOK
  <2> QED
    BY <1>2, <1>3, <1>8, <2>1 DEF OpenSessionFails, Stages
<1>9. ASSUME NEW t \in Threads, NEW s \in Sessions, Login(t, s)
      PROVE  OwnerInv'
  <2>1. LoggedIn = {}
    BY <1>9 DEF Login, OwnerInv, LoggedIn
  <2>2. LoggedIn' \subseteq {s} /\ stage'[s] = "usable" /\ login' = userType'[s]
    BY <1>2, <1>9, <2>1 DEF Login, Return, TypeOK, Stages
  <2> QED
    BY <2>2 DEF OwnerInv
<1>10. ASSUME NEW t \in Threads, NEW s \in Sessions, LoginFails(t, s)
       PROVE  OwnerInv'
  <2>1. stage'[s] = "failed"
    BY <1>10 DEF LoginFails, Return, TypeOK
  <2> QED
    BY <1>2, <1>3, <1>10, <2>1 DEF LoginFails, LoginRefused, Stages
<1>11. ASSUME NEW t \in Threads, NEW s \in Sessions, Logout(t, s)
       PROVE  OwnerInv'
  <2>1. LoggedIn' \subseteq LoggedIn \cup {s} /\ s \in LoggedIn /\ s \notin LoggedIn'
    <3>1. stage'[s] = "closing"
      BY <1>11, DoingMeans DEF Logout, Proceed
    <3> QED
      BY <1>2, <1>11, <3>1 DEF Logout
  <2> QED
    BY <1>4, <2>1 DEF OwnerInv
<1>12. ASSUME NEW t \in Threads, NEW s \in Sessions, LogoutFails(t, s)
       PROVE  OwnerInv'
  <2>1. s \in LoggedIn
    BY <1>2, <1>12 DEF LogoutFails, Stages
  <2>2. login # Nobody
    BY <2>1 DEF OwnerInv, LoggedIn
  <2> QED
    BY <1>12, <2>2 DEF LogoutFails, Break, TypeOK
<1>13. ASSUME NEW t \in Threads, NEW s \in Sessions, CloseSession(t, s)
       PROVE  OwnerInv'
  <2>1. /\ LoggedIn' \subseteq LoggedIn \cup {s}
        /\ \A r \in Sessions \ {s} : stage'[r] = stage[r]
        /\ s \notin LoggedIn'
        /\ userType' = userType
    <3>1. stage'[s] = "closed"
      BY <1>13 DEF CloseSession, Return, TypeOK
    <3> QED
      BY <1>2, <1>13, <3>1 DEF CloseSession, Stages
  <2>2. CASE handles' # {}
    BY <1>3, <1>13, <2>1, <2>2 DEF CloseSession
  <2>3. CASE handles' = {}
    <3>1. s \in Holders
      BY <1>13, DoingMeans DEF CloseSession, HandleInv, HandleOfStage, HandleOfCall, HandlesApart
    <3>2. \A r \in Holders : r = s
      BY <1>13, <2>3, <3>1 DEF CloseSession, HandleInv, HandleOfStage, HandleOfCall, HandlesApart, Holders
    <3>3. \A r \in LoggedIn : r \in Holders
      <4>1. \A r \in LoggingOut : r \in Sessions => stage[r] = "closing"
        BY DEF LoggingOut, CallInv
      <4> QED
        BY <4>1 DEF LoggedIn, HandleInv, HandleOfStage, HandleOfCall, HandlesApart
    <3> QED
      BY <1>4, <2>1, <3>2, <3>3
  <2> QED
    BY <2>2, <2>3
<1>14. ASSUME NEW t \in Threads, NEW s \in Sessions, CloseSessionFails(t, s)
       PROVE  OwnerInv'
  <2>1. handle[s] \in handles
    BY <1>14, DoingMeans DEF CloseSessionFails, HandleInv, HandleOfStage, HandleOfCall, HandlesApart, Holders
  <2> QED
    BY <1>14, <2>1 DEF CloseSessionFails, Break, TypeOK
<1>15. ASSUME UNCHANGED vars
       PROVE  OwnerInv'
  BY <1>15 DEF vars, OwnerInv, LoggedIn, LoggingOut
<1> QED
  BY <1>5, <1>6, <1>7, <1>8, <1>9, <1>10, <1>11, <1>12, <1>13, <1>14, <1>15
  DEF Next, Step, Terminated

(***************************************************************************)
(* The theorems                                                            *)
(***************************************************************************)

\* Initially there is no session, and nobody is logged in.
LEMMA InitInv == Init => TypeOK /\ CallInv /\ HandleInv /\ LoginInv /\ OwnerInv
<1> SUFFICES ASSUME Init
             PROVE  TypeOK /\ CallInv /\ HandleInv /\ LoginInv /\ OwnerInv
  OBVIOUS
<1>1. TypeOK
  BY BoundAssumption DEF Init, TypeOK, Stages, Busy
<1>2. CallInv
  BY DEF Init, CallInv
<1>3. HandleInv
  BY DEF Init, HandleInv, HandleOfStage, HandleOfCall, HandlesApart, Holders
<1>4. LoginInv /\ OwnerInv
  BY DEF Init, LoginInv, OwnerInv, LoggedIn
<1> QED
  BY <1>1, <1>2, <1>3, <1>4

\* The types are right, every call works on a session of its own and every session
\* has its own handle, whatever the threads do and the token answers.
THEOREM SessionInvariant == Spec => [](TypeOK /\ CallInv /\ HandleInv /\ LoginInv)
<1>1. Init => TypeOK /\ CallInv /\ HandleInv /\ LoginInv
  BY InitInv
<1>2. TypeOK /\ CallInv /\ HandleInv /\ LoginInv /\ [Next]_vars
         => (TypeOK /\ CallInv /\ HandleInv /\ LoginInv)'
  BY CallsStep, HandlesStep, LoginStep
<1> QED
  BY <1>1, <1>2, PTL DEF Spec

\* Every variable keeps its type: a thread in a C call works on a session, and the
\* failures of the token stay within their bounds.
THEOREM TypeCorrect == Spec => []TypeOK
BY SessionInvariant, PTL

\* Closing one session, or failing to open one, never takes the handle of another.
THEOREM SessionsKeepTheirHandles == Spec => []HandlesAreOwn
<1>1. HandleInv => HandlesAreOwn
  BY DEF HandleInv, HandleOfStage, HandleOfCall, HandlesApart, HandlesAreOwn, Usable
<1> QED
  BY <1>1, SessionInvariant, PTL

\* When every session that logged in has been closed, nobody is logged in: also
\* with failures of C_Logout and C_CloseSession, retries and leaked sessions.
THEOREM NobodyStaysLoggedIn == Spec => []LoginEndsWithSessions
<1>1. TypeOK /\ CallInv /\ LoginInv => LoginEndsWithSessions
  <2> SUFFICES ASSUME TypeOK, CallInv, LoginInv, login # Nobody
               PROVE  \E s \in Sessions : userType[s] # Nobody
                                          /\ stage[s] \notin {"new", "failed", "closed"}
    BY DEF LoginEndsWithSessions
  <2>1. PICK s \in LoggedIn : TRUE
    BY DEF LoginInv
  <2>2. s \in LoggingOut /\ s \in Sessions => stage[s] = "closing"
    BY DEF LoggingOut, CallInv
  <2> QED
    BY <2>1, <2>2 DEF LoggedIn
<1> QED
  BY <1>1, SessionInvariant, PTL

\* As long as the token has not failed to close a session, one that logged in
\* stays logged in until it is closed, whatever the other sessions do.
THEOREM UserTypeStaysTrue == Spec => []UserTypeIsTrue
<1>1. Init => TypeOK /\ CallInv /\ HandleInv /\ LoginInv /\ (broken = 0 => OwnerInv)
  BY InitInv
<1>2. TypeOK /\ CallInv /\ HandleInv /\ LoginInv /\ (broken = 0 => OwnerInv) /\ [Next]_vars
         => (TypeOK /\ CallInv /\ HandleInv /\ LoginInv /\ (broken = 0 => OwnerInv))'
  <2>1. TypeOK /\ [Next]_vars /\ broken' = 0 => broken = 0
    BY BrokenCounts, BoundAssumption DEF TypeOK
  <2> QED
    BY <2>1, CallsStep, HandlesStep, LoginStep, OwnerStep
<1>3. (broken = 0 => OwnerInv) => UserTypeIsTrue
  BY DEF OwnerInv, UserTypeIsTrue, Usable, LoggedIn
<1> QED
  BY <1>1, <1>2, <1>3, PTL DEF Spec
=============================================================================
