------------------------- MODULE KeyTemplatesProofs -------------------------
(***************************************************************************)
(* The templates of generated keys for every number of threads and calls,  *)
(* proved with TLAPS.                                                      *)
(***************************************************************************)
EXTENDS KeyTemplates, TLAPS

-----------------------------------------------------------------------------
(* Templates *)

\* The caller's own template takes nothing away but the label.
LEMMA MergeKeeps ==
    ASSUME NEW template, NEW user
    PROVE  /\ user # "DEFAULT" => Merge(template, user) = template
           /\ \A a \in DOMAIN template \ {"LABEL"} : Merge(template, user)[a] = template[a]
BY DEF Merge, Restrict

\* _apply_common sets TOKEN, and the label if there is one.
LEMMA CommonSets ==
    ASSUME NEW template, "LABEL" \in DOMAIN template, NEW r
    PROVE  /\ DOMAIN ApplyCommon(template, r) = DOMAIN template \cup {"TOKEN"}
           /\ ApplyCommon(template, r)["TOKEN"] = r.store
           /\ r.label # "" => ApplyCommon(template, r)["LABEL"] = r.label
           /\ "CAPS" \in DOMAIN template => ApplyCommon(template, r)["CAPS"] = template["CAPS"]
BY DEF ApplyCommon, Set

\* The attributes of a kind of key leave the others as they are.
LEMMA ShapeKeeps ==
    ASSUME NEW template, NEW r
    PROVE  /\ DOMAIN template \subseteq DOMAIN OfShape(template, r)
           /\ DOMAIN OfShape(template, r) \subseteq DOMAIN template \cup {"RSA", "PARAMS"}
           /\ \A a \in DOMAIN template \ {"RSA", "PARAMS"} :
                 OfShape(template, r)[a] = template[a]
<1>1. CASE r.shape = "rsa"
  BY <1>1 DEF OfShape, Set
<1>2. CASE r.shape = "params"
  BY <1>2 DEF OfShape, Set
<1>3. CASE r.shape \notin {"rsa", "params"}
  BY <1>3 DEF OfShape
<1> QED
  BY <1>1, <1>2, <1>3

\* The template has what the call asked for.
Fits(template, possible, r) ==
    /\ {"CAPS", "TOKEN", "LABEL"} \subseteq DOMAIN template
    /\ template["CAPS"] = possible \cap r.caps
    /\ template["TOKEN"] = r.store
    /\ r.label # "" => template["LABEL"] = r.label

\* So has the attribute list, but perhaps for the label.
ListFits(list, user, possible, r) ==
    /\ list["CAPS"] = possible \cap r.caps
    /\ list["TOKEN"] = r.store
    /\ r.label # "" /\ user = "none" => list["LABEL"] = r.label

LEMMA CommonFits ==
    ASSUME NEW template, {"CAPS", "LABEL"} \subseteq DOMAIN template, NEW possible, NEW r,
           template["CAPS"] = possible \cap r.caps
    PROVE  Fits(ApplyCommon(template, r), possible, r)
<1>1. /\ DOMAIN ApplyCommon(template, r) = DOMAIN template \cup {"TOKEN"}
      /\ ApplyCommon(template, r)["TOKEN"] = r.store
      /\ r.label # "" => ApplyCommon(template, r)["LABEL"] = r.label
      /\ ApplyCommon(template, r)["CAPS"] = template["CAPS"]
  BY CommonSets
<1> QED
  BY <1>1 DEF Fits

LEMMA ShapeFits ==
    ASSUME NEW template, NEW possible, NEW r, Fits(template, possible, r)
    PROVE  Fits(OfShape(template, r), possible, r)
<1>1. /\ "CAPS" \in DOMAIN template /\ "TOKEN" \in DOMAIN template
      /\ "LABEL" \in DOMAIN template
  BY DEF Fits
<1>2. /\ DOMAIN template \subseteq DOMAIN OfShape(template, r)
      /\ OfShape(template, r)["CAPS"] = template["CAPS"]
      /\ OfShape(template, r)["TOKEN"] = template["TOKEN"]
      /\ OfShape(template, r)["LABEL"] = template["LABEL"]
  BY <1>1, ShapeKeeps
<1> QED
  BY <1>2 DEF Fits

LEMMA MergeFits ==
    ASSUME NEW template, NEW possible, NEW r, NEW user, Fits(template, possible, r)
    PROVE  ListFits(Merge(template, user), user, possible, r)
BY MergeKeeps DEF Fits, ListFits

LEMMA FillFits ==
    ASSUME NEW template, "LABEL" \in DOMAIN template, NEW possible, NEW r
    PROVE  Fits(Fill(template, possible, r), possible, r)
<1>1. Fits(ApplyCommon(ApplyCapabilities(template, possible, r.caps), r), possible, r)
  <2>1. /\ {"CAPS", "LABEL"} \subseteq DOMAIN ApplyCapabilities(template, possible, r.caps)
        /\ ApplyCapabilities(template, possible, r.caps)["CAPS"] = possible \cap r.caps
    BY DEF ApplyCapabilities, Set
  <2> QED
    BY <2>1, CommonFits
<1> QED
  BY <1>1 DEF Fill

\* A list made of the call's arguments alone fits.
LEMMA OwnFits ==
    ASSUME NEW r
    PROVE  /\ ListFits(OwnPublic(r), r.publicUser, PublicCaps, r)
           /\ ListFits(OwnPrivate(r), r.privateUser, PrivateCaps, r)
<1>1. "LABEL" \in DOMAIN InitialDefaults
  BY DEF InitialDefaults
<1>2. /\ Fits(Fill(InitialDefaults, PublicCaps, r), PublicCaps, r)
      /\ Fits(Fill(InitialDefaults, PrivateCaps, r), PrivateCaps, r)
  BY <1>1, FillFits
<1>3. Fits(OfShape(Fill(InitialDefaults, PublicCaps, r), r), PublicCaps, r)
  BY <1>2, ShapeFits
<1> QED
  BY <1>2, <1>3, MergeFits DEF OwnPublic, OwnPrivate

-----------------------------------------------------------------------------
(* Steps *)

\* The attribute lists are a function of pairs.
ListInv ==
    attrs = [t \in Threads |-> [public |-> attrs[t].public, private |-> attrs[t].private]]

LEMMA PublicListSet ==
    ASSUME ListInv, NEW t \in Threads, NEW list,
           attrs' = [attrs EXCEPT ![t].public = list]
    PROVE  /\ ListInv'
           /\ attrs'[t].public = list
           /\ \A u \in Threads \ {t} : attrs'[u] = attrs[u]
BY DEF ListInv

LEMMA PrivateListSet ==
    ASSUME ListInv, NEW t \in Threads, NEW list,
           attrs' = [attrs EXCEPT ![t].private = list]
    PROVE  /\ ListInv'
           /\ attrs'[t].private = list
           /\ attrs'[t].public = attrs[t].public
           /\ \A u \in Threads \ {t} : attrs'[u] = attrs[u]
BY DEF ListInv

LEMMA ListsCleared ==
    ASSUME ListInv, NEW t \in Threads,
           attrs' = [attrs EXCEPT ![t] = [public |-> NoTemplate, private |-> NoTemplate]]
    PROVE  /\ ListInv'
           /\ \A u \in Threads \ {t} : attrs'[u] = attrs[u]
BY DEF ListInv

-----------------------------------------------------------------------------
(* Where calls are, and what the templates may hold *)

SecretPlaces == {"secret", "done"}
PairPlaces   == {"public", "publicCommon", "extend", "mergePublic", "private",
                 "privateCommon", "mergePrivate", "done"}

PlaceInv ==
    /\ pc \in [Threads -> {"idle"} \cup SecretPlaces \cup PairPlaces]
    /\ args \in [Threads -> Requests \cup {NoRequest}]
    /\ \A t \in Threads : pc[t] # "idle" =>
          /\ args[t] \in Requests
          /\ pc[t] \in (IF Pair(t) THEN PairPlaces ELSE SecretPlaces)

DomainInv ==
    /\ "LABEL" \in DOMAIN publicDefaults
    /\ DOMAIN publicDefaults \subseteq {"LABEL", "CAPS", "TOKEN", "RSA", "PARAMS"}
    /\ "LABEL" \in DOMAIN privateDefaults
    /\ DOMAIN privateDefaults \subseteq {"LABEL", "CAPS", "TOKEN"}

TypeInv ==
    /\ PlaceInv /\ DomainInv /\ ListInv
    /\ secretDefaults = InitialDefaults
    /\ calls \in 0 .. MaxCalls

\* The invariant of all programs: nobody fills in the secret template.
SecretInv == TypeInv /\ SecretKeysAreOwn

LEMMA InitSecret == Init => SecretInv
<1> SUFFICES ASSUME Init PROVE SecretInv
  OBVIOUS
<1>1. PlaceInv
  BY DEF Init, PlaceInv
<1>2. DomainInv
  BY DEF Init, DomainInv, InitialDefaults
<1>3. ListInv
  BY DEF Init, ListInv
<1>4. calls \in 0 .. MaxCalls
  BY CallsAssumption DEF Init
<1>5. SecretKeysAreOwn
  BY DEF Init, SecretKeysAreOwn, Sent
<1> QED
  BY <1>1, <1>2, <1>3, <1>4, <1>5 DEF SecretInv, TypeInv, Init

\* A step of a call moves it on and leaves the other calls where they are.
LEMMA PlacesMove ==
    ASSUME PlaceInv, NEW t \in Threads, pc[t] # "idle",
           NEW from, NEW to, Goto(t, from, to),
           \/ to = "idle" /\ args' = [args EXCEPT ![t] = NoRequest]
           \/ to \in (IF Pair(t) THEN PairPlaces ELSE SecretPlaces) /\ UNCHANGED args
    PROVE  PlaceInv'
BY DEF PlaceInv, Goto, Pair, SecretPlaces, PairPlaces

LEMMA NextType ==
    ASSUME TypeInv, [Next]_vars
    PROVE  TypeInv'
<1> USE DEF TypeInv
<1>1. ASSUME NEW t \in Threads, NEW r \in Requests, Call(t, r)
      PROVE  TypeInv'
  <2>1. PlaceInv'
    BY <1>1 DEF Call, Goto, PlaceInv, Pair, SecretPlaces, PairPlaces
  <2>2. ListInv'
    BY <1>1, ListsCleared DEF Call
  <2>3. calls' \in 0 .. MaxCalls
    BY <1>1, CallsAssumption DEF Call
  <2> QED
    BY <1>1, <2>1, <2>2, <2>3 DEF Call, DomainInv, defaults
<1>2. ASSUME NEW t \in Threads, SecretKey(t)
      PROVE  TypeInv'
  <2>1. PlaceInv'
    <3>1. ~Pair(t) /\ "done" \in SecretPlaces
      BY <1>2 DEF SecretKey, Goto, PlaceInv, SecretPlaces, PairPlaces
    <3> QED
      BY <1>2, <3>1, PlacesMove DEF SecretKey, Goto
  <2>2. ListInv'
    BY <1>2, PrivateListSet DEF SecretKey
  <2> QED
    BY <1>2, <2>1, <2>2 DEF SecretKey, DomainInv, defaults
<1>3. ASSUME NEW t \in Threads, PublicCapabilities(t)
      PROVE  TypeInv'
  <2>1. PlaceInv'
    <3>1. "publicCommon" \in (IF Pair(t) THEN PairPlaces ELSE SecretPlaces)
      BY <1>3 DEF PublicCapabilities, Goto, PlaceInv, SecretPlaces, PairPlaces
    <3> QED
      BY <1>3, <3>1, PlacesMove DEF PublicCapabilities, Goto
  <2>2. DomainInv'
    BY <1>3 DEF PublicCapabilities, DomainInv, ApplyCapabilities, Set
  <2> QED
    BY <1>3, <2>1, <2>2 DEF PublicCapabilities, ListInv
<1>4. ASSUME NEW t \in Threads, PublicCommon(t)
      PROVE  TypeInv'
  <2>1. PlaceInv'
    <3>1. "extend" \in (IF Pair(t) THEN PairPlaces ELSE SecretPlaces)
      BY <1>4 DEF PublicCommon, Goto, PlaceInv, SecretPlaces, PairPlaces
    <3> QED
      BY <1>4, <3>1, PlacesMove DEF PublicCommon, Goto
  <2>2. DomainInv'
    <3>1. DOMAIN publicDefaults' = DOMAIN publicDefaults \cup {"TOKEN"}
      BY <1>4, CommonSets DEF PublicCommon, DomainInv
    <3> QED
      BY <1>4, <3>1 DEF PublicCommon, DomainInv
  <2> QED
    BY <1>4, <2>1, <2>2 DEF PublicCommon, ListInv
<1>5. ASSUME NEW t \in Threads, Extend(t)
      PROVE  TypeInv'
  <2>1. PlaceInv'
    <3>1. "mergePublic" \in (IF Pair(t) THEN PairPlaces ELSE SecretPlaces)
      BY <1>5 DEF Extend, Goto, PlaceInv, SecretPlaces, PairPlaces
    <3> QED
      BY <1>5, <3>1, PlacesMove DEF Extend, Goto
  <2>2. DomainInv'
    BY <1>5, ShapeKeeps DEF Extend, DomainInv
  <2> QED
    BY <1>5, <2>1, <2>2 DEF Extend, ListInv
<1>6. ASSUME NEW t \in Threads, ExtendFails(t)
      PROVE  TypeInv'
  <2>1. PlaceInv'
    <3>1. "mergePublic" \in (IF Pair(t) THEN PairPlaces ELSE SecretPlaces)
      BY <1>6 DEF ExtendFails, Goto, PlaceInv, SecretPlaces, PairPlaces
    <3> QED
      BY <1>6, <3>1, PlacesMove DEF ExtendFails, Goto
  <2> QED
    BY <1>6, <2>1 DEF ExtendFails, DomainInv, ListInv, defaults
<1>7. ASSUME NEW t \in Threads, Refuse(t)
      PROVE  TypeInv'
  <2>1. PlaceInv'
    BY <1>7, PlacesMove DEF Refuse, Goto
  <2> QED
    BY <1>7, <2>1 DEF Refuse, DomainInv, ListInv, defaults
<1>8. ASSUME NEW t \in Threads, MergePublic(t)
      PROVE  TypeInv'
  <2>1. PlaceInv'
    <3>1. "private" \in (IF Pair(t) THEN PairPlaces ELSE SecretPlaces)
      BY <1>8 DEF MergePublic, Goto, PlaceInv, SecretPlaces, PairPlaces
    <3> QED
      BY <1>8, <3>1, PlacesMove DEF MergePublic, Goto
  <2>2. ListInv'
    BY <1>8, PublicListSet DEF MergePublic
  <2> QED
    BY <1>8, <2>1, <2>2 DEF MergePublic, DomainInv, defaults
<1>9. ASSUME NEW t \in Threads, PrivateCapabilities(t)
      PROVE  TypeInv'
  <2>1. PlaceInv'
    <3>1. "privateCommon" \in (IF Pair(t) THEN PairPlaces ELSE SecretPlaces)
      BY <1>9 DEF PrivateCapabilities, Goto, PlaceInv, SecretPlaces, PairPlaces
    <3> QED
      BY <1>9, <3>1, PlacesMove DEF PrivateCapabilities, Goto
  <2>2. DomainInv'
    BY <1>9 DEF PrivateCapabilities, DomainInv, ApplyCapabilities, Set
  <2> QED
    BY <1>9, <2>1, <2>2 DEF PrivateCapabilities, ListInv
<1>10. ASSUME NEW t \in Threads, PrivateCommon(t)
      PROVE  TypeInv'
  <2>1. PlaceInv'
    <3>1. "mergePrivate" \in (IF Pair(t) THEN PairPlaces ELSE SecretPlaces)
      BY <1>10 DEF PrivateCommon, Goto, PlaceInv, SecretPlaces, PairPlaces
    <3> QED
      BY <1>10, <3>1, PlacesMove DEF PrivateCommon, Goto
  <2>2. DomainInv'
    <3>1. DOMAIN privateDefaults' = DOMAIN privateDefaults \cup {"TOKEN"}
      BY <1>10, CommonSets DEF PrivateCommon, DomainInv
    <3> QED
      BY <1>10, <3>1 DEF PrivateCommon, DomainInv
  <2> QED
    BY <1>10, <2>1, <2>2 DEF PrivateCommon, ListInv
<1>11. ASSUME NEW t \in Threads, MergePrivate(t)
      PROVE  TypeInv'
  <2>1. PlaceInv'
    <3>1. "done" \in (IF Pair(t) THEN PairPlaces ELSE SecretPlaces)
      BY <1>11 DEF MergePrivate, Goto, PlaceInv, SecretPlaces, PairPlaces
    <3> QED
      BY <1>11, <3>1, PlacesMove DEF MergePrivate, Goto
  <2>2. ListInv'
    BY <1>11, PrivateListSet DEF MergePrivate
  <2> QED
    BY <1>11, <2>1, <2>2 DEF MergePrivate, DomainInv, defaults
<1>12. ASSUME NEW t \in Threads, Return(t)
      PROVE  TypeInv'
  <2>1. PlaceInv'
    BY <1>12, PlacesMove DEF Return, Goto
  <2>2. ListInv'
    BY <1>12, ListsCleared DEF Return
  <2> QED
    BY <1>12, <2>1, <2>2 DEF Return, DomainInv, defaults
<1>13. CASE UNCHANGED vars
  BY <1>13 DEF vars, defaults, PlaceInv, DomainInv, ListInv, Pair
<1> QED
  BY <1>1, <1>2, <1>3, <1>4, <1>5, <1>6, <1>7, <1>8, <1>9, <1>10, <1>11, <1>12,
     <1>13 DEF Next, Terminated

-----------------------------------------------------------------------------
(* Secret keys *)

\* What a secret key's call sends depends on its own place, arguments and list.
SecretOf(t) == Sent(t) /\ ~Pair(t) => attrs[t].private = OwnSecret(args[t])

LEMMA NextSecret ==
    ASSUME SecretInv, [Next]_vars
    PROVE  SecretInv'
<1> USE DEF SecretInv, TypeInv
<1>1. TypeInv'
  BY NextType
<1>2. \A t \in Threads : SecretOf(t)
  BY DEF SecretKeysAreOwn, SecretOf
<1>3. ASSUME NEW t \in Threads, NEW u \in Threads \ {t},
             pc'[u] = pc[u], args'[u] = args[u], attrs'[u] = attrs[u]
      PROVE  SecretOf(u)'
  BY <1>2, <1>3 DEF SecretOf, Sent, Pair
<1>4. ASSUME NEW t \in Threads,
             pc' = [pc EXCEPT ![t] = pc'[t]],
             \/ args' = args
             \/ args' = [args EXCEPT ![t] = args'[t]],
             \A u \in Threads \ {t} : attrs'[u] = attrs[u],
             SecretOf(t)'
      PROVE  SecretKeysAreOwn'
  <2>1. ASSUME NEW u \in Threads \ {t}
        PROVE  pc'[u] = pc[u] /\ args'[u] = args[u] /\ attrs'[u] = attrs[u]
    BY <1>4 DEF PlaceInv
  <2>2. \A u \in Threads : SecretOf(u)'
    BY <1>3, <1>4, <2>1
  <2> QED
    BY <2>2 DEF SecretKeysAreOwn, SecretOf
<1>5. ASSUME NEW t \in Threads, NEW r \in Requests, Call(t, r)
      PROVE  SecretKeysAreOwn'
  <2>1. SecretOf(t)'
    BY <1>5 DEF Call, Goto, PlaceInv, SecretOf, Sent
  <2> QED
    BY <1>4, <1>5, <2>1, ListsCleared DEF Call, Goto, PlaceInv
<1>6. ASSUME NEW t \in Threads, SecretKey(t)
      PROVE  SecretKeysAreOwn'
  <2>1. attrs'[t].private = OwnSecret(args[t])
    BY <1>6, PrivateListSet DEF SecretKey, OwnSecret
  <2>2. SecretOf(t)'
    BY <1>6, <2>1 DEF SecretKey, SecretOf
  <2> QED
    BY <1>4, <1>6, <2>2, PrivateListSet DEF SecretKey, Goto, PlaceInv
<1>7. ASSUME NEW t \in Threads,
             \/ PublicCapabilities(t) \/ PublicCommon(t) \/ Extend(t) \/ ExtendFails(t)
             \/ PrivateCapabilities(t) \/ PrivateCommon(t)
      PROVE  SecretKeysAreOwn'
  <2>1. SecretOf(t)'
    BY <1>7 DEF PublicCapabilities, PublicCommon, Extend, ExtendFails,
       PrivateCapabilities, PrivateCommon, Goto, PlaceInv, SecretOf, Sent
  <2>2. args' = args /\ attrs' = attrs
    BY <1>7 DEF PublicCapabilities, PublicCommon, Extend, ExtendFails,
       PrivateCapabilities, PrivateCommon
  <2>3. pc' = [pc EXCEPT ![t] = pc'[t]]
    BY <1>7 DEF PublicCapabilities, PublicCommon, Extend, ExtendFails,
       PrivateCapabilities, PrivateCommon, Goto, PlaceInv
  <2> QED
    BY <1>4, <2>1, <2>2, <2>3
<1>8. ASSUME NEW t \in Threads, MergePublic(t)
      PROVE  SecretKeysAreOwn'
  <2>1. SecretOf(t)'
    BY <1>8 DEF MergePublic, Goto, PlaceInv, SecretOf, Sent
  <2> QED
    BY <1>4, <1>8, <2>1, PublicListSet DEF MergePublic, Goto, PlaceInv
<1>9. ASSUME NEW t \in Threads, MergePrivate(t)
      PROVE  SecretKeysAreOwn'
  <2>1. SecretOf(t)'
    BY <1>9 DEF MergePrivate, Goto, PlaceInv, SecretPlaces, SecretOf, Pair
  <2> QED
    BY <1>4, <1>9, <2>1, PrivateListSet DEF MergePrivate, Goto, PlaceInv
<1>10. ASSUME NEW t \in Threads, Refuse(t)
       PROVE  SecretKeysAreOwn'
  <2>1. SecretOf(t)'
    BY <1>10 DEF Refuse, Goto, PlaceInv, SecretOf, Sent
  <2> QED
    BY <1>4, <1>10, <2>1 DEF Refuse, Goto, PlaceInv
<1>11. ASSUME NEW t \in Threads, Return(t)
       PROVE  SecretKeysAreOwn'
  <2>1. SecretOf(t)'
    BY <1>11 DEF Return, Goto, PlaceInv, SecretOf, Sent
  <2> QED
    BY <1>4, <1>11, <2>1, ListsCleared DEF Return, Goto, PlaceInv
<1>12. CASE UNCHANGED vars
  BY <1>1, <1>12 DEF vars, SecretKeysAreOwn, Sent, Pair
<1>13. SecretKeysAreOwn'
  BY <1>5, <1>6, <1>7, <1>8, <1>9, <1>10, <1>11, <1>12 DEF Next, Terminated
<1> QED
  BY <1>1, <1>13

LEMMA SecretInvariant == Spec => []SecretInv
<1>1. Init => SecretInv
  BY InitSecret
<1>2. SecretInv /\ [Next]_vars => SecretInv'
  BY NextSecret
<1> QED
  BY <1>1, <1>2, PTL DEF Spec

\* A default template keeps its attributes whatever a call removes from the list it
\* sends, and gains only what its kind can have: merge_templates copies.
THEOREM TemplatesKeepTheirAttributes == Spec => []TypeOK
<1>1. SecretInv => TypeOK
  <2> SUFFICES ASSUME SecretInv PROVE TypeOK
    OBVIOUS
  <2> USE DEF SecretInv, TypeInv, DomainInv
  <2>1. DOMAIN InitialDefaults = {"LABEL"}
    BY DEF InitialDefaults
  <2>2. PICK new \in SUBSET {"CAPS", "TOKEN", "RSA", "PARAMS"} :
           DOMAIN publicDefaults = {"LABEL"} \cup new
    <3> WITNESS DOMAIN publicDefaults \ {"LABEL"} \in SUBSET {"CAPS", "TOKEN", "RSA", "PARAMS"}
    <3> QED
      OBVIOUS
  <2>3. PICK more \in SUBSET {"CAPS", "TOKEN"} : DOMAIN privateDefaults = {"LABEL"} \cup more
    <3> WITNESS DOMAIN privateDefaults \ {"LABEL"} \in SUBSET {"CAPS", "TOKEN"}
    <3> QED
      OBVIOUS
  <2> QED
    BY <2>1, <2>2, <2>3 DEF TypeOK, PlaceInv
<1> QED
  BY <1>1, SecretInvariant, PTL

\* A secret key gets the attributes of its own call: generate_key works on a copy of
\* its template, and so it does with any number of threads that generate keys and key
\* pairs with one mapper, one at a time or not.
THEOREM SecretKeysGetTheirOwn == Spec => []SecretKeysAreOwn
<1>1. SecretInv => SecretKeysAreOwn
  BY DEF SecretInv
<1> QED
  BY <1>1, SecretInvariant, PTL

-----------------------------------------------------------------------------
(* Key pairs, generated one at a time *)

\* What is right so far about the pair t makes.
PairOf(t) == MakesPair(t) =>
    /\ pc[t] = "publicCommon" =>
          "CAPS" \in DOMAIN publicDefaults /\ publicDefaults["CAPS"] = PublicCaps \cap args[t].caps
    /\ pc[t] \in {"extend", "mergePublic"} => Fits(publicDefaults, PublicCaps, args[t])
    /\ pc[t] \in {"private", "privateCommon", "mergePrivate", "done"} =>
          ListFits(attrs[t].public, args[t].publicUser, PublicCaps, args[t])
    /\ pc[t] = "privateCommon" =>
          "CAPS" \in DOMAIN privateDefaults /\ privateDefaults["CAPS"] = PrivateCaps \cap args[t].caps
    /\ pc[t] = "mergePrivate" => Fits(privateDefaults, PrivateCaps, args[t])
    /\ pc[t] = "done" => ListFits(attrs[t].private, args[t].privateUser, PrivateCaps, args[t])

PairInv ==
    /\ TypeInv
    /\ \A t, u \in Threads : MakesPair(t) /\ MakesPair(u) => t = u
    /\ \A t \in Threads : PairOf(t)

\* A step of t leaves the pair of another thread alone, as there is none if t makes one.
LEMMA OthersStay ==
    ASSUME PairInv, NEW t \in Threads,
           pc' = [pc EXCEPT ![t] = pc'[t]],
           \/ args' = args
           \/ args' = [args EXCEPT ![t] = args'[t]],
           \A u \in Threads \ {t} : attrs'[u] = attrs[u],
           UNCHANGED <<publicDefaults, privateDefaults>> \/ MakesPair(t),
           MakesPair(t)' => MakesPair(t) \/ \A u \in Threads : ~MakesPair(u),
           PairOf(t)', TypeInv'
    PROVE  PairInv'
<1>1. \A u \in Threads \ {t} : pc'[u] = pc[u] /\ args'[u] = args[u] /\ attrs'[u] = attrs[u]
  BY DEF PairInv, TypeInv, PlaceInv
<1>2. \A u \in Threads \ {t} : MakesPair(u)' <=> MakesPair(u)
  BY <1>1 DEF MakesPair
<1>3. \A u, v \in Threads : MakesPair(u)' /\ MakesPair(v)' => u = v
  BY <1>2 DEF PairInv
<1>4. ASSUME NEW u \in Threads \ {t}
      PROVE  PairOf(u)'
  <2>1. CASE MakesPair(u)
    <3>1. UNCHANGED <<publicDefaults, privateDefaults>>
      BY <2>1 DEF PairInv
    <3>2. PairOf(u)
      BY DEF PairInv
    <3> QED
      BY <1>1, <2>1, <3>1, <3>2 DEF PairOf, MakesPair
  <2>2. CASE ~MakesPair(u)
    BY <1>2, <2>2 DEF PairOf
  <2> QED
    BY <2>1, <2>2
<1> QED
  BY <1>3, <1>4 DEF PairInv

LEMMA NextPair ==
    ASSUME SerialPairs, PairInv, [Next]_vars
    PROVE  PairInv'
<1>1. TypeInv'
  BY NextType DEF PairInv
<1> USE DEF TypeInv
<1>2. ASSUME NEW t \in Threads, NEW r \in Requests, Call(t, r)
      PROVE  PairInv'
  <2>1. /\ pc' = [pc EXCEPT ![t] = pc'[t]]
        /\ args' = [args EXCEPT ![t] = args'[t]]
        /\ pc'[t] \in {"secret", "public"}
        /\ ~MakesPair(t)
    BY <1>2 DEF Call, Goto, PairInv, PlaceInv, MakesPair
  <2>2. PairOf(t)'
    BY <2>1 DEF PairOf
  <2>3. MakesPair(t)' => \A u \in Threads : ~MakesPair(u)
    BY <1>2 DEF Call, MakesPair, PairInv, PlaceInv
  <2> QED
    BY <1>1, <1>2, <2>1, <2>2, <2>3, OthersStay, ListsCleared DEF Call, defaults,
       PairInv
<1>3. ASSUME NEW t \in Threads, SecretKey(t)
      PROVE  PairInv'
  <2>1. /\ pc' = [pc EXCEPT ![t] = pc'[t]]
        /\ ~MakesPair(t) /\ ~MakesPair(t)'
    BY <1>3 DEF SecretKey, Goto, PairInv, PlaceInv, MakesPair, Pair, PairPlaces
  <2>2. PairOf(t)'
    BY <2>1 DEF PairOf
  <2> QED
    BY <1>1, <1>3, <2>1, <2>2, OthersStay, PrivateListSet DEF SecretKey, defaults,
       PairInv
<1>4. ASSUME NEW t \in Threads, PublicCapabilities(t)
      PROVE  PairInv'
  <2>1. /\ pc' = [pc EXCEPT ![t] = "publicCommon"]
        /\ MakesPair(t)
    BY <1>4 DEF PublicCapabilities, Goto, PairInv, PlaceInv, MakesPair, Pair,
       SecretPlaces
  <2>2. /\ "CAPS" \in DOMAIN publicDefaults'
        /\ publicDefaults'["CAPS"] = PublicCaps \cap args[t].caps
    BY <1>4 DEF PublicCapabilities, ApplyCapabilities, Set
  <2>3. PairOf(t)'
    BY <1>4, <2>1, <2>2 DEF PublicCapabilities, PairOf, PairInv, PlaceInv
  <2> QED
    BY <1>1, <1>4, <2>1, <2>3, OthersStay DEF PublicCapabilities, PairInv, PlaceInv
<1>5. ASSUME NEW t \in Threads, PublicCommon(t)
      PROVE  PairInv'
  <2>1. /\ pc' = [pc EXCEPT ![t] = "extend"]
        /\ MakesPair(t)
    BY <1>5 DEF PublicCommon, Goto, PairInv, PlaceInv, MakesPair, Pair, SecretPlaces
  <2>2. Fits(publicDefaults', PublicCaps, args[t])
    <3>1. /\ {"CAPS", "LABEL"} \subseteq DOMAIN publicDefaults
          /\ publicDefaults["CAPS"] = PublicCaps \cap args[t].caps
      BY <1>5, <2>1 DEF PublicCommon, Goto, PairInv, PairOf, DomainInv
    <3>2. publicDefaults' = ApplyCommon(publicDefaults, args[t])
      BY <1>5 DEF PublicCommon
    <3> QED
      BY <3>1, <3>2, CommonFits
  <2>3. PairOf(t)'
    BY <1>5, <2>1, <2>2 DEF PublicCommon, PairOf, PairInv, PlaceInv
  <2> QED
    BY <1>1, <1>5, <2>1, <2>3, OthersStay DEF PublicCommon, PairInv, PlaceInv
<1>6. ASSUME NEW t \in Threads, Extend(t)
      PROVE  PairInv'
  <2>1. /\ pc' = [pc EXCEPT ![t] = "mergePublic"]
        /\ MakesPair(t)
    BY <1>6 DEF Extend, Goto, PairInv, PlaceInv, MakesPair, Pair, SecretPlaces
  <2>2. Fits(publicDefaults', PublicCaps, args[t])
    BY <1>6, <2>1, ShapeFits DEF Extend, Goto, PairInv, PairOf
  <2>3. PairOf(t)'
    BY <1>6, <2>1, <2>2 DEF Extend, PairOf, PairInv, PlaceInv
  <2> QED
    BY <1>1, <1>6, <2>1, <2>3, OthersStay DEF Extend, PairInv, PlaceInv
<1>7. ASSUME NEW t \in Threads, ExtendFails(t)
      PROVE  PairInv'
  <2>1. /\ pc' = [pc EXCEPT ![t] = "mergePublic"]
        /\ MakesPair(t)
    BY <1>7 DEF ExtendFails, Goto, PairInv, PlaceInv, MakesPair, Pair, SecretPlaces
  <2>2. PairOf(t)'
    BY <1>7, <2>1 DEF ExtendFails, Goto, PairOf, PairInv, PlaceInv, defaults
  <2> QED
    BY <1>1, <1>7, <2>1, <2>2, OthersStay DEF ExtendFails, PairInv, PlaceInv, defaults
<1>8. ASSUME NEW t \in Threads, MergePublic(t)
      PROVE  PairInv'
  <2>1. /\ pc' = [pc EXCEPT ![t] = "private"]
        /\ MakesPair(t)
    BY <1>8 DEF MergePublic, Goto, PairInv, PlaceInv, MakesPair, Pair, SecretPlaces
  <2>2. ListFits(attrs'[t].public, args[t].publicUser, PublicCaps, args[t])
    <3>1. Fits(publicDefaults, PublicCaps, args[t])
      BY <1>8, <2>1 DEF MergePublic, Goto, PairInv, PairOf
    <3>2. attrs'[t].public = Merge(publicDefaults, args[t].publicUser)
      BY <1>8, PublicListSet DEF MergePublic, PairInv
    <3> DEFINE user == args[t].publicUser
    <3> HIDE DEF user
    <3>3. ListFits(Merge(publicDefaults, user), user, PublicCaps, args[t])
      BY <3>1, MergeFits
    <3> QED
      BY <3>2, <3>3 DEF user
  <2>3. PairOf(t)'
    BY <1>8, <2>1, <2>2 DEF MergePublic, PairOf, PairInv, PlaceInv
  <2> QED
    BY <1>1, <1>8, <2>1, <2>3, OthersStay, PublicListSet DEF MergePublic, PairInv,
       PlaceInv, defaults
<1>9. ASSUME NEW t \in Threads, PrivateCapabilities(t)
      PROVE  PairInv'
  <2>1. /\ pc' = [pc EXCEPT ![t] = "privateCommon"]
        /\ MakesPair(t)
    BY <1>9 DEF PrivateCapabilities, Goto, PairInv, PlaceInv, MakesPair, Pair,
       SecretPlaces
  <2>2. /\ "CAPS" \in DOMAIN privateDefaults'
        /\ privateDefaults'["CAPS"] = PrivateCaps \cap args[t].caps
    BY <1>9 DEF PrivateCapabilities, ApplyCapabilities, Set
  <2>3. PairOf(t)'
    BY <1>9, <2>1, <2>2 DEF PrivateCapabilities, Goto, PairOf, PairInv, PlaceInv
  <2> QED
    BY <1>1, <1>9, <2>1, <2>3, OthersStay DEF PrivateCapabilities, PairInv, PlaceInv
<1>10. ASSUME NEW t \in Threads, PrivateCommon(t)
      PROVE  PairInv'
  <2>1. /\ pc' = [pc EXCEPT ![t] = "mergePrivate"]
        /\ MakesPair(t)
    BY <1>10 DEF PrivateCommon, Goto, PairInv, PlaceInv, MakesPair, Pair, SecretPlaces
  <2>2. Fits(privateDefaults', PrivateCaps, args[t])
    <3>1. /\ {"CAPS", "LABEL"} \subseteq DOMAIN privateDefaults
          /\ privateDefaults["CAPS"] = PrivateCaps \cap args[t].caps
      BY <1>10, <2>1 DEF PrivateCommon, Goto, PairInv, PairOf, DomainInv
    <3>2. privateDefaults' = ApplyCommon(privateDefaults, args[t])
      BY <1>10 DEF PrivateCommon
    <3> QED
      BY <3>1, <3>2, CommonFits
  <2>3. PairOf(t)'
    BY <1>10, <2>1, <2>2 DEF PrivateCommon, Goto, PairOf, PairInv, PlaceInv
  <2> QED
    BY <1>1, <1>10, <2>1, <2>3, OthersStay DEF PrivateCommon, PairInv, PlaceInv
<1>11. ASSUME NEW t \in Threads, MergePrivate(t)
      PROVE  PairInv'
  <2>1. /\ pc' = [pc EXCEPT ![t] = "done"]
        /\ MakesPair(t)
    BY <1>11 DEF MergePrivate, Goto, PairInv, PlaceInv, MakesPair, Pair, SecretPlaces
  <2>2. ListFits(attrs'[t].private, args[t].privateUser, PrivateCaps, args[t])
    <3>1. Fits(privateDefaults, PrivateCaps, args[t])
      BY <1>11, <2>1 DEF MergePrivate, Goto, PairInv, PairOf
    <3>2. attrs'[t].private = Merge(privateDefaults, args[t].privateUser)
      BY <1>11, PrivateListSet DEF MergePrivate, PairInv
    <3> DEFINE user == args[t].privateUser
    <3> HIDE DEF user
    <3>3. ListFits(Merge(privateDefaults, user), user, PrivateCaps, args[t])
      BY <3>1, MergeFits
    <3> QED
      BY <3>2, <3>3 DEF user
  <2>3. attrs'[t].public = attrs[t].public
    BY <1>11, PrivateListSet DEF MergePrivate, PairInv
  <2>4. PairOf(t)'
    BY <1>11, <2>1, <2>2, <2>3 DEF MergePrivate, Goto, PairOf, PairInv, PlaceInv
  <2> QED
    BY <1>1, <1>11, <2>1, <2>4, OthersStay, PrivateListSet DEF MergePrivate, PairInv,
       PlaceInv, defaults
<1>12. ASSUME NEW t \in Threads, Refuse(t)
      PROVE  PairInv'
  <2>1. /\ pc' = [pc EXCEPT ![t] = "idle"]
        /\ args' = [args EXCEPT ![t] = args'[t]]
        /\ ~MakesPair(t)'
    BY <1>12 DEF Refuse, Goto, PairInv, PlaceInv, MakesPair
  <2>2. PairOf(t)'
    BY <2>1 DEF PairOf
  <2> QED
    BY <1>1, <1>12, <2>1, <2>2, OthersStay DEF Refuse, PairInv, PlaceInv, defaults
<1>13. ASSUME NEW t \in Threads, Return(t)
      PROVE  PairInv'
  <2>1. /\ pc' = [pc EXCEPT ![t] = "idle"]
        /\ args' = [args EXCEPT ![t] = args'[t]]
        /\ ~MakesPair(t)'
    BY <1>13 DEF Return, Goto, PairInv, PlaceInv, MakesPair
  <2>2. PairOf(t)'
    BY <2>1 DEF PairOf
  <2> QED
    BY <1>1, <1>13, <2>1, <2>2, OthersStay, ListsCleared DEF Return, PairInv, PlaceInv,
       defaults
<1>14. CASE UNCHANGED vars
  BY <1>1, <1>14 DEF vars, defaults, PairInv, PairOf, MakesPair
<1> QED
  BY <1>2, <1>3, <1>4, <1>5, <1>6, <1>7, <1>8, <1>9, <1>10, <1>11, <1>12, <1>13,
     <1>14 DEF Next, Terminated

LEMMA PairInvariant ==
    ASSUME SerialPairs
    PROVE  Spec => []PairInv
<1>1. Init => PairInv
  BY InitSecret DEF Init, SecretInv, PairInv, PairOf, MakesPair
<1>2. PairInv /\ [Next]_vars => PairInv'
  BY NextPair
<1> QED
  BY <1>1, <1>2, PTL DEF Spec

\* If pairs are generated one at a time, a key may do exactly what its own call says, and
\* is stored where it says, for any number of threads and calls before it.
THEOREM PairsMayDoWhatTheyShould ==
    ASSUME SerialPairs
    PROVE  Spec => []CapabilitiesAreOwn
<1>1. PairInv => CapabilitiesAreOwn
  <2> SUFFICES ASSUME PairInv, NEW t \in Threads, Sent(t), Pair(t)
               PROVE  \A a \in {"CAPS", "TOKEN"} :
                         /\ attrs[t].public[a] = OwnPublic(args[t])[a]
                         /\ attrs[t].private[a] = OwnPrivate(args[t])[a]
    BY DEF CapabilitiesAreOwn
  <2>1. /\ ListFits(attrs[t].public, args[t].publicUser, PublicCaps, args[t])
        /\ ListFits(attrs[t].private, args[t].privateUser, PrivateCaps, args[t])
    BY DEF PairInv, PairOf, MakesPair, Sent, Pair
  <2>2. /\ ListFits(OwnPublic(args[t]), args[t].publicUser, PublicCaps, args[t])
        /\ ListFits(OwnPrivate(args[t]), args[t].privateUser, PrivateCaps, args[t])
    BY OwnFits
  <2> QED
    BY <2>1, <2>2 DEF ListFits
<1> QED
  BY <1>1, PairInvariant, PTL

\* ... and both keys get the label it says.
THEOREM PairsGetTheirLabel ==
    ASSUME SerialPairs
    PROVE  Spec => []GivenLabelIsSent
<1>1. PairInv => GivenLabelIsSent
  BY DEF PairInv, PairOf, MakesPair, Sent, Pair, ListFits, GivenLabelIsSent
<1> QED
  BY <1>1, PairInvariant, PTL
=============================================================================
