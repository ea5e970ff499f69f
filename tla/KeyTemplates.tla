----------------------------- MODULE KeyTemplates -----------------------------
(***************************************************************************)
(* The templates of generated keys: attributes.AttributeMapper and the     *)
(* generate functions that fill them in.                                   *)
(*                                                                         *)
(* A mapper belongs to a session, or to all sessions it is passed to, and  *)
(* keeps a default template for secret, public and private keys.  The      *)
(* secret one is copied for each call; the other two are filled in place.  *)
(* Threads share the mapper, its methods are Python code and reading the   *)
(* domain parameters releases the GIL, so another thread may run between   *)
(* any two of the steps below.                                             *)
(***************************************************************************)
EXTENDS Naturals, Functions

CONSTANTS
    Threads,       \* threads that generate keys with one mapper
    Labels,        \* the non-empty labels (and ids, which are handled alike)
    Shapes,        \* what the program generates: \subseteq AllShapes
    SerialPairs,   \* the program lets one thread at a time generate a key pair
    MaxCalls       \* calls in a behaviour (bound)

\* "secret": generate_key; "rsa": generate_keypair(RSA); "params": generate_keypair
\* of domain parameters; "unsized": generate_keypair(RSA) without a key_length.
AllShapes == {"secret", "rsa", "params", "unsized"}

ASSUME ShapesAssumption == Shapes \subseteq AllShapes
ASSUME LabelsAssumption == "" \notin Labels
ASSUME SerialAssumption == SerialPairs \in BOOLEAN
ASSUME CallsAssumption  == MaxCalls \in Nat

VARIABLES
    secretDefaults,   \* AttributeMapper.default_secret_key_template
    publicDefaults,   \* AttributeMapper.default_public_key_template
    privateDefaults,  \* AttributeMapper.default_private_key_template
    pc,               \* per thread: where it is in a generate function
    args,             \* its arguments
    attrs,            \* the attribute lists built so far: [public, private]
    calls             \* calls made

defaults == <<secretDefaults, publicDefaults, privateDefaults>>
vars == <<defaults, pc, args, attrs, calls>>

(***************************************************************************)
(* A template is a function from some attributes to values.  "CAPS" stands *)
(* for the capability attributes a kind of key has, with the set of those  *)
(* that are true; "RSA" for PUBLIC_EXPONENT and MODULUS_BITS; "PARAMS" for *)
(* the domain parameters.  Attributes that never change are left out.      *)
(***************************************************************************)
PublicCaps  == {"encrypt", "verify"}
PrivateCaps == {"decrypt", "sign"}
AllCaps     == PublicCaps \cup PrivateCaps

InitialDefaults == [a \in {"LABEL"} |-> ""]

\* What a caller can ask for.  publicUser and privateUser are the additional
\* templates (generate_key has one, privateUser): none, or one with LABEL: DEFAULT,
\* which removes the attribute.
Requests == [shape : Shapes, label : Labels \cup {""}, store : BOOLEAN,
             caps : {AllCaps, {"sign", "verify"}},
             publicUser : {"none", "DEFAULT"}, privateUser : {"none", "DEFAULT"}]
NoRequest  == [shape |-> "none"]
NoTemplate == <<>>

Set(template, a, v) ==
    [b \in DOMAIN template \cup {a} |-> IF b = a THEN v ELSE template[b]]

Init ==
    /\ secretDefaults = InitialDefaults
    /\ publicDefaults = InitialDefaults
    /\ privateDefaults = InitialDefaults
    /\ pc = [t \in Threads |-> "idle"]
    /\ args = [t \in Threads |-> NoRequest]
    /\ attrs = [t \in Threads |-> [public |-> NoTemplate, private |-> NoTemplate]]
    /\ calls = 0

-----------------------------------------------------------------------------
(* The mapper *)

\* Mutant: a capability that is not asked for is left as it is.
OnlyTrueCapabilities(template, possible, asked) ==
    LET old == IF "CAPS" \in DOMAIN template THEN template["CAPS"] ELSE {}
    IN  Set(template, "CAPS", old \cup (possible \cap asked))

\* _apply_capabilities sets every capability of the kind, true or false.
ApplyCapabilities(template, possible, asked) ==
    Set(template, "CAPS", possible \cap asked)

\* Mutant: a label that is already there is kept.
ApplyFirstLabel(template, r) ==
    LET labelled == IF r.label # "" /\ template["LABEL"] = ""
                      THEN Set(template, "LABEL", r.label) ELSE template
    IN  Set(labelled, "TOKEN", r.store)

\* _apply_common: an empty id or label is not set, TOKEN always is.
ApplyCommon(template, r) ==
    LET labelled == IF r.label # "" THEN Set(template, "LABEL", r.label) ELSE template
    IN  Set(labelled, "TOKEN", r.store)

Fill(template, possible, r) ==
    ApplyCommon(ApplyCapabilities(template, possible, r.caps), r)

\* What the generate functions add to the public template.
OfShape(template, r) ==
    CASE r.shape = "rsa"    -> Set(template, "RSA", TRUE)
      [] r.shape = "params" -> Set(template, "PARAMS", TRUE)
      [] OTHER              -> template

\* merge_templates copies the template, lets the caller's attributes win and
\* drops the ones whose value is DEFAULT.
Merge(template, user) ==
    IF user = "DEFAULT" THEN Restrict(template, DOMAIN template \ {"LABEL"}) ELSE template

-----------------------------------------------------------------------------
(* Steps of a call *)

Goto(t, from, to) == pc[t] = from /\ pc' = [pc EXCEPT ![t] = to]

MakesPair(t) == pc[t] # "idle" /\ args[t].shape # "secret"

Call(t, r) ==
    /\ calls < MaxCalls
    /\ SerialPairs /\ r.shape # "secret" => \A u \in Threads : ~MakesPair(u)
    /\ Goto(t, "idle", IF r.shape = "secret" THEN "secret" ELSE "public")
    /\ args' = [args EXCEPT ![t] = r]
    /\ attrs' = [attrs EXCEPT ![t] = [public |-> NoTemplate, private |-> NoTemplate]]
    /\ calls' = calls + 1
    /\ UNCHANGED defaults

\* Mutant: the secret defaults are filled in place too.
SecretKeyInPlace(t) ==
    /\ Goto(t, "secret", "done")
    /\ secretDefaults' = Fill(secretDefaults, AllCaps, args[t])
    /\ attrs' = [attrs EXCEPT ![t].private = Merge(secretDefaults', args[t].privateUser)]
    /\ UNCHANGED <<publicDefaults, privateDefaults, args, calls>>

\* generate_key: secret_key_template works on a copy of the defaults.
SecretKey(t) ==
    /\ Goto(t, "secret", "done")
    /\ attrs' = [attrs EXCEPT ![t].private =
                    Merge(Fill(secretDefaults, AllCaps, args[t]), args[t].privateUser)]
    /\ UNCHANGED <<defaults, args, calls>>

\* public_key_template fills in the default template itself, first the
\* capabilities and then the rest, and returns it, not a copy.
PublicCapabilities(t) ==
    /\ Goto(t, "public", "publicCommon")
    /\ publicDefaults' = ApplyCapabilities(publicDefaults, PublicCaps, args[t].caps)
    /\ UNCHANGED <<secretDefaults, privateDefaults, args, attrs, calls>>

PublicCommon(t) ==
    /\ Goto(t, "publicCommon", "extend")
    /\ publicDefaults' = ApplyCommon(publicDefaults, args[t])
    /\ UNCHANGED <<secretDefaults, privateDefaults, args, attrs, calls>>

\* public_template_.update(...): the attributes of the kind of key.
Extend(t) ==
    /\ Goto(t, "extend", "mergePublic")
    /\ args[t].shape # "unsized"
    /\ publicDefaults' = OfShape(publicDefaults, args[t])
    /\ UNCHANGED <<secretDefaults, privateDefaults, args, attrs, calls>>

\* get_attributes fails with AttributeTypeInvalid or FunctionFailed: pass.
ExtendFails(t) ==
    /\ Goto(t, "extend", "mergePublic")
    /\ args[t].shape = "params"
    /\ UNCHANGED <<defaults, args, attrs, calls>>

\* An RSA pair without key_length, or another failure of get_attributes: the call
\* raises, after it has filled in the template.
Refuse(t) ==
    /\ Goto(t, "extend", "idle")
    /\ args[t].shape \in {"unsized", "params"}
    /\ args' = [args EXCEPT ![t] = NoRequest]
    /\ UNCHANGED <<defaults, attrs, calls>>

MergePublic(t) ==
    /\ Goto(t, "mergePublic", "private")
    /\ attrs' = [attrs EXCEPT ![t].public = Merge(publicDefaults, args[t].publicUser)]
    /\ UNCHANGED <<defaults, args, calls>>

\* private_key_template fills in the default template as well.
PrivateCapabilities(t) ==
    /\ Goto(t, "private", "privateCommon")
    /\ privateDefaults' = ApplyCapabilities(privateDefaults, PrivateCaps, args[t].caps)
    /\ UNCHANGED <<secretDefaults, publicDefaults, args, attrs, calls>>

PrivateCommon(t) ==
    /\ Goto(t, "privateCommon", "mergePrivate")
    /\ privateDefaults' = ApplyCommon(privateDefaults, args[t])
    /\ UNCHANGED <<secretDefaults, publicDefaults, args, attrs, calls>>

MergePrivate(t) ==
    /\ Goto(t, "mergePrivate", "done")
    /\ attrs' = [attrs EXCEPT ![t].private = Merge(privateDefaults, args[t].privateUser)]
    /\ UNCHANGED <<defaults, args, calls>>

\* C_GenerateKey or C_GenerateKeyPair is called with the attribute lists.
Return(t) ==
    /\ Goto(t, "done", "idle")
    /\ args' = [args EXCEPT ![t] = NoRequest]
    /\ attrs' = [attrs EXCEPT ![t] = [public |-> NoTemplate, private |-> NoTemplate]]
    /\ UNCHANGED <<defaults, calls>>

Terminated ==
    /\ calls = MaxCalls
    /\ \A t \in Threads : pc[t] = "idle"
    /\ UNCHANGED vars

Next ==
    \/ \E t \in Threads :
          \/ \E r \in Requests : Call(t, r)
          \/ SecretKey(t)
          \/ PublicCapabilities(t) \/ PublicCommon(t)
          \/ Extend(t) \/ ExtendFails(t) \/ Refuse(t) \/ MergePublic(t)
          \/ PrivateCapabilities(t) \/ PrivateCommon(t) \/ MergePrivate(t)
          \/ Return(t)
    \/ Terminated

Spec == Init /\ [][Next]_vars

-----------------------------------------------------------------------------
(* Properties *)

\* Every default template keeps its attributes, whatever a call removed from the
\* list it sends; public and private ones gain only what a pair can have.
TypeOK ==
    /\ DOMAIN secretDefaults = DOMAIN InitialDefaults
    /\ DOMAIN publicDefaults \in {DOMAIN InitialDefaults \cup new :
            new \in SUBSET {"CAPS", "TOKEN", "RSA", "PARAMS"}}
    /\ DOMAIN privateDefaults \in {DOMAIN InitialDefaults \cup new :
            new \in SUBSET {"CAPS", "TOKEN"}}
    /\ calls \in 0 .. MaxCalls
    /\ \A t \in Threads : pc[t] # "idle" => args[t] \in Requests

Sent(t) == pc[t] = "done"
Pair(t) == args[t].shape # "secret"

\* What a call should send, as a function of its arguments alone.
OwnSecret(r)  == Merge(Fill(InitialDefaults, AllCaps, r), r.privateUser)
OwnPublic(r)  == Merge(OfShape(Fill(InitialDefaults, PublicCaps, r), r), r.publicUser)
OwnPrivate(r) == Merge(Fill(InitialDefaults, PrivateCaps, r), r.privateUser)

\* A secret key gets the attributes of its own call, whatever key pairs and
\* secret keys other calls and other threads make with the same mapper.
SecretKeysAreOwn ==
    \A t \in Threads : Sent(t) /\ ~Pair(t) => attrs[t].private = OwnSecret(args[t])

\* A key of a pair may do exactly what its own call says, and is stored where it
\* says, although the templates are reused.  (If pairs are generated one at a time.)
CapabilitiesAreOwn ==
    \A t \in Threads : Sent(t) /\ Pair(t) =>
        \A a \in {"CAPS", "TOKEN"} :
            /\ attrs[t].public[a] = OwnPublic(args[t])[a]
            /\ attrs[t].private[a] = OwnPrivate(args[t])[a]

\* A label that is given to generate_keypair is the one both halves are found
\* under, whatever earlier calls left behind.  (If pairs are generated one at a time.)
GivenLabelIsSent ==
    \A t \in Threads : Sent(t) /\ Pair(t) /\ args[t].label # "" =>
        /\ args[t].publicUser = "none" => attrs[t].public["LABEL"] = args[t].label
        /\ args[t].privateUser = "none" => attrs[t].private["LABEL"] = args[t].label

\* A key of a pair has the attributes of its own call and no others: the label it
\* was given (types.py: "Key label."), or none.
PairsAreOwn ==
    \A t \in Threads : Sent(t) /\ Pair(t) =>
        /\ attrs[t].public = OwnPublic(args[t])
        /\ attrs[t].private = OwnPrivate(args[t])
=============================================================================
