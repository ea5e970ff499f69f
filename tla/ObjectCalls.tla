----------------------------- MODULE ObjectCalls -----------------------------
(***************************************************************************)
(* Token objects and the Python objects that stand for them:               *)
(* src/pkcs11/_pkcs11.pyx, make_object, SearchIter, Session.get_objects,   *)
(* the calls that create objects, and types.py, Session.get_key.           *)
(*                                                                         *)
(* Every call that returns objects gets handles from the token and then    *)
(* reads attributes of each handle (make_object), with two C calls or more *)
(* (AttributeLists).  A search makes its objects one by one, as the caller *)
(* asks for them.  Nothing but the search holds a lock, so that another    *)
(* thread may change or destroy an object between any two C calls.         *)
(***************************************************************************)
EXTENDS AttributeLists, FiniteSets

CONSTANTS
    Threads, NoThread,
    Flags,       \* the capability attributes: ENCRYPT, DECRYPT, SIGN...
    ObjectKeys,  \* attr_keys of make_object: the class and the flags, in order
    Classes,     \* the classes in _CLASS_MAP
    Plain,       \* the class of a bare Object
    ParamKeys,   \* the domain parameters that generate_keypair copies
    Stored,      \* the objects on the token at the start (sequence)
    Made,        \* what one call can create: sequences of one or two objects
    Params,      \* the domain parameters that generate_domain_parameters makes
    MakerFlags,  \* the flags that let a key make a key: UNWRAP, DERIVE
    Templates,   \* the search templates: partial functions on the attributes
    Changes,     \* <<attribute, value>> pairs the program sets
    Batch,       \* batch_size of get_objects
    MaxObjects,  \* handles the token gives out (bound)
    MaxCalls,    \* calls the program makes (bound)
    MaxOdd       \* reads in which the token deviates (bound)

Class == Head(ObjectKeys)          \* CKA_CLASS
Handles == 1..MaxObjects
NoHandle == 0

Attributes == KeySet(ObjectKeys) \union KeySet(ParamKeys)
AttributeValues == DOMAIN Size
Contents == [Attributes -> AttributeValues \union {Unavailable}]

ASSUME ObjectsAssumption ==
    /\ NoThread \notin Threads
    /\ Batch \in Nat \ {0} /\ MaxObjects \in Nat /\ MaxCalls \in Nat /\ MaxOdd \in Nat
    /\ ObjectKeys \in Seq(Attributes) /\ ObjectKeys # <<>> /\ ParamKeys \in Seq(Attributes)
    /\ Flags \subseteq Attributes
    /\ Stored \in Seq(Contents) /\ Len(Stored) <= MaxObjects
    /\ Made \subseteq Seq(Contents) /\ Params \in Contents
    /\ Changes \subseteq Attributes \X AttributeValues
    /\ Plain \notin Classes

ASSUME ValuesAssumption ==
    /\ \A v \in AttributeValues : Size[v] \in Nat
    /\ Unavailable \notin AttributeValues \union Nat /\ Garbage \notin AttributeValues
    /\ Gone \notin Contents
    /\ FalseValue # "yes" /\ Garbage # Unavailable

(* attr_keys are the class and the flags, and of these the class is the    *)
(* enumeration.  A class and a flag that is set have bytes.                *)
ASSUME KeysAssumption ==
    /\ KeySet(ObjectKeys) = Flags \union {Class}
    /\ \A f \in Flags : Handlers[f] # "enum"
    /\ \A v \in Classes \union {"yes"} : v \in AttributeValues /\ Size[v] > 0

(* What every token sees to: the class of an object stays what it is, and  *)
(* the halves of a pair are keys.                                          *)
ASSUME ClassAssumption ==
    /\ \A change \in Changes : change[1] # Class
    /\ \A made \in Made : Len(made) = 2 => \A i \in 1..2 : made[i][Class] \notin Unknown

VARIABLES
    objects,   \* the token: the object behind each handle, or Gone
    issued,    \* the token: the last handle given out
    search,    \* the token's search and the lock that goes with it
    call,      \* per thread: the call it is in
    held,      \* the Python objects the program has been given
    result,    \* per thread: what its last call returned
    calls,     \* how many calls the program has begun (bound)
    odd,       \* history: the reads in which the token deviated (bounded)
    ever,      \* history: the values each attribute of each object has had
    together   \* history: the handles created by the same C call

token   == <<objects, issued, ever, together>>
vars    == <<objects, issued, search, call, held, result, calls, odd, ever, together>>

NoSearch == [owner |-> NoThread, asked |-> <<>>, rest |-> <<>>]
NoResult == [kind |-> "none"]
NoCall ==
    [op |-> "none", step |-> "idle", handle |-> NoHandle, keys |-> <<>>, buffers |-> <<>>,
     single |-> FALSE, left |-> <<>>, read |-> <<>>, todo |-> <<>>, out |-> <<>>]

(* op: "get" get_attributes; "create" every call that returns what it has  *)
(* created; "dsa" generate_keypair(DSA), which makes domain parameters for *)
(* itself first; "params" DomainParameters.generate_keypair reading them;  *)
(* "search" get_objects; "get_key".                                        *)
Ops == {"none", "get", "create", "dsa", "params", "search", "get_key"}

(* step: "query" and "fill" before the first and the second call of        *)
(* C_GetAttributeValue; "next" before C_FindObjects; "yield" the generator *)
(* has given its caller an object; "raised" get_key has raised             *)
(* MultipleObjectsReturned and the exception still refers to the generator.*)
Steps == {"idle", "query", "fill", "next", "yield", "raised"}

Past(object) == [k \in DOMAIN object |-> {object[k]}]

Init ==
    /\ objects = [h \in Handles |-> IF h \in DOMAIN Stored THEN Stored[h] ELSE Gone]
    /\ issued = Len(Stored)
    /\ search = NoSearch
    /\ call = [t \in Threads |-> NoCall]
    /\ held = {}
    /\ result = [t \in Threads |-> NoResult]
    /\ calls = 0
    /\ odd = {}
    /\ ever = [h \in Handles |-> IF h \in DOMAIN Stored THEN Past(Stored[h]) ELSE Gone]
    /\ together = [h \in Handles |-> {}]

-----------------------------------------------------------------------------
(* The parts of make_object.                                               *)

Reading(c, h, keys) ==
    [c EXCEPT !.step = "query", !.handle = h, !.keys = keys, !.buffers = <<>>]

(* Only the first of several handles.                                      *)
MakingFirst(c) ==
    [Reading(c, Head(c.todo), ObjectKeys) EXCEPT
        !.single = FALSE, !.left = <<>>, !.read = <<>>, !.todo = <<>>]

(* Bulk fetch of all keys of the next handle.                              *)
Making(c) ==
    [Reading(c, Head(c.todo), ObjectKeys) EXCEPT
        !.single = FALSE, !.left = <<>>, !.read = <<>>, !.todo = Tail(c.todo)]

(* Retry "the flags one by one".                                           *)
OneByOne(c, left, read) ==
    [Reading(c, c.handle, <<Head(left)>>) EXCEPT
        !.single = TRUE, !.left = Tail(left), !.read = read]

Merge(f, g) ==
    [k \in DOMAIN f \union DOMAIN g |-> IF k \in DOMAIN g THEN g[k] ELSE f[k]]

(* A default that is true for every list of attributes.                    *)
IsTrueByDefault(attributes, single, flag) ==
    flag \in DOMAIN attributes => attributes[flag] = "yes"

(* attributes.get(key, session.attribute_mapper): for an AttributeList it  *)
(* raises KeyError when the attribute was not read; for the dict of the    *)
(* fallback it returns the mapper, which is true.                          *)
IsTrue(attributes, single, flag) ==
    IF flag \in DOMAIN attributes THEN attributes[flag] = "yes" ELSE single

ClassOf(attributes) ==
    IF Class \in DOMAIN attributes /\ attributes[Class] \in Classes
    THEN attributes[Class] ELSE Plain

(* A KeyError of any flag leads to a bare Object.                          *)
NewObjectOrBare(h, attributes, single) ==
    LET class == IF Flags \subseteq DOMAIN attributes THEN ClassOf(attributes) ELSE Plain
    IN  [handle |-> h, class |-> class, single |-> single,
         mixins |-> IF class = Plain THEN {}
                    ELSE {f \in Flags : IsTrue(attributes, single, f)}]

NewObject(h, attributes, single) ==
    LET class == ClassOf(attributes)
    IN  [handle |-> h, class |-> class, single |-> single,
         mixins |-> IF class = Plain THEN {}
                    ELSE {f \in Flags : IsTrue(attributes, single, f)}]

-----------------------------------------------------------------------------
(* What a call does with the object it has made, with the attributes it    *)
(* has read and with an exception.  c is the thread's call.                *)

Ends(t, c, answer) ==
    /\ call' = [call EXCEPT ![t] = NoCall]
    /\ result' = [result EXCEPT ![t] = answer]

Goes(t, c) ==
    /\ call' = [call EXCEPT ![t] = c]
    /\ result' = [result EXCEPT ![t] = NoResult]

(* No C_FindObjectsFinal when an exception leaves a search.                *)
RaiseInSearch(t) ==
    /\ Ends(t, call[t], NoResult)
    /\ UNCHANGED <<search, held>>

(* An exception leaves the call.  In a search the operation's __exit__     *)
(* calls C_FindObjectsFinal and gives the lock back.                       *)
Raise(t) ==
    /\ search' = IF search.owner = t THEN NoSearch ELSE search
    /\ Ends(t, call[t], NoResult)
    /\ UNCHANGED held

(* generate_keypair(DSA) calls a method of the parameters, which a bare     *)
(* Object does not have: an AttributeError.                                *)
Receive(t, c, obj) ==
    LET out == Append(c.out, obj)
        more == c.todo # <<>>
    IN  \/ /\ c.op = "create" /\ more
           /\ Goes(t, Making([c EXCEPT !.out = out]))
           /\ UNCHANGED <<held, search>>
        \/ /\ c.op = "create" /\ ~more
           /\ held' = held \union {out[i] : i \in DOMAIN out}
           /\ Ends(t, c, NoResult)
           /\ UNCHANGED search
        \/ /\ c.op = "dsa" /\ obj.class = Params[Class]
           /\ Goes(t, Reading([c EXCEPT !.op = "params", !.single = FALSE], c.handle, ParamKeys))
           /\ UNCHANGED <<held, search>>
        \/ c.op = "dsa" /\ obj.class # Params[Class] /\ Raise(t)
        \/ /\ c.op = "search"
           /\ held' = held \union {obj}
           /\ Goes(t, [c EXCEPT !.step = "yield", !.out = out])
           /\ UNCHANGED search
        \/ /\ c.op = "get_key" /\ c.out = <<>>
           /\ Goes(t, IF more THEN Making([c EXCEPT !.out = out])
                      ELSE [c EXCEPT !.step = "next", !.out = out])
           /\ UNCHANGED <<held, search>>
        \/ /\ c.op = "get_key" /\ c.out # <<>>
           /\ Goes(t, [c EXCEPT !.step = "raised", !.out = out])
           /\ UNCHANGED <<held, search>>

(* generate_keypair_from_attrs, when the token makes the pair.             *)
Create(t, c, made) ==
    LET new == [i \in DOMAIN made |-> issued + i]
        range == {new[i] : i \in DOMAIN new}
    IN  /\ issued + Len(made) <= MaxObjects
        /\ issued' = issued + Len(made)
        /\ objects' = [h \in Handles |-> IF h \in range THEN made[h - issued] ELSE objects[h]]
        /\ ever' = [h \in Handles |-> IF h \in range THEN Past(made[h - issued]) ELSE ever[h]]
        /\ together' = [h \in Handles |-> IF h \in range THEN range ELSE together[h]]
        /\ Goes(t, Making([c EXCEPT !.op = IF @ = "dsa" THEN "dsa" ELSE "create",
                                    !.todo = new, !.out = <<>>]))

(* The attributes are read.  A value that does not unpack is a ValueError, *)
(* which nobody catches.                                                   *)
Read(t, bytes) ==
    LET c == call[t]
        attributes == AsDict(bytes)
        all == Merge(c.read, attributes)
    IN  \/ ~Unpackable(bytes) /\ Raise(t) /\ UNCHANGED token
        \/ /\ Unpackable(bytes) /\ c.op = "get"
           /\ Ends(t, c, [kind |-> "read", handle |-> c.handle, keys |-> c.keys,
                          read |-> attributes])
           /\ UNCHANGED <<held, search, token>>
        \/ /\ Unpackable(bytes) /\ c.op = "params"
           /\ \/ \E made \in Made : Len(made) = 2 /\ Create(t, c, made)
              \/ Ends(t, c, NoResult) /\ UNCHANGED token
           /\ UNCHANGED <<held, search>>
        \/ /\ Unpackable(bytes) /\ c.op \notin {"get", "params"}
           /\ \/ ~c.single /\ Receive(t, c, NewObject(c.handle, attributes, FALSE))
              \/ /\ c.single /\ c.left = <<>>
                 /\ Receive(t, c, NewObject(c.handle, all, TRUE))
              \/ /\ c.single /\ c.left # <<>>
                 /\ Goes(t, OneByOne(c, c.left, all))
                 /\ UNCHANGED <<held, search>>
           /\ UNCHANGED token

(* They could not be read.  These exceptions are passed over: by           *)
(* make_object for each flag, by generate_keypair for all parameters.      *)
Skipped(op) ==
    {"AttributeTypeInvalid", "FunctionFailed"} \union
    (IF op = "params" THEN {} ELSE {"AttributeSensitive"})

Unread(t, rv) ==
    LET c == call[t]
        bulk == c.op \notin {"get", "params"} /\ ~c.single
        skips == c.op # "get" /\ Raised[rv] \in Skipped(c.op)
    IN  \/ /\ bulk
           /\ Goes(t, OneByOne(c, ObjectKeys, <<>>))
           /\ UNCHANGED <<held, search, token>>
        \/ ~bulk /\ skips /\ Read(t, <<>>)
        \/ ~bulk /\ ~skips /\ Raise(t) /\ UNCHANGED token

-----------------------------------------------------------------------------
(* C_GetAttributeValue, twice.                                             *)

(* Of which object, and whether one attribute after the other.             *)
ReadOf(c) == <<c.handle, c.single>>

Deviates(read) ==
    /\ odd' = odd \union {read}
    /\ Cardinality(odd') <= MaxOdd

(* The first call, and the allocation of the buffers.  With nothing to     *)
(* retrieve there is no second call.                                       *)
QuerySizes(t) ==
    LET c == call[t]
        object == objects[c.handle]
    IN  /\ c.step = "query"
        /\ \E answer \in {SizeAnswer(object, c.keys)} \union OddSizeAnswers(object, c.keys) :
             /\ IF answer = SizeAnswer(object, c.keys) THEN odd' = odd ELSE Deviates(ReadOf(c))
             /\ LET buffers == Buffers(c.keys, answer)
                IN  \/ /\ DOMAIN buffers # {}
                       /\ Goes(t, [c EXCEPT !.step = "fill", !.buffers = buffers])
                       /\ UNCHANGED <<held, search, token>>
                    \/ DOMAIN buffers = {} /\ Unread(t, QueryStatus(answer))
        /\ UNCHANGED calls

FillValues(t) ==
    LET c == call[t]
        object == objects[c.handle]
    IN  /\ c.step = "fill"
        /\ \E answer \in {ValueAnswer(object, c.buffers)} \union
                          OddValueAnswers(object, c.buffers) :
             /\ IF answer = ValueAnswer(object, c.buffers) THEN odd' = odd ELSE Deviates(ReadOf(c))
             /\ \/ Passes(FillStatus(answer)) /\ Read(t, answer.values)
                \/ ~Passes(FillStatus(answer)) /\ Unread(t, FillStatus(answer))
        /\ UNCHANGED calls

-----------------------------------------------------------------------------
(* The calls of the program.                                               *)

Counted == calls < MaxCalls /\ calls' = calls + 1

Begin(t) == call[t].step = "idle" /\ Counted

(* A generator has given its caller the control: the program may make      *)
(* other calls in its loop.  (The calls modelled there are those that make *)
(* one C call.)                                                            *)
InProgram(t) == call[t].step \in {"idle", "yield", "raised"} /\ Counted

(* get_attributes, __getitem__ and the cached properties.                  *)
GetAttributes(t) ==
    /\ Begin(t)
    /\ \E o \in held, keys \in {ObjectKeys, ParamKeys} :
          Goes(t, Reading([NoCall EXCEPT !.op = "get"], o.handle, keys))
    /\ UNCHANGED <<token, search, held, odd>>

(* create_object, create_domain_parameters, generate_domain_parameters and *)
(* generate_key: one C call, then make_object for the handle.              *)
CreateObject(t) ==
    /\ Begin(t)
    /\ \E made \in Made :
          Len(made) = 1 /\ Create(t, [NoCall EXCEPT !.op = "create"], made)
    /\ UNCHANGED <<search, held, odd>>

(* generate_keypair: make_object for each of the two handles.              *)
GeneratePair(t) ==
    /\ Begin(t)
    /\ \E made \in Made :
          Len(made) = 2 /\ Create(t, [NoCall EXCEPT !.op = "create"], made)
    /\ UNCHANGED <<search, held, odd>>

(* generate_keypair(KeyType.DSA): generate_domain_parameters first.        *)
GenerateDSA(t) ==
    /\ Begin(t)
    /\ Create(t, [NoCall EXCEPT !.op = "dsa"], <<Params>>)
    /\ UNCHANGED <<search, held, odd>>

(* DomainParameters.generate_keypair: read the parameters, generate.       *)
GenerateFrom(t) ==
    /\ Begin(t)
    /\ \E o \in held :
          /\ o.class = Params[Class]
          /\ Goes(t, Reading([NoCall EXCEPT !.op = "params"], o.handle, ParamKeys))
    /\ UNCHANGED <<token, search, held, odd>>

CopyObject(t) ==
    /\ Begin(t)
    /\ \E o \in held :
          /\ objects[o.handle] # Gone
          /\ Create(t, [NoCall EXCEPT !.op = "create"], <<objects[o.handle]>>)
    /\ UNCHANGED <<search, held, odd>>

(* unwrap_key and derive_key: methods of the mixins; the token checks the  *)
(* capability of the key.                                                  *)
MakeWithKey(t) ==
    /\ Begin(t)
    /\ \E o \in held, f \in MakerFlags, made \in Made :
          /\ f \in o.mixins
          /\ objects[o.handle] # Gone /\ objects[o.handle][f] = "yes"
          /\ Len(made) = 1
          /\ Create(t, [NoCall EXCEPT !.op = "create"], made)
    /\ UNCHANGED <<search, held, odd>>

(* __setitem__: C_SetAttributeValue.                                       *)
SetAttribute(t) ==
    /\ InProgram(t)
    /\ \E o \in held, change \in Changes :
          LET h == o.handle
          IN  /\ objects[h] # Gone
              /\ objects[h][change[1]] \notin {Unavailable, change[2]}
              /\ objects' = [objects EXCEPT ![h][change[1]] = change[2]]
              /\ ever' = [ever EXCEPT ![h][change[1]] = @ \union {change[2]}]
    /\ UNCHANGED <<issued, together, search, call, held, result, odd>>

(* destroy: C_DestroyObject.                                               *)
Destroy(t) ==
    /\ InProgram(t)
    /\ \E o \in held :
          /\ objects[o.handle] # Gone
          /\ objects' = [objects EXCEPT ![o.handle] = Gone]
    /\ UNCHANGED <<issued, ever, together, search, call, held, result, odd>>

-----------------------------------------------------------------------------
(* SearchIter.                                                             *)

Matches(object, template) ==
    object # Gone /\ \A k \in DOMAIN template : object[k] = template[k]

Found(template) == {h \in 1..issued : Matches(objects[h], template)}

(* What the token lists: each handle once.  In their order, so that TLC    *)
(* has one list to look at; nothing below depends on the order.            *)
Listings(S) ==
    {list \in [1..Cardinality(S) -> S] :
        \A i, j \in 1..Cardinality(S) : i < j => list[i] < list[j]}

(* C_FindObjectsInit, under the lock.  get_key wants a search parameter.   *)
Search(t) ==
    /\ Begin(t)
    /\ search = NoSearch
    /\ \E template \in Templates, op \in {"search", "get_key"} :
          /\ op = "get_key" => DOMAIN template # {}
          /\ \E list \in Listings(Found(template)) :
                search' = [owner |-> t, asked |-> list, rest |-> list]
          /\ Goes(t, [NoCall EXCEPT !.op = op, !.step = "next"])
    /\ UNCHANGED <<token, held, odd>>

(* _batch_iter over the whole buffer instead of `count' handles of it.     *)
WholeBuffer(n) == [i \in 1..Batch |-> IF i <= n THEN search.rest[i] ELSE NoHandle]

(* _batch_iter: the handles that C_FindObjects has written.                *)
BatchOf(n) == SubSeq(search.rest, 1, n)

(* __next__: C_FindObjects gives up to Batch handles, none at the end.     *)
FindObjects(t) ==
    /\ call[t].step = "next"
    /\ search.rest # <<>>
    /\ \E n \in 1..Batch :
          /\ n <= Len(search.rest)
          /\ search' = [search EXCEPT !.rest = SubSeq(@, n + 1, Len(@))]
          /\ Goes(t, Making([call[t] EXCEPT !.todo = BatchOf(n)]))
    /\ UNCHANGED <<token, held, calls, odd>>

FindObjectsFails(t) ==
    /\ call[t].step = "next"
    /\ "device_error" \in Quirks
    /\ Deviates(ReadOf(NoCall))
    /\ Raise(t)
    /\ UNCHANGED <<token, calls>>

Handed(c) == [i \in DOMAIN c.out |-> c.out[i].handle]

(* At the end get_objects returns, and get_key what it found, or raises    *)
(* NoSuchKey.                                                              *)
SearchEnds(t) ==
    LET c == call[t]
    IN  /\ c.step = "next"
        /\ search.rest = <<>>
        /\ search' = NoSearch
        /\ held' = IF c.op = "get_key" THEN held \union {c.out[i] : i \in DOMAIN c.out} ELSE held
        /\ Ends(t, c, [kind |-> c.op, asked |-> search.asked, found |-> Handed(c)])
        /\ UNCHANGED <<token, calls, odd>>

(* The rest of the batch is not looked at.                                 *)
NextBatch(t) ==
    /\ call[t].step = "yield"
    /\ Goes(t, [call[t] EXCEPT !.step = "next", !.todo = <<>>])
    /\ UNCHANGED <<token, search, held, calls, odd>>

(* The program asks the generator for the next object.                     *)
NextObject(t) ==
    LET c == call[t]
    IN  /\ c.step = "yield"
        /\ Goes(t, IF c.todo # <<>> THEN Making(c) ELSE [c EXCEPT !.step = "next"])
        /\ UNCHANGED <<token, search, held, calls, odd>>

(* The program drops the generator, or the exception of get_key: the       *)
(* operation's __exit__ calls C_FindObjectsFinal.                          *)
DropSearch(t) ==
    /\ call[t].step \in {"yield", "raised"}
    /\ search' = NoSearch
    /\ Ends(t, call[t], NoResult)
    /\ UNCHANGED <<token, held, calls, odd>>

Next ==
    \E t \in Threads :
        \/ QuerySizes(t) \/ FillValues(t)
        \/ GetAttributes(t) \/ SetAttribute(t) \/ Destroy(t)
        \/ CreateObject(t) \/ GeneratePair(t) \/ GenerateDSA(t) \/ GenerateFrom(t)
        \/ CopyObject(t) \/ MakeWithKey(t)
        \/ Search(t) \/ FindObjects(t) \/ FindObjectsFails(t) \/ SearchEnds(t)
        \/ NextObject(t) \/ DropSearch(t)

Spec == Init /\ [][Next]_vars

-----------------------------------------------------------------------------

(* Values of the variables: a type invariant for handles, steps and the    *)
(* sequences of handles that make_object and SearchIter work through.      *)
TypeOK ==
    /\ issued \in 0..MaxObjects
    /\ \A h \in Handles : h > issued => objects[h] = Gone
    /\ search.owner \in Threads \union {NoThread}
    /\ search.asked \in Seq(Handles) /\ search.rest \in Seq(Handles)
    /\ calls \in 0..MaxCalls
    /\ odd \subseteq (Handles \union {NoHandle}) \X BOOLEAN
    /\ \A o \in held : o.handle \in 1..issued /\ o.mixins \subseteq Flags
    /\ \A t \in Threads :
          LET c == call[t]
          IN  /\ c.op \in Ops /\ c.step \in Steps
              /\ c.todo \in Seq(1..issued)
              /\ c.step \in {"query", "fill"} => c.handle \in 1..issued
              /\ c.step = "fill" => DOMAIN c.buffers # {}

(* "Make an object with the right bases for its class and capabilities"    *)
(* (make_object): an object has a mixin only for a capability that the     *)
(* token object has, or had when it was read.                              *)
MixinsAreCapabilities ==
    \A o \in held : \A f \in o.mixins : "yes" \in ever[o.handle][f]

(* An attribute has had values of different sizes.                         *)
Resized(values) == \E v, w \in values \ {Unavailable} : Size[v] < Size[w]

(* An object has a mixin for a capability that the token object never had  *)
(* only if both reads of it went wrong.  First the bulk read: the token    *)
(* deviated in it, or some flag has had values of different sizes (it can  *)
(* go wrong when one changes between the two calls).  Then the read of     *)
(* this flag alone: the token deviated, or the flag has been hidden or has *)
(* had values of different sizes.  In particular what was read in one go   *)
(* is right, whatever the token answers and whoever changes or destroys    *)
(* the object meanwhile.                                                   *)
FalseMixinsHaveCause ==
    \A o \in held : \A f \in o.mixins :
        "yes" \notin ever[o.handle][f] =>
            /\ o.single
            /\ <<o.handle, FALSE>> \in odd \/ \E k \in Flags : Resized(ever[o.handle][k])
            /\ \/ <<o.handle, TRUE>> \in odd
               \/ Unavailable \in ever[o.handle][f]
               \/ Resized(ever[o.handle][f])

(* And conversely: a key that has had a capability all the time can be     *)
(* used for it, unless the token deviated in the very read it was made     *)
(* from: a bulk read that fails is made up for one by one.                 *)
CapabilitiesAreMixins ==
    \A o \in held :
        /\ ReadOf(o) \notin odd
        /\ ever[o.handle][Class] \subseteq Classes
        => \A f \in Flags : ever[o.handle][f] = {"yes"} => f \in o.mixins

(* get_attributes returns values the attributes really had, never what was *)
(* in a buffer before, though the object may change between the call that  *)
(* asks for the sizes and the one that reads; and if the token has not     *)
(* deviated in reading that object, every attribute that could be read all *)
(* the time.                                                               *)
ReadsAreTrue ==
    \A t \in Threads : result[t].kind = "read" =>
        LET r == result[t]
        IN  /\ \A k \in DOMAIN r.read :
                   r.read[k] \in {Unpacked(k, v) : v \in ever[r.handle][k] \ {Unavailable}}
            /\ <<r.handle, FALSE>> \notin odd => \A i \in DOMAIN r.keys :
                   \/ r.keys[i] \in DOMAIN r.read
                   \/ Unavailable \in ever[r.handle][r.keys[i]]

(* A search that comes to its end has given the program exactly the        *)
(* objects that matched when it began, each once and in order, however     *)
(* they came in batches and whatever the program did in between; and       *)
(* get_key returns only if there was at most one.                          *)
SearchesAreExact ==
    \A t \in Threads : result[t].kind \in {"search", "get_key"} =>
        /\ result[t].found = result[t].asked
        /\ result[t].kind = "get_key" => Len(result[t].asked) <= 1

(* The search at the token and the lock are held for a thread in three     *)
(* cases: its call is running; it holds a generator of get_objects that    *)
(* stands at an object; or it keeps the exception of a get_key that has    *)
(* ended because more than one object matched.  A failing token or an      *)
(* object destroyed by another thread adds no case.  In the third the code *)
(* has nothing left to run: how long the session goes on searching is up   *)
(* to whoever keeps the exception.                                         *)
SearchHasCaller ==
    \A t \in Threads : search.owner = t <=>
        LET c == call[t]
        IN  \/ c.op \in {"search", "get_key"} /\ c.step \in {"query", "fill", "next"}
            \/ c.op = "search" /\ c.step = "yield"
            \/ c.op = "get_key" /\ c.step = "raised" /\ Len(search.asked) > 1

(* An object that the program has created and cannot reach: no Python      *)
(* object stands for it, and no call that is going on will return it.      *)
InHand(t) ==
    LET c == call[t]
    IN  IF c.op \notin {"create", "dsa", "params"} THEN {}
        ELSE {c.handle} \union {c.todo[i] : i \in DOMAIN c.todo}
                        \union {c.out[i].handle : i \in DOMAIN c.out}

Orphans ==
    {h \in (Len(Stored) + 1)..issued :
        /\ objects[h] # Gone
        /\ \A o \in held : o.handle # h
        /\ \A t \in Threads : h \notin InHand(t)}

(* Created objects get lost only because the token failed a read of one    *)
(* attribute, theirs or the other half's of the pair, because another      *)
(* thread destroyed that half while make_object read it, because they are  *)
(* domain parameters, which generate_keypair makes for a DSA pair and      *)
(* drops (a copy of such parameters is excused with them), or because      *)
(* their class is not known here.                                          *)
OrphansHaveCause ==
    \A h \in Orphans :
        \/ \E g \in together[h] : objects[g] = Gone \/ <<g, TRUE>> \in odd
        \/ objects[h][Class] \in {Params[Class]} \union Unknown
=============================================================================
