--------------------------- MODULE AttributeLists ---------------------------
(***************************************************************************)
(* ObjectHandleWrapper.get_attribute_list of src/pkcs11/_pkcs11.pyx: the   *)
(* values of some attributes of a token object, read with two calls of     *)
(* C_GetAttributeValue.  The first, with NULL buffers, asks for the sizes; *)
(* the second reads into buffers of these sizes.  The object may change or *)
(* vanish between the two, and tokens differ in how they answer when an    *)
(* attribute cannot be read.                                               *)
(*                                                                         *)
(* The bytes of a value become a Python value when somebody looks at them  *)
(* (AttributeMapper of attributes.py).                                     *)
(*                                                                         *)
(* An object of the token is a function from attributes to values, or      *)
(* Gone.  The buffers of the second call are a function as well, from      *)
(* attributes to sizes: no list has an attribute twice.                    *)
(***************************************************************************)
EXTENDS ReturnValues, Naturals, Sequences

CONSTANTS
    Size,         \* The bytes each value takes: a function on the values
    Unavailable,  \* CK_UNAVAILABLE_INFORMATION; as the value of an
                  \* attribute: the object does not have or show it
    Garbage,      \* The content of a buffer that was never written
    Gone,         \* What is behind a handle that is not valid (any more)
    Sensitive,    \* The attributes that a token refuses as sensitive
    Handlers,     \* ATTRIBUTE_TYPES: "bool", "enum", "str" or "bytes" per attribute
    Unknown,      \* The values that no enumeration has a member for
    FalseValue,   \* False
    Quirks        \* How the token may deviate: a subset of AllQuirks

(* "ok_unavailable": says CKR_OK though an attribute cannot be read.       *)
(* "bulk_fails": fails a read of several attributes of which one cannot be *)
(* read.  "device_error": fails any call.                                  *)
AllQuirks == {"ok_unavailable", "bulk_fails", "device_error"}

ASSUME QuirksAssumption == Quirks \subseteq AllQuirks

(* How a token with a quirk fails the read of some attributes.             *)
Failures(object, keys) ==
    (IF "device_error" \in Quirks THEN {"CKR_DEVICE_ERROR"} ELSE {}) \union
    (IF /\ "bulk_fails" \in Quirks
        /\ \E j, k \in keys : j # k /\ object[j] = Unavailable
     THEN {"CKR_FUNCTION_FAILED"} ELSE {})

(* The first call: the size of each attribute.  The code has preset all    *)
(* sizes to 0, and a failing call leaves them so.                          *)
KeySet(keys) == {keys[i] : i \in DOMAIN keys}

Shown(object, keys) == \A k \in keys : object[k] # Unavailable

Refused(object, keys) ==
    IF \E k \in keys \intersect Sensitive : object[k] = Unavailable
    THEN "CKR_ATTRIBUTE_SENSITIVE" ELSE "CKR_ATTRIBUTE_TYPE_INVALID"

Sizes(object, keys) ==
    [i \in DOMAIN keys |-> IF object[keys[i]] = Unavailable THEN Unavailable
                           ELSE Size[object[keys[i]]]]

Unsized(keys) == [i \in DOMAIN keys |-> 0]

SizeAnswer(object, keys) ==
    IF object = Gone THEN [rv |-> "CKR_OBJECT_HANDLE_INVALID", sizes |-> Unsized(keys)]
    ELSE [rv |-> IF Shown(object, KeySet(keys)) THEN "CKR_OK"
                 ELSE Refused(object, KeySet(keys)),
          sizes |-> Sizes(object, keys)]

OddSizeAnswers(object, keys) ==
    IF object = Gone THEN {}
    ELSE [rv : Failures(object, KeySet(keys)), sizes : {Unsized(keys)}]
         \union IF "ok_unavailable" \in Quirks /\ ~Shown(object, KeySet(keys))
                THEN {[rv |-> "CKR_OK", sizes |-> Sizes(object, keys)]} ELSE {}

(* The loop over the sizes stops at the first one that is unavailable      *)
(* although the call returned CKR_OK, and makes that an error.             *)
Misreported(answer) ==
    answer.rv = "CKR_OK" /\ \E i \in DOMAIN answer.sizes : answer.sizes[i] = Unavailable

Scanned(answer) ==
    {i \in DOMAIN answer.sizes :
        answer.rv = "CKR_OK" => \A j \in 1..i : answer.sizes[j] # Unavailable}

QueryStatus(answer) == IF Misreported(answer) THEN "CKR_FUNCTION_FAILED" ELSE answer.rv

(* The buffers for the second call: the scanned entries that have a size.  *)
Retrievable(answer) == {i \in Scanned(answer) : answer.sizes[i] # Unavailable}

Buffers(keys, answer) ==
    [k \in {keys[i] : i \in Retrievable(answer)} |->
        answer.sizes[CHOOSE i \in Retrievable(answer) : keys[i] = k]]

(* The second call: the value for each buffer that is large enough.  A     *)
(* failing call leaves the buffers as they are: allocated and not written. *)
Fits(object, buffers, k) ==
    object[k] # Unavailable /\ Size[object[k]] <= buffers[k]

Fit(object, buffers) == \A k \in DOMAIN buffers : Fits(object, buffers, k)

Values(object, buffers) ==
    [k \in DOMAIN buffers |-> IF Fits(object, buffers, k) THEN object[k] ELSE Unavailable]

Unwritten(buffers) == [k \in DOMAIN buffers |-> Garbage]

ValueAnswer(object, buffers) ==
    IF object = Gone THEN [rv |-> "CKR_OBJECT_HANDLE_INVALID", values |-> Unwritten(buffers)]
    ELSE [rv |-> IF Fit(object, buffers) THEN "CKR_OK"
                 ELSE IF Shown(object, DOMAIN buffers) THEN "CKR_BUFFER_TOO_SMALL"
                 ELSE Refused(object, DOMAIN buffers),
          values |-> Values(object, buffers)]

OddValueAnswers(object, buffers) ==
    IF object = Gone THEN {}
    ELSE [rv : Failures(object, DOMAIN buffers), values : {Unwritten(buffers)}]
         \union IF "ok_unavailable" \in Quirks /\ ~Fit(object, buffers)
                THEN {[rv |-> "CKR_OK", values |-> Values(object, buffers)]} ELSE {}

(* The second call's entries are not looked at.                            *)
FillStatusUnchecked(answer) == answer.rv

(* "Ensure the data returned from the token is sane".                      *)
FillStatus(answer) ==
    IF \E k \in DOMAIN answer.values : answer.values[k] = Unavailable
    THEN "CKR_FUNCTION_FAILED" ELSE answer.rv

(* unpack_attributes: an enumeration without such a member is a            *)
(* ValueError; a bool without bytes is False.  (All attributes of the      *)
(* model have a handler, and tokens give a flag one byte or none.)         *)
Unpackable(attributes) ==
    \A k \in DOMAIN attributes : Handlers[k] = "enum" => attributes[k] \notin Unknown

NoBytes == {v \in DOMAIN Size : Size[v] = 0}

Unpacked(k, value) ==
    IF Handlers[k] = "bool" /\ value \in NoBytes THEN FalseValue ELSE value

(* as_dict.                                                                *)
AsDict(attributes) == [k \in DOMAIN attributes |-> Unpacked(k, attributes[k])]
=============================================================================
