--------------------------- MODULE MechanismParams ---------------------------
(***************************************************************************)
(* Mechanisms and their parameters: the tables of defaults.py, the         *)
(* parameter objects of mechanisms.py, MechanismWithParam, which packs     *)
(* them into the C structures a token reads, AttributeList.from_template,  *)
(* which packs the template of a new key, and the two calls of wrap_key.   *)
(*                                                                         *)
(* A program generates a key and makes calls with it, with or without a    *)
(* mechanism and a parameter.  A call allocates a CK_MECHANISM, allocates  *)
(* and fills the structure for its parameter or fails half way, then packs *)
(* its template or fails half way, hands all to the token and frees them   *)
(* when the wrappers are collected.  Calls share nothing, so one at a time *)
(* is enough.  That PyMem_Malloc returns NULL is not modelled, nor a       *)
(* program that assigns to the nonce of a GCMParams while a call uses it.  *)
(***************************************************************************)
EXTENDS Naturals

CONSTANTS
    Requests,  \* the arguments of calls: mechanism, mechanism_param, key type and capabilities
    Lengths,   \* how long a wrapped key can be
    Counts,    \* how many attributes a template can have
    None,      \* the Python object None
    NoKey

ASSUME LengthsAssumption == Lengths \subseteq Nat /\ Counts \subseteq Nat

ASSUME RequestsAssumption ==
    \A q \in Requests :
        q.param \in [form : STRING \cup {None}, size : Nat, optional : BOOLEAN, assigned : BOOLEAN]

(* What a program may pass that is not a member of Mechanism.              *)
NotAMechanism == "an integer"
-----------------------------------------------------------------------------
(***************************************************************************)
(* The tables of defaults.py.                                              *)
(***************************************************************************)
DefaultGenerate ==
    [AES |-> "AES_KEY_GEN", DES2 |-> "DES2_KEY_GEN", DES3 |-> "DES3_KEY_GEN",
     DH |-> "DH_PKCS_KEY_PAIR_GEN", DSA |-> "DSA_KEY_PAIR_GEN", EC |-> "EC_KEY_PAIR_GEN",
     RSA |-> "RSA_PKCS_KEY_PAIR_GEN", X9_42_DH |-> "X9_42_DH_KEY_PAIR_GEN",
     EC_EDWARDS |-> "EC_EDWARDS_KEY_PAIR_GEN", GENERIC_SECRET |-> "GENERIC_SECRET_KEY_GEN"]

Encryption == {"encrypt", "decrypt"}
Signing    == {"sign", "verify"}
Wrapping   == {"wrap", "unwrap"}
AllOps     == Encryption \cup Signing \cup Wrapping \cup {"derive"}

DefaultCapabilities ==
    LET symmetric == Encryption \cup Signing \cup Wrapping IN
    [AES |-> symmetric, DES2 |-> symmetric, DES3 |-> symmetric, DH |-> {"derive"},
     DSA |-> Signing, EC |-> Signing \cup {"derive"}, RSA |-> symmetric,
     GENERIC_SECRET |-> {}, EC_EDWARDS |-> Signing]

DefaultEncrypt ==
    [AES |-> "AES_CBC_PAD", DES2 |-> "DES3_CBC_PAD", DES3 |-> "DES3_CBC_PAD",
     RSA |-> "RSA_PKCS_OAEP"]

(* A table without Edwards keys: for a mutant.                             *)
OldDefaultSign ==
    [AES |-> "AES_MAC", DES2 |-> "DES3_MAC", DES3 |-> "DES3_MAC", DSA |-> "DSA_SHA512",
     EC |-> "ECDSA_SHA512", RSA |-> "SHA512_RSA_PKCS"]

DefaultSign ==
    [AES |-> "AES_MAC", DES2 |-> "DES3_MAC", DES3 |-> "DES3_MAC", DSA |-> "DSA_SHA512",
     EC |-> "ECDSA_SHA512", RSA |-> "SHA512_RSA_PKCS", EC_EDWARDS |-> "EDDSA"]

DefaultWrap ==
    [AES |-> "AES_KEY_WRAP", DES2 |-> "DES3_ECB", DES3 |-> "DES3_ECB", RSA |-> "RSA_PKCS_OAEP"]

DefaultDerive ==
    [DH |-> "DH_PKCS_DERIVE", EC |-> "ECDH1_DERIVE", X9_42_DH |-> "X9_42_DH_DERIVE"]

DefaultParameters ==
    [DH |-> "DH_PKCS_PARAMETER_GEN", DSA |-> "DSA_PARAMETER_GEN",
     X9_42_DH |-> "X9_42_DH_PARAMETER_GEN"]

(* The methods of a session; all others are of keys.                       *)
SessionOps == {"generate", "parameters", "digest"}

(* The table each method passes to MechanismWithParam.                     *)
Defaults(op) ==
    CASE op = "generate"    -> DefaultGenerate
      [] op \in Encryption  -> DefaultEncrypt
      [] op \in Signing     -> DefaultSign
      [] op \in Wrapping    -> DefaultWrap
      [] op = "derive"      -> DefaultDerive
      [] op = "parameters"  -> DefaultParameters
      [] op = "digest"      -> <<>>

-----------------------------------------------------------------------------
(***************************************************************************)
(* The parameter.  form says what Python object it is: None, bytes, a      *)
(* tuple for one of the structures, a GCMParams or a CTRParams; size is    *)
(* the length of the bytes, the IV or the nonce in it; optional, whether   *)
(* its optional bytes are there; assigned, whether the nonce was assigned  *)
(* to the object after it was made.                                        *)
(***************************************************************************)
Pss == {"RSA_PKCS_PSS", "SHA1_RSA_PKCS_PSS", "SHA224_RSA_PKCS_PSS", "SHA256_RSA_PKCS_PSS",
        "SHA384_RSA_PKCS_PSS", "SHA512_RSA_PKCS_PSS"}
Ecdh1 == {"ECDH1_DERIVE", "ECDH1_COFACTOR_DERIVE"}

(* GCMParams.__init__ and CTRParams.__init__ refuse nonces that are too    *)
(* long; nothing looks at a nonce that is assigned later.                  *)
CanBeMade(p) ==
    \/ p.assigned
    \/ /\ p.form = "CK_GCM_PARAMS" => p.size <= 12
       /\ p.form = "CK_AES_CTR_PARAMS" => p.size < 16

(* The structure that a branch of the code fills for mechanism m, if any.  *)
BranchFor(m) ==
    CASE m = "AES_ECB_ENCRYPT_DATA" -> "CK_KEY_DERIVATION_STRING_DATA"
      [] m = "RSA_PKCS_OAEP"        -> "CK_RSA_PKCS_OAEP_PARAMS"
      [] m \in Pss                  -> "CK_RSA_PKCS_PSS_PARAMS"
      [] m = "EDDSA"                -> "CK_EDDSA_PARAMS"
      [] m \in Ecdh1                -> "CK_ECDH1_DERIVE_PARAMS"
      [] m = "AES_CBC_ENCRYPT_DATA" -> "CK_AES_CBC_ENCRYPT_DATA_PARAMS"
      [] m = "AES_GCM"              -> "CK_GCM_PARAMS"
      [] m = "AES_CTR"              -> "CK_AES_CTR_PARAMS"
      [] OTHER                      -> None

(* Bytes before every structure: for a mutant.                             *)
BytesFirst(m, p) ==
    IF p.form = "bytes" THEN "raw"
    ELSE IF BranchFor(m) # None /\ ~(m = "EDDSA" /\ p.form = None) THEN BranchFor(m)
    ELSE IF p.form = None THEN "none" ELSE "unexpected"

(* The branch of MechanismWithParam.__init__ for mechanism m and parameter *)
(* p: the structure it fills, or what else it does.  Bytes are the way     *)
(* around the structures, but not for AES_ECB_ENCRYPT_DATA, whose          *)
(* parameter always was bytes; EDDSA needs no parameter.                   *)
Branch(m, p) ==
    IF p.form = "bytes" /\ m # "AES_ECB_ENCRYPT_DATA" THEN "raw"
    ELSE IF BranchFor(m) # None /\ ~(m = "EDDSA" /\ p.form = None) THEN BranchFor(m)
    ELSE IF p.form = None THEN "none" ELSE "unexpected"

Structures ==
    {"CK_KEY_DERIVATION_STRING_DATA", "CK_RSA_PKCS_OAEP_PARAMS", "CK_RSA_PKCS_PSS_PARAMS",
     "CK_EDDSA_PARAMS", "CK_ECDH1_DERIVE_PARAMS", "CK_AES_CBC_ENCRYPT_DATA_PARAMS",
     "CK_GCM_PARAMS", "CK_AES_CTR_PARAMS"}

(* None is not a mechanism, nor the name of an exception or a structure.   *)
ASSUME NoneAssumption ==
    /\ \A op \in SessionOps \cup AllOps :
           \A type \in DOMAIN Defaults(op) : Defaults(op)[type] # None
    /\ None \notin {"no default mechanism", "no packing"} \cup Structures

(* Only the branch of AES_GCM looks at the parameter before it allocates.  *)
Mallocs(branch, p) ==
    /\ branch \in Structures
    /\ branch = "CK_GCM_PARAMS" => p.form = branch

(* The length of the counter block of AES_CTR: the nonce, zeros up to 15   *)
(* bytes and a one.                                                        *)
CounterBlock(p) == p.size + (IF p.size < 15 THEN 15 - p.size ELSE 0) + 1

(* The parameter can be packed the way the branch does: no unpacking of a  *)
(* tuple, no conversion to bytes or to an array of 16 raises.              *)
Fits(branch, p) ==
    CASE branch \in {"raw", "none"} -> TRUE
      [] branch = "unexpected" -> FALSE
      [] branch = "CK_KEY_DERIVATION_STRING_DATA" -> p.form = "bytes"
      [] branch \in {"CK_RSA_PKCS_OAEP_PARAMS", "CK_RSA_PKCS_PSS_PARAMS"} ->
             p.form \in {branch, None}
      [] branch = "CK_AES_CBC_ENCRYPT_DATA_PARAMS" -> p.form = branch /\ p.size >= 16
      [] branch = "CK_AES_CTR_PARAMS" -> p.form = branch /\ CounterBlock(p) = 16
      [] OTHER -> p.form = branch

(* A pointer to optional bytes, and their length.                          *)
Pointer(p)   == IF p.optional THEN "given" ELSE "NULL"
LengthOf(p)  == IF p.optional THEN 1 ELSE 0

(* The length of the optional bytes forgotten where there are none: for a  *)
(* mutant.                                                                 *)
PackedOnlyPointers(branch, p) ==
    CASE branch = "CK_GCM_PARAMS" ->
             [pIv |-> "given", ulIvLen |-> p.size, ulIvBits |-> p.size * 8,
              pAAD |-> Pointer(p), ulTagBits |-> "given"]
      [] OTHER -> <<>>

(* The fields a branch assigns.  None stands for the default parameters,   *)
(* which have no optional bytes.                                           *)
Packed(branch, p) ==
    CASE branch = "CK_KEY_DERIVATION_STRING_DATA" -> [pData |-> "given", ulLen |-> p.size]
      [] branch = "CK_RSA_PKCS_OAEP_PARAMS" ->
             [hashAlg |-> "given", mgf |-> "given", source |-> "CKZ_DATA_SPECIFIED",
              pSourceData |-> Pointer(p), ulSourceDataLen |-> LengthOf(p)]
      [] branch = "CK_RSA_PKCS_PSS_PARAMS" ->
             [hashAlg |-> "given", mgf |-> "given", sLen |-> "given"]
      [] branch = "CK_EDDSA_PARAMS" ->
             [phFlag |-> "given", pContextData |-> Pointer(p), ulContextDataLen |-> LengthOf(p)]
      [] branch = "CK_ECDH1_DERIVE_PARAMS" ->
             [kdf |-> "given", pSharedData |-> Pointer(p), ulSharedDataLen |-> LengthOf(p),
              pPublicData |-> "given", ulPublicDataLen |-> "given"]
      [] branch = "CK_AES_CBC_ENCRYPT_DATA_PARAMS" ->
             [iv |-> 16, pData |-> "given", length |-> "given"]
      [] branch = "CK_GCM_PARAMS" ->
             [pIv |-> "given", ulIvLen |-> p.size, ulIvBits |-> p.size * 8,
              pAAD |-> Pointer(p), ulAADLen |-> LengthOf(p), ulTagBits |-> "given"]
      [] branch = "CK_AES_CTR_PARAMS" ->
             [ulCounterBits |-> (16 - p.size) * 8, cb |-> CounterBlock(p)]
      [] OTHER -> <<>>
-----------------------------------------------------------------------------
(***************************************************************************)
(* The state.                                                              *)
(***************************************************************************)
VARIABLES
    key,      \* the key the program has: its type, capabilities, and whether they are the defaults
    phase,    \* how far the call of the program is
    call,     \* what it was given
    length,   \* the variable of that name in wrap_key
    heap,     \* the blocks of PyMem_Malloc in use: "data", "param", "attributes"
    values,   \* the attributes whose value has a block in use
    list,     \* the AttributeList: its count, and the attributes whose pValue is set
    wrapper,  \* the fields of the MechanismWithParam and of its CK_MECHANISM
    seen,     \* what the token read last in the call
    outcome,  \* what the call raises
    wrapped   \* of a call of wrap_key: the bytes the token wrote and the bytes returned

template == <<values, list>>
vars == <<key, phase, call, length, heap, values, list, wrapper, seen, outcome, wrapped>>

NoCall == [op |-> "none", mechanism |-> None, param |-> None, type |-> None,
           capabilities |-> {}, defaulted |-> FALSE]

(* pParameter, what it points to and what ulParameterLen counts, and what  *)
(* self.param holds, until __init__ ends.                                  *)
Unfilled(param) == [mechanism |-> None, pParameter |-> "unset", of |-> "nothing",
                    param |-> param, fields |-> <<>>]

Nothing == [wrote |-> 0, returned |-> 0]

Listing(count, packed) == [count |-> count, set |-> 1..packed]
NoList == Listing(0, 0)

Init ==
    /\ key = NoKey
    /\ phase = "idle"
    /\ call = NoCall
    /\ length = 0
    /\ heap = {}
    /\ values = {}
    /\ list = NoList
    /\ wrapper = Unfilled("NULL")
    /\ seen = {}
    /\ outcome = None
    /\ wrapped = Nothing

(* The call raises; the wrapper goes when the frames of the call do.       *)
Raises(class) == outcome' = class /\ phase' = "over"
-----------------------------------------------------------------------------
(***************************************************************************)
(* The calls of the program.                                               *)
(***************************************************************************)
(* What a method with an argument capabilities takes for it.               *)
GivenOrDefault(given, type) == IF given = None THEN DefaultCapabilities[type] ELSE given

MakesKey(op) == op \in {"generate", "unwrap", "derive"}

CanCall(op) == op \in SessionOps \/ (key # NoKey /\ op \in key.capabilities)

(* A method of the session or of a key with the mixin for it, up to the    *)
(* allocation of the CK_MECHANISM in MechanismWithParam.__cinit__.         *)
Begin(op, q) ==
    /\ phase = "idle"
    /\ CanCall(op)
    /\ CanBeMade(q.param)
    /\ MakesKey(op) => q.capabilities # None \/ q.type \in DOMAIN DefaultCapabilities
    /\ phase' = "made"
    /\ call' = [op |-> op, mechanism |-> q.mechanism, param |-> q.param, type |-> q.type,
                capabilities |-> IF MakesKey(op) THEN GivenOrDefault(q.capabilities, q.type)
                                 ELSE {},
                defaulted |-> q.capabilities = None]
    /\ heap' = heap \cup {"data"}
    /\ wrapper' = Unfilled("NULL")
    /\ UNCHANGED <<key, length, template, seen, outcome, wrapped>>

(* No default capabilities for the type of the new key.                    *)
NoCapabilities(op, q) ==
    /\ phase = "idle"
    /\ MakesKey(op)
    /\ CanCall(op)
    /\ q.capabilities = None /\ q.type \notin DOMAIN DefaultCapabilities
    /\ Raises("no default capabilities")
    /\ UNCHANGED <<key, call, length, heap, template, wrapper, seen, wrapped>>
-----------------------------------------------------------------------------
(***************************************************************************)
(* MechanismWithParam.__init__.                                            *)
(***************************************************************************)
(* The type whose default mechanism is taken: of the new key for the       *)
(* methods of the session, of the key that is used for its own.            *)
TypeOfDefault == IF call.op \in SessionOps THEN call.type ELSE key.type

Chosen ==
    IF call.mechanism # None THEN call.mechanism
    ELSE IF TypeOfDefault \in DOMAIN Defaults(call.op) THEN Defaults(call.op)[TypeOfDefault]
    ELSE None

BadMechanism ==
    /\ phase = "made"
    /\ Chosen \in {None, NotAMechanism}
    /\ Raises(IF Chosen = None THEN "no default mechanism" ELSE "not a Mechanism")
    /\ UNCHANGED <<key, call, length, heap, template, wrapper, seen, wrapped>>

(* Kept in self.param only once the structure is filled: for a mutant.     *)
FillFailsUnkept ==
    /\ phase = "made"
    /\ Chosen \notin {None, NotAMechanism}
    /\ ~Fits(Branch(Chosen, call.param), call.param)
    /\ heap' = heap \cup (IF Mallocs(Branch(Chosen, call.param), call.param) THEN {"param"} ELSE {})
    /\ Raises("bad parameter")
    /\ UNCHANGED <<key, call, length, template, wrapper, seen, wrapped>>

(* What the branch allocates it keeps in self.param before it fills it.    *)
Allocated == IF Mallocs(Branch(Chosen, call.param), call.param) THEN {"param"} ELSE {}

(* pParameter is set at the end, to self.param if there is one.            *)
SetMechanism ==
    LET branch == Branch(Chosen, call.param) IN
    wrapper' =
        [mechanism  |-> Chosen,
         pParameter |-> IF branch \in Structures THEN "param"
                        ELSE IF branch = "raw" THEN "python" ELSE "NULL",
         of         |-> IF branch = "raw" THEN "bytes"
                        ELSE IF branch = "none" THEN "nothing" ELSE branch,
         param      |-> IF Allocated = {} THEN "NULL" ELSE "block",
         fields     |-> Packed(branch, call.param)]

Fill ==
    /\ phase = "made"
    /\ Chosen \notin {None, NotAMechanism}
    /\ Fits(Branch(Chosen, call.param), call.param)
    /\ heap' = heap \cup Allocated
    /\ SetMechanism
    /\ phase' = "ready"
    /\ UNCHANGED <<key, call, length, template, seen, outcome, wrapped>>

FillFails ==
    /\ phase = "made"
    /\ Chosen \notin {None, NotAMechanism}
    /\ ~Fits(Branch(Chosen, call.param), call.param)
    /\ heap' = heap \cup Allocated
    /\ wrapper' = Unfilled(IF Allocated = {} THEN "NULL" ELSE "block")
    /\ Raises("bad parameter")
    /\ UNCHANGED <<key, call, length, template, seen, wrapped>>

-----------------------------------------------------------------------------
(***************************************************************************)
(* AttributeList.from_template, and the end of the wrappers.               *)
(***************************************************************************)
(* The methods that send the template of a new object; a key pair has two, *)
(* for which one list stands here.                                         *)
TakesTemplate(op) == MakesKey(op) \/ op = "parameters"

(* The methods that make a secret key or an RSA pair need a key_length.    *)
NeedsLength(type) ==
    type \notin {"DES2", "DES3", "GOST28147", "SEED", "DH", "DSA", "EC", "X9_42_DH", "EC_EDWARDS"}

LacksLength ==
    /\ phase = "ready"
    /\ call.op = "generate" /\ NeedsLength(call.type)
    /\ Raises("no key length")
    /\ UNCHANGED <<key, call, length, heap, template, wrapper, seen, wrapped>>

(* A block for the list, and one for each value that has been packed; the  *)
(* count is that of the template from the beginning.                       *)
Packs(count, packed) ==
    /\ phase = "ready"
    /\ TakesTemplate(call.op)
    /\ heap' = heap \cup {"attributes"}
    /\ values' = 1..packed
    /\ list' = Listing(count, packed)

PackTemplate(count) ==
    /\ Packs(count, count)
    /\ phase' = "packed"
    /\ UNCHANGED <<key, call, length, wrapper, seen, outcome, wrapped>>

(* No handler for an attribute, or a value that its handler cannot pack.   *)
PackFails(count, packed) ==
    /\ packed < count
    /\ Packs(count, packed)
    /\ Raises("no packing")
    /\ UNCHANGED <<key, call, length, wrapper, seen, wrapped>>

(* The pointers that AttributeList.__dealloc__ frees: as many as it counts.*)
Pointers == 1..list.count

(* __dealloc__ of both: PyMem_Free of the values and of the list, of the   *)
(* mechanism and of what self.param holds.  A pointer that was never set   *)
(* may happen to be NULL, which is no harm ...                             *)
Dealloc ==
    /\ phase = "over"
    /\ heap' = heap \ ({"data", "attributes"}
                        \cup (IF wrapper.param = "block" THEN {"param"} ELSE {}))
    /\ values' = values \ (Pointers \cap list.set)
    /\ list' = NoList
    /\ wrapper' = Unfilled("NULL")
    /\ phase' = "idle"
    /\ call' = NoCall
    /\ length' = 0
    /\ seen' = {}
    /\ outcome' = None
    /\ wrapped' = Nothing
    /\ UNCHANGED key

(* ... or anything: memory is corrupted, and what follows is undefined.    *)
FreesUnset ==
    /\ phase = "over"
    /\ ~(Pointers \subseteq list.set)
    /\ phase' = "undefined"
    /\ UNCHANGED <<key, call, length, heap, template, wrapper, seen, outcome, wrapped>>

Undefined == phase = "undefined" /\ UNCHANGED vars
-----------------------------------------------------------------------------
(***************************************************************************)
(* The token.                                                              *)
(***************************************************************************)
(* The token reads the mechanism and its parameter.                        *)
Sent == [mechanism |-> wrapper.mechanism, pParameter |-> wrapper.pParameter,
         of |-> wrapper.of, fields |-> wrapper.fields, given |-> call.param]

Reads == seen' = {Sent}

(* Everything is packed that the C call takes.                             *)
Prepared == phase = IF TakesTemplate(call.op) THEN "packed" ELSE "ready"

(* C_GenerateKey, C_UnwrapKey, C_DeriveKey make a key; C_EncryptInit and   *)
(* the like begin an operation.                                            *)
Send ==
    /\ Prepared
    /\ call.op # "wrap"
    /\ Reads
    /\ phase' = "over"
    /\ key' = IF MakesKey(call.op)
              THEN [type |-> call.type, capabilities |-> call.capabilities,
                    defaulted |-> call.defaulted]
              ELSE key
    /\ UNCHANGED <<call, length, heap, template, wrapper, outcome, wrapped>>

(* The token refuses any of these calls.                                   *)
Refuses ==
    /\ Prepared \/ phase = "sized"
    /\ Reads
    /\ Raises("refused")
    /\ UNCHANGED <<key, call, length, heap, template, wrapper, wrapped>>

(* The first C_WrapKey asks for the length, which may be more than what    *)
(* the second one writes; there is no element 0 of an empty buffer.        *)
AskLength(answer) ==
    /\ phase = "ready"
    /\ call.op = "wrap"
    /\ Reads
    /\ length' = answer
    /\ IF answer = 0 THEN Raises("index") ELSE phase' = "sized" /\ UNCHANGED outcome
    /\ UNCHANGED <<key, call, heap, template, wrapper, wrapped>>

(* The whole buffer returned: for a mutant.                                *)
Unsliced(buffer, n) == buffer

(* How much of the buffer the slice data[:length] has.                     *)
Sliced(buffer, n) == IF n <= buffer THEN n ELSE buffer

WrapKey(written) ==
    /\ phase = "sized"
    /\ written <= length
    /\ Reads
    /\ length' = written
    /\ wrapped' = [wrote |-> written, returned |-> Sliced(length, written)]
    /\ phase' = "over"
    /\ UNCHANGED <<key, call, heap, template, wrapper, outcome>>
-----------------------------------------------------------------------------
Next ==
    \/ \E op \in SessionOps \cup AllOps, q \in Requests : Begin(op, q) \/ NoCapabilities(op, q)
    \/ BadMechanism
    \/ Fill
    \/ FillFails
    \/ LacksLength
    \/ \E n \in Counts : PackTemplate(n) \/ \E packed \in 0..n : PackFails(n, packed)
    \/ Dealloc
    \/ FreesUnset
    \/ Undefined
    \/ Send
    \/ Refuses
    \/ \E n \in Lengths : AskLength(n) \/ WrapKey(n)

Spec == Init /\ [][Next]_vars
-----------------------------------------------------------------------------
(***************************************************************************)
(* Properties.                                                             *)
(***************************************************************************)
(* The fields of the structures in cryptoki.h.                             *)
Fields(structure) ==
    CASE structure = "CK_KEY_DERIVATION_STRING_DATA" -> {"pData", "ulLen"}
      [] structure = "CK_RSA_PKCS_OAEP_PARAMS" ->
             {"hashAlg", "mgf", "source", "pSourceData", "ulSourceDataLen"}
      [] structure = "CK_RSA_PKCS_PSS_PARAMS" -> {"hashAlg", "mgf", "sLen"}
      [] structure = "CK_EDDSA_PARAMS" -> {"phFlag", "ulContextDataLen", "pContextData"}
      [] structure = "CK_ECDH1_DERIVE_PARAMS" ->
             {"kdf", "ulSharedDataLen", "pSharedData", "ulPublicDataLen", "pPublicData"}
      [] structure = "CK_AES_CBC_ENCRYPT_DATA_PARAMS" -> {"iv", "pData", "length"}
      [] structure = "CK_GCM_PARAMS" ->
             {"pIv", "ulIvLen", "ulIvBits", "pAAD", "ulAADLen", "ulTagBits"}
      [] structure = "CK_AES_CTR_PARAMS" -> {"ulCounterBits", "cb"}

(* The mechanisms that PKCS#11 and docs/applied.rst give each structure.   *)
Sha3Pss == {"SHA3_224_RSA_PKCS_PSS", "SHA3_256_RSA_PKCS_PSS", "SHA3_384_RSA_PKCS_PSS",
            "SHA3_512_RSA_PKCS_PSS"}

Takers ==
    [CK_KEY_DERIVATION_STRING_DATA  |-> {"AES_ECB_ENCRYPT_DATA"},
     CK_RSA_PKCS_OAEP_PARAMS        |-> {"RSA_PKCS_OAEP"},
     CK_RSA_PKCS_PSS_PARAMS         |->
         {"RSA_PKCS_PSS", "SHA1_RSA_PKCS_PSS", "SHA224_RSA_PKCS_PSS", "SHA256_RSA_PKCS_PSS",
          "SHA384_RSA_PKCS_PSS", "SHA512_RSA_PKCS_PSS"} \cup Sha3Pss,
     CK_EDDSA_PARAMS                |-> {"EDDSA"},
     CK_ECDH1_DERIVE_PARAMS         |-> {"ECDH1_DERIVE", "ECDH1_COFACTOR_DERIVE"},
     CK_AES_CBC_ENCRYPT_DATA_PARAMS |-> {"AES_CBC_ENCRYPT_DATA"},
     CK_GCM_PARAMS                  |-> {"AES_GCM"},
     CK_AES_CTR_PARAMS              |-> {"AES_CTR"}]

TakesStructure(m) == \E structure \in Structures : m \in Takers[structure]

FitsMechanism(s) ==
    CASE s.pParameter = "param" -> s.of \in Structures /\ s.mechanism \in Takers[s.of]
      [] s.pParameter = "python" ->
             s.of = "bytes" /\ s.given.form = "bytes" /\ s.mechanism # "AES_ECB_ENCRYPT_DATA"
      [] s.pParameter = "NULL" ->
             /\ s.of = "nothing" /\ s.given.form = None
             /\ TakesStructure(s.mechanism) => s.mechanism \in {"EDDSA"} \cup Sha3Pss
      [] OTHER -> FALSE

(* What a token reads through pParameter is what its mechanism takes: the  *)
(* structure of that mechanism, allocated by the wrapper and counted by    *)
(* its size; else the caller's bytes as they are, never in place of the    *)
(* structure of AES_ECB_ENCRYPT_DATA; else nothing, when the caller gave   *)
(* nothing and the mechanism can do without.  The PSS mechanisms with      *)
(* SHA-3 are an exception: the code has no branch for them, so where the   *)
(* caller gives nothing their tokens read nothing instead of the defaults  *)
(* that the other PSS mechanisms get (and a tuple is refused, which        *)
(* docs/applied.rst:1019-1021 says they take).                             *)
ParameterFitsMechanism == \A s \in seen : FitsMechanism(s)

IsComplete(s) ==
    s.pParameter = "param" =>
        /\ DOMAIN s.fields = Fields(s.of)
        /\ s.of = "CK_GCM_PARAMS" =>
               /\ s.fields.ulIvBits = 8 * s.fields.ulIvLen
               /\ s.fields.pAAD = "NULL" => s.fields.ulAADLen = 0
        /\ s.of = "CK_AES_CTR_PARAMS" =>
               /\ s.fields.cb = 16
               /\ s.fields.ulCounterBits >= 8
               /\ s.fields.ulCounterBits + 8 * s.given.size = 128

(* No token reads a field that was not assigned (the memory is that of     *)
(* malloc), a length without its bytes, or a counter block in which the    *)
(* nonce leaves no room for the counter.                                   *)
StructuresAreComplete == \A s \in seen : IsComplete(s)

(* Whatever a call was given and wherever it failed, its wrappers free     *)
(* what they allocated.  Pointers that were never set are freed only after *)
(* a template could not be packed to its end (what follows is undefined).  *)
NothingLeaks ==
    /\ phase = "idle" => heap = {} /\ values = {}
    /\ phase = "undefined" => outcome = "no packing"

(* A key made with the default capabilities can be used for all of them    *)
(* without naming a mechanism, and a type that has default capabilities    *)
(* can be generated so: the tables of defaults.py agree.                   *)
DefaultKeysWork ==
    phase = "over" /\ outcome = "no default mechanism" =>
        \/ call.op \in {"parameters", "digest"}
        \/ call.op = "generate" /\ ~call.defaulted
        \/ call.op \in AllOps /\ ~key.defaulted

(* wrap_key returns the wrapped key as the token wrote it, without the     *)
(* rest of a buffer that was sized for more.                               *)
WrapsAreWhole == wrapped.returned = wrapped.wrote
=============================================================================
