------------------------ MODULE MechanismParamsProofs ------------------------
(***************************************************************************)
(* Proofs about MechanismParams, for any arguments of the calls and any    *)
(* lengths of wrapped keys.                                                *)
(***************************************************************************)
EXTENDS MechanismParams, TLAPS

Phases == {"idle", "made", "ready", "packed", "sized", "over", "undefined"}
-----------------------------------------------------------------------------
(***************************************************************************)
(* Memory.  A block for the parameter exists only while self.param holds   *)
(* it, and a value's block only while a pointer that the list counts is    *)
(* set to it, so __dealloc__ frees what there is.                          *)
(***************************************************************************)
HeapInv ==
    /\ phase \in Phases
    /\ heap \subseteq {"data", "param", "attributes"}
    /\ wrapper.param \in {"NULL", "block"}
    /\ "param" \in heap => wrapper.param = "block"
    /\ phase \in {"idle", "made"} => wrapper.param = "NULL"
    /\ values \subseteq Pointers \cap list.set
    /\ phase = "idle" => heap = {} /\ values = {}

(* Pointers that were never set are those of a template that could not be  *)
(* packed to its end, and are not looked at before the end of the call.    *)
PointerInv ==
    /\ phase \in Phases
    /\ Pointers \subseteq list.set \/ (phase \in {"over", "undefined"} /\ outcome = "no packing")
    /\ phase = "undefined" => outcome = "no packing"

LEMMA HeapInit == Init => HeapInv
BY DEF Init, HeapInv, Phases, Unfilled

LEMMA PointerInit == Init => PointerInv
<1> SUFFICES ASSUME Init PROVE PointerInv
    OBVIOUS
<1>1. Pointers = 1..0 /\ list.set = 1..0
      BY DEF Init, Pointers, NoList, Listing
<1> QED
    BY <1>1 DEF Init, PointerInv, Phases

(* A template that is packed, as far as it can be.                         *)
LEMMA PacksPointers ==
    ASSUME NEW count \in Nat, NEW packed \in 0..count, Packs(count, packed)
    PROVE  /\ values' = 1..packed /\ Pointers' = 1..count /\ list'.set = 1..packed
           /\ values' \subseteq Pointers' \cap list'.set
BY DEF Packs, Listing, Pointers

(* A step that leaves the template and the wrapper as they are.            *)
LEMMA HeapSame ==
    ASSUME HeapInv, UNCHANGED <<heap, template, wrapper>>,
           phase' \in Phases \ {"idle", "made"}
    PROVE  HeapInv'
BY DEF HeapInv, template, Pointers

LEMMA PointerSame ==
    ASSUME PointerInv, UNCHANGED template, phase' \in Phases \ {"undefined"},
           phase \notin {"over", "undefined"}
    PROVE  PointerInv'
BY DEF PointerInv, template, Pointers

LEMMA HeapNext == HeapInv /\ [Next]_vars => HeapInv'
<1> SUFFICES ASSUME HeapInv, [Next]_vars PROVE HeapInv'
    OBVIOUS
<1> USE DEF Phases
<1>1. ASSUME NEW op \in SessionOps \cup AllOps, NEW q \in Requests, Begin(op, q)
      PROVE  HeapInv'
      BY <1>1 DEF Begin, Unfilled, HeapInv, template, Pointers
<1>2. ASSUME NEW op \in SessionOps \cup AllOps, NEW q \in Requests, NoCapabilities(op, q)
      PROVE  HeapInv'
      BY <1>2, HeapSame DEF NoCapabilities, Raises
<1>3. CASE BadMechanism
      BY <1>3, HeapSame DEF BadMechanism, Raises
<1>4. CASE Fill
      BY <1>4 DEF Fill, SetMechanism, Allocated, HeapInv, template, Pointers
<1>5. CASE FillFails
      BY <1>5 DEF FillFails, Unfilled, Raises, Allocated, HeapInv, template, Pointers
<1>6. CASE Dealloc
      <2>1. values' = {}
            BY <1>6 DEF Dealloc, HeapInv
      <2>2. heap' = {}
            BY <1>6 DEF Dealloc, HeapInv
      <2> QED
          BY <1>6, <2>1, <2>2 DEF Dealloc, Unfilled, HeapInv
<1>7. CASE Send
      BY <1>7, HeapSame DEF Send
<1>8. CASE Refuses
      BY <1>8, HeapSame DEF Refuses, Raises
<1>9. ASSUME NEW n \in Lengths, AskLength(n) \/ WrapKey(n)
      PROVE  HeapInv'
      <2>1. phase' \in {"sized", "over"}
            BY <1>9 DEF AskLength, WrapKey, Raises
      <2> QED
          BY <2>1, <1>9, HeapSame DEF AskLength, WrapKey
<1>10. CASE UNCHANGED vars
      BY <1>10 DEF vars, HeapInv, Pointers
<1>11. CASE LacksLength
      BY <1>11, HeapSame DEF LacksLength, Raises
<1>12. ASSUME NEW n \in Counts, NEW k \in 0..n, Packs(n, k), phase' \in {"packed", "over"},
              UNCHANGED wrapper
       PROVE  HeapInv'
       <2>1. values' \subseteq Pointers' \cap list'.set
             BY <1>12, LengthsAssumption, PacksPointers
       <2>2. heap' = heap \cup {"attributes"}
             BY <1>12 DEF Packs
       <2> QED
           BY <1>12, <2>1, <2>2 DEF HeapInv
<1>13. ASSUME NEW n \in Counts, PackTemplate(n) PROVE HeapInv'
       <2>1. n \in 0..n
             BY LengthsAssumption
       <2> QED
           BY <1>12, <1>13, <2>1 DEF PackTemplate
<1>14. ASSUME NEW n \in Counts, NEW k \in 0..n, PackFails(n, k) PROVE HeapInv'
       BY <1>12, <1>14 DEF PackFails, Raises
<1>15. CASE FreesUnset
      BY <1>15, HeapSame DEF FreesUnset
<1>16. CASE Undefined
      BY <1>16, <1>10 DEF Undefined
<1> QED
    BY <1>1, <1>2, <1>3, <1>4, <1>5, <1>6, <1>7, <1>8, <1>9, <1>10, <1>11, <1>13, <1>14, <1>15,
       <1>16 DEF Next

LEMMA PointerNext == PointerInv /\ [Next]_vars => PointerInv'
<1> SUFFICES ASSUME PointerInv, [Next]_vars PROVE PointerInv'
    OBVIOUS
<1> USE DEF Phases
<1>1. ASSUME NEW op \in SessionOps \cup AllOps, NEW q \in Requests,
             Begin(op, q) \/ NoCapabilities(op, q)
      PROVE  PointerInv'
      BY <1>1, PointerSame DEF Begin, NoCapabilities, Raises
<1>2. CASE BadMechanism \/ Fill \/ FillFails \/ LacksLength
      BY <1>2, PointerSame DEF BadMechanism, Fill, FillFails, LacksLength, Raises
<1>3. CASE Dealloc
      <2>1. Pointers' = 1..0 /\ list'.set = 1..0
            BY <1>3 DEF Dealloc, NoList, Listing, Pointers
      <2> QED
          BY <1>3, <2>1 DEF Dealloc, PointerInv
<1>4. CASE Send \/ Refuses
      BY <1>4, PointerSame DEF Send, Refuses, Prepared, Raises
<1>5. ASSUME NEW n \in Lengths, AskLength(n) \/ WrapKey(n)
      PROVE  PointerInv'
      BY <1>5, PointerSame DEF AskLength, WrapKey, Raises
<1>6. ASSUME NEW n \in Counts, PackTemplate(n) PROVE PointerInv'
      <2>1. n \in 0..n /\ n \in Nat /\ Packs(n, n)
            BY <1>6, LengthsAssumption DEF PackTemplate
      <2>2. Pointers' = list'.set
            BY <2>1, PacksPointers
      <2> QED
          BY <1>6, <2>2 DEF PackTemplate, PointerInv
<1>7. ASSUME NEW n \in Counts, NEW k \in 0..n, PackFails(n, k) PROVE PointerInv'
      BY <1>7 DEF PackFails, Raises, PointerInv
<1>8. CASE FreesUnset
      BY <1>8 DEF FreesUnset, PointerInv, template, Pointers
<1>9. CASE Undefined \/ UNCHANGED vars
      BY <1>9 DEF Undefined, vars, PointerInv, Pointers
<1> QED
    BY <1>1, <1>2, <1>3, <1>4, <1>5, <1>6, <1>7, <1>8, <1>9 DEF Next

(* The wrappers free what they allocated, whatever the call was given and  *)
(* wherever MechanismWithParam.__init__ raised, unless a template could    *)
(* not be packed to its end: then a pointer that was never set may be      *)
(* freed, and what follows is undefined.                                   *)
THEOREM WrapperFreesItsOwn == Spec => []NothingLeaks
<1>1. HeapInv /\ PointerInv => NothingLeaks
      BY DEF HeapInv, PointerInv, NothingLeaks
<1> QED
    BY <1>1, HeapInit, HeapNext, PointerInit, PointerNext, PTL DEF Spec
-----------------------------------------------------------------------------
(***************************************************************************)
(* What the token reads.  The one step to look into is Fill: it leaves a   *)
(* CK_MECHANISM that is right for the token, which nothing changes until   *)
(* the token has read it.                                                  *)
(***************************************************************************)
ParamSet ==
    [form : STRING \cup {None}, size : Nat, optional : BOOLEAN, assigned : BOOLEAN]

IsRight(s) == FitsMechanism(s) /\ IsComplete(s)

(* What Sent is once Fill has run.                                         *)
Result(m, p) ==
    LET branch == Branch(m, p) IN
    [mechanism  |-> m,
     pParameter |-> IF branch \in Structures THEN "param"
                    ELSE IF branch = "raw" THEN "python" ELSE "NULL",
     of         |-> IF branch = "raw" THEN "bytes"
                    ELSE IF branch = "none" THEN "nothing" ELSE branch,
     fields     |-> Packed(branch, p),
     given      |-> p]

LEMMA StructuresHaveNames ==
    ASSUME NEW m PROVE BranchFor(m) \in Structures \cup {None}
BY DEF BranchFor, Structures

(* A branch fills the structure that its mechanisms take, and the SHA-3    *)
(* ones of PSS are the only mechanisms with a structure but no branch.     *)
LEMMA BranchesFit ==
    ASSUME NEW m
    PROVE  /\ BranchFor(m) \in Structures => m \in Takers[BranchFor(m)]
           /\ BranchFor(m) \notin Structures /\ TakesStructure(m) => m \in Sha3Pss
<1>1. ASSUME BranchFor(m) \in Structures
      PROVE  m \in Takers[BranchFor(m)]
      <2>1. CASE m \in Pss
            <3>1. BranchFor(m) = "CK_RSA_PKCS_PSS_PARAMS"
                  BY <2>1 DEF BranchFor, Pss, Ecdh1
            <3> QED
                BY <2>1, <3>1 DEF Takers, Pss
      <2>2. CASE m \in Ecdh1
            <3>1. BranchFor(m) = "CK_ECDH1_DERIVE_PARAMS"
                  BY <2>2 DEF BranchFor, Pss, Ecdh1
            <3> QED
                BY <2>2, <3>1 DEF Takers, Ecdh1
      <2>3. CASE m \notin Pss \cup Ecdh1
            <3>1. m \in {"AES_ECB_ENCRYPT_DATA", "RSA_PKCS_OAEP", "EDDSA", "AES_CBC_ENCRYPT_DATA",
                         "AES_GCM", "AES_CTR"}
                  BY <1>1, <2>3, NoneAssumption DEF BranchFor
            <3> QED
                BY <2>3, <3>1 DEF BranchFor, Takers
      <2> QED
          BY <2>1, <2>2, <2>3
<1>2. ASSUME BranchFor(m) \notin Structures, TakesStructure(m)
      PROVE  m \in Sha3Pss
      <2>1. m \notin Pss \cup Ecdh1
            BY <1>2 DEF BranchFor, Structures, Pss, Ecdh1
      <2>2. m \notin {"AES_ECB_ENCRYPT_DATA", "RSA_PKCS_OAEP", "EDDSA", "AES_CBC_ENCRYPT_DATA",
                      "AES_GCM", "AES_CTR"}
            BY <1>2 DEF BranchFor, Structures, Pss, Ecdh1
      <2>3. PICK structure \in Structures : m \in Takers[structure]
            BY <1>2 DEF TakesStructure
      <2> QED
          BY <2>1, <2>2, <2>3 DEF Structures, Takers, Pss, Ecdh1
<1> QED
    BY <1>1, <1>2

(* The branch that is taken decides what pParameter points to.             *)
LEMMA ResultFits ==
    ASSUME NEW m, NEW p, Fits(Branch(m, p), p)
    PROVE  FitsMechanism(Result(m, p))
<1> DEFINE branch == Branch(m, p)
<1>1. branch # "unexpected"
      BY DEF Fits
<1>2. CASE p.form = "bytes" /\ m # "AES_ECB_ENCRYPT_DATA"
      <2>1. branch = "raw"
            BY <1>2 DEF Branch
      <2> QED
          BY <1>2, <2>1 DEF Result, FitsMechanism, Structures
<1>3. CASE /\ ~(p.form = "bytes" /\ m # "AES_ECB_ENCRYPT_DATA")
           /\ BranchFor(m) # None /\ ~(m = "EDDSA" /\ p.form = None)
      <2>1. branch = BranchFor(m)
            BY <1>3 DEF Branch
      <2>2. branch \in Structures
            BY <1>3, <2>1, StructuresHaveNames
      <2>3. branch \notin {"raw", "none"}
            BY <2>2 DEF Structures
      <2>4. m \in Takers[branch]
            BY <2>1, <2>2, BranchesFit
      <2> QED
          BY <2>2, <2>3, <2>4 DEF Result, FitsMechanism
<1>4. CASE /\ ~(p.form = "bytes" /\ m # "AES_ECB_ENCRYPT_DATA")
           /\ ~(BranchFor(m) # None /\ ~(m = "EDDSA" /\ p.form = None))
      <2>1. branch = "none" /\ p.form = None
            BY <1>1, <1>4 DEF Branch
      <2>2. TakesStructure(m) => m \in {"EDDSA"} \cup Sha3Pss
            BY <1>4, BranchesFit, NoneAssumption
      <2>3. /\ Result(m, p).pParameter = "NULL" /\ Result(m, p).of = "nothing"
            /\ Result(m, p).given.form = None /\ Result(m, p).mechanism = m
            BY <2>1 DEF Result, Structures
      <2> QED
          BY <2>2, <2>3 DEF FitsMechanism
<1> QED
    BY <1>2, <1>3, <1>4

(* Each structure is filled to the last field.                             *)
LEMMA ResultIsComplete ==
    ASSUME NEW m, NEW p \in ParamSet, Fits(Branch(m, p), p)
    PROVE  IsComplete(Result(m, p))
<1> DEFINE branch == Branch(m, p)
<1>1. SUFFICES ASSUME branch \in Structures
               PROVE  IsComplete(Result(m, p))
      BY DEF IsComplete, Result
<1>2. Result(m, p).of = branch /\ Result(m, p).fields = Packed(branch, p) /\ Result(m, p).given = p
      BY <1>1 DEF Result, Structures
<1>3. DOMAIN Packed(branch, p) = Fields(branch)
      BY <1>1 DEF Structures, Packed, Fields
<1>4. CASE branch = "CK_GCM_PARAMS"
      <2>1. Packed(branch, p) =
              [pIv |-> "given", ulIvLen |-> p.size, ulIvBits |-> p.size * 8,
               pAAD |-> Pointer(p), ulAADLen |-> LengthOf(p), ulTagBits |-> "given"]
            BY <1>4 DEF Packed
      <2>2. p.size \in Nat
            BY DEF ParamSet
      <2>3. Pointer(p) = "NULL" => LengthOf(p) = 0
            BY DEF Pointer, LengthOf
      <2> QED
          BY <1>2, <1>3, <1>4, <2>1, <2>2, <2>3 DEF IsComplete
<1>5. CASE branch = "CK_AES_CTR_PARAMS"
      <2>1. Packed(branch, p) = [ulCounterBits |-> (16 - p.size) * 8, cb |-> CounterBlock(p)]
            BY <1>5 DEF Packed
      <2>2. p.size \in Nat /\ CounterBlock(p) = 16
            BY <1>5 DEF ParamSet, Fits
      <2>3. p.size <= 15
            BY <2>2 DEF CounterBlock
      <2> QED
          BY <1>2, <1>3, <1>5, <2>1, <2>2, <2>3 DEF IsComplete
<1>6. CASE branch \notin {"CK_GCM_PARAMS", "CK_AES_CTR_PARAMS"}
      BY <1>2, <1>3, <1>6 DEF IsComplete
<1> QED
    BY <1>4, <1>5, <1>6

SentInv ==
    /\ phase \in Phases
    /\ phase = "made" => call.param \in ParamSet
    /\ phase \in {"ready", "packed", "sized"} => IsRight(Sent)
    /\ \A s \in seen : IsRight(s)

LEMMA SentInit == Init => SentInv
BY DEF Init, SentInv, Phases

LEMMA SentNext == SentInv /\ [Next]_vars => SentInv'
<1> SUFFICES ASSUME SentInv, [Next]_vars PROVE SentInv'
    OBVIOUS
<1> USE DEF SentInv, Phases
<1>1. ASSUME NEW op \in SessionOps \cup AllOps, NEW q \in Requests, Begin(op, q)
      PROVE  SentInv'
      BY <1>1, RequestsAssumption DEF Begin, ParamSet
<1>2. ASSUME NEW op \in SessionOps \cup AllOps, NEW q \in Requests, NoCapabilities(op, q)
      PROVE  SentInv'
      BY <1>2 DEF NoCapabilities, Raises
<1>3. CASE BadMechanism
      BY <1>3 DEF BadMechanism, Raises
<1>4. CASE Fill
      <2>1. Sent' = Result(Chosen, call.param)
            BY <1>4 DEF Fill, SetMechanism, Sent, Result
      <2>2. call.param \in ParamSet /\ Fits(Branch(Chosen, call.param), call.param)
            BY <1>4 DEF Fill
      <2>3. IsRight(Sent')
            BY <2>1, <2>2, ResultFits, ResultIsComplete DEF IsRight
      <2>4. phase' = "ready" /\ seen' = seen
            BY <1>4 DEF Fill
      <2>5. IsRight(Sent)'
            BY <2>3 DEF IsRight, FitsMechanism, IsComplete
      <2> QED
          BY <2>4, <2>5 DEF IsRight, FitsMechanism, IsComplete
<1>5. CASE FillFails
      BY <1>5 DEF FillFails, Raises
<1>6. CASE Dealloc
      BY <1>6 DEF Dealloc
<1>7. CASE Send
      BY <1>7 DEF Send, Reads, Prepared
<1>8. CASE Refuses
      BY <1>8 DEF Refuses, Reads, Raises, Prepared
<1>9. ASSUME NEW n \in Lengths, AskLength(n) \/ WrapKey(n)
      PROVE  SentInv'
      <2>1. Sent' = Sent /\ seen' = {Sent} /\ phase' \in Phases \ {"made"}
            BY <1>9 DEF AskLength, WrapKey, Reads, Raises, Sent
      <2> QED
          BY <1>9, <2>1 DEF AskLength, WrapKey
<1>10. CASE UNCHANGED vars
      BY <1>10 DEF vars, Sent
<1>11. CASE LacksLength
      BY <1>11 DEF LacksLength, Raises
<1>12. ASSUME NEW n \in Counts, NEW k \in 0..n, PackTemplate(n) \/ PackFails(n, k)
       PROVE  SentInv'
       <2>1. Sent' = Sent /\ seen' = seen /\ phase = "ready" /\ phase' \in {"packed", "over"}
             BY <1>12 DEF PackTemplate, PackFails, Packs, Raises, Sent
       <2> QED
           BY <2>1
<1>13. CASE FreesUnset \/ Undefined
      BY <1>10, <1>13 DEF FreesUnset, Undefined
<1>14. ASSUME NEW n \in Counts PROVE 0 \in 0..n
      BY LengthsAssumption
<1> QED
    BY <1>1, <1>2, <1>3, <1>4, <1>5, <1>6, <1>7, <1>8, <1>9, <1>10, <1>11, <1>12, <1>13, <1>14
       DEF Next

(* The token reads the structure that its mechanism takes, the caller's    *)
(* bytes, or nothing where nothing was given and nothing is needed, or the *)
(* mechanism is one of PSS with SHA-3.                                     *)
THEOREM TokenReadsTheParameter == Spec => []ParameterFitsMechanism
<1>1. SentInv => ParameterFitsMechanism
      BY DEF SentInv, ParameterFitsMechanism, IsRight
<1> QED
    BY <1>1, SentInit, SentNext, PTL DEF Spec

(* Every field of a structure is assigned before the token reads it.       *)
THEOREM TokenReadsNoGarbage == Spec => []StructuresAreComplete
<1>1. SentInv => StructuresAreComplete
      BY DEF SentInv, StructuresAreComplete, IsRight
<1> QED
    BY <1>1, SentInit, SentNext, PTL DEF Spec
-----------------------------------------------------------------------------
(***************************************************************************)
(* The tables of defaults.py.  A key with the default capabilities has     *)
(* those of its type; every type that has a capability by default has a    *)
(* mechanism for it by default, and one that generates it.                 *)
(***************************************************************************)
LEMMA TableOf ==
    ASSUME NEW op
    PROVE  /\ op = "generate" => Defaults(op) = DefaultGenerate
           /\ op \in Encryption => Defaults(op) = DefaultEncrypt
           /\ op \in Signing => Defaults(op) = DefaultSign
           /\ op \in Wrapping => Defaults(op) = DefaultWrap
           /\ op = "derive" => Defaults(op) = DefaultDerive
           /\ op = "parameters" => Defaults(op) = DefaultParameters
           /\ op = "digest" => Defaults(op) = <<>>
<1> DEFINE named == {"generate", "derive", "parameters", "digest"}
<1>1. /\ \A x \in Encryption : x \notin named \cup Signing \cup Wrapping
      /\ \A x \in Signing : x \notin named \cup Wrapping
      /\ \A x \in Wrapping : x \notin named
      BY DEF Encryption, Signing, Wrapping
<1>2. op = "generate" => Defaults(op) = DefaultGenerate
      BY <1>1 DEF Defaults
<1>3. op \in Encryption => Defaults(op) = DefaultEncrypt
      BY <1>1 DEF Defaults
<1>4. op \in Signing => Defaults(op) = DefaultSign
      BY <1>1 DEF Defaults
<1>5. op \in Wrapping => Defaults(op) = DefaultWrap
      BY <1>1 DEF Defaults
<1>6. op = "derive" => Defaults(op) = DefaultDerive
      BY <1>1 DEF Defaults
<1>7. op = "parameters" => Defaults(op) = DefaultParameters
      BY <1>1 DEF Defaults
<1>8. op = "digest" => Defaults(op) = <<>>
      BY <1>1 DEF Defaults
<1> QED
    BY <1>2, <1>3, <1>4, <1>5, <1>6, <1>7, <1>8

LEMMA TablesAgree ==
    ASSUME NEW type \in DOMAIN DefaultCapabilities
    PROVE  /\ type \in DOMAIN DefaultGenerate
           /\ \A op \in DefaultCapabilities[type] : op \in AllOps /\ type \in DOMAIN Defaults(op)
<1>1. type \in {"AES", "DES2", "DES3", "DH", "DSA", "EC", "RSA", "GENERIC_SECRET", "EC_EDWARDS"}
      BY DEF DefaultCapabilities
<1>2. type \in DOMAIN DefaultGenerate
      BY <1>1 DEF DefaultGenerate
<1>3. ASSUME NEW op \in DefaultCapabilities[type]
      PROVE  op \in AllOps /\ type \in DOMAIN Defaults(op)
      <2>1. CASE type \in {"AES", "DES2", "DES3", "RSA"}
            <3>1. op \in Encryption \cup Signing \cup Wrapping
                  BY <1>3, <2>1 DEF DefaultCapabilities
            <3>2. Defaults(op) \in {DefaultEncrypt, DefaultSign, DefaultWrap}
                  BY <3>1, TableOf
            <3>3. /\ type \in DOMAIN DefaultEncrypt
                  /\ type \in DOMAIN DefaultSign
                  /\ type \in DOMAIN DefaultWrap
                  BY <2>1 DEF DefaultEncrypt, DefaultSign, DefaultWrap
            <3> QED
                BY <3>1, <3>2, <3>3 DEF AllOps
      <2>2. CASE type \in {"DSA", "EC_EDWARDS", "EC"} /\ op \in Signing
            <3>1. Defaults(op) = DefaultSign
                  BY <2>2, TableOf
            <3>2. type \in DOMAIN DefaultSign
                  BY <2>2 DEF DefaultSign
            <3> QED
                BY <2>2, <3>1, <3>2 DEF AllOps
      <2>3. CASE type \in {"DH", "EC"} /\ op = "derive"
            <3>1. Defaults(op) = DefaultDerive
                  BY <2>3, TableOf
            <3>2. type \in DOMAIN DefaultDerive
                  BY <2>3 DEF DefaultDerive
            <3> QED
                BY <2>3, <3>1, <3>2 DEF AllOps
      <2>4. type \in {"DSA", "EC_EDWARDS"} => op \in Signing
            BY <1>3 DEF DefaultCapabilities
      <2>5. type = "EC" => op \in Signing \cup {"derive"}
            BY <1>3 DEF DefaultCapabilities
      <2>6. type = "DH" => op = "derive"
            BY <1>3 DEF DefaultCapabilities
      <2>7. type # "GENERIC_SECRET"
            BY <1>3 DEF DefaultCapabilities
      <2> QED
          BY <1>1, <2>1, <2>2, <2>3, <2>4, <2>5, <2>6, <2>7
<1> QED
    BY <1>2, <1>3

HasDefaults(k) ==
    k.type \in DOMAIN DefaultCapabilities /\ k.capabilities = DefaultCapabilities[k.type]

DefaultInv ==
    /\ phase \in Phases
    /\ key # NoKey /\ key.defaulted => HasDefaults(key)
    /\ phase \in {"made", "ready", "packed", "sized"} =>
           /\ call.op \in SessionOps \cup AllOps
           /\ call.op \in AllOps => key # NoKey /\ call.op \in key.capabilities
           /\ MakesKey(call.op) /\ call.defaulted => HasDefaults(call)
    /\ phase \notin {"over", "undefined"} => outcome = None
    /\ DefaultKeysWork

(* The step that could break it: a default that is missing.                *)
LEMMA BadMechanismKeeps ==
    ASSUME DefaultInv, BadMechanism
    PROVE  DefaultKeysWork'
<1>1. SUFFICES ASSUME outcome' = "no default mechanism"
               PROVE  \/ call.op \in {"parameters", "digest"}
                      \/ call.op = "generate" /\ ~call.defaulted
                      \/ call.op \in AllOps /\ ~key.defaulted
      BY DEF BadMechanism, DefaultKeysWork
<1>2. Chosen = None /\ phase = "made"
      BY <1>1 DEF BadMechanism, Raises
<1>3. call.op \in SessionOps \cup AllOps
      BY <1>2 DEF DefaultInv
<1>4. TypeOfDefault \notin DOMAIN Defaults(call.op)
      BY <1>2, <1>3, NoneAssumption DEF Chosen
<1>5. CASE call.op = "generate"
      <2>1. TypeOfDefault = call.type /\ Defaults(call.op) = DefaultGenerate
            BY <1>5, TableOf DEF TypeOfDefault, SessionOps
      <2>2. call.defaulted => call.type \in DOMAIN DefaultCapabilities
            BY <1>2, <1>5 DEF DefaultInv, MakesKey, HasDefaults
      <2> QED
          BY <1>4, <1>5, <2>1, <2>2, TablesAgree
<1>6. CASE call.op \in AllOps
      <2>1. TypeOfDefault = key.type
            BY <1>6 DEF TypeOfDefault, SessionOps, AllOps, Encryption, Signing, Wrapping
      <2>2. key.defaulted => HasDefaults(key) /\ call.op \in key.capabilities
            BY <1>2, <1>6 DEF DefaultInv
      <2> QED
          BY <1>4, <1>6, <2>1, <2>2, TablesAgree DEF HasDefaults
<1> QED
    BY <1>3, <1>5, <1>6 DEF SessionOps

LEMMA DefaultInit == Init => DefaultInv
BY DEF Init, DefaultInv, Phases, DefaultKeysWork

LEMMA DefaultNext == DefaultInv /\ [Next]_vars => DefaultInv'
<1> SUFFICES ASSUME DefaultInv, [Next]_vars PROVE DefaultInv'
    OBVIOUS
<1> USE DEF DefaultInv, Phases
<1>1. ASSUME NEW op \in SessionOps \cup AllOps, NEW q \in Requests, Begin(op, q)
      PROVE  DefaultInv'
      <2>1. /\ phase' = "made" /\ UNCHANGED key
            /\ call'.op = op /\ call'.type = q.type
            /\ call'.defaulted = (q.capabilities = None)
            /\ MakesKey(op) => call'.capabilities = GivenOrDefault(q.capabilities, q.type)
            BY <1>1 DEF Begin
      <2>2. op \in AllOps => key # NoKey /\ op \in key.capabilities
            BY <1>1 DEF Begin, CanCall, SessionOps, AllOps, Encryption, Signing, Wrapping
      <2>3. MakesKey(op) /\ call'.defaulted => HasDefaults(call)'
            <3> SUFFICES ASSUME MakesKey(op), q.capabilities = None
                         PROVE  HasDefaults(call)'
                BY <2>1
            <3>1. q.type \in DOMAIN DefaultCapabilities
                  BY <1>1 DEF Begin
            <3>2. call'.capabilities = DefaultCapabilities[q.type]
                  BY <2>1 DEF GivenOrDefault
            <3> QED
                BY <2>1, <3>1, <3>2 DEF HasDefaults
      <2>4. HasDefaults(key)' <=> HasDefaults(key)
            BY <2>1 DEF HasDefaults
      <2>5. outcome' = None
            BY <1>1 DEF Begin
      <2> QED
          BY <2>1, <2>2, <2>3, <2>4, <2>5 DEF DefaultKeysWork, MakesKey
<1>2. ASSUME NEW op \in SessionOps \cup AllOps, NEW q \in Requests, NoCapabilities(op, q)
      PROVE  DefaultInv'
      BY <1>2 DEF NoCapabilities, Raises, DefaultKeysWork, HasDefaults
<1>3. CASE BadMechanism
      BY <1>3, BadMechanismKeeps DEF BadMechanism, Raises, HasDefaults
<1>4. CASE Fill
      BY <1>4 DEF Fill, DefaultKeysWork, HasDefaults, MakesKey
<1>5. CASE FillFails
      BY <1>5 DEF FillFails, Raises, DefaultKeysWork, HasDefaults
<1>6. CASE Dealloc
      BY <1>6 DEF Dealloc, DefaultKeysWork, HasDefaults
<1>7. CASE Send
      <2>1. UNCHANGED <<call, outcome>> /\ phase' = "over" /\ phase \in {"ready", "packed"}
            BY <1>7 DEF Send, Prepared
      <2>2. outcome = None /\ outcome # "no default mechanism"
            BY <2>1, NoneAssumption
      <2>3. CASE MakesKey(call.op)
            <3>1. /\ key'.type = call.type /\ key'.capabilities = call.capabilities
                  /\ key'.defaulted = call.defaulted
                  BY <1>7, <2>3 DEF Send
            <3>2. call.defaulted => HasDefaults(key)'
                  BY <2>1, <2>3, <3>1 DEF HasDefaults
            <3> QED
                BY <2>1, <2>2, <3>1, <3>2 DEF DefaultKeysWork
      <2>4. CASE ~MakesKey(call.op)
            BY <1>7, <2>1, <2>2, <2>4 DEF Send, DefaultKeysWork, HasDefaults
      <2> QED
          BY <2>3, <2>4
<1>8. CASE Refuses
      BY <1>8, NoneAssumption DEF Refuses, Raises, DefaultKeysWork, HasDefaults
<1>9. ASSUME NEW n \in Lengths, AskLength(n) \/ WrapKey(n)
      PROVE  DefaultInv'
      <2>1. phase \in {"ready", "sized"} /\ UNCHANGED <<key, call>>
            BY <1>9 DEF AskLength, WrapKey
      <2>2. \/ phase' = "over" /\ outcome' # "no default mechanism"
            \/ phase' = "sized" /\ outcome' = None
            BY <1>9, <2>1, NoneAssumption DEF AskLength, WrapKey, Raises
      <2> QED
          BY <2>1, <2>2, NoneAssumption DEF DefaultKeysWork, HasDefaults
<1>10. CASE UNCHANGED vars
      BY <1>10 DEF vars, DefaultKeysWork, HasDefaults
<1>11. CASE LacksLength
      BY <1>11 DEF LacksLength, Raises, DefaultKeysWork, HasDefaults
<1>12. ASSUME NEW n \in Counts, NEW k \in 0..n, PackTemplate(n) \/ PackFails(n, k)
       PROVE  DefaultInv'
       <2>1. UNCHANGED <<key, call>> /\ phase = "ready"
             BY <1>12 DEF PackTemplate, PackFails, Packs
       <2>2. \/ phase' = "packed" /\ outcome' = outcome
             \/ phase' = "over" /\ outcome' = "no packing"
             BY <1>12 DEF PackTemplate, PackFails, Raises
       <2> QED
           BY <2>1, <2>2 DEF DefaultKeysWork, HasDefaults
<1>13. CASE FreesUnset
      BY <1>13 DEF FreesUnset, DefaultKeysWork, HasDefaults
<1>14. CASE Undefined
      BY <1>10, <1>14 DEF Undefined
<1>15. ASSUME NEW n \in Counts PROVE 0 \in 0..n
      BY LengthsAssumption
<1> QED
    BY <1>1, <1>2, <1>3, <1>4, <1>5, <1>6, <1>7, <1>8, <1>9, <1>10, <1>11, <1>12, <1>13, <1>14,
       <1>15 DEF Next

(* A key made with the default capabilities can be used for each of them   *)
(* without naming a mechanism.                                             *)
THEOREM DefaultsAgree == Spec => []DefaultKeysWork
<1>1. DefaultInv => DefaultKeysWork
      BY DEF DefaultInv
<1> QED
    BY <1>1, DefaultInit, DefaultNext, PTL DEF Spec

-----------------------------------------------------------------------------
(* wrap_key returns what the token wrote, for any lengths: the slice ends  *)
(* at the length that the second call sets, which is in the buffer.        *)
THEOREM WrapsComeWhole == Spec => []WrapsAreWhole
<1>1. Init => WrapsAreWhole
      BY DEF Init, Nothing, WrapsAreWhole
<1>2. ASSUME WrapsAreWhole, [Next]_vars PROVE WrapsAreWhole'
      <2>1. ASSUME NEW n \in Lengths, WrapKey(n) PROVE WrapsAreWhole'
            BY <2>1 DEF WrapKey, Sliced, WrapsAreWhole
      <2>2. CASE wrapped' \in {wrapped, Nothing}
            BY <1>2, <2>2 DEF WrapsAreWhole, Nothing
      <2>3. ASSUME NEW op, NEW q, Begin(op, q) \/ NoCapabilities(op, q)
            PROVE  wrapped' \in {wrapped, Nothing}
            BY <2>3 DEF Begin, NoCapabilities
      <2>4. BadMechanism \/ Fill \/ FillFails \/ LacksLength \/ Dealloc \/ FreesUnset \/ Send
              \/ Refuses => wrapped' \in {wrapped, Nothing}
            BY DEF BadMechanism, Fill, FillFails, LacksLength, Dealloc, FreesUnset, Send, Refuses
      <2>5. ASSUME NEW n, AskLength(n) PROVE wrapped' = wrapped
            BY <2>5 DEF AskLength
      <2>6. ASSUME NEW n, NEW k, PackTemplate(n) \/ PackFails(n, k) PROVE wrapped' = wrapped
            BY <2>6 DEF PackTemplate, PackFails
      <2> QED
          BY <1>2, <2>1, <2>2, <2>3, <2>4, <2>5, <2>6 DEF Next, Undefined, vars
<1> QED
    BY <1>1, <1>2, PTL DEF Spec
=============================================================================
