-------------------------- MODULE TokenSearchProofs --------------------------
(***************************************************************************)
(* Proofs about TokenSearch, for any number of slots, tokens, mechanisms   *)
(* and plug events.                                                        *)
(***************************************************************************)
EXTENDS TokenSearch, FiniteSetTheorems, TLAPS

-----------------------------------------------------------------------------
(* Types.  What a call holds depends on how far it is.                     *)

Searches == {"get_tokens", "get_token"}
Looks    == {"GetTokenInfo", "CountMechanisms", "GetMechanismList", "yield"}

CallType ==
    [op : Ops, step : Steps, present : BOOLEAN, label : Labels \union {None},
     mechanisms : Filters \union {None}, count : Nat, buffer : Seq(Slots \union {Junk}),
     slots : Seq(Slots), token : Tokens \union {NoToken}, found : Seq(Slots \X Tokens)]

CallOK(c) ==
    /\ c \in CallType
    /\ c.op = "none" => c.step = "idle"
    /\ c.op = "get_slots" => c.step \in {"idle", "GetSlotList", "GetSlotInfo"}
    /\ c.op = "get_mechanisms" => c.step \in {"idle", "CountMechanisms", "GetMechanismList"}
    /\ c.op # "get_slots" => ~c.present
    /\ c.step = "GetSlotList" => c.count > 0 /\ c.slots = <<>> /\ c.found = <<>>
    /\ c.step = "GetSlotInfo" => c.buffer # <<>> /\ c.found = <<>>
    /\ c.step \in Looks => c.slots # <<>>
    /\ c.step \in {"CountMechanisms", "GetMechanismList"} /\ c.op \in Searches
          => c.token \in Tokens

WorldOK ==
    /\ DOMAIN inside \subseteq Slots
    /\ inside \in [DOMAIN inside -> Tokens \union {NoToken, Blank}]
    /\ events \subseteq Slots
    /\ changes \in 0..MaxChanges

TypeInv == WorldOK /\ CallOK(call)

(* The call that is no call, and one that begins, have the types.          *)
LEMMA NoCallOK == CallOK(NoCall)
BY DEF NoCall, CallOK, CallType, Ops, Steps, Looks, Searches

LEMMA NoList == \A S : <<>> \in Seq(S)
OBVIOUS

LEMMA AskingOK ==
    ASSUME NEW s \in Slots
    PROVE  CallOK([NoCall EXCEPT !.op = "get_mechanisms", !.step = "CountMechanisms",
                                 !.slots = <<s>>])
<1>0. <<s>> \in Seq(Slots) /\ <<s>> # <<>>
      OBVIOUS
<1>1. PICK one : one = <<s>> /\ one \in Seq(Slots) /\ one # <<>>
      BY <1>0, Zenon
<1>2. PICK c : c = [NoCall EXCEPT !.op = "get_mechanisms", !.step = "CountMechanisms",
                                  !.slots = one]
      BY Zenon
<1>3. c = [op |-> "get_mechanisms", step |-> "CountMechanisms", present |-> FALSE,
           label |-> None, mechanisms |-> None, count |-> 0, buffer |-> <<>>,
           slots |-> one, token |-> NoToken, found |-> <<>>]
      BY <1>2 DEF NoCall
<1>4. "get_mechanisms" \in Ops /\ "CountMechanisms" \in Steps
      BY DEF Ops, Steps
<1>5. <<>> \in Seq(Slots \union {Junk}) /\ <<>> \in Seq(Slots \X Tokens)
      OBVIOUS
<1>6. one \in Seq(Slots) /\ one # <<>>
      BY <1>1
<1>7. c \in CallType
      BY <1>3, <1>4, <1>5, <1>6 DEF CallType
<1>8. CallOK(c)
      BY <1>3, <1>6, <1>7 DEF CallOK, Looks, Searches
<1> QED
    BY <1>1, <1>2, <1>8

LEMMA SlotsFinite ==
    ASSUME WorldOK, NEW present \in BOOLEAN
    PROVE  /\ IsFiniteSet(Listed(present))
           /\ Cardinality(Listed(present)) \in Nat
           /\ Listed(present) \subseteq Slots
<1>0. MaxSlots \in Int /\ 1 \in Int
      BY WorldAssumption
<1>1. IsFiniteSet(Slots)
      BY <1>0, FS_Interval DEF Slots
<1>2. Listed(present) \subseteq Slots
      BY DEF Listed, WorldOK
<1> QED
    BY <1>1, <1>2, FS_Subset, FS_CardinalityType

LEMMA LookAtType ==
    ASSUME NEW c \in CallType, c.op \in Searches, ~c.present, NEW slots \in Seq(Slots),
           LookAt(c, slots)
    PROVE  CallOK(call') /\ UNCHANGED world
<1>1. CASE slots = <<>>
      BY <1>1, NoCallOK DEF LookAt, EndOfSlots, Returns
<1>2. CASE slots # <<>>
  <2> DEFINE d == [c EXCEPT !.step = "GetTokenInfo", !.slots = slots, !.token = NoToken,
                            !.count = 0, !.buffer = <<>>]
  <2>1. call' = d /\ UNCHANGED world
        BY <1>2 DEF LookAt, Goes
  <2>2. d \in CallType
        BY NoList DEF CallType, Steps
  <2>3. d.op = c.op /\ d.present = c.present /\ d.step = "GetTokenInfo" /\ d.slots = slots
        BY DEF CallType
  <2>4. CallOK(d)
        BY <1>2, <2>2, <2>3 DEF CallOK, Looks, Searches
  <2> QED
      BY <2>1, <2>4
<1> QED
    BY <1>1, <1>2

LEMMA FilterType ==
    ASSUME TypeInv, call.step \in {"CountMechanisms", "GetMechanismList"}, NEW mechanisms,
           Filter(call, mechanisms)
    PROVE  CallOK(call') /\ UNCHANGED world
<1> DEFINE fitting == [call EXCEPT !.found = Append(@, <<Head(call.slots), call.token>>)]
<1>1. CASE call.op = "get_mechanisms"
      BY <1>1, NoCallOK DEF Filter, Returns
<1>2. CASE call.op \in Searches
  <2>1. /\ call \in CallType /\ call.slots # <<>> /\ call.token \in Tokens /\ ~call.present
        /\ call.op # "get_mechanisms"
        BY <1>2 DEF TypeInv, CallOK, Looks, Searches
  <2>2. Tail(call.slots) \in Seq(Slots) /\ Head(call.slots) \in Slots
        BY <2>1 DEF CallType
  <2>3. Append(call.found, <<Head(call.slots), call.token>>) \in Seq(Slots \X Tokens)
        BY <2>1, <2>2 DEF CallType
  <2>4. /\ fitting \in CallType /\ fitting.op = call.op /\ ~fitting.present
        /\ fitting.slots = call.slots
        BY <2>1, <2>3 DEF CallType
  <2>5. CASE ~Fits(call, mechanisms)
    <3>1. LookAt(call, Tail(call.slots))
          BY <2>1, <2>5 DEF Filter, NextSlot
    <3> QED
        BY <3>1, <2>1, <2>2, <1>2, LookAtType
  <2>6. CASE Fits(call, mechanisms) /\ call.op = "get_tokens"
    <3> DEFINE d == [fitting EXCEPT !.step = "yield"]
    <3>1. call' = d /\ UNCHANGED world
          BY <2>1, <2>6 DEF Filter, Goes
    <3>2. CallOK(d)
          BY <2>4, <2>1, <2>6 DEF CallOK, CallType, Ops, Steps, Looks, Searches
    <3> QED
        BY <3>1, <3>2
  <2>7. CASE Fits(call, mechanisms) /\ call.op = "get_token" /\ call.found = <<>>
    <3>1. LookAt(fitting, Tail(fitting.slots))
          BY <2>1, <2>7 DEF Filter, NextSlot
    <3> QED
        BY <3>1, <2>4, <2>2, <1>2, LookAtType
  <2>8. CASE Fits(call, mechanisms) /\ call.op = "get_token" /\ call.found # <<>>
        BY <2>8, <2>1, NoCallOK DEF Filter, Returns
  <2> QED
      BY <2>5, <2>6, <2>7, <2>8, <1>2 DEF Searches
<1> QED
    BY <1>1, <1>2 DEF TypeInv, CallOK, CallType, Ops, Searches

LEMMA FailingType ==
    ASSUME TypeInv, call.step \in Looks \ {"yield"}, Failing(call, Head(call.slots))
    PROVE  CallOK(call') /\ UNCHANGED world
<1>1. CASE Skips(call, Head(call.slots))
  <2>1. call \in CallType /\ call.op \in Searches /\ ~call.present /\ call.slots # <<>>
        BY <1>1 DEF TypeInv, CallOK, CallType, Ops, Looks, Searches, Skips
  <2>2. Tail(call.slots) \in Seq(Slots)
        BY <2>1 DEF CallType
  <2>3. LookAt(call, Tail(call.slots))
        BY <1>1 DEF Failing, NextSlot
  <2> QED
      BY <2>1, <2>2, <2>3, LookAtType
<1>2. CASE ~Skips(call, Head(call.slots))
      BY <1>2, NoCallOK DEF Failing, Raises, Returns
<1> QED
    BY <1>1, <1>2

LEMMA TypeInit == Init => TypeInv
BY WorldAssumption, NoCallOK DEF Init, TypeInv, WorldOK

LEMMA TypeNext == TypeInv /\ [Next]_vars => TypeInv'
<1> SUFFICES ASSUME TypeInv, [Next]_vars PROVE TypeInv'
    OBVIOUS
<1> USE DEF TypeInv
<1>1. CASE ChangeToken
  <2> PICK s \in DOMAIN inside, k \in Tokens \union {NoToken, Blank} :
          Changed([inside EXCEPT ![s] = k], s)
      BY <1>1 DEF ChangeToken
  <2> QED
      BY WorldAssumption DEF Changed, WorldOK
<1>2. CASE PlugReader
  <2> PICK s \in Slots \ DOMAIN inside :
          Changed([x \in DOMAIN inside \union {s} |-> IF x = s THEN NoToken ELSE inside[x]], s)
      BY <1>2 DEF PlugReader
  <2> QED
      BY WorldAssumption DEF Changed, WorldOK
<1>3. CASE UnplugReader
  <2> PICK s \in DOMAIN inside : Changed([x \in DOMAIN inside \ {s} |-> inside[x]], s)
      BY <1>3 DEF UnplugReader
  <2> QED
      BY WorldAssumption DEF Changed, WorldOK
<1>4. CASE CountSlots
  <2> PICK op \in {"get_slots", "get_tokens", "get_token"}, present \in BOOLEAN,
           label \in Labels \union {None}, mechanisms \in Filters \union {None} :
              SearchFor(op, present, label, mechanisms)
      BY <1>4 DEF CountSlots
  <2> USE DEF SearchFor
  <2>1. WorldOK'
        BY DEF Begin, world, WorldOK
  <2>2. CASE call' = NoCall
        BY <2>1, <2>2, NoCallOK
  <2>3. CASE call' # NoCall
    <3>1. /\ Cardinality(Listed(present)) \in Nat /\ Cardinality(Listed(present)) > 0
          /\ op # "get_slots" => ~present
          BY <2>3, SlotsFinite
    <3>2. call' = [op |-> op, step |-> "GetSlotList", present |-> present, label |-> label,
                   mechanisms |-> mechanisms, count |-> Cardinality(Listed(present)),
                   buffer |-> <<>>, slots |-> <<>>, token |-> NoToken, found |-> <<>>]
          BY <2>3 DEF NoCall
    <3>3. call' \in CallType
          BY <3>1, <3>2, NoList DEF CallType, Ops, Steps
    <3>4. CallOK(call')
          BY <3>1, <3>2, <3>3 DEF CallOK, Looks
    <3> QED
        BY <2>1, <3>4
  <2> QED
      BY <2>2, <2>3
<1>5. CASE AskMechanisms
  <2> PICK s \in Slots :
        /\ call' = [NoCall EXCEPT !.op = "get_mechanisms", !.step = "CountMechanisms",
                                  !.slots = <<s>>]
        /\ Begin
      BY <1>5 DEF AskMechanisms
  <2>1. WorldOK'
        BY DEF Begin, world, WorldOK
  <2>2. CallOK(call')
        BY AskingOK
  <2> QED
      BY <2>1, <2>2
<1>6. CASE NextToken
  <2>1. call \in CallType /\ call.op \in Searches /\ ~call.present /\ call.slots # <<>>
        BY <1>6 DEF NextToken, CallOK, CallType, Ops, Looks, Searches
  <2>2. Tail(call.slots) \in Seq(Slots)
        BY <2>1 DEF CallType
  <2>3. CallOK(call') /\ UNCHANGED world
        BY <1>6, <2>1, <2>2, LookAtType DEF NextToken, NextSlot
  <2> QED
      BY <2>3 DEF world, WorldOK
<1>7. CASE DropTokens
      BY <1>7, NoCallOK DEF DropTokens, Returns, world, WorldOK
<1>8. CASE WaitForSlotEvent
      BY <1>8 DEF WaitForSlotEvent, WorldOK
<1>9. CASE GetSlotList
  <2>1. CASE Raises(Raised["CKR_BUFFER_TOO_SMALL"])
        BY <2>1, NoCallOK DEF Raises, Returns, world, WorldOK
  <2>2. ASSUME NEW list, NEW b \in Filled(call.count, list, Slots),
               Goes([call EXCEPT !.step = "GetSlotInfo", !.buffer = b])
        PROVE  TypeInv'
    <3>1. call.count \in Nat /\ call.count > 0
          BY <1>9 DEF GetSlotList, CallOK, CallType
    <3>2. b \in Seq(Slots \union {Junk}) /\ b # <<>>
          BY <3>1 DEF Filled
    <3>3. CallOK(call')
          BY <1>9, <2>2, <3>2 DEF GetSlotList, Goes, CallOK, CallType, Ops, Steps, Looks, Searches
    <3> QED
        BY <2>2, <3>3 DEF Goes, world, WorldOK
  <2> QED
      BY <1>9, <2>1, <2>2 DEF GetSlotList
<1>10. CASE GetSlotInfo
  <2> DEFINE s == Head(call.buffer)
             c == [call EXCEPT !.buffer = Tail(@), !.slots = Append(@, s)]
  <2>1. CASE s \notin DOMAIN inside /\ Raises(Raised[Refusal(s)])
        BY <2>1, NoCallOK DEF Raises, Returns, world, WorldOK
  <2>2. CASE s \in DOMAIN inside
    <3>1. /\ call \in CallType /\ call.buffer # <<>> /\ call.step = "GetSlotInfo"
          /\ call.found = <<>>
          BY <1>10 DEF GetSlotInfo, CallOK
    <3>2. Tail(call.buffer) \in Seq(Slots \union {Junk})
          BY <3>1 DEF CallType
    <3>3. s \in Slots
          BY <2>2 DEF WorldOK
    <3>4. Append(call.slots, s) \in Seq(Slots)
          BY <3>1, <3>3 DEF CallType
    <3>5. /\ c \in CallType /\ c.slots = Append(call.slots, s) /\ c.op = call.op
          /\ c.present = call.present /\ c.step = call.step /\ c.found = call.found
          BY <3>1, <3>2, <3>4 DEF CallType
    <3>6. CASE c.buffer # <<>> /\ Goes(c)
      <4>1. CallOK(c)
            BY <3>1, <3>5, <3>6 DEF CallOK, Looks
      <4> QED
          BY <3>6, <4>1 DEF Goes, world, WorldOK
    <3>7. CASE call.op = "get_slots" /\ Returns([kind |-> c.op, present |-> c.present, slots |-> c.slots])
          BY <3>7, NoCallOK DEF Returns, world, WorldOK
    <3>8. CASE call.op # "get_slots" /\ LookAt(c, c.slots)
      <4>1. c.op \in Searches /\ ~c.present
            BY <3>1, <3>5, <3>8 DEF CallOK, CallType, Ops, Searches
      <4>2. CallOK(call') /\ UNCHANGED world
            BY <3>8, <4>1, <3>4, <3>5, LookAtType
      <4> QED
          BY <4>2 DEF world, WorldOK
    <3> QED
        BY <1>10, <2>2, <3>5, <3>6, <3>7, <3>8 DEF GetSlotInfo, MakeSlot
  <2> QED
      BY <1>10, <2>1, <2>2 DEF GetSlotInfo
<1>11. CASE GetTokenInfo
  <2> DEFINE s == Head(call.slots)
  <2>1. CASE Failing(call, s)
    <3>1. CallOK(call') /\ UNCHANGED world
          BY <1>11, <2>1, FailingType DEF GetTokenInfo, Looks
    <3> QED
        BY <3>1 DEF world, WorldOK
  <2>2. CASE /\ Working(s)
             /\ Goes([call EXCEPT !.step = "CountMechanisms", !.token = inside[s]])
    <3>1. CallOK(call')
          BY <1>11, <2>2 DEF GetTokenInfo, Goes, Working, CallOK, CallType, Ops, Steps, Looks, Searches
    <3> QED
        BY <2>2, <3>1 DEF Goes, world, WorldOK
  <2> QED
      BY <1>11, <2>1, <2>2 DEF GetTokenInfo, MakeToken
<1>12. CASE CountMechanisms
  <2> DEFINE s == Head(call.slots)
             n == Cardinality(Mechanisms[inside[s]])
  <2>1. CASE Failing(call, s)
    <3>1. CallOK(call') /\ UNCHANGED world
          BY <1>12, <2>1, FailingType DEF CountMechanisms, Looks
    <3> QED
        BY <3>1 DEF world, WorldOK
  <2>2. CASE Filter(call, {})
    <3>1. CallOK(call') /\ UNCHANGED world
          BY <1>12, <2>2, FilterType DEF CountMechanisms
    <3> QED
        BY <3>1 DEF world, WorldOK
  <2>3. CASE Working(s) /\ Goes([call EXCEPT !.step = "GetMechanismList", !.count = n])
    <3>1. n \in Nat
          BY <2>3, WorldAssumption, FS_CardinalityType DEF Working
    <3>2. CallOK(call')
          BY <1>12, <2>3, <3>1 DEF CountMechanisms, Goes, CallOK, CallType, Ops, Steps, Looks, Searches
    <3> QED
        BY <2>3, <3>2 DEF Goes, world, WorldOK
  <2> QED
      BY <1>12, <2>1, <2>2, <2>3 DEF CountMechanisms
<1>13. CASE GetMechanismList
  <2> DEFINE s == Head(call.slots)
  <2>1. CASE Failing(call, s)
    <3>1. CallOK(call') /\ UNCHANGED world
          BY <1>13, <2>1, FailingType DEF GetMechanismList, Looks
    <3> QED
        BY <3>1 DEF world, WorldOK
  <2>2. CASE Raises(Raised["CKR_BUFFER_TOO_SMALL"])
        BY <2>2, NoCallOK DEF Raises, Returns, world, WorldOK
  <2>3. ASSUME NEW b, Filter(call, SetOf(b)) PROVE TypeInv'
    <3>1. CallOK(call') /\ UNCHANGED world
          BY <1>13, <2>3, FilterType DEF GetMechanismList
    <3> QED
        BY <3>1 DEF world, WorldOK
  <2> QED
      BY <1>13, <2>1, <2>2, <2>3 DEF GetMechanismList
<1>14. CASE UNCHANGED vars
      BY <1>14 DEF vars, world, WorldOK
<1> QED
    BY <1>1, <1>2, <1>3, <1>4, <1>5, <1>6, <1>7, <1>8, <1>9, <1>10, <1>11, <1>12, <1>13, <1>14
       DEF Next

(* Every variable keeps its type, and a call that looks at the members of  *)
(* a list has some left.                                                   *)
THEOREM TypeCorrect == Spec => []TypeOK
<1>1. TypeInv => TypeOK
  <2> SUFFICES ASSUME TypeInv PROVE TypeOK
      OBVIOUS
  <2>1. SetOf(call.slots) \subseteq Slots
        BY DEF TypeInv, CallOK, CallType, SetOf
  <2> QED
      BY <2>1 DEF TypeInv, WorldOK, CallOK, CallType, TypeOK, Looks
<1> QED
    BY <1>1, TypeInit, TypeNext, PTL DEF Spec

-----------------------------------------------------------------------------
(* Sequences.                                                              *)

LEMMA EmptySet == SetOf(<<>>) = {} /\ Once(<<>>)
BY DEF SetOf, Once

LEMMA AppendList ==
    ASSUME NEW S, NEW list \in Seq(S), NEW x \in S
    PROVE  /\ Append(list, x) \in Seq(S)
           /\ Append(list, x) # <<>>
           /\ SetOf(Append(list, x)) = SetOf(list) \union {x}
           /\ Once(list) /\ x \notin SetOf(list) => Once(Append(list, x))
<1> DEFINE l == Append(list, x)
<1>1. /\ l \in Seq(S) /\ Len(l) = Len(list) + 1 /\ Len(list) \in Nat
      /\ DOMAIN l = 1..(Len(list) + 1) /\ DOMAIN list = 1..Len(list)
      /\ \A i \in 1..Len(list) : l[i] = list[i]
      /\ l[Len(list) + 1] = x
      OBVIOUS
<1>4. l # <<>>
      BY <1>1
<1> HIDE DEF l
<1>2. SetOf(l) = SetOf(list) \union {x}
      BY <1>1 DEF SetOf
<1>3. Once(list) /\ x \notin SetOf(list) => Once(l)
      BY <1>1 DEF SetOf, Once
<1> QED
    BY <1>1, <1>2, <1>3, <1>4 DEF l

LEMMA HeadTail ==
    ASSUME NEW S, NEW list \in Seq(S), list # <<>>
    PROVE  /\ Head(list) \in S /\ Tail(list) \in Seq(S)
           /\ SetOf(list) = {Head(list)} \union SetOf(Tail(list))
           /\ Once(list) => Once(Tail(list)) /\ Head(list) \notin SetOf(Tail(list))
<1> DEFINE t == Tail(list)
           n == Len(list)
<1>1. /\ n \in Nat /\ n > 0 /\ t \in Seq(S) /\ Head(list) = list[1]
      /\ DOMAIN t = 1..(n - 1) /\ DOMAIN list = 1..n
      /\ \A i \in 1..(n - 1) : t[i] = list[i + 1]
      OBVIOUS
<1>2. Head(list) \in S
      OBVIOUS
<1> HIDE DEF t, n
<1>3. SetOf(list) \subseteq {list[1]} \union SetOf(t)
  <2> SUFFICES ASSUME NEW i \in 1..n, i # 1 PROVE list[i] \in SetOf(t)
      BY <1>1 DEF SetOf
  <2>1. i - 1 \in 1..(n - 1) /\ t[i - 1] = list[i]
        BY <1>1
  <2> QED
      BY <2>1, <1>1 DEF SetOf
<1>4. {list[1]} \union SetOf(t) \subseteq SetOf(list)
      BY <1>1 DEF SetOf
<1>5. ASSUME Once(list) PROVE Once(t) /\ list[1] \notin SetOf(t)
  <2>1. ASSUME NEW i \in 1..(n - 1), NEW j \in 1..(n - 1), t[i] = t[j] PROVE i = j
    <3>1. i + 1 \in 1..n /\ j + 1 \in 1..n /\ list[i + 1] = list[j + 1]
          BY <1>1, <2>1
    <3>2. i + 1 = j + 1
          BY <1>1, <1>5, <3>1 DEF Once
    <3> QED
        BY <3>2
  <2>2. \A i \in 1..(n - 1) : t[i] # list[1]
        BY <1>1, <1>5 DEF Once
  <2>3. Once(t)
        BY <2>1, <1>1 DEF Once
  <2>4. list[1] \notin SetOf(t)
        BY <2>2, <1>1 DEF SetOf
  <2> QED
      BY <2>3, <2>4
<1> QED
    BY <1>1, <1>2, <1>3, <1>4, <1>5 DEF t

LEMMA MoveHead ==
    ASSUME NEW S, NEW list \in Seq(S), NEW rest \in Seq(S), rest # <<>>
    PROVE  Append(list, Head(rest)) \o Tail(rest) = list \o rest
<1> DEFINE a == Append(list, Head(rest)) \o Tail(rest)
           b == list \o rest
<1>1. a \in Seq(S) /\ b \in Seq(S) /\ Len(a) = Len(b)
      OBVIOUS
<1>2. ASSUME NEW i \in 1..Len(a) PROVE a[i] = b[i]
      OBVIOUS
<1> QED
    BY <1>1, <1>2

-----------------------------------------------------------------------------
(* What calls hold and return, whatever happens meanwhile.                 *)

Seen == {p[1] : p \in past}

FoundTrue(c) ==
    \A p \in SetOf(c.found) : p \in past /\ (c.label = None \/ Label[p[2]] = c.label)

CallTrue(c) ==
    /\ FoundTrue(c)
    /\ c.step = "GetSlotInfo" => SetOf(c.slots) \subseteq Seen
    /\ c.step \in {"CountMechanisms", "GetMechanismList"} /\ c.op \in Searches
          => <<Head(c.slots), c.token>> \in past

ResultTrue(r) ==
    /\ r.kind = "get_slots" => SetOf(r.slots) \subseteq Seen
    /\ "found" \in DOMAIN r => FoundTrue(r)

TruthInv == Now \subseteq past /\ CallTrue(call) /\ ResultTrue(result)

LEMMA NoCallTrue == CallTrue(NoCall) /\ ResultTrue(NoResult)
BY EmptySet DEF CallTrue, ResultTrue, FoundTrue, NoCall, NoResult, Searches

LEMMA RaiseTrue == ASSUME NEW why PROVE ResultTrue([kind |-> "raise", why |-> why])
BY DEF ResultTrue

LEMMA TruthKept ==
    ASSUME UNCHANGED <<inside, past>>, CallTrue(call'), ResultTrue(result'), TruthInv
    PROVE  TruthInv'
BY DEF TruthInv, Now, CallTrue, ResultTrue, FoundTrue, Seen

LEMMA TruthGrows ==
    ASSUME TruthInv, UNCHANGED <<call, result>>, past \subseteq past', Now' \subseteq past'
    PROVE  TruthInv'
<1>1. Seen \subseteq Seen'
      BY DEF Seen
<1> QED
    BY <1>1 DEF TruthInv, CallTrue, ResultTrue, FoundTrue

LEMMA TruthStarts ==
    ASSUME Begin, call'.found = <<>>, call'.step # "GetSlotInfo",
           call'.step \in {"CountMechanisms", "GetMechanismList"} => call'.op \notin Searches,
           result'.kind = "get_slots" => result'.slots = <<>>,
           "found" \in DOMAIN result' => result'.found = <<>>
    PROVE  TruthInv'
BY EmptySet DEF Begin, Now, world, TruthInv, CallTrue, ResultTrue, FoundTrue

LEMMA AnswerTrue ==
    ASSUME NEW c, FoundTrue(c), NEW kind, kind # "get_slots"
    PROVE  ResultTrue(Answer(c, kind))
BY DEF FoundTrue, ResultTrue, Answer

LEMMA LookAtTrue ==
    ASSUME NEW c \in CallType, FoundTrue(c), c.op \in Searches, NEW slots, LookAt(c, slots),
           ResultTrue(result)
    PROVE  CallTrue(call') /\ ResultTrue(result') /\ UNCHANGED <<inside, past>>
<1>1. CASE slots = <<>>
  <2>1. PICK kind : kind # "get_slots" /\ Returns(Answer(c, kind))
        BY <1>1 DEF LookAt, EndOfSlots, Searches
  <2> QED
      BY <2>1, AnswerTrue, NoCallTrue DEF Returns, world
<1>2. CASE slots # <<>>
  <2> DEFINE d == [c EXCEPT !.step = "GetTokenInfo", !.slots = slots, !.token = NoToken,
                            !.count = 0, !.buffer = <<>>]
  <2>1. call' = d /\ UNCHANGED <<result, inside, past>>
        BY <1>2 DEF LookAt, Goes, world
  <2>2. d.found = c.found /\ d.label = c.label /\ d.step = "GetTokenInfo"
        BY DEF CallType
  <2>3. CallTrue(d)
        BY <2>2 DEF CallTrue, FoundTrue
  <2> QED
      BY <2>1, <2>3
<1> QED
    BY <1>1, <1>2

LEMMA FilterTrue ==
    ASSUME TypeInv, TruthInv, call.step \in {"CountMechanisms", "GetMechanismList"},
           NEW mechanisms, Filter(call, mechanisms)
    PROVE  CallTrue(call') /\ ResultTrue(result') /\ UNCHANGED <<inside, past>>
<1> DEFINE fitting == [call EXCEPT !.found = Append(@, <<Head(call.slots), call.token>>)]
<1>1. CASE call.op = "get_mechanisms"
  <2>1. Returns([kind |-> "get_mechanisms", slot |-> Head(call.slots), mechanisms |-> mechanisms])
        BY <1>1 DEF Filter
  <2>2. ResultTrue([kind |-> "get_mechanisms", slot |-> Head(call.slots), mechanisms |-> mechanisms])
        BY DEF ResultTrue
  <2> QED
      BY <2>1, <2>2, NoCallTrue DEF Returns, world
<1>2. CASE call.op \in Searches
  <2>1. /\ call \in CallType /\ call.slots # <<>> /\ call.token \in Tokens
        /\ call.op # "get_mechanisms" /\ FoundTrue(call) /\ ResultTrue(result)
        /\ <<Head(call.slots), call.token>> \in past
        BY <1>2 DEF TypeInv, CallOK, Looks, Searches, TruthInv, CallTrue
  <2>2. Head(call.slots) \in Slots /\ call.found \in Seq(Slots \X Tokens)
        BY <2>1, HeadTail DEF CallType
  <2>3. /\ fitting \in CallType /\ fitting.op = call.op /\ fitting.label = call.label
        /\ SetOf(fitting.found) = SetOf(call.found) \union {<<Head(call.slots), call.token>>}
    <3>1. /\ Append(call.found, <<Head(call.slots), call.token>>) \in Seq(Slots \X Tokens)
          /\ SetOf(Append(call.found, <<Head(call.slots), call.token>>))
                = SetOf(call.found) \union {<<Head(call.slots), call.token>>}
          BY <2>1, <2>2, AppendList
    <3> QED
        BY <2>1, <3>1 DEF CallType
  <2>4. ASSUME Fits(call, mechanisms) PROVE FoundTrue(fitting)
        BY <2>1, <2>3, <2>4 DEF FoundTrue, Fits
  <2>5. CASE ~Fits(call, mechanisms)
    <3>1. LookAt(call, Tail(call.slots))
          BY <2>1, <2>5 DEF Filter, NextSlot
    <3> QED
        BY <3>1, <2>1, <1>2, LookAtTrue
  <2>6. CASE Fits(call, mechanisms) /\ call.op = "get_tokens"
    <3> DEFINE d == [fitting EXCEPT !.step = "yield"]
    <3>1. call' = d /\ UNCHANGED <<result, inside, past>>
          BY <2>1, <2>6 DEF Filter, Goes, world
    <3>2. d.found = fitting.found /\ d.label = fitting.label /\ d.step = "yield"
          BY <2>3 DEF CallType
    <3>3. CallTrue(d)
          BY <3>2, <2>4, <2>6 DEF CallTrue, FoundTrue
    <3> QED
        BY <3>1, <3>3, <2>1
  <2>7. CASE Fits(call, mechanisms) /\ call.op = "get_token" /\ call.found = <<>>
    <3>1. LookAt(fitting, Tail(fitting.slots))
          BY <2>1, <2>7 DEF Filter, NextSlot
    <3> QED
        BY <3>1, <2>1, <2>3, <2>4, <2>7, <1>2, LookAtTrue
  <2>8. CASE Fits(call, mechanisms) /\ call.op = "get_token" /\ call.found # <<>>
    <3>1. Returns(Answer(fitting, "MultipleTokensReturned"))
          BY <2>8, <2>1 DEF Filter
    <3> QED
        BY <3>1, <2>4, <2>8, AnswerTrue, NoCallTrue DEF Returns, world
  <2> QED
      BY <2>5, <2>6, <2>7, <2>8, <1>2 DEF Searches
<1> QED
    BY <1>1, <1>2 DEF TypeInv, CallOK, CallType, Ops, Searches

LEMMA FailingTrue ==
    ASSUME TypeInv, TruthInv, call.step \in Looks \ {"yield"}, Failing(call, Head(call.slots))
    PROVE  CallTrue(call') /\ ResultTrue(result') /\ UNCHANGED <<inside, past>>
<1>1. CASE Skips(call, Head(call.slots))
  <2>1. /\ call \in CallType /\ call.op \in Searches /\ FoundTrue(call) /\ ResultTrue(result)
        BY <1>1 DEF TypeInv, CallOK, CallType, Ops, Looks, Searches, Skips, TruthInv, CallTrue
  <2>2. LookAt(call, Tail(call.slots))
        BY <1>1 DEF Failing, NextSlot
  <2> QED
      BY <2>1, <2>2, LookAtTrue
<1>2. CASE ~Skips(call, Head(call.slots))
      BY <1>2, NoCallTrue, RaiseTrue DEF Failing, Raises, Returns, world
<1> QED
    BY <1>1, <1>2

LEMMA TruthInit == Init => TruthInv
BY NoCallTrue DEF Init, TruthInv

LEMMA TruthNext == TypeInv /\ TruthInv /\ [Next]_vars => TruthInv'
<1> SUFFICES ASSUME TypeInv, TruthInv, [Next]_vars PROVE TruthInv'
    OBVIOUS
<1>1. ASSUME NEW new, NEW s, Changed(new, s) PROVE TruthInv'
  <2>1. past \subseteq past' /\ Now' \subseteq past' /\ UNCHANGED <<call, result>>
        BY <1>1 DEF Changed, Now
  <2> QED
      BY <2>1, TruthGrows
<1>2. CASE ChangeToken \/ PlugReader \/ UnplugReader
      BY <1>1, <1>2 DEF ChangeToken, PlugReader, UnplugReader
<1>3. CASE CountSlots
  <2> PICK op \in {"get_slots", "get_tokens", "get_token"}, present \in BOOLEAN,
           label \in Labels \union {None}, mechanisms \in Filters \union {None} :
              SearchFor(op, present, label, mechanisms)
      BY <1>3 DEF CountSlots
  <2> USE DEF SearchFor
  <2> DEFINE c == [NoCall EXCEPT !.op = op, !.present = present, !.label = label,
                                 !.mechanisms = mechanisms, !.count = Cardinality(Listed(present))]
             d == [c EXCEPT !.step = "GetSlotList"]
  <2>1. c.found = <<>> /\ d.found = <<>> /\ d.step = "GetSlotList"
        BY DEF NoCall
  <2>2. CASE call' = d /\ result' = NoResult
        BY <2>1, <2>2, TruthStarts DEF NoResult
  <2>3. CASE call' = NoCall /\ op = "get_slots"
            /\ result' = [kind |-> op, present |-> present, slots |-> <<>>]
        BY <2>3, TruthStarts DEF NoCall
  <2>4. CASE call' = NoCall
            /\ result' = Answer(c, IF op = "get_token" THEN "NoSuchToken" ELSE op)
            /\ op # "get_slots"
        BY <2>1, <2>4, TruthStarts DEF NoCall, Answer
  <2> QED
      BY <2>2, <2>3, <2>4
<1>4. CASE AskMechanisms
  <2> PICK s \in Slots :
        /\ call' = [NoCall EXCEPT !.op = "get_mechanisms", !.step = "CountMechanisms",
                                  !.slots = <<s>>]
        /\ result' = NoResult
        /\ Begin
      BY <1>4 DEF AskMechanisms
  <2>1. call'.found = <<>> /\ call'.step = "CountMechanisms" /\ call'.op = "get_mechanisms"
        BY DEF NoCall
  <2> QED
      BY <2>1, TruthStarts DEF NoResult, Searches
<1>5. CASE NextToken
  <2>1. call \in CallType /\ call.op \in Searches
        BY <1>5 DEF NextToken, TypeInv, CallOK, CallType, Ops, Looks, Searches
  <2>2. FoundTrue(call) /\ ResultTrue(result) /\ LookAt(call, Tail(call.slots))
        BY <1>5 DEF NextToken, NextSlot, TruthInv, CallTrue
  <2> QED
      BY <2>1, <2>2, LookAtTrue, TruthKept
<1>6. CASE DropTokens
      BY <1>6, NoCallTrue, TruthKept DEF DropTokens, Returns, world
<1>7. CASE WaitForSlotEvent
  <2>1. UNCHANGED <<inside, call, past>> /\ \E why : result' = [kind |-> "raise", why |-> why]
        BY <1>7 DEF WaitForSlotEvent
  <2> QED
      BY <2>1, RaiseTrue, TruthKept DEF TruthInv
<1>8. CASE GetSlotList
  <2>1. CASE Raises(Raised["CKR_BUFFER_TOO_SMALL"])
        BY <2>1, RaiseTrue, NoCallTrue, TruthKept DEF Raises, Returns, world
  <2>2. ASSUME NEW b, Goes([call EXCEPT !.step = "GetSlotInfo", !.buffer = b])
        PROVE  TruthInv'
    <3>1. /\ call \in CallType /\ call.slots = <<>> /\ call.found = <<>>
          /\ ResultTrue(result)
          BY <1>8 DEF GetSlotList, TypeInv, CallOK, TruthInv
    <3>2. call'.step = "GetSlotInfo" /\ call'.slots = <<>> /\ call'.found = <<>>
          BY <2>2, <3>1 DEF Goes, CallType
    <3>3. CallTrue(call')
          BY <3>2, EmptySet DEF CallTrue, FoundTrue
    <3> QED
        BY <2>2, <3>1, <3>3, TruthKept DEF Goes, world
  <2> QED
      BY <1>8, <2>1, <2>2 DEF GetSlotList
<1>9. CASE GetSlotInfo
  <2> DEFINE s == Head(call.buffer)
             c == [call EXCEPT !.buffer = Tail(@), !.slots = Append(@, s)]
  <2>1. CASE s \notin DOMAIN inside /\ Raises(Raised[Refusal(s)])
        BY <2>1, RaiseTrue, NoCallTrue, TruthKept DEF Raises, Returns, world
  <2>2. CASE s \in DOMAIN inside
    <3>1. /\ call \in CallType /\ call.buffer # <<>> /\ call.step = "GetSlotInfo"
          /\ SetOf(call.slots) \subseteq Seen /\ FoundTrue(call) /\ ResultTrue(result)
          BY <1>9 DEF GetSlotInfo, TypeInv, CallOK, TruthInv, CallTrue
    <3>2. s \in Seen
      <4>1. <<s, inside[s]>> \in past
            BY <2>2 DEF TruthInv, Now
      <4> QED
          BY <4>1 DEF Seen
    <3>3. s \in Slots /\ Tail(call.buffer) \in Seq(Slots \union {Junk})
          BY <2>2, <3>1, HeadTail DEF TypeInv, WorldOK, CallType
    <3>4. SetOf(Append(call.slots, s)) \subseteq Seen /\ Append(call.slots, s) \in Seq(Slots)
          BY <3>1, <3>2, <3>3, AppendList DEF CallType
    <3>5. /\ c \in CallType /\ c.slots = Append(call.slots, s) /\ c.op = call.op
          /\ c.found = call.found /\ c.label = call.label /\ c.step = "GetSlotInfo"
          BY <3>1, <3>3, <3>4 DEF CallType
    <3>6. CallTrue(c) /\ FoundTrue(c)
          BY <3>1, <3>4, <3>5 DEF CallTrue, FoundTrue
    <3>7. CASE Goes(c)
          BY <3>1, <3>6, <3>7, TruthKept DEF Goes, world
    <3>8. CASE Returns([kind |-> c.op, present |-> c.present, slots |-> c.slots])
      <4>1. ResultTrue([kind |-> c.op, present |-> c.present, slots |-> c.slots])
            BY <3>4, <3>5 DEF ResultTrue
      <4> QED
          BY <4>1, <3>8, NoCallTrue, TruthKept DEF Returns, world
    <3>9. CASE call.op # "get_slots" /\ LookAt(c, c.slots)
      <4>1. c.op \in Searches
            BY <3>1, <3>5, <3>9 DEF TypeInv, CallOK, CallType, Ops, Searches
      <4> QED
          BY <3>1, <3>5, <3>6, <3>9, <4>1, LookAtTrue, TruthKept
    <3> QED
        BY <1>9, <2>2, <3>5, <3>7, <3>8, <3>9 DEF GetSlotInfo, MakeSlot
  <2> QED
      BY <1>9, <2>1, <2>2 DEF GetSlotInfo
<1>10. CASE GetTokenInfo
  <2> DEFINE s == Head(call.slots)
  <2>1. CASE Failing(call, s)
        BY <1>10, <2>1, FailingTrue, TruthKept DEF GetTokenInfo, Looks
  <2>2. CASE /\ Working(s)
             /\ Goes([call EXCEPT !.step = "CountMechanisms", !.token = inside[s]])
    <3>1. call \in CallType /\ FoundTrue(call) /\ ResultTrue(result)
          BY DEF TypeInv, CallOK, TruthInv, CallTrue
    <3>2. /\ call'.found = call.found /\ call'.label = call.label /\ call'.slots = call.slots
          /\ call'.token = inside[s] /\ call'.step = "CountMechanisms"
          BY <2>2, <3>1 DEF Goes, CallType
    <3>3. <<s, inside[s]>> \in past
          BY <2>2 DEF Working, TruthInv, Now
    <3>4. CallTrue(call')
          BY <3>1, <3>2, <3>3 DEF CallTrue, FoundTrue
    <3> QED
        BY <2>2, <3>1, <3>4, TruthKept DEF Goes, world
  <2> QED
      BY <1>10, <2>1, <2>2 DEF GetTokenInfo, MakeToken
<1>11. CASE CountMechanisms
  <2> DEFINE s == Head(call.slots)
             n == Cardinality(Mechanisms[inside[s]])
  <2>1. CASE Failing(call, s)
        BY <1>11, <2>1, FailingTrue, TruthKept DEF CountMechanisms, Looks
  <2>2. CASE Filter(call, {})
        BY <1>11, <2>2, FilterTrue, TruthKept DEF CountMechanisms
  <2>3. CASE Goes([call EXCEPT !.step = "GetMechanismList", !.count = n])
    <3>1. call \in CallType /\ CallTrue(call) /\ ResultTrue(result) /\ call.step = "CountMechanisms"
          BY <1>11 DEF CountMechanisms, TypeInv, CallOK, TruthInv
    <3>2. /\ call'.found = call.found /\ call'.label = call.label /\ call'.slots = call.slots
          /\ call'.token = call.token /\ call'.step = "GetMechanismList" /\ call'.op = call.op
          BY <2>3, <3>1 DEF Goes, CallType
    <3>3. CallTrue(call')
          BY <3>1, <3>2 DEF CallTrue, FoundTrue
    <3> QED
        BY <2>3, <3>1, <3>3, TruthKept DEF Goes, world
  <2> QED
      BY <1>11, <2>1, <2>2, <2>3 DEF CountMechanisms
<1>12. CASE GetMechanismList
  <2>1. CASE Failing(call, Head(call.slots))
        BY <1>12, <2>1, FailingTrue, TruthKept DEF GetMechanismList, Looks
  <2>2. CASE Raises(Raised["CKR_BUFFER_TOO_SMALL"])
        BY <2>2, RaiseTrue, NoCallTrue, TruthKept DEF Raises, Returns, world
  <2>3. ASSUME NEW b, Filter(call, SetOf(b)) PROVE TruthInv'
        BY <1>12, <2>3, FilterTrue, TruthKept DEF GetMechanismList
  <2> QED
      BY <1>12, <2>1, <2>2, <2>3 DEF GetMechanismList
<1>13. CASE UNCHANGED vars
      BY <1>13 DEF vars, world, TruthInv, Now, CallTrue, ResultTrue, FoundTrue, Seen
<1> QED
    BY <1>2, <1>3, <1>4, <1>5, <1>6, <1>7, <1>8, <1>9, <1>10, <1>11, <1>12, <1>13 DEF Next

(* Whatever is plugged and unplugged meanwhile, the tokens that get_tokens *)
(* and get_token find were in the slots they name during the search, and   *)
(* have the label asked for.                                               *)
THEOREM TruthfulTokens == Spec => []TokensAreTrue
<1>1. TruthInv => TokensAreTrue
      BY DEF TruthInv, CallTrue, ResultTrue, FoundTrue, TokensAreTrue
<1> QED
    BY <1>1, TypeInit, TypeNext, TruthInit, TruthNext, PTL DEF Spec

-----------------------------------------------------------------------------
(* What calls hold and return when nothing changes meanwhile.  Wanted is   *)
(* what the code looks for, which is nothing where there are mechanisms.   *)

Wanted(c) == IF c.mechanisms = None THEN Fitting(c.label) ELSE {}

(* The tokens found are those of the slots that are not to come.           *)
Exact(c, todo) ==
    /\ Once(c.found)
    /\ SetOf(c.found) = {p \in Wanted(c) : p[1] \notin SetOf(todo)}
    /\ c.op = "get_token" => Len(c.found) <= 1

ExactResult(r) ==
    /\ Once(r.found)
    /\ r.kind = "get_tokens" => SetOf(r.found) = Wanted(r)
    /\ r.kind = "get_token" => SetOf(r.found) = Wanted(r) /\ Len(r.found) = 1
    /\ r.kind = "NoSuchToken" => Wanted(r) = {}
    /\ r.kind = "MultipleTokensReturned" => \E p, q \in Wanted(r) : p # q

QuietCall(c) ==
    /\ c.step = "GetSlotList" => c.count = Cardinality(Listed(c.present))
    /\ c.step = "GetSlotInfo" =>
          Once(c.slots \o c.buffer) /\ SetOf(c.slots \o c.buffer) = Listed(c.present)
    /\ c.step \in Looks /\ c.op \in Searches =>
          /\ Once(c.slots) /\ SetOf(c.slots) \subseteq DOMAIN inside
          /\ Exact(c, IF c.step = "yield" THEN Tail(c.slots) ELSE c.slots)
    /\ c.step \in {"CountMechanisms", "GetMechanismList"} /\ c.op \in Searches
          => c.token = inside[Head(c.slots)]
    /\ c.step = "GetMechanismList"
          => c.count = Cardinality(Mechanisms[inside[Head(c.slots)]])

QuietResult(r) ==
    /\ r.kind = "get_slots" => Once(r.slots) /\ SetOf(r.slots) = Listed(r.present)
    /\ r.kind = "get_mechanisms" => r.mechanisms = Mechanisms[inside[r.slot]]
    /\ "found" \in DOMAIN r => ExactResult(r)

QuietInv == quiet => QuietCall(call) /\ QuietResult(result)

LEMMA NoCallQuiet == QuietCall(NoCall) /\ QuietResult(NoResult)
BY DEF QuietCall, QuietResult, NoCall, NoResult, Looks

LEMMA RaiseQuiet == ASSUME NEW why PROVE QuietResult([kind |-> "raise", why |-> why])
BY DEF QuietResult

LEMMA QuietKept ==
    ASSUME inside' = inside, quiet' => QuietCall(call') /\ QuietResult(result')
    PROVE  QuietInv'
BY DEF QuietInv, QuietCall, QuietResult, Exact, ExactResult, Wanted, Fitting, Listed

(* A list of all members of a set that is not longer than the buffer.      *)
LEMMA Listing ==
    ASSUME NEW S, IsFiniteSet(S), NEW values, NEW list \in Listings(S),
           NEW b \in Filled(Cardinality(S), list, values)
    PROVE  Once(b) /\ SetOf(b) = S
<1> DEFINE n == Cardinality(S)
<1>1. n \in Nat
      BY FS_CardinalityType
<1>2. list \in [1..n -> S] /\ \A i, j \in 1..n : list[i] = list[j] => i = j
      BY DEF Listings
<1>3. DOMAIN b = 1..n /\ \A i \in 1..n : b[i] = list[i]
      BY <1>2 DEF Filled
<1>4. list \in Injection(1..n, S)
      BY <1>2 DEF Injection, IsInjective
<1>5. Cardinality(1..n) = n
      BY <1>1, FS_Interval
<1>6. list \in Surjection(1..n, S)
      BY <1>4, <1>5, FS_Injection
<1>7. \A x \in S : \E i \in 1..n : list[i] = x
      BY <1>6 DEF Surjection
<1>8. Once(b)
      BY <1>2, <1>3 DEF Once
<1>9. SetOf(b) = S
      BY <1>2, <1>3, <1>7 DEF SetOf
<1> QED
    BY <1>8, <1>9

LEMMA WantedPairs ==
    ASSUME NEW c
    PROVE  /\ \A p \in Wanted(c) : p[1] \in DOMAIN inside /\ p = <<p[1], inside[p[1]]>>
           /\ \A s \in DOMAIN inside : <<s, inside[s]>> \in Wanted(c) <=>
                 /\ c.mechanisms = None /\ inside[s] \in Tokens
                 /\ c.label = None \/ Label[inside[s]] = c.label
BY DEF Wanted, Fitting

LEMMA StepOver ==
    ASSUME NEW c, NEW slots \in Seq(Slots), slots # <<>>, Exact(c, slots),
           <<Head(slots), inside[Head(slots)]>> \notin Wanted(c)
    PROVE  Exact(c, Tail(slots))
<1>1. SetOf(slots) = {Head(slots)} \union SetOf(Tail(slots))
      BY HeadTail
<1>2. {p \in Wanted(c) : p[1] \notin SetOf(slots)} = {p \in Wanted(c) : p[1] \notin SetOf(Tail(slots))}
      BY <1>1, WantedPairs
<1> QED
    BY <1>2 DEF Exact

LEMMA StepIn ==
    ASSUME NEW c, NEW slots \in Seq(Slots), slots # <<>>, Once(slots), Exact(c, slots),
           NEW q \in Slots \X Tokens, q \in Wanted(c), q[1] = Head(slots),
           c.found \in Seq(Slots \X Tokens), NEW d, d.found = Append(c.found, q),
           d.label = c.label, d.mechanisms = c.mechanisms, d.op = c.op,
           d.op = "get_token" => c.found = <<>>
    PROVE  Exact(d, Tail(slots))
<1>1. /\ SetOf(slots) = {Head(slots)} \union SetOf(Tail(slots))
      /\ Head(slots) \notin SetOf(Tail(slots))
      BY HeadTail
<1>2. Wanted(d) = Wanted(c)
      BY DEF Wanted
<1>3. q \notin SetOf(c.found)
      BY <1>1 DEF Exact
<1>4. SetOf(d.found) = SetOf(c.found) \union {q} /\ Once(d.found)
      BY <1>3, AppendList DEF Exact
<1>5. SetOf(d.found) = {p \in Wanted(d) : p[1] \notin SetOf(Tail(slots))}
  <2>1. q = <<q[1], inside[q[1]]>> /\ \A p \in Wanted(c) : p = <<p[1], inside[p[1]]>>
        BY WantedPairs
  <2>2. \A p \in Wanted(c) : p[1] = q[1] => p = q
        BY <2>1
  <2>3. SetOf(c.found) = {p \in Wanted(c) : p[1] \notin SetOf(slots)}
        BY DEF Exact
  <2> QED
      BY <1>1, <1>2, <1>4, <2>2, <2>3
<1>6. d.op = "get_token" => Len(d.found) <= 1
      OBVIOUS
<1> QED
    BY <1>4, <1>5, <1>6 DEF Exact

LEMMA NotLong ==
    ASSUME NEW S, NEW list \in Seq(S), list # <<>>, Len(list) <= 1
    PROVE  Len(list) = 1
<1>1. Len(list) \in Nat /\ Len(list) # 0
      OBVIOUS
<1> QED
    BY <1>1

LEMMA LookAtQuiet ==
    ASSUME NEW c \in CallType, c.op \in Searches, NEW slots \in Seq(Slots), Once(slots),
           SetOf(slots) \subseteq DOMAIN inside, Exact(c, slots), QuietResult(result),
           LookAt(c, slots)
    PROVE  QuietCall(call') /\ QuietResult(result') /\ UNCHANGED <<inside, quiet>>
<1>1. CASE slots = <<>>
  <2>1. SetOf(c.found) = Wanted(c) /\ Once(c.found)
        BY <1>1, EmptySet DEF Exact
  <2>2. CASE c.op = "get_token" /\ c.found = <<>>
    <3>1. Wanted(c) = {}
          BY <2>1, <2>2, EmptySet
    <3>2. QuietResult(Answer(c, "NoSuchToken"))
          BY <2>1, <3>1 DEF QuietResult, ExactResult, Answer, Wanted
    <3>3. Returns(Answer(c, "NoSuchToken"))
          BY <1>1, <2>2 DEF LookAt, EndOfSlots
    <3> QED
        BY <3>2, <3>3, NoCallQuiet DEF Returns, world
  <2>3. CASE ~(c.op = "get_token" /\ c.found = <<>>)
    <3>1. ASSUME c.op = "get_token" PROVE Len(c.found) = 1
      <4>1. c.found \in Seq(Slots \X Tokens)
            BY DEF CallType
      <4>2. Len(c.found) <= 1 /\ c.found # <<>>
            BY <2>3, <3>1 DEF Exact
      <4> QED
          BY <4>1, <4>2, NotLong
    <3>2. QuietResult(Answer(c, c.op))
          BY <2>1, <3>1 DEF QuietResult, ExactResult, Answer, Wanted, Searches
    <3>3. Returns(Answer(c, c.op))
          BY <1>1, <2>3 DEF LookAt, EndOfSlots
    <3> QED
        BY <3>2, <3>3, NoCallQuiet DEF Returns, world
  <2> QED
      BY <2>2, <2>3
<1>2. CASE slots # <<>>
  <2> DEFINE d == [c EXCEPT !.step = "GetTokenInfo", !.slots = slots, !.token = NoToken,
                            !.count = 0, !.buffer = <<>>]
  <2>1. call' = d /\ UNCHANGED <<result, inside, quiet>>
        BY <1>2 DEF LookAt, Goes, world
  <2>2. /\ d.found = c.found /\ d.label = c.label /\ d.mechanisms = c.mechanisms
        /\ d.op = c.op /\ d.step = "GetTokenInfo" /\ d.slots = slots
        BY DEF CallType
  <2>3. Exact(d, slots)
        BY <2>2 DEF Exact, Wanted
  <2>4. QuietCall(d)
        BY <2>2, <2>3 DEF QuietCall
  <2> QED
      BY <2>1, <2>4
<1> QED
    BY <1>1, <1>2

LEMMA NextSlotQuiet ==
    ASSUME NEW c, CallOK(c), QuietCall(c), QuietResult(result), c.op \in Searches,
           c.step \in Looks, NextSlot(c),
           c.step # "yield" => <<Head(c.slots), inside[Head(c.slots)]>> \notin Wanted(c)
    PROVE  QuietCall(call') /\ QuietResult(result') /\ UNCHANGED <<inside, quiet>>
<1>1. c \in CallType /\ c.slots \in Seq(Slots) /\ c.slots # <<>>
      BY DEF CallOK, CallType
<1>2. /\ Once(c.slots) /\ SetOf(c.slots) \subseteq DOMAIN inside
      /\ Exact(c, IF c.step = "yield" THEN Tail(c.slots) ELSE c.slots)
      BY DEF QuietCall
<1>3. /\ Tail(c.slots) \in Seq(Slots) /\ Once(Tail(c.slots))
      /\ SetOf(Tail(c.slots)) \subseteq DOMAIN inside
      BY <1>1, <1>2, HeadTail
<1>4. Exact(c, Tail(c.slots))
  <2>1. CASE c.step = "yield"
        BY <1>2, <2>1
  <2>2. CASE c.step # "yield"
        BY <1>1, <1>2, <2>2, StepOver
  <2> QED
      BY <2>1, <2>2
<1>5. LookAt(c, Tail(c.slots))
      BY DEF NextSlot
<1> QED
    BY <1>1, <1>3, <1>4, <1>5, LookAtQuiet

LEMMA FailingQuiet ==
    ASSUME TypeInv, QuietInv, quiet, call.step \in Looks \ {"yield"},
           Failing(call, Head(call.slots))
    PROVE  QuietCall(call') /\ QuietResult(result') /\ UNCHANGED <<inside, quiet>>
<1>1. CASE Skips(call, Head(call.slots))
  <2>1. CallOK(call) /\ call.op \in Searches /\ QuietCall(call) /\ QuietResult(result)
        BY <1>1 DEF TypeInv, CallOK, CallType, Ops, Looks, Searches, Skips, QuietInv
  <2>2. NextSlot(call)
        BY <1>1 DEF Failing
  <2>3. <<Head(call.slots), inside[Head(call.slots)]>> \notin Wanted(call)
    <3>1. ~Working(Head(call.slots))
          BY DEF Failing
    <3> QED
        BY <3>1 DEF Wanted, Fitting, Working
  <2> QED
      BY <2>1, <2>2, <2>3, NextSlotQuiet
<1>2. CASE ~Skips(call, Head(call.slots))
      BY <1>2, NoCallQuiet, RaiseQuiet DEF Failing, Raises, Returns, world
<1> QED
    BY <1>1, <1>2

LEMMA FilterQuiet ==
    ASSUME TypeInv, QuietInv, quiet, call.step \in {"CountMechanisms", "GetMechanismList"},
           Working(Head(call.slots)), NEW mechanisms,
           mechanisms = Mechanisms[inside[Head(call.slots)]], Filter(call, mechanisms)
    PROVE  QuietCall(call') /\ QuietResult(result') /\ UNCHANGED <<inside, quiet>>
<1> DEFINE h == Head(call.slots)
           q == <<h, call.token>>
           fitting == [call EXCEPT !.found = Append(@, q)]
<1>1. CASE call.op = "get_mechanisms"
  <2>1. Returns([kind |-> "get_mechanisms", slot |-> h, mechanisms |-> mechanisms])
        BY <1>1 DEF Filter
  <2>2. QuietResult([kind |-> "get_mechanisms", slot |-> h, mechanisms |-> mechanisms])
        BY DEF QuietResult
  <2> QED
      BY <2>1, <2>2, NoCallQuiet DEF Returns, world
<1>2. CASE call.op \in Searches
  <2>1. /\ CallOK(call) /\ call \in CallType /\ call.slots # <<>> /\ call.token \in Tokens
        /\ call.op # "get_mechanisms" /\ QuietCall(call) /\ QuietResult(result)
        /\ call.step \in Looks /\ call.step # "yield"
        BY <1>2 DEF TypeInv, CallOK, Looks, Searches, QuietInv
  <2>2. /\ Once(call.slots) /\ SetOf(call.slots) \subseteq DOMAIN inside
        /\ Exact(call, call.slots) /\ call.token = inside[h]
        BY <1>2, <2>1 DEF QuietCall
  <2>3. /\ call.slots \in Seq(Slots) /\ call.found \in Seq(Slots \X Tokens)
        /\ h \in Slots /\ Tail(call.slots) \in Seq(Slots) /\ h \in SetOf(call.slots)
        /\ Once(Tail(call.slots)) /\ SetOf(Tail(call.slots)) \subseteq DOMAIN inside
        BY <2>1, <2>2, HeadTail DEF CallType
  <2>4. Fits(call, mechanisms) <=> q \in Wanted(call)
    <3>1. call.mechanisms \in Filters \union {None}
          BY <2>1 DEF CallType
    <3>2. mechanisms \subseteq AllMechanisms
          BY DEF Working, AllMechanisms
    <3>3. call.mechanisms = None \/ call.mechanisms \notin mechanisms
          BY <3>1, <3>2, WorldAssumption
    <3> QED
        BY <2>1, <2>2, <2>3, <3>3, WantedPairs DEF Fits
  <2>5. q \in Slots \X Tokens /\ Append(call.found, q) \in Seq(Slots \X Tokens)
        BY <2>1, <2>3, AppendList
  <2>6. /\ fitting \in CallType /\ fitting.op = call.op /\ fitting.label = call.label
        /\ fitting.mechanisms = call.mechanisms /\ fitting.slots = call.slots
        /\ fitting.found = Append(call.found, q)
        BY <2>1, <2>5 DEF CallType
  <2>7. CASE ~Fits(call, mechanisms)
    <3>1. NextSlot(call)
          BY <2>1, <2>7 DEF Filter
    <3>2. <<h, inside[h]>> \notin Wanted(call)
          BY <2>2, <2>4, <2>7
    <3> QED
        BY <1>2, <2>1, <3>1, <3>2, NextSlotQuiet
  <2>8. ASSUME Fits(call, mechanisms), call.op = "get_token" => call.found = <<>>
        PROVE  Exact(fitting, Tail(call.slots))
    <3>1. q \in Wanted(call) /\ q[1] = Head(call.slots)
          BY <2>4, <2>8
    <3> HIDE DEF q, fitting
    <3> QED
        BY <2>1, <2>2, <2>3, <2>5, <2>6, <2>8, <3>1, StepIn
  <2>9. CASE Fits(call, mechanisms) /\ call.op = "get_tokens"
    <3> DEFINE d == [fitting EXCEPT !.step = "yield"]
    <3>1. call' = d /\ UNCHANGED <<result, inside, quiet>>
          BY <2>1, <2>9 DEF Filter, Goes, world
    <3>2. Exact(fitting, Tail(call.slots))
          BY <2>8, <2>9
    <3>3. /\ d.found = fitting.found /\ d.label = call.label /\ d.step = "yield"
          /\ d.mechanisms = call.mechanisms /\ d.op = call.op /\ d.slots = call.slots
          BY <2>6 DEF CallType
    <3>4. Exact(d, Tail(d.slots))
          BY <3>2, <3>3, <2>6 DEF Exact, Wanted
    <3>5. QuietCall(d)
          BY <3>3, <3>4, <2>2 DEF QuietCall
    <3> QED
        BY <3>1, <3>5, <2>1
  <2>10. CASE Fits(call, mechanisms) /\ call.op = "get_token" /\ call.found = <<>>
    <3>1. LookAt(fitting, Tail(call.slots))
          BY <2>1, <2>6, <2>10 DEF Filter, NextSlot
    <3>2. Exact(fitting, Tail(call.slots))
          BY <2>8, <2>10
    <3> HIDE DEF fitting
    <3> QED
        BY <3>1, <3>2, <2>1, <2>3, <2>6, <1>2, LookAtQuiet
  <2>11. CASE Fits(call, mechanisms) /\ call.op = "get_token" /\ call.found # <<>>
    <3>1. Returns(Answer(fitting, "MultipleTokensReturned"))
          BY <2>11, <2>1 DEF Filter
    <3>2. q \in Wanted(call) /\ q \notin SetOf(call.found)
          BY <2>2, <2>3, <2>4, <2>11 DEF Exact
    <3>3. Once(fitting.found)
          BY <2>2, <2>3, <2>5, <2>6, <3>2, AppendList DEF Exact
    <3>4. \E p \in Wanted(call) : p # q
      <4>1. Head(call.found) \in SetOf(call.found)
            BY <2>3, <2>11, HeadTail
      <4> QED
          BY <4>1, <2>2, <3>2 DEF Exact
    <3>5. QuietResult(Answer(fitting, "MultipleTokensReturned"))
          BY <2>6, <3>2, <3>3, <3>4 DEF QuietResult, ExactResult, Answer, Wanted
    <3> QED
        BY <3>1, <3>5, NoCallQuiet DEF Returns, world
  <2> QED
      BY <2>7, <2>9, <2>10, <2>11, <1>2 DEF Searches
<1> QED
    BY <1>1, <1>2 DEF TypeInv, CallOK, CallType, Ops, Searches

LEMMA QuietInit == Init => QuietInv
BY NoCallQuiet DEF Init, QuietInv

LEMMA LooksKeepQuiet ==
    ASSUME GetTokenInfo \/ CountMechanisms \/ GetMechanismList
    PROVE  quiet' = quiet
<1>1. ASSUME NEW c, NEW slots, LookAt(c, slots) PROVE quiet' = quiet
      BY <1>1 DEF LookAt, EndOfSlots, Goes, Returns
<1>2. ASSUME NEW s, Failing(call, s) PROVE quiet' = quiet
      BY <1>1, <1>2 DEF Failing, NextSlot, Raises, Returns
<1>3. ASSUME NEW mechanisms, Filter(call, mechanisms) PROVE quiet' = quiet
      BY <1>1, <1>3 DEF Filter, NextSlot, Goes, Returns
<1> QED
    BY <1>2, <1>3 DEF GetTokenInfo, CountMechanisms, GetMechanismList, Goes, Raises, Returns

LEMMA QuietNext == TypeInv /\ QuietInv /\ [Next]_vars => QuietInv'
<1> SUFFICES ASSUME TypeInv, QuietInv, [Next]_vars PROVE QuietInv'
    OBVIOUS
<1>1. CASE ChangeToken \/ PlugReader \/ UnplugReader
  <2>1. ~quiet'
        BY <1>1 DEF ChangeToken, PlugReader, UnplugReader, Changed
  <2> QED
      BY <2>1 DEF QuietInv
<1>2. CASE CountSlots
  <2> PICK op \in {"get_slots", "get_tokens", "get_token"}, present \in BOOLEAN,
           label \in Labels \union {None}, mechanisms \in Filters \union {None} :
              SearchFor(op, present, label, mechanisms)
      BY <1>2 DEF CountSlots
  <2> USE DEF SearchFor
  <2> DEFINE n == Cardinality(Listed(present))
             c == [NoCall EXCEPT !.op = op, !.present = present, !.label = label,
                                 !.mechanisms = mechanisms, !.count = n]
             d == [c EXCEPT !.step = "GetSlotList"]
  <2>1. inside' = inside
        BY DEF Begin, world
  <2>2. /\ c.found = <<>> /\ d.step = "GetSlotList" /\ d.count = n /\ d.present = present
        /\ c.label = label /\ c.mechanisms = mechanisms
        BY DEF NoCall
  <2>3. CASE call' = d /\ result' = NoResult
    <3>1. QuietCall(d)
          BY <2>2 DEF QuietCall, Looks
    <3> QED
        BY <2>1, <2>3, <3>1, NoCallQuiet, QuietKept
  <2>4. CASE n = 0 /\ call' = NoCall /\ result' # NoResult
    <3>1. Listed(present) = {}
          BY <2>4, SlotsFinite, FS_EmptySet DEF TypeInv
    <3>2. CASE op = "get_slots" /\ result' = [kind |-> op, present |-> present, slots |-> <<>>]
      <4>1. QuietResult([kind |-> "get_slots", present |-> present, slots |-> <<>>])
            BY <3>1, EmptySet DEF QuietResult
      <4> QED
          BY <2>1, <2>4, <3>2, <4>1, NoCallQuiet, QuietKept
    <3>3. ASSUME NEW kind \in {"NoSuchToken", "get_tokens"}, ~present, result' = Answer(c, kind)
          PROVE  QuietInv'
      <4>1. Wanted(c) = {}
            BY <3>1, <3>3 DEF Listed, Wanted, Fitting
      <4>2. QuietResult(Answer(c, kind))
            BY <2>2, <3>3, <4>1, EmptySet DEF QuietResult, ExactResult, Answer, Wanted
      <4> QED
          BY <2>1, <2>4, <3>3, <4>2, NoCallQuiet, QuietKept
    <3> QED
        BY <2>4, <3>2, <3>3
  <2> QED
      BY <2>3, <2>4 DEF NoResult, Answer
<1>3. CASE AskMechanisms
  <2> PICK s \in Slots :
        /\ call' = [NoCall EXCEPT !.op = "get_mechanisms", !.step = "CountMechanisms",
                                  !.slots = <<s>>]
        /\ result' = NoResult
        /\ Begin
      BY <1>3 DEF AskMechanisms
  <2>1. call'.step = "CountMechanisms" /\ call'.op = "get_mechanisms"
        BY DEF NoCall
  <2>2. QuietCall(call') /\ inside' = inside
        BY <2>1 DEF QuietCall, Searches, Begin, world
  <2> QED
      BY <2>2, NoCallQuiet, QuietKept
<1>4. CASE NextToken
  <2> SUFFICES ASSUME quiet PROVE QuietInv'
      BY <1>4 DEF NextToken, NextSlot, LookAt, EndOfSlots, Goes, Returns, QuietInv
  <2>1. CallOK(call) /\ QuietCall(call) /\ QuietResult(result) /\ call.op \in Searches
        /\ call.step = "yield" /\ NextSlot(call)
        BY <1>4 DEF NextToken, TypeInv, QuietInv, CallOK, CallType, Ops, Searches
  <2> QED
      BY <2>1, NextSlotQuiet, QuietKept DEF Looks
<1>5. CASE DropTokens
      BY <1>5, NoCallQuiet, QuietKept DEF DropTokens, Returns, world
<1>6. CASE WaitForSlotEvent
  <2>1. UNCHANGED <<inside, call, quiet>> /\ \E why : result' = [kind |-> "raise", why |-> why]
        BY <1>6 DEF WaitForSlotEvent
  <2> QED
      BY <2>1, RaiseQuiet, QuietKept DEF QuietInv
<1>7. CASE GetSlotList
  <2>1. CASE Raises(Raised["CKR_BUFFER_TOO_SMALL"])
        BY <2>1, RaiseQuiet, NoCallQuiet, QuietKept DEF Raises, Returns, world
  <2>2. ASSUME NEW list \in Listings(Listed(call.present)),
               NEW b \in Filled(call.count, list, Slots),
               Goes([call EXCEPT !.step = "GetSlotInfo", !.buffer = b])
        PROVE  QuietInv'
    <3>1. /\ call \in CallType /\ call.step = "GetSlotList" /\ call.slots = <<>>
          /\ call.present \in BOOLEAN
          BY <1>7 DEF GetSlotList, TypeInv, CallOK, CallType
    <3>2. /\ call'.step = "GetSlotInfo" /\ call'.slots = <<>> /\ call'.buffer = b
          /\ call'.present = call.present
          BY <2>2, <3>1 DEF Goes, CallType
    <3>3. UNCHANGED <<inside, quiet, result>>
          BY <2>2 DEF Goes, world
    <3>4. ASSUME quiet PROVE QuietCall(call')
      <4>1. call.count = Cardinality(Listed(call.present)) /\ IsFiniteSet(Listed(call.present))
            BY <3>1, <3>4, SlotsFinite DEF QuietInv, QuietCall, TypeInv
      <4>2. Once(b) /\ SetOf(b) = Listed(call.present)
            BY <4>1, Listing
      <4>3. <<>> \o b = b
        <5>1. call.count \in Nat /\ b \in [1..call.count -> Slots \union {Junk}]
              BY <3>1 DEF Filled, CallType
        <5>2. b \in Seq(Slots \union {Junk})
              BY <5>1
        <5> QED
            BY <5>2
      <4> QED
          BY <3>2, <4>2, <4>3 DEF QuietCall, Looks
    <3> QED
        BY <3>3, <3>4, QuietKept DEF QuietInv
  <2> QED
      BY <1>7, <2>1, <2>2 DEF GetSlotList
<1>8. CASE GetSlotInfo
  <2> DEFINE s == Head(call.buffer)
             c == [call EXCEPT !.buffer = Tail(@), !.slots = Append(@, s)]
  <2>1. CASE s \notin DOMAIN inside /\ Raises(Raised[Refusal(s)])
        BY <2>1, RaiseQuiet, NoCallQuiet, QuietKept DEF Raises, Returns, world
  <2>2. CASE s \in DOMAIN inside
    <3>1. /\ CallOK(call) /\ call \in CallType /\ call.buffer # <<>> /\ call.step = "GetSlotInfo"
          /\ call.buffer \in Seq(Slots \union {Junk}) /\ call.slots \in Seq(Slots)
          /\ call.slots \in Seq(Slots \union {Junk}) /\ call.found = <<>>
          BY <1>8 DEF GetSlotInfo, TypeInv, CallOK, CallType
    <3>2. /\ s \in Slots /\ Tail(call.buffer) \in Seq(Slots \union {Junk})
          /\ Append(call.slots, s) \in Seq(Slots)
          BY <2>2, <3>1, HeadTail, AppendList DEF TypeInv, WorldOK
    <3>3. /\ c \in CallType /\ c.slots = Append(call.slots, s) /\ c.op = call.op
          /\ c.found = <<>> /\ c.step = "GetSlotInfo" /\ c.buffer = Tail(call.buffer)
          /\ c.present = call.present
          BY <3>1, <3>2 DEF CallType
    <3>4. c.slots \o c.buffer = call.slots \o call.buffer
          BY <3>1, <3>3, MoveHead
    <3>5. quiet => /\ Once(c.slots \o c.buffer) /\ SetOf(c.slots \o c.buffer) = Listed(c.present)
                   /\ QuietResult(result)
          BY <3>1, <3>3, <3>4 DEF QuietInv, QuietCall
    <3> HIDE DEF c
    <3>6. CASE Goes(c)
      <4>1. quiet => QuietCall(c)
            BY <3>3, <3>5 DEF QuietCall, Looks
      <4> QED
          BY <3>5, <3>6, <4>1, QuietKept DEF Goes, world
    <3>7. ASSUME c.buffer = <<>>, quiet PROVE Once(c.slots) /\ SetOf(c.slots) = Listed(c.present)
      <4>1. c.slots \o <<>> = c.slots
            BY <3>2, <3>3
      <4> QED
          BY <3>5, <3>7, <4>1
    <3>8. CASE c.buffer = <<>> /\ Returns([kind |-> c.op, present |-> c.present, slots |-> c.slots])
               /\ call.op = "get_slots"
      <4>1. quiet => QuietResult([kind |-> c.op, present |-> c.present, slots |-> c.slots])
            BY <3>3, <3>7, <3>8 DEF QuietResult
      <4> QED
          BY <4>1, <3>8, NoCallQuiet, QuietKept DEF Returns, world
    <3>9. CASE c.buffer = <<>> /\ call.op # "get_slots" /\ LookAt(c, c.slots)
      <4>1. c.op \in Searches /\ ~c.present /\ c.slots \in Seq(Slots)
            BY <3>1, <3>2, <3>3, <3>9 DEF CallOK, CallType, Ops, Searches
      <4>2. CASE quiet
        <5>1. Once(c.slots) /\ SetOf(c.slots) = DOMAIN inside
              BY <3>7, <3>9, <4>1, <4>2 DEF Listed
        <5>2. Exact(c, c.slots)
              BY <3>3, <5>1, EmptySet, WantedPairs DEF Exact
        <5> QED
            BY <3>3, <3>5, <3>9, <4>1, <4>2, <5>1, <5>2, LookAtQuiet, QuietKept
      <4>3. CASE ~quiet
            BY <3>9, <4>3 DEF LookAt, EndOfSlots, Goes, Returns, QuietInv
      <4> QED
          BY <4>2, <4>3
    <3> QED
        BY <1>8, <2>2, <3>3, <3>6, <3>8, <3>9 DEF GetSlotInfo, MakeSlot, c
  <2> QED
      BY <1>8, <2>1, <2>2 DEF GetSlotInfo
<1>9. CASE GetTokenInfo
  <2> SUFFICES ASSUME quiet PROVE QuietInv'
      BY <1>9, LooksKeepQuiet DEF QuietInv
  <2> DEFINE s == Head(call.slots)
  <2>1. CASE Failing(call, s)
        BY <1>9, <2>1, FailingQuiet, QuietKept DEF GetTokenInfo, Looks
  <2>2. CASE /\ Working(s)
             /\ Goes([call EXCEPT !.step = "CountMechanisms", !.token = inside[s]])
    <3>1. /\ call \in CallType /\ QuietCall(call) /\ QuietResult(result)
          /\ call.step = "GetTokenInfo"
          BY <1>9 DEF GetTokenInfo, TypeInv, CallOK, QuietInv
    <3>2. /\ call'.found = call.found /\ call'.label = call.label /\ call'.slots = call.slots
          /\ call'.token = inside[s] /\ call'.step = "CountMechanisms" /\ call'.op = call.op
          /\ call'.mechanisms = call.mechanisms
          BY <2>2, <3>1 DEF Goes, CallType
    <3>3. QuietCall(call')
          BY <3>1, <3>2 DEF QuietCall, Exact, Wanted, Looks
    <3> QED
        BY <2>2, <3>1, <3>3, QuietKept DEF Goes, world
  <2> QED
      BY <1>9, <2>1, <2>2 DEF GetTokenInfo, MakeToken
<1>10. CASE CountMechanisms
  <2> SUFFICES ASSUME quiet PROVE QuietInv'
      BY <1>10, LooksKeepQuiet DEF QuietInv
  <2> DEFINE s == Head(call.slots)
             n == Cardinality(Mechanisms[inside[s]])
  <2>1. CASE Failing(call, s)
        BY <1>10, <2>1, FailingQuiet, QuietKept DEF CountMechanisms, Looks
  <2>2. CASE Working(s) /\ n = 0 /\ Filter(call, {})
    <3>1. Mechanisms[inside[s]] = {}
          BY <2>2, WorldAssumption, FS_EmptySet DEF Working
    <3> QED
        BY <1>10, <2>2, <3>1, FilterQuiet, QuietKept DEF CountMechanisms
  <2>3. CASE Goes([call EXCEPT !.step = "GetMechanismList", !.count = n])
    <3>1. /\ call \in CallType /\ QuietCall(call) /\ QuietResult(result)
          /\ call.step = "CountMechanisms"
          BY <1>10 DEF CountMechanisms, TypeInv, CallOK, QuietInv
    <3>2. /\ call'.found = call.found /\ call'.label = call.label /\ call'.slots = call.slots
          /\ call'.token = call.token /\ call'.step = "GetMechanismList" /\ call'.op = call.op
          /\ call'.mechanisms = call.mechanisms /\ call'.count = n
          BY <2>3, <3>1 DEF Goes, CallType
    <3>3. QuietCall(call')
          BY <3>1, <3>2 DEF QuietCall, Exact, Wanted, Looks
    <3> QED
        BY <2>3, <3>1, <3>3, QuietKept DEF Goes, world
  <2> QED
      BY <1>10, <2>1, <2>2, <2>3 DEF CountMechanisms
<1>11. CASE GetMechanismList
  <2> SUFFICES ASSUME quiet PROVE QuietInv'
      BY <1>11, LooksKeepQuiet DEF QuietInv
  <2> DEFINE s == Head(call.slots)
             listed == Mechanisms[inside[s]]
  <2>1. CASE Failing(call, s)
        BY <1>11, <2>1, FailingQuiet, QuietKept DEF GetMechanismList, Looks
  <2>2. CASE Raises(Raised["CKR_BUFFER_TOO_SMALL"])
        BY <2>2, RaiseQuiet, NoCallQuiet, QuietKept DEF Raises, Returns, world
  <2>3. ASSUME Working(s), NEW list \in Listings(listed),
               NEW b \in Filled(call.count, list, AllMechanisms), Filter(call, SetOf(b))
        PROVE  QuietInv'
    <3>1. call.count = Cardinality(listed) /\ IsFiniteSet(listed)
          BY <1>11, <2>3, WorldAssumption DEF GetMechanismList, Working, QuietInv, QuietCall
    <3>2. SetOf(b) = listed
          BY <3>1, Listing
    <3> QED
        BY <1>11, <2>3, <3>2, FilterQuiet, QuietKept DEF GetMechanismList
  <2> QED
      BY <1>11, <2>1, <2>2, <2>3 DEF GetMechanismList
<1>12. CASE UNCHANGED vars
      BY <1>12, QuietKept DEF vars, world, QuietInv
<1> QED
    BY <1>1, <1>2, <1>3, <1>4, <1>5, <1>6, <1>7, <1>8, <1>9, <1>10, <1>11, <1>12 DEF Next

(* get_slots returns only slots that there were during the call, and when  *)
(* nothing is plugged or unplugged it returns each slot once and           *)
(* get_mechanisms what the token can do, in spite of the entries of the    *)
(* buffer that may not have been written.                                  *)
THEOREM TruthfulLists == Spec => []ListsAreTrue
<1>1. TruthInv /\ QuietInv => ListsAreTrue
      BY DEF TruthInv, ResultTrue, Seen, QuietInv, QuietResult, ListsAreTrue
<1> QED
    BY <1>1, TypeInit, TypeNext, TruthInit, TruthNext, QuietInit, QuietNext, PTL DEF Spec

(* When nothing changes meanwhile, a search without `mechanisms' is exact: *)
(* get_tokens yields each token with the label, once, and get_token        *)
(* returns the only one there is or says why not.  A search with them      *)
(* finds no token that it should not; nothing is said of those it should.  *)
THEOREM ExactSearches == Spec => []QuietSearchesAreExact
<1>1. QuietInv => QuietSearchesAreExact
  <2> SUFFICES ASSUME QuietInv, quiet, "found" \in DOMAIN result
               PROVE  QuietSearchesAreExact
      BY DEF QuietSearchesAreExact
  <2>1. ExactResult(result)
        BY DEF QuietInv, QuietResult
  <2>2. CASE result.mechanisms = None
    <3>1. Documented(result.label, result.mechanisms) = Wanted(result)
          BY <2>2 DEF Documented, Wanted
    <3> QED
        BY <2>1, <3>1 DEF ExactResult, QuietSearchesAreExact
  <2>3. CASE result.mechanisms # None
    <3>1. Wanted(result) = {}
          BY <2>3 DEF Wanted
    <3> QED
        BY <2>1, <2>3, <3>1 DEF ExactResult, QuietSearchesAreExact
  <2> QED
      BY <2>2, <2>3
<1> QED
    BY <1>1, TypeInit, TypeNext, QuietInit, QuietNext, PTL DEF Spec
=============================================================================
