----------------------------- MODULE TokenSearch -----------------------------
(***************************************************************************)
(* Slot and token discovery of src/pkcs11/_pkcs11.pyx: lib.get_slots,      *)
(* Slot.get_token, Slot.get_mechanisms, lib.get_tokens, lib.get_token and  *)
(* lib.wait_for_slot_event.                                                *)
(*                                                                         *)
(* A list is fetched with two C calls, one for its length and one for its  *)
(* contents, and each of its members is then asked about with further      *)
(* calls.  Readers and tokens are plugged and unplugged between any two.   *)
(* Calls of different threads share no state, so one caller is modelled.   *)
(***************************************************************************)
EXTENDS ReturnValues, Naturals, Sequences, FiniteSets

CONSTANTS
    MaxSlots,     \* the slot ids are 1..MaxSlots
    Tokens,       \* the tokens that can be inserted
    NoToken,      \* an empty slot
    Blank,        \* a token that the library does not recognise
    Label,        \* CK_TOKEN_INFO.label of each token
    Mechanisms,   \* the mechanisms of each token, a set
    Filters,      \* the `mechanisms' parameters of searches: sets
    None,         \* a search parameter that is not given (None)
    Junk,         \* an id that is not a slot or mechanism
    AtStart,      \* what the slots that exist at the start contain
    MaxChanges    \* readers and tokens plugged or unplugged (bound)

Slots == 1..MaxSlots
SetOf(list) == {list[i] : i \in DOMAIN list}
AllMechanisms == UNION {Mechanisms[k] : k \in Tokens}
Labels == {Label[k] : k \in Tokens}

(* (No set of mechanisms is itself a mechanism.)                           *)
ASSUME WorldAssumption ==
    /\ MaxSlots \in Nat /\ MaxChanges \in Nat
    /\ NoToken \notin Tokens /\ Blank \notin Tokens /\ NoToken # Blank
    /\ Junk \notin Slots \union AllMechanisms
    /\ None \notin Labels \union Filters
    /\ Filters \intersect (AllMechanisms \union {Junk}) = {}
    /\ \A k \in Tokens : IsFiniteSet(Mechanisms[k])
    /\ DOMAIN AtStart \subseteq Slots
    /\ AtStart \in [DOMAIN AtStart -> Tokens \union {NoToken, Blank}]

VARIABLES
    inside,    \* what is in each of the slots that there are: a function
    events,    \* the slots of which C_WaitForSlotEvent has something to tell
    call,      \* the call the program is in
    result,    \* what the last call returned or yielded
    changes,   \* how often the world has changed (bound)
    quiet,     \* history: it has not changed since the call began
    past       \* history: <<slot, content>> pairs there have been since then

world == <<inside, events, changes>>
vars  == <<inside, events, call, result, changes, quiet, past>>

(* op: the method.                                                         *)
(* step: the C call that is made next, "yield" when the generator of       *)
(* get_tokens has given a token to its caller.  buffer: slot_list or       *)
(* mechanisms, an entry that was not written being Junk or any value;      *)
(* slots: the Slot objects made, then those get_tokens has yet to look at; *)
(* token: the Token at hand; found: the <<slot, token>> pairs that fit.    *)
Ops   == {"none", "get_slots", "get_mechanisms", "get_tokens", "get_token"}
Steps == {"idle", "GetSlotList", "GetSlotInfo", "GetTokenInfo",
          "CountMechanisms", "GetMechanismList", "yield"}

NoCall ==
    [op |-> "none", step |-> "idle", present |-> FALSE, label |-> None, mechanisms |-> None,
     count |-> 0, buffer |-> <<>>, slots |-> <<>>, token |-> NoToken, found |-> <<>>]
NoResult == [kind |-> "none"]

Now == {<<s, inside[s]>> : s \in DOMAIN inside}

Init ==
    /\ inside = AtStart
    /\ events = {}
    /\ call = NoCall
    /\ result = NoResult
    /\ changes = 0
    /\ quiet = TRUE
    /\ past = Now

-----------------------------------------------------------------------------
(* The world.                                                              *)

Changed(new, s) ==
    /\ changes < MaxChanges
    /\ changes' = changes + 1
    /\ inside' = new
    /\ events' = events \union {s}
    /\ quiet' = FALSE
    /\ past' = past \union {<<x, new[x]>> : x \in DOMAIN new}
    /\ UNCHANGED <<call, result>>

(* A token is inserted, taken out or exchanged.  It is in one slot.        *)
ChangeToken ==
    \E s \in DOMAIN inside, k \in Tokens \union {NoToken, Blank} :
        /\ inside[s] # k
        /\ k \in Tokens => \A x \in DOMAIN inside : inside[x] # k
        /\ Changed([inside EXCEPT ![s] = k], s)

PlugReader ==
    \E s \in Slots \ DOMAIN inside :
        Changed([x \in DOMAIN inside \union {s} |-> IF x = s THEN NoToken ELSE inside[x]], s)

UnplugReader ==
    \E s \in DOMAIN inside : Changed([x \in DOMAIN inside \ {s} |-> inside[x]], s)

-----------------------------------------------------------------------------
(* Lists of unknown length.                                                *)

(* What C_GetSlotList tells of: all slots, or those with a token.          *)
Listed(present) == {s \in DOMAIN inside : present => inside[s] # NoToken}

(* The orders in which a list may tell of the members of S.                *)
Listings(S) ==
    {list \in [1..Cardinality(S) -> S] :
        \A i, j \in 1..Cardinality(S) : list[i] = list[j] => i = j}

(* A buffer of `count' entries after the token has written `list' to it.   *)
Filled(count, list, values) ==
    {b \in [1..count -> values \union {Junk}] : \A i \in DOMAIN list : b[i] = list[i]}

Goes(c) ==
    /\ call' = c
    /\ UNCHANGED <<result, quiet, past, world>>

Returns(answer) ==
    /\ call' = NoCall
    /\ result' = answer
    /\ UNCHANGED <<quiet, past, world>>

Raises(why) == Returns([kind |-> "raise", why |-> why])

-----------------------------------------------------------------------------
(* The search of get_tokens and get_token, slot by slot.                   *)

Answer(c, kind) ==
    [kind |-> kind, label |-> c.label, mechanisms |-> c.mechanisms, found |-> c.found]

(* get_tokens ends; get_token has seen one token or none.                  *)
EndOfSlots(c) ==
    IF c.op = "get_token" /\ c.found = <<>> THEN Returns(Answer(c, "NoSuchToken"))
    ELSE Returns(Answer(c, c.op))

(* No look at whether there is another slot.                               *)
LookOn(c, slots) ==
    Goes([c EXCEPT !.step = "GetTokenInfo", !.slots = slots, !.token = NoToken,
                   !.count = 0, !.buffer = <<>>])

(* The loop of get_tokens over the slots.                                  *)
LookAt(c, slots) ==
    IF slots = <<>> THEN EndOfSlots(c)
    ELSE Goes([c EXCEPT !.step = "GetTokenInfo", !.slots = slots, !.token = NoToken,
                        !.count = 0, !.buffer = <<>>])

NextSlot(c) == LookAt(c, Tail(c.slots))

(* The label is not compared.                                              *)
FitsAnyLabel(c, mechanisms) ==
    c.mechanisms = None \/ c.mechanisms \in mechanisms

(* `set(mechanisms) not in token_mechanisms': whether the set itself is    *)
(* one of the token's mechanisms.  (The filters by serial number and by    *)
(* flags pass over a token as the one by label does and are left out.)     *)
Fits(c, mechanisms) ==
    /\ c.label = None \/ Label[c.token] = c.label
    /\ c.mechanisms = None \/ c.mechanisms \in mechanisms

(* The token is at hand and its mechanisms are known.                      *)
Filter(c, mechanisms) ==
    LET fitting == [c EXCEPT !.found = Append(@, <<Head(c.slots), c.token>>)]
    IN  IF c.op = "get_mechanisms"
        THEN Returns([kind |-> c.op, slot |-> Head(c.slots), mechanisms |-> mechanisms])
        ELSE IF ~Fits(c, mechanisms) THEN NextSlot(c)
        ELSE IF c.op = "get_tokens" THEN Goes([fitting EXCEPT !.step = "yield"])
        ELSE IF c.found = <<>> THEN NextSlot(fitting)
        ELSE Returns(Answer(fitting, "MultipleTokensReturned"))

(* A call about the slot s, if it has no token that works.                 *)
Working(s) == s \in DOMAIN inside /\ inside[s] \in Tokens

Refusal(s) ==
    IF s \notin DOMAIN inside THEN "CKR_SLOT_ID_INVALID"
    ELSE IF inside[s] = NoToken THEN "CKR_TOKEN_NOT_PRESENT"
    ELSE "CKR_TOKEN_NOT_RECOGNIZED"

(* What get_tokens catches to go on with the next slot.                    *)
Skipped == {"TokenNotPresent", "TokenNotRecognised"}

Skips(c, s) == c.op # "get_mechanisms" /\ Raised[Refusal(s)] \in Skipped

(* An empty slot ends the search.                                          *)
FailingEnds(c, s) ==
    /\ ~Working(s)
    /\ IF Skips(c, s) THEN EndOfSlots(c) ELSE Raises(Raised[Refusal(s)])

Failing(c, s) ==
    /\ ~Working(s)
    /\ IF Skips(c, s) THEN NextSlot(c) ELSE Raises(Raised[Refusal(s)])

-----------------------------------------------------------------------------
(* The C calls.                                                            *)

(* The contents of slot_list.  If there are more slots now the call fails, *)
(* if there are fewer the rest of the list is not written.                 *)
GetSlotList ==
    LET listed == Listed(call.present)
    IN  /\ call.step = "GetSlotList"
        /\ \/ Cardinality(listed) > call.count /\ Raises(Raised["CKR_BUFFER_TOO_SMALL"])
           \/ /\ Cardinality(listed) <= call.count
              /\ \E list \in Listings(listed) : \E b \in Filled(call.count, list, Slots) :
                    Goes([call EXCEPT !.step = "GetSlotInfo", !.buffer = b])

(* Slot.make, for the next id of the list: a copy of what the library says *)
(* of the slot, which nothing changes when the slot goes.                  *)
MakeSlot(c) == [c EXCEPT !.buffer = Tail(@), !.slots = Append(@, Head(c.buffer))]

(* Token.make: a copy of what the token says of itself now.                *)
MakeToken(c, token) == [c EXCEPT !.step = "CountMechanisms", !.token = token]

(* The return value of C_GetSlotInfo is not looked at.                     *)
GetSlotInfoUnchecked ==
    LET c == MakeSlot(call)
    IN  /\ call.step = "GetSlotInfo"
        /\ IF c.buffer # <<>> THEN Goes(c)
           ELSE Returns([kind |-> c.op, present |-> c.present, slots |-> c.slots])

(* `for slot_id in slot_list': the whole list.                             *)
GetSlotInfo ==
    LET s == Head(call.buffer)
        c == MakeSlot(call)
    IN  /\ call.step = "GetSlotInfo"
        /\ \/ s \notin DOMAIN inside /\ Raises(Raised[Refusal(s)])
           \/ s \in DOMAIN inside /\ c.buffer # <<>> /\ Goes(c)
           \/ /\ s \in DOMAIN inside /\ c.buffer = <<>>
              /\ IF c.op = "get_slots"
                 THEN Returns([kind |-> c.op, present |-> c.present, slots |-> c.slots])
                 ELSE LookAt(c, c.slots)

GetTokenInfo ==
    LET s == Head(call.slots)
    IN  /\ call.step = "GetTokenInfo"
        /\ \/ Failing(call, s)
           \/ /\ Working(s)
              /\ Goes(MakeToken(call, inside[s]))

CountMechanisms ==
    LET s == Head(call.slots)
        n == Cardinality(Mechanisms[inside[s]])
    IN  /\ call.step = "CountMechanisms"
        /\ \/ Failing(call, s)
           \/ Working(s) /\ n = 0 /\ Filter(call, {})
           \/ /\ Working(s) /\ n > 0
              /\ Goes([call EXCEPT !.step = "GetMechanismList", !.count = n])

GetMechanismList ==
    LET s == Head(call.slots)
        listed == Mechanisms[inside[s]]
    IN  /\ call.step = "GetMechanismList"
        /\ \/ Failing(call, s)
           \/ Working(s) /\ Cardinality(listed) > call.count /\ Raises(Raised["CKR_BUFFER_TOO_SMALL"])
           \/ /\ Working(s) /\ Cardinality(listed) <= call.count
              /\ \E list \in Listings(listed) :
                    \E b \in Filled(call.count, list, AllMechanisms) : Filter(call, SetOf(b))

-----------------------------------------------------------------------------
(* The calls of the program.                                               *)

Begin == quiet' = TRUE /\ past' = Now /\ UNCHANGED world

(* get_slots, get_tokens and get_token begin with C_GetSlotList for the    *)
(* number of slots.  (get_tokens does so when it is asked for its first    *)
(* token.)                                                                 *)
SearchFor(op, present, label, mechanisms) ==
    LET n == Cardinality(Listed(present))
        c == [NoCall EXCEPT !.op = op, !.present = present, !.label = label,
                            !.mechanisms = mechanisms, !.count = n]
    IN  /\ call.step = "idle"
        /\ op = "get_slots" => label = None /\ mechanisms = None
        /\ op # "get_slots" => ~present
        /\ \/ /\ n > 0
              /\ call' = [c EXCEPT !.step = "GetSlotList"]
              /\ result' = NoResult
           \/ /\ n = 0
              /\ call' = NoCall
              /\ result' = IF op = "get_slots"
                           THEN [kind |-> op, present |-> present, slots |-> <<>>]
                           ELSE Answer(c, IF op = "get_token" THEN "NoSuchToken" ELSE op)
        /\ Begin

CountSlots ==
    \E op \in {"get_slots", "get_tokens", "get_token"}, present \in BOOLEAN,
      label \in Labels \union {None}, mechanisms \in Filters \union {None} :
        SearchFor(op, present, label, mechanisms)

(* Slot.get_mechanisms of a Slot that the program has kept from before.    *)
AskMechanisms ==
    \E s \in Slots :
        /\ call.step = "idle"
        /\ call' = [NoCall EXCEPT !.op = "get_mechanisms", !.step = "CountMechanisms",
                                  !.slots = <<s>>]
        /\ result' = NoResult
        /\ Begin

(* The program asks the generator for the next token, or drops it.         *)
NextToken == call.step = "yield" /\ NextSlot(call)
DropTokens == call.step = "yield" /\ Returns(NoResult)

(* wait_for_slot_event: takes the event, asks C_GetSlotInfo about the slot *)
(* and raises in either case, the constructor of Slot being "TypeError".   *)
WaitForSlotEvent ==
    \E s \in events :
        /\ call.step = "idle"
        /\ events' = events \ {s}
        /\ result' = [kind |-> "raise",
                      why |-> IF s \in DOMAIN inside THEN "TypeError" ELSE Raised[Refusal(s)]]
        /\ UNCHANGED <<inside, changes, call, quiet, past>>

Next ==
    \/ ChangeToken \/ PlugReader \/ UnplugReader
    \/ CountSlots \/ AskMechanisms \/ NextToken \/ DropTokens \/ WaitForSlotEvent
    \/ GetSlotList \/ GetSlotInfo
    \/ GetTokenInfo \/ CountMechanisms \/ GetMechanismList

Spec == Init /\ [][Next]_vars

-----------------------------------------------------------------------------

(* Values of the variables; and a call is about to look at something       *)
(* whenever it makes a C call for one member of a list.                    *)
TypeOK ==
    /\ DOMAIN inside \subseteq Slots
    /\ \A s \in DOMAIN inside : inside[s] \in Tokens \union {NoToken, Blank}
    /\ events \subseteq Slots /\ changes \in 0..MaxChanges
    /\ call.op \in Ops /\ call.step \in Steps
    /\ call.step = "GetSlotInfo" => call.buffer # <<>>
    /\ call.step \in {"GetTokenInfo", "CountMechanisms", "GetMechanismList", "yield"}
         => call.slots # <<>> /\ SetOf(call.slots) \subseteq Slots

(* get_slots returns only slots that there were during the call, although  *)
(* it reads entries of slot_list that were never written; and when nothing *)
(* is plugged or unplugged meanwhile it returns each slot once, and        *)
(* get_mechanisms what the token can do.  (If a token with fewer           *)
(* mechanisms takes its place between the two calls of get_mechanisms the  *)
(* rest of that answer is left to chance.)                                 *)
Once(list) == \A i, j \in DOMAIN list : list[i] = list[j] => i = j

ListsAreTrue ==
    /\ result.kind = "get_slots" =>
          /\ \A s \in SetOf(result.slots) : \E p \in past : p[1] = s
          /\ quiet => Once(result.slots) /\ SetOf(result.slots) = Listed(result.present)
    /\ result.kind = "get_mechanisms" /\ quiet =>
          result.mechanisms = Mechanisms[inside[result.slot]]

(* Tokens of get_tokens and get_token have the label asked for and were in *)
(* the slot they say during the search.                                    *)
TokensAreTrue ==
    \A c \in {call, result} :
        "found" \in DOMAIN c =>
            \A p \in SetOf(c.found) :
                p \in past /\ (c.label = None \/ Label[p[2]] = c.label)

(* And when nothing changes meanwhile the search is exact: get_tokens      *)
(* yields each token with the label, get_token returns the one there is or *)
(* says why not.  This is claimed for searches without `mechanisms' only.  *)
(* docs/api.rst:34-42 promises those that have all the mechanisms required *)
(* where there is such a parameter, but the code (_pkcs11.pyx:2146) passes *)
(* them over too; of these searches all that is claimed is that they find  *)
(* nothing they should not.                                                *)
Fitting(label) ==
    {<<s, inside[s]>> : s \in {s \in DOMAIN inside :
        inside[s] \in Tokens /\ (label = None \/ Label[inside[s]] = label)}}

Documented(label, mechanisms) ==
    {p \in Fitting(label) : mechanisms = None \/ mechanisms \subseteq Mechanisms[p[2]]}

QuietSearchesAreExact ==
    quiet /\ "found" \in DOMAIN result =>
        LET fitting == Documented(result.label, result.mechanisms)
        IN  /\ Once(result.found)
            /\ result.kind \in {"get_tokens", "get_token"} => SetOf(result.found) \subseteq fitting
            /\ result.kind = "get_token" => Len(result.found) = 1
            /\ result.mechanisms = None =>
                   /\ result.kind \in {"get_tokens", "get_token"} =>
                          fitting \subseteq SetOf(result.found)
                   /\ result.kind = "NoSuchToken" => fitting = {}
                   /\ result.kind = "MultipleTokensReturned" => \E p, q \in fitting : p # q
=============================================================================
