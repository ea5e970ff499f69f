-------------------------- MODULE ObjectCallsProofs --------------------------
(***************************************************************************)
(* Proofs about ObjectCalls: its types, the search that belongs to a call, *)
(* what searches return, and what is read of objects.                      *)
(*                                                                         *)
(* Six invariants.  TypeInv: the types, with what every step of a call     *)
(* knows of it (CallFits) and the caller of the search.  ExactInv: what    *)
(* the token listed is, in order, what has been handed out, the handle     *)
(* being read, the rest of the batch and what the token still has.         *)
(* HistoryInv: an attribute's value is one it has had.  SteadyInv: the     *)
(* class of an object and what it does not show stay so.  TruthInv: a      *)
(* mixin without the capability has its causes, capabilities that the      *)
(* token object had all the time are mixins if the token did not deviate;  *)
(* buffers are there for every attribute that could be read, results are   *)
(* true.  LostInv: a created object that nobody can reach any more has a   *)
(* cause for it.                                                           *)
(*                                                                         *)
(* For each invariant, what it takes of a step to keep it is one           *)
(* definition (StepOf, ExactStep, TruthStep, LostStep) and each part of an *)
(* action has a lemma that it is such a step.                              *)
(***************************************************************************)
EXTENDS ObjectCalls, FiniteSetTheorems, TLAPS

-----------------------------------------------------------------------------
(* Types, where n is the number of handles that the token has given out;   *)
(* and who has the token's search.                                         *)

Searching == {"search", "get_key"}
Reads     == {"query", "fill"}

PyObjects(n) ==
    [handle : 1..n, class : Classes \union {Plain}, single : BOOLEAN, mixins : SUBSET Flags]

Fields == {"op", "step", "handle", "keys", "buffers", "single", "left", "read", "todo", "out"}

CallHolds(c, n) ==
    /\ DOMAIN c = Fields
    /\ c.op \in Ops
    /\ c.todo \in Seq(1..n) /\ c.out \in Seq(PyObjects(n)) /\ c.left \in Seq(KeySet(ObjectKeys))

(* make_object reads all keys in one go, or one of them; get_attributes    *)
(* reads any attributes in one go.                                         *)
KeysFit(c) ==
    /\ c.keys \in Seq(Attributes) /\ c.single \in BOOLEAN
    /\ c.op \in {"get", "params"} => ~c.single
    /\ c.op \notin {"get", "params"} /\ ~c.single => c.keys = ObjectKeys
    /\ c.single => \E k \in KeySet(ObjectKeys) : c.keys = <<k>>

CallFits(c, n) ==
    /\ CallHolds(c, n)
    /\ c.step \in Steps
    /\ c.step = "idle" => c.op = "none"
    /\ c.step \in Reads => c.op # "none" /\ c.handle \in 1..n /\ KeysFit(c)
    /\ c.step = "fill" => DOMAIN c.buffers # {} /\ DOMAIN c.buffers \subseteq KeySet(c.keys)
    /\ c.step = "next" => c.op \in Searching /\ c.todo = <<>>
    /\ c.step = "yield" => c.op = "search"
    /\ c.step = "raised" => c.op = "get_key"

Searches(n) == [owner : Threads \union {NoThread}, asked : Seq(1..n), rest : Seq(1..n)]

OddReads == (Handles \union {NoHandle}) \X BOOLEAN

TokenFits ==
    /\ issued \in 0..MaxObjects
    /\ objects \in [Handles -> Contents \union {Gone}]
    /\ \A h \in Handles : h > issued => objects[h] = Gone

OwnerSearches == \A t \in Threads : search.owner = t <=> call[t].op \in Searching

TypeInv ==
    /\ TokenFits
    /\ search \in Searches(issued)
    /\ held \subseteq PyObjects(issued)
    /\ calls \in 0..MaxCalls /\ odd \subseteq OddReads
    /\ DOMAIN call = Threads
    /\ \A t \in Threads : CallFits(call[t], issued)
    /\ OwnerSearches

(* What a thread's step does: its own call goes on as c.                   *)
StepOf(t, c) ==
    /\ call' = [call EXCEPT ![t] = c]
    /\ CallFits(c, issued')
    /\ held' \subseteq PyObjects(issued')
    /\ search' \in Searches(issued')
    /\ search'.owner = t <=> c.op \in Searching
    /\ \A u \in Threads \ {t} : search'.owner = u <=> search.owner = u

LEMMA Numbers ==
    /\ MaxObjects \in Nat /\ Handles = 1..MaxObjects
    /\ NoThread \notin Threads
    /\ TypeInv => issued \in Nat
BY ObjectsAssumption DEF Handles, TypeInv, TokenFits

LEMMA MoreHandles ==
    ASSUME NEW m \in Nat, NEW n \in Nat, m <= n
    PROVE  /\ 1..m \subseteq 1..n
           /\ \A s \in Seq(1..m) : s \in Seq(1..n)
           /\ PyObjects(m) \subseteq PyObjects(n)
           /\ Searches(m) \subseteq Searches(n)
           /\ \A c : CallHolds(c, m) => CallHolds(c, n)
           /\ \A c : CallFits(c, m) => CallFits(c, n)
<1>1. 1..m \subseteq 1..n
      OBVIOUS
<1>2. \A s \in Seq(1..m) : s \in Seq(1..n)
      BY <1>1
<1>3. PyObjects(m) \subseteq PyObjects(n)
      BY <1>1 DEF PyObjects
<1>4. \A s \in Seq(PyObjects(m)) : s \in Seq(PyObjects(n))
      BY <1>3
<1>5. Searches(m) \subseteq Searches(n)
      BY <1>2 DEF Searches
<1>6. ASSUME NEW c, CallHolds(c, m) PROVE CallHolds(c, n)
      BY <1>2, <1>4, <1>6 DEF CallHolds
<1>7. ASSUME NEW c, CallFits(c, m) PROVE CallFits(c, n)
      BY <1>1, <1>6, <1>7 DEF CallFits
<1> QED
    BY <1>1, <1>2, <1>3, <1>5, <1>6, <1>7

LEMMA StepKeepsTypes ==
    ASSUME TypeInv, NEW t \in Threads, NEW c, StepOf(t, c), TokenFits', issued <= issued',
           calls' \in 0..MaxCalls, odd' \subseteq OddReads
    PROVE  TypeInv'
<1>1. issued \in Nat /\ issued' \in Nat
      BY ObjectsAssumption DEF TypeInv, TokenFits
<1>2. DOMAIN call' = Threads /\ call'[t] = c /\ \A u \in Threads \ {t} : call'[u] = call[u]
      BY DEF StepOf, TypeInv
<1>3. \A u \in Threads : CallFits(call'[u], issued')
      BY <1>1, <1>2, MoreHandles DEF StepOf, TypeInv
<1>4. OwnerSearches'
      BY <1>2 DEF StepOf, TypeInv, OwnerSearches, Searching
<1> QED
    BY <1>2, <1>3, <1>4 DEF StepOf, TypeInv

LEMMA HeadTail ==
    ASSUME NEW S, NEW list \in Seq(S), list # <<>>
    PROVE  Head(list) \in S /\ Tail(list) \in Seq(S)
OBVIOUS

LEMMA HeadAndTail ==
    ASSUME NEW S, NEW list \in Seq(S), list # <<>>
    PROVE  {Head(list)} \union {Tail(list)[i] : i \in DOMAIN Tail(list)} = {list[i] : i \in DOMAIN list}
<1>1. /\ Head(list) = list[1] /\ Len(list) \in Nat /\ Len(list) > 0 /\ DOMAIN list = 1..Len(list)
      /\ DOMAIN Tail(list) = 1..(Len(list) - 1)
      /\ \A i \in 1..(Len(list) - 1) : Tail(list)[i] = list[i + 1]
      OBVIOUS
<1>2. \A i \in 1..(Len(list) - 1) : i + 1 \in 1..Len(list)
      BY <1>1
<1>3. ASSUME NEW i \in 1..Len(list) PROVE i = 1 \/ (i - 1 \in 1..(Len(list) - 1) /\ (i - 1) + 1 = i)
      BY <1>1
<1>4. ASSUME NEW i \in 1..Len(list)
      PROVE  list[i] \in {Head(list)} \union {Tail(list)[j] : j \in DOMAIN Tail(list)}
  <2>1. CASE i = 1
        BY <1>1, <2>1
  <2>2. CASE i - 1 \in 1..(Len(list) - 1) /\ (i - 1) + 1 = i
    <3>1. Tail(list)[i - 1] = list[i] /\ i - 1 \in DOMAIN Tail(list)
          BY <1>1, <2>2
    <3> QED
        BY <3>1
  <2> QED
      BY <1>3, <2>1, <2>2
<1> QED
    BY <1>1, <1>2, <1>4

LEMMA Parts ==
    ASSUME NEW S, NEW list \in Seq(S), NEW n \in Nat, n > 0, n <= Len(list)
    PROVE  /\ SubSeq(list, 1, n) \in Seq(S) /\ SubSeq(list, 1, n) # <<>>
           /\ SubSeq(list, n + 1, Len(list)) \in Seq(S)
           /\ Len(SubSeq(list, 1, n)) = n
           /\ \A i \in 1..n : SubSeq(list, 1, n)[i] = list[i]
           /\ Len(SubSeq(list, n + 1, Len(list))) = Len(list) - n
           /\ \A i \in 1..(Len(list) - n) : SubSeq(list, n + 1, Len(list))[i] = list[n + i]
<1>1. SubSeq(list, 1, n) \in Seq(S) /\ SubSeq(list, n + 1, Len(list)) \in Seq(S)
      OBVIOUS
<1>2. /\ Len(SubSeq(list, 1, n)) = n
      /\ \A i \in 1..n : SubSeq(list, 1, n)[i] = list[i]
      OBVIOUS
<1>3. /\ Len(SubSeq(list, n + 1, Len(list))) = Len(list) - n
      /\ \A i \in 1..(Len(list) - n) : SubSeq(list, n + 1, Len(list))[i] = list[n + i]
      OBVIOUS
<1>4. SubSeq(list, 1, n) # <<>>
      BY <1>2
<1> QED
    BY <1>1, <1>2, <1>3, <1>4

LEMMA MadeLists ==
    ASSUME NEW made \in Made, Len(made) \in {1, 2}
    PROVE  made \in Seq(Contents) /\ made # <<>>
<1>1. made \in Seq(Contents)
      BY ObjectsAssumption
<1>2. made # <<>>
      BY <1>1
<1> QED
    BY <1>1, <1>2

LEMMA NoCallFits == \A n : CallFits(NoCall, n) /\ NoCall.op = "none"
BY DEF NoCall, CallFits, CallHolds, Fields, Ops, Steps, Reads, Searching

LEMMA ReadingFits ==
    ASSUME NEW n \in Nat, NEW c, CallHolds(c, n), NEW h \in 1..n, NEW keys \in Seq(Attributes),
           c.op \in {"get", "params"}, c.single = FALSE
    PROVE  /\ CallFits(Reading(c, h, keys), n)
           /\ Reading(c, h, keys).op = c.op
           /\ Reading(c, h, keys).step = "query"
<1> DEFINE d == Reading(c, h, keys)
<1>1. /\ DOMAIN d = Fields /\ d.op = c.op /\ d.step = "query" /\ d.handle = h /\ d.keys = keys
      /\ d.left = c.left /\ d.todo = c.todo /\ d.out = c.out /\ d.single = FALSE
      BY DEF Reading, CallFits, CallHolds, Fields
<1> HIDE DEF d
<1>2. CallFits(d, n)
      BY <1>1 DEF CallFits, CallHolds, KeysFit, Steps, Reads
<1> QED
    BY <1>1, <1>2 DEF d

LEMMA MakingFits ==
    ASSUME NEW n \in Nat, NEW c, CallHolds(c, n), c.todo # <<>>, c.op # "none"
    PROVE  /\ CallFits(Making(c), n)
           /\ Making(c).op = c.op /\ Making(c).step = "query" /\ Making(c).out = c.out
           /\ Making(c).handle = Head(c.todo) /\ Making(c).todo = Tail(c.todo)
           /\ Making(c).single = FALSE
<1> DEFINE d == Making(c)
<1>1. /\ DOMAIN d = Fields /\ d.op = c.op /\ d.step = "query" /\ d.handle = Head(c.todo)
      /\ d.keys = ObjectKeys /\ d.left = <<>> /\ d.todo = Tail(c.todo) /\ d.out = c.out
      /\ d.single = FALSE
      BY DEF Making, Reading, CallFits, CallHolds, Fields
<1>2. Head(c.todo) \in 1..n /\ Tail(c.todo) \in Seq(1..n) /\ <<>> \in Seq(KeySet(ObjectKeys))
  <2>1. c.todo \in Seq(1..n)
        BY DEF CallFits, CallHolds
  <2>2. Head(c.todo) \in 1..n /\ Tail(c.todo) \in Seq(1..n)
        BY <2>1, HeadTail
  <2> QED
      BY <2>2
<1> HIDE DEF d
<1>3. CallFits(d, n)
      BY <1>1, <1>2, ObjectsAssumption DEF CallFits, CallHolds, KeysFit, Steps, Reads
<1> QED
    BY <1>1, <1>3 DEF d

LEMMA KeysListed == ObjectKeys \in Seq(KeySet(ObjectKeys)) /\ ObjectKeys # <<>>
<1>1. ObjectKeys \in Seq(Attributes) /\ ObjectKeys # <<>>
      BY ObjectsAssumption
<1> QED
    BY <1>1 DEF KeySet

LEMMA SingleKey == \A k : KeySet(<<k>>) = {k}
BY DEF KeySet

LEMMA OneByOneParts ==
    \A c, left, read : DOMAIN c = Fields =>
        /\ DOMAIN OneByOne(c, left, read) = Fields
        /\ OneByOne(c, left, read).op = c.op /\ OneByOne(c, left, read).step = "query"
        /\ OneByOne(c, left, read).handle = c.handle /\ OneByOne(c, left, read).out = c.out
        /\ OneByOne(c, left, read).todo = c.todo /\ OneByOne(c, left, read).read = read
        /\ OneByOne(c, left, read).single = TRUE
BY DEF OneByOne, Reading, Fields

LEMMA OneByOneFits ==
    ASSUME NEW n \in Nat, NEW c, CallFits(c, n), c.step \in Reads, NEW read,
           NEW left \in Seq(KeySet(ObjectKeys)), left # <<>>, c.op \notin {"get", "params"}
    PROVE  CallFits(OneByOne(c, left, read), n)
<1> DEFINE d == OneByOne(c, left, read)
<1>0. DOMAIN c = Fields
      BY DEF CallFits, CallHolds
<1>1. /\ DOMAIN d = Fields /\ d.op = c.op /\ d.step = "query" /\ d.handle = c.handle
      /\ d.keys = <<Head(left)>> /\ d.left = Tail(left) /\ d.todo = c.todo /\ d.out = c.out
      /\ d.single = TRUE
      BY <1>0 DEF OneByOne, Reading, Fields
<1>2. Head(left) \in KeySet(ObjectKeys) /\ Tail(left) \in Seq(KeySet(ObjectKeys))
      BY HeadTail
<1> HIDE DEF d
<1>3. <<Head(left)>> \in Seq(Attributes)
      BY <1>2 DEF Attributes
<1>4. KeysFit(d)
      BY <1>1, <1>2, <1>3 DEF KeysFit
<1>5. CallFits(d, n)
      BY <1>1, <1>2, <1>4 DEF CallFits, CallHolds, Steps, Reads
<1> QED
    BY <1>5 DEF d

LEMMA NewObjectFits ==
    ASSUME NEW n \in Nat, NEW h \in 1..n, NEW attributes, NEW single \in BOOLEAN
    PROVE  NewObject(h, attributes, single) \in PyObjects(n)
<1>1. ClassOf(attributes) \in Classes \union {Plain}
      BY DEF ClassOf
<1>2. (IF ClassOf(attributes) = Plain THEN {} ELSE {f \in Flags : IsTrue(attributes, single, f)})
        \in SUBSET Flags
      OBVIOUS
<1> QED
    BY <1>1, <1>2 DEF NewObject, PyObjects

-----------------------------------------------------------------------------
(* The parts of steps.                                                     *)

LEMMA RaiseFits ==
    ASSUME TypeInv, NEW t \in Threads, Raise(t), issued' = issued
    PROVE  \E d : StepOf(t, d)
<1>1. NoSearch \in Searches(issued) /\ NoSearch.owner = NoThread
      BY DEF NoSearch, Searches
<1>2. search' \in Searches(issued)
      BY <1>1 DEF Raise, TypeInv
<1>3. /\ search'.owner # t
      /\ \A u \in Threads \ {t} : search'.owner = u <=> search.owner = u
      BY <1>1, Numbers DEF Raise
<1>4. NoCall.op \notin Searching
      BY NoCallFits DEF Searching
<1>5. StepOf(t, NoCall)
      BY <1>2, <1>3, <1>4, NoCallFits DEF StepOf, Raise, Ends, TypeInv
<1> QED
    BY <1>5

LEMMA ReceiveFits ==
    ASSUME TypeInv, NEW t \in Threads, call[t].step \in Reads,
           NEW obj \in PyObjects(issued), Receive(t, call[t], obj), issued' = issued
    PROVE  \E d : StepOf(t, d)
<1> DEFINE c == call[t]
           out == Append(c.out, obj)
<1>1. issued \in Nat /\ CallFits(c, issued) /\ CallHolds(c, issued) /\ c.op # "none"
      BY Numbers DEF TypeInv, CallFits
<1>2. out \in Seq(PyObjects(issued)) /\ {out[i] : i \in DOMAIN out} \subseteq PyObjects(issued)
  <2>1. c.out \in Seq(PyObjects(issued))
        BY <1>1 DEF CallHolds
  <2> QED
      BY <2>1
<1>3. search.owner = t <=> c.op \in Searching
      BY DEF TypeInv, OwnerSearches, Searching
<1>4. search \in Searches(issued) /\ held \subseteq PyObjects(issued)
      BY DEF TypeInv
<1> HIDE DEF out, c
<1>5. ASSUME NEW d, call' = [call EXCEPT ![t] = d], CallFits(d, issued),
             d.op \in Searching <=> c.op \in Searching,
             held' \subseteq PyObjects(issued), UNCHANGED search
      PROVE  \E e : StepOf(t, e)
      BY <1>3, <1>4, <1>5 DEF StepOf
<1>6. ASSUME NEW step, NEW op \in Ops
      PROVE  LET d == [c EXCEPT !.op = op, !.step = step, !.out = out]
             IN  /\ DOMAIN d = Fields /\ d.op = op /\ d.step = step /\ d.out = out
                 /\ d.todo = c.todo /\ d.left = c.left /\ d.handle = c.handle
      BY <1>1 DEF CallFits, CallHolds, Fields
<1>7. LET d == [c EXCEPT !.out = out] IN CallHolds(d, issued) /\ d.op = c.op /\ d.todo = c.todo
  <2> DEFINE d == [c EXCEPT !.out = out]
  <2>1. /\ DOMAIN d = Fields /\ d.op = c.op /\ d.step = c.step /\ d.out = out /\ d.todo = c.todo
        /\ d.left = c.left /\ d.handle = c.handle /\ d.keys = c.keys /\ d.buffers = c.buffers
        BY <1>1 DEF CallFits, CallHolds, Fields
  <2> HIDE DEF d
  <2>2. CallHolds(d, issued)
        BY <1>1, <1>2, <2>1 DEF CallHolds
  <2> QED
      BY <2>1, <2>2 DEF d
<1>8. CASE c.op = "create" /\ c.todo # <<>> /\ held' = held /\ search' = search
           /\ call' = [call EXCEPT ![t] = Making([c EXCEPT !.out = out])]
      BY <1>1, <1>4, <1>5, <1>7, <1>8, MakingFits DEF Searching
<1>9. CASE c.op = "create" /\ held' = held \union {out[i] : i \in DOMAIN out} /\ search' = search
           /\ call' = [call EXCEPT ![t] = NoCall]
      BY <1>2, <1>4, <1>5, <1>9, NoCallFits DEF Searching
<1>10. CASE c.op = "dsa" /\ held' = held /\ search' = search
            /\ call' = [call EXCEPT ![t] = Reading([c EXCEPT !.op = "params", !.single = FALSE],
                                                   c.handle, ParamKeys)]
  <2> DEFINE d == [c EXCEPT !.op = "params", !.single = FALSE]
  <2>1. /\ DOMAIN d = Fields /\ d.op = "params" /\ d.step = c.step /\ d.out = c.out
        /\ d.todo = c.todo /\ d.left = c.left /\ d.handle = c.handle /\ d.keys = c.keys
        /\ d.buffers = c.buffers /\ d.single = FALSE
        BY <1>1 DEF CallFits, CallHolds, Fields
  <2>2. c.handle \in 1..issued /\ c.step \in Reads
        BY <1>1 DEF CallFits, CallHolds, c
  <2> HIDE DEF d
  <2>3. CallHolds(d, issued)
        BY <1>1, <2>1, <2>2 DEF CallHolds, Ops
  <2>4. /\ CallFits(Reading(d, c.handle, ParamKeys), issued)
        /\ Reading(d, c.handle, ParamKeys).op = "params"
        BY <1>1, <2>1, <2>2, <2>3, ReadingFits, ObjectsAssumption
  <2> QED
      BY <1>4, <1>5, <1>10, <2>4 DEF d, Searching
<1>11. CASE c.op = "search" /\ held' = held \union {obj} /\ search' = search
            /\ call' = [call EXCEPT ![t] = [c EXCEPT !.step = "yield", !.out = out]]
  <2> DEFINE d == [c EXCEPT !.step = "yield", !.out = out]
  <2>1. /\ DOMAIN d = Fields /\ d.op = c.op /\ d.step = "yield" /\ d.out = out
        /\ d.todo = c.todo /\ d.left = c.left
        BY <1>1 DEF CallFits, CallHolds, Fields
  <2> HIDE DEF d
  <2>2. CallFits(d, issued)
        BY <1>1, <1>2, <1>11, <2>1 DEF CallFits, CallHolds, Steps, Reads
  <2> QED
      BY <1>4, <1>5, <1>11, <2>1, <2>2 DEF d
<1>12. CASE c.op = "get_key" /\ c.todo # <<>> /\ held' = held /\ search' = search
            /\ call' = [call EXCEPT ![t] = Making([c EXCEPT !.out = out])]
      BY <1>1, <1>4, <1>5, <1>7, <1>12, MakingFits
<1>13. CASE c.op = "get_key" /\ c.todo = <<>> /\ held' = held /\ search' = search
            /\ call' = [call EXCEPT ![t] = [c EXCEPT !.step = "next", !.out = out]]
  <2> DEFINE d == [c EXCEPT !.step = "next", !.out = out]
  <2>1. /\ DOMAIN d = Fields /\ d.op = c.op /\ d.step = "next" /\ d.out = out
        /\ d.todo = c.todo /\ d.left = c.left
        BY <1>1 DEF CallFits, CallHolds, Fields
  <2> HIDE DEF d
  <2>2. CallFits(d, issued)
        BY <1>1, <1>2, <1>13, <2>1 DEF CallFits, CallHolds, Steps, Reads, Searching
  <2> QED
      BY <1>4, <1>5, <1>13, <2>1, <2>2 DEF d
<1>14. CASE c.op = "get_key" /\ held' = held /\ search' = search
            /\ call' = [call EXCEPT ![t] = [c EXCEPT !.step = "raised", !.out = out]]
  <2> DEFINE d == [c EXCEPT !.step = "raised", !.out = out]
  <2>1. /\ DOMAIN d = Fields /\ d.op = c.op /\ d.step = "raised" /\ d.out = out
        /\ d.todo = c.todo /\ d.left = c.left
        BY <1>1 DEF CallFits, CallHolds, Fields
  <2> HIDE DEF d
  <2>2. CallFits(d, issued)
        BY <1>1, <1>2, <1>14, <2>1 DEF CallFits, CallHolds, Steps, Reads
  <2> QED
      BY <1>4, <1>5, <1>14, <2>1, <2>2 DEF d
<1>15. CASE Raise(t)
      BY <1>15, RaiseFits
<1> QED
    BY <1>8, <1>9, <1>10, <1>11, <1>12, <1>13, <1>14, <1>15 DEF Receive, Goes, Ends, c, out

LEMMA CreateFits ==
    ASSUME TypeInv, NEW t \in Threads, NEW c, CallHolds(c, issued), c.op \in {"create", "dsa", "params"},
           NEW made \in Seq(Contents), made # <<>>, Create(t, c, made), UNCHANGED <<held, search>>,
           call[t].op \notin Searching
    PROVE  TokenFits' /\ issued <= issued' /\ \E d : StepOf(t, d)
<1> DEFINE n == issued + Len(made)
           new == [i \in DOMAIN made |-> issued + i]
           b == [c EXCEPT !.op = IF @ = "dsa" THEN "dsa" ELSE "create", !.todo = new, !.out = <<>>]
<1>1. issued \in Nat /\ Len(made) \in Nat /\ Len(made) > 0 /\ DOMAIN made = 1..Len(made)
      BY Numbers
<1>2. n \in Nat /\ issued <= n /\ issued' = n /\ n <= MaxObjects
      BY <1>1 DEF Create
<1>3. new \in Seq(1..n) /\ new # <<>>
  <2>1. \A i \in 1..Len(made) : issued + i \in 1..n
        BY <1>1
  <2> QED
      BY <1>1, <2>1
<1>4. {new[i] : i \in DOMAIN new} = (issued + 1)..n
  <2>1. DOMAIN new = 1..Len(made) /\ \A i \in 1..Len(made) : new[i] = issued + i
        BY <1>1
  <2>2. ASSUME NEW h \in (issued + 1)..n PROVE h - issued \in 1..Len(made) /\ h = new[h - issued]
        BY <1>1, <2>1
  <2>3. \A i \in 1..Len(made) : new[i] \in (issued + 1)..n
        BY <1>1, <2>1
  <2> HIDE DEF new, n
  <2> QED
      BY <2>1, <2>2, <2>3
<1> HIDE DEF new
<1>5. TokenFits'
  <2>1. objects' = [h \in Handles |-> IF h \in (issued + 1)..n THEN made[h - issued] ELSE objects[h]]
        BY <1>4 DEF Create, new
  <2>2. \A h \in (issued + 1)..n : made[h - issued] \in Contents
        BY <1>1
  <2>3. objects' \in [Handles -> Contents \union {Gone}]
        BY <2>1, <2>2 DEF TypeInv, TokenFits
  <2>4. ASSUME NEW h \in Handles, h > n PROVE objects'[h] = Gone
        BY <1>1, <2>1, <2>4 DEF TypeInv, TokenFits, Handles
  <2> QED
      BY <1>2, <2>3, <2>4, Numbers DEF TokenFits
<1>6. /\ DOMAIN b = Fields /\ b.op \in {"dsa", "create"} /\ b.todo = new /\ b.out = <<>>
      /\ b.left = c.left
      BY DEF CallHolds, Fields
<1>7. c.left \in Seq(KeySet(ObjectKeys))
      BY DEF CallHolds
<1>8. call' = [call EXCEPT ![t] = Making(b)]
      BY DEF Create, Goes, new
<1> HIDE DEF b, n
<1>9. <<>> \in Seq(PyObjects(n))
      OBVIOUS
<1>12. CallHolds(b, n)
      BY <1>3, <1>6, <1>7, <1>9 DEF CallHolds, Ops
<1>13. CallFits(Making(b), n) /\ Making(b).op \notin Searching
      BY <1>2, <1>3, <1>6, <1>12, MakingFits DEF Searching
<1>14. search \in Searches(n) /\ held \subseteq PyObjects(n) /\ search.owner # t
      BY <1>1, <1>2, MoreHandles DEF TypeInv, OwnerSearches, Searching
<1>15. StepOf(t, Making(b))
      BY <1>2, <1>8, <1>13, <1>14 DEF StepOf
<1> QED
    BY <1>2, <1>5, <1>15

LEMMA EndFits ==
    ASSUME TypeInv, NEW t \in Threads, NEW answer, Ends(t, call[t], answer),
           UNCHANGED <<held, search, issued>>, call[t].op \notin Searching
    PROVE  \E d : StepOf(t, d)
<1>1. StepOf(t, NoCall)
      BY NoCallFits DEF StepOf, Ends, TypeInv, OwnerSearches, Searching
<1> QED
    BY <1>1

LEMMA GoOnFits ==
    ASSUME TypeInv, NEW t \in Threads, NEW d, Goes(t, d), CallFits(d, issued),
           UNCHANGED <<held, search, issued>>, d.op \in Searching <=> call[t].op \in Searching
    PROVE  StepOf(t, d)
BY DEF StepOf, Goes, TypeInv, OwnerSearches, Searching

LEMMA SameToken == TypeInv /\ UNCHANGED token => TokenFits' /\ issued <= issued'
BY Numbers DEF TypeInv, TokenFits, token

LEMMA ReadFits ==
    ASSUME TypeInv, NEW t \in Threads, call[t].step \in Reads, NEW bytes, Read(t, bytes)
    PROVE  TokenFits' /\ issued <= issued' /\ \E d : StepOf(t, d)
<1> DEFINE c == call[t]
           attributes == AsDict(bytes)
           all == Merge(c.read, attributes)
<1>1. /\ issued \in Nat /\ CallFits(c, issued) /\ CallHolds(c, issued)
      /\ c.handle \in 1..issued /\ c.left \in Seq(KeySet(ObjectKeys))
      BY Numbers DEF TypeInv, CallFits, CallHolds
<1> HIDE DEF attributes, all
<1>2. CASE Raise(t) /\ UNCHANGED token
      BY <1>2, SameToken, RaiseFits DEF token
<1>3. ASSUME c.op \in {"get", "params"}, NEW answer, Ends(t, c, answer),
             UNCHANGED <<held, search, token>>
      PROVE  TokenFits' /\ issued <= issued' /\ \E d : StepOf(t, d)
      BY <1>3, SameToken, EndFits DEF token, Searching
<1>4. ASSUME c.op = "params", NEW made \in Made, Len(made) = 2, Create(t, c, made),
             UNCHANGED <<held, search>>
      PROVE  TokenFits' /\ issued <= issued' /\ \E d : StepOf(t, d)
  <2>1. made \in Seq(Contents) /\ made # <<>>
        BY <1>4, MadeLists
  <2> QED
      BY <1>1, <1>4, <2>1, CreateFits DEF Searching
<1>5. ASSUME NEW single \in BOOLEAN, NEW read, Receive(t, c, NewObject(c.handle, read, single)),
             UNCHANGED token
      PROVE  TokenFits' /\ issued <= issued' /\ \E d : StepOf(t, d)
  <2>1. NewObject(c.handle, read, single) \in PyObjects(issued)
        BY <1>1, NewObjectFits
  <2> QED
      BY <1>5, <2>1, SameToken, ReceiveFits DEF token
<1>6. ASSUME c.op \notin {"get", "params"}, c.left # <<>>, Goes(t, OneByOne(c, c.left, all)),
             UNCHANGED <<held, search, token>>
      PROVE  TokenFits' /\ issued <= issued' /\ \E d : StepOf(t, d)
  <2>0. c.step \in Reads /\ DOMAIN c = Fields
        BY <1>1 DEF CallHolds
  <2> HIDE DEF c
  <2>1. CallFits(OneByOne(c, c.left, all), issued) /\ OneByOne(c, c.left, all).op = c.op
        BY <1>1, <1>6, <2>0, OneByOneFits, OneByOneParts
  <2> QED
      BY <1>6, <2>1, SameToken, GoOnFits DEF token, c
<1> QED
    BY <1>2, <1>3, <1>4, <1>5, <1>6 DEF Read, attributes, all

LEMMA UnreadFits ==
    ASSUME TypeInv, NEW t \in Threads, call[t].step \in Reads, NEW rv, Unread(t, rv)
    PROVE  TokenFits' /\ issued <= issued' /\ \E d : StepOf(t, d)
<1> DEFINE c == call[t]
<1>1. CASE /\ c.op \notin {"get", "params"}
           /\ Goes(t, OneByOne(c, ObjectKeys, <<>>)) /\ UNCHANGED <<held, search, token>>
  <2>1. issued \in Nat /\ CallFits(c, issued) /\ DOMAIN c = Fields
        BY Numbers DEF TypeInv, CallFits, CallHolds
  <2>2. ObjectKeys \in Seq(KeySet(ObjectKeys)) /\ ObjectKeys # <<>> /\ c.step \in Reads
        BY KeysListed
  <2> HIDE DEF c
  <2>3. CallFits(OneByOne(c, ObjectKeys, <<>>), issued) /\ OneByOne(c, ObjectKeys, <<>>).op = c.op
        BY <1>1, <2>1, <2>2, OneByOneFits, OneByOneParts DEF c
  <2> QED
      BY <1>1, <2>3, SameToken, GoOnFits DEF token, c
<1>2. CASE Read(t, <<>>)
      BY <1>2, ReadFits
<1>3. CASE Raise(t) /\ UNCHANGED token
      BY <1>3, SameToken, RaiseFits DEF token
<1> QED
    BY <1>1, <1>2, <1>3 DEF Unread

-----------------------------------------------------------------------------
(* Steps.                                                                  *)

LEMMA BeginHolds ==
    ASSUME NEW op \in Ops, NEW n \in Nat
    PROVE  /\ CallHolds([NoCall EXCEPT !.op = op], n)
           /\ [NoCall EXCEPT !.op = op].op = op /\ [NoCall EXCEPT !.op = op].single = FALSE
BY DEF NoCall, CallHolds, Fields

LEMMA Idle ==
    ASSUME TypeInv, NEW t \in Threads, call[t].step = "idle"
    PROVE  call[t].op \notin Searching
BY DEF TypeInv, CallFits, Searching

LEMMA BeginReadingFits ==
    ASSUME TypeInv, NEW t \in Threads, call[t].step = "idle", NEW h \in 1..issued,
           NEW keys \in Seq(Attributes), NEW op \in {"get", "params"},
           Goes(t, Reading([NoCall EXCEPT !.op = op], h, keys)), UNCHANGED <<held, search, issued>>
    PROVE  \E d : StepOf(t, d)
<1> DEFINE c == [NoCall EXCEPT !.op = op]
<1>1. issued \in Nat /\ call[t].op \notin Searching
      BY Numbers, Idle
<1>2. op \in Ops /\ op # "none" /\ op \notin Searching
      BY DEF Ops, Searching
<1>3. CallHolds(c, issued) /\ c.op = op /\ c.single = FALSE
      BY <1>1, <1>2, BeginHolds
<1> HIDE DEF c
<1>4. CallFits(Reading(c, h, keys), issued) /\ Reading(c, h, keys).op = op
      BY <1>1, <1>2, <1>3, ReadingFits
<1> QED
    BY <1>1, <1>2, <1>4, GoOnFits DEF c

LEMMA BeginCreateFits ==
    ASSUME TypeInv, NEW t \in Threads, call[t].step = "idle", NEW made \in Seq(Contents),
           made # <<>>, NEW op \in {"create", "dsa"}, Create(t, [NoCall EXCEPT !.op = op], made),
           UNCHANGED <<held, search>>
    PROVE  TokenFits' /\ issued <= issued' /\ \E d : StepOf(t, d)
<1>1. issued \in Nat /\ op \in Ops
      BY Numbers DEF Ops
<1>2. CallHolds([NoCall EXCEPT !.op = op], issued) /\ [NoCall EXCEPT !.op = op].op = op
      BY <1>1, BeginHolds
<1> QED
    BY <1>2, Idle, CreateFits

LEMMA BuffersAsked ==
    ASSUME NEW object, NEW keys,
           NEW answer \in {SizeAnswer(object, keys)} \union OddSizeAnswers(object, keys)
    PROVE  /\ DOMAIN answer.sizes = DOMAIN keys
           /\ DOMAIN Buffers(keys, answer) = {keys[i] : i \in Retrievable(answer)}
           /\ DOMAIN Buffers(keys, answer) \subseteq KeySet(keys)
<1>1. DOMAIN answer.sizes = DOMAIN keys
      BY DEF SizeAnswer, OddSizeAnswers, Sizes, Unsized
<1> QED
    BY <1>1 DEF Buffers, Retrievable, Scanned, KeySet

LEMMA QuerySizesFits ==
    ASSUME TypeInv, NEW t \in Threads, QuerySizes(t)
    PROVE  TokenFits' /\ issued <= issued' /\ \E d : StepOf(t, d)
<1> DEFINE c == call[t]
           object == objects[c.handle]
<1>1. c.step \in Reads /\ c.step = "query"
      BY DEF QuerySizes, Reads
<1>2. ASSUME NEW buffers, DOMAIN buffers # {}, DOMAIN buffers \subseteq KeySet(c.keys),
             Goes(t, [c EXCEPT !.step = "fill", !.buffers = buffers]), UNCHANGED <<held, search, token>>
      PROVE  TokenFits' /\ issued <= issued' /\ \E d : StepOf(t, d)
  <2> DEFINE d == [c EXCEPT !.step = "fill", !.buffers = buffers]
  <2>1. CallFits(c, issued) /\ CallHolds(c, issued) /\ c.step = "query"
        BY <1>1 DEF TypeInv, CallFits
  <2>2. /\ DOMAIN d = Fields /\ d.op = c.op /\ d.step = "fill" /\ d.buffers = buffers
        /\ d.todo = c.todo /\ d.left = c.left /\ d.out = c.out /\ d.handle = c.handle
        /\ d.keys = c.keys /\ d.single = c.single
        BY <2>1 DEF CallHolds, Fields
  <2> HIDE DEF d
  <2>3. CallFits(d, issued)
        BY <1>2, <2>1, <2>2 DEF CallFits, CallHolds, KeysFit, Steps, Reads
  <2> QED
      BY <1>2, <2>2, <2>3, SameToken, GoOnFits DEF token, d
<1>3. ASSUME NEW rv, Unread(t, rv) PROVE TokenFits' /\ issued <= issued' /\ \E d : StepOf(t, d)
      BY <1>1, <1>3, UnreadFits
<1>4. PICK answer \in {SizeAnswer(object, c.keys)} \union OddSizeAnswers(object, c.keys) :
         \/ /\ DOMAIN Buffers(c.keys, answer) # {}
            /\ Goes(t, [c EXCEPT !.step = "fill", !.buffers = Buffers(c.keys, answer)])
            /\ UNCHANGED <<held, search, token>>
         \/ Unread(t, QueryStatus(answer))
      BY DEF QuerySizes
<1>5. DOMAIN Buffers(c.keys, answer) \subseteq KeySet(c.keys)
      BY BuffersAsked
<1> QED
    BY <1>2, <1>3, <1>4, <1>5

LEMMA FillValuesFits ==
    ASSUME TypeInv, NEW t \in Threads, FillValues(t)
    PROVE  TokenFits' /\ issued <= issued' /\ \E d : StepOf(t, d)
<1>1. call[t].step \in Reads
      BY DEF FillValues, Reads
<1>2. ASSUME NEW bytes, Read(t, bytes) PROVE TokenFits' /\ issued <= issued' /\ \E d : StepOf(t, d)
      BY <1>1, <1>2, ReadFits
<1>3. ASSUME NEW rv, Unread(t, rv) PROVE TokenFits' /\ issued <= issued' /\ \E d : StepOf(t, d)
      BY <1>1, <1>3, UnreadFits
<1> QED
    BY <1>2, <1>3 DEF FillValues

LEMMA ObjectsHeld ==
    ASSUME TypeInv, NEW o \in held
    PROVE  o.handle \in 1..issued /\ o.handle \in Handles /\ o.handle <= issued
BY Numbers DEF TypeInv, TokenFits, PyObjects

LEMMA CreatesFit ==
    ASSUME TypeInv, NEW t \in Threads, 
           CreateObject(t) \/ GeneratePair(t) \/ GenerateDSA(t) \/ CopyObject(t) \/ MakeWithKey(t)
    PROVE  TokenFits' /\ issued <= issued' /\ \E d : StepOf(t, d)
<1>1. call[t].step = "idle" /\ UNCHANGED <<held, search>>
      BY DEF CreateObject, GeneratePair, GenerateDSA, CopyObject, MakeWithKey, Begin
<1>2. ASSUME NEW made \in Seq(Contents), made # <<>>, NEW op \in {"create", "dsa"},
             Create(t, [NoCall EXCEPT !.op = op], made)
      PROVE  TokenFits' /\ issued <= issued' /\ \E d : StepOf(t, d)
      BY <1>1, <1>2, BeginCreateFits
<1>3. CASE CreateObject(t) \/ GeneratePair(t) \/ MakeWithKey(t)
  <2>1. PICK made \in Made : Len(made) \in {1, 2} /\ Create(t, [NoCall EXCEPT !.op = "create"], made)
        BY <1>3 DEF CreateObject, GeneratePair, MakeWithKey
  <2>2. made \in Seq(Contents) /\ made # <<>>
        BY <2>1, MadeLists
  <2> QED
      BY <1>2, <2>1, <2>2
<1>4. ASSUME NEW x \in Contents PROVE <<x>> \in Seq(Contents) /\ <<x>> # <<>>
      OBVIOUS
<1>5. CASE GenerateDSA(t)
  <2>1. Create(t, [NoCall EXCEPT !.op = "dsa"], <<Params>>) /\ Params \in Contents
        BY <1>5, ObjectsAssumption DEF GenerateDSA
  <2> QED
      BY <1>2, <1>4, <2>1
<1>6. CASE CopyObject(t)
  <2>1. PICK o \in held : /\ objects[o.handle] # Gone
                          /\ Create(t, [NoCall EXCEPT !.op = "create"], <<objects[o.handle]>>)
        BY <1>6 DEF CopyObject
  <2>2. objects[o.handle] \in Contents
        BY <2>1, ObjectsHeld DEF TypeInv, TokenFits
  <2> QED
      BY <1>2, <1>4, <2>1, <2>2
<1> QED
    BY <1>3, <1>5, <1>6

LEMMA FoundFits ==
    ASSUME TypeInv, NEW template, NEW list \in Listings(Found(template))
    PROVE  list \in Seq(1..issued)
<1>1. issued \in Nat /\ Found(template) \subseteq 1..issued
      BY Numbers DEF Found
<1>2. IsFiniteSet(1..issued)
      BY <1>1, FS_Interval
<1>3. Cardinality(Found(template)) \in Nat
      BY <1>1, <1>2, FS_Subset, FS_CardinalityType
<1>4. list \in [1..Cardinality(Found(template)) -> Found(template)]
      BY DEF Listings
<1>5. list \in Seq(Found(template))
      BY <1>3, <1>4
<1> QED
    BY <1>1, <1>5

LEMMA SearchFits ==
    ASSUME TypeInv, NEW t \in Threads, Search(t)
    PROVE  \E d : StepOf(t, d)
<1>1. PICK template, op, list :
               /\ op \in {"search", "get_key"} /\ list \in Listings(Found(template))
               /\ search' = [owner |-> t, asked |-> list, rest |-> list]
               /\ Goes(t, [NoCall EXCEPT !.op = op, !.step = "next"])
      BY DEF Search
<1>2. list \in Seq(1..issued)
      BY <1>1, FoundFits
<1>3. search' \in Searches(issued) /\ search'.owner = t
      BY <1>1, <1>2 DEF Searches
<1>4. UNCHANGED <<held, issued>> /\ search.owner = NoThread
      BY DEF Search, token, NoSearch
<1> DEFINE d == [NoCall EXCEPT !.op = op, !.step = "next"]
<1>5. /\ DOMAIN d = Fields /\ d.op = op /\ d.step = "next" /\ d.todo = <<>> /\ d.out = <<>>
      /\ d.left = <<>>
      BY DEF NoCall, Fields
<1> HIDE DEF d
<1>6. CallHolds(d, issued)
      BY <1>1, <1>5 DEF CallHolds, Ops
<1>7. CallFits(d, issued)
      BY <1>1, <1>5, <1>6 DEF CallFits, Steps, Reads, Searching
<1>8. StepOf(t, d)
      BY <1>1, <1>3, <1>4, <1>5, <1>7, Numbers DEF StepOf, Goes, TypeInv, Searching, d
<1> QED
    BY <1>8

LEMMA FindObjectsFits ==
    ASSUME TypeInv, NEW t \in Threads, FindObjects(t)
    PROVE  \E d : StepOf(t, d)
<1> DEFINE c == call[t]
<1>1. PICK n \in 1..Batch :
         /\ n <= Len(search.rest)
         /\ search' = [search EXCEPT !.rest = SubSeq(@, n + 1, Len(@))]
         /\ Goes(t, Making([c EXCEPT !.todo = BatchOf(n)]))
      BY DEF FindObjects
<1>2. /\ issued \in Nat /\ CallHolds(c, issued) /\ c.op \in Searching /\ search.owner = t
      /\ search \in Searches(issued)
      BY Numbers DEF FindObjects, TypeInv, CallFits, OwnerSearches, Searching
<1>3. n \in Nat /\ n > 0 /\ search.rest \in Seq(1..issued)
      BY <1>2, ObjectsAssumption DEF Searches
<1>4. /\ BatchOf(n) \in Seq(1..issued) /\ BatchOf(n) # <<>>
      /\ SubSeq(search.rest, n + 1, Len(search.rest)) \in Seq(1..issued)
      BY <1>1, <1>3, Parts DEF BatchOf
<1>5. search' \in Searches(issued) /\ search'.owner = t
      BY <1>1, <1>2, <1>4 DEF Searches
<1> DEFINE b == [c EXCEPT !.todo = BatchOf(n)]
<1>6. /\ DOMAIN b = Fields /\ b.op = c.op /\ b.todo = BatchOf(n) /\ b.out = c.out
      /\ b.left = c.left
      BY <1>2 DEF CallHolds, Fields
<1> HIDE DEF b
<1>7. CallHolds(b, issued) /\ b.op # "none"
      BY <1>2, <1>4, <1>6 DEF CallHolds, Searching
<1>8. CallFits(Making(b), issued) /\ Making(b).op = c.op
      BY <1>2, <1>4, <1>6, <1>7, MakingFits
<1>9. UNCHANGED <<held, issued>>
      BY DEF FindObjects, token
<1>10. StepOf(t, Making(b))
      BY <1>1, <1>2, <1>5, <1>8, <1>9 DEF StepOf, Goes, TypeInv, b
<1> QED
    BY <1>10

LEMMA SearchEndsFits ==
    ASSUME TypeInv, NEW t \in Threads, SearchEnds(t) \/ DropSearch(t)
    PROVE  \E d : StepOf(t, d)
<1>1. /\ issued \in Nat /\ CallHolds(call[t], issued) /\ search.owner = t
      BY Numbers DEF SearchEnds, DropSearch, TypeInv, CallFits, OwnerSearches, Searching
<1>2. held' \subseteq PyObjects(issued)
  <2>1. {call[t].out[i] : i \in DOMAIN call[t].out} \subseteq PyObjects(issued)
        BY <1>1 DEF CallHolds
  <2> QED
      BY <2>1 DEF SearchEnds, DropSearch, TypeInv
<1>3. search' = NoSearch /\ issued' = issued /\ call' = [call EXCEPT ![t] = NoCall]
      BY DEF SearchEnds, DropSearch, token, Ends
<1>4. NoSearch \in Searches(issued) /\ NoSearch.owner = NoThread
      BY DEF NoSearch, Searches
<1>5. StepOf(t, NoCall)
      BY <1>1, <1>2, <1>3, <1>4, NoCallFits, Numbers DEF StepOf, Searching
<1> QED
    BY <1>5

LEMMA NextObjectFits ==
    ASSUME TypeInv, NEW t \in Threads, NextObject(t)
    PROVE  \E d : StepOf(t, d)
<1> DEFINE c == call[t]
           d == [c EXCEPT !.step = "next"]
<1>1. /\ issued \in Nat /\ CallHolds(c, issued) /\ c.op = "search"
      /\ UNCHANGED <<held, search, issued>>
      BY Numbers DEF NextObject, TypeInv, CallFits, token
<1>2. CASE c.todo # <<>> /\ Goes(t, Making(c))
  <2>1. CallFits(Making(c), issued) /\ Making(c).op = c.op
        BY <1>1, <1>2, MakingFits
  <2> QED
      BY <1>1, <1>2, <2>1, GoOnFits
<1>3. CASE c.todo = <<>> /\ Goes(t, d)
  <2>1. /\ DOMAIN d = Fields /\ d.op = c.op /\ d.step = "next" /\ d.todo = c.todo
        /\ d.out = c.out /\ d.left = c.left
        BY <1>1 DEF CallHolds, Fields
  <2> HIDE DEF d
  <2>2. CallFits(d, issued)
        BY <1>1, <1>3, <2>1 DEF CallFits, CallHolds, Steps, Reads, Searching
  <2> QED
      BY <1>1, <1>3, <2>1, <2>2, GoOnFits
<1> QED
    BY <1>2, <1>3 DEF NextObject

LEMMA TypeInit == Init => TypeInv
<1> SUFFICES ASSUME Init PROVE TypeInv
    OBVIOUS
<1>1. issued = Len(Stored) /\ issued \in 0..MaxObjects /\ DOMAIN Stored = 1..Len(Stored)
      BY ObjectsAssumption DEF Init
<1>2. \A h \in DOMAIN Stored : Stored[h] \in Contents
      BY ObjectsAssumption
<1>3. TokenFits
      BY <1>1, <1>2 DEF Init, TokenFits, Handles
<1>4. search \in Searches(issued) /\ search.owner = NoThread
      BY DEF Init, NoSearch, Searches
<1>5. DOMAIN call = Threads /\ \A t \in Threads : call[t] = NoCall
      BY DEF Init
<1>6. OwnerSearches
      BY <1>4, <1>5, NoCallFits, Numbers DEF OwnerSearches, Searching
<1>7. calls \in 0..MaxCalls /\ odd \subseteq OddReads /\ held = {}
      BY ObjectsAssumption DEF Init
<1> QED
    BY <1>3, <1>4, <1>5, <1>6, <1>7, NoCallFits DEF TypeInv

LEMMA SetAttributeFits ==
    ASSUME TypeInv, NEW t \in Threads, SetAttribute(t)
    PROVE  TokenFits'
<1>1. PICK o, change :
         /\ o \in held /\ change \in Changes
         /\ objects[o.handle] # Gone
         /\ objects' = [objects EXCEPT ![o.handle][change[1]] = change[2]]
      BY DEF SetAttribute
<1>2. o.handle \in Handles /\ o.handle <= issued
      BY <1>1, ObjectsHeld
<1>3. change[1] \in Attributes /\ change[2] \in AttributeValues
      BY <1>1, ObjectsAssumption
<1>4. objects \in [Handles -> Contents \union {Gone}] /\ objects[o.handle] \in Contents
      BY <1>1, <1>2 DEF TypeInv, TokenFits
<1>5. [objects[o.handle] EXCEPT ![change[1]] = change[2]] \in Contents
      BY <1>3, <1>4 DEF Contents
<1>6. objects' \in [Handles -> Contents \union {Gone}]
      BY <1>1, <1>2, <1>4, <1>5
<1>7. \A h \in Handles : h > issued => objects'[h] = Gone
      BY <1>1, <1>2, <1>4, Numbers DEF TypeInv, TokenFits
<1> QED
    BY <1>6, <1>7 DEF SetAttribute, TypeInv, TokenFits

LEMMA DestroyFits ==
    ASSUME TypeInv, NEW t \in Threads, Destroy(t)
    PROVE  TokenFits'
<1>1. PICK o \in held : objects' = [objects EXCEPT ![o.handle] = Gone]
      BY DEF Destroy
<1>2. objects' \in [Handles -> Contents \union {Gone}]
      BY <1>1 DEF TypeInv, TokenFits
<1>3. \A h \in Handles : h > issued => objects'[h] = Gone
      BY <1>1 DEF TypeInv, TokenFits
<1> QED
    BY <1>2, <1>3 DEF Destroy, TypeInv, TokenFits

(* The reads in which the token deviates, and the bounds.                  *)
LEMMA OddSteps ==
    ASSUME TypeInv, NEW t \in Threads, QuerySizes(t) \/ FillValues(t) \/ FindObjectsFails(t)
    PROVE  calls' = calls /\ odd \subseteq odd' /\ odd' \subseteq OddReads
<1>1. CASE QuerySizes(t) \/ FillValues(t)
  <2>1. calls' = calls /\ odd' \in {odd, odd \union {ReadOf(call[t])}}
        BY <1>1 DEF QuerySizes, FillValues, Deviates
  <2>2. call[t].handle \in Handles /\ call[t].single \in BOOLEAN
    <3>1. call[t].step \in Reads
          BY <1>1 DEF QuerySizes, FillValues, Reads
    <3>2. call[t].handle \in 1..issued /\ call[t].single \in BOOLEAN
          BY <3>1 DEF TypeInv, CallFits, KeysFit
    <3> QED
        BY <3>2, Numbers DEF TypeInv, TokenFits
  <2>3. ReadOf(call[t]) \in OddReads
        BY <2>2 DEF OddReads, ReadOf
  <2> QED
      BY <2>1, <2>3 DEF TypeInv
<1>2. CASE FindObjectsFails(t)
  <2>1. calls' = calls /\ odd' = odd \union {ReadOf(NoCall)}
        BY <1>2 DEF FindObjectsFails, Deviates
  <2>2. ReadOf(NoCall) \in OddReads
        BY DEF OddReads, ReadOf, NoCall
  <2> QED
      BY <2>1, <2>2 DEF TypeInv
<1> QED
    BY <1>1, <1>2

LEMMA BoundsHold ==
    ASSUME TypeInv, NEW t \in Threads,
           \/ Counted /\ odd' = odd
           \/ calls' = calls /\ odd' \subseteq OddReads
    PROVE  calls' \in 0..MaxCalls /\ odd' \subseteq OddReads
BY ObjectsAssumption DEF TypeInv, Counted

LEMMA TypeNext == TypeInv /\ [Next]_vars => TypeInv'
<1> SUFFICES ASSUME TypeInv, [Next]_vars PROVE TypeInv'
    OBVIOUS
<1>1. CASE UNCHANGED vars
      BY <1>1 DEF vars, TypeInv, TokenFits, OwnerSearches
<1>2. ASSUME NEW t \in Threads, TokenFits', issued <= issued', \E d : StepOf(t, d),
             \/ Counted /\ odd' = odd
             \/ calls' = calls /\ odd' \subseteq OddReads
      PROVE  TypeInv'
  <2>1. PICK d : StepOf(t, d)
        BY <1>2
  <2>2. calls' \in 0..MaxCalls /\ odd' \subseteq OddReads
        BY <1>2, BoundsHold
  <2> QED
      BY <1>2, <2>1, <2>2, StepKeepsTypes
<1>4. ASSUME NEW t \in Threads, QuerySizes(t) PROVE TypeInv'
  <2>1. calls' = calls /\ odd' \subseteq OddReads
        BY <1>4, OddSteps
  <2> QED
      BY <1>2, <1>4, <2>1, QuerySizesFits
<1>5. ASSUME NEW t \in Threads, FillValues(t) PROVE TypeInv'
  <2>1. calls' = calls /\ odd' \subseteq OddReads
        BY <1>5, OddSteps
  <2> QED
      BY <1>2, <1>5, <2>1, FillValuesFits
<1>6. ASSUME NEW t \in Threads, NEW o \in held, NEW keys \in {ObjectKeys, ParamKeys},
             NEW op \in {"get", "params"}, Begin(t), odd' = odd,
             Goes(t, Reading([NoCall EXCEPT !.op = op], o.handle, keys)),
             UNCHANGED <<token, search, held>>
      PROVE  TypeInv'
  <2>1. o.handle \in 1..issued /\ keys \in Seq(Attributes)
        BY ObjectsHeld, ObjectsAssumption
  <2>2. call[t].step = "idle" /\ Counted /\ UNCHANGED <<held, search, issued>>
        BY <1>6 DEF Begin, token
  <2>3. \E d : StepOf(t, d)
        BY <1>6, <2>1, <2>2, BeginReadingFits
  <2> QED
      BY <1>2, <1>6, <2>2, <2>3, SameToken
<1>7. ASSUME NEW t \in Threads, GetAttributes(t) PROVE TypeInv'
      BY <1>6, <1>7 DEF GetAttributes
<1>8. ASSUME NEW t \in Threads, GenerateFrom(t) PROVE TypeInv'
      BY <1>6, <1>8 DEF GenerateFrom
<1>9. ASSUME NEW t \in Threads,
             CreateObject(t) \/ GeneratePair(t) \/ GenerateDSA(t) \/ CopyObject(t) \/ MakeWithKey(t)
      PROVE  TypeInv'
  <2>1. Counted /\ odd' = odd
        BY <1>9 DEF CreateObject, GeneratePair, GenerateDSA, CopyObject, MakeWithKey, Begin
  <2> QED
      BY <1>2, <1>9, <2>1, CreatesFit
<1>10. ASSUME NEW t \in Threads, SetAttribute(t) \/ Destroy(t) PROVE TypeInv'
  <2>1. TokenFits'
        BY <1>10, SetAttributeFits, DestroyFits
  <2>2. Counted /\ UNCHANGED <<issued, search, call, held, odd>>
        BY <1>10 DEF SetAttribute, Destroy, InProgram
  <2>3. calls' \in 0..MaxCalls
        BY <2>2, BoundsHold
  <2> QED
      BY <2>1, <2>2, <2>3 DEF TypeInv, OwnerSearches
<1>11. ASSUME NEW t \in Threads, Search(t) PROVE TypeInv'
  <2>1. Counted /\ UNCHANGED token /\ odd' = odd
        BY <1>11 DEF Search, Begin
  <2> QED
      BY <1>2, <1>11, <2>1, SearchFits, SameToken
<1>12. ASSUME NEW t \in Threads, FindObjects(t) \/ SearchEnds(t) \/ DropSearch(t) \/ NextObject(t)
       PROVE  TypeInv'
  <2>1. UNCHANGED <<token, calls, odd>>
        BY <1>12 DEF FindObjects, SearchEnds, DropSearch, NextObject
  <2>2. \E d : StepOf(t, d)
        BY <1>12, FindObjectsFits, SearchEndsFits, NextObjectFits
  <2>3. odd' \subseteq OddReads
        BY <2>1 DEF TypeInv
  <2> QED
      BY <1>2, <2>1, <2>2, <2>3, SameToken
<1>13. ASSUME NEW t \in Threads, FindObjectsFails(t) PROVE TypeInv'
  <2>1. Raise(t) /\ UNCHANGED token /\ calls' = calls /\ issued' = issued
        BY <1>13 DEF FindObjectsFails, token
  <2>2. odd' \subseteq OddReads
        BY <1>13, OddSteps
  <2>3. \E d : StepOf(t, d)
        BY <2>1, RaiseFits
  <2> QED
      BY <1>2, <2>1, <2>2, <2>3, SameToken
<1> QED
    BY <1>1, <1>4, <1>5, <1>7, <1>8, <1>9, <1>10, <1>11, <1>12, <1>13 DEF Next

LEMMA TypesFit == TypeInv => TypeOK
<1> SUFFICES ASSUME TypeInv PROVE TypeOK
    OBVIOUS
<1>1. search.asked \in Seq(Handles) /\ search.rest \in Seq(Handles)
      BY Numbers DEF TypeInv, TokenFits, Searches
<1>2. \A t \in Threads : call[t].todo \in Seq(1..issued)
      BY DEF TypeInv, CallFits, CallHolds
<1>3. \A t \in Threads : LET c == call[t]
                        IN  /\ c.op \in Ops /\ c.step \in Steps
                            /\ c.step \in {"query", "fill"} => c.handle \in 1..issued
                            /\ c.step = "fill" => DOMAIN c.buffers # {}
      BY DEF TypeInv, CallFits, CallHolds, Reads
<1>4. \A o \in held : o.handle \in 1..issued /\ o.mixins \subseteq Flags
      BY DEF TypeInv, PyObjects
<1> QED
    BY <1>1, <1>2, <1>3, <1>4 DEF TypeInv, TokenFits, TypeOK, Searches, OddReads

LEMMA TypeAlways == Spec => []TypeInv
BY TypeInit, TypeNext, PTL DEF Spec

(* Type correctness.                                                       *)
THEOREM TypeCorrect == Spec => []TypeOK
BY TypeAlways, TypesFit, PTL

-----------------------------------------------------------------------------
(* Searches: the handles that the token listed are those of the objects    *)
(* made, the one being read, those still to do of the batch and the rest.  *)

Now(c) == IF c.step \in Reads THEN 1 ELSE 0

Several(c, s) == c.op \in Searching /\ c.step = "raised" => Len(s.asked) > 1

Follows(c, s) ==
    c.op \in Searching /\ c.step # "raised" =>
        /\ Len(s.asked) = Len(c.out) + Now(c) + Len(c.todo) + Len(s.rest)
        /\ \A i \in 1..Len(c.out) : s.asked[i] = c.out[i].handle
        /\ c.step \in Reads => s.asked[Len(c.out) + 1] = c.handle
        /\ \A i \in 1..Len(c.todo) : s.asked[Len(c.out) + Now(c) + i] = c.todo[i]
        /\ \A i \in 1..Len(s.rest) :
               s.asked[Len(c.out) + Now(c) + Len(c.todo) + i] = s.rest[i]
        /\ c.op = "get_key" => Len(c.out) <= 1

Exact(r) ==
    r.kind \in Searching =>
        /\ r.found = r.asked
        /\ r.kind = "get_key" => Len(r.asked) <= 1

ExactInv ==
    /\ DOMAIN result = Threads
    /\ \A t \in Threads :
          Follows(call[t], search) /\ Several(call[t], search) /\ Exact(result[t])

ExactStep(t, d, r) ==
    /\ call' = [call EXCEPT ![t] = d]
    /\ result' = [result EXCEPT ![t] = r]
    /\ Follows(d, search') /\ Several(d, search') /\ Exact(r)
    /\ search' # search => search.owner \in {t, NoThread}

LEMMA StepKeepsExact ==
    ASSUME TypeInv, ExactInv, NEW t \in Threads, NEW d, NEW r, ExactStep(t, d, r)
    PROVE  ExactInv'
<1>1. ASSUME NEW u \in Threads, u # t
      PROVE  Follows(call'[u], search') /\ Several(call'[u], search') /\ Exact(result'[u])
  <2>1. /\ call'[u] = call[u] /\ result'[u] = result[u]
        /\ Follows(call[u], search) /\ Several(call[u], search) /\ Exact(result[u])
        BY <1>1 DEF ExactStep, ExactInv, TypeInv
  <2>2. CASE call[u].op \in Searching
    <3>1. search.owner = u /\ u # NoThread
          BY <2>2, Numbers DEF TypeInv, OwnerSearches, Searching
    <3>2. search' = search
          BY <1>1, <3>1 DEF ExactStep
    <3> QED
        BY <2>1, <3>2
  <2>3. CASE call[u].op \notin Searching
        BY <2>1, <2>3 DEF Follows, Several
  <2> QED
      BY <2>2, <2>3
<1>2. call'[t] = d /\ result'[t] = r /\ DOMAIN result' = Threads
      BY DEF ExactStep, ExactInv, TypeInv
<1> QED
    BY <1>1, <1>2 DEF ExactStep, ExactInv

LEMMA Plainly ==
    /\ Exact(NoResult)
    /\ \A d, s : d.op \notin Searching => Follows(d, s) /\ Several(d, s)
    /\ \A d, s : d.step # "raised" => Several(d, s)
    /\ \A s : Follows(NoCall, s) /\ Several(NoCall, s)
<1>1. NoResult.kind \notin Searching
      BY DEF NoResult, Searching
<1>2. NoCall.op \notin Searching
      BY NoCallFits DEF Searching
<1> QED
    BY <1>1, <1>2 DEF Exact, Follows, Several

LEMMA CreateExact ==
    ASSUME TypeInv, NEW t \in Threads, NEW c, CallHolds(c, issued), NEW made \in Seq(Contents),
           made # <<>>, Create(t, c, made), UNCHANGED search
    PROVE  \E d, r : ExactStep(t, d, r)
<1> DEFINE new == [i \in DOMAIN made |-> issued + i]
           b == [c EXCEPT !.op = IF @ = "dsa" THEN "dsa" ELSE "create", !.todo = new, !.out = <<>>]
<1>1. DOMAIN b = Fields /\ b.op \in {"create", "dsa"}
      BY DEF CallHolds, Fields
<1>2. Goes(t, Making(b))
      BY DEF Create
<1> HIDE DEF b
<1>3. Making(b).op = b.op
      BY <1>1 DEF Making, Reading, Fields
<1>4. ExactStep(t, Making(b), NoResult)
      BY <1>1, <1>2, <1>3, Plainly DEF ExactStep, Goes, Searching
<1> QED
    BY <1>4

(* The same reading, begun again or gone on with.                          *)
LEMMA SameReading ==
    ASSUME NEW c, NEW d, NEW s, Follows(c, s), c.step \in Reads, d.step \in Reads,
           d.op = c.op, d.out = c.out, d.todo = c.todo, d.handle = c.handle
    PROVE  Follows(d, s)
BY DEF Follows, Now, Reads

LEMMA RaiseExact ==
    ASSUME TypeInv, NEW t \in Threads, Raise(t)
    PROVE  \E d, r : ExactStep(t, d, r)
<1>1. ExactStep(t, NoCall, NoResult)
      BY Plainly DEF Raise, Ends, ExactStep
<1> QED
    BY <1>1

LEMMA ReceiveExact ==
    ASSUME TypeInv, ExactInv, NEW t \in Threads, call[t].step \in Reads,
           NEW obj \in PyObjects(issued), obj.handle = call[t].handle, Receive(t, call[t], obj)
    PROVE  \E d, r : ExactStep(t, d, r)
<1> DEFINE c == call[t]
           out == Append(c.out, obj)
           b == [c EXCEPT !.out = out]
<1>1. issued \in Nat /\ CallHolds(c, issued) /\ Follows(c, search) /\ c.step \in Reads /\ c.op # "none"
      BY Numbers DEF TypeInv, CallFits, ExactInv
<1>2. /\ c.out \in Seq(PyObjects(issued)) /\ c.todo \in Seq(1..issued)
      /\ search.rest \in Seq(1..issued) /\ obj.handle = c.handle
      BY <1>1 DEF CallHolds, TypeInv, Searches
<1>3. /\ out \in Seq(PyObjects(issued)) /\ Len(out) = Len(c.out) + 1 /\ Len(c.out) \in Nat
      /\ out[Len(c.out) + 1] = obj /\ \A i \in 1..Len(c.out) : out[i] = c.out[i]
      BY <1>2
<1>4. Len(c.todo) \in Nat /\ Len(search.rest) \in Nat
      BY <1>2
<1>5. /\ DOMAIN b = Fields /\ b.op = c.op /\ b.step = c.step /\ b.out = out /\ b.todo = c.todo
      /\ b.left = c.left
      BY <1>1 DEF CallHolds, Fields
<1> HIDE DEF c, out, b
<1>6. CallHolds(b, issued)
      BY <1>1, <1>3, <1>5 DEF CallHolds
<1>7. ASSUME NEW d, call' = [call EXCEPT ![t] = d], Follows(d, search), Several(d, search),
             search' = search, result' = [result EXCEPT ![t] = NoResult]
      PROVE  \E e, r : ExactStep(t, e, r)
      BY <1>7, Plainly DEF ExactStep
<1>8. ASSUME c.todo # <<>>, c.op = "get_key" => c.out = <<>>
      PROVE  Follows(Making(b), search)
  <2>1. /\ Making(b).op = c.op /\ Making(b).step = "query" /\ Making(b).out = out
        /\ Making(b).handle = Head(c.todo) /\ Making(b).todo = Tail(c.todo)
        BY <1>1, <1>5, <1>6, <1>8, MakingFits
  <2>2. /\ Len(Tail(c.todo)) = Len(c.todo) - 1 /\ Head(c.todo) = c.todo[1]
        /\ \A i \in 1..(Len(c.todo) - 1) : Tail(c.todo)[i] = c.todo[i + 1]
        /\ Len(c.todo) > 0
        BY <1>2, <1>8
  <2> DEFINE d == Making(b)
  <2> HIDE DEF d
  <2> DEFINE k == Len(c.out)
             m == Len(c.todo)
             n == Len(search.rest)
             rest == Tail(c.todo)
  <2>a. /\ k \in Nat /\ m \in Nat /\ n \in Nat /\ Len(out) = k + 1 /\ Len(rest) = m - 1 /\ m > 0
        /\ out[k + 1] = obj /\ \A i \in 1..k : out[i] = c.out[i]
        /\ Head(c.todo) = c.todo[1] /\ \A i \in 1..(m - 1) : rest[i] = c.todo[i + 1]
        BY <1>3, <1>4, <2>2
  <2>3. CASE c.op \in Searching
    <3>1. /\ Len(search.asked) = k + 1 + m + n
          /\ \A i \in 1..k : search.asked[i] = c.out[i].handle
          /\ search.asked[k + 1] = c.handle
          /\ \A i \in 1..m : search.asked[k + 1 + i] = c.todo[i]
          /\ \A i \in 1..n : search.asked[k + 1 + m + i] = search.rest[i]
          BY <1>1, <2>3 DEF Follows, Now, Reads
    <3>b. c.op = "get_key" => k = 0
          BY <1>8
    <3> HIDE DEF k, m, n, rest
    <3>2. Len(search.asked) = Len(out) + 1 + Len(rest) + n
          BY <2>a, <3>1
    <3>3. ASSUME NEW i \in 1..Len(out) PROVE search.asked[i] = out[i].handle
      <4>1. i \in 1..k \/ i = k + 1
            BY <2>a
      <4> QED
          BY <1>2, <2>a, <3>1, <4>1
    <3>4. search.asked[Len(out) + 1] = Head(c.todo)
      <4>1. 1 \in 1..m /\ Len(out) + 1 = k + 1 + 1
            BY <2>a
      <4> QED
          BY <2>a, <3>1, <4>1
    <3>5. ASSUME NEW i \in 1..Len(rest) PROVE search.asked[Len(out) + 1 + i] = rest[i]
      <4>1. i \in 1..(m - 1)
            BY <2>a
      <4>2. i + 1 \in 1..m /\ rest[i] = c.todo[i + 1]
            BY <2>a, <4>1
      <4>3. Len(out) + 1 + i = k + 1 + (i + 1)
            BY <2>a, <4>1
      <4> QED
          BY <3>1, <4>2, <4>3
    <3>6. Len(out) + 1 + Len(rest) = k + 1 + m
          BY <2>a
    <3>7. \A i \in 1..n : search.asked[Len(out) + 1 + Len(rest) + i] = search.rest[i]
          BY <3>1, <3>6
    <3>8. c.op = "get_key" => Len(out) <= 1
          BY <2>a, <3>b
    <3> QED
        BY <2>1, <3>2, <3>3, <3>4, <3>5, <3>7, <3>8 DEF Follows, Now, Reads, n, rest, d
  <2>4. CASE c.op \notin Searching
        BY <2>1, <2>4, Plainly
  <2> QED
      BY <2>3, <2>4
<1>9. ASSUME NEW d, d.op = c.op, d.step \in {"yield", "next"}, d.out = out, d.todo = c.todo,
             c.op \in Searching, c.op = "get_key" => c.out = <<>>
      PROVE  Follows(d, search)
  <2>1. Now(c) = 1 /\ Now(d) = 0
        BY <1>1, <1>9 DEF Now, Reads
  <2>2. /\ Len(search.asked) = Len(c.out) + 1 + Len(c.todo) + Len(search.rest)
        /\ \A i \in 1..Len(c.out) : search.asked[i] = c.out[i].handle
        /\ search.asked[Len(c.out) + 1] = c.handle
        /\ \A i \in 1..Len(c.todo) : search.asked[Len(c.out) + 1 + i] = c.todo[i]
        /\ \A i \in 1..Len(search.rest) :
               search.asked[Len(c.out) + 1 + Len(c.todo) + i] = search.rest[i]
        BY <1>1, <1>9, <2>1 DEF Follows, Reads
  <2>3. ASSUME NEW i \in 1..Len(out) PROVE search.asked[i] = out[i].handle
    <3>1. i \in 1..Len(c.out) \/ i = Len(c.out) + 1
          BY <1>3
    <3> QED
        BY <1>2, <1>3, <2>2, <3>1
  <2>4. Len(out) + 0 = Len(c.out) + 1
        BY <1>3
  <2>5. c.op = "get_key" => Len(out) <= 1
        BY <1>3, <1>9
  <2>6. Len(d.out) + Now(d) = Len(c.out) + 1
        BY <1>9, <2>1, <2>4
  <2>7. /\ Len(search.asked) = Len(d.out) + Now(d) + Len(d.todo) + Len(search.rest)
        /\ \A i \in 1..Len(d.todo) : search.asked[Len(d.out) + Now(d) + i] = d.todo[i]
        /\ \A i \in 1..Len(search.rest) :
               search.asked[Len(d.out) + Now(d) + Len(d.todo) + i] = search.rest[i]
        BY <1>9, <2>2, <2>6
  <2> QED
      BY <1>9, <2>3, <2>5, <2>7 DEF Follows, Reads
<1>10. CASE c.op \in {"create", "get_key"} /\ c.todo # <<>> /\ Goes(t, Making(b)) /\ search' = search
            /\ (c.op = "get_key" => c.out = <<>>)
  <2>1. Follows(Making(b), search)
        BY <1>8, <1>10
  <2>2. Making(b).step # "raised"
        BY <1>5 DEF Making, Reading, Fields
  <2>3. Several(Making(b), search)
        BY <2>2, Plainly
  <2> QED
      BY <1>7, <1>10, <2>1, <2>3 DEF Goes
<1>11. CASE Ends(t, c, NoResult) /\ search' = search
      BY <1>7, <1>11, Plainly DEF Ends
<1>12. CASE Goes(t, Reading([c EXCEPT !.op = "params", !.single = FALSE], c.handle, ParamKeys))
            /\ search' = search
  <2>1. Reading([c EXCEPT !.op = "params", !.single = FALSE], c.handle, ParamKeys).op = "params"
        BY <1>1 DEF Reading, CallHolds, Fields
  <2> QED
      BY <1>7, <1>12, <2>1, Plainly DEF Goes, Searching
<1>13. ASSUME NEW step \in {"yield", "next", "raised"}, search' = search, c.op \in Searching,
              Goes(t, [c EXCEPT !.step = step, !.out = out]),
              c.op = "get_key" /\ step # "raised" => c.out = <<>>,
              step = "raised" => c.out # <<>>
       PROVE  \E d, r : ExactStep(t, d, r)
  <2> DEFINE d == [c EXCEPT !.step = step, !.out = out]
  <2>1. d.op = c.op /\ d.step = step /\ d.out = out /\ d.todo = c.todo
        BY <1>1 DEF CallHolds, Fields
  <2> HIDE DEF d
  <2>2. CASE step = "raised"
    <3>1. Follows(d, search)
          BY <2>1, <2>2 DEF Follows
    <3>2. c.out # <<>> /\ c.out \in Seq(PyObjects(issued))
          BY <1>2, <1>13, <2>2
    <3>a. Len(c.out) > 0
          BY <3>2
    <3>b. Now(c) = 1 /\ c.step # "raised"
          BY <1>1 DEF Now, Reads
    <3>c. Len(search.asked) = Len(c.out) + 1 + Len(c.todo) + Len(search.rest)
          BY <1>1, <1>13, <3>b DEF Follows
    <3>3. Len(search.asked) > 1
      <4>1. Len(c.out) \in Nat /\ Len(c.todo) \in Nat /\ Len(search.rest) \in Nat
            BY <1>3, <1>4
      <4> DEFINE i == Len(c.out)
                 j == Len(c.todo)
                 k == Len(search.rest)
                 n == Len(search.asked)
      <4>2. i \in Nat /\ j \in Nat /\ k \in Nat /\ i > 0 /\ n = i + 1 + j + k
            BY <4>1, <3>a, <3>c
      <4> HIDE DEF i, j, k, n
      <4>3. n > 1
            BY <4>2
      <4> QED
          BY <4>3 DEF n
    <3>4. Several(d, search)
          BY <3>3 DEF Several
    <3> QED
        BY <1>7, <1>13, <3>1, <3>4 DEF Goes, d
  <2>3. CASE step # "raised"
    <3>1. Follows(d, search)
          BY <1>9, <1>13, <2>1, <2>3
    <3>2. Several(d, search)
          BY <2>1, <2>3, Plainly
    <3> QED
        BY <1>7, <1>13, <3>1, <3>2 DEF Goes, d
  <2> QED
      BY <2>2, <2>3
<1>14. Receive(t, c, obj)
      BY DEF c
<1>15. CASE c.op \in {"create", "dsa"}
  <2> DEFINE e == Reading([c EXCEPT !.op = "params", !.single = FALSE], c.handle, ParamKeys)
  <2>1. \/ c.op = "create" /\ c.todo # <<>> /\ Goes(t, Making(b)) /\ search' = search
        \/ Ends(t, c, NoResult) /\ search' = search
        \/ Goes(t, e) /\ search' = search
        \/ Raise(t)
        BY <1>14, <1>15 DEF Receive, b, out
  <2> QED
      BY <2>1, <1>10, <1>11, <1>12, RaiseExact
<1>16. CASE c.op = "search"
  <2>1. search' = search /\ Goes(t, [c EXCEPT !.step = "yield", !.out = out])
        BY <1>14, <1>16 DEF Receive, out
  <2> QED
      BY <1>13, <1>16, <2>1 DEF Searching
<1>17. CASE c.op = "get_key" /\ c.out = <<>>
  <2>1. /\ search' = search
        /\ \/ c.todo # <<>> /\ Goes(t, Making(b))
           \/ Goes(t, [c EXCEPT !.step = "next", !.out = out])
        BY <1>14, <1>17 DEF Receive, b, out
  <2> QED
      BY <1>10, <1>13, <1>17, <2>1 DEF Searching
<1>18. CASE c.op = "get_key" /\ c.out # <<>>
  <2>1. search' = search /\ Goes(t, [c EXCEPT !.step = "raised", !.out = out])
        BY <1>14, <1>18 DEF Receive, out
  <2> QED
      BY <1>13, <1>18, <2>1 DEF Searching
<1> QED
    BY <1>14, <1>15, <1>16, <1>17, <1>18 DEF Receive

LEMMA OneByOneExact ==
    ASSUME TypeInv, ExactInv, NEW t \in Threads, call[t].step \in Reads,
           NEW left, NEW read, Goes(t, OneByOne(call[t], left, read)), UNCHANGED search
    PROVE  \E d, r : ExactStep(t, d, r)
<1> DEFINE c == call[t]
           d == OneByOne(c, left, read)
<1>1. DOMAIN c = Fields /\ Follows(c, search) /\ c.step \in Reads
      BY DEF TypeInv, CallFits, CallHolds, ExactInv
<1> HIDE DEF c
<1>2. d.op = c.op /\ d.step = "query" /\ d.out = c.out /\ d.todo = c.todo /\ d.handle = c.handle
      BY <1>1, OneByOneParts
<1> HIDE DEF d
<1>3. Follows(d, search)
      BY <1>1, <1>2, SameReading DEF Reads, c
<1>4. ExactStep(t, d, NoResult)
      BY <1>2, <1>3, Plainly DEF ExactStep, Goes, d, c
<1> QED
    BY <1>4

LEMMA ReadExact ==
    ASSUME TypeInv, ExactInv, NEW t \in Threads, call[t].step \in Reads, NEW bytes, Read(t, bytes)
    PROVE  \E d, r : ExactStep(t, d, r)
<1> DEFINE c == call[t]
           attributes == AsDict(bytes)
           all == Merge(c.read, attributes)
<1>1. /\ issued \in Nat /\ CallHolds(c, issued) /\ c.handle \in 1..issued
      /\ c.left \in Seq(KeySet(ObjectKeys))
      BY Numbers DEF TypeInv, CallFits, CallHolds
<1> HIDE DEF attributes, all
<1>2. CASE Raise(t)
      BY <1>2, RaiseExact
<1>3. ASSUME NEW answer, answer.kind \notin Searching, Ends(t, c, answer), UNCHANGED search
      PROVE  \E d, r : ExactStep(t, d, r)
  <2>1. ExactStep(t, NoCall, answer)
        BY <1>3, Plainly DEF ExactStep, Ends, Exact
  <2> QED
      BY <2>1
<1>4. ASSUME NEW made \in Made, Len(made) = 2, Create(t, c, made), UNCHANGED search
      PROVE  \E d, r : ExactStep(t, d, r)
  <2>1. made \in Seq(Contents) /\ made # <<>>
        BY <1>4, MadeLists
  <2> QED
      BY <1>1, <1>4, <2>1, CreateExact
<1>5. ASSUME NEW single \in BOOLEAN, NEW read, Receive(t, c, NewObject(c.handle, read, single))
      PROVE  \E d, r : ExactStep(t, d, r)
  <2>1. NewObject(c.handle, read, single) \in PyObjects(issued)
        BY <1>1, NewObjectFits
  <2>2. NewObject(c.handle, read, single).handle = c.handle
        BY DEF NewObject
  <2> QED
      BY <1>5, <2>1, <2>2, ReceiveExact
<1>6. ASSUME c.left # <<>>, Goes(t, OneByOne(c, c.left, all)), UNCHANGED search
      PROVE  \E d, r : ExactStep(t, d, r)
      BY <1>1, <1>6, OneByOneExact
<1>7. NoResult.kind \notin Searching
      BY DEF NoResult, Searching
<1>8. "read" \notin Searching
      BY DEF Searching
<1>9. CASE c.op = "get"
  <2>1. \/ Raise(t)
        \/ UNCHANGED search /\ Ends(t, c, [kind |-> "read", handle |-> c.handle, keys |-> c.keys,
                                           read |-> attributes])
        BY <1>9 DEF Read, attributes
  <2>2. [kind |-> "read", handle |-> c.handle, keys |-> c.keys, read |-> attributes].kind = "read"
        OBVIOUS
  <2> QED
      BY <1>2, <1>3, <1>8, <2>1, <2>2
<1>10. CASE c.op = "params"
  <2>1. \/ Raise(t)
        \/ UNCHANGED search /\ \E made \in Made : Len(made) = 2 /\ Create(t, c, made)
        \/ UNCHANGED search /\ Ends(t, c, NoResult)
        BY <1>10 DEF Read
  <2> QED
      BY <1>2, <1>3, <1>4, <1>7, <2>1
<1>11. CASE c.op \notin {"get", "params"}
      BY <1>2, <1>5, <1>6, <1>11 DEF Read, attributes, all
<1> QED
    BY <1>9, <1>10, <1>11

LEMMA UnreadExact ==
    ASSUME TypeInv, ExactInv, NEW t \in Threads, call[t].step \in Reads, NEW rv, Unread(t, rv)
    PROVE  \E d, r : ExactStep(t, d, r)
<1>1. CASE Goes(t, OneByOne(call[t], ObjectKeys, <<>>)) /\ UNCHANGED search
      BY <1>1, OneByOneExact
<1>2. CASE Read(t, <<>>)
      BY <1>2, ReadExact
<1>3. CASE Raise(t)
      BY <1>3, RaiseExact
<1> QED
    BY <1>1, <1>2, <1>3 DEF Unread

LEMMA QuerySizesExact ==
    ASSUME TypeInv, ExactInv, NEW t \in Threads, QuerySizes(t)
    PROVE  \E d, r : ExactStep(t, d, r)
<1> DEFINE c == call[t]
<1>1. c.step \in Reads /\ c.step = "query" /\ DOMAIN c = Fields /\ Follows(c, search)
      BY DEF QuerySizes, Reads, TypeInv, CallFits, CallHolds, ExactInv
<1>2. ASSUME NEW buffers, Goes(t, [c EXCEPT !.step = "fill", !.buffers = buffers]), UNCHANGED search
      PROVE  \E d, r : ExactStep(t, d, r)
  <2> DEFINE d == [c EXCEPT !.step = "fill", !.buffers = buffers]
  <2>1. d.op = c.op /\ d.step = "fill" /\ d.todo = c.todo /\ d.out = c.out /\ d.handle = c.handle
        BY <1>1 DEF Fields
  <2> HIDE DEF d
  <2>2. Follows(d, search)
        BY <1>1, <2>1, SameReading DEF Reads
  <2>3. ExactStep(t, d, NoResult)
        BY <1>2, <2>1, <2>2, Plainly DEF ExactStep, Goes, d
  <2> QED
      BY <2>3
<1>3. ASSUME NEW rv, Unread(t, rv) PROVE \E d, r : ExactStep(t, d, r)
      BY <1>1, <1>3, UnreadExact
<1> QED
    BY <1>2, <1>3 DEF QuerySizes

LEMMA FillValuesExact ==
    ASSUME TypeInv, ExactInv, NEW t \in Threads, FillValues(t)
    PROVE  \E d, r : ExactStep(t, d, r)
<1>1. call[t].step \in Reads
      BY DEF FillValues, Reads
<1>2. ASSUME NEW bytes, Read(t, bytes) PROVE \E d, r : ExactStep(t, d, r)
      BY <1>1, <1>2, ReadExact
<1>3. ASSUME NEW rv, Unread(t, rv) PROVE \E d, r : ExactStep(t, d, r)
      BY <1>1, <1>3, UnreadExact
<1> QED
    BY <1>2, <1>3 DEF FillValues

LEMMA BeginReadingExact ==
    ASSUME TypeInv, NEW t \in Threads, GetAttributes(t) \/ GenerateFrom(t)
    PROVE  \E d, r : ExactStep(t, d, r)
<1>1. PICK op, h, keys : op \in {"get", "params"} /\ Goes(t, Reading([NoCall EXCEPT !.op = op], h, keys))
      BY DEF GetAttributes, GenerateFrom
<1>2. UNCHANGED search
      BY DEF GetAttributes, GenerateFrom
<1> DEFINE d == Reading([NoCall EXCEPT !.op = op], h, keys)
<1>3. d.op = op
      BY DEF Reading, NoCall
<1> HIDE DEF d
<1>4. ExactStep(t, d, NoResult)
      BY <1>1, <1>2, <1>3, Plainly DEF ExactStep, Goes, Searching, d
<1> QED
    BY <1>4

LEMMA CreatesExact ==
    ASSUME TypeInv, NEW t \in Threads,
           CreateObject(t) \/ GeneratePair(t) \/ GenerateDSA(t) \/ CopyObject(t) \/ MakeWithKey(t)
    PROVE  \E d, r : ExactStep(t, d, r)
<1>1. PICK op, made : op \in {"create", "dsa"} /\ made \in Seq(Contents) /\ made # <<>>
                      /\ Create(t, [NoCall EXCEPT !.op = op], made)
  <2>1. CASE CreateObject(t) \/ GeneratePair(t) \/ MakeWithKey(t)
    <3>1. PICK made \in Made : Len(made) \in {1, 2} /\ Create(t, [NoCall EXCEPT !.op = "create"], made)
          BY <2>1 DEF CreateObject, GeneratePair, MakeWithKey
    <3> QED
        BY <3>1, MadeLists
  <2>2. ASSUME NEW x \in Contents PROVE <<x>> \in Seq(Contents) /\ <<x>> # <<>>
        OBVIOUS
  <2>3. CASE GenerateDSA(t)
        BY <2>2, <2>3, ObjectsAssumption DEF GenerateDSA
  <2>4. CASE CopyObject(t)
    <3>1. PICK o \in held : /\ objects[o.handle] # Gone
                            /\ Create(t, [NoCall EXCEPT !.op = "create"], <<objects[o.handle]>>)
          BY <2>4 DEF CopyObject
    <3>2. objects[o.handle] \in Contents
          BY <3>1, ObjectsHeld DEF TypeInv, TokenFits
    <3> QED
        BY <2>2, <3>1, <3>2
  <2> QED
      BY <2>1, <2>3, <2>4
<1>2. CallHolds([NoCall EXCEPT !.op = op], issued)
      BY <1>1, Numbers, BeginHolds DEF Ops
<1>3. UNCHANGED search
      BY DEF CreateObject, GeneratePair, GenerateDSA, CopyObject, MakeWithKey
<1> QED
    BY <1>1, <1>2, <1>3, CreateExact

LEMMA SearchExact ==
    ASSUME TypeInv, NEW t \in Threads, Search(t)
    PROVE  \E d, r : ExactStep(t, d, r)
<1>1. PICK template, op, list :
               /\ op \in {"search", "get_key"} /\ list \in Listings(Found(template))
               /\ search' = [owner |-> t, asked |-> list, rest |-> list]
               /\ Goes(t, [NoCall EXCEPT !.op = op, !.step = "next"])
      BY DEF Search
<1>2. list \in Seq(1..issued)
      BY <1>1, FoundFits
<1>3. search.owner = NoThread /\ search'.asked = list /\ search'.rest = list
      BY <1>1 DEF Search, NoSearch
<1> DEFINE d == [NoCall EXCEPT !.op = op, !.step = "next"]
<1>4. d.op = op /\ d.step = "next" /\ d.todo = <<>> /\ d.out = <<>>
      BY DEF NoCall
<1> HIDE DEF d
<1>5. Now(d) = 0 /\ Len(d.out) = 0 /\ Len(d.todo) = 0 /\ Len(list) \in Nat
      BY <1>2, <1>4 DEF Now, Reads
<1>6. Follows(d, search')
      BY <1>3, <1>4, <1>5 DEF Follows, Reads
<1>7. ExactStep(t, d, NoResult)
      BY <1>1, <1>3, <1>4, <1>6, Plainly DEF ExactStep, Goes, d
<1> QED
    BY <1>7

LEMMA FindObjectsExact ==
    ASSUME TypeInv, ExactInv, NEW t \in Threads, FindObjects(t)
    PROVE  \E d, r : ExactStep(t, d, r)
<1> DEFINE c == call[t]
           rest == search.rest
<1>1. PICK n \in 1..Batch :
         /\ n <= Len(rest)
         /\ search' = [search EXCEPT !.rest = SubSeq(rest, n + 1, Len(rest))]
         /\ Goes(t, Making([c EXCEPT !.todo = BatchOf(n)]))
      BY DEF FindObjects
<1>2. /\ issued \in Nat /\ CallHolds(c, issued) /\ c.op \in Searching /\ search.owner = t
      /\ search \in Searches(issued) /\ Follows(c, search) /\ c.step = "next" /\ c.todo = <<>>
      BY Numbers DEF FindObjects, TypeInv, CallFits, OwnerSearches, Searching, ExactInv
<1>3. n \in Nat /\ n > 0 /\ rest \in Seq(1..issued) /\ Len(rest) \in Nat
      BY <1>2, ObjectsAssumption DEF Searches
<1> DEFINE batch == BatchOf(n)
           after == SubSeq(rest, n + 1, Len(rest))
           b == [c EXCEPT !.todo = batch]
<1>4. /\ batch \in Seq(1..issued) /\ batch # <<>> /\ Len(batch) = n
      /\ \A i \in 1..n : batch[i] = rest[i]
      /\ Len(after) = Len(rest) - n
      /\ \A i \in 1..(Len(rest) - n) : after[i] = rest[n + i]
  <2> HIDE DEF rest
  <2>1. batch = SubSeq(rest, 1, n)
        BY DEF BatchOf, rest
  <2>2. n <= Len(rest) /\ n \in Nat /\ n > 0 /\ rest \in Seq(1..issued)
        BY <1>1, <1>3
  <2> HIDE DEF batch, after
  <2>3. /\ SubSeq(rest, 1, n) \in Seq(1..issued) /\ SubSeq(rest, 1, n) # <<>>
        /\ Len(SubSeq(rest, 1, n)) = n
        /\ \A i \in 1..n : SubSeq(rest, 1, n)[i] = rest[i]
        BY <2>2, Parts
  <2>4. /\ Len(SubSeq(rest, n + 1, Len(rest))) = Len(rest) - n
        /\ \A i \in 1..(Len(rest) - n) : SubSeq(rest, n + 1, Len(rest))[i] = rest[n + i]
        BY <2>2, Parts
  <2> QED
      BY <2>1, <2>3, <2>4 DEF after
<1>5. search'.asked = search.asked /\ search'.rest = after
      BY <1>1, <1>2 DEF Searches
<1>6. /\ DOMAIN b = Fields /\ b.op = c.op /\ b.todo = batch /\ b.out = c.out /\ b.left = c.left
      BY <1>2 DEF CallHolds, Fields
<1> HIDE DEF b, batch, after
<1>7. CallHolds(b, issued) /\ b.op # "none"
      BY <1>2, <1>4, <1>6 DEF CallHolds, Searching
<1> DEFINE d == Making(b)
           k == Len(c.out)
           m == Len(rest)
<1>8. /\ d.op = c.op /\ d.step = "query" /\ d.out = c.out /\ d.handle = Head(batch)
      /\ d.todo = Tail(batch)
      BY <1>2, <1>4, <1>6, <1>7, MakingFits
<1>9. /\ Len(d.todo) = n - 1 /\ d.handle = batch[1]
      /\ \A i \in 1..(n - 1) : d.todo[i] = batch[i + 1]
      BY <1>3, <1>4, <1>8
<1>10. /\ Len(search.asked) = k + m
       /\ \A i \in 1..k : search.asked[i] = c.out[i].handle
       /\ \A i \in 1..m : search.asked[k + i] = rest[i]
       /\ c.op = "get_key" => k <= 1
  <2>1. Now(c) = 0 /\ Len(c.todo) = 0 /\ k \in Nat /\ m \in Nat
        BY <1>2, <1>3 DEF Now, Reads, CallHolds
  <2>2. k + Now(c) + Len(c.todo) = k
        BY <2>1
  <2> QED
      BY <1>2, <2>1, <2>2 DEF Follows
<1>11. k \in Nat /\ m \in Nat /\ n <= m /\ Now(d) = 1
      BY <1>1, <1>2, <1>3, <1>8 DEF CallHolds, Now, Reads
<1> HIDE DEF d, k, m, c, rest
<1>12. Len(search.asked) = k + Now(d) + Len(d.todo) + Len(after)
      BY <1>3, <1>4, <1>9, <1>10, <1>11 DEF m
<1>13. search.asked[k + 1] = d.handle
      BY <1>3, <1>4, <1>9, <1>10, <1>11
<1>14. ASSUME NEW i \in 1..Len(d.todo) PROVE search.asked[k + Now(d) + i] = d.todo[i]
  <2>1. i \in 1..(n - 1)
        BY <1>9
  <2>2. d.todo[i] = batch[i + 1] /\ i + 1 \in 1..n /\ i + 1 \in 1..m
        BY <1>3, <1>9, <1>11, <2>1
  <2>3. k + Now(d) + i = k + (i + 1)
        BY <1>11, <2>1
  <2> QED
      BY <1>4, <1>10, <2>2, <2>3
<1>15. ASSUME NEW i \in 1..Len(after) PROVE search.asked[k + Now(d) + Len(d.todo) + i] = after[i]
  <2>1. i \in 1..(m - n)
        BY <1>4 DEF m
  <2>2. after[i] = rest[n + i] /\ n + i \in 1..m
        BY <1>3, <1>4, <1>11, <2>1 DEF m
  <2>3. k + Now(d) + Len(d.todo) + i = k + (n + i)
        BY <1>3, <1>9, <1>11, <2>1
  <2> QED
      BY <1>10, <2>2, <2>3
<1>16. Follows(d, search')
      BY <1>5, <1>8, <1>10, <1>11, <1>12, <1>13, <1>14, <1>15 DEF Follows, k
<1>17. ExactStep(t, d, NoResult)
      BY <1>1, <1>2, <1>8, <1>16, Plainly DEF ExactStep, Goes, d, b, c, batch
<1> QED
    BY <1>17

LEMMA SearchEndsExact ==
    ASSUME TypeInv, ExactInv, NEW t \in Threads, SearchEnds(t)
    PROVE  \E d, r : ExactStep(t, d, r)
<1> DEFINE c == call[t]
           r == [kind |-> c.op, asked |-> search.asked, found |-> Handed(c)]
<1>1. /\ issued \in Nat /\ CallHolds(c, issued) /\ c.op \in Searching /\ search.owner = t
      /\ search \in Searches(issued) /\ Follows(c, search) /\ c.step = "next" /\ c.todo = <<>>
      /\ search.rest = <<>> /\ search' = NoSearch /\ Ends(t, c, r)
      BY Numbers DEF SearchEnds, TypeInv, CallFits, OwnerSearches, Searching, ExactInv
<1>2. c.out \in Seq(PyObjects(issued)) /\ search.asked \in Seq(1..issued)
      BY <1>1 DEF CallHolds, Searches
<1>3. /\ Len(c.out) \in Nat /\ DOMAIN c.out = 1..Len(c.out)
      /\ search.asked = [i \in 1..Len(search.asked) |-> search.asked[i]]
      BY <1>2
<1>4. /\ Len(search.asked) = Len(c.out)
      /\ \A i \in 1..Len(c.out) : search.asked[i] = c.out[i].handle
      /\ c.op = "get_key" => Len(c.out) <= 1
  <2>1. Now(c) = 0 /\ Len(c.todo) = 0 /\ Len(search.rest) = 0
        BY <1>1 DEF Now, Reads
  <2> QED
      BY <1>1, <1>3, <2>1 DEF Follows
<1>5. Handed(c) = search.asked
      BY <1>3, <1>4 DEF Handed
<1>6. Exact(r)
      BY <1>4, <1>5 DEF Exact
<1>7. ExactStep(t, NoCall, r)
      BY <1>1, <1>6, Plainly DEF ExactStep, Ends
<1> QED
    BY <1>7

LEMMA NextObjectExact ==
    ASSUME TypeInv, ExactInv, NEW t \in Threads, NextObject(t)
    PROVE  \E d, r : ExactStep(t, d, r)
<1> DEFINE c == call[t]
<1>1. /\ issued \in Nat /\ CallHolds(c, issued) /\ c.op = "search" /\ c.step = "yield"
      /\ Follows(c, search) /\ UNCHANGED search
      BY Numbers DEF NextObject, TypeInv, CallFits, ExactInv
<1>2. c.todo \in Seq(1..issued) /\ Len(c.todo) \in Nat /\ Len(c.out) \in Nat
      BY <1>1 DEF CallHolds
<1>3. CASE c.todo # <<>> /\ Goes(t, Making(c))
  <2> DEFINE d == Making(c)
             k == Len(c.out)
             m == Len(c.todo)
  <2>1. /\ d.op = c.op /\ d.step = "query" /\ d.out = c.out /\ d.handle = Head(c.todo)
        /\ d.todo = Tail(c.todo)
        BY <1>1, <1>3, MakingFits
  <2>2. /\ m > 0 /\ Len(d.todo) = m - 1 /\ d.handle = c.todo[1]
        /\ \A i \in 1..(m - 1) : d.todo[i] = c.todo[i + 1]
        BY <1>2, <1>3, <2>1
  <2>3. Now(c) = 0 /\ Now(d) = 1
        BY <1>1, <2>1 DEF Now, Reads
  <2>4. /\ Len(search.asked) = k + m + Len(search.rest)
        /\ \A i \in 1..k : search.asked[i] = c.out[i].handle
        /\ \A i \in 1..m : search.asked[k + i] = c.todo[i]
        /\ \A i \in 1..Len(search.rest) : search.asked[k + m + i] = search.rest[i]
    <3>1. k + Now(c) = k
          BY <1>2, <2>3
    <3> QED
        BY <1>1, <3>1 DEF Follows, Searching
  <2>5. k \in Nat /\ m \in Nat
        BY <1>2
  <2> HIDE DEF d, k, m
  <2>6. k + Now(d) + Len(d.todo) = k + m
        BY <2>2, <2>3, <2>5
  <2>7. search.asked[k + 1] = d.handle
        BY <2>2, <2>4, <2>5
  <2>8. ASSUME NEW i \in 1..Len(d.todo) PROVE search.asked[k + Now(d) + i] = d.todo[i]
    <3>1. i \in 1..(m - 1)
          BY <2>2
    <3>2. i + 1 \in 1..m /\ d.todo[i] = c.todo[i + 1]
          BY <2>2, <2>5, <3>1
    <3>3. k + Now(d) + i = k + (i + 1)
          BY <2>3, <2>5, <3>1
    <3> QED
        BY <2>4, <3>2, <3>3
  <2>9. Follows(d, search)
        BY <1>1, <2>1, <2>4, <2>6, <2>7, <2>8 DEF Follows, k
  <2>10. ExactStep(t, d, NoResult)
        BY <1>1, <1>3, <2>1, <2>9, Plainly DEF ExactStep, Goes, d
  <2> QED
      BY <2>10
<1>4. CASE Goes(t, [c EXCEPT !.step = "next"])
  <2> DEFINE d == [c EXCEPT !.step = "next"]
  <2>1. d.op = c.op /\ d.step = "next" /\ d.todo = c.todo /\ d.out = c.out
        BY <1>1 DEF CallHolds, Fields
  <2> HIDE DEF d
  <2>2. Now(d) = 0 /\ Now(c) = 0
        BY <1>1, <2>1 DEF Now, Reads
  <2>3. Follows(d, search)
        BY <1>1, <2>1, <2>2 DEF Follows, Reads
  <2>4. ExactStep(t, d, NoResult)
        BY <1>1, <1>4, <2>1, <2>3, Plainly DEF ExactStep, Goes, d
  <2> QED
      BY <2>4
<1> QED
    BY <1>3, <1>4 DEF NextObject

LEMMA DropExact ==
    ASSUME TypeInv, NEW t \in Threads, DropSearch(t)
    PROVE  \E d, r : ExactStep(t, d, r)
<1>1. search.owner = t
      BY DEF DropSearch, TypeInv, CallFits, OwnerSearches, Searching
<1>2. ExactStep(t, NoCall, NoResult)
      BY <1>1, Plainly DEF ExactStep, DropSearch, Ends
<1> QED
    BY <1>2

LEMMA ExactNext == TypeInv /\ ExactInv /\ [Next]_vars => ExactInv'
<1> SUFFICES ASSUME TypeInv, ExactInv, [Next]_vars PROVE ExactInv'
    OBVIOUS
<1>1. CASE UNCHANGED <<call, result, search>>
      BY <1>1 DEF ExactInv
<1>2. ASSUME NEW t \in Threads, \E d, r : ExactStep(t, d, r) PROVE ExactInv'
      BY <1>2, StepKeepsExact
<1>3. ASSUME NEW t \in Threads, QuerySizes(t) \/ FillValues(t) PROVE ExactInv'
      BY <1>2, <1>3, QuerySizesExact, FillValuesExact
<1>4. ASSUME NEW t \in Threads, GetAttributes(t) \/ GenerateFrom(t) PROVE ExactInv'
      BY <1>2, <1>4, BeginReadingExact
<1>5. ASSUME NEW t \in Threads,
             CreateObject(t) \/ GeneratePair(t) \/ GenerateDSA(t) \/ CopyObject(t) \/ MakeWithKey(t)
      PROVE  ExactInv'
      BY <1>2, <1>5, CreatesExact
<1>6. ASSUME NEW t \in Threads, SetAttribute(t) \/ Destroy(t) PROVE ExactInv'
      BY <1>1, <1>6 DEF SetAttribute, Destroy
<1>7. ASSUME NEW t \in Threads, Search(t) \/ FindObjects(t) PROVE ExactInv'
      BY <1>2, <1>7, SearchExact, FindObjectsExact
<1>8. ASSUME NEW t \in Threads, FindObjectsFails(t) PROVE ExactInv'
  <2>1. Raise(t)
        BY <1>8 DEF FindObjectsFails
  <2> QED
      BY <1>2, <2>1, RaiseExact
<1>9. ASSUME NEW t \in Threads, SearchEnds(t) \/ NextObject(t) \/ DropSearch(t) PROVE ExactInv'
      BY <1>2, <1>9, SearchEndsExact, NextObjectExact, DropExact
<1>10. CASE UNCHANGED vars
      BY <1>1, <1>10 DEF vars
<1> QED
    BY <1>3, <1>4, <1>5, <1>6, <1>7, <1>8, <1>9, <1>10 DEF Next

LEMMA ExactInit == Init => ExactInv
BY Plainly DEF Init, ExactInv

LEMMA ExactAlways == Spec => []ExactInv
BY ExactInit, ExactNext, TypeAlways, PTL DEF Spec

LEMMA ExactSearched == ExactInv => SearchesAreExact
BY DEF ExactInv, Exact, SearchesAreExact, Searching

(* A search that comes to its end has given out exactly what the token     *)
(* listed, once and in order, whatever the sizes of the batches            *)
(* (SearchIter, get_objects, get_key).                                     *)
THEOREM ExactSearches == Spec => []SearchesAreExact
BY ExactAlways, ExactSearched, PTL

(* The search at the token and the lock are held for a running call, for a *)
(* generator that stands at an object or for the exception of a get_key    *)
(* that found more than one object, and for nothing else (SearchIter,      *)
(* Session.get_objects, Session.get_key).                                  *)
THEOREM SearchBelongs == Spec => []SearchHasCaller
<1>1. TypeInv /\ ExactInv => SearchHasCaller
  <2> SUFFICES ASSUME TypeInv, ExactInv PROVE SearchHasCaller
      OBVIOUS
  <2> SUFFICES ASSUME NEW t \in Threads
               PROVE  LET c == call[t]
                      IN  c.op \in Searching <=>
                            \/ c.op \in {"search", "get_key"} /\ c.step \in {"query", "fill", "next"}
                            \/ c.op = "search" /\ c.step = "yield"
                            \/ c.op = "get_key" /\ c.step = "raised" /\ Len(search.asked) > 1
      BY DEF SearchHasCaller, TypeInv, OwnerSearches
  <2>1. CallFits(call[t], issued) /\ Several(call[t], search)
        BY DEF TypeInv, ExactInv
  <2> QED
      BY <2>1 DEF CallFits, Several, Searching, Steps
<1> QED
    BY <1>1, TypeAlways, ExactAlways, PTL

-----------------------------------------------------------------------------
(* The token's history: what an attribute is now is among what it has been.*)

HistoryInv ==
    /\ DOMAIN ever = Handles
    /\ \A h \in Handles : h <= issued => DOMAIN ever[h] = Attributes
    /\ \A h \in Handles : objects[h] # Gone => \A k \in Attributes : objects[h][k] \in ever[h][k]
    /\ \A h \in 1..issued : together[h] \subseteq 1..issued

Grows ==
    /\ issued <= issued'
    /\ \A h \in 1..issued :
          /\ \A k \in Attributes : ever[h][k] \subseteq ever'[h][k]
          /\ objects'[h] # Gone => objects[h] # Gone /\ objects'[h][Class] = objects[h][Class]
          /\ together'[h] = together[h]

LEMMA CreateGrows ==
    ASSUME TypeInv, HistoryInv, NEW t \in Threads, NEW c, NEW made \in Seq(Contents),
           Create(t, c, made)
    PROVE  HistoryInv' /\ Grows
<1> DEFINE n == issued + Len(made)
           new == [i \in DOMAIN made |-> issued + i]
<1>1. issued \in Nat /\ Len(made) \in Nat /\ DOMAIN made = 1..Len(made) /\ n \in Nat
      BY Numbers
<1>2. {new[i] : i \in DOMAIN new} = (issued + 1)..n
  <2>1. DOMAIN new = 1..Len(made) /\ \A i \in 1..Len(made) : new[i] = issued + i
        BY <1>1
  <2>2. ASSUME NEW h \in (issued + 1)..n PROVE h - issued \in 1..Len(made) /\ h = new[h - issued]
        BY <1>1, <2>1
  <2>3. \A i \in 1..Len(made) : new[i] \in (issued + 1)..n
        BY <1>1, <2>1
  <2> HIDE DEF new, n
  <2> QED
      BY <2>1, <2>2, <2>3
<1> HIDE DEF new
<1>3. /\ objects' = [h \in Handles |-> IF h \in (issued + 1)..n THEN made[h - issued] ELSE objects[h]]
      /\ ever' = [h \in Handles |-> IF h \in (issued + 1)..n THEN Past(made[h - issued]) ELSE ever[h]]
      /\ issued' = n
      /\ \A h \in Handles : together'[h] = IF h \in (issued + 1)..n THEN (issued + 1)..n
                                                                   ELSE together[h]
      BY <1>2 DEF Create, new
<1>4. \A h \in (issued + 1)..n : made[h - issued] \in Contents
      BY <1>1
<1>5. \A x \in Contents : DOMAIN Past(x) = Attributes /\ \A k \in Attributes : x[k] \in Past(x)[k]
      BY DEF Past, Contents
<1>6. ASSUME NEW h \in Handles, h <= n PROVE DOMAIN ever'[h] = Attributes
      BY <1>1, <1>3, <1>4, <1>5, <1>6, Numbers DEF HistoryInv
<1>7. ASSUME NEW h \in Handles, objects'[h] # Gone, NEW k \in Attributes
      PROVE  objects'[h][k] \in ever'[h][k]
      BY <1>3, <1>4, <1>5, <1>7 DEF HistoryInv
<1>8. Grows
  <2>1. \A h \in 1..issued : h \in Handles /\ h \notin (issued + 1)..n
        BY <1>1, Numbers DEF TypeInv, TokenFits
  <2> QED
      BY <1>1, <1>3, <2>1 DEF Grows
<1>9. ASSUME NEW h \in 1..n PROVE together'[h] \subseteq 1..n
  <2>1. (issued + 1)..n \subseteq 1..n /\ 1..issued \subseteq 1..n /\ n <= MaxObjects
        BY <1>1 DEF Create
  <2>2. h \in Handles /\ (h \in (issued + 1)..n \/ h \in 1..issued)
        BY <1>1, <2>1, Numbers
  <2> QED
      BY <1>3, <2>1, <2>2 DEF HistoryInv
<1> QED
    BY <1>3, <1>6, <1>7, <1>8, <1>9 DEF HistoryInv

LEMMA SetAttributeGrows ==
    ASSUME TypeInv, HistoryInv, NEW t \in Threads, SetAttribute(t)
    PROVE  HistoryInv' /\ Grows
<1>1. PICK o, change :
         /\ o \in held /\ change \in Changes
         /\ objects[o.handle] # Gone
         /\ objects' = [objects EXCEPT ![o.handle][change[1]] = change[2]]
         /\ ever' = [ever EXCEPT ![o.handle][change[1]] = @ \union {change[2]}]
      BY DEF SetAttribute
<1> DEFINE h == o.handle
           a == change[1]
           v == change[2]
<1>2. h \in Handles /\ h \in 1..issued /\ h <= issued /\ a \in Attributes
      BY <1>1, ObjectsHeld, ObjectsAssumption
<1>3. /\ objects \in [Handles -> Contents \union {Gone}] /\ objects[h] \in Contents
      /\ DOMAIN ever = Handles /\ DOMAIN ever[h] = Attributes
      BY <1>1, <1>2 DEF TypeInv, TokenFits, HistoryInv
<1> HIDE DEF h, a, v
<1>4. /\ objects' = [objects EXCEPT ![h][a] = v]
      /\ ever' = [ever EXCEPT ![h][a] = @ \union {v}]
      BY <1>1 DEF h, a, v
<1>5. /\ \A g \in Handles : g # h => objects'[g] = objects[g] /\ ever'[g] = ever[g]
      /\ objects'[h] = [objects[h] EXCEPT ![a] = v]
      /\ ever'[h] = [ever[h] EXCEPT ![a] = @ \union {v}]
      /\ DOMAIN ever' = Handles
      BY <1>2, <1>3, <1>4
<1>6. DOMAIN objects[h] = Attributes
      BY <1>3 DEF Contents
<1>7. /\ DOMAIN ever'[h] = Attributes
      /\ \A k \in Attributes : ever[h][k] \subseteq ever'[h][k]
      /\ \A k \in Attributes : objects[h][k] \in ever[h][k] => objects'[h][k] \in ever'[h][k]
      BY <1>2, <1>3, <1>5, <1>6
<1>8. issued' = issued /\ objects[h] # Gone /\ together' = together /\ a # Class
      BY <1>1, ClassAssumption DEF SetAttribute, h, a
<1>9. 1..issued \subseteq Handles
      BY Numbers DEF TypeInv, TokenFits
<1>10. HistoryInv'
  <2>1. \A g \in Handles : g <= issued => DOMAIN ever'[g] = Attributes
        BY <1>5, <1>7 DEF HistoryInv
  <2>2. ASSUME NEW g \in Handles, objects'[g] # Gone, NEW k \in Attributes
        PROVE  objects'[g][k] \in ever'[g][k]
        BY <1>2, <1>5, <1>7, <1>8, <2>2 DEF HistoryInv
  <2>3. \A g \in 1..issued : together'[g] \subseteq 1..issued
        BY <1>8 DEF HistoryInv
  <2> QED
      BY <1>5, <1>8, <2>1, <2>2, <2>3 DEF HistoryInv
<1>11. Grows
  <2>1. ASSUME NEW g \in 1..issued
        PROVE  /\ \A k \in Attributes : ever[g][k] \subseteq ever'[g][k]
               /\ objects'[g] # Gone => objects[g] # Gone /\ objects'[g][Class] = objects[g][Class]
    <3>1. objects'[h][Class] = objects[h][Class]
          BY <1>5, <1>6, <1>8
    <3> QED
        BY <1>5, <1>7, <1>8, <1>9, <3>1
  <2> QED
      BY <1>8, <2>1, Numbers DEF Grows
<1> QED
    BY <1>10, <1>11

LEMMA DestroyGrows ==
    ASSUME TypeInv, HistoryInv, NEW t \in Threads, Destroy(t)
    PROVE  HistoryInv' /\ Grows
<1>1. PICK o \in held : objects' = [objects EXCEPT ![o.handle] = Gone]
      BY DEF Destroy
<1>2. ever' = ever /\ issued' = issued /\ together' = together
      BY DEF Destroy
<1>3. \A g \in Handles : objects'[g] = Gone \/ objects'[g] = objects[g]
      BY <1>1 DEF TypeInv, TokenFits
<1>4. 1..issued \subseteq Handles
      BY Numbers DEF TypeInv, TokenFits
<1> QED
    BY <1>2, <1>3, <1>4, Numbers DEF HistoryInv, Grows

(* Some thread has the token create objects.                               *)
Creating ==
    \E t \in Threads : \E c, made : made \in Seq(Contents) /\ made # <<>> /\ Create(t, c, made)

LEMMA ReadingCreates ==
    ASSUME NEW t \in Threads
    PROVE  /\ \A bytes : Read(t, bytes) => UNCHANGED token \/ Creating
           /\ \A rv : Unread(t, rv) => UNCHANGED token \/ Creating
           /\ QuerySizes(t) \/ FillValues(t) => UNCHANGED token \/ Creating
<1>1. ASSUME NEW bytes, Read(t, bytes) PROVE UNCHANGED token \/ Creating
  <2>1. UNCHANGED token \/ \E made \in Made : Len(made) = 2 /\ Create(t, call[t], made)
        BY <1>1 DEF Read
  <2> QED
      BY <2>1, MadeLists DEF Creating
<1>2. ASSUME NEW rv, Unread(t, rv) PROVE UNCHANGED token \/ Creating
      BY <1>1, <1>2 DEF Unread
<1>3. ASSUME QuerySizes(t) \/ FillValues(t) PROVE UNCHANGED token \/ Creating
  <2>1. CASE QuerySizes(t)
        BY <1>2, <2>1 DEF QuerySizes
  <2>2. CASE FillValues(t)
        BY <1>1, <1>2, <2>2 DEF FillValues
  <2> QED
      BY <1>3, <2>1, <2>2
<1> QED
    BY <1>1, <1>2, <1>3

LEMMA CallsCreate ==
    ASSUME TypeInv, NEW t \in Threads,
           CreateObject(t) \/ GeneratePair(t) \/ GenerateDSA(t) \/ CopyObject(t) \/ MakeWithKey(t)
    PROVE  Creating
<1>1. ASSUME NEW x \in Contents PROVE <<x>> \in Seq(Contents) /\ <<x>> # <<>>
      OBVIOUS
<1>2. CASE CreateObject(t) \/ GeneratePair(t) \/ MakeWithKey(t)
  <2>1. PICK made \in Made : Len(made) \in {1, 2} /\ Create(t, [NoCall EXCEPT !.op = "create"], made)
        BY <1>2 DEF CreateObject, GeneratePair, MakeWithKey
  <2> QED
      BY <2>1, MadeLists DEF Creating
<1>3. CASE GenerateDSA(t)
      BY <1>1, <1>3, ObjectsAssumption DEF GenerateDSA, Creating
<1>4. CASE CopyObject(t)
  <2>1. PICK o \in held : /\ objects[o.handle] # Gone
                          /\ Create(t, [NoCall EXCEPT !.op = "create"], <<objects[o.handle]>>)
        BY <1>4 DEF CopyObject
  <2>2. objects[o.handle] \in Contents
        BY <2>1, ObjectsHeld DEF TypeInv, TokenFits
  <2> QED
      BY <1>1, <2>1, <2>2 DEF Creating
<1> QED
    BY <1>2, <1>3, <1>4

LEMMA TokenSteps ==
    ASSUME TypeInv, NEW t \in Threads,
           \/ QuerySizes(t) \/ FillValues(t)
           \/ GetAttributes(t) \/ SetAttribute(t) \/ Destroy(t)
           \/ CreateObject(t) \/ GeneratePair(t) \/ GenerateDSA(t) \/ GenerateFrom(t)
           \/ CopyObject(t) \/ MakeWithKey(t)
           \/ Search(t) \/ FindObjects(t) \/ FindObjectsFails(t) \/ SearchEnds(t)
           \/ NextObject(t) \/ DropSearch(t)
    PROVE  UNCHANGED token \/ Creating \/ SetAttribute(t) \/ Destroy(t)
<1>1. GetAttributes(t) \/ GenerateFrom(t) => UNCHANGED token
      BY DEF GetAttributes, GenerateFrom
<1>2. Search(t) \/ FindObjects(t) \/ FindObjectsFails(t) \/ SearchEnds(t) \/ NextObject(t) \/ DropSearch(t)
        => UNCHANGED token
      BY DEF Search, FindObjects, FindObjectsFails, SearchEnds, NextObject, DropSearch
<1> QED
    BY <1>1, <1>2, ReadingCreates, CallsCreate

LEMMA HistoryStays == TypeInv /\ HistoryInv /\ UNCHANGED token => HistoryInv' /\ Grows
BY Numbers DEF HistoryInv, Grows, token

LEMMA HistoryNext == TypeInv /\ HistoryInv /\ [Next]_vars => HistoryInv' /\ Grows
<1> SUFFICES ASSUME TypeInv, HistoryInv, [Next]_vars PROVE HistoryInv' /\ Grows
    OBVIOUS
<1>1. CASE UNCHANGED token
      BY <1>1, HistoryStays
<1>2. CASE Creating
      BY <1>2, CreateGrows DEF Creating
<1>3. ASSUME NEW t \in Threads, SetAttribute(t) \/ Destroy(t) PROVE HistoryInv' /\ Grows
      BY <1>3, SetAttributeGrows, DestroyGrows
<1>4. CASE UNCHANGED vars
      BY <1>1, <1>4 DEF vars, token
<1>5. CASE Next
      BY <1>1, <1>2, <1>3, <1>5, TokenSteps DEF Next
<1> QED
    BY <1>4, <1>5

LEMMA HistoryInit == Init => HistoryInv
<1> SUFFICES ASSUME Init PROVE HistoryInv
    OBVIOUS
<1>1. /\ issued = Len(Stored) /\ DOMAIN Stored = 1..Len(Stored) /\ Len(Stored) \in Nat
      /\ \A h \in DOMAIN Stored : Stored[h] \in Contents
      BY ObjectsAssumption DEF Init
<1>2. \A x \in Contents : DOMAIN Past(x) = Attributes /\ \A k \in Attributes : x[k] \in Past(x)[k]
      BY DEF Past, Contents
<1>3. ASSUME NEW h \in Handles
      PROVE  /\ h <= issued => DOMAIN ever[h] = Attributes
             /\ objects[h] # Gone => \A k \in Attributes : objects[h][k] \in ever[h][k]
  <2>1. h \in Nat /\ h > 0
        BY Numbers
  <2> QED
      BY <1>1, <1>2, <2>1 DEF Init
<1>4. \A h \in 1..issued : together[h] \subseteq 1..issued
  <2>1. \A h \in 1..issued : h \in Handles
        BY <1>1, ObjectsAssumption DEF Handles
  <2> QED
      BY <2>1 DEF Init
<1> QED
    BY <1>3, <1>4 DEF HistoryInv, Init

(* The history of one object: what it does not show it never shows, and    *)
(* its class stays what it is.                                             *)
Steady(past) ==
    /\ \A k \in Attributes :
          /\ past[k] \subseteq AttributeValues \union {Unavailable}
          /\ Unavailable \in past[k] => past[k] = {Unavailable}
    /\ \A v, w \in past[Class] : v = w

SteadyInv == \A h \in 1..issued : Steady(ever[h])

LEMMA PastSteady == \A object \in Contents : Steady(Past(object))
<1> SUFFICES ASSUME NEW object \in Contents PROVE Steady(Past(object))
    OBVIOUS
<1>1. \A k \in Attributes : /\ Past(object)[k] = {object[k]}
                            /\ object[k] \in AttributeValues \union {Unavailable}
      BY DEF Past, Contents
<1>2. Class \in Attributes
      BY KeysAssumption DEF Attributes
<1> QED
    BY <1>1, <1>2 DEF Steady

LEMMA CreateSteady ==
    ASSUME TypeInv, SteadyInv, NEW t \in Threads, NEW c, NEW made \in Seq(Contents),
           Create(t, c, made)
    PROVE  SteadyInv'
<1> DEFINE new == [i \in DOMAIN made |-> issued + i]
           range == {new[i] : i \in DOMAIN new}
<1>1. /\ issued \in Nat /\ Len(made) \in Nat /\ DOMAIN made = 1..Len(made)
      /\ issued' = issued + Len(made) /\ issued' <= MaxObjects
      /\ ever' = [h \in Handles |-> IF h \in range THEN Past(made[h - issued]) ELSE ever[h]]
      BY Numbers DEF Create
<1>2. ASSUME NEW h \in 1..issued' PROVE h \in Handles /\ (h \in range \/ h \in 1..issued)
  <2>1. h \in Handles /\ (h \in 1..issued \/ h - issued \in DOMAIN made)
        BY <1>1, Numbers
  <2>2. ASSUME h - issued \in DOMAIN made PROVE h \in range
    <3>1. DOMAIN new = DOMAIN made /\ new[h - issued] = h
          BY <1>1, <2>2
    <3> HIDE DEF new
    <3> QED
        BY <2>2, <3>1
  <2> QED
      BY <2>1, <2>2
<1>3. ASSUME NEW h \in range PROVE made[h - issued] \in Contents
  <2>1. PICK i \in DOMAIN made : h = issued + i
        OBVIOUS
  <2>2. h - issued = i
        BY <1>1, <2>1
  <2> QED
      BY <2>1, <2>2
<1> HIDE DEF range
<1> QED
    BY <1>1, <1>2, <1>3, PastSteady DEF SteadyInv

LEMMA SetAttributeSteady ==
    ASSUME TypeInv, HistoryInv, SteadyInv, NEW t \in Threads, SetAttribute(t)
    PROVE  SteadyInv'
<1>1. PICK o, change :
         /\ o \in held /\ change \in Changes
         /\ objects[o.handle] # Gone
         /\ objects[o.handle][change[1]] # Unavailable
         /\ ever' = [ever EXCEPT ![o.handle][change[1]] = @ \union {change[2]}]
         /\ issued' = issued
      BY DEF SetAttribute
<1> DEFINE h == o.handle
           a == change[1]
           v == change[2]
<1>2. h \in Handles /\ h \in 1..issued /\ h <= issued /\ a \in Attributes /\ v \in AttributeValues
      BY <1>1, ObjectsHeld, ObjectsAssumption
<1>3. a # Class /\ Unavailable # v
      BY <1>1, <1>2, ClassAssumption, ValuesAssumption
<1> HIDE DEF h, a, v
<1>4. ever' = [ever EXCEPT ![h][a] = @ \union {v}] /\ objects[h] # Gone /\ objects[h][a] # Unavailable
      BY <1>1 DEF h, a, v
<1>5. DOMAIN ever = Handles /\ DOMAIN ever[h] = Attributes /\ objects[h][a] \in ever[h][a]
      BY <1>2, <1>4 DEF HistoryInv
<1>6. /\ \A g : g # h => ever'[g] = ever[g]
      /\ ever'[h][a] = ever[h][a] \union {v}
      /\ \A k : k # a => ever'[h][k] = ever[h][k]
      BY <1>2, <1>4, <1>5
<1>7. Steady(ever[h])
      BY <1>2 DEF SteadyInv
<1>8. /\ ever'[h][a] \subseteq AttributeValues \union {Unavailable}
      /\ Unavailable \notin ever'[h][a]
  <2>1. Unavailable \notin ever[h][a]
        BY <1>2, <1>4, <1>5, <1>7 DEF Steady
  <2> QED
      BY <1>2, <1>3, <1>6, <1>7, <2>1 DEF Steady
<1>9. Steady(ever'[h])
      BY <1>3, <1>6, <1>7, <1>8 DEF Steady
<1> QED
    BY <1>1, <1>6, <1>9 DEF SteadyInv

LEMMA SteadyNext == TypeInv /\ HistoryInv /\ SteadyInv /\ [Next]_vars => SteadyInv'
<1> SUFFICES ASSUME TypeInv, HistoryInv, SteadyInv, [Next]_vars PROVE SteadyInv'
    OBVIOUS
<1>1. CASE UNCHANGED <<ever, issued>>
      BY <1>1 DEF SteadyInv
<1>2. CASE Creating
      BY <1>2, CreateSteady DEF Creating
<1>3. ASSUME NEW t \in Threads, SetAttribute(t) PROVE SteadyInv'
      BY <1>3, SetAttributeSteady
<1>4. ASSUME NEW t \in Threads, Destroy(t) PROVE SteadyInv'
      BY <1>1, <1>4 DEF Destroy
<1>5. CASE UNCHANGED token \/ UNCHANGED vars
      BY <1>1, <1>5 DEF token, vars
<1>6. CASE Next
      BY <1>2, <1>3, <1>4, <1>5, <1>6, TokenSteps DEF Next
<1> QED
    BY <1>5, <1>6

LEMMA SteadyInit == Init => SteadyInv
<1> SUFFICES ASSUME Init, NEW h \in 1..issued PROVE Steady(ever[h])
    BY DEF SteadyInv
<1>1. /\ DOMAIN Stored = 1..Len(Stored) /\ issued = Len(Stored) /\ Len(Stored) <= MaxObjects
      /\ Len(Stored) \in Nat
      BY ObjectsAssumption DEF Init
<1>2. h \in DOMAIN Stored /\ h \in Handles /\ Stored[h] \in Contents
      BY <1>1, ObjectsAssumption, Numbers
<1> QED
    BY <1>2, PastSteady DEF Init

-----------------------------------------------------------------------------
(* What was read.  Of an object that was made: the capabilities that the   *)
(* token object never had and those that it had all the time, if the token *)
(* did not deviate.  What get_attributes has returned.  Of the buffers of  *)
(* a second call, where their sizes come from.  And, one attribute after   *)
(* the other: why not in one go, what has been read so far, the class      *)
(* among it if the token did not deviate, and why not the flags that are   *)
(* done and were not read.                                                 *)

BulkFailed(h, m, e) == <<h, FALSE>> \in m \/ \E k \in Flags : Resized(e[h][k])

FlagFailed(h, f, m, e) ==
    <<h, TRUE>> \in m \/ Unavailable \in e[h][f] \/ Resized(e[h][f])

Excused(o, m, e) ==
    \A f \in o.mixins :
        "yes" \notin e[o.handle][f]
            => o.single /\ BulkFailed(o.handle, m, e) /\ FlagFailed(o.handle, f, m, e)

Honest(o, m, e) ==
    /\ Excused(o, m, e)
    /\ ReadOf(o) \notin m /\ e[o.handle][Class] \subseteq Classes
         => \A f \in Flags : e[o.handle][f] \subseteq {"yes"} => f \in o.mixins

Outs(c) == {c.out[i] : i \in DOMAIN c.out}

Had(h, read, e) ==
    \A k \in DOMAIN read :
        k \in Attributes /\ \E v \in e[h][k] \ {Unavailable} : read[k] = Unpacked(k, v)

ResultTrue(r, m, n, e) ==
    r.kind = "read" =>
        /\ r.handle \in 1..n /\ r.keys \in Seq(Attributes) /\ Had(r.handle, r.read, e)
        /\ <<r.handle, FALSE>> \notin m => \A i \in DOMAIN r.keys :
              r.keys[i] \in DOMAIN r.read \/ Unavailable \in e[r.handle][r.keys[i]]

Sized(buffers, past) ==
    \A k \in DOMAIN buffers : \E v \in past[k] \ {Unavailable} : buffers[k] = Size[v]

FillTrue(c, m, n, obs, e) ==
    c.step = "fill" =>
        /\ c.handle \in 1..n /\ c.keys \in Seq(Attributes) /\ DOMAIN c.buffers \subseteq Attributes
        /\ ReadOf(c) \notin m /\ obs[c.handle] # Gone => Sized(c.buffers, e[c.handle])
        /\ ReadOf(c) \notin m /\ obs[c.handle] # Gone => \A i \in DOMAIN c.keys :
              c.keys[i] \in DOMAIN c.buffers \/ Unavailable \in e[c.handle][c.keys[i]]

Singly(c) == c.step \in Reads /\ c.single

Ahead(c) == KeySet(c.keys) \union KeySet(c.left)

OneTrue(c, m, obs, e) ==
    /\ obs[c.handle] = Gone \/ Unavailable \in e[c.handle][Class] \/ BulkFailed(c.handle, m, e)
    /\ \A f \in Flags : f \in DOMAIN c.read \union Ahead(c) \/ FlagFailed(c.handle, f, m, e)

SinglyTrue(c, m, n, obs, e) ==
    Singly(c) =>
        /\ c.handle \in 1..n /\ Had(c.handle, c.read, e) /\ OneTrue(c, m, obs, e)
        /\ ReadOf(c) \notin m /\ e[c.handle][Class] \subseteq Classes =>
              /\ Class \in DOMAIN c.read \/ c.keys = <<Class>>
              /\ c.step = "fill" /\ c.keys = <<Class>> /\ obs[c.handle] # Gone
                   => c.buffers[Class] = Size[obs[c.handle][Class]]

CallTrue(c, m, n, obs, e) == FillTrue(c, m, n, obs, e) /\ SinglyTrue(c, m, n, obs, e)

TruthInv ==
    /\ DOMAIN result = Threads
    /\ \A o \in held : Honest(o, odd, ever)
    /\ \A t \in Threads :
          /\ \A o \in Outs(call[t]) : Honest(o, odd, ever)
          /\ ResultTrue(result[t], odd, issued, ever)
          /\ CallTrue(call[t], odd, issued, objects, ever)

TruthStep(t, d, r) ==
    /\ call' = [call EXCEPT ![t] = d]
    /\ result' = [result EXCEPT ![t] = r]
    /\ \A o \in held' \union Outs(d) :
          o \in held \union Outs(call[t]) \/ (o \in PyObjects(issued) /\ Honest(o, odd', ever))
    /\ ResultTrue(r, odd', issued, ever)
    /\ CallTrue(d, odd', issued, objects, ever)

LEMMA ClassKey ==
    /\ Class \in Attributes /\ Class \in KeySet(ObjectKeys)
    /\ Flags \subseteq KeySet(ObjectKeys) /\ KeySet(ObjectKeys) = Flags \union {Class}
    /\ Unavailable \notin Classes /\ Unavailable # "yes"
    /\ \A k : Unpacked(k, "yes") = "yes" /\ \A v \in Classes : Unpacked(k, v) = v
BY KeysAssumption, ValuesAssumption DEF Attributes, AttributeValues, Unpacked, NoBytes

LEMMA CausesLast ==
    ASSUME NEW m, NEW n, m \subseteq n, NEW h, NEW e, NEW g,
           \A k \in Attributes : e[h][k] \subseteq g[h][k]
    PROVE  /\ BulkFailed(h, m, e) => BulkFailed(h, n, g)
           /\ \A f \in Flags : FlagFailed(h, f, m, e) => FlagFailed(h, f, n, g)
<1>1. Flags \subseteq Attributes
      BY ObjectsAssumption
<1>2. \A k \in Attributes : Resized(e[h][k]) => Resized(g[h][k])
      BY DEF Resized
<1>3. BulkFailed(h, m, e) => BulkFailed(h, n, g)
      BY <1>1, <1>2 DEF BulkFailed
<1>4. ASSUME NEW f \in Flags, FlagFailed(h, f, m, e) PROVE FlagFailed(h, f, n, g)
      BY <1>1, <1>2, <1>4 DEF FlagFailed
<1> QED
    BY <1>3, <1>4

LEMMA TruthGrows ==
    ASSUME TypeInv, HistoryInv, Grows, TypeInv', odd \subseteq odd'
    PROVE  /\ \A o \in PyObjects(issued) : Honest(o, odd, ever) => Honest(o, odd', ever')
           /\ \A o \in PyObjects(issued) : Honest(o, odd', ever) => Honest(o, odd', ever')
           /\ \A r : ResultTrue(r, odd', issued, ever) => ResultTrue(r, odd', issued', ever')
           /\ \A c : CallTrue(c, odd', issued, objects, ever)
                        => CallTrue(c, odd', issued', objects', ever')
           /\ \A r : ResultTrue(r, odd, issued, ever) => ResultTrue(r, odd', issued, ever)
           /\ \A c : CallTrue(c, odd, issued, objects, ever)
                        => CallTrue(c, odd', issued, objects, ever)
<1>1. /\ issued \in Nat /\ issued' \in Nat /\ 1..issued \subseteq 1..issued'
      BY ObjectsAssumption DEF TypeInv, TokenFits, Grows
<1>2. \A h \in 1..issued, k \in Attributes : ever[h][k] \subseteq ever'[h][k]
      BY DEF Grows
<1>3. ASSUME NEW o \in PyObjects(issued), Honest(o, odd', ever) PROVE Honest(o, odd', ever')
  <2>1. o.handle \in 1..issued /\ o.mixins \subseteq Flags
        BY DEF PyObjects
  <2>2. Flags \subseteq Attributes /\ Class \in Attributes
        BY ClassKey, ObjectsAssumption
  <2>3. /\ BulkFailed(o.handle, odd', ever) => BulkFailed(o.handle, odd', ever')
        /\ \A f \in Flags : FlagFailed(o.handle, f, odd', ever) => FlagFailed(o.handle, f, odd', ever')
        BY <1>2, <2>1, CausesLast
  <2>4. Excused(o, odd', ever')
        BY <1>2, <1>3, <2>1, <2>2, <2>3 DEF Honest, Excused
  <2> QED
      BY <1>2, <1>3, <2>1, <2>2, <2>4 DEF Honest
<1>4. ASSUME NEW keys \in Seq(Attributes) PROVE \A i \in DOMAIN keys : keys[i] \in Attributes
      OBVIOUS
<1>5. ASSUME NEW h \in 1..issued, NEW read, Had(h, read, ever) PROVE Had(h, read, ever')
      BY <1>2, <1>5 DEF Had
<1>6. ASSUME NEW r, ResultTrue(r, odd', issued, ever), r.kind = "read"
      PROVE  ResultTrue(r, odd', issued', ever')
  <2>1. /\ r.handle \in 1..issued /\ r.keys \in Seq(Attributes) /\ Had(r.handle, r.read, ever)
        BY <1>6 DEF ResultTrue
  <2>2. Had(r.handle, r.read, ever')
        BY <1>5, <2>1
  <2>3. <<r.handle, FALSE>> \notin odd' => \A i \in DOMAIN r.keys :
              r.keys[i] \in DOMAIN r.read \/ Unavailable \in ever'[r.handle][r.keys[i]]
        BY <1>2, <1>4, <1>6, <2>1 DEF ResultTrue
  <2> QED
      BY <1>1, <2>1, <2>2, <2>3 DEF ResultTrue
<1>7. ASSUME NEW c, FillTrue(c, odd', issued, objects, ever), c.step = "fill"
      PROVE  FillTrue(c, odd', issued', objects', ever')
  <2>1. /\ c.handle \in 1..issued /\ c.keys \in Seq(Attributes) /\ DOMAIN c.buffers \subseteq Attributes
        BY <1>7 DEF FillTrue
  <2>2. objects'[c.handle] # Gone => objects[c.handle] # Gone
        BY <2>1 DEF Grows
  <2>3. ReadOf(c) \notin odd' /\ objects'[c.handle] # Gone => \A i \in DOMAIN c.keys :
              c.keys[i] \in DOMAIN c.buffers \/ Unavailable \in ever'[c.handle][c.keys[i]]
        BY <1>2, <1>4, <1>7, <2>1, <2>2 DEF FillTrue
  <2>4. Sized(c.buffers, ever[c.handle]) => Sized(c.buffers, ever'[c.handle])
        BY <1>2, <2>1 DEF Sized
  <2>5. ReadOf(c) \notin odd' /\ objects'[c.handle] # Gone => Sized(c.buffers, ever'[c.handle])
        BY <1>7, <2>2, <2>4 DEF FillTrue
  <2> QED
      BY <1>1, <2>1, <2>3, <2>5 DEF FillTrue
<1>8. ASSUME NEW c, SinglyTrue(c, odd', issued, objects, ever), Singly(c)
      PROVE  SinglyTrue(c, odd', issued', objects', ever')
  <2>1. c.handle \in 1..issued /\ Had(c.handle, c.read, ever)
        BY <1>8 DEF SinglyTrue
  <2>2. Had(c.handle, c.read, ever')
        BY <1>5, <2>1
  <2>3. ever'[c.handle][Class] \subseteq Classes => ever[c.handle][Class] \subseteq Classes
        BY <1>2, <2>1, ClassKey
  <2>4. objects'[c.handle] # Gone
          => objects[c.handle] # Gone /\ objects'[c.handle][Class] = objects[c.handle][Class]
        BY <2>1 DEF Grows
  <2>5. ASSUME ReadOf(c) \notin odd', ever'[c.handle][Class] \subseteq Classes
        PROVE  /\ Class \in DOMAIN c.read \/ c.keys = <<Class>>
               /\ c.step = "fill" /\ c.keys = <<Class>> /\ objects'[c.handle] # Gone
                    => c.buffers[Class] = Size[objects'[c.handle][Class]]
        BY <1>8, <2>3, <2>4, <2>5 DEF SinglyTrue
  <2>6. /\ BulkFailed(c.handle, odd', ever) => BulkFailed(c.handle, odd', ever')
        /\ \A f \in Flags : FlagFailed(c.handle, f, odd', ever) => FlagFailed(c.handle, f, odd', ever')
        BY <1>2, <2>1, CausesLast
  <2>7. Unavailable \in ever[c.handle][Class] => Unavailable \in ever'[c.handle][Class]
        BY <1>2, <2>1, ClassKey
  <2>8. OneTrue(c, odd', objects', ever')
        BY <1>8, <2>4, <2>6, <2>7 DEF SinglyTrue, OneTrue
  <2> QED
      BY <1>1, <2>1, <2>2, <2>5, <2>8 DEF SinglyTrue
<1>0. \A h : /\ BulkFailed(h, odd, ever) => BulkFailed(h, odd', ever)
             /\ \A f \in Flags : FlagFailed(h, f, odd, ever) => FlagFailed(h, f, odd', ever)
      BY CausesLast
<1>9. ASSUME NEW o \in PyObjects(issued), Honest(o, odd, ever) PROVE Honest(o, odd', ever)
  <2>1. Excused(o, odd', ever)
        BY <1>0, <1>9 DEF Honest, Excused, PyObjects
  <2> QED
      BY <1>9, <2>1 DEF Honest
<1>10. \A r : ResultTrue(r, odd, issued, ever) => ResultTrue(r, odd', issued, ever)
      BY DEF ResultTrue
<1>11. \A c : FillTrue(c, odd, issued, objects, ever) => FillTrue(c, odd', issued, objects, ever)
      BY DEF FillTrue
<1>12. \A c : SinglyTrue(c, odd, issued, objects, ever) => SinglyTrue(c, odd', issued, objects, ever)
      BY <1>0 DEF SinglyTrue, OneTrue
<1>13. \A r : r.kind # "read" => ResultTrue(r, odd', issued', ever')
      BY DEF ResultTrue
<1>14. \A c : c.step # "fill" => FillTrue(c, odd', issued', objects', ever')
      BY DEF FillTrue
<1>15. \A c : ~Singly(c) => SinglyTrue(c, odd', issued', objects', ever')
      BY DEF SinglyTrue
<1> QED
    BY <1>3, <1>6, <1>7, <1>8, <1>9, <1>10, <1>11, <1>12, <1>13, <1>14, <1>15 DEF CallTrue

LEMMA OutsFit ==
    ASSUME TypeInv, NEW t \in Threads
    PROVE  Outs(call[t]) \subseteq PyObjects(issued)
<1>1. call[t].out \in Seq(PyObjects(issued))
      BY DEF TypeInv, CallFits, CallHolds
<1> QED
    BY <1>1 DEF Outs

LEMMA StepKeepsTruth ==
    ASSUME TypeInv, HistoryInv, TruthInv, Grows, TypeInv', odd \subseteq odd',
           NEW t \in Threads, NEW d, NEW r, TruthStep(t, d, r)
    PROVE  TruthInv'
<1>1. \A o \in held \union Outs(call[t]) : o \in PyObjects(issued) /\ Honest(o, odd, ever)
      BY OutsFit DEF TypeInv, TruthInv
<1>2. \A o \in held' \union Outs(d) : Honest(o, odd', ever')
      BY <1>1, TruthGrows DEF TruthStep
<1>3. call'[t] = d /\ result'[t] = r /\ DOMAIN result' = Threads
      BY DEF TruthStep, TruthInv, TypeInv
<1>4. /\ ResultTrue(result'[t], odd', issued', ever')
      /\ CallTrue(call'[t], odd', issued', objects', ever')
      BY <1>3, TruthGrows DEF TruthStep
<1>5. ASSUME NEW u \in Threads, u # t
      PROVE  /\ \A o \in Outs(call'[u]) : Honest(o, odd', ever')
             /\ ResultTrue(result'[u], odd', issued', ever')
             /\ CallTrue(call'[u], odd', issued', objects', ever')
  <2>1. call'[u] = call[u] /\ result'[u] = result[u]
        BY <1>5 DEF TruthStep, TruthInv, TypeInv
  <2>2. \A o \in Outs(call[u]) : o \in PyObjects(issued) /\ Honest(o, odd, ever)
        BY OutsFit DEF TruthInv
  <2>3. /\ ResultTrue(result[u], odd, issued, ever)
        /\ CallTrue(call[u], odd, issued, objects, ever)
        BY DEF TruthInv
  <2> QED
      BY <2>1, <2>2, <2>3, TruthGrows
<1>6. \A u \in Threads :
             /\ \A o \in Outs(call'[u]) : Honest(o, odd', ever')
             /\ ResultTrue(result'[u], odd', issued', ever')
             /\ CallTrue(call'[u], odd', issued', objects', ever')
      BY <1>2, <1>3, <1>4, <1>5
<1> QED
    BY <1>2, <1>3, <1>6 DEF TruthInv, Outs

-----------------------------------------------------------------------------

(* A step that makes no object, begins no second call, does not read one   *)
(* attribute after the other and returns nothing.                          *)
LEMMA PlainTruth ==
    ASSUME TypeInv, NEW t \in Threads, NEW d, NEW r, call' = [call EXCEPT ![t] = d],
           result' = [result EXCEPT ![t] = r], r.kind # "read", d.step # "fill", ~Singly(d),
           held' \subseteq held \union Outs(call[t]), Outs(d) \subseteq held \union Outs(call[t])
    PROVE  \E e, s : TruthStep(t, e, s)
<1>1. TruthStep(t, d, r)
      BY DEF TruthStep, ResultTrue, CallTrue, FillTrue, SinglyTrue
<1> QED
    BY <1>1

LEMMA NoneOut ==
    /\ Outs(NoCall) = {} /\ NoCall.step # "fill" /\ NoResult.kind # "read" /\ ~Singly(NoCall)
    /\ \A c : c.out = <<>> => Outs(c) = {}
BY DEF Outs, NoCall, NoResult, Singly, Reads

LEMMA EndsTruth ==
    ASSUME TypeInv, NEW t \in Threads, NEW r, Ends(t, call[t], r), r.kind # "read",
           held' \subseteq held \union Outs(call[t])
    PROVE  \E e, s : TruthStep(t, e, s)
BY NoneOut, PlainTruth DEF Ends

LEMMA GoesTruth ==
    ASSUME TypeInv, NEW t \in Threads, NEW d, Goes(t, d), d.step # "fill", ~Singly(d),
           d.out \in {call[t].out, <<>>}, held' = held
    PROVE  \E e, s : TruthStep(t, e, s)
<1>1. Outs(d) \subseteq Outs(call[t])
      BY NoneOut DEF Outs
<1> QED
    BY <1>1, NoneOut, PlainTruth DEF Goes

LEMMA MakingParts ==
    \A c : DOMAIN c = Fields =>
        Making(c).out = c.out /\ Making(c).step = "query" /\ Making(c).single = FALSE
BY DEF Making, Reading, Fields

LEMMA CreateTruth ==
    ASSUME TypeInv, NEW t \in Threads, NEW c, DOMAIN c = Fields, NEW made, Create(t, c, made),
           held' = held
    PROVE  \E e, s : TruthStep(t, e, s)
<1> DEFINE new == [i \in DOMAIN made |-> issued + i]
           b == [c EXCEPT !.op = IF @ = "dsa" THEN "dsa" ELSE "create", !.todo = new, !.out = <<>>]
<1>1. DOMAIN b = Fields /\ b.out = <<>> /\ Goes(t, Making(b))
      BY DEF Create, Fields
<1> HIDE DEF b
<1>2. Making(b).out = <<>> /\ Making(b).step # "fill" /\ ~Singly(Making(b))
      BY <1>1, MakingParts DEF Singly
<1> QED
    BY <1>1, <1>2, GoesTruth

LEMMA ReceiveTruth ==
    ASSUME TypeInv, NEW t \in Threads, NEW obj \in PyObjects(issued), Honest(obj, odd', ever),
           Receive(t, call[t], obj)
    PROVE  \E e, s : TruthStep(t, e, s)
<1> DEFINE c == call[t]
           out == Append(c.out, obj)
           all == held \union Outs(c) \union {obj}
           b == [c EXCEPT !.out = out]
<1>1. DOMAIN c = Fields /\ c.out \in Seq(PyObjects(issued))
      BY DEF TypeInv, CallFits, CallHolds
<1>2. {out[i] : i \in DOMAIN out} \subseteq Outs(c) \union {obj}
  <2>1. /\ DOMAIN out = 1..(Len(c.out) + 1) /\ DOMAIN c.out = 1..Len(c.out) /\ Len(c.out) \in Nat
        /\ out[Len(c.out) + 1] = obj /\ \A i \in 1..Len(c.out) : out[i] = c.out[i]
        BY <1>1
  <2>2. ASSUME NEW i \in DOMAIN out PROVE out[i] \in Outs(c) \union {obj}
    <3>1. i \in 1..Len(c.out) \/ i = Len(c.out) + 1
          BY <2>1
    <3> QED
        BY <2>1, <3>1 DEF Outs
  <2> QED
      BY <2>2
<1>3. DOMAIN b = Fields /\ b.out = out
      BY <1>1 DEF Fields
<1>4. ASSUME NEW d, call' = [call EXCEPT ![t] = d], d.step # "fill", ~Singly(d),
             held' \subseteq all, Outs(d) \subseteq all, result' = [result EXCEPT ![t] = NoResult]
      PROVE  \E e, s : TruthStep(t, e, s)
  <2>1. TruthStep(t, d, NoResult)
        BY <1>4, NoneOut DEF TruthStep, ResultTrue, CallTrue, FillTrue, SinglyTrue
  <2> QED
      BY <2>1
<1> HIDE DEF b, out, all
<1>5. CASE Goes(t, Making(b)) /\ held' = held
  <2>1. Outs(Making(b)) \subseteq all /\ Making(b).step # "fill" /\ ~Singly(Making(b))
        BY <1>2, <1>3, MakingParts DEF Outs, all, Singly
  <2> QED
      BY <1>4, <1>5, <2>1 DEF Goes, all
<1>6. CASE held' = held \union {out[i] : i \in DOMAIN out} /\ Ends(t, c, NoResult)
      BY <1>2, <1>4, <1>6, NoneOut DEF Ends, all
<1>7. CASE Goes(t, Reading([c EXCEPT !.op = "params", !.single = FALSE], c.handle, ParamKeys))
           /\ held' = held
  <2> DEFINE d == Reading([c EXCEPT !.op = "params", !.single = FALSE], c.handle, ParamKeys)
  <2>1. d.out = c.out /\ d.step = "query" /\ d.single = FALSE
        BY <1>1 DEF Reading, Fields
  <2> HIDE DEF d
  <2>2. Outs(d) \subseteq all /\ ~Singly(d)
        BY <2>1 DEF Outs, all, Singly
  <2> QED
      BY <1>4, <1>7, <2>1, <2>2 DEF Goes, all, d
<1>8. ASSUME NEW step \in {"yield", "next", "raised"}, held' \subseteq held \union {obj},
             Goes(t, [c EXCEPT !.step = step, !.out = out])
      PROVE  \E e, s : TruthStep(t, e, s)
  <2> DEFINE d == [c EXCEPT !.step = step, !.out = out]
  <2>1. d.out = out /\ d.step = step
        BY <1>1 DEF Fields
  <2> HIDE DEF d
  <2>2. Outs(d) \subseteq all /\ ~Singly(d)
        BY <1>2, <1>8, <2>1 DEF Outs, all, Singly, Reads
  <2> QED
      BY <1>4, <1>8, <2>1, <2>2 DEF Goes, all, d
<1>9. \/ Goes(t, Making(b)) /\ held' = held
      \/ held' = held \union {out[i] : i \in DOMAIN out} /\ Ends(t, c, NoResult)
      \/ /\ Goes(t, Reading([c EXCEPT !.op = "params", !.single = FALSE], c.handle, ParamKeys))
         /\ held' = held
      \/ held' \subseteq held \union {obj} /\ Goes(t, [c EXCEPT !.step = "yield", !.out = out])
      \/ held' \subseteq held \union {obj} /\ Goes(t, [c EXCEPT !.step = "next", !.out = out])
      \/ held' \subseteq held \union {obj} /\ Goes(t, [c EXCEPT !.step = "raised", !.out = out])
      \/ Raise(t)
      BY DEF Receive, b, out
<1>10. CASE Raise(t)
  <2>1. Ends(t, call[t], NoResult) /\ held' = held
        BY <1>10 DEF Raise
  <2> QED
      BY <2>1, NoneOut, EndsTruth
<1> QED
    BY <1>5, <1>6, <1>7, <1>8, <1>9, <1>10

LEMMA AllAhead ==
    ASSUME NEW S, NEW list \in Seq(S), list # <<>>
    PROVE  KeySet(<<Head(list)>>) \union KeySet(Tail(list)) = KeySet(list)
<1>1. KeySet(<<Head(list)>>) = {Head(list)}
      BY SingleKey
<1> QED
    BY <1>1, HeadAndTail DEF KeySet

LEMMA OneByOneTruth ==
    ASSUME TypeInv, NEW t \in Threads, call[t].step \in Reads, NEW left, NEW read,
           Goes(t, OneByOne(call[t], left, read)), held' = held, Had(call[t].handle, read, ever),
           left \in Seq(KeySet(ObjectKeys)), left # <<>>,
           \/ Head(left) = Class
           \/ /\ <<call[t].handle, TRUE>> \notin odd' /\ ever[call[t].handle][Class] \subseteq Classes
              => Class \in DOMAIN read,
           \/ objects[call[t].handle] = Gone \/ Unavailable \in ever[call[t].handle][Class]
           \/ BulkFailed(call[t].handle, odd', ever),
           \A f \in Flags :
              f \in DOMAIN read \union KeySet(left) \/ FlagFailed(call[t].handle, f, odd', ever)
    PROVE  \E e, s : TruthStep(t, e, s)
<1> DEFINE c == call[t]
           d == OneByOne(c, left, read)
<1>1. DOMAIN c = Fields /\ c.handle \in 1..issued
      BY DEF TypeInv, CallFits, CallHolds
<1>2. /\ d.out = c.out /\ d.step = "query" /\ d.handle = c.handle /\ d.read = read
      /\ d.single = TRUE /\ d.keys = <<Head(left)>> /\ d.left = Tail(left)
      BY <1>1 DEF OneByOne, Reading, Fields
<1> HIDE DEF d
<1>3. ReadOf(d) = <<c.handle, TRUE>>
      BY <1>2 DEF ReadOf
<1>0. Ahead(d) = KeySet(left)
      BY <1>2, AllAhead DEF Ahead
<1>7. OneTrue(d, odd', objects, ever)
      BY <1>0, <1>2 DEF OneTrue
<1>4. CallTrue(d, odd', issued, objects, ever)
      BY <1>1, <1>2, <1>3, <1>7 DEF CallTrue, FillTrue, SinglyTrue
<1>5. Outs(d) = Outs(c)
      BY <1>2 DEF Outs
<1>6. TruthStep(t, d, NoResult)
      BY <1>4, <1>5, NoneOut DEF TruthStep, ResultTrue, Goes, d
<1> QED
    BY <1>6

(* The bytes are values that the attributes have had.                      *)
TrueBytes(h, bytes) ==
    DOMAIN bytes \subseteq Attributes /\ \A k \in DOMAIN bytes : bytes[k] \in ever[h][k] \ {Unavailable}

LEMMA BytesHad ==
    ASSUME NEW h, NEW bytes, TrueBytes(h, bytes)
    PROVE  /\ DOMAIN AsDict(bytes) = DOMAIN bytes /\ Had(h, AsDict(bytes), ever)
           /\ \A read : Had(h, read, ever) =>
                 /\ Had(h, Merge(read, AsDict(bytes)), ever)
                 /\ DOMAIN Merge(read, AsDict(bytes)) = DOMAIN read \union DOMAIN bytes
<1>1. DOMAIN AsDict(bytes) = DOMAIN bytes /\ Had(h, AsDict(bytes), ever)
      BY DEF AsDict, TrueBytes, Had
<1>2. ASSUME NEW read, Had(h, read, ever)
      PROVE  /\ Had(h, Merge(read, AsDict(bytes)), ever)
             /\ DOMAIN Merge(read, AsDict(bytes)) = DOMAIN read \union DOMAIN bytes
      BY <1>1, <1>2 DEF Merge, Had
<1> QED
    BY <1>1, <1>2

LEMMA MixinsTrue ==
    ASSUME TypeInv, NEW h \in 1..issued, NEW read, Had(h, read, ever)
    PROVE  \A f \in NewObject(h, read, FALSE).mixins : "yes" \in ever[h][f]
<1> DEFINE o == NewObject(h, read, FALSE)
<1>1. o.mixins \subseteq {f \in Flags : IsTrue(read, FALSE, f)}
      BY DEF NewObject
<1>2. ASSUME NEW f \in Flags, IsTrue(read, FALSE, f) PROVE "yes" \in ever[h][f]
  <2>1. f \in DOMAIN read /\ read[f] = "yes"
        BY <1>2 DEF IsTrue
  <2>2. PICK v \in ever[h][f] \ {Unavailable} : read[f] = Unpacked(f, v)
        BY <2>1 DEF Had
  <2>3. v = "yes"
        BY <2>1, <2>2, ValuesAssumption DEF Unpacked, NoBytes
  <2> QED
      BY <2>2, <2>3
<1> QED
    BY <1>1, <1>2

(* The class was read, and all flags were or are taken to be set.          *)
LEMMA AllMixins ==
    ASSUME TypeInv, NEW h \in 1..issued, NEW read, Had(h, read, ever), NEW single \in BOOLEAN,
           ever[h][Class] \subseteq Classes, Class \in DOMAIN read,
           \A f \in Flags : single \/ f \in DOMAIN read \/ Unavailable \in ever[h][f],
           NEW f \in Flags, ever[h][f] \subseteq {"yes"}
    PROVE  f \in NewObject(h, read, single).mixins
<1>1. ClassOf(read) \in Classes
  <2>1. PICK v \in ever[h][Class] \ {Unavailable} : read[Class] = Unpacked(Class, v)
        BY DEF Had
  <2>2. read[Class] \in Classes
        BY <2>1, ClassKey
  <2> QED
      BY <2>2 DEF ClassOf
<1>2. ClassOf(read) # Plain
      BY <1>1, ObjectsAssumption
<1>3. IsTrue(read, single, f)
  <2>1. f \in DOMAIN read => read[f] = "yes"
    <3>1. SUFFICES ASSUME f \in DOMAIN read PROVE read[f] = "yes"
          OBVIOUS
    <3>2. PICK v \in ever[h][f] \ {Unavailable} : read[f] = Unpacked(f, v)
          BY <3>1 DEF Had
    <3>3. v = "yes"
          BY <3>2
    <3> QED
        BY <3>2, <3>3, ClassKey
  <2>2. f \notin DOMAIN read => single = TRUE
        BY ClassKey
  <2> QED
      BY <2>1, <2>2 DEF IsTrue
<1> QED
    BY <1>2, <1>3 DEF NewObject

(* What is known of the bytes read if the token did not deviate.           *)
Covers(c, bytes) ==
    ReadOf(c) \notin odd' /\ c.op # "params" =>
        /\ ~c.single => \A i \in DOMAIN c.keys :
              c.keys[i] \in DOMAIN bytes \/ Unavailable \in ever[c.handle][c.keys[i]]
        /\ c.single /\ ever[c.handle][Class] \subseteq Classes
              => Class \in DOMAIN c.read \union DOMAIN bytes

(* What is known of a flag that is read alone.                             *)
Explains(c, bytes) ==
    c.single =>
        /\ objects[c.handle] # Gone
        /\ \A f \in Flags \intersect KeySet(c.keys) :
              f \in DOMAIN bytes \/ FlagFailed(c.handle, f, odd', ever)

LEMMA BulkHonest ==
    ASSUME TypeInv, NEW c, c.handle \in 1..issued, NEW bytes, TrueBytes(c.handle, bytes),
           Covers(c, bytes), c.single = FALSE, c.op # "params", c.keys = ObjectKeys
    PROVE  Honest(NewObject(c.handle, AsDict(bytes), FALSE), odd', ever)
<1> DEFINE h == c.handle
           o == NewObject(h, AsDict(bytes), FALSE)
<1>1. DOMAIN AsDict(bytes) = DOMAIN bytes /\ Had(h, AsDict(bytes), ever)
      BY BytesHad
<1>2. o.handle = h /\ o.single = FALSE /\ ReadOf(o) = <<h, FALSE>> /\ ReadOf(c) = <<h, FALSE>>
      BY DEF NewObject, ReadOf
<1>3. \A f \in o.mixins : "yes" \in ever[h][f]
      BY <1>1, MixinsTrue
<1>4. ASSUME <<h, FALSE>> \notin odd', ever[h][Class] \subseteq Classes, NEW f \in Flags,
             ever[h][f] \subseteq {"yes"}
      PROVE  f \in o.mixins
  <2>1. \A k \in KeySet(ObjectKeys) : k \in DOMAIN bytes \/ Unavailable \in ever[h][k]
        BY <1>2, <1>4 DEF Covers, KeySet
  <2>2. Class \in DOMAIN AsDict(bytes)
        BY <1>1, <1>4, <2>1, ClassKey
  <2>3. \A g \in Flags : g \in DOMAIN AsDict(bytes) \/ Unavailable \in ever[h][g]
        BY <1>1, <2>1, ClassKey
  <2> QED
      BY <1>1, <1>4, <2>2, <2>3, AllMixins
<1> HIDE DEF o
<1> QED
    BY <1>2, <1>3, <1>4 DEF Honest, Excused, o

LEMMA SinglyHonest ==
    ASSUME TypeInv, SteadyInv, odd \subseteq odd', NEW c, c.handle \in 1..issued, NEW bytes,
           TrueBytes(c.handle, bytes), Covers(c, bytes), Explains(c, bytes), c.single = TRUE,
           c.op # "params", Had(c.handle, c.read, ever), OneTrue(c, odd, objects, ever),
           KeySet(c.left) = {}
    PROVE  Honest(NewObject(c.handle, Merge(c.read, AsDict(bytes)), TRUE), odd', ever)
<1> DEFINE h == c.handle
           read == Merge(c.read, AsDict(bytes))
           o == NewObject(h, read, TRUE)
<1>1. DOMAIN read = DOMAIN c.read \union DOMAIN bytes /\ Had(h, read, ever)
      BY BytesHad
<1> HIDE DEF read
<1>2. o.handle = h /\ o.single = TRUE /\ ReadOf(o) = <<h, TRUE>> /\ ReadOf(c) = <<h, TRUE>>
      BY DEF NewObject, ReadOf
<1>3. ASSUME <<h, TRUE>> \notin odd', ever[h][Class] \subseteq Classes, NEW f \in Flags,
             ever[h][f] \subseteq {"yes"}
      PROVE  f \in o.mixins
  <2>1. Class \in DOMAIN read
        BY <1>1, <1>2, <1>3 DEF Covers
  <2> QED
      BY <1>1, <1>3, <2>1, AllMixins
<1>4. ASSUME NEW f \in o.mixins, "yes" \notin ever[h][f]
      PROVE  BulkFailed(h, odd', ever) /\ FlagFailed(h, f, odd', ever)
  <2>1. f \in Flags /\ Class \in DOMAIN read /\ IsTrue(read, TRUE, f)
        BY <1>4, ObjectsAssumption DEF NewObject, ClassOf
  <2>2. /\ BulkFailed(h, odd, ever) => BulkFailed(h, odd', ever)
        /\ \A g \in Flags : FlagFailed(h, g, odd, ever) => FlagFailed(h, g, odd', ever)
        BY CausesLast
  <2>3. Unavailable \notin ever[h][Class]
        BY <1>1, <2>1, ClassKey DEF Had, SteadyInv, Steady
  <2>4. BulkFailed(h, odd', ever)
        BY <2>2, <2>3 DEF OneTrue, Explains
  <2>5. f \notin DOMAIN read
    <3>1. SUFFICES ASSUME f \in DOMAIN read PROVE FALSE
          OBVIOUS
    <3>2. PICK v \in ever[h][f] \ {Unavailable} : read[f] = Unpacked(f, v)
          BY <1>1, <3>1 DEF Had
    <3>3. read[f] = "yes"
          BY <2>1, <3>1 DEF IsTrue
    <3>4. v = "yes"
          BY <3>2, <3>3, ValuesAssumption DEF Unpacked, NoBytes
    <3> QED
        BY <1>4, <3>2, <3>4
  <2>6. FlagFailed(h, f, odd', ever)
        BY <1>1, <2>1, <2>2, <2>5 DEF OneTrue, Ahead, Explains
  <2> QED
      BY <2>4, <2>6
<1> HIDE DEF o
<1> QED
    BY <1>2, <1>3, <1>4 DEF Honest, Excused, o, read

LEMMA ReadTruth ==
    ASSUME TypeInv, SteadyInv, TruthInv, odd \subseteq odd', NEW t \in Threads,
           call[t].step \in Reads, NEW bytes, TrueBytes(call[t].handle, bytes), Read(t, bytes),
           Covers(call[t], bytes), Explains(call[t], bytes)
    PROVE  \E e, s : TruthStep(t, e, s)
<1> DEFINE c == call[t]
           attributes == AsDict(bytes)
           all == Merge(c.read, attributes)
           r == [kind |-> "read", handle |-> c.handle, keys |-> c.keys, read |-> attributes]
<1>1. /\ issued \in Nat /\ DOMAIN c = Fields /\ c.handle \in 1..issued /\ KeysFit(c)
      BY Numbers DEF TypeInv, CallFits, CallHolds
<1>2. CASE Raise(t)
      BY <1>2, NoneOut, EndsTruth DEF Raise
<1>3. CASE c.op = "get" /\ held' = held /\ Ends(t, c, r)
  <2>1. DOMAIN attributes = DOMAIN bytes /\ Had(c.handle, attributes, ever)
        BY BytesHad
  <2>2. r.kind = "read" /\ r.handle = c.handle /\ r.keys = c.keys /\ r.read = attributes
        OBVIOUS
  <2>3. c.keys \in Seq(Attributes) /\ c.single = FALSE
        BY <1>1, <1>3 DEF KeysFit
  <2>4. ReadOf(c) = <<c.handle, FALSE>>
        BY <2>3 DEF ReadOf
  <2> HIDE DEF r, attributes
  <2>5. ResultTrue(r, odd', issued, ever)
        BY <1>1, <1>3, <2>1, <2>2, <2>3, <2>4 DEF ResultTrue, Covers
  <2>6. TruthStep(t, NoCall, r)
        BY <1>3, <2>5, NoneOut DEF TruthStep, CallTrue, FillTrue, SinglyTrue, Ends
  <2> QED
      BY <2>6
<1>4. CASE held' = held /\ Ends(t, c, NoResult)
      BY <1>4, NoneOut, EndsTruth
<1>5. ASSUME NEW made, Create(t, c, made), held' = held PROVE \E e, s : TruthStep(t, e, s)
      BY <1>1, <1>5, CreateTruth
<1>6. ASSUME c.op \notin {"get", "params"}, c.single = FALSE,
             Receive(t, c, NewObject(c.handle, attributes, FALSE))
      PROVE  \E e, s : TruthStep(t, e, s)
  <2>1. NewObject(c.handle, attributes, FALSE) \in PyObjects(issued)
        BY <1>1, NewObjectFits
  <2>2. c.keys = ObjectKeys
        BY <1>1, <1>6 DEF KeysFit
  <2>3. Honest(NewObject(c.handle, attributes, FALSE), odd', ever)
        BY <1>1, <1>6, <2>2, BulkHonest
  <2> QED
      BY <1>6, <2>1, <2>3, ReceiveTruth
<1>7. ASSUME c.single = TRUE
      PROVE  Had(c.handle, c.read, ever) /\ OneTrue(c, odd, objects, ever)
      BY <1>7 DEF TruthInv, CallTrue, SinglyTrue, Singly
<1>8. ASSUME c.op \notin {"get", "params"}, c.single = TRUE, c.left = <<>>,
             Receive(t, c, NewObject(c.handle, all, TRUE))
      PROVE  \E e, s : TruthStep(t, e, s)
  <2>1. NewObject(c.handle, all, TRUE) \in PyObjects(issued)
        BY <1>1, NewObjectFits
  <2>2. KeySet(c.left) = {}
        BY <1>8 DEF KeySet
  <2>3. Honest(NewObject(c.handle, all, TRUE), odd', ever)
        BY <1>1, <1>7, <1>8, <2>2, SinglyHonest
  <2> QED
      BY <1>8, <2>1, <2>3, ReceiveTruth
<1>9. CASE /\ c.op \notin {"get", "params"} /\ c.single = TRUE /\ c.left # <<>>
           /\ held' = held /\ Goes(t, OneByOne(c, c.left, all))
  <2>1. Had(c.handle, all, ever) /\ DOMAIN all = DOMAIN c.read \union DOMAIN bytes
        BY <1>7, <1>9, BytesHad
  <2>2. ReadOf(c) = <<c.handle, TRUE>>
        BY <1>9 DEF ReadOf
  <2> HIDE DEF all
  <2>3. <<c.handle, TRUE>> \notin odd' /\ ever[c.handle][Class] \subseteq Classes
          => Class \in DOMAIN all
        BY <1>9, <2>1, <2>2 DEF Covers
  <2>4. /\ BulkFailed(c.handle, odd, ever) => BulkFailed(c.handle, odd', ever)
        /\ \A f \in Flags : FlagFailed(c.handle, f, odd, ever) => FlagFailed(c.handle, f, odd', ever)
        BY CausesLast
  <2>5. \/ objects[c.handle] = Gone \/ Unavailable \in ever[c.handle][Class]
        \/ BulkFailed(c.handle, odd', ever)
        BY <1>7, <1>9, <2>4 DEF OneTrue
  <2>6. \A f \in Flags :
           f \in DOMAIN all \union KeySet(c.left) \/ FlagFailed(c.handle, f, odd', ever)
        BY <1>7, <1>9, <2>1, <2>4 DEF OneTrue, Ahead, Explains
  <2>7. c.left \in Seq(KeySet(ObjectKeys))
        BY DEF TypeInv, CallFits, CallHolds
  <2> QED
      BY <1>9, <2>1, <2>3, <2>5, <2>6, <2>7, OneByOneTruth
<1>10. c.single \in BOOLEAN
       BY <1>1 DEF KeysFit
<1> HIDE DEF r, attributes, all
<1>11. CASE c.op = "get"
      BY <1>2, <1>3, <1>11 DEF Read, r, attributes
<1>12. CASE c.op = "params"
      BY <1>2, <1>4, <1>5, <1>12 DEF Read
<1>13. CASE c.op \notin {"get", "params"}
      BY <1>2, <1>6, <1>8, <1>9, <1>10, <1>13 DEF Read, attributes, all
<1> QED
    BY <1>11, <1>12, <1>13

(* Why attributes could not be read: the object is gone, the token         *)
(* deviated, the object shows none of them, or one of them got larger      *)
(* between the two calls.                                                  *)
WhyUnread(c, rv) ==
    \/ objects[c.handle] = Gone /\ rv = "CKR_OBJECT_HANDLE_INVALID"
    \/ /\ objects[c.handle] # Gone
       /\ \/ ReadOf(c) \in odd'
          \/ \A k \in KeySet(c.keys) : Unavailable \in ever[c.handle][k]
          \/ \E k \in KeySet(c.keys) : Resized(ever[c.handle][k])

LEMMA ClassNotResized == SteadyInv => \A h \in 1..issued : ~Resized(ever[h][Class])
<1> SUFFICES ASSUME SteadyInv, NEW h \in 1..issued, NEW v \in ever[h][Class] \ {Unavailable},
                    NEW w \in ever[h][Class] \ {Unavailable}, Size[v] < Size[w]
             PROVE  FALSE
    BY DEF Resized
<1>1. v = w /\ v \in AttributeValues
      BY ClassKey DEF SteadyInv, Steady
<1>2. Size[v] \in Nat
      BY <1>1, ValuesAssumption
<1> QED
    BY <1>1, <1>2

LEMMA UnreadTruth ==
    ASSUME TypeInv, SteadyInv, TruthInv, odd \subseteq odd', NEW t \in Threads,
           call[t].step \in Reads, NEW rv, Unread(t, rv), WhyUnread(call[t], rv),
           /\ call[t].single /\ ReadOf(call[t]) \notin odd'
           /\ ever[call[t].handle][Class] \subseteq Classes
           => Class \in DOMAIN call[t].read \/ rv = "CKR_OBJECT_HANDLE_INVALID"
    PROVE  \E e, s : TruthStep(t, e, s)
<1> DEFINE c == call[t]
<1>0. c.handle \in 1..issued /\ KeysFit(c)
      BY DEF TypeInv, CallFits
<1>1. CASE /\ Goes(t, OneByOne(c, ObjectKeys, <<>>)) /\ held' = held
           /\ c.op \notin {"get", "params"} /\ c.single = FALSE
  <2>1. Had(c.handle, <<>>, ever) /\ Head(ObjectKeys) = Class
        BY DEF Had, Class
  <2>2. c.keys = ObjectKeys /\ ReadOf(c) = <<c.handle, FALSE>>
        BY <1>0, <1>1 DEF KeysFit, ReadOf
  <2>3. \/ objects[c.handle] = Gone \/ Unavailable \in ever[c.handle][Class]
        \/ BulkFailed(c.handle, odd', ever)
        BY <1>0, <2>2, ClassKey, ClassNotResized DEF WhyUnread, BulkFailed
  <2>4. Flags \subseteq KeySet(ObjectKeys)
        BY ClassKey
  <2> HIDE DEF Class
  <2> QED
      BY <1>1, <2>1, <2>3, <2>4, KeysListed, OneByOneTruth
<1>2. CASE /\ c.op # "get" /\ Read(t, <<>>) /\ Raised[rv] \in Skipped(c.op)
           /\ c.op = "params" \/ c.single = TRUE
  <2>1. TrueBytes(c.handle, <<>>)
        BY DEF TrueBytes
  <2>2. rv # "CKR_OBJECT_HANDLE_INVALID"
        BY <1>2 DEF Skipped, Raised
  <2>3. Covers(c, <<>>)
        BY <1>2, <2>2 DEF Covers
  <2>4. ASSUME c.single = TRUE
        PROVE  /\ objects[c.handle] # Gone
               /\ \A f \in Flags \intersect KeySet(c.keys) : FlagFailed(c.handle, f, odd', ever)
    <3>1. ReadOf(c) = <<c.handle, TRUE>>
          BY <2>4 DEF ReadOf
    <3>2. PICK k : KeySet(c.keys) = {k}
          BY <1>0, <2>4, SingleKey DEF KeysFit
    <3> QED
        BY <2>2, <3>1, <3>2 DEF WhyUnread, FlagFailed
  <2>5. Explains(c, <<>>)
        BY <1>0, <2>4 DEF Explains, KeysFit
  <2> QED
      BY <1>2, <2>1, <2>3, <2>5, ReadTruth
<1>3. CASE Raise(t)
      BY <1>3, NoneOut, EndsTruth DEF Raise
<1>4. c.single \in BOOLEAN
      BY DEF TypeInv, CallFits, KeysFit
<1> QED
    BY <1>1, <1>2, <1>3, <1>4 DEF Unread

(* The answers of the token.                                               *)
LEMMA SizesAnswered ==
    ASSUME NEW object \in Contents \union {Gone}, NEW keys \in Seq(Attributes),
           NEW answer \in {SizeAnswer(object, keys)} \union OddSizeAnswers(object, keys)
    PROVE  /\ DOMAIN Buffers(keys, answer) \subseteq Attributes
           /\ answer = SizeAnswer(object, keys) /\ object # Gone =>
                 /\ \A i \in DOMAIN keys :
                       keys[i] \in DOMAIN Buffers(keys, answer) \/ object[keys[i]] = Unavailable
                 /\ \A k \in DOMAIN Buffers(keys, answer) :
                       object[k] # Unavailable /\ Buffers(keys, answer)[k] = Size[object[k]]
<1>1. \A i \in DOMAIN keys : keys[i] \in Attributes
      OBVIOUS
<1>2. DOMAIN answer.sizes = DOMAIN keys
      BY DEF SizeAnswer, OddSizeAnswers, Sizes, Unsized
<1>3. DOMAIN Buffers(keys, answer) = {keys[i] : i \in Retrievable(answer)}
      BY DEF Buffers
<1>4. DOMAIN Buffers(keys, answer) \subseteq Attributes
      BY <1>1, <1>2, <1>3 DEF Retrievable, Scanned
<1>5. ASSUME answer = SizeAnswer(object, keys), object # Gone, NEW i \in DOMAIN keys,
             object[keys[i]] # Unavailable
      PROVE  keys[i] \in DOMAIN Buffers(keys, answer)
  <2>1. answer.sizes = Sizes(object, keys)
        BY <1>5 DEF SizeAnswer
  <2>2. \A j \in DOMAIN keys : object[keys[j]] # Unavailable =>
            object[keys[j]] \in AttributeValues /\ Size[object[keys[j]]] # Unavailable
        BY <1>1, <1>5, ValuesAssumption DEF Contents
  <2>3. answer.sizes[i] # Unavailable
        BY <1>5, <2>1, <2>2 DEF Sizes
  <2>4. answer.rv = "CKR_OK" => Shown(object, KeySet(keys))
        BY <1>5 DEF SizeAnswer, Refused
  <2>5. Shown(object, KeySet(keys)) => \A j \in DOMAIN keys : object[keys[j]] # Unavailable
        BY DEF Shown, KeySet
  <2>6. ASSUME answer.rv = "CKR_OK", NEW j \in DOMAIN keys PROVE answer.sizes[j] # Unavailable
        BY <2>1, <2>2, <2>4, <2>5, <2>6 DEF Sizes
  <2>7. 1..i \subseteq DOMAIN keys
    <3>1. DOMAIN keys = 1..Len(keys) /\ Len(keys) \in Nat
          OBVIOUS
    <3> QED
        BY <3>1
  <2>8. i \in Retrievable(answer)
        BY <1>2, <2>3, <2>6, <2>7 DEF Retrievable, Scanned
  <2> QED
      BY <1>3, <2>8
<1>6. ASSUME answer = SizeAnswer(object, keys), object # Gone, NEW k \in DOMAIN Buffers(keys, answer)
      PROVE  object[k] # Unavailable /\ Buffers(keys, answer)[k] = Size[object[k]]
  <2>1. answer.sizes = Sizes(object, keys)
        BY <1>6 DEF SizeAnswer
  <2> DEFINE i == CHOOSE j \in Retrievable(answer) : keys[j] = k
  <2>2. i \in Retrievable(answer) /\ keys[i] = k /\ Buffers(keys, answer)[k] = answer.sizes[i]
        BY <1>3 DEF Buffers
  <2> HIDE DEF i
  <2>3. i \in DOMAIN keys /\ answer.sizes[i] # Unavailable
        BY <1>2, <2>2 DEF Retrievable, Scanned
  <2> QED
      BY <2>1, <2>2, <2>3 DEF Sizes
<1> QED
    BY <1>4, <1>5, <1>6

LEMMA ValuesAnswered ==
    ASSUME NEW object, NEW buffers,
           NEW answer \in {ValueAnswer(object, buffers)} \union OddValueAnswers(object, buffers),
           Passes(FillStatus(answer))
    PROVE  /\ object # Gone /\ DOMAIN answer.values = DOMAIN buffers
           /\ \A k \in DOMAIN buffers : answer.values[k] = object[k] /\ object[k] # Unavailable
<1>1. /\ answer.rv = "CKR_OK"
      /\ \A k \in DOMAIN answer.values : answer.values[k] # Unavailable
      BY DEF Passes, FillStatus
<1>2. object # Gone
      BY <1>1 DEF ValueAnswer, OddValueAnswers
<1>3. \A rv \in Failures(object, DOMAIN buffers) : rv # "CKR_OK"
      BY DEF Failures
<1>4. answer.values = Values(object, buffers)
      BY <1>1, <1>2, <1>3 DEF ValueAnswer, OddValueAnswers
<1> QED
    BY <1>1, <1>2, <1>4 DEF Values, Fits

(* The class of an object, read alone by a token that does not deviate.    *)
LEMMA ClassSized ==
    ASSUME TypeInv, HistoryInv, NEW h \in 1..issued, objects[h] # Gone,
           ever[h][Class] \subseteq Classes
    PROVE  LET buffers == Buffers(<<Class>>, SizeAnswer(objects[h], <<Class>>))
           IN  DOMAIN buffers = {Class} /\ buffers[Class] = Size[objects[h][Class]]
<1> DEFINE object == objects[h]
           keys == <<Class>>
           answer == SizeAnswer(object, keys)
<1>1. object[Class] \in Classes
  <2>1. h \in Handles
        BY Numbers DEF TypeInv, TokenFits
  <2> QED
      BY <2>1, ClassKey DEF HistoryInv
<1>2. object[Class] # Unavailable /\ Size[object[Class]] # Unavailable
      BY <1>1, ClassKey, KeysAssumption, ValuesAssumption
<1>3. DOMAIN keys = {1} /\ keys[1] = Class
      OBVIOUS
<1> HIDE DEF keys
<1>4. DOMAIN answer.sizes = {1} /\ answer.sizes[1] = Size[object[Class]]
      BY <1>2, <1>3 DEF SizeAnswer, Sizes
<1> HIDE DEF answer
<1>5. Scanned(answer) = {1}
  <2>1. 1..1 = {1}
        OBVIOUS
  <2> QED
      BY <1>2, <1>4, <2>1 DEF Scanned
<1>6. Retrievable(answer) = {1}
      BY <1>2, <1>4, <1>5 DEF Retrievable
<1>7. DOMAIN Buffers(keys, answer) = {Class} /\ Buffers(keys, answer)[Class] = Size[object[Class]]
      BY <1>3, <1>4, <1>6 DEF Buffers
<1> QED
    BY <1>7 DEF keys, answer

LEMMA ClassFilled ==
    ASSUME TypeInv, HistoryInv, NEW h \in 1..issued, objects[h] # Gone,
           ever[h][Class] \subseteq Classes, NEW buffers, DOMAIN buffers = {Class},
           buffers[Class] = Size[objects[h][Class]]
    PROVE  Passes(FillStatus(ValueAnswer(objects[h], buffers)))
<1> DEFINE object == objects[h]
           answer == ValueAnswer(object, buffers)
<1>1. object[Class] \in Classes
  <2>1. h \in Handles
        BY Numbers DEF TypeInv, TokenFits
  <2> QED
      BY <2>1, ClassKey DEF HistoryInv
<1>2. object[Class] # Unavailable /\ Size[object[Class]] \in Nat
      BY <1>1, ClassKey, KeysAssumption, ValuesAssumption
<1>3. Fits(object, buffers, Class)
      BY <1>2 DEF Fits
<1>4. answer.rv = "CKR_OK" /\ DOMAIN answer.values = {Class} /\ answer.values[Class] = object[Class]
      BY <1>3 DEF ValueAnswer, Fit, Values
<1> QED
    BY <1>2, <1>4 DEF FillStatus, Passes

LEMMA GoneAnswers ==
    ASSUME NEW keys, NEW buffers
    PROVE  /\ QueryStatus(SizeAnswer(Gone, keys)) = "CKR_OBJECT_HANDLE_INVALID"
           /\ FillStatus(ValueAnswer(Gone, buffers)) = "CKR_OBJECT_HANDLE_INVALID"
<1>1. QueryStatus(SizeAnswer(Gone, keys)) = "CKR_OBJECT_HANDLE_INVALID"
      BY DEF QueryStatus, Misreported, SizeAnswer
<1>2. FillStatus(ValueAnswer(Gone, buffers)) = "CKR_OBJECT_HANDLE_INVALID"
      BY ValuesAssumption DEF FillStatus, ValueAnswer, Unwritten
<1> QED
    BY <1>1, <1>2

(* A second call that fails without a deviation: some value does not fit.  *)
LEMMA HonestFill ==
    ASSUME NEW object, object # Gone, NEW buffers,
           ~Passes(FillStatus(ValueAnswer(object, buffers)))
    PROVE  /\ FillStatus(ValueAnswer(object, buffers)) = "CKR_FUNCTION_FAILED"
           /\ \E k \in DOMAIN buffers : ~Fits(object, buffers, k)
<1> DEFINE answer == ValueAnswer(object, buffers)
<1>1. answer.rv = (IF Fit(object, buffers) THEN "CKR_OK"
                   ELSE IF Shown(object, DOMAIN buffers) THEN "CKR_BUFFER_TOO_SMALL"
                   ELSE Refused(object, DOMAIN buffers))
      /\ answer.values = Values(object, buffers)
      BY DEF ValueAnswer
<1> HIDE DEF answer
<1>2. ~Fit(object, buffers)
  <2>1. SUFFICES ASSUME Fit(object, buffers) PROVE FALSE
        OBVIOUS
  <2>2. \A k \in DOMAIN answer.values : answer.values[k] # Unavailable
        BY <1>1, <2>1 DEF Fit, Fits, Values
  <2>3. FillStatus(answer) = "CKR_OK"
        BY <1>1, <2>1, <2>2 DEF FillStatus
  <2> QED
      BY <2>3 DEF Passes, answer
<1>3. PICK k \in DOMAIN buffers : ~Fits(object, buffers, k)
      BY <1>2 DEF Fit
<1>4. answer.values[k] = Unavailable /\ k \in DOMAIN answer.values
      BY <1>1, <1>3 DEF Values
<1> QED
    BY <1>3, <1>4 DEF FillStatus, answer

LEMMA QuerySizesTruth ==
    ASSUME TypeInv, HistoryInv, SteadyInv, TruthInv, odd \subseteq odd', NEW t \in Threads,
           QuerySizes(t)
    PROVE  \E e, s : TruthStep(t, e, s)
<1> DEFINE c == call[t]
           object == objects[c.handle]
<1>1. /\ c.step \in Reads /\ DOMAIN c = Fields /\ c.handle \in 1..issued /\ c.handle \in Handles
      /\ c.keys \in Seq(Attributes) /\ object \in Contents \union {Gone}
      BY Numbers DEF QuerySizes, Reads, TypeInv, CallFits, CallHolds, KeysFit, TokenFits
<1>2. PICK answer \in {SizeAnswer(object, c.keys)} \union OddSizeAnswers(object, c.keys) :
         /\ answer = SizeAnswer(object, c.keys) \/ ReadOf(c) \in odd'
         /\ \/ /\ Goes(t, [c EXCEPT !.step = "fill", !.buffers = Buffers(c.keys, answer)])
               /\ held' = held
            \/ DOMAIN Buffers(c.keys, answer) = {} /\ Unread(t, QueryStatus(answer))
      BY DEF QuerySizes, Deviates
<1>3. ASSUME c.single
      PROVE  /\ Had(c.handle, c.read, ever) /\ OneTrue(c, odd, objects, ever)
             /\ ReadOf(c) \notin odd' /\ ever[c.handle][Class] \subseteq Classes
                  => Class \in DOMAIN c.read \/ c.keys = <<Class>>
      BY <1>1, <1>3 DEF TruthInv, CallTrue, SinglyTrue, Singly
<1>4. CASE DOMAIN Buffers(c.keys, answer) = {} /\ Unread(t, QueryStatus(answer))
  <2>1. ASSUME c.single, ReadOf(c) \notin odd', ever[c.handle][Class] \subseteq Classes,
               Class \notin DOMAIN c.read
        PROVE  QueryStatus(answer) = "CKR_OBJECT_HANDLE_INVALID"
    <3>1. c.keys = <<Class>> /\ answer = SizeAnswer(object, c.keys)
          BY <1>2, <1>3, <2>1
    <3>2. object = Gone
          BY <1>1, <1>4, <2>1, <3>1, ClassSized
    <3> QED
        BY <3>1, <3>2, GoneAnswers
  <2>2. ASSUME object = Gone PROVE QueryStatus(answer) = "CKR_OBJECT_HANDLE_INVALID"
    <3>1. answer = SizeAnswer(object, c.keys)
          BY <2>2 DEF OddSizeAnswers
    <3> QED
        BY <2>2, <3>1, GoneAnswers
  <2>3. ASSUME object # Gone, ReadOf(c) \notin odd', NEW i \in DOMAIN c.keys
        PROVE  Unavailable \in ever[c.handle][c.keys[i]]
    <3>1. object[c.keys[i]] = Unavailable
          BY <1>1, <1>2, <1>4, <2>3, SizesAnswered
    <3>2. c.keys[i] \in Attributes
          BY <1>1
    <3> QED
        BY <1>1, <2>3, <3>1, <3>2 DEF HistoryInv
  <2>4. WhyUnread(c, QueryStatus(answer))
        BY <2>2, <2>3 DEF WhyUnread, KeySet
  <2> QED
      BY <1>1, <1>4, <2>1, <2>4, UnreadTruth
<1>5. CASE /\ Goes(t, [c EXCEPT !.step = "fill", !.buffers = Buffers(c.keys, answer)])
           /\ held' = held
  <2> DEFINE d == [c EXCEPT !.step = "fill", !.buffers = Buffers(c.keys, answer)]
  <2>1. /\ d.step = "fill" /\ d.handle = c.handle /\ d.keys = c.keys /\ d.out = c.out
        /\ d.buffers = Buffers(c.keys, answer) /\ d.read = c.read /\ d.single = c.single
        /\ d.left = c.left
        BY <1>1 DEF Fields
  <2> HIDE DEF d
  <2>2. DOMAIN d.buffers \subseteq Attributes /\ ReadOf(d) = ReadOf(c)
        BY <1>1, <1>2, <2>1, SizesAnswered DEF ReadOf
  <2>3. ASSUME ReadOf(d) \notin odd', object # Gone, NEW i \in DOMAIN d.keys
        PROVE  d.keys[i] \in DOMAIN d.buffers \/ Unavailable \in ever[d.handle][d.keys[i]]
    <3>1. answer = SizeAnswer(object, c.keys)
          BY <1>2, <2>2, <2>3
    <3>2. d.keys[i] \in DOMAIN d.buffers \/ object[d.keys[i]] = Unavailable
          BY <1>1, <2>1, <2>3, <3>1, SizesAnswered
    <3>3. d.keys[i] \in Attributes
          BY <1>1, <2>1
    <3>4. object[d.keys[i]] \in ever[d.handle][d.keys[i]]
          BY <1>1, <2>1, <2>3, <3>3 DEF HistoryInv
    <3> QED
        BY <3>2, <3>4
  <2>9. ASSUME ReadOf(d) \notin odd', object # Gone
        PROVE  Sized(d.buffers, ever[d.handle])
    <3>1. answer = SizeAnswer(object, c.keys)
          BY <1>2, <2>2, <2>9
    <3>2. \A k \in DOMAIN d.buffers : object[k] # Unavailable /\ d.buffers[k] = Size[object[k]]
          BY <1>1, <2>1, <2>9, <3>1, SizesAnswered
    <3>3. \A k \in DOMAIN d.buffers : object[k] \in ever[d.handle][k]
          BY <1>1, <2>1, <2>2, <2>9 DEF HistoryInv
    <3> QED
        BY <3>2, <3>3 DEF Sized
  <2>4. FillTrue(d, odd', issued, objects, ever)
        BY <1>1, <2>1, <2>2, <2>3, <2>9 DEF FillTrue
  <2>5. ASSUME ReadOf(d) \notin odd', ever[d.handle][Class] \subseteq Classes, d.keys = <<Class>>,
               object # Gone
        PROVE  d.buffers[Class] = Size[object[Class]]
    <3>1. answer = SizeAnswer(object, <<Class>>)
          BY <1>2, <2>1, <2>2, <2>5
    <3> QED
        BY <1>1, <2>1, <2>5, <3>1, ClassSized
  <2>6. SinglyTrue(d, odd', issued, objects, ever)
    <3>1. /\ BulkFailed(c.handle, odd, ever) => BulkFailed(c.handle, odd', ever)
          /\ \A f \in Flags : FlagFailed(c.handle, f, odd, ever) => FlagFailed(c.handle, f, odd', ever)
          BY CausesLast
    <3>2. c.single => OneTrue(d, odd', objects, ever)
          BY <1>3, <2>1, <3>1 DEF OneTrue, Ahead
    <3> QED
        BY <1>1, <1>3, <2>1, <2>2, <2>5, <3>2 DEF SinglyTrue, Singly
  <2>7. Outs(d) = Outs(c)
        BY <2>1 DEF Outs
  <2>8. TruthStep(t, d, NoResult)
        BY <1>5, <2>4, <2>6, <2>7, NoneOut DEF TruthStep, CallTrue, ResultTrue, Goes, d
  <2> QED
      BY <2>8
<1> QED
    BY <1>2, <1>4, <1>5

LEMMA FillValuesTruth ==
    ASSUME TypeInv, HistoryInv, SteadyInv, TruthInv, odd \subseteq odd', NEW t \in Threads,
           FillValues(t)
    PROVE  \E e, s : TruthStep(t, e, s)
<1> DEFINE c == call[t]
           object == objects[c.handle]
<1>1. /\ c.step \in Reads /\ c.step = "fill" /\ c.handle \in 1..issued /\ c.handle \in Handles
      /\ DOMAIN c.buffers # {} /\ DOMAIN c.buffers \subseteq KeySet(c.keys)
      BY Numbers DEF FillValues, Reads, TypeInv, CallFits, TokenFits
<1>2. PICK answer \in {ValueAnswer(object, c.buffers)} \union OddValueAnswers(object, c.buffers) :
         /\ answer = ValueAnswer(object, c.buffers) \/ ReadOf(c) \in odd'
         /\ \/ Passes(FillStatus(answer)) /\ Read(t, answer.values)
            \/ ~Passes(FillStatus(answer)) /\ Unread(t, FillStatus(answer))
      BY DEF FillValues, Deviates
<1>3. ASSUME c.single, ReadOf(c) \notin odd', ever[c.handle][Class] \subseteq Classes,
             Class \notin DOMAIN c.read
      PROVE  /\ DOMAIN c.buffers = {Class}
             /\ object # Gone => c.buffers[Class] = Size[object[Class]]
  <2>1. /\ c.keys = <<Class>>
        /\ object # Gone => c.buffers[Class] = Size[object[Class]]
        BY <1>1, <1>3 DEF TruthInv, CallTrue, SinglyTrue, Singly
  <2>2. KeySet(<<Class>>) = {Class}
        BY DEF KeySet
  <2> QED
      BY <1>1, <2>1, <2>2
<1>4. CASE ~Passes(FillStatus(answer)) /\ Unread(t, FillStatus(answer))
  <2>1. ASSUME c.single, ReadOf(c) \notin odd', ever[c.handle][Class] \subseteq Classes,
               Class \notin DOMAIN c.read
        PROVE  FillStatus(answer) = "CKR_OBJECT_HANDLE_INVALID"
    <3>1. answer = ValueAnswer(object, c.buffers)
          BY <1>2, <2>1
    <3>2. object = Gone
          BY <1>1, <1>3, <1>4, <2>1, <3>1, ClassFilled
    <3> QED
        BY <3>1, <3>2, GoneAnswers
  <2>2. ASSUME object = Gone PROVE FillStatus(answer) = "CKR_OBJECT_HANDLE_INVALID"
    <3>1. answer = ValueAnswer(object, c.buffers)
          BY <2>2 DEF OddValueAnswers
    <3> QED
        BY <2>2, <3>1, GoneAnswers
  <2>3. ASSUME object # Gone, ReadOf(c) \notin odd'
        PROVE  \E k \in KeySet(c.keys) : Resized(ever[c.handle][k])
    <3>1. /\ ~Passes(FillStatus(ValueAnswer(object, c.buffers)))
          /\ Sized(c.buffers, ever[c.handle]) /\ DOMAIN c.buffers \subseteq Attributes
          BY <1>1, <1>2, <1>4, <2>3 DEF TruthInv, CallTrue, FillTrue
    <3>2. PICK k \in DOMAIN c.buffers : ~Fits(object, c.buffers, k)
          BY <2>3, <3>1, HonestFill
    <3>3. PICK v \in ever[c.handle][k] \ {Unavailable} : c.buffers[k] = Size[v]
          BY <3>1 DEF Sized
    <3>4. object[k] \in ever[c.handle][k] /\ object[k] # Unavailable /\ k \in Attributes
          BY <1>1, <2>3, <3>1, <3>3 DEF HistoryInv, SteadyInv, Steady
    <3>5. Size[v] \in Nat /\ Size[object[k]] \in Nat
          BY <1>1, <3>3, <3>4, ValuesAssumption DEF SteadyInv, Steady
    <3>6. Size[v] < Size[object[k]]
          BY <3>2, <3>3, <3>4, <3>5 DEF Fits
    <3> QED
        BY <1>1, <3>3, <3>4, <3>6 DEF Resized
  <2>4. WhyUnread(c, FillStatus(answer))
        BY <2>2, <2>3 DEF WhyUnread
  <2> QED
      BY <1>1, <1>4, <2>1, <2>4, UnreadTruth
<1>5. CASE Passes(FillStatus(answer)) /\ Read(t, answer.values)
  <2>1. /\ object # Gone /\ DOMAIN answer.values = DOMAIN c.buffers
        /\ \A k \in DOMAIN c.buffers : answer.values[k] = object[k] /\ object[k] # Unavailable
        BY <1>5, ValuesAnswered
  <2>2. /\ DOMAIN c.buffers \subseteq Attributes
        /\ ReadOf(c) \notin odd' => \A i \in DOMAIN c.keys :
              c.keys[i] \in DOMAIN c.buffers \/ Unavailable \in ever[c.handle][c.keys[i]]
        BY <1>1, <2>1 DEF TruthInv, CallTrue, FillTrue
  <2>3. TrueBytes(c.handle, answer.values)
        BY <1>1, <2>1, <2>2 DEF TrueBytes, HistoryInv
  <2>4. Covers(c, answer.values)
        BY <1>3, <2>1, <2>2 DEF Covers
  <2>5. KeysFit(c) /\ c.single \in BOOLEAN
        BY <1>1 DEF TypeInv, CallFits, KeysFit
  <2>6. ASSUME c.single = TRUE PROVE KeySet(c.keys) = DOMAIN c.buffers
    <3>1. PICK k : KeySet(c.keys) = {k}
          BY <2>5, <2>6, SingleKey DEF KeysFit
    <3> QED
        BY <1>1, <3>1
  <2>7. Explains(c, answer.values)
        BY <2>1, <2>5, <2>6 DEF Explains
  <2> QED
      BY <1>1, <1>5, <2>3, <2>4, <2>7, ReadTruth
<1> QED
    BY <1>2, <1>4, <1>5

LEMMA CallsTruth ==
    ASSUME TypeInv, NEW t \in Threads,
           \/ GetAttributes(t) \/ GenerateFrom(t) \/ CreateObject(t) \/ GeneratePair(t)
           \/ GenerateDSA(t) \/ CopyObject(t) \/ MakeWithKey(t)
    PROVE  \E e, s : TruthStep(t, e, s)
<1>1. \A op : DOMAIN [NoCall EXCEPT !.op = op] = Fields /\ [NoCall EXCEPT !.op = op].out = <<>>
      BY DEF NoCall, Fields
<1>2. CASE GetAttributes(t) \/ GenerateFrom(t)
  <2>1. PICK op, h, keys : Goes(t, Reading([NoCall EXCEPT !.op = op], h, keys))
        BY <1>2 DEF GetAttributes, GenerateFrom
  <2> DEFINE d == Reading([NoCall EXCEPT !.op = op], h, keys)
  <2>2. d.out = <<>> /\ d.step = "query" /\ ~Singly(d)
        BY DEF Reading, NoCall, Singly
  <2>3. held' = held
        BY <1>2 DEF GetAttributes, GenerateFrom
  <2> HIDE DEF d
  <2> QED
      BY <2>1, <2>2, <2>3, GoesTruth DEF d
<1>3. CASE CreateObject(t) \/ GeneratePair(t) \/ GenerateDSA(t) \/ CopyObject(t) \/ MakeWithKey(t)
  <2>1. PICK op, made : Create(t, [NoCall EXCEPT !.op = op], made)
        BY <1>3 DEF CreateObject, GeneratePair, GenerateDSA, CopyObject, MakeWithKey
  <2>2. held' = held
        BY <1>3 DEF CreateObject, GeneratePair, GenerateDSA, CopyObject, MakeWithKey
  <2> QED
      BY <1>1, <2>1, <2>2, CreateTruth
<1> QED
    BY <1>2, <1>3

LEMMA SearchingTruth ==
    ASSUME TypeInv, NEW t \in Threads,
           \/ Search(t) \/ FindObjects(t) \/ FindObjectsFails(t) \/ SearchEnds(t)
           \/ NextObject(t) \/ DropSearch(t)
    PROVE  \E e, s : TruthStep(t, e, s)
<1> DEFINE c == call[t]
<1>1. DOMAIN c = Fields /\ (c.step = "next" => c.op \in Searching)
      BY DEF TypeInv, CallFits, CallHolds
<1>2. CASE Search(t)
  <2>1. PICK op : Goes(t, [NoCall EXCEPT !.op = op, !.step = "next"])
        BY <1>2 DEF Search
  <2> DEFINE d == [NoCall EXCEPT !.op = op, !.step = "next"]
  <2>2. d.out = <<>> /\ d.step = "next" /\ ~Singly(d)
        BY DEF NoCall, Singly, Reads
  <2> HIDE DEF d
  <2> QED
      BY <1>2, <2>1, <2>2, GoesTruth DEF Search, d
<1>3. CASE FindObjects(t)
  <2>1. PICK n : Goes(t, Making([c EXCEPT !.todo = BatchOf(n)]))
        BY <1>3 DEF FindObjects
  <2> DEFINE b == [c EXCEPT !.todo = BatchOf(n)]
  <2>2. DOMAIN b = Fields /\ b.out = c.out
        BY <1>1 DEF Fields
  <2> HIDE DEF b
  <2>3. Making(b).out = c.out /\ Making(b).step = "query" /\ ~Singly(Making(b))
        BY <2>2, MakingParts DEF Singly
  <2> QED
      BY <1>3, <2>1, <2>3, GoesTruth DEF FindObjects, b
<1>4. CASE FindObjectsFails(t)
      BY <1>4, NoneOut, EndsTruth DEF FindObjectsFails, Raise
<1>5. CASE SearchEnds(t)
  <2> DEFINE r == [kind |-> c.op, asked |-> search.asked, found |-> Handed(c)]
  <2>1. Ends(t, c, r) /\ held' \subseteq held \union Outs(c)
        BY <1>5 DEF SearchEnds, Outs
  <2>2. r.kind # "read"
        BY <1>1, <1>5 DEF SearchEnds, Searching
  <2> HIDE DEF r
  <2> QED
      BY <2>1, <2>2, EndsTruth
<1>6. CASE NextObject(t)
  <2> DEFINE d == [c EXCEPT !.step = "next"]
  <2>1. Making(c).out = c.out /\ Making(c).step = "query" /\ ~Singly(Making(c))
        BY <1>1, MakingParts DEF Singly
  <2>2. d.out = c.out /\ d.step = "next"
        BY <1>1 DEF Fields
  <2>3. held' = held /\ (Goes(t, Making(c)) \/ Goes(t, d))
        BY <1>6 DEF NextObject
  <2> HIDE DEF d
  <2>4. ~Singly(d)
        BY <2>2 DEF Singly, Reads
  <2> QED
      BY <2>1, <2>2, <2>3, <2>4, GoesTruth
<1>7. CASE DropSearch(t)
      BY <1>7, NoneOut, EndsTruth DEF DropSearch
<1> QED
    BY <1>2, <1>3, <1>4, <1>5, <1>6, <1>7

LEMMA OddGrows == TypeInv /\ [Next]_vars => odd \subseteq odd'
<1> SUFFICES ASSUME TypeInv, [Next]_vars PROVE odd \subseteq odd'
    OBVIOUS
<1>1. ASSUME NEW t \in Threads, QuerySizes(t) \/ FillValues(t) \/ FindObjectsFails(t)
      PROVE  odd \subseteq odd'
      BY <1>1, OddSteps
<1> QED
    BY <1>1 DEF Next, vars, GetAttributes, SetAttribute, Destroy, CreateObject,
           GeneratePair, GenerateDSA, GenerateFrom, CopyObject, MakeWithKey, Search, FindObjects,
           SearchEnds, NextObject, DropSearch

LEMMA TruthNext ==
    TypeInv /\ HistoryInv /\ SteadyInv /\ TruthInv /\ [Next]_vars => TruthInv'
<1> SUFFICES ASSUME TypeInv, HistoryInv, SteadyInv, TruthInv, [Next]_vars PROVE TruthInv'
    OBVIOUS
<1>1. Grows /\ TypeInv' /\ odd \subseteq odd'
      BY HistoryNext, TypeNext, OddGrows
<1>2. ASSUME NEW t \in Threads, \E d, r : TruthStep(t, d, r) PROVE TruthInv'
      BY <1>1, <1>2, StepKeepsTruth
<1>3. CASE UNCHANGED <<call, result, held>>
  <2>1. \A t \in Threads : Outs(call[t]) \subseteq PyObjects(issued)
        BY OutsFit
  <2> QED
      BY <1>1, <1>3, <2>1, TruthGrows DEF TypeInv, TruthInv, Outs
<1>4. ASSUME NEW t \in Threads, SetAttribute(t) \/ Destroy(t) PROVE TruthInv'
      BY <1>3, <1>4 DEF SetAttribute, Destroy
<1>5. ASSUME NEW t \in Threads, QuerySizes(t) \/ FillValues(t) PROVE TruthInv'
      BY <1>1, <1>2, <1>5, QuerySizesTruth, FillValuesTruth
<1>6. ASSUME NEW t \in Threads,
             \/ GetAttributes(t) \/ GenerateFrom(t) \/ CreateObject(t) \/ GeneratePair(t)
             \/ GenerateDSA(t) \/ CopyObject(t) \/ MakeWithKey(t)
      PROVE  TruthInv'
      BY <1>2, <1>6, CallsTruth
<1>7. ASSUME NEW t \in Threads,
             \/ Search(t) \/ FindObjects(t) \/ FindObjectsFails(t) \/ SearchEnds(t)
             \/ NextObject(t) \/ DropSearch(t)
      PROVE  TruthInv'
      BY <1>2, <1>7, SearchingTruth
<1>8. CASE UNCHANGED vars
      BY <1>3, <1>8 DEF vars
<1> QED
    BY <1>4, <1>5, <1>6, <1>7, <1>8 DEF Next

LEMMA TruthInit == Init => TruthInv
BY NoneOut DEF Init, TruthInv, ResultTrue, CallTrue, FillTrue, SinglyTrue

TrueHistory == TypeInv /\ HistoryInv /\ SteadyInv /\ TruthInv

LEMMA TruthAlways == Spec => []TrueHistory
<1>1. TrueHistory /\ [Next]_vars => TrueHistory'
      BY TypeNext, HistoryNext, SteadyNext, TruthNext DEF TrueHistory
<1>2. Init => TrueHistory
      BY TypeInit, HistoryInit, SteadyInit, TruthInit DEF TrueHistory
<1> QED
    BY <1>1, <1>2, PTL DEF Spec

LEMMA TruthShown ==
    TrueHistory => FalseMixinsHaveCause /\ CapabilitiesAreMixins /\ ReadsAreTrue
<1> SUFFICES ASSUME TrueHistory
             PROVE  FalseMixinsHaveCause /\ CapabilitiesAreMixins /\ ReadsAreTrue
    OBVIOUS
<1>0. TruthInv
      BY DEF TrueHistory
<1>1. FalseMixinsHaveCause
      BY <1>0 DEF TruthInv, Honest, Excused, BulkFailed, FlagFailed, FalseMixinsHaveCause
<1>2. CapabilitiesAreMixins
      BY <1>0 DEF TruthInv, Honest, CapabilitiesAreMixins
<1>3. ASSUME NEW t \in Threads, result[t].kind = "read"
      PROVE  LET r == result[t]
             IN  /\ \A k \in DOMAIN r.read :
                      r.read[k] \in {Unpacked(k, v) : v \in ever[r.handle][k] \ {Unavailable}}
                 /\ <<r.handle, FALSE>> \notin odd => \A i \in DOMAIN r.keys :
                      \/ r.keys[i] \in DOMAIN r.read
                      \/ Unavailable \in ever[r.handle][r.keys[i]]
  <2>1. ResultTrue(result[t], odd, issued, ever)
        BY <1>0 DEF TruthInv
  <2> QED
      BY <1>3, <2>1 DEF ResultTrue, Had
<1> QED
    BY <1>1, <1>2, <1>3 DEF ReadsAreTrue

(* A mixin for a capability that the token object never had has a cause in *)
(* the bulk read of make_object and one in its read of the flag alone;     *)
(* objects that were read in one go have no such mixins.                   *)
THEOREM TrueMixins == Spec => []FalseMixinsHaveCause
BY TruthAlways, TruthShown, PTL

(* Capabilities that the token object had all the time are mixins of every *)
(* object that make_object made for it, in one go or one flag after the    *)
(* other, unless the token deviated in that read.                          *)
THEOREM TrueCapabilities == Spec => []CapabilitiesAreMixins
BY TruthAlways, TruthShown, PTL

(* What get_attributes returns the attributes have been.                   *)
THEOREM TrueReads == Spec => []ReadsAreTrue
BY TruthAlways, TruthShown, PTL
-----------------------------------------------------------------------------
(* Objects that the program has created and cannot reach.  Of a call that  *)
(* creates objects to return them: they were created together, and an      *)
(* object of a class that is not known here is the only one.  Of           *)
(* generate_keypair: the domain parameters are those made for a DSA pair,  *)
(* or the program holds them.                                              *)

Makers == {"create", "dsa", "params"}

Hand(c) ==
    IF c.op \notin Makers THEN {}
    ELSE {c.handle} \union {c.todo[i] : i \in DOMAIN c.todo}
                    \union {c.out[i].handle : i \in DOMAIN c.out}

Owned(h, own) == \E o \in own : o.handle = h

Cause(h, obs, tog, m) ==
    \/ \E g \in tog[h] : obs[g] = Gone \/ <<g, TRUE>> \in m
    \/ obs[h][Class] \in {Params[Class]} \union Unknown

HandTrue(c, obs, tog, own) ==
    /\ c.op \in {"dsa", "params"} => \A h \in Hand(c) :
          obs[h] = Gone \/ obs[h][Class] = Params[Class] \/ Owned(h, own)
    /\ c.op = "create" => \A g \in Hand(c), h \in Hand(c) :
          /\ g \in tog[h]
          /\ obs[g] # Gone /\ obs[g][Class] \in Unknown => g = h

LostInv ==
    /\ OrphansHaveCause
    /\ \A t \in Threads : HandTrue(call[t], objects, together, held)

Onward == Grows /\ TypeInv' /\ odd \subseteq odd' /\ Len(Stored) \in Nat

(* What becomes of an object that the call lets go of.                     *)
Accounted(h) == objects'[h] = Gone \/ Owned(h, held') \/ Cause(h, objects', together', odd')

LostStep(t, d) ==
    /\ call'[t] = d /\ \A u \in Threads \ {t} : call'[u] = call[u]
    /\ held \subseteq held'
    /\ HandTrue(d, objects', together', held')
    /\ \A h \in Hand(call[t]) : h \in Hand(d) \/ Accounted(h)
    /\ \A h \in (issued + 1)..issued' : h \in Hand(d)

LEMMA HandFits ==
    ASSUME NEW n \in Nat, NEW c, CallFits(c, n)
    PROVE  Hand(c) \subseteq 1..n /\ (c.op \in Makers => c.step \in Reads)
<1>1. c.op \in Makers => c.step \in Reads
      BY DEF CallFits, Makers, Searching, Steps, Reads
<1>2. c.todo \in Seq(1..n) /\ c.out \in Seq(PyObjects(n))
      BY DEF CallFits, CallHolds
<1>3. {c.todo[i] : i \in DOMAIN c.todo} \subseteq 1..n
      BY <1>2
<1>4. \A i \in DOMAIN c.out : c.out[i] \in PyObjects(n)
      BY <1>2
<1>5. {c.out[i].handle : i \in DOMAIN c.out} \subseteq 1..n
      BY <1>4 DEF PyObjects
<1>6. c.op \in Makers => c.handle \in 1..n
      BY <1>1 DEF CallFits
<1> QED
    BY <1>1, <1>3, <1>5, <1>6 DEF Hand

LEMMA HandGrows ==
    ASSUME TypeInv, Onward, held \subseteq held', NEW c, Hand(c) \subseteq 1..issued,
           HandTrue(c, objects, together, held)
    PROVE  HandTrue(c, objects', together', held')
<1>1. \A h \in 1..issued :
         /\ objects'[h] # Gone => objects[h] # Gone /\ objects'[h][Class] = objects[h][Class]
         /\ together'[h] = together[h]
      BY DEF Onward, Grows
<1>2. \A h : Owned(h, held) => Owned(h, held')
      BY DEF Owned
<1> QED
    BY <1>1, <1>2 DEF HandTrue

LEMMA CauseGrows ==
    ASSUME TypeInv, HistoryInv, Onward, NEW h \in 1..issued, objects'[h] # Gone,
           Cause(h, objects, together, odd)
    PROVE  Cause(h, objects', together', odd')
<1>1. \A g \in 1..issued :
         /\ objects'[g] # Gone => objects[g] # Gone /\ objects'[g][Class] = objects[g][Class]
         /\ together'[g] = together[g]
      BY DEF Onward, Grows
<1>2. together[h] \subseteq 1..issued
      BY DEF HistoryInv
<1> QED
    BY <1>1, <1>2 DEF Cause, Onward

LEMMA OrphansCaused ==
    OrphansHaveCause <=>
        \A h \in (Len(Stored) + 1)..issued :
            \/ objects[h] = Gone \/ Owned(h, held) \/ Cause(h, objects, together, odd)
            \/ \E t \in Threads : h \in Hand(call[t])
<1>1. \A t \in Threads : InHand(t) = Hand(call[t])
      BY DEF InHand, Hand, Makers
<1> QED
    BY <1>1 DEF OrphansHaveCause, Orphans, Owned, Cause

LEMMA StepKeepsLost ==
    ASSUME TypeInv, HistoryInv, LostInv, Onward, NEW t \in Threads, NEW d, LostStep(t, d)
    PROVE  LostInv'
<1>1. issued \in Nat /\ issued' \in Nat /\ issued <= issued' /\ Len(Stored) \in Nat
      BY Numbers DEF Onward, Grows, TypeInv, TokenFits
<1>2. call'[t] = d /\ \A u \in Threads \ {t} : call'[u] = call[u]
      BY DEF LostStep
<1>3. \A u \in Threads : Hand(call[u]) \subseteq 1..issued
      BY <1>1, HandFits DEF TypeInv
<1>4. \A u \in Threads : HandTrue(call'[u], objects', together', held')
      BY <1>2, <1>3, HandGrows DEF LostInv, LostStep
<1>5. ASSUME NEW h \in (Len(Stored) + 1)..issued'
      PROVE  Accounted(h) \/ \E u \in Threads : h \in Hand(call'[u])
  <2>1. CASE h > issued
    <3>1. h \in (issued + 1)..issued'
          BY <1>1, <2>1
    <3> QED
        BY <1>2, <3>1 DEF LostStep
  <2>2. CASE h \in 1..issued
    <3>1. objects'[h] # Gone => objects[h] # Gone
          BY <2>2 DEF Onward, Grows
    <3>2. \/ objects[h] = Gone \/ Owned(h, held) \/ Cause(h, objects, together, odd)
          \/ \E u \in Threads : h \in Hand(call[u])
      <4>1. h \in (Len(Stored) + 1)..issued
            BY <1>1, <2>2
      <4> QED
          BY <4>1, OrphansCaused DEF LostInv
    <3>3. CASE Owned(h, held)
          BY <3>3 DEF LostStep, Owned, Accounted
    <3>4. CASE Cause(h, objects, together, odd)
          BY <2>2, <3>4, CauseGrows DEF Accounted
    <3>5. ASSUME NEW u \in Threads, h \in Hand(call[u])
          PROVE  Accounted(h) \/ \E v \in Threads : h \in Hand(call'[v])
          BY <1>2, <3>5 DEF LostStep
    <3> QED
        BY <3>1, <3>2, <3>3, <3>4, <3>5 DEF Accounted
  <2> QED
      BY <1>1, <2>1, <2>2
<1>6. OrphansHaveCause'
  <2>1. \A h \in (Len(Stored) + 1)..issued' :
            \/ objects'[h] = Gone \/ Owned(h, held') \/ Cause(h, objects', together', odd')
            \/ \E u \in Threads : h \in Hand(call'[u])
        BY <1>5 DEF Accounted
  <2>2. \A u \in Threads : InHand(u)' = Hand(call'[u])
        BY DEF InHand, Hand, Makers
  <2> QED
      BY <2>1, <2>2 DEF OrphansHaveCause, Orphans, Owned, Cause
<1> QED
    BY <1>4, <1>6 DEF LostInv

-----------------------------------------------------------------------------

(* A call that goes on has the same objects in hand.                       *)
LEMMA SameHand ==
    ASSUME TypeInv, LostInv, Onward, NEW t \in Threads, NEW d,
           call' = [call EXCEPT ![t] = d] \/ (call' = call /\ d = call[t]),
           Hand(d) = Hand(call[t]), d.op = "create" <=> call[t].op = "create",
           held \subseteq held', issued' = issued
    PROVE  \E e : LostStep(t, e)
<1>1. issued \in Nat /\ Hand(d) \subseteq 1..issued
      BY Numbers, HandFits DEF TypeInv
<1>2. HandTrue(d, objects, together, held)
  <2>1. HandTrue(call[t], objects, together, held)
        BY DEF LostInv
  <2>2. d.op \in {"dsa", "params"} /\ call[t].op \notin {"dsa", "params"} => Hand(d) = {}
        BY DEF Hand, Makers
  <2> QED
      BY <2>1, <2>2 DEF HandTrue
<1>3. HandTrue(d, objects', together', held')
      BY <1>1, <1>2, HandGrows
<1>4. LostStep(t, d)
      BY <1>1, <1>3 DEF LostStep, TypeInv
<1> QED
    BY <1>4

LEMMA SameFields ==
    \A c, d : /\ d.op = c.op \/ (d.op = "params" /\ c.op = "dsa")
              /\ d.handle = c.handle /\ d.todo = c.todo /\ d.out = c.out
              => Hand(d) = Hand(c) /\ (d.op = "create" <=> c.op = "create")
BY DEF Hand, Makers

(* A call that ends has returned its objects, or there is a reason.        *)
LEMMA EndLost ==
    ASSUME TypeInv, Onward, NEW t \in Threads, call' = [call EXCEPT ![t] = NoCall],
           held \subseteq held', issued' = issued, \A h \in Hand(call[t]) : Accounted(h)
    PROVE  \E e : LostStep(t, e)
<1>1. NoCall.op = "none" /\ issued \in Nat
      BY Numbers DEF NoCall
<1>2. LostStep(t, NoCall)
      BY <1>1 DEF LostStep, HandTrue, Hand, Makers, TypeInv
<1> QED
    BY <1>2

(* The parameters that generate_keypair drops.                             *)
LEMMA ParamsAccounted ==
    ASSUME TypeInv, LostInv, Onward, NEW t \in Threads, call[t].op \in {"dsa", "params"},
           held \subseteq held'
    PROVE  \A h \in Hand(call[t]) : Accounted(h)
<1>1. issued \in Nat /\ Hand(call[t]) \subseteq 1..issued
      BY Numbers, HandFits DEF TypeInv
<1>2. HandTrue(call[t], objects', together', held')
      BY <1>1, HandGrows DEF LostInv
<1> QED
    BY <1>2 DEF HandTrue, Accounted, Cause

LEMMA CreateLost ==
    ASSUME TypeInv, Onward, NEW t \in Threads, NEW c, DOMAIN c = Fields, NEW made \in Seq(Contents),
           Create(t, c, made), held' = held,
           \/ Len(made) = 1 /\ (c.op = "dsa" => made[1] = Params)
           \/ Len(made) = 2 /\ made \in Made /\ c.op # "dsa",
           \A h \in Hand(call[t]) : Accounted(h)
    PROVE  \E e : LostStep(t, e)
<1> DEFINE n == issued + Len(made)
           new == [i \in DOMAIN made |-> issued + i]
           b == [c EXCEPT !.op = IF @ = "dsa" THEN "dsa" ELSE "create", !.todo = new, !.out = <<>>]
           d == Making(b)
<1>1. /\ issued \in Nat /\ DOMAIN made = 1..Len(made) /\ Len(made) \in {1, 2} /\ n \in Nat
      /\ Len(made) \in Nat /\ Len(made) > 0
      BY Numbers
<1>2. {new[i] : i \in DOMAIN new} = (issued + 1)..n
  <2>1. DOMAIN new = 1..Len(made) /\ \A i \in 1..Len(made) : new[i] = issued + i
        BY <1>1
  <2>2. ASSUME NEW h \in (issued + 1)..n PROVE h - issued \in 1..Len(made) /\ h = new[h - issued]
        BY <1>1, <2>1
  <2>3. \A i \in 1..Len(made) : new[i] \in (issued + 1)..n
        BY <1>1, <2>1
  <2> HIDE DEF new, n
  <2> QED
      BY <2>1, <2>2, <2>3
<1>3. new \in Seq(Nat) /\ new # <<>>
  <2>1. \A i \in 1..Len(made) : issued + i \in Nat
        BY <1>1
  <2> QED
      BY <1>1, <2>1
<1>4. /\ issued' = n /\ n <= MaxObjects /\ call' = [call EXCEPT ![t] = d]
      /\ \A h \in Handles : h \in (issued + 1)..n =>
            objects'[h] = made[h - issued] /\ together'[h] = (issued + 1)..n
      BY <1>2 DEF Create, Goes
<1> HIDE DEF new
<1>5. /\ DOMAIN b = Fields /\ b.op = (IF c.op = "dsa" THEN "dsa" ELSE "create") /\ b.todo = new
      /\ b.out = <<>>
      BY DEF Fields
<1> HIDE DEF b
<1>6. d.op = b.op /\ d.handle = Head(new) /\ d.todo = Tail(new) /\ d.out = <<>>
      BY <1>5 DEF Making, Reading, Fields
<1> HIDE DEF d
<1>7. {Head(new)} \union {Tail(new)[i] : i \in DOMAIN Tail(new)} = {new[i] : i \in DOMAIN new}
      BY <1>3, HeadAndTail
<1>8. Hand(d) = (issued + 1)..n
  <2>1. d.op \in Makers
        BY <1>5, <1>6 DEF Makers
  <2>2. {d.out[i].handle : i \in DOMAIN d.out} = {}
        BY <1>6
  <2>3. Hand(d) = {d.handle} \union {d.todo[i] : i \in DOMAIN d.todo}
        BY <2>1, <2>2 DEF Hand
  <2> QED
      BY <1>2, <1>6, <1>7, <2>3
<1>9. (issued + 1)..n \subseteq Handles /\ \A h \in (issued + 1)..n : h - issued \in 1..Len(made)
      BY <1>1, <1>4, Numbers
<1> HIDE DEF n
<1>10. CASE c.op = "dsa"
  <2>1. \A h \in (issued + 1)..n : objects'[h] = Params
    <3>1. Len(made) = 1 /\ made[1] = Params
          BY <1>10
    <3>2. \A i \in 1..1 : i = 1
          OBVIOUS
    <3> QED
        BY <1>4, <1>9, <3>1, <3>2
  <2>2. HandTrue(d, objects', together', held')
        BY <1>5, <1>6, <1>8, <1>10, <2>1 DEF HandTrue
  <2>3. LostStep(t, d)
        BY <1>4, <1>8, <2>2 DEF LostStep, TypeInv
  <2> QED
      BY <2>3
<1>11. CASE c.op # "dsa"
  <2>1. \A g \in (issued + 1)..n, h \in (issued + 1)..n : g \in together'[h]
        BY <1>4, <1>9
  <2>2. ASSUME NEW g \in (issued + 1)..n, NEW h \in (issued + 1)..n, objects'[g][Class] \in Unknown
        PROVE  g = h
    <3>1. Len(made) # 2
          BY <1>4, <1>9, <1>11, <2>2, ClassAssumption
    <3>2. Len(made) = 1
          BY <1>1, <3>1
    <3>3. n = issued + 1
          BY <3>2 DEF n
    <3> QED
        BY <1>1, <3>3
  <2>3. HandTrue(d, objects', together', held')
        BY <1>5, <1>6, <1>8, <1>11, <2>1, <2>2 DEF HandTrue
  <2>4. LostStep(t, d)
        BY <1>4, <1>8, <2>3 DEF LostStep, TypeInv
  <2> QED
      BY <2>4
<1> QED
    BY <1>10, <1>11

LEMMA ReceiveLost ==
    ASSUME TypeInv, LostInv, Onward, NEW t \in Threads, call[t].step \in Reads,
           NEW obj \in PyObjects(issued), obj.handle = call[t].handle, Receive(t, call[t], obj),
           issued' = issued
    PROVE  \E e : LostStep(t, e)
<1> DEFINE c == call[t]
           out == Append(c.out, obj)
           b == [c EXCEPT !.out = out]
<1>1. DOMAIN c = Fields /\ c.out \in Seq(PyObjects(issued)) /\ c.todo \in Seq(1..issued)
      BY DEF TypeInv, CallFits, CallHolds
<1>2. {out[i].handle : i \in DOMAIN out} = {c.out[i].handle : i \in DOMAIN c.out} \union {c.handle}
  <2>1. /\ DOMAIN out = 1..(Len(c.out) + 1) /\ DOMAIN c.out = 1..Len(c.out) /\ Len(c.out) \in Nat
        /\ out[Len(c.out) + 1] = obj /\ \A i \in 1..Len(c.out) : out[i] = c.out[i]
        BY <1>1
  <2>2. \A i \in DOMAIN out : i \in 1..Len(c.out) \/ i = Len(c.out) + 1
        BY <2>1
  <2>3. 1..Len(c.out) \subseteq DOMAIN out /\ Len(c.out) + 1 \in DOMAIN out
        BY <2>1
  <2> HIDE DEF out
  <2>4. {out[i].handle : i \in DOMAIN out} \subseteq
            {c.out[i].handle : i \in DOMAIN c.out} \union {c.handle}
        BY <2>1, <2>2
  <2>5. {c.out[i].handle : i \in DOMAIN c.out} \union {c.handle} \subseteq
            {out[i].handle : i \in DOMAIN out}
        BY <2>1, <2>3
  <2> QED
      BY <2>4, <2>5
<1>3. DOMAIN b = Fields /\ b.out = out /\ b.op = c.op /\ b.todo = c.todo
      BY <1>1 DEF Fields
<1> HIDE DEF b, out
<1>4. CASE c.op \notin Makers
  <2>1. PICK d : call' = [call EXCEPT ![t] = d] /\ d.op = c.op /\ held \subseteq held'
    <3>1. ASSUME NEW step PROVE [c EXCEPT !.step = step, !.out = out].op = c.op
          BY <1>1 DEF Fields
    <3>2. Making(b).op = b.op
          BY <1>3 DEF Making, Reading, Fields
    <3> QED
        BY <1>3, <1>4, <3>1, <3>2 DEF Receive, Goes, Makers, b, out
  <2>2. Hand(d) = Hand(c) /\ (d.op = "create" <=> c.op = "create")
        BY <1>4, <2>1 DEF Hand
  <2> QED
      BY <2>1, <2>2, SameHand
<1>5. CASE c.op = "create" /\ c.todo # <<>> /\ Goes(t, Making(b)) /\ held' = held
  <2> DEFINE d == Making(b)
  <2>1. d.op = c.op /\ d.handle = Head(c.todo) /\ d.todo = Tail(c.todo) /\ d.out = out
        BY <1>3 DEF Making, Reading, Fields
  <2> HIDE DEF d
  <2>2. {Head(c.todo)} \union {Tail(c.todo)[i] : i \in DOMAIN Tail(c.todo)}
            = {c.todo[i] : i \in DOMAIN c.todo}
        BY <1>1, <1>5, HeadAndTail
  <2>3. Hand(d) = {c.todo[i] : i \in DOMAIN c.todo} \union {c.out[i].handle : i \in DOMAIN c.out}
                    \union {c.handle}
    <3>1. Hand(d) = {d.handle} \union {d.todo[i] : i \in DOMAIN d.todo}
                       \union {d.out[i].handle : i \in DOMAIN d.out}
          BY <1>5, <2>1 DEF Hand, Makers
    <3>2. Hand(d) = {Head(c.todo)} \union {Tail(c.todo)[i] : i \in DOMAIN Tail(c.todo)}
                       \union {out[i].handle : i \in DOMAIN out}
          BY <2>1, <3>1
    <3> QED
        BY <1>2, <2>2, <3>2
  <2>4. Hand(c) = {c.handle} \union {c.todo[i] : i \in DOMAIN c.todo}
                    \union {c.out[i].handle : i \in DOMAIN c.out}
        BY <1>5 DEF Hand, Makers
  <2>5. Hand(d) = Hand(c)
        BY <2>3, <2>4
  <2> QED
      BY <1>5, <2>1, <2>5, SameHand DEF Goes, d
<1>6. CASE /\ c.op = "create" /\ c.todo = <<>> /\ held' = held \union {out[i] : i \in DOMAIN out}
           /\ Ends(t, c, NoResult)
  <2>1. ASSUME NEW h \in Hand(c) PROVE h \in {out[i].handle : i \in DOMAIN out}
    <3>1. {c.todo[i] : i \in DOMAIN c.todo} = {}
          BY <1>6
    <3>2. h \in {c.handle} \union {c.out[i].handle : i \in DOMAIN c.out}
          BY <1>6, <2>1, <3>1 DEF Hand
    <3> QED
        BY <1>2, <3>2
  <2>2. \A h \in Hand(c) : Accounted(h)
        BY <1>6, <2>1 DEF Accounted, Owned
  <2> QED
      BY <1>6, <2>2, EndLost DEF Ends
<1>7. CASE /\ c.op = "dsa" /\ held' = held
           /\ Goes(t, Reading([c EXCEPT !.op = "params", !.single = FALSE], c.handle, ParamKeys))
  <2> DEFINE d == Reading([c EXCEPT !.op = "params", !.single = FALSE], c.handle, ParamKeys)
  <2>1. d.op = "params" /\ d.handle = c.handle /\ d.todo = c.todo /\ d.out = c.out
        BY <1>1 DEF Reading, Fields
  <2> HIDE DEF d
  <2>2. Hand(d) = Hand(c) /\ (d.op = "create" <=> c.op = "create")
        BY <1>7, <2>1, SameFields
  <2> QED
      BY <1>7, <2>2, SameHand DEF Goes, d
<1>8. CASE c.op = "dsa" /\ Raise(t)
  <2>1. call' = [call EXCEPT ![t] = NoCall] /\ held' = held
        BY <1>8 DEF Raise, Ends
  <2> QED
      BY <1>8, <2>1, ParamsAccounted, EndLost
<1> QED
    BY <1>4, <1>5, <1>6, <1>7, <1>8 DEF Receive, Makers, b, out

LEMMA OneByOneLost ==
    ASSUME TypeInv, LostInv, Onward, NEW t \in Threads, NEW left, NEW read,
           Goes(t, OneByOne(call[t], left, read)), held' = held, issued' = issued
    PROVE  \E e : LostStep(t, e)
<1> DEFINE d == OneByOne(call[t], left, read)
<1>1. DOMAIN call[t] = Fields
      BY DEF TypeInv, CallFits, CallHolds
<1>2. d.op = call[t].op /\ d.handle = call[t].handle /\ d.todo = call[t].todo /\ d.out = call[t].out
      BY <1>1, OneByOneParts
<1> HIDE DEF d
<1>3. Hand(d) = Hand(call[t]) /\ (d.op = "create" <=> call[t].op = "create")
      BY <1>2, SameFields
<1> QED
    BY <1>3, SameHand DEF Goes, d

(* An exception leaves the call, for one of the reasons.                   *)
LEMMA RaiseLost ==
    ASSUME TypeInv, LostInv, Onward, NEW t \in Threads, call[t].step \in Reads, Raise(t),
           UNCHANGED token,
           call[t].op = "create" =>
                \/ objects[call[t].handle] = Gone \/ <<call[t].handle, TRUE>> \in odd'
                \/ objects[call[t].handle][Class] \in Unknown
    PROVE  \E e : LostStep(t, e)
<1> DEFINE c == call[t]
<1>1. /\ call' = [call EXCEPT ![t] = NoCall] /\ held \subseteq held'
      /\ objects' = objects /\ issued' = issued /\ together' = together
      BY DEF Raise, Ends, token
<1>2. CASE c.op \notin Makers
      BY <1>1, <1>2, EndLost DEF Hand
<1>3. CASE c.op \in {"dsa", "params"}
      BY <1>1, <1>3, ParamsAccounted, EndLost
<1>4. CASE c.op = "create"
  <2>1. c.handle \in Hand(c)
        BY <1>4 DEF Hand, Makers
  <2>2. \A g \in Hand(c), h \in Hand(c) :
            g \in together[h] /\ (objects[g] # Gone /\ objects[g][Class] \in Unknown => g = h)
        BY <1>4 DEF LostInv, HandTrue
  <2>3. \A h \in Hand(c) : Accounted(h)
        BY <1>1, <1>4, <2>1, <2>2 DEF Accounted, Cause
  <2> QED
      BY <1>1, <2>3, EndLost
<1> QED
    BY <1>2, <1>3, <1>4 DEF Makers

LEMMA ReadLost ==
    ASSUME TypeInv, LostInv, Onward, NEW t \in Threads, call[t].step \in Reads, NEW bytes,
           Read(t, bytes), DOMAIN bytes \subseteq KeySet(call[t].keys),
           \A k \in DOMAIN bytes : bytes[k] = objects[call[t].handle][k]
    PROVE  \E e : LostStep(t, e)
<1> DEFINE c == call[t]
           attributes == AsDict(bytes)
           all == Merge(c.read, attributes)
<1>1. /\ issued \in Nat /\ DOMAIN c = Fields /\ c.handle \in 1..issued /\ KeysFit(c)
      BY Numbers DEF TypeInv, CallFits, CallHolds
<1>2. CASE ~Unpackable(bytes) /\ Raise(t) /\ UNCHANGED token
  <2>1. PICK k \in DOMAIN bytes : Handlers[k] = "enum" /\ bytes[k] \in Unknown
        BY <1>2 DEF Unpackable
  <2>2. c.op = "create" => objects[c.handle][Class] \in Unknown
    <3>1. SUFFICES ASSUME c.op = "create" PROVE k = Class
          BY <2>1
    <3>2. KeySet(c.keys) \subseteq KeySet(ObjectKeys)
      <4>1. CASE c.single = FALSE
            BY <1>1, <3>1, <4>1 DEF KeysFit
      <4>2. CASE c.single = TRUE
        <5>1. PICK j \in KeySet(ObjectKeys) : c.keys = <<j>>
              BY <1>1, <4>2 DEF KeysFit
        <5> QED
            BY <5>1 DEF KeySet
      <4> QED
          BY <1>1, <4>1, <4>2 DEF KeysFit
    <3> QED
        BY <2>1, <3>2, KeysAssumption
  <2> QED
      BY <1>2, <2>2, RaiseLost
<1>3. CASE /\ c.op \notin Makers /\ UNCHANGED <<held, token>>
           /\ \E answer : Ends(t, c, answer)
  <2>1. \A h \in Hand(c) : Accounted(h)
        BY <1>3 DEF Hand
  <2> QED
      BY <1>3, <2>1, EndLost DEF Ends, token
<1>4. CASE c.op = "params" /\ UNCHANGED <<held, token>> /\ Ends(t, c, NoResult)
      BY <1>4, ParamsAccounted, EndLost DEF Ends, token
<1>5. ASSUME c.op = "params", held' = held, NEW made \in Made, Len(made) = 2, Create(t, c, made)
      PROVE  \E e : LostStep(t, e)
  <2>1. \A h \in Hand(c) : Accounted(h)
        BY <1>5, ParamsAccounted
  <2>2. made \in Seq(Contents)
        BY <1>5, MadeLists
  <2> QED
      BY <1>1, <1>5, <2>1, <2>2, CreateLost
<1>6. ASSUME NEW single \in BOOLEAN, NEW read, Receive(t, c, NewObject(c.handle, read, single)),
             UNCHANGED token
      PROVE  \E e : LostStep(t, e)
  <2>1. NewObject(c.handle, read, single) \in PyObjects(issued)
        BY <1>1, NewObjectFits
  <2>2. NewObject(c.handle, read, single).handle = c.handle
        BY DEF NewObject
  <2> QED
      BY <1>6, <2>1, <2>2, ReceiveLost DEF token
<1>7. CASE Goes(t, OneByOne(c, c.left, all)) /\ UNCHANGED <<held, token>>
      BY <1>7, OneByOneLost DEF token
<1> HIDE DEF attributes, all
<1>8. CASE c.op = "get"
      BY <1>2, <1>3, <1>8 DEF Read, Makers
<1>9. CASE c.op = "params"
      BY <1>2, <1>4, <1>5, <1>9 DEF Read
<1>10. CASE c.op \notin {"get", "params"}
      BY <1>2, <1>6, <1>7, <1>10 DEF Read, attributes, all
<1> QED
    BY <1>8, <1>9, <1>10

LEMMA UnreadLost ==
    ASSUME TypeInv, LostInv, Onward, NEW t \in Threads, call[t].step \in Reads, NEW rv, Unread(t, rv),
           \/ call[t].op # "create" \/ ReadOf(call[t]) \in odd' \/ objects[call[t].handle] = Gone
           \/ rv \in {"CKR_ATTRIBUTE_TYPE_INVALID", "CKR_ATTRIBUTE_SENSITIVE", "CKR_FUNCTION_FAILED"}
    PROVE  \E e : LostStep(t, e)
<1> DEFINE c == call[t]
<1>1. CASE Goes(t, OneByOne(c, ObjectKeys, <<>>)) /\ UNCHANGED <<held, token>>
      BY <1>1, OneByOneLost DEF token
<1>2. CASE Read(t, <<>>)
  <2>1. DOMAIN <<>> \subseteq KeySet(c.keys) /\ \A k \in DOMAIN <<>> : <<>>[k] = objects[c.handle][k]
        OBVIOUS
  <2> QED
      BY <1>2, <2>1, ReadLost
<1>3. CASE /\ Raise(t) /\ UNCHANGED token
           /\ c.op \in {"get", "params"} \/ c.single
           /\ ~(c.op # "get" /\ Raised[rv] \in Skipped(c.op))
  <2>1. c.op = "create" => objects[c.handle] = Gone \/ <<c.handle, TRUE>> \in odd'
    <3>1. SUFFICES ASSUME c.op = "create" PROVE objects[c.handle] = Gone \/ <<c.handle, TRUE>> \in odd'
          OBVIOUS
    <3>2. c.single = TRUE
      <4>1. c.single \in BOOLEAN
            BY DEF TypeInv, CallFits, KeysFit
      <4> QED
          BY <1>3, <3>1, <4>1
    <3>3. rv \notin {"CKR_ATTRIBUTE_TYPE_INVALID", "CKR_ATTRIBUTE_SENSITIVE", "CKR_FUNCTION_FAILED"}
          BY <1>3, <3>1 DEF Skipped, Raised
    <3>4. ReadOf(c) = <<c.handle, TRUE>>
          BY <3>2 DEF ReadOf
    <3> QED
        BY <3>1, <3>3, <3>4
  <2> QED
      BY <1>3, <2>1, RaiseLost
<1> QED
    BY <1>1, <1>2, <1>3 DEF Unread

(* Without a deviation a read fails only for what the code passes over.    *)
LEMMA HonestQuery ==
    ASSUME NEW object \in Contents, NEW keys \in Seq(Attributes), keys # <<>>,
           DOMAIN Buffers(keys, SizeAnswer(object, keys)) = {}
    PROVE  QueryStatus(SizeAnswer(object, keys)) \in
              {"CKR_ATTRIBUTE_TYPE_INVALID", "CKR_ATTRIBUTE_SENSITIVE", "CKR_FUNCTION_FAILED"}
<1> DEFINE answer == SizeAnswer(object, keys)
<1>1. object # Gone
      BY ValuesAssumption
<1>2. DOMAIN keys # {}
  <2>1. Len(keys) \in Nat /\ Len(keys) # 0 /\ DOMAIN keys = 1..Len(keys)
        OBVIOUS
  <2>2. 1 \in DOMAIN keys
        BY <2>1
  <2> QED
      BY <2>2
<1>3. PICK i \in DOMAIN keys : object[keys[i]] = Unavailable
      BY <1>1, <1>2, SizesAnswered
<1>4. ~Shown(object, KeySet(keys))
      BY <1>3 DEF Shown, KeySet
<1>5. answer.rv \in {"CKR_ATTRIBUTE_TYPE_INVALID", "CKR_ATTRIBUTE_SENSITIVE"}
      BY <1>1, <1>4 DEF SizeAnswer, Refused
<1> QED
    BY <1>5 DEF QueryStatus

LEMMA QuerySizesLost ==
    ASSUME TypeInv, LostInv, Onward, NEW t \in Threads, QuerySizes(t)
    PROVE  \E e : LostStep(t, e)
<1> DEFINE c == call[t]
           object == objects[c.handle]
<1>1. /\ c.step \in Reads /\ DOMAIN c = Fields /\ c.handle \in Handles
      /\ KeysFit(c) /\ object \in Contents \union {Gone}
      BY Numbers DEF QuerySizes, Reads, TypeInv, CallFits, CallHolds, TokenFits
<1>2. PICK answer \in {SizeAnswer(object, c.keys)} \union OddSizeAnswers(object, c.keys) :
         /\ answer = SizeAnswer(object, c.keys) \/ ReadOf(c) \in odd'
         /\ \/ /\ Goes(t, [c EXCEPT !.step = "fill", !.buffers = Buffers(c.keys, answer)])
               /\ UNCHANGED <<held, token>>
            \/ DOMAIN Buffers(c.keys, answer) = {} /\ Unread(t, QueryStatus(answer))
      BY DEF QuerySizes, Deviates
<1>3. CASE /\ Goes(t, [c EXCEPT !.step = "fill", !.buffers = Buffers(c.keys, answer)])
           /\ UNCHANGED <<held, token>>
  <2> DEFINE d == [c EXCEPT !.step = "fill", !.buffers = Buffers(c.keys, answer)]
  <2>1. d.op = c.op /\ d.handle = c.handle /\ d.todo = c.todo /\ d.out = c.out
        BY <1>1 DEF Fields
  <2> HIDE DEF d
  <2>2. Hand(d) = Hand(c) /\ (d.op = "create" <=> c.op = "create")
        BY <2>1, SameFields
  <2> QED
      BY <1>3, <2>2, SameHand DEF Goes, d, token
<1>4. CASE DOMAIN Buffers(c.keys, answer) = {} /\ Unread(t, QueryStatus(answer))
  <2>1. c.op = "create" => c.keys \in Seq(Attributes) /\ c.keys # <<>>
    <3>1. \A k : <<k>> # <<>>
          OBVIOUS
    <3> QED
        BY <1>1, <3>1, KeysListed DEF KeysFit
  <2>2. ASSUME c.op = "create", answer = SizeAnswer(object, c.keys), object # Gone
        PROVE  QueryStatus(answer) \in
                  {"CKR_ATTRIBUTE_TYPE_INVALID", "CKR_ATTRIBUTE_SENSITIVE", "CKR_FUNCTION_FAILED"}
        BY <1>1, <1>4, <2>1, <2>2, HonestQuery
  <2> QED
      BY <1>1, <1>2, <1>4, <2>2, UnreadLost
<1> QED
    BY <1>2, <1>3, <1>4

LEMMA FillValuesLost ==
    ASSUME TypeInv, LostInv, Onward, NEW t \in Threads, FillValues(t)
    PROVE  \E e : LostStep(t, e)
<1> DEFINE c == call[t]
           object == objects[c.handle]
<1>1. c.step \in Reads /\ DOMAIN c.buffers \subseteq KeySet(c.keys)
      BY DEF FillValues, Reads, TypeInv, CallFits
<1>2. PICK answer \in {ValueAnswer(object, c.buffers)} \union OddValueAnswers(object, c.buffers) :
         /\ answer = ValueAnswer(object, c.buffers) \/ ReadOf(c) \in odd'
         /\ \/ Passes(FillStatus(answer)) /\ Read(t, answer.values)
            \/ ~Passes(FillStatus(answer)) /\ Unread(t, FillStatus(answer))
      BY DEF FillValues, Deviates
<1>3. CASE Passes(FillStatus(answer)) /\ Read(t, answer.values)
  <2>1. /\ object # Gone /\ DOMAIN answer.values = DOMAIN c.buffers
        /\ \A k \in DOMAIN c.buffers : answer.values[k] = object[k] /\ object[k] # Unavailable
        BY <1>3, ValuesAnswered
  <2> QED
      BY <1>1, <1>3, <2>1, ReadLost
<1>4. CASE ~Passes(FillStatus(answer)) /\ Unread(t, FillStatus(answer))
  <2>1. answer = ValueAnswer(object, c.buffers) /\ object # Gone
          => FillStatus(answer) = "CKR_FUNCTION_FAILED"
        BY <1>4, HonestFill
  <2> QED
      BY <1>1, <1>2, <1>4, <2>1, UnreadLost
<1> QED
    BY <1>2, <1>3, <1>4

LEMMA CallsLost ==
    ASSUME TypeInv, LostInv, Onward, NEW t \in Threads,
           \/ GetAttributes(t) \/ GenerateFrom(t) \/ CreateObject(t) \/ GeneratePair(t)
           \/ GenerateDSA(t) \/ CopyObject(t) \/ MakeWithKey(t)
    PROVE  \E e : LostStep(t, e)
<1>1. \A op : DOMAIN [NoCall EXCEPT !.op = op] = Fields /\ [NoCall EXCEPT !.op = op].op = op
      BY DEF NoCall, Fields
<1>2. call[t].step = "idle" /\ held' = held
      BY DEF GetAttributes, GenerateFrom, CreateObject, GeneratePair, GenerateDSA, CopyObject,
             MakeWithKey, Begin
<1>3. call[t].op = "none" /\ Hand(call[t]) = {}
      BY <1>2 DEF TypeInv, CallFits, Hand, Makers
<1>4. CASE GetAttributes(t)
  <2>1. PICK h, keys : Goes(t, Reading([NoCall EXCEPT !.op = "get"], h, keys))
        BY <1>4 DEF GetAttributes
  <2> DEFINE d == Reading([NoCall EXCEPT !.op = "get"], h, keys)
  <2>2. d.op = "get"
        BY DEF Reading, NoCall
  <2> HIDE DEF d
  <2>3. Hand(d) = {}
        BY <2>2 DEF Hand, Makers
  <2> QED
      BY <1>2, <1>3, <1>4, <2>1, <2>2, <2>3, SameHand DEF Goes, d, GetAttributes, token
<1>5. CASE GenerateFrom(t)
  <2>1. PICK o \in held : Goes(t, Reading([NoCall EXCEPT !.op = "params"], o.handle, ParamKeys))
        BY <1>5 DEF GenerateFrom
  <2> DEFINE d == Reading([NoCall EXCEPT !.op = "params"], o.handle, ParamKeys)
  <2>2. d.op = "params" /\ d.handle = o.handle /\ d.todo = <<>> /\ d.out = <<>>
        BY DEF Reading, NoCall
  <2> HIDE DEF d
  <2>3. Hand(d) = {o.handle}
        BY <2>2 DEF Hand, Makers
  <2>4. HandTrue(d, objects', together', held')
        BY <1>2, <2>2, <2>3 DEF HandTrue, Owned
  <2>5. issued \in Nat /\ issued' = issued
        BY <1>5, Numbers DEF GenerateFrom, token
  <2>6. LostStep(t, d)
        BY <1>2, <1>3, <2>1, <2>4, <2>5 DEF LostStep, Goes, TypeInv, d
  <2> QED
      BY <2>6
<1>6. CASE CreateObject(t) \/ GeneratePair(t) \/ MakeWithKey(t)
  <2>1. PICK made \in Made : Len(made) \in {1, 2} /\ Create(t, [NoCall EXCEPT !.op = "create"], made)
        BY <1>6 DEF CreateObject, GeneratePair, MakeWithKey
  <2>2. made \in Seq(Contents)
        BY <2>1, MadeLists
  <2> QED
      BY <1>1, <1>2, <1>3, <2>1, <2>2, CreateLost
<1>7. ASSUME NEW x \in Contents
      PROVE  <<x>> \in Seq(Contents) /\ Len(<<x>>) = 1 /\ <<x>>[1] = x
      OBVIOUS
<1>8. CASE GenerateDSA(t)
  <2>1. Create(t, [NoCall EXCEPT !.op = "dsa"], <<Params>>) /\ Params \in Contents
        BY <1>8, ObjectsAssumption DEF GenerateDSA
  <2> QED
      BY <1>1, <1>2, <1>3, <1>7, <2>1, CreateLost
<1>9. CASE CopyObject(t)
  <2>1. PICK o \in held : /\ objects[o.handle] # Gone
                          /\ Create(t, [NoCall EXCEPT !.op = "create"], <<objects[o.handle]>>)
        BY <1>9 DEF CopyObject
  <2>2. objects[o.handle] \in Contents
        BY <2>1, ObjectsHeld DEF TypeInv, TokenFits
  <2> QED
      BY <1>1, <1>2, <1>3, <1>7, <2>1, <2>2, CreateLost
<1> QED
    BY <1>4, <1>5, <1>6, <1>8, <1>9

LEMMA SearchingLost ==
    ASSUME TypeInv, LostInv, Onward, NEW t \in Threads,
           \/ Search(t) \/ FindObjects(t) \/ FindObjectsFails(t) \/ SearchEnds(t)
           \/ NextObject(t) \/ DropSearch(t)
    PROVE  \E e : LostStep(t, e)
<1> DEFINE c == call[t]
<1>1. DOMAIN c = Fields /\ c.op \notin Makers
      BY DEF Search, Begin, FindObjects, FindObjectsFails, SearchEnds, NextObject, DropSearch,
             TypeInv, CallFits, CallHolds, Makers, Searching
<1>2. issued' = issued /\ held \subseteq held'
      BY DEF Search, FindObjects, FindObjectsFails, Raise, SearchEnds, NextObject, DropSearch, token
<1>3. \A b : DOMAIN b = Fields => Making(b).op = b.op
      BY DEF Making, Reading, Fields
<1>4. ASSUME NEW d, call' = [call EXCEPT ![t] = d], d.op \notin Makers
      PROVE  \E e : LostStep(t, e)
  <2>1. Hand(d) = {} /\ Hand(c) = {} /\ d.op # "create" /\ c.op # "create"
        BY <1>1, <1>4 DEF Hand, Makers
  <2> QED
      BY <1>2, <1>4, <2>1, SameHand
<1>5. CASE FindObjectsFails(t) \/ SearchEnds(t) \/ DropSearch(t)
  <2>1. call' = [call EXCEPT ![t] = NoCall] /\ NoCall.op \notin Makers
        BY <1>5 DEF FindObjectsFails, Raise, SearchEnds, DropSearch, Ends, NoCall, Makers
  <2> QED
      BY <1>4, <2>1
<1>6. CASE Search(t)
  <2>1. PICK op \in Searching : Goes(t, [NoCall EXCEPT !.op = op, !.step = "next"])
        BY <1>6 DEF Search, Searching
  <2>2. [NoCall EXCEPT !.op = op, !.step = "next"].op = op
        BY DEF NoCall
  <2> QED
      BY <1>4, <2>1, <2>2 DEF Goes, Searching, Makers
<1>7. CASE FindObjects(t)
  <2>1. PICK n : Goes(t, Making([c EXCEPT !.todo = BatchOf(n)]))
        BY <1>7 DEF FindObjects
  <2>2. Making([c EXCEPT !.todo = BatchOf(n)]).op = c.op
        BY <1>1, <1>3 DEF Fields
  <2> QED
      BY <1>1, <1>4, <2>1, <2>2 DEF Goes
<1>8. CASE NextObject(t)
  <2>1. Making(c).op = c.op /\ [c EXCEPT !.step = "next"].op = c.op
        BY <1>1, <1>3 DEF Fields
  <2>2. Goes(t, Making(c)) \/ Goes(t, [c EXCEPT !.step = "next"])
        BY <1>8 DEF NextObject
  <2> QED
      BY <1>1, <1>4, <2>1, <2>2 DEF Goes
<1> QED
    BY <1>5, <1>6, <1>7, <1>8

LEMMA LostNext == TypeInv /\ HistoryInv /\ LostInv /\ [Next]_vars => LostInv'
<1> SUFFICES ASSUME TypeInv, HistoryInv, LostInv, [Next]_vars PROVE LostInv'
    OBVIOUS
<1>1. Onward
      BY HistoryNext, TypeNext, OddGrows, ObjectsAssumption DEF Onward
<1>2. ASSUME NEW t \in Threads, \E d : LostStep(t, d) PROVE LostInv'
      BY <1>1, <1>2, StepKeepsLost
<1>3. ASSUME NEW t \in Threads, UNCHANGED <<call, held, issued>> PROVE LostInv'
      BY <1>1, <1>2, <1>3, SameHand
<1>4. ASSUME NEW t \in Threads, SetAttribute(t) \/ Destroy(t) PROVE LostInv'
      BY <1>3, <1>4 DEF SetAttribute, Destroy
<1>5. ASSUME NEW t \in Threads, QuerySizes(t) \/ FillValues(t) PROVE LostInv'
      BY <1>1, <1>2, <1>5, QuerySizesLost, FillValuesLost
<1>6. ASSUME NEW t \in Threads,
             \/ GetAttributes(t) \/ GenerateFrom(t) \/ CreateObject(t) \/ GeneratePair(t)
             \/ GenerateDSA(t) \/ CopyObject(t) \/ MakeWithKey(t)
      PROVE  LostInv'
      BY <1>1, <1>2, <1>6, CallsLost
<1>7. ASSUME NEW t \in Threads,
             \/ Search(t) \/ FindObjects(t) \/ FindObjectsFails(t) \/ SearchEnds(t)
             \/ NextObject(t) \/ DropSearch(t)
      PROVE  LostInv'
      BY <1>1, <1>2, <1>7, SearchingLost
<1>8. CASE UNCHANGED vars
  <2>1. \A t \in Threads : InHand(t)' = InHand(t)
        BY <1>8 DEF vars, InHand
  <2> QED
      BY <1>8, <2>1 DEF vars, LostInv, OrphansHaveCause, Orphans
<1> QED
    BY <1>4, <1>5, <1>6, <1>7, <1>8 DEF Next

LEMMA LostInit == Init => LostInv
<1> SUFFICES ASSUME Init PROVE LostInv
    OBVIOUS
<1>1. Len(Stored) \in Nat /\ (Len(Stored) + 1)..issued = {}
      BY ObjectsAssumption DEF Init
<1>2. \A t \in Threads : call[t].op = "none"
      BY DEF Init, NoCall
<1> QED
    BY <1>1, <1>2 DEF LostInv, OrphansHaveCause, Orphans, HandTrue

(* Objects that the program has created get lost only for the reasons that *)
(* the property lists (make_object, generate_keypair).                     *)
THEOREM CausedOrphans == Spec => []OrphansHaveCause
<1>1. TypeInv /\ HistoryInv /\ LostInv /\ [Next]_vars => (TypeInv /\ HistoryInv /\ LostInv)'
      BY TypeNext, HistoryNext, LostNext
<1>2. LostInv => OrphansHaveCause
      BY DEF LostInv
<1> QED
    BY <1>1, <1>2, TypeInit, HistoryInit, LostInit, PTL DEF Spec
===============================================================================
