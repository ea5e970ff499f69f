------------------------ MODULE BufferedOutputProofs ------------------------
(***************************************************************************)
(* The output buffers for every number of operations, every buffer size    *)
(* and every answer of the token, proved with TLAPS.                       *)
(***************************************************************************)
EXTENDS BufferedOutput, SequenceTheorems, TLAPS

-----------------------------------------------------------------------------
(* Buffers and bytes *)

LEMMA NewBufferIsSeq ==
    ASSUME NEW n \in Nat
    PROVE  NewBuffer(n) \in Seq(Contents) /\ Len(NewBuffer(n)) = n
<1>1. NewBuffer(n) \in [1 .. n -> Contents]
  BY DEF NewBuffer, Contents
<1> QED
  BY <1>1, IsASeq, LenProperties

LEMMA ResizedHasRoom ==
    ASSUME NEW b \in Seq(Contents), NEW n \in Nat
    PROVE  /\ Resized(b, n) \in Seq(Contents)
           /\ n <= Len(Resized(b, n))
           /\ Len(b) <= Len(Resized(b, n))
BY NewBufferIsSeq, LenProperties DEF Resized

\* What the token leaves in a buffer b of o after it wrote n bytes more than m.
Stored(o, b, m, n) == [i \in DOMAIN b |-> IF i <= n THEN <<o, m + i>> ELSE b[i]]

LEMMA StoredIsSeq ==
    ASSUME NEW o \in Ops, NEW b \in Seq(Contents), NEW m \in Nat, NEW n \in Nat
    PROVE  /\ Stored(o, b, m, n) \in Seq(Contents)
           /\ Len(Stored(o, b, m, n)) = Len(b)
<1>1. DOMAIN b = 1 .. Len(b) /\ Len(b) \in Nat /\ b \in [1 .. Len(b) -> Contents]
  BY LenProperties
<1>2. \A i \in 1 .. Len(b) : <<o, m + i>> \in Contents
  BY DEF Contents
<1>3. Stored(o, b, m, n) \in [1 .. Len(b) -> Contents]
  BY <1>1, <1>2 DEF Stored
<1> QED
  BY <1>1, <1>3, IsASeq, LenProperties

LEMMA BytesIsSeq ==
    ASSUME NEW o \in Ops, NEW n \in Nat
    PROVE  Bytes(o, n) \in Seq(Contents) /\ Len(Bytes(o, n)) = n
<1>1. Bytes(o, n) \in [1 .. n -> Contents]
  BY DEF Bytes, Contents
<1> QED
  BY <1>1, IsASeq, LenProperties

LEMMA Joined ==
    ASSUME NEW S, NEW f \in Seq(S), NEW g \in Seq(S), NEW m, NEW k, Len(f) = m, Len(g) = k
    PROVE  /\ f \o g \in Seq(S)
           /\ Len(f \o g) = m + k
           /\ \A i \in 1 .. m + k : (f \o g)[i] = IF i <= m THEN f[i] ELSE g[i - m]
BY ConcatProperties

\* A slice of the buffer is put after what was received.
LEMMA Appended ==
    ASSUME NEW g \in Seq(Contents), NEW b \in Seq(Contents), NEW k \in Nat, k <= Len(b)
    PROVE  /\ g \o SubSeq(b, 1, k) \in Seq(Contents)
           /\ Len(g \o SubSeq(b, 1, k)) = Len(g) + k
           /\ \A i \in 1 .. Len(g) : (g \o SubSeq(b, 1, k))[i] = g[i]
           /\ \A i \in Len(g) + 1 .. Len(g) + k :
                 (g \o SubSeq(b, 1, k))[i] = b[i - Len(g)]
<1>1. Len(g) \in Nat /\ Len(b) \in Nat
  BY LenProperties
<1>2. SubSeq(b, 1, k) \in Seq(Contents) /\ Len(SubSeq(b, 1, k)) = k
  BY SubSeqProperties, LenProperties
<1>3. \A i \in 1 .. k : SubSeq(b, 1, k)[i] = b[i]
  BY SubSeqProperties, LenProperties
<1>4. /\ g \o SubSeq(b, 1, k) \in Seq(Contents)
      /\ Len(g \o SubSeq(b, 1, k)) = Len(g) + k
      /\ \A i \in 1 .. Len(g) + k : (g \o SubSeq(b, 1, k))[i] =
            IF i <= Len(g) THEN g[i] ELSE SubSeq(b, 1, k)[i - Len(g)]
  BY <1>2, Joined
<1>5. \A i \in 1 .. Len(g) : (g \o SubSeq(b, 1, k))[i] = g[i]
  BY <1>1, <1>4
<1>6. ASSUME NEW i \in Len(g) + 1 .. Len(g) + k
      PROVE  (g \o SubSeq(b, 1, k))[i] = b[i - Len(g)]
  <2>1. i - Len(g) \in 1 .. k /\ i \in 1 .. Len(g) + k /\ ~(i <= Len(g))
    BY <1>1
  <2> QED
    BY <2>1, <1>3, <1>4
<1> QED
  BY <1>4, <1>5, <1>6

\* A sequence that agrees with the bytes of o is those bytes.
LEMMA AgreesIsBytes ==
    ASSUME NEW o \in Ops, NEW s \in Seq(Contents), NEW n \in Nat, Len(s) = n,
           \A i \in 1 .. n : s[i] = <<o, i>>
    PROVE  s = Bytes(o, n)
<1>1. Bytes(o, n) \in Seq(Contents) /\ Len(Bytes(o, n)) = n
  BY BytesIsSeq
<1>2. \A i \in 1 .. n : Bytes(o, n)[i] = <<o, i>>
  BY DEF Bytes
<1> QED
  BY <1>1, <1>2, SeqEqual

-----------------------------------------------------------------------------
(* Types *)

LEMMA OwnInContents ==
    ASSUME NEW o \in Ops, NEW n \in Nat
    PROVE  Own(o, n) \subseteq Contents
BY DEF Own, Contents

LEMMA SizeIsNat ==
    ASSUME NEW k, NEW w, NEW n \in Sizes
    PROVE  BufferSize(k, w, n) \in Nat
BY SizesAssumption DEF BufferSize

LEMMA OutputFits ==
    ASSUME TypeOK, NEW o \in Ops
    PROVE  LET k == Shorter(dataLen[o], Len(buf[o]))
           IN  /\ k \in Nat /\ k <= Len(buf[o]) /\ k <= dataLen[o]
               /\ dataLen[o] <= Len(buf[o]) => k = dataLen[o]
               /\ CurrentOutput(o) = SubSeq(buf[o], 1, k)
<1>1. dataLen[o] \in Nat /\ Len(buf[o]) \in Nat
  BY LenProperties DEF TypeOK
<1> QED
  BY <1>1 DEF CurrentOutput, Shorter

LEMMA GoneType ==
    ASSUME TypeOK, NEW o \in Ops, Gone(o)
    PROVE  /\ need' \in [Ops -> Nat]
           /\ buf' \in [Ops -> Seq(Contents)]
           /\ dataLen' \in [Ops -> Nat]
           /\ call' \in [Ops -> Calls]
<1>1. <<>> \in Seq(Contents)
  BY EmptySeq
<1> QED
  BY <1>1 DEF Gone, TypeOK, Calls

LEMMA StoreType ==
    ASSUME TypeOK, NEW o \in Ops, NEW n \in Nat, Store(o, n)
    PROVE  /\ buf' = [buf EXCEPT ![o] = Stored(o, buf[o], made[o], n)]
           /\ buf' \in [Ops -> Seq(Contents)]
           /\ Len(buf'[o]) = Len(buf[o])
<1>1. buf[o] \in Seq(Contents) /\ made[o] \in Nat
  BY DEF TypeOK
<1>2. buf' = [buf EXCEPT ![o] = Stored(o, buf[o], made[o], n)]
  BY DEF Store, Stored
<1>3. Stored(o, buf[o], made[o], n) \in Seq(Contents)
      /\ Len(Stored(o, buf[o], made[o], n)) = Len(buf[o])
  BY <1>1, StoredIsSeq
<1> QED
  BY <1>2, <1>3 DEF TypeOK

\* The token has written n more bytes.
LEMMA MadeType ==
    ASSUME TypeOK, NEW o \in Ops, NEW n \in Nat, made' = [made EXCEPT ![o] = @ + n]
    PROVE  made' \in [Ops -> Nat] /\ made'[o] = made[o] + n
BY DEF TypeOK

LEMMA TypeInit == Init => TypeOK
<1>1. <<>> \in Seq(Contents)
  BY EmptySeq
<1> QED
  BY <1>1, SwitchAssumption DEF Init, TypeOK, Phases, Calls

LEMMA BeginType ==
    ASSUME TypeOK, NEW t \in Threads, NEW o \in Ops, NEW k \in Kinds, NEW w \in BOOLEAN,
           NEW n \in Sizes, Begin(t, o, k, w, n)
    PROVE  TypeOK'
<1>1. NewBuffer(BufferSize(k, w, n)) \in Seq(Contents)
  BY SizeIsNat, NewBufferIsSeq
<1> QED
  BY <1>1 DEF TypeOK, Begin, Acquires, streamVars, Phases

LEMMA StepType ==
    ASSUME TypeOK, NEW o \in Ops, Step(o)
    PROVE  TypeOK'
<1>0. 0 .. MaxEstimate \subseteq Nat
  BY SizesAssumption
<1>1. ASSUME NEW c \in Calls, NEW n \in 0 .. MaxEstimate, Ask(o, c, n)
      PROVE  TypeOK'
  <2>1. Resized(buf[o], n) \in Seq(Contents)
    BY <1>0, ResizedHasRoom DEF TypeOK
  <2> QED
    BY <1>1, <1>0, <2>1 DEF TypeOK, Ask, streamVars, sessionVars, Phases
<1>2. CASE AskRaises(o)
  BY <1>2 DEF TypeOK, AskRaises, bufVars, streamVars, sessionVars, Phases
<1>3. ASSUME NEW n \in 0 .. MaxEstimate, UpdateWrites(o, n)
      PROVE  TypeOK'
  <2>1. buf' \in [Ops -> Seq(Contents)]
    BY <1>0, <1>3, StoreType DEF UpdateWrites
  <2>2. made' \in [Ops -> Nat]
    BY <1>0, <1>3, MadeType DEF UpdateWrites
  <2> QED
    BY <1>0, <1>3, <2>1, <2>2 DEF TypeOK, UpdateWrites, sessionVars, Phases
<1>4. ASSUME NEW n \in 0 .. MaxEstimate, FinalWrites(o, n)
      PROVE  TypeOK'
  <2>1. buf' \in [Ops -> Seq(Contents)]
    BY <1>0, <1>4, StoreType DEF FinalWrites
  <2>2. made' \in [Ops -> Nat]
    BY <1>0, <1>4, MadeType DEF FinalWrites
  <2> QED
    BY <1>0, <1>4, <2>1, <2>2 DEF TypeOK, FinalWrites, Over, Phases
<1>5. ASSUME NEW n \in 0 .. MaxEstimate, UpdateTooSmall(o, n)
      PROVE  TypeOK'
  BY <1>0, <1>5 DEF TypeOK, UpdateTooSmall, sessionVars, Phases
<1>6. ASSUME NEW n \in 0 .. MaxEstimate, HailAsks(o, n)
      PROVE  TypeOK'
  <2>1. Resized(buf[o], n) \in Seq(Contents)
    BY <1>0, ResizedHasRoom DEF TypeOK
  <2> QED
    BY <1>6, <1>0, <2>1 DEF TypeOK, HailAsks, streamVars, sessionVars, Phases
<1>7. ASSUME NEW n \in 0 .. MaxEstimate, HailWrites(o, n)
      PROVE  TypeOK'
  <2>1. Gone(o)
    BY <1>7 DEF HailWrites
  <2>2. made' \in [Ops -> Nat]
    BY <1>0, <1>7, MadeType DEF HailWrites
  <2> QED
    BY <1>0, <1>7, <2>1, <2>2, GoneType DEF TypeOK, HailWrites, Over, Phases
<1>8. CASE Deliver(o)
  <2>1. given' \in [Ops -> Seq(Contents)]
    <3>1. given[o] \o CurrentOutput(o) \in Seq(Contents)
      <4>1. PICK k \in Nat : k <= Len(buf[o]) /\ CurrentOutput(o) = SubSeq(buf[o], 1, k)
        BY OutputFits
      <4>2. given[o] \in Seq(Contents) /\ buf[o] \in Seq(Contents)
        BY DEF TypeOK
      <4> QED
        BY <4>1, <4>2, Appended
    <3> QED
      BY <1>8, <3>1 DEF Deliver, TypeOK
  <2>2. sound' \in [Ops -> Nat]
    BY <1>8 DEF Deliver, TypeOK
  <2>3. CASE call[o] = "update"
    BY <1>8, <2>1, <2>2, <2>3 DEF TypeOK, Deliver, bufVars, sessionVars, Phases, Calls
  <2>4. CASE call[o] # "update"
    <3>1. Gone(o)
      BY <1>8, <2>4 DEF Deliver
    <3> QED
      BY <1>8, <2>1, <2>2, <2>4, <3>1, GoneType DEF TypeOK, Deliver, sessionVars, Phases
  <2> QED
    BY <2>3, <2>4
<1>9. CASE FinalTooSmall(o)
  <2>1. Gone(o)
    BY <1>9 DEF FinalTooSmall
  <2> QED
    BY <1>9, <2>1, GoneType DEF TypeOK, FinalTooSmall, streamVars, Phases
<1>10. CASE Feed(o)
  BY <1>10 DEF TypeOK, Feed, bufVars, streamVars, sessionVars
<1>11. CASE CallFails(o)
  <2>1. Gone(o)
    BY <1>11 DEF CallFails
  <2> QED
    BY <1>11, <2>1, GoneType DEF TypeOK, CallFails, Over, streamVars, Phases
<1>12. CASE Leave(o)
  BY <1>12 DEF TypeOK, Leave, bufVars, streamVars, sessionVars, Phases
<1>13. CASE Cancel(o)
  <2>1. Gone(o)
    BY <1>13 DEF Cancel
  <2> QED
    BY <1>13, <2>1, GoneType DEF TypeOK, Cancel, Over, streamVars, Phases
<1>14. CASE HailRaises(o)
  BY <1>14 DEF TypeOK, HailRaises, bufVars, streamVars, sessionVars, Phases
<1>15. CASE HailFails(o)
  <2>1. Gone(o)
    BY <1>15 DEF HailFails
  <2> QED
    BY <1>15, <2>1, GoneType DEF TypeOK, HailFails, Over, streamVars, Phases
<1>16. CASE HailTooSmall(o)
  <2>1. Gone(o)
    BY <1>16 DEF HailTooSmall
  <2> QED
    BY <1>16, <2>1, GoneType DEF TypeOK, HailTooSmall, streamVars, Phases
<1> QED
  BY <1>1, <1>2, <1>3, <1>4, <1>5, <1>6, <1>7, <1>8, <1>9, <1>10, <1>11, <1>12,
     <1>13, <1>14, <1>15, <1>16 DEF Step

-----------------------------------------------------------------------------
(* The inductive invariant *)

\* What the invariant says of p has not changed.
Same(p) ==
    /\ phase'[p] = phase[p]
    /\ need'[p] = need[p]
    /\ buf'[p] = buf[p]
    /\ dataLen'[p] = dataLen[p]
    /\ made'[p] = made[p]
    /\ given'[p] = given[p]
    /\ sound'[p] = sound[p]
    /\ (p \in misled') = (p \in misled)

LEMMA SameKeeps ==
    ASSUME NEW p \in Ops, OpInv(p), Same(p)
    PROVE  OpInv(p)'
BY DEF OpInv, Same, Own, Settled

\* A step of one operation touches no other: no buffer is shared.
LEMMA OthersSame ==
    ASSUME TypeOK, NEW o \in Ops, NEW p \in Ops, p # o, Step(o)
    PROVE  Same(p)
<1>1. ASSUME NEW c \in Calls, NEW n \in 0 .. MaxEstimate, Ask(o, c, n)
      PROVE  Same(p)
  BY <1>1 DEF TypeOK, Same, Ask, streamVars
<1>2. ASSUME NEW n \in 0 .. MaxEstimate, UpdateWrites(o, n)
      PROVE  Same(p)
  BY <1>2 DEF TypeOK, Same, UpdateWrites, Store
<1>3. ASSUME NEW n \in 0 .. MaxEstimate, FinalWrites(o, n)
      PROVE  Same(p)
  BY <1>3 DEF TypeOK, Same, FinalWrites, Store
<1>4. ASSUME NEW n \in 0 .. MaxEstimate, UpdateTooSmall(o, n)
      PROVE  Same(p)
  BY <1>4 DEF TypeOK, Same, UpdateTooSmall
<1>5. ASSUME NEW n \in 0 .. MaxEstimate, HailAsks(o, n)
      PROVE  Same(p)
  BY <1>5 DEF TypeOK, Same, HailAsks, streamVars
<1>6. ASSUME NEW n \in 0 .. MaxEstimate, HailWrites(o, n)
      PROVE  Same(p)
  BY <1>6 DEF TypeOK, Same, HailWrites, Gone
<1>7. CASE Deliver(o)
  BY <1>7 DEF TypeOK, Same, Deliver, Gone, bufVars
<1>8. CASE AskRaises(o) \/ Leave(o) \/ HailRaises(o) \/ Feed(o)
  BY <1>8 DEF TypeOK, Same, AskRaises, Leave, HailRaises, Feed, bufVars, streamVars
<1>9. CASE FinalTooSmall(o) \/ CallFails(o) \/ Cancel(o)
  BY <1>9 DEF TypeOK, Same, FinalTooSmall, CallFails, Cancel, Gone, streamVars
<1>10. CASE HailFails(o) \/ HailTooSmall(o)
  BY <1>10 DEF TypeOK, Same, HailFails, HailTooSmall, Gone, streamVars
<1> QED
  BY <1>1, <1>2, <1>3, <1>4, <1>5, <1>6, <1>7, <1>8, <1>9, <1>10 DEF Step

\* An operation that is over keeps what it gave.
LEMMA GoneKeeps ==
    ASSUME TypeOK, NEW o \in Ops, OpInv(o), Gone(o),
           phase' = [phase EXCEPT ![o] = "broken"],
           NEW n \in Nat, made' = [made EXCEPT ![o] = @ + n],
           UNCHANGED <<given, sound, misled>>
    PROVE  OpInv(o)'
<1>1. phase'[o] = "broken" /\ buf'[o] = <<>> /\ made'[o] = made[o] + n
  BY DEF TypeOK, Gone
<1>2. Len(buf'[o]) = 0
  BY <1>1, EmptySeq
<1>3. Own(o, made[o]) \subseteq Own(o, made'[o])
  BY <1>1 DEF Own, TypeOK
<1> QED
  BY <1>1, <1>2, <1>3 DEF OpInv, Settled

\* One that only goes on keeps everything.
LEMMA MoveKeeps ==
    ASSUME TypeOK, NEW o \in Ops, OpInv(o), NEW q, phase' = [phase EXCEPT ![o] = q],
           phase[o] \in Settled, q \notin {"asked", "hail", "written"},
           UNCHANGED <<bufVars, streamVars>>
    PROVE  OpInv(o)'
BY DEF OpInv, TypeOK, Settled, Own, bufVars, streamVars

\* After the query there is room.
LEMMA AskKeeps ==
    ASSUME TypeOK, NEW o \in Ops, OpInv(o), NEW n \in Nat,
           NEW q, phase' = [phase EXCEPT ![o] = q],
           phase[o] \in {"body", "exiting"}, q \in {"asked", "hail"},
           need' = [need EXCEPT ![o] = n],
           buf' = [buf EXCEPT ![o] = Resized(@, n)],
           UNCHANGED <<dataLen, streamVars>>
    PROVE  OpInv(o)'
<1>1. buf[o] \in Seq(Contents) /\ Resized(buf[o], n) \in Seq(Contents)
      /\ n <= Len(Resized(buf[o], n))
  BY ResizedHasRoom DEF TypeOK
<1>2. ASSUME NEW i \in 1 .. Len(Resized(buf[o], n))
      PROVE  Resized(buf[o], n)[i] \in Own(o, made[o])
  <2>1. CASE n > Len(buf[o])
    <3>1. Resized(buf[o], n) = NewBuffer(n) /\ i \in 1 .. n
      BY <2>1, NewBufferIsSeq DEF Resized
    <3> QED
      BY <3>1 DEF NewBuffer, Own
  <2>2. CASE ~(n > Len(buf[o]))
    BY <2>2, <1>2 DEF Resized, OpInv
  <2> QED
    BY <2>1, <2>2
<1>3. phase'[o] = q /\ need'[o] = n /\ buf'[o] = Resized(buf[o], n)
  BY DEF TypeOK
<1> QED
  BY <1>1, <1>2, <1>3 DEF OpInv, Settled, streamVars

\* The token has written into the room there is.
LEMMA WriteKeeps ==
    ASSUME TypeOK, NEW o \in Ops, OpInv(o), NEW n \in Nat,
           phase[o] = "asked", n <= need[o], Store(o, n),
           phase' = [phase EXCEPT ![o] = "written"],
           dataLen' = [dataLen EXCEPT ![o] = n],
           made' = [made EXCEPT ![o] = @ + n],
           UNCHANGED <<given, sound, misled>>
    PROVE  OpInv(o)'
<1>1. /\ buf[o] \in Seq(Contents) /\ Len(buf[o]) \in Nat
      /\ DOMAIN buf[o] = 1 .. Len(buf[o])
      /\ made[o] \in Nat /\ need[o] \in Nat
  BY LenProperties DEF TypeOK
<1>2. /\ buf'[o] = Stored(o, buf[o], made[o], n)
      /\ Len(buf'[o]) = Len(buf[o])
  BY StoreType DEF TypeOK
<1>3. phase'[o] = "written" /\ dataLen'[o] = n /\ made'[o] = made[o] + n
  BY DEF TypeOK
<1>4. n <= Len(buf[o])
  BY <1>1 DEF OpInv
<1>5. Own(o, made[o]) \subseteq Own(o, made'[o])
  BY <1>1, <1>3 DEF Own
<1>6. ASSUME NEW i \in 1 .. Len(buf'[o])
      PROVE  buf'[o][i] \in Own(o, made'[o])
  <2>1. CASE i <= n
    <3>1. buf'[o][i] = <<o, made[o] + i>> /\ made[o] + i \in 1 .. made'[o]
      BY <2>1, <1>1, <1>2, <1>3 DEF Stored
    <3> QED
      BY <3>1 DEF Own
  <2>2. CASE ~(i <= n)
    <3>1. buf'[o][i] = buf[o][i]
      BY <2>2, <1>1, <1>2 DEF Stored
    <3> QED
      BY <3>1, <1>2, <1>5 DEF OpInv
  <2> QED
    BY <2>1, <2>2
<1>7. \A i \in 1 .. n : buf'[o][i] = <<o, made[o] + i>>
  BY <1>1, <1>2, <1>4 DEF Stored
<1>8. o \notin misled => sound[o] = made[o]
  BY DEF OpInv, Settled
<1>9. \A i \in 1 .. Len(given[o]) : given[o][i] \in Own(o, made'[o])
  BY <1>5 DEF OpInv
<1>10. o \notin misled =>
         /\ dataLen'[o] <= Len(buf'[o])
         /\ made'[o] = sound[o] + dataLen'[o]
         /\ \A i \in 1 .. dataLen'[o] : buf'[o][i] = <<o, sound[o] + i>>
  BY <1>2, <1>3, <1>4, <1>7, <1>8
<1> QED
  BY <1>3, <1>6, <1>9, <1>10 DEF OpInv, Settled

\* Bytes of o, put after bytes of o.
LEMMA AppendedIsOwn ==
    ASSUME NEW o \in Ops, NEW m \in Nat, NEW k \in Nat,
           NEW g \in Seq(Contents), NEW b \in Seq(Contents), k <= Len(b),
           \A i \in 1 .. Len(g) : g[i] \in Own(o, m),
           \A i \in 1 .. Len(b) : b[i] \in Own(o, m)
    PROVE  LET h == g \o SubSeq(b, 1, k)
           IN  Len(h) = Len(g) + k /\ \A i \in 1 .. Len(h) : h[i] \in Own(o, m)
<1> DEFINE h == g \o SubSeq(b, 1, k)
<1>1. Len(g) \in Nat /\ Len(b) \in Nat
  BY LenProperties
<1>2. /\ Len(h) = Len(g) + k
      /\ \A i \in 1 .. Len(g) : h[i] = g[i]
      /\ \A i \in Len(g) + 1 .. Len(g) + k : h[i] = b[i - Len(g)]
  BY Appended
<1> HIDE DEF h
<1>3. ASSUME NEW i \in 1 .. Len(h)
      PROVE  h[i] \in Own(o, m)
  <2>1. CASE i <= Len(g)
    BY <2>1, <1>1, <1>2
  <2>2. CASE ~(i <= Len(g))
    <3>1. i \in Len(g) + 1 .. Len(g) + k /\ i - Len(g) \in 1 .. Len(b)
      BY <2>2, <1>1, <1>2
    <3> QED
      BY <3>1, <1>2
  <2> QED
    BY <2>1, <2>2
<1> QED
  BY <1>2, <1>3 DEF h

\* s begins with n bytes of o; the front of b goes on with k more.
Begins(s, o, n)       == \A i \in 1 .. n : s[i] = <<o, i>>
Continues(b, o, n, k) == \A i \in 1 .. k : b[i] = <<o, n + i>>

\* The first bytes of o stay where they are, and the next ones follow.
LEMMA AppendedInOrder ==
    ASSUME NEW o \in Ops, NEW s \in Nat, NEW k \in Nat,
           NEW g \in Seq(Contents), NEW b \in Seq(Contents), k <= Len(b),
           s <= Len(g), Begins(g, o, s)
    PROVE  LET h == g \o SubSeq(b, 1, k)
           IN  /\ s <= Len(h)
               /\ Begins(h, o, s)
               /\ s = Len(g) /\ Continues(b, o, s, k) => Begins(h, o, s + k)
<1> DEFINE h == g \o SubSeq(b, 1, k)
<1>1. Len(g) \in Nat /\ Len(b) \in Nat
  BY LenProperties
<1>2. /\ Len(h) = Len(g) + k
      /\ \A i \in 1 .. Len(g) : h[i] = g[i]
      /\ \A i \in Len(g) + 1 .. Len(g) + k : h[i] = b[i - Len(g)]
  BY Appended
<1> HIDE DEF h
<1>3. s <= Len(h) /\ \A i \in 1 .. s : h[i] = <<o, i>>
  BY <1>1, <1>2 DEF Begins
<1>4. ASSUME s = Len(g), Continues(b, o, s, k), NEW i \in 1 .. s + k
      PROVE  h[i] = <<o, i>>
  <2>1. CASE i <= s
    BY <2>1, <1>3
  <2>2. CASE ~(i <= s)
    <3>1. i \in Len(g) + 1 .. Len(g) + k /\ i - s \in 1 .. k /\ s + (i - s) = i
      BY <2>2, <1>1, <1>4
    <3>2. h[i] = b[i - s]
      BY <3>1, <1>2, <1>4
    <3>3. b[i - s] = <<o, s + (i - s)>>
      BY <3>1, <1>4 DEF Continues
    <3> QED
      BY <3>1, <3>2, <3>3
  <2> QED
    BY <2>1, <2>2
<1>5. s = Len(g) /\ Continues(b, o, s, k) => Begins(h, o, s + k)
  BY <1>4 DEF Begins
<1> QED
  BY <1>3, <1>5 DEF h, Begins

\* The output is handed over, and the buffer kept or not.
LEMMA DeliverKeeps ==
    ASSUME TypeOK, NEW o \in Ops, OpInv(o), Deliver(o)
    PROVE  OpInv(o)'
<1>1. PICK k \in Nat : /\ k <= Len(buf[o])
                       /\ dataLen[o] <= Len(buf[o]) => k = dataLen[o]
                       /\ CurrentOutput(o) = SubSeq(buf[o], 1, k)
  BY OutputFits
<1> DEFINE h == given[o] \o SubSeq(buf[o], 1, k)
<1>2. /\ buf[o] \in Seq(Contents) /\ given[o] \in Seq(Contents)
      /\ made[o] \in Nat /\ sound[o] \in Nat /\ dataLen[o] \in Nat
  BY DEF TypeOK
<1>3. /\ \A i \in 1 .. Len(buf[o]) : buf[o][i] \in Own(o, made[o])
      /\ \A i \in 1 .. Len(given[o]) : given[o][i] \in Own(o, made[o])
      /\ sound[o] <= Len(given[o])
      /\ Begins(given[o], o, sound[o])
  BY DEF OpInv, Begins
<1>4. Len(h) = Len(given[o]) + k /\ \A i \in 1 .. Len(h) : h[i] \in Own(o, made[o])
  BY <1>1, <1>2, <1>3, AppendedIsOwn
<1>5. /\ sound[o] <= Len(h)
      /\ Begins(h, o, sound[o])
      /\ sound[o] = Len(given[o]) /\ Continues(buf[o], o, sound[o], k)
            => Begins(h, o, sound[o] + k)
  BY <1>1, <1>2, <1>3, AppendedInOrder
<1>6. given'[o] = h
  BY <1>1 DEF Deliver, TypeOK
<1> HIDE DEF h
<1>7. /\ made'[o] = made[o] /\ misled' = misled
      /\ sound'[o] = IF o \in misled THEN sound[o] ELSE sound[o] + dataLen[o]
      /\ phase[o] = "written" /\ phase'[o] \in {"body", "done"}
      /\ buf'[o] = buf[o] \/ Len(buf'[o]) = 0
  BY EmptySeq DEF Deliver, TypeOK, Gone, bufVars
<1>8. \A i \in 1 .. Len(buf'[o]) : buf'[o][i] \in Own(o, made[o])
  BY <1>3, <1>7
<1>9. CASE o \in misled
  BY <1>9, <1>4, <1>5, <1>6, <1>7, <1>8 DEF OpInv, Begins
<1>10. CASE o \notin misled
  <2>1. /\ Len(given[o]) = sound[o] /\ dataLen[o] <= Len(buf[o])
        /\ made[o] = sound[o] + dataLen[o]
        /\ Continues(buf[o], o, sound[o], dataLen[o])
    BY <1>10, <1>7 DEF OpInv, Continues
  <2>2. k = dataLen[o]
    BY <1>1, <2>1
  <2>3. sound'[o] = sound[o] + k /\ Len(h) = sound'[o] /\ made[o] = sound'[o]
    BY <1>10, <2>1, <2>2, <1>4, <1>7
  <2>4. Begins(h, o, sound'[o])
    BY <2>1, <2>2, <2>3, <1>5
  <2>5. sound'[o] \in Nat
    BY <2>3, <1>2
  <2> QED
    BY <1>10, <2>3, <2>4, <2>5, <1>4, <1>6, <1>7, <1>8 DEF OpInv, Begins
<1> QED
  BY <1>9, <1>10

\* The token says that an update needs more room: from now on no promise.
LEMMA TooSmallKeeps ==
    ASSUME TypeOK, NEW o \in Ops, OpInv(o), NEW n, UpdateTooSmall(o, n)
    PROVE  OpInv(o)'
<1>1. /\ phase'[o] = "written" /\ o \in misled'
      /\ UNCHANGED <<buf, made, given, sound>>
  BY DEF UpdateTooSmall, TypeOK
<1> QED
  BY <1>1 DEF OpInv

\* A new operation with a new buffer.
LEMMA BeginKeeps ==
    ASSUME BufferInv, NEW t \in Threads, NEW o \in Ops, NEW k \in Kinds,
           NEW w \in BOOLEAN, NEW n \in Sizes, Begin(t, o, k, w, n), NEW p \in Ops
    PROVE  OpInv(p)'
<1>1. CASE p # o
  <2>1. Same(p)
    BY <1>1 DEF Begin, Same, BufferInv, TypeOK, streamVars
  <2> QED
    BY <2>1, SameKeeps DEF BufferInv
<1>2. CASE p = o
  <2>1. /\ phase[o] = "new" /\ phase'[o] = "body" /\ UNCHANGED <<made, given, sound, misled>>
        /\ buf'[o] = NewBuffer(BufferSize(k, w, n))
    BY DEF Begin, BufferInv, TypeOK, streamVars
  <2>2. \A i \in 1 .. Len(buf'[o]) : buf'[o][i] \in Own(o, made[o])
    BY <2>1, SizeIsNat, NewBufferIsSeq DEF NewBuffer, Own
  <2> QED
    BY <1>2, <2>1, <2>2 DEF OpInv, BufferInv, Settled
<1> QED
  BY <1>1, <1>2

LEMMA StepKeeps ==
    ASSUME BufferInv, NEW o \in Ops, Step(o)
    PROVE  OpInv(o)'
<1>0. TypeOK /\ OpInv(o) /\ 0 .. MaxEstimate \subseteq Nat /\ 0 \in Nat
  BY SizesAssumption DEF BufferInv
<1>1. ASSUME NEW c \in Calls, NEW n \in 0 .. MaxEstimate, Ask(o, c, n)
      PROVE  OpInv(o)'
  BY <1>0, <1>1, AskKeeps DEF Ask, InBody
<1>2. ASSUME NEW n \in 0 .. MaxEstimate, UpdateWrites(o, n)
      PROVE  OpInv(o)'
  BY <1>0, <1>2, WriteKeeps DEF UpdateWrites
<1>3. ASSUME NEW n \in 0 .. MaxEstimate, FinalWrites(o, n)
      PROVE  OpInv(o)'
  BY <1>0, <1>3, WriteKeeps DEF FinalWrites
<1>4. ASSUME NEW n \in 0 .. MaxEstimate, UpdateTooSmall(o, n)
      PROVE  OpInv(o)'
  BY <1>0, <1>4, TooSmallKeeps
<1>5. ASSUME NEW n \in 0 .. MaxEstimate, HailAsks(o, n)
      PROVE  OpInv(o)'
  BY <1>0, <1>5, AskKeeps DEF HailAsks
<1>6. ASSUME NEW n \in 0 .. MaxEstimate, HailWrites(o, n)
      PROVE  OpInv(o)'
  BY <1>0, <1>6, GoneKeeps DEF HailWrites
<1>7. CASE Deliver(o)
  BY <1>0, <1>7, DeliverKeeps
<1>8. CASE AskRaises(o) \/ Leave(o) \/ HailRaises(o)
  BY <1>0, <1>8, MoveKeeps DEF AskRaises, Leave, HailRaises, InBody, Settled
<1>9. CASE Feed(o)
  <2>1. Same(o)
    BY <1>0, <1>9 DEF Feed, Same, bufVars, streamVars
  <2> QED
    BY <1>0, <2>1, SameKeeps
<1>10. CASE FinalTooSmall(o) \/ CallFails(o) \/ Cancel(o) \/ HailFails(o) \/ HailTooSmall(o)
  <2>1. /\ Gone(o) /\ phase' = [phase EXCEPT ![o] = "broken"]
        /\ UNCHANGED <<made, given, sound, misled>>
    BY <1>10 DEF FinalTooSmall, CallFails, Cancel, HailFails, HailTooSmall, streamVars
  <2>2. made' = [made EXCEPT ![o] = @ + 0]
    BY <1>0, <2>1 DEF TypeOK
  <2> QED
    BY <1>0, <2>1, <2>2, GoneKeeps
<1> QED
  BY <1>1, <1>2, <1>3, <1>4, <1>5, <1>6, <1>7, <1>8, <1>9, <1>10 DEF Step

LEMMA NextKeeps == BufferInv /\ [Next]_vars => BufferInv'
<1> SUFFICES ASSUME BufferInv, [Next]_vars
             PROVE  BufferInv'
  OBVIOUS
<1>1. CASE UNCHANGED vars
  <2>1. TypeOK'
    BY <1>1 DEF BufferInv, TypeOK, vars, bufVars, streamVars, sessionVars
  <2>2. ASSUME NEW p \in Ops
        PROVE  OpInv(p)'
    <3>1. Same(p)
      BY <1>1 DEF Same, vars, bufVars, streamVars
    <3> QED
      BY <3>1, SameKeeps DEF BufferInv
  <2> QED
    BY <2>1, <2>2 DEF BufferInv
<1>2. ASSUME NEW t \in Threads, NEW o \in Ops, NEW k \in Kinds, NEW w \in BOOLEAN,
             NEW n \in Sizes, Begin(t, o, k, w, n)
      PROVE  BufferInv'
  BY <1>2, BeginType, BeginKeeps DEF BufferInv
<1>3. ASSUME NEW o \in Ops, Step(o)
      PROVE  BufferInv'
  <2>1. TypeOK'
    BY <1>3, StepType DEF BufferInv
  <2>2. ASSUME NEW p \in Ops
        PROVE  OpInv(p)'
    <3>1. CASE p = o
      BY <1>3, <3>1, StepKeeps
    <3>2. CASE p # o
      BY <1>3, <3>2, OthersSame, SameKeeps DEF BufferInv
    <3> QED
      BY <3>1, <3>2
  <2> QED
    BY <2>1, <2>2 DEF BufferInv
<1> QED
  BY <1>1, <1>2, <1>3 DEF Next

(***************************************************************************)
(* The inductive invariant of the buffers holds in every state: for any    *)
(* number of operations and threads, any buffer sizes, any answers.        *)
(***************************************************************************)
THEOREM BufferInvariant == Spec => []BufferInv
<1>1. Init => BufferInv
  <2> SUFFICES ASSUME Init
               PROVE  BufferInv
    OBVIOUS
  <2>1. ASSUME NEW o \in Ops
        PROVE  OpInv(o)
    <3>1. Len(buf[o]) = 0 /\ Len(given[o]) = 0
      BY EmptySeq DEF Init
    <3> QED
      BY <3>1 DEF Init, OpInv, Settled
  <2> QED
    BY <2>1, TypeInit DEF BufferInv
<1> QED
  BY <1>1, NextKeeps, PTL DEF Spec

\* Every variable of the operations, their buffers and their output keeps its
\* type.
THEOREM TypeCorrect == Spec => []TypeOK
<1>1. BufferInv => TypeOK
  BY DEF BufferInv
<1> QED
  BY <1>1, BufferInvariant, PTL

\* The buffer handed to the writing call has the room that call is told of.
THEOREM TokenStaysInBuffer == Spec => []RoomForOutput
<1>1. BufferInv => RoomForOutput
  BY DEF BufferInv, OpInv, RoomForOutput
<1> QED
  BY <1>1, BufferInvariant, PTL

\* The caller receives the token's output in order, without holes or garbage, if
\* the token does not mislead the library about the room an update needs.
THEOREM CallerGetsTheOutput == Spec => []OutputInOrder
<1>1. BufferInv => OutputInOrder
  <2> SUFFICES ASSUME BufferInv, NEW o \in Ops \ misled
               PROVE  /\ given[o] = Bytes(o, Len(given[o]))
                      /\ phase[o] = "done" => Len(given[o]) = made[o]
    BY DEF OutputInOrder
  <2>1. /\ Len(given[o]) = sound[o] /\ \A i \in 1 .. sound[o] : given[o][i] = <<o, i>>
        /\ phase[o] = "done" => sound[o] = made[o]
    BY DEF BufferInv, OpInv, Settled
  <2>2. given[o] \in Seq(Contents) /\ sound[o] \in Nat
    BY DEF BufferInv, TypeOK
  <2> QED
    BY <2>1, <2>2, AgreesIsBytes
<1> QED
  BY <1>1, BufferInvariant, PTL

\* Whatever the token answers, no caller receives the output of an operation of
\* another one; bytes that nobody has written reach only the caller of an
\* operation whose update the token misled.
THEOREM OutputIsOwn == Spec => []NothingForeign
<1>1. BufferInv => NothingForeign
  <2> SUFFICES ASSUME BufferInv, NEW o \in Ops, NEW i \in DOMAIN given[o]
               PROVE  \/ given[o][i] \in {<<o, n>> : n \in 1 .. made[o]}
                      \/ given[o][i] = Unwritten /\ o \in misled
    BY DEF NothingForeign
  <2>1. i \in 1 .. Len(given[o])
    BY LenProperties DEF BufferInv, TypeOK
  <2>2. given[o][i] \in Own(o, made[o])
    BY <2>1 DEF BufferInv, OpInv
  <2>3. CASE given[o][i] = Unwritten
    <3>1. o \notin misled => given[o][i] = <<o, i>> /\ i \in Nat
      BY <2>1 DEF BufferInv, OpInv
    <3> QED
      BY <2>3, <3>1, GarbageAssumption
  <2>4. CASE given[o][i] # Unwritten
    BY <2>2, <2>4 DEF Own
  <2> QED
    BY <2>3, <2>4
<1> QED
  BY <1>1, BufferInvariant, PTL

-----------------------------------------------------------------------------
(***************************************************************************)
(* The operations implement the abstract stream.                           *)
(***************************************************************************)
Got  == [p \in Ops |-> SubSeq(given[p], 1, sound[p])]
Stat == [p \in Ops |-> Status(p)]

LEMMA PrefixIsBytes ==
    ASSUME NEW o \in Ops, NEW g \in Seq(Contents), NEW n \in Nat, n <= Len(g), Begins(g, o, n)
    PROVE  SubSeq(g, 1, n) = Bytes(o, n) /\ Len(SubSeq(g, 1, n)) = n
<1>1. /\ SubSeq(g, 1, n) \in Seq(Contents)
      /\ Len(SubSeq(g, 1, n)) = n
      /\ \A i \in 1 .. n : SubSeq(g, 1, n)[i] = g[i]
  BY SubSeqProperties, LenProperties
<1> QED
  BY <1>1, AgreesIsBytes DEF Begins

LEMMA GotIsBytes ==
    ASSUME BufferInv, NEW o \in Ops
    PROVE  Got[o] = Bytes(o, sound[o]) /\ Len(Got[o]) = sound[o]
<1>1. /\ given[o] \in Seq(Contents) /\ sound[o] \in Nat /\ sound[o] <= Len(given[o])
      /\ Begins(given[o], o, sound[o])
  BY DEF BufferInv, TypeOK, OpInv, Begins
<1> QED
  BY <1>1, PrefixIsBytes DEF Got

LEMMA GotIsBytesNext ==
    ASSUME BufferInv', NEW o \in Ops
    PROVE  Got'[o] = Bytes(o, sound'[o])
<1>1. /\ given'[o] \in Seq(Contents) /\ sound'[o] \in Nat /\ sound'[o] <= Len(given'[o])
      /\ Begins(given'[o], o, sound'[o])
  BY DEF BufferInv, TypeOK, OpInv, Begins
<1> QED
  BY <1>1, PrefixIsBytes DEF Got

\* What counts as received changes for one operation at most.
LEMMA GotChange ==
    ASSUME BufferInv, BufferInv', NEW o \in Ops, \A p \in Ops \ {o} : sound'[p] = sound[p]
    PROVE  Got' = [Got EXCEPT ![o] = Bytes(o, sound'[o])]
<1>1. \A p \in Ops : Got[p] = Bytes(p, sound[p]) /\ Got'[p] = Bytes(p, sound'[p])
  BY GotIsBytes, GotIsBytesNext
<1>2. Got = [p \in Ops |-> Got[p]] /\ Got' = [p \in Ops |-> Got'[p]]
  BY DEF Got
<1> QED
  BY <1>1, <1>2

LEMMA GotSame ==
    ASSUME BufferInv, BufferInv', sound' = sound
    PROVE  Got' = Got
<1>1. \A p \in Ops : Got'[p] = Got[p]
  BY GotIsBytes, GotIsBytesNext
<1> QED
  BY <1>1 DEF Got

LEMMA StatChange ==
    ASSUME NEW o \in Ops, \A p \in Ops \ {o} : Same(p)
    PROVE  Stat' = [Stat EXCEPT ![o] = Status(o)']
<1>1. \A p \in Ops \ {o} : Status(p)' = Status(p)
  BY DEF Same, Status
<1> QED
  BY <1>1 DEF Stat

\* The changes of the stream that a step of o can make.
LEMMA StreamStutters ==
    ASSUME BufferInv, BufferInv', NEW o \in Ops, \A p \in Ops \ {o} : Same(p),
           Status(o)' = Status(o), made' = made, sound' = sound
    PROVE  UNCHANGED Stream!vars
<1>1. Stat' = [Stat EXCEPT ![o] = Status(o)']
  BY StatChange
<1>2. Stat' = Stat
  BY <1>1 DEF Stat
<1>3. Got' = Got
  BY GotSame
<1> QED
  BY <1>2, <1>3 DEF Stream!vars, Got, Stat

LEMMA StreamBreaks ==
    ASSUME BufferInv, BufferInv', NEW o \in Ops, \A p \in Ops \ {o} : Same(p),
           Status(o) = "open", Status(o)' = "broken", NEW n \in Nat,
           made' = [made EXCEPT ![o] = @ + n], sound' = sound
    PROVE  Stream!Break(o)
<1>1. Stat' = [Stat EXCEPT ![o] = "broken"] /\ Stat[o] = "open"
  BY StatChange DEF Stat
<1>2. Got' = Got
  BY GotSame
<1>3. /\ made'[o] \in Nat /\ made'[o] >= made[o]
      /\ made' = [made EXCEPT ![o] = made'[o]]
  BY DEF BufferInv, TypeOK
<1> QED
  BY <1>1, <1>2, <1>3 DEF Stream!Break, Stream!MoreSent, Got, Stat

LEMMA StreamProduces ==
    ASSUME BufferInv, BufferInv', NEW o \in Ops, \A p \in Ops \ {o} : Same(p),
           Status(o)' = Status(o), NEW n \in Nat,
           made' = [made EXCEPT ![o] = @ + n], sound' = sound,
           \/ Status(o) = "open" /\ sound[o] = made[o]
           \/ Status(o) = "broken"
    PROVE  Stream!Produce(o) \/ Stream!Waste(o)
<1>1. Stat' = [Stat EXCEPT ![o] = Status(o)'] /\ Stat[o] = Status(o)
  BY StatChange DEF Stat
<1>2. Stat' = Stat
  BY <1>1 DEF Stat
<1>3. Got' = Got /\ Len(Got[o]) = sound[o]
  BY GotSame, GotIsBytes
<1>4. /\ made'[o] \in Nat /\ made'[o] >= made[o]
      /\ made' = [made EXCEPT ![o] = made'[o]]
  BY DEF BufferInv, TypeOK
<1> QED
  BY <1>1, <1>2, <1>3, <1>4 DEF Stream!Produce, Stream!Waste, Stream!MoreSent, Got, Stat

LEMMA StreamReceives ==
    ASSUME BufferInv, BufferInv', NEW o \in Ops, \A p \in Ops \ {o} : Same(p),
           Status(o) = "open", Status(o)' \in {"open", "complete"},
           made' = made, sound'[o] = made[o]
    PROVE  Stream!Receive(o)
<1>1. Stat' = [Stat EXCEPT ![o] = Status(o)'] /\ Stat[o] = Status(o)
  BY StatChange DEF Stat
<1>2. Got' = [Got EXCEPT ![o] = Bytes(o, made[o])]
  BY GotChange DEF Same
<1>3. Stream!Bytes(o, made[o]) = Bytes(o, made[o])
  BY DEF Stream!Bytes, Bytes
<1> QED
  BY <1>1, <1>2, <1>3 DEF Stream!Receive, Got, Stat

LEMMA StepImplements ==
    ASSUME BufferInv, BufferInv', NEW o \in Ops, Step(o)
    PROVE  Stream!Next \/ UNCHANGED Stream!vars
<1> DEFINE Goal == Stream!Next \/ UNCHANGED Stream!vars
<1>0. /\ TypeOK /\ OpInv(o) /\ OpInv(o)' /\ 0 .. MaxEstimate \subseteq Nat /\ 0 \in Nat
      /\ \A p \in Ops \ {o} : Same(p)
  BY OthersSame, SizesAssumption DEF BufferInv
<1>1. ASSUME Status(o)' = Status(o), made' = made, sound' = sound
      PROVE  Goal
  BY <1>0, <1>1, StreamStutters
<1>2. ASSUME Status(o) = "open", Status(o)' = "broken", sound' = sound, NEW n \in Nat,
             made' = [made EXCEPT ![o] = @ + n]
      PROVE  Goal
  BY <1>0, <1>2, StreamBreaks DEF Stream!Next
<1>3. ASSUME Status(o)' = Status(o), sound' = sound, NEW n \in Nat,
             made' = [made EXCEPT ![o] = @ + n],
             (Status(o) = "open" /\ sound[o] = made[o]) \/ Status(o) = "broken"
      PROVE  Goal
  BY <1>0, <1>3, StreamProduces DEF Stream!Next
<1>4. ASSUME NEW n \in Nat, phase[o] = "asked", phase'[o] = "written", misled' = misled,
             made' = [made EXCEPT ![o] = @ + n], sound' = sound
      PROVE  Goal
  <2>1. Status(o)' = Status(o)
    BY <1>4 DEF Status
  <2>2. (Status(o) = "open" /\ sound[o] = made[o]) \/ Status(o) = "broken"
    BY <1>0, <1>4 DEF Status, OpInv, Settled
  <2> QED
    BY <1>3, <1>4, <2>1, <2>2
<1>5. ASSUME NEW n \in Nat, phase[o] \in {"body", "asked", "exiting", "hail"},
             phase'[o] \in {"broken", "stranded"}, misled' = misled,
             made' = [made EXCEPT ![o] = @ + n], sound' = sound
      PROVE  Goal
  <2>1. CASE o \in misled
    <3>1. Status(o)' = Status(o) /\ Status(o) = "broken"
      BY <1>5, <2>1 DEF Status
    <3> QED
      BY <1>3, <1>5, <3>1
  <2>2. CASE o \notin misled
    <3>1. Status(o) = "open" /\ Status(o)' = "broken"
      BY <1>5, <2>2 DEF Status
    <3> QED
      BY <1>2, <1>5, <3>1
  <2> QED
    BY <2>1, <2>2
<1>6. ASSUME phase[o] \in {"body", "asked", "exiting", "hail"},
             phase'[o] \in {"body", "asked", "exiting", "hail"},
             misled' = misled, made' = made, sound' = sound
      PROVE  Goal
  <2>1. Status(o)' = Status(o)
    BY <1>6 DEF Status
  <2> QED
    BY <1>1, <1>6, <2>1
<1> HIDE DEF Goal
<1>11. ASSUME NEW c \in Calls, NEW n \in 0 .. MaxEstimate, Ask(o, c, n)
       PROVE  Goal
  BY <1>0, <1>6, <1>11 DEF Ask, InBody, TypeOK, streamVars
<1>12. ASSUME NEW n \in 0 .. MaxEstimate, UpdateWrites(o, n) \/ FinalWrites(o, n)
       PROVE  Goal
  <2>1. /\ n \in Nat /\ phase[o] = "asked" /\ phase'[o] = "written" /\ misled' = misled
        /\ made' = [made EXCEPT ![o] = @ + n] /\ sound' = sound
    BY <1>0, <1>12 DEF UpdateWrites, FinalWrites, TypeOK
  <2> QED
    BY <2>1, <1>4
<1>13. ASSUME NEW n \in 0 .. MaxEstimate, UpdateTooSmall(o, n)
       PROVE  Goal
  <2>1. /\ phase[o] = "asked" /\ o \in misled' /\ made' = made /\ sound' = sound
    BY <1>13 DEF UpdateTooSmall
  <2>2. Status(o)' = "broken" /\ Status(o) \in {"open", "broken"}
    BY <2>1 DEF Status
  <2>3. made' = [made EXCEPT ![o] = @ + 0]
    BY <1>0, <2>1 DEF TypeOK
  <2> QED
    BY <2>1, <2>2, <2>3, <1>0, <1>1, <1>2
<1>14. ASSUME NEW n \in 0 .. MaxEstimate, HailAsks(o, n)
       PROVE  Goal
  BY <1>0, <1>6, <1>14 DEF HailAsks, TypeOK, streamVars
<1>15. ASSUME NEW n \in 0 .. MaxEstimate, HailWrites(o, n)
       PROVE  Goal
  <2>1. /\ n \in Nat /\ phase[o] = "hail" /\ phase'[o] = "broken" /\ misled' = misled
        /\ made' = [made EXCEPT ![o] = @ + n] /\ sound' = sound
    BY <1>0, <1>15 DEF HailWrites, TypeOK
  <2> QED
    BY <2>1, <1>5
<1>16. CASE Deliver(o)
  <2>1. /\ phase[o] = "written" /\ phase'[o] \in {"body", "done"}
        /\ misled' = misled /\ made' = made
        /\ sound' = [sound EXCEPT ![o] = IF o \in misled THEN @ ELSE @ + dataLen[o]]
    BY <1>16 DEF Deliver, TypeOK, BufferInv
  <2>2. CASE o \in misled
    <3>1. sound' = sound /\ Status(o)' = Status(o)
      BY <2>1, <2>2 DEF Status, BufferInv, TypeOK
    <3> QED
      BY <2>1, <3>1, <1>1 DEF Goal
  <2>3. CASE o \notin misled
    <3>1. sound'[o] = made[o]
      BY <1>0, <2>1, <2>3 DEF OpInv, TypeOK
    <3>2. Status(o) = "open" /\ Status(o)' \in {"open", "complete"}
      BY <2>1, <2>3 DEF Status
    <3> QED
      BY <1>0, <2>1, <3>1, <3>2, StreamReceives DEF Stream!Next, Goal
  <2> QED
    BY <2>2, <2>3
<1>17. CASE AskRaises(o) \/ Leave(o) \/ Feed(o)
  BY <1>0, <1>6, <1>17 DEF AskRaises, Leave, Feed, InBody, TypeOK, bufVars, streamVars,
                           Goal
<1>18. CASE HailRaises(o)
  <2>1. phase[o] = "exiting" /\ phase'[o] = "stranded" /\ UNCHANGED <<misled, made, sound>>
    BY <1>0, <1>18 DEF HailRaises, TypeOK, bufVars, streamVars
  <2>2. made' = [made EXCEPT ![o] = @ + 0]
    BY <1>0, <2>1 DEF TypeOK
  <2> QED
    BY <1>0, <2>1, <2>2, <1>5 DEF Goal
<1>19. CASE FinalTooSmall(o) \/ CallFails(o) \/ Cancel(o) \/ HailFails(o) \/ HailTooSmall(o)
  <2>1. /\ phase[o] \in {"body", "asked", "exiting", "hail"} /\ phase'[o] = "broken"
        /\ UNCHANGED <<misled, made, sound>>
    BY <1>0, <1>19 DEF FinalTooSmall, CallFails, Cancel, HailFails, HailTooSmall, InBody,
                       TypeOK, streamVars
  <2>2. made' = [made EXCEPT ![o] = @ + 0]
    BY <1>0, <2>1 DEF TypeOK
  <2> QED
    BY <1>0, <2>1, <2>2, <1>5 DEF Goal
<1> QED
  BY <1>11, <1>12, <1>13, <1>14, <1>15, <1>16, <1>17, <1>18, <1>19 DEF Step, Goal

(***************************************************************************)
(* Buffers, length queries, resizing and hail maries implement the         *)
(* abstract stream: each piece of output arrives, in order, before the     *)
(* next one is produced, and nothing arrives after an error.  This needs   *)
(* no assumption on the token: an operation it misled counts as broken.    *)
(***************************************************************************)
THEOREM ImplementsOutputStream == Spec => ImplementsStream
<1>1. Init => Stream!Init
  <2> SUFFICES ASSUME Init
               PROVE  Stream!Init
    OBVIOUS
  <2>1. \A o \in Ops : SubSeq(given[o], 1, sound[o]) = <<>>
    BY SubSeqEmpty DEF Init
  <2>2. \A o \in Ops : Status(o) = "open"
    BY DEF Init, Status
  <2> QED
    BY <2>1, <2>2 DEF Init, Stream!Init
<1>2. BufferInv /\ BufferInv' /\ [Next]_vars => [Stream!Next]_(Stream!vars)
  <2> SUFFICES ASSUME BufferInv, BufferInv', [Next]_vars
               PROVE  Stream!Next \/ UNCHANGED Stream!vars
    OBVIOUS
  <2>1. CASE UNCHANGED vars
    BY <2>1 DEF vars, bufVars, streamVars, sessionVars, Stream!vars, Status
  <2>2. ASSUME NEW t \in Threads, NEW o \in Ops, NEW k \in Kinds, NEW w \in BOOLEAN,
               NEW n \in Sizes, Begin(t, o, k, w, n)
        PROVE  UNCHANGED Stream!vars
    <3>1. /\ phase[o] = "new" /\ phase' = [phase EXCEPT ![o] = "body"]
          /\ UNCHANGED <<made, given, sound, misled>>
      BY <2>2 DEF Begin, streamVars
    <3>2. \A p \in Ops : Status(p)' = Status(p)
      BY <3>1 DEF Status, BufferInv, TypeOK
    <3> QED
      BY <3>1, <3>2 DEF Stream!vars
  <2>3. ASSUME NEW o \in Ops, Step(o)
        PROVE  Stream!Next \/ UNCHANGED Stream!vars
    BY <2>3, StepImplements
  <2> QED
    BY <2>1, <2>2, <2>3 DEF Next
<1> QED
  BY <1>1, <1>2, BufferInvariant, PTL DEF Spec, ImplementsStream, Stream!Spec
=============================================================================
