--------------------------- MODULE LlmGateway_proofs ---------------------------
(***************************************************************************)
(* The safety properties of LlmGateway, for any number of callers, calls,  *)
(* cached contents and pieces of a stream.                                 *)
(*                                                                         *)
(* Every cached content but the one in the registry has been evicted:      *)
(* that this survives a creation needs to know that the registry is empty  *)
(* where one is made, which the lock sees to.  A stream is followed        *)
(* through its queue: what is left of it, and then the end.                *)
(***************************************************************************)
EXTENDS LlmGateway, SequenceTheorems, TLAPS

Blocking == Places \ {"idle", "streaming", "stopped"}

(* Where a caller is fits the call it has made. *)
KindFits ==
  \A c \in Callers :
    /\ at[c] = "streaming" => kind[c] = "stream"
    /\ at[c] \in Blocking => kind[c] # "stream"
    /\ at[c] = "stopped" => c \in gone

(* A caller that has gone waits for no stream. *)
GoneStops == \A c \in gone : at[c] \notin {"idle", "streaming"}

(* Who checks and creates holds the lock, and creates only what is not     *)
(* there.                                                                  *)
Locked ==
  \A c \in Callers :
    /\ at[c] \in {"check", "creating"} <=> lock = c
    /\ at[c] = "creating" => registry = None

(* Every content that was created is in the registry or evicted. *)
KeptOrEvicted == names = evictions + IF registry = None THEN 0 ELSE 1

(* What a caller got is the beginning of what was read, its queue holds    *)
(* the rest and, once the thread has ended, how it ended.                  *)
Left(c) == produced[c] - Len(out[c])
StreamKept(c) ==
  /\ Len(out[c]) <= produced[c]
  /\ \A i \in 1..Len(out[c]) : out[c][i] = i
  /\ \A i \in 1..Left(c) : queue[c][i] = Delta(Len(out[c]) + i)
StreamFits(c) ==
  /\ StreamKept(c) /\ at[c] \in {"streaming", "idle"}
  /\ at[c] = "streaming" /\ reader[c] = "reading" => Len(queue[c]) = Left(c)
  /\ at[c] = "streaming" /\ reader[c] # "reading" =>
       /\ reader[c] \in Ends
       /\ Len(queue[c]) = Left(c) + 1 /\ queue[c][Left(c) + 1] = EndItem(reader[c])
  /\ at[c] = "idle" =>
       /\ reader[c] \in Ends /\ Left(c) = 0
       /\ last[c] = IF reader[c] = "done" THEN "ok" ELSE "failed"
StreamShape == \A c \in Callers : kind[c] = "stream" /\ c \notin gone => StreamFits(c)

IInv == TypeOK /\ KindFits /\ GoneStops /\ Locked /\ KeptOrEvicted /\ StreamShape
-----------------------------------------------------------------------------
(* Every step preserves the invariant *)

(* What is received is the next piece or, after the last, the end. *)
LEMMA ReceivedIsNext ==
  ASSUME IInv, NEW c \in Callers, Receive(c)
  PROVE  /\ kind[c] = "stream" /\ c \notin gone => StreamKept(c)
         /\ \/ /\ Left(c) > 0
               /\ Head(queue[c]) = Delta(Len(out[c]) + 1)
               /\ IsDelta(Head(queue[c])) /\ Head(queue[c]).piece = Len(out[c]) + 1
               /\ Head(queue[c]).piece \in 1..Pieces
            \/ /\ Left(c) = 0 /\ Len(queue[c]) = 1
               /\ reader[c] \in Ends /\ Head(queue[c]) = EndItem(reader[c])
               /\ ~IsDelta(Head(queue[c])) /\ Head(queue[c]).kind = reader[c]
<1>1. at[c] = "streaming" /\ kind[c] = "stream" /\ queue[c] # <<>>
  BY DEF Receive, IInv, KindFits
<1>2. c \notin gone
  BY <1>1 DEF IInv, GoneStops
<1>3. Len(out[c]) \in Nat /\ produced[c] \in 0..Pieces /\ Len(queue[c]) \in Nat \ {0}
  BY <1>1, LenProperties, EmptySeq DEF IInv, TypeOK, StreamTypes
<1>4. Head(queue[c]) = queue[c][1]
  BY <1>1, <1>3 DEF IInv, TypeOK, StreamTypes
<1>5. StreamKept(c) /\ Left(c) \in Nat
  BY <1>1, <1>2, <1>3, GatewayAssumption DEF IInv, StreamShape, StreamFits, StreamKept, Left
<1>6. CASE Left(c) > 0
  <2>1. Head(queue[c]) = Delta(Len(out[c]) + 1)
    BY <1>3, <1>4, <1>5, <1>6 DEF StreamKept
  <2>2. Len(out[c]) + 1 \in 1..Pieces
    BY <1>3, <1>6, GatewayAssumption DEF Left
  <2> QED BY <1>5, <1>6, <2>1, <2>2 DEF Delta, IsDelta
<1>7. CASE Left(c) = 0
  <2>1. reader[c] # "reading"
    BY <1>1, <1>2, <1>3, <1>7 DEF IInv, StreamShape, StreamFits
  <2>2. reader[c] \in Ends /\ Len(queue[c]) = Left(c) + 1 /\ queue[c][Left(c) + 1] = EndItem(reader[c])
    BY <1>1, <1>2, <2>1 DEF IInv, StreamShape, StreamFits
  <2>3. reader[c] \in Ends /\ Len(queue[c]) = 1 /\ Head(queue[c]) = EndItem(reader[c])
    BY <1>4, <1>7, <2>2
  <2> QED BY <1>5, <1>7, <2>3 DEF EndItem, IsDelta, Ends
<1> QED BY <1>5, <1>6, <1>7

(* What the steps of a call do to its types. *)

LEMMA WaitTypes ==
  ASSUME CallTypes, NEW c \in Callers, NEW p \in Places, Wait(c, p), UNCHANGED names
  PROVE  CallTypes'
BY DEF CallTypes, Wait, Go

LEMMA UseTypes ==
  ASSUME CacheTypes, CallTypes, NEW c \in Callers,
         NEW name \in 1..names' \union {None}, Use(c, name), names' \in Nat, names <= names'
  PROVE  CallTypes'
<1>1. at' \in [Callers -> Places]
  BY DEF CallTypes, Use, Go, Places
<1>2. names \in Nat
  BY GatewayAssumption DEF CacheTypes
<1>3. 1..names \subseteq 1..names'
  BY <1>2
<1>4. used' \in [Callers -> 1..names' \union {None}]
  BY <1>3 DEF CallTypes, Use
<1> QED BY <1>1, <1>4 DEF CallTypes, Use

LEMMA EndTypes ==
  ASSUME CallTypes, NEW c \in Callers, NEW how \in {"ok", "failed"}, End(c, how), UNCHANGED names
  PROVE  CallTypes'
<1>1. at' \in [Callers -> Places]
  BY DEF CallTypes, End, Go, Places
<1>2. last' \in [Callers -> {"none", "ok", "failed"}]
  BY DEF CallTypes, End
<1> QED BY <1>1, <1>2 DEF CallTypes, End

LEMMA FailTypes ==
  ASSUME CallTypes, NEW c \in Callers, AttemptFails(c), UNCHANGED names
  PROVE  CallTypes'
<1>1. CASE TriesAgain(c)
  <2>1. at' \in [Callers -> Places]
    BY <1>1 DEF AttemptFails, Again, CallTypes, Go, Places, FirstStep
  <2>2. attempt' \in [Callers -> 0..2]
    BY <1>1 DEF AttemptFails, Again, CallTypes, TriesAgain
  <2> QED BY <1>1, <2>1, <2>2 DEF AttemptFails, Again, CallTypes
<1>2. CASE ~TriesAgain(c)
  BY <1>2, EndTypes DEF AttemptFails
<1> QED BY <1>1, <1>2

(* The cache, the calls and the streams keep their types. *)
LEMMA CacheTypesStep == IInv /\ [Next]_vars => CacheTypes'
<1> SUFFICES ASSUME IInv, [Next]_vars PROVE CacheTypes'
  OBVIOUS
<1>1. ASSUME NEW c \in Callers, NEW k \in Kinds, Start(c, k) PROVE CacheTypes'
  BY <1>1, GatewayAssumption
    DEF Start, Go, cacheVars, callVars, streamVars, IInv, TypeOK, CacheTypes, CallTypes,
        StreamTypes
<1>2. ASSUME NEW c \in Callers, Lookup(c) PROVE CacheTypes'
  BY <1>2, GatewayAssumption
    DEF Lookup, Use, Go, Wait, cacheVars, callVars, streamVars, IInv, TypeOK, CacheTypes,
        CallTypes, StreamTypes
<1>3. ASSUME NEW c \in Callers, Lock(c) PROVE CacheTypes'
  BY <1>3, GatewayAssumption
    DEF Lock, Wait, Go, cacheVars, callVars, streamVars, IInv, TypeOK, CacheTypes, CallTypes,
        StreamTypes
<1>4. ASSUME NEW c \in Callers, Check(c) PROVE CacheTypes'
  BY <1>4, GatewayAssumption
    DEF Check, Use, Wait, Go, cacheVars, callVars, streamVars, IInv, TypeOK, CacheTypes,
        CallTypes, StreamTypes
<1>5. ASSUME NEW c \in Callers, Create(c) PROVE CacheTypes'
  <2>1. CASE names < MaxNames /\ names' = names + 1 /\ registry' = names + 1
             /\ live' = live \union {names + 1} /\ UNCHANGED disabled
    BY <1>5, <2>1, GatewayAssumption DEF Create, IInv, TypeOK, CacheTypes
  <2>2. CASE disabled' = TRUE /\ UNCHANGED <<registry, live, names>>
    BY <1>5, <2>2, GatewayAssumption DEF Create, IInv, TypeOK, CacheTypes
  <2> QED BY <1>5, <2>1, <2>2 DEF Create
<1>6. ASSUME NEW c \in Callers, Generate(c) PROVE CacheTypes'
  BY <1>6, GatewayAssumption
    DEF Generate, Go, cacheVars, callVars, streamVars, IInv, TypeOK, CacheTypes, CallTypes,
        StreamTypes
<1>7. ASSUME NEW c \in Callers, Evict(c) PROVE CacheTypes'
  BY <1>7, GatewayAssumption
    DEF Evict, Wait, Go, cacheVars, callVars, streamVars, IInv, TypeOK, CacheTypes, CallTypes,
        StreamTypes
<1>8. ASSUME NEW c \in Callers, Inline(c) PROVE CacheTypes'
  BY <1>8, GatewayAssumption
    DEF Inline, Wait, Go, AttemptFails, Again, End, cacheVars, callVars, streamVars, IInv,
        TypeOK, CacheTypes, CallTypes, StreamTypes
<1>9. ASSUME NEW c \in Callers, Parse(c) PROVE CacheTypes'
  BY <1>9, GatewayAssumption
    DEF Parse, End, Go, AttemptFails, Again, cacheVars, callVars, streamVars, IInv, TypeOK,
        CacheTypes, CallTypes, StreamTypes
<1>10. ASSUME NEW c \in Callers, Receive(c) PROVE CacheTypes'
  BY <1>10, GatewayAssumption
    DEF Receive, End, Go, NextItem, IsDelta, cacheVars, callVars, streamVars, IInv, TypeOK,
        CacheTypes, CallTypes, StreamTypes
<1>11. ASSUME NEW c \in Callers, ReadPiece(c) PROVE CacheTypes'
  BY <1>11, GatewayAssumption
    DEF ReadPiece, Put, Delta, cacheVars, callVars, streamVars, IInv, TypeOK, CacheTypes,
        CallTypes, StreamTypes
<1>12. ASSUME NEW c \in Callers, ReadEnd(c) PROVE CacheTypes'
  BY <1>12, GatewayAssumption
    DEF ReadEnd, Put, EndItem, Ends, cacheVars, callVars, streamVars, IInv, TypeOK, CacheTypes,
        CallTypes, StreamTypes
<1>13. ASSUME NEW c \in Callers, Cancel(c) PROVE CacheTypes'
  BY <1>13, GatewayAssumption
    DEF Cancel, Go, cacheVars, callVars, streamVars, IInv, TypeOK, CacheTypes, CallTypes,
        StreamTypes
<1>14. ASSUME NEW n \in 1..MaxNames, Expire(n) PROVE CacheTypes'
  BY <1>14, GatewayAssumption
    DEF Expire, cacheVars, callVars, streamVars, IInv, TypeOK, CacheTypes, CallTypes, StreamTypes
<1>15. CASE UNCHANGED vars
  BY <1>15, GatewayAssumption
    DEF vars, cacheVars, callVars, streamVars, IInv, TypeOK, CacheTypes, CallTypes, StreamTypes
<1> QED BY <1>1, <1>2, <1>3, <1>4, <1>5, <1>6, <1>7, <1>8, <1>9, <1>10, <1>11, <1>12, <1>13, <1>14, <1>15
    DEF Next, Work, Reading

LEMMA CallTypesStep == IInv /\ [Next]_vars => CallTypes'
<1> SUFFICES ASSUME IInv, [Next]_vars PROVE CallTypes'
  OBVIOUS
<1>1. ASSUME NEW c \in Callers, NEW k \in Kinds, Start(c, k) PROVE CallTypes'
  BY <1>1, GatewayAssumption
    DEF Start, Go, cacheVars, callVars, streamVars, IInv, TypeOK, CacheTypes, CallTypes,
        StreamTypes, Places, Kinds, FirstStep, TriesAgain
<1>2. ASSUME NEW c \in Callers, Lookup(c) PROVE CallTypes'
  <2>1. CASE disabled \/ registry # None
    <3> DEFINE name == IF disabled THEN None ELSE registry
    <3>1. names' = names /\ names \in Nat
      BY <1>2, GatewayAssumption DEF Lookup, cacheVars, IInv, TypeOK, CacheTypes
    <3>2. name \in 1..names' \union {None}
      BY <3>1 DEF IInv, TypeOK, CacheTypes
    <3>3. Use(c, name)
      BY <1>2, <2>1 DEF Lookup
    <3>4. names <= names'
      BY <3>1
    <3> QED BY <3>1, <3>2, <3>3, <3>4, UseTypes DEF IInv, TypeOK
  <2>2. CASE ~(disabled \/ registry # None)
    BY <1>2, <2>2, WaitTypes DEF Lookup, cacheVars, IInv, TypeOK, Places
  <2> QED BY <2>1, <2>2
<1>3. ASSUME NEW c \in Callers, Lock(c) PROVE CallTypes'
  BY <1>3, GatewayAssumption
    DEF Lock, Wait, Go, cacheVars, callVars, streamVars, IInv, TypeOK, CacheTypes, CallTypes,
        StreamTypes, Places, Kinds, FirstStep, TriesAgain
<1>4. ASSUME NEW c \in Callers, Check(c) PROVE CallTypes'
  <2>1. CASE registry # None \/ disabled
    BY <1>4, <2>1, UseTypes DEF Check, IInv, TypeOK, CacheTypes
  <2>2. CASE ~(registry # None \/ disabled)
    BY <1>4, <2>2, WaitTypes DEF Check, IInv, TypeOK, Places
  <2> QED BY <2>1, <2>2
<1>5. ASSUME NEW c \in Callers, Create(c) PROVE CallTypes'
  <2>1. CASE names' = names + 1 /\ Use(c, names + 1)
    BY <1>5, <2>1, UseTypes DEF IInv, TypeOK, CacheTypes
  <2>2. CASE UNCHANGED names /\ Use(c, None)
    <3>1. names' = names /\ names \in Nat /\ names <= names'
      BY <2>2, GatewayAssumption DEF IInv, TypeOK, CacheTypes
    <3> QED BY <2>2, <3>1, UseTypes DEF IInv, TypeOK
  <2> QED BY <1>5, <2>1, <2>2 DEF Create
<1>6. ASSUME NEW c \in Callers, Generate(c) PROVE CallTypes'
  BY <1>6, GatewayAssumption
    DEF Generate, Go, cacheVars, callVars, streamVars, IInv, TypeOK, CacheTypes, CallTypes,
        StreamTypes, Places, Kinds, FirstStep, TriesAgain
<1>7. ASSUME NEW c \in Callers, Evict(c) PROVE CallTypes'
  BY <1>7, GatewayAssumption
    DEF Evict, Wait, Go, cacheVars, callVars, streamVars, IInv, TypeOK, CacheTypes, CallTypes,
        StreamTypes, Places, Kinds, FirstStep, TriesAgain
<1>8. ASSUME NEW c \in Callers, Inline(c) PROVE CallTypes'
  <2>1. CASE Wait(c, "parse")
    BY <1>8, <2>1, WaitTypes DEF Inline, cacheVars, IInv, TypeOK, Places
  <2>2. CASE AttemptFails(c)
    BY <1>8, <2>2, FailTypes DEF Inline, cacheVars, IInv, TypeOK
  <2> QED BY <1>8, <2>1, <2>2 DEF Inline
<1>9. ASSUME NEW c \in Callers, Parse(c) PROVE CallTypes'
  <2>1. CASE End(c, "ok")
    BY <1>9, <2>1, EndTypes DEF Parse, cacheVars, IInv, TypeOK, Places
  <2>2. CASE AttemptFails(c)
    BY <1>9, <2>2, FailTypes DEF Parse, cacheVars, IInv, TypeOK
  <2> QED BY <1>9, <2>1, <2>2 DEF Parse
<1>10. ASSUME NEW c \in Callers, Receive(c) PROVE CallTypes'
  BY <1>10, GatewayAssumption
    DEF Receive, End, Go, NextItem, IsDelta, cacheVars, callVars, streamVars, IInv, TypeOK,
        CacheTypes, CallTypes, StreamTypes, Places, Kinds, FirstStep, TriesAgain
<1>11. ASSUME NEW c \in Callers, ReadPiece(c) PROVE CallTypes'
  BY <1>11, GatewayAssumption
    DEF ReadPiece, Put, Delta, cacheVars, callVars, streamVars, IInv, TypeOK, CacheTypes,
        CallTypes, StreamTypes, Places, Kinds, FirstStep, TriesAgain
<1>12. ASSUME NEW c \in Callers, ReadEnd(c) PROVE CallTypes'
  BY <1>12, GatewayAssumption
    DEF ReadEnd, Put, EndItem, Ends, cacheVars, callVars, streamVars, IInv, TypeOK, CacheTypes,
        CallTypes, StreamTypes, Places, Kinds, FirstStep, TriesAgain
<1>13. ASSUME NEW c \in Callers, Cancel(c) PROVE CallTypes'
  BY <1>13, GatewayAssumption
    DEF Cancel, Go, cacheVars, callVars, streamVars, IInv, TypeOK, CacheTypes, CallTypes,
        StreamTypes, Places, Kinds, FirstStep, TriesAgain
<1>14. ASSUME NEW n \in 1..MaxNames, Expire(n) PROVE CallTypes'
  BY <1>14, GatewayAssumption
    DEF Expire, cacheVars, callVars, streamVars, IInv, TypeOK, CacheTypes, CallTypes,
        StreamTypes, Places, Kinds, FirstStep, TriesAgain
<1>15. CASE UNCHANGED vars
  BY <1>15, GatewayAssumption
    DEF vars, cacheVars, callVars, streamVars, IInv, TypeOK, CacheTypes, CallTypes, StreamTypes,
        Places, Kinds, FirstStep, TriesAgain
<1> QED BY <1>1, <1>2, <1>3, <1>4, <1>5, <1>6, <1>7, <1>8, <1>9, <1>10, <1>11, <1>12, <1>13, <1>14, <1>15
    DEF Next, Work, Reading

LEMMA StreamTypesStep == IInv /\ [Next]_vars => StreamTypes'
<1> SUFFICES ASSUME IInv, [Next]_vars PROVE StreamTypes'
  OBVIOUS
<1>1. ASSUME NEW c \in Callers, NEW k \in Kinds, Start(c, k) PROVE StreamTypes'
  <2>1. <<>> \in Seq(Items) /\ <<>> \in Seq(1..Pieces) /\ 0 \in 0..Pieces
    BY GatewayAssumption, EmptySeq
  <2> QED BY <1>1, <2>1 DEF Start, IInv, TypeOK, StreamTypes
<1>2. ASSUME NEW c \in Callers, Lookup(c) PROVE StreamTypes'
  BY <1>2, GatewayAssumption
    DEF Lookup, Use, Go, Wait, cacheVars, callVars, streamVars, IInv, TypeOK, CacheTypes,
        CallTypes, StreamTypes, Items, Ends, IsDelta, NextItem, EndItem, Delta
<1>3. ASSUME NEW c \in Callers, Lock(c) PROVE StreamTypes'
  BY <1>3, GatewayAssumption
    DEF Lock, Wait, Go, cacheVars, callVars, streamVars, IInv, TypeOK, CacheTypes, CallTypes,
        StreamTypes, Items, Ends, IsDelta, NextItem, EndItem, Delta
<1>4. ASSUME NEW c \in Callers, Check(c) PROVE StreamTypes'
  BY <1>4, GatewayAssumption
    DEF Check, Use, Wait, Go, cacheVars, callVars, streamVars, IInv, TypeOK, CacheTypes,
        CallTypes, StreamTypes, Items, Ends, IsDelta, NextItem, EndItem, Delta
<1>5. ASSUME NEW c \in Callers, Create(c) PROVE StreamTypes'
  BY <1>5, GatewayAssumption
    DEF Create, Use, Go, cacheVars, callVars, streamVars, IInv, TypeOK, CacheTypes, CallTypes,
        StreamTypes, Items, Ends, IsDelta, NextItem, EndItem, Delta
<1>6. ASSUME NEW c \in Callers, Generate(c) PROVE StreamTypes'
  BY <1>6, GatewayAssumption
    DEF Generate, Go, cacheVars, callVars, streamVars, IInv, TypeOK, CacheTypes, CallTypes,
        StreamTypes, Items, Ends, IsDelta, NextItem, EndItem, Delta
<1>7. ASSUME NEW c \in Callers, Evict(c) PROVE StreamTypes'
  BY <1>7, GatewayAssumption
    DEF Evict, Wait, Go, cacheVars, callVars, streamVars, IInv, TypeOK, CacheTypes, CallTypes,
        StreamTypes, Items, Ends, IsDelta, NextItem, EndItem, Delta
<1>8. ASSUME NEW c \in Callers, Inline(c) PROVE StreamTypes'
  BY <1>8, GatewayAssumption
    DEF Inline, Wait, Go, AttemptFails, Again, End, cacheVars, callVars, streamVars, IInv,
        TypeOK, CacheTypes, CallTypes, StreamTypes, Items, Ends, IsDelta, NextItem, EndItem,
        Delta
<1>9. ASSUME NEW c \in Callers, Parse(c) PROVE StreamTypes'
  BY <1>9, GatewayAssumption
    DEF Parse, End, Go, AttemptFails, Again, cacheVars, callVars, streamVars, IInv, TypeOK,
        CacheTypes, CallTypes, StreamTypes, Items, Ends, IsDelta, NextItem, EndItem, Delta
<1>10. ASSUME NEW c \in Callers, Receive(c) PROVE StreamTypes'
  <2>1. PICK item \in Items : item = Head(queue[c])
    BY <1>10, HeadTailProperties DEF Receive, IInv, TypeOK, StreamTypes
  <2>2. Tail(queue[c]) \in Seq(Items)
    BY <1>10, HeadTailProperties DEF Receive, IInv, TypeOK, StreamTypes
  <2>3. queue' \in [Callers -> Seq(Items)]
    BY <1>10, <2>2 DEF Receive, IInv, TypeOK, StreamTypes
  <2>4. out' \in [Callers -> Seq(1..Pieces)]
    <3>1. CASE IsDelta(item)
      <4>1. item.piece \in 1..Pieces /\ out' = [out EXCEPT ![c] = Append(@, item.piece)]
        BY <1>10, <2>1, <3>1, ReceivedIsNext DEF Receive, NextItem
      <4>2. Append(out[c], item.piece) \in Seq(1..Pieces)
        BY <4>1, AppendProperties DEF IInv, TypeOK, StreamTypes
      <4> QED BY <4>1, <4>2 DEF IInv, TypeOK, StreamTypes
    <3>2. CASE ~IsDelta(item)
      BY <1>10, <2>1, <3>2 DEF Receive, NextItem, IInv, TypeOK, StreamTypes
    <3> QED BY <3>1, <3>2
  <2> QED BY <1>10, <2>3, <2>4 DEF Receive, IInv, TypeOK, StreamTypes
<1>11. ASSUME NEW c \in Callers, ReadPiece(c) PROVE StreamTypes'
  <2>1. produced[c] + 1 \in 0..Pieces /\ Delta(produced[c] + 1) \in Items
    BY <1>11, GatewayAssumption DEF ReadPiece, IInv, TypeOK, StreamTypes, Delta, Items
  <2>2. Append(queue[c], Delta(produced[c] + 1)) \in Seq(Items)
    BY <1>11, <2>1, AppendProperties DEF IInv, TypeOK, StreamTypes
  <2> QED BY <1>11, <2>1, <2>2 DEF ReadPiece, Put, IInv, TypeOK, StreamTypes
<1>12. ASSUME NEW c \in Callers, ReadEnd(c) PROVE StreamTypes'
  <2>1. PICK e \in Ends : reader' = [reader EXCEPT ![c] = e] /\ Put(c, EndItem(e))
    BY <1>12 DEF ReadEnd
  <2>2. EndItem(e) \in Items
    BY GatewayAssumption DEF EndItem, Items, Ends
  <2>3. Append(queue[c], EndItem(e)) \in Seq(Items)
    BY <2>2, AppendProperties DEF IInv, TypeOK, StreamTypes
  <2> QED BY <1>12, <2>1, <2>3 DEF ReadEnd, Put, IInv, TypeOK, StreamTypes
<1>13. ASSUME NEW c \in Callers, Cancel(c) PROVE StreamTypes'
  BY <1>13, GatewayAssumption
    DEF Cancel, Go, cacheVars, callVars, streamVars, IInv, TypeOK, CacheTypes, CallTypes,
        StreamTypes, Items, Ends, IsDelta, NextItem, EndItem, Delta
<1>14. ASSUME NEW n \in 1..MaxNames, Expire(n) PROVE StreamTypes'
  BY <1>14, GatewayAssumption
    DEF Expire, cacheVars, callVars, streamVars, IInv, TypeOK, CacheTypes, CallTypes,
        StreamTypes, Items, Ends, IsDelta, NextItem, EndItem, Delta
<1>15. CASE UNCHANGED vars
  BY <1>15, GatewayAssumption
    DEF vars, cacheVars, callVars, streamVars, IInv, TypeOK, CacheTypes, CallTypes, StreamTypes,
        Items, Ends, IsDelta, NextItem, EndItem, Delta
<1> QED BY <1>1, <1>2, <1>3, <1>4, <1>5, <1>6, <1>7, <1>8, <1>9, <1>10, <1>11, <1>12, <1>13, <1>14, <1>15
    DEF Next, Work, Reading

(* A call moves only through the places of its kind. *)
LEMMA KindStep == IInv /\ [Next]_vars => KindFits'
<1> SUFFICES ASSUME IInv, [Next]_vars PROVE KindFits'
  OBVIOUS
<1>1. ASSUME NEW c \in Callers, NEW k \in Kinds, Start(c, k) PROVE KindFits'
  BY <1>1, GatewayAssumption
    DEF Start, Go, cacheVars, callVars, streamVars, IInv, TypeOK, CallTypes, CacheTypes,
        KindFits, Blocking, Places, Kinds, FirstStep, TriesAgain
<1>2. ASSUME NEW c \in Callers, Lookup(c) PROVE KindFits'
  BY <1>2, GatewayAssumption
    DEF Lookup, Use, Go, Wait, cacheVars, callVars, streamVars, IInv, TypeOK, CallTypes,
        CacheTypes, KindFits, Blocking, Places, Kinds, FirstStep, TriesAgain
<1>3. ASSUME NEW c \in Callers, Lock(c) PROVE KindFits'
  BY <1>3, GatewayAssumption
    DEF Lock, Wait, Go, cacheVars, callVars, streamVars, IInv, TypeOK, CallTypes, CacheTypes,
        KindFits, Blocking, Places, Kinds, FirstStep, TriesAgain
<1>4. ASSUME NEW c \in Callers, Check(c) PROVE KindFits'
  BY <1>4, GatewayAssumption
    DEF Check, Use, Wait, Go, cacheVars, callVars, streamVars, IInv, TypeOK, CallTypes,
        CacheTypes, KindFits, Blocking, Places, Kinds, FirstStep, TriesAgain
<1>5. ASSUME NEW c \in Callers, Create(c) PROVE KindFits'
  BY <1>5, GatewayAssumption
    DEF Create, Use, Go, cacheVars, callVars, streamVars, IInv, TypeOK, CallTypes, CacheTypes,
        KindFits, Blocking, Places, Kinds, FirstStep, TriesAgain
<1>6. ASSUME NEW c \in Callers, Generate(c) PROVE KindFits'
  BY <1>6, GatewayAssumption
    DEF Generate, Go, cacheVars, callVars, streamVars, IInv, TypeOK, CallTypes, CacheTypes,
        KindFits, Blocking, Places, Kinds, FirstStep, TriesAgain
<1>7. ASSUME NEW c \in Callers, Evict(c) PROVE KindFits'
  BY <1>7, GatewayAssumption
    DEF Evict, Wait, Go, cacheVars, callVars, streamVars, IInv, TypeOK, CallTypes, CacheTypes,
        KindFits, Blocking, Places, Kinds, FirstStep, TriesAgain
<1>8. ASSUME NEW c \in Callers, Inline(c) PROVE KindFits'
  BY <1>8, GatewayAssumption
    DEF Inline, Wait, Go, AttemptFails, Again, End, cacheVars, callVars, streamVars, IInv,
        TypeOK, CallTypes, CacheTypes, KindFits, Blocking, Places, Kinds, FirstStep, TriesAgain
<1>9. ASSUME NEW c \in Callers, Parse(c) PROVE KindFits'
  BY <1>9, GatewayAssumption
    DEF Parse, End, Go, AttemptFails, Again, cacheVars, callVars, streamVars, IInv, TypeOK,
        CallTypes, CacheTypes, KindFits, Blocking, Places, Kinds, FirstStep, TriesAgain
<1>10. ASSUME NEW c \in Callers, Receive(c) PROVE KindFits'
  BY <1>10, GatewayAssumption
    DEF Receive, End, Go, NextItem, IsDelta, cacheVars, callVars, streamVars, IInv, TypeOK,
        CallTypes, CacheTypes, KindFits, Blocking, Places, Kinds, FirstStep, TriesAgain
<1>11. ASSUME NEW c \in Callers, ReadPiece(c) PROVE KindFits'
  BY <1>11, GatewayAssumption
    DEF ReadPiece, Put, Delta, cacheVars, callVars, streamVars, IInv, TypeOK, CallTypes,
        CacheTypes, KindFits, Blocking, Places, Kinds, FirstStep, TriesAgain
<1>12. ASSUME NEW c \in Callers, ReadEnd(c) PROVE KindFits'
  BY <1>12, GatewayAssumption
    DEF ReadEnd, Put, EndItem, Ends, cacheVars, callVars, streamVars, IInv, TypeOK, CallTypes,
        CacheTypes, KindFits, Blocking, Places, Kinds, FirstStep, TriesAgain
<1>13. ASSUME NEW c \in Callers, Cancel(c) PROVE KindFits'
  BY <1>13, GatewayAssumption
    DEF Cancel, Go, cacheVars, callVars, streamVars, IInv, TypeOK, CallTypes, CacheTypes,
        KindFits, Blocking, Places, Kinds, FirstStep, TriesAgain
<1>14. ASSUME NEW n \in 1..MaxNames, Expire(n) PROVE KindFits'
  BY <1>14, GatewayAssumption
    DEF Expire, cacheVars, callVars, streamVars, IInv, TypeOK, CallTypes, CacheTypes, KindFits,
        Blocking, Places, Kinds, FirstStep, TriesAgain
<1>15. CASE UNCHANGED vars
  BY <1>15, GatewayAssumption
    DEF vars, cacheVars, callVars, streamVars, IInv, TypeOK, CallTypes, CacheTypes, KindFits,
        Blocking, Places, Kinds, FirstStep, TriesAgain
<1> QED BY <1>1, <1>2, <1>3, <1>4, <1>5, <1>6, <1>7, <1>8, <1>9, <1>10, <1>11, <1>12, <1>13, <1>14, <1>15
    DEF Next, Work, Reading

(* Only the holder of the lock checks and creates; nobody but it fills the *)
(* registry, so what it found missing is still missing.                    *)
LEMMA LockStep == IInv /\ [Next]_vars => Locked'
<1> SUFFICES ASSUME IInv, [Next]_vars PROVE Locked'
  OBVIOUS
<1>1. ASSUME NEW c \in Callers, NEW k \in Kinds, Start(c, k) PROVE Locked'
  BY <1>1, GatewayAssumption
    DEF Start, Go, cacheVars, callVars, streamVars, IInv, TypeOK, CallTypes, CacheTypes, Locked,
        KindFits, Blocking, Places, FirstStep, TriesAgain
<1>2. ASSUME NEW c \in Callers, Lookup(c) PROVE Locked'
  BY <1>2, GatewayAssumption
    DEF Lookup, Use, Go, Wait, cacheVars, callVars, streamVars, IInv, TypeOK, CallTypes,
        CacheTypes, Locked, KindFits, Blocking, Places, FirstStep, TriesAgain
<1>3. ASSUME NEW c \in Callers, Lock(c) PROVE Locked'
  BY <1>3, GatewayAssumption
    DEF Lock, Wait, Go, cacheVars, callVars, streamVars, IInv, TypeOK, CallTypes, CacheTypes,
        Locked, KindFits, Blocking, Places, FirstStep, TriesAgain
<1>4. ASSUME NEW c \in Callers, Check(c) PROVE Locked'
  BY <1>4, GatewayAssumption
    DEF Check, Use, Wait, Go, cacheVars, callVars, streamVars, IInv, TypeOK, CallTypes,
        CacheTypes, Locked, KindFits, Blocking, Places, FirstStep, TriesAgain
<1>5. ASSUME NEW c \in Callers, Create(c) PROVE Locked'
  BY <1>5, GatewayAssumption
    DEF Create, Use, Go, cacheVars, callVars, streamVars, IInv, TypeOK, CallTypes, CacheTypes,
        Locked, KindFits, Blocking, Places, FirstStep, TriesAgain
<1>6. ASSUME NEW c \in Callers, Generate(c) PROVE Locked'
  BY <1>6, GatewayAssumption
    DEF Generate, Go, cacheVars, callVars, streamVars, IInv, TypeOK, CallTypes, CacheTypes,
        Locked, KindFits, Blocking, Places, FirstStep, TriesAgain
<1>7. ASSUME NEW c \in Callers, Evict(c) PROVE Locked'
  BY <1>7, GatewayAssumption
    DEF Evict, Wait, Go, cacheVars, callVars, streamVars, IInv, TypeOK, CallTypes, CacheTypes,
        Locked, KindFits, Blocking, Places, FirstStep, TriesAgain
<1>8. ASSUME NEW c \in Callers, Inline(c) PROVE Locked'
  BY <1>8, GatewayAssumption
    DEF Inline, Wait, Go, AttemptFails, Again, End, cacheVars, callVars, streamVars, IInv,
        TypeOK, CallTypes, CacheTypes, Locked, KindFits, Blocking, Places, FirstStep, TriesAgain
<1>9. ASSUME NEW c \in Callers, Parse(c) PROVE Locked'
  BY <1>9, GatewayAssumption
    DEF Parse, End, Go, AttemptFails, Again, cacheVars, callVars, streamVars, IInv, TypeOK,
        CallTypes, CacheTypes, Locked, KindFits, Blocking, Places, FirstStep, TriesAgain
<1>10. ASSUME NEW c \in Callers, Receive(c) PROVE Locked'
  BY <1>10, GatewayAssumption
    DEF Receive, End, Go, NextItem, IsDelta, cacheVars, callVars, streamVars, IInv, TypeOK,
        CallTypes, CacheTypes, Locked, KindFits, Blocking, Places, FirstStep, TriesAgain
<1>11. ASSUME NEW c \in Callers, ReadPiece(c) PROVE Locked'
  BY <1>11, GatewayAssumption
    DEF ReadPiece, Put, Delta, cacheVars, callVars, streamVars, IInv, TypeOK, CallTypes,
        CacheTypes, Locked, KindFits, Blocking, Places, FirstStep, TriesAgain
<1>12. ASSUME NEW c \in Callers, ReadEnd(c) PROVE Locked'
  BY <1>12, GatewayAssumption
    DEF ReadEnd, Put, EndItem, Ends, cacheVars, callVars, streamVars, IInv, TypeOK, CallTypes,
        CacheTypes, Locked, KindFits, Blocking, Places, FirstStep, TriesAgain
<1>13. ASSUME NEW c \in Callers, Cancel(c) PROVE Locked'
  BY <1>13, GatewayAssumption
    DEF Cancel, Go, cacheVars, callVars, streamVars, IInv, TypeOK, CallTypes, CacheTypes, Locked,
        KindFits, Blocking, Places, FirstStep, TriesAgain
<1>14. ASSUME NEW n \in 1..MaxNames, Expire(n) PROVE Locked'
  BY <1>14, GatewayAssumption
    DEF Expire, cacheVars, callVars, streamVars, IInv, TypeOK, CallTypes, CacheTypes, Locked,
        KindFits, Blocking, Places, FirstStep, TriesAgain
<1>15. CASE UNCHANGED vars
  BY <1>15, GatewayAssumption
    DEF vars, cacheVars, callVars, streamVars, IInv, TypeOK, CallTypes, CacheTypes, Locked,
        KindFits, Blocking, Places, FirstStep, TriesAgain
<1> QED BY <1>1, <1>2, <1>3, <1>4, <1>5, <1>6, <1>7, <1>8, <1>9, <1>10, <1>11, <1>12, <1>13, <1>14, <1>15
    DEF Next, Work, Reading

(* A content is created into an empty registry and leaves it by eviction. *)
LEMMA CacheStep == IInv /\ [Next]_vars => KeptOrEvicted'
<1> SUFFICES ASSUME IInv, [Next]_vars PROVE KeptOrEvicted'
  OBVIOUS
<1>1. ASSUME NEW c \in Callers, NEW k \in Kinds, Start(c, k) PROVE KeptOrEvicted'
  BY <1>1, GatewayAssumption
    DEF Start, Go, cacheVars, callVars, streamVars, IInv, TypeOK, CallTypes, CacheTypes,
        KeptOrEvicted, Locked
<1>2. ASSUME NEW c \in Callers, Lookup(c) PROVE KeptOrEvicted'
  BY <1>2, GatewayAssumption
    DEF Lookup, Use, Go, Wait, cacheVars, callVars, streamVars, IInv, TypeOK, CallTypes,
        CacheTypes, KeptOrEvicted, Locked
<1>3. ASSUME NEW c \in Callers, Lock(c) PROVE KeptOrEvicted'
  BY <1>3, GatewayAssumption
    DEF Lock, Wait, Go, cacheVars, callVars, streamVars, IInv, TypeOK, CallTypes, CacheTypes,
        KeptOrEvicted, Locked
<1>4. ASSUME NEW c \in Callers, Check(c) PROVE KeptOrEvicted'
  BY <1>4, GatewayAssumption
    DEF Check, Use, Wait, Go, cacheVars, callVars, streamVars, IInv, TypeOK, CallTypes,
        CacheTypes, KeptOrEvicted, Locked
<1>5. ASSUME NEW c \in Callers, Create(c) PROVE KeptOrEvicted'
  BY <1>5, GatewayAssumption
    DEF Create, Use, Go, cacheVars, callVars, streamVars, IInv, TypeOK, CallTypes, CacheTypes,
        KeptOrEvicted, Locked
<1>6. ASSUME NEW c \in Callers, Generate(c) PROVE KeptOrEvicted'
  BY <1>6, GatewayAssumption
    DEF Generate, Go, cacheVars, callVars, streamVars, IInv, TypeOK, CallTypes, CacheTypes,
        KeptOrEvicted, Locked
<1>7. ASSUME NEW c \in Callers, Evict(c) PROVE KeptOrEvicted'
  BY <1>7, GatewayAssumption
    DEF Evict, Wait, Go, cacheVars, callVars, streamVars, IInv, TypeOK, CallTypes, CacheTypes,
        KeptOrEvicted, Locked
<1>8. ASSUME NEW c \in Callers, Inline(c) PROVE KeptOrEvicted'
  BY <1>8, GatewayAssumption
    DEF Inline, Wait, Go, AttemptFails, Again, End, cacheVars, callVars, streamVars, IInv,
        TypeOK, CallTypes, CacheTypes, KeptOrEvicted, Locked
<1>9. ASSUME NEW c \in Callers, Parse(c) PROVE KeptOrEvicted'
  BY <1>9, GatewayAssumption
    DEF Parse, End, Go, AttemptFails, Again, cacheVars, callVars, streamVars, IInv, TypeOK,
        CallTypes, CacheTypes, KeptOrEvicted, Locked
<1>10. ASSUME NEW c \in Callers, Receive(c) PROVE KeptOrEvicted'
  BY <1>10, GatewayAssumption
    DEF Receive, End, Go, NextItem, IsDelta, cacheVars, callVars, streamVars, IInv, TypeOK,
        CallTypes, CacheTypes, KeptOrEvicted, Locked
<1>11. ASSUME NEW c \in Callers, ReadPiece(c) PROVE KeptOrEvicted'
  BY <1>11, GatewayAssumption
    DEF ReadPiece, Put, Delta, cacheVars, callVars, streamVars, IInv, TypeOK, CallTypes,
        CacheTypes, KeptOrEvicted, Locked
<1>12. ASSUME NEW c \in Callers, ReadEnd(c) PROVE KeptOrEvicted'
  BY <1>12, GatewayAssumption
    DEF ReadEnd, Put, EndItem, Ends, cacheVars, callVars, streamVars, IInv, TypeOK, CallTypes,
        CacheTypes, KeptOrEvicted, Locked
<1>13. ASSUME NEW c \in Callers, Cancel(c) PROVE KeptOrEvicted'
  BY <1>13, GatewayAssumption
    DEF Cancel, Go, cacheVars, callVars, streamVars, IInv, TypeOK, CallTypes, CacheTypes,
        KeptOrEvicted, Locked
<1>14. ASSUME NEW n \in 1..MaxNames, Expire(n) PROVE KeptOrEvicted'
  BY <1>14, GatewayAssumption
    DEF Expire, cacheVars, callVars, streamVars, IInv, TypeOK, CallTypes, CacheTypes,
        KeptOrEvicted, Locked
<1>15. CASE UNCHANGED vars
  BY <1>15, GatewayAssumption
    DEF vars, cacheVars, callVars, streamVars, IInv, TypeOK, CallTypes, CacheTypes,
        KeptOrEvicted, Locked
<1> QED BY <1>1, <1>2, <1>3, <1>4, <1>5, <1>6, <1>7, <1>8, <1>9, <1>10, <1>11, <1>12, <1>13, <1>14, <1>15
    DEF Next, Work, Reading

(* A cancelled caller is never found waiting for a stream or idle. *)
LEMMA GoneStep == IInv /\ [Next]_vars => GoneStops'
<1> SUFFICES ASSUME IInv, [Next]_vars PROVE GoneStops'
  OBVIOUS
<1>1. ASSUME NEW c \in Callers, NEW k \in Kinds, Start(c, k) PROVE GoneStops'
  BY <1>1, GatewayAssumption
    DEF Start, Go, cacheVars, callVars, streamVars, IInv, TypeOK, CallTypes, CacheTypes,
        GoneStops, KindFits, Blocking, Places, FirstStep, TriesAgain
<1>2. ASSUME NEW c \in Callers, Lookup(c) PROVE GoneStops'
  BY <1>2, GatewayAssumption
    DEF Lookup, Use, Go, Wait, cacheVars, callVars, streamVars, IInv, TypeOK, CallTypes,
        CacheTypes, GoneStops, KindFits, Blocking, Places, FirstStep, TriesAgain
<1>3. ASSUME NEW c \in Callers, Lock(c) PROVE GoneStops'
  BY <1>3, GatewayAssumption
    DEF Lock, Wait, Go, cacheVars, callVars, streamVars, IInv, TypeOK, CallTypes, CacheTypes,
        GoneStops, KindFits, Blocking, Places, FirstStep, TriesAgain
<1>4. ASSUME NEW c \in Callers, Check(c) PROVE GoneStops'
  BY <1>4, GatewayAssumption
    DEF Check, Use, Wait, Go, cacheVars, callVars, streamVars, IInv, TypeOK, CallTypes,
        CacheTypes, GoneStops, KindFits, Blocking, Places, FirstStep, TriesAgain
<1>5. ASSUME NEW c \in Callers, Create(c) PROVE GoneStops'
  BY <1>5, GatewayAssumption
    DEF Create, Use, Go, cacheVars, callVars, streamVars, IInv, TypeOK, CallTypes, CacheTypes,
        GoneStops, KindFits, Blocking, Places, FirstStep, TriesAgain
<1>6. ASSUME NEW c \in Callers, Generate(c) PROVE GoneStops'
  BY <1>6, GatewayAssumption
    DEF Generate, Go, cacheVars, callVars, streamVars, IInv, TypeOK, CallTypes, CacheTypes,
        GoneStops, KindFits, Blocking, Places, FirstStep, TriesAgain
<1>7. ASSUME NEW c \in Callers, Evict(c) PROVE GoneStops'
  BY <1>7, GatewayAssumption
    DEF Evict, Wait, Go, cacheVars, callVars, streamVars, IInv, TypeOK, CallTypes, CacheTypes,
        GoneStops, KindFits, Blocking, Places, FirstStep, TriesAgain
<1>8. ASSUME NEW c \in Callers, Inline(c) PROVE GoneStops'
  BY <1>8, GatewayAssumption
    DEF Inline, Wait, Go, AttemptFails, Again, End, cacheVars, callVars, streamVars, IInv,
        TypeOK, CallTypes, CacheTypes, GoneStops, KindFits, Blocking, Places, FirstStep,
        TriesAgain
<1>9. ASSUME NEW c \in Callers, Parse(c) PROVE GoneStops'
  BY <1>9, GatewayAssumption
    DEF Parse, End, Go, AttemptFails, Again, cacheVars, callVars, streamVars, IInv, TypeOK,
        CallTypes, CacheTypes, GoneStops, KindFits, Blocking, Places, FirstStep, TriesAgain
<1>10. ASSUME NEW c \in Callers, Receive(c) PROVE GoneStops'
  BY <1>10, GatewayAssumption
    DEF Receive, End, Go, NextItem, IsDelta, cacheVars, callVars, streamVars, IInv, TypeOK,
        CallTypes, CacheTypes, GoneStops, KindFits, Blocking, Places, FirstStep, TriesAgain
<1>11. ASSUME NEW c \in Callers, ReadPiece(c) PROVE GoneStops'
  BY <1>11, GatewayAssumption
    DEF ReadPiece, Put, Delta, cacheVars, callVars, streamVars, IInv, TypeOK, CallTypes,
        CacheTypes, GoneStops, KindFits, Blocking, Places, FirstStep, TriesAgain
<1>12. ASSUME NEW c \in Callers, ReadEnd(c) PROVE GoneStops'
  BY <1>12, GatewayAssumption
    DEF ReadEnd, Put, EndItem, Ends, cacheVars, callVars, streamVars, IInv, TypeOK, CallTypes,
        CacheTypes, GoneStops, KindFits, Blocking, Places, FirstStep, TriesAgain
<1>13. ASSUME NEW c \in Callers, Cancel(c) PROVE GoneStops'
  BY <1>13, GatewayAssumption
    DEF Cancel, Go, cacheVars, callVars, streamVars, IInv, TypeOK, CallTypes, CacheTypes,
        GoneStops, KindFits, Blocking, Places, FirstStep, TriesAgain
<1>14. ASSUME NEW n \in 1..MaxNames, Expire(n) PROVE GoneStops'
  BY <1>14, GatewayAssumption
    DEF Expire, cacheVars, callVars, streamVars, IInv, TypeOK, CallTypes, CacheTypes, GoneStops,
        KindFits, Blocking, Places, FirstStep, TriesAgain
<1>15. CASE UNCHANGED vars
  BY <1>15, GatewayAssumption
    DEF vars, cacheVars, callVars, streamVars, IInv, TypeOK, CallTypes, CacheTypes, GoneStops,
        KindFits, Blocking, Places, FirstStep, TriesAgain
<1> QED BY <1>1, <1>2, <1>3, <1>4, <1>5, <1>6, <1>7, <1>8, <1>9, <1>10, <1>11, <1>12, <1>13, <1>14, <1>15
    DEF Next, Work, Reading

(* The stream of a caller that neither moves nor is read stays as it is. *)
LEMMA OthersKeepTheirs ==
  ASSUME IInv, NEW d \in Callers, kind'[d] = "stream" /\ d \notin gone' => kind[d] = "stream" /\ d \notin gone,
         at'[d] = at[d], last'[d] = last[d],
         reader'[d] = reader[d], produced'[d] = produced[d], queue'[d] = queue[d], out'[d] = out[d]
  PROVE  kind'[d] = "stream" /\ d \notin gone' => StreamFits(d)'
BY DEF IInv, StreamShape, StreamFits, StreamKept, Left

(* Reading, handing over and receiving keep a stream in order. *)
LEMMA StreamStep == IInv /\ [Next]_vars => StreamShape'
<1> SUFFICES ASSUME IInv, [Next]_vars PROVE StreamShape'
  OBVIOUS
<1>1. ASSUME NEW c \in Callers, NEW k \in Kinds, Start(c, k) PROVE StreamShape'
  <2> SUFFICES ASSUME NEW d \in Callers PROVE kind'[d] = "stream" /\ d \notin gone' => StreamFits(d)'
    BY DEF StreamShape
  <2>1. CASE d = c
    <3>1. k # "stream" => kind'[c] # "stream"
      BY <1>1 DEF Start, IInv, TypeOK, CallTypes
    <3>2. CASE k = "stream"
      <4>1. /\ at'[c] = "streaming" /\ reader'[c] = "reading" /\ produced'[c] = 0
            /\ queue'[c] = <<>> /\ out'[c] = <<>>
        BY <1>1, <3>2 DEF Start, Go, IInv, TypeOK, CallTypes, StreamTypes
      <4> Len(out'[c]) = 0 /\ Len(queue'[c]) = 0
        BY <4>1, EmptySeq
      <4>2. Len(out'[c]) = 0 /\ Len(queue'[c]) = 0 /\ Left(c)' = 0
        BY <4>1 DEF Left
      <4>3. StreamKept(c)'
        BY <4>1, <4>2 DEF StreamKept
      <4> QED BY <2>1, <4>1, <4>2, <4>3 DEF StreamFits
    <3> QED BY <2>1, <3>1, <3>2
  <2>2. CASE d # c
    BY <1>1, <2>2, OthersKeepTheirs DEF Start, Go, callVars, IInv, TypeOK, CallTypes, StreamTypes
  <2> QED BY <2>1, <2>2
<1>2. ASSUME NEW c \in Callers, Lookup(c) PROVE StreamShape'
  <2> SUFFICES ASSUME NEW d \in Callers PROVE kind'[d] = "stream" /\ d \notin gone' => StreamFits(d)'
    BY DEF StreamShape
  <2>1. CASE d = c
    BY <1>2, <2>1
      DEF Lookup, Use, Go, Wait, streamVars, IInv, TypeOK, CallTypes, KindFits, Blocking, Places
  <2>2. CASE d # c
    BY <1>2, <2>2, OthersKeepTheirs
      DEF Lookup, Use, Go, Wait, cacheVars, streamVars, IInv, TypeOK, CallTypes
  <2> QED BY <2>1, <2>2
<1>3. ASSUME NEW c \in Callers, Lock(c) PROVE StreamShape'
  <2> SUFFICES ASSUME NEW d \in Callers PROVE kind'[d] = "stream" /\ d \notin gone' => StreamFits(d)'
    BY DEF StreamShape
  <2>1. CASE d = c
    BY <1>3, <2>1
      DEF Lock, Wait, Go, streamVars, IInv, TypeOK, CallTypes, KindFits, Blocking, Places
  <2>2. CASE d # c
    BY <1>3, <2>2, OthersKeepTheirs
      DEF Lock, Wait, Go, cacheVars, streamVars, IInv, TypeOK, CallTypes
  <2> QED BY <2>1, <2>2
<1>4. ASSUME NEW c \in Callers, Check(c) PROVE StreamShape'
  <2> SUFFICES ASSUME NEW d \in Callers PROVE kind'[d] = "stream" /\ d \notin gone' => StreamFits(d)'
    BY DEF StreamShape
  <2>1. CASE d = c
    BY <1>4, <2>1
      DEF Check, Use, Wait, Go, streamVars, IInv, TypeOK, CallTypes, KindFits, Blocking, Places
  <2>2. CASE d # c
    BY <1>4, <2>2, OthersKeepTheirs
      DEF Check, Use, Wait, Go, cacheVars, streamVars, IInv, TypeOK, CallTypes
  <2> QED BY <2>1, <2>2
<1>5. ASSUME NEW c \in Callers, Create(c) PROVE StreamShape'
  <2> SUFFICES ASSUME NEW d \in Callers PROVE kind'[d] = "stream" /\ d \notin gone' => StreamFits(d)'
    BY DEF StreamShape
  <2>1. CASE d = c
    BY <1>5, <2>1
      DEF Create, Use, Go, streamVars, IInv, TypeOK, CallTypes, KindFits, Blocking, Places
  <2>2. CASE d # c
    BY <1>5, <2>2, OthersKeepTheirs
      DEF Create, Use, Go, cacheVars, streamVars, IInv, TypeOK, CallTypes
  <2> QED BY <2>1, <2>2
<1>6. ASSUME NEW c \in Callers, Generate(c) PROVE StreamShape'
  <2> SUFFICES ASSUME NEW d \in Callers PROVE kind'[d] = "stream" /\ d \notin gone' => StreamFits(d)'
    BY DEF StreamShape
  <2>1. CASE d = c
    BY <1>6, <2>1 DEF Generate, Go, streamVars, IInv, TypeOK, CallTypes, KindFits, Blocking, Places
  <2>2. CASE d # c
    BY <1>6, <2>2, OthersKeepTheirs DEF Generate, Go, cacheVars, streamVars, IInv, TypeOK, CallTypes
  <2> QED BY <2>1, <2>2
<1>7. ASSUME NEW c \in Callers, Evict(c) PROVE StreamShape'
  <2> SUFFICES ASSUME NEW d \in Callers PROVE kind'[d] = "stream" /\ d \notin gone' => StreamFits(d)'
    BY DEF StreamShape
  <2>1. CASE d = c
    BY <1>7, <2>1
      DEF Evict, Wait, Go, streamVars, IInv, TypeOK, CallTypes, KindFits, Blocking, Places
  <2>2. CASE d # c
    BY <1>7, <2>2, OthersKeepTheirs
      DEF Evict, Wait, Go, cacheVars, streamVars, IInv, TypeOK, CallTypes
  <2> QED BY <2>1, <2>2
<1>8. ASSUME NEW c \in Callers, Inline(c) PROVE StreamShape'
  <2> SUFFICES ASSUME NEW d \in Callers PROVE kind'[d] = "stream" /\ d \notin gone' => StreamFits(d)'
    BY DEF StreamShape
  <2>1. CASE d = c
    BY <1>8, <2>1
      DEF Inline, Wait, Go, AttemptFails, Again, End, streamVars, IInv, TypeOK, CallTypes,
          KindFits, Blocking, Places
  <2>2. CASE d # c
    BY <1>8, <2>2, OthersKeepTheirs
      DEF Inline, Wait, Go, AttemptFails, Again, End, cacheVars, streamVars, IInv, TypeOK,
          CallTypes
  <2> QED BY <2>1, <2>2
<1>9. ASSUME NEW c \in Callers, Parse(c) PROVE StreamShape'
  <2> SUFFICES ASSUME NEW d \in Callers PROVE kind'[d] = "stream" /\ d \notin gone' => StreamFits(d)'
    BY DEF StreamShape
  <2>1. CASE d = c
    BY <1>9, <2>1
      DEF Parse, End, Go, AttemptFails, Again, streamVars, IInv, TypeOK, CallTypes, KindFits,
          Blocking, Places
  <2>2. CASE d # c
    BY <1>9, <2>2, OthersKeepTheirs
      DEF Parse, End, Go, AttemptFails, Again, cacheVars, streamVars, IInv, TypeOK, CallTypes
  <2> QED BY <2>1, <2>2
<1>10. ASSUME NEW c \in Callers, Receive(c) PROVE StreamShape'
  <2> SUFFICES ASSUME NEW d \in Callers PROVE kind'[d] = "stream" /\ d \notin gone' => StreamFits(d)'
    BY DEF StreamShape
  <2>1. CASE d = c
    <3> DEFINE item == Head(queue[c])
    <3>1. at[c] = "streaming" /\ kind[c] = "stream" /\ c \notin gone /\ queue[c] # <<>>
      BY <1>10 DEF Receive, IInv, KindFits, GoneStops
    <3>2. StreamFits(c)
      BY <3>1 DEF IInv, StreamShape
    <3>3. reader'[c] = reader[c] /\ produced'[c] = produced[c] /\ queue'[c] = Tail(queue[c])
      BY <1>10 DEF Receive, IInv, TypeOK, StreamTypes
    <3>4. /\ Len(out[c]) \in Nat /\ produced[c] \in Nat /\ Left(c) \in Nat /\ Len(queue[c]) \in Nat \ {0}
      BY <3>1, <3>2, LenProperties, EmptySeq, GatewayAssumption
        DEF StreamFits, StreamKept, Left, IInv, TypeOK, StreamTypes
    <3>5. /\ Len(queue'[c]) = Len(queue[c]) - 1
          /\ \A i \in 1..Len(queue[c]) - 1 : queue'[c][i] = queue[c][i + 1]
      BY <3>1, <3>3, <3>4, HeadTailProperties DEF IInv, TypeOK, StreamTypes
    <3>6. CASE Left(c) > 0 /\ IsDelta(item) /\ item.piece = Len(out[c]) + 1 /\ item.piece \in 1..Pieces
      <4>1. out'[c] = Append(out[c], Len(out[c]) + 1) /\ at'[c] = at[c]
        BY <1>10, <3>6 DEF Receive, NextItem, IInv, TypeOK, StreamTypes
      <4>2. /\ Len(out'[c]) = Len(out[c]) + 1 /\ out'[c][Len(out[c]) + 1] = Len(out[c]) + 1
            /\ \A i \in 1..Len(out[c]) : out'[c][i] = out[c][i]
        BY <3>6, <4>1, AppendProperties DEF IInv, TypeOK, StreamTypes
      <4>3. Left(c)' = Left(c) - 1
        BY <3>3, <3>4, <4>2 DEF Left
      <4>4. \A i \in 1..Left(c) - 1 : queue'[c][i] = Delta(Len(out'[c]) + i)
        <5> SUFFICES ASSUME NEW i \in 1..Left(c) - 1 PROVE queue'[c][i] = Delta(Len(out[c]) + 1 + i)
          BY <4>2
        <5>1. i \in 1..Len(queue[c]) - 1 /\ i + 1 \in 1..Left(c)
          BY <3>1, <3>2, <3>4 DEF StreamFits
        <5>2. queue'[c][i] = Delta(Len(out[c]) + (i + 1))
          BY <3>2, <3>5, <5>1 DEF StreamFits, StreamKept
        <5>3. Len(out[c]) + (i + 1) = Len(out[c]) + 1 + i
          <6>1. i \in Nat
            BY <3>4
          <6>2. \A m, j \in Nat : m + (j + 1) = m + 1 + j
            OBVIOUS
          <6> QED BY <3>4, <6>1, <6>2
        <5> QED BY <5>2, <5>3
      <4>5. \A i \in 1..Len(out[c]) + 1 : out'[c][i] = i
        <5>1. \A i \in 1..Len(out[c]) : out[c][i] = i
          BY <3>2 DEF StreamFits, StreamKept
        <5>2. \A i \in 1..Len(out[c]) + 1 : i \in 1..Len(out[c]) \/ i = Len(out[c]) + 1
          BY <3>4
        <5> QED BY <4>2, <5>1, <5>2
      <4>6. StreamKept(c)'
        <5>1. Len(out'[c]) <= produced'[c]
          BY <3>3, <3>4, <3>6, <4>2 DEF Left
        <5> QED BY <4>2, <4>3, <4>4, <4>5, <5>1 DEF StreamKept
      <4>7. ASSUME reader[c] # "reading"
            PROVE  reader[c] \in Ends /\ Len(queue'[c]) = Left(c) /\ queue'[c][Left(c)] = EndItem(reader[c])
        BY <3>1, <3>2, <3>4, <3>5, <3>6, <4>7 DEF StreamFits
      <4>8. reader[c] = "reading" => Len(queue'[c]) = Left(c) - 1
        BY <3>1, <3>2, <3>4, <3>5 DEF StreamFits
      <4> HIDE DEF item
      <4>9. Left(c) - 1 + 1 = Left(c)
        BY <3>4
      <4> QED BY <2>1, <3>1, <3>3, <4>1, <4>3, <4>6, <4>7, <4>8, <4>9 DEF StreamFits
    <3>7. CASE Left(c) = 0 /\ reader[c] \in Ends /\ ~IsDelta(item) /\ item.kind = reader[c]
      <4>1. /\ out'[c] = out[c] /\ at'[c] = "idle"
            /\ last'[c] = IF reader[c] = "done" THEN "ok" ELSE "failed"
        BY <1>10, <3>1, <3>7 DEF Receive, NextItem, End, Go, IInv, TypeOK, CallTypes
      <4>2. Left(c)' = 0
        BY <3>3, <3>7, <4>1 DEF Left
      <4>3. StreamKept(c)'
        BY <3>2, <3>3, <3>4, <4>1, <4>2 DEF StreamFits, StreamKept
      <4> QED BY <2>1, <3>3, <3>7, <4>1, <4>2, <4>3 DEF StreamFits
    <3> QED BY <1>10, <3>6, <3>7, ReceivedIsNext
  <2>2. CASE d # c
    BY <1>10, <2>2, OthersKeepTheirs
      DEF Receive, End, Go, NextItem, IsDelta, callVars, IInv, TypeOK, CallTypes, StreamTypes
  <2> QED BY <2>1, <2>2
<1>11. ASSUME NEW c \in Callers, ReadPiece(c) PROVE StreamShape'
  <2> SUFFICES ASSUME NEW d \in Callers PROVE kind'[d] = "stream" /\ d \notin gone' => StreamFits(d)'
    BY DEF StreamShape
  <2>1. CASE d = c
    <3> SUFFICES ASSUME kind[c] = "stream", c \notin gone PROVE StreamFits(c)'
      BY <1>11, <2>1 DEF ReadPiece, callVars
    <3> DEFINE piece == Delta(produced[c] + 1)
    <3>1. /\ reader[c] = "reading" /\ reader'[c] = "reading" /\ produced'[c] = produced[c] + 1
          /\ queue'[c] = Append(queue[c], piece) /\ out'[c] = out[c] /\ at'[c] = at[c]
      BY <1>11 DEF ReadPiece, Put, callVars, IInv, TypeOK, StreamTypes
    <3>2. StreamFits(c)
      BY DEF IInv, StreamShape
    <3>3. at[c] = "streaming"
      BY <3>1, <3>2 DEF StreamFits, Ends
    <3>4. Len(out[c]) \in Nat /\ produced[c] \in Nat /\ Len(queue[c]) = Left(c)
      BY <3>1, <3>2, <3>3, GatewayAssumption DEF StreamFits, IInv, TypeOK, StreamTypes
    <3>5. /\ Len(queue'[c]) = Len(queue[c]) + 1 /\ queue'[c][Len(queue[c]) + 1] = piece
          /\ \A i \in 1..Len(queue[c]) : queue'[c][i] = queue[c][i]
      BY <3>1, AppendProperties DEF IInv, TypeOK, StreamTypes
    <3> HIDE DEF piece
    <3>6. Left(c)' = Left(c) + 1 /\ Left(c) \in Nat
      BY <3>1, <3>2, <3>4 DEF Left, StreamFits, StreamKept
    <3>7. piece = Delta(Len(out[c]) + (Left(c) + 1))
      BY <3>4 DEF piece, Left
    <3>8. \A i \in 1..Left(c) + 1 : queue'[c][i] = Delta(Len(out[c]) + i)
      <4>1. \A i \in 1..Left(c) : queue[c][i] = Delta(Len(out[c]) + i)
        BY <3>2 DEF StreamFits, StreamKept
      <4>2. \A i \in 1..Left(c) + 1 : i \in 1..Left(c) \/ i = Left(c) + 1
        BY <3>6
      <4> QED BY <3>4, <3>5, <3>7, <4>1, <4>2
    <3>9. StreamKept(c)'
      BY <3>1, <3>2, <3>4, <3>6, <3>8 DEF StreamFits, StreamKept
    <3> QED BY <3>1, <3>3, <3>4, <3>5, <3>6, <3>9 DEF StreamFits
  <2>2. CASE d # c
    BY <1>11, <2>2, OthersKeepTheirs
      DEF ReadPiece, Put, Delta, callVars, IInv, TypeOK, CallTypes, StreamTypes
  <2> QED BY <2>1, <2>2
<1>12. ASSUME NEW c \in Callers, ReadEnd(c) PROVE StreamShape'
  <2> SUFFICES ASSUME NEW d \in Callers PROVE kind'[d] = "stream" /\ d \notin gone' => StreamFits(d)'
    BY DEF StreamShape
  <2>1. CASE d = c
    <3> SUFFICES ASSUME kind[c] = "stream", c \notin gone PROVE StreamFits(c)'
      BY <1>12, <2>1 DEF ReadEnd, callVars
    <3>1. PICK e \in Ends : reader' = [reader EXCEPT ![c] = e] /\ Put(c, EndItem(e))
      BY <1>12 DEF ReadEnd
    <3>2. /\ reader[c] = "reading" /\ reader'[c] = e /\ produced'[c] = produced[c]
          /\ queue'[c] = Append(queue[c], EndItem(e)) /\ out'[c] = out[c] /\ at'[c] = at[c]
      BY <1>12, <3>1 DEF ReadEnd, Put, callVars, IInv, TypeOK, StreamTypes
    <3>3. StreamFits(c)
      BY DEF IInv, StreamShape
    <3>4. at[c] = "streaming"
      BY <3>2, <3>3 DEF StreamFits, Ends
    <3>5. Len(out[c]) \in Nat /\ produced[c] \in Nat /\ Len(queue[c]) = Left(c)
      BY <3>2, <3>3, <3>4, GatewayAssumption DEF StreamFits, IInv, TypeOK, StreamTypes
    <3>6. /\ Len(queue'[c]) = Len(queue[c]) + 1 /\ queue'[c][Len(queue[c]) + 1] = EndItem(e)
          /\ \A i \in 1..Len(queue[c]) : queue'[c][i] = queue[c][i]
      BY <3>2, AppendProperties DEF IInv, TypeOK, StreamTypes
    <3>7. Left(c)' = Left(c)
      BY <3>2 DEF Left
    <3>8. StreamKept(c)'
      BY <3>2, <3>3, <3>5, <3>6, <3>7 DEF StreamFits, StreamKept
    <3>9. reader'[c] # "reading" /\ at'[c] # "idle"
      BY <3>1, <3>2, <3>4 DEF Ends
    <3>10. Len(queue'[c]) = Left(c)' + 1 /\ queue'[c][Left(c)' + 1] = EndItem(e)
      BY <3>5, <3>6, <3>7
    <3> QED BY <2>1, <3>1, <3>2, <3>4, <3>8, <3>9, <3>10 DEF StreamFits
  <2>2. CASE d # c
    BY <1>12, <2>2, OthersKeepTheirs
      DEF ReadEnd, Put, EndItem, Ends, callVars, IInv, TypeOK, CallTypes, StreamTypes
  <2> QED BY <2>1, <2>2
<1>13. ASSUME NEW c \in Callers, Cancel(c) PROVE StreamShape'
  <2> SUFFICES ASSUME NEW d \in Callers PROVE kind'[d] = "stream" /\ d \notin gone' => StreamFits(d)'
    BY DEF StreamShape
  <2>1. CASE d = c
    BY <1>13, <2>1 DEF Cancel, streamVars
  <2>2. CASE d # c
    BY <1>13, <2>2, OthersKeepTheirs DEF Cancel, Go, cacheVars, streamVars, IInv, TypeOK, CallTypes
  <2> QED BY <2>1, <2>2
<1>14. ASSUME NEW n \in 1..MaxNames, Expire(n) PROVE StreamShape'
  <2> SUFFICES ASSUME NEW d \in Callers PROVE kind'[d] = "stream" /\ d \notin gone' => StreamFits(d)'
    BY DEF StreamShape
  <2> QED BY <1>14, OthersKeepTheirs DEF Expire, callVars, streamVars
<1>15. CASE UNCHANGED vars
  <2> SUFFICES ASSUME NEW d \in Callers PROVE kind'[d] = "stream" /\ d \notin gone' => StreamFits(d)'
    BY DEF StreamShape
  <2> QED BY <1>15, OthersKeepTheirs DEF vars, callVars, streamVars
<1> QED BY <1>1, <1>2, <1>3, <1>4, <1>5, <1>6, <1>7, <1>8, <1>9, <1>10, <1>11, <1>12, <1>13, <1>14, <1>15
    DEF Next, Work, Reading

-----------------------------------------------------------------------------
(* Theorems *)

LEMMA InitIInv == Init => IInv
<1> SUFFICES ASSUME Init PROVE IInv
  OBVIOUS
<1>1. TypeOK
  <2>1. <<>> \in Seq(Items) /\ <<>> \in Seq(1..Pieces) /\ 0 \in 0..Pieces /\ 0 \in 0..MaxCalls /\ 0 \in 0..MaxNames
    BY GatewayAssumption, EmptySeq
  <2>2. CacheTypes
    BY <2>1 DEF Init, CacheTypes
  <2>3. CallTypes
    BY <2>1 DEF Init, CallTypes, Places, Kinds
  <2>4. StreamTypes
    BY <2>1 DEF Init, StreamTypes
  <2> QED BY <2>2, <2>3, <2>4 DEF TypeOK
<1>2. KindFits /\ GoneStops /\ KeptOrEvicted /\ StreamShape
  BY DEF Init, KindFits, GoneStops, KeptOrEvicted, StreamShape, Blocking
<1>3. Locked
  BY GatewayAssumption DEF Init, Locked
<1> QED BY <1>1, <1>2, <1>3 DEF IInv

(* The invariant is inductive: it holds throughout every behaviour. *)
THEOREM Inductive == Spec => []IInv
<1>1. IInv /\ [Next]_vars => IInv'
  BY CacheTypesStep, CallTypesStep, StreamTypesStep, KindStep, LockStep, CacheStep, GoneStep, StreamStep
  DEF IInv, TypeOK
<1> QED BY InitIInv, <1>1, PTL DEF Spec

(* Every variable of a call, of the cache and of a stream has its type. *)
THEOREM GatewayTyped == Spec => []TypeOK
<1>1. IInv => TypeOK
  BY DEF IInv
<1> QED BY <1>1, Inductive, PTL

(* _CACHE_LOCK: however many callers miss the cached content at once, at   *)
(* most one content more is created than was evicted.                      *)
THEOREM OneContentAtATime == Spec => []OneCacheAtATime
<1>1. IInv => OneCacheAtATime
  BY GatewayAssumption DEF IInv, TypeOK, CacheTypes, KeptOrEvicted, OneCacheAtATime
<1> QED BY <1>1, Inductive, PTL

(* stream_text: whoever reads a stream to its end got every piece that was *)
(* read, in order, before the end or the error.                            *)
THEOREM StreamsArriveWhole == Spec => []StreamIsWhole
<1>1. ASSUME IInv, NEW c \in Callers, kind[c] = "stream", c \notin gone
      PROVE  /\ Len(out[c]) <= produced[c] /\ produced[c] <= Len(out[c]) + Len(queue[c])
             /\ \A n \in 1..produced[c] :
                  IF n <= Len(out[c]) THEN out[c][n] = n ELSE queue[c][n - Len(out[c])] = Delta(n)
             /\ at[c] = "idle" =>
                  /\ Len(out[c]) = produced[c]
                  /\ last[c] = IF reader[c] = "done" THEN "ok" ELSE "failed"
  <2>1. StreamFits(c)
    BY <1>1 DEF IInv, StreamShape
  <2>2. /\ Len(out[c]) \in Nat /\ Len(queue[c]) \in Nat /\ produced[c] \in Nat
    BY <1>1, LenProperties, GatewayAssumption DEF IInv, TypeOK, StreamTypes
  <2>3. Left(c) <= Len(queue[c])
    BY <2>1, <2>2 DEF StreamFits, Left
  <2>4. ASSUME NEW n \in 1..produced[c], ~(n <= Len(out[c]))
        PROVE  queue[c][n - Len(out[c])] = Delta(n)
    <3>1. n - Len(out[c]) \in 1..Left(c) /\ Len(out[c]) + (n - Len(out[c])) = n
      BY <2>2, <2>4 DEF Left
    <3> QED BY <2>1, <3>1 DEF StreamFits, StreamKept
  <2>5. ASSUME NEW n \in 1..produced[c], n <= Len(out[c])
        PROVE  out[c][n] = n
    BY <2>1, <2>2, <2>5 DEF StreamFits, StreamKept
  <2>6. Len(out[c]) <= produced[c] /\ produced[c] <= Len(out[c]) + Len(queue[c])
    <3>1. Len(out[c]) <= produced[c]
      BY <2>1 DEF StreamFits, StreamKept
    <3>2. produced[c] - Len(out[c]) <= Len(queue[c])
      BY <2>3 DEF Left
    <3>3. \A p, l, q \in Nat : p - l <= q => p <= l + q
      OBVIOUS
    <3> QED BY <2>2, <3>1, <3>2, <3>3
  <2>7. at[c] = "idle" =>
          Len(out[c]) = produced[c] /\ last[c] = IF reader[c] = "done" THEN "ok" ELSE "failed"
    BY <2>1, <2>2 DEF StreamFits, Left
  <2> QED BY <2>4, <2>5, <2>6, <2>7
<1>2. IInv => StreamIsWhole
  BY <1>1 DEF StreamIsWhole
<1> QED BY <1>2, Inductive, PTL
=============================================================================
